--------------------------- MODULE MCOfflineSuite ---------------------------
EXTENDS OfflineSuite

Ask(tools) == [k |-> "call", tools |-> tools]
Say(s) == [k |-> "final", text |-> s]

MCAnswers == {Ask(<<"search", "book">>), Ask(<<"book">>), Say("yes")}
MCPrompts == {<<"p", "q">>, <<"p", "p">>}
MCScorers == <<ToolsCalledInOrder(<<"search", "book">>), ToolCalledTimes("book", 1)>>
=============================================================================
