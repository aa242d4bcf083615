----------------------------- MODULE MCLLMCalls -----------------------------
(* Instances of LLMCalls for TLC.                                          *)
EXTENDS LLMCalls

CONSTANTS ann, bob, local, hosted, hi, hello, bye, seed, plain, tag

MCCallers == {ann, bob}
MCChain   == <<local, hosted>>
MCTexts   == {hi, hello, bye}
MCExtras  == {plain, seed}

MCPlace    == (hi :> 0) @@ (hello :> 1) @@ (bye :> 3)
MCDistance == [p \in MCTexts \X MCTexts |->
                 IF MCPlace[p[1]] > MCPlace[p[2]] THEN MCPlace[p[1]] - MCPlace[p[2]]
                 ELSE MCPlace[p[2]] - MCPlace[p[1]]]

Arguments(kind, extra, t, caching) ==
  [kind |-> kind, req |-> [text |-> hi, extra |-> extra], tag |-> t, caching |-> caching]

\* Two requests that differ in a passthrough parameter only, and one call of each
\* shape of loop: one round or several, streamed or not.
MCCalls ==
  { Arguments("complete", plain, tag, TRUE), Arguments("complete", seed, NoTag, TRUE),
    Arguments("extract", plain, tag, FALSE), Arguments("stream", plain, NoTag, FALSE),
    Arguments("run_agent_stream", plain, tag, FALSE) }

OnDisk(n, text, extra, created) == Entry([text |-> text, extra |-> extra], <<"file", n>>, created)

\* Files an earlier process may have left: a nearest answer that expires before the
\* next one, a nearer answer in another scope, one that is too far, and a file of
\* another version.
MCFiles ==
  { [version |-> "current", entries |-> {OnDisk(1, hi, plain, -1), OnDisk(2, hello, plain, 0)}],
    [version |-> "current", entries |-> {OnDisk(3, hi, seed, 0), OnDisk(4, hello, plain, 0)}],
    [version |-> "current", entries |-> {OnDisk(5, bye, plain, 0)}],
    [version |-> "other",   entries |-> {OnDisk(6, hi, plain, 0)}] }
=============================================================================
