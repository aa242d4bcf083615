----------------------------- MODULE ToolCalls ------------------------------
(***************************************************************************)
(* What becomes of a tool call: ToolRegistry.call and Tool.call of         *)
(* src/actants/tools, the handlers behind them (a function, an MCP tool of *)
(* mcp/adapters.py, a RemoteAgent of a2a/client.py), and at the far end an *)
(* MCP server built by mcp/server.py over a registry of its own or an A2A  *)
(* executor.  Calls overlap, the MCP client may be left under them, the    *)
(* connection may be lost with the work done or not, and a task may be     *)
(* cancelled by someone else.                                              *)
(*                                                                         *)
(* A tool is a name, an argument list is what becomes of it, and an answer *)
(* is kept as what it stands for: a value, or the text of a failure.       *)
(***************************************************************************)
EXTENDS RemoteSessions, FiniteSets

CONSTANTS
  Calls,
  Kind,        \* [Tools -> function, unbound, foreign, served or peer]
  Server,      \* the MCP server of those that are foreign or served
  Gated,       \* requires_permission in the agent's registry
  FarGated,    \* requires_permission in the registry that is served
  MaxFaults    \* bound: connections lost, tasks cancelled, checks that raise

ASSUME CatalogAssumption ==
  /\ \A t \in DOMAIN Kind : Kind[t] \in {"function", "unbound", "foreign", "served", "peer"}
  /\ Server \in [{t \in DOMAIN Kind : Kind[t] \in {"foreign", "served"}} -> Servers]
  /\ Gated \subseteq {t \in DOMAIN Kind : Kind[t] \in {"function", "unbound"}}
  /\ FarGated \subseteq {t \in DOMAIN Kind : Kind[t] = "served"}

VARIABLES
  call,      \* [Calls -> the call and, behind it, its far end]
  task,
  faults

Peer == INSTANCE A2ATask WITH Tasks <- Calls

vars == <<client, session, toolsets, call, task, faults>>

Tools == DOMAIN Kind
Ghost == "ghost"       \* a name no tool has

(***************************************************************************)
(* Arguments the handler takes, arguments it refuses, none worth the name, *)
(* and a list with an argument that is called name.                        *)
(***************************************************************************)
Args == {"plain", "wrong", "empty", "name"}

Idle == [ tool |-> Ghost, args |-> "plain",
          pc |-> "idle",       \* asking, handling, waiting, over
          far |-> "none",      \* the MCP server: arrived, asking, running, replied
          allowed |-> {},      \* history: the registries whose check said yes
          ran |-> 0,           \* history: how often the tool's body ran
          value |-> FALSE,     \* history: it returned a value
          marked |-> FALSE,    \* the server's reply is marked as an error
          result |-> "none",   \* ok, error, raised
          says |-> "none" ]    \* what an ok result holds: value, failure, or mixed

Init ==
  /\ SessionsInit
  /\ call = [c \in Calls |-> Idle]
  /\ task = [c \in Calls |-> Peer!NoTask]
  /\ faults = 0

KindOf(c) == Kind[call[c].tool]
Result(c, kind, text) ==
  call' = [call EXCEPT ![c].pc = "over", ![c].result = kind, ![c].says = text]
Fault == faults < MaxFaults /\ faults' = faults + 1

\* Tool.call without a handler raises before its try begins.
Invoked(r) ==
  IF Kind[r.tool] = "unbound"
  THEN [r EXCEPT !.pc = "over", !.result = "raised"]
  ELSE [r EXCEPT !.pc = "handling"]

(***************************************************************************)
(* ToolRegistry.call(name, **arguments), up to its first await.  Python    *)
(* binds the arguments first: an argument called name meets the parameter  *)
(* of the same name, and the call is a TypeError.                          *)
(***************************************************************************)
Reachable(t) ==
  t \in Tools /\ Kind[t] \in {"foreign", "served"} => client \in {"inside", "exiting", "exited"}

Dispatch(c, t, a) ==
  LET made == [Idle EXCEPT !.tool = t, !.args = a]
  IN /\ call[c] = Idle /\ \A d \in Calls : d < c => call[d] # Idle
     /\ Reachable(t)
     /\ call' = [call EXCEPT ![c] =
          IF a = "name" THEN [made EXCEPT !.pc = "over", !.result = "raised"]
          ELSE IF t \notin Tools THEN [made EXCEPT !.pc = "over", !.result = "error"]
          ELSE IF t \in Gated THEN [made EXCEPT !.pc = "asking"]
          ELSE Invoked(made)]
     /\ UNCHANGED <<sessions, task, faults>>

Permit(c) ==
  /\ call[c].pc = "asking"
  /\ \/ /\ call' = [call EXCEPT ![c] = Invoked([@ EXCEPT !.allowed = {"agent"}])]
        /\ UNCHANGED faults
     \/ Result(c, "error", "none") /\ UNCHANGED faults
     \/ Fault /\ Result(c, "raised", "none")
  /\ UNCHANGED <<sessions, task>>

Refused(c) == call[c].args = "wrong"
Body(r, returns) == [r EXCEPT !.ran = @ + 1, !.value = returns]

\* A function of this process, within the try of Tool.call.
RunFunction(c) ==
  /\ call[c].pc = "handling" /\ KindOf(c) = "function"
  /\ \/ Refused(c) /\ Result(c, "error", "none")
     \/ ~Refused(c) /\ \E returns \in BOOLEAN :
          call' = [call EXCEPT ![c] =
            [Body(@, returns) EXCEPT !.pc = "over", !.result = IF returns THEN "ok" ELSE "error",
                                     !.says = IF returns THEN "value" ELSE "none"]]
  /\ UNCHANGED <<sessions, task, faults>>

(***************************************************************************)
(* The handler of an MCP tool sends the call over its session, that of a   *)
(* RemoteAgent opens a stream.  A prompt it refuses never leaves.          *)
(***************************************************************************)
Send(c) ==
  /\ call[c].pc = "handling" /\ KindOf(c) \in {"foreign", "served"}
  /\ IF session[Server[call[c].tool]] = "open"
     THEN call' = [call EXCEPT ![c].pc = "waiting", ![c].far = "arrived"]
     ELSE Result(c, "error", "none")
  /\ UNCHANGED <<sessions, task, faults>>

SendToPeer(c) ==
  /\ call[c].pc = "handling" /\ KindOf(c) = "peer"
  /\ \/ Refused(c) /\ Result(c, "error", "none") /\ UNCHANGED task
     \/ /\ ~Refused(c)
        /\ call' = [call EXCEPT ![c].pc = "waiting"]
        /\ task' = Peer!Requested(c, call[c].args = "empty")
  /\ UNCHANGED <<sessions, faults>>

(***************************************************************************)
(* The far end of an MCP call.  A foreign server marks a failure as the    *)
(* protocol has it.  Ours refuses arguments that do not fit the signature  *)
(* before its handler is reached, and marks that; past it, the handler     *)
(* renders every result of its registry, good or bad, as text.             *)
(***************************************************************************)
Reply(c, r, marked) == call' = [call EXCEPT ![c] = [r EXCEPT !.far = "replied", !.marked = marked]]

Foreign(c) ==
  /\ call[c].far = "arrived" /\ KindOf(c) = "foreign"
  /\ \/ Refused(c) /\ Reply(c, call[c], TRUE)
     \/ ~Refused(c) /\ \E returns \in BOOLEAN : Reply(c, Body(call[c], returns), ~returns)
  /\ UNCHANGED <<sessions, task, faults>>

Serve(c) ==
  /\ call[c].far = "arrived" /\ KindOf(c) = "served"
  /\ IF Refused(c) THEN Reply(c, call[c], TRUE)
     ELSE call' = [call EXCEPT ![c].far = IF call[c].tool \in FarGated THEN "asking" ELSE "running"]
  /\ UNCHANGED <<sessions, task, faults>>

FarPermit(c) ==
  /\ call[c].far = "asking"
  /\ \/ /\ call' = [call EXCEPT ![c].far = "running", ![c].allowed = @ \cup {"server"}]
        /\ UNCHANGED faults
     \/ Reply(c, call[c], FALSE) /\ UNCHANGED faults
     \/ Fault /\ Reply(c, call[c], TRUE)
  /\ UNCHANGED <<sessions, task>>

FarRun(c) ==
  /\ call[c].far = "running"
  /\ \E returns \in BOOLEAN : Reply(c, Body(call[c], returns), FALSE)
  /\ UNCHANGED <<sessions, task, faults>>

PeerStep(c) == Peer!TaskStep(c) /\ UNCHANGED <<sessions, call, faults>>
CancelTask(c) == Fault /\ Peer!CancelTask(c) /\ UNCHANGED <<sessions, call>>

(***************************************************************************)
(* The way back: the handler of an MCP tool raises what is marked and      *)
(* returns the rest, that of a RemoteAgent joins the text of every event   *)
(* it heard, and what raises is an error of Tool.call.                     *)
(***************************************************************************)
\* Mutant: a reply marked as an error is returned like any other.
Receive_Unmarked(c) ==
  /\ call[c].pc = "waiting" /\ call[c].far = "replied"
  /\ Result(c, "ok", IF call[c].value THEN "value" ELSE "failure")
  /\ UNCHANGED <<sessions, task, faults>>

Receive(c) ==
  /\ call[c].pc = "waiting" /\ call[c].far = "replied"
  /\ IF call[c].marked THEN Result(c, "error", "none")
     ELSE Result(c, "ok", IF call[c].value THEN "value" ELSE "failure")
  /\ UNCHANGED <<sessions, task, faults>>

ReceiveStream(c) ==
  /\ call[c].pc = "waiting" /\ KindOf(c) = "peer" /\ Peer!Answered(c)
  /\ LET heard == ToSet(Peer!Heard(c))
     IN Result(c, "ok", IF "artifact" \notin heard THEN "failure"
                        ELSE IF "canceled" \in heard THEN "mixed" ELSE "value")
  /\ UNCHANGED <<sessions, task, faults>>

\* The session is closed under the call, or the connection is lost, a timeout
\* included.  The far end may be anywhere and goes on.
SessionGone(c) ==
  /\ call[c].pc = "waiting" /\ KindOf(c) # "peer"
  /\ session[Server[call[c].tool]] = "closed"
  /\ Result(c, "error", "none")
  /\ UNCHANGED <<sessions, task, faults>>

Lost(c) ==
  /\ call[c].pc = "waiting"
  /\ Fault /\ Result(c, "error", "none")
  /\ UNCHANGED <<sessions, task>>

-----------------------------------------------------------------------------
AgentStep(c) ==
  \/ Permit(c) \/ RunFunction(c) \/ Send(c) \/ SendToPeer(c)
  \/ Receive(c) \/ ReceiveStream(c) \/ SessionGone(c)
FarStep(c) == Foreign(c) \/ Serve(c) \/ FarPermit(c) \/ FarRun(c) \/ PeerStep(c)
ClientStep == (SessionStep \/ Enter \/ EnterFails \/ Exit) /\ UNCHANGED <<call, task, faults>>

Next ==
  \/ ClientStep
  \/ \E c \in Calls :
       \/ \E t \in Tools \cup {Ghost}, a \in Args : Dispatch(c, t, a)
       \/ AgentStep(c) \/ FarStep(c) \/ CancelTask(c) \/ Lost(c)

Spec == Init /\ [][Next]_vars

(***************************************************************************)
(* Nobody keeps a call for ever: checks, tools and servers answer.         *)
(***************************************************************************)
FairSpec ==
  /\ Spec
  /\ \A c \in Calls : WF_vars(AgentStep(c)) /\ WF_vars(FarStep(c))
-----------------------------------------------------------------------------
(***************************************************************************)
(* An ok result that says it is a value is one its tool returned.  Text    *)
(* that is none comes only from a server or a peer of our own make, which  *)
(* send a failure or a cancellation as an ordinary answer                  *)
(* (mcp/server.py:135, a2a/client.py:86); any other failure is an error.   *)
(***************************************************************************)
Came(c) == IF KindOf(c) = "peer" THEN task[c].ran = "value" ELSE call[c].value
AnswersAreTruthful ==
  \A c \in Calls : call[c].result = "ok" =>
    /\ call[c].says # "failure" => Came(c)
    /\ call[c].says # "value" =>
         \/ KindOf(c) = "served" /\ ~call[c].value
         \/ KindOf(c) = "peer" /\ ToSet(task[c].events) \cap {"failed", "canceled"} # {}

(***************************************************************************)
(* Whatever a call went through, its tool's body ran at most once, and not *)
(* before every registry on the way that gates it had asked and was told   *)
(* yes: the far one asks as well as the near one (mcp/server.py:28).       *)
(***************************************************************************)
RunsAreLicensed ==
  \A c \in Calls :
    /\ call[c].ran <= 1
    /\ call[c].ran = 1 /\ call[c].tool \in Gated => "agent" \in call[c].allowed
    /\ call[c].ran = 1 /\ call[c].tool \in FarGated => "server" \in call[c].allowed

\* What ran was allowed to, and what came back of it is what it was.
CallsAreHonest == RunsAreLicensed /\ AnswersAreTruthful

(***************************************************************************)
(* A task goes the standard way (docs_site/a2a/server.md): but for         *)
(* cancellations, which may come between any two events and after which it *)
(* may still be completed, its events are a beginning of one of three:     *)
(* each is one of the lifecycle's, and those before it are just the        *)
(* lifecycle's before it.                                                  *)
(***************************************************************************)
Lifecycles == { <<"submitted", "working", "artifact", "completed">>,
                <<"submitted", "working", "failed">>, <<"submitted", "failed">> }
Own(events) == ToSet(events) \ {"canceled"}
Follows(events, l) ==
  \A i \in DOMAIN events : events[i] # "canceled" =>
    \E k \in DOMAIN l : /\ l[k] = events[i]
                       /\ {events[j] : j \in 1..(i - 1)} \ {"canceled"}
                            = {l[m] : m \in 1..(k - 1)}
TasksAreOrderly ==
  \A c \in Calls :
    /\ \E l \in Lifecycles : Follows(task[c].events, l)
    /\ "completed" \in Own(task[c].events) => task[c].ran = "value"
    /\ "failed" \in Own(task[c].events) => task[c].ran = "raised" \/ task[c].empty

(***************************************************************************)
(* Inside the block every listed tool has a session, after it no session   *)
(* is left, and at any time those open are the first ones configured.  A   *)
(* client that could not be entered keeps them (mcp/client.py:67).         *)
(***************************************************************************)
SessionsFollowTheBlock ==
  /\ client = "inside" => toolsets = Servers /\ InState("open") = DOMAIN Config
  /\ client = "exited" => InState("open") = {}
  /\ \E n \in 0..Len(Config) : InState("open") = 1..n

(***************************************************************************)
(* Every call of a tool comes to an end, a client being left or not.       *)
(***************************************************************************)
EveryCallEnds == \A c \in Calls : call[c].pc # "idle" ~> call[c].pc = "over"

-----------------------------------------------------------------------------
(***************************************************************************)
(* tools/registry.py:206: "Dispatch a tool call, returning failures as a   *)
(* ToolResult rather than raising."                                        *)
(***************************************************************************)
NoCallRaises == \A c \in Calls : call[c].result # "raised"
=============================================================================
