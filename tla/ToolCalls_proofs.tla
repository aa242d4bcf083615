-------------------------- MODULE ToolCalls_proofs --------------------------
(***************************************************************************)
(* Proofs about ToolCalls and the modules it is made of, for any tools,    *)
(* servers, calls and faults: the sessions of the MCP client, the events   *)
(* of an A2A task, what a call may do and say, and that it comes to an     *)
(* end whatever becomes of its far end.                                    *)
(***************************************************************************)
EXTENDS ToolCalls, WellFoundedInduction, TLAPS

-----------------------------------------------------------------------------
(* The sessions of the client.                                             *)

\* The configured servers are distinct, so a session is set by its position.
LEMMA ConfigFacts ==
  /\ Len(Config) \in Nat /\ DOMAIN Config = 1..Len(Config)
  /\ \A i \in DOMAIN Config : Config[i] \in Servers
  /\ \A i, j \in DOMAIN Config : Config[i] = Config[j] => i = j
  /\ \A s \in Servers : \E i \in DOMAIN Config : s = Config[i]
BY ConfigAssumption DEF IsInjective, Servers, ToSet

\* The first n sessions are in one state and the rest in another.
Split(n, low, high) ==
  \A i \in DOMAIN Config : session[Config[i]] = IF i <= n THEN low ELSE high

Listed(n) == toolsets \subseteq {Config[i] : i \in 1..n}

SInv ==
  /\ client \in {"new", "entering", "inside", "exiting", "exited", "broken"}
  /\ session \in [Servers -> {"none", "open", "closed"}]
  /\ toolsets \subseteq Servers
  /\ client = "new" => Split(0, "open", "none") /\ toolsets = {}
  /\ client \in {"entering", "broken"} =>
       \E n \in 0..Len(Config) : Split(n, "open", "none") /\ Listed(n)
  /\ client = "inside" => Split(Len(Config), "open", "none") /\ toolsets = Servers
  /\ client = "exiting" => \E n \in 0..Len(Config) : Split(n, "open", "closed")
  /\ client = "exited" => Split(0, "open", "closed")

\* The positions of the open sessions, and of the others.
LEMMA SplitFacts ==
  ASSUME NEW n \in 0..Len(Config), NEW high \in {"none", "closed"}, Split(n, "open", high)
  PROVE  /\ InState("open") = 1..n
         /\ InState(high) = (n + 1)..Len(Config)
         /\ n > 0 => LastOpen = Config[n]
         /\ n < Len(Config) /\ high = "none" => FirstUnopened = Config[n + 1]
<1>1. InState("open") = 1..n /\ InState(high) = (n + 1)..Len(Config)
  BY ConfigFacts DEF InState, Split
<1>2. ASSUME n > 0
      PROVE  (CHOOSE i \in InState("open") : \A j \in InState("open") : i >= j) = n
  BY <1>1, <1>2
<1>3. ASSUME n < Len(Config), high = "none"
      PROVE  (CHOOSE i \in InState("none") : \A j \in InState("none") : i <= j) = n + 1
  <2>1. n + 1 \in InState("none") /\ \A j \in InState("none") : n + 1 <= j
    BY <1>1, <1>3, ConfigFacts
  <2>2. \A i \in InState("none") : i \in Nat
    BY <1>1, <1>3
  <2>. QED
    BY <2>1, <2>2
<1>. QED
  BY <1>1, <1>2, <1>3 DEF LastOpen, FirstUnopened

LEMMA SessionNext == SInv /\ [Next]_vars => SInv'
<1> SUFFICES ASSUME SInv, [Next]_vars
             PROVE  SInv'
  OBVIOUS
<1>1. CASE UNCHANGED sessions
  BY <1>1 DEF sessions, SInv, Split, Listed
<1>2. CASE Enter
  BY <1>2, ConfigFacts DEF Enter, SInv, Split, Listed
<1>3. CASE OpenSession
  <2>1. PICK n \in 0..Len(Config) : Split(n, "open", "none") /\ Listed(n)
    BY <1>3 DEF OpenSession, SInv
  <2>2. n < Len(Config) /\ FirstUnopened = Config[n + 1]
    <3>1. InState("none") = (n + 1)..Len(Config)
      BY <2>1, SplitFacts
    <3>2. n < Len(Config)
      BY <1>3, <3>1, ConfigFacts DEF OpenSession
    <3>. QED
      BY <2>1, <3>2, SplitFacts
  <2>3. /\ client' = "entering" /\ toolsets' = toolsets
        /\ session' = [session EXCEPT ![Config[n + 1]] = "open"]
    BY <1>3, <2>2 DEF OpenSession
  <2>4. n + 1 \in DOMAIN Config /\ n + 1 \in 0..Len(Config)
    BY <2>2, ConfigFacts
  <2>5. session' \in [Servers -> {"none", "open", "closed"}]
    BY <2>3 DEF SInv
  <2>6. \A i \in DOMAIN Config :
          session'[Config[i]] = IF i = n + 1 THEN "open" ELSE session[Config[i]]
    BY <2>3, <2>4, ConfigFacts DEF SInv
  <2>7. Split(n + 1, "open", "none")'
    <3> SUFFICES ASSUME NEW i \in DOMAIN Config
                 PROVE  session'[Config[i]] = IF i <= n + 1 THEN "open" ELSE "none"
      BY DEF Split
    <3>1. i \in Nat
      BY ConfigFacts
    <3>. QED
      BY <2>1, <2>6, <3>1 DEF Split
  <2>8. Listed(n + 1)'
    BY <2>1, <2>3 DEF Listed
  <2>. QED
    BY <2>3, <2>4, <2>5, <2>7, <2>8 DEF SInv
<1>4. CASE ListTools
  <2>1. PICK n \in 0..Len(Config) : Split(n, "open", "none") /\ Listed(n)
    BY <1>4 DEF ListTools, SInv
  <2>2. PICK s \in Listing : toolsets' = toolsets \cup {s}
    BY <1>4 DEF ListTools
  <2>3. PICK i \in DOMAIN Config : s = Config[i] /\ session[Config[i]] = "open"
    BY <2>2, ConfigFacts DEF Listing
  <2>4. i \in 1..n
    BY <2>1, <2>3, ConfigFacts DEF Split
  <2>5. Listed(n)' /\ toolsets' \subseteq Servers
    BY <2>1, <2>2, <2>3, <2>4 DEF Listed, SInv, Listing
  <2>. QED
    BY <1>4, <2>1, <2>5 DEF ListTools, SInv, Split
<1>5. CASE Entered
  <2>1. PICK n \in 0..Len(Config) : Split(n, "open", "none") /\ Listed(n)
    BY <1>5 DEF Entered, SInv
  <2>2. n = Len(Config)
    <3> SUFFICES ASSUME n < Len(Config)
                 PROVE  FALSE
      OBVIOUS
    <3>1. Len(Config) \in DOMAIN Config /\ Config[Len(Config)] \in toolsets
      BY <1>5, ConfigFacts DEF Entered
    <3>2. PICK i \in 1..n : Config[i] = Config[Len(Config)]
      BY <2>1, <3>1 DEF Listed
    <3>. QED
      BY <3>1, <3>2, ConfigFacts
  <2>. QED
    BY <1>5, <2>1, <2>2 DEF Entered, SInv, Split
<1>6. CASE EnterFails
  BY <1>6 DEF EnterFails, SInv, Split, Listed
<1>7. CASE Exit
  <2>1. Len(Config) \in 0..Len(Config) /\ Split(Len(Config), "open", "closed")'
    BY <1>7, ConfigFacts DEF Exit, SInv, Split
  <2>. QED
    BY <1>7, <2>1 DEF Exit, SInv
<1>8. CASE CloseSession
  <2>1. PICK n \in 0..Len(Config) : Split(n, "open", "closed")
    BY <1>8 DEF CloseSession, SInv
  <2>2. n > 0 /\ LastOpen = Config[n]
    BY <1>8, <2>1, SplitFacts DEF CloseSession
  <2>3. /\ client' = "exiting" /\ toolsets' = toolsets
        /\ session' = [session EXCEPT ![Config[n]] = "closed"]
    BY <1>8, <2>2 DEF CloseSession
  <2>4. n \in DOMAIN Config /\ n - 1 \in 0..Len(Config)
    BY <2>2, ConfigFacts
  <2>5. session' \in [Servers -> {"none", "open", "closed"}]
    BY <2>3 DEF SInv
  <2>6. \A i \in DOMAIN Config :
          session'[Config[i]] = IF i = n THEN "closed" ELSE session[Config[i]]
    BY <2>3, <2>4, ConfigFacts DEF SInv
  <2>7. Split(n - 1, "open", "closed")'
    <3> SUFFICES ASSUME NEW i \in DOMAIN Config
                 PROVE  session'[Config[i]] = IF i <= n - 1 THEN "open" ELSE "closed"
      BY DEF Split
    <3>1. i \in Nat
      BY ConfigFacts
    <3>. QED
      BY <2>1, <2>6, <3>1 DEF Split
  <2>. QED
    BY <2>3, <2>4, <2>5, <2>7 DEF SInv
<1>9. CASE Exited
  <2>1. PICK n \in 0..Len(Config) : Split(n, "open", "closed")
    BY <1>9 DEF Exited, SInv
  <2>2. n = 0
    BY <1>9, <2>1, SplitFacts DEF Exited
  <2>. QED
    BY <1>9, <2>1, <2>2 DEF Exited, SInv, Split
<1>. QED
  BY <1>1, <1>2, <1>3, <1>4, <1>5, <1>6, <1>7, <1>8, <1>9
     DEF Next, vars, ClientStep, SessionStep, sessions, AgentStep, FarStep, Dispatch, Permit,
         RunFunction, Send, SendToPeer, Receive, ReceiveStream, SessionGone, Foreign, Serve,
         FarPermit, FarRun, PeerStep, CancelTask, Lost

LEMMA SessionInvariance == Spec => []SInv
<1>1. Init => SInv
  <2> SUFFICES ASSUME Init
               PROVE  SInv
    OBVIOUS
  <2>. QED
    BY ConfigFacts DEF Init, SessionsInit, SInv, Split
<1>. QED
  BY <1>1, SessionNext, PTL DEF Spec

\* In the block every listed tool has a session, after it none is left, and at
\* any time the open ones are the first of the configuration.
THEOREM SessionsFollow == Spec => []SessionsFollowTheBlock
<1>1. SInv => SessionsFollowTheBlock
  <2> SUFFICES ASSUME SInv
               PROVE  SessionsFollowTheBlock
    OBVIOUS
  <2>1. \E n \in 0..Len(Config), high \in {"none", "closed"} :
          /\ Split(n, "open", high)
          /\ client = "inside" => n = Len(Config)
          /\ client = "exited" => n = 0
    <3>1. 0 \in 0..Len(Config) /\ Len(Config) \in 0..Len(Config)
      BY ConfigFacts
    <3>. QED
      BY <3>1 DEF SInv
  <2>2. PICK n \in 0..Len(Config) : /\ InState("open") = 1..n
                                    /\ client = "inside" => n = Len(Config)
                                    /\ client = "exited" => n = 0
    BY <2>1, SplitFacts
  <2>3. client = "inside" => toolsets = Servers /\ InState("open") = DOMAIN Config
    BY <2>2, ConfigFacts DEF SInv
  <2>4. client = "exited" => InState("open") = {}
    BY <2>2
  <2>. QED
    BY <2>2, <2>3, <2>4 DEF SessionsFollowTheBlock
<1>. QED
  BY <1>1, SessionInvariance, PTL

\* Any non-empty set of natural numbers has a least element.
LEMMA LeastElement ==
  ASSUME NEW T \in SUBSET Nat, T # {}
  PROVE  \E x \in T : \A y \in T : x <= y
<1>1. PICK x \in T : \A y \in T : ~(<<y, x>> \in OpToRel(<, Nat))
  BY WFMin, NatLessThanWellFounded
<1>2. \A y \in T : ~(y < x)
  BY <1>1 DEF OpToRel
<1>. QED
  BY <1>2

-----------------------------------------------------------------------------
(* The events of a task.                                                   *)

Event == {"submitted", "working", "artifact"} \cup Peer!Final
Task  == [at : {"none", "requested", "submitted", "working", "answered", "raising", "artifact",
                "over"},
          empty : BOOLEAN, events : Seq(Event), ran : {"no", "value", "raised"}]

\* The lifecycles: of a run that returns, of one that raises, of an empty prompt.
Good   == <<"submitted", "working", "artifact", "completed">>
Bad    == <<"submitted", "working", "failed">>
Vacant == <<"submitted", "failed">>

\* What has been said of a task follows from where it is.
TaskOK(t) ==
  /\ t \in Task
  /\ t.at \in {"none", "requested"} => t.events = <<>>
  /\ t.at \in {"none", "requested", "submitted", "working"} => t.ran = "no"
  /\ t.at = "submitted" => /\ Own(t.events) = {"submitted"}
                           /\ \A l \in Lifecycles : Follows(t.events, l)
  /\ t.at \in {"working", "answered", "raising"} =>
       /\ Own(t.events) = {"submitted", "working"}
       /\ Follows(t.events, Good) /\ Follows(t.events, Bad)
  /\ t.at = "artifact" => /\ Own(t.events) = {"submitted", "working", "artifact"}
                          /\ Follows(t.events, Good)
  /\ t.at = "answered" => t.ran = "value"
  /\ t.at = "raising" => t.ran = "raised"
  /\ \E l \in Lifecycles : Follows(t.events, l)
  /\ Own(t.events) \cap {"artifact", "completed"} # {} => t.ran = "value"
  /\ "failed" \in Own(t.events) => t.ran = "raised" \/ t.empty

\* An event joins the last of the list.
LEMMA AppendedEvent ==
  ASSUME NEW events \in Seq(Event), NEW e \in Event
  PROVE  /\ Append(events, e) \in Seq(Event)
         /\ ToSet(Append(events, e)) = ToSet(events) \cup {e}
         /\ Own(Append(events, e)) = Own(events) \cup ({e} \ {"canceled"})
<1> DEFINE t == Append(events, e)
<1>1. /\ t \in Seq(Event) /\ Len(events) \in Nat
      /\ DOMAIN events = 1..Len(events) /\ DOMAIN t = 1..(Len(events) + 1)
      /\ \A i \in 1..Len(events) : t[i] = events[i]
      /\ t[Len(events) + 1] = e
  OBVIOUS
<1> HIDE DEF t
<1>2. ToSet(t) = ToSet(events) \cup {e}
  <2>1. 1..(Len(events) + 1) = 1..Len(events) \cup {Len(events) + 1}
    BY <1>1
  <2>. QED
    BY <1>1, <2>1 DEF ToSet
<1>. QED
  BY <1>1, <1>2 DEF Own, t

\* A list goes on following a lifecycle if its next event is the next of the
\* lifecycle, or a cancellation.
LEMMA FollowsOn ==
  ASSUME NEW events \in Seq(Event), NEW e \in Event, NEW l, Follows(events, l),
         e # "canceled" => \E k \in DOMAIN l : /\ l[k] = e
                                               /\ Own(events) = {l[m] : m \in 1..(k - 1)}
  PROVE  Follows(Append(events, e), l)
<1> DEFINE t == Append(events, e)
<1>1. /\ Len(events) \in Nat
      /\ DOMAIN events = 1..Len(events) /\ DOMAIN t = 1..(Len(events) + 1)
      /\ \A i \in 1..Len(events) : t[i] = events[i]
      /\ t[Len(events) + 1] = e
  OBVIOUS
<1> HIDE DEF t
<1>2. ASSUME NEW i \in 1..(Len(events) + 1)
      PROVE  {t[j] : j \in 1..(i - 1)} = {events[j] : j \in 1..(i - 1)}
  <2>1. 1..(i - 1) \subseteq 1..Len(events)
    BY <1>1
  <2>. QED
    BY <1>1, <2>1
<1>3. {events[j] : j \in 1..((Len(events) + 1) - 1)} = ToSet(events)
  <2>1. 1..((Len(events) + 1) - 1) = 1..Len(events)
    BY <1>1
  <2>. QED
    BY <1>1, <2>1 DEF ToSet
<1>4. ASSUME NEW i \in DOMAIN t, t[i] # "canceled"
      PROVE  \E k \in DOMAIN l : /\ l[k] = t[i]
                                 /\ {t[j] : j \in 1..(i - 1)} \ {"canceled"}
                                      = {l[m] : m \in 1..(k - 1)}
  <2>1. CASE i = Len(events) + 1
    BY <1>1, <1>2, <1>3, <1>4, <2>1 DEF Own
  <2>2. CASE i # Len(events) + 1
    <3>1. i \in DOMAIN events /\ t[i] = events[i]
      BY <1>1, <2>2
    <3>. QED
      BY <1>1, <1>2, <1>4, <3>1 DEF Follows
  <2>. QED
    BY <2>1, <2>2
<1>. QED
  BY <1>4 DEF Follows, t

\* The events of a task before an event it has of a lifecycle.
LEMMA LifecycleFacts ==
  /\ Lifecycles = {Good, Bad, Vacant}
  /\ DOMAIN Good = 1..4 /\ DOMAIN Bad = 1..3 /\ DOMAIN Vacant = 1..2
  /\ Good[1] = "submitted" /\ Good[2] = "working" /\ Good[3] = "artifact"
  /\ Good[4] = "completed"
  /\ Bad[1] = "submitted" /\ Bad[2] = "working" /\ Bad[3] = "failed"
  /\ Vacant[1] = "submitted" /\ Vacant[2] = "failed"
BY DEF Lifecycles, Good, Bad, Vacant

LEMMA BeginningFacts ==
  /\ \A l \in Lifecycles : /\ 1 \in DOMAIN l /\ l[1] = "submitted" /\ {l[m] : m \in 1..0} = {}
  /\ \A l \in {Good, Bad} : /\ 2 \in DOMAIN l /\ l[2] = "working"
                            /\ {l[m] : m \in 1..1} = {"submitted"}
  /\ {Bad[m] : m \in 1..2} = {"submitted", "working"}
  /\ {Good[m] : m \in 1..2} = {"submitted", "working"}
  /\ {Good[m] : m \in 1..3} = {"submitted", "working", "artifact"}
  /\ {Vacant[m] : m \in 1..1} = {"submitted"}
<1>1. 1..0 = {} /\ 1..1 = {1} /\ 1..2 = {1, 2} /\ 1..3 = {1, 2, 3}
  OBVIOUS
<1>. QED
  BY <1>1, LifecycleFacts

\* Every step of the executor keeps what is said of its task true, takes back no
\* event, and no value.
LEMMA TaskStepFacts ==
  ASSUME NEW c \in Calls, task \in [Calls -> Task], TaskOK(task[c]),
         Peer!TaskStep(c) \/ Peer!CancelTask(c)
  PROVE  /\ task' = [task EXCEPT ![c] = task'[c]]
         /\ TaskOK(task'[c])
         /\ ToSet(task[c].events) \subseteq ToSet(task'[c].events)
         /\ task[c].ran = "value" => task'[c].ran = "value"
<1> DEFINE t == task[c]
           u == task'[c]
<1>0. t \in Task /\ t.events \in Seq(Event)
  BY DEF Task
\* An event is enqueued.
<1>1. ASSUME NEW e \in Event, NEW next \in {"submitted", "working", "artifact", "over", t.at},
             Peer!Enqueue(c, e, next)
      PROVE  /\ task' = [task EXCEPT ![c] = u]
             /\ u \in Task /\ u.at = next /\ u.empty = t.empty /\ u.ran = t.ran
             /\ u.events = Append(t.events, e)
  <2>1. task' = [task EXCEPT ![c] = [t EXCEPT !.events = Append(t.events, e), !.at = next]]
    BY <1>1 DEF Peer!Enqueue
  <2>2. u = [t EXCEPT !.events = Append(t.events, e), !.at = next]
    BY <2>1
  <2>3. Append(t.events, e) \in Seq(Event)
    BY <1>0
  <2>. QED
    BY <1>0, <2>1, <2>2, <2>3 DEF Task
<1>2. ToSet(<<>>) = {} /\ Own(<<>>) = {} /\ \A l \in Lifecycles : Follows(<<>>, l)
  BY DEF ToSet, Own, Follows
<1>3. \A e \in Event : /\ ToSet(Append(t.events, e)) = ToSet(t.events) \cup {e}
                       /\ Own(Append(t.events, e)) = Own(t.events) \cup ({e} \ {"canceled"})
  BY <1>0, AppendedEvent
<1>4. /\ {"submitted", "working", "artifact", "failed", "completed", "canceled"} \subseteq Event
      /\ {Good, Bad, Vacant} = Lifecycles
  BY LifecycleFacts DEF Event, Peer!Final
<1> HIDE DEF t, u
<1>5. CASE Peer!Submit(c)
  <2>1. /\ task' = [task EXCEPT ![c] = u] /\ u \in Task /\ u.at = "submitted"
        /\ u.ran = t.ran /\ u.events = Append(t.events, "submitted")
    BY <1>1, <1>4, <1>5 DEF Peer!Submit
  <2>2. t.events = <<>> /\ t.ran = "no"
    BY <1>5 DEF Peer!Submit, TaskOK, t
  <2>3. ASSUME NEW l \in Lifecycles
        PROVE  Follows(u.events, l)
    <3>1. 1 \in DOMAIN l /\ l[1] = "submitted" /\ {l[m] : m \in 1..(1 - 1)} = {}
      BY BeginningFacts
    <3>2. Follows(t.events, l) /\ Own(t.events) = {l[m] : m \in 1..(1 - 1)}
      BY <1>2, <2>2, <3>1
    <3>. QED
      BY <1>0, <1>4, <2>1, <3>1, <3>2, FollowsOn
  <2>4. ToSet(u.events) = {"submitted"} /\ Own(u.events) = {"submitted"}
    BY <1>2, <1>3, <1>4, <2>1, <2>2
  <2>5. TaskOK(u)
    BY <1>4, <2>1, <2>2, <2>3, <2>4 DEF TaskOK
  <2>. QED
    BY <1>2, <2>1, <2>2, <2>5 DEF t, u
<1>6. CASE Peer!RefuseEmpty(c)
  <2>1. /\ task' = [task EXCEPT ![c] = u] /\ u \in Task /\ u.at = "over" /\ u.empty = t.empty
        /\ u.ran = t.ran /\ u.events = Append(t.events, "failed")
    BY <1>1, <1>4, <1>6 DEF Peer!RefuseEmpty
  <2>2. t.empty /\ Own(t.events) = {"submitted"} /\ Follows(t.events, Vacant)
    BY <1>4, <1>6 DEF Peer!RefuseEmpty, TaskOK, t
  <2>3. Follows(u.events, Vacant)
    <3>1. 2 \in DOMAIN Vacant /\ Vacant[2] = "failed" /\ {Vacant[m] : m \in 1..(2 - 1)} = {"submitted"}
      BY BeginningFacts, LifecycleFacts
    <3>. QED
      BY <1>0, <1>4, <2>1, <2>2, <3>1, FollowsOn
  <2>4. ToSet(t.events) \subseteq ToSet(u.events) /\ Own(u.events) = {"submitted", "failed"}
    BY <1>3, <1>4, <2>1, <2>2
  <2>5. TaskOK(u)
    BY <1>4, <2>1, <2>2, <2>3, <2>4 DEF TaskOK
  <2>. QED
    BY <2>1, <2>4, <2>5 DEF t, u
<1>7. CASE Peer!Working(c)
  <2>1. /\ task' = [task EXCEPT ![c] = u] /\ u \in Task /\ u.at = "working"
        /\ u.ran = t.ran /\ u.events = Append(t.events, "working")
    BY <1>1, <1>4, <1>7 DEF Peer!Working
  <2>2. /\ Own(t.events) = {"submitted"} /\ Follows(t.events, Good) /\ Follows(t.events, Bad)
        /\ t.ran = "no"
    BY <1>4, <1>7 DEF Peer!Working, TaskOK, t
  <2>3. ASSUME NEW l \in {Good, Bad}
        PROVE  Follows(u.events, l)
    <3>1. 2 \in DOMAIN l /\ l[2] = "working" /\ {l[m] : m \in 1..(2 - 1)} = {"submitted"}
      BY BeginningFacts
    <3>. QED
      BY <1>0, <1>4, <2>1, <2>2, <3>1, FollowsOn
  <2>4. ToSet(t.events) \subseteq ToSet(u.events) /\ Own(u.events) = {"submitted", "working"}
    BY <1>3, <1>4, <2>1, <2>2
  <2>5. TaskOK(u)
    BY <1>4, <2>1, <2>2, <2>3, <2>4 DEF TaskOK
  <2>. QED
    BY <2>1, <2>4, <2>5 DEF t, u
<1>8. CASE Peer!RunAgent(c)
  <2>1. PICK o \in {"value", "raised"} :
          task' = [task EXCEPT ![c].ran = o,
                               ![c].at = IF o = "value" THEN "answered" ELSE "raising"]
    BY <1>8 DEF Peer!RunAgent
  <2>2. u = [t EXCEPT !.ran = o, !.at = IF o = "value" THEN "answered" ELSE "raising"]
    BY <2>1 DEF t, u
  <2>3. /\ u \in Task /\ u.events = t.events /\ u.ran = o
        /\ u.at = IF o = "value" THEN "answered" ELSE "raising"
    BY <1>0, <2>2 DEF Task
  <2>4. /\ t.ran = "no" /\ Own(t.events) = {"submitted", "working"}
        /\ Follows(t.events, Good) /\ Follows(t.events, Bad)
    BY <1>8 DEF Peer!RunAgent, TaskOK, t
  <2>5. TaskOK(u)
    BY <1>4, <2>3, <2>4 DEF TaskOK
  <2>6. task' = [task EXCEPT ![c] = u]
    BY <2>1, <2>2 DEF t
  <2>. QED
    BY <2>3, <2>4, <2>5, <2>6 DEF t, u
<1>9. CASE Peer!Fail(c)
  <2>1. /\ task' = [task EXCEPT ![c] = u] /\ u \in Task /\ u.at = "over"
        /\ u.ran = t.ran /\ u.events = Append(t.events, "failed")
    BY <1>1, <1>4, <1>9 DEF Peer!Fail
  <2>2. Own(t.events) = {"submitted", "working"} /\ Follows(t.events, Bad) /\ t.ran = "raised"
    BY <1>9 DEF Peer!Fail, TaskOK, t
  <2>3. Follows(u.events, Bad)
    <3>1. /\ 3 \in DOMAIN Bad /\ Bad[3] = "failed"
          /\ {Bad[m] : m \in 1..(3 - 1)} = {"submitted", "working"}
      BY BeginningFacts, LifecycleFacts
    <3>. QED
      BY <1>0, <1>4, <2>1, <2>2, <3>1, FollowsOn
  <2>4. /\ ToSet(t.events) \subseteq ToSet(u.events)
        /\ Own(u.events) = {"submitted", "working", "failed"}
    BY <1>3, <1>4, <2>1, <2>2
  <2>5. TaskOK(u)
    BY <1>4, <2>1, <2>2, <2>3, <2>4 DEF TaskOK
  <2>. QED
    BY <2>1, <2>4, <2>5 DEF t, u
<1>10. CASE Peer!Artifact(c)
  <2>1. /\ task' = [task EXCEPT ![c] = u] /\ u \in Task /\ u.at = "artifact"
        /\ u.ran = t.ran /\ u.events = Append(t.events, "artifact")
    BY <1>1, <1>4, <1>10 DEF Peer!Artifact
  <2>2. Own(t.events) = {"submitted", "working"} /\ Follows(t.events, Good) /\ t.ran = "value"
    BY <1>10 DEF Peer!Artifact, TaskOK, t
  <2>3. Follows(u.events, Good)
    <3>1. /\ 3 \in DOMAIN Good /\ Good[3] = "artifact"
          /\ {Good[m] : m \in 1..(3 - 1)} = {"submitted", "working"}
      BY BeginningFacts, LifecycleFacts
    <3>. QED
      BY <1>0, <1>4, <2>1, <2>2, <3>1, FollowsOn
  <2>4. /\ ToSet(t.events) \subseteq ToSet(u.events)
        /\ Own(u.events) = {"submitted", "working", "artifact"}
    BY <1>3, <1>4, <2>1, <2>2
  <2>5. TaskOK(u)
    BY <1>4, <2>1, <2>2, <2>3, <2>4 DEF TaskOK
  <2>. QED
    BY <2>1, <2>4, <2>5 DEF t, u
<1>11. CASE Peer!Complete(c)
  <2>1. /\ task' = [task EXCEPT ![c] = u] /\ u \in Task /\ u.at = "over"
        /\ u.ran = t.ran /\ u.events = Append(t.events, "completed")
    BY <1>1, <1>4, <1>11 DEF Peer!Complete
  <2>2. /\ Own(t.events) = {"submitted", "working", "artifact"} /\ Follows(t.events, Good)
        /\ t.ran = "value"
    <3>1. Own(t.events) = {"submitted", "working", "artifact"} /\ Follows(t.events, Good)
      BY <1>11 DEF Peer!Complete, TaskOK, t
    <3>. QED
      BY <3>1 DEF TaskOK, t
  <2>3. Follows(u.events, Good)
    <3>1. /\ 4 \in DOMAIN Good /\ Good[4] = "completed"
          /\ {Good[m] : m \in 1..(4 - 1)} = {"submitted", "working", "artifact"}
      BY BeginningFacts, LifecycleFacts
    <3>. QED
      BY <1>0, <1>4, <2>1, <2>2, <3>1, FollowsOn
  <2>4. /\ ToSet(t.events) \subseteq ToSet(u.events)
        /\ Own(u.events) = {"submitted", "working", "artifact", "completed"}
    BY <1>3, <1>4, <2>1, <2>2
  <2>5. TaskOK(u)
    BY <1>4, <2>1, <2>2, <2>3, <2>4 DEF TaskOK
  <2>. QED
    BY <2>1, <2>4, <2>5 DEF t, u
<1>12. CASE Peer!CancelTask(c)
  <2>1. PICK next \in {t.at, "over"} : Peer!Enqueue(c, "canceled", next)
    BY <1>12 DEF Peer!CancelTask, t
  <2>2. /\ task' = [task EXCEPT ![c] = u] /\ u \in Task /\ u.at = next /\ u.empty = t.empty
        /\ u.ran = t.ran /\ u.events = Append(t.events, "canceled")
    BY <1>1, <1>4, <2>1
  <2>3. ToSet(t.events) \subseteq ToSet(u.events) /\ Own(u.events) = Own(t.events)
    BY <1>3, <1>4, <2>2
  <2>4. \A l : Follows(t.events, l) => Follows(u.events, l)
    BY <1>0, <1>4, <2>2, FollowsOn
  <2>5. t.at \notin {"none", "requested"}
    BY <1>12 DEF Peer!CancelTask, t
  <2>6. TaskOK(t)
    BY DEF t
  <2>7. TaskOK(u)
    BY <2>2, <2>3, <2>4, <2>5, <2>6 DEF TaskOK
  <2>. QED
    BY <2>2, <2>3, <2>7 DEF t, u
<1>. QED
  BY <1>5, <1>6, <1>7, <1>8, <1>9, <1>10, <1>11, <1>12 DEF Peer!TaskStep

-----------------------------------------------------------------------------
(* The calls.                                                              *)

Far     == {"none", "arrived", "asking", "running", "replied"}
CallRec == [tool : Tools \cup {Ghost}, args : Args,
            pc : {"idle", "asking", "handling", "waiting", "over"}, far : Far,
            allowed : SUBSET {"agent", "server"}, ran : {0, 1}, value : BOOLEAN,
            marked : BOOLEAN, result : {"none", "ok", "error", "raised"},
            says : {"none", "value", "failure", "mixed"}]

\* What has run, what was asked before, and what an answer holds, by where the
\* call and its far end are.  t is its task, if it went to a peer.
CallOK(r, t) ==
  /\ r \in CallRec
  /\ r.pc \in {"asking", "handling", "waiting"} => r.tool \in Tools
  /\ r.result = "ok" => r.pc = "over"
  /\ r.pc \in {"idle", "asking", "handling"} => r.far = "none" /\ r.ran = 0
  /\ r.pc = "handling" /\ r.tool \in Gated => "agent" \in r.allowed
  /\ r.pc = "waiting" => r.far # "none" \/ Kind[r.tool] = "peer"
  /\ r.far # "none" => /\ r.pc \in {"waiting", "over"}
                       /\ r.tool \in Tools /\ Kind[r.tool] \in {"foreign", "served"}
  /\ r.far \in {"arrived", "asking", "running"} => r.ran = 0 /\ r.result # "ok"
  /\ r.far \in {"asking", "running"} => Kind[r.tool] = "served"
  /\ r.far = "asking" => r.tool \in FarGated
  /\ r.far = "running" /\ r.tool \in FarGated => "server" \in r.allowed
  /\ r.far = "replied" /\ ~r.marked /\ ~r.value => Kind[r.tool] = "served"
  /\ r.ran = 1 /\ r.tool \in Gated => "agent" \in r.allowed
  /\ r.ran = 1 /\ r.tool \in FarGated => "server" \in r.allowed
  /\ r.result = "ok" =>
       /\ r.says # "failure" => IF Kind[r.tool] = "peer" THEN t.ran = "value" ELSE r.value
       /\ r.says # "value" =>
            \/ Kind[r.tool] = "served" /\ ~r.value
            \/ Kind[r.tool] = "peer" /\ ToSet(t.events) \cap {"failed", "canceled"} # {}

CInv ==
  /\ call \in [Calls -> CallRec] /\ task \in [Calls -> Task]
  /\ \A c \in Calls : TaskOK(task[c]) /\ CallOK(call[c], task[c])

\* A step changes one call and its task.
LEMMA OneCall ==
  ASSUME CInv, NEW c \in Calls, NEW r, NEW t,
         call' = [call EXCEPT ![c] = r], task' = [task EXCEPT ![c] = t],
         TaskOK(t), CallOK(r, t)
  PROVE  CInv'
<1>1. call' \in [Calls -> CallRec] /\ task' \in [Calls -> Task]
  BY DEF CInv, TaskOK, CallOK
<1>2. \A d \in Calls : call'[d] = (IF d = c THEN r ELSE call[d])
                    /\ task'[d] = (IF d = c THEN t ELSE task[d])
  BY DEF CInv
<1>. QED
  BY <1>1, <1>2 DEF CInv

\* A call that is under way may always end in a failure.
LEMMA FailedCall ==
  ASSUME CInv, NEW c \in Calls, call[c].pc \in {"asking", "handling", "waiting"},
         NEW kind \in {"error", "raised"}, Result(c, kind, "none"), UNCHANGED task
  PROVE  CInv'
<1> DEFINE r == call[c]
           u == [r EXCEPT !.pc = "over", !.result = kind, !.says = "none"]
<1>1. CallOK(r, task[c]) /\ TaskOK(task[c])
  BY DEF CInv
<1>2. u \in CallRec
  BY <1>1 DEF CallOK, CallRec
<1>3. /\ u.tool = r.tool /\ u.far = r.far /\ u.allowed = r.allowed /\ u.ran = r.ran
      /\ u.value = r.value /\ u.marked = r.marked /\ u.pc = "over" /\ u.result = kind
  BY <1>1 DEF CallOK, CallRec
<1>4. call' = [call EXCEPT ![c] = u] /\ task' = [task EXCEPT ![c] = task[c]]
  BY DEF CInv, Result
<1> HIDE DEF u
<1>5. CallOK(u, task[c])
  BY <1>1, <1>2, <1>3 DEF CallOK
<1>. QED
  BY <1>1, <1>4, <1>5, OneCall

\* An answered task that has no artifact among what was heard of it has failed
\* or was cancelled.
LEMMA HeardFacts ==
  ASSUME NEW c \in Calls, TaskOK(task[c]), Peer!Answered(c)
  PROVE  /\ ToSet(Peer!Heard(c)) \subseteq ToSet(task[c].events)
         /\ "artifact" \in ToSet(Peer!Heard(c)) => task[c].ran = "value"
         /\ "artifact" \notin ToSet(Peer!Heard(c)) =>
              ToSet(task[c].events) \cap {"failed", "canceled"} # {}
<1> DEFINE e == task[c].events
           first(i) == e[i] \in Peer!Final /\ \A j \in 1..(i - 1) : e[j] \notin Peer!Final
           last == CHOOSE i \in DOMAIN e : first(i)
<1>1. /\ e \in Seq(Event) /\ Len(e) \in Nat /\ DOMAIN e = 1..Len(e)
  BY DEF TaskOK, Task
<1>2. last \in DOMAIN e /\ first(last)
  <2> DEFINE T == {i \in DOMAIN e : e[i] \in Peer!Final}
  <2>1. T # {} /\ T \in SUBSET Nat
    <3>1. PICK x \in ToSet(e) : x \in Peer!Final
      <4>1. ToSet(e) \cap Peer!Final # {}
        BY DEF Peer!Answered, Peer!ToSet, ToSet
      <4>. QED
        BY <4>1
    <3>2. PICK i \in DOMAIN e : e[i] = x
      BY <3>1 DEF ToSet
    <3>. QED
      BY <1>1, <3>1, <3>2
  <2>2. PICK i \in T : \A j \in T : i <= j
    BY <2>1, LeastElement
  <2>3. i \in DOMAIN e /\ first(i)
    BY <1>1, <2>2
  <2>. QED
    BY <2>3
<1>3. Peer!Heard(c) = SubSeq(e, 1, last)
  BY DEF Peer!Heard
<1> DEFINE h == Peer!Heard(c)
<1>4. /\ Len(h) = last /\ DOMAIN h = 1..last
      /\ \A i \in 1..last : i \in DOMAIN e /\ h[i] = e[i]
  <2> HIDE DEF last, e
  <2>1. last \in 1..Len(e)
    BY <1>1, <1>2
  <2>2. h = SubSeq(e, 1, last)
    BY <1>3
  <2> HIDE DEF h
  <2>. QED
    BY <1>1, <2>1, <2>2
<1> HIDE DEF h, last
<1>5. ToSet(h) = {e[i] : i \in 1..last} /\ ToSet(h) \subseteq ToSet(e)
  BY <1>4 DEF ToSet
<1>6. "artifact" \in ToSet(h) => task[c].ran = "value"
  BY <1>5 DEF TaskOK, Own
<1>7. ASSUME "artifact" \notin ToSet(h)
      PROVE  e[last] \in {"failed", "canceled"}
  <2> SUFFICES ASSUME e[last] = "completed"
               PROVE  FALSE
    BY <1>2 DEF Peer!Final
  <2>1. PICK l \in Lifecycles : Follows(e, l)
    BY DEF TaskOK
  <2>2. PICK k \in DOMAIN l : /\ l[k] = "completed"
                              /\ {e[j] : j \in 1..(last - 1)} \ {"canceled"} = {l[m] : m \in 1..(k - 1)}
    BY <1>2, <2>1 DEF Follows
  <2>3. l = Good /\ k = 4
    BY <2>2, LifecycleFacts
  <2>4. "artifact" \in {e[j] : j \in 1..(last - 1)}
    BY <2>2, <2>3, BeginningFacts
  <2>. QED
    BY <1>1, <1>2, <1>5, <1>7, <2>4
<1>. QED
  BY <1>2, <1>5, <1>6, <1>7 DEF ToSet, h

LEMMA CallNext == CInv /\ [Next]_vars => CInv'
<1> SUFFICES ASSUME CInv, [Next]_vars
             PROVE  CInv'
  OBVIOUS
<1>1. CASE UNCHANGED <<call, task>>
  BY <1>1 DEF CInv
<1>2. ASSUME NEW c \in Calls, NEW r, UNCHANGED task, call' = [call EXCEPT ![c] = r],
             CallOK(r, task[c])
      PROVE  CInv'
  BY <1>2, OneCall DEF CInv
<1>3. ASSUME NEW c \in Calls
      PROVE  call[c] \in CallRec /\ CallOK(call[c], task[c]) /\ TaskOK(task[c])
  BY DEF CInv
<1>4. ASSUME NEW c \in Calls, NEW t \in Tools \cup {Ghost}, NEW a \in Args, Dispatch(c, t, a)
      PROVE  CInv'
  <2> DEFINE made == [Idle EXCEPT !.tool = t, !.args = a]
             r == IF a = "name" THEN [made EXCEPT !.pc = "over", !.result = "raised"]
                  ELSE IF t \notin Tools THEN [made EXCEPT !.pc = "over", !.result = "error"]
                  ELSE IF t \in Gated THEN [made EXCEPT !.pc = "asking"]
                  ELSE Invoked(made)
  <2>1. call' = [call EXCEPT ![c] = r] /\ UNCHANGED task
    BY <1>4 DEF Dispatch
  <2>2. /\ made \in CallRec /\ made.tool = t /\ made.pc = "idle" /\ made.far = "none"
        /\ made.ran = 0 /\ made.result = "none"
    BY DEF CallRec, Idle, Far
  <2> HIDE DEF made
  <2>3. /\ r \in CallRec /\ r.tool = t /\ r.far = "none" /\ r.ran = 0
        /\ \/ r.pc = "over" /\ r.result \in {"error", "raised"}
           \/ r.pc = "asking" /\ t \in Tools
           \/ r.pc = "handling" /\ t \in Tools \ Gated
    BY <2>2 DEF CallRec, Invoked
  <2>4. r.pc # "over" => r.result = "none"
    BY <2>2 DEF CallRec, Invoked
  <2> HIDE DEF r
  <2>5. CallOK(r, task[c])
    BY <2>3, <2>4 DEF CallOK
  <2>. QED
    BY <1>2, <2>1, <2>5
<1>5. ASSUME NEW c \in Calls, Permit(c)
      PROVE  CInv'
  <2>1. CASE \E kind \in {"error", "raised"} : Result(c, kind, "none")
    BY <1>5, <2>1, FailedCall DEF Permit, sessions
  <2>2. CASE call' = [call EXCEPT ![c] = Invoked([@ EXCEPT !.allowed = {"agent"}])]
    <3> DEFINE r == Invoked([call[c] EXCEPT !.allowed = {"agent"}])
    <3>1. call' = [call EXCEPT ![c] = r] /\ UNCHANGED task /\ call[c].pc = "asking"
      BY <1>3, <1>5, <2>2 DEF Permit
    <3>2. /\ r \in CallRec /\ r.tool = call[c].tool /\ r.far = call[c].far /\ r.ran = call[c].ran
          /\ r.allowed = {"agent"}
          /\ \/ r.pc = "over" /\ r.result = "raised"
             \/ r.pc = "handling" /\ r.result = call[c].result
      BY <1>3 DEF CallRec, Invoked
    <3> HIDE DEF r
    <3>3. CallOK(r, task[c])
      BY <1>3, <3>1, <3>2 DEF CallOK
    <3>. QED
      BY <1>2, <3>1, <3>3
  <2>. QED
    BY <1>5, <2>1, <2>2 DEF Permit
<1>6. ASSUME NEW c \in Calls, RunFunction(c)
      PROVE  CInv'
  <2>1. call[c].pc = "handling" /\ Kind[call[c].tool] = "function" /\ UNCHANGED task
    BY <1>6 DEF RunFunction, KindOf
  <2>2. CASE Result(c, "error", "none")
    BY <2>1, <2>2, FailedCall
  <2>3. ASSUME NEW returns \in BOOLEAN,
               call' = [call EXCEPT ![c] =
                 [Body(@, returns) EXCEPT !.pc = "over",
                    !.result = IF returns THEN "ok" ELSE "error",
                    !.says = IF returns THEN "value" ELSE "none"]]
        PROVE  CInv'
    <3> DEFINE r == [Body(call[c], returns) EXCEPT !.pc = "over",
                       !.result = IF returns THEN "ok" ELSE "error",
                       !.says = IF returns THEN "value" ELSE "none"]
    <3>1. call' = [call EXCEPT ![c] = r]
      BY <1>3, <2>3
    <3>2. /\ r \in CallRec /\ r.tool = call[c].tool /\ r.far = call[c].far /\ r.ran = 1
          /\ r.allowed = call[c].allowed /\ r.pc = "over" /\ r.value = returns
          /\ r.result = "ok" => returns /\ r.says = "value"
      <4>1. call[c] \in CallRec /\ call[c].ran + 1 = 1
        BY <1>3, <2>1 DEF CallOK
      <4>. QED
        BY <2>3, <4>1 DEF CallRec, Body
    <3>3. r.tool \notin FarGated
      BY <2>1, <3>2, CatalogAssumption
    <3> HIDE DEF r
    <3>4. CallOK(r, task[c])
      BY <1>3, <2>1, <3>2, <3>3 DEF CallOK
    <3>. QED
      BY <1>2, <2>1, <3>1, <3>4
  <2>. QED
    BY <1>6, <2>2, <2>3 DEF RunFunction
<1>7. ASSUME NEW c \in Calls, Send(c)
      PROVE  CInv'
  <2>1. /\ call[c].pc = "handling" /\ Kind[call[c].tool] \in {"foreign", "served"}
        /\ UNCHANGED task
    BY <1>7 DEF Send, KindOf
  <2>2. CASE Result(c, "error", "none")
    BY <2>1, <2>2, FailedCall
  <2>3. CASE call' = [call EXCEPT ![c].pc = "waiting", ![c].far = "arrived"]
    <3> DEFINE r == [call[c] EXCEPT !.pc = "waiting", !.far = "arrived"]
    <3>1. call' = [call EXCEPT ![c] = r]
      BY <1>3, <2>3
    <3>2. /\ r \in CallRec /\ r.tool = call[c].tool /\ r.far = "arrived" /\ r.ran = call[c].ran
          /\ r.pc = "waiting" /\ r.result = call[c].result
      BY <1>3 DEF CallRec, Far
    <3> HIDE DEF r
    <3>3. CallOK(r, task[c])
      BY <1>3, <2>1, <3>2 DEF CallOK
    <3>. QED
      BY <1>2, <2>1, <3>1, <3>3
  <2>. QED
    BY <1>7, <2>2, <2>3 DEF Send
<1>8. ASSUME NEW c \in Calls, SendToPeer(c)
      PROVE  CInv'
  <2>1. call[c].pc = "handling" /\ Kind[call[c].tool] = "peer"
    BY <1>8 DEF SendToPeer, KindOf
  <2>2. CASE Result(c, "error", "none") /\ UNCHANGED task
    BY <2>1, <2>2, FailedCall
  <2>3. CASE /\ call' = [call EXCEPT ![c].pc = "waiting"]
             /\ task' = Peer!Requested(c, call[c].args = "empty")
    <3> DEFINE r == [call[c] EXCEPT !.pc = "waiting"]
               t == [Peer!NoTask EXCEPT !.at = "requested", !.empty = (call[c].args = "empty")]
    <3>1. call' = [call EXCEPT ![c] = r] /\ task' = [task EXCEPT ![c] = t]
      BY <1>3, <2>3 DEF Peer!Requested
    <3>2. TaskOK(t)
      <4>1. Good \in Lifecycles /\ Follows(<<>>, Good) /\ Own(<<>>) = {}
        BY LifecycleFacts DEF Follows, Own, ToSet
      <4>2. /\ t \in Task /\ t.at = "requested" /\ t.events = <<>> /\ t.ran = "no"
        <5> DEFINE empty == (call[c].args = "empty")
        <5>1. empty \in BOOLEAN /\ t = [Peer!NoTask EXCEPT !.at = "requested", !.empty = empty]
          OBVIOUS
        <5>2. <<>> \in Seq(Event)
          OBVIOUS
        <5> HIDE DEF empty, t
        <5>. QED
          BY <5>1, <5>2 DEF Task, Peer!NoTask
      <4> HIDE DEF t
      <4>. QED
        BY <4>1, <4>2 DEF TaskOK
    <3>3. CallOK(r, t)
      <4>1. /\ r \in CallRec /\ r.tool = call[c].tool /\ r.far = call[c].far /\ r.pc = "waiting"
            /\ r.result = call[c].result /\ r.ran = call[c].ran
        BY <1>3 DEF CallRec
      <4> HIDE DEF r, t
      <4>. QED
        BY <1>3, <2>1, <4>1 DEF CallOK
    <3> HIDE DEF r, t
    <3>. QED
      BY <3>1, <3>2, <3>3, OneCall
  <2>. QED
    BY <1>8, <2>2, <2>3 DEF SendToPeer
\* A call ends with an answer.
<1>9. ASSUME NEW c \in Calls, NEW says \in {"value", "failure", "mixed"}, call[c].pc = "waiting",
             Result(c, "ok", says), UNCHANGED task,
             call[c].far \notin {"arrived", "asking", "running"},
             says # "failure" => IF Kind[call[c].tool] = "peer" THEN task[c].ran = "value"
                                 ELSE call[c].value,
             says # "value" =>
               \/ Kind[call[c].tool] = "served" /\ ~call[c].value
               \/ /\ Kind[call[c].tool] = "peer"
                  /\ ToSet(task[c].events) \cap {"failed", "canceled"} # {}
      PROVE  CInv'
  <2> DEFINE r == [call[c] EXCEPT !.pc = "over", !.result = "ok", !.says = says]
  <2>1. call' = [call EXCEPT ![c] = r]
    BY <1>3, <1>9 DEF Result
  <2>2. /\ r \in CallRec /\ r.tool = call[c].tool /\ r.far = call[c].far /\ r.ran = call[c].ran
        /\ r.allowed = call[c].allowed /\ r.value = call[c].value /\ r.marked = call[c].marked
        /\ r.pc = "over" /\ r.result = "ok" /\ r.says = says
    BY <1>3 DEF CallRec
  <2> HIDE DEF r
  <2>3. CallOK(r, task[c])
    BY <1>3, <1>9, <2>2 DEF CallOK
  <2>. QED
    BY <1>2, <1>9, <2>1, <2>3
<1>10. ASSUME NEW c \in Calls, Receive(c)
       PROVE  CInv'
  <2>1. call[c].pc = "waiting" /\ call[c].far = "replied" /\ UNCHANGED task
    BY <1>10 DEF Receive
  <2>2. CASE call[c].marked
    BY <1>10, <2>1, <2>2, FailedCall DEF Receive
  <2>3. CASE ~call[c].marked
    <3> DEFINE says == IF call[c].value THEN "value" ELSE "failure"
    <3>1. Result(c, "ok", says)
      BY <1>10, <2>3 DEF Receive
    <3>2. /\ Kind[call[c].tool] \in {"foreign", "served"}
          /\ ~call[c].value => Kind[call[c].tool] = "served"
      BY <1>3, <2>1, <2>3 DEF CallOK
    <3>3. says \in {"value", "failure", "mixed"} /\ call[c].value \in BOOLEAN
      BY <1>3 DEF CallRec
    <3>. QED
      BY <1>9, <2>1, <3>1, <3>2, <3>3
  <2>. QED
    BY <2>2, <2>3
<1>11. ASSUME NEW c \in Calls, ReceiveStream(c)
       PROVE  CInv'
  <2> DEFINE heard == ToSet(Peer!Heard(c))
             says == IF "artifact" \notin heard THEN "failure"
                     ELSE IF "canceled" \in heard THEN "mixed" ELSE "value"
  <2>1. /\ Result(c, "ok", says) /\ UNCHANGED task
        /\ call[c].pc = "waiting" /\ Kind[call[c].tool] = "peer" /\ Peer!Answered(c)
    BY <1>11 DEF ReceiveStream, KindOf
  <2>2. /\ heard \subseteq ToSet(task[c].events)
        /\ "artifact" \in heard => task[c].ran = "value"
        /\ "artifact" \notin heard => ToSet(task[c].events) \cap {"failed", "canceled"} # {}
    BY <1>3, <2>1, HeardFacts
  <2>3. call[c].far = "none"
    BY <1>3, <2>1 DEF CallOK
  <2> HIDE DEF heard
  <2>4. /\ says # "failure" => task[c].ran = "value"
        /\ says # "value" => ToSet(task[c].events) \cap {"failed", "canceled"} # {}
    BY <2>2
  <2>. QED
    BY <1>9, <2>1, <2>3, <2>4
<1>12. ASSUME NEW c \in Calls, SessionGone(c) \/ Lost(c)
       PROVE  CInv'
  BY <1>12, FailedCall DEF SessionGone, Lost
\* The far end replies, having run the body or not.
<1>13. ASSUME NEW c \in Calls, NEW r \in CallRec, NEW marked \in BOOLEAN,
              call[c].far \in {"arrived", "asking", "running"},
              Reply(c, r, marked), UNCHANGED task,
              r.tool = call[c].tool, r.allowed = call[c].allowed, r.pc = call[c].pc,
              r.result = call[c].result,
              r.ran = 1 /\ r.tool \in FarGated => call[c].far = "running",
              ~marked /\ ~r.value => Kind[r.tool] = "served"
       PROVE  CInv'
  <2> DEFINE u == [r EXCEPT !.far = "replied", !.marked = marked]
  <2>1. call' = [call EXCEPT ![c] = u]
    BY <1>13 DEF Reply
  <2>2. /\ u \in CallRec /\ u.tool = r.tool /\ u.far = "replied" /\ u.ran = r.ran
        /\ u.allowed = r.allowed /\ u.value = r.value /\ u.marked = marked
        /\ u.pc = r.pc /\ u.result = r.result
    BY DEF CallRec, Far
  <2> HIDE DEF u
  <2>3. call[c].tool \in Tools /\ call[c].tool \notin Gated
    BY <1>3, <1>13, CatalogAssumption DEF CallOK
  <2>4. CallOK(u, task[c])
    BY <1>3, <1>13, <2>2, <2>3 DEF CallOK
  <2>. QED
    BY <1>2, <1>13, <2>1, <2>4
<1>14. ASSUME NEW c \in Calls, call[c].far \in {"arrived", "asking", "running"},
              NEW returns \in BOOLEAN, NEW r, r = Body(call[c], returns)
       PROVE  /\ r \in CallRec /\ r.tool = call[c].tool /\ r.allowed = call[c].allowed
              /\ r.pc = call[c].pc /\ r.result = call[c].result /\ r.value = returns
  <2>1. call[c].ran = 0 /\ call[c] \in CallRec
    BY <1>3, <1>14 DEF CallOK
  <2>2. call[c].ran + 1 = 1
    BY <2>1
  <2>. QED
    BY <1>14, <2>1, <2>2 DEF CallRec, Body
<1>15. ASSUME NEW c \in Calls, call[c].far \in {"arrived", "asking", "running"},
              NEW marked \in BOOLEAN, Reply(c, call[c], marked), UNCHANGED task,
              ~marked => Kind[call[c].tool] = "served"
       PROVE  CInv'
  <2> DEFINE r == call[c]
  <2>1. r \in CallRec /\ r.ran = 0
    BY <1>3, <1>15 DEF CallOK
  <2>2. /\ Reply(c, r, marked) /\ r.tool = call[c].tool /\ r.allowed = call[c].allowed
        /\ r.pc = call[c].pc /\ r.result = call[c].result
        /\ ~marked => Kind[r.tool] = "served"
    BY <1>15
  <2> HIDE DEF r
  <2>. QED
    BY <1>13, <1>15, <2>1, <2>2
<1>16. ASSUME NEW c \in Calls, Foreign(c)
       PROVE  CInv'
  <2>1. call[c].far = "arrived" /\ Kind[call[c].tool] = "foreign" /\ UNCHANGED task
    BY <1>16 DEF Foreign, KindOf
  <2>2. call[c].tool \notin FarGated
    BY <2>1, CatalogAssumption
  <2>3. CASE Reply(c, call[c], TRUE)
    BY <1>15, <2>1, <2>3
  <2>4. ASSUME NEW returns \in BOOLEAN, Reply(c, Body(call[c], returns), ~returns)
        PROVE  CInv'
    <3> DEFINE r == Body(call[c], returns)
    <3>1. /\ r \in CallRec /\ r.tool = call[c].tool /\ r.allowed = call[c].allowed
          /\ r.pc = call[c].pc /\ r.result = call[c].result /\ r.value = returns
      BY <1>14, <2>1
    <3>2. Reply(c, r, ~returns) /\ (~returns) \in BOOLEAN
      BY <2>4
    <3> HIDE DEF r
    <3>. QED
      BY <1>13, <2>1, <2>2, <3>1, <3>2
  <2>. QED
    BY <1>16, <2>3, <2>4 DEF Foreign
<1>17. ASSUME NEW c \in Calls, NEW far \in {"asking", "running"}, NEW allowed \in SUBSET {"agent", "server"},
              call[c].far \in {"arrived", "asking"}, Kind[call[c].tool] = "served", UNCHANGED task,
              call' = [call EXCEPT ![c] = [call[c] EXCEPT !.far = far, !.allowed = allowed]],
              call[c].allowed \subseteq allowed,
              far = "asking" => call[c].tool \in FarGated,
              far = "running" /\ call[c].tool \in FarGated => "server" \in allowed
       PROVE  CInv'
  <2> DEFINE r == [call[c] EXCEPT !.far = far, !.allowed = allowed]
  <2>1. /\ r \in CallRec /\ r.tool = call[c].tool /\ r.far = far /\ r.ran = call[c].ran
        /\ r.allowed = allowed /\ r.value = call[c].value /\ r.marked = call[c].marked
        /\ r.pc = call[c].pc /\ r.result = call[c].result
    BY <1>3 DEF CallRec, Far
  <2>2. call' = [call EXCEPT ![c] = r]
    BY <1>17
  <2> HIDE DEF r
  <2>3. CallOK(r, task[c])
    BY <1>3, <1>17, <2>1 DEF CallOK
  <2>. QED
    BY <1>2, <1>17, <2>2, <2>3
<1>18. ASSUME NEW c \in Calls, Serve(c)
       PROVE  CInv'
  <2>1. call[c].far = "arrived" /\ Kind[call[c].tool] = "served" /\ UNCHANGED task
    BY <1>18 DEF Serve, KindOf
  <2>2. CASE Reply(c, call[c], TRUE)
    BY <1>15, <2>1, <2>2
  <2>3. CASE call' = [call EXCEPT ![c].far = IF call[c].tool \in FarGated THEN "asking"
                                             ELSE "running"]
    <3> DEFINE far == IF call[c].tool \in FarGated THEN "asking" ELSE "running"
    <3>1. call[c] \in CallRec /\ call[c].allowed \in SUBSET {"agent", "server"}
      BY <1>3 DEF CallRec
    <3>2. [call[c] EXCEPT !.far = far] = [call[c] EXCEPT !.far = far, !.allowed = call[c].allowed]
      BY <3>1 DEF CallRec
    <3>3. call' = [call EXCEPT ![c] = [call[c] EXCEPT !.far = far, !.allowed = call[c].allowed]]
      BY <1>3, <2>3, <3>2
    <3>. QED
      BY <1>17, <2>1, <3>1, <3>3
  <2>. QED
    BY <1>18, <2>2, <2>3 DEF Serve
<1>19. ASSUME NEW c \in Calls, FarPermit(c)
       PROVE  CInv'
  <2>1. call[c].far = "asking" /\ UNCHANGED task
    BY <1>19 DEF FarPermit
  <2>2. Kind[call[c].tool] = "served"
    BY <1>3, <2>1 DEF CallOK
  <2>3. CASE Reply(c, call[c], FALSE) \/ Reply(c, call[c], TRUE)
    BY <1>15, <2>1, <2>2, <2>3
  <2>4. CASE call' = [call EXCEPT ![c].far = "running", ![c].allowed = @ \cup {"server"}]
    <3> DEFINE allowed == call[c].allowed \cup {"server"}
    <3>1. call[c].allowed \in SUBSET {"agent", "server"}
      BY <1>3 DEF CallRec
    <3>2. call' = [call EXCEPT ![c] = [call[c] EXCEPT !.far = "running", !.allowed = allowed]]
      BY <1>3, <2>4
    <3>3. allowed \in SUBSET {"agent", "server"} /\ "server" \in allowed
          /\ call[c].allowed \subseteq allowed
      BY <3>1
    <3> HIDE DEF allowed
    <3>. QED
      BY <1>17, <2>1, <2>2, <3>2, <3>3
  <2>. QED
    BY <1>19, <2>3, <2>4 DEF FarPermit
<1>20. ASSUME NEW c \in Calls, FarRun(c)
       PROVE  CInv'
  <2>1. call[c].far = "running" /\ UNCHANGED task
    BY <1>20 DEF FarRun
  <2>2. Kind[call[c].tool] = "served"
    BY <1>3, <2>1 DEF CallOK
  <2>3. PICK returns \in BOOLEAN : Reply(c, Body(call[c], returns), FALSE)
    BY <1>20 DEF FarRun
  <2> DEFINE r == Body(call[c], returns)
  <2>4. /\ r \in CallRec /\ r.tool = call[c].tool /\ r.allowed = call[c].allowed
        /\ r.pc = call[c].pc /\ r.result = call[c].result
    BY <1>14, <2>1
  <2> HIDE DEF r
  <2>5. Reply(c, r, FALSE)
    BY <2>3 DEF r
  <2>. QED
    BY <1>13, <2>1, <2>2, <2>4, <2>5
<1>21. ASSUME NEW c \in Calls, PeerStep(c) \/ CancelTask(c)
       PROVE  CInv'
  <2>1. Peer!TaskStep(c) \/ Peer!CancelTask(c)
    BY <1>21 DEF PeerStep, CancelTask
  <2>2. UNCHANGED call
    BY <1>21 DEF PeerStep, CancelTask
  <2>3. /\ task' = [task EXCEPT ![c] = task'[c]]
        /\ TaskOK(task'[c])
        /\ ToSet(task[c].events) \subseteq ToSet(task'[c].events)
        /\ task[c].ran = "value" => task'[c].ran = "value"
    BY <1>3, <2>1, TaskStepFacts DEF CInv
  <2>4. CallOK(call[c], task'[c])
    BY <1>3, <2>3 DEF CallOK
  <2>5. call' = [call EXCEPT ![c] = call[c]]
    BY <2>2 DEF CInv
  <2>. QED
    BY <2>3, <2>4, <2>5, OneCall
<1>. QED
  BY <1>1, <1>4, <1>5, <1>6, <1>7, <1>8, <1>10, <1>11, <1>12, <1>16, <1>18, <1>19, <1>20, <1>21
     DEF Next, vars, ClientStep, AgentStep, FarStep

LEMMA CallInvariance == Spec => []CInv
<1>1. Init => CInv
  <2> SUFFICES ASSUME Init
               PROVE  CInv
    OBVIOUS
  <2>1. Idle \in CallRec
    BY DEF Idle, CallRec, Args, Far
  <2>2. Peer!NoTask \in Task
    BY DEF Peer!NoTask, Task
  <2>3. ASSUME NEW c \in Calls
        PROVE  call[c] = Idle /\ task[c] = Peer!NoTask
    BY DEF Init
  <2>4. TaskOK(Peer!NoTask)
    <3>1. Good \in Lifecycles /\ Follows(<<>>, Good) /\ Own(<<>>) = {}
      BY LifecycleFacts DEF Follows, Own, ToSet
    <3>. QED
      BY <2>2, <3>1 DEF TaskOK, Peer!NoTask
  <2>5. CallOK(Idle, Peer!NoTask)
    BY <2>1 DEF CallOK, Idle
  <2>6. call \in [Calls -> CallRec] /\ task \in [Calls -> Task]
    BY <2>1, <2>2 DEF Init
  <2>. QED
    BY <2>3, <2>4, <2>5, <2>6 DEF CInv
<1>. QED
  BY <1>1, CallNext, PTL DEF Spec

\* The events of a task are a beginning of one of the lifecycles of
\* a2a/executor.py, but for cancellations, and say of its run what became of it.
THEOREM TasksFollow == Spec => []TasksAreOrderly
<1>1. CInv => TasksAreOrderly
  BY DEF CInv, TaskOK, TasksAreOrderly
<1>. QED
  BY <1>1, CallInvariance, PTL

\* The types of sessions, calls and tasks: a body is never counted a second time, and
\* no event but the executor's is on a queue.
TypeOK ==
  /\ client \in {"new", "entering", "inside", "exiting", "exited", "broken"}
  /\ session \in [Servers -> {"none", "open", "closed"}] /\ toolsets \subseteq Servers
  /\ call \in [Calls -> CallRec] /\ task \in [Calls -> Task]

\* Every state has its type, whatever the catalogue and the configuration
\* (tools/registry.py, mcp/client.py, a2a/executor.py).
THEOREM TypeCorrect == Spec => []TypeOK
<1>1. SInv /\ CInv => TypeOK
  BY DEF SInv, CInv, TypeOK
<1>. QED
  BY <1>1, SessionInvariance, CallInvariance, PTL

\* A body runs at most once and only after every registry that gates it said
\* yes, and an ok result is what its tool returned, or is text of our own making.
THEOREM HonestCalls == Spec => []CallsAreHonest
<1>1. CInv => CallsAreHonest
  <2> SUFFICES ASSUME CInv, NEW c \in Calls
               PROVE  /\ call[c].ran <= 1
                      /\ call[c].ran = 1 /\ call[c].tool \in Gated => "agent" \in call[c].allowed
                      /\ call[c].ran = 1 /\ call[c].tool \in FarGated => "server" \in call[c].allowed
                      /\ call[c].result = "ok" =>
                           /\ call[c].says # "failure" => Came(c)
                           /\ call[c].says # "value" =>
                                \/ KindOf(c) = "served" /\ ~call[c].value
                                \/ /\ KindOf(c) = "peer"
                                   /\ ToSet(task[c].events) \cap {"failed", "canceled"} # {}
    BY DEF CallsAreHonest, RunsAreLicensed, AnswersAreTruthful
  <2>1. CallOK(call[c], task[c])
    BY DEF CInv
  <2>2. call[c].ran \in {0, 1}
    BY <2>1 DEF CallOK, CallRec
  <2>. QED
    BY <2>1, <2>2 DEF CallOK, Came, KindOf
<1>. QED
  BY <1>1, CallInvariance, PTL

-----------------------------------------------------------------------------
(* Every call ends.                                                        *)

\* What is left of a call in the agent's registry, at the server behind it, and of
\* the task it is for a peer.
NearLeft(pc) ==
  CASE pc = "idle" -> 9
    [] pc = "asking" -> 8
    [] pc = "handling" -> 7
    [] pc = "waiting" -> 1
    [] OTHER -> 0
FarLeft(far) ==
  CASE far = "arrived" -> 3
    [] far = "asking" -> 2
    [] far = "running" -> 1
    [] OTHER -> 0
TaskLeft(at) ==
  CASE at = "requested" -> 5
    [] at = "submitted" -> 4
    [] at = "working" -> 3
    [] at = "answered" -> 2
    [] at \in {"artifact", "raising"} -> 1
    [] OTHER -> 0
Left(c) == NearLeft(call[c].pc) + FarLeft(call[c].far) + TaskLeft(task[c].at)

\* The guards of AgentStep and of FarStep, one for each of their steps.
CanStep(c) ==
  \/ call[c].pc = "asking"
  \/ call[c].pc = "handling" /\ KindOf(c) \in {"function", "foreign", "served", "peer"}
  \/ call[c].pc = "waiting" /\ call[c].far = "replied"
  \/ call[c].pc = "waiting" /\ KindOf(c) = "peer" /\ Peer!Answered(c)
  \/ call[c].pc = "waiting" /\ KindOf(c) # "peer" /\ session[Server[call[c].tool]] = "closed"
CanFarStep(c) ==
  \/ call[c].far = "arrived" /\ KindOf(c) \in {"foreign", "served"}
  \/ call[c].far \in {"asking", "running"}
  \/ task[c].at \in {"requested", "submitted", "working", "answered", "artifact", "raising"}

\* A call that is under way waits for nobody but its own far end.
NobodyIsStuck == \A c \in Calls : call[c].pc \notin {"idle", "over"} => CanStep(c) \/ CanFarStep(c)

\* A call that is handled has a handler, a task is requested where the handler is
\* done, one that waits for a peer has one, and a task that is over has said so.
GoingOK(c) ==
  /\ call[c].pc = "handling" => KindOf(c) # "unbound"
  /\ call[c].pc \in {"idle", "asking", "handling"} => task[c].at = "none"
  /\ call[c].pc = "waiting" /\ KindOf(c) = "peer" => task[c].at # "none"
  /\ task[c].at # "none" => call[c].far = "none"
  /\ task[c].at = "over" => Peer!Answered(c)

LEMMA LeftFacts ==
  ASSUME CInv, NEW c \in Calls, GoingOK(c)
  PROVE  Left(c) \in 0..9
<1>1. /\ call[c].pc \in {"idle", "asking", "handling", "waiting", "over"} /\ call[c].far \in Far
      /\ CallOK(call[c], task[c])
  BY DEF CInv, CallRec
<1>2. NearLeft(call[c].pc) \in 0..9 /\ FarLeft(call[c].far) \in 0..3 /\ TaskLeft(task[c].at) \in 0..5
  BY DEF NearLeft, FarLeft, TaskLeft
<1>3. CASE call[c].pc \in {"idle", "asking", "handling"}
  <2>1. FarLeft(call[c].far) = 0 /\ TaskLeft(task[c].at) = 0
    BY <1>1, <1>3 DEF CallOK, GoingOK, FarLeft, TaskLeft
  <2>. QED
    BY <1>2, <2>1 DEF Left
<1>4. CASE call[c].pc \in {"waiting", "over"}
  <2>1. NearLeft(call[c].pc) \in 0..1
    BY <1>4 DEF NearLeft
  <2>. QED
    BY <1>2, <2>1 DEF Left
<1>. QED
  BY <1>1, <1>3, <1>4

\* A call moves on: it, or the server behind it, is nearer its end.
LEMMA CallMoves ==
  ASSUME CInv, NEW c \in Calls, GoingOK(c), NEW r,
         call' = [call EXCEPT ![c] = r], UNCHANGED task,
         r.tool = call[c].tool \/ (call[c].pc = "idle" /\ r.pc # "waiting"),
         NearLeft(r.pc) + FarLeft(r.far) < NearLeft(call[c].pc) + FarLeft(call[c].far),
         r.pc = "handling" => Kind[r.tool] # "unbound",
         r.pc \in {"asking", "handling"} => call[c].pc \in {"idle", "asking", "handling"},
         r.pc = "waiting" => call[c].pc = "waiting" \/ Kind[r.tool] # "peer",
         r.pc # "idle",
         task[c].at # "none" => r.far = "none"
  PROVE  /\ \A d \in Calls \ {c} : call'[d] = call[d] /\ task'[d] = task[d]
         /\ GoingOK(c)' /\ Left(c)' < Left(c)
<1>1. call'[c] = r /\ task'[c] = task[c] /\ \A d \in Calls \ {c} : call'[d] = call[d] /\ task'[d] = task[d]
  BY DEF CInv
<1>2. /\ NearLeft(call[c].pc) \in Nat /\ FarLeft(call[c].far) \in Nat
      /\ NearLeft(r.pc) \in Nat /\ FarLeft(r.far) \in Nat /\ TaskLeft(task[c].at) \in Nat
  BY DEF NearLeft, FarLeft, TaskLeft
<1>3. Left(c)' = NearLeft(r.pc) + FarLeft(r.far) + TaskLeft(task[c].at)
  BY <1>1 DEF Left
<1>4. Left(c)' < Left(c)
  BY <1>2, <1>3 DEF Left
<1>5. Peer!Answered(c)' <=> Peer!Answered(c)
  BY DEF Peer!Answered
<1>6. GoingOK(c)'
  BY <1>1, <1>5 DEF GoingOK, KindOf
<1>. QED
  BY <1>1, <1>4, <1>6

\* A call that is under way and gets its result is over.
LEMMA ResultMoves ==
  ASSUME CInv, NEW c \in Calls, GoingOK(c), call[c].pc \in {"asking", "handling", "waiting"},
         NEW kind, NEW text, Result(c, kind, text), UNCHANGED task
  PROVE  /\ \A d \in Calls \ {c} : call'[d] = call[d] /\ task'[d] = task[d]
         /\ GoingOK(c)' /\ Left(c)' < Left(c)
<1> DEFINE r == [call[c] EXCEPT !.pc = "over", !.result = kind, !.says = text]
<1>1. call[c] \in CallRec
  BY DEF CInv
<1>2. call' = [call EXCEPT ![c] = r]
  BY DEF Result, CInv
<1>3. r.tool = call[c].tool /\ r.far = call[c].far /\ r.pc = "over"
  BY <1>1 DEF CallRec
<1>4. NearLeft(r.pc) + FarLeft(r.far) < NearLeft(call[c].pc) + FarLeft(call[c].far)
  BY <1>3 DEF NearLeft, FarLeft
<1>5. task[c].at # "none" => r.far = "none"
  BY <1>3 DEF GoingOK
<1> HIDE DEF r
<1>. QED
  BY <1>2, <1>3, <1>4, <1>5, CallMoves

\* A server that replies has done its part.
LEMMA ReplyMoves ==
  ASSUME CInv, NEW c \in Calls, GoingOK(c), call[c].far \in {"arrived", "asking", "running"},
         NEW r, r \in {call[c]} \cup {Body(call[c], returns) : returns \in BOOLEAN},
         NEW marked, Reply(c, r, marked), UNCHANGED task
  PROVE  /\ \A d \in Calls \ {c} : call'[d] = call[d] /\ task'[d] = task[d]
         /\ GoingOK(c)' /\ Left(c)' < Left(c)
<1> DEFINE u == [r EXCEPT !.far = "replied", !.marked = marked]
<1>1. call[c] \in CallRec /\ CallOK(call[c], task[c])
  BY DEF CInv
<1>2. call' = [call EXCEPT ![c] = u]
  BY DEF Reply
<1>3. u.tool = call[c].tool /\ u.pc = call[c].pc /\ u.far = "replied"
  BY <1>1 DEF CallRec, Body
<1>4. NearLeft(u.pc) + FarLeft(u.far) < NearLeft(call[c].pc) + FarLeft(call[c].far)
  BY <1>3 DEF NearLeft, FarLeft
<1>5. call[c].pc \in {"waiting", "over"} /\ task[c].at = "none"
  BY <1>1 DEF CallOK, GoingOK
<1> HIDE DEF u
<1>. QED
  BY <1>2, <1>3, <1>4, <1>5, CallMoves

\* A call that its own registry, handler, session or server moves on.
LEMMA CallStepsOn ==
  ASSUME CInv, NEW c \in Calls, GoingOK(c),
         \/ \E t \in Tools \cup {Ghost}, a \in Args : Dispatch(c, t, a)
         \/ AgentStep(c) \/ Lost(c) \/ Foreign(c) \/ Serve(c) \/ FarPermit(c) \/ FarRun(c)
  PROVE  /\ \A d \in Calls \ {c} : call'[d] = call[d] /\ task'[d] = task[d]
         /\ GoingOK(c)' /\ Left(c)' < Left(c)
<1> DEFINE Moved == /\ \A d \in Calls \ {c} : call'[d] = call[d] /\ task'[d] = task[d]
                    /\ GoingOK(c)' /\ Left(c)' < Left(c)
<1> SUFFICES Moved
  OBVIOUS
<1>0. call[c] \in CallRec /\ CallOK(call[c], task[c])
  BY DEF CInv
<1>1. ASSUME NEW t \in Tools \cup {Ghost}, NEW a \in Args, Dispatch(c, t, a)
      PROVE  Moved
  <2> DEFINE made == [Idle EXCEPT !.tool = t, !.args = a]
             r == IF a = "name" THEN [made EXCEPT !.pc = "over", !.result = "raised"]
                  ELSE IF t \notin Tools THEN [made EXCEPT !.pc = "over", !.result = "error"]
                  ELSE IF t \in Gated THEN [made EXCEPT !.pc = "asking"]
                  ELSE Invoked(made)
  <2>1. call' = [call EXCEPT ![c] = r] /\ UNCHANGED task /\ call[c] = Idle
    BY <1>1 DEF Dispatch
  <2>2. made.tool = t /\ made.far = "none"
    BY DEF Idle
  <2>3. /\ r.tool = t /\ r.far = "none" /\ r.pc \in {"over", "asking", "handling"}
        /\ r.pc = "handling" => Kind[t] # "unbound"
    BY <2>2 DEF Invoked, Idle
  <2> HIDE DEF r, made
  <2>4. /\ call[c].pc = "idle"
        /\ NearLeft(r.pc) + FarLeft(r.far) < NearLeft(call[c].pc) + FarLeft(call[c].far)
    BY <2>1, <2>3 DEF Idle, NearLeft, FarLeft
  <2>. QED
    BY <2>1, <2>3, <2>4, CallMoves
<1>2. CASE Permit(c)
  <2>1. call[c].pc = "asking" /\ call[c].far = "none" /\ UNCHANGED task
    BY <1>0, <1>2 DEF Permit, CallOK
  <2>2. CASE call' = [call EXCEPT ![c] = Invoked([@ EXCEPT !.allowed = {"agent"}])]
    <3> DEFINE r == Invoked([call[c] EXCEPT !.allowed = {"agent"}])
    <3>1. call' = [call EXCEPT ![c] = r]
      BY <2>2 DEF CInv
    <3>2. /\ r.tool = call[c].tool /\ r.far = "none" /\ r.pc \in {"over", "handling"}
          /\ r.pc = "handling" => Kind[r.tool] # "unbound"
      BY <1>0, <2>1 DEF Invoked, CallRec
    <3> HIDE DEF r
    <3>3. NearLeft(r.pc) + FarLeft(r.far) < NearLeft(call[c].pc) + FarLeft(call[c].far)
      BY <2>1, <3>2 DEF NearLeft, FarLeft
    <3>. QED
      BY <2>1, <3>1, <3>2, <3>3, CallMoves
  <2>3. CASE \E kind \in {"error", "raised"} : Result(c, kind, "none")
    BY <2>1, <2>3, ResultMoves
  <2>. QED
    BY <1>2, <2>2, <2>3 DEF Permit
<1>3. CASE RunFunction(c)
  <2>1. call[c].pc = "handling" /\ UNCHANGED task
    BY <1>3 DEF RunFunction
  <2>2. CASE Result(c, "error", "none")
    BY <2>1, <2>2, ResultMoves
  <2>3. ASSUME NEW returns \in BOOLEAN,
               call' = [call EXCEPT ![c] =
                 [Body(@, returns) EXCEPT !.pc = "over",
                    !.result = IF returns THEN "ok" ELSE "error",
                    !.says = IF returns THEN "value" ELSE "none"]]
        PROVE  Moved
    <3> DEFINE r == [Body(call[c], returns) EXCEPT !.pc = "over",
                       !.result = IF returns THEN "ok" ELSE "error",
                       !.says = IF returns THEN "value" ELSE "none"]
    <3>1. call' = [call EXCEPT ![c] = r]
      BY <2>3 DEF CInv
    <3>2. r.tool = call[c].tool /\ r.far = call[c].far /\ r.pc = "over"
      BY <1>0 DEF CallRec, Body
    <3> HIDE DEF r
    <3>3. NearLeft(r.pc) + FarLeft(r.far) < NearLeft(call[c].pc) + FarLeft(call[c].far)
      BY <2>1, <3>2 DEF NearLeft, FarLeft
    <3>4. task[c].at = "none"
      BY <2>1 DEF GoingOK
    <3>. QED
      BY <2>1, <3>1, <3>2, <3>3, <3>4, CallMoves
  <2>. QED
    BY <1>3, <2>2, <2>3 DEF RunFunction
<1>4. CASE Send(c)
  <2>1. /\ call[c].pc = "handling" /\ Kind[call[c].tool] \in {"foreign", "served"} /\ UNCHANGED task
        /\ call[c].far = "none"
    BY <1>0, <1>4 DEF Send, KindOf, CallOK
  <2>2. CASE call' = [call EXCEPT ![c].pc = "waiting", ![c].far = "arrived"]
    <3> DEFINE r == [call[c] EXCEPT !.pc = "waiting", !.far = "arrived"]
    <3>1. call' = [call EXCEPT ![c] = r]
      BY <2>2 DEF CInv
    <3>2. r.tool = call[c].tool /\ r.far = "arrived" /\ r.pc = "waiting"
      BY <1>0 DEF CallRec
    <3> HIDE DEF r
    <3>3. NearLeft(r.pc) + FarLeft(r.far) < NearLeft(call[c].pc) + FarLeft(call[c].far)
      BY <2>1, <3>2 DEF NearLeft, FarLeft
    <3>4. task[c].at = "none"
      BY <2>1 DEF GoingOK
    <3>. QED
      BY <2>1, <3>1, <3>2, <3>3, <3>4, CallMoves
  <2>3. CASE Result(c, "error", "none")
    BY <2>1, <2>3, ResultMoves
  <2>. QED
    BY <1>4, <2>2, <2>3 DEF Send
<1>5. CASE SendToPeer(c)
  <2>1. call[c].pc = "handling" /\ Kind[call[c].tool] = "peer" /\ call[c].far = "none"
    BY <1>0, <1>5 DEF SendToPeer, KindOf, CallOK
  <2>2. CASE Result(c, "error", "none") /\ UNCHANGED task
    BY <2>1, <2>2, ResultMoves
  <2>3. CASE /\ call' = [call EXCEPT ![c].pc = "waiting"]
             /\ task' = Peer!Requested(c, call[c].args = "empty")
    <3>1. /\ call'[c].pc = "waiting" /\ call'[c].tool = call[c].tool /\ call'[c].far = "none"
          /\ \A d \in Calls \ {c} : call'[d] = call[d]
      BY <1>0, <2>1, <2>3 DEF CInv, CallRec
    <3>2. task'[c].at = "requested" /\ \A d \in Calls \ {c} : task'[d] = task[d]
      BY <2>3 DEF CInv, Peer!Requested, Peer!NoTask
    <3>3. Left(c)' = 6
      BY <3>1, <3>2 DEF Left, NearLeft, FarLeft, TaskLeft
    <3>4. Left(c) = 7
      BY <2>1 DEF Left, NearLeft, FarLeft, TaskLeft, GoingOK
    <3>5. GoingOK(c)'
      BY <3>1, <3>2 DEF GoingOK
    <3>. QED
      BY <3>1, <3>2, <3>3, <3>4, <3>5
  <2>. QED
    BY <1>5, <2>2, <2>3 DEF SendToPeer
<1>6. CASE Receive(c) \/ ReceiveStream(c) \/ SessionGone(c) \/ Lost(c)
  <2>1. call[c].pc = "waiting" /\ UNCHANGED task /\ \E kind, text : Result(c, kind, text)
    BY <1>6 DEF Receive, ReceiveStream, SessionGone, Lost
  <2>. QED
    BY <2>1, ResultMoves
<1>7. CASE Foreign(c)
  <2>1. call[c].far = "arrived" /\ UNCHANGED task
    BY <1>7 DEF Foreign
  <2>2. PICK r, marked : /\ r \in {call[c]} \cup {Body(call[c], returns) : returns \in BOOLEAN}
                         /\ Reply(c, r, marked)
    BY <1>7 DEF Foreign
  <2>. QED
    BY <2>1, <2>2, ReplyMoves
\* The server goes on with the call.
<1>8. ASSUME NEW far \in {"asking", "running"}, NEW r,
             call' = [call EXCEPT ![c] = r], UNCHANGED task,
             r.tool = call[c].tool, r.pc = call[c].pc, r.far = far,
             call[c].far = "arrived" \/ (call[c].far = "asking" /\ far = "running")
      PROVE  Moved
  <2>1. NearLeft(r.pc) + FarLeft(r.far) < NearLeft(call[c].pc) + FarLeft(call[c].far)
    BY <1>8 DEF NearLeft, FarLeft
  <2>2. call[c].pc \in {"waiting", "over"} /\ task[c].at = "none"
    BY <1>0, <1>8 DEF CallOK, GoingOK
  <2>. QED
    BY <1>8, <2>1, <2>2, CallMoves
<1>9. CASE Serve(c)
  <2>1. call[c].far = "arrived" /\ UNCHANGED task
    BY <1>9 DEF Serve
  <2>2. CASE Reply(c, call[c], TRUE)
    BY <2>1, <2>2, ReplyMoves
  <2>3. CASE call' = [call EXCEPT ![c].far = IF call[c].tool \in FarGated THEN "asking"
                                             ELSE "running"]
    <3> DEFINE far == IF call[c].tool \in FarGated THEN "asking" ELSE "running"
               r == [call[c] EXCEPT !.far = far]
    <3>1. call' = [call EXCEPT ![c] = r] /\ far \in {"asking", "running"}
      BY <2>3 DEF CInv
    <3>2. r.tool = call[c].tool /\ r.pc = call[c].pc /\ r.far = far
      BY <1>0 DEF CallRec
    <3> HIDE DEF r, far
    <3>. QED
      BY <1>8, <2>1, <3>1, <3>2
  <2>. QED
    BY <1>9, <2>2, <2>3 DEF Serve
<1>10. CASE FarPermit(c)
  <2>1. call[c].far = "asking" /\ UNCHANGED task
    BY <1>10 DEF FarPermit
  <2>2. CASE Reply(c, call[c], FALSE) \/ Reply(c, call[c], TRUE)
    BY <2>1, <2>2, ReplyMoves
  <2>3. CASE call' = [call EXCEPT ![c].far = "running", ![c].allowed = @ \cup {"server"}]
    <3> DEFINE r == [call[c] EXCEPT !.far = "running", !.allowed = call[c].allowed \cup {"server"}]
    <3>1. call' = [call EXCEPT ![c] = r]
      BY <1>0, <2>3 DEF CInv
    <3>2. r.tool = call[c].tool /\ r.pc = call[c].pc /\ r.far = "running"
      BY <1>0 DEF CallRec
    <3> HIDE DEF r
    <3>. QED
      BY <1>8, <2>1, <3>1, <3>2
  <2>. QED
    BY <1>10, <2>2, <2>3 DEF FarPermit
<1>11. CASE FarRun(c)
  <2>1. call[c].far = "running" /\ UNCHANGED task
    BY <1>11 DEF FarRun
  <2>2. PICK r, marked : /\ r \in {call[c]} \cup {Body(call[c], returns) : returns \in BOOLEAN}
                         /\ Reply(c, r, marked)
    BY <1>11 DEF FarRun
  <2>. QED
    BY <2>1, <2>2, ReplyMoves
<1> HIDE DEF Moved
<1>. QED
  BY <1>1, <1>2, <1>3, <1>4, <1>5, <1>6, <1>7, <1>9, <1>10, <1>11 DEF AgentStep

\* A task that moves on is nearer its end, and a cancellation does not put it back.
LEMMA TaskMoves ==
  ASSUME CInv, NEW c \in Calls, GoingOK(c), PeerStep(c) \/ CancelTask(c)
  PROVE  /\ \A d \in Calls \ {c} : call'[d] = call[d] /\ task'[d] = task[d]
         /\ GoingOK(c)' /\ Left(c)' <= Left(c) /\ (PeerStep(c) => Left(c)' < Left(c))
<1>1. /\ UNCHANGED call /\ task \in [Calls -> Task] /\ task[c].events \in Seq(Event)
      /\ Peer!TaskStep(c) \/ (Peer!CancelTask(c) /\ ~PeerStep(c))
  BY DEF PeerStep, CancelTask, CInv, Task
<1>2. /\ NearLeft(call[c].pc) \in Nat /\ FarLeft(call[c].far) \in Nat
      /\ \A at : TaskLeft(at) \in Nat
  BY DEF NearLeft, FarLeft, TaskLeft
\* What is left of the task, and what it has said when it is over.
<1>a. ASSUME NEW next, task'[c].at = next, next # "none", task[c].at # "none",
             \A d \in Calls \ {c} : task'[d] = task[d],
             next = "over" => Peer!Answered(c)',
             TaskLeft(next) <= TaskLeft(task[c].at),
             PeerStep(c) => TaskLeft(next) < TaskLeft(task[c].at)
      PROVE  /\ \A d \in Calls \ {c} : call'[d] = call[d] /\ task'[d] = task[d]
             /\ GoingOK(c)' /\ Left(c)' <= Left(c) /\ (PeerStep(c) => Left(c)' < Left(c))
  <2>1. Left(c)' = NearLeft(call[c].pc) + FarLeft(call[c].far) + TaskLeft(next)
    BY <1>1, <1>a DEF Left
  <2>2. Left(c)' <= Left(c) /\ (PeerStep(c) => Left(c)' < Left(c))
    BY <1>2, <1>a, <2>1 DEF Left
  <2>3. GoingOK(c)'
    BY <1>1, <1>a DEF GoingOK, KindOf
  <2>. QED
    BY <1>1, <1>a, <2>2, <2>3
<1>3. ASSUME NEW e \in Event, NEW next, Peer!Enqueue(c, e, next)
      PROVE  /\ task'[c].at = next /\ \A d \in Calls \ {c} : task'[d] = task[d]
             /\ e \in Peer!Final => Peer!Answered(c)'
  <2>1. task' = [task EXCEPT ![c] = [task[c] EXCEPT !.events = Append(task[c].events, e), !.at = next]]
    BY <1>1, <1>3 DEF Peer!Enqueue
  <2>2. task'[c].at = next /\ task'[c].events = Append(task[c].events, e)
    BY <1>1, <2>1 DEF Task
  <2>3. e \in ToSet(task'[c].events)
    BY <1>1, <2>2, AppendedEvent
  <2>4. e \in Peer!Final => Peer!Answered(c)'
    BY <2>3 DEF Peer!Answered, Peer!Final, Peer!ToSet, ToSet
  <2>. QED
    BY <1>1, <2>1, <2>2, <2>4
<1>4. {"submitted", "working", "artifact", "failed", "completed", "canceled"} \subseteq Event
  BY DEF Event, Peer!Final
<1>5. CASE Peer!Submit(c) \/ Peer!Working(c) \/ Peer!Artifact(c)
  <2>1. PICK next \in {"submitted", "working", "artifact"} :
          /\ task'[c].at = next /\ \A d \in Calls \ {c} : task'[d] = task[d]
          /\ task[c].at # "none" /\ TaskLeft(next) < TaskLeft(task[c].at)
    BY <1>3, <1>4, <1>5 DEF Peer!Submit, Peer!Working, Peer!Artifact, TaskLeft
  <2>. QED
    BY <1>2, <1>a, <2>1
<1>6. CASE Peer!RefuseEmpty(c) \/ Peer!Fail(c) \/ Peer!Complete(c)
  <2>1. PICK e \in {"failed", "completed"} : Peer!Enqueue(c, e, "over")
    BY <1>6 DEF Peer!RefuseEmpty, Peer!Fail, Peer!Complete
  <2>2. /\ task'[c].at = "over" /\ \A d \in Calls \ {c} : task'[d] = task[d]
        /\ Peer!Answered(c)'
    BY <1>3, <1>4, <2>1 DEF Peer!Final
  <2>3. task[c].at # "none" /\ TaskLeft("over") < TaskLeft(task[c].at)
    BY <1>6 DEF Peer!RefuseEmpty, Peer!Fail, Peer!Complete, TaskLeft
  <2>. QED
    BY <1>2, <1>a, <2>2, <2>3
<1>7. CASE Peer!RunAgent(c)
  <2>1. PICK o \in {"value", "raised"} :
          task' = [task EXCEPT ![c].ran = o, ![c].at = IF o = "value" THEN "answered" ELSE "raising"]
    BY <1>7 DEF Peer!RunAgent
  <2>2. task'[c].at \in {"answered", "raising"} /\ \A d \in Calls \ {c} : task'[d] = task[d]
    BY <1>1, <2>1 DEF Task
  <2>3. task[c].at = "working"
    BY <1>7 DEF Peer!RunAgent
  <2>4. TaskLeft(task'[c].at) < TaskLeft(task[c].at)
    BY <2>2, <2>3 DEF TaskLeft
  <2>. QED
    BY <1>2, <1>a, <2>2, <2>3, <2>4
<1>8. CASE Peer!CancelTask(c) /\ ~PeerStep(c)
  <2>1. PICK next \in {task[c].at, "over"} : Peer!Enqueue(c, "canceled", next)
    BY <1>8 DEF Peer!CancelTask
  <2>2. /\ task'[c].at = next /\ \A d \in Calls \ {c} : task'[d] = task[d]
        /\ Peer!Answered(c)'
    BY <1>3, <1>4, <2>1 DEF Peer!Final
  <2>3. task[c].at # "none" /\ next # "none"
    BY <1>8, <2>1 DEF Peer!CancelTask
  <2>4. TaskLeft("over") <= TaskLeft(task[c].at) /\ TaskLeft(task[c].at) <= TaskLeft(task[c].at)
    BY <1>2 DEF TaskLeft
  <2>5. TaskLeft(next) <= TaskLeft(task[c].at)
    BY <2>1, <2>4
  <2>6. TaskLeft(next) <= TaskLeft(task[c].at) /\ (PeerStep(c) => TaskLeft(next) < TaskLeft(task[c].at))
    BY <1>8, <2>5
  <2>. QED
    BY <1>a, <2>2, <2>3, <2>6
<1>. QED
  BY <1>1, <1>5, <1>6, <1>7, <1>8 DEF Peer!TaskStep

\* Every step is a step of one call, or of no call.
LEMMA CallsMove ==
  ASSUME CInv, \A c \in Calls : GoingOK(c), [Next]_vars, NEW c \in Calls
  PROVE  /\ GoingOK(c)' /\ Left(c)' <= Left(c)
         /\ AgentStep(c) \/ FarStep(c) => Left(c)' < Left(c)
<1>1. Left(c) \in Nat
  BY LeftFacts
<1>2. AgentStep(c) \/ FarStep(c) => Left(c)' < Left(c)
  BY CallStepsOn, TaskMoves DEF FarStep
<1>3. ASSUME call'[c] = call[c], task'[c] = task[c]
      PROVE  GoingOK(c)' /\ Left(c)' <= Left(c)
  <2>1. Left(c)' = Left(c)
    BY <1>3 DEF Left
  <2>2. GoingOK(c)'
    BY <1>3 DEF GoingOK, KindOf, Peer!Answered
  <2>. QED
    BY <1>1, <2>1, <2>2
<1>4. UNCHANGED <<call, task>> => GoingOK(c)' /\ Left(c)' <= Left(c)
  BY <1>3
<1>5. ASSUME NEW d \in Calls,
             \/ \E t \in Tools \cup {Ghost}, a \in Args : Dispatch(d, t, a)
             \/ AgentStep(d) \/ Lost(d) \/ FarStep(d) \/ CancelTask(d)
      PROVE  GoingOK(c)' /\ Left(c)' <= Left(c)
  <2>1. /\ \A e \in Calls \ {d} : call'[e] = call[e] /\ task'[e] = task[e]
        /\ GoingOK(d)' /\ (Left(d)' < Left(d) \/ Left(d)' <= Left(d))
    BY <1>5, CallStepsOn, TaskMoves DEF FarStep
  <2>2. CASE c = d
    <3>1. Left(c)' \in Int
      BY DEF Left, NearLeft, FarLeft, TaskLeft
    <3>. QED
      BY <1>1, <2>1, <2>2, <3>1
  <2>3. CASE c # d
    BY <1>3, <2>1, <2>3
  <2>. QED
    BY <2>2, <2>3
<1>6. GoingOK(c)' /\ Left(c)' <= Left(c)
  BY <1>4, <1>5 DEF Next, ClientStep, vars
<1>. QED
  BY <1>2, <1>6

\* A call that is neither idle nor over can go on, or what it waits for can.
LEMMA SomebodyGoesOn ==
  ASSUME CInv, \A c \in Calls : GoingOK(c)
  PROVE  NobodyIsStuck
<1> SUFFICES ASSUME NEW c \in Calls, call[c].pc \notin {"idle", "over"}, ~CanStep(c), ~CanFarStep(c)
             PROVE  FALSE
  BY DEF NobodyIsStuck
<1>1. /\ call[c] \in CallRec /\ CallOK(call[c], task[c]) /\ task[c] \in Task /\ GoingOK(c)
  BY DEF CInv
<1>2. call[c].pc \in {"handling", "waiting"} /\ call[c].tool \in Tools
  BY <1>1 DEF CallRec, CallOK, CanStep
<1>3. Kind[call[c].tool] \in {"function", "unbound", "foreign", "served", "peer"}
  BY <1>2, CatalogAssumption DEF Tools
<1>4. call[c].pc = "waiting"
  BY <1>1, <1>2, <1>3 DEF CanStep, GoingOK, KindOf
<1>5. CASE Kind[call[c].tool] = "peer"
  <2>1. task[c].at = "over"
    BY <1>1, <1>4, <1>5 DEF GoingOK, KindOf, CanFarStep, Task
  <2>2. Peer!Answered(c)
    BY <1>1, <2>1 DEF GoingOK
  <2>. QED
    BY <1>4, <1>5, <2>2 DEF CanStep, KindOf
<1>6. CASE Kind[call[c].tool] # "peer"
  <2>1. call[c].far # "none" /\ call[c].far # "replied" /\ call[c].far \in Far
    BY <1>1, <1>4, <1>6 DEF CallOK, CallRec, CanStep
  <2>2. Kind[call[c].tool] \in {"foreign", "served"}
    BY <1>1, <2>1 DEF CallOK
  <2>. QED
    BY <2>1, <2>2 DEF CanFarStep, Far, KindOf
<1>. QED
  BY <1>5, <1>6

\* A call that is under way waits for nobody but its own far end, and with nine steps
\* of the two it is over: each of them leaves less to do, and neither another call,
\* nor the client that is left, nor a cancellation adds to it (tools/registry.py:206,
\* a2a/client.py:86).
THEOREM CallsRunDown ==
  Spec => /\ [](NobodyIsStuck /\ \A c \in Calls : Left(c) \in 0..9)
          /\ [][\A c \in Calls :
                  /\ Left(c)' <= Left(c)
                  /\ AgentStep(c) \/ FarStep(c) => Left(c)' < Left(c)]_vars
<1>1. Init => \A c \in Calls : GoingOK(c)
  BY DEF Init, GoingOK, Idle, Peer!NoTask
<1>2. CInv /\ (\A c \in Calls : GoingOK(c)) => NobodyIsStuck /\ \A c \in Calls : Left(c) \in 0..9
  BY SomebodyGoesOn, LeftFacts
<1>3. CInv /\ (\A c \in Calls : GoingOK(c)) /\ [Next]_vars => (\A c \in Calls : GoingOK(c))'
  BY CallsMove
<1>4. CInv /\ (\A c \in Calls : GoingOK(c)) /\ [Next]_vars =>
        [\A c \in Calls : /\ Left(c)' <= Left(c)
                          /\ AgentStep(c) \/ FarStep(c) => Left(c)' < Left(c)]_vars
  BY CallsMove
<1>. QED
  BY <1>1, <1>2, <1>3, <1>4, CallInvariance, PTL DEF Spec
=============================================================================
