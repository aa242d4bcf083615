------------------------ MODULE OfflineSuite_proofs -------------------------
(***************************************************************************)
(* Proofs about OfflineSuite, for any number of cases, prompts, answers,   *)
(* scorers, slots and failures: what a case asks is its own, what loads    *)
(* is what was used, a replay repeats the run it was recorded from, and a  *)
(* suite neither stands still nor goes on for ever.                        *)
(***************************************************************************)
EXTENDS OfflineSuite, FiniteSetTheorems, SequenceTheorems, TLAPS

-----------------------------------------------------------------------------
(* Histories.                                                              *)

\* What a case may be answered, by a model or by a file that was used before.
Said == Answers \cup {OldExchange.response}

Message == [role : {"user"}, prompt : UNION {{p[c] : c \in Cases} : p \in Prompts}]
             \cup [role : {"assistant"}, said : Said] \cup {ToolMessage}

SetupOK == setup \in [mode : {"isolated", "serialized"}, slots : 1..N,
                      match : {"sequence", "request"}, prompt : Prompts, reused : BOOLEAN]

LEMMA CaseFacts == Cases = 1..N /\ N \in Nat \ {0} /\ MaxSteps \in Nat \ {0} /\ IsFiniteSet(Cases)
BY SuiteAssumption, FS_Interval DEF Cases

LEMMA UserFacts ==
  ASSUME SetupOK, NEW c \in Cases
  PROVE  User(c) \in Message
<1>1. setup.prompt \in Prompts
  BY DEF SetupOK
<1>. QED
  BY <1>1 DEF User, Message

LEMMA HistoryFacts ==
  ASSUME SetupOK, NEW c \in Cases, NEW a \in Seq(Said), NEW n \in 0..Len(a)
  PROVE  /\ OwnHistory(c, a, n) \in Seq(Message) /\ Len(OwnHistory(c, a, n)) = 2*n+1
         /\ DOMAIN OwnHistory(c, a, n) = 1..2*n+1
         /\ OwnHistory(c, a, n)[1] = User(c)
         /\ \A i \in 1..n : OwnHistory(c, a, n)[2*i] = Assistant(a[i])
<1> DEFINE h == OwnHistory(c, a, n)
<1>1. n \in Nat /\ n <= Len(a) /\ 2*n+1 \in Nat /\ \A i \in 1..n : a[i] \in Said
  OBVIOUS
<1>2. h = [i \in 1..2*n+1 |-> IF i = 1 THEN User(c)
                              ELSE IF i % 2 = 0 THEN Assistant(a[i \div 2]) ELSE ToolMessage]
  BY DEF OwnHistory
<1> HIDE DEF h
<1>3. ASSUME NEW i \in 1..2*n+1
      PROVE  h[i] \in Message
  <2>1. CASE i = 1
    BY <1>1, <1>2, <2>1, UserFacts
  <2>2. CASE i # 1 /\ i % 2 = 0
    <3>1. i \div 2 \in 1..n
      BY <1>1, <2>2
    <3>2. h[i] = Assistant(a[i \div 2]) /\ a[i \div 2] \in Said
      BY <1>1, <1>2, <2>2, <3>1
    <3>. QED
      BY <3>2 DEF Assistant, Message
  <2>3. CASE i # 1 /\ i % 2 # 0
    BY <1>1, <1>2, <2>3 DEF Message
  <2>. QED
    BY <2>1, <2>2, <2>3
<1>4. DOMAIN h = 1..2*n+1 /\ h \in Seq(Message) /\ Len(h) = 2*n+1
  BY <1>1, <1>2, <1>3
<1>5. h[1] = User(c)
  BY <1>1, <1>2
<1>6. ASSUME NEW i \in 1..n
      PROVE  h[2*i] = Assistant(a[i])
  <2>1. 2*i \in 1..2*n+1 /\ 2*i # 1 /\ (2*i) % 2 = 0 /\ (2*i) \div 2 = i
    BY <1>1
  <2>. QED
    BY <1>2, <2>1
<1>. QED
  BY <1>4, <1>5, <1>6 DEF h

LEMMA HistoryGrows ==
  ASSUME SetupOK, NEW c \in Cases, NEW a \in Seq(Said), NEW x \in Said
  PROVE  Append(Append(OwnHistory(c, a, Len(a)), Assistant(x)), ToolMessage)
           = OwnHistory(c, Append(a, x), Len(a) + 1)
<1>1. PICK n : n = Len(a)
  OBVIOUS
<1>2. PICK h, b, g : /\ h = OwnHistory(c, a, n) /\ b = Append(a, x)
                     /\ g = OwnHistory(c, b, n + 1)
  OBVIOUS
<1>3. /\ n \in Nat /\ b \in Seq(Said) /\ Len(b) = n + 1 /\ b[n + 1] = x
      /\ \A i \in 1..n : b[i] = a[i]
  BY <1>1, <1>2
<1>4. h \in Seq(Message) /\ Len(h) = 2*n+1
  BY <1>1, <1>2, <1>3, HistoryFacts
<1>5. g \in Seq(Message) /\ Len(g) = 2*n+3
  <2>1. n + 1 \in 0..Len(b) /\ 2*(n+1)+1 = 2*n+3
    BY <1>3
  <2>. QED
    BY <1>2, <1>3, <2>1, HistoryFacts
<1>6. PICK f : f = Append(Append(h, Assistant(x)), ToolMessage)
  OBVIOUS
<1>7. /\ f \in Seq(Message) /\ Len(f) = 2*n+3
      /\ \A i \in 1..2*n+1 : f[i] = h[i]
      /\ f[2*n+2] = Assistant(x) /\ f[2*n+3] = ToolMessage
  <2>1. Assistant(x) \in Message /\ ToolMessage \in Message
    BY DEF Assistant, Message
  <2>. QED
    BY <1>3, <1>4, <1>6, <2>1
<1>8. /\ h = [i \in 1..2*n+1 |-> IF i = 1 THEN User(c)
                                 ELSE IF i % 2 = 0 THEN Assistant(a[i \div 2]) ELSE ToolMessage]
      /\ g = [i \in 1..2*(n+1)+1 |-> IF i = 1 THEN User(c)
                                     ELSE IF i % 2 = 0 THEN Assistant(b[i \div 2]) ELSE ToolMessage]
  BY <1>2 DEF OwnHistory
<1>9. ASSUME NEW i \in 1..2*n+3
      PROVE  f[i] = g[i]
  <2>1. i \in 1..2*(n+1)+1
    BY <1>3
  <2>2. CASE i \in 1..2*n+1
    <3>1. CASE i = 1
      BY <1>7, <1>8, <2>1, <2>2, <3>1
    <3>2. CASE i # 1 /\ i % 2 = 0
      <4>1. i \div 2 \in 1..n
        BY <1>3, <2>2, <3>2
      <4>2. h[i] = Assistant(a[i \div 2]) /\ g[i] = Assistant(b[i \div 2])
        BY <1>8, <2>1, <2>2, <3>2
      <4>. QED
        BY <1>3, <1>7, <2>2, <4>1, <4>2
    <3>3. CASE i # 1 /\ i % 2 # 0
      BY <1>7, <1>8, <2>1, <2>2, <3>3
    <3>. QED
      BY <3>1, <3>2, <3>3
  <2>3. CASE i = 2*n+2
    <3>1. i # 1 /\ i % 2 = 0 /\ i \div 2 = n + 1
      BY <1>3, <2>3
    <3>. QED
      BY <1>3, <1>7, <1>8, <2>1, <2>3, <3>1
  <2>4. CASE i = 2*n+3
    <3>1. i # 1 /\ i % 2 # 0
      BY <1>3, <2>4
    <3>. QED
      BY <1>7, <1>8, <2>1, <2>4, <3>1
  <2>. QED
    BY <1>3, <2>2, <2>3, <2>4
<1>10. f = g
  <2>1. PICK l : l = 2*n+3
    OBVIOUS
  <2>2. Len(f) = l /\ Len(g) = l /\ \A i \in 1..l : f[i] = g[i]
    BY <1>5, <1>7, <1>9, <2>1
  <2>. QED
    BY <1>5, <1>7, <2>2
<1>. QED
  BY <1>1, <1>2, <1>6, <1>10

\* Only the answers so far count.
LEMMA HistorySame ==
  ASSUME NEW c, NEW a, NEW b, NEW n \in Nat, \A i \in 1..n : a[i] = b[i]
  PROVE  OwnHistory(c, a, n) = OwnHistory(c, b, n)
<1>1. ASSUME NEW i \in 1..2*n+1, i # 1, i % 2 = 0
      PROVE  a[i \div 2] = b[i \div 2]
  <2>1. i \div 2 \in 1..n
    BY <1>1
  <2>. QED
    BY <2>1
<1>. QED
  BY <1>1 DEF OwnHistory

\* A request tells whose it is, if the prompts do, and the answers before it.
LEMMA HistoryTells ==
  ASSUME SetupOK, NEW c \in Cases, NEW d \in Cases, NEW a \in Seq(Said), NEW b \in Seq(Said),
         NEW m \in 0..Len(a), NEW n \in 0..Len(b), OwnHistory(c, a, m) = OwnHistory(d, b, n)
  PROVE  m = n /\ setup.prompt[c] = setup.prompt[d]
<1>1. PICK h : h = OwnHistory(c, a, m)
  OBVIOUS
<1>2. Len(h) = 2*m+1 /\ h[1] = User(c)
  BY <1>1, HistoryFacts
<1>3. Len(h) = 2*n+1 /\ h[1] = User(d)
  BY <1>1, HistoryFacts
<1>4. m = n
  BY <1>2, <1>3
<1>. QED
  BY <1>2, <1>3, <1>4 DEF User

-----------------------------------------------------------------------------
(* The turns of a suite.                                                   *)

Labels == {"wait", "lock", "asking", "tool", "out"}
Turning == {"asking", "tool"}
Phases == {"record", "load", "replay", "done", "refused"}

TurnTypes ==
  /\ SetupOK /\ phase \in Phases
  /\ pc \in [Cases -> Labels]
  /\ memory \in Seq(Message)
  /\ private \in [Cases -> Seq(Message)]
  /\ request \in [Cases -> Seq(Message)]
  /\ run \in [Cases -> Seq(Said)]
  /\ lock \in Cases \cup {0}

\* A case goes on as long as the model asks for calls and steps are left.
Calls(a) == \A k \in 1..Len(a) : IsCall(a[k])
Going(a) == Calls(a) /\ Len(a) < MaxSteps

\* In a suite with one slot a case has it to itself.
Alone(c) == \A d \in Cases : (d < c => pc[d] = "out") /\ (d > c => pc[d] = "wait")

\* What a case works on is its own.
OwnTurn(c) ==
  /\ pc[c] = "asking" => /\ request[c] = OwnHistory(c, run[c], Len(run[c]))
                         /\ History(c) = request[c]
  /\ pc[c] = "tool" => Append(History(c), ToolMessage) = OwnHistory(c, run[c], Len(run[c]))

CaseOK(c) ==
  /\ pc[c] # "wait" => \A d \in Cases : d < c => pc[d] # "wait"
  /\ pc[c] \in {"wait", "lock"} => run[c] = <<>>
  /\ pc[c] = "asking" => Going(run[c])
  /\ pc[c] = "tool" => Calls(run[c]) /\ Len(run[c]) \in 1..MaxSteps
  /\ pc[c] \in Turning /\ setup.mode = "serialized" => lock = c
  /\ setup.slots = 1 => (pc[c] \in Turning => Alone(c))
  /\ CasesShareNothing => pc[c] # "lock" /\ OwnTurn(c)

TurnsOK ==
  /\ TurnTypes
  /\ lock # 0 => pc[lock] \in Turning
  /\ \A c \in Cases : CaseOK(c)

\* While one case moves, the others stand still.
LEMMA OthersStay ==
  ASSUME TurnsOK, NEW c \in Cases, UNCHANGED setup, pc'[c] # "wait",
         \A d \in Cases \ {c} : /\ pc'[d] = pc[d] /\ run'[d] = run[d]
                                /\ request'[d] = request[d] /\ private'[d] = private[d],
         lock' = lock \/ lock \in {0, c},
         setup.slots = 1 => \A d \in Cases \ {c} : pc[d] \notin Turning,
         NEW d \in Cases \ {c}
  PROVE  CaseOK(d)'
<1>1. CaseOK(d) /\ pc'[d] = pc[d] /\ run'[d] = run[d]
  BY DEF TurnsOK
<1>2. lock = d => lock' = lock
  BY CaseFacts
<1>3. pc'[d] # "wait" => \A e \in Cases : e < d => pc'[e] # "wait"
  BY <1>1 DEF CaseOK
<1>4. CasesShareNothing' <=> CasesShareNothing
  BY DEF CasesShareNothing
<1>5. CasesShareNothing' => OwnTurn(d)'
  <2> SUFFICES ASSUME CasesShareNothing', pc[d] \in Turning
               PROVE  OwnTurn(d)'
    BY <1>1 DEF OwnTurn, Turning
  <2>1. setup.mode = "isolated" /\ setup'.mode = "isolated" /\ CasesShareNothing
    BY DEF CasesShareNothing
  <2>2. History(d)' = History(d)
    BY <2>1 DEF History
  <2>3. OwnHistory(d, run[d], Len(run[d]))' = OwnHistory(d, run[d], Len(run[d]))
    BY <1>1 DEF OwnHistory, User
  <2>. QED
    BY <1>1, <2>1, <2>2, <2>3 DEF CaseOK, OwnTurn
<1>. QED
  BY <1>1, <1>2, <1>3, <1>4, <1>5 DEF CaseOK, Going, Calls

\* The case that moves may take the slot: with one slot nobody else has it.
LEMMA OneSlot ==
  ASSUME TurnsOK, NEW c \in Cases, pc[c] = "wait", Cardinality(Running) < setup.slots,
         \A d \in 1..(c - 1) : pc[d] # "wait"
  PROVE  /\ \A d \in Cases : d < c => pc[d] # "wait"
         /\ setup.slots = 1 => Alone(c) /\ lock = 0
<1>1. ASSUME NEW d \in Cases, d < c
      PROVE  pc[d] # "wait"
  BY <1>1, CaseFacts
<1>2. ASSUME setup.slots = 1
      PROVE  Alone(c) /\ lock = 0
  <2>1. IsFiniteSet(Running)
    BY CaseFacts, FS_Subset DEF Running
  <2>2. Cardinality(Running) = 0
    BY <1>2, <2>1, FS_CardinalityType
  <2>3. Running = {}
    BY <2>1, <2>2, FS_EmptySet
  <2>4. ASSUME NEW d \in Cases
        PROVE  pc[d] \in {"wait", "out"}
    BY <2>3 DEF Running, TurnsOK, TurnTypes, Labels
  <2>5. ASSUME NEW d \in Cases, d > c
        PROVE  pc[d] = "wait"
    BY <2>4, <2>5, CaseFacts DEF TurnsOK, CaseOK
  <2>6. lock = 0
    BY <2>4 DEF TurnsOK, TurnTypes, Turning
  <2>. QED
    BY <1>1, <2>4, <2>5, <2>6 DEF Alone
<1>. QED
  BY <1>1, <1>2

\* A case asks: for its first answer, with the lock, or after a tool.
LEMMA AskKeeps ==
  ASSUME TurnsOK, NEW c \in Cases, NEW h \in Seq(Message), UNCHANGED <<setup, phase, run>>,
         Goto(c, "asking"), request' = [request EXCEPT ![c] = h], memory' \in Seq(Message),
         setup.mode = "isolated" => private' = [private EXCEPT ![c] = h] /\ UNCHANGED lock,
         setup.mode = "serialized" =>
           memory' = h /\ lock' = c /\ lock \in {0, c} /\ UNCHANGED private,
         Going(run[c]), \A d \in Cases : d < c => pc[d] # "wait",
         setup.slots = 1 => Alone(c),
         CasesShareNothing => h = OwnHistory(c, run[c], Len(run[c]))
  PROVE  TurnsOK'
<1>0. c # 0 /\ setup.mode \in {"isolated", "serialized"}
  BY CaseFacts DEF TurnsOK, TurnTypes, SetupOK
<1>1. /\ setup.mode \in {"isolated", "serialized"} /\ c # 0
      /\ pc' = [pc EXCEPT ![c] = "asking"] /\ pc'[c] = "asking"
      /\ pc \in [Cases -> Labels] /\ request \in [Cases -> Seq(Message)]
      /\ private \in [Cases -> Seq(Message)] /\ lock \in Cases \cup {0}
  BY <1>0 DEF Goto, TurnsOK, TurnTypes
<1>2. TurnTypes'
  <2>1. pc' \in [Cases -> Labels] /\ request' \in [Cases -> Seq(Message)]
    BY <1>1 DEF Labels
  <2>2. private' \in [Cases -> Seq(Message)] /\ lock' \in Cases \cup {0}
    BY <1>1
  <2>. QED
    BY <2>1, <2>2 DEF TurnsOK, TurnTypes, SetupOK
<1>3. lock' # 0 => pc'[lock'] \in Turning
  BY <1>1 DEF TurnsOK, Turning
<1>4. CaseOK(c)'
  <2>1. \A d \in Cases : d < c => pc'[d] # "wait"
    BY <1>1
  <2>2. setup.slots = 1 => Alone(c)'
    BY <1>1, CaseFacts DEF Alone
  <2>3. Going(run[c])'
    BY DEF Going, Calls
  <2>4. ASSUME CasesShareNothing'
        PROVE  OwnTurn(c)'
    <3>1. CasesShareNothing
      BY <2>4 DEF CasesShareNothing
    <3>2. request'[c] = h /\ History(c)' = h
      BY <1>1 DEF History
    <3>3. OwnHistory(c, run[c], Len(run[c]))' = OwnHistory(c, run[c], Len(run[c]))
      BY DEF OwnHistory, User
    <3>. QED
      BY <1>1, <3>1, <3>2, <3>3 DEF OwnTurn
  <2>. QED
    BY <1>1, <2>1, <2>2, <2>3, <2>4 DEF CaseOK
<1>5. ASSUME NEW d \in Cases \ {c}
      PROVE  CaseOK(d)'
  <2>1. \A e \in Cases \ {c} : /\ pc'[e] = pc[e] /\ run'[e] = run[e]
                                /\ request'[e] = request[e] /\ private'[e] = private[e]
    BY <1>1
  <2>2. lock' = lock \/ lock \in {0, c}
    BY <1>1
  <2>3. setup.slots = 1 => \A e \in Cases \ {c} : pc[e] \notin Turning
    BY CaseFacts DEF Alone, Turning
  <2>. QED
    BY <1>1, <2>1, <2>2, <2>3, OthersStay
<1>. QED
  BY <1>2, <1>3, <1>4, <1>5 DEF TurnsOK

\* A case ends: the lock it held is free, and the others go on.
LEMMA EndKeeps ==
  ASSUME TurnsOK, NEW c \in Cases, pc[c] \in Turning, UNCHANGED <<setup, phase, request>>,
         Goto(c, "out"), lock' = (IF lock = c THEN 0 ELSE lock),
         memory' \in Seq(Message), private' \in [Cases -> Seq(Message)],
         run' \in [Cases -> Seq(Said)],
         \A d \in Cases \ {c} : run'[d] = run[d] /\ private'[d] = private[d]
  PROVE  TurnsOK'
<1>1. /\ pc \in [Cases -> Labels] /\ pc' = [pc EXCEPT ![c] = "out"] /\ pc'[c] = "out"
      /\ lock \in Cases \cup {0}
  BY DEF Goto, TurnsOK, TurnTypes
<1>2. TurnTypes'
  <2>1. pc' \in [Cases -> Labels] /\ lock' \in Cases \cup {0}
    BY <1>1 DEF Labels
  <2>. QED
    BY <2>1 DEF TurnsOK, TurnTypes, SetupOK
<1>3. lock' # 0 => pc'[lock'] \in Turning
  BY <1>1 DEF TurnsOK
<1>4. CaseOK(c)'
  <2>1. \A d \in Cases : d < c => pc'[d] # "wait"
    BY <1>1 DEF TurnsOK, CaseOK, Turning
  <2>. QED
    BY <1>1, <2>1 DEF CaseOK, OwnTurn, Turning
<1>5. ASSUME NEW d \in Cases \ {c}
      PROVE  CaseOK(d)'
  <2>1. \A e \in Cases \ {c} : /\ pc'[e] = pc[e] /\ run'[e] = run[e]
                                /\ request'[e] = request[e] /\ private'[e] = private[e]
    BY <1>1
  <2>2. setup.slots = 1 => \A e \in Cases \ {c} : pc[e] \notin Turning
    <3>1. setup.slots = 1 => Alone(c)
      BY DEF TurnsOK, CaseOK
    <3>. QED
      BY <3>1, CaseFacts DEF Alone, Turning
  <2>3. lock' = lock \/ lock \in {0, c}
    OBVIOUS
  <2>. QED
    BY <1>1, <2>1, <2>2, <2>3, OthersStay
<1>. QED
  BY <1>2, <1>3, <1>4, <1>5 DEF TurnsOK

LEMMA RaiseKeeps ==
  ASSUME TurnsOK, NEW c \in Cases, pc[c] \in Turning, UNCHANGED <<setup, phase>>, Raises(c)
  PROVE  TurnsOK'
<1>1. /\ Goto(c, "out") /\ lock' = (IF lock = c THEN 0 ELSE lock)
      /\ UNCHANGED <<memory, private, request, run>>
  BY DEF Raises, EndsWith
<1>2. /\ memory' \in Seq(Message) /\ private' \in [Cases -> Seq(Message)]
      /\ run' \in [Cases -> Seq(Said)]
  BY <1>1 DEF TurnsOK, TurnTypes
<1>. QED
  BY <1>1, <1>2, EndKeeps

\* An answer goes into the run of the case and into the history it works on.
LEMMA TakeFacts ==
  ASSUME TurnsOK, NEW c \in Cases, NEW a \in Said, Take(c, a)
  PROVE  /\ run' = [run EXCEPT ![c] = Append(run[c], a)] /\ UNCHANGED request
         /\ memory' \in Seq(Message) /\ private' \in [Cases -> Seq(Message)]
         /\ run' \in [Cases -> Seq(Said)]
         /\ \A d \in Cases \ {c} : run'[d] = run[d] /\ private'[d] = private[d]
         /\ ~IsCall(a) => EndsWith(c, Verdict(c, Append(run[c], a)))
         /\ IsCall(a) => Goto(c, "tool") /\ UNCHANGED <<result, lock>>
         /\ IsCall(a) /\ setup' = setup => History(c)' = Append(History(c), Assistant(a))
<1>1. /\ setup.mode \in {"isolated", "serialized"} /\ memory \in Seq(Message)
      /\ private \in [Cases -> Seq(Message)] /\ run \in [Cases -> Seq(Said)]
      /\ run[c] \in Seq(Said)
  BY DEF TurnsOK, TurnTypes, SetupOK
<1>2. Assistant(a) \in Message
  BY DEF Assistant, Message
<1>3. Append(History(c), Assistant(a)) \in Seq(Message) /\ Append(memory, Assistant(a)) \in Seq(Message)
  BY <1>1, <1>2 DEF History
<1>4. /\ run' = [run EXCEPT ![c] = Append(run[c], a)] /\ UNCHANGED request
      /\ setup.mode = "isolated" => private' = [private EXCEPT ![c] = Append(History(c), Assistant(a))]
      /\ setup.mode # "isolated" => private' = private
      /\ ~IsCall(a) => /\ EndsWith(c, Verdict(c, Append(run[c], a)))
                       /\ memory' = IF setup.mode = "serialized" THEN Append(memory, Assistant(a))
                                     ELSE memory \o Append(History(c), Assistant(a))
      /\ IsCall(a) => memory' = IF setup.mode = "serialized" THEN Append(memory, Assistant(a)) ELSE memory
  BY DEF Take
<1>5. IsCall(a) => Goto(c, "tool") /\ UNCHANGED <<result, lock>>
  BY DEF Take
<1>6. memory' \in Seq(Message) /\ private' \in [Cases -> Seq(Message)]
  <2>1. PICK h : h = Append(History(c), Assistant(a))
    OBVIOUS
  <2>2. h \in Seq(Message) /\ memory \o h \in Seq(Message)
    BY <1>1, <1>3, <2>1
  <2>3. memory' \in Seq(Message)
    BY <1>1, <1>3, <1>4, <2>1, <2>2
  <2>4. private' \in [Cases -> Seq(Message)]
    BY <1>1, <1>4, <2>1, <2>2
  <2>. QED
    BY <2>3, <2>4
<1>7. run' \in [Cases -> Seq(Said)]
  <2>1. Append(run[c], a) \in Seq(Said)
    BY <1>1
  <2>. QED
    BY <1>1, <1>4, <2>1
<1>8. \A d \in Cases \ {c} : run'[d] = run[d] /\ private'[d] = private[d]
  BY <1>1, <1>4
<1>9. ASSUME IsCall(a), setup' = setup
      PROVE  History(c)' = Append(History(c), Assistant(a))
  BY <1>1, <1>4, <1>9 DEF History
<1>. QED
  BY <1>4, <1>5, <1>6, <1>7, <1>8, <1>9

LEMMA TakeKeeps ==
  ASSUME TurnsOK, NEW c \in Cases, NEW a \in Said, pc[c] = "asking",
         UNCHANGED <<setup, phase>>, Take(c, a)
  PROVE  TurnsOK'
<1>1. /\ run' = [run EXCEPT ![c] = Append(run[c], a)] /\ UNCHANGED request
      /\ memory' \in Seq(Message) /\ private' \in [Cases -> Seq(Message)]
      /\ run' \in [Cases -> Seq(Said)]
      /\ \A d \in Cases \ {c} : run'[d] = run[d] /\ private'[d] = private[d]
  BY TakeFacts
<1>2. pc[c] \in Turning
  BY DEF Turning
<1>3. CASE ~IsCall(a)
  <2>1. Goto(c, "out") /\ lock' = (IF lock = c THEN 0 ELSE lock)
    BY <1>3, TakeFacts DEF EndsWith
  <2>. QED
    BY <1>1, <1>2, <2>1, EndKeeps
<1>4. CASE IsCall(a)
  <2>1. /\ Goto(c, "tool") /\ UNCHANGED lock
        /\ History(c)' = Append(History(c), Assistant(a))
    BY <1>4, TakeFacts
  <2>2. /\ pc \in [Cases -> Labels] /\ pc' = [pc EXCEPT ![c] = "tool"] /\ pc'[c] = "tool"
        /\ lock \in Cases \cup {0} /\ run[c] \in Seq(Said) /\ run \in [Cases -> Seq(Said)]
        /\ SetupOK
    BY <2>1 DEF Goto, TurnsOK, TurnTypes
  <2>3. run'[c] = Append(run[c], a)
    BY <1>1, <2>2
  <2>4. TurnTypes'
    <3>1. pc' \in [Cases -> Labels]
      BY <2>2 DEF Labels
    <3>. QED
      BY <1>1, <2>1, <3>1 DEF TurnsOK, TurnTypes, SetupOK
  <2>5. lock' # 0 => pc'[lock'] \in Turning
    BY <2>1, <2>2 DEF TurnsOK, Turning
  <2>6. CaseOK(c)'
    <3>1. /\ \A d \in Cases : d < c => pc[d] # "wait"
          /\ Going(run[c])
          /\ setup.mode = "serialized" => lock = c
          /\ setup.slots = 1 => Alone(c)
          /\ CasesShareNothing => OwnTurn(c)
      BY <1>2 DEF TurnsOK, CaseOK
    <3>2. \A d \in Cases : d < c => pc'[d] # "wait"
      BY <2>2, <3>1
    <3>3. Calls(run'[c]) /\ Len(run'[c]) \in 1..MaxSteps
      <4>1. PICK l : l = Len(run[c])
        OBVIOUS
      <4>2. PICK b : b = Append(run[c], a)
        OBVIOUS
      <4>3. /\ Len(b) = l + 1 /\ l \in Nat /\ b[l + 1] = a
            /\ \A i \in 1..l : b[i] = run[c][i]
        BY <2>2, <4>1, <4>2
      <4>4. l < MaxSteps /\ \A k \in 1..l : IsCall(run[c][k])
        BY <3>1, <4>1 DEF Going, Calls
      <4>5. \A k \in 1..l+1 : k \in 1..l \/ k = l + 1
        BY <4>3
      <4>6. \A k \in 1..l+1 : IsCall(b[k])
        BY <1>4, <4>3, <4>4, <4>5
      <4>7. Len(b) \in 1..MaxSteps
        BY <4>3, <4>4, CaseFacts
      <4>. QED
        BY <2>3, <4>2, <4>3, <4>6, <4>7 DEF Calls
    <3>4. setup.slots = 1 => Alone(c)'
      BY <2>2, <3>1, CaseFacts DEF Alone
    <3>5. ASSUME CasesShareNothing'
          PROVE  OwnTurn(c)'
      <4>1. CasesShareNothing
        BY <3>5 DEF CasesShareNothing
      <4>2. History(c) = OwnHistory(c, run[c], Len(run[c]))
        BY <3>1, <4>1 DEF OwnTurn
      <4>3. Append(History(c)', ToolMessage) = OwnHistory(c, Append(run[c], a), Len(run[c]) + 1)
        BY <2>1, <2>2, <4>2, HistoryGrows
      <4>4. Len(Append(run[c], a)) = Len(run[c]) + 1
        BY <2>2
      <4>5. OwnHistory(c, run[c], Len(run[c]))' = OwnHistory(c, run'[c], Len(run'[c]))
        BY DEF OwnHistory, User
      <4>. QED
        BY <2>2, <2>3, <4>3, <4>4, <4>5 DEF OwnTurn
    <3>. QED
      BY <2>1, <2>2, <3>1, <3>2, <3>3, <3>4, <3>5 DEF CaseOK, Calls, CasesShareNothing
  <2>7. ASSUME NEW d \in Cases \ {c}
        PROVE  CaseOK(d)'
    <3>1. \A e \in Cases \ {c} : /\ pc'[e] = pc[e] /\ run'[e] = run[e]
                                  /\ request'[e] = request[e] /\ private'[e] = private[e]
      BY <1>1, <2>2
    <3>2. setup.slots = 1 => \A e \in Cases \ {c} : pc[e] \notin Turning
      BY <1>2, CaseFacts DEF TurnsOK, CaseOK, Alone, Turning
    <3>. QED
      BY <2>1, <2>2, <3>1, <3>2, OthersStay
  <2>. QED
    BY <2>4, <2>5, <2>6, <2>7 DEF TurnsOK
<1>. QED
  BY <1>3, <1>4

LEMMA FirstHistory ==
  ASSUME SetupOK, NEW c \in Cases
  PROVE  <<User(c)>> = OwnHistory(c, <<>>, Len(<<>>)) /\ <<User(c)>> \in Seq(Message)
<1>1. PICK u : u = User(c)
  OBVIOUS
<1>2. u \in Message
  BY <1>1, UserFacts
<1>3. PICK g : g = OwnHistory(c, <<>>, 0)
  OBVIOUS
<1>4. g \in Seq(Message) /\ Len(g) = 1 /\ g[1] = u
  <2>1. <<>> \in Seq(Said) /\ 0 \in 0..Len(<<>>) /\ 2*0+1 = 1
    OBVIOUS
  <2>. QED
    BY <1>1, <1>3, <2>1, HistoryFacts
<1>5. g = <<u>>
  BY <1>4
<1>. QED
  BY <1>1, <1>2, <1>3, <1>5

LEMMA BeginKeeps ==
  ASSUME TurnsOK, NEW c \in Cases, Begin(c)
  PROVE  TurnsOK'
<1>1. /\ pc[c] = "wait" /\ Cardinality(Running) < setup.slots
      /\ \A d \in 1..(c - 1) : pc[d] # "wait"
      /\ UNCHANGED <<setup, phase, run>>
  BY DEF Begin
<1>2. \A d \in Cases : d < c => pc[d] # "wait"
  BY <1>1, OneSlot
<1>3. setup.slots = 1 => Alone(c) /\ lock = 0
  BY <1>1, OneSlot
<1>4. SetupOK /\ setup.mode \in {"isolated", "serialized"} /\ run[c] = <<>> /\ pc \in [Cases -> Labels]
  BY <1>1 DEF TurnsOK, CaseOK, TurnTypes, SetupOK
<1>5. PICK h : h = <<User(c)>>
  OBVIOUS
<1>6. h = OwnHistory(c, run[c], Len(run[c])) /\ h \in Seq(Message)
  BY <1>4, <1>5, FirstHistory
<1>7. Going(run[c])
  BY <1>4, CaseFacts DEF Going, Calls
<1>8. CASE setup.mode = "isolated"
  <2>1. /\ Goto(c, "asking") /\ memory' = <<>> /\ private' = [private EXCEPT ![c] = h]
        /\ request' = [request EXCEPT ![c] = h] /\ UNCHANGED lock
    BY <1>5, <1>8 DEF Begin
  <2>2. memory' \in Seq(Message)
    BY <2>1
  <2>. QED
    BY <1>1, <1>2, <1>3, <1>6, <1>7, <1>8, <2>1, <2>2, AskKeeps
<1>9. CASE setup.mode # "isolated" /\ lock = 0
  <2>1. /\ Goto(c, "asking") /\ memory' = h /\ UNCHANGED private
        /\ request' = [request EXCEPT ![c] = h] /\ lock' = c
    BY <1>5, <1>9 DEF Begin, Asking
  <2>2. memory' \in Seq(Message)
    BY <1>6, <2>1
  <2>. QED
    BY <1>1, <1>2, <1>3, <1>6, <1>7, <1>9, <2>1, <2>2, AskKeeps
<1>10. CASE setup.mode # "isolated" /\ lock # 0
  <2>1. Goto(c, "lock") /\ memory' = <<>> /\ UNCHANGED <<private, request, lock>>
    BY <1>10 DEF Begin
  <2>2. pc' = [pc EXCEPT ![c] = "lock"] /\ pc'[c] = "lock" /\ ~CasesShareNothing /\ setup.slots # 1
    BY <1>3, <1>4, <1>10, <2>1 DEF Goto, CasesShareNothing
  <2>3. TurnTypes'
    <3>1. pc' \in [Cases -> Labels] /\ memory' \in Seq(Message)
      BY <1>4, <2>1, <2>2 DEF Labels
    <3>. QED
      BY <1>1, <2>1, <3>1 DEF TurnsOK, TurnTypes, SetupOK
  <2>4. lock' # 0 => pc'[lock'] \in Turning
    BY <1>1, <1>4, <2>1, <2>2 DEF TurnsOK, TurnTypes, Turning
  <2>5. CaseOK(c)'
    BY <1>1, <1>2, <1>4, <2>2 DEF CaseOK, Turning, CasesShareNothing
  <2>6. ASSUME NEW d \in Cases \ {c}
        PROVE  CaseOK(d)'
    <3>1. \A e \in Cases \ {c} : /\ pc'[e] = pc[e] /\ run'[e] = run[e]
                                  /\ request'[e] = request[e] /\ private'[e] = private[e]
      BY <1>1, <1>4, <2>1, <2>2
    <3>. QED
      BY <1>1, <2>1, <2>2, <3>1, OthersStay
  <2>. QED
    BY <2>3, <2>4, <2>5, <2>6 DEF TurnsOK
<1>. QED
  BY <1>8, <1>9, <1>10

\* Asking, from the lock or after a tool, with the conversation and one message more.
LEMMA NextRequest ==
  ASSUME TurnsOK, NEW c \in Cases, pc[c] \in {"lock", "tool"}, NEW m \in Message,
         UNCHANGED <<setup, phase, run>>, Asking(c, Append(History(c), m)),
         setup.mode = "serialized" => lock \in {0, c}, Going(run[c]),
         setup.slots = 1 => Alone(c),
         CasesShareNothing => Append(History(c), m) = OwnHistory(c, run[c], Len(run[c]))
  PROVE  TurnsOK'
<1>1. /\ setup.mode \in {"isolated", "serialized"} /\ memory \in Seq(Message)
      /\ private \in [Cases -> Seq(Message)]
  BY DEF TurnsOK, TurnTypes, SetupOK
<1>2. PICK h : h = Append(History(c), m)
  OBVIOUS
<1>3. h \in Seq(Message)
  BY <1>1, <1>2 DEF History
<1>4. /\ Goto(c, "asking") /\ request' = [request EXCEPT ![c] = h]
      /\ setup.mode = "isolated" =>
           private' = [private EXCEPT ![c] = h] /\ UNCHANGED <<memory, lock>>
      /\ setup.mode # "isolated" => memory' = h /\ lock' = c /\ UNCHANGED private
  BY <1>2 DEF Asking
<1>5. memory' \in Seq(Message)
  BY <1>1, <1>3, <1>4
<1>6. \A d \in Cases : d < c => pc[d] # "wait"
  BY DEF TurnsOK, CaseOK
<1>. QED
  BY <1>1, <1>2, <1>3, <1>4, <1>5, <1>6, AskKeeps

LEMMA AcquireKeeps ==
  ASSUME TurnsOK, NEW c \in Cases, Acquire(c)
  PROVE  TurnsOK'
<1>1. /\ pc[c] = "lock" /\ lock = 0 /\ UNCHANGED <<setup, phase, run>>
      /\ Asking(c, Append(memory, User(c)))
  BY DEF Acquire
<1>2. /\ ~CasesShareNothing /\ run[c] = <<>> /\ SetupOK
  BY <1>1 DEF TurnsOK, TurnTypes, CaseOK
<1>3. History(c) = memory /\ setup.slots # 1
  BY <1>2 DEF CasesShareNothing, History
<1>4. Going(run[c])
  BY <1>2, CaseFacts DEF Going, Calls
<1>. QED
  BY <1>1, <1>2, <1>3, <1>4, UserFacts, NextRequest

\* What a tool leaves: another question, or the end of the steps.
LEMMA ToolFacts ==
  ASSUME TurnsOK, NEW c \in Cases, Tool(c)
  PROVE  /\ phase \in Suite /\ pc[c] = "tool"
         /\ UNCHANGED <<setup, phase, run, recorder, replay, failures>>
         /\ run[c] \in Seq(Said) /\ Len(run[c]) \in 1..MaxSteps /\ Calls(run[c])
         /\ Len(run[c]) < MaxSteps => Asking(c, Append(History(c), ToolMessage)) /\ UNCHANGED result
         /\ Len(run[c]) = MaxSteps => OutOfSteps(c, Append(History(c), ToolMessage))
<1>1. pc[c] = "tool" /\ run[c] \in Seq(Said) /\ CaseOK(c)
  BY DEF Tool, TurnsOK, TurnTypes
<1>. QED
  BY <1>1, CaseFacts DEF Tool, CaseOK

LEMMA ToolKeeps ==
  ASSUME TurnsOK, NEW c \in Cases, Tool(c)
  PROVE  TurnsOK'
<1>1. pc[c] = "tool" /\ UNCHANGED <<setup, phase, run>> /\ Len(run[c]) \in 1..MaxSteps /\ Calls(run[c])
  BY ToolFacts
<1>2. /\ setup.mode = "serialized" => lock = c
      /\ setup.slots = 1 => Alone(c)
      /\ CasesShareNothing => Append(History(c), ToolMessage) = OwnHistory(c, run[c], Len(run[c]))
  BY <1>1 DEF TurnsOK, CaseOK, OwnTurn, Turning
<1>3. ToolMessage \in Message
  BY DEF Message
<1>4. CASE Len(run[c]) < MaxSteps
  <2>1. Asking(c, Append(History(c), ToolMessage)) /\ Going(run[c])
    BY <1>1, <1>4, ToolFacts DEF Going
  <2>. QED
    BY <1>1, <1>2, <1>3, <2>1, NextRequest
<1>5. CASE ~(Len(run[c]) < MaxSteps)
  <2>1. PICK h : h = Append(History(c), ToolMessage)
    OBVIOUS
  <2>2. Len(run[c]) = MaxSteps
    BY <1>1, <1>5, CaseFacts
  <2>3. OutOfSteps(c, h)
    BY <2>1, <2>2, ToolFacts
  <2>4. /\ memory \in Seq(Message) /\ private \in [Cases -> Seq(Message)]
        /\ run \in [Cases -> Seq(Said)]
    BY DEF TurnsOK, TurnTypes
  <2>5. h \in Seq(Message)
    BY <1>3, <2>1, <2>4 DEF History
  <2>6. /\ Goto(c, "out") /\ lock' = (IF lock = c THEN 0 ELSE lock) /\ UNCHANGED request
        /\ \/ private' = [private EXCEPT ![c] = h] /\ UNCHANGED memory
           \/ memory' = h /\ UNCHANGED private
    BY <2>3 DEF OutOfSteps, EndsWith
  <2>7. /\ memory' \in Seq(Message) /\ private' \in [Cases -> Seq(Message)]
        /\ \A d \in Cases \ {c} : private'[d] = private[d]
    BY <2>4, <2>5, <2>6
  <2>8. pc[c] \in Turning
    BY <1>1 DEF Turning
  <2>. QED
    BY <1>1, <2>4, <2>6, <2>7, <2>8, EndKeeps
<1>. QED
  BY <1>4, <1>5

-----------------------------------------------------------------------------
(* The file.                                                               *)

Taken == [line : {"exchange"}, request : Seq(Message), response : Said]
Line == Taken \cup {Header, Torn, OldExchange}

\* What was in the file, and what a recorder leaves there once it has written.
Base == IF setup.reused THEN <<Header, OldExchange>> ELSE <<>>
Written(b, q) == (b \o <<Header>>) \o q

FileGrew == /\ wrote => file = Written(Base, returned)
            /\ ~wrote => file = Base /\ returned = <<>>

\* What a file that loads holds: LoadIsHonest, and nothing new if it was used before.
Fits ==
  /\ setup.reused => returned = <<>> /\ Exchanges = <<OldExchange>>
  /\ ~setup.reused => /\ IsPrefix(returned, Exchanges)
                      /\ Len(Exchanges) <= Len(returned) + 1
                      /\ Recorded => Exchanges = returned

ResultType == result = [p \in Suite |-> [c \in Cases |-> result[p][c]]]

RecorderOK ==
  /\ file \in Seq(Line) /\ wrote \in BOOLEAN /\ returned \in Seq(Taken) /\ ResultType
  /\ phase = "record" =>
       FileGrew /\ \A c \in Cases : pc[c] # "out" => ~result["record"][c].ended
  /\ phase = "load" /\ Loads => Fits
  /\ phase \in {"replay", "done"} => Loads /\ Fits

LEMMA PrefixFacts ==
  ASSUME NEW S, NEW q \in Seq(S), NEW x \in S
  PROVE  /\ IsPrefix(q, q) /\ IsPrefix(q, Append(q, x))
         /\ Append(q, x) \in Seq(S) /\ Len(Append(q, x)) = Len(q) + 1
<1>1. PICK b, l : b = Append(q, x) /\ l = Len(q)
  OBVIOUS
<1>2. /\ b \in Seq(S) /\ Len(b) = l + 1 /\ l \in Nat /\ \A i \in 1..l : b[i] = q[i]
  BY <1>1
<1>3. SubSeq(b, 1, l) = SubSeq(q, 1, l)
  <2>1. /\ SubSeq(b, 1, l) = [i \in 1..l |-> b[i]] /\ SubSeq(q, 1, l) = [i \in 1..l |-> q[i]]
    BY <1>1, <1>2
  <2>. QED
    BY <1>2, <2>1
<1>. QED
  BY <1>1, <1>2, <1>3 DEF IsPrefix

LEMMA LineFacts ==
  /\ Header \in Line /\ Torn \in Line /\ OldExchange \in Line
  /\ <<>> \in Seq(Line) /\ <<Header>> \in Seq(Line) /\ <<Torn>> \in Seq(Line)
  /\ <<Header, OldExchange>> \in Seq(Line) /\ Base \in Seq(Line)
  /\ Seq(Taken) \subseteq Seq(Line)
<1>1. Header \in Line /\ Torn \in Line /\ OldExchange \in Line
  BY DEF Line
<1>2. PICK h, t, o : h = Header /\ t = Torn /\ o = OldExchange
  OBVIOUS
<1>3. <<>> \in Seq(Line) /\ <<h>> \in Seq(Line) /\ <<t>> \in Seq(Line) /\ <<h, o>> \in Seq(Line)
  BY <1>1, <1>2
<1>4. Base \in Seq(Line)
  BY <1>2, <1>3 DEF Base
<1>5. Taken \subseteq Line
  BY DEF Line
<1>6. Seq(Taken) \subseteq Seq(Line)
  BY <1>5
<1>. QED
  BY <1>1, <1>2, <1>3, <1>4, <1>6

\* A header in the middle of a file does not load: what loads was not used before.
LEMMA LoadsTell ==
  ASSUME NEW b \in {<<>>, <<Header, OldExchange>>}, NEW q \in Seq(Taken), NEW f,
         f = Written(b, q), \A i \in 2..Len(f) : f[i].line = "exchange"
  PROVE  b = <<>> /\ f # <<>> /\ Tail(f) = q
<1>1. q \in Seq(Line) /\ <<Header>> \in Seq(Line) /\ b \in Seq(Line) /\ Header \in Line
  BY LineFacts
<1>2. Header.line # "exchange"
  BY DEF Header
<1>3. CASE b = <<Header, OldExchange>>
  <2>1. PICK g : g = b \o <<Header>>
    OBVIOUS
  <2>2. g \in Seq(Line) /\ Len(g) = 3 /\ g[3] = Header
    BY <1>1, <1>3, <2>1
  <2>3. Len(f) = 3 + Len(q) /\ f[3] = Header
    BY <1>1, <2>1, <2>2, ConcatProperties DEF Written
  <2>4. 3 \in 2..Len(f)
    BY <1>1, <2>3
  <2>. QED
    BY <1>2, <2>3, <2>4
<1>4. CASE b = <<>>
  <2>1. f = <<Header>> \o q
    BY <1>4 DEF Written
  <2>2. PICK l : l = Len(q)
    OBVIOUS
  <2>3. f \in Seq(Line) /\ Len(f) = l + 1 /\ l \in Nat /\ \A i \in 1..l : f[i+1] = q[i]
    BY <1>1, <2>1, <2>2
  <2>4. f # <<>>
    BY <2>3
  <2>5. PICK t : t = Tail(f)
    OBVIOUS
  <2>6. t \in Seq(Line) /\ Len(t) = l /\ \A i \in 1..l : t[i] = f[i+1]
    BY <2>3, <2>4, <2>5, HeadTailProperties
  <2>7. \A i \in 1..l : t[i] = q[i]
    BY <2>3, <2>6
  <2>8. t = q
    BY <1>1, <2>2, <2>6, <2>7, SeqEqual
  <2>. QED
    BY <1>4, <2>4, <2>5, <2>8
<1>. QED
  BY <1>3, <1>4

\* A file that ends in the middle of a line does not load.
LEMMA TornTells ==
  ASSUME NEW g \in Seq(Line), NEW f, f = g \o <<Torn>>,
         f[1] = Header, \A i \in 2..Len(f) : f[i].line = "exchange"
  PROVE  FALSE
<1>1. PICK l : l = Len(g)
  OBVIOUS
<1>2. l \in Nat /\ Len(f) = l + 1 /\ f[l + 1] = Torn
  <2>1. Torn \in Line /\ <<Torn>> \in Seq(Line)
    BY DEF Line
  <2>. QED
    BY <1>1, <2>1
<1>3. Torn # Header /\ Torn.line # "exchange"
  BY DEF Torn, Header
<1>4. CASE l = 0
  BY <1>2, <1>3, <1>4
<1>5. CASE l # 0
  BY <1>2, <1>3, <1>5
<1>. QED
  BY <1>4, <1>5

\* One exchange more, with the header if nothing was written yet.
LEMMA OneMore ==
  ASSUME RecorderOK, FileGrew, NEW x \in Taken
  PROVE  file \o Lines(x) = Written(Base, Append(returned, x)) /\ Lines(x) \in Seq(Line)
<1>1. /\ returned \in Seq(Line) /\ <<Header>> \in Seq(Line) /\ Base \in Seq(Line) /\ x \in Line
      /\ <<x>> \in Seq(Line) /\ wrote \in BOOLEAN
  <2>1. x \in Line
    BY DEF Line
  <2>. QED
    BY <2>1, LineFacts DEF RecorderOK
<1>2. PICK b : b = Base
  OBVIOUS
<1>3. CASE wrote
  <2>1. /\ Lines(x) = <<x>> /\ file = (b \o <<Header>>) \o returned
    BY <1>2, <1>3 DEF Lines, FileGrew, Written
  <2>2. Append(returned, x) = returned \o <<x>>
    BY <1>1, AppendIsConcat
  <2>3. b \o <<Header>> \in Seq(Line)
    BY <1>1, <1>2
  <2>4. ((b \o <<Header>>) \o returned) \o <<x>> = (b \o <<Header>>) \o (returned \o <<x>>)
    BY <1>1, <2>3, ConcatAssociative
  <2>. QED
    BY <1>1, <1>2, <2>1, <2>2, <2>4 DEF Written
<1>4. CASE ~wrote
  <2>1. Lines(x) = <<Header, x>> /\ file = b /\ returned = <<>>
    BY <1>2, <1>4 DEF Lines, FileGrew
  <2>2. <<Header, x>> = <<Header>> \o <<x>> /\ Append(<<>>, x) = <<x>>
    OBVIOUS
  <2>3. (b \o <<Header>>) \o <<x>> = b \o (<<Header>> \o <<x>>)
    BY <1>1, <1>2, ConcatAssociative
  <2>4. <<Header, x>> \in Seq(Line)
    BY <1>1, LineFacts
  <2>. QED
    BY <1>2, <2>1, <2>2, <2>3, <2>4 DEF Written
<1>. QED
  BY <1>3, <1>4

\* What a crash or the end of the suite leaves is honest, if it loads.
LEMMA LeftFits ==
  ASSUME RecorderOK, FileGrew, UNCHANGED <<setup, returned>>,
         \/ file' = file
         \/ /\ ~Recorded'
            /\ \E x \in Taken : file' = Written(Base, Append(returned, x))
         \/ \E g \in Seq(Line) : file' = g \o <<Torn>>,
         Loads'
  PROVE  Fits'
<1>1. /\ returned \in Seq(Taken) /\ returned \in Seq(Line) /\ wrote \in BOOLEAN
      /\ Base \in {<<>>, <<Header, OldExchange>>} /\ (setup.reused <=> Base # <<>>)
  BY LineFacts DEF RecorderOK, Base
<1>2. file' # <<>> /\ file'[1] = Header /\ \A i \in 2..Len(file') : file'[i].line = "exchange"
  BY DEF Loads
<1>3. Exchanges' = Tail(file')
  BY <1>2 DEF Exchanges
<1>4. ASSUME NEW q \in Seq(Taken), file' = Written(Base, q), q = returned \/ ~Recorded',
             \/ q = returned
             \/ \E x \in Taken : q = Append(returned, x)
      PROVE  Fits'
  <2>1. Base = <<>> /\ Exchanges' = q
    BY <1>1, <1>2, <1>3, <1>4, LoadsTell
  <2>2. IsPrefix(returned, q) /\ Len(q) <= Len(returned) + 1
    <3>1. CASE q = returned
      BY <1>1, <3>1, PrefixFacts
    <3>2. ASSUME NEW x \in Taken, q = Append(returned, x)
          PROVE  IsPrefix(returned, q) /\ Len(q) <= Len(returned) + 1
      <4>1. IsPrefix(returned, q) /\ Len(q) = Len(returned) + 1
        BY <1>1, <3>2, PrefixFacts
      <4>2. Len(returned) \in Nat
        BY <1>1
      <4>. QED
        BY <4>1, <4>2
    <3>. QED
      BY <1>4, <3>1, <3>2
  <2>. QED
    BY <1>1, <1>4, <2>1, <2>2 DEF Fits
<1>5. CASE file' = file /\ wrote
  BY <1>1, <1>4, <1>5 DEF FileGrew
<1>6. CASE file' = file /\ ~wrote
  <2>1. file' = Base /\ returned = <<>>
    BY <1>6 DEF FileGrew
  <2>2. setup.reused /\ file' = <<Header, OldExchange>>
    BY <1>2, <2>1 DEF Base
  <2>3. Tail(file') = <<OldExchange>>
    <3>1. PICK h, o : h = Header /\ o = OldExchange
      OBVIOUS
    <3>2. Tail(<<h, o>>) = <<o>>
      OBVIOUS
    <3>. QED
      BY <2>2, <3>1, <3>2
  <2>. QED
    BY <1>3, <2>1, <2>2, <2>3 DEF Fits
<1>7. CASE ~Recorded' /\ \E x \in Taken : file' = Written(Base, Append(returned, x))
  <2>1. PICK x \in Taken : file' = Written(Base, Append(returned, x))
    BY <1>7
  <2>2. Append(returned, x) \in Seq(Taken)
    BY <1>1
  <2>. QED
    BY <1>4, <1>7, <2>1, <2>2
<1>8. CASE \E g \in Seq(Line) : file' = g \o <<Torn>>
  BY <1>2, <1>8, TornTells
<1>. QED
  BY <1>1, <1>5, <1>6, <1>7, <1>8

\* Where a result moves: that of the case, at its end, in this phase.
ResultMoves(c) ==
  /\ ResultType'
  /\ \A q \in Suite, d \in Cases :
       q # phase \/ d # c \/ pc'[c] # "out" => result'[q][d] = result[q][d]
  /\ \A d \in Cases \ {c} : pc'[d] = pc[d]

LEMMA EndMoves ==
  ASSUME TurnTypes, ResultType, phase \in Suite, NEW c \in Cases, NEW r, EndsWith(c, r)
  PROVE  ResultMoves(c) /\ pc'[c] = "out" /\ result'[phase][c] = r
<1>1. result' = [result EXCEPT ![phase][c] = r] /\ pc' = [pc EXCEPT ![c] = "out"]
  BY DEF EndsWith, Goto
<1>2. /\ DOMAIN result = Suite /\ \A q \in Suite : DOMAIN result[q] = Cases
      /\ \A q \in Suite : result[q] = [d \in Cases |-> result[q][d]]
  BY DEF ResultType
<1>3. pc'[c] = "out" /\ \A d \in Cases \ {c} : pc'[d] = pc[d]
  BY <1>1 DEF TurnTypes
<1>4. /\ DOMAIN result' = Suite /\ \A q \in Suite : result'[q] = IF q = phase THEN [result[q] EXCEPT ![c] = r] ELSE result[q]
  BY <1>1, <1>2
<1>5. \A q \in Suite : /\ DOMAIN result'[q] = Cases
                       /\ \A d \in Cases : result'[q][d] = IF q = phase /\ d = c THEN r ELSE result[q][d]
  BY <1>2, <1>4
<1>6. ResultType'
  <2>1. \A q \in Suite : result'[q] = [d \in Cases |-> result'[q][d]]
    <3> TAKE q \in Suite
    <3>1. PICK g : g = result[q]
      OBVIOUS
    <3>2. g = [d \in Cases |-> g[d]]
      BY <1>2, <3>1
    <3>3. result'[q] = g \/ result'[q] = [g EXCEPT ![c] = r]
      BY <1>4, <3>1
    <3>. QED
      BY <3>2, <3>3
  <2>2. result' = [q \in DOMAIN result' |-> result'[q]]
    BY <1>1
  <2>. QED
    BY <1>4, <2>1, <2>2 DEF ResultType
<1>. QED
  BY <1>3, <1>5, <1>6 DEF ResultMoves

LEMMA StillMoves ==
  ASSUME TurnTypes, ResultType, NEW c \in Cases, NEW l, Goto(c, l), UNCHANGED result
  PROVE  ResultMoves(c) /\ pc'[c] = l
<1>1. pc' = [pc EXCEPT ![c] = l]
  BY DEF Goto
<1>. QED
  BY <1>1 DEF ResultMoves, ResultType, TurnTypes

LEMMA TakeMoves ==
  ASSUME TurnsOK, ResultType, phase \in Suite, NEW c \in Cases, NEW a \in Said, Take(c, a)
  PROVE  ResultMoves(c)
<1>1. TurnTypes
  BY DEF TurnsOK
<1>2. CASE ~IsCall(a)
  BY <1>1, <1>2, TakeFacts, EndMoves
<1>3. CASE IsCall(a)
  BY <1>1, <1>3, TakeFacts, StillMoves
<1>. QED
  BY <1>2, <1>3

\* A step of a case that writes nothing.
LEMMA RecorderStays ==
  ASSUME RecorderOK, UNCHANGED <<setup, phase, recorder>>, phase \in Suite,
         NEW c \in Cases, pc[c] # "out", ResultMoves(c)
  PROVE  RecorderOK'
<1>1. UNCHANGED <<file, wrote, returned>> /\ ResultType'
  BY DEF recorder, ResultMoves
<1>2. ASSUME phase = "record"
      PROVE  FileGrew' /\ \A d \in Cases : pc'[d] # "out" => ~result'["record"][d].ended
  <2>1. FileGrew'
    BY <1>1, <1>2 DEF RecorderOK, FileGrew, Base
  <2>. QED
    BY <1>2, <2>1 DEF RecorderOK, ResultMoves, Suite
<1>3. ASSUME phase = "replay"
      PROVE  Loads' /\ Fits'
  <2>1. Recorded' <=> Recorded
    BY <1>3 DEF ResultMoves, Recorded, Suite
  <2>2. Exchanges' = Exchanges
    BY <1>1 DEF Exchanges
  <2>. QED
    BY <1>1, <1>3, <2>1, <2>2 DEF RecorderOK, Loads, Fits
<1>. QED
  BY <1>1, <1>2, <1>3 DEF RecorderOK, Suite

-----------------------------------------------------------------------------
(* The replay.                                                             *)

Replaying == phase \in {"replay", "done"}
Rank(i) == Cardinality({j \in Candidates(Exchanges[i].request) : j < i})

\* Every answer is served once: in order, or each to a request of its own.
ServedOK ==
  /\ cursor \in Nat /\ requests \in Seq(Seq(Message)) /\ served \in Seq(Nat)
  /\ ~Replaying => cursor = 0 /\ requests = <<>> /\ served = <<>>
  /\ Replaying /\ setup.match = "sequence" =>
       served = [i \in 1..cursor |-> i] /\ cursor <= Len(Exchanges)
  /\ Replaying /\ setup.match = "request" =>
       /\ IsInjective(served)
       /\ \A n \in DOMAIN served :
            /\ served[n] \in DOMAIN Exchanges
            /\ Rank(served[n]) < Asked(Exchanges[served[n]].request)

Sound == TurnsOK /\ RecorderOK /\ ServedOK

LEMMA ExchangeFacts ==
  ASSUME RecorderOK, Replaying
  PROVE  /\ Exchanges \in Seq(Taken \cup {OldExchange})
         /\ \A i \in DOMAIN Exchanges : Exchanges[i].response \in Said
<1>1. Loads /\ file \in Seq(Line) /\ file # <<>>
  BY DEF RecorderOK, Replaying, Loads
<1>2. PICK g, l : g = Exchanges /\ l = Len(file)
  OBVIOUS
<1>3. g = Tail(file)
  BY <1>1, <1>2 DEF Exchanges
<1>4. g \in Seq(Line) /\ Len(g) = l - 1 /\ l \in Nat /\ \A i \in 1..Len(g) : g[i] = file[i + 1]
  BY <1>1, <1>2, <1>3, HeadTailProperties
<1>5. ASSUME NEW i \in 1..Len(g)
      PROVE  g[i] \in Taken \cup {OldExchange} /\ g[i].response \in Said
  <2>1. g[i].line = "exchange" /\ g[i] \in Line
    <3>1. i + 1 \in 2..l
      BY <1>4
    <3>. QED
      BY <1>1, <1>2, <1>4, <3>1 DEF Loads
  <2>2. g[i] \in Taken \cup {OldExchange}
    BY <2>1 DEF Line, Header, Torn
  <2>. QED
    BY <2>2 DEF Taken, Said
<1>6. g \in Seq(Taken \cup {OldExchange})
  BY <1>4, <1>5
<1>. QED
  BY <1>2, <1>4, <1>5, <1>6

LEMMA AskedFacts ==
  ASSUME ServedOK, NEW rq
  PROVE  Asked(rq) \in Nat /\ IsFiniteSet({n \in DOMAIN requests : requests[n] = rq})
<1>1. DOMAIN requests = 1..Len(requests) /\ Len(requests) \in Nat
  BY DEF ServedOK
<1>2. IsFiniteSet(DOMAIN requests)
  BY <1>1, FS_Interval
<1>. QED
  BY <1>2, FS_Subset, FS_CardinalityType DEF Asked

LEMMA RankType ==
  ASSUME RecorderOK, Replaying, NEW i \in DOMAIN Exchanges
  PROVE  Rank(i) \in Nat
<1>1. Exchanges \in Seq(Taken \cup {OldExchange})
  BY ExchangeFacts
<1>2. IsFiniteSet(DOMAIN Exchanges)
  <2>1. DOMAIN Exchanges = 1..Len(Exchanges) /\ Len(Exchanges) \in Nat
    BY <1>1
  <2>. QED
    BY <2>1, FS_Interval
<1>3. {j \in Candidates(Exchanges[i].request) : j < i} \subseteq DOMAIN Exchanges
  BY DEF Candidates
<1>. QED
  BY <1>2, <1>3, FS_Subset, FS_CardinalityType DEF Rank

LEMMA NextFacts ==
  ASSUME RecorderOK, ServedOK, SetupOK, Replaying, NEW rq, NEW i, i = NextExchange(rq), i # 0
  PROVE  /\ i \in DOMAIN Exchanges /\ i \in Nat
         /\ setup.match = "sequence" => i = cursor + 1 /\ cursor + 1 <= Len(Exchanges)
         /\ setup.match = "request" => Exchanges[i].request = rq /\ Rank(i) = Asked(rq)
<1>1. /\ cursor \in Nat /\ Exchanges \in Seq(Taken \cup {OldExchange})
      /\ setup.match \in {"sequence", "request"}
  BY ExchangeFacts DEF ServedOK, SetupOK
<1>2. PICK l : l = Len(Exchanges)
  OBVIOUS
<1>3. DOMAIN Exchanges = 1..l /\ l \in Nat
  BY <1>1, <1>2
<1>4. CASE setup.match = "sequence"
  <2>1. cursor < l /\ i = cursor + 1
    BY <1>2, <1>4 DEF NextExchange
  <2>. QED
    BY <1>1, <1>2, <1>3, <1>4, <2>1
<1>5. CASE setup.match # "sequence"
  <2>1. i \in Candidates(rq) /\ Cardinality({j \in Candidates(rq) : j < i}) = Asked(rq)
    BY <1>5 DEF NextExchange
  <2>2. i \in DOMAIN Exchanges /\ Exchanges[i].request = rq
    BY <2>1 DEF Candidates
  <2>3. Rank(i) = Asked(rq)
    BY <2>1, <2>2 DEF Rank
  <2>. QED
    BY <1>3, <1>5, <2>2, <2>3
<1>. QED
  BY <1>4, <1>5

\* A request more counts for itself.
LEMMA AskedGrows ==
  ASSUME ServedOK, NEW x, requests' = Append(requests, x), NEW rq
  PROVE  Asked(rq)' = Asked(rq) + (IF x = rq THEN 1 ELSE 0)
<1>1. PICK l, b : l = Len(requests) /\ b = Append(requests, x)
  OBVIOUS
<1>2. /\ l \in Nat /\ DOMAIN requests = 1..l /\ DOMAIN b = 1..(l+1) /\ b[l + 1] = x
      /\ \A n \in 1..l : b[n] = requests[n]
  BY <1>1 DEF ServedOK
<1>3. PICK A : A = {n \in DOMAIN requests : requests[n] = rq}
  OBVIOUS
<1>4. IsFiniteSet(A) /\ l + 1 \notin A /\ Asked(rq) = Cardinality(A) /\ Cardinality(A) \in Nat
  <2>1. Asked(rq) = Cardinality(A)
    BY <1>3 DEF Asked
  <2>2. IsFiniteSet(A) /\ Cardinality(A) \in Nat
    BY <1>3, <2>1, AskedFacts
  <2>3. l + 1 \notin A
    BY <1>2, <1>3
  <2>. QED
    BY <2>1, <2>2, <2>3
<1>5. Asked(rq)' = Cardinality({n \in DOMAIN b : b[n] = rq})
  BY <1>1 DEF Asked
<1>6. CASE x = rq
  <2>1. {n \in DOMAIN b : b[n] = rq} = A \cup {l + 1}
    BY <1>2, <1>3, <1>6
  <2>. QED
    BY <1>4, <1>5, <1>6, <2>1, FS_AddElement
<1>7. CASE x # rq
  <2>1. {n \in DOMAIN b : b[n] = rq} = A
    BY <1>2, <1>3, <1>7
  <2>2. Asked(rq)' = Asked(rq)
    BY <1>4, <1>5, <2>1
  <2>3. Asked(rq) = Asked(rq) + 0
    BY <1>4
  <2>. QED
    BY <1>7, <2>2, <2>3
<1>. QED
  BY <1>6, <1>7

\* What a served request is.
LEMMA ServeCases ==
  ASSUME RecorderOK, ServedOK, SetupOK, NEW c \in Cases, Serve(c)
  PROVE  /\ phase = "replay" /\ pc[c] = "asking" /\ UNCHANGED <<setup, phase, file, wrote, returned, failures>>
         /\ requests' = Append(requests, request[c])
         /\ \/ /\ NextExchange(request[c]) = 0 /\ Raises(c) /\ UNCHANGED <<cursor, served>>
            \/ \E i \in DOMAIN Exchanges :
                 /\ i = NextExchange(request[c]) /\ i \in Nat /\ i # 0
                 /\ served' = Append(served, i)
                 /\ cursor' = IF setup.match = "sequence" THEN cursor + 1 ELSE cursor
                 /\ Exchanges[i].response \in Said /\ Take(c, Exchanges[i].response)
<1>1. /\ phase = "replay" /\ pc[c] = "asking" /\ UNCHANGED <<setup, phase, recorder, failures>>
      /\ requests' = Append(requests, request[c])
  BY DEF Serve
<1>2. PICK i : i = NextExchange(request[c])
  OBVIOUS
<1>3. CASE i = 0
  BY <1>1, <1>2, <1>3 DEF Serve, recorder
<1>4. CASE i # 0
  <2>1. Replaying
    BY <1>1 DEF Replaying
  <2>2. i \in DOMAIN Exchanges /\ i \in Nat /\ Exchanges[i].response \in Said
    BY <1>2, <1>4, <2>1, NextFacts, ExchangeFacts
  <2>. QED
    BY <1>1, <1>2, <1>4, <2>2 DEF Serve, recorder
<1>. QED
  BY <1>3, <1>4

-----------------------------------------------------------------------------
(* Steps.                                                                  *)

LEMMA ServedStays ==
  ASSUME RecorderOK, ServedOK, UNCHANGED <<setup, cursor, requests, served>>,
         \/ ~Replaying'
         \/ Replaying' /\ UNCHANGED file,
         Replaying => Replaying'
  PROVE  ServedOK'
<1>1. CASE ~Replaying'
  BY <1>1 DEF ServedOK
<1>2. CASE Replaying' /\ Replaying
  <2>1. UNCHANGED Exchanges
    BY <1>2 DEF Exchanges
  <2>2. \A i, rq : Rank(i)' = Rank(i) /\ Asked(rq)' = Asked(rq)
    BY <2>1 DEF Rank, Candidates, Asked
  <2>. QED
    BY <1>2, <2>1, <2>2 DEF ServedOK
<1>3. CASE Replaying' /\ ~Replaying
  <2>1. cursor' = 0 /\ requests' = <<>> /\ served' = <<>>
    BY <1>3 DEF ServedOK
  <2>2. Exchanges' = Exchanges /\ Len(Exchanges) \in Nat
    <3>1. UNCHANGED file /\ file \in Seq(Line)
      BY <1>3 DEF RecorderOK
    <3>2. CASE file = <<>>
      BY <3>1, <3>2 DEF Exchanges
    <3>3. CASE file # <<>>
      BY <3>1, <3>3, HeadTailProperties DEF Exchanges
    <3>. QED
      BY <3>2, <3>3
  <2>3. served' = [i \in 1..cursor' |-> i] /\ IsInjective(served') /\ DOMAIN served' = {}
    BY <2>1 DEF IsInjective
  <2>. QED
    BY <2>1, <2>2, <2>3 DEF ServedOK
<1>. QED
  BY <1>1, <1>2, <1>3

\* Phases change, cases do not.
LEMMA TurnsStay ==
  ASSUME TurnsOK, UNCHANGED <<setup, suite>>, phase' \in Phases
  PROVE  TurnsOK'
<1>1. UNCHANGED <<setup, pc, memory, private, request, run, lock>>
  BY DEF suite
<1>2. TurnTypes'
  BY <1>1 DEF TurnsOK, TurnTypes, SetupOK
<1>3. \A c \in Cases : CaseOK(c)'
  <2> TAKE c \in Cases
  <2>1. CaseOK(c)
    BY DEF TurnsOK
  <2>2. OwnTurn(c)' <=> OwnTurn(c)
    BY <1>1 DEF OwnTurn, OwnHistory, User, History
  <2>3. Alone(c)' <=> Alone(c)
    BY <1>1 DEF Alone
  <2>4. CasesShareNothing' <=> CasesShareNothing
    BY <1>1 DEF CasesShareNothing
  <2>. QED
    BY <1>1, <2>1, <2>2, <2>3, <2>4 DEF CaseOK, Going, Calls
<1>. QED
  BY <1>1, <1>2, <1>3 DEF TurnsOK

LEMMA SoundStart == Init => Sound
<1> SUFFICES ASSUME Init
             PROVE  Sound
  OBVIOUS
<1>1. SetupOK /\ phase = "record"
  BY DEF Init, SetupOK
<1>2. TurnsOK
  <2>1. TurnTypes
    BY <1>1 DEF Init, TurnTypes, Phases, Labels
  <2>2. \A c \in Cases : CaseOK(c)
    BY DEF Init, CaseOK, OwnTurn, Turning
  <2>3. lock = 0
    BY DEF Init
  <2>. QED
    BY <2>1, <2>2, <2>3 DEF TurnsOK
<1>3. RecorderOK
  <2>1. file = Base /\ file \in Seq(Line)
    BY LineFacts DEF Init, Base
  <2>2. wrote = FALSE /\ returned = <<>> /\ returned \in Seq(Taken) /\ FileGrew
    BY <2>1 DEF Init, FileGrew
  <2>3. ResultType /\ \A c \in Cases : ~result["record"][c].ended
    BY DEF Init, ResultType, Suite, NoResult
  <2>. QED
    BY <1>1, <2>1, <2>2, <2>3 DEF RecorderOK
<1>4. ServedOK
  BY <1>1 DEF Init, ServedOK, Replaying
<1>. QED
  BY <1>2, <1>3, <1>4 DEF Sound

\* A step that serves nothing: a case starts, takes the lock, or comes from its tool.
LEMMA StillFacts ==
  ASSUME Sound, NEW c \in Cases, Begin(c) \/ Acquire(c) \/ Tool(c)
  PROVE  /\ UNCHANGED <<setup, phase, run, recorder, replay, failures>> /\ phase \in Suite
         /\ pc[c] # "out" /\ ResultMoves(c)
         /\ \/ UNCHANGED result /\ pc'[c] \in {"asking", "lock"}
            \/ /\ Tool(c) /\ pc'[c] = "out" /\ result'[phase][c] = Errored
               /\ UNCHANGED request /\ Len(run[c]) = MaxSteps
<1>1. TurnsOK /\ TurnTypes /\ ResultType
  BY DEF Sound, TurnsOK, RecorderOK
<1>2. CASE Begin(c) \/ Acquire(c)
  <2>1. /\ UNCHANGED <<setup, phase, run, recorder, replay, result, failures>> /\ phase \in Suite
        /\ pc[c] # "out" /\ (Goto(c, "asking") \/ Goto(c, "lock"))
    BY <1>2 DEF Begin, Acquire, Asking
  <2>. QED
    BY <1>1, <2>1, StillMoves
<1>3. CASE Tool(c)
  <2>1. /\ UNCHANGED <<setup, phase, run, recorder, replay, failures>> /\ phase \in Suite
        /\ pc[c] = "tool" /\ run[c] \in Seq(Said) /\ Len(run[c]) \in 1..MaxSteps
        /\ Len(run[c]) < MaxSteps => Asking(c, Append(History(c), ToolMessage)) /\ UNCHANGED result
        /\ Len(run[c]) = MaxSteps => OutOfSteps(c, Append(History(c), ToolMessage))
    BY <1>1, <1>3, ToolFacts
  <2>2. CASE Len(run[c]) < MaxSteps
    <3>1. Goto(c, "asking") /\ UNCHANGED result
      BY <2>1, <2>2 DEF Asking
    <3>. QED
      BY <1>1, <2>1, <3>1, StillMoves
  <2>3. CASE Len(run[c]) = MaxSteps
    <3>1. EndsWith(c, Errored) /\ UNCHANGED request
      BY <2>1, <2>3 DEF OutOfSteps
    <3>. QED
      BY <1>1, <1>3, <2>1, <2>3, <3>1, EndMoves
  <2>. QED
    BY <2>1, <2>2, <2>3, CaseFacts
<1>. QED
  BY <1>2, <1>3

LEMMA StillStep ==
  ASSUME Sound, NEW c \in Cases, Begin(c) \/ Acquire(c) \/ Tool(c)
  PROVE  Sound'
<1>1. /\ UNCHANGED <<setup, phase, recorder, replay, failures>> /\ phase \in Suite
      /\ pc[c] # "out" /\ ResultMoves(c)
  BY StillFacts
<1>2. TurnsOK'
  BY BeginKeeps, AcquireKeeps, ToolKeeps DEF Sound
<1>3. RecorderOK'
  BY <1>1, RecorderStays DEF Sound
<1>4. ServedOK'
  <2>1. (Replaying' <=> Replaying) /\ UNCHANGED <<file, setup, cursor, requests, served>>
    BY <1>1 DEF Replaying, recorder, replay
  <2>. QED
    BY <2>1, ServedStays DEF Sound
<1>. QED
  BY <1>2, <1>3, <1>4 DEF Sound

LEMMA CompleteStep ==
  ASSUME Sound, NEW c \in Cases, NEW a \in Answers, Complete(c, a)
  PROVE  Sound'
<1>1. /\ phase = "record" /\ pc[c] = "asking" /\ wrote' = TRUE /\ Take(c, a)
      /\ file' = file \o Lines(Exchange(request[c], a))
      /\ returned' = Append(returned, Exchange(request[c], a))
      /\ UNCHANGED <<setup, phase, cursor, requests, served, failures>>
  BY DEF Complete, replay
<1>2. a \in Said /\ TurnsOK /\ RecorderOK /\ FileGrew
  BY <1>1 DEF Said, Sound, RecorderOK
<1>3. PICK x : x = Exchange(request[c], a)
  OBVIOUS
<1>4. x \in Taken
  <2>1. request[c] \in Seq(Message)
    BY <1>2 DEF TurnsOK, TurnTypes
  <2>. QED
    BY <1>2, <1>3, <2>1 DEF Exchange, Taken
<1>5. TurnsOK'
  BY <1>1, <1>2, TakeKeeps
<1>6. ResultMoves(c)
  BY <1>1, <1>2, TakeMoves DEF Suite, RecorderOK
<1>7. RecorderOK'
  <2>1. /\ file \o Lines(x) = Written(Base, Append(returned, x)) /\ Lines(x) \in Seq(Line)
        /\ file \in Seq(Line) /\ returned \in Seq(Taken)
    BY <1>2, <1>4, OneMore DEF RecorderOK
  <2>2. file' \in Seq(Line) /\ returned' \in Seq(Taken)
    <3>1. file \o Lines(x) \in Seq(Line)
      BY <2>1, ConcatProperties
    <3>2. Append(returned, x) \in Seq(Taken)
      BY <1>4, <2>1, AppendProperties
    <3>. QED
      BY <1>1, <1>3, <3>1, <3>2
  <2>3. FileGrew'
    BY <1>1, <1>3, <2>1 DEF FileGrew, Base
  <2>4. \A d \in Cases : pc'[d] # "out" => ~result'["record"][d].ended
    BY <1>1, <1>2, <1>6 DEF RecorderOK, ResultMoves, Suite
  <2>. QED
    BY <1>1, <1>6, <2>2, <2>3, <2>4 DEF RecorderOK, ResultMoves
<1>8. ServedOK'
  BY <1>1, ServedStays DEF Sound, Replaying
<1>. QED
  BY <1>5, <1>7, <1>8 DEF Sound

LEMMA FailStep ==
  ASSUME Sound, NEW c \in Cases, ProviderFails(c)
  PROVE  Sound'
<1>1. /\ phase = "record" /\ pc[c] = "asking" /\ Raises(c) /\ EndsWith(c, Errored)
      /\ UNCHANGED <<setup, phase, recorder, file, cursor, requests, served>>
  BY DEF ProviderFails, Raises, recorder, replay
<1>2. TurnsOK'
  BY <1>1, RaiseKeeps DEF Sound, Turning
<1>3. ResultMoves(c)
  BY <1>1, EndMoves DEF Sound, TurnsOK, RecorderOK, Suite
<1>4. RecorderOK'
  BY <1>1, <1>3, RecorderStays DEF Sound, Suite
<1>5. ServedOK'
  BY <1>1, ServedStays DEF Sound, Replaying
<1>. QED
  BY <1>2, <1>4, <1>5 DEF Sound

LEMMA CrashStep ==
  ASSUME Sound, NEW c \in Cases, NEW a \in Answers, Crash(c, a)
  PROVE  Sound'
<1>1. PICK x : x = Exchange(request[c], a)
  OBVIOUS
<1>2. /\ phase = "record" /\ pc[c] = "asking" /\ phase' = "load"
      /\ \/ file' = file
         \/ file' = Append(file, Torn)
         \/ file' = file \o Front(Lines(x)) \o <<Torn>>
         \/ file' = file \o Lines(x)
      /\ UNCHANGED <<setup, suite, wrote, returned, cursor, requests, served, result>>
  BY <1>1 DEF Crash, replay
<1>3. /\ RecorderOK /\ FileGrew /\ file \in Seq(Line) /\ ResultType /\ returned \in Seq(Taken)
      /\ wrote \in BOOLEAN
  BY <1>2 DEF Sound, RecorderOK
<1>4. x \in Taken
  <2>1. request[c] \in Seq(Message) /\ a \in Said
    BY DEF Sound, TurnsOK, TurnTypes, Said
  <2>. QED
    BY <1>1, <2>1 DEF Exchange, Taken
<1>5. PICK g : g = Lines(x)
  OBVIOUS
<1>6. g \in Seq(Line) /\ file \o g = Written(Base, Append(returned, x)) /\ g # <<>>
  BY <1>3, <1>4, <1>5, OneMore DEF Lines
<1>7. Front(g) \in Seq(Line)
  <2>1. Len(g) - 1 \in 0..Len(g) /\ Len(g) \in Nat
    BY <1>6
  <2>. QED
    BY <1>6, <2>1 DEF Front
<1>8. PICK t : t = Torn
  OBVIOUS
<1>9. t \in Line /\ <<t>> \in Seq(Line)
  BY <1>8, LineFacts
<1>10. ~Recorded'
  BY <1>2, <1>3 DEF RecorderOK, Recorded
<1>11. /\ \/ file' = file
          \/ \E y \in Taken : file' = Written(Base, Append(returned, y))
          \/ \E h \in Seq(Line) : file' = h \o <<Torn>>
       /\ file' \in Seq(Line)
  <2>1. CASE file' = file
    BY <1>3, <2>1
  <2>2. CASE file' = Append(file, t)
    <3>1. file' = file \o <<t>> /\ file' \in Seq(Line)
      BY <1>3, <1>9, <2>2, AppendIsConcat
    <3>. QED
      BY <1>3, <1>8, <3>1
  <2>3. CASE file' = file \o Front(g) \o <<t>>
    <3>1. file \o Front(g) \in Seq(Line)
      BY <1>3, <1>7
    <3>2. file' \in Seq(Line)
      BY <1>9, <2>3, <3>1
    <3>. QED
      BY <1>8, <2>3, <3>1, <3>2
  <2>4. CASE file' = file \o g
    <3>1. file' \in Seq(Line)
      BY <1>3, <1>6, <2>4, ConcatProperties
    <3>. QED
      BY <1>4, <1>6, <2>4, <3>1
  <2>. QED
    BY <1>2, <1>5, <1>8, <2>1, <2>2, <2>3, <2>4
<1>12. Loads' => Fits'
  BY <1>2, <1>3, <1>10, <1>11, LeftFits
<1>13. TurnsOK'
  BY <1>2, TurnsStay DEF Sound, Phases
<1>14. RecorderOK'
  BY <1>2, <1>3, <1>11, <1>12 DEF RecorderOK, ResultType
<1>15. ServedOK'
  BY <1>2, <1>3, ServedStays DEF Sound, Replaying
<1>. QED
  BY <1>13, <1>14, <1>15 DEF Sound

LEMMA EndRecordingStep ==
  ASSUME Sound, EndRecording
  PROVE  Sound'
<1>1. /\ phase = "record" /\ phase' = "load"
      /\ UNCHANGED <<setup, suite, file, wrote, returned, cursor, requests, served, result>>
  BY DEF EndRecording, recorder, replay
<1>2. RecorderOK /\ FileGrew
  BY <1>1 DEF Sound, RecorderOK
<1>3. Loads' => Fits'
  BY <1>1, <1>2, LeftFits
<1>4. TurnsOK'
  BY <1>1, TurnsStay DEF Sound, Phases
<1>5. RecorderOK'
  BY <1>1, <1>2, <1>3 DEF RecorderOK, ResultType
<1>6. ServedOK'
  BY <1>1, <1>2, ServedStays DEF Sound, Replaying
<1>. QED
  BY <1>4, <1>5, <1>6 DEF Sound

LEMMA LoadStep ==
  ASSUME Sound, Load
  PROVE  Sound'
<1>1. /\ phase = "load" /\ phase' = (IF Loads THEN "replay" ELSE "refused")
      /\ pc' = [c \in Cases |-> "wait"] /\ memory' = <<>> /\ lock' = 0
      /\ private' = [c \in Cases |-> <<>>] /\ request' = [c \in Cases |-> <<>>]
      /\ run' = [c \in Cases |-> <<>>]
      /\ UNCHANGED <<setup, file, wrote, returned, cursor, requests, served, result>>
  BY DEF Load, recorder, replay
<1>2. TurnsOK'
  <2>1. TurnTypes'
    <3>1. SetupOK' /\ phase' \in Phases
      BY <1>1 DEF Sound, TurnsOK, TurnTypes, SetupOK, Phases
    <3>. QED
      BY <1>1, <3>1 DEF TurnTypes, Labels
  <2>2. \A c \in Cases : CaseOK(c)'
    BY <1>1 DEF CaseOK, OwnTurn, Turning
  <2>. QED
    BY <1>1, <2>1, <2>2 DEF TurnsOK
<1>3. Exchanges' = Exchanges /\ (Loads' <=> Loads) /\ (Recorded' <=> Recorded)
  BY <1>1 DEF Exchanges, Loads, Recorded
<1>4. Fits' <=> Fits
  BY <1>1, <1>3 DEF Fits
<1>5. RecorderOK'
  BY <1>1, <1>3, <1>4 DEF Sound, RecorderOK, ResultType
<1>6. ServedOK'
  BY <1>1, ServedStays DEF Sound, Replaying
<1>. QED
  BY <1>2, <1>5, <1>6 DEF Sound

LEMMA ServeStep ==
  ASSUME Sound, NEW c \in Cases, Serve(c)
  PROVE  Sound'
<1>1. TurnsOK /\ RecorderOK /\ ServedOK /\ SetupOK /\ TurnTypes
  BY DEF Sound, TurnsOK, TurnTypes
<1>2. /\ phase = "replay" /\ pc[c] = "asking" /\ UNCHANGED <<setup, phase, recorder, file, wrote, returned>>
      /\ requests' = Append(requests, request[c]) /\ request[c] \in Seq(Message)
  BY <1>1, ServeCases DEF recorder, TurnTypes
<1>3. Replaying /\ Replaying' /\ Exchanges' = Exchanges
  BY <1>2 DEF Replaying, Exchanges
<1>4. requests' \in Seq(Seq(Message))
  BY <1>1, <1>2, AppendProperties DEF ServedOK
<1>5. \A i, rq : /\ Rank(i)' = Rank(i) /\ Asked(rq) \in Nat
                 /\ Asked(rq)' = Asked(rq) + (IF request[c] = rq THEN 1 ELSE 0)
  BY <1>1, <1>2, <1>3, AskedFacts, AskedGrows DEF Rank, Candidates
<1>6. CASE Raises(c) /\ UNCHANGED <<cursor, served>>
  <2>1. TurnsOK'
    BY <1>1, <1>2, <1>6, RaiseKeeps DEF Turning
  <2>2. RecorderOK'
    BY <1>1, <1>2, <1>6, EndMoves, RecorderStays DEF Raises, Suite, RecorderOK
  <2>3. ServedOK'
    <3>1. CASE setup.match = "sequence"
      BY <1>1, <1>2, <1>3, <1>4, <1>6, <3>1 DEF ServedOK
    <3>2. CASE setup.match = "request"
      <4>1. ASSUME NEW n \in DOMAIN served
            PROVE  Rank(served[n])' < Asked(Exchanges[served[n]].request)'
        <5>1. PICK i, rq : i = served[n] /\ rq = Exchanges[i].request
          OBVIOUS
        <5>2. Rank(i) < Asked(rq) /\ i \in DOMAIN Exchanges
          BY <1>1, <1>3, <3>2, <5>1 DEF ServedOK
        <5>3. Rank(i) \in Nat
          BY <1>1, <1>3, <5>2, RankType
        <5>4. Rank(i) < Asked(rq)'
          BY <1>5, <5>2, <5>3
        <5>. QED
          BY <1>3, <1>5, <1>6, <5>1, <5>4
      <4>. QED
        BY <1>1, <1>2, <1>3, <1>4, <1>6, <3>2, <4>1 DEF ServedOK
    <3>. QED
      BY <1>1, <3>1, <3>2 DEF SetupOK
  <2>. QED
    BY <2>1, <2>2, <2>3 DEF Sound
<1>7. ASSUME NEW i \in DOMAIN Exchanges, i = NextExchange(request[c]), i \in Nat, i # 0,
             served' = Append(served, i),
             cursor' = IF setup.match = "sequence" THEN cursor + 1 ELSE cursor,
             Exchanges[i].response \in Said, Take(c, Exchanges[i].response)
      PROVE  Sound'
  <2>1. TurnsOK'
    BY <1>1, <1>2, <1>7, TakeKeeps
  <2>2. RecorderOK'
    BY <1>1, <1>2, <1>7, TakeMoves, RecorderStays DEF Suite, RecorderOK
  <2>3. /\ setup.match = "sequence" => i = cursor + 1 /\ cursor + 1 <= Len(Exchanges)
        /\ setup.match = "request" => Exchanges[i].request = request[c] /\ Rank(i) = Asked(request[c])
    BY <1>1, <1>3, <1>7, NextFacts
  <2>4. PICK m, b : m = Len(served) /\ b = Append(served, i)
    OBVIOUS
  <2>5. /\ m \in Nat /\ b \in Seq(Nat) /\ DOMAIN b = 1..(m+1) /\ DOMAIN served = 1..m
        /\ b[m+1] = i /\ \A n \in 1..m : b[n] = served[n]
    BY <1>1, <1>7, <2>4 DEF ServedOK
  <2>6. cursor \in Nat /\ cursor' \in Nat
    BY <1>1, <1>7 DEF ServedOK
  <2>7. ServedOK'
    <3>1. CASE setup.match = "sequence"
      <4>1. served = [n \in 1..cursor |-> n] /\ cursor' = cursor + 1 /\ i = cursor + 1
        BY <1>1, <1>3, <1>7, <2>3, <3>1 DEF ServedOK
      <4>2. m = cursor
        BY <2>4, <2>6, <4>1
      <4>3. b = [n \in 1..cursor+1 |-> n]
        <5>1. \A n \in 1..cursor+1 : b[n] = n
          BY <2>5, <2>6, <4>1, <4>2
        <5>2. b = [n \in 1..cursor+1 |-> b[n]]
          BY <2>5, <4>2
        <5>. QED
          BY <5>1, <5>2
      <4>. QED
        BY <1>2, <1>3, <1>4, <1>7, <2>3, <2>4, <2>5, <2>6, <3>1, <4>1, <4>3 DEF ServedOK
    <3>2. CASE setup.match = "request"
      <4>1. /\ \A n, k \in 1..m : served[n] = served[k] => n = k
            /\ \A n \in 1..m : served[n] \in DOMAIN Exchanges /\ Rank(served[n]) < Asked(Exchanges[served[n]].request)
        BY <1>1, <1>3, <2>5, <3>2 DEF ServedOK, IsInjective
      <4>2. Exchanges[i].request = request[c] /\ Rank(i) = Asked(request[c]) /\ Asked(request[c]) \in Nat
        BY <1>5, <2>3, <3>2
      <4>3. \A n \in 1..m : served[n] # i
        BY <4>1, <4>2
      <4>4. IsInjective(b)
        <5>1. \A n \in 1..(m+1) : n \in 1..m \/ n = m + 1
          BY <2>5
        <5>. QED
          BY <2>5, <4>1, <4>3, <5>1 DEF IsInjective
      <4>5. ASSUME NEW n \in 1..(m+1)
            PROVE  b[n] \in DOMAIN Exchanges /\ Rank(b[n]) < Asked(Exchanges[b[n]].request)'
        <5>1. CASE n = m + 1
          <6>1. PICK rq : rq = Exchanges[i].request
            OBVIOUS
          <6>2. Asked(rq)' = Asked(rq) + 1 /\ Rank(i) = Asked(rq) /\ Asked(rq) \in Nat
            BY <1>5, <4>2, <6>1
          <6>3. Rank(i) < Asked(rq)'
            BY <6>2
          <6>. QED
            BY <1>3, <1>5, <1>7, <2>5, <5>1, <6>1, <6>3
        <5>2. CASE n \in 1..m
          <6>1. PICK j, rq : j = served[n] /\ rq = Exchanges[j].request
            OBVIOUS
          <6>2. j \in DOMAIN Exchanges /\ Rank(j) < Asked(rq)
            BY <4>1, <5>2, <6>1
          <6>3. Rank(j) \in Nat
            BY <1>1, <1>3, <6>2, RankType
          <6>4. Rank(j) < Asked(rq)'
            BY <1>5, <6>2, <6>3
          <6>. QED
            BY <1>3, <1>5, <2>5, <5>2, <6>1, <6>2, <6>4
        <5>. QED
          BY <2>5, <5>1, <5>2
      <4>. QED
        BY <1>2, <1>3, <1>4, <1>5, <1>7, <2>4, <2>5, <2>6, <3>2, <4>4, <4>5 DEF ServedOK
    <3>. QED
      BY <1>1, <3>1, <3>2 DEF SetupOK
  <2>. QED
    BY <2>1, <2>2, <2>7 DEF Sound
<1>. QED
  BY <1>1, <1>6, <1>7, ServeCases

LEMMA EndReplayStep ==
  ASSUME Sound, EndReplay
  PROVE  Sound'
<1>1. /\ phase = "replay" /\ phase' = "done"
      /\ UNCHANGED <<setup, suite, file, wrote, returned, cursor, requests, served, result>>
  BY DEF EndReplay, recorder, replay
<1>2. TurnsOK'
  BY <1>1, TurnsStay DEF Sound, Phases
<1>3. (Loads' <=> Loads) /\ (Fits' <=> Fits)
  BY <1>1 DEF Loads, Fits, Exchanges, Recorded
<1>4. RecorderOK'
  BY <1>1, <1>3 DEF Sound, RecorderOK, ResultType
<1>5. ServedOK'
  BY <1>1, ServedStays DEF Sound, Replaying
<1>. QED
  BY <1>2, <1>4, <1>5 DEF Sound

LEMMA SoundStep == Sound /\ [Next]_vars => Sound'
<1> SUFFICES ASSUME Sound, [Next]_vars
             PROVE  Sound'
  OBVIOUS
<1>1. ASSUME NEW c \in Cases, CaseStep(c)
      PROVE  Sound'
  BY <1>1, StillStep, CompleteStep, ServeStep DEF CaseStep
<1>2. ASSUME NEW c \in Cases, ProviderFails(c) \/ \E a \in Answers : Crash(c, a)
      PROVE  Sound'
  BY <1>2, FailStep, CrashStep
<1>3. CASE UNCHANGED vars
  <2>1. UNCHANGED <<setup, phase, suite, recorder, replay, file, wrote, returned, cursor, requests, served, result>>
    BY <1>3 DEF vars, recorder, replay
  <2>2. TurnsOK'
    BY <2>1, TurnsStay DEF Sound, TurnsOK, TurnTypes
  <2>3. RecorderOK'
    BY <2>1 DEF Sound, RecorderOK, ResultType, FileGrew, Base, Loads, Fits, Exchanges, Recorded, suite
  <2>4. ServedOK'
    BY <2>1, ServedStays DEF Sound, Replaying
  <2>. QED
    BY <2>2, <2>3, <2>4 DEF Sound
<1>. QED
  BY <1>1, <1>2, <1>3, EndRecordingStep, LoadStep, EndReplayStep DEF Next, Step

LEMMA AlwaysSound == Spec => []Sound
BY SoundStart, SoundStep, PTL DEF Spec

\* The types of the turns, the report, the file and what is served of it.
TypeOK ==
  /\ TurnTypes /\ ResultType
  /\ file \in Seq(Line) /\ wrote \in BOOLEAN /\ returned \in Seq(Taken)
  /\ cursor \in Nat /\ requests \in Seq(Seq(Message)) /\ served \in Seq(Nat)

\* For any suite, every variable has its type, in the recording and in the replay
\* (testing/evals.py, testing/recording.py).
THEOREM TypeCorrect == Spec => []TypeOK
<1>1. Sound => TypeOK
  BY DEF Sound, TurnsOK, RecorderOK, ServedOK, TypeOK
<1>. QED
  BY <1>1, AlwaysSound, PTL

(***************************************************************************)
(* What a case asks a model is its own prompt and the answers it got, in   *)
(* either phase, if the agent works on copies or the suite takes one case  *)
(* at a time.                                                              *)
(***************************************************************************)
THEOREM CasesStayApart == Spec => []CasesAreIndependent
<1>1. Sound => CasesAreIndependent
  BY DEF Sound, TurnsOK, CaseOK, OwnTurn, CasesAreIndependent
<1>. QED
  BY <1>1, AlwaysSound, PTL

(***************************************************************************)
(* A recording that loads is the one that was made: every exchange a case  *)
(* has seen, in order, and at most the one being written when the process  *)
(* died; a file that held a recording before loads only if nothing was     *)
(* added to it.                                                            *)
(***************************************************************************)
THEOREM LoadsAreHonest == Spec => []LoadIsHonest
<1>1. Sound => LoadIsHonest
  <2> SUFFICES ASSUME Sound, phase \in {"replay", "done"}
               PROVE  /\ ~setup.reused \/ returned = <<>>
                      /\ ~setup.reused => /\ IsPrefix(returned, Exchanges)
                                          /\ Len(Exchanges) <= Len(returned) + 1
                                          /\ Recorded => Exchanges = returned
    BY DEF LoadIsHonest
  <2>1. Fits
    BY DEF Sound, RecorderOK
  <2>. QED
    BY <2>1 DEF Fits
<1>. QED
  BY <1>1, AlwaysSound, PTL

\* A replay invents nothing and serves nothing twice.
LEMMA ServedOnce == Sound => AnswersServedOnce
<1> SUFFICES ASSUME Sound
             PROVE  AnswersServedOnce
  OBVIOUS
<1>1. SetupOK /\ RecorderOK /\ ServedOK
  BY DEF Sound, TurnsOK, TurnTypes
<1>2. CASE ~Replaying
  <2>1. cursor = 0 /\ served = <<>> /\ DOMAIN served = {}
    BY <1>1, <1>2 DEF ServedOK
  <2>. QED
    BY <2>1 DEF AnswersServedOnce, IsInjective
<1>3. CASE Replaying /\ setup.match = "sequence"
  <2>1. served = [i \in 1..cursor |-> i]
    BY <1>1, <1>3 DEF ServedOK
  <2>. QED
    BY <1>3, <2>1 DEF AnswersServedOnce, IsInjective
<1>4. CASE Replaying /\ setup.match = "request"
  <2>1. ASSUME NEW n \in DOMAIN served
        PROVE  Exchanges[served[n]].request \in ToSet(requests)
    <3>1. PICK i, rq : i = served[n] /\ rq = Exchanges[i].request
      OBVIOUS
    <3>2. i \in DOMAIN Exchanges /\ Rank(i) < Asked(rq)
      BY <1>1, <1>4, <3>1 DEF ServedOK
    <3>3. Rank(i) \in Nat /\ Asked(rq) \in Nat
      BY <1>1, <1>4, <3>2, RankType, AskedFacts
    <3>4. Asked(rq) # 0
      BY <3>2, <3>3
    <3>5. {m \in DOMAIN requests : requests[m] = rq} # {}
      BY <3>4, FS_EmptySet DEF Asked
    <3>. QED
      BY <3>1, <3>5 DEF ToSet
  <2>. QED
    BY <1>1, <1>4, <2>1 DEF ServedOK, AnswersServedOnce
<1>. QED
  BY <1>1, <1>2, <1>3, <1>4 DEF SetupOK

-----------------------------------------------------------------------------
(* The report of a replay.                                                 *)

\* What becomes of a case that is answered a and then fails, if it goes on.
Report(c, a) == IF a # <<>> /\ ~IsCall(Last(a)) THEN Verdict(c, a) ELSE Errored

\* The answers of a case: calls, and one final answer at most, at the end.
Shape(a) == Len(a) <= MaxSteps /\ \A k \in 1..Len(a)-1 : IsCall(a[k])
Finished(a) == a # <<>> /\ (IsCall(Last(a)) => Len(a) = MaxSteps)
Begins(b, a) == Len(b) <= Len(a) /\ \A k \in 1..Len(b) : b[k] = a[k]

\* The k-th exchange of a case that shares nothing.
At(c, a, k) == Exchange(OwnHistory(c, a, k - 1), a[k])

LEMMA GoingFacts ==
  ASSUME NEW c, NEW a \in Seq(Said), Going(a)
  PROVE  Report(c, a) = Errored /\ Shape(a) /\ ~Finished(a)
<1>1. PICK l : l = Len(a)
  OBVIOUS
<1>2. l \in Nat /\ l < MaxSteps /\ (a = <<>> <=> l = 0) /\ \A k \in 1..l : IsCall(a[k])
  BY <1>1 DEF Going, Calls
<1>3. a # <<>> => IsCall(Last(a))
  BY <1>1, <1>2 DEF Last
<1>4. Shape(a)
  BY <1>1, <1>2, CaseFacts DEF Shape
<1>5. ~Finished(a)
  BY <1>1, <1>2, <1>3, CaseFacts DEF Finished
<1>. QED
  BY <1>3, <1>4, <1>5 DEF Report

LEMMA LastFacts ==
  ASSUME NEW c, NEW a \in Seq(Said), Going(a), NEW x \in Said, NEW b, b = Append(a, x)
  PROVE  /\ Shape(b) /\ b \in Seq(Said) /\ Len(b) = Len(a) + 1
         /\ ~IsCall(x) => Report(c, b) = Verdict(c, b) /\ Finished(b)
<1>1. PICK l : l = Len(a)
  OBVIOUS
<1>2. /\ l \in Nat /\ l < MaxSteps /\ b \in Seq(Said) /\ Len(b) = l + 1 /\ b[l+1] = x
      /\ \A k \in 1..l : b[k] = a[k] /\ IsCall(a[k])
  BY <1>1 DEF Going, Calls
<1>3. b # <<>> /\ Last(b) = x
  BY <1>2 DEF Last
<1>4. Shape(b)
  BY <1>2, CaseFacts DEF Shape
<1>. QED
  BY <1>1, <1>2, <1>3, <1>4 DEF Report, Finished

\* A case whose last step was a call as well: it failed for want of steps, and
\* no tape that begins with its answers goes on.
LEMMA RanOut ==
  ASSUME NEW c, NEW a \in Seq(Said), Calls(a), Len(a) = MaxSteps
  PROVE  /\ Report(c, a) = Errored /\ Shape(a) /\ Finished(a)
         /\ \A t \in Seq(Said) : Shape(t) /\ Begins(a, t) => t = a
<1>1. PICK l : l = Len(a)
  OBVIOUS
<1>2. /\ l \in Nat \ {0} /\ l = MaxSteps /\ a # <<>> /\ \A k \in 1..l : IsCall(a[k])
  BY <1>1, CaseFacts DEF Calls
<1>3. IsCall(Last(a))
  BY <1>1, <1>2 DEF Last
<1>4. Shape(a) /\ Finished(a)
  BY <1>1, <1>2 DEF Shape, Finished
<1>5. ASSUME NEW t \in Seq(Said), Shape(t), Begins(a, t)
      PROVE  t = a
  <2>1. Len(t) <= l /\ l <= Len(t) /\ Len(t) \in Nat /\ \A k \in 1..l : a[k] = t[k]
    BY <1>1, <1>2, <1>5 DEF Shape, Begins
  <2>2. Len(t) = l
    BY <1>2, <2>1
  <2>. QED
    BY <1>1, <2>1, <2>2, SeqEqual
<1>. QED
  BY <1>3, <1>4, <1>5 DEF Report

\* A case that was answered the first answers of its tape so far.
LEMMA BeginsFacts ==
  ASSUME NEW c, NEW a \in Seq(Said), NEW b \in Seq(Said), Begins(b, a), Going(b), Shape(a)
  PROVE  /\ OwnHistory(c, b, Len(b)) = OwnHistory(c, a, Len(b))
         /\ Len(b) = Len(a) => a = b
         /\ Len(b) # Len(a) => /\ a[Len(b) + 1] \in Said
                               /\ Begins(Append(b, a[Len(b) + 1]), a)
                               /\ ~IsCall(a[Len(b) + 1]) \/ Len(b) + 1 = MaxSteps
                                    => a = Append(b, a[Len(b) + 1])
<1>1. PICK l : l = Len(b)
  OBVIOUS
<1>2. l \in Nat /\ l <= Len(a) /\ \A k \in 1..l : b[k] = a[k]
  BY <1>1 DEF Begins
<1>3. OwnHistory(c, b, l) = OwnHistory(c, a, l)
  BY <1>2, HistorySame
<1>4. l = Len(a) => a = b
  BY <1>1, <1>2, SeqEqual
<1>5. ASSUME l # Len(a)
      PROVE  /\ a[l + 1] \in Said
             /\ Begins(Append(b, a[l + 1]), a)
             /\ ~IsCall(a[l + 1]) \/ l + 1 = MaxSteps => a = Append(b, a[l + 1])
  <2>1. PICK x, g, m : x = a[l + 1] /\ g = Append(b, x) /\ m = Len(a)
    OBVIOUS
  <2>2. l + 1 \in 1..m /\ m \in Nat /\ x \in Said
    BY <1>2, <1>5, <2>1
  <2>3. g \in Seq(Said) /\ Len(g) = l + 1 /\ g[l+1] = x /\ \A k \in 1..l : g[k] = b[k]
    BY <1>1, <1>2, <2>1, <2>2
  <2>4. \A k \in 1..l+1 : g[k] = a[k]
    <3>1. \A k \in 1..l+1 : k \in 1..l \/ k = l + 1
      BY <1>2
    <3>. QED
      BY <1>2, <2>1, <2>3, <3>1
  <2>5. Begins(g, a)
    BY <2>1, <2>2, <2>3, <2>4 DEF Begins
  <2>6. ASSUME ~IsCall(x) \/ l + 1 = MaxSteps
        PROVE  a = g
    <3>1. m <= MaxSteps /\ \A k \in 1..m-1 : IsCall(a[k])
      BY <2>1 DEF Shape
    <3>2. l + 1 \notin 1..m-1
      BY <2>1, <2>2, <2>6, <3>1, CaseFacts
    <3>3. m = l + 1
      BY <1>2, <2>2, <3>2
    <3>. QED
      BY <2>1, <2>3, <2>4, <3>3, SeqEqual
  <2>. QED
    BY <2>1, <2>2, <2>5, <2>6
<1>. QED
  BY <1>1, <1>3, <1>4, <1>5

\* The recording holds the answers of every case, and nothing else.
Told(tape, ret) ==
  /\ \A c \in Cases : \A k \in 1..Len(tape[c]) : \E n \in DOMAIN ret : ret[n] = At(c, tape[c], k)
  /\ \A n \in DOMAIN ret : \E c \in Cases : \E k \in 1..Len(tape[c]) : ret[n] = At(c, tape[c], k)
  /\ IsInjective(setup.prompt) =>
       \A m, n \in DOMAIN ret : ret[m].request = ret[n].request => m = n

\* One case after the other: that of c begins after the first off[c] exchanges.
Ordered(tape, off, ret) ==
  /\ off[1] = 0
  /\ \A c \in Cases : c + 1 \in Cases => off[c + 1] = off[c] + Len(tape[c])
  /\ \A c \in Cases : \A k \in 1..Len(tape[c]) :
       off[c] + k \in DOMAIN ret /\ ret[off[c] + k] = At(c, tape[c], k)

LEMMA SameSetup ==
  ASSUME UNCHANGED setup, NEW t, NEW off, NEW ret
  PROVE  (Told(t, ret)' <=> Told(t, ret)) /\ (Ordered(t, off, ret)' <=> Ordered(t, off, ret))
<1>1. \A c, a, k : At(c, a, k)' = At(c, a, k)
  BY DEF At, OwnHistory, User
<1>. QED
  BY <1>1 DEF Told, Ordered

\* The answers before stay where they are.
LEMMA AtStays ==
  ASSUME NEW c, NEW a \in Seq(Said), NEW x \in Said, NEW k \in 1..Len(a)
  PROVE  At(c, Append(a, x), k) = At(c, a, k)
<1>1. PICK b, l : b = Append(a, x) /\ l = Len(a)
  OBVIOUS
<1>2. l \in Nat /\ \A i \in 1..l : b[i] = a[i]
  BY <1>1
<1>3. k - 1 \in Nat /\ b[k] = a[k] /\ \A i \in 1..k-1 : b[i] = a[i]
  BY <1>1, <1>2
<1>4. OwnHistory(c, b, k - 1) = OwnHistory(c, a, k - 1)
  BY <1>3, HistorySame
<1>. QED
  BY <1>1, <1>3, <1>4 DEF At

LEMMA AtLast ==
  ASSUME NEW c, NEW a \in Seq(Said), NEW x \in Said
  PROVE  At(c, Append(a, x), Len(a) + 1) = Exchange(OwnHistory(c, a, Len(a)), x)
<1>1. PICK b, l : b = Append(a, x) /\ l = Len(a)
  OBVIOUS
<1>2. l \in Nat /\ b[l+1] = x /\ (l + 1) - 1 = l /\ \A i \in 1..l : b[i] = a[i]
  BY <1>1
<1>3. OwnHistory(c, b, l) = OwnHistory(c, a, l)
  BY <1>2, HistorySame
<1>. QED
  BY <1>1, <1>2, <1>3 DEF At

\* No request was made before, if the prompts differ.
LEMMA RequestIsNew ==
  ASSUME SetupOK, IsInjective(setup.prompt), NEW tape \in [Cases -> Seq(Said)],
         NEW c \in Cases, NEW d \in Cases, NEW l \in 0..Len(tape[c]), NEW k \in 1..Len(tape[d]),
         At(d, tape[d], k).request = OwnHistory(c, tape[c], l)
  PROVE  c = d /\ k = l + 1
<1>1. tape[c] \in Seq(Said) /\ tape[d] \in Seq(Said) /\ k - 1 \in 0..Len(tape[d])
  OBVIOUS
<1>2. OwnHistory(d, tape[d], k - 1) = OwnHistory(c, tape[c], l)
  BY DEF At, Exchange
<1>3. k - 1 = l /\ setup.prompt[d] = setup.prompt[c]
  BY <1>1, <1>2, HistoryTells
<1>4. DOMAIN setup.prompt = Cases
  BY SuiteAssumption DEF SetupOK
<1>. QED
  BY <1>3, <1>4 DEF IsInjective

LEMMA ToldGrows ==
  ASSUME SetupOK, NEW tape \in [Cases -> Seq(Said)], NEW ret \in Seq(Taken), Told(tape, ret),
         NEW c \in Cases, NEW x \in Said, NEW y, y = Exchange(OwnHistory(c, tape[c], Len(tape[c])), x)
  PROVE  Told([tape EXCEPT ![c] = Append(tape[c], x)], Append(ret, y))
<1>1. PICK t, r, n, l : /\ t = [tape EXCEPT ![c] = Append(tape[c], x)]
                        /\ r = Append(ret, y) /\ n = Len(ret) /\ l = Len(tape[c])
  OBVIOUS
<1>2. /\ n \in Nat /\ DOMAIN ret = 1..n /\ DOMAIN r = 1..n+1 /\ r[n+1] = y
      /\ \A i \in 1..n : r[i] = ret[i]
  BY <1>1
<1>3. /\ tape[c] \in Seq(Said) /\ l \in Nat /\ t[c] = Append(tape[c], x) /\ Len(t[c]) = l + 1
      /\ \A d \in Cases \ {c} : t[d] = tape[d]
  BY <1>1
<1>4. y = At(c, t[c], l + 1)
  BY <1>1, <1>3, AtLast
<1>5. ASSUME NEW d \in Cases, NEW k \in 1..Len(tape[d])
      PROVE  k \in 1..Len(t[d]) /\ At(d, t[d], k) = At(d, tape[d], k)
  <2>1. CASE d = c
    BY <1>1, <1>3, <2>1, AtStays
  <2>2. CASE d # c
    BY <1>3, <2>2
  <2>. QED
    BY <2>1, <2>2
<1>6. ASSUME NEW d \in Cases, NEW k \in 1..Len(t[d])
      PROVE  k \in 1..Len(tape[d]) \/ (d = c /\ k = l + 1)
  <2>1. CASE d = c
    BY <1>1, <1>3, <2>1
  <2>2. CASE d # c
    BY <1>3, <2>2
  <2>. QED
    BY <2>1, <2>2
<1>7. ASSUME NEW d \in Cases, NEW k \in 1..Len(t[d])
      PROVE  \E i \in DOMAIN r : r[i] = At(d, t[d], k)
  <2>1. CASE d = c /\ k = l + 1
    BY <1>2, <1>4, <2>1
  <2>2. CASE k \in 1..Len(tape[d])
    <3>1. PICK i \in DOMAIN ret : ret[i] = At(d, tape[d], k)
      BY <2>2 DEF Told
    <3>. QED
      BY <1>2, <1>5, <2>2, <3>1
  <2>. QED
    BY <1>6, <2>1, <2>2
<1>8. ASSUME NEW i \in DOMAIN r
      PROVE  \E d \in Cases : \E k \in 1..Len(t[d]) : r[i] = At(d, t[d], k)
  <2>1. CASE i = n + 1
    <3>1. l + 1 \in 1..Len(t[c]) /\ r[i] = At(c, t[c], l + 1)
      BY <1>2, <1>3, <1>4, <2>1
    <3>. QED
      BY <3>1
  <2>2. CASE i \in 1..n
    <3>1. PICK d \in Cases : \E k \in 1..Len(tape[d]) : ret[i] = At(d, tape[d], k)
      BY <1>2, <2>2 DEF Told
    <3>. QED
      BY <1>2, <1>5, <2>2, <3>1
  <2>. QED
    BY <1>2, <2>1, <2>2
<1>9. ASSUME IsInjective(setup.prompt), NEW i \in 1..n
      PROVE  ret[i].request # y.request
  <2>1. PICK d \in Cases : \E k \in 1..Len(tape[d]) : ret[i] = At(d, tape[d], k)
    BY <1>2 DEF Told
  <2>2. PICK k \in 1..Len(tape[d]) : ret[i] = At(d, tape[d], k)
    BY <2>1
  <2>3. y.request = OwnHistory(c, tape[c], l) /\ l \in 0..Len(tape[c])
    BY <1>1, <1>3 DEF Exchange
  <2>4. k # l + 1 \/ d # c
    BY <1>1, <1>3
  <2>. QED
    BY <1>9, <2>2, <2>3, <2>4, RequestIsNew
<1>10. ASSUME IsInjective(setup.prompt), NEW i \in DOMAIN r, NEW j \in DOMAIN r, r[i].request = r[j].request
       PROVE  i = j
  <2>1. \A i1, j1 \in 1..n : ret[i1].request = ret[j1].request => i1 = j1
    BY <1>2, <1>10 DEF Told
  <2>2. (i \in 1..n \/ i = n + 1) /\ (j \in 1..n \/ j = n + 1)
    BY <1>2
  <2>. QED
    BY <1>2, <1>9, <1>10, <2>1, <2>2
<1>11. IsInjective(setup.prompt) => \A i, j \in DOMAIN r : r[i].request = r[j].request => i = j
  BY <1>10
<1>12. Told(t, r)
  BY <1>7, <1>8, <1>11 DEF Told
<1>. QED
  BY <1>1, <1>12

LEMMA OrderedGrows ==
  ASSUME SetupOK, NEW tape \in [Cases -> Seq(Said)], NEW off \in [Cases -> Nat], NEW ret \in Seq(Taken),
         Ordered(tape, off, ret), NEW c \in Cases, NEW x \in Said,
         NEW y, y = Exchange(OwnHistory(c, tape[c], Len(tape[c])), x),
         Len(ret) = off[c] + Len(tape[c]),
         NEW o, o = [d \in Cases |-> IF d > c THEN off[d] + 1 ELSE off[d]],
         \A d \in Cases : d > c => tape[d] = <<>>
  PROVE  Ordered([tape EXCEPT ![c] = Append(tape[c], x)], o, Append(ret, y))
<1>1. PICK t, r, n, l : /\ t = [tape EXCEPT ![c] = Append(tape[c], x)]
                        /\ r = Append(ret, y) /\ n = Len(ret) /\ l = Len(tape[c])
  OBVIOUS
<1>2. /\ n \in Nat /\ DOMAIN ret = 1..n /\ DOMAIN r = 1..n+1 /\ r[n+1] = y
      /\ \A i \in 1..n : r[i] = ret[i]
  BY <1>1
<1>3. /\ tape[c] \in Seq(Said) /\ l \in Nat /\ t[c] = Append(tape[c], x) /\ Len(t[c]) = l + 1
      /\ \A d \in Cases \ {c} : t[d] = tape[d]
  BY <1>1
<1>4. /\ \A d \in Cases : off[d] \in Nat /\ o[d] = IF d > c THEN off[d] + 1 ELSE off[d]
      /\ Cases \subseteq Nat \ {0} /\ c >= 1 /\ 1 \in Cases
  BY CaseFacts
<1>5. o[1] = 0
  BY <1>4 DEF Ordered
<1>6. ASSUME NEW d \in Cases, d + 1 \in Cases
      PROVE  o[d + 1] = o[d] + Len(t[d])
  <2>1. off[d + 1] = off[d] + Len(tape[d]) /\ d \in Nat /\ c \in Nat /\ Len(tape[d]) \in Nat
    BY <1>4, <1>6 DEF Ordered
  <2>2. CASE d = c
    BY <1>1, <1>3, <1>4, <1>6, <2>1, <2>2
  <2>3. CASE d < c
    <3>1. ~(d + 1 > c) /\ ~(d > c) /\ t[d] = tape[d]
      BY <1>3, <2>1, <2>3
    <3>. QED
      BY <1>4, <1>6, <2>1, <3>1
  <2>4. CASE d > c
    <3>1. d + 1 > c /\ t[d] = tape[d] /\ Len(tape[d]) = 0
      BY <1>3, <2>1, <2>4
    <3>. QED
      BY <1>4, <1>6, <2>1, <2>4, <3>1
  <2>. QED
    BY <2>1, <2>2, <2>3, <2>4
<1>7. ASSUME NEW d \in Cases, NEW k \in 1..Len(t[d])
      PROVE  o[d] + k \in DOMAIN r /\ r[o[d] + k] = At(d, t[d], k)
  <2>1. CASE d = c /\ k = l + 1
    <3>1. o[d] + k = n + 1 /\ y = At(d, t[d], k)
      BY <1>1, <1>3, <1>4, <2>1, AtLast
    <3>. QED
      BY <1>2, <3>1
  <2>2. CASE d = c /\ k # l + 1
    <3>1. k \in 1..Len(tape[c]) /\ o[d] = off[c] /\ t[d] = Append(tape[c], x)
      BY <1>1, <1>3, <1>4, <2>2
    <3>2. off[c] + k \in 1..n /\ ret[off[c] + k] = At(c, tape[c], k)
      BY <1>2, <3>1 DEF Ordered
    <3>3. At(d, t[d], k) = At(c, tape[c], k)
      BY <1>3, <2>2, <3>1, AtStays
    <3>. QED
      BY <1>2, <3>1, <3>2, <3>3
  <2>3. CASE d # c
    <3>1. t[d] = tape[d] /\ d < c /\ o[d] = off[d]
      BY <1>3, <1>4, <2>3
    <3>2. off[d] + k \in 1..n /\ ret[off[d] + k] = At(d, tape[d], k)
      BY <1>2, <3>1 DEF Ordered
    <3>. QED
      BY <1>2, <3>1, <3>2
  <2>. QED
    BY <2>1, <2>2, <2>3
<1>. QED
  BY <1>1, <1>5, <1>6, <1>7 DEF Ordered

\* While recording: what a case was answered is on the recording, one case
\* after the other if the suite takes one at a time.
InPlace(off) ==
  \A c \in Cases : /\ pc[c] = "wait" => Len(returned) = off[c]
                   /\ pc[c] \in Turning => Len(returned) = off[c] + Len(run[c])

Reported(q, c, a) == result[q][c] = Report(c, a)

RunOK ==
  /\ \A c \in Cases : pc[c] = "out" =>
       Shape(run[c]) /\ Reported("record", c, run[c]) /\ (failures = 0 => Finished(run[c]))
  /\ CasesShareNothing => Told(run, returned)
  /\ setup.slots = 1 => \E off \in [Cases -> Nat] : Ordered(run, off, returned) /\ InPlace(off)

RunKept == failures \in Nat /\ (phase = "record" => RunOK)

LEMMA RunStart == Init => RunKept
<1> SUFFICES ASSUME Init
             PROVE  failures \in Nat /\ RunOK
  BY DEF RunKept
<1>1. /\ run = [c \in Cases |-> <<>>] /\ pc = [c \in Cases |-> "wait"] /\ returned = <<>> /\ failures = 0
  BY DEF Init
<1>2. Told(run, returned)
  BY <1>1 DEF Told
<1>3. PICK off : off = [c \in Cases |-> 0]
  OBVIOUS
<1>4. off \in [Cases -> Nat] /\ 1 \in Cases /\ Len(<<>>) = 0
  BY <1>3, CaseFacts
<1>5. Ordered(run, off, returned)
  BY <1>1, <1>3, <1>4 DEF Ordered
<1>6. InPlace(off)
  BY <1>1, <1>3, <1>4 DEF InPlace, Turning
<1>. QED
  BY <1>1, <1>2, <1>4, <1>5, <1>6 DEF RunOK

\* Steps without an answer leave all that as it is; the last tool of a case that
\* is out of steps ends it.
LEMMA RunStill ==
  ASSUME Sound, RunKept, phase = "record", NEW c \in Cases, Begin(c) \/ Acquire(c) \/ Tool(c)
  PROVE  RunKept'
<1>1. /\ UNCHANGED <<setup, phase, run, returned, failures>> /\ pc[c] # "out" /\ ResultMoves(c)
      /\ \/ UNCHANGED result /\ pc'[c] \in {"asking", "lock"}
         \/ /\ Tool(c) /\ pc'[c] = "out" /\ result'["record"][c] = Errored /\ Len(run[c]) = MaxSteps
  BY StillFacts DEF recorder
<1>2. /\ RunOK /\ run \in [Cases -> Seq(Said)] /\ pc \in [Cases -> Labels] /\ failures \in Nat
      /\ TurnsOK
  BY DEF RunKept, Sound, TurnsOK, TurnTypes
<1>3. ASSUME NEW d \in Cases, pc'[d] = "out"
      PROVE  /\ Shape(run[d]) /\ result'["record"][d] = Report(d, run[d])
             /\ failures = 0 => Finished(run[d])
  <2>1. CASE d = c
    <3>1. Calls(run[c]) /\ Len(run[c]) = MaxSteps /\ result'["record"][c] = Errored
      BY <1>1, <1>2, <1>3, <2>1, ToolFacts
    <3>2. Report(c, run[c]) = Errored /\ Shape(run[c]) /\ Finished(run[c])
      BY <1>2, <3>1, RanOut
    <3>. QED
      BY <2>1, <3>1, <3>2
  <2>2. CASE d # c
    <3>1. pc[d] = "out" /\ result'["record"][d] = result["record"][d]
      BY <1>1, <1>3, <2>2 DEF ResultMoves, Suite
    <3>. QED
      BY <1>2, <3>1 DEF RunOK, Reported
  <2>. QED
    BY <2>1, <2>2
<1>4. \A d \in Cases : pc'[d] = "out" =>
        Shape(run[d])' /\ Reported("record", d, run[d])' /\ (failures' = 0 => Finished(run[d])')
  BY <1>1, <1>3 DEF Reported, Shape, Finished
<1>5. CasesShareNothing' => Told(run, returned)'
  <2>1. Told(run, returned)' <=> Told(run, returned)
    BY <1>1, SameSetup
  <2>. QED
    BY <1>1, <1>2, <2>1 DEF RunOK, CasesShareNothing
<1>6. ASSUME setup.slots = 1
      PROVE  \E off \in [Cases -> Nat] : Ordered(run, off, returned)' /\ InPlace(off)'
  <2>1. PICK off \in [Cases -> Nat] : Ordered(run, off, returned) /\ InPlace(off)
    BY <1>2, <1>6 DEF RunOK
  <2>2. Ordered(run, off, returned)'
    BY <1>1, <2>1, SameSetup
  <2>3. pc'[c] # "wait" /\ \A d \in Cases \ {c} : pc'[d] = pc[d]
    BY <1>1 DEF ResultMoves
  <2>4. InPlace(off)'
    <3> SUFFICES ASSUME NEW d \in Cases
                 PROVE  /\ pc'[d] = "wait" => Len(returned') = off[d]
                        /\ pc'[d] \in Turning => Len(returned') = off[d] + Len(run'[d])
      BY DEF InPlace
    <3>1. CASE d = c /\ pc[c] = "tool"
      BY <1>1, <1>2, <2>1, <2>3, <3>1 DEF InPlace, Turning
    <3>2. CASE d = c /\ pc[c] = "wait"
      <4>1. run[c] = <<>> /\ Len(returned) = off[c] /\ Len(<<>>) = 0 /\ off[c] \in Nat
        BY <2>1, <3>2 DEF InPlace, Sound, TurnsOK, CaseOK
      <4>. QED
        BY <1>1, <1>2, <2>3, <3>2, <4>1
    <3>3. CASE d # c
      BY <1>1, <1>2, <2>1, <2>3, <3>3 DEF InPlace
    <3>4. pc[c] \in {"wait", "tool"}
      <4>1. CasesShareNothing /\ pc[c] \in {"wait", "tool", "lock"}
        BY <1>6 DEF CasesShareNothing, Begin, Acquire, Tool
      <4>. QED
        BY <4>1 DEF Sound, TurnsOK, CaseOK
    <3>. QED
      BY <3>1, <3>2, <3>3, <3>4
  <2>. QED
    BY <2>2, <2>4
<1>. QED
  BY <1>1, <1>2, <1>4, <1>5, <1>6 DEF RunKept, RunOK

LEMMA RunFails ==
  ASSUME Sound, RunKept, NEW c \in Cases, ProviderFails(c)
  PROVE  RunKept'
<1>1. /\ UNCHANGED <<setup, phase, run, returned>> /\ failures' = failures + 1 /\ pc[c] = "asking"
      /\ EndsWith(c, Errored) /\ Goto(c, "out") /\ phase = "record"
  BY DEF ProviderFails, Raises, EndsWith, recorder
<1>2. /\ RunOK /\ run \in [Cases -> Seq(Said)] /\ pc \in [Cases -> Labels] /\ failures \in Nat
      /\ TurnTypes /\ ResultType /\ Going(run[c])
  BY <1>1 DEF RunKept, Sound, TurnsOK, TurnTypes, RecorderOK, CaseOK, Turning
<1>3. ResultMoves(c) /\ result'["record"][c] = Errored /\ pc' = [pc EXCEPT ![c] = "out"]
  BY <1>1, <1>2, EndMoves DEF Suite, Goto
<1>4. ASSUME NEW d \in Cases, pc'[d] = "out"
      PROVE  Shape(run[d])' /\ Reported("record", d, run[d])'
  <2>1. CASE d = c
    <3>1. Report(c, run[c]) = Errored /\ Shape(run[c])
      BY <1>2, GoingFacts
    <3>2. result'["record"][c] = Report(c, run[c]) /\ run' = run
      BY <1>1, <1>3, <3>1
    <3>. QED
      BY <2>1, <3>1, <3>2 DEF Shape, Reported
  <2>2. CASE d # c
    <3>1. pc[d] = "out" /\ result'["record"][d] = result["record"][d]
      BY <1>2, <1>3, <1>4, <2>2 DEF ResultMoves, Suite
    <3>. QED
      BY <1>1, <1>2, <3>1 DEF RunOK, Shape, Reported
  <2>. QED
    BY <2>1, <2>2
<1>5. failures' # 0 /\ failures' \in Nat
  BY <1>1, <1>2
<1>6. CasesShareNothing' => Told(run, returned)'
  <2>1. Told(run, returned)' <=> Told(run, returned)
    BY <1>1, SameSetup
  <2>. QED
    BY <1>1, <1>2, <2>1 DEF RunOK, CasesShareNothing
<1>7. ASSUME setup.slots = 1
      PROVE  \E off \in [Cases -> Nat] : Ordered(run, off, returned)' /\ InPlace(off)'
  <2>1. PICK off \in [Cases -> Nat] : Ordered(run, off, returned) /\ InPlace(off)
    BY <1>2, <1>7 DEF RunOK
  <2>2. Ordered(run, off, returned)'
    BY <1>1, <2>1, SameSetup
  <2>3. InPlace(off)'
    BY <1>1, <1>2, <1>3, <2>1 DEF InPlace, Turning
  <2>. QED
    BY <2>2, <2>3
<1>. QED
  BY <1>1, <1>4, <1>5, <1>6, <1>7 DEF RunKept, RunOK

\* Where an answer leaves the case.
LEMMA TakeEnds ==
  ASSUME TurnsOK, ResultType, phase \in Suite, NEW c \in Cases, NEW a \in Said,
         pc[c] = "asking", Take(c, a), NEW b, b = Append(run[c], a)
  PROVE  /\ ResultMoves(c) /\ run' = [run EXCEPT ![c] = b] /\ b \in Seq(Said) /\ Len(b) = Len(run[c]) + 1
         /\ Going(run[c]) /\ Shape(b)
         /\ pc' = [pc EXCEPT ![c] = pc'[c]] /\ pc'[c] \in {"tool", "out"}
         /\ pc'[c] = "out" => ~IsCall(a) /\ result'[phase][c] = Report(c, b) /\ Finished(b)
<1>1. /\ TurnTypes /\ run[c] \in Seq(Said) /\ pc \in [Cases -> Labels] /\ Going(run[c])
  BY DEF TurnsOK, TurnTypes, CaseOK, Turning
<1>2. ResultMoves(c) /\ run' = [run EXCEPT ![c] = b]
  BY TakeMoves, TakeFacts
<1>3. /\ Shape(b) /\ b \in Seq(Said) /\ Len(b) = Len(run[c]) + 1
      /\ ~IsCall(a) => Report(c, b) = Verdict(c, b) /\ Finished(b)
  BY <1>1, LastFacts
<1>4. CASE ~IsCall(a)
  <2>1. EndsWith(c, Verdict(c, b)) /\ Goto(c, "out")
    BY <1>4, TakeFacts DEF EndsWith
  <2>2. pc'[c] = "out" /\ result'[phase][c] = Verdict(c, b)
    BY <1>1, <2>1, EndMoves
  <2>. QED
    BY <1>1, <1>2, <1>3, <1>4, <2>1, <2>2 DEF Goto
<1>5. CASE IsCall(a)
  <2>1. Goto(c, "tool") /\ pc'[c] = "tool"
    BY <1>1, <1>5, TakeFacts DEF Goto
  <2>. QED
    BY <1>1, <1>2, <1>3, <2>1 DEF Goto
<1>. QED
  BY <1>4, <1>5

LEMMA RunCompletes ==
  ASSUME Sound, RunKept, NEW c \in Cases, NEW a \in Answers, Complete(c, a)
  PROVE  RunKept'
<1>1. /\ phase = "record" /\ pc[c] = "asking" /\ Take(c, a) /\ UNCHANGED <<setup, phase, failures>>
      /\ returned' = Append(returned, Exchange(request[c], a))
  BY DEF Complete
<1>2. /\ a \in Said /\ RunOK /\ run \in [Cases -> Seq(Said)] /\ pc \in [Cases -> Labels]
      /\ failures \in Nat /\ TurnsOK /\ ResultType /\ returned \in Seq(Taken) /\ SetupOK
  BY <1>1 DEF Said, RunKept, Sound, TurnsOK, TurnTypes, RecorderOK
<1>3. PICK b : b = Append(run[c], a)
  OBVIOUS
<1>4. /\ ResultMoves(c) /\ run' = [run EXCEPT ![c] = b] /\ b \in Seq(Said) /\ Len(b) = Len(run[c]) + 1
      /\ Shape(b) /\ pc' = [pc EXCEPT ![c] = pc'[c]] /\ pc'[c] \in {"tool", "out"}
      /\ pc'[c] = "out" => result'["record"][c] = Report(c, b) /\ Finished(b)
  BY <1>1, <1>2, <1>3, TakeEnds DEF Suite
<1>5. ASSUME NEW d \in Cases, pc'[d] = "out"
      PROVE  /\ Shape(run'[d]) /\ result'["record"][d] = Report(d, run'[d])
             /\ failures' = 0 => Finished(run'[d])
  <2>1. CASE d = c
    BY <1>2, <1>4, <1>5, <2>1
  <2>2. CASE d # c
    <3>1. pc[d] = "out" /\ result'["record"][d] = result["record"][d] /\ run'[d] = run[d]
      BY <1>2, <1>4, <1>5, <2>2 DEF ResultMoves, Suite
    <3>. QED
      BY <1>1, <1>2, <3>1 DEF RunOK, Reported
  <2>. QED
    BY <2>1, <2>2
<1>6. ASSUME CasesShareNothing
      PROVE  request[c] = OwnHistory(c, run[c], Len(run[c]))
  BY <1>1, <1>2, <1>6 DEF TurnsOK, CaseOK, OwnTurn
<1>7. PICK t, r, y : t = run' /\ r = returned' /\ y = Exchange(request[c], a)
  OBVIOUS
<1>8. t = [run EXCEPT ![c] = Append(run[c], a)] /\ r = Append(returned, y)
  BY <1>1, <1>3, <1>4, <1>7
<1>9. CasesShareNothing' => Told(run, returned)'
  <2> SUFFICES ASSUME CasesShareNothing
               PROVE  Told(run, returned)'
    BY <1>1 DEF CasesShareNothing
  <2>1. Told(run, returned)
    BY <1>2 DEF RunOK
  <2>2. Told(t, r)
    <3>1. y = Exchange(OwnHistory(c, run[c], Len(run[c])), a)
      BY <1>6, <1>7
    <3>2. Told([run EXCEPT ![c] = Append(run[c], a)], Append(returned, y))
      BY <1>2, <2>1, <3>1, ToldGrows
    <3>. QED
      BY <1>8, <3>2
  <2>3. Told(t, r)'
    BY <1>1, <2>2, SameSetup
  <2>. QED
    BY <1>7, <2>3
<1>10. ASSUME setup.slots = 1
       PROVE  \E off \in [Cases -> Nat] : Ordered(run, off, returned)' /\ InPlace(off)'
  <2>1. PICK off \in [Cases -> Nat] : Ordered(run, off, returned) /\ InPlace(off)
    BY <1>2, <1>10 DEF RunOK
  <2>2. CasesShareNothing /\ Alone(c) /\ Len(returned) = off[c] + Len(run[c])
    BY <1>1, <1>2, <1>10, <2>1 DEF CasesShareNothing, TurnsOK, CaseOK, InPlace, Turning
  <2>3. \A d \in Cases : d > c => run[d] = <<>>
    BY <1>2, <2>2 DEF Alone, TurnsOK, CaseOK
  <2>4. PICK o : o = [d \in Cases |-> IF d > c THEN off[d] + 1 ELSE off[d]]
    OBVIOUS
  <2>5. o \in [Cases -> Nat]
    BY <2>1, <2>4
  <2>6. Ordered(t, o, r)
    <3>1. y = Exchange(OwnHistory(c, run[c], Len(run[c])), a)
      BY <1>6, <1>7, <2>2
    <3>2. Ordered([run EXCEPT ![c] = Append(run[c], a)], o, Append(returned, y))
      BY <1>2, <2>1, <2>2, <2>3, <2>4, <3>1, OrderedGrows
    <3>. QED
      BY <1>8, <3>2
  <2>7. Ordered(run, o, returned)'
    <3>1. Ordered(t, o, r)'
      BY <1>1, <2>6, SameSetup
    <3>. QED
      BY <1>7, <3>1
  <2>8. InPlace(o)'
    <3>1. PICK n, m, l : n = Len(returned) /\ m = Len(returned') /\ l = Len(run[c])
      OBVIOUS
    <3>2. n \in Nat /\ l \in Nat /\ m = n + 1 /\ n = off[c] + l /\ off \in [Cases -> Nat]
      <4>1. n \in Nat /\ l \in Nat /\ n = off[c] + l
        BY <1>2, <2>2, <3>1
      <4>2. m = n + 1
        <5>1. returned' = Append(returned, y)
          BY <1>7, <1>8
        <5>2. returned \in Seq(Taken)
          BY <1>2
        <5>3. Len(returned') = Len(returned) + 1
          BY <5>1, <5>2
        <5>. QED
          BY <3>1, <5>3
      <4>. QED
        BY <4>1, <4>2
    <3>3. ASSUME NEW d \in Cases, pc'[d] = "wait"
          PROVE  m = o[d]
      <4>1. d # c /\ pc[d] = "wait"
        BY <1>2, <1>4, <3>3
      <4>2. d > c
        <5>1. d \in Nat /\ c \in Nat
          BY CaseFacts
        <5>. QED
          BY <2>2, <4>1, <5>1 DEF Alone
      <4>3. n = off[d]
        BY <2>1, <3>1, <4>1 DEF InPlace
      <4>. QED
        BY <2>4, <3>2, <4>2, <4>3
    <3>4. ASSUME NEW d \in Cases, pc'[d] \in Turning
          PROVE  m = o[d] + Len(run'[d])
      <4>1. d = c
        <5>1. d < c \/ d = c \/ d > c
          BY CaseFacts
        <5>2. d # c => pc'[d] = pc[d]
          BY <1>2, <1>4
        <5>. QED
          BY <2>2, <3>4, <5>1, <5>2 DEF Alone, Turning
      <4>2. Len(run'[c]) = l + 1 /\ o[c] = off[c]
        BY <1>2, <1>4, <2>4, <3>1, CaseFacts
      <4>. QED
        BY <3>2, <4>1, <4>2
    <3>. QED
      BY <3>1, <3>3, <3>4 DEF InPlace
  <2>. QED
    BY <2>5, <2>7, <2>8
<1>11. \A d \in Cases : pc'[d] = "out" =>
         Shape(run[d])' /\ Reported("record", d, run[d])' /\ (failures' = 0 => Finished(run[d])')
  BY <1>5 DEF Reported, Shape, Finished
<1>. QED
  BY <1>1, <1>2, <1>9, <1>10, <1>11 DEF RunKept, RunOK

LEMMA RunStep == Sound /\ RunKept /\ [Next]_vars => RunKept'
<1> SUFFICES ASSUME Sound, RunKept, [Next]_vars
             PROVE  RunKept'
  OBVIOUS
<1>1. CASE phase' # "record"
  <2>1. failures' \in Nat
    <3>1. failures' = failures \/ failures' = failures + 1
      BY DEF Next, Step, CaseStep, Begin, Acquire, Tool, Complete, Serve, EndRecording, Load, EndReplay,
             ProviderFails, Crash, vars
    <3>. QED
      BY <3>1 DEF RunKept
  <2>. QED
    BY <1>1, <2>1 DEF RunKept
<1>2. CASE phase' = "record"
  <2>1. ASSUME NEW c \in Cases, CaseStep(c)
        PROVE  RunKept'
    <3>1. ~Serve(c)
      BY <1>2 DEF Serve
    <3>2. phase = "record"
      BY <1>2, <2>1, <3>1 DEF CaseStep, Begin, Acquire, Tool, Complete
    <3>. QED
      BY <2>1, <3>1, <3>2, RunStill, RunCompletes DEF CaseStep
  <2>2. CASE UNCHANGED vars
    <3>1. UNCHANGED <<setup, phase, run, pc, returned, result, failures>>
      BY <2>2 DEF vars, suite, recorder
    <3>2. RunOK
      BY <1>2, <3>1 DEF RunKept
    <3>3. Told(run, returned)' <=> Told(run, returned)
      BY <3>1, SameSetup
    <3>4. \A off : (Ordered(run, off, returned)' <=> Ordered(run, off, returned)) /\ (InPlace(off)' <=> InPlace(off))
      BY <3>1, SameSetup DEF InPlace
    <3>5. RunOK'
      BY <3>1, <3>2, <3>3, <3>4 DEF RunOK, Shape, Finished, Reported, CasesShareNothing
    <3>. QED
      BY <3>1, <3>5 DEF RunKept
  <2>3. ~EndRecording /\ ~Load /\ ~EndReplay /\ \A c, a : ~Crash(c, a)
    BY <1>2 DEF EndRecording, Load, EndReplay, Crash
  <2>. QED
    BY <2>1, <2>2, <2>3, RunFails DEF Next, Step
<1>. QED
  BY <1>1, <1>2

\* After recording: the answers each case was given are a tape, and the
\* replay has played the beginning of it.
Logged(tape, off) ==
  /\ \A c \in Cases : Shape(tape[c]) /\ Reported("record", c, tape[c]) /\ (failures = 0 => Finished(tape[c]))
  /\ CasesShareNothing => Told(tape, returned)
  /\ setup.slots = 1 => Ordered(tape, off, returned)

InTurn(off) ==
  /\ \A n \in DOMAIN requests : n \in DOMAIN returned /\ requests[n] = returned[n].request
  /\ setup.match = "sequence" => cursor = Len(requests)
  /\ \A c \in Cases :
       /\ pc[c] \in Turning => Len(requests) = off[c] + Len(run[c])
       /\ pc[c] = "wait" /\ (\A d \in Cases : d < c => pc[d] = "out") => Len(requests) = off[c]

ByRequest == setup.match = "request" /\ CasesShareNothing /\ IsInjective(setup.prompt)

OwnRequests(tape) ==
  \A n \in DOMAIN requests : \E d \in Cases : \E l \in 0..Len(tape[d]) :
    requests[n] = OwnHistory(d, tape[d], l) /\ (l < Len(run[d]) \/ pc[d] = "out")

Replayed(tape, off) ==
  /\ \A c \in Cases : Begins(run[c], tape[c]) /\ (pc[c] = "out" => Reported("replay", c, tape[c]))
  /\ InOrder => InTurn(off)
  /\ ByRequest => OwnRequests(tape)

Loaded == phase \in {"load", "replay", "done"}

LogKept ==
  /\ Loaded /\ Recorded =>
       \E tape \in [Cases -> Seq(Said)] : \E off \in [Cases -> Nat] :
         Logged(tape, off) /\ (Replaying /\ Repeatable => Replayed(tape, off))
  /\ phase = "done" => \A c \in Cases : pc[c] = "out"

\* What was logged stays logged.
LEMMA LoggedStays ==
  ASSUME UNCHANGED <<setup, returned, failures>>, NEW tape, NEW off, Logged(tape, off),
         \A c \in Cases : result'["record"][c] = result["record"][c]
  PROVE  Logged(tape, off)'
<1>1. (Told(tape, returned)' <=> Told(tape, returned)) /\ (Ordered(tape, off, returned)' <=> Ordered(tape, off, returned))
  BY SameSetup
<1>. QED
  BY <1>1 DEF Logged, Reported, CasesShareNothing

\* A case that goes on without an answer.
LEMMA ReplayStill ==
  ASSUME Sound, phase = "replay", Repeatable, NEW tape \in [Cases -> Seq(Said)], NEW off \in [Cases -> Nat],
         Logged(tape, off), Replayed(tape, off), NEW c \in Cases, Begin(c) \/ Acquire(c) \/ Tool(c)
  PROVE  Replayed(tape, off)'
<1>1. CasesShareNothing
  BY DEF Repeatable, InOrder, CasesShareNothing
<1>2. /\ TurnsOK /\ pc \in [Cases -> Labels] /\ pc[c] # "lock" /\ CaseOK(c) /\ run[c] \in Seq(Said)
  BY <1>1 DEF Sound, TurnsOK, TurnTypes, CaseOK
<1>3. /\ UNCHANGED <<setup, phase, run, returned, requests, cursor, failures>> /\ pc[c] # "out"
      /\ ResultMoves(c)
      /\ \/ pc'[c] \in {"asking", "lock"}
         \/ Tool(c) /\ pc'[c] = "out" /\ result'["replay"][c] = Errored /\ Len(run[c]) = MaxSteps
  BY StillFacts DEF recorder, replay
<1>4. ~Acquire(c) /\ (Begin(c) => pc[c] = "wait") /\ (Tool(c) => pc[c] = "tool")
  BY <1>2 DEF Acquire, Begin, Tool
<1>5. pc'[c] = "out" => tape[c] = run[c] /\ Report(c, tape[c]) = Errored
  <2> SUFFICES ASSUME pc'[c] = "out"
               PROVE  tape[c] = run[c] /\ Report(c, tape[c]) = Errored
    OBVIOUS
  <2>1. Calls(run[c]) /\ Len(run[c]) = MaxSteps
    BY <1>2, <1>3, ToolFacts
  <2>2. Begins(run[c], tape[c]) /\ Shape(tape[c]) /\ tape[c] \in Seq(Said)
    BY DEF Replayed, Logged
  <2>. QED
    BY <1>2, <2>1, <2>2, RanOut
<1>6. /\ pc'[c] # "lock" /\ pc'[c] # "wait"
      /\ \A d \in Cases \ {c} : pc'[d] = pc[d] /\ result'["replay"][d] = result["replay"][d]
      /\ \A d \in Cases : pc[d] = "out" => pc'[d] = "out"
  <2>1. Begin(c) => pc'[c] = "asking"
    <3>1. Begin(c) /\ setup.slots = 1 => lock = 0
      BY <1>2, OneSlot DEF Begin
    <3>. QED
      BY <1>1, <1>2, <3>1 DEF Begin, Asking, Goto, CasesShareNothing
  <2>2. Tool(c) => pc'[c] \in {"asking", "out"}
    BY <1>2 DEF Tool, Asking, OutOfSteps, EndsWith, Goto
  <2>. QED
    BY <1>3, <1>4, <2>1, <2>2 DEF ResultMoves, Suite
<1>7. ASSUME NEW d \in Cases
      PROVE  Begins(run[d], tape[d])' /\ (pc'[d] = "out" => Reported("replay", d, tape[d])')
  <2>1. Begins(run[d], tape[d])'
    BY <1>3 DEF Replayed, Begins
  <2>2. CASE d = c
    BY <1>3, <1>5, <1>6, <2>1, <2>2 DEF Reported
  <2>3. CASE d # c
    BY <1>6, <2>1, <2>3 DEF Replayed, Reported
  <2>. QED
    BY <2>2, <2>3
<1>8. ASSUME InOrder
      PROVE  InTurn(off)'
  <2>2. InTurn(off) /\ setup.slots = 1 /\ Ordered(tape, off, returned)
    BY <1>8 DEF Replayed, InOrder, Logged
  <2>3. Alone(c)
    BY <1>2, <1>4, <2>2, OneSlot DEF CaseOK, Turning, Begin
  <2>4. Len(requests) = off[c] + Len(run[c])
    <3>1. CASE Tool(c)
      BY <1>4, <2>2, <3>1 DEF InTurn, Turning
    <3>2. CASE Begin(c)
      <4>1. run[c] = <<>> /\ Len(requests) = off[c] /\ Len(<<>>) = 0 /\ off[c] \in Nat
        BY <1>2, <1>4, <2>2, <2>3, <3>2 DEF InTurn, Alone, CaseOK
      <4>. QED
        BY <4>1
    <3>. QED
      BY <1>4, <3>1, <3>2
  <2>5. ASSUME NEW d \in Cases, pc'[d] \in Turning
        PROVE  Len(requests) = off[d] + Len(run[d])
    BY <1>6, <2>2, <2>4, <2>5 DEF InTurn
  <2>6. ASSUME NEW d \in Cases, pc'[d] = "wait", \A e \in Cases : e < d => pc'[e] = "out"
        PROVE  Len(requests) = off[d]
    <3>1. c \in Nat /\ d \in Nat /\ d # c /\ pc[d] = "wait"
      BY <1>6, <2>6, CaseFacts
    <3>2. d > c
      BY <2>3, <3>1 DEF Alone
    <3>3. pc'[c] = "out"
      BY <2>6, <3>2
    <3>4. c + 1 \in Cases
      BY <3>1, <3>2, CaseFacts
    <3>5. pc'[c + 1] = "wait" /\ c + 1 # c
      BY <1>6, <2>3, <3>1, <3>4 DEF Alone
    <3>6. d = c + 1
      BY <2>6, <3>1, <3>2, <3>4, <3>5
    <3>7. off[c + 1] = off[c] + Len(tape[c])
      BY <2>2, <3>4 DEF Ordered
    <3>. QED
      BY <1>5, <2>4, <3>3, <3>6, <3>7
  <2>. QED
    BY <1>3, <2>2, <2>5, <2>6 DEF InTurn
<1>9. ASSUME ByRequest
      PROVE  OwnRequests(tape)'
  <2>1. OwnRequests(tape)
    BY <1>9 DEF Replayed
  <2>2. \A d, l : OwnHistory(d, tape[d], l)' = OwnHistory(d, tape[d], l)
    BY <1>3 DEF OwnHistory, User
  <2>3. ASSUME NEW n \in DOMAIN requests
        PROVE  \E d \in Cases : \E l \in 0..Len(tape[d]) :
                 requests[n] = OwnHistory(d, tape[d], l)' /\ (l < Len(run[d]) \/ pc'[d] = "out")
    <3>1. PICK d \in Cases : \E l \in 0..Len(tape[d]) :
            requests[n] = OwnHistory(d, tape[d], l) /\ (l < Len(run[d]) \/ pc[d] = "out")
      BY <2>1 DEF OwnRequests
    <3>. QED
      BY <1>6, <2>2, <3>1
  <2>. QED
    BY <1>3, <2>3 DEF OwnRequests
<1>10. (InOrder' <=> InOrder) /\ (ByRequest' <=> ByRequest)
  BY <1>3 DEF InOrder, ByRequest, CasesShareNothing
<1>. QED
  BY <1>7, <1>8, <1>9, <1>10 DEF Replayed

\* Of the exchanges with one request, each has its own rank.
LEMMA RanksDiffer ==
  ASSUME RecorderOK, Replaying, NEW rq, NEW i \in Candidates(rq), NEW j \in Candidates(rq), i < j
  PROVE  Cardinality({k \in Candidates(rq) : k < i}) # Cardinality({k \in Candidates(rq) : k < j})
<1>1. PICK l : l = Len(Exchanges)
  OBVIOUS
<1>2. l \in Nat /\ DOMAIN Exchanges = 1..l
  BY <1>1, ExchangeFacts
<1>3. PICK A, B : A = {k \in Candidates(rq) : k < i} /\ B = {k \in Candidates(rq) : k < j}
  OBVIOUS
<1>4. Candidates(rq) \subseteq 1..l
  BY <1>2 DEF Candidates
<1>5. IsFiniteSet(B)
  <2>1. IsFiniteSet(1..l)
    BY <1>2, FS_Interval
  <2>2. B \in SUBSET (1..l)
    BY <1>3, <1>4
  <2>. QED
    BY <2>1, <2>2, FS_Subset
<1>6. A \in SUBSET B /\ i \in B /\ i \notin A
  BY <1>2, <1>3, <1>4
<1>. QED
  BY <1>3, <1>5, <1>6, FS_Subset

LEMMA NextIs ==
  ASSUME RecorderOK, Replaying, setup.match = "request", NEW rq, NEW i \in Candidates(rq),
         Cardinality({k \in Candidates(rq) : k < i}) = Asked(rq)
  PROVE  NextExchange(rq) = i
<1>1. PICK l : l = Len(Exchanges)
  OBVIOUS
<1>2. l \in Nat /\ DOMAIN Exchanges = 1..l
  BY <1>1, ExchangeFacts
<1>3. Candidates(rq) \subseteq 1..l
  BY <1>2 DEF Candidates
<1>4. \A j \in Candidates(rq) : Cardinality({k \in Candidates(rq) : k < j}) = Asked(rq) => j = i
  <2> SUFFICES ASSUME NEW j \in Candidates(rq), Cardinality({k \in Candidates(rq) : k < j}) = Asked(rq)
               PROVE  j = i
    OBVIOUS
  <2>1. ~(i < j) /\ ~(j < i)
    BY RanksDiffer
  <2>. QED
    BY <1>2, <1>3, <2>1
<1>. QED
  BY <1>4 DEF NextExchange

\* What the replay answers next to a case, one case at a time.
LEMMA InOrderNext ==
  ASSUME Sound, phase = "replay", Recorded, InOrder,
         NEW tape \in [Cases -> Seq(Said)], NEW off \in [Cases -> Nat],
         Logged(tape, off), Replayed(tape, off), NEW c \in Cases, pc[c] = "asking"
  PROVE  /\ Len(run[c]) # Len(tape[c])
         /\ \E i \in DOMAIN Exchanges :
              /\ i = NextExchange(request[c]) /\ i = Len(requests) + 1 /\ i \in DOMAIN returned
              /\ returned[i].request = request[c]
              /\ Exchanges[i].response = tape[c][Len(run[c]) + 1]
<1>1. /\ Replaying /\ RecorderOK /\ ServedOK /\ SetupOK /\ CasesShareNothing /\ setup.slots = 1 /\ failures = 0
      /\ Fits
  BY DEF Replaying, Sound, TurnsOK, TurnTypes, InOrder, CasesShareNothing, RecorderOK
<1>2. /\ run[c] \in Seq(Said) /\ tape[c] \in Seq(Said) /\ Going(run[c]) /\ Begins(run[c], tape[c])
      /\ request[c] = OwnHistory(c, run[c], Len(run[c]))
  BY <1>1 DEF Sound, TurnsOK, TurnTypes, CaseOK, OwnTurn, Turning, Replayed
<1>3. Shape(tape[c]) /\ Finished(tape[c]) /\ Ordered(tape, off, returned)
  BY <1>1 DEF Logged
<1>4. Len(run[c]) # Len(tape[c])
  BY <1>2, <1>3, BeginsFacts, GoingFacts
<1>5. PICK k, m, rq : k = Len(run[c]) /\ m = Len(requests) /\ rq = request[c]
  OBVIOUS
<1>6. k \in Nat /\ m \in Nat /\ k + 1 \in 1..Len(tape[c]) /\ m = off[c] + k /\ off[c] \in Nat /\ (k + 1) - 1 = k
  <2>1. k \in Nat /\ m \in Nat /\ off[c] \in Nat
    BY <1>1, <1>2, <1>5 DEF ServedOK
  <2>2. k <= Len(tape[c]) /\ Len(tape[c]) \in Nat
    BY <1>2, <1>5 DEF Begins
  <2>3. m = off[c] + k
    BY <1>1, <1>5 DEF Replayed, InTurn, Turning
  <2>. QED
    BY <1>4, <1>5, <2>1, <2>2, <2>3
<1>7. m + 1 \in DOMAIN returned /\ returned[m + 1] = At(c, tape[c], k + 1)
  <2>1. off[c] + (k + 1) = m + 1
    BY <1>6
  <2>. QED
    BY <1>3, <1>6, <2>1 DEF Ordered
<1>8. returned[m + 1].request = rq /\ returned[m + 1].response = tape[c][k + 1]
  <2>1. OwnHistory(c, tape[c], k) = rq
    BY <1>2, <1>3, <1>5, BeginsFacts
  <2>. QED
    BY <1>6, <1>7, <2>1 DEF At, Exchange
<1>9. Exchanges = returned
  <2>1. returned # <<>>
    BY <1>7
  <2>. QED
    BY <1>1, <2>1 DEF Fits
<1>10. m + 1 = NextExchange(rq)
  <2>1. PICK l : l = Len(Exchanges)
    OBVIOUS
  <2>2. DOMAIN Exchanges = 1..l /\ l \in Nat
    BY <1>1, <2>1, ExchangeFacts
  <2>3. InTurn(off)
    BY DEF Replayed
  <2>4. CASE setup.match = "sequence"
    <3>1. cursor = m /\ m < l
      BY <1>5, <1>6, <1>7, <1>9, <2>2, <2>3, <2>4 DEF InTurn
    <3>. QED
      BY <2>1, <2>4, <3>1 DEF NextExchange
  <2>5. CASE setup.match = "request"
    <3>1. m + 1 \in Candidates(rq)
      BY <1>7, <1>8, <1>9 DEF Candidates
    <3>2. DOMAIN requests = 1..m /\ \A n \in 1..m : n \in 1..l /\ requests[n] = Exchanges[n].request
      <4>1. requests \in Seq(Seq(Message))
        BY <1>1 DEF ServedOK
      <4>2. DOMAIN requests = 1..m
        BY <1>5, <4>1
      <4>3. DOMAIN returned = 1..l
        BY <1>9, <2>2
      <4>. QED
        BY <1>9, <2>3, <4>2, <4>3 DEF InTurn
    <3>3. {j \in Candidates(rq) : j < m + 1} = {n \in DOMAIN requests : requests[n] = rq}
      BY <1>6, <2>2, <3>2 DEF Candidates
    <3>4. Cardinality({j \in Candidates(rq) : j < m + 1}) = Asked(rq)
      BY <3>3 DEF Asked
    <3>. QED
      BY <1>1, <2>5, <3>1, <3>4, NextIs
  <2>. QED
    BY <1>1, <2>4, <2>5 DEF SetupOK
<1>. QED
  BY <1>4, <1>5, <1>7, <1>8, <1>9, <1>10

\* What the replay answers next, if the request tells the case.
LEMMA ByRequestNext ==
  ASSUME Sound, phase = "replay", Recorded, ByRequest,
         NEW tape \in [Cases -> Seq(Said)], NEW off \in [Cases -> Nat],
         Logged(tape, off), Replayed(tape, off), NEW c \in Cases, pc[c] = "asking"
  PROVE  /\ Len(run[c]) = Len(tape[c]) => NextExchange(request[c]) = 0
         /\ Len(run[c]) # Len(tape[c]) =>
              \E i \in DOMAIN Exchanges :
                i = NextExchange(request[c]) /\ Exchanges[i].response = tape[c][Len(run[c]) + 1]
<1>1. /\ Replaying /\ RecorderOK /\ ServedOK /\ SetupOK /\ CasesShareNothing /\ Fits /\ TurnsOK
      /\ setup.match = "request" /\ IsInjective(setup.prompt) /\ setup.reused \in BOOLEAN
  BY DEF Replaying, Sound, TurnsOK, TurnTypes, ByRequest, RecorderOK, SetupOK
<1>2. /\ run[c] \in Seq(Said) /\ tape[c] \in Seq(Said) /\ Going(run[c]) /\ Begins(run[c], tape[c])
      /\ request[c] = OwnHistory(c, run[c], Len(run[c]))
  BY <1>1 DEF TurnsOK, TurnTypes, CaseOK, OwnTurn, Turning, Replayed
<1>3. Shape(tape[c]) /\ Told(tape, returned) /\ OwnRequests(tape)
  BY <1>1 DEF Logged, Replayed
<1>4. PICK k, rq : k = Len(run[c]) /\ rq = request[c]
  OBVIOUS
<1>5. rq = OwnHistory(c, tape[c], k) /\ k \in 0..Len(tape[c]) /\ k \in Nat
  <2>1. rq = OwnHistory(c, tape[c], k)
    BY <1>2, <1>3, <1>4, BeginsFacts
  <2>2. k \in Nat /\ Len(tape[c]) \in Nat /\ k <= Len(tape[c])
    BY <1>2, <1>4 DEF Begins
  <2>. QED
    BY <2>1, <2>2
<1>6. Asked(rq) = 0
  <2>1. ASSUME NEW n \in DOMAIN requests, requests[n] = rq
        PROVE  FALSE
    <3>1. PICK d \in Cases : \E l \in 0..Len(tape[d]) :
            requests[n] = OwnHistory(d, tape[d], l) /\ (l < Len(run[d]) \/ pc[d] = "out")
      BY <1>3 DEF OwnRequests
    <3>2. PICK l \in 0..Len(tape[d]) :
            requests[n] = OwnHistory(d, tape[d], l) /\ (l < Len(run[d]) \/ pc[d] = "out")
      BY <3>1
    <3>3. tape[d] \in Seq(Said) /\ OwnHistory(c, tape[c], k) = OwnHistory(d, tape[d], l)
      BY <1>5, <2>1, <3>2
    <3>4. k = l /\ setup.prompt[c] = setup.prompt[d]
      BY <1>1, <1>2, <1>5, <3>3, HistoryTells
    <3>5. c = d
      <4>1. DOMAIN setup.prompt = Cases
        BY <1>1, SuiteAssumption DEF SetupOK
      <4>. QED
        BY <1>1, <3>4, <4>1 DEF IsInjective
    <3>6. ~(l < Len(run[d])) /\ pc[d] # "out"
      <4>1. Len(run[d]) = l /\ l \in Nat
        BY <1>4, <1>5, <3>4, <3>5
      <4>. QED
        BY <3>5, <4>1
    <3>. QED
      BY <3>2, <3>6
  <2>2. {n \in DOMAIN requests : requests[n] = rq} = {}
    BY <2>1
  <2>. QED
    BY <2>2, FS_EmptySet DEF Asked
<1>7. CASE k # Len(tape[c])
  <2>1. k + 1 \in 1..Len(tape[c]) /\ (k + 1) - 1 = k
    BY <1>5, <1>7
  <2>2. PICK n \in DOMAIN returned : returned[n] = At(c, tape[c], k + 1)
    BY <1>3, <2>1 DEF Told
  <2>3. returned[n].request = rq /\ returned[n].response = tape[c][k + 1]
    BY <1>5, <2>1, <2>2 DEF At, Exchange
  <2>4. Exchanges = returned
    <3>1. returned # <<>>
      BY <2>2
    <3>. QED
      BY <1>1, <3>1 DEF Fits
  <2>5. n \in Candidates(rq) /\ \A j \in Candidates(rq) : j = n
    BY <1>1, <1>3, <2>2, <2>3, <2>4 DEF Candidates, Told
  <2>6. {j \in Candidates(rq) : j < n} = {}
    <3>1. returned \in Seq(Taken) /\ n \in Nat
      BY <1>1, <2>2 DEF RecorderOK
    <3>. QED
      BY <2>5, <3>1
  <2>7. NextExchange(rq) = n
    BY <1>1, <1>6, <2>5, <2>6, NextIs, FS_EmptySet
  <2>. QED
    BY <1>4, <1>7, <2>2, <2>3, <2>4, <2>7
<1>8. CASE k = Len(tape[c])
  <2>1. ASSUME NEW i \in Candidates(rq)
        PROVE  FALSE
    <3>1. i \in DOMAIN Exchanges /\ Exchanges[i].request = rq
      BY DEF Candidates
    <3>2. CASE setup.reused
      <4>1. PICK o : o = OldExchange
        OBVIOUS
      <4>2. Exchanges = <<o>>
        BY <1>1, <3>2, <4>1 DEF Fits
      <4>3. rq = o.request
        BY <3>1, <4>2
      <4>4. rq[1] = [role |-> "old"]
        BY <4>1, <4>3 DEF OldExchange, Exchange
      <4>5. rq[1] = User(c)
        BY <1>1, <1>2, <1>5, HistoryFacts
      <4>. QED
        BY <4>4, <4>5 DEF User
    <3>3. CASE ~setup.reused
      <4>1. Exchanges = returned
        BY <1>1, <3>3 DEF Fits
      <4>2. PICK d \in Cases : \E l \in 1..Len(tape[d]) : returned[i] = At(d, tape[d], l)
        BY <1>3, <3>1, <4>1 DEF Told
      <4>3. PICK l \in 1..Len(tape[d]) : returned[i] = At(d, tape[d], l)
        BY <4>2
      <4>4. c = d /\ l = k + 1
        BY <1>1, <1>5, <3>1, <4>1, <4>3, RequestIsNew
      <4>. QED
        BY <1>5, <1>8, <4>4
    <3>. QED
      BY <1>1, <3>2, <3>3
  <2>2. Candidates(rq) = {}
    BY <2>1
  <2>3. NextExchange(rq) = 0
    BY <1>1, <2>2 DEF NextExchange
  <2>. QED
    BY <1>4, <1>8, <2>3
<1>. QED
  BY <1>4, <1>7, <1>8

\* A request more: whose it is, and that the case has moved past it.
LEMMA OwnRequestsGrow ==
  ASSUME UNCHANGED setup, NEW tape \in [Cases -> Seq(Said)], OwnRequests(tape), NEW c \in Cases,
         requests \in Seq(Seq(Message)), requests' = Append(requests, request[c]),
         NEW k \in 0..Len(tape[c]), request[c] = OwnHistory(c, tape[c], k),
         k < Len(run'[c]) \/ pc'[c] = "out",
         \A d \in Cases : /\ pc[d] = "out" => pc'[d] = "out"
                          /\ \A l \in Nat : l < Len(run[d]) => l < Len(run'[d])
  PROVE  OwnRequests(tape)'
<1>1. \A d, l : OwnHistory(d, tape[d], l)' = OwnHistory(d, tape[d], l)
  BY DEF OwnHistory, User
<1>2. PICK r, m, rq : r = requests' /\ m = Len(requests) /\ rq = request[c]
  OBVIOUS
<1>3. m \in Nat /\ DOMAIN requests = 1..m /\ DOMAIN r = 1..m+1 /\ r[m+1] = rq /\ \A n \in 1..m : r[n] = requests[n]
  BY <1>2
<1>4. ASSUME NEW n \in 1..m+1
      PROVE  \E d \in Cases : \E l \in 0..Len(tape[d]) :
               r[n] = OwnHistory(d, tape[d], l)' /\ (l < Len(run'[d]) \/ pc'[d] = "out")
  <2>1. CASE n = m + 1
    <3>1. r[n] = OwnHistory(c, tape[c], k)'
      BY <1>1, <1>2, <1>3, <2>1
    <3>. QED
      BY <3>1
  <2>2. CASE n \in 1..m
    <3>1. PICK d \in Cases : \E l \in 0..Len(tape[d]) :
            requests[n] = OwnHistory(d, tape[d], l) /\ (l < Len(run[d]) \/ pc[d] = "out")
      BY <1>3, <2>2 DEF OwnRequests
    <3>2. PICK l \in 0..Len(tape[d]) :
            requests[n] = OwnHistory(d, tape[d], l) /\ (l < Len(run[d]) \/ pc[d] = "out")
      BY <3>1
    <3>3. r[n] = OwnHistory(d, tape[d], l)' /\ l \in Nat
      <4>1. r[n] = requests[n]
        BY <1>3, <2>2
      <4>2. requests[n] = OwnHistory(d, tape[d], l)'
        BY <1>1, <3>2
      <4>3. l \in Nat
        <5>1. tape[d] \in Seq(Said)
          OBVIOUS
        <5>2. Len(tape[d]) \in Nat
          BY <5>1
        <5>. QED
          BY <5>2
      <4>. QED
        BY <4>1, <4>2, <4>3
    <3>4. l < Len(run'[d]) \/ pc'[d] = "out"
      BY <3>2, <3>3
    <3>. QED
      BY <3>3, <3>4
  <2>. QED
    BY <1>3, <2>1, <2>2
<1>. QED
  BY <1>2, <1>3, <1>4 DEF OwnRequests

\* A case that is answered, or not.
LEMMA ReplayServes ==
  ASSUME Sound, Recorded, Repeatable, NEW tape \in [Cases -> Seq(Said)], NEW off \in [Cases -> Nat],
         Logged(tape, off), Replayed(tape, off), NEW c \in Cases, Serve(c)
  PROVE  Replayed(tape, off)'
<1>1. /\ TurnsOK /\ RecorderOK /\ ServedOK /\ SetupOK /\ TurnTypes /\ ResultType /\ CasesShareNothing
      /\ requests \in Seq(Seq(Message)) /\ run \in [Cases -> Seq(Said)] /\ pc \in [Cases -> Labels]
      /\ InOrder \/ ByRequest
  BY DEF Sound, TurnsOK, TurnTypes, RecorderOK, ServedOK, Repeatable, InOrder, ByRequest, CasesShareNothing
<1>2. /\ phase = "replay" /\ pc[c] = "asking" /\ UNCHANGED <<setup, phase, returned, failures>>
      /\ requests' = Append(requests, request[c])
  BY <1>1, ServeCases
<1>3. /\ run[c] \in Seq(Said) /\ tape[c] \in Seq(Said) /\ Going(run[c]) /\ Begins(run[c], tape[c])
      /\ request[c] = OwnHistory(c, run[c], Len(run[c])) /\ Shape(tape[c])
  BY <1>1, <1>2 DEF TurnsOK, CaseOK, OwnTurn, Turning, Replayed, Logged
<1>4. PICK k, m, rq : k = Len(run[c]) /\ m = Len(requests) /\ rq = request[c]
  OBVIOUS
<1>5. /\ rq = OwnHistory(c, tape[c], k) /\ k \in Nat /\ k \in 0..Len(tape[c]) /\ m \in Nat
  <2>1. rq = OwnHistory(c, tape[c], k)
    BY <1>3, <1>4, BeginsFacts
  <2>2. k \in Nat /\ Len(tape[c]) \in Nat /\ k <= Len(tape[c]) /\ m \in Nat
    BY <1>1, <1>3, <1>4 DEF Begins
  <2>. QED
    BY <2>1, <2>2
<1>6. (InOrder' <=> InOrder) /\ (ByRequest' <=> ByRequest)
  BY <1>2 DEF InOrder, ByRequest, CasesShareNothing
<1>7. CASE k = Len(tape[c])
  <2>1. ~InOrder /\ ByRequest
    BY <1>1, <1>2, <1>4, <1>7, InOrderNext
  <2>2. NextExchange(rq) = 0
    BY <1>2, <1>4, <1>7, <2>1, ByRequestNext
  <2>3. Raises(c) /\ EndsWith(c, Errored) /\ UNCHANGED run
    BY <1>1, <1>4, <2>2, ServeCases DEF Raises
  <2>4. ResultMoves(c) /\ pc'[c] = "out" /\ result'["replay"][c] = Errored
    BY <1>1, <1>2, <2>3, EndMoves DEF Suite
  <2>5. tape[c] = run[c] /\ Report(c, tape[c]) = Errored
    <3>1. tape[c] = run[c]
      BY <1>3, <1>4, <1>7, BeginsFacts
    <3>2. Report(c, run[c]) = Errored
      BY <1>3, GoingFacts
    <3>. QED
      BY <3>1, <3>2
  <2>6. ASSUME NEW d \in Cases
        PROVE  Begins(run[d], tape[d])' /\ (pc'[d] = "out" => Reported("replay", d, tape[d])')
    <3>1. Begins(run[d], tape[d])'
      BY <2>3 DEF Replayed, Begins
    <3>2. CASE d = c
      BY <2>4, <2>5, <3>1, <3>2 DEF Reported
    <3>3. CASE d # c
      <4>1. pc'[d] = pc[d] /\ result'["replay"][d] = result["replay"][d]
        BY <2>4, <3>3 DEF ResultMoves, Suite
      <4>. QED
        BY <3>1, <4>1 DEF Replayed, Reported
    <3>. QED
      BY <3>2, <3>3
  <2>7. OwnRequests(tape)'
    <3>1. OwnRequests(tape)
      BY <2>1 DEF Replayed
    <3>2. \A d \in Cases : pc[d] = "out" => pc'[d] = "out"
      BY <2>4 DEF ResultMoves
    <3>. QED
      BY <1>1, <1>2, <1>4, <1>5, <2>3, <2>4, <3>1, <3>2, OwnRequestsGrow
  <2>. QED
    BY <1>6, <2>1, <2>6, <2>7 DEF Replayed
<1>8. CASE k # Len(tape[c])
  <2>1. PICK i, x : i = NextExchange(rq) /\ x = tape[c][k + 1]
    OBVIOUS
  <2>2. i \in DOMAIN Exchanges /\ Exchanges[i].response = x
    <3>1. CASE InOrder
      <4>1. PICK j \in DOMAIN Exchanges :
              j = NextExchange(request[c]) /\ Exchanges[j].response = tape[c][Len(run[c]) + 1]
        BY <1>2, <3>1, InOrderNext
      <4>. QED
        BY <1>4, <2>1, <4>1
    <3>2. CASE ByRequest
      <4>1. PICK j \in DOMAIN Exchanges :
              j = NextExchange(request[c]) /\ Exchanges[j].response = tape[c][Len(run[c]) + 1]
        BY <1>2, <1>4, <1>8, <3>2, ByRequestNext
      <4>. QED
        BY <1>4, <2>1, <4>1
    <3>. QED
      BY <1>1, <3>1, <3>2
  <2>3. x \in Said
    BY <1>3, <1>4, <1>8, <2>1, BeginsFacts
  <2>4. /\ Take(c, x) /\ cursor' = IF setup.match = "sequence" THEN cursor + 1 ELSE cursor
    <3>1. i # 0
      BY <1>1, <1>2, <2>2, ExchangeFacts DEF Replaying
    <3>. QED
      BY <1>1, <1>4, <2>1, <2>2, <3>1, ServeCases
  <2>5. PICK b : b = Append(run[c], x)
    OBVIOUS
  <2>6. /\ ResultMoves(c) /\ run' = [run EXCEPT ![c] = b] /\ Len(b) = k + 1
        /\ pc' = [pc EXCEPT ![c] = pc'[c]] /\ pc'[c] \in {"tool", "out"}
        /\ pc'[c] = "out" => ~IsCall(x) /\ result'["replay"][c] = Report(c, b)
    BY <1>1, <1>2, <1>4, <2>3, <2>4, <2>5, TakeEnds DEF Suite
  <2>7. Begins(b, tape[c]) /\ (pc'[c] = "out" => tape[c] = b)
    BY <1>3, <1>4, <1>8, <2>1, <2>5, <2>6, BeginsFacts
  <2>8. /\ run'[c] = b /\ \A d \in Cases \ {c} : run'[d] = run[d] /\ pc'[d] = pc[d]
        /\ \A d \in Cases \ {c} : result'["replay"][d] = result["replay"][d]
    BY <1>1, <2>6 DEF ResultMoves, Suite
  <2>9. ASSUME NEW d \in Cases
        PROVE  Begins(run[d], tape[d])' /\ (pc'[d] = "out" => Reported("replay", d, tape[d])')
    <3>1. CASE d = c
      BY <2>6, <2>7, <2>8, <3>1 DEF Begins, Reported
    <3>2. CASE d # c
      BY <2>8, <3>2 DEF Replayed, Begins, Reported
    <3>. QED
      BY <3>1, <3>2
  <2>10. ASSUME InOrder
         PROVE  InTurn(off)'
    <3>1. InTurn(off) /\ setup.slots = 1 /\ Alone(c) /\ Ordered(tape, off, returned)
      BY <1>1, <1>2, <2>10 DEF Replayed, InOrder, TurnsOK, CaseOK, Turning, Logged
    <3>2. m + 1 \in DOMAIN returned /\ returned[m + 1].request = rq
      BY <1>2, <1>4, <2>10, InOrderNext
    <3>3. m = off[c] + k /\ off[c] \in Nat
      BY <1>2, <1>4, <3>1 DEF InTurn, Turning
    <3>4. PICK r : r = requests'
      OBVIOUS
    <3>5. /\ Len(r) = m + 1 /\ DOMAIN r = 1..m+1 /\ DOMAIN requests = 1..m /\ r[m+1] = rq
          /\ \A n \in 1..m : r[n] = requests[n]
      BY <1>1, <1>2, <1>4, <3>4
    <3>6. ASSUME NEW n \in DOMAIN r
          PROVE  n \in DOMAIN returned /\ r[n] = returned[n].request
      <4>1. n \in 1..m \/ n = m + 1
        BY <1>5, <3>5
      <4>. QED
        BY <3>1, <3>2, <3>5, <4>1 DEF InTurn
    <3>7. setup.match = "sequence" => cursor' = m + 1
      BY <1>4, <2>4, <3>1 DEF InTurn
    <3>8. ASSUME NEW d \in Cases, pc'[d] \in Turning
          PROVE  m + 1 = off[d] + Len(run'[d])
      <4>1. d < c \/ d = c \/ d > c
        BY CaseFacts
      <4>2. d = c
        BY <2>8, <3>1, <3>8, <4>1 DEF Alone, Turning
      <4>3. Len(run'[c]) = k + 1
        BY <2>6, <2>8
      <4>4. m + 1 = off[c] + (k + 1)
        BY <1>5, <3>3
      <4>. QED
        BY <4>2, <4>3, <4>4
    <3>9. ASSUME NEW d \in Cases, pc'[d] = "wait", \A e \in Cases : e < d => pc'[e] = "out"
          PROVE  m + 1 = off[d]
      <4>1. c \in Nat /\ d \in Nat /\ d # c /\ pc[d] = "wait"
        BY <2>6, <2>8, <3>9, CaseFacts
      <4>2. d > c
        BY <3>1, <4>1 DEF Alone
      <4>3. pc'[c] = "out" /\ Len(tape[c]) = k + 1
        BY <2>6, <2>7, <3>9, <4>2
      <4>4. c + 1 \in Cases
        BY <4>1, <4>2, CaseFacts
      <4>5. pc[c + 1] = "wait" /\ c + 1 # c
        BY <3>1, <4>1, <4>4 DEF Alone
      <4>6. pc'[c + 1] # "out"
        BY <2>8, <4>4, <4>5
      <4>7. d = c + 1
        BY <3>9, <4>1, <4>2, <4>4, <4>6
      <4>8. off[c + 1] = off[c] + Len(tape[c])
        BY <3>1, <4>4 DEF Ordered
      <4>. QED
        BY <1>5, <3>3, <4>3, <4>7, <4>8
    <3>. QED
      BY <1>2, <3>4, <3>5, <3>6, <3>7, <3>8, <3>9 DEF InTurn
  <2>11. ASSUME ByRequest
         PROVE  OwnRequests(tape)'
    <3>1. OwnRequests(tape)
      BY <2>11 DEF Replayed
    <3>2. \A d \in Cases : pc[d] = "out" => pc'[d] = "out"
      BY <1>2, <2>8
    <3>3. ASSUME NEW d \in Cases, NEW l \in Nat, l < Len(run[d])
          PROVE  l < Len(run'[d])
      <4>1. CASE d = c
        BY <1>4, <1>5, <2>6, <2>8, <3>3, <4>1
      <4>2. CASE d # c
        BY <2>8, <3>3, <4>2
      <4>. QED
        BY <4>1, <4>2
    <3>4. k < Len(run'[c])
      BY <1>5, <2>6, <2>8
    <3>. QED
      BY <1>1, <1>2, <1>4, <1>5, <3>1, <3>2, <3>3, <3>4, OwnRequestsGrow
  <2>. QED
    BY <1>6, <2>9, <2>10, <2>11 DEF Replayed
<1>. QED
  BY <1>7, <1>8

-----------------------------------------------------------------------------
(* Steps, for the log.                                                     *)

\* The results of the recorded run are all there, or not, as before.
LEMMA RecordedStays ==
  ASSUME \A c \in Cases : result'["record"][c] = result["record"][c]
  PROVE  Recorded' <=> Recorded
BY DEF Recorded

LEMMA LogEnds ==
  ASSUME Sound, RunKept, EndRecording
  PROVE  LogKept'
<1>1. /\ phase = "record" /\ phase' = "load" /\ UNCHANGED <<setup, returned, failures, result, run>>
      /\ \A c \in Cases : pc[c] = "out"
  BY DEF EndRecording, suite, recorder
<1>2. RunOK /\ run \in [Cases -> Seq(Said)]
  BY <1>1 DEF RunKept, Sound, TurnsOK, TurnTypes
<1>3. PICK tape : tape = run
  OBVIOUS
<1>4. PICK off \in [Cases -> Nat] : setup.slots = 1 => Ordered(tape, off, returned)
  <2>1. [c \in Cases |-> 0] \in [Cases -> Nat]
    OBVIOUS
  <2>. QED
    BY <1>2, <1>3, <2>1 DEF RunOK
<1>5. Logged(tape, off)
  BY <1>1, <1>2, <1>3, <1>4 DEF RunOK, Logged
<1>6. Logged(tape, off)'
  BY <1>1, <1>5, LoggedStays
<1>7. ~Replaying' /\ tape \in [Cases -> Seq(Said)]
  BY <1>1, <1>2, <1>3 DEF Replaying
<1>. QED
  BY <1>1, <1>6, <1>7 DEF LogKept

\* A run that was cut short is not a recorded one.
LEMMA LogCrashes ==
  ASSUME Sound, NEW c \in Cases, NEW a, Crash(c, a)
  PROVE  LogKept'
<1>1. phase = "record" /\ phase' = "load" /\ pc[c] = "asking" /\ UNCHANGED result
  BY DEF Crash
<1>2. ~result["record"][c].ended
  BY <1>1 DEF Sound, RecorderOK
<1>3. ~Recorded'
  BY <1>1, <1>2 DEF Recorded
<1>. QED
  BY <1>1, <1>3 DEF LogKept

LEMMA LogLoads ==
  ASSUME Sound, LogKept, Load
  PROVE  LogKept'
<1>1. /\ phase = "load" /\ phase' = (IF Loads THEN "replay" ELSE "refused")
      /\ pc' = [c \in Cases |-> "wait"] /\ run' = [c \in Cases |-> <<>>]
      /\ UNCHANGED <<setup, returned, cursor, requests, result, failures>>
  BY DEF Load, recorder, replay
<1>2. cursor = 0 /\ requests = <<>>
  BY <1>1 DEF Sound, ServedOK, Replaying
<1>3. Recorded' <=> Recorded
  BY <1>1, RecordedStays
<1>4. ASSUME Recorded
      PROVE  \E tape \in [Cases -> Seq(Said)] : \E off \in [Cases -> Nat] :
               Logged(tape, off)' /\ (Replaying' /\ Repeatable' => Replayed(tape, off)')
  <2>1. PICK tape \in [Cases -> Seq(Said)], off \in [Cases -> Nat] : Logged(tape, off)
    BY <1>1, <1>4 DEF LogKept, Loaded
  <2>2. Logged(tape, off)'
    BY <1>1, <2>1, LoggedStays
  <2>3. ASSUME NEW c \in Cases
        PROVE  Begins(run[c], tape[c])' /\ pc'[c] = "wait"
    <3>1. run'[c] = <<>> /\ Len(<<>>) = 0 /\ Len(tape[c]) \in Nat /\ tape[c] \in Seq(Said)
      BY <1>1
    <3>. QED
      BY <1>1, <3>1 DEF Begins
  <2>4. ASSUME InOrder'
        PROVE  InTurn(off)'
    <3>1. off[1] = 0
      BY <1>1, <2>1, <2>4 DEF InOrder, Logged, Ordered
    <3>2. ASSUME NEW c \in Cases, \A d \in Cases : d < c => pc'[d] = "out"
          PROVE  c = 1
      <4>1. 1 \in Cases /\ c \in Nat /\ c >= 1
        BY CaseFacts
      <4>2. ~(1 < c)
        BY <2>3, <3>2, <4>1
      <4>. QED
        BY <4>1, <4>2
    <3>3. requests' = <<>> /\ Len(<<>>) = 0 /\ cursor' = 0 /\ DOMAIN <<>> = {}
      BY <1>1, <1>2
    <3>. QED
      BY <2>3, <3>1, <3>2, <3>3 DEF InTurn, Turning
  <2>5. OwnRequests(tape)'
    BY <1>1, <1>2 DEF OwnRequests
  <2>6. Replayed(tape, off)'
    BY <2>3, <2>4, <2>5 DEF Replayed
  <2>. QED
    BY <2>2, <2>6
<1>. QED
  BY <1>1, <1>3, <1>4 DEF LogKept

LEMMA LogReplays ==
  ASSUME Sound, LogKept, phase = "replay", NEW c \in Cases, CaseStep(c)
  PROVE  LogKept'
<1>1. Begin(c) \/ Acquire(c) \/ Tool(c) \/ Serve(c)
  BY DEF CaseStep, Complete
<1>2. UNCHANGED <<setup, phase, returned, failures>>
  BY <1>1 DEF Begin, Acquire, Tool, Serve, recorder
<1>3. \A d \in Cases : result'["record"][d] = result["record"][d]
  <2>1. CASE Begin(c) \/ Acquire(c) \/ Tool(c)
    BY <2>1, StillFacts DEF ResultMoves, Suite
  <2>2. CASE Serve(c)
    <3>1. TurnsOK /\ TurnTypes /\ ResultType /\ RecorderOK /\ ServedOK /\ SetupOK /\ phase \in Suite
      BY DEF Sound, TurnsOK, TurnTypes, RecorderOK, Suite
    <3>2. ResultMoves(c)
      <4>1. CASE Raises(c)
        BY <3>1, <4>1, EndMoves DEF Raises
      <4>2. CASE \E a \in Said : Take(c, a)
        BY <3>1, <4>2, TakeMoves
      <4>. QED
        BY <2>2, <3>1, <4>1, <4>2, ServeCases
    <3>. QED
      BY <3>2 DEF ResultMoves, Suite
  <2>. QED
    BY <1>1, <2>1, <2>2
<1>4. (Recorded' <=> Recorded) /\ (Repeatable' <=> Repeatable) /\ Replaying
  BY <1>2, <1>3, RecordedStays DEF Repeatable, InOrder, CasesShareNothing, Replaying
<1>5. ASSUME Recorded
      PROVE  \E tape \in [Cases -> Seq(Said)] : \E off \in [Cases -> Nat] :
               Logged(tape, off)' /\ (Replaying' /\ Repeatable' => Replayed(tape, off)')
  <2>1. PICK tape \in [Cases -> Seq(Said)], off \in [Cases -> Nat] :
          Logged(tape, off) /\ (Repeatable => Replayed(tape, off))
    BY <1>4, <1>5 DEF LogKept, Loaded
  <2>2. Logged(tape, off)'
    BY <1>2, <1>3, <2>1, LoggedStays
  <2>3. Repeatable => Replayed(tape, off)'
    BY <1>1, <1>5, <2>1, ReplayStill, ReplayServes
  <2>. QED
    BY <1>4, <2>2, <2>3
<1>. QED
  BY <1>2, <1>4, <1>5 DEF LogKept

LEMMA LogStays ==
  ASSUME LogKept, UNCHANGED <<setup, pc, run, returned, cursor, requests, result, failures>>,
         phase' = phase \/ EndReplay
  PROVE  LogKept'
<1>1. phase' # phase => phase = "replay" /\ phase' = "done" /\ \A c \in Cases : pc[c] = "out"
  BY DEF EndReplay
<1>2. (Recorded' <=> Recorded) /\ (Repeatable' <=> Repeatable) /\ (InOrder' <=> InOrder)
      /\ (ByRequest' <=> ByRequest) /\ (Replaying' <=> Replaying) /\ (Loaded' <=> Loaded)
  BY <1>1 DEF Recorded, Repeatable, InOrder, ByRequest, CasesShareNothing, Replaying, Loaded
<1>3. ASSUME Loaded, Recorded
      PROVE  \E tape \in [Cases -> Seq(Said)] : \E off \in [Cases -> Nat] :
               Logged(tape, off)' /\ (Replaying' /\ Repeatable' => Replayed(tape, off)')
  <2>1. PICK tape \in [Cases -> Seq(Said)], off \in [Cases -> Nat] :
          Logged(tape, off) /\ (Replaying /\ Repeatable => Replayed(tape, off))
    BY <1>3 DEF LogKept
  <2>2. Logged(tape, off)'
    BY <2>1, LoggedStays
  <2>3. InTurn(off)' <=> InTurn(off)
    BY DEF InTurn
  <2>4. OwnRequests(tape) => OwnRequests(tape)'
    <3>1. \A d, l : OwnHistory(d, tape[d], l)' = OwnHistory(d, tape[d], l)
      BY DEF OwnHistory, User
    <3>2. ASSUME OwnRequests(tape), NEW n \in DOMAIN requests
          PROVE  \E d \in Cases : \E l \in 0..Len(tape[d]) :
                   requests[n] = OwnHistory(d, tape[d], l)' /\ (l < Len(run[d]) \/ pc[d] = "out")
      <4>1. PICK d \in Cases : \E l \in 0..Len(tape[d]) :
              requests[n] = OwnHistory(d, tape[d], l) /\ (l < Len(run[d]) \/ pc[d] = "out")
        BY <3>2 DEF OwnRequests
      <4>. QED
        BY <3>1, <4>1
    <3>. QED
      BY <3>2 DEF OwnRequests
  <2>5. Replayed(tape, off) => Replayed(tape, off)'
    BY <1>2, <2>3, <2>4 DEF Replayed, Begins, Reported
  <2>. QED
    BY <1>2, <2>1, <2>2, <2>5
<1>. QED
  BY <1>1, <1>2, <1>3 DEF LogKept

LEMMA LogStep == Sound /\ RunKept /\ LogKept /\ [Next]_vars => LogKept'
<1> SUFFICES ASSUME Sound, RunKept, LogKept, [Next]_vars
             PROVE  LogKept'
  OBVIOUS
<1>1. ASSUME NEW c \in Cases, CaseStep(c)
      PROVE  LogKept'
  <2>1. phase \in Suite /\ phase' = phase
    BY <1>1 DEF CaseStep, Begin, Acquire, Tool, Complete, Serve, Suite
  <2>2. CASE phase = "record"
    BY <2>1, <2>2 DEF LogKept, Loaded
  <2>. QED
    BY <1>1, <2>1, <2>2, LogReplays DEF Suite
<1>2. ASSUME NEW c \in Cases, ProviderFails(c)
      PROVE  LogKept'
  <2>1. phase = "record" /\ phase' = phase
    BY <1>2 DEF ProviderFails
  <2>. QED
    BY <2>1 DEF LogKept, Loaded
<1>3. CASE EndReplay
  BY <1>3, LogStays DEF EndReplay, suite, recorder, replay
<1>4. CASE UNCHANGED vars
  BY <1>4, LogStays DEF vars, suite, recorder, replay
<1>. QED
  BY <1>1, <1>2, <1>3, <1>4, LogEnds, LogCrashes, LogLoads DEF Next, Step

(***************************************************************************)
(* A replay of a suite gives the report of the recorded run, whenever the  *)
(* order of the calls is the spine or the requests tell the cases apart;   *)
(* and it serves no exchange twice and none to another request.            *)
(***************************************************************************)
THEOREM ReplaysKeepTheRecording == Spec => []ReplayKeepsTheRecording
<1>1. Init => RunKept /\ LogKept
  <2>1. Init => LogKept
    BY DEF Init, LogKept, Loaded
  <2>. QED
    BY <2>1, RunStart
<1>2. Sound /\ LogKept => ReplayIsFaithful
  <2> SUFFICES ASSUME Sound, LogKept, phase = "done", Recorded, Repeatable
               PROVE  Changed = {} /\ Cost("record") = Cost("replay")
    BY DEF ReplayIsFaithful
  <2>1. PICK tape \in [Cases -> Seq(Said)], off \in [Cases -> Nat] : Logged(tape, off) /\ Replayed(tape, off)
    BY DEF LogKept, Loaded, Replaying
  <2>2. \A c \in Cases : result["record"][c] = result["replay"][c]
    BY <2>1 DEF LogKept, Logged, Replayed, Reported
  <2>3. result["record"] = result["replay"]
    <3>1. ResultType
      BY DEF Sound, RecorderOK
    <3>2. PICK f, g : f = result["record"] /\ g = result["replay"]
      OBVIOUS
    <3>3. f = [c \in Cases |-> f[c]] /\ g = [c \in Cases |-> g[c]]
      BY <3>1, <3>2 DEF ResultType, Suite
    <3>. QED
      BY <2>2, <3>2, <3>3
  <2>. QED
    BY <2>2, <2>3 DEF Changed, Cost
<1>3. Sound /\ LogKept => ReplayKeepsTheRecording
  BY <1>2, ServedOnce DEF ReplayKeepsTheRecording
<1>. QED
  BY <1>1, <1>3, AlwaysSound, RunStep, LogStep, PTL DEF Spec

-----------------------------------------------------------------------------
(* Every suite ends.                                                       *)

\* The phases still to come.
PhasesLeft ==
  CASE phase = "record" -> 3
    [] phase = "load" -> 2
    [] phase = "replay" -> 1
    [] OTHER -> 0

\* What is left of a case that stands at a label after n completions.
Todo(label, n) ==
  CASE label = "wait" -> 2 * MaxSteps + 2
    [] label = "lock" -> 2 * MaxSteps + 1
    [] label = "tool" -> 2 * (MaxSteps - n) + 1
    [] label = "asking" -> 2 * (MaxSteps - n)
    [] OTHER -> 0
Left(c) == Todo(pc[c], Len(run[c]))

\* The guards of CaseStep: those of Begin, Acquire, Tool, and Complete or Serve.
CanStep(c) ==
  \/ pc[c] = "wait" /\ Cardinality(Running) < setup.slots /\ \A d \in 1..(c - 1) : pc[d] # "wait"
  \/ pc[c] = "lock" /\ lock = 0
  \/ pc[c] \in {"tool", "asking"}

\* As long as a case of the suite is not over, one of them can go on.
SomeCaseGoesOn == phase \in Suite /\ (\E c \in Cases : pc[c] # "out") => \E c \in Cases : CanStep(c)

\* A phase is behind, or one of its cases has less to do and none has more.
Nearer ==
  \/ PhasesLeft' < PhasesLeft
  \/ /\ phase' = phase
     /\ \A c \in Cases : Left(c)' <= Left(c)
     /\ \E c \in Cases : Left(c)' < Left(c)

LEMMA LeftFacts ==
  ASSUME Sound, NEW c \in Cases
  PROVE  /\ Len(run[c]) \in Nat /\ (pc[c] = "asking" => Len(run[c]) < MaxSteps)
         /\ pc[c] = "tool" => Len(run[c]) <= MaxSteps
         /\ pc[c] \in {"wait", "lock"} => run[c] = <<>>
         /\ Left(c) \in 0..(2 * MaxSteps + 2)
<1>1. /\ pc[c] \in Labels /\ run[c] \in Seq(Said) /\ CaseOK(c) /\ MaxSteps \in Nat \ {0}
  BY CaseFacts DEF Sound, TurnsOK, TurnTypes
<1>2. /\ Len(run[c]) \in Nat /\ (pc[c] = "asking" => Len(run[c]) < MaxSteps)
      /\ pc[c] = "tool" => Len(run[c]) <= MaxSteps
  BY <1>1 DEF CaseOK, Going
<1>3. \A n \in Nat : n <= MaxSteps =>
        2 * (MaxSteps - n) \in 0..(2 * MaxSteps + 2) /\ 2 * (MaxSteps - n) + 1 \in 0..(2 * MaxSteps + 2)
  BY <1>1
<1>4. pc[c] \in Turning => Left(c) \in 0..(2 * MaxSteps + 2)
  <2>1. pc[c] \in Turning => Len(run[c]) <= MaxSteps
    BY <1>1, <1>2 DEF Turning
  <2>2. pc[c] \in Turning => Left(c) \in {2 * (MaxSteps - Len(run[c])), 2 * (MaxSteps - Len(run[c])) + 1}
    BY DEF Left, Todo, Turning
  <2>. QED
    BY <1>2, <1>3, <2>1, <2>2
<1>5. pc[c] \in {"wait", "lock", "out"} => Left(c) \in 0..(2 * MaxSteps + 2)
  <2>1. {0, 2 * MaxSteps + 1, 2 * MaxSteps + 2} \subseteq 0..(2 * MaxSteps + 2)
    BY <1>1
  <2>2. pc[c] \in {"wait", "lock", "out"} => Left(c) \in {0, 2 * MaxSteps + 1, 2 * MaxSteps + 2}
    BY DEF Left, Todo
  <2>. QED
    BY <2>1, <2>2
<1>6. Left(c) \in 0..(2 * MaxSteps + 2)
  BY <1>1, <1>4, <1>5 DEF Labels, Turning
<1>. QED
  BY <1>1, <1>2, <1>6 DEF CaseOK

\* A case that goes to a label is as far from its end as the label says.
LEMMA LeftAt ==
  ASSUME NEW c \in Cases, NEW label, NEW n \in Nat, pc'[c] = label, Len(run'[c]) = n
  PROVE  Left(c)' = Todo(label, n)
BY DEF Left

\* The case that ends has nothing left.
LEMMA EndsLeft ==
  ASSUME Sound, NEW c \in Cases, NEW r, EndsWith(c, r), pc[c] \in Turning
  PROVE  Left(c)' < Left(c)
<1>1. pc'[c] = "out"
  BY DEF EndsWith, Goto, Sound, TurnsOK, TurnTypes
<1>2. Left(c)' = 0
  BY <1>1 DEF Left, Todo
<1>3. Left(c) > 0
  BY LeftFacts, CaseFacts DEF Left, Todo, Turning
<1>. QED
  BY <1>2, <1>3

\* The others stand as they stood.
LEMMA OthersLeft ==
  ASSUME NEW d \in Cases, pc'[d] = pc[d], run'[d] = run[d]
  PROVE  Left(d)' = Left(d)
BY DEF Left

LEMMA TakeLeft ==
  ASSUME Sound, NEW c \in Cases, NEW a \in Said, Take(c, a), pc[c] = "asking"
  PROVE  /\ Left(c)' < Left(c)
         /\ \A d \in Cases \ {c} : pc'[d] = pc[d] /\ run'[d] = run[d]
<1>1. /\ pc \in [Cases -> Labels] /\ run \in [Cases -> Seq(Said)] /\ TurnsOK
      /\ Len(run[c]) \in Nat /\ Len(run[c]) < MaxSteps /\ MaxSteps \in Nat
  BY LeftFacts, CaseFacts DEF Sound, TurnsOK, TurnTypes, Turning
<1>2. run' = [run EXCEPT ![c] = Append(run[c], a)]
  BY <1>1, TakeFacts
<1>3. Len(run'[c]) = Len(run[c]) + 1 /\ \A d \in Cases \ {c} : run'[d] = run[d]
  BY <1>1, <1>2
<1>4. CASE ~IsCall(a)
  <2>1. PICK r : EndsWith(c, r)
    BY <1>1, <1>4, TakeFacts
  <2>. QED
    BY <1>1, <1>3, <2>1, EndsLeft DEF EndsWith, Goto, Turning
<1>5. CASE IsCall(a)
  <2>1. Goto(c, "tool")
    BY <1>1, <1>5, TakeFacts
  <2>2. pc'[c] = "tool" /\ \A d \in Cases \ {c} : pc'[d] = pc[d]
    BY <1>1, <2>1 DEF Goto
  <2>3. Left(c)' = 2 * (MaxSteps - (Len(run[c]) + 1)) + 1
    BY <1>1, <1>3, <2>2, LeftAt DEF Todo
  <2>4. Left(c) = 2 * (MaxSteps - Len(run[c]))
    BY DEF Left, Todo
  <2>. QED
    BY <1>1, <1>3, <2>2, <2>3, <2>4
<1>. QED
  BY <1>4, <1>5

\* A step of a case leaves it less to do, and the others as much as before.
LEMMA CaseStepsOn ==
  ASSUME Sound, NEW c \in Cases, CaseStep(c) \/ ProviderFails(c)
  PROVE  /\ phase' = phase /\ Left(c)' < Left(c)
         /\ \A d \in Cases \ {c} : Left(d)' = Left(d)
<1>1. pc \in [Cases -> Labels] /\ Len(run[c]) \in Nat /\ MaxSteps \in Nat \ {0}
  BY LeftFacts, CaseFacts DEF Sound, TurnsOK, TurnTypes
<1>2. ASSUME NEW l \in {"lock", "asking"}, Goto(c, l), UNCHANGED <<phase, run>>,
             Todo(l, Len(run[c])) < Left(c)
      PROVE  /\ phase' = phase /\ Left(c)' < Left(c)
             /\ \A d \in Cases \ {c} : Left(d)' = Left(d)
  <2>1. pc'[c] = l /\ \A d \in Cases \ {c} : pc'[d] = pc[d]
    BY <1>1, <1>2 DEF Goto
  <2>. QED
    BY <1>1, <1>2, <2>1, LeftAt, OthersLeft
<1>3. CASE Begin(c)
  <2>1. UNCHANGED <<phase, run>> /\ pc[c] = "wait" /\ (Goto(c, "asking") \/ Goto(c, "lock"))
    BY <1>3 DEF Begin, Asking
  <2>2. Len(run[c]) = 0 /\ Left(c) = 2 * MaxSteps + 2
    BY <2>1, LeftFacts DEF Left, Todo
  <2>3. \A l \in {"lock", "asking"} : Todo(l, Len(run[c])) < Left(c)
    BY <1>1, <2>2 DEF Todo
  <2>. QED
    BY <1>2, <2>1, <2>3
<1>4. CASE Acquire(c)
  <2>1. UNCHANGED <<phase, run>> /\ pc[c] = "lock" /\ Goto(c, "asking")
    BY <1>4 DEF Acquire, Asking
  <2>2. Len(run[c]) = 0 /\ Left(c) = 2 * MaxSteps + 1
    BY <2>1, LeftFacts DEF Left, Todo
  <2>3. Todo("asking", Len(run[c])) < Left(c)
    BY <1>1, <2>2 DEF Todo
  <2>. QED
    BY <1>2, <2>1, <2>3
<1>5. CASE Tool(c)
  <2>1. UNCHANGED <<phase, run>> /\ pc[c] = "tool" /\ TurnsOK
    BY <1>5 DEF Tool, Sound
  <2>2. Left(c) = 2 * (MaxSteps - Len(run[c])) + 1 /\ Len(run[c]) <= MaxSteps
    BY <2>1, LeftFacts DEF Left, Todo
  <2>3. CASE Len(run[c]) < MaxSteps
    <3>1. Goto(c, "asking")
      BY <1>5, <2>3 DEF Tool, Asking
    <3>2. Todo("asking", Len(run[c])) < Left(c)
      BY <1>1, <2>2 DEF Todo
    <3>. QED
      BY <1>2, <2>1, <3>1, <3>2
  <2>4. CASE ~(Len(run[c]) < MaxSteps)
    <3>1. EndsWith(c, Errored)
      BY <1>5, <2>4 DEF Tool, OutOfSteps
    <3>2. \A d \in Cases \ {c} : pc'[d] = pc[d]
      BY <1>1, <3>1 DEF EndsWith, Goto
    <3>. QED
      BY <2>1, <3>1, <3>2, EndsLeft, OthersLeft DEF Turning
  <2>. QED
    BY <2>3, <2>4
<1>6. ASSUME NEW a \in Said, Take(c, a), pc[c] = "asking", UNCHANGED phase
      PROVE  /\ phase' = phase /\ Left(c)' < Left(c)
             /\ \A d \in Cases \ {c} : Left(d)' = Left(d)
  BY <1>6, TakeLeft, OthersLeft
<1>7. ASSUME Raises(c), pc[c] = "asking", UNCHANGED phase
      PROVE  /\ phase' = phase /\ Left(c)' < Left(c)
             /\ \A d \in Cases \ {c} : Left(d)' = Left(d)
  <2>1. EndsWith(c, Errored) /\ UNCHANGED run
    BY <1>7 DEF Raises
  <2>2. \A d \in Cases \ {c} : pc'[d] = pc[d]
    BY <1>1, <2>1 DEF EndsWith, Goto
  <2>. QED
    BY <1>7, <2>1, <2>2, EndsLeft, OthersLeft DEF Turning
<1>8. CASE \E a \in Answers : Complete(c, a)
  BY <1>6, <1>8 DEF Complete, Said
<1>9. CASE Serve(c)
  BY <1>6, <1>7, <1>9, ServeCases DEF Sound, TurnsOK, TurnTypes
<1>10. CASE ProviderFails(c)
  BY <1>7, <1>10 DEF ProviderFails
<1>. QED
  BY <1>3, <1>4, <1>5, <1>8, <1>9, <1>10 DEF CaseStep

\* Nobody waits for a slot or for the lock but behind a case that can go on: if no
\* case has either, the first that waits gets a slot.
LEMMA NobodyIsStuck == Sound => SomeCaseGoesOn
<1> SUFFICES ASSUME Sound, NEW c \in Cases, pc[c] # "out", \A d \in Cases : ~CanStep(d)
             PROVE  FALSE
  BY DEF SomeCaseGoesOn
<1>1. /\ pc \in [Cases -> Labels] /\ SetupOK
      /\ lock \in Cases \cup {0} /\ (lock # 0 => pc[lock] \in Turning)
  BY DEF Sound, TurnsOK, TurnTypes
<1>2. \A d \in Cases : pc[d] \notin Turning
  BY DEF CanStep, Turning
<1>3. lock = 0
  BY <1>1, <1>2
<1>4. \A d \in Cases : pc[d] \in {"wait", "out"}
  BY <1>1, <1>2, <1>3 DEF CanStep, Labels, Turning
<1>5. Running = {}
  BY <1>4 DEF Running
<1>6. Cardinality(Running) < setup.slots
  BY <1>1, <1>5, FS_EmptySet, CaseFacts DEF SetupOK
<1> DEFINE Waiting == {d \in Cases : pc[d] = "wait"}
<1>7. Waiting \in SUBSET Nat /\ Waiting # {}
  BY <1>4, CaseFacts
<1>8. PICK first \in Waiting : \A d \in Waiting : ~(<<d, first>> \in OpToRel(<, Nat))
  BY <1>7, WFMin, NatLessThanWellFounded
<1>9. \A d \in Waiting : ~(d < first)
  BY <1>7, <1>8 DEF OpToRel
<1>10. \A d \in 1..(first - 1) : pc[d] # "wait"
  BY <1>9, CaseFacts
<1>. QED
  BY <1>6, <1>10 DEF CanStep

\* A suite cannot go on for ever, nor stand still before its report: as long as a
\* case is not over some case can go on, whatever the slots and the lock, and every
\* step, a failure and a crash too, ends a phase or brings a case nearer to its end
\* (evals.py:718, recording.py:179).
THEOREM SuiteRunsDown ==
  Spec => /\ [](SomeCaseGoesOn /\ \A c \in Cases : Left(c) \in 0..(2 * MaxSteps + 2))
          /\ [][Nearer]_vars
<1>1. Sound => SomeCaseGoesOn /\ \A c \in Cases : Left(c) \in 0..(2 * MaxSteps + 2)
  BY NobodyIsStuck, LeftFacts
<1>2. ASSUME Sound, \A c \in Cases : Left(c) \in 0..(2 * MaxSteps + 2),
             (\A c \in Cases : Left(c) \in 0..(2 * MaxSteps + 2))', Next
      PROVE  Nearer
  <2>1. ASSUME NEW c \in Cases, CaseStep(c) \/ ProviderFails(c)
        PROVE  Nearer
    <3>1. Left(c)' < Left(c) /\ phase' = phase /\ \A d \in Cases \ {c} : Left(d)' = Left(d)
      BY <2>1, <1>2, CaseStepsOn
    <3>2. \A d \in Cases : Left(d) \in Nat /\ Left(d)' \in Nat
      BY <1>2, CaseFacts
    <3>3. Left(c)' <= Left(c)
      BY <3>1, <3>2
    <3>4. \A d \in Cases : Left(d)' <= Left(d)
      BY <3>1, <3>2, <3>3
    <3>. QED
      BY <3>1, <3>4 DEF Nearer
  <2>2. CASE EndRecording \/ Load \/ EndReplay \/ \E c \in Cases, a \in Answers : Crash(c, a)
    <3>1. PhasesLeft' < PhasesLeft
      BY <2>2 DEF EndRecording, Load, EndReplay, Crash, PhasesLeft
    <3>. QED
      BY <3>1 DEF Nearer
  <2>. QED
    BY <1>2, <2>1, <2>2 DEF Next, Step
<1>3. Sound /\ (\A c \in Cases : Left(c) \in 0..(2 * MaxSteps + 2))
      /\ (\A c \in Cases : Left(c) \in 0..(2 * MaxSteps + 2))' /\ [Next]_vars
      => [Nearer]_vars
  BY <1>2
<1>. QED
  BY <1>1, <1>3, AlwaysSound, PTL DEF Spec

=============================================================================
