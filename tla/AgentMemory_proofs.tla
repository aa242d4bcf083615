------------------------- MODULE AgentMemory_proofs -------------------------
(***************************************************************************)
(* Proofs about AgentMemory, for any turns, either mode, any max_messages  *)
(* and any number of failures, cancellations, resumes and resets: the      *)
(* memory, and what a turn under way sees of it, are whole turns, and      *)
(* only an abandoned stream keeps a turn from its end.                     *)
(***************************************************************************)
EXTENDS AgentMemory, FiniteSetTheorems, SequenceTheorems, TLAPS

-----------------------------------------------------------------------------
(* Histories.                                                              *)

LEMMA AppendFacts ==
  ASSUME NEW h \in Seq(Message), NEW m \in Message
  PROVE  /\ Append(h, m) \in Seq(Message) /\ Append(h, m) # <<>>
         /\ Len(Append(h, m)) = Len(h) + 1 /\ Len(h) \in Nat
         /\ DOMAIN Append(h, m) = 1..(Len(h) + 1) /\ DOMAIN h = 1..Len(h)
         /\ \A i \in DOMAIN h : Append(h, m)[i] = h[i]
         /\ Append(h, m)[Len(h) + 1] = m /\ Last(Append(h, m)) = m
<1>1. /\ Append(h, m) \in Seq(Message) /\ Append(h, m)[Len(h) + 1] = m
      /\ Len(Append(h, m)) = Len(h) + 1 /\ Len(h) \in Nat
      /\ DOMAIN Append(h, m) = 1..(Len(h) + 1) /\ DOMAIN h = 1..Len(h)
      /\ \A i \in DOMAIN h : Append(h, m)[i] = h[i]
  OBVIOUS
<1>. QED
  BY <1>1 DEF Last

LEMMA MessageFacts ==
  ASSUME NEW h \in Seq(Message), NEW i \in DOMAIN h
  PROVE  h[i] \in Message /\ h[i].turn \in Turns /\ h[i].kind \in Kind
<1>1. h[i] \in Message
  OBVIOUS
<1>. QED
  BY <1>1 DEF Message

LEMMA ConcatFacts ==
  ASSUME NEW g \in Seq(Message), NEW h \in Seq(Message)
  PROVE  /\ g \o h \in Seq(Message) /\ Len(g \o h) = Len(g) + Len(h)
         /\ Len(g) \in Nat /\ Len(h) \in Nat
         /\ DOMAIN g = 1..Len(g) /\ DOMAIN h = 1..Len(h)
         /\ DOMAIN (g \o h) = 1..(Len(g) + Len(h))
         /\ \A i \in DOMAIN g : (g \o h)[i] = g[i]
         /\ \A j \in DOMAIN h : (g \o h)[Len(g) + j] = h[j]
         /\ \A i \in DOMAIN (g \o h) : i \in DOMAIN g \/ \E j \in DOMAIN h : i = Len(g) + j
<1>1. /\ g \o h \in Seq(Message) /\ Len(g \o h) = Len(g) + Len(h)
      /\ Len(g) \in Nat /\ Len(h) \in Nat
      /\ DOMAIN g = 1..Len(g) /\ DOMAIN h = 1..Len(h)
      /\ DOMAIN (g \o h) = 1..(Len(g) + Len(h))
      /\ \A i \in DOMAIN g : (g \o h)[i] = g[i]
  OBVIOUS
<1>2. ASSUME NEW j \in DOMAIN h
      PROVE  (g \o h)[Len(g) + j] = h[j]
  OBVIOUS
<1>3. ASSUME NEW i \in DOMAIN (g \o h), i \notin DOMAIN g
      PROVE  i - Len(g) \in DOMAIN h /\ i = Len(g) + (i - Len(g))
  BY <1>1, <1>3
<1>. QED
  BY <1>1, <1>2, <1>3

\* A prompt that is in a history more than once.
Twice(h, t) == \E i, j \in DOMAIN h : i # j /\ h[i] = UserMessage(t) /\ h[j] = UserMessage(t)

\* g is what is left of h without its first d messages.
Suffix(g, h, d) ==
  /\ g \in Seq(Message) /\ d \in Nat /\ Len(g) + d = Len(h)
  /\ \A i \in DOMAIN g : g[i] = h[i + d]

LEMMA SubSeqSuffix ==
  ASSUME NEW h \in Seq(Message), NEW d \in Nat, d < Len(h)
  PROVE  Suffix(SubSeq(h, d + 1, Len(h)), h, d)
<1>1. PICK e, l, k : e = d + 1 /\ l = Len(h) /\ k = l - d
  OBVIOUS
<1>2. /\ e \in Int /\ l \in Int /\ k \in Nat /\ k + d = l /\ e <= l /\ l - e + 1 = k
      /\ DOMAIN h = 1..l /\ \A i \in 1..k : e + i - 1 = i + d
  BY <1>1
<1>3. \A i \in e..l : h[i] \in Message
  BY <1>1, <1>2
<1>4. PICK g : g = SubSeq(h, e, l)
  OBVIOUS
<1>5. g \in Seq(Message) /\ Len(g) = l - e + 1 /\ \A i \in 1..l - e + 1 : g[i] = h[e + i - 1]
  <2>1. /\ SubSeq(h, e, l) \in Seq(Message)
        /\ Len(SubSeq(h, e, l)) = (IF e <= l THEN l - e + 1 ELSE 0)
        /\ \A i \in 1..l - e + 1 : SubSeq(h, e, l)[i] = h[e + i - 1]
    BY <1>2, <1>3, SubSeqProperties
  <2>. QED
    BY <1>2, <1>4, <2>1
<1>6. Len(g) = k /\ DOMAIN g = 1..k /\ \A i \in 1..k : g[i] = h[i + d]
  BY <1>2, <1>5
<1>7. Suffix(g, h, d)
  BY <1>1, <1>2, <1>5, <1>6 DEF Suffix
<1>. QED
  BY <1>1, <1>4, <1>7

\* What trim leaves beside n system messages.
LEMMA TrimFacts ==
  ASSUME limit \in Nat, NEW h \in Seq(Message), NEW n \in Nat \ {0}
  PROVE  /\ n < limit => n + Len(Trim(h, n)) <= limit
         /\ \E d \in Nat : /\ Suffix(Trim(h, n), h, d)
                           /\ d > 0 => Trims /\ n + Len(Trim(h, n)) = limit /\ Len(Trim(h, n)) > 0
<1> DEFINE k == Room(n)
<1>1. /\ k \in Nat /\ Len(h) \in Nat /\ DOMAIN h = 1..Len(h)
      /\ k > 0 => n + k = limit /\ Trims
      /\ n < limit => n + k = limit /\ k > 0
  BY DEF Room, Trims
<1>2. CASE limit = 0 \/ Len(h) + n <= limit \/ k = 0
  <2>1. Trim(h, n) = h
    BY <1>2 DEF Trim
  <2>2. Suffix(h, h, 0)
    BY <1>1 DEF Suffix
  <2>3. n < limit => n + Len(h) <= limit
    BY <1>1, <1>2
  <2>. QED
    BY <2>1, <2>2, <2>3
<1>3. CASE ~(limit = 0 \/ Len(h) + n <= limit \/ k = 0)
  <2> DEFINE d == Len(h) - k
  <2>1. Trim(h, n) = SubSeq(h, d + 1, Len(h))
    BY <1>3 DEF Trim
  <2> HIDE DEF k
  <2>2. d \in Nat /\ d > 0 /\ d + k = Len(h) /\ k \in Nat \ {0} /\ Trims /\ n + k = limit
    BY <1>1, <1>3
  <2> HIDE DEF d
  <2>3. Suffix(Trim(h, n), h, d)
    BY <1>1, <2>1, <2>2, SubSeqSuffix
  <2>4. PICK g : g = Trim(h, n)
    OBVIOUS
  <2>5. Suffix(g, h, d)
    BY <2>3, <2>4
  <2>6. g \in Seq(Message) /\ Len(g) + d = Len(h)
    BY <2>5 DEF Suffix
  <2>7. Len(g) = k
    <3>1. Len(g) \in Nat /\ Len(h) \in Nat
      BY <2>6
    <3>. QED
      BY <2>2, <2>6, <3>1
  <2>8. n + Len(g) = limit
    BY <2>2, <2>7
  <2>. QED
    BY <2>2, <2>4, <2>5, <2>7, <2>8
<1>. QED
  BY <1>2, <1>3

LEMMA SuffixFacts ==
  ASSUME NEW g, NEW h \in Seq(Message), NEW d, Suffix(g, h, d)
  PROVE  /\ Len(g) \in Nat /\ Len(h) \in Nat /\ DOMAIN g = 1..Len(g) /\ DOMAIN h = 1..Len(h)
         /\ \A i \in DOMAIN g : i + d \in DOMAIN h /\ g[i] = h[i + d]
         /\ g # <<>> => h # <<>> /\ Last(g) = Last(h)
         /\ h # <<>> /\ d < Len(h) => g # <<>>
         /\ \A u \in Turns : Twice(g, u) => Twice(h, u)
<1>1. /\ Len(g) \in Nat /\ Len(h) \in Nat /\ DOMAIN g = 1..Len(g) /\ DOMAIN h = 1..Len(h)
      /\ d \in Nat /\ Len(g) + d = Len(h)
  BY DEF Suffix
<1>2. \A i \in DOMAIN g : i + d \in DOMAIN h /\ g[i] = h[i + d]
  BY <1>1 DEF Suffix
<1>3. g # <<>> => h # <<>> /\ Last(g) = Last(h)
  <2> SUFFICES ASSUME g # <<>>
               PROVE  h # <<>> /\ Last(g) = Last(h)
    OBVIOUS
  <2>1. Len(g) > 0
    BY <1>1 DEF Suffix
  <2>2. Len(h) > 0 /\ Len(g) \in DOMAIN g /\ g[Len(g)] = h[Len(h)]
    BY <1>1, <1>2, <2>1
  <2>. QED
    BY <2>2 DEF Last
<1>4. h # <<>> /\ d < Len(h) => g # <<>>
  BY <1>1
<1>5. ASSUME NEW u \in Turns, Twice(g, u)
      PROVE  Twice(h, u)
  <2>1. PICK i, j \in DOMAIN g : i # j /\ g[i] = UserMessage(u) /\ g[j] = UserMessage(u)
    BY <1>5 DEF Twice
  <2>2. i + d # j + d
    BY <1>1, <2>1
  <2>. QED
    BY <1>2, <2>1, <2>2 DEF Twice
<1>. QED
  BY <1>1, <1>2, <1>3, <1>4, <1>5

LEMMA SuffixWhole ==
  ASSUME NEW g \in Seq(Message), NEW h \in Seq(Message), Suffix(g, h, 0)
  PROVE  g = h
<1>1. Len(g) = Len(h) /\ Len(g) \in Nat /\ DOMAIN g = 1..Len(g) /\ DOMAIN h = 1..Len(h)
  BY DEF Suffix
<1>2. ASSUME NEW i \in 1..Len(g)
      PROVE  g[i] = h[i]
  <2>1. i + 0 = i /\ i \in DOMAIN g
    BY <1>1
  <2>2. g[i] = h[i + 0]
    BY <2>1 DEF Suffix
  <2>. QED
    BY <2>1, <2>2
<1>. QED
  BY <1>1, <1>2

LEMMA SuffixInOnePiece ==
  ASSUME NEW g, NEW h \in Seq(Message), NEW d, NEW m, NEW n, Suffix(g, h, d), InOnePiece(h, m),
         d > 0 => Cut(g, n) \/ (g # <<>> /\ g[1].kind = "user"),
         d = 0 => (Cut(h, m) => Cut(h, n))
  PROVE  InOnePiece(g, n)
<1>1. /\ Len(g) \in Nat /\ Len(h) \in Nat /\ DOMAIN g = 1..Len(g) /\ DOMAIN h = 1..Len(h)
      /\ \A i \in DOMAIN g : i + d \in DOMAIN h /\ g[i] = h[i + d]
      /\ d \in Nat /\ Len(g) + d = Len(h) /\ g \in Seq(Message)
  BY SuffixFacts DEF Suffix
<1>2. g # <<>> => g[1].kind = "user" \/ Cut(g, n)
  <2>1. CASE d = 0
    <3>1. g = h
      BY <1>1, <2>1, SuffixWhole
    <3>. QED
      BY <2>1, <3>1 DEF InOnePiece
  <2>2. CASE d > 0
    BY <2>2
  <2>. QED
    BY <1>1, <2>1, <2>2
<1>3. ASSUME NEW i \in 1..Len(g)-1
      PROVE  Follows(g[i], g[i+1])
  <2>1. i \in DOMAIN g /\ i + 1 \in DOMAIN g /\ i + d \in 1..Len(h)-1 /\ (i + 1) + d = (i + d) + 1
    BY <1>1
  <2>2. g[i] = h[i + d] /\ g[i+1] = h[(i + d) + 1]
    BY <1>1, <2>1
  <2>. QED
    BY <2>1, <2>2 DEF InOnePiece
<1>. QED
  BY <1>2, <1>3 DEF InOnePiece

\* A history that lacks its front still does when it grows, and when there are more
\* system messages.
LEMMA CutFacts ==
  ASSUME limit \in Nat, NEW g \in Seq(Message), NEW h \in Seq(Message), Len(g) <= Len(h),
         NEW m \in Nat, NEW n \in Nat, m <= n
  PROVE  Cut(g, m) => Cut(h, n)
<1>1. Len(g) \in Nat /\ Len(h) \in Nat
  OBVIOUS
<1>. QED
  BY <1>1 DEF Cut

-----------------------------------------------------------------------------
(* The inductive invariant.                                                *)

\* A turn that no history knows of.
Unborn == {"new", "start"}

\* A turn that was resumed has brought what its run began with to the memory again.
Resumed(t) == \E u \in Turns \ {t} : how[u] = "resume" /\ pc[u] = "done"

\* As has the system message that is in the memory again.
Brought == \E u \in Turns : how[u] = "resume" /\ pc[u] = "done"

\* A history of turn t with n system messages, wherever it is kept: at its end are the
\* turn's own messages, and no turn is in it before it has begun.
Own(t, h, n) ==
  /\ h \in Seq(Message) /\ n \in Nat
  /\ \A i \in DOMAIN h : pc[h[i].turn] \notin Unborn
  /\ \A i, j \in DOMAIN h : i < j /\ h[i].turn = t => h[j].turn = t
  /\ \/ \E i \in DOMAIN h : h[i] = UserMessage(t)
     \/ mode = "serialized" /\ (resets > 0 \/ Cut(h, n))

\* In isolated mode it is whole, and all that comes before is committed.
Whole(t, h, n) ==
  /\ InOnePiece(h, n) /\ h # <<>> /\ Last(h).turn = t
  /\ \A i \in DOMAIN h : h[i].turn = t \/ pc[h[i].turn] = "done"
  /\ \A u \in Turns : Twice(h, u) => Resumed(u)
HistoryOK(t, h, n) == Own(t, h, n) /\ (mode = "isolated" => Whole(t, h, n))

\* What comes next in a history that ends with a message of this kind.
Ends(label, kind) ==
  CASE label = "think" -> kind \in {"user", "tool"}
    [] label \in {"dispatch", "approved"} -> kind \in {"ask", "ask_guarded"}
    [] label = "commit" -> kind = "answer"
    [] OTHER -> TRUE

\* What a call of its own has to commit is the end of its history, from its prompt on.
Fresh(t, h, pending) ==
  /\ pending \in Seq(Message) /\ pending # <<>> /\ pending[1] = UserMessage(t)
  /\ \A i \in DOMAIN pending : pending[i].turn = t
  /\ Len(pending) <= Len(h)
  /\ \A i \in DOMAIN pending : pending[i] = h[i + (Len(h) - Len(pending))]

\* What a resumed one has to commit is all of it: in the end more than one message.
AllOf(label, h, n, r) ==
  /\ r.pending = h /\ r.brings = n
  /\ label = "think" => Len(h) > 0
  /\ label = "commit" => Len(h) > 1

\* A call, by where it stands: w says which it is, r is its turn, h the history it
\* works on, with n system messages, s the checkpoint of its thread.
TurnFits(t, label, w, r, h, n, s) ==
  /\ label \in Unborn => s.status = "absent" /\ r = NoTurn
  /\ label \in Called \ {"start"} =>
       /\ HistoryOK(t, h, n)
       /\ mode = "isolated" => Ends(label, Last(h).kind)
       /\ IF r.private
          THEN \/ w = "resume" /\ AllOf(label, h, n, r)
               \/ Fresh(t, h, r.pending) /\ r.brings = 0
          ELSE lock = t /\ mode = "serialized"
  /\ label = "think" => r.steps.last = "none"
  /\ label \in {"dispatch", "approved"} => r.steps.last # "none"
  /\ label \in {"think", "dispatch", "approved"} => s.status # "completed"
TurnOK(t) == TurnFits(t, pc[t], how[t], turn[t], History(t), System(t), saved[t])

\* A checkpoint that can be resumed holds a history of its turn.
SavedFits(t, s) ==
  s.status \in {"running", "interrupted", "failed"} =>
    /\ HistoryOK(t, s.messages, s.system)
    /\ s.steps.last = "none" => Len(s.messages) > 0
    /\ mode = "isolated" =>
         Last(s.messages).kind \in
           IF s.steps.last = "none" THEN {"tool"} ELSE {"ask", "ask_guarded"}
    /\ s.status = "interrupted" => s.steps.last # "none"
SavedOK(t) == SavedFits(t, saved[t])

\* The memory of an isolated agent is whole and holds what was committed. With it go n
\* system messages.
MemoryFits(h, n) ==
  /\ h \in Seq(Message) /\ n \in Nat \ {0}
  /\ \A i \in DOMAIN h : pc[h[i].turn] \notin Unborn
  /\ n < limit => n + Len(h) <= limit
  /\ n > 1 => Brought
  /\ mode = "isolated" =>
       /\ InOnePiece(h, n)
       /\ h # <<>> => Last(h).kind = "answer"
       /\ \A i \in DOMAIN h : pc[h[i].turn] = "done"
       /\ \A u \in Turns : Twice(h, u) => Resumed(u)
MemoryOK == MemoryFits(memory, system)

IInv ==
  /\ TypeOK /\ MemoryOK
  /\ resets \in Nat
  /\ \A t \in Turns : TurnOK(t) /\ SavedOK(t)

Labels == Called \cup {"new", "done", "out"}
Hows   == {"none", "run", "stream", "resume"}

LEMMA Types ==
  ASSUME IInv
  PROVE  /\ pc \in [Turns -> Labels] /\ how \in [Turns -> Hows] /\ turn \in [Turns -> Turn]
         /\ saved \in [Turns -> Saved] /\ memory \in Seq(Message) /\ lock \in Turns \cup {Nobody}
         /\ mode \in {"isolated", "serialized"} /\ limit \in Nat /\ Nobody \notin Turns
         /\ resets \in Nat /\ system \in Nat \ {0}
         /\ \A t \in Turns : /\ TurnFits(t, pc[t], how[t], turn[t], History(t), System(t), saved[t])
                             /\ SavedFits(t, saved[t])
                             /\ History(t) \in Seq(Message) /\ System(t) \in Nat
         /\ MemoryFits(memory, system)
<1>1. limit \in Nat /\ mode \in {"isolated", "serialized"} /\ Nobody \notin Turns
  BY AgentAssumption DEF IInv, TypeOK
<1>2. \A t \in Turns : History(t) \in Seq(Message) /\ System(t) \in Nat
  BY DEF IInv, TypeOK, History, System, Turn
<1>. QED
  BY <1>1, <1>2 DEF IInv, TypeOK, TurnOK, SavedOK, MemoryOK, Labels, Hows

\* What no step takes back: a turn that has begun, or is done, stays so.
Later ==
  /\ UNCHANGED <<mode, limit>> /\ resets' \in Nat /\ resets <= resets'
  /\ \A u \in Turns : /\ pc[u] \notin Unborn => pc'[u] \notin Unborn
                      /\ pc[u] = "done" => pc'[u] = "done" /\ how'[u] = how[u]

LEMMA LaterFacts ==
  ASSUME IInv, NEW t \in Turns, NEW label, NEW w, pc[t] # "done",
         label \in Unborn => pc[t] \in Unborn,
         pc' = [pc EXCEPT ![t] = label], how' = [how EXCEPT ![t] = w],
         UNCHANGED <<mode, limit, resets>>
  PROVE  Later
BY Types DEF Later

LEMMA HistoryStays ==
  ASSUME IInv, Later, NEW t \in Turns, NEW h, NEW n, HistoryOK(t, h, n)
  PROVE  HistoryOK(t, h, n)'
<1>1. h \in Seq(Message) /\ \A i \in DOMAIN h : h[i].turn \in Turns
  BY MessageFacts DEF HistoryOK, Own
<1>2. \A u \in Turns : Resumed(u) => Resumed(u)'
  BY DEF Later, Resumed
<1>3. mode' = mode /\ (Cut(h, n) <=> Cut(h, n)') /\ (resets > 0 => resets' > 0)
  BY Types DEF Later, Cut, Trims
<1>4. \A x, y : Follows(x, y)' <=> Follows(x, y)
  BY DEF Follows, Later, Trims
<1>5. InOnePiece(h, n)' <=> InOnePiece(h, n)
  BY <1>3, <1>4 DEF InOnePiece
<1>6. Own(t, h, n)'
  BY <1>1, <1>3 DEF HistoryOK, Own, Later
<1>7. ASSUME mode = "isolated"
      PROVE  Whole(t, h, n)'
  BY <1>1, <1>2, <1>5, <1>7 DEF HistoryOK, Whole, Later
<1>. QED
  BY <1>3, <1>6, <1>7 DEF HistoryOK

LEMMA MemoryStays ==
  ASSUME IInv, Later, NEW h, NEW n, MemoryFits(h, n)
  PROVE  MemoryFits(h, n)'
<1>1. h \in Seq(Message) /\ \A i \in DOMAIN h : h[i].turn \in Turns
  BY MessageFacts DEF MemoryFits
<1>2. (Brought => Brought') /\ \A u \in Turns : Resumed(u) => Resumed(u)'
  BY DEF Later, Resumed, Brought
<1>3. mode' = mode /\ limit' = limit /\ (Cut(h, n) <=> Cut(h, n)')
  BY DEF Later, Cut, Trims
<1>4. \A x, y : Follows(x, y)' <=> Follows(x, y)
  BY DEF Follows, Later, Trims
<1>5. InOnePiece(h, n)' <=> InOnePiece(h, n)
  BY <1>3, <1>4 DEF InOnePiece
<1>. QED
  BY <1>1, <1>2, <1>3, <1>5 DEF MemoryFits, Later

LEMMA FitsStay ==
  ASSUME IInv, Later, NEW t \in Turns
  PROVE  /\ SavedFits(t, saved[t]) /\ \A s : SavedFits(t, s) => SavedFits(t, s)'
         /\ lock' = lock \/ lock # t =>
              \A label, w, r, h, n, s :
                TurnFits(t, label, w, r, h, n, s) => TurnFits(t, label, w, r, h, n, s)'
<1>1. SavedFits(t, saved[t])
  BY Types
<1>2. mode' = mode
  BY DEF Later
<1>3. ASSUME NEW s, SavedFits(t, s)
      PROVE  SavedFits(t, s)'
  BY <1>2, <1>3, HistoryStays DEF SavedFits
<1>4. ASSUME lock' = lock \/ lock # t, NEW label, NEW w, NEW r, NEW h, NEW n, NEW s,
             TurnFits(t, label, w, r, h, n, s)
      PROVE  TurnFits(t, label, w, r, h, n, s)'
  BY <1>2, <1>4, HistoryStays DEF TurnFits, Fresh, AllOf
<1>. QED
  BY <1>1, <1>3, <1>4

\* One call moves: w says which it is then, r is its turn, s its checkpoint and h the
\* history it works on, with n system messages.
LEMMA TurnStep ==
  ASSUME IInv, NEW t \in Turns, pc[t] # "done",
         NEW label \in Labels, NEW w \in Hows, NEW r \in Turn, NEW s \in Saved, NEW h, NEW n,
         label \in Unborn => pc[t] \in Unborn,
         pc' = [pc EXCEPT ![t] = label], how' = [how EXCEPT ![t] = w],
         turn' = [turn EXCEPT ![t] = r], saved' = [saved EXCEPT ![t] = s],
         UNCHANGED <<mode, limit, resets>>,
         h = IF r.private THEN r.memory ELSE memory', n = IF r.private THEN r.system ELSE system',
         lock' \in {lock, t, Nobody}, lock \notin {t, Nobody} => UNCHANGED <<lock, memory, system>>,
         lock' = t => mode = "serialized" /\ ~r.private /\ label \in Called \ {"start"},
         MemoryFits(memory, system)', TurnFits(t, label, w, r, h, n, s)', SavedFits(t, s)'
  PROVE  IInv'
<1>1. /\ pc' \in [Turns -> Labels] /\ how' \in [Turns -> Hows] /\ turn' \in [Turns -> Turn]
      /\ saved' \in [Turns -> Saved] /\ lock' \in Turns \cup {Nobody}
      /\ pc'[t] = label /\ how'[t] = w /\ turn'[t] = r /\ saved'[t] = s
      /\ \A u \in Turns : u # t => /\ pc'[u] = pc[u] /\ how'[u] = how[u] /\ turn'[u] = turn[u]
                                   /\ saved'[u] = saved[u]
  BY Types
<1>2. Later
  BY LaterFacts
<1>3. TypeOK'
  <2>1. memory' \in Seq(Message) /\ system' \in Nat \ {0}
    BY DEF MemoryFits
  <2>2. lock' # Nobody => /\ mode' = "serialized" /\ ~turn'[lock'].private
                          /\ pc'[lock'] \in Called \ {"start"}
    BY <1>1 DEF IInv, TypeOK
  <2>. QED
    BY <1>1, <2>1, <2>2 DEF IInv, TypeOK, Labels, Hows
<1>4. TurnOK(t)' /\ SavedOK(t)'
  <2>1. History(t)' = h /\ System(t)' = n
    BY <1>1 DEF History, System
  <2>. QED
    BY <1>1, <2>1 DEF TurnOK, SavedOK
<1>5. ASSUME NEW u \in Turns, u # t
      PROVE  TurnOK(u)' /\ SavedOK(u)'
  <2>1. PICK k, l, v, q, y, z : /\ k = pc[u] /\ l = how[u] /\ v = turn[u] /\ z = saved[u]
                             /\ q = History(u) /\ y = System(u)
    OBVIOUS
  <2>2. TurnFits(u, k, l, v, q, y, z) /\ SavedFits(u, z)
    BY <2>1, Types
  <2>3. SavedFits(u, z)'
    BY <1>2, <2>2, FitsStay
  <2>4. /\ pc'[u] = k /\ how'[u] = l /\ turn'[u] = v /\ saved'[u] = z
    BY <1>1, <1>5, <2>1
  <2>5. CASE k \in Called \ {"start"} /\ ~v.private
    <3>1. lock = u
      BY <2>2, <2>5 DEF TurnFits
    <3>2. UNCHANGED <<lock, memory, system>>
      BY <1>5, <3>1, Types
    <3>3. History(u)' = q /\ System(u)' = y
      BY <2>1, <2>4, <3>2 DEF History, System
    <3>4. TurnFits(u, k, l, v, q, y, z)'
      BY <1>2, <2>2, <3>2, FitsStay
    <3>. QED
      BY <2>3, <2>4, <3>3, <3>4 DEF TurnOK, SavedOK
  <2>6. CASE v.private
    <3>1. History(u)' = q /\ System(u)' = y
      BY <2>1, <2>4, <2>6 DEF History, System
    <3>2. TurnFits(u, k, l, v, q, y, z)'
      <4>1. HistoryOK(u, q, y) => HistoryOK(u, q, y)'
        BY <1>2, HistoryStays
      <4>. QED
        BY <2>2, <2>6, <4>1 DEF TurnFits, Fresh, AllOf
    <3>. QED
      BY <2>3, <2>4, <3>1, <3>2 DEF TurnOK, SavedOK
  <2>7. CASE k \notin Called \ {"start"}
    <3>1. PICK x, o : x = History(u)' /\ o = System(u)'
      OBVIOUS
    <3>2. TurnFits(u, k, l, v, x, o, z)'
      BY <2>2, <2>7 DEF TurnFits, Called, Active
    <3>. QED
      BY <2>3, <2>4, <3>1, <3>2 DEF TurnOK, SavedOK
  <2>. QED
    BY <2>5, <2>6, <2>7
<1>6. MemoryOK' /\ resets' \in Nat
  BY Types DEF MemoryOK
<1>. QED
  BY <1>3, <1>4, <1>5, <1>6 DEF IInv

-----------------------------------------------------------------------------
(* A message is added.                                                     *)

\* What may follow what a history ends with.
LEMMA AddedHistory ==
  ASSUME IInv, NEW t \in Turns, NEW h, NEW n, HistoryOK(t, h, n), pc[t] \notin Unborn,
         NEW m \in Message, m.turn = t, m.kind # "user",
         mode = "isolated" => Follows(Last(h), m)
  PROVE  HistoryOK(t, Append(h, m), n)
<1> DEFINE g == Append(h, m)
<1>1. /\ h \in Seq(Message) /\ g \in Seq(Message) /\ g # <<>> /\ Len(g) = Len(h) + 1
      /\ Len(h) \in Nat /\ DOMAIN g = 1..(Len(h) + 1) /\ DOMAIN h = 1..Len(h)
      /\ \A i \in DOMAIN h : g[i] = h[i]
      /\ g[Len(h) + 1] = m /\ Last(g) = m /\ n \in Nat
  BY AppendFacts DEF HistoryOK, Own
<1> HIDE DEF g
<1>2. \A i \in DOMAIN g : i \in DOMAIN h \/ i = Len(h) + 1
  BY <1>1
<1>3. \A i \in DOMAIN h : i \in DOMAIN g /\ i < Len(h) + 1
  BY <1>1
<1>4. \A u \in Turns : m # UserMessage(u)
  BY DEF UserMessage
<1>c. Cut(h, n) => Cut(g, n)
  <2>1. Len(h) <= Len(g) /\ n <= n /\ limit \in Nat
    BY <1>1, Types
  <2>. QED
    BY <1>1, <2>1, CutFacts
<1>5. Own(t, g, n)
  <2>1. \A i \in DOMAIN g : pc[g[i].turn] \notin Unborn
    BY <1>1, <1>2 DEF HistoryOK, Own
  <2>2. ASSUME NEW i \in DOMAIN g, NEW j \in DOMAIN g, i < j, g[i].turn = t
        PROVE  g[j].turn = t
    <3>1. i \in DOMAIN h
      BY <1>1, <2>2
    <3>. QED
      BY <1>1, <1>2, <2>2, <3>1 DEF HistoryOK, Own
  <2>. QED
    BY <1>1, <1>3, <1>c, <2>1, <2>2 DEF HistoryOK, Own
<1>6. ASSUME mode = "isolated"
      PROVE  Whole(t, g, n)
  <2>1. Whole(t, h, n) /\ Follows(Last(h), m)
    BY <1>6 DEF HistoryOK
  <2>2. /\ Len(h) > 0 /\ Last(h) = h[Len(h)]
        /\ \A i \in 1..Len(h)-1 : Follows(h[i], h[i+1])
        /\ h[1].kind = "user" \/ Cut(h, n)
    BY <1>1, <2>1 DEF Whole, InOnePiece, Last
  <2>3. InOnePiece(g, n)
    <3>1. ASSUME NEW i \in 1..Len(g)-1
          PROVE  Follows(g[i], g[i+1])
      <4>1. CASE i = Len(h)
        BY <1>1, <2>1, <2>2, <4>1
      <4>2. CASE i # Len(h)
        <5>1. i \in 1..Len(h)-1 /\ i \in DOMAIN h /\ i + 1 \in DOMAIN h
          <6>1. PICK k : k = Len(h)
            OBVIOUS
          <6>2. k \in Nat /\ Len(g)-1 = k /\ DOMAIN h = 1..k
            BY <1>1, <6>1
          <6>3. i \in 1..k-1 /\ i \in 1..k /\ i + 1 \in 1..k
            BY <4>2, <6>1, <6>2
          <6>. QED
            BY <6>1, <6>2, <6>3
        <5>. QED
          BY <1>1, <2>2, <5>1
      <4>. QED
        BY <4>1, <4>2
    <3>2. g[1] = h[1]
      BY <1>1, <2>2
    <3>. QED
      BY <1>c, <2>2, <3>1, <3>2 DEF InOnePiece
  <2>4. \A i \in DOMAIN g : g[i].turn = t \/ pc[g[i].turn] = "done"
    BY <1>1, <1>2, <2>1 DEF Whole
  <2>5. ASSUME NEW u \in Turns, Twice(g, u)
        PROVE  Resumed(u)
    <3>1. Twice(h, u)
      BY <1>1, <1>2, <1>4, <2>5 DEF Twice
    <3>. QED
      BY <2>1, <3>1 DEF Whole
  <2>. QED
    BY <1>1, <2>3, <2>4, <2>5 DEF Whole
<1>. QED
  BY <1>5, <1>6 DEF HistoryOK, g

\* Trimming a history that a serialized turn writes through.
LEMMA TrimmedHistory ==
  ASSUME IInv, NEW t \in Turns, NEW h, NEW n \in Nat \ {0}, HistoryOK(t, h, n), mode = "serialized"
  PROVE  HistoryOK(t, Trim(h, n), n)
<1>1. h \in Seq(Message) /\ limit \in Nat
  BY Types DEF HistoryOK, Own
<1>2. PICK g : g = Trim(h, n)
  OBVIOUS
<1>3. PICK d \in Nat : Suffix(g, h, d) /\ (d > 0 => Trims /\ n + Len(g) = limit)
  <2>1. \E d \in Nat : Suffix(Trim(h, n), h, d) /\ (d > 0 => Trims /\ n + Len(Trim(h, n)) = limit)
    BY <1>1, TrimFacts
  <2>. QED
    BY <1>2, <2>1
<1>4. /\ Len(g) \in Nat /\ Len(h) \in Nat /\ DOMAIN g = 1..Len(g) /\ DOMAIN h = 1..Len(h)
      /\ \A i \in DOMAIN g : i + d \in DOMAIN h /\ g[i] = h[i + d]
      /\ g \in Seq(Message)
  BY <1>1, <1>3, SuffixFacts DEF Suffix
<1>5. \A i, j \in DOMAIN g : i < j /\ g[i].turn = t => g[j].turn = t
  <2> SUFFICES ASSUME NEW i \in DOMAIN g, NEW j \in DOMAIN g, i < j, g[i].turn = t
               PROVE  g[j].turn = t
    OBVIOUS
  <2>1. i + d < j + d
    BY <1>4
  <2>. QED
    BY <1>4, <2>1 DEF HistoryOK, Own
<1>6. \A i \in DOMAIN g : pc[g[i].turn] \notin Unborn
  BY <1>4 DEF HistoryOK, Own
<1>7. \/ \E i \in DOMAIN g : g[i] = UserMessage(t)
      \/ resets > 0 \/ Cut(g, n)
  <2>1. CASE d > 0
    <3>1. Len(g) + n >= limit
      BY <1>1, <1>3, <1>4, <2>1
    <3>. QED
      BY <1>3, <2>1, <3>1 DEF Cut
  <2>2. CASE d = 0
    <3>1. g = h
      BY <1>1, <1>3, <1>4, <2>2, SuffixWhole
    <3>. QED
      BY <3>1 DEF HistoryOK, Own
  <2>. QED
    BY <2>1, <2>2
<1>. QED
  BY <1>2, <1>4, <1>5, <1>6, <1>7 DEF HistoryOK, Own

LEMMA FreshGrows ==
  ASSUME NEW t \in Turns, NEW h \in Seq(Message), NEW p, Fresh(t, h, p),
         NEW m \in Message, m.turn = t
  PROVE  Fresh(t, Append(h, m), Append(p, m))
<1> DEFINE g == Append(h, m)
           q == Append(p, m)
<1>1. /\ Len(g) = Len(h) + 1 /\ Len(h) \in Nat /\ DOMAIN h = 1..Len(h)
      /\ \A i \in DOMAIN h : g[i] = h[i]
      /\ g[Len(h) + 1] = m
  BY AppendFacts
<1>2. /\ p \in Seq(Message) /\ p # <<>> /\ p[1] = UserMessage(t)
      /\ \A i \in DOMAIN p : p[i].turn = t
      /\ Len(p) <= Len(h) /\ Len(p) \in Nat
      /\ \A i \in DOMAIN p : p[i] = h[i + (Len(h) - Len(p))]
  BY DEF Fresh
<1>3. /\ q \in Seq(Message) /\ q # <<>> /\ Len(q) = Len(p) + 1 /\ DOMAIN q = 1..(Len(p) + 1)
      /\ DOMAIN p = 1..Len(p) /\ \A i \in DOMAIN p : q[i] = p[i]
      /\ q[Len(p) + 1] = m
  BY <1>2, AppendFacts
<1> HIDE DEF g, q
<1>4. 1 \in DOMAIN p
  BY <1>2, <1>3
<1>5. q[1] = UserMessage(t)
  BY <1>2, <1>3, <1>4
<1>6. PICK d : d = Len(h) - Len(p)
  OBVIOUS
<1>7. d \in Nat /\ Len(g) - Len(q) = d /\ (Len(p) + 1) + d = Len(h) + 1
  BY <1>1, <1>2, <1>3, <1>6
<1>8. ASSUME NEW i \in DOMAIN q
      PROVE  q[i].turn = t /\ q[i] = g[i + d]
  <2>1. CASE i = Len(p) + 1
    BY <1>1, <1>3, <1>7, <2>1
  <2>2. CASE i # Len(p) + 1
    <3>1. i \in DOMAIN p /\ i + d \in DOMAIN h
      BY <1>1, <1>2, <1>3, <1>7, <2>2
    <3>2. p[i] = h[i + d] /\ q[i] = p[i] /\ g[i + d] = h[i + d]
      BY <1>1, <1>2, <1>3, <1>6, <3>1
    <3>. QED
      BY <1>2, <3>1, <3>2
  <2>. QED
    BY <2>1, <2>2
<1>9. Len(q) <= Len(g)
  BY <1>1, <1>2, <1>3
<1>. QED
  BY <1>3, <1>5, <1>7, <1>8, <1>9 DEF Fresh, g, q

LEMMA AddStep ==
  ASSUME IInv, NEW t \in Turns, NEW kind, NEW steps \in Steps, NEW label, NEW status,
         Add(t, kind, steps), Save(t, status), Goto(t, label),
         UNCHANGED <<mode, limit, system, lock, how, bounds>>,
         \/ /\ pc[t] = "think" /\ kind \in {"ask", "ask_guarded"} /\ label = "dispatch"
            /\ status = "running" /\ steps.last = kind
         \/ /\ pc[t] = "think" /\ kind = "answer" /\ label = "commit" /\ status = "completed"
         \/ /\ pc[t] \in {"dispatch", "approved"} /\ kind = "tool" /\ label = "think"
            /\ status = "running" /\ steps.last = "none"
  PROVE  IInv'
<1>1. PICK m : m = [turn |-> t, kind |-> kind]
  OBVIOUS
<1>2. m \in Message /\ m.turn = t /\ m.kind = kind /\ kind # "user"
  BY <1>1 DEF Message, Kind
<1>3. PICK old, n, w, q : old = History(t) /\ n = System(t) /\ w = how[t] /\ q = turn[t]
  OBVIOUS
<1>4. /\ HistoryOK(t, old, n) /\ (mode = "isolated" => Ends(pc[t], Last(old).kind))
      /\ (q.private \/ (lock = t /\ mode = "serialized"))
      /\ q.private => \/ w = "resume" /\ AllOf(pc[t], old, n, q)
                      \/ Fresh(t, old, q.pending) /\ q.brings = 0
      /\ saved[t].status # "completed" /\ pc[t] \notin Unborn
  BY <1>3, Types DEF TurnFits, Called, Active, Unborn
<1>5. mode = "isolated" => Follows(Last(old), m)
  <2> SUFFICES ASSUME mode = "isolated"
               PROVE  Follows(Last(old), m)
    OBVIOUS
  <2>1. Last(old).turn = t /\ Ends(pc[t], Last(old).kind)
    BY <1>4 DEF HistoryOK, Whole
  <2>. QED
    BY <1>2, <2>1 DEF Follows, Ends
<1>6. HistoryOK(t, Append(old, m), n)
  BY <1>2, <1>4, <1>5, AddedHistory
<1>7. /\ q \in Turn /\ old \in Seq(Message) /\ Append(old, m) \in Seq(Message)
      /\ Last(Append(old, m)) = m /\ n \in Nat /\ Len(Append(old, m)) = Len(old) + 1 /\ Len(old) \in Nat
  BY <1>2, <1>3, <1>4, Types, AppendFacts DEF HistoryOK, Own
<1>8. PICK r : r = IF q.private
                   THEN [q EXCEPT !.memory = Append(old, m), !.pending = Append(q.pending, m),
                                  !.steps = steps]
                   ELSE [q EXCEPT !.steps = steps]
  OBVIOUS
<1>9. /\ turn' = [turn EXCEPT ![t] = r] /\ r \in Turn /\ r.private = q.private /\ r.steps = steps
      /\ r.system = q.system /\ r.brings = q.brings
      /\ q.private => r.memory = Append(old, m) /\ r.pending = Append(q.pending, m)
  <2>1. CASE q.private
    <3>1. q.memory = old /\ Append(q.pending, m) \in Seq(Message)
      <4>1. q.memory = old /\ q.pending \in Seq(Message)
        BY <1>3, <1>7, <2>1 DEF History, Turn
      <4>. QED
        BY <1>2, <4>1
    <3>2. turn' = [turn EXCEPT ![t] = r]
      BY <1>1, <1>3, <1>8, <2>1, <3>1, Types DEF Add
    <3>. QED
      BY <1>7, <1>8, <2>1, <3>1, <3>2 DEF Turn
  <2>2. CASE ~q.private
    <3>1. turn' = [turn EXCEPT ![t] = r]
      BY <1>1, <1>3, <1>8, <2>2, Types DEF Add
    <3>. QED
      BY <1>7, <1>8, <2>2, <3>1 DEF Turn
  <2>. QED
    BY <2>1, <2>2
<1>10. PICK h : h = IF r.private THEN r.memory ELSE memory'
  OBVIOUS
<1>11. /\ q.private => h = Append(old, m) /\ memory' = memory
       /\ ~q.private => /\ h = Trim(Append(old, m), n) /\ memory' = h /\ n = system
                        /\ mode = "serialized" /\ lock = t
       /\ n = (IF r.private THEN r.system ELSE system')
  <2>1. ~q.private => memory' = Trim(Append(old, m), n) /\ n = system
    BY <1>1, <1>3 DEF Add, History, System
  <2>2. q.private => memory' = memory
    BY <1>3 DEF Add
  <2>3. n = (IF r.private THEN r.system ELSE system')
    BY <1>3, <1>9 DEF System
  <2>. QED
    BY <1>4, <1>9, <1>10, <2>1, <2>2, <2>3
<1>12. /\ HistoryOK(t, h, n) /\ (mode = "isolated" => Last(h) = m /\ q.private)
       /\ Len(h) > 0 /\ (q.private => Len(h) = Len(old) + 1)
       /\ ~q.private => (n < limit => n + Len(h) <= limit)
  <2>1. CASE q.private
    <3>1. h = Append(old, m)
      BY <1>11, <2>1
    <3>2. Len(h) = Len(old) + 1 /\ Len(h) > 0 /\ Last(h) = m /\ HistoryOK(t, h, n)
      BY <1>6, <1>7, <3>1
    <3>. QED
      BY <2>1, <3>2
  <2>2. CASE ~q.private
    <3>1. HistoryOK(t, h, n) /\ mode = "serialized" /\ n \in Nat \ {0}
      BY <1>6, <1>11, <2>2, TrimmedHistory, Types
    <3>2. (n < limit => n + Len(h) <= limit)
          /\ \E d \in Nat : Suffix(h, Append(old, m), d) /\ (d > 0 => Len(h) > 0)
      <4>1. PICK a : a = Append(old, m) /\ a \in Seq(Message) /\ h = Trim(a, n)
        BY <1>7, <1>11, <2>2
      <4>2. /\ n < limit => n + Len(Trim(a, n)) <= limit
            /\ \E d \in Nat : Suffix(Trim(a, n), a, d) /\ (d > 0 => Len(Trim(a, n)) > 0)
        BY <3>1, <4>1, TrimFacts, Types
      <4>. QED
        BY <4>1, <4>2
    <3>3. Len(h) > 0
      BY <1>7, <3>2 DEF Suffix
    <3>. QED
      BY <2>2, <3>1, <3>2, <3>3
  <2>. QED
    BY <2>1, <2>2
<1>13. label \in Labels /\ label \notin Unborn /\ pc[t] # "done" /\ pc' = [pc EXCEPT ![t] = label]
  BY DEF Labels, Called, Active, Unborn, Goto
<1>14. how' = [how EXCEPT ![t] = w] /\ w \in Hows /\ UNCHANGED resets
  BY <1>3, Types DEF bounds
<1>15. Later
  BY <1>13, <1>14, LaterFacts
<1>16. HistoryOK(t, h, n)'
  BY <1>12, <1>15, HistoryStays
<1>17. PICK s : s = saved'[t]
  OBVIOUS
<1>18. /\ saved' = [saved EXCEPT ![t] = s] /\ s \in Saved
       /\ w = "stream" => s = saved[t]
       /\ w # "stream" => s.status = status /\ s.messages = h /\ s.system = n /\ s.steps = steps
  <2>1. CASE w = "stream"
    BY <1>3, <1>17, <2>1, Types DEF Save
  <2>2. CASE w # "stream"
    <3>1. turn'[t] = r
      BY <1>9, Types
    <3>2. saved' = [saved EXCEPT ![t] = [status |-> status, messages |-> h, system |-> n, steps |-> steps]]
      BY <1>3, <1>9, <1>10, <2>2, <3>1 DEF Save
    <3>3. saved'[t] = [status |-> status, messages |-> h, system |-> n, steps |-> steps]
      BY <3>2, Types
    <3>4. h \in Seq(Message)
      BY <1>12 DEF HistoryOK, Own
    <3>5. status \in {"running", "completed"} /\ steps \in Steps
      OBVIOUS
    <3>6. s = [status |-> status, messages |-> h, system |-> n, steps |-> steps]
      BY <1>17, <3>3
    <3>7. s \in Saved
      BY <1>7, <3>4, <3>5, <3>6 DEF Saved
    <3>8. s.status = status /\ s.messages = h /\ s.system = n /\ s.steps = steps
      BY <3>6
    <3>. QED
      BY <2>2, <3>2, <3>6, <3>7, <3>8
  <2>. QED
    BY <2>1, <2>2
<1>19. SavedFits(t, s)'
  <2>1. CASE w = "stream"
    BY <1>15, <1>18, <2>1, FitsStay
  <2>2. CASE w # "stream"
    BY <1>2, <1>12, <1>15, <1>16, <1>18, <2>2 DEF SavedFits, Later
  <2>. QED
    BY <2>1, <2>2
<1>20. TurnFits(t, label, w, r, h, n, s)'
  <2>1. r.private => \/ w = "resume" /\ AllOf(label, h, n, r)
                     \/ Fresh(t, h, r.pending)' /\ r.brings = 0
    <3>1. CASE Fresh(t, old, q.pending) /\ q.brings = 0
      <4>1. Fresh(t, Append(old, m), Append(q.pending, m))
        BY <1>2, <1>7, <3>1, FreshGrows
      <4>. QED
        BY <1>9, <1>11, <3>1, <4>1 DEF Fresh
    <3>2. CASE w = "resume" /\ AllOf(pc[t], old, n, q)
      <4>1. q.private => /\ r.pending = h /\ r.brings = n /\ Len(h) = Len(old) + 1 /\ Len(old) \in Nat
                         /\ label = "commit" => Len(old) > 0
        BY <1>7, <1>9, <1>11, <1>12, <3>2 DEF AllOf
      <4>2. q.private => AllOf(label, h, n, r)
        BY <4>1 DEF AllOf
      <4>. QED
        BY <1>9, <3>2, <4>2
    <3>. QED
      BY <1>4, <1>9, <3>1, <3>2
  <2>2. mode' = "isolated" => Ends(label, Last(h).kind)
    BY <1>2, <1>12, <1>15 DEF Ends, Later
  <2>3. ~r.private => lock' = t /\ mode' = "serialized"
    BY <1>9, <1>11
  <2>4. label \in {"think", "dispatch"} => s.status # "completed"
    BY <1>4, <1>18
  <2>5. /\ label = "think" => steps.last = "none"
        /\ label = "dispatch" => steps.last # "none"
    OBVIOUS
  <2>. QED
    BY <1>9, <1>13, <1>16, <2>1, <2>2, <2>3, <2>4, <2>5 DEF TurnFits
<1>21. MemoryFits(memory, system)'
  <2>1. CASE q.private
    <3>1. PICK x, y : x = memory /\ y = system
      OBVIOUS
    <3>2. MemoryFits(x, y)' /\ memory' = x /\ system' = y
      BY <1>11, <1>15, <2>1, <3>1, MemoryStays, Types
    <3>. QED
      BY <3>2
  <2>2. CASE ~q.private
    <3>1. mode' # "isolated" /\ (n < limit' => n + Len(h) <= limit')
      BY <1>11, <1>12, <2>2
    <3>2. n \in Nat \ {0} /\ (n > 1 => Brought') /\ system' = n
      BY <1>11, <1>15, <2>2, Types DEF MemoryFits, Brought, Later
    <3>3. MemoryFits(h, n)'
      BY <1>16, <3>1, <3>2 DEF MemoryFits, HistoryOK, Own
    <3>. QED
      BY <1>11, <2>2, <3>2, <3>3
  <2>. QED
    BY <2>1, <2>2
<1>22. /\ lock' \in {lock, t, Nobody} /\ (lock \notin {t, Nobody} => UNCHANGED <<lock, memory, system>>)
       /\ lock' = t => mode = "serialized" /\ ~r.private /\ label \in Called \ {"start"}
  BY <1>3, <1>9, <1>11, Types DEF IInv, TypeOK, Called, Active
<1>. QED
  BY <1>9, <1>10, <1>11, <1>13, <1>14, <1>18, <1>19, <1>20, <1>21, <1>22, TurnStep

LEMMA AskStep == ASSUME IInv, NEW t \in Turns, Ask(t) PROVE IInv'
<1>1. PICK kind \in {"ask", "ask_guarded"} :
        Add(t, kind, [asked |-> turn[t].steps.asked + 1, last |-> kind])
  BY DEF Ask
<1>2. PICK steps : steps = [asked |-> turn[t].steps.asked + 1, last |-> kind]
  OBVIOUS
<1>3. steps \in Steps /\ steps.last = kind
  <2>1. turn[t].steps \in Steps
    BY Types DEF Turn
  <2>. QED
    BY <1>2, <2>1 DEF Steps, Kind
<1>4. Add(t, kind, steps)
  BY <1>1, <1>2
<1>. QED
  BY <1>3, <1>4, AddStep DEF Ask

LEMMA DispatchStep == ASSUME IInv, NEW t \in Turns, Dispatch(t) PROVE IInv'
<1>1. PICK steps : steps = [turn[t].steps EXCEPT !.last = "none"]
  OBVIOUS
<1>2. steps \in Steps /\ steps.last = "none"
  BY <1>1, Types DEF Turn, Steps
<1>3. Add(t, "tool", steps)
  BY <1>1 DEF Dispatch
<1>. QED
  BY <1>2, <1>3, AddStep DEF Dispatch

LEMMA AnswerStep == ASSUME IInv, NEW t \in Turns, Answer(t) PROVE IInv'
<1>1. PICK steps : steps = turn[t].steps
  OBVIOUS
<1>2. steps \in Steps
  BY <1>1, Types DEF Turn
<1>3. Add(t, "answer", steps)
  BY <1>1 DEF Answer
<1>. QED
  BY <1>2, <1>3, AddStep DEF Answer

-----------------------------------------------------------------------------
(* A turn begins, and ends.                                                *)

\* What a turn starts from: the memory and its prompt, of which a serialized turn may
\* only keep the end.
LEMMA NewHistory ==
  ASSUME IInv, Later, UNCHANGED system, NEW t \in Turns, pc[t] = "start", pc'[t] \notin Unborn,
         NEW a, a = Append(memory, UserMessage(t)),
         NEW g, NEW d, Suffix(g, a, d), g # <<>>, mode = "isolated" => g = a
  PROVE  HistoryOK(t, g, system)' /\ Last(g) = UserMessage(t)
<1> DEFINE m == UserMessage(t)
           n == Len(memory) + 1
<1>1. m \in Message /\ m.turn = t /\ m.kind = "user"
  BY DEF UserMessage, Message, Kind
<1>2. /\ memory \in Seq(Message) /\ a \in Seq(Message) /\ a # <<>> /\ n \in Nat
      /\ Len(a) = n /\ DOMAIN a = 1..n /\ DOMAIN memory = 1..Len(memory) /\ Len(memory) \in Nat
      /\ \A i \in DOMAIN memory : a[i] = memory[i]
      /\ a[n] = m /\ Last(a) = m
  BY <1>1, Types, AppendFacts
<1>3. MemoryFits(memory, system)
  BY Types
<1>4. \A i \in DOMAIN memory : memory[i].turn \in Turns /\ pc[memory[i].turn] \notin Unborn
  BY <1>2, <1>3, MessageFacts DEF MemoryFits
<1>5. \A i \in DOMAIN memory : memory[i].turn # t
  BY <1>4 DEF Unborn
<1> HIDE DEF m, n
<1>6. \A i \in DOMAIN a : i \in DOMAIN memory \/ i = n
  BY <1>2 DEF n
<1>7. PICK k \in Nat : /\ DOMAIN g = 1..k /\ g \in Seq(Message) /\ Last(g) = m
                       /\ d \in Nat /\ k + d = n /\ k \in DOMAIN g /\ g[k] = m
                       /\ \A i \in 1..k : i + d \in DOMAIN a /\ g[i] = a[i + d]
  <2>1. PICK k : k = Len(g)
    OBVIOUS
  <2>2. k \in Nat /\ DOMAIN g = 1..k /\ \A i \in DOMAIN g : i + d \in DOMAIN a /\ g[i] = a[i + d]
    <3>1. a \in Seq(Message)
      BY <1>2
    <3>2. Len(g) \in Nat /\ DOMAIN g = 1..Len(g)
      BY <3>1, SuffixFacts
    <3>3. ASSUME NEW i \in DOMAIN g
          PROVE  i + d \in DOMAIN a /\ g[i] = a[i + d]
      <4>1. d \in Nat /\ k \in Nat /\ k + d = n /\ i \in 1..k
        BY <1>2, <2>1, <3>2, <3>3 DEF Suffix
      <4>2. i + d \in 1..n
        BY <1>2, <4>1
      <4>. QED
        BY <1>2, <4>2 DEF Suffix
    <3>. QED
      BY <2>1, <3>2, <3>3
  <2>3. g \in Seq(Message) /\ d \in Nat /\ k + d = n
    BY <1>2, <2>1 DEF Suffix
  <2>4. Last(g) = m
    BY <1>2, SuffixFacts
  <2>5. k > 0
    BY <2>1, <2>2, <2>3
  <2>6. k \in DOMAIN g /\ g[k] = m
    BY <2>1, <2>2, <2>4, <2>5 DEF Last
  <2>. QED
    BY <2>2, <2>3, <2>4, <2>6
<1>8. Own(t, g, system)'
  <2>1. \A i \in DOMAIN g : pc'[g[i].turn] \notin Unborn
    <3> SUFFICES ASSUME NEW i \in DOMAIN g
                 PROVE  pc'[g[i].turn] \notin Unborn
      OBVIOUS
    <3>1. CASE i + d \in DOMAIN memory
      <4>1. g[i] = memory[i + d]
        BY <1>2, <1>7, <3>1
      <4>2. memory[i + d].turn \in Turns /\ pc[memory[i + d].turn] \notin Unborn
        BY <1>4, <3>1
      <4>. QED
        BY <4>1, <4>2 DEF Later
    <3>2. CASE i + d = n
      BY <1>1, <1>2, <1>7, <3>2
    <3>. QED
      BY <1>6, <1>7, <3>1, <3>2
  <2>2. ASSUME NEW i \in DOMAIN g, NEW j \in DOMAIN g, i < j, g[i].turn = t
        PROVE  g[j].turn = t
    <3>1. i + d \in DOMAIN a /\ i + d < n
      BY <1>7, <2>2
    <3>2. i + d \in DOMAIN memory /\ g[i] = memory[i + d]
      BY <1>2, <1>6, <1>7, <3>1
    <3>. QED
      BY <1>5, <2>2, <3>2
  <2>3. \E i \in DOMAIN g : g[i] = UserMessage(t)
    BY <1>7 DEF m
  <2>4. system' \in Nat
    BY Types
  <2>. QED
    BY <1>7, <2>1, <2>2, <2>3, <2>4 DEF Own
<1>9. ASSUME mode = "isolated"
      PROVE  Whole(t, a, system)'
  <2>1. /\ InOnePiece(memory, system) /\ (memory # <<>> => Last(memory).kind = "answer")
        /\ \A i \in DOMAIN memory : pc[memory[i].turn] = "done"
        /\ \A u \in Turns : Twice(memory, u) => Resumed(u)
    BY <1>3, <1>9 DEF MemoryFits
  <2>2. Cut(a, system)' <=> Cut(a, system)
    BY DEF Later, Cut, Trims
  <2>3. \A x, y : Follows(x, y)' <=> Follows(x, y)
    BY DEF Follows, Trims, Later
  <2>4. /\ memory # <<>> => Len(memory) > 0 /\ Last(memory) = memory[Len(memory)] /\ a[1] = memory[1]
        /\ memory = <<>> => Len(memory) = 0 /\ a[1] = m
        /\ \A i \in 1..Len(memory)-1 : Follows(memory[i], memory[i+1])
    BY <1>2, <2>1 DEF InOnePiece, Last, n
  <2>5. ASSUME NEW i \in 1..Len(a)-1
        PROVE  Follows(a[i], a[i+1])
    <3>1. PICK l : l = Len(memory)
      OBVIOUS
    <3>2. i \in 1..l /\ l \in Nat /\ n = l + 1 /\ memory # <<>> /\ DOMAIN memory = 1..l
      BY <1>2, <3>1 DEF n
    <3>3. CASE i = l
      <4>1. a[i] = Last(memory) /\ a[i+1] = m
        BY <1>2, <2>4, <3>1, <3>2, <3>3
      <4>2. a[i].kind = "answer" /\ a[i+1].kind = "user"
        BY <1>1, <2>1, <3>2, <4>1
      <4>. QED
        BY <4>2 DEF Follows
    <3>4. CASE i # l
      <4>1. i \in 1..l-1 /\ i \in DOMAIN memory /\ i + 1 \in DOMAIN memory
        BY <3>2, <3>4
      <4>. QED
        BY <1>2, <2>4, <3>1, <4>1
    <3>. QED
      BY <3>3, <3>4
  <2>6. a[1].kind = "user" \/ Cut(a, system)
    <3>1. CASE memory = <<>>
      BY <1>1, <2>4, <3>1
    <3>2. CASE memory # <<>>
      <4>1. Cut(memory, system) => Cut(a, system)
        <5>1. Len(memory) <= Len(a) /\ system <= system /\ limit \in Nat /\ system \in Nat
          BY <1>2, Types DEF n
        <5>. QED
          BY <1>2, <5>1, CutFacts
      <4>. QED
        BY <2>1, <2>4, <3>2, <4>1 DEF InOnePiece
    <3>. QED
      BY <3>1, <3>2
  <2>7. InOnePiece(a, system)'
    <3>1. a[1].kind = "user" \/ Cut(a, system)'
      BY <2>2, <2>6
    <3>2. \A i \in 1..Len(a)-1 : Follows(a[i], a[i+1])'
      BY <2>3, <2>5
    <3>. QED
      BY <3>1, <3>2 DEF InOnePiece
  <2>8. \A i \in DOMAIN a : a[i].turn = t \/ pc'[a[i].turn] = "done"
    BY <1>1, <1>2, <1>4, <1>6, <2>1 DEF Later
  <2>9. ASSUME NEW u \in Turns, Twice(a, u)
        PROVE  Resumed(u)'
    <3>1. PICK i, j \in DOMAIN a : i # j /\ a[i] = UserMessage(u) /\ a[j] = UserMessage(u)
      BY <2>9 DEF Twice
    <3>2. i \in DOMAIN memory \/ j \in DOMAIN memory
      BY <1>6, <3>1
    <3>3. UserMessage(u).turn = u
      BY DEF UserMessage
    <3>4. u # t
      BY <1>2, <1>5, <3>1, <3>2, <3>3
    <3>5. i \in DOMAIN memory /\ j \in DOMAIN memory
      BY <1>1, <1>2, <1>6, <3>1, <3>3, <3>4
    <3>6. Twice(memory, u)
      BY <1>2, <3>1, <3>5 DEF Twice
    <3>. QED
      BY <2>1, <3>6 DEF Resumed, Later
  <2>. QED
    BY <1>1, <1>2, <2>7, <2>8, <2>9 DEF Whole
<1>10. mode' = mode
  BY DEF Later
<1>. QED
  BY <1>7, <1>8, <1>9, <1>10 DEF HistoryOK, m

LEMMA BeginIsolatedStep == ASSUME IInv, NEW t \in Turns, BeginIsolated(t) PROVE IInv'
<1>1. PICK m, a : m = UserMessage(t) /\ a = Append(memory, m)
  OBVIOUS
<1>2. PICK r : r = [private |-> TRUE, memory |-> a, pending |-> <<m>>, system |-> system,
                  brings |-> 0, steps |-> NoSteps]
  OBVIOUS
<1>3. PICK n, s, w : n = system /\ s = saved[t] /\ w = how[t]
  OBVIOUS
<1>4. m \in Message /\ m.turn = t /\ m.kind = "user" /\ memory \in Seq(Message)
      /\ n \in Nat
  BY <1>1, <1>3, Types DEF UserMessage, Message, Kind
<1>5. a \in Seq(Message) /\ a # <<>> /\ Len(a) \in Nat /\ Len(a) > 0 /\ a[Len(a)] = m
  BY <1>1, <1>4, AppendFacts
<1>6. r \in Turn /\ r.private /\ r.memory = a /\ r.pending = <<m>> /\ r.steps.last = "none"
      /\ r.system = n /\ r.brings = 0
  BY <1>2, <1>3, <1>4, <1>5 DEF Turn, Steps, NoSteps
<1>7. /\ pc[t] = "start" /\ mode = "isolated" /\ pc' = [pc EXCEPT ![t] = "think"]
      /\ turn' = [turn EXCEPT ![t] = r] /\ UNCHANGED <<mode, limit, memory, system, lock, saved, resets>>
      /\ how' = [how EXCEPT ![t] = w] /\ saved' = [saved EXCEPT ![t] = s]
      /\ s \in Saved /\ w \in Hows
  BY <1>1, <1>2, <1>3, Types DEF BeginIsolated, Goto, bounds
<1>8. pc[t] # "done" /\ "think" \notin Unborn /\ "think" \in Labels
  BY <1>7 DEF Unborn, Labels, Called, Active
<1>9. Later /\ pc'[t] = "think"
  BY <1>7, <1>8, LaterFacts, Types
<1>10. HistoryOK(t, a, n)' /\ Last(a) = m /\ system' = n
  <2>1. Suffix(a, a, 0)
    BY <1>5 DEF Suffix
  <2>. QED
    BY <1>1, <1>3, <1>5, <1>7, <1>8, <1>9, <2>1, NewHistory
<1>11. s.status = "absent"
  BY <1>3, <1>7, Types DEF TurnFits, Unborn
<1>12. Fresh(t, a, <<m>>)
  <2>1. <<m>> \in Seq(Message) /\ <<m>> # <<>> /\ <<m>>[1] = m /\ DOMAIN <<m>> = {1} /\ Len(<<m>>) = 1
    BY <1>4
  <2>2. 1 + (Len(a) - 1) = Len(a) /\ 1 <= Len(a)
    BY <1>5
  <2>3. \A i \in DOMAIN <<m>> : <<m>>[i].turn = t /\ <<m>>[i] = a[i + (Len(a) - Len(<<m>>))]
    BY <1>4, <1>5, <2>1, <2>2
  <2>. QED
    BY <1>1, <2>1, <2>2, <2>3 DEF Fresh
<1>13. TurnFits(t, "think", w, r, a, n, s)'
  <2>1. Fresh(t, a, r.pending)' /\ Ends("think", Last(a).kind)'
    BY <1>4, <1>6, <1>10, <1>12 DEF Fresh, Ends
  <2>. QED
    BY <1>6, <1>8, <1>10, <1>11, <2>1 DEF TurnFits
<1>14. SavedFits(t, s)'
  BY <1>11 DEF SavedFits
<1>15. MemoryFits(memory, system)'
  <2>1. PICK x, y : x = memory /\ y = system
    OBVIOUS
  <2>2. MemoryFits(x, y)' /\ memory' = x /\ system' = y
    BY <1>7, <1>9, <2>1, MemoryStays, Types
  <2>. QED
    BY <2>2
<1>16. lock' # t
  BY <1>7, Types DEF IInv, TypeOK
<1>. QED
  BY <1>3, <1>6, <1>7, <1>8, <1>13, <1>14, <1>15, <1>16, TurnStep

LEMMA BeginSerializedStep == ASSUME IInv, NEW t \in Turns, BeginSerialized(t) PROVE IInv'
<1>1. PICK a, g : a = Append(memory, UserMessage(t)) /\ g = Trim(a, system)
  OBVIOUS
<1>2. PICK n, s, w, r : n = system /\ s = saved[t] /\ w = how[t] /\ r = turn[t]
  OBVIOUS
<1>3. /\ pc[t] = "start" /\ mode = "serialized" /\ lock = Nobody /\ lock' = t
      /\ pc' = [pc EXCEPT ![t] = "think"] /\ memory' = g
      /\ UNCHANGED <<mode, limit, system, resets>> /\ n = system'
      /\ how' = [how EXCEPT ![t] = w] /\ saved' = [saved EXCEPT ![t] = s]
      /\ turn' = [turn EXCEPT ![t] = r]
      /\ s \in Saved /\ w \in Hows /\ r \in Turn
  BY <1>1, <1>2, Types DEF BeginSerialized, Goto, bounds
<1>4. pc[t] # "done" /\ "think" \notin Unborn /\ "think" \in Labels
  BY <1>3 DEF Unborn, Labels, Called, Active
<1>5. Later /\ pc'[t] = "think"
  BY <1>3, <1>4, LaterFacts, Types
<1>6. UserMessage(t) \in Message /\ memory \in Seq(Message) /\ limit \in Nat /\ n \in Nat \ {0}
  BY <1>2, Types DEF UserMessage, Message, Kind
<1>7. a \in Seq(Message) /\ Len(a) \in Nat /\ Len(a) > 0
  BY <1>1, <1>6, AppendFacts
<1>8. /\ n < limit => n + Len(g) <= limit
      /\ \E d \in Nat : Suffix(g, a, d) /\ (d > 0 => Len(g) > 0)
  <2>1. /\ n < limit => n + Len(Trim(a, n)) <= limit
        /\ \E d \in Nat : Suffix(Trim(a, n), a, d) /\ (d > 0 => Len(Trim(a, n)) > 0)
    BY <1>6, <1>7, TrimFacts
  <2>. QED
    BY <1>1, <1>2, <2>1
<1>d. PICK d \in Nat : Suffix(g, a, d) /\ (d > 0 => Len(g) > 0)
  BY <1>8
<1>9. g # <<>> /\ g \in Seq(Message)
  <2>1. Len(g) \in Nat /\ Len(g) + d = Len(a) /\ g \in Seq(Message)
    BY <1>d DEF Suffix
  <2>2. Len(g) > 0
    BY <1>7, <1>d, <2>1
  <2>. QED
    BY <2>1, <2>2
<1>10. HistoryOK(t, g, n)'
  BY <1>1, <1>3, <1>4, <1>5, <1>9, <1>d, NewHistory
<1>11. s.status = "absent" /\ r = NoTurn
  BY <1>2, <1>3, Types DEF TurnFits, Unborn
<1>12. ~r.private /\ r.steps.last = "none"
  BY <1>11 DEF NoTurn, NoSteps
<1>13. TurnFits(t, "think", w, r, g, n, s)'
  BY <1>3, <1>4, <1>10, <1>11, <1>12 DEF TurnFits
<1>14. SavedFits(t, s)'
  BY <1>11 DEF SavedFits
<1>15. MemoryFits(memory, system)'
  <2>1. mode' # "isolated" /\ (n < limit' => n + Len(g) <= limit') /\ (n > 1 => Brought')
    BY <1>2, <1>3, <1>5, <1>8, Types DEF MemoryFits, Brought, Later
  <2>2. MemoryFits(g, n)'
    BY <1>6, <1>10, <2>1 DEF MemoryFits, HistoryOK, Own
  <2>. QED
    BY <1>3, <2>2
<1>16. "think" \in Called \ {"start"} /\ g = IF r.private THEN r.memory ELSE memory'
  BY <1>3, <1>12 DEF Called, Active
<1>. QED
  BY <1>3, <1>4, <1>12, <1>13, <1>14, <1>15, <1>16, TurnStep

\* A call leaves its turn scope with nothing committed.
LEMMA UnwindStep ==
  ASSUME IInv, NEW t \in Turns, pc[t] # "done", Unwind(t), UNCHANGED <<mode, limit, how, resets>>,
         NEW s \in Saved, saved' = [saved EXCEPT ![t] = s], SavedFits(t, s)
  PROVE  IInv'
<1>1. PICK w, x, y : w = how[t] /\ x = memory /\ y = system
  OBVIOUS
<1>2. /\ pc' = [pc EXCEPT ![t] = "out"] /\ turn' = [turn EXCEPT ![t] = NoTurn]
      /\ how' = [how EXCEPT ![t] = w] /\ w \in Hows /\ memory' = x /\ system' = y
      /\ lock' = IF lock = t THEN Nobody ELSE lock
  BY <1>1, Types DEF Unwind, Goto
<1>3. NoTurn \in Turn /\ ~NoTurn.private /\ "out" \in Labels /\ "out" \notin Unborn
      /\ "out" \notin Called
  BY DEF NoTurn, Turn, NoSteps, Steps, Labels, Unborn, Called, Active
<1>4. Later
  BY <1>2, <1>3, LaterFacts
<1>5. MemoryFits(memory, system)'
  <2>1. MemoryFits(x, y)'
    BY <1>1, <1>4, MemoryStays, Types
  <2>. QED
    BY <1>2, <2>1
<1>6. SavedFits(t, s)'
  BY <1>4, FitsStay
<1>7. TurnFits(t, "out", w, NoTurn, x, y, s)'
  BY <1>3 DEF TurnFits
<1>8. /\ lock' \in {lock, t, Nobody} /\ (lock \notin {t, Nobody} => UNCHANGED <<lock, memory, system>>)
      /\ lock' # t
  BY <1>1, <1>2, Types
<1>. QED
  BY <1>2, <1>3, <1>5, <1>6, <1>7, <1>8, TurnStep

\* Its checkpoint is left alone.
LEMMA DropStep ==
  ASSUME IInv, NEW t \in Turns, Cancel(t) \/ Close(t)
  PROVE  IInv'
<1>1. PICK s : s = saved[t]
  OBVIOUS
<1>2. s \in Saved /\ SavedFits(t, s) /\ saved' = [saved EXCEPT ![t] = s]
  BY <1>1, Types DEF Cancel, Close
<1>3. pc[t] # "done" /\ Unwind(t) /\ UNCHANGED <<mode, limit, how, resets>>
  BY DEF Cancel, Close, Active, bounds
<1>. QED
  BY <1>2, <1>3, UnwindStep

LEMMA PauseStep == ASSUME IInv, NEW t \in Turns, Pause(t) PROVE IInv'
<1>1. PICK h, n, q : h = History(t) /\ n = System(t) /\ q = turn[t].steps
  OBVIOUS
<1>2. PICK s : s = [status |-> "interrupted", messages |-> h, system |-> n, steps |-> q]
  OBVIOUS
<1>3. pc[t] = "dispatch" /\ saved' = [saved EXCEPT ![t] = s]
  BY <1>1, <1>2 DEF Pause
<1>4. /\ HistoryOK(t, h, n) /\ (mode = "isolated" => Last(h).kind \in {"ask", "ask_guarded"})
      /\ q.last # "none"
  BY <1>1, <1>3, Types DEF TurnFits, Called, Active, Ends
<1>5. q \in Steps /\ h \in Seq(Message) /\ n \in Nat
  BY <1>1, Types DEF Turn
<1>6. s \in Saved
  BY <1>2, <1>5 DEF Saved
<1>7. SavedFits(t, s)
  BY <1>2, <1>4 DEF SavedFits
<1>. QED
  BY <1>3, <1>6, <1>7, UnwindStep DEF Pause, bounds

LEMMA FailStep == ASSUME IInv, NEW t \in Turns, Fail(t) PROVE IInv'
<1>1. PICK z : z = saved[t]
  OBVIOUS
<1>2. PICK s : s = IF z.status = "absent" THEN z ELSE [z EXCEPT !.status = "failed"]
  OBVIOUS
<1>3. pc[t] \in {"think", "dispatch", "approved"} /\ Unwind(t) /\ UNCHANGED <<mode, limit, how, resets>>
  BY DEF Fail
<1>4. z \in Saved /\ SavedFits(t, z) /\ z.status # "completed"
  BY <1>1, <1>3, Types DEF TurnFits
<1>5. s \in Saved /\ s.messages = z.messages /\ s.system = z.system /\ s.steps = z.steps
  BY <1>2, <1>4 DEF Saved
<1>6. s.status = "absent" \/ z.status \in {"running", "interrupted", "failed"}
  BY <1>2, <1>4 DEF Saved
<1>7. s.status # "interrupted"
  BY <1>2, <1>4 DEF Saved
<1>8. SavedFits(t, s)
  BY <1>4, <1>5, <1>6, <1>7 DEF SavedFits
<1>9. saved' = [saved EXCEPT ![t] = s]
  BY <1>1, <1>2, Types DEF Fail
<1>. QED
  BY <1>3, <1>5, <1>8, <1>9, UnwindStep

\* A call moves on without a message, on the history it has.
LEMMA LabelStep ==
  ASSUME IInv, NEW t \in Turns, NEW label, NEW w \in Hows, NEW r \in Turn,
         pc[t] # "done", label \in Labels, label \in Unborn => pc[t] \in Unborn,
         pc' = [pc EXCEPT ![t] = label], how' = [how EXCEPT ![t] = w],
         turn' = [turn EXCEPT ![t] = r],
         UNCHANGED <<mode, limit, memory, system, lock, saved, resets>>,
         NEW h, h = IF r.private THEN r.memory ELSE memory,
         NEW n, n = IF r.private THEN r.system ELSE system, TurnFits(t, label, w, r, h, n, saved[t]),
         lock = t => mode = "serialized" /\ ~r.private /\ label \in Called \ {"start"}
  PROVE  IInv'
<1>1. PICK s, x, y : s = saved[t] /\ x = memory /\ y = system
  OBVIOUS
<1>2. Later
  BY LaterFacts
<1>3. TurnFits(t, label, w, r, h, n, s)' /\ SavedFits(t, s)'
  BY <1>1, <1>2, FitsStay
<1>4. MemoryFits(memory, system)'
  <2>1. MemoryFits(x, y)'
    BY <1>1, <1>2, MemoryStays, Types
  <2>. QED
    BY <1>1, <2>1
<1>5. /\ s \in Saved /\ saved' = [saved EXCEPT ![t] = s] 
      /\ h = IF r.private THEN r.memory ELSE memory'
      /\ n = IF r.private THEN r.system ELSE system'
  BY <1>1, Types
<1>. QED
  BY <1>3, <1>4, <1>5, TurnStep

LEMMA CallStep == ASSUME IInv, NEW t \in Turns, Call(t) PROVE IInv'
<1>1. PICK w \in {"run", "stream"} : how' = [how EXCEPT ![t] = w]
  BY DEF Call
<1>2. PICK r, h, n : /\ r = turn[t] /\ h = IF r.private THEN r.memory ELSE memory
                    /\ n = IF r.private THEN r.system ELSE system
  OBVIOUS
<1>3. /\ pc[t] = "new" /\ pc' = [pc EXCEPT ![t] = "start"] /\ turn' = [turn EXCEPT ![t] = r]
      /\ UNCHANGED <<mode, limit, memory, system, lock, saved, resets>> /\ r \in Turn /\ w \in Hows
  BY <1>2, Types DEF Call, Goto, bounds, Hows
<1>4. r = NoTurn /\ saved[t].status = "absent"
  BY <1>2, <1>3, Types DEF TurnFits, Unborn
<1>5. "start" \in Labels /\ pc[t] \in Unborn /\ pc[t] # "done" /\ lock # t
  BY <1>3, Types DEF Labels, Called, Active, Unborn, IInv, TypeOK
<1>6. TurnFits(t, "start", w, r, h, n, saved[t])
  BY <1>4 DEF TurnFits, Called, Active
<1>7. PICK label : label = "start"
  OBVIOUS
<1>8. /\ label \in Labels /\ (label \in Unborn => pc[t] \in Unborn) /\ pc' = [pc EXCEPT ![t] = label]
      /\ lock = t => mode = "serialized" /\ ~r.private /\ label \in Called \ {"start"}
      /\ TurnFits(t, label, w, r, h, n, saved[t])
  BY <1>3, <1>5, <1>6, <1>7
<1>9. how' = [how EXCEPT ![t] = w] /\ w \in Hows
  BY <1>1, <1>3
<1>. QED
  BY <1>2, <1>3, <1>5, <1>8, <1>9, LabelStep

LEMMA AbandonStep == ASSUME IInv, NEW t \in Turns, Abandon(t) PROVE IInv'
<1>1. PICK r, w, h, n : r = turn[t] /\ w = how[t] /\ h = History(t) /\ n = System(t)
  OBVIOUS
<1>2. /\ pc[t] \in {"think", "dispatch", "commit"} /\ pc' = [pc EXCEPT ![t] = "abandoned"]
      /\ turn' = [turn EXCEPT ![t] = r] /\ how' = [how EXCEPT ![t] = w]
      /\ UNCHANGED <<mode, limit, memory, system, lock, saved, resets>> /\ r \in Turn /\ w \in Hows
  BY <1>1, Types DEF Abandon, Goto, bounds
<1>3. h = (IF r.private THEN r.memory ELSE memory) /\ n = (IF r.private THEN r.system ELSE system)
  BY <1>1 DEF History, System
<1>4. TurnFits(t, pc[t], w, r, h, n, saved[t])
  BY <1>1, Types
<1>5. TurnFits(t, "abandoned", w, r, h, n, saved[t])
  BY <1>2, <1>4 DEF TurnFits, AllOf, Called, Active, Unborn, Ends
<1>6. /\ "abandoned" \in Labels /\ "abandoned" \notin Unborn /\ "abandoned" \in Called \ {"start"}
      /\ lock = t => mode = "serialized" /\ ~r.private
  BY <1>1, Types DEF Labels, Called, Active, Unborn, IInv, TypeOK
<1>. QED
  BY <1>2, <1>3, <1>5, <1>6, LabelStep

LEMMA ResumeStep == ASSUME IInv, NEW t \in Turns, Resume(t) PROVE IInv'
<1>1. PICK s, r, h, n : s = saved[t] /\ r = TurnOf(s) /\ h = s.messages /\ n = s.system
  OBVIOUS
<1>2. PICK label : label = IF s.status = "interrupted" THEN "approved"
                           ELSE IF s.steps.last # "none" THEN "dispatch" ELSE "think"
  OBVIOUS
<1>3. /\ pc[t] = "out" /\ s.status \in {"running", "interrupted", "failed"} /\ s \in Saved
      /\ pc' = [pc EXCEPT ![t] = label] /\ how' = [how EXCEPT ![t] = "resume"]
      /\ turn' = [turn EXCEPT ![t] = r] /\ UNCHANGED <<mode, limit, memory, system, lock, saved, resets>>
  BY <1>1, <1>2, Types DEF Resume, Goto
<1>4. /\ r \in Turn /\ r.private /\ r.memory = h /\ r.pending = h /\ r.steps = s.steps
      /\ r.system = n /\ r.brings = n
  BY <1>1, <1>3 DEF TurnOf, Turn, Saved
<1>5. /\ HistoryOK(t, h, n) /\ (s.steps.last = "none" => Len(h) > 0)
      /\ mode = "isolated" =>
           Last(h).kind \in IF s.steps.last = "none" THEN {"tool"} ELSE {"ask", "ask_guarded"}
      /\ s.status = "interrupted" => s.steps.last # "none"
  BY <1>1, <1>3, Types DEF SavedFits
<1>6. label \in {"think", "dispatch", "approved"} /\ (label = "think" <=> s.steps.last = "none")
  BY <1>2, <1>5
<1>7. TurnFits(t, label, "resume", r, h, n, saved[t])
  BY <1>1, <1>3, <1>4, <1>5, <1>6 DEF TurnFits, AllOf, Ends, Unborn
<1>8. /\ label \in Labels /\ label \notin Unborn /\ pc[t] # "done" /\ "resume" \in Hows /\ lock # t
  BY <1>3, <1>6, Types DEF Labels, Called, Active, Unborn, Hows, IInv, TypeOK
<1>. QED
  BY <1>3, <1>4, <1>7, <1>8, LabelStep

LEMMA ResetStep == ASSUME IInv, Reset PROVE IInv'
<1>1. /\ memory' = <<>> /\ resets' \in Nat /\ resets' > 0 /\ resets <= resets'
      /\ UNCHANGED <<mode, limit, system, lock, pc, how, turn, saved>>
  BY Types DEF Reset
<1>2. Later
  BY <1>1 DEF Later
<1>3. /\ <<>> \in Seq(Message) /\ DOMAIN <<>> = {} /\ Len(<<>>) = 0
  OBVIOUS
<1>4. TypeOK'
  BY <1>1, <1>3 DEF IInv, TypeOK
<1>5. MemoryOK'
  <2>1. InOnePiece(<<>>, system)' /\ \A u \in Turns : ~Twice(<<>>, u)
    BY <1>3 DEF InOnePiece, Twice
  <2>2. /\ system' \in Nat \ {0} /\ limit' \in Nat /\ (system' > 1 => Brought')
        /\ system' < limit' => system' + 0 <= limit'
    BY <1>1, Types DEF MemoryFits, Brought
  <2>3. MemoryFits(<<>>, system)'
    BY <1>3, <2>1, <2>2 DEF MemoryFits
  <2>. QED
    BY <1>1, <2>3 DEF MemoryOK
<1>6. ASSUME NEW t \in Turns
      PROVE  TurnOK(t)' /\ SavedOK(t)'
  <2>1. PICK k, l, v, q, y, z : /\ k = pc[t] /\ l = how[t] /\ v = turn[t] /\ z = saved[t]
                             /\ q = History(t) /\ y = System(t)
    OBVIOUS
  <2>2. TurnFits(t, k, l, v, q, y, z) /\ SavedFits(t, z)
    BY <2>1, Types
  <2>3. SavedFits(t, z)' /\ TurnFits(t, k, l, v, q, y, z)'
    BY <1>1, <1>2, <2>2, FitsStay
  <2>4. pc'[t] = k /\ how'[t] = l /\ turn'[t] = v /\ saved'[t] = z
    BY <1>1, <2>1
  <2>5. PICK x : x = History(t)' /\ System(t)' = y
    BY <1>1, <2>1 DEF System
  <2>6. TurnFits(t, k, l, v, x, y, z)'
    <3>1. CASE v.private
      BY <2>1, <2>3, <2>4, <2>5, <3>1 DEF History
    <3>2. CASE ~v.private /\ k \in Called \ {"start"}
      <4>1. mode' = "serialized" /\ x = <<>>
        BY <1>1, <2>2, <2>4, <2>5, <3>2 DEF TurnFits, History
      <4>2. HistoryOK(t, <<>>, y)'
        BY <1>1, <1>3, <2>1, <4>1, Types DEF HistoryOK, Own
      <4>. QED
        BY <2>3, <3>2, <4>1, <4>2 DEF TurnFits
    <3>3. CASE k \notin Called \ {"start"}
      BY <2>3, <3>3 DEF TurnFits, Called, Active
    <3>. QED
      BY <3>1, <3>2, <3>3
  <2>. QED
    BY <2>3, <2>4, <2>5, <2>6 DEF TurnOK, SavedOK
<1>. QED
  BY <1>1, <1>4, <1>5, <1>6 DEF IInv

-----------------------------------------------------------------------------
(* A turn is committed.                                                    *)

\* What a private turn brings to the memory, with n system messages.
Brings(t, p, n) ==
  /\ p \in Seq(Message) /\ n \in Nat /\ (n > 0 => Len(p) > 1)
  /\ \A i \in DOMAIN p : pc[p[i].turn] \notin Unborn
  /\ how[t] = "resume" \/ (n = 0 /\ \A i \in DOMAIN p : p[i].turn = t)
  /\ mode = "isolated" =>
       /\ InOnePiece(p, n) /\ p # <<>> /\ Last(p).kind = "answer"
       /\ \A i \in DOMAIN p : p[i].turn = t \/ pc[p[i].turn] = "done"
       /\ \A u \in Turns : Twice(p, u) => Resumed(u)

LEMMA PendingBrings ==
  ASSUME IInv, NEW t \in Turns, pc[t] = "commit", turn[t].private
  PROVE  Brings(t, turn[t].pending, turn[t].brings)
<1>1. PICK h, k, p, n, w : /\ h = History(t) /\ k = System(t) /\ w = how[t]
                          /\ p = turn[t].pending /\ n = turn[t].brings
  OBVIOUS
<1>2. /\ HistoryOK(t, h, k) /\ n \in Nat /\ k \in Nat
      /\ mode = "isolated" => Whole(t, h, k) /\ Last(h).kind = "answer"
      /\ \/ w = "resume" /\ p = h /\ n = k /\ Len(h) > 1
         \/ Fresh(t, h, p) /\ n = 0
  <2>1. turn[t] \in Turn /\ TurnFits(t, "commit", w, turn[t], h, k, saved[t]) /\ k \in Nat
    BY <1>1, Types
  <2>. QED
    BY <1>1, <2>1 DEF TurnFits, Called, Active, HistoryOK, Ends, AllOf, Turn
<1>3. h \in Seq(Message) /\ \A i \in DOMAIN h : pc[h[i].turn] \notin Unborn
  BY <1>2 DEF HistoryOK, Own
<1>5. CASE w = "resume" /\ p = h /\ n = k /\ Len(h) > 1
  BY <1>1, <1>2, <1>3, <1>5 DEF Brings, Whole
<1>6. CASE Fresh(t, h, p) /\ n = 0
  <2>1. PICK d : d = Len(h) - Len(p)
    OBVIOUS
  <2>2. /\ p \in Seq(Message) /\ p # <<>> /\ p[1] = UserMessage(t)
        /\ \A i \in DOMAIN p : p[i].turn = t
    BY <1>6 DEF Fresh
  <2>3. Suffix(p, h, d)
    <3>1. Len(p) <= Len(h) /\ \A i \in DOMAIN p : p[i] = h[i + d]
      BY <1>6, <2>1 DEF Fresh
    <3>2. Len(p) \in Nat /\ Len(h) \in Nat
      BY <1>3, <2>2
    <3>. QED
      BY <2>1, <2>2, <3>1, <3>2 DEF Suffix
  <2>4. p[1].kind = "user" /\ (mode = "isolated" => InOnePiece(h, k))
    BY <1>2, <2>2 DEF UserMessage, Whole
  <2>5. mode = "isolated" => InOnePiece(p, n)
    <3>1. mode = "isolated" => \A i \in 1..Len(p)-1 : Follows(p[i], p[i+1])
      <4>1. mode = "isolated" => InOnePiece(p, k)
        <5>1. d = 0 => (Cut(h, k) => Cut(h, k))
          OBVIOUS
        <5>. QED
          BY <1>3, <2>2, <2>3, <2>4, SuffixInOnePiece
      <4>. QED
        BY <4>1 DEF InOnePiece
    <3>. QED
      BY <2>4, <3>1 DEF InOnePiece
  <2>6. Last(p) = Last(h) /\ h # <<>>
    BY <1>3, <2>2, <2>3, SuffixFacts
  <2>7. mode = "isolated" => \A u \in Turns : Twice(p, u) => Resumed(u)
    <3>1. \A u \in Turns : Twice(p, u) => Twice(h, u)
      BY <1>3, <2>3, SuffixFacts
    <3>. QED
      BY <1>2, <3>1 DEF Whole
  <2>. QED
    BY <1>1, <1>2, <1>6, <2>2, <2>5, <2>6, <2>7 DEF Brings, Unborn
<1>. QED
  BY <1>2, <1>5, <1>6

LEMMA JoinInOnePiece ==
  ASSUME limit \in Nat, NEW g \in Seq(Message), NEW p \in Seq(Message),
         NEW m \in Nat, NEW n \in Nat,
         InOnePiece(g, m), InOnePiece(p, n), p # <<>>, g # <<>> => Last(g).kind = "answer"
  PROVE  InOnePiece(g \o p, m + n)
<1>1. PICK a, k, l : a = g \o p /\ k = Len(g) /\ l = Len(p)
  OBVIOUS
<1>2. /\ a \in Seq(Message) /\ Len(a) = k + l /\ k \in Nat /\ l \in Nat \ {0}
      /\ DOMAIN g = 1..k /\ DOMAIN p = 1..l /\ DOMAIN a = 1..(k + l)
      /\ \A i \in 1..k : a[i] = g[i]
      /\ \A j \in 1..l : a[k + j] = p[j]
  BY <1>1, ConcatFacts
<1>3. a[1].kind = "user" \/ Cut(a, m + n)
  <2>1. CASE g = <<>>
    <3>1. k = 0 /\ 1 \in 1..l
      BY <1>1, <1>2, <2>1
    <3>2. a[1] = p[1] /\ Len(p) <= Len(a)
      BY <1>1, <1>2, <3>1
    <3>3. Cut(p, n) => Cut(a, m + n)
      BY <1>2, <3>2, CutFacts
    <3>. QED
      BY <3>2, <3>3 DEF InOnePiece
  <2>2. CASE g # <<>>
    <3>1. 1 \in 1..k
      BY <1>1, <1>2, <2>2
    <3>2. a[1] = g[1] /\ Len(g) <= Len(a)
      BY <1>1, <1>2, <3>1
    <3>3. Cut(g, m) => Cut(a, m + n)
      BY <1>2, <3>2, CutFacts
    <3>. QED
      BY <2>2, <3>2, <3>3 DEF InOnePiece
  <2>. QED
    BY <2>1, <2>2
<1>4. ASSUME NEW i \in 1..Len(a)-1
      PROVE  Follows(a[i], a[i+1])
  <2>1. CASE i < k
    <3>1. i \in 1..k-1 /\ i \in 1..k /\ i + 1 \in 1..k
      BY <1>2, <2>1
    <3>. QED
      BY <1>1, <1>2, <3>1 DEF InOnePiece
  <2>2. CASE i = k
    <3>1. k \in 1..k /\ 1 \in 1..l
      BY <1>2, <2>2
    <3>2. a[i] = Last(g) /\ a[i+1] = p[1] /\ g # <<>>
      BY <1>1, <1>2, <2>2, <3>1 DEF Last
    <3>3. a[i].kind = "answer" /\ (a[i+1].kind = "user" \/ Trims)
      BY <3>2 DEF InOnePiece, Cut
    <3>. QED
      BY <3>3 DEF Follows
  <2>3. CASE i > k
    <3>1. PICK j : j = i - k
      OBVIOUS
    <3>2. j \in 1..l-1 /\ j \in 1..l /\ j + 1 \in 1..l /\ k + j = i /\ k + (j + 1) = i + 1
      BY <1>2, <2>3, <3>1
    <3>3. a[i] = p[j] /\ a[i+1] = p[j+1]
      BY <1>2, <3>2
    <3>. QED
      BY <1>1, <3>2, <3>3 DEF InOnePiece
  <2>. QED
    BY <1>2, <2>1, <2>2, <2>3
<1>. QED
  BY <1>1, <1>3, <1>4 DEF InOnePiece

\* What extend leaves of the memory and what is added to it: the end of it, and all of
\* it unless there is a limit, which it then reaches.
LEMMA ExtendedFacts ==
  ASSUME limit \in Nat, memory \in Seq(Message), system \in Nat \ {0},
         NEW p \in Seq(Message), NEW n \in Nat, NEW g \in Extended(p, n)
  PROVE  /\ system + n < limit => system + n + Len(g) <= limit
         /\ \E d \in Nat : Suffix(g, memory \o p, d) /\ (d > 0 => Cut(g, system + n))
<1>1. PICK a, m : a = memory \o p /\ m = system + n
  OBVIOUS
<1>2. a \in Seq(Message) /\ Len(a) \in Nat /\ m \in Nat \ {0}
  BY <1>1, ConcatFacts
<1>3. CASE system < limit /\ limit <= m
  <2>1. PICK i \in 1..(Len(a) - 1) : g = SubSeq(a, i, Len(a))
    BY <1>1, <1>3 DEF Extended
  <2>2. PICK d : d = i - 1
    OBVIOUS
  <2>3. d \in Nat /\ d + 1 = i /\ d < Len(a)
    BY <1>2, <2>1, <2>2
  <2>4. Suffix(g, a, d)
    BY <1>2, <2>1, <2>3, SubSeqSuffix
  <2>5. Cut(g, m)
    <3>1. g \in Seq(Message)
      BY <2>4 DEF Suffix
    <3>2. Len(g) \in Nat
      BY <3>1
    <3>. QED
      BY <1>2, <1>3, <3>2 DEF Cut, Trims
  <2>6. d \in Nat /\ Suffix(g, memory \o p, d) /\ Cut(g, system + n)
    BY <1>1, <2>3, <2>4, <2>5
  <2>7. ~(system + n < limit)
    BY <1>1, <1>2, <1>3
  <2>. QED
    BY <2>6, <2>7
<1>4. CASE ~(system < limit /\ limit <= m)
  <2>1. g = Trim(a, m)
    BY <1>1, <1>4 DEF Extended
  <2>2. /\ m < limit => m + Len(g) <= limit
        /\ \E d \in Nat : Suffix(g, a, d) /\ (d > 0 => Trims /\ m + Len(g) = limit)
    BY <1>2, <2>1, TrimFacts
  <2>3. PICK d \in Nat : Suffix(g, a, d) /\ (d > 0 => Trims /\ m + Len(g) = limit)
    BY <2>2
  <2>4. Len(g) \in Nat
    BY <2>3 DEF Suffix
  <2>5. d > 0 => Cut(g, m)
    BY <1>2, <2>3, <2>4 DEF Cut
  <2>. QED
    BY <1>1, <2>2, <2>3, <2>5
<1>. QED
  BY <1>3, <1>4

\* Where system messages are added, more than one other is: one can be left behind them.
LEMMA ExtendedSomehow ==
  ASSUME memory \in Seq(Message), NEW p \in Seq(Message), NEW n \in Nat, n > 0 => Len(p) > 1,
         system \in Nat, limit \in Nat
  PROVE  Extended(p, n) # {}
<1>1. PICK a, l, k : a = memory \o p /\ l = Len(memory) /\ k = Len(p)
  OBVIOUS
<1>2. Len(a) = l + k /\ l \in Nat /\ k \in Nat
  BY <1>1, ConcatFacts
<1>3. CASE system < limit /\ limit <= system + n
  <2>1. n > 0
    BY <1>3
  <2>2. l + 1 \in {i \in 1..(Len(a) - 1) : l <= i}
    BY <1>1, <1>2, <2>1
  <2>3. SubSeq(a, l + 1, Len(a)) \in Extended(p, n)
    BY <1>1, <1>3, <2>2 DEF Extended
  <2>. QED
    BY <2>3
<1>. QED
  BY <1>3 DEF Extended

\* The memory, then.
LEMMA CommittedMemory ==
  ASSUME IInv, Later, NEW t \in Turns, pc[t] # "done", pc'[t] = "done", how'[t] = how[t],
         NEW p, NEW n, Brings(t, p, n), NEW g \in Extended(p, n), NEW m, m = system + n
  PROVE  MemoryFits(g, m)'
<1>1. PICK a, w : a = memory \o p /\ w = how[t]
  OBVIOUS
<1>2. /\ memory \in Seq(Message) /\ p \in Seq(Message) /\ limit \in Nat /\ n \in Nat
      /\ system \in Nat \ {0} /\ m \in Nat \ {0}
  BY Types DEF Brings
<1>3. a \in Seq(Message)
  BY <1>1, <1>2, ConcatFacts
<1>4. (m < limit => m + Len(g) <= limit) /\ \E d \in Nat : Suffix(g, a, d) /\ (d > 0 => Cut(g, m))
  BY <1>1, <1>2, ExtendedFacts
<1>5. PICK d \in Nat : Suffix(g, a, d) /\ (d > 0 => Cut(g, m))
  BY <1>4
<1>6. /\ g \in Seq(Message)
      /\ \A i \in DOMAIN g : i + d \in DOMAIN a /\ g[i] = a[i + d]
      /\ g # <<>> => Last(g) = Last(a)
      /\ \A u \in Turns : Twice(g, u) => Twice(a, u)
  <2>1. Suffix(g, a, d)
    BY <1>5
  <2>2. \A i \in DOMAIN g : i + d \in DOMAIN a /\ g[i] = a[i + d]
    BY <1>3, <2>1, SuffixFacts
  <2>3. g # <<>> => Last(g) = Last(a)
    BY <1>3, <2>1, SuffixFacts
  <2>4. \A u \in Turns : Twice(g, u) => Twice(a, u)
    BY <1>3, <2>1, SuffixFacts
  <2>. QED
    BY <2>1, <2>2, <2>3, <2>4 DEF Suffix
<1>7. \A i \in DOMAIN a : \/ \E j \in DOMAIN memory : a[i] = memory[j]
                          \/ \E j \in DOMAIN p : a[i] = p[j]
  <2>1. PICK k, l : k = Len(memory) /\ l = Len(p)
    OBVIOUS
  <2>2. /\ k \in Nat /\ l \in Nat /\ DOMAIN memory = 1..k /\ DOMAIN p = 1..l /\ DOMAIN a = 1..(k + l)
        /\ \A j \in 1..k : a[j] = memory[j]
        /\ \A j \in 1..l : a[k + j] = p[j]
    BY <1>1, <1>2, <2>1, ConcatFacts
  <2>3. \A j \in DOMAIN memory : a[j] = memory[j]
    BY <2>2
  <2>4. ASSUME NEW i \in DOMAIN a, i \notin DOMAIN memory
        PROVE  \E j \in DOMAIN p : a[i] = p[j]
    <3>1. PICK j : j = i - k
      OBVIOUS
    <3>2. j \in 1..l /\ k + j = i
      BY <2>2, <2>4, <3>1
    <3>3. a[k + j] = p[j]
      BY <2>2, <3>2
    <3>. QED
      BY <2>2, <3>2, <3>3
  <2>. QED
    BY <2>3, <2>4, Zenon
<1>8. \A i \in DOMAIN g : \/ \E j \in DOMAIN memory : g[i] = memory[j]
                          \/ \E j \in DOMAIN p : g[i] = p[j]
  BY <1>6, <1>7
<1>9. /\ \A j \in DOMAIN memory : memory[j].turn \in Turns /\ pc[memory[j].turn] \notin Unborn
      /\ \A j \in DOMAIN p : p[j].turn \in Turns /\ pc[p[j].turn] \notin Unborn
  BY <1>2, Types, MessageFacts DEF MemoryFits, Brings
<1>10. \A i \in DOMAIN g : pc'[g[i].turn] \notin Unborn
  BY <1>8, <1>9 DEF Later
<1>11. (Cut(g, m) <=> Cut(g, m)') /\ limit' = limit /\ mode' = mode
  BY DEF Later, Trims, Cut
<1>b. m > 1 => Brought'
  <2>1. CASE n = 0
    BY <1>2, <2>1, Types DEF MemoryFits, Brought, Later
  <2>2. CASE n # 0
    BY <2>2 DEF Brings, Brought
  <2>. QED
    BY <2>1, <2>2
<1>12. ASSUME mode = "isolated"
       PROVE  /\ InOnePiece(g, m)' /\ (g # <<>> => Last(g).kind = "answer")
              /\ \A i \in DOMAIN g : pc'[g[i].turn] = "done"
              /\ \A u \in Turns : Twice(g, u) => Resumed(u)'
  <2>1. /\ InOnePiece(memory, system) /\ (memory # <<>> => Last(memory).kind = "answer")
        /\ \A i \in DOMAIN memory : pc[memory[i].turn] = "done"
        /\ \A u \in Turns : Twice(memory, u) => Resumed(u)
    BY <1>12, Types DEF MemoryFits
  <2>2. /\ InOnePiece(p, n) /\ p # <<>> /\ Last(p).kind = "answer"
        /\ \A i \in DOMAIN p : p[i].turn = t \/ pc[p[i].turn] = "done"
        /\ \A u \in Turns : Twice(p, u) => Resumed(u)
        /\ w = "resume" \/ \A i \in DOMAIN p : p[i].turn = t
    BY <1>1, <1>12 DEF Brings
  <2>3. InOnePiece(g, m)'
    <3>1. InOnePiece(a, m)
      BY <1>1, <1>2, <2>1, <2>2, JoinInOnePiece
    <3>2. InOnePiece(g, m)
      BY <1>3, <1>5, <3>1, SuffixInOnePiece
    <3>3. \A x, y : Follows(x, y)' <=> Follows(x, y)
      BY DEF Follows, Later, Trims
    <3>. QED
      BY <1>11, <3>2, <3>3 DEF InOnePiece
  <2>4. Last(a) = Last(p)
    <3>1. PICK k, l : k = Len(memory) /\ l = Len(p)
      OBVIOUS
    <3>2. Len(a) = k + l /\ k \in Nat /\ l \in Nat /\ l > 0 /\ \A j \in 1..l : a[k + j] = p[j]
      BY <1>1, <1>2, <2>2, <3>1, ConcatFacts
    <3>3. a[k + l] = p[l]
      BY <3>2
    <3>. QED
      BY <3>1, <3>2, <3>3 DEF Last
  <2>5. g # <<>> => Last(g).kind = "answer"
    BY <1>6, <2>2, <2>4
  <2>6. \A i \in DOMAIN g : pc'[g[i].turn] = "done"
    BY <1>8, <1>9, <2>1, <2>2 DEF Later
  <2>7. ASSUME NEW u \in Turns, Twice(g, u)
        PROVE  Resumed(u)'
    <3>1. PICK i, j \in DOMAIN a : i # j /\ a[i] = UserMessage(u) /\ a[j] = UserMessage(u)
      BY <1>6, <2>7 DEF Twice
    <3>2. UserMessage(u).turn = u
      BY DEF UserMessage
    <3>3. Resumed(u) => Resumed(u)'
      BY DEF Resumed, Later
    <3>4. CASE Twice(memory, u) \/ Twice(p, u)
      BY <2>1, <2>2, <3>3, <3>4
    <3>5. CASE ~Twice(memory, u) /\ ~Twice(p, u)
      <4>1. PICK k, l : k = Len(memory) /\ l = Len(p)
        OBVIOUS
      <4>2. /\ k \in Nat /\ l \in Nat /\ DOMAIN memory = 1..k /\ DOMAIN p = 1..l
            /\ DOMAIN a = 1..(k + l)
            /\ \A x \in 1..k : a[x] = memory[x]
            /\ \A x \in 1..l : a[k + x] = p[x]
        BY <1>1, <1>2, <4>1, ConcatFacts
      <4>3. ~(i \in 1..k /\ j \in 1..k)
        BY <3>1, <3>5, <4>2 DEF Twice
      <4>4. ~(i \notin 1..k /\ j \notin 1..k)
        <5> SUFFICES ASSUME i \notin 1..k, j \notin 1..k
                     PROVE  FALSE
          OBVIOUS
        <5>1. PICK x, y : x = i - k /\ y = j - k
          OBVIOUS
        <5>2. x \in 1..l /\ y \in 1..l /\ i = k + x /\ j = k + y /\ x # y
          <6>1. i \in 1..(k + l) /\ j \in 1..(k + l) /\ i # j /\ k \in Nat /\ l \in Nat
            BY <3>1, <4>2
          <6>. QED
            BY <5>1, <6>1
        <5>3. p[x] = UserMessage(u) /\ p[y] = UserMessage(u)
          BY <3>1, <4>2, <5>2
        <5>. QED
          BY <3>5, <4>2, <5>2, <5>3 DEF Twice
      <4>5. \E x \in DOMAIN memory : memory[x] = UserMessage(u)
        <5>1. i \in 1..k \/ j \in 1..k
          BY <4>4
        <5>. QED
          BY <3>1, <4>2, <5>1
      <4>6. \E x \in DOMAIN p : p[x] = UserMessage(u)
        <5>1. PICK x : x \in DOMAIN a /\ x \notin 1..k /\ a[x] = UserMessage(u)
          BY <3>1, <4>3
        <5>2. x - k \in 1..l /\ x = k + (x - k)
          BY <4>2, <5>1
        <5>. QED
          BY <4>2, <5>1, <5>2
      <4>7. u # t /\ w = "resume"
        BY <2>1, <2>2, <3>2, <4>5, <4>6
      <4>. QED
        BY <1>1, <4>7 DEF Resumed
    <3>. QED
      BY <3>4, <3>5
  <2>. QED
    BY <2>3, <2>5, <2>6, <2>7
<1>. QED
  BY <1>2, <1>4, <1>6, <1>10, <1>11, <1>b, <1>12 DEF MemoryFits

LEMMA CommitStep == ASSUME IInv, NEW t \in Turns, Commit(t) PROVE IInv'
<1>1. PICK w, s, p, n, x, y, h, m : /\ w = how[t] /\ s = saved[t] /\ x = memory /\ y = system
                                    /\ p = turn[t].pending /\ n = turn[t].brings
                                    /\ h = memory' /\ m = system'
  OBVIOUS
<1>2. /\ pc[t] = "commit" /\ pc' = [pc EXCEPT ![t] = "done"] /\ how' = [how EXCEPT ![t] = w]
      /\ turn' = [turn EXCEPT ![t] = NoTurn] /\ saved' = [saved EXCEPT ![t] = s]
      /\ UNCHANGED <<mode, limit, resets>> /\ w \in Hows /\ s \in Saved
  BY <1>1, Types DEF Commit, Goto, bounds
<1>3. /\ "done" \in Labels /\ "done" \notin Unborn /\ "done" \notin Called /\ pc[t] # "done"
      /\ NoTurn \in Turn /\ ~NoTurn.private
  BY <1>2 DEF Labels, Unborn, Called, Active, NoTurn, Turn, NoSteps, Steps
<1>4. Later /\ pc'[t] = "done" /\ how'[t] = how[t]
  BY <1>1, <1>2, <1>3, LaterFacts, Types
<1>5. TurnFits(t, "done", w, NoTurn, h, m, s)'
  BY <1>3 DEF TurnFits
<1>6. SavedFits(t, s)'
  BY <1>1, <1>4, FitsStay
<1>7. CASE turn[t].private
  <2>1. lock = Nobody /\ lock' = lock /\ h \in Extended(p, n) /\ m = system + n
    BY <1>1, <1>7 DEF Commit
  <2>2. Brings(t, p, n)
    BY <1>1, <1>2, <1>7, PendingBrings
  <2>3. MemoryFits(h, m)'
    BY <1>3, <1>4, <2>1, <2>2, CommittedMemory
  <2>4. MemoryFits(memory, system)'
    BY <1>1, <2>3
  <2>5. lock' # t
    BY <2>1, Types
  <2>. QED
    BY <1>1, <1>2, <1>3, <1>5, <1>6, <2>1, <2>4, <2>5, TurnStep
<1>8. CASE ~turn[t].private
  <2>1. lock' = Nobody /\ memory' = x /\ system' = y
    BY <1>1, <1>8 DEF Commit
  <2>2. lock = t
    BY <1>2, <1>8, Types DEF TurnFits, Called, Active
  <2>3. MemoryFits(memory, system)'
    <3>1. MemoryFits(x, y)'
      BY <1>1, <1>4, MemoryStays, Types
    <3>. QED
      BY <2>1, <3>1
  <2>4. lock' # t
    BY <2>1, Types
  <2>. QED
    BY <1>1, <1>2, <1>3, <1>5, <1>6, <2>1, <2>2, <2>3, <2>4, TurnStep
<1>. QED
  BY <1>7, <1>8

-----------------------------------------------------------------------------
(* The invariant holds.                                                    *)

LEMMA InitOK == Init => IInv
<1> SUFFICES ASSUME Init
             PROVE  IInv
  OBVIOUS
<1>1. /\ <<>> \in Seq(Message) /\ DOMAIN <<>> = {} /\ Len(<<>>) = 0
  OBVIOUS
<1>2. NoTurn \in Turn /\ Unsaved \in Saved
  BY <1>1 DEF NoTurn, Turn, NoSteps, Steps, Unsaved, Saved
<1>3. TypeOK
  BY <1>1, <1>2 DEF Init, TypeOK
<1>4. MemoryOK
  <2>1. limit \in Nat
    BY AgentAssumption DEF Init
  <2>. QED
    BY <1>1, <2>1 DEF Init, MemoryOK, MemoryFits, InOnePiece, Twice
<1>5. ASSUME NEW t \in Turns
      PROVE  TurnOK(t) /\ SavedOK(t)
  <2>1. pc[t] = "new" /\ turn[t] = NoTurn /\ saved[t] = Unsaved
    BY DEF Init
  <2>2. Unsaved.status = "absent"
    BY DEF Unsaved
  <2>. QED
    BY <2>1, <2>2 DEF TurnOK, TurnFits, SavedOK, SavedFits, Called, Active
<1>. QED
  BY <1>3, <1>4, <1>5 DEF Init, IInv

LEMMA StutterStep == ASSUME IInv, UNCHANGED vars PROVE IInv'
<1>1. UNCHANGED <<mode, limit, memory, system, lock, pc, how, turn, saved, resets>>
  BY DEF vars
<1>2. Later
  BY <1>1, Types DEF Later
<1>3. TypeOK' /\ resets' \in Nat
  BY <1>1 DEF IInv, TypeOK
<1>4. MemoryOK'
  <2>1. PICK x, y : x = memory /\ y = system
    OBVIOUS
  <2>2. MemoryFits(x, y)'
    BY <1>2, <2>1, MemoryStays, Types
  <2>. QED
    BY <1>1, <2>1, <2>2 DEF MemoryOK
<1>5. ASSUME NEW t \in Turns
      PROVE  TurnOK(t)' /\ SavedOK(t)'
  <2>1. PICK k, l, v, q, y, z : /\ k = pc[t] /\ l = how[t] /\ v = turn[t] /\ z = saved[t]
                             /\ q = History(t) /\ y = System(t)
    OBVIOUS
  <2>2. TurnFits(t, k, l, v, q, y, z)' /\ SavedFits(t, z)'
    BY <1>1, <1>2, <2>1, FitsStay, Types
  <2>3. pc'[t] = k /\ how'[t] = l /\ turn'[t] = v /\ History(t)' = q /\ System(t)' = y /\ saved'[t] = z
    BY <1>1, <2>1 DEF History, System
  <2>. QED
    BY <2>2, <2>3 DEF TurnOK, SavedOK
<1>. QED
  BY <1>3, <1>4, <1>5 DEF IInv

LEMMA StepOK == IInv /\ [Next]_vars => IInv'
<1> SUFFICES ASSUME IInv, [Next]_vars
             PROVE  IInv'
  OBVIOUS
<1>1. ASSUME NEW t \in Turns, Call(t) \/ Resume(t) \/ Abandon(t)
      PROVE  IInv'
  BY <1>1, CallStep, ResumeStep, AbandonStep
<1>2. ASSUME NEW t \in Turns, Advance(t)
      PROVE  IInv'
  BY <1>2, BeginIsolatedStep, BeginSerializedStep, AskStep, PauseStep, DispatchStep, AnswerStep,
     CommitStep DEF Advance
<1>3. ASSUME NEW t \in Turns, Fail(t) \/ Cancel(t) \/ Close(t)
      PROVE  IInv'
  BY <1>3, FailStep, DropStep
<1>4. CASE Reset
  BY <1>4, ResetStep
<1>5. CASE UNCHANGED vars
  BY <1>5, StutterStep
<1>. QED
  BY <1>1, <1>2, <1>3, <1>4, <1>5 DEF Next

LEMMA Invariance == Spec => []IInv
BY InitOK, StepOK, PTL DEF Spec

-----------------------------------------------------------------------------
(* What it gives.                                                          *)

\* A prompt that is counted more than once is there twice.
LEMMA TwiceFacts ==
  ASSUME NEW h \in Seq(Message), NEW t,
         Cardinality({i \in DOMAIN h : h[i] = UserMessage(t)}) > 1
  PROVE  Twice(h, t)
<1> DEFINE S == {i \in DOMAIN h : h[i] = UserMessage(t)}
<1>1. SUFFICES ASSUME ~Twice(h, t)
               PROVE  FALSE
  OBVIOUS
<1>2. (\A i, j \in S : i = j) /\ Cardinality(S) > 1
  BY <1>1 DEF Twice
<1> HIDE DEF S
<1>3. CASE S = {}
  BY <1>2, <1>3, FS_EmptySet
<1>4. CASE S # {}
  <2>1. PICK i : i \in S
    BY <1>4
  <2>2. S = {i}
    BY <1>2, <2>1
  <2>3. Cardinality({i}) = 1
    BY FS_Singleton
  <2>. QED
    BY <1>2, <2>2, <2>3
<1>. QED
  BY <1>3, <1>4

LEMMA TurnsAreWholeFollows == IInv => TurnsAreWhole
<1> SUFFICES ASSUME IInv
             PROVE  TurnsAreWhole
  OBVIOUS
<1>1. memory \in Seq(Message) /\ MemoryFits(memory, system)
  BY Types
<1>2. ASSUME NEW t \in Turns, Begun(t)
      PROVE  HistoryOK(t, History(t), System(t))
  BY <1>2, Types DEF Begun, TurnFits
<1>3. NoPartialTurns
  BY <1>1, <1>2 DEF NoPartialTurns, MemoryFits, HistoryOK, Whole
<1>4. FailedCommitsNothing
  BY <1>1 DEF FailedCommitsNothing, MemoryFits
<1>5. OnlyResumesRepeat
  <2>1. mode = "isolated" => \A u \in Turns : Twice(memory, u) => Resumed(u)
    BY <1>1 DEF MemoryFits
  <2>. QED
    BY <1>1, <2>1, TwiceFacts DEF OnlyResumesRepeat, Resumed, Brought, MemoryFits
<1>6. TrimKeepsPrompts
  <2>1. system < limit => system + Len(memory) <= limit
    BY <1>1 DEF MemoryFits
  <2>. QED
    BY <1>2, <2>1 DEF TrimKeepsPrompts, HistoryOK, Own
<1>7. TypeOK
  BY DEF IInv
<1>. QED
  BY <1>3, <1>4, <1>5, <1>6, <1>7 DEF TurnsAreWhole

LEMMA OwnTurnIsLastFollows == IInv => OwnTurnIsLast
<1> SUFFICES ASSUME IInv, NEW t \in Turns, Begun(t)
             PROVE  Own(t, History(t), System(t))
  BY DEF OwnTurnIsLast, Own
<1>. QED
  BY Types DEF Begun, TurnFits, HistoryOK

\* For any turns, limits and numbers of resumes, failures and resets, every state has
\* its type, and across awaits only a serialized turn under way holds the lock
\* (agent.py:283).
THEOREM TypeCorrect == Spec => []TypeOK
<1>1. IInv => TypeOK
  BY DEF IInv
<1>. QED
  BY <1>1, Invariance, PTL

\* "No run can ever see a half-written turn ... or another run's user message interleaved
\* into its own history", whatever is cancelled, abandoned, paused, resumed or trimmed
\* (agent.py:187-195): the memory of an isolated agent, and the copy of every turn
\* under way, are whole turns. Only a resumed turn is remembered twice, and only it
\* brings system messages again (agent.py:727-729, 736); they take the room of turns
\* (memory.py:53-58), down to the slice [-0:], and turns stay whole all the same.
THEOREM TurnsWhole == Spec => []TurnsAreWhole
BY Invariance, TurnsAreWholeFollows, PTL

\* In either mode, from its prompt on a turn's history holds its own messages only:
\* _turn gives it a copy or the lock (agent.py:314-341).
THEOREM OwnTurnStaysLast == Spec => []OwnTurnIsLast
BY Invariance, OwnTurnIsLastFollows, PTL

-----------------------------------------------------------------------------
(* Every call ends, but behind an abandoned stream.                        *)

\* What is left of a call that stands at a label and was asked for so many calls.
Todo(label, asked) ==
  CASE label = "start" -> 2 * MaxRounds + 3
    [] label \in {"dispatch", "approved"} -> 2 * (MaxRounds - asked) + 3
    [] label = "think" -> 2 * (MaxRounds - asked) + 2
    [] label = "commit" -> 1
    [] OTHER -> 0
Left(t) == Todo(pc[t], turn[t].steps.asked)

\* No turn and no checkpoint counts more calls than it may ask for.
RoundsOK == \A t \in Turns : turn[t].steps.asked <= MaxRounds /\ saved[t].steps.asked <= MaxRounds

\* The guards of Advance, one for each of its steps.
CanAdvance(t) ==
  \/ pc[t] = "start" /\ (mode = "isolated" \/ (mode = "serialized" /\ lock = Nobody))
  \/ pc[t] = "think"
  \/ pc[t] = "dispatch" /\ how[t] # "stream" /\ turn[t].steps.last \in Guarded
  \/ pc[t] = "dispatch" /\ (turn[t].steps.last \notin Guarded \/ how[t] = "stream")
  \/ pc[t] = "approved"
  \/ pc[t] = "commit" /\ (turn[t].private => lock = Nobody /\ Extended(turn[t].pending, turn[t].brings) # {})

\* Whoever has no step to take waits for the lock, and its holder has one, unless it
\* is a stream nobody iterates any more.
OnlyAbandonedStreamsBlock ==
  \A t \in Turns : pc[t] \in Active =>
    \/ CanAdvance(t)
    \/ \E holder \in Turns \ {t} : /\ lock = holder
                                   /\ CanAdvance(holder) \/ pc[holder] = "abandoned"

\* A message is added to the turn's own steps.
LEMMA AddedSteps ==
  ASSUME IInv, NEW t \in Turns, NEW kind, NEW steps, Add(t, kind, steps)
  PROVE  /\ turn'[t].steps = steps
         /\ \A u \in Turns : u # t => turn'[u] = turn[u]
<1>1. turn \in [Turns -> Turn] /\ turn[t] \in Turn
  BY Types
<1>2. CASE turn[t].private
  <2>1. PICK h, p : h = Append(turn[t].memory, [turn |-> t, kind |-> kind])
                    /\ p = Append(turn[t].pending, [turn |-> t, kind |-> kind])
    OBVIOUS
  <2>2. turn' = [turn EXCEPT ![t] = [turn[t] EXCEPT !.memory = h, !.pending = p, !.steps = steps]]
    BY <1>1, <1>2, <2>1 DEF Add, Turn
  <2>. QED
    BY <1>1, <2>2 DEF Turn
<1>3. CASE ~turn[t].private
  <2>1. turn' = [turn EXCEPT ![t] = [turn[t] EXCEPT !.steps = steps]]
    BY <1>1, <1>3 DEF Add
  <2>. QED
    BY <1>1, <2>1 DEF Turn
<1>. QED
  BY <1>2, <1>3

LEMMA SavedSteps ==
  ASSUME IInv, NEW t \in Turns, NEW status, Save(t, status)
  PROVE  /\ saved'[t] = saved[t] \/ saved'[t].steps = turn'[t].steps
         /\ \A u \in Turns : u # t => saved'[u] = saved[u]
BY Types DEF Save

\* The turn and the checkpoint of a call that moves count within the limit.
LEMMA RoundsStep == IInv /\ RoundsOK /\ [Next]_vars => RoundsOK'
<1> SUFFICES ASSUME IInv, RoundsOK, [Next]_vars
             PROVE  RoundsOK'
  OBVIOUS
<1>0. /\ turn \in [Turns -> Turn] /\ saved \in [Turns -> Saved]
      /\ NoTurn.steps.asked = 0 /\ NoSteps.asked = 0 /\ 0 <= MaxRounds
      /\ \A t \in Turns : turn[t].steps \in Steps /\ turn[t].steps.asked \in Nat
      /\ \A t \in Turns : turn[t].steps.asked <= MaxRounds /\ saved[t].steps.asked <= MaxRounds
  BY Types, BoundsAssumption DEF NoTurn, NoSteps, Turn, Steps, RoundsOK
<1>a. ASSUME NEW t \in Turns,
             \A u \in Turns : u # t => turn'[u] = turn[u] /\ saved'[u] = saved[u],
             turn'[t].steps.asked <= MaxRounds, saved'[t].steps.asked <= MaxRounds
      PROVE  RoundsOK'
  BY <1>0, <1>a DEF RoundsOK
<1>b. ASSUME NEW t \in Turns, Unwind(t), UNCHANGED saved
      PROVE  RoundsOK'
  BY <1>0, <1>a, <1>b DEF Unwind
<1>1. CASE UNCHANGED <<turn, saved>>
  BY <1>1 DEF RoundsOK
<1>2. ASSUME NEW t \in Turns, BeginIsolated(t) \/ Resume(t) \/ Commit(t)
      PROVE  RoundsOK'
  <2>1. PICK r : turn' = [turn EXCEPT ![t] = r] /\ r.steps.asked <= MaxRounds
    BY <1>0, <1>2 DEF BeginIsolated, Resume, Commit, TurnOf
  <2>2. saved' = saved
    BY <1>2 DEF BeginIsolated, Resume, Commit
  <2>. QED
    BY <1>0, <1>a, <2>1, <2>2
<1>3. ASSUME NEW t \in Turns, NEW kind, NEW steps, NEW status, steps.asked <= MaxRounds,
             Add(t, kind, steps), Save(t, status)
      PROVE  RoundsOK'
  <2>1. turn'[t].steps = steps /\ \A u \in Turns : u # t => turn'[u] = turn[u]
    BY <1>3, AddedSteps
  <2>2. /\ saved'[t] = saved[t] \/ saved'[t].steps = turn'[t].steps
        /\ \A u \in Turns : u # t => saved'[u] = saved[u]
    BY <1>3, SavedSteps
  <2>. QED
    BY <1>0, <1>3, <1>a, <2>1, <2>2
<1>4. ASSUME NEW t \in Turns, Ask(t)
      PROVE  RoundsOK'
  <2>1. PICK kind \in {"ask", "ask_guarded"} :
          Add(t, kind, [asked |-> turn[t].steps.asked + 1, last |-> kind])
    BY <1>4 DEF Ask
  <2>2. turn[t].steps.asked + 1 <= MaxRounds
    BY <1>0, <1>4, BoundsAssumption DEF Ask
  <2>3. Save(t, "running")
    BY <1>4 DEF Ask
  <2>. QED
    BY <1>3, <2>1, <2>2, <2>3
<1>5. ASSUME NEW t \in Turns, Dispatch(t)
      PROVE  RoundsOK'
  <2>1. [turn[t].steps EXCEPT !.last = "none"].asked = turn[t].steps.asked
    BY <1>0 DEF Steps
  <2>. QED
    BY <1>0, <1>3, <1>5, <2>1 DEF Dispatch
<1>6. ASSUME NEW t \in Turns, Answer(t)
      PROVE  RoundsOK'
  BY <1>0, <1>3, <1>6 DEF Answer
<1>7. ASSUME NEW t \in Turns, Pause(t)
      PROVE  RoundsOK'
  <2>1. turn' = [turn EXCEPT ![t] = NoTurn]
    BY <1>7 DEF Pause, Unwind
  <2>2. saved' = [saved EXCEPT ![t] = [status |-> "interrupted", messages |-> History(t),
                                       system |-> System(t), steps |-> turn[t].steps]]
    BY <1>7 DEF Pause
  <2>3. saved'[t].steps = turn[t].steps /\ \A u \in Turns : u # t => saved'[u] = saved[u]
    BY <1>0, <2>2
  <2>. QED
    BY <1>0, <1>a, <2>1, <2>3
<1>8. ASSUME NEW t \in Turns, Fail(t)
      PROVE  RoundsOK'
  <2>1. turn' = [turn EXCEPT ![t] = NoTurn]
    BY <1>8 DEF Fail, Unwind
  <2>2. /\ saved'[t].steps = saved[t].steps
        /\ \A u \in Turns : u # t => saved'[u] = saved[u]
    BY <1>0, <1>8 DEF Fail, Saved
  <2>. QED
    BY <1>0, <1>a, <2>1, <2>2
<1>9. ASSUME NEW t \in Turns, Cancel(t) \/ Close(t)
      PROVE  RoundsOK'
  BY <1>9, <1>b DEF Cancel, Close
<1>10. ASSUME NEW t \in Turns, Call(t) \/ BeginSerialized(t) \/ Abandon(t)
       PROVE  RoundsOK'
  BY <1>1, <1>10 DEF Call, BeginSerialized, Abandon
<1>. QED
  BY <1>1, <1>2, <1>4, <1>5, <1>6, <1>7, <1>8, <1>9, <1>10 DEF Next, Advance, Reset, vars

LEMMA TodoFacts ==
  ASSUME NEW asked \in Nat, asked <= MaxRounds
  PROVE  /\ \A label : Todo(label, asked) \in 0..(2 * MaxRounds + 3)
         /\ Todo("start", asked) = 2 * MaxRounds + 3
         /\ Todo("dispatch", asked) = 2 * (MaxRounds - asked) + 3
         /\ Todo("approved", asked) = 2 * (MaxRounds - asked) + 3
         /\ Todo("think", asked) = 2 * (MaxRounds - asked) + 2
         /\ Todo("commit", asked) = 1
<1>1. /\ Todo("start", asked) = 2 * MaxRounds + 3
      /\ Todo("dispatch", asked) = 2 * (MaxRounds - asked) + 3
      /\ Todo("approved", asked) = 2 * (MaxRounds - asked) + 3
      /\ Todo("think", asked) = 2 * (MaxRounds - asked) + 2
      /\ Todo("commit", asked) = 1
      /\ \A label : label \notin {"start", "dispatch", "approved", "think", "commit"} =>
           Todo(label, asked) = 0
  BY DEF Todo
<1>2. \A m, n \in Nat : n <= m =>
        /\ 2 * m + 3 \in 0..(2 * m + 3) /\ 2 * (m - n) + 3 \in 0..(2 * m + 3)
        /\ 2 * (m - n) + 2 \in 0..(2 * m + 3) /\ 1 \in 0..(2 * m + 3) /\ 0 \in 0..(2 * m + 3)
  OBVIOUS
<1>3. /\ 2 * MaxRounds + 3 \in 0..(2 * MaxRounds + 3)
      /\ 2 * (MaxRounds - asked) + 3 \in 0..(2 * MaxRounds + 3)
      /\ 2 * (MaxRounds - asked) + 2 \in 0..(2 * MaxRounds + 3)
      /\ 1 \in 0..(2 * MaxRounds + 3) /\ 0 \in 0..(2 * MaxRounds + 3)
  BY <1>2, BoundsAssumption
<1>. QED
  BY <1>1, <1>3

LEMMA LeftFacts ==
  ASSUME TypeOK, RoundsOK
  PROVE  \A t \in Turns : /\ turn[t].steps.asked \in Nat /\ turn[t].steps.asked <= MaxRounds
                          /\ Left(t) \in 0..(2 * MaxRounds + 3)
<1> TAKE t \in Turns
<1>1. turn[t].steps.asked \in Nat /\ turn[t].steps.asked <= MaxRounds
  BY DEF TypeOK, RoundsOK, Turn, Steps
<1>. QED
  BY <1>1, TodoFacts DEF Left

LEMMA AdvanceRunsDown ==
  ASSUME IInv, RoundsOK, RoundsOK', NEW t \in Turns, Advance(t)
  PROVE  pc'[t] \notin Active \/ Left(t)' < Left(t)
<1>0. /\ turn \in [Turns -> Turn] /\ pc \in [Turns -> Labels] /\ MaxRounds \in Nat
      /\ turn[t].steps \in Steps /\ turn[t].steps.asked \in Nat /\ turn[t].steps.asked <= MaxRounds
      /\ NoTurn.steps.asked = 0 /\ NoSteps.asked = 0
      /\ \A label : Goto(t, label) => pc'[t] = label
  BY Types, BoundsAssumption DEF NoTurn, NoSteps, Turn, Steps, RoundsOK, Goto
<1>a. ASSUME NEW label, NEW asked \in Nat, asked <= MaxRounds,
             pc'[t] = label, turn'[t].steps.asked = asked, Todo(label, asked) < Left(t)
      PROVE  Left(t)' < Left(t)
  BY <1>a DEF Left
<1>1. CASE BeginIsolated(t) \/ BeginSerialized(t)
  <2>1. pc[t] = "start" /\ pc'[t] = "think" /\ turn[t] = NoTurn
    BY <1>0, <1>1, Types DEF BeginIsolated, BeginSerialized, TurnFits, Unborn
  <2>2. turn'[t].steps.asked = 0
    BY <1>0, <1>1, <2>1 DEF BeginIsolated, BeginSerialized
  <2>3. Left(t) = 2 * MaxRounds + 3 /\ Todo("think", 0) = 2 * MaxRounds + 2
    BY <1>0, <2>1, TodoFacts DEF Left
  <2>. QED
    BY <1>0, <1>a, <2>1, <2>2, <2>3
<1>2. CASE Ask(t)
  <2>1. PICK kind \in {"ask", "ask_guarded"} :
          Add(t, kind, [asked |-> turn[t].steps.asked + 1, last |-> kind])
    BY <1>2 DEF Ask
  <2>2. turn'[t].steps.asked = turn[t].steps.asked + 1
    BY <2>1, AddedSteps
  <2>3. pc[t] = "think" /\ pc'[t] = "dispatch" /\ turn[t].steps.asked < MaxRounds
    BY <1>0, <1>2 DEF Ask
  <2>4. turn[t].steps.asked + 1 \in Nat /\ turn[t].steps.asked + 1 <= MaxRounds
    BY <1>0, <2>3
  <2>5. /\ Left(t) = 2 * (MaxRounds - turn[t].steps.asked) + 2
        /\ Todo("dispatch", turn[t].steps.asked + 1) = 2 * (MaxRounds - (turn[t].steps.asked + 1)) + 3
    BY <1>0, <2>3, <2>4, TodoFacts DEF Left
  <2>6. Todo("dispatch", turn[t].steps.asked + 1) < Left(t)
    BY <1>0, <2>5
  <2>. QED
    BY <1>a, <2>2, <2>3, <2>4, <2>6
<1>3. CASE Pause(t)
  BY <1>0, <1>3 DEF Pause, Unwind, Active
<1>4. CASE Dispatch(t)
  <2>1. turn'[t].steps.asked = turn[t].steps.asked
    <3>1. turn'[t].steps = [turn[t].steps EXCEPT !.last = "none"]
      BY <1>4, AddedSteps DEF Dispatch
    <3>. QED
      BY <1>0, <3>1 DEF Steps
  <2>2. pc[t] \in {"dispatch", "approved"} /\ pc'[t] = "think"
    BY <1>0, <1>4 DEF Dispatch
  <2>3. /\ Left(t) = 2 * (MaxRounds - turn[t].steps.asked) + 3
        /\ Todo("think", turn[t].steps.asked) = 2 * (MaxRounds - turn[t].steps.asked) + 2
    BY <1>0, <2>2, TodoFacts DEF Left
  <2>. QED
    BY <1>0, <1>a, <2>1, <2>2, <2>3
<1>5. CASE Answer(t)
  <2>1. turn'[t].steps.asked = turn[t].steps.asked
    BY <1>5, AddedSteps DEF Answer
  <2>2. pc[t] = "think" /\ pc'[t] = "commit"
    BY <1>0, <1>5 DEF Answer
  <2>3. /\ Left(t) = 2 * (MaxRounds - turn[t].steps.asked) + 2
        /\ Todo("commit", turn[t].steps.asked) = 1
    BY <1>0, <2>2, TodoFacts DEF Left
  <2>. QED
    BY <1>0, <1>a, <2>1, <2>2, <2>3
<1>6. CASE Commit(t)
  BY <1>0, <1>6 DEF Commit, Active
<1>. QED
  BY <1>1, <1>2, <1>3, <1>4, <1>5, <1>6 DEF Advance

\* What is not a step of the call itself ends it or leaves it as it is.
LEMMA OthersStay ==
  ASSUME IInv, [Next]_vars, NEW t \in Turns, pc[t] \in Active, ~Advance(t)
  PROVE  pc'[t] \notin Active \/ (pc'[t] = pc[t] /\ turn'[t] = turn[t])
<1>0. turn \in [Turns -> Turn] /\ pc \in [Turns -> Labels]
  BY Types
<1>1. CASE UNCHANGED <<pc, turn>>
  BY <1>1
<1>2. ASSUME NEW u \in Turns, u # t, Advance(u)
      PROVE  pc'[t] = pc[t] /\ turn'[t] = turn[t]
  <2>1. CASE Ask(u) \/ Dispatch(u) \/ Answer(u)
    BY <1>0, <1>2, <2>1, AddedSteps DEF Ask, Dispatch, Answer, Goto
  <2>2. CASE BeginIsolated(u) \/ BeginSerialized(u) \/ Pause(u) \/ Commit(u)
    BY <1>0, <1>2, <2>2 DEF BeginIsolated, BeginSerialized, Pause, Commit, Unwind, Goto
  <2>. QED
    BY <1>2, <2>1, <2>2 DEF Advance
<1>3. ASSUME NEW u \in Turns, u # t, Call(u) \/ Resume(u) \/ Fail(u) \/ Cancel(u) \/ Abandon(u) \/ Close(u)
      PROVE  pc'[t] = pc[t] /\ turn'[t] = turn[t]
  BY <1>0, <1>3 DEF Call, Resume, Fail, Cancel, Abandon, Close, Unwind, Goto
<1>4. CASE Call(t) \/ Resume(t) \/ Close(t)
  BY <1>4 DEF Call, Resume, Close, Active
<1>5. CASE Fail(t) \/ Cancel(t) \/ Abandon(t)
  BY <1>0, <1>5 DEF Fail, Cancel, Abandon, Unwind, Goto, Active
<1>. QED
  BY <1>1, <1>2, <1>3, <1>4, <1>5 DEF Next, Reset, vars

\* A turn that waits for the lock waits for a holder that is under way.
LEMMA WhoHoldsTheLock == IInv => OnlyAbandonedStreamsBlock
<1> SUFFICES ASSUME IInv, NEW t \in Turns, pc[t] \in Active, ~CanAdvance(t)
             PROVE  \E holder \in Turns \ {t} : /\ lock = holder
                                                /\ CanAdvance(holder) \/ pc[holder] = "abandoned"
  BY DEF OnlyAbandonedStreamsBlock
<1>1. \/ pc[t] = "start" /\ lock # Nobody
      \/ pc[t] = "commit" /\ turn[t].private /\ lock # Nobody
  <2>1. ASSUME pc[t] = "commit", turn[t].private
        PROVE  Extended(turn[t].pending, turn[t].brings) # {}
    <3>1. PICK p, n : p = turn[t].pending /\ n = turn[t].brings
      OBVIOUS
    <3>2. Brings(t, p, n)
      BY <2>1, <3>1, PendingBrings
    <3>3. Extended(p, n) # {}
      BY <3>2, ExtendedSomehow, Types DEF Brings
    <3>. QED
      BY <3>1, <3>3
  <2>. QED
    BY <2>1, Types DEF CanAdvance, Active
<1>2. /\ lock \in Turns /\ ~turn[lock].private
      /\ pc[lock] \in {"think", "dispatch", "approved", "commit", "abandoned"}
  BY <1>1 DEF IInv, TypeOK, Called, Active
<1>3. lock # t
  BY <1>1, <1>2
<1>4. CanAdvance(lock) \/ pc[lock] = "abandoned"
  BY <1>2 DEF CanAdvance
<1>. QED
  BY <1>2, <1>3, <1>4

\* A turn that cannot go on waits for the lock, and only an abandoned stream keeps it
\* from those that do. Each step of a call leaves less to do, and nobody else's adds
\* to it: 2 * MaxRounds + 3 of them end it, by an answer, a pause or an exception
\* (agent.py:283-341).
THEOREM TurnsRunDown ==
  Spec => /\ [](OnlyAbandonedStreamsBlock /\ \A t \in Turns : Left(t) \in 0..(2 * MaxRounds + 3))
          /\ [][\A t \in Turns :
                  /\ Advance(t) => pc'[t] \notin Active \/ Left(t)' < Left(t)
                  /\ pc[t] \in Active => pc'[t] \notin Active \/ Left(t)' <= Left(t)]_vars
<1>1. Init => RoundsOK
  BY BoundsAssumption DEF Init, RoundsOK, NoTurn, NoSteps, Unsaved
<1>2. IInv /\ RoundsOK =>
        OnlyAbandonedStreamsBlock /\ \A t \in Turns : Left(t) \in 0..(2 * MaxRounds + 3)
  BY WhoHoldsTheLock, LeftFacts DEF IInv
<1>3. ASSUME IInv, RoundsOK, RoundsOK', [Next]_vars,
             \A t \in Turns : Left(t) \in Nat, (\A t \in Turns : Left(t) \in Nat)'
      PROVE  \A t \in Turns :
               /\ Advance(t) => pc'[t] \notin Active \/ Left(t)' < Left(t)
               /\ pc[t] \in Active => pc'[t] \notin Active \/ Left(t)' <= Left(t)
  <2> TAKE t \in Turns
  <2>1. Advance(t) => pc'[t] \notin Active \/ (Left(t)' < Left(t) /\ Left(t)' <= Left(t))
    <3>1. Left(t) \in Nat /\ Left(t)' \in Nat
      BY <1>3
    <3>2. Advance(t) => pc'[t] \notin Active \/ Left(t)' < Left(t)
      BY <1>3, AdvanceRunsDown
    <3>. QED
      BY <3>1, <3>2
  <2>3. CASE pc[t] \in Active /\ ~Advance(t)
    <3>1. CASE pc'[t] = pc[t] /\ turn'[t] = turn[t]
      <4>1. Left(t)' = Left(t)
        BY <3>1 DEF Left
      <4>. QED
        BY <1>3, <2>3, <4>1
    <3>. QED
      BY <1>3, <2>3, <3>1, OthersStay
  <2>. QED
    BY <2>1, <2>3
<1>4. IInv /\ RoundsOK => \A t \in Turns : Left(t) \in Nat
  BY <1>2, BoundsAssumption
<1>5. IInv /\ RoundsOK /\ RoundsOK' /\ [Next]_vars
      /\ (\A t \in Turns : Left(t) \in Nat) /\ (\A t \in Turns : Left(t) \in Nat)'
      => [\A t \in Turns :
            /\ Advance(t) => pc'[t] \notin Active \/ Left(t)' < Left(t)
            /\ pc[t] \in Active => pc'[t] \notin Active \/ Left(t)' <= Left(t)]_vars
  BY <1>3
<1>. QED
  BY <1>1, <1>2, <1>4, <1>5, Invariance, RoundsStep, PTL DEF Spec

=============================================================================
