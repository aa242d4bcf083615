-------------------------- MODULE LLMCalls_proofs ---------------------------
(***************************************************************************)
(* Proofs about LLMCalls, for any number of calls, any chain of            *)
(* providers, limits, caches and files: no response mixes two              *)
(* completions, what a call costs is bounded and booked once, a hit is an  *)
(* honest answer, and the three nested loops run down.                     *)
(***************************************************************************)
EXTENDS LLMCalls, FiniteSetTheorems, NaturalsInduction, WellFoundedInduction, TLAPS

-----------------------------------------------------------------------------
(* How many requests a call has made, by where its loops stand.            *)

Spent(round, attempt, link) ==
  ((round - 1) * Attempts + (attempt - 1)) * Len(Chain) + link

LEMMA ClientFacts ==
  /\ Len(Chain) \in Nat \ {0} /\ Attempts \in Nat \ {0}
  /\ \A i \in 1..Len(Chain) : Chain[i] \in Providers
  /\ \A k \in Calls : Rounds(k.kind) \in Nat \ {0}
  /\ Rounds("none") \in Nat
  /\ \A k \in Calls : /\ k.kind \in {"complete", "extract", "run_agent"} \cup Streamed
                      /\ k.req \in Request /\ k.tag \in Tags \cup {NoTag}
                      /\ k.caching => k.kind = "complete"
  /\ Fallback \notin Providers /\ NoTag \notin Tags /\ Priced \subseteq Providers
<1>1. Len(Chain) \in Nat \ {0} /\ \A i \in 1..Len(Chain) : Chain[i] \in Providers
  BY ClientAssumption DEF Providers
<1>2. \A k \in Calls : /\ k.kind \in {"complete", "extract", "run_agent"} \cup Streamed
                       /\ k.req \in Request /\ k.tag \in Tags \cup {NoTag}
                       /\ k.caching => k.kind = "complete"
  BY ClientAssumption DEF Streamed
<1>3. \A kind : Rounds(kind) \in Nat \ {0}
  BY ClientAssumption DEF Rounds
<1>. QED
  BY <1>1, <1>2, <1>3, ClientAssumption DEF Providers

LEMMA ProductGrows ==
  ASSUME NEW x \in Nat, NEW y \in Nat, NEW z \in Nat, x <= y
  PROVE  x * z \in Nat /\ x * z <= y * z
<1> DEFINE d == y - x
<1>1. d \in Nat /\ y = x + d
  OBVIOUS
<1>2. \A n, m \in Nat : n * m \in Nat
  OBVIOUS
<1>3. (x + d) * z = x * z + d * z
  BY <1>1
<1>4. x * z \in Nat /\ d * z \in Nat
  BY <1>1, <1>2
<1> HIDE DEF d
<1>. QED
  BY <1>1, <1>3, <1>4

\* The attempts before one, in all rounds.
LEMMA TriesFacts ==
  ASSUME NEW round \in Nat \ {0}, NEW attempt \in 1..Attempts
  PROVE  /\ (round - 1) * Attempts \in Nat
         /\ (round - 1) * Attempts + (attempt - 1) + 1 <= round * Attempts
<1>1. round - 1 \in Nat /\ Attempts \in Nat
  BY ClientFacts
<1>2. (round - 1) * Attempts \in Nat
  BY <1>1, ProductGrows
<1>3. round * Attempts = (round - 1) * Attempts + Attempts
  BY <1>1
<1>. QED
  BY <1>1, <1>2, <1>3

LEMMA SpentFacts ==
  ASSUME NEW round \in Nat \ {0}, NEW attempt \in 1..Attempts, NEW link \in 1..Len(Chain)
  PROVE  /\ Spent(round, attempt, link) \in Nat
         /\ link < Len(Chain) => Spent(round, attempt, link + 1) = Spent(round, attempt, link) + 1
         /\ attempt < Attempts => Spent(round, attempt, link) + 1 <= Spent(round, attempt + 1, 1)
         /\ Spent(round, attempt, link) + 1 <= Spent(round + 1, 1, 1)
         /\ \A rounds \in Nat : round <= rounds
              => Spent(round, attempt, link) <= rounds * Attempts * Len(Chain)
<1> DEFINE tries == (round - 1) * Attempts + (attempt - 1)
           L == Len(Chain)
<1>1. /\ L \in Nat \ {0} /\ Attempts \in Nat \ {0} /\ link \in Nat
      /\ tries \in Nat /\ tries + 1 \in Nat /\ tries + 1 <= round * Attempts
      /\ round * Attempts \in Nat
  <2>1. L \in Nat \ {0} /\ Attempts \in Nat \ {0} /\ link \in Nat
    BY ClientFacts
  <2>2. (round - 1) * Attempts \in Nat /\ tries + 1 <= round * Attempts
    BY TriesFacts
  <2>3. attempt - 1 \in Nat
    OBVIOUS
  <2>4. tries \in Nat /\ tries + 1 \in Nat
    BY <2>2, <2>3
  <2>5. round * Attempts \in Nat
    BY <2>1, ProductGrows
  <2>. QED
    BY <2>1, <2>2, <2>4, <2>5
<1>2. tries * L \in Nat /\ (tries + 1) * L = tries * L + L
  BY <1>1, ProductGrows
<1>3. (tries + 1) * L <= (round * Attempts) * L
  BY <1>1, ProductGrows
<1>4. Spent(round, attempt, link) = tries * L + link
  BY DEF Spent
<1>5. link < Len(Chain) => Spent(round, attempt, link + 1) = Spent(round, attempt, link) + 1
  <2>1. Spent(round, attempt, link + 1) = tries * L + (link + 1)
    BY DEF Spent
  <2> HIDE DEF tries, L
  <2>. QED
    BY <1>1, <1>2, <1>4, <2>1
<1>6. attempt < Attempts => Spent(round, attempt, link) + 1 <= Spent(round, attempt + 1, 1)
  <2>1. (round - 1) * Attempts + (attempt + 1 - 1) = tries + 1
    BY <1>1, TriesFacts, ClientFacts
  <2>2. Spent(round, attempt + 1, 1) = (tries + 1) * L + 1
    BY <2>1 DEF Spent
  <2>3. link <= L
    OBVIOUS
  <2> HIDE DEF tries, L
  <2>. QED
    BY <1>1, <1>2, <1>4, <2>2, <2>3
<1>7. Spent(round + 1, 1, 1) = (round * Attempts) * L + 1
  <2>1. (round + 1 - 1) * Attempts + (1 - 1) = round * Attempts
    BY <1>1
  <2>. QED
    BY <2>1 DEF Spent
<1>8. Spent(round, attempt, link) <= (round * Attempts) * L
  <2>1. link <= L
    OBVIOUS
  <2>2. (round * Attempts) * L \in Nat
    BY <1>1, ProductGrows
  <2> HIDE DEF tries, L
  <2>. QED
    BY <1>1, <1>2, <1>3, <1>4, <2>1, <2>2
<1>9. Spent(round, attempt, link) \in Nat
  <2> HIDE DEF tries, L
  <2>. QED
    BY <1>1, <1>2, <1>4
<1>10. ASSUME NEW rounds \in Nat, round <= rounds
       PROVE  Spent(round, attempt, link) <= rounds * Attempts * Len(Chain)
  <2>1. round * Attempts <= rounds * Attempts /\ rounds * Attempts \in Nat
    BY <1>1, <1>10, ProductGrows
  <2>2. (round * Attempts) * L <= (rounds * Attempts) * L
    BY <1>1, <2>1, ProductGrows
  <2>3. (round * Attempts) * L \in Nat /\ (rounds * Attempts) * L \in Nat
    BY <1>1, <2>1, ProductGrows
  <2> HIDE DEF tries
  <2>. QED
    BY <1>8, <1>9, <2>2, <2>3
<1>11. (round * Attempts) * L \in Nat
  BY <1>1, ProductGrows
<1> HIDE DEF tries, L
<1>. QED
  BY <1>5, <1>6, <1>7, <1>8, <1>9, <1>10, <1>11

-----------------------------------------------------------------------------
(* The inductive invariant.                                                *)

Labels   == Ended \cup {"new", "lookup", "asking", "streaming", "reported", "store", "round"}
AtRec    == [round : Nat, attempt : 0..Attempts, link : 0..Len(Chain),
             item : {NoItem} \cup Items \cup OnFile, asked : Nat, got : SUBSET Items]
MadeRec  == [by : Providers, charged : Nat]

\* A call, by where it stands: k are its arguments, r its loops, m its completions.
CallFits(c, label, k, r, m) ==
  /\ IF label = "new" THEN k = NoCall /\ m = <<>> ELSE k \in Calls
  /\ r.got \subseteq {r.item}
  /\ label \in {"new", "lookup", "asking"} => r.got = {}
  /\ label \in {"new", "lookup", "done", "out"} => r.asked = 0 /\ r.round = 0
  /\ label \in {"asking", "streaming", "reported", "store", "round"} =>
       /\ r.round \in 1..Rounds(k.kind) /\ r.attempt \in 1..Attempts /\ r.link \in 1..Len(Chain)
       /\ r.asked <= Spent(r.round, r.attempt, r.link)
  /\ label \in {"streaming", "reported", "store", "round"} =>
       /\ r.item = <<c, r.item[2]>> /\ r.item[2] \in DOMAIN m
       /\ IF label = "streaming"
          THEN m[r.item[2]].charged = 0 /\ m[r.item[2]].by = Chain[r.link]
          ELSE m[r.item[2]].charged = 1
CallOK(c) == CallFits(c, pc[c], call[c], at[c], made[c])

\* What is kept has been paid for.
Paid(i) == i \in Items => Made(i).charged = 1

\* An entry of the cache is the answer to the request it is filed under.
EntryOK(e) ==
  /\ e.expires = e.created + Ttl
  /\ e.item \notin Foreign(Files)
  /\ Paid(e.item)
  /\ e.item \in Items => call[e.item[1]].req = e.req

Booked ==
  /\ TrackerAdds
  /\ \A tags \in SUBSET (Tags \cup {NoTag}) : IsFiniteSet(Charged(tags))

IInv ==
  /\ TypeOK
  /\ \A c \in Callers : CallOK(c)
  /\ \A c \in Callers : pc[c] = "done" => Paid(at[c].item)
  /\ \A i \in Items : Made(i).charged <= 1
  /\ \A e \in cache.entries : EntryOK(e)
  /\ Booked

CacheRec == [kind : Kinds, entries : SUBSET [req : Request, item : Items \cup OnFile,
                                             created : Int, expires : Int]]

LEMMA Types ==
  ASSUME IInv, NEW c \in Callers
  PROVE  /\ at[c] \in AtRec /\ pc[c] \in Labels /\ made[c] \in Seq(MadeRec)
         /\ at \in [Callers -> AtRec] /\ pc \in [Callers -> Labels]
         /\ cache \in CacheRec /\ now \in 0..MaxTime
         /\ CallFits(c, pc[c], call[c], at[c], made[c])
         /\ \A e \in cache.entries : EntryOK(e)
BY DEF IInv, TypeOK, AtRec, Labels, MadeRec, CacheRec, CallOK

\* A file's items were made before all calls.
LEMMA FileItems ==
  /\ Foreign(Files) \subseteq OnFile
  /\ \A i \in OnFile : i \notin Items
  /\ NoItem \notin Items
<1>1. Foreign(Files) \subseteq OnFile
  BY DEF Foreign, OnFile
<1>2. ASSUME NEW i \in Items
      PROVE  i[1] \in Callers /\ i = <<i[1], i[2]>>
  BY DEF Items
<1>3. \A i \in OnFile : i[1] \notin Callers
  BY ClientAssumption DEF OnFile
<1>4. \A x, y : <<>> # <<x, y>>
  OBVIOUS
<1>. QED
  BY <1>1, <1>2, <1>3, <1>4 DEF NoItem

\* A call moves without a completion being made or charged.
LEMMA QuietStep ==
  ASSUME IInv, NEW c \in Callers, NEW r \in AtRec, NEW label \in Labels,
         at' = [at EXCEPT ![c] = r], pc' = [pc EXCEPT ![c] = label],
         UNCHANGED <<now, tracker, call, made>>,
         cache' \in CacheRec, \A e \in cache'.entries : EntryOK(e),
         CallFits(c, label, call[c], r, made[c]),
         label = "done" => Paid(r.item)
  PROVE  IInv'
<1>1. /\ at' \in [Callers -> AtRec] /\ pc' \in [Callers -> Labels]
      /\ at'[c] = r /\ pc'[c] = label
      /\ \A d \in Callers : d # c => at'[d] = at[d] /\ pc'[d] = pc[d]
  BY Types
<1>2. Items' = Items /\ \A i : Made(i)' = Made(i)
  BY DEF Items, Made
<1>3. \A d \in Callers : CallOK(d)'
  <2>1. \A d \in Callers : CallFits(d, pc'[d], call'[d], at'[d], made'[d])
    BY <1>1, Types
  <2>. QED
    BY <2>1 DEF CallOK
<1>4. TypeOK'
  <2>1. r.round <= Rounds(call[c].kind)
    <3>1. Rounds(call[c].kind) \in Nat
      BY ClientFacts DEF CallFits, NoCall
    <3>. QED
      BY <3>1 DEF CallFits, AtRec, Labels, Ended
  <2>2. \A d \in Callers : at'[d].round <= Rounds(call'[d].kind)
    BY <1>1, <2>1 DEF IInv, TypeOK
  <2>. QED
    BY <1>1, <1>2, <2>2 DEF IInv, TypeOK, AtRec, Labels, CacheRec
<1>5. \A d \in Callers : pc'[d] = "done" => Paid(at[d].item)'
  BY <1>1, <1>2 DEF IInv, Paid
<1>6. \A i \in Items' : Made(i)'.charged <= 1
  BY <1>2 DEF IInv
<1>7. \A e \in cache'.entries : EntryOK(e)'
  BY <1>2 DEF EntryOK, Paid
<1>8. Booked'
  <2>1. \A tags : Charged(tags)' = Charged(tags)
    BY <1>2 DEF Charged
  <2>. QED
    BY <2>1 DEF IInv, Booked, TrackerAdds
<1>. QED
  BY <1>3, <1>4, <1>5, <1>6, <1>7, <1>8 DEF IInv

LEMMA StartFacts ==
  /\ Start \in AtRec /\ Start.round = 0 /\ Start.asked = 0 /\ Start.got = {} /\ Start.item = NoItem
BY ClientFacts DEF Start, AtRec

LEMMA RaiseStep ==
  ASSUME IInv, NEW c \in Callers, pc[c] # "new", Raise(c),
         UNCHANGED <<now, cache, tracker, call, made>>
  PROVE  IInv'
<1>1. Start \in AtRec /\ "out" \in Labels
  BY StartFacts DEF Labels, Ended
<1>2. CallFits(c, "out", call[c], Start, made[c])
  BY StartFacts, Types DEF CallFits
<1>. QED
  BY <1>1, <1>2, QuietStep, Types DEF Raise, Goto

\* The request that comes next in the loops.
LEMMA AskStep ==
  ASSUME IInv, NEW c \in Callers, pc[c] # "new",
         NEW round \in 1..Rounds(call[c].kind), NEW attempt \in 1..Attempts,
         NEW link \in 1..Len(Chain), Ask(c, round, attempt, link),
         at[c].asked + 1 <= Spent(round, attempt, link),
         round = at[c].round => at[c].got = {},
         UNCHANGED <<now, tracker, call, made>>,
         cache' \in CacheRec, \A e \in cache'.entries : EntryOK(e)
  PROVE  IInv'
<1> DEFINE asked == IF at[c].asked > Budget(c) THEN at[c].asked ELSE at[c].asked + 1
           got == IF round = at[c].round THEN at[c].got ELSE {}
           r == [round |-> round, attempt |-> attempt, link |-> link, item |-> NoItem,
                 asked |-> asked, got |-> got]
<1>1. at' = [at EXCEPT ![c] = r] /\ pc' = [pc EXCEPT ![c] = "asking"]
  BY DEF Ask, Goto
<1>2. call[c] \in Calls /\ at[c] \in AtRec /\ at[c].asked \in Nat
  BY Types DEF CallFits, AtRec
<1>3. r \in AtRec
  <2>1. /\ round \in Nat /\ attempt \in 0..Attempts /\ link \in 0..Len(Chain)
    BY <1>2, ClientFacts
  <2>2. asked \in Nat /\ got \in SUBSET Items
    BY <1>2 DEF AtRec
  <2> HIDE DEF asked, got
  <2>. QED
    BY <2>1, <2>2 DEF AtRec
<1>4. Spent(round, attempt, link) \in Nat
  <2>1. round \in Nat \ {0}
    BY <1>2, ClientFacts
  <2>. QED
    BY <2>1, SpentFacts
<1>5. /\ r.round = round /\ r.attempt = attempt /\ r.link = link /\ r.got = {}
      /\ r.asked <= Spent(round, attempt, link)
  BY <1>2, <1>4
<1> HIDE DEF r
<1>6. CallFits(c, "asking", call[c], r, made[c])
  BY <1>2, <1>5 DEF CallFits
<1>7. "asking" \in Labels
  BY DEF Labels
<1>. QED
  BY <1>1, <1>3, <1>6, <1>7, QuietStep

-----------------------------------------------------------------------------
(* The quiet steps.                                                        *)

\* Where a call under way stands.
LEMMA Standing ==
  ASSUME IInv, NEW c \in Callers,
         pc[c] \in {"asking", "streaming", "reported", "store", "round"}
  PROVE  /\ call[c] \in Calls /\ at[c] \in AtRec /\ at[c].asked \in Nat
         /\ at[c].round \in 1..Rounds(call[c].kind) /\ at[c].round \in Nat \ {0}
         /\ at[c].attempt \in 1..Attempts /\ at[c].link \in 1..Len(Chain)
         /\ at[c].asked <= Spent(at[c].round, at[c].attempt, at[c].link)
         /\ Spent(at[c].round, at[c].attempt, at[c].link) \in Nat
<1>1. /\ call[c] \in Calls /\ at[c] \in AtRec /\ at[c].asked \in Nat
      /\ at[c].round \in 1..Rounds(call[c].kind)
      /\ at[c].attempt \in 1..Attempts /\ at[c].link \in 1..Len(Chain)
      /\ at[c].asked <= Spent(at[c].round, at[c].attempt, at[c].link)
  BY Types DEF CallFits, AtRec
<1>2. at[c].round \in Nat \ {0}
  BY <1>1, ClientFacts
<1>. QED
  BY <1>1, <1>2, SpentFacts

LEMMA FallBackStep ==
  ASSUME IInv, NEW c \in Callers, FallBack(c)
  PROVE  IInv'
<1>1. pc[c] = "asking" /\ at[c].link < Len(Chain)
  BY DEF FallBack
<1>2. at[c].asked + 1 <= Spent(at[c].round, at[c].attempt, at[c].link + 1)
  <2>1. Spent(at[c].round, at[c].attempt, at[c].link + 1) = Spent(at[c].round, at[c].attempt, at[c].link) + 1
    BY <1>1, Standing, SpentFacts
  <2>. QED
    BY <1>1, <2>1, Standing
<1>3. at[c].link + 1 \in 1..Len(Chain)
  BY <1>1, Standing, ClientFacts
<1>4. at[c].got = {}
  BY <1>1, Types DEF CallFits
<1>. QED
  BY <1>1, <1>2, <1>3, <1>4, Standing, AskStep, Types DEF FallBack

LEMMA RetryStep ==
  ASSUME IInv, NEW c \in Callers, Retry(c)
  PROVE  IInv'
<1>1. pc[c] = "asking" /\ at[c].attempt < Attempts
  BY DEF Retry
<1>2. at[c].attempt + 1 \in 1..Attempts /\ 1 \in 1..Len(Chain)
  BY <1>1, Standing, ClientFacts
<1>3. at[c].asked + 1 <= Spent(at[c].round, at[c].attempt + 1, 1)
  <2>1. Spent(at[c].round, at[c].attempt, at[c].link) + 1 <= Spent(at[c].round, at[c].attempt + 1, 1)
    BY <1>1, Standing, SpentFacts
  <2>2. Spent(at[c].round, at[c].attempt + 1, 1) \in Nat
    BY <1>1, <1>2, Standing, SpentFacts
  <2>. QED
    BY <1>1, <2>1, <2>2, Standing
<1>4. at[c].got = {}
  BY <1>1, Types DEF CallFits
<1>. QED
  BY <1>1, <1>2, <1>3, <1>4, Standing, AskStep, Types DEF Retry

LEMMA AgainStep ==
  ASSUME IInv, NEW c \in Callers, Again(c)
  PROVE  IInv'
<1>1. pc[c] = "round" /\ at[c].round < Rounds(call[c].kind)
  BY DEF Again
<1>2. /\ at[c].round + 1 \in 1..Rounds(call[c].kind) /\ at[c].round + 1 \in Nat \ {0}
      /\ 1 \in 1..Len(Chain) /\ 1 \in 1..Attempts
  BY <1>1, Standing, ClientFacts
<1>3. at[c].asked + 1 <= Spent(at[c].round + 1, 1, 1)
  <2>1. Spent(at[c].round, at[c].attempt, at[c].link) + 1 <= Spent(at[c].round + 1, 1, 1)
    BY <1>1, Standing, SpentFacts
  <2>2. Spent(at[c].round + 1, 1, 1) \in Nat
    BY <1>2, SpentFacts
  <2>. QED
    BY <1>1, <2>1, <2>2, Standing
<1>4. at[c].round + 1 # at[c].round
  BY <1>1, Standing
<1>. QED
  BY <1>1, <1>2, <1>3, <1>4, Standing, AskStep, Types DEF Again

LEMMA FinishStep ==
  ASSUME IInv, NEW c \in Callers, Finish(c)
  PROVE  IInv'
<1> DEFINE r == [Start EXCEPT !.item = at[c].item]
<1>1. /\ pc[c] = "round" /\ at' = [at EXCEPT ![c] = r] /\ pc' = [pc EXCEPT ![c] = "done"]
      /\ UNCHANGED <<now, cache, tracker, call, made>>
  BY DEF Finish, Return, Goto
<1>2. at[c] \in AtRec /\ call[c] \in Calls /\ at[c].item \in {NoItem} \cup Items \cup OnFile
  BY <1>1, Standing DEF AtRec
<1>3. /\ r \in AtRec /\ r.round = 0 /\ r.asked = 0 /\ r.got = {} /\ r.item = at[c].item
  BY <1>2, StartFacts DEF AtRec
<1> HIDE DEF r
<1>4. CallFits(c, "done", call[c], r, made[c]) /\ "done" \in Labels
  BY <1>2, <1>3 DEF CallFits, Labels, Ended
<1>5. Paid(r.item)
  <2>1. /\ at[c].item = <<c, at[c].item[2]>> /\ at[c].item[2] \in DOMAIN made[c]
        /\ made[c][at[c].item[2]].charged = 1
    BY <1>1, Types DEF CallFits
  <2>2. Made(at[c].item) = made[c][at[c].item[2]]
    <3>1. at[c].item[1] = c
      BY <2>1
    <3>. QED
      BY <3>1 DEF Made
  <2>. QED
    BY <1>3, <2>1, <2>2 DEF Paid
<1>. QED
  BY <1>1, <1>3, <1>4, <1>5, QuietStep, Types

LEMMA EndOfStreamStep ==
  ASSUME IInv, NEW c \in Callers, EndOfStream(c)
  PROVE  IInv'
<1> DEFINE r == at[c]
<1>1. /\ pc[c] = "reported" /\ pc' = [pc EXCEPT ![c] = "round"]
      /\ UNCHANGED <<now, cache, tracker, call, at, made>>
  BY DEF EndOfStream, Goto
<1>2. at' = [at EXCEPT ![c] = r] /\ r \in AtRec
  BY <1>1, Types
<1>3. CallFits(c, "round", call[c], r, made[c]) /\ "round" \in Labels
  BY <1>1, Types DEF CallFits, Labels
<1>. QED
  BY <1>1, <1>2, <1>3, QuietStep, Types

LEMMA QuitStep ==
  ASSUME IInv, NEW c \in Callers,
         CacheRaises(c) \/ GiveUp(c) \/ Break(c) \/ Exhaust(c) \/ Cancel(c)
  PROVE  IInv'
BY RaiseStep DEF CacheRaises, GiveUp, Break, Exhaust, Cancel

-----------------------------------------------------------------------------
(* The clock and the cache.                                                *)

LEMMA CacheStep ==
  ASSUME IInv, now' \in 0..MaxTime, UNCHANGED <<tracker, pc, call, at, made>>,
         cache' \in CacheRec, \A e \in cache'.entries : EntryOK(e)
  PROVE  IInv'
<1>1. Items' = Items /\ \A i : Made(i)' = Made(i)
  BY DEF Items, Made
<1>2. TypeOK'
  BY <1>1 DEF IInv, TypeOK, CacheRec
<1>3. \A d \in Callers : CallOK(d)'
  BY DEF IInv, CallOK
<1>4. \A d \in Callers : pc'[d] = "done" => Paid(at[d].item)'
  BY <1>1 DEF IInv, Paid
<1>5. \A i \in Items' : Made(i)'.charged <= 1
  BY <1>1 DEF IInv
<1>6. \A e \in cache'.entries : EntryOK(e)'
  BY <1>1 DEF EntryOK, Paid
<1>7. Booked'
  <2>1. \A tags : Charged(tags)' = Charged(tags)
    BY <1>1 DEF Charged
  <2>. QED
    BY <2>1 DEF IInv, Booked, TrackerAdds
<1>. QED
  BY <1>2, <1>3, <1>4, <1>5, <1>6, <1>7 DEF IInv

LEMMA TickStep == ASSUME IInv, Tick PROVE IInv'
<1>1. now' \in 0..MaxTime
  BY ClientAssumption DEF Tick, IInv, TypeOK
<1>2. cache' \in CacheRec /\ \A e \in cache'.entries : EntryOK(e)
  BY DEF Tick, IInv, TypeOK, CacheRec
<1>. QED
  BY <1>1, <1>2, CacheStep DEF Tick

LEMMA ClearCacheStep == ASSUME IInv, ClearCache PROVE IInv'
<1>1. now' \in 0..MaxTime /\ cache \in CacheRec
  BY DEF ClearCache, IInv, TypeOK, CacheRec
<1>2. cache' \in CacheRec /\ \A e \in cache'.entries : EntryOK(e)
  BY <1>1 DEF ClearCache, CacheRec
<1>. QED
  BY <1>1, <1>2, CacheStep DEF ClearCache

LEMMA OpenCacheStep ==
  ASSUME IInv, NEW c \in Callers, OpenCache(c)
  PROVE  IInv'
<1>1. now' \in 0..MaxTime
  BY DEF OpenCache, IInv, TypeOK
<1>2. \A kind \in Kinds : Cache(kind, {}) \in CacheRec /\ Cache(kind, {}).entries = {}
  BY DEF Cache, CacheRec
<1>3. ASSUME NEW f \in Files, f.version = "current", NEW e \in f.entries
      PROVE  /\ e \in [req : Request, item : Items \cup OnFile, created : Int, expires : Int]
             /\ EntryOK(e)
  <2>1. /\ e.req \in Request /\ e.created \in Int /\ e = Entry(e.req, e.item, e.created)
        /\ e.item \notin Foreign(Files) /\ Ttl \in Int
    BY <1>3, ClientAssumption, CacheAssumption
  <2>2. e.item \in OnFile
    BY DEF OnFile
  <2>3. e = [req |-> e.req, item |-> e.item, created |-> e.created, expires |-> e.created + Ttl]
    BY <2>1 DEF Entry
  <2>4. e.expires = e.created + Ttl
    BY <2>3
  <2>5. EntryOK(e)
    BY <2>1, <2>2, <2>4, FileItems DEF EntryOK, Paid
  <2>6. e.created + Ttl \in Int
    BY <2>1
  <2>. QED
    BY <2>1, <2>2, <2>3, <2>5, <2>6
<1>4. cache' \in CacheRec /\ \A e \in cache'.entries : EntryOK(e)
  <2>1. CASE cache' = Cache("exact", {})
    BY <1>2, <2>1 DEF Kinds
  <2>2. ASSUME NEW f \in Files, NEW m \in OnMismatch, cache' = Opened(f, m)
        PROVE  cache' \in CacheRec /\ \A e \in cache'.entries : EntryOK(e)
    <3>1. CASE f.version = "current"
      <4>1. cache' = [kind |-> "semantic", entries |-> f.entries]
        BY <2>2, <3>1 DEF Opened, Cache
      <4>. QED
        BY <1>3, <3>1, <4>1 DEF CacheRec, Kinds
    <3>2. CASE f.version # "current"
      BY <1>2, <2>2, <3>2 DEF Opened, Kinds
    <3>. QED
      BY <3>1, <3>2
  <2>. QED
    BY <2>1, <2>2 DEF OpenCache
<1>. QED
  BY <1>1, <1>4, CacheStep DEF OpenCache

LEMMA HitStep ==
  ASSUME IInv, NEW c \in Callers, Hit(c)
  PROVE  IInv'
<1>1. PICK e \in Candidates(cache, call[c].req) : at' = [at EXCEPT ![c].item = e.item]
  BY DEF Hit
<1> DEFINE r == [at[c] EXCEPT !.item = e.item]
<1>2. /\ pc[c] = "lookup" /\ pc' = [pc EXCEPT ![c] = "done"]
      /\ UNCHANGED <<now, cache, tracker, call, made>>
  BY DEF Hit, Goto
<1>3. e \in cache.entries /\ EntryOK(e) /\ e.item \in Items \cup OnFile
  BY <1>1, Types DEF Candidates, Closest, CacheRec
<1>4. /\ r \in AtRec /\ r.round = at[c].round /\ r.asked = at[c].asked /\ r.got = at[c].got
      /\ r.item = e.item
  BY <1>3, Types DEF AtRec
<1>5. at' = [at EXCEPT ![c] = r]
  BY <1>1, Types
<1> HIDE DEF r
<1>6. CallFits(c, "done", call[c], r, made[c]) /\ "done" \in Labels
  BY <1>2, <1>4, Types DEF CallFits, Labels, Ended
<1>. QED
  BY <1>2, <1>3, <1>4, <1>5, <1>6, QuietStep, Types DEF EntryOK

LEMMA FirstSpent == Spent(1, 1, 1) = 1
<1>1. 0 * Attempts = 0 /\ 0 * Len(Chain) = 0
  BY ClientFacts
<1>2. 1 - 1 = 0 /\ 0 + 0 = 0 /\ 0 + 1 = 1
  OBVIOUS
<1>. QED
  BY <1>1, <1>2 DEF Spent

LEMMA MissStep ==
  ASSUME IInv, NEW c \in Callers, Miss(c)
  PROVE  IInv'
<1>1. /\ pc[c] = "lookup" /\ Ask(c, 1, 1, 1) /\ UNCHANGED <<now, tracker, call, made>>
  BY DEF Miss
<1>2. cache' \in CacheRec /\ \A e \in cache'.entries : EntryOK(e)
  <2>1. cache \in CacheRec /\ \A e \in cache.entries : EntryOK(e)
    BY Types
  <2>2. CASE UNCHANGED cache
    BY <2>1, <2>2
  <2>3. ASSUME NEW e, cache' = AfterMiss(cache, e, now)
        PROVE  cache' \in CacheRec /\ cache'.entries \subseteq cache.entries
    BY <2>1, <2>3 DEF AfterMiss, CacheRec
  <2>. QED
    BY <2>1, <2>2, <2>3 DEF Miss
<1>3. at[c].asked = 0 /\ at[c].got = {} /\ call[c] \in Calls
  BY <1>1, Types DEF CallFits
<1>4. 1 \in 1..Rounds(call[c].kind) /\ 1 \in 1..Attempts /\ 1 \in 1..Len(Chain)
  BY <1>3, ClientFacts
<1>5. at[c].asked + 1 <= Spent(1, 1, 1)
  BY <1>3, FirstSpent
<1>. QED
  BY <1>1, <1>2, <1>3, <1>4, <1>5, AskStep

LEMMA StoreStep ==
  ASSUME IInv, NEW c \in Callers, Store(c)
  PROVE  IInv'
<1> DEFINE e == Entry(call[c].req, at[c].item, now)
<1>1. /\ pc[c] = "store" /\ cache' = Put(cache, e) /\ pc' = [pc EXCEPT ![c] = "round"]
      /\ UNCHANGED <<now, tracker, call, at, made>>
  BY DEF Store, Goto
<1>2. /\ at[c].item = <<c, at[c].item[2]>> /\ at[c].item[2] \in DOMAIN made[c]
      /\ made[c][at[c].item[2]].charged = 1 /\ call[c] \in Calls /\ call[c].req \in Request
  BY <1>1, Types, ClientFacts DEF CallFits
<1>3. at[c].item[1] = c /\ at[c].item \in Items
  <2> DEFINE n == at[c].item[2]
  <2>1. <<c, n>>[1] = c /\ <<c, n>> \in {c} \X DOMAIN made[c] /\ at[c].item = <<c, n>>
    BY <1>2
  <2> HIDE DEF n
  <2>. QED
    BY <2>1 DEF Items
<1>4. /\ e.req = call[c].req /\ e.item = at[c].item /\ e.created = now /\ e.expires = now + Ttl
      /\ e \in [req : Request, item : Items \cup OnFile, created : Int, expires : Int]
  <2>1. now \in Int /\ now + Ttl \in Int
    BY Types, CacheAssumption, ClientAssumption
  <2>. QED
    BY <1>2, <1>3, <2>1 DEF Entry
<1>5. EntryOK(e)
  <2> HIDE DEF e
  <2>1. Made(at[c].item).charged = 1
    BY <1>2, <1>3 DEF Made
  <2>2. at[c].item \notin Foreign(Files)
    BY <1>3, FileItems
  <2>. QED
    BY <1>3, <1>4, <2>1, <2>2 DEF EntryOK, Paid
<1>6. cache' \in CacheRec /\ \A f \in cache'.entries : EntryOK(f)
  <2> HIDE DEF e
  <2>1. cache \in CacheRec /\ \A f \in cache.entries : EntryOK(f)
    BY Types
  <2>2. cache'.entries \subseteq cache.entries \cup {e} /\ cache'.kind = cache.kind
    BY <1>1, <2>1 DEF Put, CacheRec
  <2>3. cache' \in CacheRec
    BY <1>1, <1>4, <2>1 DEF Put, CacheRec
  <2>. QED
    BY <1>5, <2>1, <2>2, <2>3
<1>7. CallFits(c, "round", call[c], at[c], made[c]) /\ "round" \in Labels
  BY <1>1, Types DEF CallFits, Labels
<1>8. at' = [at EXCEPT ![c] = at[c]]
  BY <1>1, Types
<1>. QED
  BY <1>1, <1>6, <1>7, <1>8, QuietStep, Types

\* A call begins.
LEMMA CallStep ==
  ASSUME IInv, NEW c \in Callers, Call(c)
  PROVE  IInv'
<1>1. PICK k \in Calls :
        /\ call' = [call EXCEPT ![c] = k]
        /\ IF k.caching THEN Goto(c, "lookup") /\ UNCHANGED at ELSE Ask(c, 1, 1, 1)
  BY DEF Call
<1>2. /\ pc[c] = "new" /\ UNCHANGED <<now, cache, tracker, made>> /\ call[c] = NoCall
      /\ made[c] = <<>> /\ at[c].got = {} /\ at[c].asked = 0 /\ at[c].round = 0
      /\ at \in [Callers -> AtRec] /\ pc \in [Callers -> Labels]
      /\ call \in [Callers -> {NoCall} \cup Calls]
  BY Types DEF Call, CallFits, IInv, TypeOK
<1>3. PICK r \in AtRec, label \in {"lookup", "asking"} :
        /\ at' = [at EXCEPT ![c] = r] /\ pc' = [pc EXCEPT ![c] = label]
        /\ r.round <= Rounds(k.kind) /\ CallFits(c, label, k, r, <<>>)
  <2>1. CASE k.caching
    <3>1. Rounds(k.kind) \in Nat
      BY ClientFacts
    <3>2. at' = [at EXCEPT ![c] = at[c]] /\ pc' = [pc EXCEPT ![c] = "lookup"] /\ at[c] \in AtRec
      BY <1>1, <1>2, <2>1 DEF Goto
    <3>3. at[c].round <= Rounds(k.kind) /\ CallFits(c, "lookup", k, at[c], <<>>)
      BY <1>2, <3>1 DEF CallFits
    <3>. QED
      BY <3>2, <3>3
  <2>2. CASE ~k.caching
    <3> DEFINE asked == IF at[c].asked > Budget(c) THEN at[c].asked ELSE at[c].asked + 1
               got == IF 1 = at[c].round THEN at[c].got ELSE {}
               r == [round |-> 1, attempt |-> 1, link |-> 1, item |-> NoItem,
                     asked |-> asked, got |-> got]
    <3>1. Rounds(k.kind) \in Nat \ {0}
      BY ClientFacts
    <3>2. at' = [at EXCEPT ![c] = r] /\ pc' = [pc EXCEPT ![c] = "asking"]
      BY <1>1, <2>2 DEF Ask, Goto
    <3>3. asked \in {0, 1} /\ got = {}
      BY <1>2
    <3> HIDE DEF asked, got
    <3>4. r \in AtRec
      <4>1. 1 \in 0..Attempts /\ 1 \in 0..Len(Chain)
        BY ClientFacts
      <4>. QED
        BY <3>3, <4>1 DEF AtRec
    <3>5. r.round = 1 /\ r.attempt = 1 /\ r.link = 1 /\ r.got = {} /\ r.asked = asked
      BY <3>3
    <3> HIDE DEF r
    <3>6. CallFits(c, "asking", k, r, <<>>) /\ r.round <= Rounds(k.kind)
      <4>1. 1 \in 1..Rounds(k.kind) /\ 1 \in 1..Attempts /\ 1 \in 1..Len(Chain)
        BY <3>1, ClientFacts
      <4>2. asked <= Spent(1, 1, 1)
        BY <3>3, FirstSpent
      <4>. QED
        BY <3>1, <3>5, <4>1, <4>2 DEF CallFits
    <3>. QED
      BY <3>2, <3>4, <3>6
  <2>. QED
    BY <2>1, <2>2
<1>4. label \in Labels
  BY DEF Labels
<1>5. /\ at' \in [Callers -> AtRec] /\ pc' \in [Callers -> Labels] /\ call' \in [Callers -> {NoCall} \cup Calls]
      /\ at'[c] = r /\ pc'[c] = label /\ call'[c] = k
      /\ \A d \in Callers : d # c => at'[d] = at[d] /\ pc'[d] = pc[d] /\ call'[d] = call[d]
  BY <1>1, <1>2, <1>3, <1>4
<1>6. Items' = Items /\ \A i : Made(i)' = Made(i)
  BY <1>2 DEF Items, Made
<1>7. \A i \in Items : i[1] \in Callers /\ i[1] # c
  <2>1. \A i \in Items : i[1] \in Callers /\ i[2] \in DOMAIN made[i[1]]
    BY DEF Items
  <2>2. DOMAIN made[c] = {}
    BY <1>2
  <2>. QED
    BY <2>1, <2>2
<1>8. \A d \in Callers : CallOK(d)'
  <2>1. \A d \in Callers : CallFits(d, pc'[d], call'[d], at'[d], made'[d])
    BY <1>2, <1>3, <1>5, Types
  <2>. QED
    BY <2>1 DEF CallOK
<1>9. TypeOK'
  <2>1. \A d \in Callers : at'[d].round <= Rounds(call'[d].kind)
    BY <1>3, <1>5 DEF IInv, TypeOK
  <2>. QED
    BY <1>2, <1>5, <1>6, <2>1 DEF IInv, TypeOK, AtRec, Labels
<1>10. \A d \in Callers : pc'[d] = "done" => Paid(at[d].item)'
  BY <1>3, <1>5, <1>6 DEF IInv, Paid
<1>11. \A i \in Items' : Made(i)'.charged <= 1
  BY <1>6 DEF IInv
<1>12. \A e \in cache'.entries : EntryOK(e)'
  BY <1>2, <1>5, <1>6, <1>7 DEF IInv, EntryOK, Paid
<1>13. Booked'
  <2>1. \A tags : Charged(tags)' = Charged(tags)
    BY <1>5, <1>6, <1>7 DEF Charged
  <2>. QED
    BY <1>2, <2>1 DEF IInv, Booked, TrackerAdds
<1>. QED
  BY <1>8, <1>9, <1>10, <1>11, <1>12, <1>13 DEF IInv

-----------------------------------------------------------------------------
(* Completions are made, and charged.                                      *)

\* The tracker follows what is charged.
LEMMA BookStep ==
  ASSUME IInv, NEW c \in Callers, call[c] \in Calls, UNCHANGED call,
         NEW name \in Providers \cup {Fallback}, NEW p \in Providers, Record(c, name, Cost(p)),
         NEW x, \A tags \in SUBSET (Tags \cup {NoTag}) :
           /\ x \notin Charged(tags)
           /\ Charged(tags)' = IF p \in Priced /\ call[c].tag \in tags
                               THEN Charged(tags) \cup {x} ELSE Charged(tags)
  PROVE  /\ Booked'
         /\ tracker' \in [total : Nat, byTag : [Tags -> Nat], untracked : SUBSET (Providers \cup {Fallback})]
<1> DEFINE All == Tags \cup {NoTag}
           tag == call[c].tag
<1>1. /\ tracker \in [total : Nat, byTag : [Tags -> Nat], untracked : SUBSET (Providers \cup {Fallback})]
      /\ tag \in All /\ NoTag \notin Tags /\ Cost(p) = IF p \in Priced THEN 1 ELSE 0
  BY ClientFacts DEF IInv, TypeOK, Cost
<1>2. /\ tracker'.total = tracker.total + Cost(p)
      /\ tracker'.byTag = IF tag = NoTag THEN tracker.byTag
                          ELSE [tracker.byTag EXCEPT ![tag] = @ + Cost(p)]
      /\ tracker'.untracked = IF name \in Priced THEN tracker.untracked
                              ELSE tracker.untracked \cup {name}
  BY DEF Record, Tag
<1>3. tracker' \in [total : Nat, byTag : [Tags -> Nat], untracked : SUBSET (Providers \cup {Fallback})]
  <2>1. /\ tracker.total \in Nat /\ tracker.byTag \in [Tags -> Nat]
        /\ tracker.untracked \in SUBSET (Providers \cup {Fallback}) /\ Cost(p) \in Nat
    BY <1>1
  <2>2. tracker'.total \in Nat /\ tracker'.untracked \in SUBSET (Providers \cup {Fallback})
    BY <1>2, <2>1
  <2>3. tracker'.byTag \in [Tags -> Nat]
    <3>1. CASE tag = NoTag
      BY <1>2, <2>1, <3>1
    <3>2. CASE tag # NoTag
      <4>1. tag \in Tags /\ tracker.byTag[tag] + Cost(p) \in Nat
        BY <1>1, <2>1, <3>2
      <4>2. tracker'.byTag = [tracker.byTag EXCEPT ![tag] = tracker.byTag[tag] + Cost(p)]
        BY <1>2, <3>2
      <4> HIDE DEF tag
      <4>. QED
        BY <2>1, <4>1, <4>2
    <3>. QED
      BY <3>1, <3>2
  <2>4. tracker' = [total |-> tracker'.total, byTag |-> tracker'.byTag, untracked |-> tracker'.untracked]
    BY DEF Record
  <2>. QED
    BY <2>2, <2>3, <2>4
<1>4. ASSUME NEW tags \in SUBSET All
      PROVE  /\ IsFiniteSet(Charged(tags)')
             /\ Cardinality(Charged(tags)') = Cardinality(Charged(tags)) + (IF tag \in tags THEN Cost(p) ELSE 0)
  <2>1. IsFiniteSet(Charged(tags)) /\ Cardinality(Charged(tags)) \in Nat
    BY FS_CardinalityType DEF IInv, Booked
  <2>2. CASE p \in Priced /\ tag \in tags
    <3>1. Charged(tags)' = Charged(tags) \cup {x} /\ x \notin Charged(tags)
      BY <2>2
    <3>. QED
      BY <1>1, <2>1, <2>2, <3>1, FS_AddElement
  <2>3. CASE ~(p \in Priced /\ tag \in tags)
    <3>1. Charged(tags)' = Charged(tags)
      BY <2>3
    <3>2. (IF tag \in tags THEN Cost(p) ELSE 0) = 0
      BY <1>1, <2>3
    <3>. QED
      BY <2>1, <3>1, <3>2
  <2>. QED
    BY <2>2, <2>3
<1>5. tracker'.total = Cardinality(Charged(All)')
  BY <1>1, <1>2, <1>4 DEF IInv, Booked, TrackerAdds
<1>6. ASSUME NEW t \in Tags
      PROVE  tracker'.byTag[t] = Cardinality(Charged({t})')
  <2>1. tracker.byTag[t] = Cardinality(Charged({t})) /\ tracker.byTag[t] \in Nat /\ {t} \in SUBSET All
    BY <1>1 DEF IInv, Booked, TrackerAdds
  <2>2. Cardinality(Charged({t})') = tracker.byTag[t] + (IF tag = t THEN Cost(p) ELSE 0)
    BY <1>4, <2>1
  <2>3. CASE tag = t
    <3>1. tag # NoTag /\ tag \in Tags
      BY <1>1, <2>3
    <3>2. tracker'.byTag[t] = tracker.byTag[t] + Cost(p)
      BY <1>1, <1>2, <2>3, <3>1
    <3>. QED
      BY <2>2, <2>3, <3>2
  <2>4. CASE tag # t
    <3>1. tracker'.byTag[t] = tracker.byTag[t]
      BY <1>1, <1>2, <2>4
    <3>. QED
      BY <2>1, <2>2, <2>4, <3>1
  <2>. QED
    BY <2>3, <2>4
<1>7. TrackerAdds'
  BY <1>5, <1>6 DEF TrackerAdds
<1>8. \A tags \in SUBSET All : IsFiniteSet(Charged(tags)')
  BY <1>4
<1>. QED
  BY <1>3, <1>7, <1>8 DEF Booked

\* What a new completion changes, and what it does not.
LEMMA MakeFacts ==
  ASSUME IInv, NEW c \in Callers, pc[c] = "asking", NEW charged \in {0, 1}, Make(c, charged)
  PROVE  /\ made' \in [Callers -> Seq(MadeRec)]
         /\ \A d \in Callers : d # c => made'[d] = made[d]
         /\ Newest(c) = <<c, Len(made[c]) + 1>>
         /\ Newest(c) \notin Items /\ Items' = Items \cup {Newest(c)}
         /\ Len(made[c]) + 1 \in DOMAIN made'[c]
         /\ \A i \in Items : Made(i)' = Made(i)
         /\ made'[c][Len(made[c]) + 1] = [by |-> Asked(c), charged |-> charged]
         /\ Asked(c) \in Providers
<1> DEFINE rec == [by |-> Asked(c), charged |-> charged]
           n == Len(made[c]) + 1
<1>1. Asked(c) \in Providers
  BY Standing, ClientFacts DEF Asked
<1>2. rec \in MadeRec
  BY <1>1 DEF MadeRec
<1>3. /\ made \in [Callers -> Seq(MadeRec)] /\ made[c] \in Seq(MadeRec)
      /\ made' = [made EXCEPT ![c] = Append(made[c], rec)]
  BY DEF Make, IInv, TypeOK, MadeRec
<1> HIDE DEF rec
<1>4. /\ Append(made[c], rec) \in Seq(MadeRec) /\ Len(Append(made[c], rec)) = n
      /\ DOMAIN Append(made[c], rec) = DOMAIN made[c] \cup {n} /\ n \notin DOMAIN made[c]
      /\ Append(made[c], rec)[n] = rec
      /\ \A i \in DOMAIN made[c] : Append(made[c], rec)[i] = made[c][i]
  BY <1>2, <1>3
<1>5. /\ made' \in [Callers -> Seq(MadeRec)] /\ made'[c] = Append(made[c], rec)
      /\ \A d \in Callers : d # c => made'[d] = made[d]
  BY <1>3, <1>4
<1>6. Newest(c) = <<c, n>>
  BY <1>4, <1>5 DEF Newest
<1> HIDE DEF n
<1>7. Items' = Items \cup {<<c, n>>}
  <2>1. ASSUME NEW i \in Items'
        PROVE  i \in Items \cup {<<c, n>>}
    <3>1. PICK d \in Callers : i \in {d} \X DOMAIN made'[d]
      BY DEF Items
    <3>2. PICK j \in DOMAIN made'[d] : i = <<d, j>>
      BY <3>1
    <3>3. CASE d = c /\ j = n
      BY <3>2, <3>3
    <3>4. CASE d # c \/ j # n
      <4>1. j \in DOMAIN made[d]
        BY <1>4, <1>5, <3>2, <3>4
      <4>2. i \in {d} \X DOMAIN made[d]
        BY <3>2, <4>1
      <4>. QED
        BY <4>2 DEF Items
    <3>. QED
      BY <3>3, <3>4
  <2>2. ASSUME NEW i \in Items
        PROVE  i \in Items'
    <3>1. PICK d \in Callers : i \in {d} \X DOMAIN made[d]
      BY DEF Items
    <3>2. DOMAIN made[d] \subseteq DOMAIN made'[d]
      BY <1>4, <1>5
    <3>3. i \in {d} \X DOMAIN made'[d]
      BY <3>1, <3>2
    <3>. QED
      BY <3>3 DEF Items
  <2>3. <<c, n>> \in Items'
    <3>1. <<c, n>> \in {c} \X DOMAIN made'[c]
      BY <1>4, <1>5
    <3>. QED
      BY <3>1 DEF Items
  <2>. QED
    BY <2>1, <2>2, <2>3
<1>8. ASSUME NEW i \in Items
      PROVE  i[1] \in Callers /\ i[2] \in DOMAIN made[i[1]]
  BY DEF Items
<1>9. <<c, n>> \notin Items
  <2>1. <<c, n>>[1] = c /\ <<c, n>>[2] = n
    OBVIOUS
  <2>. QED
    BY <1>4, <1>8, <2>1
<1>10. ASSUME NEW i \in Items
       PROVE  Made(i)' = Made(i)
  <2>1. i[1] \in Callers /\ i[2] \in DOMAIN made[i[1]]
    BY <1>8
  <2>2. made'[i[1]][i[2]] = made[i[1]][i[2]]
    BY <1>4, <1>5, <2>1
  <2>. QED
    BY <2>2 DEF Made
<1>11. made'[c][n] = rec /\ n \in DOMAIN made'[c]
  BY <1>4, <1>5
<1>. QED
  BY <1>1, <1>5, <1>6, <1>7, <1>9, <1>10, <1>11 DEF n, rec

\* A call moves to a completion of its own that was just made.
LEMMA MakingStep ==
  ASSUME IInv, NEW c \in Callers, pc[c] = "asking", NEW charged \in {0, 1}, Make(c, charged),
         UNCHANGED <<now, cache, call>>,
         NEW r, NEW label \in {"streaming", "store", "round"},
         at' = [at EXCEPT ![c] = r], pc' = [pc EXCEPT ![c] = label],
         r \in [round : Nat, attempt : 0..Attempts, link : 0..Len(Chain),
                item : {NoItem} \cup Items' \cup OnFile, asked : Nat, got : SUBSET Items'],
         CallFits(c, label, call[c], r, made'[c]),
         tracker' \in [total : Nat, byTag : [Tags -> Nat], untracked : SUBSET (Providers \cup {Fallback})],
         Booked'
  PROVE  IInv'
<1>1. /\ made' \in [Callers -> Seq(MadeRec)]
      /\ \A d \in Callers : d # c => made'[d] = made[d]
      /\ Newest(c) \notin Items /\ Items' = Items \cup {Newest(c)} /\ Newest(c) = <<c, Len(made[c]) + 1>>
      /\ \A i \in Items : Made(i)' = Made(i)
      /\ made'[c][Len(made[c]) + 1] = [by |-> Asked(c), charged |-> charged]
  BY MakeFacts
<1>2. AtRec \subseteq AtRec' /\ r \in AtRec'
  BY <1>1 DEF AtRec
<1>3. /\ at' \in [Callers -> AtRec'] /\ pc' \in [Callers -> Labels] /\ at'[c] = r /\ pc'[c] = label
      /\ \A d \in Callers : d # c => at'[d] = at[d] /\ pc'[d] = pc[d]
  <2>1. at \in [Callers -> AtRec'] /\ pc \in [Callers -> Labels] /\ label \in Labels
    BY <1>2, Types DEF Labels
  <2>. QED
    BY <1>2, <2>1
<1>4. \A d \in Callers : CallOK(d)'
  <2>1. \A d \in Callers : CallFits(d, pc'[d], call'[d], at'[d], made'[d])
    BY <1>1, <1>3, Types
  <2>. QED
    BY <2>1 DEF CallOK
<1>5. TypeOK'
  <2>1. r.round <= Rounds(call[c].kind)
    BY Standing, ClientFacts DEF CallFits
  <2>2. \A d \in Callers : at'[d].round <= Rounds(call'[d].kind)
    BY <1>3, <2>1 DEF IInv, TypeOK
  <2>3. cache' \in CacheRec'
    BY <1>1, Types DEF CacheRec
  <2>. QED
    BY <1>1, <1>3, <2>2, <2>3 DEF IInv, TypeOK, AtRec, Labels, CacheRec, MadeRec
<1>6. ASSUME NEW i \in {NoItem} \cup Items \cup OnFile, Paid(i)
      PROVE  Paid(i)'
  <2>1. i # Newest(c)
    <3>1. Newest(c) \notin OnFile
      <4>1. Newest(c)[1] = c
        BY <1>1
      <4>. QED
        BY <4>1, ClientAssumption DEF OnFile
    <3>2. Newest(c) # NoItem
      BY <1>1 DEF NoItem
    <3>. QED
      BY <1>1, <3>1, <3>2
  <2>. QED
    BY <1>1, <1>6, <2>1 DEF Paid
<1>7. \A d \in Callers : pc'[d] = "done" => Paid(at[d].item)'
  <2> SUFFICES ASSUME NEW d \in Callers, pc'[d] = "done"
               PROVE  Paid(at[d].item)'
    OBVIOUS
  <2>1. d # c /\ at'[d] = at[d] /\ pc[d] = "done"
    BY <1>3
  <2>2. at[d].item \in {NoItem} \cup Items \cup OnFile /\ Paid(at[d].item)
    BY <2>1, Types DEF IInv, AtRec
  <2>. QED
    BY <1>6, <2>1, <2>2 DEF Paid
<1>8. \A i \in Items' : Made(i)'.charged <= 1
  <2>1. ASSUME NEW i \in Items
        PROVE  Made(i)'.charged <= 1
    BY <1>1 DEF IInv
  <2>2. PICK n : n = Len(made[c]) + 1
    OBVIOUS
  <2>3. Made(<<c, n>>)' = [by |-> Asked(c), charged |-> charged]
    BY <1>1, <2>2 DEF Made
  <2>4. Made(<<c, n>>)'.charged <= 1
    BY <2>3
  <2>5. Items' = Items \cup {<<c, n>>}
    BY <1>1, <2>2
  <2>. QED
    BY <2>1, <2>4, <2>5
<1>9. \A e \in cache'.entries : EntryOK(e)'
  <2> SUFFICES ASSUME NEW e \in cache.entries
               PROVE  EntryOK(e)'
    OBVIOUS
  <2>1. EntryOK(e) /\ e.item \in Items \cup OnFile
    BY Types DEF CacheRec
  <2>2. Paid(e.item)'
    BY <1>6, <2>1 DEF EntryOK
  <2>3. e.item \in Items' => e.item \in Items
    <3>1. Newest(c) \notin OnFile
      <4>1. Newest(c)[1] = c
        BY <1>1
      <4>. QED
        BY <4>1, ClientAssumption DEF OnFile
    <3>. QED
      BY <1>1, <2>1, <3>1
  <2>. QED
    BY <2>1, <2>2, <2>3 DEF EntryOK
<1>. QED
  BY <1>4, <1>5, <1>7, <1>8, <1>9 DEF IInv

LEMMA ReplyStep ==
  ASSUME IInv, NEW c \in Callers, Reply(c)
  PROVE  IInv'
<1> DEFINE n == Len(made[c]) + 1
           label == IF call[c].caching THEN "store" ELSE "round"
           r == [at[c] EXCEPT !.item = Newest(c)]
<1>1. /\ pc[c] = "asking" /\ Make(c, 1) /\ Record(c, Asked(c), Cost(Asked(c)))
      /\ at' = [at EXCEPT ![c].item = Newest(c)] /\ pc' = [pc EXCEPT ![c] = label]
      /\ UNCHANGED <<now, cache, call>>
  BY DEF Reply, Goto
<1>2. /\ Newest(c) = <<c, n>> /\ Newest(c) \notin Items /\ Items' = Items \cup {Newest(c)}
      /\ n \in DOMAIN made'[c] /\ made'[c][n] = [by |-> Asked(c), charged |-> 1]
      /\ Asked(c) \in Providers /\ \A i \in Items : Made(i)' = Made(i)
  BY <1>1, MakeFacts
<1>3. at' = [at EXCEPT ![c] = r] /\ at[c] \in AtRec /\ call[c] \in Calls /\ at[c].got = {}
  BY <1>1, Types, Standing DEF CallFits
<1>4. /\ r.item = Newest(c) /\ r.round = at[c].round /\ r.attempt = at[c].attempt
      /\ r.link = at[c].link /\ r.asked = at[c].asked /\ r.got = {}
      /\ r \in [round : Nat, attempt : 0..Attempts, link : 0..Len(Chain),
                item : {NoItem} \cup Items' \cup OnFile, asked : Nat, got : SUBSET Items']
  BY <1>2, <1>3 DEF AtRec
<1> HIDE DEF r
<1>5. CallFits(c, label, call[c], r, made'[c])
  <2>1. r.item[2] = n /\ r.item = <<c, r.item[2]>>
    BY <1>2, <1>4
  <2>2. made'[c][n].charged = 1
    BY <1>2
  <2> HIDE DEF n
  <2>. QED
    BY <1>1, <1>2, <1>3, <1>4, <2>1, <2>2, Standing DEF CallFits
<1>6. ASSUME NEW tags \in SUBSET (Tags \cup {NoTag})
      PROVE  /\ Newest(c) \notin Charged(tags)
             /\ Charged(tags)' = IF Asked(c) \in Priced /\ call[c].tag \in tags
                                 THEN Charged(tags) \cup {Newest(c)} ELSE Charged(tags)
  <2>1. PICK m : m = n
    OBVIOUS
  <2>2. Items' = Items \cup {<<c, m>>} /\ <<c, m>> \notin Items /\ <<c, m>>[1] = c
    BY <1>2, <2>1
  <2>3. Made(<<c, m>>)' = [by |-> Asked(c), charged |-> 1]
    BY <1>2, <2>1 DEF Made
  <2>4. <<c, m>> \in Charged(tags)' <=> Asked(c) \in Priced /\ call[c].tag \in tags
    BY <1>1, <2>2, <2>3 DEF Charged
  <2>5. \A i \in Items : i \in Charged(tags)' <=> i \in Charged(tags)
    BY <1>1, <1>2 DEF Charged
  <2>6. Charged(tags) \subseteq Items /\ Charged(tags)' \subseteq Items'
    BY DEF Charged
  <2>7. Charged(tags)' = IF Asked(c) \in Priced /\ call[c].tag \in tags
                        THEN Charged(tags) \cup {<<c, m>>} ELSE Charged(tags)
    <3>1. CASE Asked(c) \in Priced /\ call[c].tag \in tags
      BY <2>2, <2>4, <2>5, <2>6, <3>1
    <3>2. CASE ~(Asked(c) \in Priced /\ call[c].tag \in tags)
      BY <2>2, <2>4, <2>5, <2>6, <3>2
    <3>. QED
      BY <3>1, <3>2
  <2>. QED
    BY <1>2, <2>1, <2>6, <2>7
<1>7. /\ Booked'
      /\ tracker' \in [total : Nat, byTag : [Tags -> Nat], untracked : SUBSET (Providers \cup {Fallback})]
  <2>1. PICK x : x = Newest(c)
    OBVIOUS
  <2>. QED
    BY <1>1, <1>2, <1>3, <1>6, <2>1, BookStep
<1>8. label \in {"streaming", "store", "round"}
  OBVIOUS
<1> HIDE DEF label
<1>9. /\ pc[c] = "asking" /\ 1 \in {0, 1} /\ Make(c, 1) /\ UNCHANGED <<now, cache, call>>
      /\ at' = [at EXCEPT ![c] = r] /\ pc' = [pc EXCEPT ![c] = label]
      /\ r \in [round : Nat, attempt : 0..Attempts, link : 0..Len(Chain),
                item : {NoItem} \cup Items' \cup OnFile, asked : Nat, got : SUBSET Items']
  BY <1>1, <1>3, <1>4
<1>10. CallFits(c, label, call[c], r, made'[c])
  BY <1>5
<1>. QED
  BY <1>7, <1>8, <1>9, <1>10, MakingStep

LEMMA OpenStep ==
  ASSUME IInv, NEW c \in Callers, Open(c)
  PROVE  IInv'
<1> DEFINE n == Len(made[c]) + 1
           r == [at[c] EXCEPT !.item = Newest(c), !.got = @ \cup {Newest(c)}]
<1>1. /\ pc[c] = "asking" /\ Make(c, 0) /\ pc' = [pc EXCEPT ![c] = "streaming"]
      /\ at' = [at EXCEPT ![c].item = Newest(c), ![c].got = @ \cup {Newest(c)}]
      /\ UNCHANGED <<now, cache, call, tracker>>
  BY DEF Open, Goto
<1>2. /\ Newest(c) = <<c, n>> /\ Newest(c) \notin Items /\ Items' = Items \cup {Newest(c)}
      /\ n \in DOMAIN made'[c] /\ made'[c][n] = [by |-> Asked(c), charged |-> 0]
      /\ \A i \in Items : Made(i)' = Made(i)
  BY <1>1, MakeFacts
<1>3. at' = [at EXCEPT ![c] = r] /\ at[c] \in AtRec /\ call[c] \in Calls /\ at[c].got = {}
  BY <1>1, Types, Standing DEF CallFits
<1>4. /\ r.item = Newest(c) /\ r.round = at[c].round /\ r.attempt = at[c].attempt
      /\ r.link = at[c].link /\ r.asked = at[c].asked /\ r.got = {Newest(c)}
      /\ r \in [round : Nat, attempt : 0..Attempts, link : 0..Len(Chain),
                item : {NoItem} \cup Items' \cup OnFile, asked : Nat, got : SUBSET Items']
  BY <1>2, <1>3 DEF AtRec
<1> HIDE DEF r
<1>5. CallFits(c, "streaming", call[c], r, made'[c])
  <2>1. r.item[2] = n /\ r.item = <<c, r.item[2]>>
    BY <1>2, <1>4
  <2>2. made'[c][n].charged = 0 /\ made'[c][n].by = Chain[r.link]
    BY <1>2, <1>4 DEF Asked
  <2> HIDE DEF n
  <2>. QED
    BY <1>1, <1>2, <1>3, <1>4, <2>1, <2>2, Standing DEF CallFits
<1>6. ASSUME NEW tags
      PROVE  Charged(tags)' = Charged(tags)
  <2>1. PICK m : m = n
    OBVIOUS
  <2>2. Items' = Items \cup {<<c, m>>} /\ <<c, m>> \notin Items
    BY <1>2, <2>1
  <2>3. Made(<<c, m>>)' = [by |-> Asked(c), charged |-> 0]
    BY <1>2, <2>1 DEF Made
  <2>4. <<c, m>> \notin Charged(tags)'
    <3>1. ~(Made(<<c, m>>)'.charged > 0)
      BY <2>3
    <3>. QED
      BY <3>1 DEF Charged
  <2>5. \A i \in Items : i \in Charged(tags)' <=> i \in Charged(tags)
    BY <1>1, <1>2 DEF Charged
  <2>6. Charged(tags) \subseteq Items /\ Charged(tags)' \subseteq Items'
    BY DEF Charged
  <2>. QED
    BY <2>2, <2>4, <2>5, <2>6
<1>7. /\ Booked'
      /\ tracker' \in [total : Nat, byTag : [Tags -> Nat], untracked : SUBSET (Providers \cup {Fallback})]
  BY <1>1, <1>6 DEF IInv, TypeOK, Booked, TrackerAdds
<1>. QED
  BY <1>1, <1>3, <1>4, <1>5, <1>7, MakingStep

LEMMA UsageStep ==
  ASSUME IInv, NEW c \in Callers, Usage(c)
  PROVE  IInv'
<1> DEFINE r == [at[c] EXCEPT !.got = @ \cup {at[c].item}]
<1>1. PICK n : n = at[c].item[2]
  OBVIOUS
<1>2. PICK x : x = <<c, n>>
  OBVIOUS
<1>3. /\ pc[c] = "streaming" /\ Record(c, ClientName, Cost(Asked(c)))
      /\ made' = [made EXCEPT ![c][n].charged = @ + 1]
      /\ at' = [at EXCEPT ![c] = r] /\ pc' = [pc EXCEPT ![c] = "reported"]
      /\ UNCHANGED <<now, cache, call>>
  BY <1>1 DEF Usage, Goto
<1>4. /\ call[c] \in Calls /\ at[c] \in AtRec /\ at[c].item = x /\ n \in DOMAIN made[c]
      /\ made[c][n].charged = 0 /\ made[c][n].by = Asked(c) /\ Asked(c) \in Providers
      /\ at[c].got \subseteq {x}
  BY <1>1, <1>2, <1>3, Types, Standing, ClientFacts DEF CallFits, Asked
<1>5. x \in Items /\ x[1] = c /\ x[2] = n
  <2>1. x \in {c} \X DOMAIN made[c]
    BY <1>2, <1>4
  <2>. QED
    BY <1>2, <2>1 DEF Items
<1>6. PICK m : m = [made[c][n] EXCEPT !.charged = @ + 1]
  OBVIOUS
<1>7. /\ m \in MadeRec /\ m.charged = 1 /\ m.by = Asked(c) /\ made[c] \in Seq(MadeRec)
      /\ made \in [Callers -> Seq(MadeRec)]
  <2>1. made[c] \in Seq(MadeRec) /\ made \in [Callers -> Seq(MadeRec)]
    BY Types DEF IInv, TypeOK, MadeRec
  <2>2. made[c][n] \in MadeRec
    BY <1>4, <2>1
  <2>3. PICK o : o = made[c][n]
    OBVIOUS
  <2>4. o \in MadeRec /\ o.charged = 0 /\ o.by = Asked(c) /\ m = [o EXCEPT !.charged = 1]
    BY <1>4, <1>6, <2>2, <2>3
  <2>5. m \in MadeRec /\ m.charged = 1 /\ m.by = Asked(c)
    BY <2>4 DEF MadeRec
  <2>. QED
    BY <2>1, <2>5
<1>8. made' = [made EXCEPT ![c] = [made[c] EXCEPT ![n] = m]]
  BY <1>3, <1>6, <1>7
<1>9. /\ [made[c] EXCEPT ![n] = m] \in Seq(MadeRec)
      /\ DOMAIN [made[c] EXCEPT ![n] = m] = DOMAIN made[c]
  BY <1>4, <1>7
<1>10. /\ made' \in [Callers -> Seq(MadeRec)] /\ made'[c][n] = m
       /\ \A d \in Callers : DOMAIN made'[d] = DOMAIN made[d]
       /\ \A d \in Callers : \A j \in DOMAIN made[d] : <<d, j>> # x => made'[d][j] = made[d][j]
       /\ \A d \in Callers : d # c => made'[d] = made[d]
       /\ \A j \in DOMAIN made[c] : j # n => made'[c][j] = made[c][j]
  BY <1>2, <1>4, <1>7, <1>8, <1>9
<1>11. Items' = Items
  BY <1>10 DEF Items
<1>12. ASSUME NEW i \in Items, i # x
       PROVE  Made(i)' = Made(i)
  <2>1. i[1] \in Callers /\ i[2] \in DOMAIN made[i[1]] /\ i = <<i[1], i[2]>>
    BY DEF Items
  <2>2. made'[i[1]][i[2]] = made[i[1]][i[2]]
    BY <1>10, <1>12, <2>1
  <2>. QED
    BY <2>2 DEF Made
<1>13. Made(x)' = m /\ Made(x).charged = 0
  <2>1. made'[x[1]][x[2]] = m /\ made[x[1]][x[2]].charged = 0
    BY <1>4, <1>5, <1>10
  <2>. QED
    BY <2>1 DEF Made
<1>14. /\ r.item = x /\ r.round = at[c].round /\ r.attempt = at[c].attempt
       /\ r.link = at[c].link /\ r.asked = at[c].asked /\ r.got \subseteq {x} /\ r \in AtRec
  BY <1>4, <1>5 DEF AtRec
<1> HIDE DEF r
<1>15. CallFits(c, "reported", call[c], r, made'[c])
  <2>1. r.item[2] = n /\ r.item = <<c, r.item[2]>>
    BY <1>2, <1>5, <1>14
  <2>2. n \in DOMAIN made'[c] /\ made'[c][n].charged = 1
    BY <1>4, <1>7, <1>10
  <2>. QED
    BY <1>3, <1>4, <1>14, <2>1, <2>2, Standing DEF CallFits
<1>16. /\ at' \in [Callers -> AtRec] /\ pc' \in [Callers -> Labels] /\ at'[c] = r /\ pc'[c] = "reported"
       /\ \A d \in Callers : d # c => at'[d] = at[d] /\ pc'[d] = pc[d]
  <2>1. "reported" \in Labels
    BY DEF Labels
  <2>. QED
    BY <1>3, <1>14, <2>1, Types
<1>17. \A d \in Callers : CallOK(d)'
  <2>1. \A d \in Callers : CallFits(d, pc'[d], call'[d], at'[d], made'[d])
    BY <1>3, <1>10, <1>15, <1>16, Types
  <2>. QED
    BY <2>1 DEF CallOK
<1>18. ASSUME NEW tags \in SUBSET (Tags \cup {NoTag})
       PROVE  /\ x \notin Charged(tags)
              /\ Charged(tags)' = IF Asked(c) \in Priced /\ call[c].tag \in tags
                                  THEN Charged(tags) \cup {x} ELSE Charged(tags)
  <2>1. x \notin Charged(tags)
    BY <1>13 DEF Charged
  <2>2. x \in Charged(tags)' <=> Asked(c) \in Priced /\ call[c].tag \in tags
    BY <1>3, <1>5, <1>7, <1>11, <1>13 DEF Charged
  <2>3. \A i \in Items : i # x => (i \in Charged(tags)' <=> i \in Charged(tags))
    BY <1>3, <1>11, <1>12 DEF Charged
  <2>4. Charged(tags) \subseteq Items /\ Charged(tags)' \subseteq Items
    BY <1>11 DEF Charged
  <2>5. CASE Asked(c) \in Priced /\ call[c].tag \in tags
    BY <1>5, <2>1, <2>2, <2>3, <2>4, <2>5
  <2>6. CASE ~(Asked(c) \in Priced /\ call[c].tag \in tags)
    BY <1>5, <2>1, <2>2, <2>3, <2>4, <2>6
  <2>. QED
    BY <2>1, <2>5, <2>6
<1>19. /\ Booked'
       /\ tracker' \in [total : Nat, byTag : [Tags -> Nat], untracked : SUBSET (Providers \cup {Fallback})]
  <2>1. ClientName \in Providers \cup {Fallback}
    BY ClientFacts DEF ClientName
  <2>. QED
    BY <1>3, <1>4, <1>18, <2>1, BookStep
<1>20. TypeOK'
  <2>1. r.round <= Rounds(call[c].kind)
    BY <1>4, <1>14, Standing, ClientFacts, <1>3
  <2>2. \A d \in Callers : at'[d].round <= Rounds(call'[d].kind)
    BY <1>3, <1>16, <2>1 DEF IInv, TypeOK
  <2>. QED
    BY <1>3, <1>10, <1>11, <1>16, <1>19, <2>2 DEF IInv, TypeOK, AtRec, Labels, MadeRec
<1>21. ASSUME NEW i, Paid(i)
       PROVE  Paid(i)'
  BY <1>11, <1>12, <1>13, <1>21 DEF Paid
<1>22. \A d \in Callers : pc'[d] = "done" => Paid(at[d].item)'
  <2> SUFFICES ASSUME NEW d \in Callers, pc'[d] = "done"
               PROVE  Paid(at[d].item)'
    OBVIOUS
  <2>1. d # c /\ at'[d] = at[d] /\ pc[d] = "done"
    BY <1>16
  <2>2. PICK i : i = at[d].item
    OBVIOUS
  <2>3. Paid(i)
    BY <2>1, <2>2 DEF IInv, Paid
  <2>4. Paid(i)' /\ at'[d].item = i
    BY <1>21, <2>1, <2>2, <2>3
  <2>. QED
    BY <2>4 DEF Paid
<1>23. \A i \in Items' : Made(i)'.charged <= 1
  BY <1>7, <1>11, <1>12, <1>13 DEF IInv
<1>24. \A e \in cache'.entries : EntryOK(e)'
  <2> SUFFICES ASSUME NEW e \in cache.entries
               PROVE  EntryOK(e)'
    BY <1>3
  <2>1. EntryOK(e)
    BY Types
  <2>2. Paid(e.item)'
    BY <1>21, <2>1 DEF EntryOK
  <2>. QED
    BY <1>3, <1>11, <2>1, <2>2 DEF EntryOK
<1>. QED
  BY <1>17, <1>19, <1>20, <1>22, <1>23, <1>24 DEF IInv

-----------------------------------------------------------------------------
(* The invariant holds.                                                    *)

LEMMA InitOK == ASSUME Init PROVE IInv
<1>1. Items = {} /\ \A c \in Callers : made[c] = <<>> /\ at[c] = Start /\ pc[c] = "new" /\ call[c] = NoCall
  BY DEF Init, Items
<1>2. /\ Start.round = 0 /\ Start.asked = 0 /\ Start.got = {} /\ Start.item = NoItem
      /\ Start \in [round : Nat, attempt : 0..Attempts, link : 0..Len(Chain),
                    item : {NoItem} \cup Items \cup OnFile, asked : Nat, got : SUBSET Items]
  BY StartFacts DEF AtRec
<1>3. \A tags : Charged(tags) = {}
  BY <1>1 DEF Charged
<1>4. cache = [kind |-> "unopened", entries |-> {}]
  BY DEF Init, Cache
<1>5. TypeOK
  <2>1. now \in 0..MaxTime
    BY ClientAssumption DEF Init
  <2>2. \A c \in Callers : at[c].round <= Rounds(call[c].kind)
    BY <1>1, <1>2, ClientFacts DEF NoCall
  <2>3. /\ cache.kind \in Kinds /\ cache.entries = {}
        /\ cache \in [kind : Kinds, entries : SUBSET [req : Request, item : Items \cup OnFile,
                                                      created : Int, expires : Int]]
    BY <1>4 DEF Kinds
  <2>4. /\ made \in [Callers -> Seq([by : Providers, charged : Nat])]
        /\ at \in [Callers -> [round : Nat, attempt : 0..Attempts, link : 0..Len(Chain),
                               item : {NoItem} \cup Items \cup OnFile, asked : Nat, got : SUBSET Items]]
    <3>1. <<>> \in Seq([by : Providers, charged : Nat])
      OBVIOUS
    <3>. QED
      BY <1>2, <3>1 DEF Init
  <2>. QED
    BY <2>1, <2>2, <2>3, <2>4 DEF Init, TypeOK
<1>6. \A c \in Callers : CallOK(c)
  <2>1. \A c \in Callers : CallFits(c, "new", NoCall, Start, <<>>)
    BY <1>2 DEF CallFits
  <2>. QED
    BY <1>1, <2>1 DEF CallOK
<1>7. Booked
  <2>1. IsFiniteSet({}) /\ Cardinality({}) = 0
    BY FS_EmptySet
  <2>. QED
    BY <1>3, <2>1 DEF Booked, TrackerAdds, Init
<1>. QED
  BY <1>1, <1>4, <1>5, <1>6, <1>7 DEF IInv

LEMMA StutterStep == ASSUME IInv, UNCHANGED vars PROVE IInv'
<1>1. now' \in 0..MaxTime /\ cache' \in CacheRec /\ \A e \in cache'.entries : EntryOK(e)
  BY DEF vars, IInv, TypeOK, CacheRec
<1>. QED
  BY <1>1, CacheStep DEF vars

LEMMA StepOK == ASSUME IInv, [Next]_vars PROVE IInv'
<1>1. CASE UNCHANGED vars
  BY <1>1, StutterStep
<1>2. CASE Tick \/ ClearCache
  BY <1>2, TickStep, ClearCacheStep
<1>3. ASSUME NEW c \in Callers, Call(c) \/ Cancel(c)
      PROVE  IInv'
  BY <1>3, CallStep, QuitStep
<1>4. ASSUME NEW c \in Callers, Advance(c)
      PROVE  IInv'
  <2>1. CASE OpenCache(c) \/ Hit(c) \/ Miss(c) \/ Store(c) \/ CacheRaises(c)
    BY <2>1, OpenCacheStep, HitStep, MissStep, StoreStep, QuitStep
  <2>2. CASE Reply(c) \/ Open(c) \/ Usage(c) \/ EndOfStream(c)
    BY <2>2, ReplyStep, OpenStep, UsageStep, EndOfStreamStep
  <2>3. CASE FallBack(c) \/ Retry(c) \/ GiveUp(c) \/ Break(c)
    BY <2>3, FallBackStep, RetryStep, QuitStep
  <2>4. CASE Finish(c) \/ Again(c) \/ Exhaust(c)
    BY <2>4, FinishStep, AgainStep, QuitStep
  <2>. QED
    BY <1>4, <2>1, <2>2, <2>3, <2>4 DEF Advance
<1>. QED
  BY <1>1, <1>2, <1>3, <1>4 DEF Next

LEMMA Invariance == Spec => []IInv
BY InitOK, StepOK, PTL DEF Spec

-----------------------------------------------------------------------------
(* The theorems.                                                           *)

\* For any callers, providers and limits, every state has its type, and no call is in a
\* round beyond the last its kind allows (llm/client.py).
THEOREM TypeCorrect == Spec => []TypeOK
<1>1. IInv => TypeOK
  BY DEF IInv
<1>. QED
  BY <1>1, Invariance, PTL

\* Whatever breaks, and however often a call is retried, falls back or is repaired,
\* the events a consumer has seen of one round come from one completion.
THEOREM ResponsesAreWhole == Spec => []NoSplice
<1>1. ASSUME IInv
      PROVE  NoSplice
  <2> SUFFICES ASSUME NEW c \in Callers
               PROVE  Cardinality(at[c].got) <= 1
    BY DEF NoSplice
  <2>1. at[c].got \subseteq {at[c].item}
    BY <1>1, Types DEF CallFits
  <2>2. CASE at[c].got = {}
    <3>1. Cardinality({}) = 0
      BY FS_EmptySet
    <3>. QED
      BY <2>2, <3>1
  <2>3. CASE at[c].got = {at[c].item}
    <3>1. Cardinality({at[c].item}) = 1
      BY FS_Singleton
    <3>. QED
      BY <2>3, <3>1
  <2>. QED
    BY <2>1, <2>2, <2>3
<1>. QED
  BY <1>1, Invariance, PTL

\* Retry policy, fallback chain and repair or agent loop together ask the providers no
\* more often than the product of their limits, and the tracker holds each completion
\* a call returned, or keeps in the cache, exactly once, under its tag and in the total.
THEOREM CostsAreBooked == Spec => []CostsAreKept
<1>1. ASSUME IInv
      PROVE  CostsAreKept
  <2>1. TypeOK /\ TrackerAdds
    BY <1>1 DEF IInv, Booked
  <2>2. BudgetHolds
    <3> SUFFICES ASSUME NEW c \in Callers
                 PROVE  at[c].asked <= Budget(c)
      BY DEF BudgetHolds
    <3>1. CASE pc[c] \in {"asking", "streaming", "reported", "store", "round"}
      <4>1. /\ Rounds(call[c].kind) \in Nat /\ at[c].round <= Rounds(call[c].kind)
            /\ at[c].round \in Nat \ {0}
            /\ at[c].attempt \in 1..Attempts /\ at[c].link \in 1..Len(Chain)
        BY <1>1, <3>1, Standing, ClientFacts
      <4>2. Spent(at[c].round, at[c].attempt, at[c].link) <= Budget(c)
        BY <4>1, SpentFacts DEF Budget
      <4>3. Budget(c) \in Nat
        <5>1. Rounds(call[c].kind) * Attempts \in Nat
          BY <4>1, ClientFacts
        <5>. QED
          BY <5>1, ClientFacts, ProductGrows DEF Budget
      <4>. QED
        BY <1>1, <3>1, <4>2, <4>3, Standing
    <3>2. CASE pc[c] \notin {"asking", "streaming", "reported", "store", "round"}
      <4>1. at[c].asked = 0
        BY <1>1, <3>2, Types DEF CallFits, Labels, Ended
      <4>2. Rounds(call[c].kind) \in Nat
        BY <1>1, ClientFacts DEF IInv, TypeOK, NoCall
      <4>3. Rounds(call[c].kind) * Attempts \in Nat
        BY <4>2, ClientFacts
      <4>4. Budget(c) \in Nat
        BY <4>3, ClientFacts, ProductGrows DEF Budget
      <4>. QED
        BY <4>1, <4>4
    <3>. QED
      BY <3>1, <3>2
  <2>3. ChargedOnce
    BY <1>1 DEF IInv, ChargedOnce, EntryOK, Paid
  <2>. QED
    BY <2>1, <2>2, <2>3 DEF CostsAreKept
<1>. QED
  BY <1>1, Invariance, PTL

\* Any non-empty set of natural numbers has a least element.
LEMMA LeastElement ==
  ASSUME NEW T \in SUBSET Nat, T # {}
  PROVE  \E x \in T : \A y \in T : x <= y
<1>1. PICK x \in T : \A y \in T : ~(<<y, x>> \in OpToRel(<, Nat))
  BY WFMin, NatLessThanWellFounded
<1>2. \A y \in T : ~(y < x)
  BY <1>1 DEF OpToRel
<1>. QED
  BY <1>2

\* The vector index returns a row if there is one, whatever the number of rows.
LEMMA ClosestExists ==
  ASSUME NEW entries, \A e \in entries : e.req \in Request, NEW e0 \in entries, NEW r \in Request
  PROVE  Closest(entries, r) # {}
<1> DEFINE far(e) == Distance[e.req.text, r.text]
           T == {far(e) : e \in entries}
<1>1. \A e \in entries : far(e) \in Nat
  BY CacheAssumption DEF Request
<1>2. T \in SUBSET Nat /\ T # {}
  BY <1>1
<1>3. PICK x \in T : \A y \in T : x <= y
  BY <1>2, LeastElement
<1>4. PICK e \in entries : x = far(e)
  BY <1>3
<1>5. e \in Closest(entries, r)
  BY <1>3, <1>4 DEF Closest
<1>. QED
  BY <1>5

\* Only a lookup of its own takes a call from the cache to an answer or a provider.
LEMMA LookupEnds ==
  ASSUME IInv, [Next]_vars, NEW c \in Callers, pc[c] = "lookup", pc'[c] \in {"done", "asking"}
  PROVE  Hit(c) \/ Miss(c)
<1>1. pc \in [Callers -> Labels] /\ pc' # pc
  BY Types
<1>2. PICK d \in Callers : Call(d) \/ Advance(d) \/ Cancel(d)
  BY <1>1 DEF Next, vars, Tick, ClearCache
<1>3. \E label : pc' = [pc EXCEPT ![d] = label]
  BY <1>1, <1>2 DEF Call, Cancel, Advance, OpenCache, Hit, Miss, Store, CacheRaises, Reply, Open,
       Usage, EndOfStream, FallBack, Retry, GiveUp, Break, Finish, Again, Exhaust,
       Ask, Raise, Return, Goto
<1>4. d = c
  BY <1>1, <1>3
<1>5. CASE Call(c) \/ Store(c) \/ Reply(c) \/ Open(c) \/ Usage(c) \/ EndOfStream(c) \/ FallBack(c)
            \/ Retry(c) \/ GiveUp(c) \/ Break(c) \/ Finish(c) \/ Again(c) \/ Exhaust(c)
  BY <1>5 DEF Call, Store, Reply, Open, Usage, EndOfStream, FallBack, Retry, GiveUp, Break,
       Finish, Again, Exhaust
<1>6. CASE OpenCache(c) \/ CacheRaises(c) \/ Cancel(c)
  BY <1>1, <1>6 DEF OpenCache, CacheRaises, Cancel, Raise, Goto
<1>. QED
  BY <1>2, <1>4, <1>5, <1>6 DEF Advance

LEMMA HitIsHonest ==
  ASSUME IInv, NEW c \in Callers, Hit(c)
  PROVE  /\ pc'[c] = "done" /\ at'[c].item \notin Foreign(Files)
         /\ \E e \in cache.entries :
              /\ e.item = at'[c].item /\ Same(e, call[c].req) /\ Within(e)
              /\ e.item \in Items => call[e.item[1]].req = e.req
<1>1. PICK e \in Candidates(cache, call[c].req) :
        Answers(cache, e, call[c].req, now) /\ at' = [at EXCEPT ![c].item = e.item]
  BY DEF Hit
<1>2. pc[c] = "lookup" /\ pc' = [pc EXCEPT ![c] = "done"]
  BY DEF Hit, Goto
<1>3. /\ e \in cache.entries /\ EntryOK(e) /\ e.req \in Request /\ e.created \in Int
      /\ call[c].req \in Request
  <2>1. e \in cache.entries /\ EntryOK(e) /\ cache \in CacheRec
    BY <1>1, Types DEF Candidates, Closest
  <2>2. call[c] \in Calls
    BY <1>2, Types DEF CallFits
  <2>. QED
    BY <2>1, <2>2, ClientFacts DEF CacheRec
<1>4. at'[c].item = e.item
  BY <1>1, Types DEF AtRec
<1>5. Same(e, call[c].req)
  BY <1>1, <1>3 DEF Candidates, Closest, Answers, Same, Key, Scope, Request
<1>6. Within(e)
  <2>1. ~(now > e.created + Ttl) /\ now \in Int /\ Ttl \in Int
    BY <1>1, <1>3, Types, CacheAssumption, ClientAssumption DEF Answers, Expired, EntryOK
  <2>. QED
    BY <1>3, <2>1 DEF Within
<1>7. pc'[c] = "done"
  BY <1>2, Types
<1>. QED
  BY <1>3, <1>4, <1>5, <1>6, <1>7 DEF EntryOK

LEMMA MissIsHonest ==
  ASSUME IInv, NEW c \in Callers, Miss(c),
         NEW e0 \in cache.entries, Same(e0, call[c].req), Within(e0)
  PROVE  \E e \in cache.entries \ cache'.entries : ~Within(e)
<1> DEFINE q == call[c].req
           S == {e \in cache.entries : Scope(e.req) = Scope(q)}
<1>1. /\ pc[c] = "lookup"
      /\ \/ Candidates(cache, q) = {}
         \/ \E e \in Candidates(cache, q) :
              ~Answers(cache, e, q, now) /\ cache' = AfterMiss(cache, e, now)
  BY DEF Miss
<1>2. /\ cache \in CacheRec /\ q \in Request /\ now \in Int /\ Ttl \in Int /\ Threshold \in Int
      /\ \A e \in cache.entries : EntryOK(e) /\ e.req \in Request /\ e.created \in Int
  <2>1. call[c] \in Calls
    BY <1>1, Types DEF CallFits
  <2>. QED
    BY <2>1, Types, ClientFacts, ClientAssumption, CacheAssumption DEF CacheRec
<1> HIDE DEF q
<1>3. cache.kind # "exact" => e0 \in S
  BY <1>2 DEF Same, Scope, q
<1>4. Candidates(cache, q) # {}
  <2>1. CASE cache.kind = "exact"
    <3>1. Key(e0.req) = Key(q)
      BY <1>2, <2>1 DEF Same, Key, q
    <3>. QED
      BY <2>1, <3>1 DEF Candidates
  <2>2. CASE cache.kind # "exact"
    <3>1. \A e \in S : e.req \in Request
      BY <1>2
    <3>2. Closest(S, q) # {}
      BY <1>2, <1>3, <2>2, <3>1, ClosestExists
    <3>. QED
      BY <2>2, <3>2 DEF Candidates
  <2>. QED
    BY <2>1, <2>2
<1>5. PICK e \in Candidates(cache, q) :
        ~Answers(cache, e, q, now) /\ cache' = AfterMiss(cache, e, now)
  BY <1>1, <1>4
<1>6. e \in cache.entries
  BY <1>5 DEF Candidates, Closest
<1>7. cache.kind # "exact" => Near(e, q)
  <2> SUFFICES ASSUME cache.kind # "exact"
               PROVE  Near(e, q)
    OBVIOUS
  <2>1. Distance[e.req.text, q.text] <= Distance[e0.req.text, q.text]
    BY <1>3, <1>5 DEF Candidates, Closest
  <2>2. Distance[e0.req.text, q.text] <= Threshold
    BY DEF Same, Near, q
  <2>3. Distance[e.req.text, q.text] \in Nat /\ Distance[e0.req.text, q.text] \in Nat
    BY <1>2, <1>6, CacheAssumption DEF Request
  <2>4. PICK m : m = Distance[e.req.text, q.text]
    OBVIOUS
  <2>5. PICK n : n = Distance[e0.req.text, q.text]
    OBVIOUS
  <2>6. m \in Nat /\ n \in Nat /\ m <= n /\ n <= Threshold
    BY <2>1, <2>2, <2>3, <2>4, <2>5
  <2>7. m <= Threshold
    BY <1>2, <2>6
  <2>. QED
    BY <2>4, <2>7 DEF Near
<1>8. Expired(e, now)
  BY <1>5, <1>7 DEF Answers
<1>9. cache'.entries = cache.entries \ {e}
  BY <1>2, <1>5, <1>8 DEF AfterMiss, CacheRec
<1>10. ~Within(e)
  BY <1>2, <1>6, <1>8 DEF Within, Expired, EntryOK
<1>. QED
  BY <1>6, <1>9, <1>10

\* For any requests, distances, thresholds, times to live and files: a hit is a fresh
\* answer to a request of the same scope and the same, or a near, text, and a lookup
\* passes over a fresh answer only behind an expired nearer one, which it removes.
THEOREM HitsAreHonest == Spec => LookupsAreHonest
<1>1. ASSUME IInv, [Next]_vars, NEW c \in Callers
      PROVE  HonestLookup(c)
  <2> SUFFICES ASSUME pc[c] = "lookup"
               PROVE  HonestLookup(c)
    BY DEF HonestLookup
  <2>1. CASE pc'[c] = "done"
    <3>1. Miss(c) => pc'[c] = "asking"
      BY <1>1, Types DEF Miss, Ask, Goto
    <3>2. Hit(c)
      BY <1>1, <2>1, <3>1, LookupEnds
    <3>. QED
      BY <1>1, <2>1, <3>2, HitIsHonest DEF HonestLookup
  <2>2. CASE pc'[c] = "asking"
    <3>1. ~Hit(c)
      BY <1>1, <2>2, HitIsHonest
    <3>2. Miss(c)
      BY <1>1, <2>2, <3>1, LookupEnds
    <3>. QED
      BY <1>1, <2>2, <3>2, MissIsHonest DEF HonestLookup
  <2>. QED
    BY <2>1, <2>2 DEF HonestLookup
<1>2. IInv /\ [Next]_vars => [\A c \in Callers : HonestLookup(c)]_vars
  BY <1>1
<1>. QED
  BY <1>2, Invariance, PTL DEF Spec, LookupsAreHonest

-----------------------------------------------------------------------------
(* Every call ends: with the limits it runs under, each of its steps       *)
(* leaves less to do.                                                      *)

\* What is left of a call: the requests it may still make, four steps each at most,
\* and where it stands in the present one.
Stage(label, opened) ==
  CASE label = "lookup" -> IF opened THEN 1 ELSE 2
    [] label = "asking" -> 4
    [] label = "streaming" -> 3
    [] label \in {"reported", "store"} -> 2
    [] label = "round" -> 1
    [] OTHER -> 0
Left(c) == 4 * (Budget(c) - at[c].asked) + Stage(pc[c], cache.kind # "unopened")

UnderWay(c) == pc[c] \notin Ended \cup {"new"}

LEMMA StageFacts == \A label, opened : Stage(label, opened) \in 0..4
BY DEF Stage

LEMMA BudgetFacts ==
  ASSUME CostsAreKept, NEW c \in Callers
  PROVE  /\ Budget(c) \in Nat /\ at[c].asked \in Nat /\ at[c].asked <= Budget(c)
         /\ pc[c] \in Labels /\ Stage(pc[c], cache.kind # "unopened") \in 0..4
<1>1. at[c] \in AtRec /\ pc[c] \in Labels /\ call[c] \in {NoCall} \cup Calls
  BY DEF CostsAreKept, TypeOK, AtRec, Labels
<1>2. Rounds(call[c].kind) \in Nat
  BY <1>1, ClientFacts DEF NoCall
<1>3. Rounds(call[c].kind) * Attempts \in Nat
  BY <1>2, ClientFacts
<1>4. Budget(c) \in Nat
  BY <1>3, ClientFacts, ProductGrows DEF Budget
<1>5. Stage(pc[c], cache.kind # "unopened") \in 0..4
  BY StageFacts
<1>. QED
  BY <1>1, <1>4, <1>5 DEF CostsAreKept, BudgetHolds, AtRec

\* A step that stays within the request it is about.
LEMMA SameRequest ==
  ASSUME CostsAreKept, CostsAreKept', NEW c \in Callers, call' = call,
         at'[c].asked = at[c].asked,
         Stage(pc[c], cache.kind # "unopened")' < Stage(pc[c], cache.kind # "unopened")
  PROVE  Left(c)' < Left(c)
<1> DEFINE s == Stage(pc[c], cache.kind # "unopened")
           t == Stage(pc[c], cache.kind # "unopened")'
<1>1. Budget(c) \in Nat /\ at[c].asked \in Nat /\ s \in 0..4
  BY BudgetFacts
<1>2. t \in 0..4
  BY StageFacts
<1>3. Left(c) = 4 * (Budget(c) - at[c].asked) + s
  BY DEF Left
<1>4. Left(c)' = 4 * (Budget(c) - at[c].asked) + t
  BY DEF Left, Budget
<1>5. t < s
  OBVIOUS
<1> HIDE DEF s, t
<1>. QED
  BY <1>1, <1>2, <1>3, <1>4, <1>5

\* The next request uses up one of those the limits allow.
LEMMA NextRequest ==
  ASSUME CostsAreKept, CostsAreKept', NEW c \in Callers, call' = call,
         NEW round, NEW attempt, NEW link, Ask(c, round, attempt, link),
         pc[c] \in {"lookup", "asking", "round"}
  PROVE  Left(c)' < Left(c)
<1> DEFINE a == at[c].asked
           b == at'[c].asked
           s == Stage(pc[c], cache.kind # "unopened")
           t == Stage(pc[c], cache.kind # "unopened")'
<1>1. Budget(c) \in Nat /\ a \in Nat /\ a <= Budget(c)
  BY BudgetFacts
<1>2. at \in [Callers -> AtRec] /\ pc \in [Callers -> Labels]
  BY DEF CostsAreKept, TypeOK, AtRec, Labels
<1>3. b = IF a > Budget(c) THEN a ELSE a + 1
  BY <1>2 DEF Ask
<1>4. b = a + 1
  BY <1>1, <1>3
<1>5. pc'[c] = "asking"
  BY <1>2 DEF Ask, Goto
<1>6. t = 4
  BY <1>5 DEF Stage
<1>7. s \in 1..4
  BY DEF Stage
<1>8. Left(c) = 4 * (Budget(c) - a) + s
  BY DEF Left
<1>9. Left(c)' = 4 * (Budget(c) - b) + t
  BY DEF Left, Budget
<1> HIDE DEF a, b, s, t
<1>. QED
  BY <1>1, <1>4, <1>6, <1>7, <1>8, <1>9

LEMMA AdvanceRunsDown ==
  ASSUME CostsAreKept, CostsAreKept', NEW c \in Callers, Advance(c)
  PROVE  pc'[c] \in Ended \/ Left(c)' < Left(c)
<1>1. /\ at \in [Callers -> AtRec] /\ pc \in [Callers -> Labels]
      /\ \A label : Goto(c, label) => pc'[c] = label
  BY DEF CostsAreKept, TypeOK, AtRec, Labels, Goto
<1>2. CASE Hit(c) \/ CacheRaises(c) \/ GiveUp(c) \/ Break(c) \/ Finish(c) \/ Exhaust(c)
  BY <1>1, <1>2 DEF Hit, CacheRaises, GiveUp, Break, Finish, Exhaust, Return, Raise, Ended
<1>3. CASE Miss(c) \/ FallBack(c) \/ Retry(c) \/ Again(c)
  <2>1. call' = call /\ pc[c] \in {"lookup", "asking", "round"}
    BY <1>3 DEF Miss, FallBack, Retry, Again
  <2>2. PICK round, attempt, link : Ask(c, round, attempt, link)
    BY <1>3 DEF Miss, FallBack, Retry, Again
  <2>. QED
    BY <2>1, <2>2, NextRequest
<1>4. CASE OpenCache(c)
  <2>1. /\ call' = call /\ at' = at /\ pc' = pc /\ pc[c] = "lookup"
        /\ cache.kind = "unopened" /\ cache'.kind # "unopened"
    BY <1>4 DEF OpenCache, Opened, Cache
  <2>2. /\ Stage(pc[c], cache.kind # "unopened") = 2
        /\ Stage(pc[c], cache.kind # "unopened")' = 1
    BY <2>1 DEF Stage
  <2>. QED
    BY <2>1, <2>2, SameRequest
<1>5. ASSUME call' = call, at'[c].asked = at[c].asked,
             \/ pc[c] = "asking" /\ pc'[c] \in {"streaming", "store", "round"}
             \/ pc[c] = "streaming" /\ pc'[c] = "reported"
             \/ pc[c] \in {"reported", "store"} /\ pc'[c] = "round"
      PROVE  Left(c)' < Left(c)
  <2>1. Stage(pc[c], cache.kind # "unopened")' < Stage(pc[c], cache.kind # "unopened")
    BY <1>5 DEF Stage
  <2>. QED
    BY <1>5, <2>1, SameRequest
<1>6. CASE Store(c) \/ EndOfStream(c)
  BY <1>1, <1>5, <1>6 DEF Store, EndOfStream
<1>7. CASE Reply(c)
  <2>1. at' = [at EXCEPT ![c] = [at[c] EXCEPT !.item = at'[c].item]]
    BY <1>1, <1>7 DEF Reply, AtRec
  <2>2. at'[c].asked = at[c].asked
    BY <1>1, <2>1 DEF AtRec
  <2>. QED
    BY <1>1, <1>5, <1>7, <2>2 DEF Reply
<1>8. CASE Open(c)
  <2>1. PICK r \in {[at[c] EXCEPT !.item = i, !.got = @ \cup {i}] : i \in {Newest(c)}} :
          at' = [at EXCEPT ![c] = r]
    BY <1>1, <1>8 DEF Open, AtRec
  <2>2. at'[c].asked = at[c].asked
    BY <1>1, <2>1 DEF AtRec
  <2>. QED
    BY <1>1, <1>5, <1>8, <2>2 DEF Open
<1>9. CASE Usage(c)
  <2>1. at'[c].asked = at[c].asked
    BY <1>1, <1>9 DEF Usage, AtRec
  <2>. QED
    BY <1>1, <1>5, <1>9, <2>1 DEF Usage
<1>. QED
  BY <1>2, <1>3, <1>4, <1>6, <1>7, <1>8, <1>9 DEF Advance

\* The steps of the others, of the clock and of whoever clears the cache leave a
\* call what it has to do, or open the cache for it.
LEMMA OthersAddNothing ==
  ASSUME CostsAreKept, CostsAreKept', NEW c \in Callers, UnderWay(c), UnderWay(c)',
         pc'[c] = pc[c], at'[c] = at[c], call'[c] = call[c],
         cache.kind # "unopened" => cache'.kind # "unopened"
  PROVE  Left(c)' <= Left(c)
<1> DEFINE s == Stage(pc[c], cache.kind # "unopened")
           t == Stage(pc[c], cache.kind # "unopened")'
<1>1. Budget(c) \in Nat /\ at[c].asked \in Nat /\ s \in 0..4
  BY BudgetFacts
<1>2. t \in 0..4
  BY StageFacts
<1>3. Left(c) = 4 * (Budget(c) - at[c].asked) + s
  BY DEF Left
<1>4. Left(c)' = 4 * (Budget(c) - at[c].asked) + t
  BY DEF Left, Budget
<1>5. t <= s
  BY DEF Stage
<1> HIDE DEF s, t
<1>. QED
  BY <1>1, <1>2, <1>3, <1>4, <1>5

LEMMA OpenedStays ==
  ASSUME [Next]_vars, cache.kind # "unopened", CostsAreKept
  PROVE  cache'.kind # "unopened"
<1>1. cache = [kind |-> cache.kind, entries |-> cache.entries]
  BY DEF CostsAreKept, TypeOK
<1>2. CASE UNCHANGED cache
  BY <1>2
<1>3. ASSUME NEW entries, cache' = [cache EXCEPT !.entries = entries]
      PROVE  cache'.kind # "unopened"
  BY <1>1, <1>3
<1>4. CASE ClearCache
  BY <1>3, <1>4 DEF ClearCache
<1>5. ASSUME NEW c \in Callers, Store(c) \/ Miss(c)
      PROVE  cache'.kind # "unopened"
  BY <1>2, <1>3, <1>5 DEF Store, Miss, Put, AfterMiss
<1>. QED
  BY <1>2, <1>4, <1>5
  DEF Next, vars, Advance, Call, Cancel, Tick, OpenCache, Hit, CacheRaises, Reply, Open, Usage,
      EndOfStream, FallBack, Retry, GiveUp, Break, Finish, Again, Exhaust

\* A call under way moves in its own steps only.
LEMMA OwnStepsOnly ==
  ASSUME CostsAreKept, [Next]_vars, NEW c \in Callers, UnderWay(c), ~Advance(c), ~Cancel(c)
  PROVE  pc'[c] = pc[c] /\ at'[c] = at[c] /\ call'[c] = call[c]
<1>1. /\ at \in [Callers -> AtRec] /\ pc \in [Callers -> Labels]
      /\ call \in [Callers -> {NoCall} \cup Calls]
  BY DEF CostsAreKept, TypeOK, AtRec, Labels
<1>2. CASE UNCHANGED <<pc, at, call>>
  BY <1>2
<1>3. ASSUME NEW d \in Callers, d # c, NEW label, NEW r,
             pc' = [pc EXCEPT ![d] = label], at' = [at EXCEPT ![d] = r], UNCHANGED call
      PROVE  pc'[c] = pc[c] /\ at'[c] = at[c] /\ call'[c] = call[c]
  BY <1>1, <1>3
<1>4. CASE \E d \in Callers : Call(d)
  <2>1. PICK d \in Callers : Call(d)
    BY <1>4
  <2>2. d # c
    BY <2>1 DEF Call, UnderWay
  <2>. QED
    BY <1>1, <2>1, <2>2 DEF Call, Ask, Goto
<1>5. ASSUME NEW d \in Callers, d # c, Advance(d) \/ Cancel(d)
      PROVE  pc'[c] = pc[c] /\ at'[c] = at[c] /\ call'[c] = call[c]
  BY <1>1, <1>5
  DEF Advance, Cancel, OpenCache, Hit, Miss, Store, CacheRaises, Reply, Open, Usage,
      EndOfStream, FallBack, Retry, GiveUp, Break, Finish, Again, Exhaust, Raise, Return, Ask, Goto
<1>. QED
  BY <1>2, <1>4, <1>5 DEF Next, vars, Tick, ClearCache

\* Whatever the providers and the cache do, a call asks at most as often as its
\* limits allow and takes four steps a request: each of its own leaves less to do,
\* and nobody else's adds to it (llm/client.py, policies).
THEOREM CallsRunDown ==
  Spec => /\ [](\A c \in Callers : Left(c) \in 0..(4 * Budget(c) + 4))
          /\ [][\A c \in Callers : UnderWay(c) =>
                  /\ pc'[c] \in Ended \/ Left(c)' <= Left(c)
                  /\ Advance(c) => pc'[c] \in Ended \/ Left(c)' < Left(c)]_vars
<1>1. ASSUME CostsAreKept, NEW c \in Callers
      PROVE  Left(c) \in 0..(4 * Budget(c) + 4)
  <2>1. \A b, a \in Nat : \A s \in 0..4 : a <= b => 4 * (b - a) + s \in 0..(4 * b + 4)
    OBVIOUS
  <2>. QED
    BY <1>1, <2>1, BudgetFacts DEF Left
<1>3. CostsAreKept => \A c \in Callers : Left(c) \in 0..(4 * Budget(c) + 4)
  BY <1>1
<1>5. (CostsAreKept => \A c \in Callers : Left(c) \in 0..(4 * Budget(c) + 4))'
  BY <1>3, PTL
<1>2. ASSUME CostsAreKept, CostsAreKept', [Next]_vars
      PROVE  \A c \in Callers : UnderWay(c) =>
               /\ pc'[c] \in Ended \/ Left(c)' <= Left(c)
               /\ Advance(c) => pc'[c] \in Ended \/ Left(c)' < Left(c)
  <2> TAKE c \in Callers
  <2> SUFFICES ASSUME UnderWay(c)
               PROVE  /\ pc'[c] \in Ended \/ Left(c)' <= Left(c)
                      /\ Advance(c) => pc'[c] \in Ended \/ Left(c)' < Left(c)
    OBVIOUS
  <2>1. Advance(c) => pc'[c] \in Ended \/ Left(c)' < Left(c)
    BY <1>2, AdvanceRunsDown
  <2>2. Left(c) \in Int /\ Left(c)' \in Int
    <3>1. \A n : \A x \in 0..n : x \in Int
      OBVIOUS
    <3>2. Left(c)' \in 0..(4 * Budget(c)' + 4)
      BY <1>2, <1>5
    <3>. QED
      BY <1>1, <1>2, <3>1, <3>2
  <2>3. CASE Advance(c)
    <3>1. Left(c)' < Left(c) => Left(c)' <= Left(c)
      BY <2>2
    <3>. QED
      BY <2>1, <2>3, <3>1
  <2>4. CASE Cancel(c)
    BY <1>2, <2>1, <2>4 DEF Cancel, Raise, Goto, Ended, CostsAreKept, TypeOK
  <2>5. CASE ~Advance(c) /\ ~Cancel(c)
    <3>1. pc'[c] = pc[c] /\ at'[c] = at[c] /\ call'[c] = call[c]
      BY <1>2, <2>5, OwnStepsOnly
    <3>2. Left(c)' <= Left(c)
      BY <1>2, <3>1, OthersAddNothing, OpenedStays DEF UnderWay
    <3>. QED
      BY <2>5, <3>2
  <2>. QED
    BY <2>3, <2>4, <2>5
<1>4. CostsAreKept /\ CostsAreKept' /\ [Next]_vars =>
        [\A c \in Callers : UnderWay(c) =>
           /\ pc'[c] \in Ended \/ Left(c)' <= Left(c)
           /\ Advance(c) => pc'[c] \in Ended \/ Left(c)' < Left(c)]_vars
  BY <1>2
<1>. QED
  BY <1>3, <1>4, CostsAreBooked, PTL DEF Spec

=============================================================================
