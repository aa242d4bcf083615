------------------------------ MODULE LLMCalls ------------------------------
(***************************************************************************)
(* Calls of one LLM client (src/src/actants/llm/client.py) through its     *)
(* layers: the cache, exact or semantic (module RequestCache), the retry   *)
(* policy (policies/retry.py), the fallback chain (policies/fallback.py)   *)
(* and the cost tracker (cost/tracker.py).                                 *)
(*                                                                         *)
(* Any number of calls are under way at once on one event loop and take    *)
(* turns wherever the code awaits or yields. Providers answer, refuse, or  *)
(* break off a stream; the cache may raise; a call may be cancelled, and   *)
(* its stream abandoned, at any time.                                      *)
(*                                                                         *)
(* Simplifications:                                                        *)
(*  - a completion is its number; whether it parses, or asks for tools, is *)
(*    chosen when the loop around it looks;                                *)
(*  - a priced completion costs 1, an unpriced one 0;                      *)
(*  - a provider's stream is a text event, the usage event the providers   *)
(*    of this repository end with, and its end;                            *)
(*  - the pause before an attempt is part of the wait for its answer;      *)
(*  - which cache the client has, and what is in its file, is settled when *)
(*    a call first looks: nothing depends on it before.                    *)
(***************************************************************************)
EXTENDS Integers, Sequences, FiniteSets, TLC, RequestCache

CONSTANTS
  Callers,      \* the calls, one each
  Calls,        \* what they may call, with which arguments
  Backends,     \* the kinds of cache: exact, semantic
  Files,        \* what a semantic cache may find on disk
  OnMismatch,   \* on_schema_mismatch
  Chain,        \* the providers the client tries in turn
  Fallback,     \* the name of a FallbackProvider
  Priced,       \* the providers whose model has a published price
  RetryOn,      \* the errors its RetryPolicy retries
  Attempts,     \* max_attempts, or 1 with no policy
  Repairs,      \* max_repairs
  Steps,        \* max_steps
  Tags, NoTag,
  MaxTime       \* bound: the clock stops there

\* What a version that keyed on fewer fields has left on disk.
Foreign(files) == {e.item : e \in UNION {f.entries : f \in {g \in files : g.version # "current"}}}

ASSUME ClientAssumption ==
  /\ Calls \subseteq
       [kind : {"complete", "extract", "run_agent", "stream", "extract_stream",
                "run_agent_stream"},
        req : Request, tag : Tags \cup {NoTag},
        caching : BOOLEAN]
  /\ \A k \in Calls : k.caching => k.kind = "complete"
  /\ Chain \in Seq({Chain[i] : i \in DOMAIN Chain}) /\ Len(Chain) > 0
  /\ Fallback \notin {Chain[i] : i \in DOMAIN Chain}
  /\ Priced \subseteq {Chain[i] : i \in DOMAIN Chain}
  /\ RetryOn \subseteq {"transient", "fatal", "all_failed"}
  /\ NoTag \notin Tags
  /\ Backends \subseteq {"exact", "semantic"} /\ Backends # {}
  /\ OnMismatch \subseteq {"reset", "error"}
  /\ \A f \in Files : /\ f.version \in {"current", "other"}
                      /\ \A e \in f.entries : /\ e.req \in Request /\ e.created \in Int
                                              /\ e = Entry(e.req, e.item, e.created)
                                              /\ e.item[1] \notin Callers
                                              /\ f.version = "current" => e.item \notin Foreign(Files)
  /\ Attempts \in Nat \ {0} /\ Repairs \in Nat /\ Steps \in Nat \ {0}
  /\ MaxTime \in Nat

VARIABLES
  now,          \* the clock
  cache,        \* the cache and its entries
  tracker,      \* CostTracker: spend in all and by tag, and untracked_models
  pc,           \* where each call stands
  call,         \* its arguments
  at,           \* its loops: round, attempt, link of the chain, and the
                \* completion it holds; history: how often it asked a provider
                \* and which completions this round's events came from
  made          \* history: the completions made for each call, how often each
                \* was charged

vars == <<now, cache, tracker, pc, call, at, made>>

-----------------------------------------------------------------------------
(* Data.                                                                   *)

Streamed  == {"stream", "extract_stream", "run_agent_stream"}
Providers == {Chain[i] : i \in DOMAIN Chain}
Ended     == {"done", "out"}

\* self.provider.name: a chain of one is the provider itself.
ClientName == IF Len(Chain) = 1 THEN Chain[1] ELSE Fallback

\* How many completions a call may ask for: one and its repairs, or the steps.
Rounds(kind) == CASE kind = "extract" -> Repairs + 1
                  [] kind \in {"run_agent", "run_agent_stream"} -> Steps
                  [] OTHER -> 1

\* Whose last completion may not be an answer: it does not parse or asks for tools.
Unsure == {"extract", "extract_stream", "run_agent", "run_agent_stream"}

Cost(p) == IF p \in Priced THEN 1 ELSE 0

NoCall == [kind |-> "none", tag |-> NoTag, caching |-> FALSE]

\* The completions are numbered by the call they were made for.
NoItem == <<>>
Start  == [round |-> 0, attempt |-> 0, link |-> 0, item |-> NoItem, asked |-> 0,
           got |-> {}]

Init ==
  /\ now = 0
  /\ cache = Cache("unopened", {})
  /\ tracker = [total |-> 0, byTag |-> [t \in Tags |-> 0], untracked |-> {}]
  /\ pc = [c \in Callers |-> "new"]
  /\ call = [c \in Callers |-> NoCall]
  /\ at = [c \in Callers |-> Start]
  /\ made = [c \in Callers |-> <<>>]

-----------------------------------------------------------------------------
(* What the steps have in common.                                          *)

Goto(c, label) == pc' = [pc EXCEPT ![c] = label]

\* max_attempts, max_repairs and max_steps bound what one call may ask for.
Budget(c) == Rounds(call[c].kind) * Attempts * Len(Chain)

\* The next request goes to a provider. The history of requests stops counting one
\* above the budget.
Ask(c, round, attempt, link) ==
  /\ at' = [at EXCEPT ![c] = [
       round |-> round, attempt |-> attempt, link |-> link, item |-> NoItem,
       asked |-> IF @.asked > Budget(c) THEN @.asked ELSE @.asked + 1,
       got |-> IF round = @.round THEN @.got ELSE {}]]
  /\ Goto(c, "asking")

\* The call returns what it holds, or raises.
Return(c) ==
  /\ at' = [at EXCEPT ![c] = [Start EXCEPT !.item = at[c].item]]
  /\ Goto(c, "done")
Raise(c) ==
  /\ at' = [at EXCEPT ![c] = Start]
  /\ Goto(c, "out")

\* Mutant: only the first completion of a call is recorded under its tag.
Tag_FirstOnly(c) == IF at[c].round = 1 THEN call[c].tag ELSE NoTag

Tag(c) == call[c].tag

\* CostTracker.record of a completion under a provider's name.
Record(c, name, cost) ==
  tracker' = [total     |-> tracker.total + cost,
              byTag     |-> IF Tag(c) = NoTag THEN tracker.byTag
                            ELSE [tracker.byTag EXCEPT ![Tag(c)] = @ + cost],
              untracked |-> IF name \in Priced THEN tracker.untracked
                            ELSE tracker.untracked \cup {name}]

Asked(c) == Chain[at[c].link]
Make(c, charged) ==
  made' = [made EXCEPT ![c] = Append(@, [by |-> Asked(c), charged |-> charged])]
Newest(c) == <<c, Len(made'[c])>>

-----------------------------------------------------------------------------
(* The call and the cache.                                                 *)

\* Only complete() consults the cache, unless it is told not to or has tools.
Call(c) ==
  /\ pc[c] = "new"
  /\ \E k \in Calls :
       /\ call' = [call EXCEPT ![c] = k]
       /\ IF k.caching THEN Goto(c, "lookup") /\ UNCHANGED at
          ELSE Ask(c, 1, 1, 1)
  /\ UNCHANGED <<now, cache, tracker, made>>

\* The first lookup opens the cache.
OpenCache(c) ==
  /\ pc[c] = "lookup" /\ cache.kind = "unopened"
  /\ \/ "exact" \in Backends /\ cache' = Cache("exact", {})
     \/ /\ "semantic" \in Backends
        /\ \E f \in Files, m \in OnMismatch : cache' = Opened(f, m)
  /\ UNCHANGED <<now, tracker, pc, call, at, made>>

Serving == cache.kind \in {"exact", "semantic"}

Hit(c) ==
  /\ pc[c] = "lookup" /\ Serving
  /\ \E e \in Candidates(cache, call[c].req) :
       /\ Answers(cache, e, call[c].req, now)
       /\ at' = [at EXCEPT ![c].item = e.item]
  /\ Goto(c, "done")
  /\ UNCHANGED <<now, cache, tracker, call, made>>

Miss(c) ==
  /\ pc[c] = "lookup" /\ Serving
  /\ \/ Candidates(cache, call[c].req) = {} /\ UNCHANGED cache
     \/ \E e \in Candidates(cache, call[c].req) :
          /\ ~Answers(cache, e, call[c].req, now)
          /\ cache' = AfterMiss(cache, e, now)
  /\ Ask(c, 1, 1, 1)
  /\ UNCHANGED <<now, tracker, call, made>>

Store(c) ==
  /\ pc[c] = "store"
  /\ cache' = Put(cache, Entry(call[c].req, at[c].item, now))
  /\ Goto(c, "round")
  /\ UNCHANGED <<now, tracker, call, at, made>>

\* The backend raises: its embedder, its file, or a refusal to open it.
CacheRaises(c) ==
  /\ pc[c] \in {"lookup", "store"}
  /\ Raise(c)
  /\ UNCHANGED <<now, cache, tracker, call, made>>

-----------------------------------------------------------------------------
(* One round: the attempts of the policy, the links of the chain.          *)

\* The provider answers; the completion is recorded before it is stored.
Reply(c) ==
  /\ pc[c] = "asking" /\ call[c].kind \notin Streamed
  /\ Make(c, 1)
  /\ Record(c, Asked(c), Cost(Asked(c)))
  /\ at' = [at EXCEPT ![c].item = Newest(c)]
  /\ Goto(c, IF call[c].caching THEN "store" ELSE "round")
  /\ UNCHANGED <<now, cache, call>>

\* The first event of a stream.
Open(c) ==
  /\ pc[c] = "asking" /\ call[c].kind \in Streamed
  /\ Make(c, 0)
  /\ at' = [at EXCEPT ![c].item = Newest(c), ![c].got = @ \cup {Newest(c)}]
  /\ Goto(c, "streaming")
  /\ UNCHANGED <<now, cache, tracker, call>>

\* The usage event: recorded under the client's provider, and passed on.
Usage(c) ==
  /\ pc[c] = "streaming"
  /\ Record(c, ClientName, Cost(Asked(c)))
  /\ made' = [made EXCEPT ![c][at[c].item[2]].charged = @ + 1]
  /\ at' = [at EXCEPT ![c].got = @ \cup {at[c].item}]
  /\ Goto(c, "reported")
  /\ UNCHANGED <<now, cache, call>>

\* Mutant: whoever consumed the stream records the whole of it once more.
EndOfStream_Records(c) ==
  /\ pc[c] = "reported"
  /\ Record(c, ClientName, Cost(Asked(c)))
  /\ made' = [made EXCEPT ![c][at[c].item[2]].charged = @ + 1]
  /\ Goto(c, "round")
  /\ UNCHANGED <<now, cache, call, at>>

EndOfStream(c) ==
  /\ pc[c] = "reported"
  /\ Goto(c, "round")
  /\ UNCHANGED <<now, cache, tracker, call, at, made>>

\* A provider raises with nothing yielded: the next one of the chain is asked.
FallBack(c) ==
  /\ pc[c] = "asking" /\ at[c].link < Len(Chain)
  /\ Ask(c, at[c].round, at[c].attempt, at[c].link + 1)
  /\ UNCHANGED <<now, cache, tracker, call, made>>

\* What the policy sees when the last provider raises.
Error == IF Len(Chain) = 1 THEN {"transient", "fatal"} ELSE {"all_failed"}

\* Mutant: the failed attempt is not counted.
Retry_Uncounted(c) ==
  /\ pc[c] = "asking" /\ at[c].link = Len(Chain)
  /\ at[c].attempt < Attempts /\ Error \cap RetryOn # {}
  /\ Ask(c, at[c].round, at[c].attempt, 1)
  /\ UNCHANGED <<now, cache, tracker, call, made>>

Retry(c) ==
  /\ pc[c] = "asking" /\ at[c].link = Len(Chain)
  /\ at[c].attempt < Attempts /\ Error \cap RetryOn # {}
  /\ Ask(c, at[c].round, at[c].attempt + 1, 1)
  /\ UNCHANGED <<now, cache, tracker, call, made>>

GiveUp(c) ==
  /\ pc[c] = "asking" /\ at[c].link = Len(Chain)
  /\ at[c].attempt = Attempts \/ Error \ RetryOn # {}
  /\ Raise(c)
  /\ UNCHANGED <<now, cache, tracker, call, made>>

\* Mutant: a stream that broke off is opened again.
Break_Retried(c) ==
  /\ pc[c] \in {"streaming", "reported"}
  /\ IF at[c].attempt < Attempts
     THEN Ask(c, at[c].round, at[c].attempt + 1, 1)
     ELSE Raise(c)
  /\ UNCHANGED <<now, cache, tracker, call, made>>

\* A provider raises in the middle of its stream: neither the chain nor the policy
\* starts again.
Break(c) ==
  /\ pc[c] \in {"streaming", "reported"}
  /\ Raise(c)
  /\ UNCHANGED <<now, cache, tracker, call, made>>

-----------------------------------------------------------------------------
(* The rounds of extract and of the agent loops.                           *)

Finish(c) ==
  /\ pc[c] = "round"
  /\ Return(c)
  /\ UNCHANGED <<now, cache, tracker, call, made>>

\* Mutant: max_repairs counts one repair too many.
Again_OffByOne(c) ==
  /\ pc[c] = "round" /\ at[c].round <= Rounds(call[c].kind)
  /\ call[c].kind \in Unsure
  /\ Ask(c, at[c].round + 1, 1, 1)
  /\ UNCHANGED <<now, cache, tracker, call, made>>

\* The completion does not parse and is sent back, or its tools were called.
Again(c) ==
  /\ pc[c] = "round" /\ at[c].round < Rounds(call[c].kind)
  /\ Ask(c, at[c].round + 1, 1, 1)
  /\ UNCHANGED <<now, cache, tracker, call, made>>

Exhaust(c) ==
  /\ pc[c] = "round" /\ at[c].round = Rounds(call[c].kind)
  /\ call[c].kind \in Unsure
  /\ Raise(c)
  /\ UNCHANGED <<now, cache, tracker, call, made>>

-----------------------------------------------------------------------------
(* The caller and the clock.                                               *)

\* A cancelled task, or a consumer that closes its stream.
Cancel(c) ==
  /\ pc[c] \notin Ended \cup {"new"}
  /\ Raise(c)
  /\ UNCHANGED <<now, cache, tracker, call, made>>

Tick ==
  /\ now < MaxTime
  /\ now' = now + 1
  /\ UNCHANGED <<cache, tracker, pc, call, at, made>>

\* clear(), by whoever shares the cache; before the first lookup it finds nothing
\* to empty, the semantic cache's file included.
ClearCache ==
  /\ Serving /\ cache.entries # {}
  /\ cache' = [cache EXCEPT !.entries = {}]
  /\ UNCHANGED <<now, tracker, pc, call, at, made>>

Advance(c) ==
  \/ OpenCache(c) \/ Hit(c) \/ Miss(c) \/ Store(c) \/ CacheRaises(c)
  \/ Reply(c) \/ Open(c) \/ Usage(c) \/ EndOfStream(c)
  \/ FallBack(c) \/ Retry(c) \/ GiveUp(c) \/ Break(c)
  \/ Finish(c) \/ Again(c) \/ Exhaust(c)

Next == Tick \/ ClearCache \/ \E c \in Callers : Call(c) \/ Advance(c) \/ Cancel(c)

Spec == Init /\ [][Next]_vars

\* Providers answer or raise, and the consumer of a stream asks for the next
\* event or closes it.
FairSpec == Spec /\ \A c \in Callers : WF_vars(Advance(c))

-----------------------------------------------------------------------------
(* Properties.                                                             *)

Items   == UNION {{c} \X DOMAIN made[c] : c \in Callers}
Made(i) == made[i[1]][i[2]]
OnFile  == {e.item : e \in UNION {f.entries : f \in Files}}

TypeOK ==
  /\ now \in 0..MaxTime
  /\ cache \in [kind : Kinds, entries : SUBSET [req : Request, item : Items \cup OnFile,
                                               created : Int, expires : Int]]
  /\ tracker \in [total : Nat, byTag : [Tags -> Nat],
                  untracked : SUBSET (Providers \cup {Fallback})]
  /\ pc \in [Callers -> Ended \cup {"new", "lookup", "asking", "streaming", "reported",
                                    "store", "round"}]
  /\ call \in [Callers -> {NoCall} \cup Calls]
  /\ at \in [Callers -> [round : Nat, attempt : 0..Attempts, link : 0..Len(Chain),
                          item : {NoItem} \cup Items \cup OnFile, asked : Nat, got : SUBSET Items]]
  /\ \A c \in Callers : at[c].round <= Rounds(call[c].kind)
  /\ made \in [Callers -> Seq([by : Providers, charged : Nat])]

\* _stream_layered, FallbackProvider: "would splice two different completions into
\* one response". All events of a round come from one completion, whatever breaks.
NoSplice ==
  \A c \in Callers : Cardinality(at[c].got) <= 1

\* RetryPolicy.max_attempts bounds the attempts of one request, max_repairs and
\* max_steps the requests of one call, and a chain tries each provider once: no
\* interplay of the three asks a provider more often than their product.
BudgetHolds ==
  \A c \in Callers : at[c].asked <= Budget(c)

\* The tracker holds the cost of what was charged, in all and by the tag its call
\* was made with, every repair and step included.
Charged(tags) == {i \in Items : /\ Made(i).charged > 0 /\ Made(i).by \in Priced
                                /\ call[i[1]].tag \in tags}
TrackerAdds ==
  /\ tracker.total = Cardinality(Charged(Tags \cup {NoTag}))
  /\ \A t \in Tags : tracker.byTag[t] = Cardinality(Charged({t}))

\* No completion is charged twice, and one a call has returned, or keeps in the
\* cache, was charged: a hit costs nothing, a retry nothing on top.
ChargedOnce ==
  /\ \A i \in Items : Made(i).charged <= 1
  /\ \A c \in Callers :
       pc[c] = "done" /\ at[c].item \in Items => Made(at[c].item).charged = 1
  /\ \A e \in cache.entries : e.item \in Items => Made(e.item).charged = 1

\* What a call costs is bounded and booked: nothing is asked for beyond the limits,
\* and the tracker holds each completion once.
CostsAreKept == TypeOK /\ BudgetHolds /\ TrackerAdds /\ ChargedOnce

Same(e, r) == /\ e.req.extra = r.extra
              /\ IF cache.kind = "exact" THEN e.req.text = r.text ELSE Near(e, r)
Within(e)  == now <= e.created + Ttl

\* A hit is the answer to a request with the same scope and, in the exact cache,
\* the same text, in the semantic one a near text; it was stored no longer ago than
\* the time to live, and never by a version that keyed on fewer fields. A miss while
\* a fresh answer was there happens only behind an expired nearer one, and that is
\* gone then: no answer stays hidden.
HonestLookup(c) ==
  pc[c] = "lookup" =>
    /\ pc'[c] = "done" =>
         /\ at'[c].item \notin Foreign(Files)
         /\ \E e \in cache.entries :
              /\ e.item = at'[c].item /\ Same(e, call[c].req) /\ Within(e)
              /\ e.item \in Items => call[e.item[1]].req = e.req
    /\ pc'[c] = "asking" /\ (\E e \in cache.entries : Same(e, call[c].req) /\ Within(e)) =>
         \E e \in cache.entries \ cache'.entries : ~Within(e)

\* No step of any lookup is otherwise, exact or semantic, whatever else is under way.
LookupsAreHonest == [][\A c \in Callers : HonestLookup(c)]_vars

\* Every call returns or raises, whatever the providers do.
EveryCallEnds ==
  \A c \in Callers : pc[c] \notin Ended \cup {"new"} ~> pc[c] \in Ended

=============================================================================
