----------------------------- MODULE RequestCache -----------------------------
(***************************************************************************)
(* The two caches a client of actants can be given, as operators on their  *)
(* contents: the exact-match cache in memory                               *)
(* (src/src/actants/cache/memory.py) and the semantic cache in a SQLite    *)
(* file (src/src/actants/cache/semantic.py), over the description of a     *)
(* request both key on (src/src/actants/cache/request.py).                 *)
(*                                                                         *)
(* A request is a text and everything else. The embedding of a text is     *)
(* abstracted to the distances between texts.                              *)
(***************************************************************************)
EXTENDS Integers

CONSTANTS
  Texts,        \* the messages of a request ...
  Extras,       \* ... and all its other fields (model, seed, tools, ...)
  Distance,     \* between the embeddings of two texts
  Threshold,    \* similarity_threshold
  Ttl           \* default_ttl, the same for both caches

ASSUME CacheAssumption ==
  /\ Distance \in [Texts \X Texts -> Nat]
  /\ Threshold \in Nat /\ Ttl \in Nat

Request == [text : Texts, extra : Extras]

\* A cache and its entries: exact by key, semantic a table of rows. A semantic one
\* that refuses its file never opens.
Kinds == {"unopened", "exact", "semantic", "refused"}
Cache(kind, entries) == [kind |-> kind, entries |-> entries]

Entry(request, item, created) ==
  [req |-> request, item |-> item, created |-> created, expires |-> created + Ttl]

\* Mutant: the passthrough parameters are not part of the key.
Key_NoExtra(r) == [text |-> r.text]

\* The key is a hash of everything that changes the answer.
Key(r) == [text |-> r.text, extra |-> r.extra]

\* The scope is a hash of everything but the text.
Scope(r) == [extra |-> r.extra]

Expired(e, now) == now > e.expires
Near(e, r)      == Distance[e.req.text, r.text] <= Threshold

Closest(entries, r) ==
  {e \in entries : \A f \in entries :
                     Distance[e.req.text, r.text] <= Distance[f.req.text, r.text]}

\* Mutant: the nearest vector is searched for in all scopes and filtered afterwards.
Candidates_AllScopes(cache, r) ==
  IF cache.kind = "exact"
  THEN {e \in cache.entries : Key(e.req) = Key(r)}
  ELSE {e \in Closest(cache.entries, r) : Scope(e.req) = Scope(r)}

\* What a lookup considers: the entry of the key, or the one row of the scope the
\* vector index returns first.
Candidates(cache, r) ==
  IF cache.kind = "exact"
  THEN {e \in cache.entries : Key(e.req) = Key(r)}
  ELSE Closest({e \in cache.entries : Scope(e.req) = Scope(r)}, r)

\* Mutant: the semantic cache does not look at expires_at.
Answers_Stale(cache, e, r, now) ==
  IF cache.kind = "exact" THEN ~Expired(e, now) ELSE Near(e, r)

Answers(cache, e, r, now) ==
  ~Expired(e, now) /\ (cache.kind = "exact" \/ Near(e, r))

\* An expired candidate is deleted on the way; one that is merely too far is kept.
AfterMiss(cache, e, now) ==
  [cache EXCEPT !.entries = IF Expired(e, now) THEN @ \ {e} ELSE @]

\* A dict replaces the entry of the key; the table gets one more row.
Put(cache, e) ==
  [cache EXCEPT !.entries =
     {e} \cup IF cache.kind = "exact" THEN {f \in @ : Key(f.req) # Key(e.req)} ELSE @]

-----------------------------------------------------------------------------
(* Opening the file of a semantic cache.                                   *)

\* Mutant: the rows of another schema version are kept.
Opened_AnyVersion(file, onMismatch) ==
  IF file.version = "current" \/ onMismatch = "reset"
  THEN Cache("semantic", file.entries)
  ELSE Cache("refused", {})

\* A file of another version was keyed on fewer fields: it is emptied or refused.
Opened(file, onMismatch) ==
  IF file.version = "current" THEN Cache("semantic", file.entries)
  ELSE IF onMismatch = "reset" THEN Cache("semantic", {})
  ELSE Cache("refused", {})
=============================================================================
