----------------------------- MODULE Extraction -----------------------------
(***************************************************************************)
(* One call of LLM.extract or LLM.extract_stream                           *)
(* (src/actants/llm/client.py) over a provider that answers in a dialect   *)
(* of SchemaPlan: the choice of the transport, the repairs of a one-shot   *)
(* extraction, and the partial parses of a streamed one.  Retries, cost    *)
(* and the cache of the completions are those of LLMCalls and left out.    *)
(*                                                                         *)
(* The provider is outside the code.  On the native path it gives an       *)
(* answer the schema it was sent admits, or breaks its promise (`obeyed`); *)
(* on the prompt path it gives a value with or without prose around it, or *)
(* no JSON at all.                                                         *)
(***************************************************************************)
EXTENDS SchemaPlan, PartialJson

CONSTANTS Schemas,      \* the pydantic models asked for
          RepairLimits, \* the values of max_repairs
          ChunkSizes    \* tokens one chunk of a stream may bring

VARIABLES
  request,   \* [schema, mode, streaming, maxRepairs]: the call and the provider's mode
  plan,      \* the SchemaPlan
  pc,        \* "plan", "ask", "read", "stream", "done"
  repairs,   \* the repair messages sent
  answer,    \* the completion: [value, before, after] around its prose
  received,  \* tokens of the answer the stream has delivered
  yielded,   \* the last instance yielded
  outcome,   \* the instance, or the error, the call ended with
  obeyed     \* history: every native answer was one the request admits

vars == <<request, plan, pc, repairs, answer, received, yielded, outcome, obeyed>>

None == [k |-> "none"]
Error(e) == [k |-> "error", error |-> e]
Junk == [k |-> "junk"]
Reply(value, before, after) == [value |-> value, before |-> before, after |-> after]

Prose(here) == IF here THEN <<"prose">> ELSE <<>>
Content(a) ==
  IF a.value = Junk THEN <<"prose">>
  ELSE Prose(a.before) \o Render(a.value) \o Prose(a.after)

(***************************************************************************)
(* The completions of one request.                                         *)
(***************************************************************************)
PromptValues == Conforming("ollama", request.schema) \cup Conforming("openai_json_schema", request.schema)
Obedient == IF plan.native THEN {Reply(v, FALSE, FALSE) : v \in Conforming(plan.mode, request.schema)}
            ELSE {Reply(v, p = "before", p = "after") : v \in PromptValues, p \in {"no", "before", "after"}}
Replies == Obedient \cup {Reply(Junk, FALSE, FALSE)}

Init ==
  /\ request \in [schema : Schemas, mode : Modes, streaming : BOOLEAN, maxRepairs : RepairLimits]
  /\ request.streaming => request.maxRepairs = 0
  /\ plan = None /\ pc = "plan" /\ repairs = 0
  /\ answer = None /\ received = 0 /\ yielded = None /\ outcome = None
  /\ obeyed = TRUE

PlanSchema ==
  /\ pc = "plan"
  /\ plan' = BuildSchemaPlan(request.schema, request.mode, request.streaming)
  /\ pc' = "ask"
  /\ UNCHANGED <<request, repairs, answer, received, yielded, outcome, obeyed>>

Complete ==
  /\ pc = "ask"
  /\ answer' \in Replies
  /\ obeyed' = (obeyed /\ answer'.value # Junk)
  /\ pc' = IF request.streaming THEN "stream" ELSE "read"
  /\ UNCHANGED <<request, plan, repairs, received, yielded, outcome>>

ProviderFails ==
  /\ pc \in {"ask", "stream"}
  /\ outcome' = Error("provider") /\ pc' = "done"
  /\ UNCHANGED <<request, plan, repairs, answer, received, yielded, obeyed>>

(***************************************************************************)
(* What a call validates: the parsed value without the nulls that stand    *)
(* for absence.                                                            *)
(***************************************************************************)
Read(parsed) == DropDefaultedNulls(parsed, plan.nullsMeanDefault)
IsInstance(v) == Valid(request.schema, v)
AsInstance(v) == Instance(request.schema, v)

(***************************************************************************)
(* _extract_payload and json.loads: the arguments of the forced tool call, *)
(* or the content from its first bracket on.                               *)
(***************************************************************************)
Payload ==
  IF answer.value = Junk THEN Unreadable
  ELSE IF plan.native /\ plan.mode = "anthropic_tool" THEN answer.value
  ELSE Loads(StripProse(Content(answer)), answer.value)

Validate ==
  /\ pc = "read"
  /\ \E parsed \in {Payload} : \E v \in {Read(parsed)} : IsInstance(v) /\ outcome' = AsInstance(v)
  /\ pc' = "done"
  /\ UNCHANGED <<request, plan, repairs, answer, received, yielded, obeyed>>

\* Mutant: a repair is not counted.
Repair_Uncounted ==
  /\ pc = "read" /\ repairs < request.maxRepairs
  /\ \E parsed \in {Payload} : \E v \in {Read(parsed)} : ~IsInstance(v)
  /\ pc' = "ask" /\ answer' = None
  /\ UNCHANGED <<request, plan, repairs, received, yielded, outcome, obeyed>>

Repair ==
  /\ pc = "read" /\ repairs < request.maxRepairs
  /\ \E parsed \in {Payload} : \E v \in {Read(parsed)} : ~IsInstance(v)
  /\ repairs' = repairs + 1 /\ pc' = "ask" /\ answer' = None
  /\ UNCHANGED <<request, plan, received, yielded, outcome, obeyed>>

GiveUp ==
  /\ pc = "read" /\ repairs >= request.maxRepairs
  /\ \E parsed \in {Payload} : \E v \in {Read(parsed)} : ~IsInstance(v)
  /\ outcome' = Error("invalid") /\ pc' = "done"
  /\ UNCHANGED <<request, plan, repairs, answer, received, yielded, obeyed>>

(***************************************************************************)
(* The stream.  A chunk arrives and everything received so far is parsed   *)
(* again; an instance that differs from the last one is yielded.  A stream *)
(* may end before its answer does, at the provider's token limit.          *)
(***************************************************************************)
Parse(n) ==
  IF answer.value = Junk THEN Unreadable
  ELSE ParsePartialJson(SubSeq(Content(answer), 1, n), answer.value)

Arrives(n) ==
  \E parsed \in {Parse(n)} : \E v \in {Read(parsed)} :
    IF parsed.k = "diverges"
    THEN outcome' = Error("recursion") /\ pc' = "done" /\ UNCHANGED yielded
    ELSE yielded' = (IF IsInstance(v) THEN AsInstance(v) ELSE yielded) /\ UNCHANGED <<outcome, pc>>

TextDelta(size) ==
  /\ pc = "stream" /\ received < Len(Content(answer))
  /\ \E n \in {Min({received + size, Len(Content(answer))})} : received' = n /\ Arrives(n)
  /\ UNCHANGED <<request, plan, repairs, answer, obeyed>>

StreamEnds ==
  /\ pc = "stream"
  /\ \E parsed \in {Parse(received)} : \E v \in {Read(parsed)} :
       IF IsInstance(v) THEN outcome' = AsInstance(v) /\ yielded' = outcome'
       ELSE outcome' = Error("invalid") /\ UNCHANGED yielded
  /\ pc' = "done"
  /\ UNCHANGED <<request, plan, repairs, answer, received, obeyed>>

Next ==
  \/ PlanSchema \/ Complete \/ ProviderFails
  \/ Validate \/ Repair \/ GiveUp
  \/ \E size \in ChunkSizes : TextDelta(size)
  \/ StreamEnds

Spec == Init /\ [][Next]_vars
FairSpec == Spec /\ WF_vars(Next)
-----------------------------------------------------------------------------
Ended(e) == pc = "done" /\ outcome = Error(e)
Returned == pc = "done" /\ outcome.k # "error"
Whole == received = Len(Content(answer))

(***************************************************************************)
(* A repair is spent only on an answer that is wrong: where the request    *)
(* keeps the schema whole, a provider that obeys it is read at once, nulls *)
(* for absent fields included (client.py:459, structured.py:220).          *)
(***************************************************************************)
NativeNeedsNoRepair ==
  plan # None /\ plan.native /\ obeyed /\ KeptWhole(plan.mode, request.schema)
    => repairs = 0 /\ (Ended("invalid") => request.streaming /\ ~Whole)

(***************************************************************************)
(* What a caller gets is what the answer meant: a null is read as absence  *)
(* where it stands for absence and nowhere else.  Of an answer cut short   *)
(* it is the meaning of the part that arrived.                             *)
(***************************************************************************)
AnswerIsReadAsMeant ==
  Returned => IF request.streaming /\ ~Whole
              THEN \E w \in Truncations(answer.value) : outcome = Meant(request.schema, w)
              ELSE outcome = Meant(request.schema, answer.value)

(***************************************************************************)
(* A streamed answer that arrives whole, and that a one-shot extraction    *)
(* would have read, is the last instance yielded, whatever the chunks were *)
(* and whatever prose followed; no prefix of it ends the call early.       *)
(***************************************************************************)
WholeAnswerIsYielded ==
  request.streaming /\ pc = "done" /\ answer \notin {None, Reply(Junk, FALSE, FALSE)}
    /\ IsInstance(Read(answer.value)) /\ outcome # Error("provider")
    => /\ outcome # Error("recursion")
       /\ Whole => yielded = Meant(request.schema, answer.value)

(***************************************************************************)
(* Every extraction ends, within one request more than its repairs.        *)
(***************************************************************************)
EveryExtractionEnds == <>(pc = "done")
=============================================================================
