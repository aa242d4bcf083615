# A TLA+ verification project for actants

actants is a Python framework for LLM agents. Its hard part is durability: an
agent run, or a graph run, writes a checkpoint after every step, the process may
die anywhere, and a later process continues the thread without repeating what was
done and without doing what needs a person's consent. This directory models that
core, the store beneath it, the client, tools and remote agents it calls, and the
suite that records and replays it, with the concurrency of the event loop around
them; TLC checks the models on small instances, and TLAPS proves the safety
properties of all but one of them, and their refinements, for every instance.

Paths below are relative to `src/src/actants/` unless they start with `src/`.

## 1. Inventory

| component | state | operations | hard behaviour | what makes it correct |
|---|---|---|---|---|
| Agent run and resume (`agents/agent.py`) | `_RunState`, `_Turn`, the thread's `Checkpoint` | `run`, `resume`, the step loop, `_dispatch_calls`, `_interrupt`, `_resolve_interrupt`, `_resolve_in_flight`, `_checkpoint`, `_checkpoint_failure` | death at any await; exceptions of hooks, model, store; pauses; a limit that changes between resumes | a call that cannot be repeated is not repeated, a gated call is approved, at most one call is in doubt, nothing recorded is lost, every call ends |
| Resume lock (`agents/agent.py`) | `Agent._resume_locks` | `_resume_guard`, `resume` | several coroutines on one thread, cancelled waiters and holders, the agent's lock taken under the thread's | resumes of a thread follow each other, each decides on what is stored, all end unless an abandoned stream keeps the agent's lock |
| Turns of an agent (`agents/agent.py`, `agents/memory.py`) | `Agent.memory`, `Agent._lock`, `_Turn` | `_turn`, `run`, `stream`, `_commit_turn`, `reset`, `trim` | overlapping turns in two modes, failure, cancellation, abandoned streams, a memory with a limit | whole turns or nothing, in one piece; a turn sees its own prompt |
| Graph engine (`graph/state_graph.py`, `graph/state.py`) | the graph being built; `_Run`, `_GraphState` inside a `Checkpoint` | `add_node`, `add_edge`, `compile`; `invoke`, `stream`, `resume`, `_drive`, `_route_after`, `_interrupt` | death between a node and its record, routers that raise, loops, guards | what compiles can run; recorded nodes form a path, updates are merged once, guards and budget survive resumes |
| Agent as a node (`graph/agent_node.py`) | none | one call of `Agent.run` | none of its own | not modelled |
| Checkpoint stores (`agents/checkpoint.py`, `storage/sqlite.py`) | a dict, or a SQLite file, a lock and worker threads | `put`, `get`, `list_threads`, `delete` | a cancelled `put` whose worker goes on; two processes on a new file; a file of another version | a register for each thread; writes land in the order of the calls |
| LLM client (`llm/client.py`, `policies/retry.py`, `cost/`) | cache, `CostTracker`, retry policy | `complete`, `_stream_layered`, `extract`, `run_agent` | retries, a stream that fails after its first event, concurrent misses of the cache | no two completions spliced, every completion charged once |
| Fallback chain (`policies/fallback.py`) | the list of providers | `complete`, `stream_events` | failure before and after the first event | the first provider that answers, and no other afterwards |
| Caches (`cache/`) | entries with an expiry; a file with a version | `get_request`, `set_request`, opening the file | the instant of expiry, the nearest row being stale or out of scope | never an expired answer, nor one to another request |
| Structured output (`llm/structured.py`, `llm/partial_json.py`) | none between calls | `_plan_schema`, `extract`, `extract_stream` | five dialects of schema, nulls that stand for absence, a parse of every prefix | an answer is read as it was meant; only a wrong one is repaired |
| Tools (`tools/`) | the registered tools | `register`, `get`, `call` | a call by a wrong name or with wrong arguments, a check that raises | failures become results, a check is asked before the tool runs |
| MCP (`mcp/`) | open sessions, listed tools | `__aenter__`, `__aexit__`, a tool's handler; the served handler | partial opening, a session closed or lost under a call, two registries with a check each | sessions follow the block; an answer is what happened |
| A2A (`a2a/`) | a task's events | `execute`, `cancel`; a RemoteAgent's handler | a cancellation between any two events | a task goes one of the standard ways |
| Recording and replay (`testing/recording.py`, `storage/jsonl.py`) | lines of a file, a cursor, the requests seen | `RunRecorder.add`, `Recording.load`, `ReplayProvider._next` | concurrent calls, a file cut short, failed calls that leave no line | a replay serves each exchange once and gives the recorded report |
| Evaluations, fakes (`testing/`) | the results of a suite | `EvalSuite.run`, `compare`, scorers | cases that share one agent and its lock | cases do not see each other; a suite ends |
| Provider adapters (`llm/*_provider.py`), embeddings, configuration, logging, tracing, command line, benchmarks | none to speak of | input and output | none | not modelled |

How they interact: a caller starts `Agent.run` or `CompiledGraph.invoke`; these
call the LLM client, the tools and the checkpointer, each across an `await`, at
which another task of the event loop may run or the process may die. The store is
the only state that outlives a process; the agent's memory and its locks are
shared by the tasks of one process and by nothing else. A tool may be a function,
a session of an MCP server or a remote agent, and a registry may itself be served.
A suite drives an agent whose provider is a recorder or a replay.

`PROJECT.json` lists the components with their status and, under "hazards", every
place of this code that is hard to test, at its line, with the properties that
watch it.

## 2. Modules

| module | models | kind |
|---|---|---|
| `AgentDurable` | one durable thread of an agent | detailed specification |
| `CallLedger` | what that thread promises about tool calls | abstract specification |
| `ResumeLocks` | concurrent resumes of a thread | detailed specification |
| `AgentMemory` | overlapping turns of one agent | detailed specification |
| `GraphBuilder` | building and compiling a graph | pure operators |
| `GraphRun` | one durable thread of a compiled graph | detailed specification |
| `GraphWalk` | what that thread promises about nodes | abstract specification |
| `CheckpointStore` | the SQLite store of several processes | detailed specification |
| `CheckpointRegister` | what a checkpoint store promises | abstract specification |
| `RequestCache` | the two completion caches | pure operators |
| `LLMCalls` | concurrent calls of one LLM client; extends `RequestCache` | detailed specification |
| `SchemaPlan` | how a schema is sent and an answer read | pure operators |
| `PartialJson` | the parser of incomplete JSON | pure operators |
| `Extraction` | one `extract` or `extract_stream`; extends both | detailed specification |
| `RemoteSessions` | the block of an MCP client | component of `ToolCalls` |
| `A2ATask` | the tasks of an A2A executor | component of `ToolCalls` |
| `ToolCalls` | a tool call from the registry to its far end and back | composition |
| `Scorers` | the verdicts on one run | pure operators |
| `OfflineSuite` | a suite recorded and replayed; extends `Scorers` | detailed specification |
| `MC*` | constants of the instances | for TLC |
| `AgentDurable_proofs`, `ResumeLocks_proofs`, `AgentMemory_proofs`, `GraphRun_proofs`, `CheckpointStore_proofs`, `LLMCalls_proofs`, `ToolCalls_proofs`, `OfflineSuite_proofs` | theorems of the module each extends | proofs |

### AgentDurable and CallLedger

`store` is the checkpoint, `state` the `_RunState` in the process, `pc` the await
the coroutine stands at. Every step between two awaits that another party can see
is one action: `Complete` (the model answers), `CheckpointCompletion`,
`DispatchCall`, `RecordResult`, `Interrupt`, `Answer`, `ExceedMaxSteps`; `Resume`
loads the checkpoint and leaves by `ResumeInterrupted`, `ResumeInFlight`,
`ResumeSettled` or `ResumeRefused`, which are the four ways through
`_resume_locked` and `_resolve_pending_step`. An exception is `Raise`, followed by
`CheckpointFailure`, the code's best effort to mark the thread as failed; a dead
or cancelled process is `Crash`, which keeps only `store`. A tool's effect and the
record of its result are two steps, which is where the crash hurts.

`effects`, `approvals` and `retries` are history: what the world saw of each call
and what people answered. No guard of an action reads them.

A call is its tool's name, and a result only says where it came from. Messages
follow from the prompt and the steps and are left out. The idempotent, gated and
known tools, the limits and the registries a process is built with are constants.

`CallLedger` knows two sets: the calls asked for and those whose outcome is on
record. A call runs only while it is asked for and not settled. `LedgerKept` is
`CallLedger`'s specification under `asked <- Asked, settled <- Settled`.

### ResumeLocks

Several callers of `resume` on one thread. `locks` is one lock per agent object,
because the code keeps `_resume_locks` in the `Agent`; which caller uses which
agent is the constant `AgentOf`. `Call` queues, `Acquire` gets the lock, `Refuse`
and `Rebuild` are the two outcomes of reading the checkpoint, and `Cancel` strikes
a waiter or the holder. `Answer` writes the completed record, and `Commit` is
`_commit_turn`: it takes `Agent._lock` while the thread's lock is still held. `turns` says
which turn of an agent's own holds that lock across awaits: in a serialized agent each
`run` and `stream` does (`Begin`, `End`), a stream its consumer left for as long as nobody
closes it (`Abandon`, `Close`). The step being resumed has `Calls` calls, some gated, some
idempotent, and `done` is the number of results each caller's run holds.

### AgentMemory

Any number of turns of one agent, run, streamed or resumed, in the mode
`isolated` (a private copy, committed when the turn ends) or `serialized` (the
agent's own memory under the agent's lock). `Unwind` is the way out of the
`async with self._turn()` by an exception, a cancellation, a pause or the closing of the
generator. A stream may stand still at a `yield` for ever (`Abandon`) until it is
closed (`Close`). `memory` is a history without its system messages, which are counted
in `system`. A resumed turn has those of its checkpoint among what is pending
(`agents/agent.py:727`), so each commit of one adds them again (`brings`). Every message goes
through `Trim`, which keeps the last `Room` messages beside the system messages, or all of them when
`Room` is 0, as the slice does; `Extended` is a whole turn added message by message,
its system messages at any place before its last.

### GraphBuilder, GraphRun and GraphWalk

`GraphBuilder` is a graph as it is built and what `compile` accepts. `MCGraphRun`
builds its graph with it, and TLC checks by an `ASSUME` that `compile` accepts
exactly the graphs that can run, among all those of up to two nodes; `GraphRun_proofs` proves it
for graphs of any size (`CompileIsExact`).

In `GraphRun` the state the user's nodes compute is the sequence of updates merged so
far, which shows a lost or repeated update. `StartNode` passes the guard, `RunNode` is the
node's effect, `MergeUpdate` the update, `Park` and `Route` the two writes of
`_route_after`. `SkipRejected` is the way past a node a person refused.
`GraphWalk` knows the path of completed nodes and where it stands: it grows by an
edge, and a node runs only at its end. `WalkKept` is its specification under the
recorded nodes of `GraphRun`.

### CheckpointStore and CheckpointRegister

Processes with one `SqliteCheckpointer` each share a file. A call has two parts:
the coroutine (`Call`, `Acquire`, `Return`), which waits for the checkpointer's lock
and then for its worker, and the worker (`EnsureSchema`, `CreateTable`, then
`Select` or `Execute` and `CommitRow`). `Cancel` ends the coroutine alone, except
that a worker that has not begun is taken back; the lock is free from then on.
The lock goes to the oldest call that waits for it, as `asyncio.Lock` hands it on.
`TimeOut` is a write behind a writer that stalls for longer than the 30 seconds of
`storage/sqlite.py:15`: it raises "database is locked", at any time and with any table.
`Crash` takes a process and the transactions it had open. A record is the number of
the `put` that wrote it.

`CheckpointRegister` is one register for each thread. A call takes effect at one
moment between its start and its end; a call nobody waits for any more may do so at any
later moment, or never. `IsRegister` is the refinement.

### LLMCalls and RequestCache

One caller for each call under way; all share the client's cache and its
`CostTracker`. A call is three nested loops, kept in `at`: the rounds of
`extract` and of the agent loops (`Again`), the attempts of the retry policy
(`Retry`), the links of the fallback chain (`FallBack`). A round that is not
streamed ends in `Reply`, which records the completion; `Store` is a step of its
own, because a cache may wait or raise after the completion is paid for. A streamed
round is `Open`, `Usage`, `EndOfStream`; `Break` in the middle of it ends the call,
where the same error before the first event is `FallBack`, `Retry` or `GiveUp`.
Whether a completion parses, or asks for tools, is not in the state: `Again`,
`Finish` and `Exhaust` choose. `made` is history: the completions of each call
and how often each was charged.

A request is a text and everything else. `RequestCache` has both caches as operators on
their entries: the exact one looks an entry up by the key, the semantic one takes the nearest row
of the scope and then asks whether it is fresh and near enough. `OpenCache` picks a
backend and, for the semantic one, a file an earlier process left; `ClearCache` is anyone's `clear`.

### Extraction, SchemaPlan and PartialJson

`SchemaPlan` is `llm/structured.py`: a schema is a tree of the kinds of node the
dialects tell apart; `BuildSchemaPlan` chooses native or prompt transport and the
paths at which a null means absence; `DropDefaultedNulls` undoes the widening.
`Conforming` is what an obedient provider may answer and `Meant` what it meant by it:
these two are the specification, and do not use the paths. `PartialJson` is
`llm/partial_json.py` on tokens: the scanner, the cut, the brackets put back.
`Extraction` is one call over both: `PlanSchema`, `Complete`, then `Validate`, `Repair`
or `GiveUp`, or for a stream `TextDelta` for every chunk and `StreamEnds`.

### OfflineSuite and Scorers

The cases of a suite are coroutines over one agent: `Begin` takes a slot of the
semaphore, resets the memory and starts a turn, `Acquire` waits for the agent's
lock, `Complete` is the recorded provider, `Take` what the agent makes of its answer, `Tool` a
dispatch and the request after it, `EndsWith` the verdict. The calls of the last step are dispatched
like any other, with slot and lock held, before the run raises (`OutOfSteps`).
`Crash` ends the process between two lines of the recording or inside one, and with
it every case; nothing moves again before the file is loaded. `Load`
reads the file and either refuses it or starts the same suite over a replay, whose
`Serve` picks an exchange by the cursor or by the request. `setup` is chosen at the
start: the conversation mode, the slots, the way of matching, the prompts, and
whether the path of the recording was used before.

### ToolCalls, RemoteSessions and A2ATask

A call goes from `Dispatch` through the permission check (`Permit`) to a function
(`RunFunction`), over a session (`Send`) or to a peer (`SendToPeer`). At the far end
a foreign MCP server (`Foreign`), a server of our own with its registry and its
check (`Serve`, `FarPermit`, `FarRun`), or the task of an A2A executor (`PeerStep`)
goes on by itself; `Receive` and `ReceiveStream` make the result, `SessionGone` and
`Lost` end the call without one. `RemoteSessions` opens and closes the sessions of the
client while calls are under way, and its list of tools outlives a close that raises (`Exited`); `A2ATask` is the sequence of events one request
puts on its queue, with `CancelTask` between any two of them. The `mcp` and `a2a`
packages are external and modelled by what the code relies on.

## 3. Properties and runs

The type invariant of a module is a conjunct of one of its safety properties.
The others relate the record to the world, a step to earlier ones, or several tasks
to each other.

| run | instance | properties |
|---|---|---|
| `durable_breadth` | 3 tools (idempotent, not, gated), steps of up to 2 calls, 2 steps, 1 run, 2 resumes, 1 failure, processes with and without one tool | `NoAutoReplay` `GateHolds` `CallsAccountedFor` `PendingIsNext` `LedgerKept` `ProgressKept` |
| `durable_sequences` | the same tools, 1 call a step, limits 1 and 2, 2 runs, 2 resumes, 2 failures, fairness | `ErrorsKept` `CompletedIsFinal` `EveryCallReturns` |
| `graph_run` | 3 nodes with a loop and a guarded node, budget 3, 2 runs, 3 resumes, 2 failures, fairness | `GateHolds` `RecordFits` `WalkKept` `ErrorsKept` `EveryRunReturns` |
| `agent_memory` | 2 turns, both modes, no limit, limits of 1, 3 and 4, 1 tool round, 2 failures, 2 resumes, 1 reset, fairness | `TurnsAreWhole` `OwnTurnIsLast` `EveryTurnEnds` |
| `resume_locks` | 3 callers, 1 serialized agent with any number of turns and streams of its own, 4 calls (gated, idempotent, unsafe, gated), 4 resumes, 1 cancellation, fairness | `TurnsAreTaken` `DispatchesFitTheRecord` `EveryResumeEnds` |
| `llm_calls` | 2 callers; cached requests that differ in one extra, a repaired, a streamed and a streamed agent call; an empty cache or one of 4 files; 2 providers, 2 attempts, 1 repair, 2 steps, clock to 2, fairness | `NoSplice` `CostsAreKept` `LookupsAreHonest` `EveryCallEnds` |
| `extraction` | 9 schemas, 5 modes, streamed or not, 0 or 1 repairs, chunks of 1 and 5 tokens, fairness | `NativeNeedsNoRepair` `AnswerIsReadAsMeant` `WholeAnswerIsYielded` `EveryExtractionEnds` |
| `offline_suite` | 2 cases, 3 answers, 2 steps a case, equal or different prompts, 1 or 2 slots, both modes, both ways of matching, 1 failure, 1 crash, fairness | `ReplayKeepsTheRecording` `LoadIsHonest` `CasesAreIndependent` `SuiteEnds` |
| `checkpoint_store` | 3 calls, 2 processes, 1 thread, a new file, ours and another's, 1 cancellation or crash, any number of timeouts, fairness | `LockedOutByOthers` `IsRegister` `OlderNeverLandsOver` `EveryCallEnds` |
| `tool_calls` | 2 calls, 5 kinds of tool, 2 servers, gates at both ends, 1 fault, fairness | `CallsAreHonest` `TasksAreOrderly` `SessionsFollowTheBlock` `EveryCallEnds` |

What they show, where the name does not say it:

| property | says |
|---|---|
| `CallsAccountedFor` | at most one call may have run without a result on record, and it is the next one; every result is that of a dispatch, a rejection or a skip |
| `ProgressKept`, `ErrorsKept`, `CompletedIsFinal` | no step or result on record is lost; no failure written is, in `error` or `prior_errors`, as long as its run has the record; no resume changes a finished thread |
| `RecordFits` | a graph's record is consistent: the next node follows from the last, its state is the updates of its completed nodes, each once, in their order and of a visit that ran, with gaps only where a guarded node was refused; resumes do not extend the budget, and a router is only asked about a node whose update is durable |
| `TurnsAreWhole` | an isolated memory holds whole turns of finished runs only; a turn under way sees its own prompt and nobody's half turn, up to what a limit or a reset took from the front; the limit holds as long as the system messages leave room; a turn, or the system message, is there twice only where a resumed one brought it |
| `TurnsAreTaken`, `DispatchesFitTheRecord` | of the resumes of one thread one works at a time, on what is stored; a result on record is neither lost nor earned again, and an approval lets through only the call the thread is waiting at |
| `CostsAreKept` | a call asks providers at most rounds times attempts times links; no completion is charged twice, what is returned or cached was charged, and the tracker holds exactly that, in all and by tag |
| `LookupsAreHonest` | a hit is fresh and of the same request (exact) or of the same scope and near (semantic), and not from a file of another version; a miss in front of a fresh answer happens only behind an expired nearer one, which is deleted; said of each step of a lookup, whatever else is under way |
| `NativeNeedsNoRepair` | an obedient provider is read without a repair, if its dialect keeps the schema whole |
| `WholeAnswerIsYielded` | a streamed answer that arrives whole ends as the last instance, whatever the chunks |
| `ReplayKeepsTheRecording` | no exchange is served twice or to another request, and where the order is the same or does not matter, the replayed report is the recorded one |
| `LoadIsHonest` | a recording that loads has every exchange whose answer was used |
| `EveryResumeEnds` | every resume ends, queued or not, unless in the end one of its agent stands at its commit for ever, because an abandoned stream has the agent's lock |
| `LockedOutByOthers` | a call finds the file locked only while it makes the table, having been made before there was one, or behind a writer that stalls; that writer is of another process unless the caller of one of the two gave up (`agents/checkpoint.py:229`); a file of another version is refused without a trace |
| `OlderNeverLandsOver` | a write lands after a later one of the same process only if its caller had given up |
| `CallsAreHonest` | a tool's body runs at most once, after every check on the way; a value comes from a tool that returned it, and text that is none only from a server or peer of our own make |

Why these bounds are enough to see the interesting cases:

- Two calls in a step are needed for "the call after the one in doubt"; a step with
  one call has none. Two steps are needed for a result that is followed by
  another completion. Two resumes let the first one crash in the middle of the
  repair of the crash before it; one failure lets that be an exception as well.
- `durable_sequences` trades calls per step for the number of runs, so that a run
  meets the record of an earlier one; its two limits let a resume ask for fewer
  steps than the thread has already made. Its two failures, and those of `graph_run`, let
  a resume fail on a record that holds a failure, which is where one could be lost.
- The loop of `graph_run` passes the guarded node twice within the budget, which is
  where an approval that is not consumed, or a budget that starts anew, shows.
- Two turns are enough for one to read while the other writes. The two failures let
  a turn fail and the one queued behind it fail as well. A limit of 3 leaves two
  messages beside the system message, fewer than one turn with a tool call has; a
  limit of 1 leaves none. The two resumes bring the system message a second and a third
  time: within a limit of 4 this takes room, within one of 3 it takes the last of it.
- Two callers of `llm_calls` miss and store together, or one finds what the other
  stored, fresh or expired (time to live 1, clock to 2). Two of each limit let every
  loop go round once more inside every other. The files are a nearest row that
  expires before the next one, a nearer row of another scope, a row too far away,
  and a file of another version.
- The third caller of `resume_locks` lets one be cancelled in the queue while
  another holds the lock and a third waits. The agent is a serialized one, since an isolated one has the same
  steps without `Begin`.
- The schemas of `extraction` put a default at the top, in a nested model, in a
  list and behind `None`, where the widened paths do and do not reach, and hold each kind some dialect
  refuses. Chunks of one token let every prefix be parsed.
- Two cases of `offline_suite` are enough for one to be recorded in the middle of the other;
  with equal prompts their requests cannot be told apart. Two steps let a case end at its first
  answer, at its second, or at none.
- Three calls of `checkpoint_store` are a cancelled one, a newer one that must not
  be undone, and one that waits for the lock. The processes are alike, so `FirstIsP`, a
  CONSTRAINT on the states explored, lets "p" make the first call.
- Two calls of `tool_calls` are enough for one to be in the far end while the other's
  client is left; calls on different sessions do not interact.

Counters (`runs`, `resumes`, `raised`, `failures`, `cancels`, `resets`, `faults`, the
clock) only bound the
instance and appear in no other guard. `CHECK_DEADLOCK FALSE` is set in all runs:
when the bounds are used up and everything has returned, the system stops.

### Fairness

`EveryCallReturns` and `EveryRunReturns` assume weak fairness of the coroutine's
own progress, `Advance`: the event loop schedules a ready task. Nothing is assumed
of the callers (`Run`, `Resume`) and nothing about the process dying or an
exception. What the models make finite is the number of failures; that the model
keeps asking for calls is left to it, so these properties rest on the code's step
limit and node budget. The answer of the model and the end of a tool are part of
`Advance`: a provider that never answers is outside the claim.

`EveryTurnEnds` assumes weak fairness of every turn's `Advance`, which for a turn that
waits on the lock is enough: the lock goes to the waiter that comes
first, and the model has at most one. It excepts the case in which the lock's holder
is a stream its consumer has abandoned without closing it, in which the code does
wait for ever. `EveryResumeEnds` needs strong fairness of `Acquire`, because
a lock may be free again and again and be taken by others in between;
`asyncio.Lock` wakes its waiters first in, first out, which is stronger. The same holds of
`Commit` and `Agent._lock`, which the agent's turns take again and again; a turn under way ends
by weak fairness (`End`), and nothing is assumed of whoever abandoned a stream.

`EveryCallEnds` of `LLMCalls` assumes weak fairness of each call's `Advance`: a provider or cache
answers or raises in the end, and the consumer of a stream asks for its next event.
One that closes it is `Cancel`, of which nothing is assumed.

`EveryExtractionEnds` and `SuiteEnds` assume weak fairness of one coroutine's, or one
suite's, next step; a suite's provider failures and crashes are not part of it.
`EveryCallEnds` of `CheckpointStore` assumes that some call or worker that can go
on does: calls are finitely many, and the lock is handed on in their order. A `TimeOut` ends a call
sooner and is not counted on.
`EveryCallEnds` of `ToolCalls` assumes it of the near and of the far end of each call: a person asked
for permission answers and a server replies. That a session is ever closed is not
assumed, nor that a lost connection is noticed.

### Where the code and its documentation differ

Two runs each check one statement of the documentation of the code, and TLC shows a
behaviour that breaks it. `PROJECT.json`, "findings", quotes the statement and the line
of the code.

| run | property | behaviour |
|---|---|---|
| `extraction_f17` | `WholeAnswerIsYielded` | a streamed answer with a comma or an opening bracket inside a string ends `extract_stream` with a RecursionError at the chunk that ends inside that string |
| `tools_f19` | `NoCallRaises` | a tool call with an argument called `name` raises a TypeError out of the agent's run |

The passing runs state their properties so that they are true of the code, and their
comments name the exception where there is one. What was found on the way:

- An approved call that died in flight is run again by the next approval, because the
  thread still reads `interrupted` (`agents/agent.py:815`); `NoAutoReplay` excepts gated
  calls. After `UnresolvedToolCallError` the thread is `failed`, so the answer it asks for
  also needs `resume_failed` (`agents/agent.py:543`, against
  `src/docs_site/concepts/durability.md:136`). A run that dies before its first
  checkpoint marks an earlier run's record as failed (`agents/agent.py:708`, against
  `durability.md:218`), and replaces that record's error and its history of errors by its own
  (`agents/agent.py:713`, `graph/state_graph.py:876`), though `prior_errors` is "every
  failure this thread has already been resumed past" (`agents/checkpoint.py:92`). `ErrorsKept`
  is therefore about the failures of the run that has the record.
- A resumed turn commits the history its run began with a second time
  (`agents/agent.py:729`), its system messages included (`agents/agent.py:736`). Each takes the room of a message
  from then on (`agents/memory.py:53`), and once they fill `max_messages` the slice is `[-0:]` and nothing is trimmed
  any more, against "keeps the most recent N" (`agents/memory.py:12`).
- A resume that is through waits for `Agent._lock` while it holds the thread's lock
  (`agents/agent.py:547`, `735`). If a stream of a serialized agent was abandoned, it and every
  resume queued behind it wait for ever, though the record already says `completed`; `EveryResumeEnds` excepts this.
- A streamed turn does not pause before a guarded tool
  (`agents/agent.py:993`); an approval that waited for the lock is spent on the next pause
  (`agents/agent.py:441`).
- `Agent(memory=...)` replaces a memory that is still empty: `memory or
  ConversationMemory(...)` asks a class with `__len__` (`agents/agent.py:304`), and its
  `max_messages` is lost. Trimming may separate a tool's result from its call, and in
  serialized mode take a turn's own prompt; with no room beside the system messages it
  keeps everything (`agents/memory.py:58`).
- Two processes that open a new file at once: one may find it locked
  (`agents/checkpoint.py:206`), though the store is "safe to open from several processes". Later a write
  may find it locked as well, behind a writer of another process that stalls for 30 seconds (`storage/sqlite.py:15`), or
  of its own if a cancelled `put` let the lock go. A cancelled
  `put` may land later, over a newer one of the next caller (`agents/checkpoint.py:233`).
  A checkpointer and a semantic cache in one file disagree about `user_version`.
- The paths at which a null means absence stop at lists and at `X | None`
  (`llm/structured.py`), so that an obedient provider may still cost repairs, against "the
  repair loop is simply never entered" (`llm/client.py:453`). `extract_stream` accepts an answer cut
  short if what arrived is an instance.
- A failing call leaves no line in a recording, so a replay in the mode `sequence` serves
  the next one in its place; recording to an existing path leaves a file that does not
  load. `compare` counts the cost of failed cases as nothing. A scorer that raises leaves the other
  cases of the suite running.
- An MCP server returns its registry's failures as ordinary text (`mcp/server.py:135`);
  a `RemoteAgent` does so with a failed or cancelled task (`a2a/client.py:86`). A client that cannot
  be entered keeps the sessions it had opened (`mcp/client.py:67`), and one whose sessions do not close
  cleanly keeps its list of tools (`mcp/client.py:77`). A cancelled A2A task may
  still be completed (`a2a/executor.py:114`).

## 4. What is proved

Each theorem holds for every value of the constants that satisfies the named
assumptions of the module, and the passing runs evaluate those assumptions on their
instances. The bounds in the guards are arbitrary numbers in the theorems, so that
they hold for any number of runs, resumes, failures, calls and faults. Every safety
and action property of the passing runs is proved, but for the three of
`Extraction`.

| module | theorem | property | the part of the argument that is not in the property |
|---|---|---|---|
| `AgentDurable_proofs` | `TypeCorrect` | `TypeOK` | |
| | `NoCallIsReplayed`, `GatesHold`, `CallsAreAccounted`, `PausesAreExact` | `NoAutoReplay`, `GateHolds`, `CallsAccountedFor`, `PendingIsNext` | how state and store agree at each `pc` |
| | `ProgressIsKept`, `CompletionIsFinal`, `FailuresAreKept` | `ProgressKept`, `CompletedIsFinal`, `ErrorsKept` | a second invariant, `HInv`, about the record's history |
| | `LedgerIsKept` | `LedgerKept` | refinement of `CallLedger` |
| | `CallsRunDown` | | a variant: the steps and calls that are left |
| `ResumeLocks_proofs` | `TypeCorrect` | `TypeOK` | |
| | `TurnsTaken`, `DispatchesFit` | `TurnsAreTaken`, `DispatchesFitTheRecord` | for callers of one `Agent` (`OneAgent`) |
| | `ResumesRunDown` | | for any agents: the thread's lock has an owner that goes on or waits at its commit for a turn of the agent (`OnlyStreamsBlock`) |
| `AgentMemory_proofs` | `TypeCorrect` | `TypeOK` | |
| | `TurnsWhole`, `OwnTurnStaysLast` | `TurnsAreWhole`, `OwnTurnIsLast` | what a history may hold, wherever it is kept, and with how many system messages |
| | `TurnsRunDown` | | who can hold the lock across an await (`RoundsOK`) |
| `GraphRun_proofs` | `TypeCorrect` | `TypeOK` | |
| | `GatesHold`, `RecordsFit`, `FailuresAreKept` | `GateHolds`, `RecordFits`, `ErrorsKept` | how far a run is ahead of its record |
| | `WalkIsKept` | `WalkKept` | refinement of `GraphWalk` |
| | `CallsRunDown` | | nodes left in the budget |
| | `CompileIsExact` | | about `GraphBuilder`: what the breadth-first search reaches |
| `CheckpointStore_proofs` | `TypeCorrect` | `TypeOK` | |
| | `LockedOut`, `WritesLandInOrder` | `LockedOutByOthers`, `OlderNeverLandsOver` | what is known of the file, and the order of the calls |
| | `StoreIsRegister` | `IsRegister` | refinement of `CheckpointRegister` |
| | `CallsRunDown` | | who holds which lock (`LocksOK`) |
| `LLMCalls_proofs` | `TypeCorrect` | `TypeOK` | |
| | `ResponsesAreWhole`, `CostsAreBooked`, `HitsAreHonest` | `NoSplice`, `CostsAreKept`, `LookupsAreHonest` | a measure of the three loops; what an entry was filed under |
| | `CallsRunDown` | | the same measure, counted down |
| `ToolCalls_proofs` | `TypeCorrect` | `TypeOK` (of the proofs) | |
| | `SessionsFollow`, `TasksFollow`, `HonestCalls` | `SessionsFollowTheBlock`, `TasksAreOrderly`, `CallsAreHonest` | how much of a lifecycle is told at each place of a task |
| | `CallsRunDown` | | what a waiting call waits for (`GoingOK`) |
| `OfflineSuite_proofs` | `TypeCorrect` | `TypeOK` (of the proofs) | |
| | `CasesStayApart`, `LoadsAreHonest`, `ReplaysKeepTheRecording` | `CasesAreIndependent`, `LoadIsHonest`, `ReplayKeepsTheRecording` | the tape of answers that the recording holds and the replay plays |
| | `SuiteRunsDown` | | who has a slot and who the lock |

### The invariants

**AgentDurable.** `IInv == TypeOK /\ Local /\ World`. None of the properties is
inductive: a crash forgets the process and a resume rebuilds it from the store, so
the invariant says how the two agree at each `pc`, and what the world has seen of the
call the process is about to make or to record. `InSync` says that outside the two
points where the process is ahead by a completion (`HasAnswer`) or has yet to write
(`Thinking`) the two hold the same steps; `Licensed`, that a process about to dispatch
has one permission that is not used up. There is one lemma for each kind of
step: `InvokeStep` for a dispatch, `RecordStep` for a write, `AnswerStep` for a
person's answer, `WorldFrame` for the steps that change no history, put together in
`NextIInv`. `HInv` adds that only the last step of a record is unfinished and that a
call under way carries every failure its record holds (`ErrorsCarried`): without it a
failure on top of a failure could lose the first one. With both, each step maps to a
step of `CallLedger` or to a stutter (`LedgerStep`).

**ResumeLocks.** `IInv == TInv /\ ViewIsFresh /\ ApprovedIsPaused`. That a task past
the lock is alone there is type correctness (`TInv`, for any agents); that its view
is the store's needs that all locks are one lock. This is the theorem's hypothesis
`OneAgent`, which is what the user guide promises exclusion for; with a second agent
`TurnsAreTaken` is false.

**AgentMemory.** `HistoryOK(t, h, n)` is one predicate for a history of turn `t` with `n` system messages, wherever it
is kept: the agent's memory, a private copy, a checkpoint a resume will load. `Own`
says that after the turn's first message all others are its own and that nobody
unborn is in it; `Whole` that in isolated mode it is in one piece and all before it
is committed; `Fresh` that what will be committed is the end of it; `Brought` that only a resumed turn brings
system messages; `Resumed` that a
prompt is there twice only where a resumed turn ended. `IInv` says this of every place at once,
because `Resume`, `Commit`, `Trim` and `Reset` move histories from one to another;
trimming is `Suffix`, about which the lemmas `SuffixFacts` and `SuffixInOnePiece` are.

**GraphRun.** `IInv == TypeOK /\ StoreOK /\ RunOK /\ GateHolds /\ GateOK`. `StoreOK` is
`RecordFits` and how the counters are related; `RunOK` how far a run is ahead of its record at each
`pc`: by a node that has run, by an update, by a pointer that is not resolved yet. `GateOK` is the
approval in hand. `Merged` is the relation between completed nodes and merged
updates, with the positions of the updates as witness; `MergedOn`, `MergedRan` and
`MergedRejected` are its three ways to grow. The invariant uses `GraphAssumption`,
which is what `compile` ensures: `CompileIsExact`, for graphs of any size. `Reached` is a search in
rounds; `ReachedFacts` says that there is a path to whatever a round reaches, and that a round either adds
a node or is the last to change anything, so that as many rounds as there are nodes are enough;
`PathStaysIn`, that no path leaves a set the search has closed.

**CheckpointStore.** `IInv == TypeOK /\ CallOK /\ FileOK /\ OrderOK`. A cancelled
coroutine lets the lock go while its worker goes on, so mutual exclusion of the
writers is not to be had. `OrderOK` says what remains: a writer's worker does not begin before the
earlier writers of its process are over or given up. `FileOK` ties what a worker is doing
to the version it must have seen. The refinement has one lemma for each abstract
step (`BeginStep`, `TakeStep`, `LeaveStep`, `AbandonStep`); a crash abandons
several calls at once.

**LLMCalls.** `Spent(round, attempt, link)` is how many requests a call can have made when its three
loops stand there; `CallOK` bounds the real number by it at each `pc`, and `SpentFacts`
says how it grows. `EntryOK` says of a cached entry that it was paid for
and answers the request it is filed under; `Booked` that the tracker is the sum over a
finite set of charged completions, for every set of tags.

**ToolCalls.** `SInv` says that the open sessions are the first `n` of the configuration
(`Split`), which survives a failure in the middle of opening. `TaskOK` says at each place of an
A2A task which events are its own and which lifecycles they can still begin; `CallOK`
relates a call, its far end and its task. `ConfigAssumption` (the configured servers are distinct
objects) and `CatalogAssumption` are the assumptions.

**OfflineSuite.** Three invariants. `Sound` has the turns (`CaseOK`: what a case
works on is the history of its own answers; with one slot a case is alone), the
file (`FileGrew` before, `Fits` after it is loaded) and the replay (`ServedOK`: an
exchange that was served has a rank below the number of times its request was made).
`RunKept` says of a recording under way that the file holds the answers of each case
(`Told`), in order if there is one slot (`Ordered`, with the position at which each
case begins as witness). `LogKept` says of a finished one that there is a tape
of answers for each case from which the recorded results follow, and of a replay
that each case has played the beginning of its tape and makes the requests that are on
it. A recorded case that fails is on the tape up to its failure: by request, the
replay then finds no exchange (`ByRequestNext`), in order it would find the next
case's, which is why `InOrder` asks for no failures.

### Termination, up to fairness

The liveness properties say that every call ends. The prover cannot be given their fairness, but
it can be given everything else. The theorems `...RunDown` and `SuiteRunsDown` have three parts:

- a variant `Left`, a natural number with an explicit bound in the limits of the code: each
  step of a call lowers it or ends the call;
- nobody else's step raises it, so that other calls can delay a call and never prolong it;
- no deadlock: as long as a call is under way, it or the one it waits for has a step.
  `CanAdvance` and its like say so without ENABLED, with the guards of the steps written out.
  In `AgentDurable` and `LLMCalls` it is not stated: there each place of a call has steps of
  its own whose guards leave no case out, and nothing is waited for.

| theorem | the bound | who a call may wait for |
|---|---|---|
| `AgentDurable`: `CallsRunDown` | a new run: `(2 * MaxCalls + 3) * limit + 2` | nobody |
| `GraphRun`: `CallsRunDown` | `10 * max_iterations + 10` | nobody |
| `ResumeLocks`: `ResumesRunDown` | `2 * Calls + 4` | the holder of the thread's lock, who can go on unless it is to commit and a turn of the agent has `Agent._lock`; that turn ends unless it is an abandoned stream |
| `AgentMemory`: `TurnsRunDown` | `2 * MaxRounds + 3` | the holder of the lock, who can go on unless it is an abandoned stream |
| `CheckpointStore`: `CallsRunDown` | 6, once the call is made | its process's lock, a worker, the file; somebody can go on |
| `LLMCalls`: `CallsRunDown` | `4 * Budget + 4`, with `Budget` the product of the three limits | nobody |
| `ToolCalls`: `CallsRunDown` | 9, near and far end together | its own far end |
| `OfflineSuite`: `SuiteRunsDown` | `2 * MaxSteps + 2` of a case in each phase | a slot or the lock; some case can go on |

What is left to TLC is that fairness of these steps makes them happen: for the locks this is where the
strong fairness or the queue's order of section 3 comes in. The bounds hold for failures too, since an
exception is a step like any other.

### What the proofs turned up

- `ErrorsKept` of both engines was false as first stated once two failures were
  allowed: a run that fails before its first checkpoint replaces the errors of the
  run before it. It is now stated for what the code does, and the bound is two (section 3).
- The updates of a graph record were first compared by their number; the proof needed,
  and the property now states, which update belongs to which node (`Merged`).
- That a lookup is honest was a statement about one moment; as an action property of
  every lookup it needs that a file's items are not taken for the client's (`Foreign`).
- Exclusion between resumes needs that they share one `Agent`; that only an abandoned stream keeps one of them
  waiting for ever does not: `ResumesRunDown` holds for any agents over one store.
- An abandoned stream of a serialized agent is the only thing that can block a turn of `AgentMemory` or a resume of
  `ResumeLocks`. The exception `EveryTurnEnds` and `EveryResumeEnds` make for it is therefore the only one they need.
- In `OfflineSuite` a dead process still ran tools and took locks; this
  changed no property, and is corrected.

### What is only model-checked

- Liveness under fairness and ENABLED are out of the prover's reach: `EveryCallReturns`,
  `EveryRunReturns`, `EveryTurnEnds`, `EveryResumeEnds`, `EveryCallEnds`, `SuiteEnds`. Their
  variants and the absence of deadlock are proved, as above.
- `EveryExtractionEnds`: the same, and `Extraction` reaches RECURSIVE operators, so that its
  variant is not proved either.
- `NativeNeedsNoRepair`, `AnswerIsReadAsMeant` and `WholeAnswerIsYielded` of `Extraction`
  are about what recursive definitions over schemas and texts compute. The operators of `SchemaPlan` and
  `PartialJson` are RECURSIVE, which the prover does not handle, and an induction over the data
  needs theorems that take an operator.

## 5. What is left out

- Messages: in `AgentDurable` they follow from the steps. `AgentMemory` keeps their
  kind and turn; of system messages their number, not where they stand in a history.
- In `AgentDurable` the commit of a resumed turn to the agent's memory, and its wait for `Agent._lock`: they
  are in `AgentMemory` and `ResumeLocks`. A tool that resumes a thread through its own serialized agent, which
  waits for itself.
- For an agent or a graph the store is one atomic step, which is what
  `CheckpointRegister` promises to a caller that waits; what a cancelled `put` may do later is checked in
  `CheckpointStore` alone.
- `run` overlapping another `run` or a `resume` of the same thread, and two resumes of a
  graph: neither the code nor the documentation excludes it or promises anything.
- Two processes on one thread: documented as undefined. Two agents over one store have two resume locks
  (`agents/agent.py:456`); the user guide promises exclusion for one.
- The fields of pydantic models and what their validation makes of them, the schema of
  a tool made from a signature, the formats of providers.
- In `LLMCalls`: `last_schema_plan`, which two concurrent extractions overwrite and
  whose documentation says so; the tracker's totals by model and of tokens;
  what the tools of `run_agent` do, which is `ToolCalls`.
- In `OfflineSuite`: suites over a graph, scorers that raise or are written by the user, recorded
  streams, which are stored as the completion they add up to.
- In `PartialJson`: the code fence around an answer, which `llm/partial_json.py:34` takes off before
  anything else. In `RemoteSessions`: which session's close raised.
- All components marked `not_modelled` in `PROJECT.json`: translation and input or
  output with no state of its own.

## 6. Plan

The models are complete as far as they are planned. Their safety properties are
proved, but for those of `Extraction`, and so are the variants behind their liveness. What would come next is one composition: `ResumeLocks` and
`CheckpointStore` with `AgentDurable`, a resume that holds the lock over the register that
`CheckpointStore` implements.

## 7. Running

    tlc -workers 2 -config AgentDurableBreadth.cfg MCAgentDurable
    tlapm AgentDurable_proofs.tla

Every run ends within three minutes, the proofs of a module from nothing within ten. The definitions named `X_Something` are variants of
`X` with a plausible mistake; `PROJECT.json`,
"mutants", says which property each of them breaks.
