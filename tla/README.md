# Letta: TLA+ models, model checking and proofs

Letta is a server that runs stateful LLM agents. A client sends messages to an
agent (or to a conversation with it); the server turns the request into a *run*,
takes a lock on the conversation, executes the agent's step loop and streams the
result back, directly or through a Redis stream that clients can read again.
Beside that path, batch jobs run agent steps through a provider's batch API, agents
share memory blocks, and agents keep a bounded set of files open. This directory
holds TLA+ specifications of the parts where coroutines, processes, Redis, the
database and cancellation interleave, the TLC instances that check them, and TLAPS
proofs of what matters most.

Paths below are relative to `src/letta/`.

## 1. Inventory

### The request path

| Component | State | Operations | What is hard | What makes it correct |
|---|---|---|---|---|
| Request admission, `services/streaming_service.py` | local handler state, the run row, lock and otid mapping in Redis | `create_agent_stream`, `_create_run`, `try_recover_duplicate_request` | five awaits between recovery, lock, run, mapping and spawn; retries of the same messages; exceptions at each | one agent loop per lock key; every request answered; the lock is given back; a retry reads the original's run |
| Conversation lock, `data_sources/redis_client.py` | key with token and TTL | `acquire/release_conversation_lock`, `set/get otid mapping` | release does not check the owner; TTL is not renewed; the failed SET and the GET of the holder are two calls | exclusion; no leak |
| Error-aware stream, `services/streaming_service.py:531-818` | status and stop reason to record | generator with a `finally` that updates the run and releases the lock | its `finally` may run long after its consumer left, from the event loop's finaliser | one recorded outcome, matching the stop reason |
| Background processor, `server/rest_api/redis_stream_manager.py:199-460` | saw_done, saw_error, stop reason | consume, report, stop the writer, release, record, force `[DONE]` | failure of any step inside `finally`; task cancellation | the client's stream always ends; the run always ends |
| Redis stream writer and reader, same file `:26-196`, `:463-526` | buffer, counters, flush times, flush task; reader cursor | `write_chunk`, `_periodic_flush`, `_flush_run`, `stop`, `mark_complete`; `redis_sse_stream_generator` | two flushers share a buffer across an await; pipelines fail part-way; counters reset; inclusive paging | no chunk twice, none lost, order, readers end |
| Cancellation-aware responses, `server/rest_api/streaming_response.py` | cancellation event per run, keepalive queue | wrapper, keepalive, `StreamingResponseWithStatusCode` | a cancellation noticed while a chunk is in hand; client disconnect | a cancelled run ends as cancelled |
| Run manager, `services/run_manager.py` | run rows, metrics, callback record | `create_run`, `update_run_by_id_async`, `cancel_run`, `_dispatch_callback_async` | read-decide-write across sessions; update is a column diff; several writers end one run | a terminal status stays; the callback fires once, with an outcome that was recorded |
| Agent loop, `agents/letta_agent_v3.py`, `letta_agent_v2.py`, `agents/helpers.py` | in-context ids, pending messages, stop reason, step rows | `step`, `stream`, `_step`, `_handle_ai_response`, `_decide_continuation`, `_checkpoint_messages`, `compact` | what is persisted when a step fails, is cancelled or waits for an approval; retry after compaction | persisted history is well-formed: every tool call is answered before the next assistant turn |
| Message endpoints, `server/rest_api/routers/v1/agents.py`, `conversations.py`, `runs.py` | none of their own | `send_message`, `send_message_async`, `send_message_streaming`, `cancel_*`, `retrieve_stream_for_run` | not all of them take the lock or end the run | as above |

### Other stateful components

| Component | State and operations | What is hard | Correct when |
|---|---|---|---|
| Tool rules, `helpers/tool_rule_solver.py`, `schemas/tool_rule.py` | call history; allowed tools per rule kind | combination of init, child, parent, conditional, max-count and terminal rules; prefilled arguments | never an empty choice for a satisfiable rule set; counts bound calls |
| Batch scheduler, `jobs/scheduler.py`, `jobs/llm_batch_job_polling.py`, `services/llm_batch_manager.py`, `agents/letta_agent_batch.py` | advisory lock, leader flag, batch, item and job rows | the lock belongs to a pooled connection; crash or error between marking a batch complete and applying its items; a poll that races with a cancellation | one leader and one poll; a tool runs once; a job ends |
| Shared memory blocks, `services/block_manager.py`, `orm/block.py`, `orm/block_history.py`, `services/agent_manager.py` | block row with version, history rows, current pointer; the copy in every agent's loop and in its system message | edits, checkpoint, undo, redo with optimistic versions; rebuilding the messages of all agents of the block | the history is linear; the messages follow the row |
| Git-backed memory, `services/block_manager_git.py`, `services/memory_repo/` | repository, object store, a Redis lock of 60 s | lock expiry during commit, cache of blocks in the database | a commit is never lost |
| Conversations, messages, agents, `services/conversation_manager.py`, `message_manager.py`, `agent_manager.py` | in-context id lists, message rows | lists of ids updated apart from the rows | ids refer to existing messages |
| Files, `services/files_agents_manager.py`, `services/file_processor/` | open files of an agent with access times; processing status | LRU eviction under concurrent opens; retries of a processing state machine | never more than the limit open; status moves forward |
| Groups, `groups/`, `services/group_manager.py` | turn counter and last processed message of a group's row, background tasks | bookkeeping at the end of every turn; what lies between two transcripts; tasks that are lost | no message processed twice, none of a user's skipped |
| Summarizer, `services/summarizer/` | the in-context list | cut-off at a message that does not orphan a tool result | the kept suffix is well-formed |
| Load gate and watchdog, `monitoring/` | gauges, hysteresis, readiness | flapping | readiness follows the thresholds |

### Components left out

Provider clients and adapters (`llm_api/`, `adapters/`), streaming interfaces
(`interfaces/`), tool sandboxes and executors (`services/tool_sandbox/`,
`services/tool_executor/`), MCP (`services/mcp*`), passages and vector stores
(`services/passage_manager.py`, `helpers/tpuf_client.py`), providers, identities,
organisations and users, webhooks, ORM and migrations, telemetry, encryption of
secrets, CLI and schemas. They are I/O against external services, CRUD rows or data
conversion: their own control is sequential, and what they do to the request path
appears in the models as an outcome (a stop reason, an exception).

## 2. Modules and plan

| # | Module | Models | State |
|---|---|---|---|
| 1 | `RunLifecycle`, `ConversationLock` | admission, lock, run row, processor or response, stream finaliser, cancellation; what the lock promises | checked, proved, the refinement included (`RunLifecycleProofs`) |
| 2 | `RedisStream`, `SseLog` | the writer and readers of one run's stream; the log it promises | checked, proved, the refinement included (`RedisStreamProofs`) |
| 3 | `AgentLoop` | preparation, step loop, approvals, checkpoints, compaction, denials of a cancellation | checked, proved (`AgentLoopProofs`) |
| 4 | `SchedulerLock`, `BatchJobs` | leader election by advisory lock; submission, polling, resumption and cancellation of batch jobs, composed with the election | checked, proved (`BatchJobsProofs`) |
| 5 | `CoreMemory` | a shared block: edits, checkpoint, undo, redo; rebuilding of system messages; an agent's memory tools | checked, proved (`CoreMemoryProofs`) |
| 6 | `OpenFiles` | files attached to an agent, the limit of open ones | checked, proved (`OpenFilesProofs`) |
| 7 | `RunManager` | row updates as read and column-diff write, metrics, the completion callback; composed with 1 | planned |
| 8 | `SleeptimeGroup` | what a sleeptime group does at the end of a turn, composed with 3 | checked, proved (`SleeptimeGroupProofs`) |
| 9 | `ToolRules`, `LoadGate` | allowed tools of each rule kind, readiness | planned |

Order: first what every request goes through, then what shares rows with it,
then the independent subsystems. `RunManager` would take over the row writes of
`RunLifecycle` and refine them: `WriteRun` becomes a read and a write.
`MC*` modules only name values for TLC; every definition stands in the module it
is about, mutants of a definition (`Name_How`) directly before it. `Places` defines what
is picked from a sequence by places, which `AgentLoop` and `OpenFiles` use;
`PlacesProofs` proves that the order is kept.

Abstract specifications: `ConversationLock`, which `RunLifecycle` implements when
nobody releases a foreign lock (the theorem `LockRefines`), `SseLog`, which
`RedisStream` implements (`StreamRefines`), and the election of `SchedulerLock`, which
`BatchJobs` implements (`ElectionRefines`).

Every safety property of the passing runs is stated by a theorem.
None of the modules declares a `RECURSIVE` operator, so that all of them can be
proved about.

## 3. How the models correspond to the code

### RunLifecycle and ConversationLock

A request is identified with the run it creates. One action per stretch of code
between two awaits that another coroutine can observe.

| State | Code |
|---|---|
| `lock[k]` | the Redis key `conversation:lock:<id>`; the request stands for its token |
| `otid[t]` | the keys `otid:run:<otid>` of the messages of a request, kept equal |
| `run[r]` | `status` and `stop_reason` of the row, `absent` before the insert |
| `handler`, `tries`, `plan` | where `create_agent_stream` (or `_send_agent_direct_message`) stands, its second-chance attempts, the status it decided to write |
| `stream` | whether the agent loop runs, and who noticed a cancellation: the agent at a step boundary or the wrapper around the stream |
| `proc`, `pstop` | `create_background_stream_processor` and the stop reason it will record |
| `fin` | the `finally` block of `error_aware_stream`, which may run long after its consumer left |
| `canc` | `cancel_run` between its guard and its write |

`KindOf` distinguishes background streaming, foreground streaming and the
synchronous agent-direct endpoint, `Direct` the requests whose lock key is the agent
(so that their run has no conversation to release). `Faults` names what may go wrong:
`create` (the run insert), `load` (the handler after the run exists), `raise` (the
agent before its first chunk), `writer` (Redis writes of the processor), `interrupt`
(the processor or response task is cancelled), `cancel` (a user cancels), `expire`
(the TTL of the lock).

`ConversationLock` says what the lock is for: a request waits, gets the lock while nobody
has it, runs its loop once while it has it, gives back its own lock, and is finished. The
mapping takes `lock` for its `holder` and reads the phase of a request off its stream, its
lock and whether its handler has passed the acquisition (`Phase`); a refused request waits
for ever, and one that leaks its lock holds it for ever. The steps that wait, look, write rows or
notice a cancellation are stutters.

### RedisStream and SseLog

One run. `buffer`, `nextSeq`, `flushed` are the writer's dictionaries for it;
`flight[f]` is what flusher `f` (the processor inside `write_chunk`, or the periodic
task) took from the buffer and how much of its pipeline Redis has executed; `todo`,
`phase` and `pc` say what the processor still writes and where it is; `reader[r]` is a
client with its cursor. A chunk of the agent is its index, chunks the processor
adds (error reports, `[DONE]`) are `Report`. The end of a flush interval is
nondeterministic. `SseLog` is the promise to clients: an append-only log whose
entries each reader takes in order, once, from its cursor on, until a terminal one;
`RedisStream` implements it under the mapping written at `Log`.

### AgentLoop

| State | Code |
|---|---|
| `ctx[t]` | `agents.message_ids` for `Default`, the in-context rows of `conversation_messages` for a conversation |
| `rows` | the `messages` table in creation order |
| `ran[c]` | how often the server executed a tool call |
| `loop[r]` | the coroutine of a request: the snapshot loaded with the agent, its in-memory context, the input not yet stored, the new messages of the step, `response_messages` (`resp`), step number, compaction attempts, stop reason |
| `canc[r]` | `cancel_run` with the context it read |

A message is its kind, the run and step that made it, the calls it is about and
the calls it denies. A reply of the model is one of seven shapes: text, nothing,
nothing while tools are still required (`nudge`), a tool call, a terminal tool call, a
call that needs approval or runs in the client (`gated`), and one of each (`mixed`).
The calls of one step that share a fate are one call of the model. The summaries of a run,
of which one step may make several, are told apart by the number of responses before them. Token counts
become nondeterminism: the window may overflow whenever the model is asked, and
the threshold may be exceeded after any step once a size is known. A sliding window
may start at any legal cut-off (which one depends on token counts), and falls back to
the complete summary.

Not in the model: `message_buffer_autoclear`, refreshing of system prompts and inner
thoughts (contents only), the `context_window_overflow_in_system_prompt` stop, legacy
approvals without tool call ids, and malformed approvals that name no call.

### SleeptimeGroup

| State | Code |
|---|---|
| `counter`, `anchor` | `turns_counter` and `last_processed_message_id` of the group's row |
| `group[r]` | where the stream of request `r` is in its `finally`, with the counter or the id it read |
| `transcript[r]` | history: the rows the background task of that turn was given |

It EXTENDS `AgentLoop` and composes with it: a step of the loop leaves the group alone,
a step of the group reads the loop's `resp` and the message table. `run_sleeptime_agents`
runs in the `finally` of the stream, so the lock of the conversation is still held
(`Admitted`) and a turn that failed, was cancelled or refused its input counts too. A message
id is its place in `rows`, which is what `sequence_id` orders by. The sleeptime agents of
a group get the same transcript and are one task here; a task that fails, has no run
or dies with its server is lost (`LoseTask`).
Blocking requests, which reach this code only when the loop did not raise, and the
endpoints that store captured messages and call `run_sleeptime_agents` directly are left out.

### SchedulerLock and BatchJobs

`SchedulerLock` is the election alone. `lock` is the server whose connection pool
holds the PostgreSQL connection that took the advisory lock, `sched[s]` where a
server is between start, attempt, leadership and shutdown, `lost` the leaders whose
connection was closed under them (history). The session that took the lock commits and so returns its
connection to the pool (`jobs/scheduler.py:47-50`): the pool may close it (`Recycle`),
and the unlock may run on another connection (`Unlock` may miss).

| State | Code |
|---|---|
| `job[j]` | status of the row of a batch job |
| `batch[b]` | an LLM batch: what the provider holds (`prov`, `result`), its row, the request status of its items, and what was done with it: tools executed (`ran`), messages stored (`said`), steps marked (`stepped`) |
| `poll[s]` | the one poll the scheduler of a server runs at a time, with the statuses and results it has read |
| `task[s][w]` | a submission (`w` a job) or a resumption (`w` a batch) under way on a server |
| `cancel[j]` | `cancel_batch` between its steps |
| `stuck` | jobs one of whose operations was lost with a server, failed, or had nothing to resume (history) |

A reply is whether its request succeeded, whether the agent continues and
whether it calls `rethink_memory`; message contents and tool states are not modelled.
`Faults` names the trouble: `crash`, `shutdown`, `lead` (the start of the scheduler
raises), `recycle`, `abort` (an error in a poll), `retrieve`, `fetch`, `send`, `store`.

### CoreMemory

One block, attached to all agents. `row` is its value, version and checkpoint pointer,
`history` the values of the checkpoints by sequence number, `copy[a]` the value in the
`agent_state` of an agent's loop, `prompt[a]` the value compiled into its system
message. `op[p]` is what a client or an agent's loop is doing: a transaction holds
everything it read (`Reads`) until it commits or fails; a rebuild is three steps per agent.
A value is a set of pieces of text, so that two edits of different pieces can be told
from one overwriting the other. A forced rebuild may find a difference in its statistics
alone; that is a free choice. `exposed` is history: the agents whose message may have
missed a value, because an operation that rebuilds nothing set it (undo, redo, bulk
edit), because a rebuild was lost, or because two overlapped.

### OpenFiles

One agent. `row[f]` is the row of `files_agents`, `open` the open files in the order of
their access times, `op[p]` a transaction with what it has read so far. Rows read
stay as they were read (the session's identity map), and the UPDATE of a row carries only
changed columns (`Reopened`). Files of one bulk attachment have one access time: their
order is a free choice. The access time of a transaction is taken to be that of its
commit. `stale` marks a transaction that another one overtook, `excused` that the limit was
lowered or the last opening was stale (history). Missing file records, contents and line
ranges are not modelled.

## 4. Runs

| Run | Expect | Shows |
|---|---|---|
| `RunLifecycle_core` | pass | a request, its background retry and a synchronous request under failures of the insert, the writer and the task: exclusion, refinement of `ConversationLock`, no leaked lock beyond the three named causes, recovery finds a real run; requests are answered, streamed runs conclude, a recovered stream gets its terminal chunk |
| `RunLifecycle_mixed` | pass | an agent-direct foreground stream and a background stream under every other fault, cancellation and expiry: no leak, canonical status |
| `RunLifecycle_overlap` | violation | two agent loops of one conversation |
| `RedisStream_core` | pass | nothing lost before the terminal chunk, nothing doubled without a failed pipeline, numbers identify chunks, refinement of `SseLog`; without a failed pipeline, once the agent stream has ended or the processor was interrupted, readers from the start end; buffered chunks are flushed though the agent is silent |
| `RedisStream_order` | violation | a reader ends without chunks that the periodic flush still holds |
| `SleeptimeGroup_core` | pass | the loop with a sleeptime group: approvals, sent twice, with follow-ups, over compactions: a stored call ran once, an unanswered request stays last, contexts are well-formed, history is only dropped under a summary; no message is reviewed twice, what a user wrote is missed for four named causes only |
| `AgentLoop_cancel` | pass | cancellation without lock, both compaction modes, failing checkpoints on the agent's own thread: well-formed contexts, nothing dangles but unsaved input |
| `AgentLoop_stale` | violation | two approvals that both loaded the agent before the lock execute the call twice |
| `BatchJobs_core` | pass | a job of two agents on two servers, a cancellation and one fault of any kind but a recycled connection: tools run once, marked steps were executed, a completed job has nothing left, a job ends unless an operation of it was lost |
| `BatchJobs_split` | pass | two faults of the election, recycled connections among them: one leader and one poll, unless a leader lost its connection |
| `CoreMemory_core` | pass | two agents and a client on one block, one lost process or rebuild: linear history, messages that follow the row |
| `OpenFiles_core` | pass | two overlapping transactions on three files, limits 1 and 2: the limit holds after each that ran alone, the oldest are evicted |

### Bounds

* Requests: two or three. Three are needed for `overlap` (the finaliser of the first
  deletes the lock of the second while the third enters) and for an approval answered
  twice (the asking request and two answers). One lock key is enough: keys share
  nothing. Two tokens distinguish a retry from a new message.
* `RedisStream`: three chunks and a flush size of two give a first flush, a buffered
  chunk and a terminal one, hence every overlap of two flushers; one failed
  pipeline (`MaxFailures`) and one lost connection (`MaxReconnects`) at any point. A batch of two is the
  smallest that advances (see section 6).
* `AgentLoop`: `MaxSteps` 2, since a second step is what follow-ups and the compaction of an
  answered approval need. `AgentLoop_cancel` has two requests, one asks and one answers while
  the first is cancelled (three requests of one step each hold as well: 2.2 million states); `MaxTries`
  instead of `max_summarizer_retries`: 1 in `AgentLoop_cancel` (one compaction and the refusal
  of the next), 0 in `SleeptimeGroup_core`, where a request that exceeds the window fails.
  `Recent` is the code's 10, longer than the contexts of these instances, so that the
  cut of the look-back is not exercised.
* `SleeptimeGroup_core`: `Frequency` 2 over three turns gives a turn that is due, one that is
  skipped and one that takes over what the skipped one left; `Limit` 2 instead of 50 is
  exceeded by that third transcript. Each cause in `UserMessagesReviewed` occurs: without
  it TLC reports a violation. The compaction in the middle of a step was checked with
  `MaxTries` 1 and a cancellable run, which holds as well (1.8 million states) and takes longer than a run may.
* `BatchJobs_core`: two agents, so that one reply of a batch can displace, fail or miss
  beside another; `MaxSteps` 1 and `MaxBatches` 2 give a resumption that submits again and
  one that completes; one fault at any point, on two servers so that the other takes over.
  `BatchJobs_split` trades the second agent for a second fault and the recycled
  connection; the theorems cover any number of either.
* `CoreMemory_core`: one piece of text, two agents (one that edits, one that must
  follow), three versions, that is two writes after an initial history of none or
  two checkpoints; one fault. Symmetry of the agents.
* `OpenFiles_core`: three files and a limit of 2 are the smallest where an eviction has a
  choice; a bulk attachment of two files exceeds the limit of 1. Symmetry of the
  transactions, no liveness.
* `CHECK_DEADLOCK FALSE` everywhere: when all requests are answered and all streams
  ended the system really has nothing left to do.

### Fairness

`RunLifecycle`: weak fairness of each request's handler, processor and response, and of
a cancellation that has begun. They are coroutines of a live server; LLM calls time
out and `max_steps` bounds the loop, so a stream that is consumed ends. Cancellations,
faults and the TTL are never owed. `RedisStream`: weak fairness of the processor past the
agent's stream (no chunk of the agent is owed: it may stay silent for ever), of
the periodic task (its interval is finite), of Redis answering, and of readers
polling; interruptions and failures are not owed.
`BatchJobs` (`FairSpec`): a server that is down is started again, one that waits for the
lock asks again, a leader polls at its interval, operations under way go on, the
provider ends every batch (it expires after 24 h), the database notices a dead connection, and a pool eventually
closes a lock connection that leads nowhere (`pg_pool_recycle`). Faults, cancellations
and shutdowns are not owed.
`AgentLoop` has no liveness property: its loop is bounded by `MaxSteps` and `MaxTries`.

## 5. Proofs

`RunLifecycleProofs` proves, for any sets of requests, keys and tokens, any
assignment of kinds and any faults, from `RequestAssumption` alone:

* `TypeCorrect`: `Spec => []TypeOK`.
* `LocksAreReturned`: `Spec => []NoLockLeak`. `NoLockLeak` speaks of requests that have
  nothing left to run, which no single step preserves. The strengthening says
  where a request stands while its token is in the lock: the handler between
  acquisition and release, or the processor before its release, or a response or
  finaliser that has yet to come, or one of the three causes; together with facts that tie
  the program points to each other (a processor exists only after the handler spawned it,
  a finaliser is armed only when its stream was closed).
* `Exclusion`: `Spec => []MutualExclusion` under `OnlyOwnersRelease`, the assumption on
  `Faults` under which nobody deletes the lock of somebody else: no agent exception,
  handler failure, cancellation or expiry. `RunLifecycle_overlap` shows that the
  assumption cannot be dropped: with `raise` alone the property fails. The invariant says
  that a request whose loop may run, or that may yet release, holds the lock.
* `LockRefines`: `Spec => ImplementsConversationLock` under the same assumption. Every
  step is a step of `ConversationLock` or a stutter: `Release` of a lock the request itself
  holds is where the DEL without an owner could go wrong, and the invariant of `Exclusion`
  is what excludes it, with the fact that a processor that iterates its stream has it open
  and one that left its `try` block has closed it (`Streamed`), so that the loop starts and
  ends once.
* `RecoveredRunExists`: `Spec => []RecoveryFindsRun`. Inductively: a mapped request has
  the mapping's token and a row, a handler about to map has inserted its row, a
  recovered handler saw a mapping; rows are never removed (`RowsStay`).
* `StatusIsCanonical`: `Spec => []StatusFollowsStop`. What is recorded depends on what the
  other writers hold in hand, so the invariant adds that a processor which left
  its stream has a stop reason and that the finaliser of a background run was armed with
  a stop reason and its canonical status.

`BatchJobsProofs`, from `ServerAssumption` and
`BatchAssumption` (among them that jobs and batches are different things, which
the database's id prefixes guarantee):

* `LockSafety`: `LockSpec => []OneLeader`. Inductively, a server that acquired the lock or
  leads is the one `lock` names, or lost its connection (`HoldsLock`).
* `ElectionRefines`: `Spec => LockSpec`. Every step of `BatchJobs` takes a step of the
  election or leaves its variables alone, so that `LockSafety` carries over.
* `PollSafety`: `Spec => []OnePoller`. A server that polls is a leader, in every step: a
  shutdown or crash ends the poll with the leadership, and only a leader starts one.
* `BatchTypesCorrect`: `Spec => []TypeOK`. What is no mere typing: two submissions never own one
  batch, a submission's batch has no row and no items before it creates them, and whatever is
  polled, cancelled or resumed has a row (`BatchFacts`, `Listings`, `Resumptions`, `Submissions`).
* `StepsAreDone`: `Spec => []StepDoneMeansToolRan`, whatever goes wrong, two leaders
  included. A resumption executes, stores and marks in this order, so the invariant says what
  each program point has behind it (`ToolsInv`).
* `ToolOnce`: `Spec => []ToolRunsOnce`. The hazard is that a batch is resumed twice: by
  two polls, or by a poll that listed it before an earlier one had marked it. While no leader's
  connection was closed under it there is one poll (`PollSafety`), it resumes only what it
  marked completed itself, and its resumptions end with it (`PollInv`); and no tool of a batch
  that is running, listed or still to be executed has run (`RanInv`).
* `CompletedLast`: `Spec => []CompletedIsLast`. A job is completed by a resumption that submits
  nothing. That settles the job only because no other batch of it is running, listed, resumed
  or under submission: such a batch is always the job's last (`LastInv`). `JobInv` then says
  what each status of the job's row implies.

`RedisStreamProofs`, from `StreamAssumption`:

* `StreamTypesCorrect`: `Spec => []TypeOK`, with the writer's program points (`Control`), the
  chunks left to it in each phase (`Remaining`) and the numbers they may still take
  (`Budget`): that a number stays below `N + 5` depends on where the reset may happen.
* `StreamRefines`: `Spec => ImplementsSseLog`. Every step of the writer, of either flusher and of
  the readers is a step of `SseLog` or leaves its log and its readers alone.
* `NumbersIdentify`: `Spec => []NumberIdentifiesChunk`. The flush of the terminal chunk resets the
  counter, whichever flusher performs it, so the invariant says where that chunk may be
  in each phase: as long as the stream lasts neither the buffer nor the timer's flush holds it.
* `NothingLost`: `Spec => []NoChunkLostWhileStreaming`. What was written is in the log, the buffer
  or a flush, and what a flush has sent is in the log (`SentIsStored`, `WrittenIsKnown`).
* `StoredOnce`: `Spec => []NoDuplicateChunk`. A failed pipeline puts back what it may have sent;
  without one every chunk is in one place, once (`Once`).

`CoreMemoryProofs`, from `MemoryAssumption`:

* `MemoryTypes`: `Spec => []TypeOK`; the part that is no mere typing is that the pointer
  stays within the history.
* `HistorySafety`: `Spec => HistoryIsLinear`, an action property. A step that commits
  writes what its transaction read before, so the invariant says that as long as the version
  it read is the row's, everything else it read still holds (`ReadsAreCurrent`): every
  step that changes the row or the history moves the version on.
* `PromptSafety`: `Spec => []PromptFollowsRow`. The property speaks of moments when no rebuild is due
  or under way. The invariant speaks of the others: of an agent that nothing was hidden from
  at most one rebuild is under way, and if none is due to follow, that one has read the
  value the row has (`RebuildIsCurrent`), because a commit makes every agent wait again.

`OpenFilesProofs`, from `FilesAssumption`:

* `FilesTypesCorrect`: `Spec => []TypeOK`; no file is open twice, none without an attached row.
* `FilesWithinLimit`: `Spec => []WithinLimit`. Neither the limit nor the open files are locked
  between the reads of a transaction and its write. The invariant says what a transaction that
  nothing has disturbed knows (`Snapshot`): the limit it read is the agent's, the files it will close are
  those it would choose now, and the files it read as open include every requested one that is.
  The rest is counting: the oldest that leave no room, or the latest for which there is room.
* `EvictionOrder`: `Spec => EvictsOldest`, an action property, from the same invariant: the order of
  what is left of a sequence is the order it had (`WithoutSome`), so that the files closed precede
  those that stay.

`AgentLoopProofs`, from `LoopAssumption`:

* `ContextsWellFormed`: `Spec => []WellFormed` under `NoSplit`: the model never mixes calls that need
  an approval with calls that do not, or contexts are never compacted by a sliding window.
  Without it the property fails (section 6). Everything that writes a context writes a whole one, held
  in memory since it was read; so the invariant (`Inv`) asks the same of every
  sequence on its way there: what is stored or loaded is `Good`, the loop's context with
  its input and its new messages is, a cancellation's list is, and at each program point it is known
  whether the context waits for an approval (`Closed`). `ExtendedByOne`, `ExtendedByTwo`, `CutOff` and `StoredContext`
  say that the ways of extending, cutting and re-reading a context keep it good.
* `StoredOrUnsavedInput`: `Spec => []OnlyUnsavedInputDangles`, without `NoSplit`, from the same invariant:
  a loop has of messages without a row only its input and its new messages, and writes a context before
  it stored them only in a compaction.
* `LoopTypesCorrect`: `Spec => []TypeOK`. The bound on executions is not mere typing: a run that executes a call
  keeps its result in `resp`, and a reply makes calls nobody knew (`Known`), so that
  executions are counted by the runs that report them (`RanBy`).
* `CallsRunOnce`: `Spec => []CallRunsOnce` under `Guarded`: every request takes the lock and is on
  a conversation. On the agent's own thread the property fails, since the context is loaded before the lock
  is taken (`AgentLoop_stale`); a conversation's is read again under it. The invariant (`Turns`)
  says that the turns of a conversation exclude each other; that a call which may still
  be executed - open in the conversation's context, or the target of the request that has the turn - was
  not, but for results that were lost; and that a result in hand is stored or lost before the turn ends.
* `UnansweredIsLast` and `HistoryStays`: `Spec => []UnansweredStaysLast` and
  `Spec => []HistoryIsKept`, under `Guarded` and with checkpoints that store both the rows and the
  context or neither (`"save" \notin Faults`). The code writes the two in separate transactions; with
  the fault TLC finds both violated, since the stored request or message is then in no context,
  so the hypothesis cannot be dropped. The invariant
  (`History`) asks the properties of the stored context and of the copy that the loop which has the turn works
  on (`ThreadKeeps`, `LoopKeeps`): a loop that has its turn while a request waits ends with that request, or holds
  the result that answers it among what it is about to store (`Rests`); what it is about to
  store is its own, a request last (`Owns`); and a compaction covers what it cuts off by a summary
  stored after it (`KeptIn`). Cancellations add nothing on a conversation: they look for
  something to deny in the agent's own thread, where `Guarded` lets nobody write.

`SleeptimeGroupProofs`, from `LoopAssumption` and `GroupAssumption`:

* `GroupKeepsLoop`: `GroupSpec => Spec`. The group reads what the loop reports and delays its next request, but
  never makes it do anything else; so every theorem of `AgentLoopProofs` holds under a group.
* `GroupTypesCorrect`: `GroupSpec => []GroupTypeOK`; the counter, which is read and written back
  without a lock, stays below the frequency.
* `ReviewedOnce`: `GroupSpec => []NoMessageReviewedTwice` under `Guarded` and `OneConversation`: all
  requests take the lock of one conversation. Two conversations of an agent have two locks and
  one group, and TLC then finds a message reviewed twice within two turns (section 6). Nothing is assumed
  of checkpoints, compactions, cancellations, crashes or lost tasks. The argument has two halves. `Reporting` is about the
  loop: its responses are its own and no two are alike, since each carries the step it
  was made in or the number of responses before it (`Numbered`), and of those that have a row the newest is
  last (`InOrder`). `Handed` is about the group: one request at a time is in its stream or
  behind it (`OneInStream`); what it stores comes after all that was ever handed over (`StoredAfter`); what
  was handed over is nowhere beyond the id (`Behind`), and disjoint (`Disjoint`). A task that has not
  run yet counts with the rows it will be given (`Given`), which no later row changes (`WindowStays`): tasks may run in any order, at any time.
* `UserMessagesHandedOver`: `GroupSpec => []UserMessagesReviewed`, under the same hypotheses, for groups with
  a frequency (without one `list_messages` is never called) and checkpoints that do not fail
  (`"save" \notin Faults`: an id without a row hides the next turn's prior messages). TLC shows that
  neither can be dropped (section 6). The invariant (`Sound`) says that what a loop reports is stored, but for the step it
  is about to save and for a server that stopped (`Landed`), hence the id always names a row; and that the rows
  of the request that holds the lock come last in the table (`Contiguous`), so that a user's message after the
  first response of a turn is that turn's own. A message that the id passes is then in the window of the
  turn that moves it or behind a response of its own turn (`CoveredClaim`); a task that runs takes what the limit
  allows of its window (`CoveredTask`), and windows do not change (`BetweenStays`).

Each theorem is an inductive invariant in three parts (initial states, every action,
consequence), one step per action of the module. TLC checked the invariants on small
instances before they were proved.

Model-checked only: the liveness properties of `RunLifecycle`, `RedisStream` and `BatchJobs`,
which are out of the prover's reach. Nothing can be proved of
`SelectSeq`, whose definition is by recursion over data: `AgentLoop` and `OpenFiles` say instead which
element stands at which place (`Places`), and of the one use that `RedisStream` and `SseLog` share
the refinement needs only that it is the same in both.

## 6. Where code and text disagree

Three disagreements have a run and stand under `findings` in `PROJECT.json`. The models
show these others as well: the actions named allow it, and where a property is named,
adding it to a configuration of its module makes TLC print the trace.

* "don't override run status if it has already been updated"
  (`services/streaming_service.py:447`): the handler decides `running` on a refetched row and writes it
  after further awaits; a run the processor completed in between goes back to running
  (`TerminalStays`, one background request, no faults).
* "allow approvals to be cutoffs (for headless agents) but ensure proper grouping with
  tool calls" (`summarizer_sliding_window.py:155`): a window that starts at the approval
  request of a mixed reply keeps the tool message of calls that were summarised away
  (`WellFormed` with `Replies` text and mixed, `Modes` sliding, `MaxSteps` 2).
* "If the block was undone to an earlier checkpoint, we remove any "future" checkpoints
  beyond the current state to keep a strictly linear history" (`services/block_manager.py:855`): the
  `session.delete` of `:880` is a coroutine nobody awaits, so the checkpoint after an
  undo violates the unique index and is refused (`CheckpointAfterUndo`, `MCNoPast`, `MaxVersion` 6).
* "Idempotently attach" (`services/files_agents_manager.py:42`): detaching marks the row
  deleted, the unique constraints (`orm/files_agents.py:26-29`) still cover it, and
  attaching the file again inserts a row that is refused (`ReattachWorks`, one process).
* "Cancel a batch run" (`server/rest_api/routers/v1/messages.py:252`): a resumption completes
  its job whatever its status is by then, and a poll overwrites the cancelled row of a
  batch with the status it retrieved before (`CancelledStays`).
* Eviction and opening are "a single transaction" (`services/files_agents_manager.py:527`), but one without a lock: a file that
  was read as open and evicted meanwhile stays closed although its opening succeeds,
  and overlapping openings exceed the limit (`excused` in `WithinLimit`). A limit of zero or
  less is accepted (`schemas/agent.py:401`); `FilesAssumption` excludes it.
* One batch whose item rows are missing strands all batches of the same poll
  (`ApplyItems`), a batch without a successful item raises in `_persist_tool_messages` (`Collect`),
  and an agent displaced by `rethink_memory` calls raises when it continues (`PrepareNext`): the job runs for ever.
* A tool's memory edit that equals the stale value in the system message is not written
  at all (`ToolCompares`), and one computed from a stale copy overwrites other edits (`ToolEdit`).
* `cancel_run` "should be idempotent: if a run is already terminated, treat this as a
  no-op" (`services/run_manager.py:649`), but its guard is read before the agent and its
  messages are fetched (`CancelReads`, `CancelWrites`): it can overwrite the outcome of a run that
  ended in between.
* "You are reviewing a conversation that already happened", a sleeptime agent is told
  (`groups/sleeptime_multi_agent_v4.py:236`), but some of what the user wrote is never part of
  a transcript: the message that follows up an approval is stored between two response messages,
  and when the context is compacted before the first step is stored the summary is the first
  response and stands before the user's message (last disjunct of `UserMessagesReviewed`). A
  response whose checkpoint failed leaves an id without a row, and the next transcript has no prior
  messages (`NoRow`, `Prior`). Turns of two conversations of one agent share the group's row without a
  lock and may review messages twice or not at all.
* "Same-otid retries should never acquire the lock" (`services/streaming_service.py:285`): a retry that
  looks for the mapping before it is stored and tries the lock after it is released
  runs the messages again (`Arrive`, `AcquireLock`).
* Recovery is "only possible when background=True" (`:286`), but a foreground request
  stores its mapping too: a background retry of it reads a Redis stream nobody writes.
* A cancelled agent-direct foreground stream keeps the lock until the TTL: the stream skips its
  update and `cancel_run` has no conversation to release (third disjunct of `LeakCause`).
* A foreground stream that ends for lack of credits is recorded as completed
  (`ResponseFinishes`), a background one as failed.
* `stop()` promises to "flush remaining data" (`redis_stream_manager.py:79`), but cancelling the
  periodic task in the middle of a pipeline drops its chunks (`Abandon`).
* Chunks put back "to retry" (`:161`) are discarded when the terminal flush of the other
  flusher cleans up (`FlushReturns`).
* The forced `[DONE]` "to ensure clients terminate" (`:447`) is numbered 1 after the
  cleanup: a client whose cursor is later never sees it. With `batch_size` 1 the inclusive
  `XRANGE` returns the same entry for ever.
* An exception of `_checkpoint_messages` is swallowed by the `return` of `_step`'s
  `finally` block: the run ends as if the messages were stored (`SaveFails`).
* `cancel_run` denies the approval pending on the agent's own thread even when the run
  belongs to a conversation, and leaves the conversation's request pending (`CancelDenies`).
* The answer to a mixed reply, sent again, is refused instead of recognised: the stored tool
  message answers more calls than the approval names (`AlreadyProcessed`).

## 7. Not modelled

Non-streaming and asynchronous sends that take no lock are excluded from the passing
runs of `AgentLoop` (`Locked`), the completion callback and the metrics of a run,
keepalive and the ASGI response, trimming and TTL of the Redis stream, attaching and
detaching of blocks, the contents of batch messages, the processing states of files,
and the planned modules of section 2. Git-backed memory is left out: its lock is
the Redis lock `RunLifecycle` models, the git client is external, and what remains (a crash between the commit and
the database write loses the copy in the database until the next sync) is one line. The components of the last part of section 1 are left out for the
reasons given there; `components` in `PROJECT.json` lists each with its status.
