----------------------------- MODULE BatchJobs -----------------------------
(***************************************************************************)
(* Batch jobs of agent steps: the endpoint that submits one and the one    *)
(* that cancels it, the provider that works its LLM batches off, the poll  *)
(* the scheduler's leader runs, and the resumption of every completed      *)
(* batch, which executes the tools, stores the messages and submits the    *)
(* next batch for the agents that continue.                                *)
(*                                                                         *)
(* Every step is one database transaction or one call of the provider; a   *)
(* server may die, shut down or meet an error between any two of them.     *)
(***************************************************************************)
EXTENDS Naturals, FiniteSets, SchedulerLock

CONSTANTS
  Job,         \* batch jobs clients submit
  Agent,
  AgentsOf,    \* [Job -> SUBSET Agent]: the agents of its requests
  MayCancel,   \* jobs whose client cancels
  Results,     \* what a request may end with at the provider
  RethinkMay,  \* whether a reply may call rethink_memory
  Faults,      \* the kinds of trouble that may occur
  MaxFaults,   \* bound on their number
  MaxSteps,    \* the batch runner's max_steps
  MaxBatches   \* bound on the LLM batches ever submitted

Batch == 1 .. MaxBatches
NoJob == "no job"

ASSUME BatchAssumption ==
  /\ AgentsOf \in [Job -> SUBSET Agent]
  /\ MayCancel \subseteq Job
  /\ Results \subseteq {"completed", "failed"}
  /\ RethinkMay \in BOOLEAN
  /\ Faults \subseteq {"abort", "crash", "fetch", "lead", "recycle", "retrieve",
                       "send", "shutdown", "store"}
  /\ MaxFaults \in Nat /\ MaxSteps \in Nat /\ MaxBatches \in Nat
  /\ Job \cap Batch = {} /\ NoJob \notin Job

VARIABLES
  job,     \* [Job -> status of its row]
  batch,   \* [Batch -> provider's batch, its row and its items]
  poll,    \* [Server -> the poll its scheduler is running]
  task,    \* [Server -> [Job \cup Batch -> a submission or a resumption]]
  cancel,  \* [Job -> the batches its cancellation has still to cancel]
  stuck,   \* jobs of which an operation was lost or failed (history)
  faults   \* how much trouble there was, and whether a leader's lock was lost (history)

vars == <<lockVars, job, batch, poll, task, cancel, stuck, faults>>

NoBatch == [job |-> NoJob, turn |-> 0, agents |-> {}, prov |-> "none", result |-> {},
            row |-> "none", item |-> [a \in Agent |-> "none"],
            ran |-> [a \in Agent |-> 0], said |-> {}, stepped |-> {}, mixed |-> FALSE]
NoPoll == [pc |-> "idle", seen |-> {}, res |-> [b \in Batch |-> "unknown"],
           fetched |-> {}, got |-> {}]
NoTask == [pc |-> "none", agents |-> {}, cont |-> {}, rethink |-> {}, new |-> 0]
NoCancel == [on |-> FALSE, todo |-> {}, asked |-> 0]
Work == Job \cup Batch

TypeOK ==
  /\ LockTypeOK
  /\ job \in [Job -> {"none", "running", "completed", "failed", "cancelled"}]
  /\ \A b \in Batch :
       /\ batch[b].job \in Job \cup {NoJob} /\ batch[b].turn \in 0 .. MaxSteps
       /\ batch[b].prov \in {"none", "in_progress", "canceling", "ended"}
       /\ batch[b].row \in {"none", "running", "completed", "cancelled"}
       /\ batch[b].item \in [Agent -> {"none", "created", "completed", "failed", "cancelled"}]
       /\ \A a \in Agent \ batch[b].agents : batch[b].item[a] = "none"
       /\ batch[b].stepped \subseteq batch[b].agents
  /\ \A s \in Server :
       /\ poll[s].pc \in {"idle", "retrieve", "fetch", "resume"}
       /\ poll[s].fetched \subseteq poll[s].seen
       /\ \A w \in Work : task[s][w].pc \in
            {"none", "collect", "exec", "persist", "mark", "next", "send", "row", "items"}
  /\ stuck \subseteq Job
  /\ faults \in [count : 0 .. MaxFaults, recycled : BOOLEAN]

Init ==
  /\ LockInit
  /\ job = [j \in Job |-> "none"]
  /\ batch = [b \in Batch |-> NoBatch]
  /\ poll = [s \in Server |-> NoPoll]
  /\ task = [s \in Server |-> [w \in Work |-> NoTask]]
  /\ cancel = [j \in Job |-> NoCancel]
  /\ stuck = {}
  /\ faults = [count |-> 0, recycled |-> FALSE]

Fault(kind) ==
  /\ kind \in Faults /\ faults.count < MaxFaults
  /\ faults' = [count |-> faults.count + 1,
                recycled |-> faults.recycled \/ kind = "recycle"]

JobOf(w) == IF w \in Job THEN w ELSE batch[w].job
JobsOf(bs) == {batch[b].job : b \in bs}
SetTask(s, w, t) == task' = [task EXCEPT ![s][w] = t]
Step(s, w, pc) == SetTask(s, w, [task[s][w] EXCEPT !.pc = pc])
DropTask(s, w) == SetTask(s, w, NoTask)
SetJob(j, status) == job' = [job EXCEPT ![j] = status]

-----------------------------------------------------------------------------
(* step_until_request, for the endpoint (w a job) and for a resumption (w a *)
(* batch): the provider gets the batch, then its row is created, then its   *)
(* items, in three steps.                                                   *)

Free == {b \in Batch : batch[b].prov = "none"}
AgentsFor(w, t) == IF w \in Job THEN AgentsOf[w] ELSE t.cont

Send(s, w) ==
  /\ task[s][w].pc = "send"
  /\ Free # {}
  /\ LET b == CHOOSE n \in Free : \A m \in Free : n <= m
     IN /\ batch' = [batch EXCEPT ![b] =
             [NoBatch EXCEPT !.job = JobOf(w), !.prov = "in_progress",
                             !.turn = IF w \in Job THEN 0 ELSE batch[w].turn + 1,
                             !.agents = AgentsFor(w, task[s][w])]]
        /\ SetTask(s, w, [task[s][w] EXCEPT !.pc = "row", !.new = b])
  /\ UNCHANGED <<lockVars, job, poll, cancel, stuck, faults>>

CreateRow(s, w) ==
  /\ task[s][w].pc = "row"
  /\ batch' = [batch EXCEPT ![task[s][w].new].row = "running"]
  /\ Step(s, w, "items")
  /\ UNCHANGED <<lockVars, job, poll, cancel, stuck, faults>>

\* Mutant of CreateItems: an item for every agent of the job, as in the first batch.
CreateItems_EveryAgent(s, w) ==
  /\ task[s][w].pc = "items"
  /\ LET b == task[s][w].new
     IN batch' = [batch EXCEPT ![b].item =
          [a \in Agent |-> IF a \in AgentsOf[JobOf(w)] THEN "created" ELSE "none"]]
  /\ DropTask(s, w)
  /\ UNCHANGED <<lockVars, job, poll, cancel, stuck, faults>>

CreateItems(s, w) ==
  /\ task[s][w].pc = "items"
  /\ LET b == task[s][w].new
     IN batch' = [batch EXCEPT ![b].item =
          [a \in Agent |-> IF a \in batch[b].agents THEN "created" ELSE "none"]]
  /\ DropTask(s, w)
  /\ UNCHANGED <<lockVars, job, poll, cancel, stuck, faults>>

(* An error in any of the three: the endpoint marks the job failed, while a *)
(* resumption just ends (gather returns its exception).                     *)
SubmitFails(s, w) ==
  /\ \/ task[s][w].pc = "send" /\ Fault("send")
     \/ task[s][w].pc \in {"row", "items"} /\ Fault("store")
  /\ IF w \in Job THEN SetJob(w, "failed") /\ UNCHANGED stuck
     ELSE stuck' = stuck \cup {JobOf(w)} /\ UNCHANGED job
  /\ DropTask(s, w)
  /\ UNCHANGED <<lockVars, batch, poll, cancel>>

(* create_batch *)
CreateBatch(s, j) ==
  /\ sched[s] \in Up
  /\ job[j] = "none"
  /\ SetJob(j, "running")
  /\ Step(s, j, "send")
  /\ UNCHANGED <<lockVars, batch, poll, cancel, stuck, faults>>

-----------------------------------------------------------------------------
(* The provider *)

(* It ends a batch, with a result per agent; one being cancelled may have   *)
(* finished some requests before.                                           *)
ProviderEnds(b) ==
  /\ batch[b].prov \in {"in_progress", "canceling"}
  /\ LET possible == IF batch[b].prov = "canceling" THEN Results \cup {"cancelled"} ELSE Results
     IN \E r \in [batch[b].agents -> possible] :
          batch' = [batch EXCEPT ![b].prov = "ended",
                                 ![b].result = {<<a, r[a]>> : a \in batch[b].agents}]
  /\ UNCHANGED <<lockVars, job, poll, task, cancel, stuck, faults>>

\* Mutant of MapStatus: a batch that ended stays running until its items are in.
MapStatus_StillRunning(prov) == IF prov = "canceling" THEN "cancelled" ELSE "running"

(* map_anthropic_batch_job_status_to_job_status                             *)
MapStatus(prov) ==
  IF prov = "canceling" THEN "cancelled" ELSE IF prov = "ended" THEN "completed" ELSE "running"

-----------------------------------------------------------------------------
(* poll_running_llm_batches *)

SetPoll(s, p) == poll' = [poll EXCEPT ![s] = p]
Completed(s) == {b \in poll[s].seen : poll[s].res[b] = "completed"}

\* Mutant of Listed: a batch whose items are not all in is listed as well.
Listed_Unfinished ==
  {b \in Batch : \/ batch[b].row = "running"
                 \/ batch[b].row = "completed" /\ batch[b].stepped = {}}

Listed == {b \in Batch : batch[b].row = "running"}

(* One poll at a time on a server; with nothing running it does nothing.    *)
PollStarts(s) ==
  /\ sched[s] = "leader"
  /\ poll[s].pc = "idle"
  /\ Listed # {}
  /\ SetPoll(s, [NoPoll EXCEPT !.pc = "retrieve", !.seen = Listed])
  /\ UNCHANGED <<lockVars, job, batch, task, cancel, stuck, faults>>

(* fetch_batch_status, one per listed batch and all at once; an error       *)
(* counts as still running.                                                 *)
Retrieve(s, b) ==
  /\ poll[s].pc = "retrieve"
  /\ b \in poll[s].seen /\ poll[s].res[b] = "unknown"
  /\ \/ /\ SetPoll(s, [poll[s] EXCEPT !.res[b] = MapStatus(batch[b].prov)])
        /\ UNCHANGED faults
     \/ /\ MapStatus(batch[b].prov) # "running" /\ Fault("retrieve")
        /\ SetPoll(s, [poll[s] EXCEPT !.res[b] = "running"])
  /\ UNCHANGED <<lockVars, job, batch, task, cancel, stuck>>

(* bulk_update_llm_batch_statuses_async writes what was retrieved over      *)
(* whatever the rows say by now.                                            *)
WriteStatuses(s) ==
  /\ poll[s].pc = "retrieve"
  /\ \A b \in poll[s].seen : poll[s].res[b] # "unknown"
  /\ batch' = [b \in Batch |->
       IF b \in poll[s].seen THEN [batch[b] EXCEPT !.row = poll[s].res[b]] ELSE batch[b]]
  /\ SetPoll(s, IF Completed(s) = {} THEN NoPoll ELSE [poll[s] EXCEPT !.pc = "fetch"])
  /\ UNCHANGED <<lockVars, job, task, cancel, stuck, faults>>

(* fetch_batch_items, one per completed batch and all at once; on an error  *)
(* the results read so far are used.                                        *)
Fetch(s, b) ==
  /\ poll[s].pc = "fetch"
  /\ b \in Completed(s) \ poll[s].fetched
  /\ \E part \in SUBSET batch[b].result :
       /\ \/ part = batch[b].result /\ UNCHANGED <<faults, stuck>>
          \/ /\ part # batch[b].result /\ Fault("fetch")
             /\ stuck' = stuck \cup {batch[b].job}
       /\ SetPoll(s, [poll[s] EXCEPT !.fetched = @ \cup {b},
                                     !.got = @ \cup {<<b, p[1], p[2]>> : p \in part}])
  /\ UNCHANGED <<lockVars, job, batch, task, cancel>>

Unknown(got) == {g \in got : batch[g[1]].item[g[2]] = "none"}

(* The strict bulk update of the items: without any result, or when a row   *)
(* of one is missing (the update raises), the poll ends here; otherwise     *)
(* every completed batch is resumed.                                        *)
ApplyItems(s) ==
  /\ poll[s].pc = "fetch"
  /\ poll[s].fetched = Completed(s)
  /\ IF poll[s].got = {} \/ Unknown(poll[s].got) # {}
     THEN /\ SetPoll(s, NoPoll)
          /\ stuck' = stuck \cup JobsOf(Completed(s))
          /\ UNCHANGED <<batch, task>>
     ELSE /\ batch' = [b \in Batch |-> [batch[b] EXCEPT !.item =
               [a \in Agent |->
                 IF \E g \in poll[s].got : g[1] = b /\ g[2] = a
                 THEN (CHOOSE g \in poll[s].got : g[1] = b /\ g[2] = a)[3]
                 ELSE batch[b].item[a]]]]
          /\ task' = [task EXCEPT ![s] =
               [w \in Work |-> IF w \in Completed(s) THEN [NoTask EXCEPT !.pc = "collect"]
                               ELSE task[s][w]]]
          /\ SetPoll(s, [poll[s] EXCEPT !.pc = "resume"])
          /\ UNCHANGED stuck
  /\ UNCHANGED <<lockVars, job, cancel, faults>>

PollEnds(s) ==
  /\ poll[s].pc = "resume"
  /\ \A b \in Completed(s) : task[s][b].pc = "none"
  /\ SetPoll(s, NoPoll)
  /\ UNCHANGED <<lockVars, job, batch, task, cancel, stuck, faults>>

(* What is lost when the poll of s ends early: the batches it has already   *)
(* marked completed, which no poll will list again.                         *)
Undone(s) == IF poll[s].pc = "fetch" THEN Completed(s) ELSE {}

PollAborts(s) ==
  /\ poll[s].pc \in {"retrieve", "fetch"}
  /\ Fault("abort")
  /\ SetPoll(s, NoPoll)
  /\ stuck' = stuck \cup JobsOf(Undone(s))
  /\ UNCHANGED <<lockVars, job, batch, task, cancel>>

-----------------------------------------------------------------------------
(* resume_step_after_request, one per completed batch and all at once       *)

MayContinue(b) == batch[b].turn < MaxSteps

(* The items that succeeded, which of their agents ask to continue and      *)
(* which call rethink_memory. With none, executing no tools returns no      *)
(* list and storing its messages raises.                                    *)
Collect(s, b) ==
  /\ task[s][b].pc = "collect"
  /\ LET done == {a \in Agent : batch[b].item[a] = "completed"}
     IN IF done = {}
        THEN DropTask(s, b) /\ stuck' = stuck \cup {batch[b].job} /\ UNCHANGED batch
        ELSE \E cont \in SUBSET (IF MayContinue(b) THEN done ELSE {}),
                rethink \in SUBSET (IF RethinkMay THEN done ELSE {}) :
               /\ SetTask(s, b, [pc |-> "exec", agents |-> done, cont |-> cont,
                                 rethink |-> rethink, new |-> 0])
               /\ batch' = [batch EXCEPT ![b].mixed = @ \/ rethink \notin {{}, done}]
               /\ UNCHANGED stuck
  /\ UNCHANGED <<lockVars, job, poll, cancel, faults>>

\* Mutant of Executed: the replies that call rethink_memory are left out instead.
Executed_OthersOnly(t) == t.agents \ t.rethink

(* If any reply calls rethink_memory only those are executed.               *)
Executed(t) == IF t.rethink # {} THEN t.rethink ELSE t.agents

ExecTools(s, b) ==
  /\ task[s][b].pc = "exec"
  /\ batch' = [batch EXCEPT ![b].ran =
       [a \in Agent |-> IF a \in Executed(task[s][b]) THEN @[a] + 1 ELSE @[a]]]
  /\ Step(s, b, "persist")
  /\ UNCHANGED <<lockVars, job, poll, cancel, stuck, faults>>

Persist(s, b) ==
  /\ task[s][b].pc = "persist"
  /\ batch' = [batch EXCEPT ![b].said = @ \cup Executed(task[s][b])]
  /\ Step(s, b, "mark")
  /\ UNCHANGED <<lockVars, job, poll, cancel, stuck, faults>>

(* All the items collected are marked, whether their tool ran or not.       *)
MarkSteps(s, b) ==
  /\ task[s][b].pc = "mark"
  /\ batch' = [batch EXCEPT ![b].stepped = @ \cup task[s][b].agents]
  /\ Step(s, b, "next")
  /\ UNCHANGED <<lockVars, job, poll, cancel, stuck, faults>>

\* Mutant of PrepareNext: the job is completed although agents continue.
PrepareNext_CompletesEarly(s, b) ==
  /\ task[s][b].pc = "next"
  /\ SetJob(batch[b].job, "completed")
  /\ IF task[s][b].cont = {} THEN DropTask(s, b) ELSE Step(s, b, "send")
  /\ UNCHANGED stuck
  /\ UNCHANGED <<lockVars, batch, poll, cancel, faults>>

(* An agent that continues though its tool did not run raises a KeyError;   *)
(* with no agent left the job is completed, whatever its status is by now.  *)
PrepareNext(s, b) ==
  LET t == task[s][b]
  IN /\ t.pc = "next"
     /\ \/ /\ ~(t.cont \subseteq Executed(t))
           /\ DropTask(s, b)
           /\ stuck' = stuck \cup {batch[b].job}
           /\ UNCHANGED job
        \/ /\ t.cont = {}
           /\ DropTask(s, b)
           /\ SetJob(batch[b].job, "completed")
           /\ UNCHANGED stuck
        \/ /\ t.cont # {} /\ t.cont \subseteq Executed(t)
           /\ Step(s, b, "send")
           /\ UNCHANGED <<job, stuck>>
     /\ UNCHANGED <<lockVars, batch, poll, cancel, faults>>

Resume(s, b) ==
  Collect(s, b) \/ ExecTools(s, b) \/ Persist(s, b) \/ MarkSteps(s, b) \/ PrepareNext(s, b)
Submit(s, w) == Send(s, w) \/ CreateRow(s, w) \/ CreateItems(s, w)

-----------------------------------------------------------------------------
(* cancel_batch: the job first, then its running batches one by one, each   *)
(* at the provider and in its row. The provider refuses to cancel a batch   *)
(* that ended, which ends the handler.                                      *)

CancelJob(j) ==
  /\ j \in MayCancel
  /\ job[j] # "none" /\ ~cancel[j].on
  /\ SetJob(j, "cancelled")
  /\ cancel' = [cancel EXCEPT ![j].on = TRUE]
  /\ UNCHANGED <<lockVars, batch, poll, task, stuck, faults>>

CancelLists(j) ==
  /\ cancel[j] = [NoCancel EXCEPT !.on = TRUE]
  /\ cancel' = [cancel EXCEPT ![j].todo = {b \in Batch : batch[b].job = j /\ batch[b].row = "running"}]
  /\ cancel'[j].todo # {}
  /\ UNCHANGED <<lockVars, job, batch, poll, task, stuck, faults>>

CancelAtProvider(j, b) ==
  /\ b \in cancel[j].todo /\ cancel[j].asked = 0
  /\ IF batch[b].prov = "ended"
     THEN cancel' = [cancel EXCEPT ![j] = [NoCancel EXCEPT !.asked = b]] /\ UNCHANGED batch
     ELSE /\ batch' = [batch EXCEPT ![b].prov = "canceling"]
          /\ cancel' = [cancel EXCEPT ![j].asked = b]
  /\ UNCHANGED <<lockVars, job, poll, task, stuck, faults>>

CancelRow(j, b) ==
  /\ b \in cancel[j].todo /\ cancel[j].asked = b
  /\ batch' = [batch EXCEPT ![b].row = "cancelled"]
  /\ cancel' = [cancel EXCEPT ![j].todo = @ \ {b}, ![j].asked = 0]
  /\ UNCHANGED <<lockVars, job, poll, task, stuck, faults>>

-----------------------------------------------------------------------------
(* Servers come and go: what one is doing goes with it. A shutdown cancels  *)
(* the poll at its next await; submissions of the endpoint die with it too. *)

TasksOf(s) == {w \in Work : task[s][w].pc # "none"}
LostWith(s) == {JobOf(w) : w \in TasksOf(s)} \cup JobsOf(Undone(s))

Stop(s) ==
  /\ poll' = [poll EXCEPT ![s] = NoPoll]
  /\ task' = [task EXCEPT ![s] = [w \in Work |-> NoTask]]
  /\ stuck' = stuck \cup LostWith(s)
  /\ UNCHANGED <<job, batch, cancel>>

Dies(s) == Crash(s) /\ Stop(s) /\ Fault("crash")

\* Mutant of StopsPolling: the poll of a leader that shuts down goes on.
StopsPolling_Not(s) == UNCHANGED <<job, batch, cancel, poll, task, stuck>>

StopsPolling(s) == Stop(s)

ShutsDown(s) == Shutdown(s) /\ StopsPolling(s) /\ Fault("shutdown")

others == <<job, batch, poll, task, cancel, stuck>>

Election(s) ==
  \/ Elect(s) /\ UNCHANGED <<others, faults>>
  \/ LeadFails(s) /\ Fault("lead") /\ UNCHANGED others
  \/ Recycle(s) /\ sched[s] \in {"acquired", "leader"} /\ Fault("recycle") /\ UNCHANGED others
  \/ Recycle(s) /\ sched[s] \notin {"acquired", "leader"} /\ UNCHANGED <<others, faults>>
  \/ Exit(s) /\ UNCHANGED <<others, faults>>

ServerStep(s) ==
  \/ Election(s) \/ ShutsDown(s) \/ Dies(s)
  \/ \E j \in Job : CreateBatch(s, j)
  \/ PollStarts(s) \/ WriteStatuses(s) \/ ApplyItems(s) \/ PollEnds(s) \/ PollAborts(s)
  \/ \E b \in Batch : Retrieve(s, b) \/ Fetch(s, b) \/ Resume(s, b)
  \/ \E w \in Work : Submit(s, w) \/ SubmitFails(s, w)

CancelStep(j) ==
  \/ CancelJob(j) \/ CancelLists(j)
  \/ \E b \in Batch : CancelAtProvider(j, b) \/ CancelRow(j, b)

Next ==
  \/ \E s \in Server : ServerStep(s)
  \/ \E b \in Batch : ProviderEnds(b)
  \/ \E j \in Job : CancelStep(j)
  \/ DropDead /\ UNCHANGED <<others, faults>>

Spec == Init /\ [][Next]_vars

(* A server that is down is started again, one that waits for the lock asks *)
(* again, a leader polls at its interval, an operation under way goes on,   *)
(* the provider ends every batch, the database notices a dead connection    *)
(* and a pool closes one that leads nowhere.                                *)
PollStep(s) ==
  \/ PollStarts(s) \/ WriteStatuses(s) \/ ApplyItems(s) \/ PollEnds(s)
  \/ \E b \in Batch : Retrieve(s, b) \/ Fetch(s, b)

FairSpec ==
  /\ Spec
  /\ \A s \in Server :
       /\ WF_vars(Elect(s) /\ UNCHANGED <<others, faults>>)
       /\ WF_vars(Exit(s) /\ UNCHANGED <<others, faults>>)
       /\ WF_vars(Recycle(s) /\ sched[s] \notin {"acquired", "leader"}
                             /\ UNCHANGED <<others, faults>>)
       /\ WF_vars(PollStep(s))
       /\ \A w \in Work : WF_vars(Submit(s, w) \/ (w \in Batch /\ Resume(s, w)))
  /\ \A b \in Batch : WF_vars(ProviderEnds(b))
  /\ WF_vars(DropDead /\ UNCHANGED <<others, faults>>)

-----------------------------------------------------------------------------
Polling == {s \in Server : poll[s].pc # "idle"}

(* Two servers poll at once only after a leader's connection was closed     *)
(* under it: a poll ends with its server's leadership, whatever it awaits.  *)
OnePoller == \A s, t \in Polling : s = t \/ s \in lost \/ t \in lost

(* The tool call of a reply is executed at most once, though the leader may *)
(* stop or die at any point of its poll and another takes over, unless a    *)
(* leader's connection was closed under it.                                 *)
ToolRunsOnce ==
  ~faults.recycled => \A b \in Batch, a \in Agent : batch[b].ran[a] <= 1

(* A step marked completed had its tool executed and its messages stored,   *)
(* unless rethink_memory calls of other agents displaced it.                *)
StepDoneMeansToolRan ==
  \A b \in Batch : ~batch[b].mixed =>
    \A a \in batch[b].stepped : batch[b].ran[a] >= 1 /\ a \in batch[b].said

(* A job is completed by its last batch only: nothing of a completed job is *)
(* listed for polling, being submitted or being resumed, unless a leader's  *)
(* connection was closed under it.                                          *)
CompletedIsLast ==
  ~faults.recycled => \A j \in Job : job[j] = "completed" =>
    /\ \A b \in Batch : batch[b].job = j => batch[b].row # "running"
    /\ \A s \in Server, w \in Work : JobOf(w) = j => task[s][w].pc = "none"

(* A job that runs comes to an end, whichever server leads, unless one of   *)
(* its operations was lost with a server, failed, or had nothing to resume. *)
JobEnds == \A j \in Job : job[j] = "running" ~> job[j] # "running" \/ j \in stuck

(* "Cancel a batch run" (cancel_batch): a cancelled job stays cancelled.    *)
CancelledStays ==
  [][\A j \in Job : job[j] = "cancelled" => job'[j] = "cancelled"]_vars
=============================================================================
