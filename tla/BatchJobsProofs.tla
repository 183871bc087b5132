-------------------------- MODULE BatchJobsProofs --------------------------
(***************************************************************************)
(* A poll ends with its server's leadership, for every set of servers, of  *)
(* jobs and of agents, and however much goes wrong. The leader election of *)
(* the whole system is the one SchedulerLock describes, so its invariants  *)
(* carry over; what is added is that only a leader polls.                  *)
(*                                                                         *)
(* Then the types of the rows, of the polls and of what is under way, with *)
(* the facts that keep them: a submission owns the batch it just sent, and *)
(* whoever lists, cancels or resumes a batch does so by its row. What each *)
(* step does to the records is stated once, in the lemmas named ...Effect. *)
(***************************************************************************)
EXTENDS BatchJobs, TLAPS, WellFoundedInduction

-----------------------------------------------------------------------------
(* The leader election (SchedulerLock): two servers lead at once only after *)
(* the connection of one was closed under it.  OneLeader is not inductive,  *)
(* since a server becomes leader a step after it got the lock: HoldsLock    *)
(* says who has the lock from then on.                                      *)

(* The rows of the election keep their types.                               *)
LEMMA LockTypeStep == LockTypeOK /\ [LockNext]_lockVars => LockTypeOK'
  BY SMTT(60) DEF LockTypeOK, LockNext, lockVars, Elect, Start, TryLock, MayTake, Retry,
     Lead, LeadFails, Unlock, Recycle, Shutdown, Exit, Crash, DropDead, Goto, Up

(* A server that is past its grant holds the lock or has lost it.           *)
LEMMA HoldsLockStep ==
  LockTypeOK /\ HoldsLock /\ [LockNext]_lockVars => HoldsLock'
<1> SUFFICES ASSUME LockTypeOK, HoldsLock, [LockNext]_lockVars
             PROVE  HoldsLock'
  OBVIOUS
<1> USE DEF LockTypeOK, HoldsLock, Goto, Up
<1>1. CASE UNCHANGED lockVars
  BY <1>1 DEF lockVars
<1>2. CASE DropDead
  BY <1>2, ServerAssumption DEF DropDead
<1>3. ASSUME NEW s \in Server, Elect(s)
      PROVE  HoldsLock'
  <2>1. CASE Start(s)
    BY <2>1 DEF Start
  <2>2. CASE TryLock(s)
    BY <2>2, ServerAssumption DEF TryLock, MayTake
  <2>3. CASE Retry(s)
    BY <2>3 DEF Retry
  <2>4. CASE Lead(s)
    BY <2>4 DEF Lead
  <2> QED
    BY <1>3, <2>1, <2>2, <2>3, <2>4 DEF Elect
<1>4. ASSUME NEW s \in Server, LeadFails(s)
      PROVE  HoldsLock'
  BY <1>4 DEF LeadFails, Unlock
<1>5. ASSUME NEW s \in Server, Recycle(s)
      PROVE  HoldsLock'
  BY <1>5 DEF Recycle
<1>6. ASSUME NEW s \in Server, Shutdown(s)
      PROVE  HoldsLock'
  BY <1>6 DEF Shutdown, Unlock
<1>7. ASSUME NEW s \in Server, Exit(s)
      PROVE  HoldsLock'
  BY <1>7 DEF Exit
<1>8. ASSUME NEW s \in Server, Crash(s)
      PROVE  HoldsLock'
  BY <1>8 DEF Crash
<1> QED
  BY <1>1, <1>2, <1>3, <1>4, <1>5, <1>6, <1>7, <1>8 DEF LockNext

(* At most one server leads on a connection that is still open, for every   *)
(* set of servers (jobs/scheduler.py, _try_acquire_lock_and_start_scheduler *)
(* to shutdown_scheduler_and_release_lock).                                 *)
THEOREM LockSafety == LockSpec => []OneLeader
<1>1. LockInit => LockTypeOK /\ HoldsLock
  BY DEF LockInit, LockTypeOK, HoldsLock, Up
<1>2. LockTypeOK /\ HoldsLock /\ [LockNext]_lockVars => (LockTypeOK /\ HoldsLock)'
  BY LockTypeStep, HoldsLockStep
<1>3. HoldsLock => OneLeader
  BY DEF HoldsLock, OneLeader, Leaders
<1> QED
  BY <1>1, <1>2, <1>3, PTL DEF LockSpec

-----------------------------------------------------------------------------
(* Only a leader polls. *)

PollerLeads == \A s \in Server : poll[s].pc # "idle" => sched[s] = "leader"

(* Polls are kept as a function, which the updates of one server need.      *)
PollFun == DOMAIN poll = Server

OnePollerInv == LockTypeOK /\ HoldsLock /\ PollFun /\ PollerLeads

(* The steps that are about batches leave the election alone.               *)
JobStep(s) ==
  \/ \E j \in Job : CreateBatch(s, j)
  \/ \E w \in Work : Submit(s, w) \/ SubmitFails(s, w)
  \/ \E b \in Batch : Resume(s, b)

PollingStep(s) ==
  \/ PollStarts(s) \/ WriteStatuses(s) \/ ApplyItems(s) \/ PollEnds(s) \/ PollAborts(s)
  \/ \E b \in Batch : Retrieve(s, b) \/ Fetch(s, b)

(* Submitting and resuming touch neither the election nor the polls.        *)
LEMMA JobStepFrame ==
  ASSUME NEW s \in Server, JobStep(s)
  PROVE  UNCHANGED <<lockVars, poll>>
<1>1. ASSUME NEW j \in Job, CreateBatch(s, j)
      PROVE  UNCHANGED <<lockVars, poll>>
  BY <1>1 DEF CreateBatch
<1>2. ASSUME NEW w \in Work, Submit(s, w)
      PROVE  UNCHANGED <<lockVars, poll>>
  BY <1>2 DEF Submit, Send, CreateRow, CreateItems
<1>3. ASSUME NEW w \in Work, SubmitFails(s, w)
      PROVE  UNCHANGED <<lockVars, poll>>
  BY <1>3 DEF SubmitFails
<1>4. ASSUME NEW b \in Batch, Resume(s, b)
      PROVE  UNCHANGED <<lockVars, poll>>
  BY <1>4 DEF Resume, Collect, ExecTools, Persist, MarkSteps, PrepareNext
<1> QED
  BY <1>1, <1>2, <1>3, <1>4 DEF JobStep

(* A poll advances only on its own server, and starts only on a leader.     *)
LEMMA PollingStepFrame ==
  ASSUME NEW s \in Server, PollFun, PollingStep(s)
  PROVE  /\ UNCHANGED lockVars
         /\ PollFun'
         /\ \A t \in Server \ {s} : poll'[t] = poll[t]
         /\ poll[s].pc = "idle" => sched[s] = "leader"
<1> USE DEF PollFun, SetPoll
<1>1. CASE PollStarts(s)
  BY <1>1 DEF PollStarts
<1>2. CASE WriteStatuses(s)
  BY <1>2 DEF WriteStatuses
<1>3. CASE ApplyItems(s)
  <2> poll[s].pc = "fetch" /\ UNCHANGED lockVars
    BY <1>3 DEF ApplyItems
  <2> \E p : poll' = [poll EXCEPT ![s] = p]
    BY <1>3 DEF ApplyItems
  <2> QED
    OBVIOUS
<1>4. CASE PollEnds(s)
  BY <1>4 DEF PollEnds
<1>5. CASE PollAborts(s)
  BY <1>5 DEF PollAborts
<1>6. ASSUME NEW b \in Batch, Retrieve(s, b)
      PROVE  /\ UNCHANGED lockVars /\ poll[s].pc = "retrieve"
             /\ \E p : poll' = [poll EXCEPT ![s] = p]
  BY <1>6 DEF Retrieve
<1>7. ASSUME NEW b \in Batch, Fetch(s, b)
      PROVE  /\ UNCHANGED lockVars /\ poll[s].pc = "fetch"
             /\ \E p : poll' = [poll EXCEPT ![s] = p]
  BY <1>7 DEF Fetch
<1> QED
  BY <1>1, <1>2, <1>3, <1>4, <1>5, <1>6, <1>7 DEF PollingStep

(* A server that stops leading stops polling in the same step.              *)
LEMMA ElectionFrame ==
  ASSUME NEW s \in Server, PollFun, LockTypeOK,
         Election(s) \/ ShutsDown(s) \/ Dies(s)
  PROVE  /\ LockNext
         /\ PollFun'
         /\ \A t \in Server \ {s} : poll'[t] = poll[t] /\ sched'[t] = sched[t]
         /\ \/ poll'[s].pc = "idle"
            \/ poll'[s] = poll[s] /\ (sched[s] = "leader" => sched'[s] = "leader")
<1> USE DEF PollFun, LockTypeOK, Goto, others
<1>1. CASE Election(s)
  BY <1>1 DEF Election, LockNext, Elect, Start, TryLock, Retry, Lead, LeadFails, Recycle, Exit
<1>2. CASE ShutsDown(s)
  BY <1>2 DEF ShutsDown, StopsPolling, Stop, NoPoll, LockNext, Shutdown
<1>3. CASE Dies(s)
  BY <1>3 DEF Dies, Stop, NoPoll, LockNext, Crash
<1> QED
  BY <1>1, <1>2, <1>3

(* Every step of the system keeps the invariant.                            *)
LEMMA OnePollerStep == OnePollerInv /\ [Next]_vars => OnePollerInv'
<1> SUFFICES ASSUME OnePollerInv, [Next]_vars
             PROVE  OnePollerInv'
  OBVIOUS
<1> USE DEF OnePollerInv, PollerLeads
<1>1. ASSUME UNCHANGED <<lockVars, poll>>
      PROVE  OnePollerInv'
  BY <1>1 DEF lockVars, LockTypeOK, HoldsLock, PollFun
<1>2. CASE UNCHANGED vars
  BY <1>1, <1>2 DEF vars
<1>3. ASSUME NEW s \in Server, JobStep(s)
      PROVE  OnePollerInv'
  BY <1>1, <1>3, JobStepFrame
<1>4. ASSUME NEW s \in Server, PollingStep(s)
      PROVE  OnePollerInv'
  <2>1. UNCHANGED lockVars /\ PollFun' /\ PollerLeads'
    BY <1>4, PollingStepFrame DEF lockVars
  <2> QED
    BY <2>1 DEF lockVars, LockTypeOK, HoldsLock
<1>5. ASSUME NEW s \in Server, Election(s) \/ ShutsDown(s) \/ Dies(s)
      PROVE  OnePollerInv'
  <2>1. LockNext /\ PollFun' /\ PollerLeads'
    BY <1>5, ElectionFrame
  <2> QED
    BY <2>1, LockTypeStep, HoldsLockStep
<1>6. ASSUME NEW b \in Batch, ProviderEnds(b)
      PROVE  OnePollerInv'
  BY <1>1, <1>6 DEF ProviderEnds
<1>7. ASSUME NEW j \in Job, CancelStep(j)
      PROVE  OnePollerInv'
  BY <1>1, <1>7 DEF CancelStep, CancelJob, CancelLists, CancelAtProvider, CancelRow
<1>8. CASE DropDead /\ UNCHANGED <<others, faults>>
  <2>1. LockNext /\ PollFun' /\ PollerLeads'
    BY <1>8 DEF DropDead, others, LockNext, PollFun
  <2> QED
    BY <2>1, LockTypeStep, HoldsLockStep
<1>9. \A s \in Server : ServerStep(s) =>
        \/ JobStep(s) \/ PollingStep(s) \/ Election(s) \/ ShutsDown(s) \/ Dies(s)
  BY DEF ServerStep, JobStep, PollingStep
<1> QED
  BY <1>2, <1>3, <1>4, <1>5, <1>6, <1>7, <1>8, <1>9 DEF Next

(* Two servers poll at once only after a leader's connection was closed     *)
(* under it (poll_running_llm_batches under scheduler.py's lock).           *)
THEOREM PollSafety == Spec => []OnePoller
<1>1. Init => OnePollerInv
  BY DEF Init, LockInit, OnePollerInv, LockTypeOK, HoldsLock, PollFun, PollerLeads, NoPoll, Up
<1>2. OnePollerInv => OnePoller
  BY DEF OnePollerInv, PollerLeads, HoldsLock, OnePoller, Polling
<1> QED
  BY <1>1, <1>2, OnePollerStep, PTL DEF Spec

(* The leader election inside the whole system is the election of           *)
(* SchedulerLock: every step maps to one of its steps or to a stutter.      *)
THEOREM ElectionRefines == Spec => LockSpec
<1>1. Init => LockInit /\ OnePollerInv
  BY DEF Init, LockInit, OnePollerInv, LockTypeOK, HoldsLock, PollFun, PollerLeads, NoPoll, Up
<1>2. OnePollerInv /\ [Next]_vars => [LockNext]_lockVars
  <2> SUFFICES ASSUME OnePollerInv, [Next]_vars
               PROVE  LockNext \/ UNCHANGED lockVars
    OBVIOUS
  <2> USE DEF OnePollerInv
  <2>1. CASE UNCHANGED vars
    BY <2>1 DEF vars
  <2>2. ASSUME NEW s \in Server, ServerStep(s)
        PROVE  LockNext \/ UNCHANGED lockVars
    <3>1. JobStep(s) \/ PollingStep(s) \/ Election(s) \/ ShutsDown(s) \/ Dies(s)
      BY <2>2 DEF ServerStep, JobStep, PollingStep
    <3> QED
      BY <3>1, JobStepFrame, PollingStepFrame, ElectionFrame
  <2>3. ASSUME NEW b \in Batch, ProviderEnds(b)
        PROVE  UNCHANGED lockVars
    BY <2>3 DEF ProviderEnds
  <2>4. ASSUME NEW j \in Job, CancelStep(j)
        PROVE  UNCHANGED lockVars
    BY <2>4 DEF CancelStep, CancelJob, CancelLists, CancelAtProvider, CancelRow
  <2>5. CASE DropDead /\ UNCHANGED <<others, faults>>
    BY <2>5 DEF LockNext
  <2> QED
    BY <2>1, <2>2, <2>3, <2>4, <2>5 DEF Next
<1> QED
  BY <1>1, <1>2, OnePollerStep, PTL DEF Spec, LockSpec

-----------------------------------------------------------------------------
ItemStatus == {"none", "created", "completed", "failed", "cancelled"}
Ended == {"completed", "failed", "cancelled"}
RowStatus == {"none", "running", "completed", "cancelled"}

BatchRec ==
  [job : Job \cup {NoJob}, turn : 0 .. MaxSteps, agents : SUBSET Agent,
   prov : {"none", "in_progress", "canceling", "ended"},
   result : SUBSET (Agent \X Ended), row : RowStatus, item : [Agent -> ItemStatus],
   ran : [Agent -> Nat], said : SUBSET Agent, stepped : SUBSET Agent, mixed : BOOLEAN]
PollRec ==
  [pc : {"idle", "retrieve", "fetch", "resume"}, seen : SUBSET Batch,
   res : [Batch -> {"unknown", "running", "completed", "cancelled"}],
   fetched : SUBSET Batch, got : SUBSET (Batch \X Agent \X Ended)]
Resuming == {"collect", "exec", "persist", "mark", "next"}
Submitting == {"send", "row", "items"}
TaskRec ==
  [pc : {"none"} \cup Resuming \cup Submitting, agents : SUBSET Agent, cont : SUBSET Agent,
   rethink : SUBSET Agent, new : 0 .. MaxBatches]
CancelRec == [on : BOOLEAN, todo : SUBSET Batch, asked : 0 .. MaxBatches]

(* The state as a tuple of typed functions.                                 *)
Shapes ==
  /\ job \in [Job -> {"none", "running", "completed", "failed", "cancelled"}]
  /\ batch \in [Batch -> BatchRec]
  /\ poll \in [Server -> PollRec]
  /\ task \in [Server -> [Work -> TaskRec]]
  /\ cancel \in [Job -> CancelRec]
  /\ stuck \in SUBSET Job
  /\ faults \in [count : 0 .. MaxFaults, recycled : BOOLEAN]

Exists(b) == batch[b].prov # "none"

(* A batch in turn: it exists at the provider, has a row, has items.        *)
BatchFacts ==
  \A b \in Batch :
    /\ Exists(b) => batch[b].job \in Job
    /\ ~Exists(b) => batch[b] = NoBatch
    /\ \A a \in Agent \ batch[b].agents : batch[b].item[a] = "none"
    /\ batch[b].stepped \subseteq batch[b].agents

(* Polls and cancellations know batches by their rows.                      *)
Listings ==
  /\ \A s \in Server :
       /\ poll[s].fetched \subseteq poll[s].seen
       /\ \A b \in Batch : b \in poll[s].seen => batch[b].row # "none"
  /\ \A j \in Job, b \in Batch : b \in cancel[j].todo => batch[b].row # "none"

(* A resumption is of a batch with a row, and continues only below the bound *)
(* on the steps.                                                            *)
Resumptions ==
  \A s \in Server, b \in Batch : LET t == task[s][b] IN t.pc # "none" =>
    /\ batch[b].row # "none"
    /\ t.agents \subseteq batch[b].agents
    /\ t.cont # {} => batch[b].turn < MaxSteps
    /\ t.pc = "send" => t.cont # {}

(* A submission owns the batch it just sent.                                *)
Owns(s, w) == task[s][w].pc \in {"row", "items"}
Submissions ==
  /\ \A s \in Server, j \in Job : task[s][j].pc \in {"none"} \cup Submitting
  /\ \A s \in Server, w \in Work : Owns(s, w) =>
       /\ task[s][w].new \in Batch
       /\ Exists(task[s][w].new)
       /\ batch[task[s][w].new].job = JobOf(w)
       /\ task[s][w].pc = "row" => batch[task[s][w].new].row = "none"
       /\ \A a \in Agent : batch[task[s][w].new].item[a] = "none"
  /\ \A s, t \in Server, v, w \in Work :
       Owns(s, w) /\ Owns(t, v) /\ task[s][w].new = task[t][v].new => s = t /\ w = v

Facts == Shapes /\ BatchFacts /\ Listings /\ Resumptions /\ Submissions
TypeInv == LockTypeOK /\ Facts

-----------------------------------------------------------------------------
LEMMA NoBatchIs ==
  /\ NoBatch \in BatchRec /\ NoBatch.prov = "none" /\ NoBatch.row = "none"
  /\ NoBatch.job = NoJob /\ NoBatch.stepped = {} /\ NoBatch.agents = {}
  /\ \A a \in Agent : NoBatch.item[a] = "none" /\ NoBatch.ran[a] = 0
  BY BatchAssumption DEF NoBatch, BatchRec, RowStatus, ItemStatus

LEMMA NoOthers ==
  /\ NoPoll \in PollRec /\ NoPoll.pc = "idle" /\ NoPoll.seen = {} /\ NoPoll.fetched = {}
  /\ NoTask \in TaskRec /\ NoTask.pc = "none" /\ NoTask.cont = {}
  /\ NoCancel \in CancelRec /\ NoCancel.todo = {}
  BY BatchAssumption DEF NoPoll, PollRec, NoTask, TaskRec, NoCancel, CancelRec

(* A batch with a row is one the provider has, of some job.                 *)
LEMMA RowExists ==
  ASSUME Facts
  PROVE  \A b \in Batch : batch[b].row # "none" => Exists(b) /\ batch[b].job \in Job
  BY NoBatchIs DEF Facts, BatchFacts

(* Jobs and batches are different work.                                     *)
LEMMA WorkKinds ==
  /\ \A j \in Job : j \in Work /\ j \notin Batch /\ JobOf(j) = j
  /\ \A b \in Batch : b \in Work /\ b \notin Job /\ JobOf(b) = batch[b].job
  BY BatchAssumption DEF Work, JobOf

LEMMA TaskHasJob ==
  ASSUME Facts, NEW s \in Server, NEW w \in Work, task[s][w].pc # "none"
  PROVE  JobOf(w) \in Job
  BY RowExists, WorkKinds DEF Facts, Resumptions, Work

LEMMA OwnerExists ==
  ASSUME Facts, NEW s \in Server, NEW b \in Batch, task[s][b].pc # "none"
  PROVE  Exists(b)
  BY RowExists DEF Facts, Resumptions

(* What the facts about tasks need of the batches: what is known of one     *)
(* stays as it is.                                                          *)
Stays(b) ==
  /\ Exists(b)'
  /\ batch'[b].job = batch[b].job /\ batch'[b].turn = batch[b].turn
  /\ batch'[b].agents = batch[b].agents
  /\ batch[b].row # "none" => batch'[b].row # "none"

(* The facts on submissions survive a step in which no new one gets a batch *)
(* and the batches they have got stay as they are.                          *)
LEMMA SubmissionsKept ==
  ASSUME Submissions,
         \A b \in Batch : Exists(b) => Stays(b),
         \A t \in Server, j \in Job : task'[t][j].pc \in {"none"} \cup Submitting,
         \A t \in Server, v \in Work : Owns(t, v)' =>
           LET n == task[t][v].new IN
             /\ Owns(t, v) /\ task'[t][v].new = n
             /\ v \in Batch => Exists(v)
             /\ task'[t][v].pc = "row" => batch'[n].row = "none"
             /\ batch'[n].item = batch[n].item
  PROVE  Submissions'
<1> USE DEF Submissions
<1>1. \A t \in Server, v \in Work : Owns(t, v)' => JobOf(v)' = JobOf(v)
  BY DEF JobOf, Stays, Work
<1>2. \A t \in Server, v \in Work : Owns(t, v)' => 
        /\ task'[t][v].new \in Batch
        /\ Exists(task[t][v].new)'
        /\ batch'[task'[t][v].new].job = JobOf(v)'
        /\ task'[t][v].pc = "row" => batch'[task'[t][v].new].row = "none"
        /\ \A a \in Agent : batch'[task'[t][v].new].item[a] = "none"
  BY <1>1 DEF Stays
<1>3. \A t, u \in Server, v, w \in Work :
         Owns(t, v)' /\ Owns(u, w)' /\ task'[t][v].new = task'[u][w].new => t = u /\ v = w
  OBVIOUS
<1> QED
  BY <1>2, <1>3 DEF Exists

(* One task changes at a time, but for a poll that begins to resume.        *)
LEMMA TaskSet ==
  ASSUME Shapes, NEW s \in Server, NEW w \in Work, NEW t \in TaskRec, SetTask(s, w, t)
  PROVE  /\ task' \in [Server -> [Work -> TaskRec]]
         /\ task'[s][w] = t
         /\ \A u \in Server, v \in Work : (u # s \/ v # w) => task'[u][v] = task[u][v]
  BY DEF Shapes, SetTask

LEMMA TaskStep ==
  ASSUME Shapes, NEW s \in Server, NEW w \in Work, NEW pc \in Resuming \cup Submitting,
         Step(s, w, pc)
  PROVE  /\ task' \in [Server -> [Work -> TaskRec]]
         /\ task'[s][w].pc = pc /\ task'[s][w].new = task[s][w].new
         /\ task'[s][w].agents = task[s][w].agents /\ task'[s][w].cont = task[s][w].cont
         /\ task'[s][w].rethink = task[s][w].rethink
         /\ \A u \in Server, v \in Work : (u # s \/ v # w) => task'[u][v] = task[u][v]
<1> DEFINE t == task[s][w]
           n == [t EXCEPT !.pc = pc]
<1>1. t \in TaskRec
  BY DEF Shapes
<1>2. /\ n \in TaskRec
      /\ n.pc = pc /\ n.new = t.new /\ n.agents = t.agents /\ n.cont = t.cont
      /\ n.rethink = t.rethink
  BY <1>1 DEF TaskRec
<1>3. SetTask(s, w, n)
  BY DEF Step
<1> HIDE DEF n
<1> QED
  BY <1>2, <1>3, TaskSet

LEMMA TaskDropped ==
  ASSUME Shapes, NEW s \in Server, NEW w \in Work, DropTask(s, w)
  PROVE  /\ task' \in [Server -> [Work -> TaskRec]]
         /\ task'[s][w].pc = "none"
         /\ \A u \in Server, v \in Work : (u # s \/ v # w) => task'[u][v] = task[u][v]
  BY TaskSet, NoOthers DEF DropTask

(* One batch changes at a time, but for what a poll writes.                 *)
LEMMA BatchSet ==
  ASSUME Shapes, NEW b \in Batch, NEW r \in BatchRec, batch' = [batch EXCEPT ![b] = r]
  PROVE  /\ batch' \in [Batch -> BatchRec]
         /\ batch'[b] = r
         /\ \A c \in Batch \ {b} : batch'[c] = batch[c]
  BY DEF Shapes

(* What no update of a batch changes once the provider has it.              *)
Same(r, q) ==
  /\ r.job = q.job /\ r.turn = q.turn /\ r.agents = q.agents
  /\ r.stepped = q.stepped
  /\ r.prov # "none" <=> q.prov # "none"

LEMMA FaultsTyped ==
  ASSUME Shapes, NEW kind, Fault(kind)
  PROVE  faults' \in [count : 0 .. MaxFaults, recycled : BOOLEAN]
<1>1. faults.count \in 0 .. MaxFaults /\ faults.recycled \in BOOLEAN /\ faults.count < MaxFaults
  BY DEF Shapes, Fault
<1>2. faults.count + 1 \in 0 .. MaxFaults
  BY <1>1, BatchAssumption
<1>3. (faults.recycled \/ kind = "recycle") \in BOOLEAN
  OBVIOUS
<1> QED
  BY <1>2, <1>3 DEF Fault

(* The parts of the facts that outlast a step which keeps what is known of  *)
(* the batches.                                                             *)
LEMMA BatchFactsKept ==
  ASSUME BatchFacts, NEW n \in Batch,
         \A b \in Batch \ {n} : batch'[b] = batch[b],
         Exists(n)', batch'[n].job \in Job,
         \A a \in Agent \ batch'[n].agents : batch'[n].item[a] = "none",
         batch'[n].stepped \subseteq batch'[n].agents
  PROVE  BatchFacts'
<1> SUFFICES ASSUME NEW b \in Batch
             PROVE  /\ Exists(b)' => batch'[b].job \in Job
                    /\ ~Exists(b)' => batch'[b] = NoBatch
                    /\ \A a \in Agent \ batch'[b].agents : batch'[b].item[a] = "none"
                    /\ batch'[b].stepped \subseteq batch'[b].agents
  BY DEF BatchFacts
<1> QED
  BY DEF BatchFacts, Exists

LEMMA ListingsKept ==
  ASSUME Facts, \A b \in Batch : Exists(b) => Stays(b), UNCHANGED <<poll, cancel>>
  PROVE  Listings'
  BY RowExists DEF Listings, Stays, Facts

LEMMA ResumptionsKept ==
  ASSUME Facts, \A b \in Batch : Exists(b) => Stays(b),
         \A t \in Server, b \in Batch : task'[t][b].pc # "none" =>
           /\ task[t][b].pc # "none"
           /\ task'[t][b].agents = task[t][b].agents /\ task'[t][b].cont = task[t][b].cont
           /\ task'[t][b].pc = "send" => task[t][b].pc = "send" \/ task[t][b].cont # {}
  PROVE  Resumptions'
  BY RowExists DEF Resumptions, Stays, Facts

LEMMA CreateBatchFacts ==
  ASSUME Facts, NEW s \in Server, NEW j \in Job, CreateBatch(s, j)
  PROVE  Facts'
<1>t. /\ task' \in [Server -> [Work -> TaskRec]]
      /\ task'[s][j].pc = "send"
      /\ \A u \in Server, v \in Work : (u # s \/ v # j) => task'[u][v] = task[u][v]
  <2>1. j \in Work /\ Step(s, j, "send") /\ "send" \in Resuming \cup Submitting
    BY WorkKinds DEF CreateBatch, Submitting
  <2> QED
    BY <2>1, TaskStep DEF Facts
<1>u. UNCHANGED <<batch, poll, cancel, stuck, faults>> /\ job' = [job EXCEPT ![j] = "running"]
  BY DEF CreateBatch, SetJob
<1>s. \A b \in Batch : Exists(b) => Stays(b)
  BY <1>u DEF Exists, Stays
<1>1. Shapes'
  BY <1>t, <1>u DEF Shapes, Facts
<1>2. BatchFacts' /\ Listings'
  BY <1>u, <1>s, ListingsKept DEF BatchFacts, Exists, Facts
<1>3. Resumptions'
  BY WorkKinds, <1>t, <1>u DEF Resumptions, Facts
<1>4. Submissions'
  <2>1. \A t \in Server, i \in Job : task'[t][i].pc \in {"none"} \cup Submitting
    BY WorkKinds, <1>t, <1>u DEF Submissions, Submitting, Facts
  <2>2. \A t \in Server, v \in Work : Owns(t, v)' => Owns(t, v) /\ task'[t][v] = task[t][v]
    BY WorkKinds, <1>t DEF Owns
  <2> QED
    BY <1>s, <1>u, <2>1, <2>2, OwnerExists, SubmissionsKept DEF Submissions, Owns, Facts
<1> QED
  BY <1>1, <1>2, <1>3, <1>4 DEF Facts

(* A submission gives its batch a row ...                                   *)
RowCreated(n, s, w) ==
  /\ n = task[s][w].new /\ Exists(n) /\ batch[n].row = "none"
  /\ batch' \in [Batch -> BatchRec]
  /\ \A c \in Batch \ {n} : batch'[c] = batch[c]
  /\ Same(batch'[n], batch[n])
  /\ batch'[n].row = "running" /\ batch'[n].item = batch[n].item
  /\ batch'[n].ran = batch[n].ran /\ batch'[n].said = batch[n].said
  /\ batch'[n].mixed = batch[n].mixed
  /\ task' \in [Server -> [Work -> TaskRec]]
  /\ task'[s][w].pc = "items" /\ task'[s][w].new = n
  /\ task'[s][w].agents = task[s][w].agents /\ task'[s][w].cont = task[s][w].cont
  /\ \A u \in Server, v \in Work : (u # s \/ v # w) => task'[u][v] = task[u][v]

LEMMA CreateRowEffect ==
  ASSUME Facts, NEW s \in Server, NEW w \in Work, CreateRow(s, w)
  PROVE  \E n \in Batch : RowCreated(n, s, w)
<1>0. Owns(s, w) /\ task[s][w].pc # "none"
  BY DEF CreateRow, Owns
<1>n. PICK n \in Batch : n = task[s][w].new /\ Exists(n) /\ batch[n].row = "none"
  BY <1>0 DEF CreateRow, Submissions, Facts
<1>t. /\ task' \in [Server -> [Work -> TaskRec]]
      /\ task'[s][w].pc = "items" /\ task'[s][w].new = n
      /\ task'[s][w].agents = task[s][w].agents /\ task'[s][w].cont = task[s][w].cont
      /\ \A u \in Server, v \in Work : (u # s \/ v # w) => task'[u][v] = task[u][v]
  BY <1>n, TaskStep DEF CreateRow, Submitting, Facts
<1> DEFINE r == [batch[n] EXCEPT !.row = "running"]
<1>r. /\ r \in BatchRec /\ Same(r, batch[n])
      /\ r.row = "running" /\ r.item = batch[n].item
      /\ r.ran = batch[n].ran /\ r.said = batch[n].said
  <2>1. batch[n] \in BatchRec
    BY DEF Shapes, Facts
  <2> QED
    BY <2>1 DEF BatchRec, RowStatus, Same
<1>m. r.mixed = batch[n].mixed
  <2>1. batch[n] \in BatchRec
    BY DEF Shapes, Facts
  <2> QED
    BY <2>1 DEF BatchRec, RowStatus
<1>b. batch' = [batch EXCEPT ![n] = r]
  BY <1>n DEF CreateRow
<1> HIDE DEF r
<1>c. /\ batch' \in [Batch -> BatchRec]
      /\ batch'[n] = r
      /\ \A c \in Batch \ {n} : batch'[c] = batch[c]
  BY <1>r, <1>b, BatchSet DEF Facts
<1> QED
  BY <1>n, <1>t, <1>r, <1>m, <1>c DEF RowCreated

LEMMA CreateRowFacts ==
  ASSUME Facts, NEW s \in Server, NEW w \in Work, CreateRow(s, w)
  PROVE  Facts'
<1>0. Owns(s, w) /\ task[s][w].pc # "none"
  BY DEF CreateRow, Owns
<1>n. PICK n \in Batch : RowCreated(n, s, w)
  BY CreateRowEffect
<1>c. /\ n = task[s][w].new /\ Exists(n) /\ batch[n].row = "none"
      /\ batch' \in [Batch -> BatchRec]
      /\ \A c \in Batch \ {n} : batch'[c] = batch[c]
      /\ Same(batch'[n], batch[n])
      /\ batch'[n].row = "running" /\ batch'[n].item = batch[n].item
  BY <1>n DEF RowCreated
<1>t. /\ task' \in [Server -> [Work -> TaskRec]]
      /\ task'[s][w].pc = "items" /\ task'[s][w].new = n
      /\ task'[s][w].agents = task[s][w].agents /\ task'[s][w].cont = task[s][w].cont
      /\ \A u \in Server, v \in Work : (u # s \/ v # w) => task'[u][v] = task[u][v]
  BY <1>n DEF RowCreated
<1>s. \A b \in Batch : Exists(b) => Stays(b)
  BY <1>c DEF Exists, Stays, Same
<1>u. UNCHANGED <<job, poll, cancel, stuck, faults>>
  BY DEF CreateRow
<1>1. Shapes'
  BY <1>t, <1>c, <1>u DEF Shapes, Facts
<1>2. BatchFacts'
  <2>1. /\ batch[n].job \in Job /\ batch[n].stepped \subseteq batch[n].agents
        /\ \A a \in Agent \ batch[n].agents : batch[n].item[a] = "none"
    BY <1>c DEF Facts, BatchFacts
  <2>2. /\ Exists(n)' /\ batch'[n].job \in Job
        /\ batch'[n].stepped \subseteq batch'[n].agents
        /\ \A a \in Agent \ batch'[n].agents : batch'[n].item[a] = "none"
    BY <1>c, <2>1 DEF Exists, Same
  <2> QED
    BY <1>c, <2>2, BatchFactsKept DEF Facts, Exists
<1>3. Listings'
  BY <1>s, <1>u, ListingsKept
<1>4. Resumptions'
  BY WorkKinds, <1>0, <1>t, <1>s, ResumptionsKept
<1>5. Submissions'
  <2>1. \A t \in Server, i \in Job : task'[t][i].pc \in {"none"} \cup Submitting
    BY WorkKinds, <1>t DEF Submissions, Submitting, Facts
  <2>2. \A t \in Server, v \in Work : Owns(t, v)' =>
          LET m == task[t][v].new IN
            /\ Owns(t, v) /\ task'[t][v].new = m
            /\ v \in Batch => Exists(v)
            /\ task'[t][v].pc = "row" => batch'[m].row = "none"
            /\ batch'[m].item = batch[m].item
    BY <1>0, <1>t, <1>c, OwnerExists DEF Submissions, Owns, Facts
  <2> QED
    BY <1>s, <2>1, <2>2, SubmissionsKept DEF Facts
<1> QED
  BY <1>1, <1>2, <1>3, <1>4, <1>5 DEF Facts

(* ... and then items, with which it is done.                               *)
ItemsCreated(n, s, w) ==
  /\ n = task[s][w].new /\ Exists(n)
  /\ batch' \in [Batch -> BatchRec]
  /\ \A c \in Batch \ {n} : batch'[c] = batch[c]
  /\ Same(batch'[n], batch[n])
  /\ batch'[n].row = batch[n].row
  /\ \A a \in Agent : batch'[n].item[a] =
       IF a \in batch[n].agents THEN "created" ELSE "none"
  /\ batch'[n].ran = batch[n].ran /\ batch'[n].said = batch[n].said
  /\ batch'[n].mixed = batch[n].mixed
  /\ task' \in [Server -> [Work -> TaskRec]]
  /\ task'[s][w].pc = "none"
  /\ \A u \in Server, v \in Work : (u # s \/ v # w) => task'[u][v] = task[u][v]

LEMMA CreateItemsEffect ==
  ASSUME Facts, NEW s \in Server, NEW w \in Work, CreateItems(s, w)
  PROVE  \E n \in Batch : ItemsCreated(n, s, w)
<1>0. Owns(s, w) /\ task[s][w].pc # "none"
  BY DEF CreateItems, Owns
<1>n. PICK n \in Batch : n = task[s][w].new /\ Exists(n)
  BY <1>0 DEF Submissions, Facts
<1>t. /\ task' \in [Server -> [Work -> TaskRec]]
      /\ task'[s][w].pc = "none"
      /\ \A u \in Server, v \in Work : (u # s \/ v # w) => task'[u][v] = task[u][v]
  BY TaskDropped DEF CreateItems, Facts
<1> DEFINE new == [a \in Agent |-> IF a \in batch[n].agents THEN "created" ELSE "none"]
           r == [batch[n] EXCEPT !.item = new]
<1>i. new \in [Agent -> ItemStatus] 
      /\ \A a \in Agent : new[a] = IF a \in batch[n].agents THEN "created" ELSE "none"
  BY DEF ItemStatus
<1>b. batch' = [batch EXCEPT ![n] = r]
  BY <1>n DEF CreateItems
<1> HIDE DEF new
<1>r. /\ r \in BatchRec /\ Same(r, batch[n])
      /\ r.row = batch[n].row /\ r.item = new
      /\ r.ran = batch[n].ran /\ r.said = batch[n].said
  <2>1. batch[n] \in BatchRec
    BY DEF Shapes, Facts
  <2> QED
    BY <1>i, <2>1 DEF BatchRec, Same
<1>m. r.mixed = batch[n].mixed
  <2>1. batch[n] \in BatchRec
    BY DEF Shapes, Facts
  <2> QED
    BY <1>i, <2>1 DEF BatchRec
<1> HIDE DEF r
<1>c. /\ batch' \in [Batch -> BatchRec]
      /\ batch'[n] = r
      /\ \A c \in Batch \ {n} : batch'[c] = batch[c]
  BY <1>r, <1>b, BatchSet DEF Facts
<1> QED
  BY <1>n, <1>t, <1>i, <1>r, <1>m, <1>c DEF ItemsCreated

LEMMA CreateItemsFacts ==
  ASSUME Facts, NEW s \in Server, NEW w \in Work, CreateItems(s, w)
  PROVE  Facts'
<1>0. Owns(s, w) /\ task[s][w].pc # "none"
  BY DEF CreateItems, Owns
<1>n. PICK n \in Batch : ItemsCreated(n, s, w)
  BY CreateItemsEffect
<1>c. /\ n = task[s][w].new /\ Exists(n)
      /\ batch' \in [Batch -> BatchRec]
      /\ \A c \in Batch \ {n} : batch'[c] = batch[c]
      /\ Same(batch'[n], batch[n])
      /\ batch'[n].row = batch[n].row
      /\ \A a \in Agent : a \notin batch[n].agents => batch'[n].item[a] = "none"
  BY <1>n DEF ItemsCreated
<1>t. /\ task' \in [Server -> [Work -> TaskRec]]
      /\ task'[s][w].pc = "none"
      /\ \A u \in Server, v \in Work : (u # s \/ v # w) => task'[u][v] = task[u][v]
  BY <1>n DEF ItemsCreated
<1>s. \A b \in Batch : Exists(b) => Stays(b)
  BY <1>c DEF Exists, Stays, Same
<1>u. UNCHANGED <<job, poll, cancel, stuck, faults>>
  BY DEF CreateItems
<1>1. Shapes'
  BY <1>t, <1>c, <1>u DEF Shapes, Facts
<1>2. BatchFacts'
  <2>1. /\ batch[n].job \in Job /\ batch[n].stepped \subseteq batch[n].agents
        /\ \A a \in Agent \ batch[n].agents : batch[n].item[a] = "none"
    BY <1>c DEF Facts, BatchFacts
  <2>2. /\ Exists(n)' /\ batch'[n].job \in Job
        /\ batch'[n].stepped \subseteq batch'[n].agents
        /\ \A a \in Agent \ batch'[n].agents : batch'[n].item[a] = "none"
    BY <1>c, <2>1 DEF Exists, Same
  <2> QED
    BY <1>c, <2>2, BatchFactsKept DEF Facts, Exists
<1>3. Listings'
  BY <1>s, <1>u, ListingsKept
<1>4. Resumptions'
  BY WorkKinds, <1>0, <1>t, <1>s, ResumptionsKept
<1>5. Submissions'
  <2>1. \A t \in Server, i \in Job : task'[t][i].pc \in {"none"} \cup Submitting
    BY WorkKinds, <1>t DEF Submissions, Submitting, Facts
  <2>2. \A t \in Server, v \in Work : Owns(t, v)' =>
          LET m == task[t][v].new IN
            /\ Owns(t, v) /\ task'[t][v].new = m
            /\ v \in Batch => Exists(v)
            /\ task'[t][v].pc = "row" => batch'[m].row = "none"
            /\ batch'[m].item = batch[m].item
    <3>1. \A t \in Server, v \in Work : Owns(t, v)' => 
            /\ Owns(t, v) /\ task'[t][v] = task[t][v]
            /\ task[t][v].new \in Batch \ {n}
      BY <1>0, <1>t, <1>c DEF Submissions, Owns, Facts
    <3>2. \A t \in Server, v \in Work : Owns(t, v)' => batch'[task[t][v].new] = batch[task[t][v].new]
      BY <1>c, <3>1
    <3> QED
      BY <3>1, <3>2, OwnerExists DEF Submissions, Owns, Facts
  <2> QED
    BY <1>s, <2>1, <2>2, SubmissionsKept DEF Facts
<1> QED
  BY <1>1, <1>2, <1>3, <1>4, <1>5 DEF Facts

(* A batch no submission works on keeps its items, and its row only changes *)
(* once it has one.                                                         *)
Quiet(b) ==
  /\ Stays(b)
  /\ batch'[b].item = batch[b].item
  /\ batch[b].row = "none" => batch'[b].row = "none"

LEMMA OwnersKept ==
  ASSUME Facts, \A b \in Batch : Exists(b) => Quiet(b),
         \A t \in Server, j \in Job : task'[t][j].pc \in {"none"} \cup Submitting,
         \A t \in Server, v \in Work : Owns(t, v)' => task'[t][v] = task[t][v]
  PROVE  Submissions'
<1>1. \A b \in Batch : Exists(b) => Stays(b)
  BY DEF Quiet
<1>2. \A t \in Server, v \in Work : Owns(t, v)' =>
        LET m == task[t][v].new IN
          /\ Owns(t, v) /\ task'[t][v].new = m
          /\ v \in Batch => Exists(v)
          /\ task'[t][v].pc = "row" => batch'[m].row = "none"
          /\ batch'[m].item = batch[m].item
  BY OwnerExists DEF Quiet, Owns, Submissions, Facts
<1> QED
  BY <1>1, <1>2, SubmissionsKept DEF Facts

(* Steps of the polls and of the cancellation leave the tasks alone.        *)
LEMMA TasksUnchanged ==
  ASSUME Facts, \A b \in Batch : Exists(b) => Quiet(b), UNCHANGED task
  PROVE  Resumptions' /\ Submissions'
<1>1. \A b \in Batch : Exists(b) => Stays(b)
  BY DEF Quiet
<1>2. Resumptions'
  BY <1>1, ResumptionsKept
<1>3. Submissions'
  BY OwnersKept DEF Submissions, Facts
<1> QED
  BY <1>2, <1>3

LEMMA BatchesUnchanged ==
  ASSUME Facts, UNCHANGED batch
  PROVE  BatchFacts' /\ \A b \in Batch : Exists(b) => Quiet(b) /\ Stays(b)
  BY DEF Facts, BatchFacts, Exists, Quiet, Stays

(* A resumption moves on: its task is dropped or goes to another state.     *)
LEMMA TaskMoved ==
  ASSUME Facts, NEW s \in Server, NEW b \in Batch, 
         \A c \in Batch : Exists(c) => Quiet(c),
         task[s][b].pc # "none",
         \A u \in Server, v \in Work : (u # s \/ v # b) => task'[u][v] = task[u][v],
         task'[s][b].pc \notin {"row", "items"},
         task'[s][b].pc # "none" =>
           /\ task'[s][b].agents \subseteq batch[b].agents
           /\ task'[s][b].cont # {} => batch[b].turn < MaxSteps
           /\ task'[s][b].pc = "send" => task'[s][b].cont # {}
  PROVE  Resumptions' /\ Submissions'
<1>1. \A c \in Batch : Exists(c) => Stays(c)
  BY DEF Quiet
<1>2. Resumptions'
  <2> SUFFICES ASSUME NEW t \in Server, NEW c \in Batch, task'[t][c].pc # "none"
               PROVE  /\ batch'[c].row # "none"
                      /\ task'[t][c].agents \subseteq batch'[c].agents
                      /\ task'[t][c].cont # {} => batch'[c].turn < MaxSteps
                      /\ task'[t][c].pc = "send" => task'[t][c].cont # {}
    BY DEF Resumptions
  <2>1. task[t][c].pc # "none" /\ batch[c].row # "none" /\ Stays(c)
    BY <1>1, WorkKinds, RowExists DEF Resumptions, Facts
  <2>2. CASE t = s /\ c = b
    BY <2>1, <2>2 DEF Stays
  <2>3. CASE t # s \/ c # b
    BY <2>1, <2>3, WorkKinds DEF Stays, Resumptions, Facts
  <2> QED
    BY <2>2, <2>3
<1>3. Submissions'
  <2>1. \A t \in Server, j \in Job : task'[t][j].pc \in {"none"} \cup Submitting
    BY WorkKinds DEF Submissions, Facts
  <2>2. \A t \in Server, v \in Work : Owns(t, v)' => task'[t][v] = task[t][v]
    BY WorkKinds DEF Owns
  <2> QED
    BY <2>1, <2>2, OwnersKept
<1> QED
  BY <1>2, <1>3

LEMMA LeastElement ==
  ASSUME NEW S \in SUBSET Nat, S # {}
  PROVE  \E m \in S : \A n \in S : m <= n
<1>1. IsWellFoundedOn(OpToRel(<, Nat), Nat)
  BY NatLessThanWellFounded
<1>2. PICK m \in S : \A n \in S : <<n, m>> \notin OpToRel(<, Nat)
  BY <1>1, WFMin
<1>3. \A n \in S : ~(n < m)
  BY <1>2 DEF OpToRel
<1> QED
  BY <1>3

(* Send takes a batch the provider does not have yet.                       *)
LEMMA SendPicks ==
  ASSUME Facts, NEW s \in Server, NEW w \in Work, Send(s, w)
  PROVE  \E n \in Free :
           /\ batch' = [batch EXCEPT ![n] =
                [NoBatch EXCEPT !.job = JobOf(w), !.prov = "in_progress",
                                !.turn = IF w \in Job THEN 0 ELSE batch[w].turn + 1,
                                !.agents = AgentsFor(w, task[s][w])]]
           /\ SetTask(s, w, [task[s][w] EXCEPT !.pc = "row", !.new = n])
<1> DEFINE n == CHOOSE n \in Free : \A m \in Free : n <= m
<1>1. Free \in SUBSET Nat /\ Free # {}
  BY BatchAssumption DEF Free, Batch, Send
<1>2. n \in Free
  BY <1>1, LeastElement
<1> HIDE DEF n
<1>3. /\ batch' = [batch EXCEPT ![n] =
                [NoBatch EXCEPT !.job = JobOf(w), !.prov = "in_progress",
                                !.turn = IF w \in Job THEN 0 ELSE batch[w].turn + 1,
                                !.agents = AgentsFor(w, task[s][w])]]
      /\ SetTask(s, w, [task[s][w] EXCEPT !.pc = "row", !.new = n])
  BY DEF Send, n
<1> QED
  BY <1>2, <1>3

(* ... and makes a new one of it.                                           *)
Sent(n, s, w) ==
  /\ ~Exists(n)
  /\ batch' \in [Batch -> BatchRec]
  /\ \A c \in Batch \ {n} : batch'[c] = batch[c]
  /\ batch'[n].prov # "none"
  /\ batch'[n].job = JobOf(w) /\ batch'[n].row = "none"
  /\ w \in Batch => batch'[n].turn = batch[w].turn + 1
  /\ \A a \in Agent : batch'[n].item[a] = "none" /\ batch'[n].ran[a] = 0
  /\ batch'[n].stepped = {}
  /\ task' \in [Server -> [Work -> TaskRec]]
  /\ task'[s][w].pc = "row" /\ task'[s][w].new = n
  /\ task'[s][w].agents = task[s][w].agents /\ task'[s][w].cont = task[s][w].cont
  /\ \A u \in Server, v \in Work : (u # s \/ v # w) => task'[u][v] = task[u][v]

LEMMA SendEffect ==
  ASSUME Facts, NEW s \in Server, NEW w \in Work, Send(s, w)
  PROVE  \E n \in Batch : Sent(n, s, w)
<1>1. PICK n \in Free :
           /\ batch' = [batch EXCEPT ![n] =
                [NoBatch EXCEPT !.job = JobOf(w), !.prov = "in_progress",
                                !.turn = IF w \in Job THEN 0 ELSE batch[w].turn + 1,
                                !.agents = AgentsFor(w, task[s][w])]]
           /\ SetTask(s, w, [task[s][w] EXCEPT !.pc = "row", !.new = n])
  BY SendPicks
<1>2. n \in Batch /\ ~Exists(n)
  BY DEF Free, Exists
<1>3. task[s][w].pc = "send" /\ task[s][w] \in TaskRec
  BY DEF Send, Facts, Shapes
<1> DEFINE turn == IF w \in Job THEN 0 ELSE batch[w].turn + 1
           agents == AgentsFor(w, task[s][w])
<1>4. JobOf(w) \in Job
  BY <1>3, TaskHasJob
<1>5. turn \in 0 .. MaxSteps /\ (w \in Batch => turn = batch[w].turn + 1)
  <2>1. CASE w \in Job
    BY <2>1, BatchAssumption, WorkKinds
  <2>2. CASE w \in Batch
    <3>1. task[s][w].cont # {} /\ batch[w].turn < MaxSteps
      BY <1>3, <2>2 DEF Facts, Resumptions
    <3>2. batch[w].turn \in 0 .. MaxSteps /\ w \notin Job
      BY <2>2, WorkKinds DEF Facts, Shapes, BatchRec
    <3> QED
      BY <3>1, <3>2, BatchAssumption
  <2> QED
    BY <2>1, <2>2 DEF Work
<1>6. agents \in SUBSET Agent
  BY <1>3, BatchAssumption DEF AgentsFor, TaskRec
<1> HIDE DEF turn, agents
<1> DEFINE r == [NoBatch EXCEPT !.job = JobOf(w), !.prov = "in_progress",
                                !.turn = turn, !.agents = agents]
<1>7. /\ r \in BatchRec
      /\ r.job = JobOf(w) /\ r.turn = turn /\ r.agents = agents /\ r.prov = "in_progress"
      /\ r.row = "none" /\ r.stepped = {}
      /\ r.item = NoBatch.item /\ r.ran = NoBatch.ran
  <2> DEFINE r1 == [NoBatch EXCEPT !.job = JobOf(w)]
             r2 == [r1 EXCEPT !.prov = "in_progress"]
             r3 == [r2 EXCEPT !.turn = turn]
  <2>1. /\ r1 \in BatchRec /\ r1.job = JobOf(w) /\ r1.row = "none" /\ r1.stepped = {}
        /\ r1.item = NoBatch.item /\ r1.ran = NoBatch.ran
    BY <1>4, NoBatchIs DEF BatchRec
  <2> HIDE DEF r1
  <2>2. /\ r2 \in BatchRec /\ r2.job = JobOf(w) /\ r2.row = "none" /\ r2.stepped = {}
        /\ r2.item = NoBatch.item /\ r2.ran = NoBatch.ran /\ r2.prov = "in_progress"
    BY <2>1 DEF BatchRec
  <2> HIDE DEF r2
  <2>3. /\ r3 \in BatchRec /\ r3.job = JobOf(w) /\ r3.row = "none" /\ r3.stepped = {}
        /\ r3.item = NoBatch.item /\ r3.ran = NoBatch.ran /\ r3.prov = "in_progress"
        /\ r3.turn = turn
    BY <1>5, <2>2 DEF BatchRec
  <2> HIDE DEF r3
  <2>4. r = [r3 EXCEPT !.agents = agents]
    BY DEF r3, r2, r1
  <2> HIDE DEF r
  <2> QED
    BY <1>6, <2>3, <2>4 DEF BatchRec
<1>8. batch' = [batch EXCEPT ![n] = r]
  BY <1>1 DEF turn, agents
<1> HIDE DEF r
<1>11. batch' \in [Batch -> BatchRec] /\ batch'[n] = r /\ \A c \in Batch \ {n} : batch'[c] = batch[c]
  BY <1>2, <1>7, <1>8, BatchSet DEF Facts
<1> DEFINE t == [task[s][w] EXCEPT !.pc = "row", !.new = n]
<1>12. /\ t \in TaskRec /\ t.pc = "row" /\ t.new = n
       /\ t.agents = task[s][w].agents /\ t.cont = task[s][w].cont
  <2> DEFINE q == [task[s][w] EXCEPT !.pc = "row"]
  <2>1. /\ q \in TaskRec /\ q.pc = "row"
        /\ q.agents = task[s][w].agents /\ q.cont = task[s][w].cont
    BY <1>3 DEF TaskRec, Submitting
  <2>2. t = [q EXCEPT !.new = n] /\ n \in 0 .. MaxBatches
    BY <1>2, BatchAssumption DEF Batch
  <2> HIDE DEF q, t
  <2> QED
    BY <2>1, <2>2 DEF TaskRec
<1>13. SetTask(s, w, t)
  BY <1>1
<1> HIDE DEF t
<1>14. /\ task' \in [Server -> [Work -> TaskRec]]
       /\ task'[s][w] = t
       /\ \A u \in Server, v \in Work : (u # s \/ v # w) => task'[u][v] = task[u][v]
  BY <1>12, <1>13, TaskSet DEF Facts
<1> QED
  BY <1>2, <1>5, <1>7, <1>11, <1>12, <1>14, NoBatchIs DEF Sent

LEMMA SendFacts ==
  ASSUME Facts, NEW s \in Server, NEW w \in Work, Send(s, w)
  PROVE  Facts'
<1>0. PICK n \in Batch : Sent(n, s, w)
  BY SendEffect
<1>1. /\ ~Exists(n)
      /\ batch' \in [Batch -> BatchRec]
      /\ \A c \in Batch \ {n} : batch'[c] = batch[c]
      /\ batch'[n].prov # "none"
      /\ batch'[n].job = JobOf(w) /\ batch'[n].row = "none"
      /\ \A a \in Agent : batch'[n].item[a] = "none"
      /\ batch'[n].stepped = {}
      /\ task' \in [Server -> [Work -> TaskRec]]
      /\ task'[s][w].pc = "row" /\ task'[s][w].new = n
      /\ task'[s][w].agents = task[s][w].agents /\ task'[s][w].cont = task[s][w].cont
      /\ \A u \in Server, v \in Work : (u # s \/ v # w) => task'[u][v] = task[u][v]
  BY <1>0 DEF Sent
<1>2. task[s][w].pc = "send" /\ UNCHANGED <<job, poll, cancel, stuck, faults>>
  BY DEF Send
<1>3. JobOf(w) \in Job
  BY <1>2, TaskHasJob
<1>s. \A b \in Batch : Exists(b) => b # n /\ batch'[b] = batch[b] /\ Stays(b)
  BY <1>1 DEF Exists, Stays
<1>4. Shapes'
  BY <1>1, <1>2 DEF Shapes, Facts
<1>5. BatchFacts'
  <2>1. \A a \in Agent \ batch'[n].agents : batch'[n].item[a] = "none"
    BY <1>1
  <2> QED
    BY <1>1, <1>3, <2>1, BatchFactsKept DEF Facts, Exists
<1>6. Listings'
  BY <1>s, <1>2, ListingsKept
<1>7. Resumptions'
  BY <1>1, <1>2, <1>s, WorkKinds, ResumptionsKept
<1>8. Submissions'
  <2>1. \A t \in Server, j \in Job : task'[t][j].pc \in {"none"} \cup Submitting
    BY <1>1, WorkKinds DEF Submissions, Facts, Submitting
  <2>2. \A t \in Server, v \in Work : Owns(t, v)' /\ (t # s \/ v # w) =>
          /\ Owns(t, v) /\ task'[t][v] = task[t][v]
          /\ task[t][v].new \in Batch /\ Exists(task[t][v].new) /\ task[t][v].new # n
    BY <1>1, <1>s DEF Owns, Submissions, Facts
  <2>3. \A t \in Server, v \in Work : task[t][v].pc # "none" => JobOf(v)' = JobOf(v)
    BY <1>s, OwnerExists DEF Work, JobOf
  <2>4. \A t \in Server, v \in Work : Owns(t, v)' =>
          /\ task'[t][v].new \in Batch
          /\ Exists(task[t][v].new)'
          /\ batch'[task'[t][v].new].job = JobOf(v)'
          /\ task'[t][v].pc = "row" => batch'[task'[t][v].new].row = "none"
          /\ \A a \in Agent : batch'[task'[t][v].new].item[a] = "none"
    <3> SUFFICES ASSUME NEW t \in Server, NEW v \in Work, Owns(t, v)'
                 PROVE  /\ task'[t][v].new \in Batch
                        /\ Exists(task[t][v].new)'
                        /\ batch'[task'[t][v].new].job = JobOf(v)'
                        /\ task'[t][v].pc = "row" => batch'[task'[t][v].new].row = "none"
                        /\ \A a \in Agent : batch'[task'[t][v].new].item[a] = "none"
      OBVIOUS
    <3>1. CASE t = s /\ v = w
      BY <1>1, <1>2, <2>3, <3>1 DEF Exists
    <3>2. CASE t # s \/ v # w
      <4>1. /\ Owns(t, v) /\ task'[t][v] = task[t][v] /\ task[t][v].pc # "none"
            /\ task[t][v].new \in Batch /\ Exists(task[t][v].new) /\ task[t][v].new # n
        BY <2>2, <3>2 DEF Owns
      <4>2. JobOf(v)' = JobOf(v) /\ batch'[task[t][v].new] = batch[task[t][v].new]
        BY <1>s, <2>3, <4>1
      <4> QED
        BY <4>1, <4>2 DEF Submissions, Facts, Exists
    <3> QED
      BY <3>1, <3>2
  <2>5. \A t, u \in Server, v, x \in Work :
           Owns(t, v)' /\ Owns(u, x)' /\ task'[t][v].new = task'[u][x].new => t = u /\ v = x
    BY <1>1, <2>2 DEF Submissions, Facts
  <2> QED
    BY <2>1, <2>4, <2>5 DEF Submissions, Exists
<1> QED
  BY <1>4, <1>5, <1>6, <1>7, <1>8 DEF Facts

LEMMA SubmitFailsFacts ==
  ASSUME Facts, NEW s \in Server, NEW w \in Work, SubmitFails(s, w)
  PROVE  Facts'
<1>0. task[s][w].pc # "none"
  BY DEF SubmitFails
<1>1. /\ task' \in [Server -> [Work -> TaskRec]]
      /\ task'[s][w].pc = "none"
      /\ \A u \in Server, v \in Work : (u # s \/ v # w) => task'[u][v] = task[u][v]
  BY TaskDropped DEF SubmitFails, Facts
<1>2. /\ UNCHANGED <<batch, poll, cancel>>
      /\ job' \in [Job -> {"none", "running", "completed", "failed", "cancelled"}]
      /\ stuck' \in SUBSET Job
  BY <1>0, TaskHasJob DEF SubmitFails, SetJob, Shapes, Facts
<1>3. faults' \in [count : 0 .. MaxFaults, recycled : BOOLEAN]
  BY FaultsTyped DEF SubmitFails, Facts
<1>4. Shapes'
  BY <1>1, <1>2, <1>3 DEF Shapes, Facts
<1>5. /\ BatchFacts' /\ \A b \in Batch : Exists(b) => Quiet(b)
      /\ \A b \in Batch : Exists(b) => Stays(b)
  BY <1>2, BatchesUnchanged
<1>6. Listings'
  BY <1>2, <1>5, ListingsKept
<1>7. Resumptions'
  BY <1>1, <1>5, WorkKinds, ResumptionsKept
<1>8. Submissions'
  <2>1. \A t \in Server, j \in Job : task'[t][j].pc \in {"none"} \cup Submitting
    BY <1>1, WorkKinds DEF Submissions, Facts
  <2>2. \A t \in Server, v \in Work : Owns(t, v)' => task'[t][v] = task[t][v]
    BY <1>1 DEF Owns
  <2> QED
    BY <1>5, <2>1, <2>2, OwnersKept
<1> QED
  BY <1>4, <1>5, <1>6, <1>7, <1>8 DEF Facts

(* The provider works on batches it has.                                    *)
Answered(b) ==
  /\ batch[b].prov # "none"
  /\ batch' \in [Batch -> BatchRec]
  /\ \A c \in Batch \ {b} : batch'[c] = batch[c]
  /\ batch'[b].row = batch[b].row /\ batch'[b].item = batch[b].item /\ batch'[b].prov = "ended"
  /\ batch'[b].job = batch[b].job /\ batch'[b].turn = batch[b].turn
  /\ batch'[b].agents = batch[b].agents /\ batch'[b].stepped = batch[b].stepped
  /\ batch'[b].ran = batch[b].ran /\ batch'[b].said = batch[b].said
  /\ batch'[b].mixed = batch[b].mixed

LEMMA ProviderEffect ==
  ASSUME Facts, NEW b \in Batch, ProviderEnds(b)
  PROVE  Answered(b)
<1> DEFINE possible == IF batch[b].prov = "canceling" THEN Results \cup {"cancelled"} ELSE Results
<1>1. PICK r \in [batch[b].agents -> possible] :
        batch' = [batch EXCEPT ![b].prov = "ended",
                               ![b].result = {<<a, r[a]>> : a \in batch[b].agents}]
  BY DEF ProviderEnds
<1>2. batch[b] \in BatchRec /\ batch[b].prov # "none"
  BY DEF ProviderEnds, Facts, Shapes
<1> DEFINE result == {<<a, r[a]>> : a \in batch[b].agents}
           p == [batch[b] EXCEPT !.prov = "ended"]
           q == [p EXCEPT !.result = result]
<1>3. result \in SUBSET (Agent \X Ended)
  <2>1. possible \subseteq Ended /\ batch[b].agents \subseteq Agent
    BY <1>2, BatchAssumption DEF Ended, BatchRec
  <2> QED
    BY <2>1
<1>4. batch' = [batch EXCEPT ![b] = q]
  BY <1>1, <1>2 DEF Facts, Shapes
<1> HIDE DEF result
<1>5. /\ p \in BatchRec /\ p.row = batch[b].row /\ p.item = batch[b].item /\ p.prov = "ended"
      /\ p.job = batch[b].job /\ p.turn = batch[b].turn /\ p.agents = batch[b].agents
      /\ p.stepped = batch[b].stepped /\ p.ran = batch[b].ran /\ p.said = batch[b].said
  BY <1>2 DEF BatchRec
<1>m. p.mixed = batch[b].mixed
  BY <1>2 DEF BatchRec
<1> HIDE DEF p
<1>6. /\ q \in BatchRec /\ q.row = batch[b].row /\ q.item = batch[b].item /\ q.prov = "ended"
      /\ q.job = batch[b].job /\ q.turn = batch[b].turn /\ q.agents = batch[b].agents
      /\ q.stepped = batch[b].stepped /\ q.ran = batch[b].ran /\ q.said = batch[b].said
  BY <1>3, <1>5 DEF BatchRec
<1>n. q.mixed = batch[b].mixed
  BY <1>3, <1>5, <1>m DEF BatchRec
<1> HIDE DEF q
<1>7. /\ batch' \in [Batch -> BatchRec] /\ batch'[b] = q
      /\ \A c \in Batch \ {b} : batch'[c] = batch[c]
  BY <1>4, <1>6, BatchSet DEF Facts
<1> QED
  BY <1>2, <1>6, <1>7, <1>n DEF Answered

LEMMA ProviderFacts ==
  ASSUME Facts, NEW b \in Batch, ProviderEnds(b)
  PROVE  Facts'
<1>7. /\ batch[b].prov # "none"
      /\ batch' \in [Batch -> BatchRec]
      /\ \A c \in Batch \ {b} : batch'[c] = batch[c]
      /\ batch'[b].row = batch[b].row /\ batch'[b].item = batch[b].item /\ batch'[b].prov = "ended"
      /\ batch'[b].job = batch[b].job /\ batch'[b].turn = batch[b].turn
      /\ batch'[b].agents = batch[b].agents /\ batch'[b].stepped = batch[b].stepped
  BY ProviderEffect DEF Answered
<1>u. UNCHANGED <<job, poll, task, cancel, stuck, faults>>
  BY DEF ProviderEnds
<1>s. \A c \in Batch : Exists(c) => Quiet(c) /\ Stays(c)
  BY <1>7 DEF Exists, Quiet, Stays
<1>8. Shapes'
  BY <1>7, <1>u DEF Shapes, Facts
<1>9. BatchFacts'
  <2>1. /\ batch[b].job \in Job /\ batch[b].stepped \subseteq batch[b].agents
        /\ \A a \in Agent \ batch[b].agents : batch[b].item[a] = "none"
    BY <1>7 DEF Facts, BatchFacts, Exists
  <2>2. /\ batch'[b].prov # "none" /\ batch'[b].job \in Job
        /\ batch'[b].stepped \subseteq batch'[b].agents
        /\ \A a \in Agent \ batch'[b].agents : batch'[b].item[a] = "none"
    BY <1>7, <2>1
  <2> QED
    BY <1>7, <2>2, BatchFactsKept DEF Facts, Exists
<1>10. Listings'
  BY <1>s, <1>u, ListingsKept
<1>11. Resumptions' /\ Submissions'
  BY <1>s, <1>u, TasksUnchanged
<1> QED
  BY <1>8, <1>9, <1>10, <1>11 DEF Facts

-----------------------------------------------------------------------------
(* The polls.                                                               *)

LEMMA PollSet ==
  ASSUME Shapes, NEW s \in Server, NEW p \in PollRec, SetPoll(s, p)
  PROVE  /\ poll' \in [Server -> PollRec]
         /\ poll'[s] = p
         /\ \A t \in Server \ {s} : poll'[t] = poll[t]
  BY DEF Shapes, SetPoll

(* A step of a poll that only changes the poll.                             *)
LEMMA PollOnly ==
  ASSUME Facts, NEW s \in Server, NEW p \in PollRec, SetPoll(s, p),
         UNCHANGED <<job, batch, task, cancel>>,
         stuck' \in SUBSET Job,
         faults' \in [count : 0 .. MaxFaults, recycled : BOOLEAN],
         p.fetched \subseteq p.seen,
         \A b \in Batch : b \in p.seen => batch[b].row # "none"
  PROVE  Facts'
<1>1. /\ poll' \in [Server -> PollRec] /\ poll'[s] = p
      /\ \A t \in Server \ {s} : poll'[t] = poll[t]
  BY PollSet DEF Facts
<1>2. Shapes'
  BY <1>1 DEF Shapes, Facts
<1>3. BatchFacts' /\ \A b \in Batch : Exists(b) => Quiet(b) /\ Stays(b)
  BY BatchesUnchanged
<1>4. Listings'
  BY <1>1 DEF Listings, Facts
<1>5. Resumptions' /\ Submissions'
  BY <1>3, TasksUnchanged
<1> QED
  BY <1>2, <1>3, <1>4, <1>5 DEF Facts

LEMMA PollStartsFacts ==
  ASSUME Facts, NEW s \in Server, PollStarts(s)
  PROVE  Facts'
<1> DEFINE q == [NoPoll EXCEPT !.pc = "retrieve"]
           p == [q EXCEPT !.seen = Listed]
<1>1. Listed \subseteq Batch /\ \A b \in Listed : batch[b].row # "none"
  BY DEF Listed
<1>2. q \in PollRec /\ q.fetched = {}
  BY NoOthers DEF PollRec
<1>3. SetPoll(s, p)
  BY DEF PollStarts
<1> HIDE DEF q
<1>4. p \in PollRec /\ p.fetched = {} /\ p.seen = Listed
  BY <1>1, <1>2 DEF PollRec
<1> HIDE DEF p
<1>5. /\ UNCHANGED <<job, batch, task, cancel>>
      /\ stuck' \in SUBSET Job /\ faults' \in [count : 0 .. MaxFaults, recycled : BOOLEAN]
  BY DEF PollStarts, Facts, Shapes
<1> QED
  BY <1>1, <1>3, <1>4, <1>5, PollOnly

LEMMA RetrieveFacts ==
  ASSUME Facts, NEW s \in Server, NEW b \in Batch, Retrieve(s, b)
  PROVE  Facts'
<1>1. PICK st \in {"running", "completed", "cancelled"} :
        SetPoll(s, [poll[s] EXCEPT !.res[b] = st])
  BY DEF Retrieve, MapStatus
<1> DEFINE p == [poll[s] EXCEPT !.res[b] = st]
<1>2. poll[s] \in PollRec
  BY DEF Facts, Shapes
<1>3. p \in PollRec /\ p.fetched = poll[s].fetched /\ p.seen = poll[s].seen
  BY <1>2 DEF PollRec
<1>4. SetPoll(s, p)
  BY <1>1
<1> HIDE DEF p
<1>5. /\ UNCHANGED <<job, batch, task, cancel>>
      /\ stuck' \in SUBSET Job
  BY DEF Retrieve, Facts, Shapes
<1>6. faults' \in [count : 0 .. MaxFaults, recycled : BOOLEAN]
  <2>1. CASE Fault("retrieve")
    BY <2>1, FaultsTyped DEF Facts
  <2>2. CASE UNCHANGED faults
    BY <2>2 DEF Facts, Shapes
  <2> QED
    BY <2>1, <2>2 DEF Retrieve
<1> QED
  BY <1>3, <1>4, <1>5, <1>6, PollOnly DEF Facts, Listings

LEMMA SeenJobs ==
  ASSUME Facts, NEW s \in Server
  PROVE  /\ Completed(s) \subseteq poll[s].seen /\ poll[s].seen \subseteq Batch
         /\ \A b \in poll[s].seen : batch[b].job \in Job /\ batch[b].row # "none"
         /\ JobsOf(Completed(s)) \subseteq Job
         /\ JobsOf(Undone(s)) \subseteq Job
<1>1. poll[s].seen \subseteq Batch /\ Completed(s) \subseteq poll[s].seen
  BY DEF Facts, Shapes, PollRec, Completed
<1>2. \A b \in poll[s].seen : batch[b].job \in Job /\ batch[b].row # "none"
  BY <1>1, RowExists DEF Facts, Listings
<1> QED
  BY <1>1, <1>2 DEF JobsOf, Undone

LEMMA FetchFacts ==
  ASSUME Facts, NEW s \in Server, NEW b \in Batch, Fetch(s, b)
  PROVE  Facts'
<1>1. PICK part \in SUBSET batch[b].result :
        /\ \/ UNCHANGED <<faults, stuck>>
           \/ Fault("fetch") /\ stuck' = stuck \cup {batch[b].job}
        /\ SetPoll(s, [poll[s] EXCEPT !.fetched = @ \cup {b},
                                      !.got = @ \cup {<<b, x[1], x[2]>> : x \in part}])
  BY DEF Fetch
<1>2. poll[s] \in PollRec /\ b \in poll[s].seen /\ batch[b].job \in Job
  BY SeenJobs DEF Fetch, Facts, Shapes
<1> DEFINE more == {<<b, x[1], x[2]>> : x \in part}
           q == [poll[s] EXCEPT !.fetched = poll[s].fetched \cup {b}]
           p == [q EXCEPT !.got = poll[s].got \cup more]
<1>3. more \subseteq Batch \X Agent \X Ended
  <2>1. \A x \in part : x \in Agent \X Ended
    BY DEF Facts, Shapes, BatchRec
  <2>2. \A x \in part : x[1] \in Agent /\ x[2] \in Ended
    BY <2>1
  <2> QED
    BY <2>2
<1>4. SetPoll(s, p)
  BY <1>1, <1>2 DEF PollRec, SetPoll
<1> HIDE DEF more
<1>5. q \in PollRec /\ q.fetched = poll[s].fetched \cup {b} /\ q.seen = poll[s].seen
      /\ q.got = poll[s].got
  BY <1>2 DEF PollRec
<1> HIDE DEF q
<1>6. p \in PollRec /\ p.fetched = poll[s].fetched \cup {b} /\ p.seen = poll[s].seen
  BY <1>2, <1>3, <1>5 DEF PollRec
<1> HIDE DEF p
<1>7. /\ UNCHANGED <<job, batch, task, cancel>>
  BY DEF Fetch
<1>8. /\ stuck' \in SUBSET Job
      /\ faults' \in [count : 0 .. MaxFaults, recycled : BOOLEAN]
  BY <1>1, <1>2, FaultsTyped DEF Facts, Shapes
<1> QED
  BY <1>2, <1>4, <1>6, <1>7, <1>8, PollOnly DEF Facts, Listings

LEMMA PollEndsFacts ==
  ASSUME Facts, NEW s \in Server, PollEnds(s) \/ PollAborts(s)
  PROVE  Facts'
<1>1. /\ SetPoll(s, NoPoll) /\ UNCHANGED <<job, batch, task, cancel>>
      /\ stuck' \in SUBSET Job
  BY SeenJobs DEF PollEnds, PollAborts, Facts, Shapes
<1>2. faults' \in [count : 0 .. MaxFaults, recycled : BOOLEAN]
  BY FaultsTyped DEF PollEnds, PollAborts, Facts, Shapes
<1> QED
  BY <1>1, <1>2, NoOthers, PollOnly

(* The statuses a poll writes are those it retrieved.                       *)
LEMMA WriteStatusesEffect ==
  ASSUME Facts, NEW s \in Server, WriteStatuses(s)
  PROVE  /\ batch' \in [Batch -> BatchRec]
         /\ \A b \in Batch :
              /\ batch'[b].row = IF b \in poll[s].seen THEN poll[s].res[b] ELSE batch[b].row
              /\ b \in poll[s].seen => poll[s].res[b] \in {"running", "completed", "cancelled"}
              /\ batch'[b].prov = batch[b].prov /\ batch'[b].job = batch[b].job
              /\ batch'[b].turn = batch[b].turn /\ batch'[b].agents = batch[b].agents
              /\ batch'[b].stepped = batch[b].stepped /\ batch'[b].item = batch[b].item
              /\ batch'[b].ran = batch[b].ran /\ batch'[b].said = batch[b].said
              /\ batch'[b].mixed = batch[b].mixed
              /\ b \notin poll[s].seen => batch'[b] = batch[b]
<1>1. batch' = [b \in Batch |->
        IF b \in poll[s].seen THEN [batch[b] EXCEPT !.row = poll[s].res[b]] ELSE batch[b]]
  BY DEF WriteStatuses
<1> SUFFICES ASSUME NEW b \in Batch
             PROVE  /\ batch'[b] \in BatchRec
                    /\ batch'[b].row = IF b \in poll[s].seen THEN poll[s].res[b] ELSE batch[b].row
                    /\ b \in poll[s].seen => poll[s].res[b] \in {"running", "completed", "cancelled"}
                    /\ batch'[b].prov = batch[b].prov /\ batch'[b].job = batch[b].job
                    /\ batch'[b].turn = batch[b].turn /\ batch'[b].agents = batch[b].agents
                    /\ batch'[b].stepped = batch[b].stepped /\ batch'[b].item = batch[b].item
                    /\ batch'[b].ran = batch[b].ran /\ batch'[b].said = batch[b].said
                    /\ batch'[b].mixed = batch[b].mixed
                    /\ b \notin poll[s].seen => batch'[b] = batch[b]
  BY <1>1
<1>2. batch[b] \in BatchRec
  BY DEF Facts, Shapes
<1>3. CASE b \in poll[s].seen
  <2>1. poll[s].res[b] \in {"running", "completed", "cancelled"}
    BY <1>3 DEF WriteStatuses, Facts, Shapes, PollRec
  <2>2. batch'[b] = [batch[b] EXCEPT !.row = poll[s].res[b]]
    BY <1>1, <1>3
  <2> QED
    BY <1>2, <1>3, <2>1, <2>2 DEF BatchRec, RowStatus
<1>4. CASE b \notin poll[s].seen
  BY <1>1, <1>2, <1>4
<1> QED
  BY <1>3, <1>4

LEMMA WriteStatusesFacts ==
  ASSUME Facts, NEW s \in Server, WriteStatuses(s)
  PROVE  Facts'
<1>1. /\ batch' \in [Batch -> BatchRec]
      /\ \A b \in Batch :
           /\ batch'[b].row = IF b \in poll[s].seen THEN poll[s].res[b] ELSE batch[b].row
           /\ b \in poll[s].seen => poll[s].res[b] # "none"
           /\ batch'[b].prov = batch[b].prov /\ batch'[b].job = batch[b].job
           /\ batch'[b].turn = batch[b].turn /\ batch'[b].agents = batch[b].agents
           /\ batch'[b].stepped = batch[b].stepped /\ batch'[b].item = batch[b].item
           /\ b \notin poll[s].seen => batch'[b] = batch[b]
  BY WriteStatusesEffect
<1>2. \A b \in poll[s].seen : Exists(b) /\ batch[b].row # "none" /\ b \in Batch
  BY SeenJobs, RowExists
<1>u. UNCHANGED <<job, task, cancel, stuck, faults>>
  BY DEF WriteStatuses
<1>s. \A b \in Batch : Exists(b) => Quiet(b) /\ Stays(b)
  BY <1>1, <1>2 DEF Exists, Quiet, Stays
<1>3. \E p \in PollRec : SetPoll(s, p) /\ p.fetched \subseteq p.seen /\ p.seen \subseteq poll[s].seen
  <2>1. CASE Completed(s) = {}
    BY <2>1, NoOthers DEF WriteStatuses
  <2>2. CASE Completed(s) # {}
    <3> DEFINE p == [poll[s] EXCEPT !.pc = "fetch"]
    <3>1. p \in PollRec /\ p.fetched = poll[s].fetched /\ p.seen = poll[s].seen
      <4>1. poll[s] \in PollRec
        BY DEF Facts, Shapes
      <4> QED
        BY <4>1 DEF PollRec
    <3>2. SetPoll(s, p)
      BY <2>2 DEF WriteStatuses
    <3> HIDE DEF p
    <3> QED
      BY <3>1, <3>2 DEF Facts, Listings
  <2> QED
    BY <2>1, <2>2
<1>4. PICK p \in PollRec : SetPoll(s, p) /\ p.fetched \subseteq p.seen /\ p.seen \subseteq poll[s].seen
  BY <1>3
<1>5. /\ poll' \in [Server -> PollRec] /\ poll'[s] = p
      /\ \A t \in Server \ {s} : poll'[t] = poll[t]
  BY <1>4, PollSet DEF Facts
<1>6. Shapes'
  BY <1>1, <1>5, <1>u DEF Shapes, Facts
<1>7. BatchFacts'
  <2> SUFFICES ASSUME NEW b \in Batch
               PROVE  /\ Exists(b)' => batch'[b].job \in Job
                      /\ ~Exists(b)' => batch'[b] = NoBatch
                      /\ \A a \in Agent \ batch'[b].agents : batch'[b].item[a] = "none"
                      /\ batch'[b].stepped \subseteq batch'[b].agents
    BY DEF BatchFacts
  <2> QED
    BY <1>1, <1>2 DEF Facts, BatchFacts, Exists
<1>8. Listings'
  <2>1. \A b \in Batch : batch[b].row # "none" => batch'[b].row # "none"
    BY <1>s, RowExists DEF Stays
  <2> QED
    BY <1>4, <1>5, <1>u, <2>1 DEF Listings, Facts
<1>9. Resumptions' /\ Submissions'
  BY <1>s, <1>u, TasksUnchanged
<1> QED
  BY <1>6, <1>7, <1>8, <1>9 DEF Facts

(* Once there are results the items get them and the batches are resumed;   *)
(* only the items change, to an end, and only those that were there.        *)
Applied(s) ==
  /\ \A b \in Batch : \E item \in [Agent -> ItemStatus] :
       /\ batch'[b] = [batch[b] EXCEPT !.item = item]
       /\ \A a \in Agent : batch[b].item[a] = "none" <=> item[a] = "none"
  /\ batch' = [b \in Batch |-> batch'[b]]
  /\ task' \in [Server -> [Work -> TaskRec]]
  /\ \A b \in Completed(s) : task'[s][b] = [NoTask EXCEPT !.pc = "collect"]
  /\ \A t \in Server, w \in Work : t # s \/ w \notin Completed(s) => task'[t][w] = task[t][w]
  /\ SetPoll(s, [poll[s] EXCEPT !.pc = "resume"])
  /\ UNCHANGED stuck

GivesUp(s) ==
  /\ SetPoll(s, NoPoll)
  /\ stuck' = stuck \cup JobsOf(Completed(s))
  /\ UNCHANGED <<batch, task>>

LEMMA ApplyItemsEffect ==
  ASSUME Facts, NEW s \in Server, ApplyItems(s)
  PROVE  Applied(s) \/ GivesUp(s)
<1>1. CASE poll[s].got = {} \/ Unknown(poll[s].got) # {}
  BY <1>1 DEF ApplyItems, GivesUp
<1>2. CASE ~(poll[s].got = {} \/ Unknown(poll[s].got) # {})
  <2> DEFINE got == poll[s].got
             Res(b, a) == CHOOSE g \in got : g[1] = b /\ g[2] = a
             Item(b) == [a \in Agent |->
                IF \E g \in got : g[1] = b /\ g[2] = a THEN Res(b, a)[3] ELSE batch[b].item[a]]
  <2>1. /\ batch' = [b \in Batch |-> [batch[b] EXCEPT !.item = Item(b)]]
        /\ task' = [task EXCEPT ![s] =
               [w \in Work |-> IF w \in Completed(s) THEN [NoTask EXCEPT !.pc = "collect"]
                               ELSE task[s][w]]]
        /\ SetPoll(s, [poll[s] EXCEPT !.pc = "resume"])
        /\ UNCHANGED stuck
    BY <1>2 DEF ApplyItems
  <2>2. got \subseteq Batch \X Agent \X Ended /\ \A b \in Batch : batch[b].item \in [Agent -> ItemStatus]
    BY DEF Facts, Shapes, PollRec, BatchRec
  <2>3. \A g \in got : batch[g[1]].item[g[2]] # "none"
    BY <1>2 DEF Unknown
  <2>4. ASSUME NEW b \in Batch, NEW a \in Agent
        PROVE  /\ Item(b)[a] \in ItemStatus
               /\ batch[b].item[a] = "none" <=> Item(b)[a] = "none"
    <3>1. CASE \E g \in got : g[1] = b /\ g[2] = a
      <4>1. Res(b, a) \in got /\ Res(b, a)[1] = b /\ Res(b, a)[2] = a
        BY <3>1
      <4> HIDE DEF Res
      <4>2. Item(b)[a] = Res(b, a)[3]
        BY <3>1
      <4>3. Res(b, a)[3] \in Ended
        BY <2>2, <4>1
      <4>4. batch[b].item[a] # "none"
        BY <2>3, <4>1
      <4> QED
        BY <4>2, <4>3, <4>4 DEF Ended, ItemStatus
    <3>2. CASE ~\E g \in got : g[1] = b /\ g[2] = a
      <4> HIDE DEF Res
      <4>1. Item(b)[a] = batch[b].item[a]
        BY <3>2
      <4> HIDE DEF Item
      <4> QED
        BY <2>2, <4>1
    <3> QED
      BY <3>1, <3>2
  <2>5. \A b \in Batch : Item(b) \in [Agent -> ItemStatus]
    BY <2>4
  <2> HIDE DEF Item
  <2>6. \A b \in Batch : batch'[b] = [batch[b] EXCEPT !.item = Item(b)]
    BY <2>1
  <2>7. /\ \A b \in Batch : \E item \in [Agent -> ItemStatus] :
             /\ batch'[b] = [batch[b] EXCEPT !.item = item]
             /\ \A a \in Agent : batch[b].item[a] = "none" <=> item[a] = "none"
        /\ batch' = [b \in Batch |-> batch'[b]]
    <3>1. ASSUME NEW b \in Batch
          PROVE  \E item \in [Agent -> ItemStatus] :
                   /\ batch'[b] = [batch[b] EXCEPT !.item = item]
                   /\ \A a \in Agent : batch[b].item[a] = "none" <=> item[a] = "none"
      <4>1. \A a \in Agent : batch[b].item[a] = "none" <=> Item(b)[a] = "none"
        BY <2>4
      <4>2. Item(b) \in [Agent -> ItemStatus] /\ batch'[b] = [batch[b] EXCEPT !.item = Item(b)]
        BY <2>5, <2>6
      <4> QED
        BY <4>1, <4>2
    <3>2. batch' = [b \in Batch |-> batch'[b]]
      BY <2>1
    <3> QED
      BY <3>1, <3>2
  <2>8. /\ task' \in [Server -> [Work -> TaskRec]]
        /\ \A b \in Completed(s) : task'[s][b] = [NoTask EXCEPT !.pc = "collect"]
        /\ \A t \in Server, w \in Work : t # s \/ w \notin Completed(s) => task'[t][w] = task[t][w]
    <3> DEFINE c == [NoTask EXCEPT !.pc = "collect"]
               m == [w \in Work |-> IF w \in Completed(s) THEN c ELSE task[s][w]]
    <3>1. c \in TaskRec
      BY NoOthers DEF TaskRec, Resuming
    <3>2. task' = [task EXCEPT ![s] = m]
      BY <2>1
    <3> HIDE DEF c
    <3>3. task \in [Server -> [Work -> TaskRec]] /\ Completed(s) \subseteq Work
      BY SeenJobs, WorkKinds DEF Facts, Shapes
    <3>4. m \in [Work -> TaskRec] /\ \A w \in Work : m[w] = IF w \in Completed(s) THEN c ELSE task[s][w]
      BY <3>1, <3>3
    <3> HIDE DEF m
    <3>5. \A b \in Completed(s) : task'[s][b] = c
      BY <3>2, <3>3, <3>4
    <3>6. \A t \in Server, w \in Work : t # s \/ w \notin Completed(s) => task'[t][w] = task[t][w]
      BY <3>2, <3>3, <3>4
    <3> QED
      BY <3>2, <3>3, <3>4, <3>5, <3>6 DEF c
  <2> QED
    BY <2>1, <2>7, <2>8 DEF Applied
<1> QED
  BY <1>1, <1>2

LEMMA ApplyItemsFacts ==
  ASSUME Facts, NEW s \in Server, ApplyItems(s)
  PROVE  Facts'
<1>u. UNCHANGED <<job, cancel, faults>>
  BY DEF ApplyItems
<1>1. CASE GivesUp(s)
  <2>1. stuck' \in SUBSET Job
    BY <1>1, SeenJobs DEF GivesUp, Facts, Shapes
  <2>2. faults' \in [count : 0 .. MaxFaults, recycled : BOOLEAN]
    BY <1>u DEF Facts, Shapes
  <2> QED
    BY <1>1, <1>u, <2>1, <2>2, NoOthers, PollOnly DEF GivesUp
<1>2. CASE Applied(s)
  <2> DEFINE p == [poll[s] EXCEPT !.pc = "resume"]
  <2>1. p \in PollRec /\ p.fetched = poll[s].fetched /\ p.seen = poll[s].seen
    <3>1. poll[s] \in PollRec
      BY DEF Facts, Shapes
    <3> QED
      BY <3>1 DEF PollRec
  <2>2. SetPoll(s, p)
    BY <1>2 DEF Applied
  <2> HIDE DEF p
  <2>3. /\ poll' \in [Server -> PollRec] /\ poll'[s] = p
        /\ \A t \in Server \ {s} : poll'[t] = poll[t]
    BY <2>1, <2>2, PollSet DEF Facts
  <2>4. ASSUME NEW b \in Batch
        PROVE  /\ batch'[b] \in BatchRec
               /\ batch'[b].row = batch[b].row /\ batch'[b].prov = batch[b].prov
               /\ batch'[b].job = batch[b].job /\ batch'[b].turn = batch[b].turn
               /\ batch'[b].agents = batch[b].agents /\ batch'[b].stepped = batch[b].stepped
               /\ \A a \in Agent : batch[b].item[a] = "none" <=> batch'[b].item[a] = "none"
               /\ (\A a \in Agent : batch[b].item[a] = "none") => batch'[b] = batch[b]
    <3>1. PICK item \in [Agent -> ItemStatus] :
             /\ batch'[b] = [batch[b] EXCEPT !.item = item]
             /\ \A a \in Agent : batch[b].item[a] = "none" <=> item[a] = "none"
      BY <1>2 DEF Applied
    <3>2. batch[b] \in BatchRec
      BY DEF Facts, Shapes
    <3>3. /\ batch'[b] \in BatchRec
          /\ batch'[b].row = batch[b].row /\ batch'[b].prov = batch[b].prov
          /\ batch'[b].job = batch[b].job /\ batch'[b].turn = batch[b].turn
          /\ batch'[b].agents = batch[b].agents /\ batch'[b].stepped = batch[b].stepped
          /\ batch'[b].item = item
      BY <3>1, <3>2 DEF BatchRec
    <3>4. ASSUME \A a \in Agent : batch[b].item[a] = "none"
          PROVE  batch'[b] = batch[b]
      <4>1. item = batch[b].item
        BY <3>1, <3>2, <3>4 DEF BatchRec
      <4> QED
        BY <3>1, <3>2, <4>1 DEF BatchRec
    <3> QED
      BY <3>1, <3>3, <3>4
  <2>s. \A b \in Batch : Exists(b) => Stays(b)
    BY <2>4 DEF Exists, Stays
  <2>t. /\ task' \in [Server -> [Work -> TaskRec]]
        /\ \A b \in Completed(s) : task'[s][b] = [NoTask EXCEPT !.pc = "collect"]
        /\ \A t \in Server, w \in Work : t # s \/ w \notin Completed(s) => task'[t][w] = task[t][w]
        /\ UNCHANGED stuck
    BY <1>2 DEF Applied
  <2>d. batch' = [b \in Batch |-> batch'[b]]
    BY <1>2 DEF Applied
  <2>c. LET c == [NoTask EXCEPT !.pc = "collect"] IN
          c.pc = "collect" /\ c.agents = {} /\ c.cont = {}
    BY DEF NoTask
  <2>5. Shapes'
    <3>1. batch' \in [Batch -> BatchRec]
      BY <2>4, <2>d
    <3> QED
      BY <1>u, <2>3, <2>t, <3>1 DEF Shapes, Facts
  <2>6. BatchFacts'
    <3> SUFFICES ASSUME NEW b \in Batch
                 PROVE  /\ Exists(b)' => batch'[b].job \in Job
                        /\ ~Exists(b)' => batch'[b] = NoBatch
                        /\ \A a \in Agent \ batch'[b].agents : batch'[b].item[a] = "none"
                        /\ batch'[b].stepped \subseteq batch'[b].agents
      BY DEF BatchFacts
    <3>1. ~Exists(b) => \A a \in Agent : batch[b].item[a] = "none"
      BY NoBatchIs DEF Facts, BatchFacts
    <3> QED
      BY <2>4, <3>1 DEF Facts, BatchFacts, Exists
  <2>7. Listings'
    BY <2>1, <2>3, <2>4, <1>u DEF Listings, Facts
  <2>8. Resumptions'
    <3> SUFFICES ASSUME NEW t \in Server, NEW c \in Batch, task'[t][c].pc # "none"
                 PROVE  /\ batch'[c].row # "none"
                        /\ task'[t][c].agents \subseteq batch'[c].agents
                        /\ task'[t][c].cont # {} => batch'[c].turn < MaxSteps
                        /\ task'[t][c].pc = "send" => task'[t][c].cont # {}
      BY DEF Resumptions
    <3>1. CASE t = s /\ c \in Completed(s)
      <4>1. batch[c].row # "none"
        BY <3>1, SeenJobs
      <4> QED
        BY <2>4, <2>t, <2>c, <3>1, <4>1
    <3>2. CASE t # s \/ c \notin Completed(s)
      BY <2>4, <2>t, <3>2, WorkKinds DEF Resumptions, Facts
    <3> QED
      BY <3>1, <3>2
  <2>9. Submissions'
    <3>1. \A w \in Work, t \in Server : task'[t][w] = task[t][w] \/ (w \in Batch /\ task'[t][w].pc = "collect")
      BY <2>t, <2>c, SeenJobs
    <3>2. \A t \in Server, j \in Job : task'[t][j].pc \in {"none"} \cup Submitting
      BY <3>1, WorkKinds DEF Submissions, Facts
    <3>3. \A t \in Server, v \in Work : Owns(t, v)' => Owns(t, v) /\ task'[t][v] = task[t][v]
      BY <3>1 DEF Owns
    <3>4. \A t \in Server, v \in Work : Owns(t, v) => batch'[task[t][v].new] = batch[task[t][v].new]
      BY <2>4 DEF Submissions, Facts
    <3>5. \A t \in Server, v \in Work : Owns(t, v)' =>
            LET m == task[t][v].new IN
              /\ Owns(t, v) /\ task'[t][v].new = m
              /\ v \in Batch => Exists(v)
              /\ task'[t][v].pc = "row" => batch'[m].row = "none"
              /\ batch'[m].item = batch[m].item
      BY <3>3, <3>4, OwnerExists DEF Submissions, Facts, Owns
    <3> QED
      BY <2>s, <3>2, <3>5, SubmissionsKept DEF Facts
  <2> QED
    BY <2>5, <2>6, <2>7, <2>8, <2>9 DEF Facts
<1> QED
  BY <1>1, <1>2, ApplyItemsEffect

-----------------------------------------------------------------------------
(* The steps of a resumption change one batch, none of what the other facts *)
(* are about, and one task.                                                 *)

Resumed(s, b, r) ==
  /\ r \in BatchRec
  /\ r.row = batch[b].row /\ r.prov = batch[b].prov /\ r.job = batch[b].job
  /\ r.turn = batch[b].turn /\ r.agents = batch[b].agents /\ r.item = batch[b].item
  /\ batch' \in [Batch -> BatchRec]
  /\ batch'[b] = r
  /\ \A c \in Batch \ {b} : batch'[c] = batch[c]

LEMMA CollectEffect ==
  ASSUME Facts, NEW s \in Server, NEW b \in Batch, Collect(s, b)
  PROVE  /\ task' \in [Server -> [Work -> TaskRec]]
         /\ \A u \in Server, v \in Work : (u # s \/ v # b) => task'[u][v] = task[u][v]
         /\ \/ task'[s][b].pc = "none" /\ batch' = batch /\ stuck' = stuck \cup {batch[b].job}
            \/ /\ stuck' = stuck
               /\ task'[s][b].pc = "exec"
               /\ task'[s][b].agents # {}
               /\ \A a \in task'[s][b].agents : a \in Agent /\ batch[b].item[a] = "completed"
               /\ task'[s][b].cont \subseteq task'[s][b].agents
               /\ task'[s][b].rethink \subseteq task'[s][b].agents
               /\ task'[s][b].cont # {} => batch[b].turn < MaxSteps
               /\ Resumed(s, b, batch'[b])
               /\ batch'[b].ran = batch[b].ran /\ batch'[b].said = batch[b].said
               /\ batch'[b].stepped = batch[b].stepped
               /\ batch[b].mixed => batch'[b].mixed
               /\ ~batch'[b].mixed => task'[s][b].rethink \in {{}, task'[s][b].agents}
<1> DEFINE done == {a \in Agent : batch[b].item[a] = "completed"}
<1>0. b \in Work /\ batch[b] \in BatchRec
  BY WorkKinds DEF Facts, Shapes
<1>1. CASE done = {}
  <2>1. DropTask(s, b) /\ batch' = batch /\ stuck' = stuck \cup {batch[b].job}
    BY <1>1 DEF Collect
  <2> QED
    BY <1>0, <2>1, TaskDropped DEF Facts
<1>2. CASE done # {}
  <2>1. PICK cont \in SUBSET (IF MayContinue(b) THEN done ELSE {}),
             rethink \in SUBSET (IF RethinkMay THEN done ELSE {}) :
               /\ SetTask(s, b, [pc |-> "exec", agents |-> done, cont |-> cont,
                                 rethink |-> rethink, new |-> 0])
               /\ batch' = [batch EXCEPT ![b].mixed = @ \/ rethink \notin {{}, done}]
               /\ UNCHANGED stuck
    BY <1>2 DEF Collect
  <2> DEFINE t == [pc |-> "exec", agents |-> done, cont |-> cont, rethink |-> rethink, new |-> 0]
             m == batch[b].mixed \/ rethink \notin {{}, done}
             r == [batch[b] EXCEPT !.mixed = m]
  <2>2. done \subseteq Agent /\ cont \subseteq done /\ rethink \subseteq done
        /\ (cont # {} => MayContinue(b))
    OBVIOUS
  <2>3. \A a \in done : a \in Agent /\ batch[b].item[a] = "completed"
    OBVIOUS
  <2>4. batch' = [batch EXCEPT ![b] = r]
    BY <2>1 DEF Facts, Shapes
  <2>5. m \in BOOLEAN /\ (batch[b].mixed => m) /\ (~m => rethink \in {{}, done})
    OBVIOUS
  <2> HIDE DEF done
  <2>6. t \in TaskRec
    BY <2>2, BatchAssumption DEF TaskRec, Resuming
  <2>7. t.pc = "exec" /\ t.agents = done /\ t.cont = cont /\ t.rethink = rethink
    OBVIOUS
  <2> HIDE DEF t, m
  <2>8. /\ task' \in [Server -> [Work -> TaskRec]] /\ task'[s][b] = t
        /\ \A u \in Server, v \in Work : (u # s \/ v # b) => task'[u][v] = task[u][v]
    <3>1. SetTask(s, b, t)
      BY <2>1 DEF t
    <3> QED
      BY <1>0, <2>6, <3>1, TaskSet DEF Facts
  <2>9. /\ r \in BatchRec
        /\ r.row = batch[b].row /\ r.prov = batch[b].prov /\ r.job = batch[b].job
        /\ r.turn = batch[b].turn /\ r.agents = batch[b].agents /\ r.item = batch[b].item
        /\ r.ran = batch[b].ran /\ r.said = batch[b].said /\ r.stepped = batch[b].stepped
    BY <1>0, <2>5 DEF BatchRec
  <2>10. r.mixed = m
    BY <1>0, <2>5 DEF BatchRec
  <2> HIDE DEF r
  <2>11. /\ batch' \in [Batch -> BatchRec] /\ batch'[b] = r
         /\ \A c \in Batch \ {b} : batch'[c] = batch[c]
    BY <2>4, <2>9, BatchSet DEF Facts
  <2>12. Resumed(s, b, batch'[b])
    BY <2>9, <2>11 DEF Resumed
  <2>13. /\ batch[b].mixed => batch'[b].mixed
         /\ ~batch'[b].mixed => task'[s][b].rethink \in {{}, task'[s][b].agents}
    BY <2>5, <2>7, <2>8, <2>10, <2>11
  <2>14. task'[s][b].cont # {} => batch[b].turn < MaxSteps
    BY <2>2, <2>7, <2>8 DEF MayContinue
  <2> QED
    BY <1>2, <2>1, <2>2, <2>3, <2>7, <2>8, <2>9, <2>11, <2>12, <2>13, <2>14
<1> QED
  BY <1>1, <1>2

LEMMA ExecEffect ==
  ASSUME Facts, NEW s \in Server, NEW b \in Batch, ExecTools(s, b)
  PROVE  /\ Resumed(s, b, batch'[b])
         /\ batch'[b].said = batch[b].said
         /\ batch'[b].stepped = batch[b].stepped /\ batch'[b].mixed = batch[b].mixed
         /\ \A a \in Agent : batch'[b].ran[a] =
              IF a \in Executed(task[s][b]) THEN batch[b].ran[a] + 1 ELSE batch[b].ran[a]
         /\ Step(s, b, "persist")
<1> DEFINE ran == [a \in Agent |-> IF a \in Executed(task[s][b]) THEN batch[b].ran[a] + 1
                                   ELSE batch[b].ran[a]]
           r == [batch[b] EXCEPT !.ran = ran]
<1>0. batch[b] \in BatchRec
  BY DEF Facts, Shapes
<1>1. batch' = [batch EXCEPT ![b] = r] /\ Step(s, b, "persist")
  BY DEF ExecTools, Facts, Shapes
<1>2. ran \in [Agent -> Nat]
  BY <1>0 DEF BatchRec
<1>3. \A a \in Agent : ran[a] = IF a \in Executed(task[s][b]) THEN batch[b].ran[a] + 1
                                ELSE batch[b].ran[a]
  OBVIOUS
<1> HIDE DEF ran
<1>4. /\ r \in BatchRec
      /\ r.row = batch[b].row /\ r.prov = batch[b].prov /\ r.job = batch[b].job
      /\ r.turn = batch[b].turn /\ r.agents = batch[b].agents /\ r.item = batch[b].item
      /\ r.ran = ran /\ r.said = batch[b].said /\ r.stepped = batch[b].stepped
  BY <1>0, <1>2 DEF BatchRec
<1>5. r.mixed = batch[b].mixed
  BY <1>0, <1>2 DEF BatchRec
<1> HIDE DEF r
<1>6. /\ batch' \in [Batch -> BatchRec] /\ batch'[b] = r
      /\ \A c \in Batch \ {b} : batch'[c] = batch[c]
  BY <1>1, <1>4, BatchSet DEF Facts
<1> QED
  BY <1>1, <1>3, <1>4, <1>5, <1>6 DEF Resumed

LEMMA PersistEffect ==
  ASSUME Facts, NEW s \in Server, NEW b \in Batch, Persist(s, b)
  PROVE  /\ Resumed(s, b, batch'[b])
         /\ batch'[b].said = batch[b].said \cup (Executed(task[s][b]) \cap Agent)
         /\ batch'[b].ran = batch[b].ran
         /\ batch'[b].stepped = batch[b].stepped /\ batch'[b].mixed = batch[b].mixed
         /\ Step(s, b, "mark")
<1> DEFINE said == batch[b].said \cup Executed(task[s][b])
           r == [batch[b] EXCEPT !.said = said]
<1>0. batch[b] \in BatchRec /\ Executed(task[s][b]) \subseteq Agent
  <2>1. batch[b] \in BatchRec /\ task[s][b] \in TaskRec
    BY WorkKinds DEF Facts, Shapes
  <2> QED
    BY <2>1 DEF Executed, TaskRec
<1>1. batch' = [batch EXCEPT ![b] = r] /\ Step(s, b, "mark")
  BY DEF Persist, Facts, Shapes
<1>2. said \in SUBSET Agent /\ said = batch[b].said \cup (Executed(task[s][b]) \cap Agent)
  BY <1>0 DEF BatchRec
<1> HIDE DEF said
<1>4. /\ r \in BatchRec
      /\ r.row = batch[b].row /\ r.prov = batch[b].prov /\ r.job = batch[b].job
      /\ r.turn = batch[b].turn /\ r.agents = batch[b].agents /\ r.item = batch[b].item
      /\ r.ran = batch[b].ran /\ r.said = said /\ r.stepped = batch[b].stepped
  BY <1>0, <1>2 DEF BatchRec
<1>5. r.mixed = batch[b].mixed
  BY <1>0, <1>2 DEF BatchRec
<1> HIDE DEF r
<1>6. /\ batch' \in [Batch -> BatchRec] /\ batch'[b] = r
      /\ \A c \in Batch \ {b} : batch'[c] = batch[c]
  BY <1>1, <1>4, BatchSet DEF Facts
<1> QED
  BY <1>1, <1>2, <1>4, <1>5, <1>6 DEF Resumed

LEMMA MarkEffect ==
  ASSUME Facts, NEW s \in Server, NEW b \in Batch, MarkSteps(s, b)
  PROVE  /\ Resumed(s, b, batch'[b])
         /\ batch'[b].stepped = batch[b].stepped \cup task[s][b].agents
         /\ batch'[b].ran = batch[b].ran /\ batch'[b].said = batch[b].said
         /\ batch'[b].mixed = batch[b].mixed
         /\ Step(s, b, "next")
<1> DEFINE stepped == batch[b].stepped \cup task[s][b].agents
           r == [batch[b] EXCEPT !.stepped = stepped]
<1>0. batch[b] \in BatchRec /\ task[s][b].agents \subseteq Agent
  <2>1. batch[b] \in BatchRec /\ task[s][b] \in TaskRec
    BY WorkKinds DEF Facts, Shapes
  <2> QED
    BY <2>1 DEF TaskRec
<1>1. batch' = [batch EXCEPT ![b] = r] /\ Step(s, b, "next")
  BY DEF MarkSteps, Facts, Shapes
<1>2. stepped \in SUBSET Agent
  BY <1>0 DEF BatchRec
<1>3. stepped = batch[b].stepped \cup task[s][b].agents
  OBVIOUS
<1> HIDE DEF stepped
<1>4. /\ r \in BatchRec
      /\ r.row = batch[b].row /\ r.prov = batch[b].prov /\ r.job = batch[b].job
      /\ r.turn = batch[b].turn /\ r.agents = batch[b].agents /\ r.item = batch[b].item
      /\ r.ran = batch[b].ran /\ r.said = batch[b].said /\ r.stepped = stepped
  BY <1>0, <1>2 DEF BatchRec
<1>5. r.mixed = batch[b].mixed
  BY <1>0, <1>2 DEF BatchRec
<1> HIDE DEF r
<1>6. /\ batch' \in [Batch -> BatchRec] /\ batch'[b] = r
      /\ \A c \in Batch \ {b} : batch'[c] = batch[c]
  BY <1>1, <1>4, BatchSet DEF Facts
<1> QED
  BY <1>1, <1>3, <1>4, <1>5, <1>6 DEF Resumed

(* A resumption step that leaves its task to itself.                        *)
LEMMA ResumedFacts ==
  ASSUME Facts, NEW s \in Server, NEW b \in Batch, 
         task[s][b].pc # "none", Resumed(s, b, batch'[b]),
         batch'[b].stepped \subseteq batch[b].agents,
         UNCHANGED <<job, poll, cancel, stuck, faults>>,
         task' \in [Server -> [Work -> TaskRec]],
         \A u \in Server, v \in Work : (u # s \/ v # b) => task'[u][v] = task[u][v],
         task'[s][b].pc \in Resuming,
         task'[s][b].agents \subseteq batch[b].agents,
         task'[s][b].cont # {} => batch[b].turn < MaxSteps
  PROVE  Facts'
<1>1. batch[b].row # "none" /\ Exists(b) /\ batch[b].job \in Job
  BY RowExists DEF Facts, Resumptions
<1>2. /\ batch' \in [Batch -> BatchRec]
      /\ \A c \in Batch \ {b} : batch'[c] = batch[c]
      /\ batch'[b].row = batch[b].row /\ batch'[b].prov = batch[b].prov
      /\ batch'[b].job = batch[b].job /\ batch'[b].turn = batch[b].turn
      /\ batch'[b].agents = batch[b].agents /\ batch'[b].item = batch[b].item
  BY DEF Resumed
<1>s. \A c \in Batch : Exists(c) => Quiet(c) /\ Stays(c)
  BY <1>2 DEF Exists, Quiet, Stays
<1>3. Shapes'
  BY <1>2 DEF Shapes, Facts
<1>4. BatchFacts'
  <2>1. \A a \in Agent \ batch[b].agents : batch[b].item[a] = "none"
    BY DEF Facts, BatchFacts
  <2>2. /\ batch'[b].prov # "none" /\ batch'[b].job \in Job
        /\ batch'[b].stepped \subseteq batch'[b].agents
        /\ \A a \in Agent \ batch'[b].agents : batch'[b].item[a] = "none"
    BY <1>1, <1>2, <2>1 DEF Exists
  <2> QED
    BY <1>2, <2>2, BatchFactsKept DEF Facts, Exists
<1>5. Listings'
  BY <1>s, ListingsKept
<1>6. Resumptions' /\ Submissions'
  BY <1>s, TaskMoved DEF Resuming
<1> QED
  BY <1>3, <1>4, <1>5, <1>6 DEF Facts

(* One that ends or goes on to submit leaves the batches alone.             *)
LEMMA ResumeLeaves ==
  ASSUME Facts, NEW s \in Server, NEW b \in Batch, 
         task[s][b].pc # "none",
         UNCHANGED <<batch, poll, cancel, faults>>,
         job' \in [Job -> {"none", "running", "completed", "failed", "cancelled"}],
         stuck' = stuck \/ stuck' = stuck \cup {batch[b].job},
         task' \in [Server -> [Work -> TaskRec]],
         \A u \in Server, v \in Work : (u # s \/ v # b) => task'[u][v] = task[u][v],
         \/ task'[s][b].pc = "none"
         \/ /\ task'[s][b].pc = "send" /\ task'[s][b].agents = task[s][b].agents
            /\ task'[s][b].cont = task[s][b].cont /\ task[s][b].cont # {}
  PROVE  Facts'
<1>1. batch[b].job \in Job
  BY RowExists DEF Facts, Resumptions
<1>2. Shapes'
  BY <1>1 DEF Shapes, Facts
<1>3. BatchFacts' /\ \A c \in Batch : Exists(c) => Quiet(c) /\ Stays(c)
  BY BatchesUnchanged
<1>4. Listings'
  BY <1>3, ListingsKept
<1>5. task'[s][b].pc # "none" =>
        /\ task'[s][b].agents \subseteq batch[b].agents
        /\ task'[s][b].cont # {} => batch[b].turn < MaxSteps
        /\ task'[s][b].pc = "send" => task'[s][b].cont # {}
  BY DEF Facts, Resumptions
<1>6. Resumptions' /\ Submissions'
  BY <1>3, <1>5, TaskMoved
<1> QED
  BY <1>2, <1>3, <1>4, <1>6 DEF Facts

LEMMA ResumeFacts ==
  ASSUME Facts, NEW s \in Server, NEW b \in Batch, Resume(s, b)
  PROVE  Facts'
<1>0. /\ b \in Work /\ task[s][b].pc # "none"
      /\ task[s][b].agents \subseteq batch[b].agents
      /\ batch[b].stepped \subseteq batch[b].agents
      /\ task[s][b].cont # {} => batch[b].turn < MaxSteps
  <2>1. b \in Work /\ task[s][b].pc # "none"
    BY WorkKinds DEF Resume, Collect, ExecTools, Persist, MarkSteps, PrepareNext
  <2> QED
    BY <2>1 DEF Facts, Resumptions, BatchFacts
<1>1. CASE Collect(s, b)
  <2>1. UNCHANGED <<job, poll, cancel, faults>>
    BY <1>1 DEF Collect
  <2>2. CASE task'[s][b].pc = "none" /\ batch' = batch /\ stuck' = stuck \cup {batch[b].job}
    <3>1. job' \in [Job -> {"none", "running", "completed", "failed", "cancelled"}]
      BY <2>1 DEF Facts, Shapes
    <3>2. /\ task' \in [Server -> [Work -> TaskRec]]
          /\ \A u \in Server, v \in Work : (u # s \/ v # b) => task'[u][v] = task[u][v]
      BY <1>1, CollectEffect
    <3> QED
      BY <1>0, <2>1, <2>2, <3>1, <3>2, ResumeLeaves
  <2>3. CASE ~(task'[s][b].pc = "none" /\ batch' = batch /\ stuck' = stuck \cup {batch[b].job})
    <3>1. /\ task' \in [Server -> [Work -> TaskRec]]
          /\ \A u \in Server, v \in Work : (u # s \/ v # b) => task'[u][v] = task[u][v]
          /\ stuck' = stuck /\ task'[s][b].pc = "exec"
          /\ \A a \in task'[s][b].agents : a \in Agent /\ batch[b].item[a] = "completed"
          /\ task'[s][b].cont # {} => batch[b].turn < MaxSteps
          /\ Resumed(s, b, batch'[b])
          /\ batch'[b].stepped = batch[b].stepped
      BY <1>1, <2>3, CollectEffect
    <3>2. task'[s][b].agents \subseteq batch[b].agents
      BY <3>1 DEF Facts, BatchFacts
    <3> QED
      BY <1>0, <2>1, <3>1, <3>2, ResumedFacts DEF Resuming
  <2> QED
    BY <2>2, <2>3
<1>2. CASE ExecTools(s, b)
  <2>1. /\ Resumed(s, b, batch'[b]) /\ batch'[b].stepped = batch[b].stepped
        /\ Step(s, b, "persist") /\ UNCHANGED <<job, poll, cancel, stuck, faults>>
    BY <1>2, ExecEffect DEF ExecTools
  <2> QED
    BY <1>0, <2>1, TaskStep, ResumedFacts DEF Facts, Resuming
<1>3. CASE Persist(s, b)
  <2>1. /\ Resumed(s, b, batch'[b]) /\ batch'[b].stepped = batch[b].stepped
        /\ Step(s, b, "mark") /\ UNCHANGED <<job, poll, cancel, stuck, faults>>
    BY <1>3, PersistEffect DEF Persist
  <2> QED
    BY <1>0, <2>1, TaskStep, ResumedFacts DEF Facts, Resuming
<1>4. CASE MarkSteps(s, b)
  <2>1. /\ Resumed(s, b, batch'[b]) /\ batch'[b].stepped = batch[b].stepped \cup task[s][b].agents
        /\ Step(s, b, "next") /\ UNCHANGED <<job, poll, cancel, stuck, faults>>
    BY <1>4, MarkEffect DEF MarkSteps
  <2> QED
    BY <1>0, <2>1, TaskStep, ResumedFacts DEF Facts, Resuming
<1>5. CASE PrepareNext(s, b)
  <2>1. /\ UNCHANGED <<batch, poll, cancel, faults>>
        /\ job' \in [Job -> {"none", "running", "completed", "failed", "cancelled"}]
        /\ stuck' = stuck \/ stuck' = stuck \cup {batch[b].job}
        /\ DropTask(s, b) \/ (Step(s, b, "send") /\ task[s][b].cont # {})
    BY <1>5 DEF PrepareNext, SetJob, Facts, Shapes
  <2>2. CASE DropTask(s, b)
    <3>1. /\ task' \in [Server -> [Work -> TaskRec]]
          /\ task'[s][b].pc = "none"
          /\ \A u \in Server, v \in Work : (u # s \/ v # b) => task'[u][v] = task[u][v]
      BY <1>0, <2>2, TaskDropped DEF Facts
    <3> QED
      BY <1>0, <2>1, <3>1, ResumeLeaves
  <2>3. CASE Step(s, b, "send") /\ task[s][b].cont # {}
    <3>1. /\ task' \in [Server -> [Work -> TaskRec]]
          /\ task'[s][b].pc = "send" /\ task'[s][b].agents = task[s][b].agents
          /\ task'[s][b].cont = task[s][b].cont
          /\ \A u \in Server, v \in Work : (u # s \/ v # b) => task'[u][v] = task[u][v]
      BY <1>0, <2>3, TaskStep DEF Facts, Submitting
    <3> QED
      BY <1>0, <2>1, <2>3, <3>1, ResumeLeaves
  <2> QED
    BY <2>1, <2>2, <2>3
<1> QED
  BY <1>1, <1>2, <1>3, <1>4, <1>5 DEF Resume

-----------------------------------------------------------------------------
(* Cancelling a job touches a batch at the provider, or its row.            *)
LEMMA CancelEffect ==
  ASSUME Facts, NEW j \in Job, CancelStep(j)
  PROVE  /\ UNCHANGED <<lockVars, poll, task, stuck, faults>>
         /\ job' \in [Job -> {"none", "running", "completed", "failed", "cancelled"}]
         /\ cancel' \in [Job -> CancelRec]
         /\ \A i \in Job, b \in Batch :
              b \in cancel'[i].todo => b \in cancel[i].todo \/ batch[b].row = "running"
         /\ batch' \in [Batch -> BatchRec]
         /\ \A b \in Batch :
              /\ batch'[b].job = batch[b].job /\ batch'[b].turn = batch[b].turn
              /\ batch'[b].agents = batch[b].agents /\ batch'[b].item = batch[b].item
              /\ batch'[b].ran = batch[b].ran /\ batch'[b].said = batch[b].said
              /\ batch'[b].stepped = batch[b].stepped /\ batch'[b].mixed = batch[b].mixed
              /\ \/ batch'[b] = batch[b]
                 \/ /\ batch[b].row # "none" /\ batch'[b].row = "cancelled"
                    /\ batch'[b].prov = batch[b].prov
                 \/ /\ batch[b].row # "none" /\ batch'[b].row = batch[b].row
                    /\ batch'[b].prov = "canceling"
         /\ job' = job \/ (UNCHANGED batch /\ job[j] # "none" /\ job' = [job EXCEPT ![j] = "cancelled"])
<1>0. /\ \A b \in Batch : batch[b] \in BatchRec
      /\ \A i \in Job : cancel[i] \in CancelRec
      /\ batch \in [Batch -> BatchRec] /\ cancel \in [Job -> CancelRec]
  BY DEF Facts, Shapes
<1>1. CASE CancelJob(j)
  <2>1. /\ UNCHANGED <<lockVars, poll, task, stuck, faults, batch>>
        /\ job[j] # "none" /\ job' = [job EXCEPT ![j] = "cancelled"]
        /\ cancel' = [cancel EXCEPT ![j].on = TRUE]
    BY <1>1 DEF CancelJob, SetJob
  <2>2. job' \in [Job -> {"none", "running", "completed", "failed", "cancelled"}]
    BY <2>1 DEF Facts, Shapes
  <2>3. cancel' \in [Job -> CancelRec] /\ \A i \in Job : cancel'[i].todo = cancel[i].todo
    BY <1>0, <2>1 DEF CancelRec
  <2> QED
    BY <1>0, <2>1, <2>2, <2>3
<1>2. CASE CancelLists(j)
  <2> DEFINE listed == {b \in Batch : batch[b].job = j /\ batch[b].row = "running"}
  <2>1. /\ UNCHANGED <<lockVars, job, poll, task, stuck, faults, batch>>
        /\ cancel' = [cancel EXCEPT ![j].todo = listed]
    BY <1>2 DEF CancelLists
  <2>2. listed \in SUBSET Batch /\ \A b \in listed : batch[b].row = "running"
    OBVIOUS
  <2> HIDE DEF listed
  <2>3. /\ cancel' \in [Job -> CancelRec]
        /\ \A i \in Job : cancel'[i].todo = IF i = j THEN listed ELSE cancel[i].todo
    BY <1>0, <2>1, <2>2 DEF CancelRec
  <2>4. job' \in [Job -> {"none", "running", "completed", "failed", "cancelled"}]
    BY <2>1 DEF Facts, Shapes
  <2> QED
    BY <1>0, <2>1, <2>2, <2>3, <2>4
<1>3. ASSUME NEW b \in Batch, CancelAtProvider(j, b)
      PROVE  /\ UNCHANGED <<lockVars, job, poll, task, stuck, faults>>
             /\ cancel' \in [Job -> CancelRec]
             /\ \A i \in Job : cancel'[i].todo \subseteq cancel[i].todo
             /\ batch[b].row # "none"
             /\ \/ batch' = batch
                \/ batch' = [batch EXCEPT ![b].prov = "canceling"]
  <2>1. /\ UNCHANGED <<lockVars, job, poll, task, stuck, faults>>
        /\ b \in cancel[j].todo
        /\ \/ cancel' = [cancel EXCEPT ![j] = [NoCancel EXCEPT !.asked = b]] /\ batch' = batch
           \/ cancel' = [cancel EXCEPT ![j].asked = b]
              /\ batch' = [batch EXCEPT ![b].prov = "canceling"]
    BY <1>3 DEF CancelAtProvider
  <2>2. b \in 0 .. MaxBatches /\ batch[b].row # "none"
    BY <2>1, BatchAssumption DEF Batch, Facts, Listings
  <2>3. ASSUME cancel' = [cancel EXCEPT ![j].asked = b]
        PROVE  cancel' \in [Job -> CancelRec] /\ \A i \in Job : cancel'[i].todo \subseteq cancel[i].todo
    <3> DEFINE c == [cancel[j] EXCEPT !.asked = b]
    <3>1. c \in CancelRec /\ c.todo = cancel[j].todo
      BY <1>0, <2>2 DEF CancelRec
    <3>2. cancel' = [cancel EXCEPT ![j] = c]
      BY <2>3
    <3> HIDE DEF c
    <3> QED
      BY <1>0, <3>1, <3>2
  <2>4. ASSUME cancel' = [cancel EXCEPT ![j] = [NoCancel EXCEPT !.asked = b]]
        PROVE  cancel' \in [Job -> CancelRec] /\ \A i \in Job : cancel'[i].todo \subseteq cancel[i].todo
    <3> DEFINE c == [NoCancel EXCEPT !.asked = b]
    <3>1. c \in CancelRec /\ c.todo = {}
      BY <2>2, NoOthers DEF CancelRec
    <3>2. cancel' = [cancel EXCEPT ![j] = c]
      BY <2>4
    <3> HIDE DEF c
    <3> QED
      BY <1>0, <3>1, <3>2
  <2>5. cancel' \in [Job -> CancelRec] /\ \A i \in Job : cancel'[i].todo \subseteq cancel[i].todo
    BY <2>1, <2>3, <2>4
  <2> QED
    BY <2>1, <2>2, <2>5
<1>4. ASSUME NEW b \in Batch, CancelRow(j, b)
      PROVE  /\ UNCHANGED <<lockVars, job, poll, task, stuck, faults>>
             /\ cancel' \in [Job -> CancelRec]
             /\ \A i \in Job : cancel'[i].todo \subseteq cancel[i].todo
             /\ batch[b].row # "none"
             /\ batch' = [batch EXCEPT ![b].row = "cancelled"]
  <2>1. /\ UNCHANGED <<lockVars, job, poll, task, stuck, faults>>
        /\ b \in cancel[j].todo
        /\ cancel' = [cancel EXCEPT ![j] = [[cancel[j] EXCEPT !.todo = cancel[j].todo \ {b}]
                                                    EXCEPT !.asked = 0]]
        /\ batch' = [batch EXCEPT ![b].row = "cancelled"]
    BY <1>0, <1>4 DEF CancelRow
  <2> DEFINE c == [cancel[j] EXCEPT !.todo = cancel[j].todo \ {b}]
             d == [c EXCEPT !.asked = 0]
  <2>2. c \in CancelRec /\ c.todo \subseteq cancel[j].todo
    BY <1>0 DEF CancelRec
  <2> HIDE DEF c
  <2>3. d \in CancelRec /\ d.todo \subseteq cancel[j].todo
    BY <2>2, BatchAssumption DEF CancelRec
  <2>4. cancel' = [cancel EXCEPT ![j] = d]
    BY <2>1 DEF c
  <2> HIDE DEF d
  <2>5. cancel' \in [Job -> CancelRec] /\ \A i \in Job : cancel'[i].todo \subseteq cancel[i].todo
    BY <1>0, <2>3, <2>4
  <2> QED
    BY <2>1, <2>5 DEF Facts, Listings
<1>5. ASSUME NEW b \in Batch, batch' = [batch EXCEPT ![b].prov = "canceling"]
      PROVE  /\ batch' \in [Batch -> BatchRec]
             /\ \A c \in Batch \ {b} : batch'[c] = batch[c]
             /\ batch'[b].job = batch[b].job /\ batch'[b].turn = batch[b].turn
             /\ batch'[b].agents = batch[b].agents /\ batch'[b].item = batch[b].item
             /\ batch'[b].ran = batch[b].ran /\ batch'[b].said = batch[b].said
             /\ batch'[b].stepped = batch[b].stepped /\ batch'[b].mixed = batch[b].mixed
             /\ batch'[b].row = batch[b].row /\ batch'[b].prov = "canceling"
  <2> DEFINE r == [batch[b] EXCEPT !.prov = "canceling"]
  <2>1. /\ r \in BatchRec
        /\ r.job = batch[b].job /\ r.turn = batch[b].turn
        /\ r.agents = batch[b].agents /\ r.item = batch[b].item
        /\ r.ran = batch[b].ran /\ r.said = batch[b].said
        /\ r.stepped = batch[b].stepped
        /\ r.row = batch[b].row /\ r.prov = "canceling"
    BY <1>0 DEF BatchRec
  <2>2. r.mixed = batch[b].mixed
    BY <1>0 DEF BatchRec
  <2>3. batch' = [batch EXCEPT ![b] = r]
    BY <1>5
  <2> HIDE DEF r
  <2> QED
    BY <2>1, <2>2, <2>3, BatchSet DEF Facts
<1>6. ASSUME NEW b \in Batch, batch' = [batch EXCEPT ![b].row = "cancelled"]
      PROVE  /\ batch' \in [Batch -> BatchRec]
             /\ \A c \in Batch \ {b} : batch'[c] = batch[c]
             /\ batch'[b].job = batch[b].job /\ batch'[b].turn = batch[b].turn
             /\ batch'[b].agents = batch[b].agents /\ batch'[b].item = batch[b].item
             /\ batch'[b].ran = batch[b].ran /\ batch'[b].said = batch[b].said
             /\ batch'[b].stepped = batch[b].stepped /\ batch'[b].mixed = batch[b].mixed
             /\ batch'[b].prov = batch[b].prov /\ batch'[b].row = "cancelled"
  <2> DEFINE r == [batch[b] EXCEPT !.row = "cancelled"]
  <2>1. /\ r \in BatchRec
        /\ r.job = batch[b].job /\ r.turn = batch[b].turn
        /\ r.agents = batch[b].agents /\ r.item = batch[b].item
        /\ r.ran = batch[b].ran /\ r.said = batch[b].said
        /\ r.stepped = batch[b].stepped
        /\ r.prov = batch[b].prov /\ r.row = "cancelled"
    BY <1>0 DEF BatchRec, RowStatus
  <2>2. r.mixed = batch[b].mixed
    BY <1>0 DEF BatchRec
  <2>3. batch' = [batch EXCEPT ![b] = r]
    BY <1>6
  <2> HIDE DEF r
  <2> QED
    BY <2>1, <2>2, <2>3, BatchSet DEF Facts
<1>j. job \in [Job -> {"none", "running", "completed", "failed", "cancelled"}]
  BY DEF Facts, Shapes
<1>7. ASSUME NEW b \in Batch, CancelAtProvider(j, b) \/ CancelRow(j, b)
      PROVE  /\ UNCHANGED <<lockVars, job, poll, task, stuck, faults>>
             /\ cancel' \in [Job -> CancelRec]
             /\ \A i \in Job : cancel'[i].todo \subseteq cancel[i].todo
             /\ batch' \in [Batch -> BatchRec]
             /\ \A c \in Batch : 
                  /\ batch'[c].job = batch[c].job /\ batch'[c].turn = batch[c].turn
                  /\ batch'[c].agents = batch[c].agents /\ batch'[c].item = batch[c].item
                  /\ batch'[c].ran = batch[c].ran /\ batch'[c].said = batch[c].said
                  /\ batch'[c].stepped = batch[c].stepped /\ batch'[c].mixed = batch[c].mixed
                  /\ \/ batch'[c] = batch[c]
                     \/ /\ batch[c].row # "none" /\ batch'[c].row = "cancelled"
                        /\ batch'[c].prov = batch[c].prov
                     \/ /\ batch[c].row # "none" /\ batch'[c].row = batch[c].row
                        /\ batch'[c].prov = "canceling"
  <2>1. CASE CancelAtProvider(j, b)
    <3>1. CASE batch' = batch
      <4>1. \A c \in Batch : batch'[c] = batch[c]
        BY <3>1
      <4> QED
        BY <1>0, <1>3, <2>1, <3>1, <4>1
    <3>2. CASE batch' = [batch EXCEPT ![b].prov = "canceling"]
      <4>1. batch[b].row # "none" /\ batch' \in [Batch -> BatchRec]
        BY <1>3, <1>5, <2>1, <3>2
      <4>2. \A c \in Batch \ {b} : batch'[c] = batch[c]
        BY <1>5, <3>2
      <4>3. /\ batch'[b].job = batch[b].job /\ batch'[b].turn = batch[b].turn
            /\ batch'[b].agents = batch[b].agents /\ batch'[b].item = batch[b].item
            /\ batch'[b].ran = batch[b].ran /\ batch'[b].said = batch[b].said
            /\ batch'[b].stepped = batch[b].stepped /\ batch'[b].mixed = batch[b].mixed
            /\ batch'[b].row = batch[b].row /\ batch'[b].prov = "canceling"
        BY <1>5, <3>2
      <4> QED
        BY <1>3, <2>1, <4>1, <4>2, <4>3
    <3> QED
      BY <1>3, <2>1, <3>1, <3>2
  <2>2. CASE CancelRow(j, b)
    BY <1>4, <1>6, <2>2
  <2> QED
    BY <1>7, <2>1, <2>2
<1> QED
  BY <1>1, <1>2, <1>7, <1>j DEF CancelStep

LEMMA CancelFacts ==
  ASSUME Facts, NEW j \in Job, CancelStep(j)
  PROVE  Facts'
<1>1. /\ UNCHANGED <<poll, task, stuck, faults>>
      /\ job' \in [Job -> {"none", "running", "completed", "failed", "cancelled"}]
      /\ cancel' \in [Job -> CancelRec]
      /\ \A i \in Job, b \in Batch :
           b \in cancel'[i].todo => b \in cancel[i].todo \/ batch[b].row = "running"
      /\ batch' \in [Batch -> BatchRec]
  BY CancelEffect
<1>2. \A b \in Batch :
        /\ batch'[b].job = batch[b].job /\ batch'[b].turn = batch[b].turn
        /\ batch'[b].agents = batch[b].agents /\ batch'[b].item = batch[b].item
        /\ batch'[b].stepped = batch[b].stepped
  BY CancelEffect
<1>3. \A b \in Batch :
        \/ batch'[b] = batch[b]
        \/ batch[b].row # "none" /\ batch'[b].row = "cancelled" /\ batch'[b].prov = batch[b].prov
        \/ /\ batch[b].row # "none" /\ batch'[b].row = batch[b].row
           /\ batch'[b].prov = "canceling"
  BY CancelEffect
<1>4. \A b \in Batch : batch[b].row # "none" => Exists(b)
  BY RowExists
<1>s. \A b \in Batch : Exists(b) => Quiet(b) /\ Stays(b)
  BY <1>2, <1>3, <1>4 DEF Exists, Quiet, Stays
<1>5. Shapes'
  BY <1>1 DEF Shapes, Facts
<1>6. BatchFacts'
  <2> SUFFICES ASSUME NEW b \in Batch
               PROVE  /\ Exists(b)' => batch'[b].job \in Job
                      /\ ~Exists(b)' => batch'[b] = NoBatch
                      /\ \A a \in Agent \ batch'[b].agents : batch'[b].item[a] = "none"
                      /\ batch'[b].stepped \subseteq batch'[b].agents
    BY DEF BatchFacts
  <2> QED
    BY <1>2, <1>3, <1>4 DEF Facts, BatchFacts, Exists
<1>7. Listings'
  <2>1. \A b \in Batch : batch[b].row # "none" => batch'[b].row # "none"
    BY <1>3
  <2> QED
    BY <1>1, <2>1 DEF Listings, Facts
<1>8. Resumptions' /\ Submissions'
  BY <1>1, <1>s, TasksUnchanged
<1> QED
  BY <1>5, <1>6, <1>7, <1>8 DEF Facts

-----------------------------------------------------------------------------
(* A server that stops leaves nothing behind but what it wrote.             *)
Stopped(s) ==
  /\ poll' \in [Server -> PollRec]
  /\ poll'[s] = NoPoll
  /\ \A t \in Server \ {s} : poll'[t] = poll[t]
  /\ task' \in [Server -> [Work -> TaskRec]]
  /\ \A w \in Work : task'[s][w].pc = "none"
  /\ \A t \in Server \ {s} : task'[t] = task[t]
  /\ UNCHANGED <<job, batch, cancel>>

LEMMA StopEffect ==
  ASSUME Facts, NEW s \in Server, Stop(s)
  PROVE  Stopped(s) /\ stuck' \in SUBSET Job
<1>1. UNCHANGED <<job, batch, cancel>>
  BY DEF Stop
<1>2. /\ poll' \in [Server -> PollRec] /\ poll'[s] = NoPoll
      /\ \A t \in Server \ {s} : poll'[t] = poll[t]
  BY NoOthers DEF Stop, Facts, Shapes
<1>3. /\ task' \in [Server -> [Work -> TaskRec]]
      /\ \A w \in Work : task'[s][w] = NoTask
      /\ \A t \in Server \ {s} : task'[t] = task[t]
  <2> DEFINE none == [w \in Work |-> NoTask]
  <2>1. none \in [Work -> TaskRec] /\ \A w \in Work : none[w] = NoTask
    BY NoOthers
  <2>2. task' = [task EXCEPT ![s] = none]
    BY DEF Stop
  <2> HIDE DEF none
  <2> QED
    BY <2>1, <2>2 DEF Facts, Shapes
<1>4. stuck' \in SUBSET Job
  <2>1. \A w \in TasksOf(s) : JobOf(w) \in Job
    BY TaskHasJob DEF TasksOf
  <2> QED
    BY <2>1, SeenJobs DEF Stop, LostWith, Facts, Shapes
<1> QED
  BY <1>1, <1>2, <1>3, <1>4, NoOthers DEF Stopped

LEMMA StopFacts ==
  ASSUME Facts, NEW s \in Server, Stop(s),
         faults' \in [count : 0 .. MaxFaults, recycled : BOOLEAN]
  PROVE  Facts'
<1>0. Stopped(s) /\ stuck' \in SUBSET Job
  BY StopEffect
<1>1. /\ poll' \in [Server -> PollRec] /\ poll'[s] = NoPoll
      /\ \A t \in Server \ {s} : poll'[t] = poll[t]
      /\ task' \in [Server -> [Work -> TaskRec]]
      /\ \A w \in Work : task'[s][w].pc = "none"
      /\ \A t \in Server \ {s} : task'[t] = task[t]
      /\ UNCHANGED <<job, batch, cancel>>
  BY <1>0 DEF Stopped
<1>2. Shapes'
  BY <1>0, <1>1 DEF Shapes, Facts
<1>3. BatchFacts' /\ \A b \in Batch : Exists(b) => Quiet(b) /\ Stays(b)
  BY <1>1, BatchesUnchanged
<1>4. Listings'
  BY <1>1, NoOthers DEF Listings, Facts
<1>5. Resumptions'
  BY <1>1, <1>3, WorkKinds, ResumptionsKept
<1>6. Submissions'
  <2>1. \A t \in Server, j \in Job : task'[t][j].pc \in {"none"} \cup Submitting
    BY <1>1, WorkKinds DEF Submissions, Facts
  <2>2. \A t \in Server, v \in Work : Owns(t, v)' => task'[t][v] = task[t][v]
    BY <1>1 DEF Owns
  <2> QED
    BY <1>3, <2>1, <2>2, OwnersKept
<1> QED
  BY <1>2, <1>3, <1>4, <1>5, <1>6 DEF Facts

(* The election touches nothing of it.                                      *)
LEMMA OthersFacts ==
  ASSUME Facts, UNCHANGED others,
         faults' \in [count : 0 .. MaxFaults, recycled : BOOLEAN]
  PROVE  Facts'
<1>0. UNCHANGED <<job, batch, poll, task, cancel, stuck>>
  BY DEF others
<1>1. Shapes'
  BY <1>0 DEF Shapes, Facts
<1>2. BatchFacts' /\ \A b \in Batch : Exists(b) => Quiet(b) /\ Stays(b)
  BY <1>0, BatchesUnchanged
<1>3. Listings'
  BY <1>0, <1>2, ListingsKept
<1>4. Resumptions' /\ Submissions'
  BY <1>0, <1>2, TasksUnchanged
<1> QED
  BY <1>1, <1>2, <1>3, <1>4 DEF Facts

LEMMA ElectionEffect ==
  ASSUME Facts, NEW s \in Server, Election(s)
  PROVE  UNCHANGED others /\ faults' \in [count : 0 .. MaxFaults, recycled : BOOLEAN]
<1>1. UNCHANGED others
  BY DEF Election
<1>2. (\E kind : Fault(kind)) \/ UNCHANGED faults
  BY DEF Election
<1>3. CASE UNCHANGED faults
  BY <1>1, <1>3 DEF Facts, Shapes
<1>4. ASSUME NEW kind, Fault(kind)
      PROVE  faults' \in [count : 0 .. MaxFaults, recycled : BOOLEAN]
  BY <1>4, FaultsTyped DEF Facts
<1> QED
  BY <1>1, <1>2, <1>3, <1>4

-----------------------------------------------------------------------------
(* The facts, by the steps of the system.                                   *)
LEMMA FactsStep == Facts /\ [Next]_vars => Facts'
<1> SUFFICES ASSUME Facts, [Next]_vars
             PROVE  Facts'
  OBVIOUS
<1>f. faults \in [count : 0 .. MaxFaults, recycled : BOOLEAN]
  BY DEF Facts, Shapes
<1>1. CASE UNCHANGED vars
  BY <1>1, <1>f, OthersFacts DEF vars, others
<1>2. ASSUME NEW s \in Server, ServerStep(s)
      PROVE  Facts'
  <2>1. CASE Election(s)
    BY <2>1, ElectionEffect, OthersFacts
  <2>2. CASE ShutsDown(s)
    BY <2>2, StopFacts, FaultsTyped DEF ShutsDown, StopsPolling, Facts
  <2>3. CASE Dies(s)
    BY <2>3, StopFacts, FaultsTyped DEF Dies, Facts
  <2>4. ASSUME NEW j \in Job, CreateBatch(s, j)
        PROVE  Facts'
    BY <2>4, CreateBatchFacts
  <2>5. CASE PollStarts(s)
    BY <2>5, PollStartsFacts
  <2>6. CASE WriteStatuses(s)
    BY <2>6, WriteStatusesFacts
  <2>7. CASE ApplyItems(s)
    BY <2>7, ApplyItemsFacts
  <2>8. CASE PollEnds(s) \/ PollAborts(s)
    BY <2>8, PollEndsFacts
  <2>9. ASSUME NEW b \in Batch, Retrieve(s, b)
        PROVE  Facts'
    BY <2>9, RetrieveFacts
  <2>10. ASSUME NEW b \in Batch, Fetch(s, b)
         PROVE  Facts'
    BY <2>10, FetchFacts
  <2>11. ASSUME NEW b \in Batch, Resume(s, b)
         PROVE  Facts'
    BY <2>11, ResumeFacts
  <2>12. ASSUME NEW w \in Work, Submit(s, w) \/ SubmitFails(s, w)
         PROVE  Facts'
    BY <2>12, SendFacts, CreateRowFacts, CreateItemsFacts, SubmitFailsFacts DEF Submit
  <2> QED
    BY <1>2, <2>1, <2>2, <2>3, <2>4, <2>5, <2>6, <2>7, <2>8, <2>9, <2>10, <2>11, <2>12
       DEF ServerStep
<1>3. ASSUME NEW b \in Batch, ProviderEnds(b)
      PROVE  Facts'
  BY <1>3, ProviderFacts
<1>4. ASSUME NEW j \in Job, CancelStep(j)
      PROVE  Facts'
  BY <1>4, CancelFacts
<1>5. CASE DropDead /\ UNCHANGED <<others, faults>>
  BY <1>5, <1>f, OthersFacts
<1> QED
  BY <1>1, <1>2, <1>3, <1>4, <1>5 DEF Next

LEMMA FactsInit == Init => Facts
<1> SUFFICES ASSUME Init
             PROVE  Facts
  OBVIOUS
<1>1. /\ job = [j \in Job |-> "none"] /\ batch = [b \in Batch |-> NoBatch]
      /\ poll = [s \in Server |-> NoPoll] /\ cancel = [j \in Job |-> NoCancel]
      /\ stuck = {} /\ faults = [count |-> 0, recycled |-> FALSE]
  BY DEF Init
<1>2. task = [s \in Server |-> [w \in Work |-> NoTask]]
  BY DEF Init
<1>3. /\ task \in [Server -> [Work -> TaskRec]]
      /\ \A s \in Server, w \in Work : task[s][w].pc = "none"
  <2> DEFINE none == [w \in Work |-> NoTask]
  <2>1. none \in [Work -> TaskRec] /\ \A w \in Work : none[w] = NoTask
    BY NoOthers
  <2>2. task = [s \in Server |-> none]
    BY <1>2
  <2> HIDE DEF none
  <2> QED
    BY <2>1, <2>2, NoOthers
<1>4. Shapes
  BY <1>1, <1>3, NoBatchIs, NoOthers, BatchAssumption DEF Shapes
<1>5. BatchFacts
  BY <1>1, NoBatchIs DEF BatchFacts, Exists
<1>6. Listings
  BY <1>1, NoOthers DEF Listings
<1>7. Resumptions /\ Submissions
  BY <1>3, WorkKinds DEF Resumptions, Submissions, Owns
<1> QED
  BY <1>4, <1>5, <1>6, <1>7 DEF Facts

(* Every variable of the batch jobs keeps to its type, and a batch to the   *)
(* agents it was made for, whatever polls, resumptions and cancellations    *)
(* write over each other (batch job rows, items and steps).                 *)
THEOREM BatchTypesCorrect == Spec => []TypeOK
<1>1. Init => TypeInv
  BY FactsInit DEF TypeInv, Init, LockInit, LockTypeOK, Up
<1>2. TypeInv /\ OnePollerInv /\ [Next]_vars => TypeInv'
  BY FactsStep, OnePollerStep DEF TypeInv, OnePollerInv
<1>3. TypeInv => TypeOK
  <2> SUFFICES ASSUME TypeInv
               PROVE  TypeOK
    OBVIOUS
  <2> USE DEF TypeInv, Facts
  <2>1. LockTypeOK /\ job \in [Job -> {"none", "running", "completed", "failed", "cancelled"}]
        /\ stuck \subseteq Job /\ faults \in [count : 0 .. MaxFaults, recycled : BOOLEAN]
    BY DEF Shapes
  <2>2. ASSUME NEW b \in Batch
        PROVE  /\ batch[b].job \in Job \cup {NoJob} /\ batch[b].turn \in 0 .. MaxSteps
               /\ batch[b].prov \in {"none", "in_progress", "canceling", "ended"}
               /\ batch[b].row \in {"none", "running", "completed", "cancelled"}
               /\ batch[b].item \in [Agent -> {"none", "created", "completed", "failed", "cancelled"}]
               /\ \A a \in Agent \ batch[b].agents : batch[b].item[a] = "none"
               /\ batch[b].stepped \subseteq batch[b].agents
    <3>1. batch[b] \in BatchRec
      BY DEF Shapes
    <3> QED
      BY <3>1 DEF BatchRec, RowStatus, ItemStatus, BatchFacts
  <2>3. ASSUME NEW s \in Server
        PROVE  /\ poll[s].pc \in {"idle", "retrieve", "fetch", "resume"}
               /\ poll[s].fetched \subseteq poll[s].seen
               /\ \A w \in Work : task[s][w].pc \in
                    {"none", "collect", "exec", "persist", "mark", "next", "send", "row", "items"}
    <3>1. poll[s] \in PollRec /\ \A w \in Work : task[s][w] \in TaskRec
      BY DEF Shapes
    <3>2. \A w \in Work : task[s][w].pc \in
                    {"none", "collect", "exec", "persist", "mark", "next", "send", "row", "items"}
      BY <3>1 DEF TaskRec, Resuming, Submitting
    <3> QED
      BY <3>1, <3>2 DEF PollRec, Listings
  <2> QED
    BY <2>1, <2>2, <2>3 DEF TypeOK
<1>4. Init => OnePollerInv
  BY DEF Init, LockInit, OnePollerInv, LockTypeOK, HoldsLock, PollFun, PollerLeads, NoPoll, Up
<1> QED
  BY <1>1, <1>2, <1>3, <1>4, OnePollerStep, PTL DEF Spec

-----------------------------------------------------------------------------
(***************************************************************************)
(* What the resumptions of completed batches do: a step marked completed   *)
(* had its tool executed and its messages stored, however many servers     *)
(* stop, die or take over the lead; while no leader's connection was       *)
(* closed under it, no tool call is executed twice and a job is completed  *)
(* by its last batch.                                                      *)
(***************************************************************************)

(* What a resumption (its task t, its batch q) has done before it marks the *)
(* steps, and what a marked step says.                                      *)
ToolsDone(t, q) ==
  /\ t.pc \in {"exec", "persist", "mark"} /\ ~q.mixed => Executed(t) = t.agents
  /\ t.pc \in {"persist", "mark"} => \A a \in Executed(t) : q.ran[a] >= 1
  /\ t.pc = "mark" => Executed(t) \subseteq q.said
StepsDone(q) == ~q.mixed => \A a \in q.stepped : q.ran[a] >= 1 /\ a \in q.said

ToolsInv ==
  /\ \A s \in Server, b \in Batch : ToolsDone(task[s][b], batch[b])
  /\ \A b \in Batch : StepsDone(batch[b])

-----------------------------------------------------------------------------
(* While no leader's connection was closed under it.                        *)
Intact == ~faults.recycled
LossNeedsRecycle == lost # {} => faults.recycled
Base == OnePollerInv /\ Facts /\ LossNeedsRecycle

(* A batch is resumed by the poll that marked it completed, and while that  *)
(* poll lasts nobody lists it again.                                        *)
PollInv ==
  /\ \A s \in Server : poll[s].pc \in {"fetch", "resume"} =>
       \A b \in Batch : b \in Completed(s) => batch[b].row \notin {"none", "running"}
  /\ \A s \in Server, b \in Batch :
       task[s][b].pc # "none" => poll[s].pc = "resume" /\ b \in Completed(s)

(* No tool of a batch ran before it was marked completed, collected and     *)
(* executed.                                                                *)
Early(s) == poll[s].pc \in {"retrieve", "fetch"}
Unrun(b) == \A a \in Agent : batch[b].ran[a] = 0
RanInv == \A b \in Batch :
  /\ batch[b].row \in {"none", "running"} => Unrun(b)
  /\ \A s \in Server : Early(s) /\ b \in poll[s].seen => Unrun(b)
  /\ \A s \in Server : task[s][b].pc \in {"collect", "exec"} => Unrun(b)
  /\ \A a \in Agent : batch[b].ran[a] <= 1

(* Of the batches of a job only the last is listed, polled, resumed or      *)
(* being submitted.                                                         *)
IsLast(b) == \A c \in Batch \ {b} : batch[c].job = batch[b].job => batch[c].turn < batch[b].turn
ActiveLast ==
  /\ \A b \in Batch : batch[b].row = "running" => IsLast(b)
  /\ \A s \in Server, b \in Batch : Early(s) /\ b \in poll[s].seen => IsLast(b)
  /\ \A s \in Server, b \in Batch : task[s][b].pc \in Resuming \cup {"send"} => IsLast(b)
ItemsIn ==
  \A s \in Server, b \in Batch : task[s][b].pc \notin {"none", "collect"} =>
    \E a \in Agent : batch[b].item[a] = "completed"
OwnedLast ==
  \A s \in Server, w \in Work : Owns(s, w) => IsLast(task[s][w].new)
OwnedUnseen ==
  \A s \in Server, b \in Batch : Owns(s, b) => task[s][b].new \notin poll[s].seen
FirstSend ==
  \A s \in Server, j \in Job : task[s][j].pc = "send" => \A b \in Batch : batch[b].job # j
LastInv == ActiveLast /\ ItemsIn /\ OwnedLast /\ OwnedUnseen /\ FirstSend

(* The row of a job says whether anything of it is left.                    *)
JobInv == \A j \in Job :
  /\ job[j] = "none" =>
       /\ \A b \in Batch : batch[b].job # j
       /\ \A s \in Server : task[s][j].pc = "none"
  /\ \A s, t \in Server : task[s][j].pc # "none" /\ task[t][j].pc # "none" => s = t
  /\ job[j] = "completed" =>
       /\ \A s \in Server, b \in Batch : Early(s) /\ b \in poll[s].seen => batch[b].job # j
       /\ \A b \in Batch : batch[b].job = j => batch[b].row # "running"
       /\ \A s \in Server, w \in Work : JobOf(w) = j => task[s][w].pc = "none"

(* All of it is lost when a leader's connection is closed under it: two     *)
(* servers may poll then.                                                   *)
SafeInv == Base /\ (Intact => PollInv /\ RanInv /\ LastInv /\ JobInv)

-----------------------------------------------------------------------------
(* Nothing a batch knows of its tools changes but in its resumption.        *)
LEMMA ToolsKept ==
  ASSUME Facts, ToolsInv,
         \A b \in Batch : Exists(b) =>
           /\ batch'[b].ran = batch[b].ran /\ batch'[b].said = batch[b].said
           /\ batch'[b].mixed = batch[b].mixed /\ batch'[b].stepped = batch[b].stepped,
         \A b \in Batch : ~Exists(b) => batch'[b].stepped = {},
         \A t \in Server, b \in Batch :
           task'[t][b] = task[t][b] \/ task'[t][b].pc \notin {"exec", "persist", "mark"}
  PROVE  ToolsInv'
<1>1. ASSUME NEW t \in Server, NEW b \in Batch
      PROVE  ToolsDone(task[t][b], batch[b])'
  <2>1. CASE task'[t][b].pc \notin {"exec", "persist", "mark"}
    BY <2>1 DEF ToolsDone
  <2>2. CASE task'[t][b] = task[t][b] /\ task[t][b].pc \in {"exec", "persist", "mark"}
    BY <2>2, OwnerExists DEF ToolsDone, ToolsInv
  <2> QED
    BY <2>1, <2>2
<1>2. ASSUME NEW b \in Batch
      PROVE  StepsDone(batch[b])'
  BY DEF StepsDone, ToolsInv
<1> QED
  BY <1>1, <1>2 DEF ToolsInv

LEMMA ToolsResumed ==
  ASSUME Facts, ToolsInv, NEW s \in Server, NEW b \in Batch,
         Resumed(s, b, batch'[b]),
         \A u \in Server, v \in Work : (u # s \/ v # b) => task'[u][v] = task[u][v],
         \A a \in Agent : batch[b].ran[a] >= 1 => batch'[b].ran[a] >= 1,
         batch[b].said \subseteq batch'[b].said,
         batch[b].mixed => batch'[b].mixed,
         ToolsDone(task'[s][b], batch'[b]),
         StepsDone(batch'[b])
  PROVE  ToolsInv'
<1>1. \A c \in Batch \ {b} : batch'[c] = batch[c]
  BY DEF Resumed
<1>2. ASSUME NEW t \in Server, NEW c \in Batch, t # s \/ c # b
      PROVE  ToolsDone(task'[t][c], batch'[c])
  <2>1. task'[t][c] = task[t][c] /\ ToolsDone(task[t][c], batch[c])
    BY <1>2, WorkKinds DEF ToolsInv
  <2>2. CASE c # b
    BY <1>1, <2>1, <2>2
  <2>3. CASE c = b
    <3>1. Executed(task[t][c]) \subseteq Agent
      <4>1. task[t][c] \in TaskRec
        BY WorkKinds DEF Facts, Shapes
      <4> QED
        BY <4>1 DEF Executed, TaskRec
    <3> QED
      BY <2>1, <2>3, <3>1 DEF ToolsDone
  <2> QED
    BY <2>2, <2>3
<1>3. ASSUME NEW c \in Batch, c # b
      PROVE  StepsDone(batch'[c])
  BY <1>1, <1>3 DEF ToolsInv
<1>4. \A t \in Server, c \in Batch : ToolsDone(task'[t][c], batch'[c])
  BY <1>2
<1>5. \A c \in Batch : StepsDone(batch'[c])
  BY <1>3
<1> QED
  BY <1>4, <1>5 DEF ToolsInv

LEMMA ExecutedAgents ==
  ASSUME Facts, NEW s \in Server, NEW b \in Batch
  PROVE  /\ Executed(task[s][b]) \subseteq Agent
         /\ batch[b].ran \in [Agent -> Nat]
         /\ batch[b].stepped \subseteq Agent /\ task[s][b].agents \subseteq Agent
<1>1. task[s][b] \in TaskRec /\ batch[b] \in BatchRec
  BY WorkKinds DEF Facts, Shapes
<1> QED
  BY <1>1 DEF Executed, TaskRec, BatchRec

LEMMA ToolsResumption ==
  ASSUME Facts, ToolsInv, NEW s \in Server, NEW b \in Batch, Resume(s, b)
  PROVE  ToolsInv'
<1>0. b \in Work /\ Executed(task[s][b]) \subseteq Agent /\ batch[b].ran \in [Agent -> Nat]
      /\ ToolsDone(task[s][b], batch[b]) /\ StepsDone(batch[b])
      /\ batch[b].stepped \subseteq Agent /\ task[s][b].agents \subseteq Agent
  BY WorkKinds, ExecutedAgents DEF ToolsInv
<1>1. CASE Collect(s, b)
  <2>1. /\ \A u \in Server, v \in Work : (u # s \/ v # b) => task'[u][v] = task[u][v]
        /\ \/ task'[s][b].pc = "none" /\ batch' = batch
           \/ /\ task'[s][b].pc = "exec"
              /\ Resumed(s, b, batch'[b])
              /\ batch'[b].ran = batch[b].ran /\ batch'[b].said = batch[b].said
              /\ batch'[b].stepped = batch[b].stepped
              /\ batch[b].mixed => batch'[b].mixed
              /\ ~batch'[b].mixed => task'[s][b].rethink \in {{}, task'[s][b].agents}
    BY <1>1, CollectEffect
  <2>2. CASE task'[s][b].pc = "none" /\ batch' = batch
    <3>1. \A c \in Batch : ~Exists(c) => batch[c].stepped = {}
      BY NoBatchIs DEF Facts, BatchFacts
    <3>2. \A t \in Server, c \in Batch :
            task'[t][c] = task[t][c] \/ task'[t][c].pc \notin {"exec", "persist", "mark"}
      BY <2>1, <2>2, WorkKinds
    <3> QED
      BY <2>2, <3>1, <3>2, ToolsKept
  <2>3. CASE /\ task'[s][b].pc = "exec"
             /\ Resumed(s, b, batch'[b])
             /\ batch'[b].ran = batch[b].ran /\ batch'[b].said = batch[b].said
             /\ batch'[b].stepped = batch[b].stepped
             /\ batch[b].mixed => batch'[b].mixed
             /\ ~batch'[b].mixed => task'[s][b].rethink \in {{}, task'[s][b].agents}
    <3>1. ToolsDone(task'[s][b], batch'[b])
      BY <2>3 DEF ToolsDone, Executed
    <3>2. StepsDone(batch'[b])
      BY <1>0, <2>3 DEF StepsDone
    <3> QED
      BY <2>1, <2>3, <3>1, <3>2, ToolsResumed
  <2> QED
    BY <2>1, <2>2, <2>3
<1>2. CASE ExecTools(s, b)
  <2>1. /\ Resumed(s, b, batch'[b])
        /\ batch'[b].said = batch[b].said
        /\ batch'[b].stepped = batch[b].stepped /\ batch'[b].mixed = batch[b].mixed
        /\ \A a \in Agent : batch'[b].ran[a] =
              IF a \in Executed(task[s][b]) THEN batch[b].ran[a] + 1 ELSE batch[b].ran[a]
        /\ Step(s, b, "persist")
    BY <1>2, ExecEffect
  <2>2. /\ task'[s][b].pc = "persist"
        /\ task'[s][b].agents = task[s][b].agents /\ task'[s][b].rethink = task[s][b].rethink
        /\ \A u \in Server, v \in Work : (u # s \/ v # b) => task'[u][v] = task[u][v]
    BY <1>0, <2>1, TaskStep DEF Facts, Resuming
  <2>3. \A a \in Agent : /\ batch[b].ran[a] >= 1 => batch'[b].ran[a] >= 1
                         /\ a \in Executed(task[s][b]) => batch'[b].ran[a] >= 1
    BY <1>0, <2>1
  <2>4. Executed(task'[s][b]) = Executed(task[s][b])
    BY <2>2 DEF Executed
  <2>5. ToolsDone(task'[s][b], batch'[b])
    <3>1. task[s][b].pc = "exec"
      BY <1>2 DEF ExecTools
    <3> QED
      BY <1>0, <2>1, <2>2, <2>3, <2>4, <3>1 DEF ToolsDone
  <2>6. StepsDone(batch'[b])
    BY <1>0, <2>1, <2>3 DEF StepsDone
  <2> QED
    BY <2>1, <2>2, <2>3, <2>5, <2>6, ToolsResumed
<1>3. CASE Persist(s, b)
  <2>1. /\ Resumed(s, b, batch'[b])
        /\ batch'[b].said = batch[b].said \cup (Executed(task[s][b]) \cap Agent)
        /\ batch'[b].ran = batch[b].ran
        /\ batch'[b].stepped = batch[b].stepped /\ batch'[b].mixed = batch[b].mixed
        /\ Step(s, b, "mark")
    BY <1>3, PersistEffect
  <2>2. /\ task'[s][b].pc = "mark"
        /\ task'[s][b].agents = task[s][b].agents /\ task'[s][b].rethink = task[s][b].rethink
        /\ \A u \in Server, v \in Work : (u # s \/ v # b) => task'[u][v] = task[u][v]
    BY <1>0, <2>1, TaskStep DEF Facts, Resuming
  <2>4. Executed(task'[s][b]) = Executed(task[s][b])
    BY <2>2 DEF Executed
  <2>5. ToolsDone(task'[s][b], batch'[b])
    <3>1. task[s][b].pc = "persist"
      BY <1>3 DEF Persist
    <3> QED
      BY <1>0, <2>1, <2>2, <2>4, <3>1 DEF ToolsDone
  <2>6. StepsDone(batch'[b])
    BY <1>0, <2>1 DEF StepsDone
  <2> QED
    BY <2>1, <2>2, <2>5, <2>6, ToolsResumed
<1>4. CASE MarkSteps(s, b)
  <2>1. /\ Resumed(s, b, batch'[b])
        /\ batch'[b].stepped = batch[b].stepped \cup task[s][b].agents
        /\ batch'[b].ran = batch[b].ran /\ batch'[b].said = batch[b].said
        /\ batch'[b].mixed = batch[b].mixed
        /\ Step(s, b, "next")
    BY <1>4, MarkEffect
  <2>2. /\ task'[s][b].pc = "next"
        /\ \A u \in Server, v \in Work : (u # s \/ v # b) => task'[u][v] = task[u][v]
    BY <1>0, <2>1, TaskStep DEF Facts, Resuming
  <2>5. ToolsDone(task'[s][b], batch'[b])
    BY <2>2 DEF ToolsDone
  <2>6. StepsDone(batch'[b])
    <3>1. task[s][b].pc = "mark"
      BY <1>4 DEF MarkSteps
    <3> QED
      BY <1>0, <2>1, <3>1 DEF StepsDone, ToolsDone
  <2> QED
    BY <2>1, <2>2, <2>5, <2>6, ToolsResumed
<1>5. CASE PrepareNext(s, b)
  <2>1. UNCHANGED batch /\ (DropTask(s, b) \/ Step(s, b, "send"))
    BY <1>5 DEF PrepareNext
  <2>2. /\ task'[s][b].pc \in {"none", "send"}
        /\ \A u \in Server, v \in Work : (u # s \/ v # b) => task'[u][v] = task[u][v]
    BY <1>0, <2>1, TaskStep, TaskDropped DEF Facts, Submitting
  <2>3. \A c \in Batch : ~Exists(c) => batch[c].stepped = {}
    BY NoBatchIs DEF Facts, BatchFacts
  <2>4. \A t \in Server, c \in Batch :
          task'[t][c] = task[t][c] \/ task'[t][c].pc \notin {"exec", "persist", "mark"}
    BY <2>2, WorkKinds
  <2> QED
    BY <2>1, <2>3, <2>4, ToolsKept
<1> QED
  BY <1>1, <1>2, <1>3, <1>4, <1>5 DEF Resume

(* The other steps of a server do not touch what a tool call left.          *)
LEMMA ToolsServer ==
  ASSUME Facts, ToolsInv, NEW s \in Server, ServerStep(s)
  PROVE  ToolsInv'
<1> DEFINE Left(b) ==
             /\ batch'[b].ran = batch[b].ran /\ batch'[b].said = batch[b].said
             /\ batch'[b].mixed = batch[b].mixed /\ batch'[b].stepped = batch[b].stepped
           Idle(t, b) ==
             task'[t][b] = task[t][b] \/ task'[t][b].pc \notin {"exec", "persist", "mark"}
<1>a. ASSUME \A b \in Batch : Left(b), \A t \in Server, b \in Batch : Idle(t, b)
      PROVE  ToolsInv'
  <2>1. \A b \in Batch : ~Exists(b) => batch[b].stepped = {}
    BY NoBatchIs DEF Facts, BatchFacts
  <2> QED
    BY <1>a, <2>1, ToolsKept
<1>1. CASE Election(s)
  BY <1>1, <1>a, ElectionEffect DEF others
<1>2. CASE ShutsDown(s) \/ Dies(s)
  <2>1. Stopped(s)
    BY <1>2, StopEffect DEF ShutsDown, Dies, StopsPolling
  <2> QED
    BY <1>a, <2>1, WorkKinds DEF Stopped
<1>3. ASSUME NEW j \in Job, CreateBatch(s, j)
      PROVE  ToolsInv'
  <2>1. UNCHANGED batch /\ Step(s, j, "send") /\ j \in Work
    BY <1>3, WorkKinds DEF CreateBatch
  <2>2. \A t \in Server, b \in Batch : task'[t][b] = task[t][b]
    BY <2>1, WorkKinds, TaskStep DEF Facts, Submitting
  <2> QED
    BY <1>a, <2>1, <2>2
<1>4. CASE PollStarts(s) \/ PollEnds(s) \/ PollAborts(s) \/ \E b \in Batch : Retrieve(s, b) \/ Fetch(s, b)
  <2>1. UNCHANGED <<batch, task>>
    BY <1>4 DEF PollStarts, PollEnds, PollAborts, Retrieve, Fetch
  <2> QED
    BY <1>a, <2>1
<1>5. CASE WriteStatuses(s)
  <2>1. \A b \in Batch : Left(b)
    BY <1>5, WriteStatusesEffect
  <2>2. UNCHANGED task
    BY <1>5 DEF WriteStatuses
  <2> QED
    BY <1>a, <2>1, <2>2
<1>6. CASE ApplyItems(s)
  <2>1. CASE GivesUp(s)
    BY <1>a, <2>1 DEF GivesUp
  <2>2. CASE Applied(s)
    <3>1. ASSUME NEW b \in Batch
          PROVE  Left(b)
      <4>1. PICK item \in [Agent -> ItemStatus] : batch'[b] = [batch[b] EXCEPT !.item = item]
        BY <2>2 DEF Applied
      <4>2. batch[b] \in BatchRec
        BY DEF Facts, Shapes
      <4>3. batch'[b].ran = batch[b].ran /\ batch'[b].said = batch[b].said
            /\ batch'[b].stepped = batch[b].stepped
        BY <4>1, <4>2 DEF BatchRec
      <4>4. batch'[b].mixed = batch[b].mixed
        BY <4>1, <4>2 DEF BatchRec
      <4> QED
        BY <4>3, <4>4
    <3>2. ASSUME NEW t \in Server, NEW b \in Batch
          PROVE  Idle(t, b)
      <4>1. [NoTask EXCEPT !.pc = "collect"].pc = "collect"
        BY DEF NoTask
      <4> QED
        <5>1. CASE t = s /\ b \in Completed(s)
          BY <2>2, <4>1, <5>1 DEF Applied
        <5>2. CASE t # s \/ b \notin Completed(s)
          BY <2>2, <5>2, WorkKinds DEF Applied
        <5> QED
          BY <5>1, <5>2
    <3> QED
      BY <1>a, <3>1, <3>2
  <2> QED
    BY <1>6, <2>1, <2>2, ApplyItemsEffect
<1>7. ASSUME NEW b \in Batch, Resume(s, b)
      PROVE  ToolsInv'
  BY <1>7, ToolsResumption
<1>8. ASSUME NEW w \in Work, Submit(s, w) \/ SubmitFails(s, w)
      PROVE  ToolsInv'
  <2>1. CASE Send(s, w)
    <3>1. PICK n \in Batch : Sent(n, s, w)
      BY <2>1, SendEffect
    <3>2. \A b \in Batch : Exists(b) => Left(b)
      BY <3>1 DEF Sent, Exists
    <3>3. \A b \in Batch : ~Exists(b) => batch'[b].stepped = {}
      BY <3>1, NoBatchIs DEF Sent, Facts, BatchFacts
    <3>4. \A t \in Server, b \in Batch : Idle(t, b)
      BY <3>1, WorkKinds DEF Sent
    <3> QED
      BY <3>2, <3>3, <3>4, ToolsKept
  <2>2. CASE CreateRow(s, w)
    <3>1. PICK n \in Batch : RowCreated(n, s, w)
      BY <2>2, CreateRowEffect
    <3>2. \A b \in Batch : Left(b)
      BY <3>1 DEF RowCreated, Same
    <3>3. \A t \in Server, b \in Batch : Idle(t, b)
      BY <3>1, WorkKinds DEF RowCreated
    <3> QED
      BY <1>a, <3>2, <3>3
  <2>3. CASE CreateItems(s, w)
    <3>1. PICK n \in Batch : ItemsCreated(n, s, w)
      BY <2>3, CreateItemsEffect
    <3>2. \A b \in Batch : Left(b)
      BY <3>1 DEF ItemsCreated, Same
    <3>3. \A t \in Server, b \in Batch : Idle(t, b)
      BY <3>1, WorkKinds DEF ItemsCreated
    <3> QED
      BY <1>a, <3>2, <3>3
  <2>4. CASE SubmitFails(s, w)
    <3>1. UNCHANGED batch /\ DropTask(s, w)
      BY <2>4 DEF SubmitFails
    <3>2. \A t \in Server, b \in Batch : Idle(t, b)
      BY <3>1, WorkKinds, TaskDropped DEF Facts
    <3> QED
      BY <1>a, <3>1, <3>2
  <2> QED
    BY <1>8, <2>1, <2>2, <2>3, <2>4 DEF Submit
<1> QED
  BY <1>1, <1>2, <1>3, <1>4, <1>5, <1>6, <1>7, <1>8 DEF ServerStep

LEMMA ToolsStep == Facts /\ ToolsInv /\ [Next]_vars => ToolsInv'
<1> SUFFICES ASSUME Facts, ToolsInv, [Next]_vars
             PROVE  ToolsInv'
  OBVIOUS
<1>a. ASSUME \A b \in Batch :
               /\ batch'[b].ran = batch[b].ran /\ batch'[b].said = batch[b].said
               /\ batch'[b].mixed = batch[b].mixed /\ batch'[b].stepped = batch[b].stepped,
             UNCHANGED task
      PROVE  ToolsInv'
  <2>1. \A b \in Batch : ~Exists(b) => batch[b].stepped = {}
    BY NoBatchIs DEF Facts, BatchFacts
  <2> QED
    BY <1>a, <2>1, ToolsKept
<1>1. CASE UNCHANGED vars
  BY <1>1, <1>a DEF vars
<1>2. ASSUME NEW s \in Server, ServerStep(s)
      PROVE  ToolsInv'
  BY <1>2, ToolsServer
<1>3. ASSUME NEW b \in Batch, ProviderEnds(b)
      PROVE  ToolsInv'
  <2>1. UNCHANGED task
    BY <1>3 DEF ProviderEnds
  <2>2. Answered(b)
    BY <1>3, ProviderEffect
  <2>3. \A c \in Batch :
               /\ batch'[c].ran = batch[c].ran /\ batch'[c].said = batch[c].said
               /\ batch'[c].mixed = batch[c].mixed /\ batch'[c].stepped = batch[c].stepped
    BY <2>2 DEF Answered
  <2> QED
    BY <1>a, <2>1, <2>3
<1>4. ASSUME NEW j \in Job, CancelStep(j)
      PROVE  ToolsInv'
  <2>1. UNCHANGED task
    BY <1>4, CancelEffect
  <2>2. \A c \in Batch :
               /\ batch'[c].ran = batch[c].ran /\ batch'[c].said = batch[c].said
               /\ batch'[c].mixed = batch[c].mixed /\ batch'[c].stepped = batch[c].stepped
    BY <1>4, CancelEffect
  <2> QED
    BY <1>a, <2>1, <2>2
<1>5. CASE DropDead /\ UNCHANGED <<others, faults>>
  BY <1>5, <1>a DEF others
<1> QED
  BY <1>1, <1>2, <1>3, <1>4, <1>5 DEF Next

(* A step is marked completed only once its tool has been executed and its  *)
(* messages are stored, although execution, storing and marking are steps   *)
(* of their own (resume_step_after_request), unless rethink_memory calls of *)
(* other agents displaced it: of any number of agents, servers and batches. *)
THEOREM StepsAreDone == Spec => []StepDoneMeansToolRan
<1>1. Init => Facts /\ ToolsInv
  <2> SUFFICES ASSUME Init
               PROVE  ToolsInv
    BY FactsInit
  <2>1. /\ batch = [b \in Batch |-> NoBatch]
        /\ task = [s \in Server |-> [w \in Work |-> NoTask]]
    BY DEF Init
  <2>2. \A s \in Server, b \in Batch : task[s][b].pc = "none"
    BY <2>1, WorkKinds, NoOthers
  <2> QED
    BY <2>1, <2>2, NoBatchIs DEF ToolsInv, ToolsDone, StepsDone
<1>2. Facts /\ ToolsInv /\ [Next]_vars => Facts' /\ ToolsInv'
  BY FactsStep, ToolsStep
<1>3. ToolsInv => StepDoneMeansToolRan
  BY DEF ToolsInv, StepsDone, StepDoneMeansToolRan
<1> QED
  BY <1>1, <1>2, <1>3, PTL DEF Spec

-----------------------------------------------------------------------------
(* While no leader's connection was closed under it there is one poll, and  *)
(* what is done to the batches is done in its order.                        *)

LEMMA OnePoll ==
  ASSUME Base, Intact, NEW s \in Server, NEW t \in Server,
         poll[s].pc # "idle", poll[t].pc # "idle"
  PROVE  s = t
  BY DEF Base, Intact, LossNeedsRecycle, OnePollerInv, PollerLeads, HoldsLock

(* It stays closed: no fault takes the loss of a lock back.                 *)
LEMMA FaultKinds ==
  ASSUME Facts, [Next]_vars
  PROVE  \/ faults' = faults
         \/ \E kind : Fault(kind)
<1>1. CASE UNCHANGED vars
  BY <1>1 DEF vars
<1>2. ASSUME NEW s \in Server, ServerStep(s)
      PROVE  faults' = faults \/ \E kind : Fault(kind)
  <2>1. CASE Election(s)
    BY <2>1 DEF Election
  <2>2. CASE ShutsDown(s) \/ Dies(s)
    BY <2>2 DEF ShutsDown, Dies
  <2>3. ASSUME NEW j \in Job, CreateBatch(s, j)
        PROVE  faults' = faults
    BY <2>3 DEF CreateBatch
  <2>4. CASE PollStarts(s) \/ WriteStatuses(s) \/ ApplyItems(s) \/ PollEnds(s) \/ PollAborts(s)
    BY <2>4 DEF PollStarts, WriteStatuses, ApplyItems, PollEnds, PollAborts
  <2>5. ASSUME NEW b \in Batch, Retrieve(s, b) \/ Fetch(s, b) \/ Resume(s, b)
        PROVE  faults' = faults \/ \E kind : Fault(kind)
    BY <2>5 DEF Retrieve, Fetch, Resume, Collect, ExecTools, Persist, MarkSteps, PrepareNext
  <2>6. ASSUME NEW w \in Work, Submit(s, w) \/ SubmitFails(s, w)
        PROVE  faults' = faults \/ \E kind : Fault(kind)
    BY <2>6 DEF Submit, Send, CreateRow, CreateItems, SubmitFails
  <2> QED
    BY <1>2, <2>1, <2>2, <2>3, <2>4, <2>5, <2>6 DEF ServerStep
<1>3. ASSUME NEW b \in Batch, ProviderEnds(b)
      PROVE  faults' = faults
  BY <1>3 DEF ProviderEnds
<1>4. ASSUME NEW j \in Job, CancelStep(j)
      PROVE  faults' = faults
  BY <1>4 DEF CancelStep, CancelJob, CancelLists, CancelAtProvider, CancelRow
<1>5. CASE DropDead /\ UNCHANGED <<others, faults>>
  BY <1>5
<1> QED
  BY <1>1, <1>2, <1>3, <1>4, <1>5 DEF Next

LEMMA RecycledStays ==
  ASSUME Facts, [Next]_vars
  PROVE  Intact' => Intact
<1>1. ASSUME NEW kind, Fault(kind)
      PROVE  Intact' => Intact
  BY <1>1 DEF Fault, Intact
<1> QED
  BY <1>1, FaultKinds DEF Intact

(* What is lost is only lost by a recycled connection.                      *)
LEMMA LossStep ==
  ASSUME Base, [Next]_vars
  PROVE  LossNeedsRecycle'
<1> SUFFICES ASSUME Intact'
             PROVE  lost' = {}
  BY DEF LossNeedsRecycle, Intact
<1>0. Intact /\ lost = {}
  BY RecycledStays DEF Base, LossNeedsRecycle, Intact
<1>1. ASSUME UNCHANGED lockVars
      PROVE  lost' = {}
  BY <1>0, <1>1 DEF lockVars
<1>2. CASE UNCHANGED vars
  BY <1>1, <1>2 DEF vars
<1>3. ASSUME NEW s \in Server, ServerStep(s)
      PROVE  lost' = {}
  <2>1. JobStep(s) \/ PollingStep(s) \/ Election(s) \/ ShutsDown(s) \/ Dies(s)
    BY <1>3 DEF ServerStep, JobStep, PollingStep
  <2>2. CASE JobStep(s)
    BY <1>1, <2>2, JobStepFrame
  <2>3. CASE PollingStep(s)
    BY <1>1, <2>3, PollingStepFrame DEF Base, OnePollerInv
  <2>4. CASE ShutsDown(s) \/ Dies(s)
    BY <1>0, <2>4 DEF ShutsDown, Shutdown, Dies, Crash
  <2>5. CASE Election(s)
    <3>1. CASE Elect(s) \/ LeadFails(s) \/ Exit(s)
      BY <1>0, <3>1 DEF Elect, Start, TryLock, Retry, Lead, LeadFails, Exit
    <3>2. CASE Recycle(s) /\ sched[s] \notin {"acquired", "leader"}
      BY <1>0, <3>2 DEF Recycle
    <3>3. CASE Fault("recycle")
      BY <3>3 DEF Fault, Intact
    <3> QED
      BY <2>5, <3>1, <3>2, <3>3 DEF Election
  <2> QED
    BY <2>1, <2>2, <2>3, <2>4, <2>5
<1>4. ASSUME NEW b \in Batch, ProviderEnds(b)
      PROVE  lost' = {}
  BY <1>1, <1>4 DEF ProviderEnds
<1>5. ASSUME NEW j \in Job, CancelStep(j)
      PROVE  lost' = {}
  BY <1>1, <1>5 DEF CancelStep, CancelJob, CancelLists, CancelAtProvider, CancelRow
<1>6. CASE DropDead /\ UNCHANGED <<others, faults>>
  BY <1>0, <1>6 DEF DropDead
<1> QED
  BY <1>2, <1>3, <1>4, <1>5, <1>6 DEF Next

LEMMA BaseStep == Base /\ [Next]_vars => Base'
  BY FactsStep, OnePollerStep, LossStep DEF Base

LEMMA BaseInit == Init => Base /\ Intact
<1> SUFFICES ASSUME Init
             PROVE  Base /\ Intact
  OBVIOUS
<1>1. OnePollerInv
  BY DEF Init, LockInit, OnePollerInv, LockTypeOK, HoldsLock, PollFun, PollerLeads, NoPoll, Up
<1>2. LossNeedsRecycle /\ Intact
  BY DEF Init, LockInit, LossNeedsRecycle, Intact
<1> QED
  BY <1>1, <1>2, FactsInit DEF Base

-----------------------------------------------------------------------------
(* A poll and its resumptions.                                              *)

(* A step that touches no poll.                                             *)
LEMMA PollKept ==
  ASSUME PollInv, UNCHANGED poll,
         \A b \in Batch : batch[b].row \notin {"none", "running"} =>
           batch'[b].row \notin {"none", "running"},
         \A t \in Server, b \in Batch : task'[t][b].pc # "none" => task[t][b].pc # "none"
  PROVE  PollInv'
<1>1. \A t \in Server : Completed(t)' = Completed(t)
  BY DEF Completed
<1> QED
  BY <1>1 DEF PollInv

(* A step of one poll, which resumes nothing yet.                           *)
LEMMA PollMoved ==
  ASSUME PollInv, NEW s \in Server,
         \A t \in Server \ {s} : poll'[t] = poll[t],
         poll[s].pc # "resume",
         \A b \in Batch : batch'[b].row = batch[b].row,
         UNCHANGED task,
         poll'[s].pc \in {"fetch", "resume"} =>
           \A b \in Batch : b \in Completed(s)' => batch[b].row \notin {"none", "running"}
  PROVE  PollInv'
<1>1. \A t \in Server \ {s} : Completed(t)' = Completed(t)
  BY DEF Completed
<1>2. \A b \in Batch : task[s][b].pc = "none"
  BY DEF PollInv
<1> QED
  BY <1>1, <1>2 DEF PollInv

LEMMA PollsPolling ==
  ASSUME Base, Intact, PollInv, NEW s \in Server, PollingStep(s)
  PROVE  PollInv'
<1>f. Facts
  BY DEF Base
<1>p. poll[s] \in PollRec /\ poll \in [Server -> PollRec]
  BY <1>f DEF Facts, Shapes
<1>1. CASE PollStarts(s)
  <2> DEFINE p == [[NoPoll EXCEPT !.pc = "retrieve"] EXCEPT !.seen = Listed]
  <2>1. /\ UNCHANGED <<batch, task>> /\ poll[s].pc = "idle"
        /\ SetPoll(s, p)
    BY <1>1 DEF PollStarts
  <2>2. p.pc = "retrieve"
    BY DEF NoPoll
  <2> HIDE DEF p
  <2>3. poll'[s].pc = "retrieve" /\ \A t \in Server \ {s} : poll'[t] = poll[t]
    BY <1>p, <2>1, <2>2 DEF SetPoll
  <2> QED
    BY <2>1, <2>3, PollMoved
<1>2. ASSUME NEW b \in Batch, Retrieve(s, b)
      PROVE  PollInv'
  <2>1. PICK st : SetPoll(s, [poll[s] EXCEPT !.res[b] = st])
    BY <1>2 DEF Retrieve
  <2> DEFINE p == [poll[s] EXCEPT !.res[b] = st]
  <2>2. p.pc = poll[s].pc
    BY <1>p DEF PollRec
  <2>3. SetPoll(s, p)
    BY <2>1
  <2> HIDE DEF p
  <2>4. poll'[s].pc = poll[s].pc /\ \A t \in Server \ {s} : poll'[t] = poll[t]
    BY <1>p, <2>2, <2>3 DEF SetPoll
  <2>5. poll[s].pc = "retrieve" /\ UNCHANGED <<batch, task>>
    BY <1>2 DEF Retrieve
  <2> QED
    BY <2>4, <2>5, PollMoved
<1>3. ASSUME NEW b \in Batch, Fetch(s, b)
      PROVE  PollInv'
  <2>1. PICK part : SetPoll(s, [poll[s] EXCEPT !.fetched = @ \cup {b},
                                      !.got = @ \cup {<<b, x[1], x[2]>> : x \in part}])
    BY <1>3 DEF Fetch
  <2> DEFINE more == {<<b, x[1], x[2]>> : x \in part}
             q == [poll[s] EXCEPT !.fetched = poll[s].fetched \cup {b}]
             p == [q EXCEPT !.got = poll[s].got \cup more]
  <2>2. SetPoll(s, p)
    BY <2>1, <1>p DEF PollRec, SetPoll
  <2> HIDE DEF more
  <2>3. p.pc = poll[s].pc /\ p.seen = poll[s].seen /\ p.res = poll[s].res
    BY <1>p DEF PollRec
  <2> HIDE DEF p, q
  <2>4. /\ poll'[s].pc = poll[s].pc /\ poll'[s].seen = poll[s].seen /\ poll'[s].res = poll[s].res
        /\ \A t \in Server \ {s} : poll'[t] = poll[t]
    BY <1>p, <2>2, <2>3 DEF SetPoll
  <2>5. poll[s].pc = "fetch" /\ UNCHANGED <<batch, task>>
    BY <1>3 DEF Fetch
  <2>6. Completed(s)' = Completed(s)
    BY <2>4 DEF Completed
  <2> QED
    BY <2>4, <2>5, <2>6, PollMoved DEF PollInv
<1>4. CASE PollAborts(s)
  <2>1. /\ UNCHANGED <<batch, task>> /\ poll[s].pc # "resume"
        /\ SetPoll(s, NoPoll)
    BY <1>4 DEF PollAborts
  <2>2. poll'[s].pc = "idle" /\ \A t \in Server \ {s} : poll'[t] = poll[t]
    BY <1>p, <2>1, NoOthers DEF SetPoll
  <2> QED
    BY <2>1, <2>2, PollMoved
<1>5. CASE PollEnds(s)
  <2>1. /\ UNCHANGED <<batch, task>> /\ SetPoll(s, NoPoll)
        /\ \A b \in Completed(s) : task[s][b].pc = "none"
    BY <1>5 DEF PollEnds
  <2>2. poll'[s].pc = "idle" /\ \A t \in Server \ {s} : poll'[t] = poll[t]
    BY <1>p, <2>1, NoOthers DEF SetPoll
  <2>3. \A t \in Server \ {s} : Completed(t)' = Completed(t)
    BY <2>2 DEF Completed
  <2>4. \A b \in Batch : task[s][b].pc = "none"
    BY <2>1 DEF PollInv
  <2> QED
    BY <2>1, <2>2, <2>3, <2>4 DEF PollInv
<1>6. CASE WriteStatuses(s)
  <2>1. /\ poll[s].pc = "retrieve" /\ UNCHANGED task
        /\ \A b \in Batch : batch'[b].row = IF b \in poll[s].seen THEN poll[s].res[b] ELSE batch[b].row
    BY <1>6, <1>f, WriteStatusesEffect DEF WriteStatuses
  <2>2. /\ \A t \in Server \ {s} : poll'[t] = poll[t]
        /\ \/ poll'[s].pc = "idle"
           \/ poll'[s].seen = poll[s].seen /\ poll'[s].res = poll[s].res
    <3>1. SetPoll(s, NoPoll) \/ SetPoll(s, [poll[s] EXCEPT !.pc = "fetch"])
      BY <1>6 DEF WriteStatuses
    <3>2. CASE SetPoll(s, NoPoll)
      BY <1>p, <3>2, NoOthers DEF SetPoll
    <3>3. CASE SetPoll(s, [poll[s] EXCEPT !.pc = "fetch"])
      BY <1>p, <3>3 DEF SetPoll, PollRec
    <3> QED
      BY <3>1, <3>2, <3>3
  <2>3. \A t \in Server \ {s} : poll[t].pc = "idle"
    BY <2>1, OnePoll
  <2>4. \A t \in Server, b \in Batch : task[t][b].pc = "none"
    BY <2>1, <2>3 DEF PollInv
  <2>5. poll'[s].pc # "idle" => \A b \in Batch : b \in Completed(s)' =>
          batch'[b].row \notin {"none", "running"}
    BY <2>1, <2>2 DEF Completed
  <2> QED
    BY <2>1, <2>2, <2>3, <2>4, <2>5 DEF PollInv
<1>7. CASE ApplyItems(s)
  <2>0. poll[s].pc = "fetch"
    BY <1>7 DEF ApplyItems
  <2>1. CASE GivesUp(s)
    <3>1. UNCHANGED <<batch, task>> /\ SetPoll(s, NoPoll)
      BY <2>1 DEF GivesUp
    <3>2. poll'[s].pc = "idle" /\ \A t \in Server \ {s} : poll'[t] = poll[t]
      BY <1>p, <3>1, NoOthers DEF SetPoll
    <3> QED
      BY <2>0, <3>1, <3>2, PollMoved
  <2>2. CASE Applied(s)
    <3>1. \A b \in Batch : batch'[b].row = batch[b].row
      <4> SUFFICES ASSUME NEW b \in Batch
                   PROVE  batch'[b].row = batch[b].row
        OBVIOUS
      <4>1. PICK item \in [Agent -> ItemStatus] : batch'[b] = [batch[b] EXCEPT !.item = item]
        BY <2>2 DEF Applied
      <4>2. batch[b] \in BatchRec
        BY <1>f DEF Facts, Shapes
      <4> QED
        BY <4>1, <4>2 DEF BatchRec
    <3>2. \A t \in Server, w \in Work : t # s \/ w \notin Completed(s) => task'[t][w] = task[t][w]
      BY <2>2 DEF Applied
    <3>3. /\ poll'[s].pc = "resume" /\ poll'[s].seen = poll[s].seen /\ poll'[s].res = poll[s].res
          /\ \A t \in Server \ {s} : poll'[t] = poll[t]
      <4>1. SetPoll(s, [poll[s] EXCEPT !.pc = "resume"])
        BY <2>2 DEF Applied
      <4> QED
        BY <1>p, <4>1 DEF SetPoll, PollRec
    <3>4. \A t \in Server : Completed(t)' = Completed(t)
      BY <3>3 DEF Completed
    <3>5. \A b \in Batch : task[s][b].pc = "none"
      BY <2>0 DEF PollInv
    <3>6. \A t \in Server : poll'[t].pc \in {"fetch", "resume"} =>
            \A b \in Batch : b \in Completed(t) => batch'[b].row \notin {"none", "running"}
      BY <2>0, <3>1, <3>3 DEF PollInv
    <3>7. \A t \in Server, b \in Batch :
            task'[t][b].pc # "none" => poll'[t].pc = "resume" /\ b \in Completed(t)
      BY <3>2, <3>3, <3>5, WorkKinds DEF PollInv
    <3> QED
      BY <3>4, <3>6, <3>7 DEF PollInv
  <2> QED
    BY <1>7, <1>f, <2>1, <2>2, ApplyItemsEffect
<1> QED
  BY <1>1, <1>2, <1>3, <1>4, <1>5, <1>6, <1>7 DEF PollingStep

-----------------------------------------------------------------------------
(* Most steps start nothing: the batches stay what they are, a row at most  *)
(* becomes cancelled, a poll goes on or ends with its resumptions, a task   *)
(* goes on or ends, and no job is completed.                                *)
GoesOn(t, w) ==
  \/ task'[t][w].pc = "none"
  \/ task'[t][w].pc = task[t][w].pc /\ task'[t][w].new = task[t][w].new
  \/ /\ w \in Batch
     /\ task[t][w].pc = "collect" /\ task'[t][w].pc = "exec"
     /\ \E a \in Agent : batch[w].item[a] = "completed"
  \/ /\ w \in Batch
     /\ task[t][w].pc \in Resuming \ {"collect"}
     /\ task'[t][w].pc \in {"persist", "mark", "next", "send"}
SameBatches ==
  \A b \in Batch :
    /\ batch'[b].job = batch[b].job /\ batch'[b].turn = batch[b].turn
    /\ \A a \in Agent : batch[b].item[a] = "completed" => batch'[b].item[a] = "completed"
    /\ \/ batch'[b].row = batch[b].row
       \/ batch[b].row # "none" /\ batch'[b].row = "cancelled"
SameRuns == \A b \in Batch : batch'[b].ran = batch[b].ran
SamePolls ==
  \A t \in Server :
    \/ poll'[t].pc = "idle" /\ \A b \in Batch : task'[t][b].pc = "none"
    \/ /\ poll'[t].pc = poll[t].pc /\ poll'[t].seen = poll[t].seen
       /\ poll[t].pc # "retrieve" => poll'[t].res = poll[t].res
SameTasks == \A t \in Server, w \in Work : GoesOn(t, w)
SameJobs ==
  \A j \in Job :
    /\ job'[j] = "completed" => job[j] = "completed"
    /\ job'[j] = "none" => job[j] = "none"
Calm == SameBatches /\ SamePolls /\ SameTasks

LEMMA LastSame ==
  ASSUME SameBatches
  PROVE  /\ \A b \in Batch : IsLast(b)' <=> IsLast(b)
         /\ \A w \in Work : JobOf(w)' = JobOf(w)
         /\ \A b \in Batch : batch'[b].row \in {"none", "running"} => batch'[b].row = batch[b].row
  BY WorkKinds DEF SameBatches, IsLast, JobOf, Work

LEMMA CalmPoll ==
  ASSUME Calm, PollInv
  PROVE  PollInv'
<1>1. \A t \in Server : poll'[t].pc \in {"fetch", "resume"} =>
        poll'[t].pc = poll[t].pc /\ Completed(t)' = Completed(t)
  BY DEF Calm, SamePolls, Completed
<1>2. \A t \in Server, b \in Batch : task'[t][b].pc # "none" =>
        /\ task[t][b].pc # "none"
        /\ poll'[t].pc = poll[t].pc
  BY WorkKinds DEF Calm, SamePolls, SameTasks, GoesOn, Resuming
<1> QED
  BY <1>1, <1>2, LastSame DEF PollInv, Calm

LEMMA CalmRan ==
  ASSUME Calm, SameRuns, RanInv
  PROVE  RanInv'
<1>1. \A b \in Batch : Unrun(b)' <=> Unrun(b)
  BY DEF SameRuns, Unrun
<1>2. \A t \in Server : Early(t)' => Early(t) /\ poll'[t].seen = poll[t].seen
  BY DEF Calm, SamePolls, Early
<1>3. \A t \in Server, b \in Batch : task'[t][b].pc \in {"collect", "exec"} =>
        task[t][b].pc \in {"collect", "exec"}
  BY WorkKinds DEF Calm, SameTasks, GoesOn
<1> QED
  BY <1>1, <1>2, <1>3, LastSame DEF RanInv, SameRuns, Calm

LEMMA CalmLast ==
  ASSUME Facts, Calm, LastInv
  PROVE  LastInv'
<1>1. \A t \in Server : Early(t)' => Early(t) /\ poll'[t].seen = poll[t].seen
  BY DEF Calm, SamePolls, Early
<1>2. \A t \in Server, b \in Batch : task'[t][b].pc \in Resuming \cup {"send"} =>
        task[t][b].pc \in Resuming \cup {"send"}
  BY WorkKinds DEF Calm, SameTasks, GoesOn, Resuming
<1>3. \A t \in Server, w \in Work : Owns(t, w)' =>
        /\ Owns(t, w) /\ task'[t][w].new = task[t][w].new /\ task[t][w].new \in Batch
        /\ w \in Batch => poll'[t].seen = poll[t].seen
  BY DEF Calm, SamePolls, SameTasks, GoesOn, Owns, Facts, Submissions
<1>4. ActiveLast'
  BY <1>1, <1>2, LastSame DEF LastInv, ActiveLast, Calm
<1>5. ItemsIn'
  <2> SUFFICES ASSUME NEW t \in Server, NEW b \in Batch, task'[t][b].pc \notin {"none", "collect"}
               PROVE  \E a \in Agent : batch'[b].item[a] = "completed"
    BY DEF ItemsIn
  <2>1. task[t][b].pc \notin {"none", "collect"} \/ \E a \in Agent : batch[b].item[a] = "completed"
    BY WorkKinds DEF Calm, SameTasks, GoesOn, Resuming
  <2> QED
    BY <2>1 DEF LastInv, ItemsIn, Calm, SameBatches
<1>6. OwnedLast'
  <2> SUFFICES ASSUME NEW t \in Server, NEW w \in Work, Owns(t, w)',
                      NEW n \in Batch, n = task'[t][w].new
               PROVE  IsLast(n)'
    BY <1>3 DEF OwnedLast
  <2> QED
    BY <1>3, LastSame DEF LastInv, OwnedLast, Calm
<1>7. OwnedUnseen'
  BY <1>3, WorkKinds DEF LastInv, OwnedUnseen
<1>8. FirstSend'
  BY WorkKinds DEF LastInv, FirstSend, Calm, SameTasks, GoesOn, SameBatches
<1> QED
  BY <1>4, <1>5, <1>6, <1>7, <1>8 DEF LastInv

LEMMA CalmJob ==
  ASSUME Calm, SameJobs, JobInv
  PROVE  JobInv'
<1>1. \A t \in Server : Early(t)' => Early(t) /\ poll'[t].seen = poll[t].seen
  BY DEF Calm, SamePolls, Early
<1>2. \A t \in Server, w \in Work : task'[t][w].pc # "none" => task[t][w].pc # "none"
  BY DEF Calm, SameTasks, GoesOn, Resuming
<1> QED
  BY <1>1, <1>2, LastSame, WorkKinds DEF JobInv, Calm, SameBatches, SameJobs

(* The steps that start nothing.                                            *)
LEMMA NothingMoves ==
  ASSUME UNCHANGED <<batch, poll, task, job>>
  PROVE  Calm /\ SameRuns /\ SameJobs
  BY DEF Calm, SameBatches, SamePolls, SameTasks, GoesOn, SameRuns, SameJobs

LEMMA OneTaskMoves ==
  ASSUME NEW s \in Server, NEW w \in Work,
         \A u \in Server, v \in Work : (u # s \/ v # w) => task'[u][v] = task[u][v],
         GoesOn(s, w)
  PROVE  SameTasks
  BY DEF SameTasks, GoesOn

LEMMA PollsSame ==
  ASSUME UNCHANGED poll
  PROVE  SamePolls
  BY DEF SamePolls

LEMMA ResumedSame ==
  ASSUME NEW s \in Server, NEW b \in Batch, Resumed(s, b, batch'[b])
  PROVE  SameBatches
  BY DEF Resumed, SameBatches

LEMMA CalmProvider ==
  ASSUME Facts, NEW b \in Batch, ProviderEnds(b)
  PROVE  Calm /\ SameRuns /\ SameJobs
<1>1. SameBatches /\ SameRuns
  BY ProviderEffect DEF Answered, SameBatches, SameRuns
<1>2. UNCHANGED <<job, poll, task>>
  BY DEF ProviderEnds
<1> QED
  BY <1>1, <1>2, PollsSame DEF Calm, SameTasks, GoesOn, SameJobs

LEMMA CalmCancel ==
  ASSUME Facts, NEW j \in Job, CancelStep(j)
  PROVE  Calm /\ SameRuns /\ SameJobs
<1>1. SameBatches /\ SameRuns
  BY CancelEffect DEF SameBatches, SameRuns
<1>2. UNCHANGED <<poll, task>>
  BY CancelEffect
<1>3. SameJobs
  <2>1. job' = job \/ (job[j] # "none" /\ job' = [job EXCEPT ![j] = "cancelled"])
    BY CancelEffect
  <2> QED
    BY <2>1 DEF SameJobs, Facts, Shapes
<1> QED
  BY <1>1, <1>2, <1>3, PollsSame DEF Calm, SameTasks, GoesOn

LEMMA CalmStop ==
  ASSUME Facts, NEW s \in Server, Stop(s)
  PROVE  Calm /\ SameRuns /\ SameJobs
<1>1. Stopped(s)
  BY StopEffect
<1>2. SamePolls
  BY <1>1, NoOthers, WorkKinds DEF Stopped, SamePolls
<1>3. SameTasks
  BY <1>1 DEF Stopped, SameTasks, GoesOn
<1> QED
  BY <1>1, <1>2, <1>3 DEF Stopped, Calm, SameBatches, SameRuns, SameJobs

LEMMA CalmSubmission ==
  ASSUME Facts, NEW s \in Server, NEW w \in Work, CreateItems(s, w) \/ SubmitFails(s, w)
  PROVE  Calm /\ SameRuns /\ SameJobs
<1>1. UNCHANGED poll
  BY DEF CreateItems, SubmitFails
<1>2. CASE CreateItems(s, w)
  <2>1. PICK n \in Batch : ItemsCreated(n, s, w)
    BY <1>2, CreateItemsEffect
  <2>2. SameTasks
    BY <2>1 DEF ItemsCreated, SameTasks, GoesOn
  <2>3. \A a \in Agent : batch[n].item[a] = "none"
    BY <1>2, <2>1 DEF CreateItems, ItemsCreated, Facts, Submissions, Owns
  <2>4. SameBatches /\ SameRuns
    BY <2>1, <2>3 DEF ItemsCreated, Same, SameBatches, SameRuns
  <2> QED
    BY <1>1, <1>2, <2>2, <2>4, PollsSame DEF CreateItems, Calm, SameJobs
<1>3. CASE SubmitFails(s, w)
  <2>1. DropTask(s, w) /\ UNCHANGED batch
    BY <1>3 DEF SubmitFails
  <2>2. SameTasks
    BY <2>1, TaskDropped DEF SameTasks, GoesOn, Facts
  <2>3. SameJobs
    BY <1>3 DEF SubmitFails, SetJob, SameJobs, Facts, Shapes
  <2> QED
    BY <1>1, <2>1, <2>2, <2>3, PollsSame DEF Calm, SameBatches, SameRuns
<1> QED
  BY <1>2, <1>3

LEMMA CalmResumption ==
  ASSUME Facts, NEW s \in Server, NEW b \in Batch,
         Collect(s, b) \/ Persist(s, b) \/ MarkSteps(s, b)
  PROVE  Calm /\ SameRuns /\ SameJobs
<1>1. UNCHANGED <<poll, job>> /\ b \in Work
  BY WorkKinds DEF Collect, Persist, MarkSteps
<1>2. CASE Collect(s, b)
  <2>1. \A u \in Server, v \in Work : (u # s \/ v # b) => task'[u][v] = task[u][v]
    BY <1>2, CollectEffect
  <2>2. GoesOn(s, b)
    <3>1. task[s][b].pc = "collect"
      BY <1>2 DEF Collect
    <3>2. \/ task'[s][b].pc = "none"
          \/ /\ task'[s][b].pc = "exec" /\ task'[s][b].agents # {}
             /\ \A a \in task'[s][b].agents : a \in Agent /\ batch[b].item[a] = "completed"
      BY <1>2, CollectEffect
    <3> QED
      BY <3>1, <3>2 DEF GoesOn
  <2>3. SameBatches /\ SameRuns
    <3>1. batch' = batch \/ (Resumed(s, b, batch'[b]) /\ batch'[b].ran = batch[b].ran)
      BY <1>2, CollectEffect
    <3> QED
      BY <3>1, ResumedSame DEF Resumed, SameBatches, SameRuns
  <2> QED
    BY <1>1, <2>1, <2>2, <2>3, PollsSame, OneTaskMoves DEF Calm, SameJobs
<1>3. CASE Persist(s, b) \/ MarkSteps(s, b)
  <2>1. /\ Resumed(s, b, batch'[b]) /\ batch'[b].ran = batch[b].ran
        /\ task[s][b].pc \in {"persist", "mark"}
        /\ Step(s, b, "mark") \/ Step(s, b, "next")
    BY <1>3, PersistEffect, MarkEffect DEF Persist, MarkSteps
  <2>2. /\ \A u \in Server, v \in Work : (u # s \/ v # b) => task'[u][v] = task[u][v]
        /\ task'[s][b].pc \in {"mark", "next"}
    BY <1>1, <2>1, TaskStep DEF Facts, Resuming, Submitting
  <2>3. GoesOn(s, b)
    BY <2>1, <2>2 DEF GoesOn, Resuming
  <2>4. SameRuns
    BY <2>1 DEF Resumed, SameRuns
  <2> QED
    BY <1>1, <2>1, <2>2, <2>3, <2>4, PollsSame, OneTaskMoves, ResumedSame DEF Calm, SameJobs
<1> QED
  BY <1>2, <1>3

LEMMA CalmNext ==
  ASSUME Facts, NEW s \in Server, NEW b \in Batch, PrepareNext(s, b)
  PROVE  /\ Calm /\ SameRuns /\ b \in Work /\ batch[b].job \in Job
         /\ task[s][b].pc = "next" /\ UNCHANGED <<batch, poll>>
         /\ \A u \in Server, v \in Work : (u # s \/ v # b) => task'[u][v] = task[u][v]
         /\ \/ job' = job
            \/ task'[s][b].pc = "none" /\ job' = [job EXCEPT ![batch[b].job] = "completed"]
<1>1. /\ UNCHANGED <<batch, poll>> /\ b \in Work /\ task[s][b].pc = "next"
      /\ batch[b].job \in Job
  BY WorkKinds, TaskHasJob DEF PrepareNext
<1>2. /\ DropTask(s, b) \/ Step(s, b, "send")
      /\ \/ job' = job
         \/ DropTask(s, b) /\ SetJob(batch[b].job, "completed")
  BY DEF PrepareNext
<1>3. /\ \A u \in Server, v \in Work : (u # s \/ v # b) => task'[u][v] = task[u][v]
      /\ task'[s][b].pc \in {"none", "send"}
      /\ DropTask(s, b) => task'[s][b].pc = "none"
  BY <1>1, <1>2, TaskStep, TaskDropped DEF Facts, Resuming, Submitting
<1>4. GoesOn(s, b)
  BY <1>1, <1>3 DEF GoesOn, Resuming
<1>5. SameBatches /\ SameRuns
  BY <1>1 DEF SameBatches, SameRuns
<1> QED
  BY <1>1, <1>2, <1>3, <1>4, <1>5, PollsSame, OneTaskMoves DEF Calm, SetJob

(* A poll that reads on or ends.                                            *)
ReadsOn(s) ==
  \/ PollEnds(s) \/ PollAborts(s) \/ (ApplyItems(s) /\ GivesUp(s))
  \/ \E b \in Batch : Retrieve(s, b) \/ Fetch(s, b)

LEMMA CalmPolling ==
  ASSUME Facts, PollInv, NEW s \in Server, ReadsOn(s)
  PROVE  Calm /\ SameRuns /\ SameJobs
<1>p. poll \in [Server -> PollRec] /\ poll[s] \in PollRec
  BY DEF Facts, Shapes
<1>1. UNCHANGED <<batch, task, job>>
  BY DEF ReadsOn, PollEnds, PollAborts, GivesUp, ApplyItems, Retrieve, Fetch
<1>2. ASSUME SetPoll(s, NoPoll), \A b \in Batch : task[s][b].pc = "none"
      PROVE  SamePolls
  BY <1>p, <1>1, <1>2, NoOthers DEF SetPoll, SamePolls
<1>3. ASSUME NEW p, SetPoll(s, p), p.pc = poll[s].pc, p.seen = poll[s].seen,
             poll[s].pc # "retrieve" => p.res = poll[s].res
      PROVE  SamePolls
  BY <1>p, <1>3 DEF SetPoll, SamePolls
<1>4. ASSUME PollEnds(s)
      PROVE  SamePolls
  BY <1>2, <1>4 DEF PollEnds, PollInv
<1>5. ASSUME PollAborts(s)
      PROVE  SamePolls
  BY <1>2, <1>5 DEF PollAborts, PollInv
<1>6. ASSUME ApplyItems(s) /\ GivesUp(s)
      PROVE  SamePolls
  BY <1>2, <1>6 DEF GivesUp, ApplyItems, PollInv
<1>7. ASSUME NEW b \in Batch, Retrieve(s, b)
      PROVE  SamePolls
  <2>1. PICK st : SetPoll(s, [poll[s] EXCEPT !.res[b] = st])
    BY <1>7 DEF Retrieve
  <2>2. poll[s].pc = "retrieve"
    BY <1>7 DEF Retrieve
  <2> DEFINE p == [poll[s] EXCEPT !.res[b] = st]
  <2>3. p.pc = poll[s].pc /\ p.seen = poll[s].seen /\ SetPoll(s, p)
    BY <1>p, <2>1 DEF PollRec
  <2> HIDE DEF p
  <2> QED
    BY <1>3, <2>2, <2>3
<1>8. ASSUME NEW b \in Batch, Fetch(s, b)
      PROVE  SamePolls
  <2>1. PICK part : SetPoll(s, [poll[s] EXCEPT !.fetched = @ \cup {b},
                                      !.got = @ \cup {<<b, x[1], x[2]>> : x \in part}])
    BY <1>8 DEF Fetch
  <2> DEFINE more == {<<b, x[1], x[2]>> : x \in part}
             q == [poll[s] EXCEPT !.fetched = poll[s].fetched \cup {b}]
             p == [q EXCEPT !.got = poll[s].got \cup more]
  <2>2. SetPoll(s, p)
    BY <2>1, <1>p DEF PollRec, SetPoll
  <2> HIDE DEF more
  <2>3. p.pc = poll[s].pc /\ p.seen = poll[s].seen /\ p.res = poll[s].res
    BY <1>p DEF PollRec
  <2> HIDE DEF p, q
  <2> QED
    BY <1>3, <2>2, <2>3
<1>9. SamePolls
  BY <1>4, <1>5, <1>6, <1>7, <1>8 DEF ReadsOn
<1> QED
  BY <1>1, <1>9 DEF Calm, SameBatches, SameTasks, GoesOn, SameRuns, SameJobs

(* The steps that start something, or run the tools, or complete the job.   *)
Starts(s) ==
  \/ \E j \in Job : CreateBatch(s, j)
  \/ \E w \in Work : Send(s, w) \/ CreateRow(s, w)
  \/ \E b \in Batch : ExecTools(s, b) \/ PrepareNext(s, b)
  \/ PollStarts(s) \/ WriteStatuses(s) \/ (ApplyItems(s) /\ Applied(s))

LEMMA StepKinds ==
  ASSUME Facts, PollInv, [Next]_vars
  PROVE  (Calm /\ SameRuns /\ SameJobs) \/ \E s \in Server : Starts(s)
<1>1. CASE UNCHANGED vars
  BY <1>1, NothingMoves DEF vars
<1>2. ASSUME NEW s \in Server, ServerStep(s)
      PROVE  (Calm /\ SameRuns /\ SameJobs) \/ Starts(s)
  <2>1. CASE Election(s)
    BY <2>1, ElectionEffect, NothingMoves DEF others
  <2>2. CASE ShutsDown(s) \/ Dies(s)
    BY <2>2, CalmStop DEF ShutsDown, StopsPolling, Dies
  <2>3. CASE \E j \in Job : CreateBatch(s, j)
    BY <2>3 DEF Starts
  <2>4. CASE PollStarts(s) \/ WriteStatuses(s)
    BY <2>4 DEF Starts
  <2>5. CASE ApplyItems(s)
    BY <2>5, ApplyItemsEffect, CalmPolling DEF Starts, ReadsOn
  <2>6. CASE PollEnds(s) \/ PollAborts(s)
    BY <2>6, CalmPolling DEF ReadsOn
  <2>7. ASSUME NEW b \in Batch, Retrieve(s, b) \/ Fetch(s, b)
        PROVE  Calm /\ SameRuns /\ SameJobs
    BY <2>7, CalmPolling DEF ReadsOn
  <2>8. ASSUME NEW b \in Batch, Resume(s, b)
        PROVE  (Calm /\ SameRuns /\ SameJobs) \/ Starts(s)
    BY <2>8, CalmResumption DEF Resume, Starts
  <2>9. ASSUME NEW w \in Work, Submit(s, w) \/ SubmitFails(s, w)
        PROVE  (Calm /\ SameRuns /\ SameJobs) \/ Starts(s)
    BY <2>9, CalmSubmission DEF Submit, Starts
  <2> QED
    BY <1>2, <2>1, <2>2, <2>3, <2>4, <2>5, <2>6, <2>7, <2>8, <2>9 DEF ServerStep
<1>3. ASSUME NEW b \in Batch, ProviderEnds(b)
      PROVE  Calm /\ SameRuns /\ SameJobs
  BY <1>3, CalmProvider
<1>4. ASSUME NEW j \in Job, CancelStep(j)
      PROVE  Calm /\ SameRuns /\ SameJobs
  BY <1>4, CalmCancel
<1>5. CASE DropDead /\ UNCHANGED <<others, faults>>
  BY <1>5, NothingMoves DEF others
<1> QED
  BY <1>1, <1>2, <1>3, <1>4, <1>5 DEF Next

-----------------------------------------------------------------------------
(* What starting something does to the polls, and to the tools that ran.    *)
LEMMA Created ==
  ASSUME Facts, NEW s \in Server, NEW j \in Job, CreateBatch(s, j)
  PROVE  /\ UNCHANGED <<batch, poll>>
         /\ task'[s][j].pc = "send"
         /\ \A u \in Server, v \in Work : (u # s \/ v # j) => task'[u][v] = task[u][v]
         /\ job[j] = "none" /\ job'[j] = "running"
         /\ \A i \in Job \ {j} : job'[i] = job[i]
<1>1. j \in Work
  BY WorkKinds
<1> QED
  BY <1>1, TaskStep DEF CreateBatch, SetJob, Facts, Shapes, Submitting

LEMMA Executes ==
  ASSUME Facts, NEW s \in Server, NEW b \in Batch, ExecTools(s, b)
  PROVE  /\ UNCHANGED <<poll, job>>
         /\ task[s][b].pc = "exec" /\ task'[s][b].pc = "persist"
         /\ \A u \in Server, v \in Work : (u # s \/ v # b) => task'[u][v] = task[u][v]
         /\ Resumed(s, b, batch'[b])
         /\ \A a \in Agent : batch'[b].ran[a] = batch[b].ran[a] \/ batch'[b].ran[a] = batch[b].ran[a] + 1
<1>1. Step(s, b, "persist") /\ b \in Work
  BY ExecEffect, WorkKinds
<1>2. /\ task'[s][b].pc = "persist"
      /\ \A u \in Server, v \in Work : (u # s \/ v # b) => task'[u][v] = task[u][v]
  BY <1>1, TaskStep DEF Facts, Resuming
<1>3. Resumed(s, b, batch'[b])
  BY ExecEffect
<1>4. \A a \in Agent : batch'[b].ran[a] = batch[b].ran[a] \/ batch'[b].ran[a] = batch[b].ran[a] + 1
  BY ExecEffect
<1> QED
  BY <1>2, <1>3, <1>4 DEF ExecTools

LEMMA Begins ==
  ASSUME Facts, NEW s \in Server, PollStarts(s)
  PROVE  /\ UNCHANGED <<batch, task, job>> /\ poll[s].pc = "idle"
         /\ poll'[s].seen = Listed /\ \A t \in Server \ {s} : poll'[t] = poll[t]
<1>1. SetPoll(s, [NoPoll EXCEPT !.pc = "retrieve", !.seen = Listed])
  BY DEF PollStarts
<1> QED
  BY <1>1 DEF PollStarts, SetPoll, Facts, Shapes, NoPoll

LEMMA Writes ==
  ASSUME Facts, NEW s \in Server, WriteStatuses(s)
  PROVE  /\ poll[s].pc = "retrieve" /\ UNCHANGED <<task, job>>
         /\ \A b \in Batch :
              /\ batch'[b].ran = batch[b].ran /\ batch'[b].item = batch[b].item
              /\ batch'[b].job = batch[b].job /\ batch'[b].turn = batch[b].turn
              /\ batch'[b].row = batch[b].row \/ b \in poll[s].seen
         /\ \A t \in Server \ {s} : poll'[t] = poll[t]
         /\ Early(s)' => poll'[s].seen = poll[s].seen
<1>1. poll[s].pc = "retrieve" /\ UNCHANGED <<task, job>>
  BY DEF WriteStatuses
<1>2. \A b \in Batch :
        /\ batch'[b].ran = batch[b].ran /\ batch'[b].item = batch[b].item
        /\ batch'[b].job = batch[b].job /\ batch'[b].turn = batch[b].turn
        /\ batch'[b].row = batch[b].row \/ b \in poll[s].seen
  BY WriteStatusesEffect
<1>3. SetPoll(s, NoPoll) \/ SetPoll(s, [poll[s] EXCEPT !.pc = "fetch"])
  BY DEF WriteStatuses
<1>4. poll \in [Server -> PollRec]
  BY DEF Facts, Shapes
<1>5. /\ \A t \in Server \ {s} : poll'[t] = poll[t]
      /\ Early(s)' => poll'[s].seen = poll[s].seen
  <2>1. CASE SetPoll(s, NoPoll)
    BY <1>4, <2>1, NoOthers DEF SetPoll, Early
  <2>2. CASE SetPoll(s, [poll[s] EXCEPT !.pc = "fetch"])
    BY <1>1, <1>4, <2>2 DEF SetPoll, PollRec, Early
  <2> QED
    BY <1>3, <2>1, <2>2
<1> QED
  BY <1>1, <1>2, <1>5

LEMMA Applies ==
  ASSUME Facts, NEW s \in Server, ApplyItems(s), Applied(s)
  PROVE  /\ poll[s].pc = "fetch" /\ poll'[s].pc = "resume" /\ UNCHANGED job
         /\ \A b \in Batch :
              /\ batch'[b].ran = batch[b].ran /\ batch'[b].row = batch[b].row
              /\ batch'[b].job = batch[b].job /\ batch'[b].turn = batch[b].turn
         /\ \A t \in Server \ {s} : poll'[t] = poll[t]
         /\ \A b \in Batch : b \in Completed(s) =>
              b \in poll[s].seen /\ task'[s][b].pc = "collect"
         /\ \A t \in Server, w \in Work : t # s \/ w \notin Completed(s) => task'[t][w] = task[t][w]
<1>1. poll[s].pc = "fetch" /\ UNCHANGED job
  BY DEF ApplyItems
<1>2. ASSUME NEW b \in Batch
      PROVE  /\ batch'[b].ran = batch[b].ran /\ batch'[b].row = batch[b].row
             /\ batch'[b].job = batch[b].job /\ batch'[b].turn = batch[b].turn
  <2>1. PICK item \in [Agent -> ItemStatus] : batch'[b] = [batch[b] EXCEPT !.item = item]
    BY DEF Applied
  <2>2. batch[b] \in BatchRec
    BY DEF Facts, Shapes
  <2> QED
    BY <2>1, <2>2 DEF BatchRec
<1>3. poll'[s].pc = "resume" /\ \A t \in Server \ {s} : poll'[t] = poll[t]
  <2>1. SetPoll(s, [poll[s] EXCEPT !.pc = "resume"])
    BY DEF Applied
  <2> QED
    BY <2>1 DEF SetPoll, PollRec, Facts, Shapes
<1>4. \A b \in Completed(s) : task'[s][b].pc = "collect"
  BY DEF Applied, NoTask
<1>5. \A t \in Server, w \in Work : t # s \/ w \notin Completed(s) => task'[t][w] = task[t][w]
  BY DEF Applied
<1> QED
  BY <1>1, <1>2, <1>3, <1>4, <1>5 DEF Completed

LEMMA PollInvStep ==
  ASSUME Base, Intact, PollInv, [Next]_vars
  PROVE  PollInv'
<1>f. Facts
  BY DEF Base
<1>1. CASE Calm
  BY <1>1, CalmPoll
<1>2. ASSUME NEW s \in Server, Starts(s)
      PROVE  PollInv'
  <2>1. ASSUME NEW j \in Job, CreateBatch(s, j)
        PROVE  PollInv'
    BY <1>f, <2>1, Created, PollKept, WorkKinds
  <2>2. ASSUME NEW w \in Work, Send(s, w)
        PROVE  PollInv'
    <3>1. PICK n \in Batch : Sent(n, s, w)
      BY <1>f, <2>2, SendEffect
    <3>2. \A b \in Batch : batch[b].row \notin {"none", "running"} => batch'[b].row = batch[b].row
      BY <1>f, <3>1, RowExists DEF Sent
    <3>3. \A t \in Server, b \in Batch : task'[t][b].pc # "none" => task[t][b].pc # "none"
      BY <2>2, <3>1, WorkKinds DEF Sent, Send
    <3> QED
      BY <2>2, <3>2, <3>3, PollKept DEF Send
  <2>3. ASSUME NEW w \in Work, CreateRow(s, w)
        PROVE  PollInv'
    <3>1. PICK n \in Batch : RowCreated(n, s, w)
      BY <1>f, <2>3, CreateRowEffect
    <3>2. \A b \in Batch : batch[b].row \notin {"none", "running"} => batch'[b].row = batch[b].row
      BY <3>1 DEF RowCreated
    <3>3. \A t \in Server, b \in Batch : task'[t][b].pc # "none" => task[t][b].pc # "none"
      BY <2>3, <3>1, WorkKinds DEF RowCreated, CreateRow
    <3> QED
      BY <2>3, <3>2, <3>3, PollKept DEF CreateRow
  <2>4. ASSUME NEW b \in Batch, ExecTools(s, b)
        PROVE  PollInv'
    <3>1. \A c \in Batch : batch'[c].row = batch[c].row
      BY <1>f, <2>4, Executes DEF Resumed
    <3>2. \A t \in Server, c \in Batch : task'[t][c].pc # "none" => task[t][c].pc # "none"
      BY <1>f, <2>4, Executes, WorkKinds
    <3> QED
      BY <1>f, <2>4, <3>1, <3>2, Executes, PollKept
  <2>5. ASSUME NEW b \in Batch, PrepareNext(s, b)
        PROVE  PollInv'
    BY <1>f, <2>5, CalmNext, CalmPoll
  <2>6. CASE PollStarts(s) \/ WriteStatuses(s) \/ (ApplyItems(s) /\ Applied(s))
    BY <2>6, PollsPolling DEF PollingStep
  <2> QED
    BY <1>2, <2>1, <2>2, <2>3, <2>4, <2>5, <2>6 DEF Starts
<1> QED
  BY <1>f, <1>1, <1>2, StepKinds

LEMMA RanKept ==
  ASSUME RanInv,
         \A b \in Batch : batch'[b].ran = batch[b].ran \/ Unrun(b)',
         \A b \in Batch : batch'[b].row \in {"none", "running"} =>
           batch[b].row \in {"none", "running"} \/ Unrun(b) \/ Unrun(b)',
         \A t \in Server, b \in Batch : Early(t)' /\ b \in poll'[t].seen =>
           (Early(t) /\ b \in poll[t].seen) \/ Unrun(b),
         \A t \in Server, b \in Batch : task'[t][b].pc \in {"collect", "exec"} =>
           task[t][b].pc \in {"collect", "exec"} \/ Unrun(b)
  PROVE  RanInv'
<1>1. \A b \in Batch : Unrun(b) => Unrun(b)'
  BY DEF Unrun
<1>2. \A b \in Batch, a \in Agent : batch'[b].ran[a] <= 1
  BY DEF Unrun, RanInv
<1> QED
  BY <1>1, <1>2 DEF RanInv

LEMMA RanInvStep ==
  ASSUME Base, Intact, PollInv, RanInv, [Next]_vars
  PROVE  RanInv'
<1>f. Facts
  BY DEF Base
<1>1. CASE Calm /\ SameRuns
  BY <1>1, CalmRan
<1>2. ASSUME NEW s \in Server, Starts(s)
      PROVE  RanInv'
  <2>0. ASSUME UNCHANGED poll
        PROVE  \A t \in Server : Early(t)' => Early(t) /\ poll'[t].seen = poll[t].seen
    BY <2>0 DEF Early
  <2>1. ASSUME NEW j \in Job, CreateBatch(s, j)
        PROVE  RanInv'
    BY <1>f, <2>0, <2>1, Created, RanKept, WorkKinds
  <2>2. ASSUME NEW w \in Work, Send(s, w)
        PROVE  RanInv'
    <3>1. PICK n \in Batch : Sent(n, s, w)
      BY <1>f, <2>2, SendEffect
    <3>2. \A b \in Batch : batch'[b] = batch[b] \/ Unrun(b)'
      BY <3>1 DEF Sent, Unrun
    <3>3. \A t \in Server, b \in Batch : task'[t][b].pc \in {"collect", "exec"} =>
            task[t][b].pc \in {"collect", "exec"}
      BY <3>1, WorkKinds DEF Sent
    <3> QED
      BY <2>0, <2>2, <3>2, <3>3, RanKept DEF Send
  <2>3. ASSUME NEW w \in Work, CreateRow(s, w)
        PROVE  RanInv'
    <3>1. PICK n \in Batch : RowCreated(n, s, w)
      BY <1>f, <2>3, CreateRowEffect
    <3>2. \A b \in Batch : batch'[b].ran = batch[b].ran
      BY <3>1 DEF RowCreated
    <3>3. \A b \in Batch : batch'[b].row = batch[b].row \/ batch[b].row = "none"
      BY <3>1 DEF RowCreated
    <3>4. \A t \in Server, b \in Batch : task'[t][b].pc \in {"collect", "exec"} =>
            task[t][b].pc \in {"collect", "exec"}
      BY <3>1, WorkKinds DEF RowCreated
    <3> QED
      BY <2>0, <2>3, <3>2, <3>3, <3>4, RanKept DEF CreateRow
  <2>4. ASSUME NEW b \in Batch, ExecTools(s, b)
        PROVE  RanInv'
    <3>1. /\ UNCHANGED poll
          /\ task[s][b].pc = "exec" /\ task'[s][b].pc = "persist"
          /\ \A u \in Server, c \in Batch : (u # s \/ c # b) => task'[u][c] = task[u][c]
          /\ \A c \in Batch : batch'[c].row = batch[c].row
          /\ \A c \in Batch \ {b} : batch'[c].ran = batch[c].ran
      BY <1>f, <2>4, Executes, WorkKinds DEF Resumed
    <3>2. poll[s].pc = "resume" /\ batch[b].row \notin {"none", "running"}
      BY <3>1 DEF PollInv
    <3>3. \A t \in Server : t # s => poll[t].pc = "idle"
      BY <3>2, OnePoll
    <3>4. \A t \in Server : ~Early(t)'
      BY <3>1, <3>2, <3>3 DEF Early
    <3>5. \A t \in Server, c \in Batch : task'[t][c].pc \in {"collect", "exec"} =>
            c # b /\ task[t][c].pc \in {"collect", "exec"}
      BY <3>1, <3>3 DEF PollInv
    <3>6. \A a \in Agent : batch'[b].ran[a] <= 1
      <4>1. \A a \in Agent : batch[b].ran[a] = 0
        BY <3>1 DEF RanInv, Unrun
      <4> QED
        BY <1>f, <2>4, <4>1, Executes
    <3>7. \A c \in Batch \ {b} : Unrun(c)' <=> Unrun(c)
      BY <3>1 DEF Unrun
    <3>8. \A c \in Batch, a \in Agent : batch'[c].ran[a] <= 1
      BY <3>1, <3>6 DEF RanInv
    <3> QED
      BY <3>1, <3>2, <3>4, <3>5, <3>7, <3>8 DEF RanInv
  <2>5. ASSUME NEW b \in Batch, PrepareNext(s, b)
        PROVE  RanInv'
    BY <1>f, <2>5, CalmNext, CalmRan
  <2>6. CASE PollStarts(s)
    <3>1. \A t \in Server, b \in Batch : Early(t)' /\ b \in poll'[t].seen =>
            (Early(t) /\ b \in poll[t].seen) \/ Unrun(b)
      BY <1>f, <2>6, Begins DEF Early, Listed, RanInv
    <3> QED
      BY <1>f, <2>6, <3>1, Begins, RanKept
  <2>7. CASE WriteStatuses(s)
    <3>1. \A t \in Server : Early(t)' => Early(t) /\ poll'[t].seen = poll[t].seen
      BY <1>f, <2>7, Writes DEF Early
    <3>2. \A b \in Batch : b \in poll[s].seen => Unrun(b)
      BY <1>f, <2>7, Writes DEF RanInv, Early
    <3> QED
      BY <1>f, <2>7, <3>1, <3>2, Writes, RanKept
  <2>8. CASE ApplyItems(s) /\ Applied(s)
    <3>1. \A t \in Server : Early(t)' => Early(t) /\ poll'[t].seen = poll[t].seen
      BY <1>f, <2>8, Applies DEF Early
    <3>2. \A b \in Batch : b \in Completed(s) => Unrun(b)
      BY <1>f, <2>8, Applies DEF RanInv, Early
    <3>3. \A t \in Server, b \in Batch : task'[t][b].pc \in {"collect", "exec"} =>
            task[t][b].pc \in {"collect", "exec"} \/ Unrun(b)
      BY <1>f, <2>8, <3>2, Applies, WorkKinds
    <3> QED
      BY <1>f, <2>8, <3>1, <3>3, Applies, RanKept
  <2> QED
    BY <1>2, <2>1, <2>2, <2>3, <2>4, <2>5, <2>6, <2>7, <2>8 DEF Starts
<1> QED
  BY <1>f, <1>1, <1>2, StepKinds

-----------------------------------------------------------------------------
(* A job's batches come one after the other.                                *)

(* Two last batches of a job are one.                                       *)
LEMMA OneLast ==
  ASSUME Facts, NEW b \in Batch, NEW c \in Batch, IsLast(b), IsLast(c),
         batch[b].job = batch[c].job
  PROVE  b = c
<1>1. batch[b].turn \in Nat /\ batch[c].turn \in Nat
  BY BatchAssumption DEF Facts, Shapes, BatchRec
<1> QED
  BY <1>1 DEF IsLast

(* A resumption past its tools is all that is left of its job: no poll is   *)
(* under way that could list the batch again, and whatever else the job     *)
(* had going would be about its last batch, too.                            *)
LEMMA Alone ==
  ASSUME Base, Intact, PollInv, LastInv, NEW s \in Server, NEW b \in Batch,
         task[s][b].pc \in {"next", "send"}
  PROVE  /\ \A t \in Server : ~Early(t)
         /\ \A c \in Batch : batch[c].job = batch[b].job => batch[c].row # "running"
         /\ \A t \in Server, w \in Work :
              JobOf(w) = batch[b].job /\ task[t][w].pc # "none" => t = s /\ w = b
<1>f. Facts
  BY DEF Base
<1>1. IsLast(b) /\ \E a \in Agent : batch[b].item[a] = "completed"
  BY DEF LastInv, ActiveLast, ItemsIn, Resuming
<1>2. poll[s].pc = "resume" /\ batch[b].row \notin {"none", "running"}
  BY DEF PollInv
<1>3. \A t \in Server : t # s => poll[t].pc = "idle"
  BY <1>2, OnePoll
<1>4. \A t \in Server : ~Early(t)
  BY <1>2, <1>3 DEF Early
<1>5. \A c \in Batch : batch[c].job = batch[b].job => batch[c].row # "running"
  BY <1>f, <1>1, <1>2, OneLast DEF LastInv, ActiveLast
<1>6. ASSUME NEW t \in Server, NEW w \in Work, JobOf(w) = batch[b].job, Owns(t, w)
      PROVE  FALSE
  <2> DEFINE m == task[t][w].new
  <2>1. /\ m \in Batch /\ batch[m].job = batch[b].job
        /\ \A a \in Agent : batch[m].item[a] = "none"
    BY <1>f, <1>6 DEF Facts, Submissions
  <2>2. IsLast(m)
    BY <1>6 DEF LastInv, OwnedLast
  <2> HIDE DEF m
  <2>3. m = b
    BY <1>f, <1>1, <2>1, <2>2, OneLast
  <2> QED
    BY <1>1, <2>1, <2>3
<1>7. ASSUME NEW t \in Server, NEW w \in Work, JobOf(w) = batch[b].job, task[t][w].pc # "none"
      PROVE  t = s /\ w = b
  <2>1. task[t][w].pc \in Resuming \cup {"send"}
    <3>1. task[t][w].pc \in {"none"} \cup Resuming \cup Submitting
      BY <1>f DEF Facts, Shapes, TaskRec
    <3>2. task[t][w].pc \notin {"row", "items"}
      BY <1>6, <1>7 DEF Owns
    <3> QED
      BY <1>7, <3>1, <3>2 DEF Submitting
  <2>2. CASE w \in Job
    <3>1. task[t][w].pc = "send"
      BY <1>f, <2>1, <2>2 DEF Facts, Submissions, Submitting, Resuming
    <3>2. w = batch[b].job
      BY <1>7, <2>2, WorkKinds
    <3> QED
      BY <2>2, <3>1, <3>2 DEF LastInv, FirstSend
  <2>3. CASE w \in Batch
    <3>1. t = s
      BY <1>3, <1>7, <2>3 DEF PollInv
    <3>2. IsLast(w)
      BY <2>1, <2>3 DEF LastInv, ActiveLast
    <3>3. batch[w].job = batch[b].job
      BY <1>7, <2>3, WorkKinds
    <3> QED
      BY <1>f, <1>1, <2>3, <3>1, <3>2, <3>3, OneLast
  <2> QED
    BY <2>2, <2>3 DEF Work
<1> QED
  BY <1>4, <1>5, <1>7

(* A step that sends no batch.                                              *)
LEMMA LastKept ==
  ASSUME LastInv, Facts,
         \A b \in Batch :
           /\ batch'[b].job = batch[b].job /\ batch'[b].turn = batch[b].turn
           /\ batch'[b].row = "running" => batch[b].row = "running" \/ IsLast(b),
         \A t \in Server, b \in Batch : Early(t)' /\ b \in poll'[t].seen =>
           (Early(t) /\ b \in poll[t].seen) \/ IsLast(b),
         \A t \in Server, b \in Batch :
           /\ task'[t][b].pc \in Resuming \cup {"send"} =>
                task[t][b].pc \in Resuming \cup {"send"} \/ IsLast(b)
           /\ task'[t][b].pc \notin {"none", "collect"} =>
                /\ task[t][b].pc \notin {"none", "collect"}
                /\ \A a \in Agent :
                     batch[b].item[a] = "completed" => batch'[b].item[a] = "completed",
         \A t \in Server, w \in Work : Owns(t, w)' =>
           /\ Owns(t, w) /\ task'[t][w].new = task[t][w].new
           /\ w \in Batch => poll'[t].seen = poll[t].seen,
         \A t \in Server, j \in Job : task'[t][j].pc = "send" =>
           task[t][j].pc = "send" \/ \A b \in Batch : batch[b].job # j
  PROVE  LastInv'
<1>1. \A b \in Batch : IsLast(b)' <=> IsLast(b)
  BY DEF IsLast
<1>2. ActiveLast'
  BY <1>1 DEF LastInv, ActiveLast
<1>3. ItemsIn'
  BY DEF LastInv, ItemsIn
<1>4. OwnedLast'
  <2> SUFFICES ASSUME NEW t \in Server, NEW w \in Work, Owns(t, w)',
                      NEW n \in Batch, n = task'[t][w].new
               PROVE  IsLast(n)'
    BY DEF OwnedLast, Facts, Submissions
  <2> QED
    BY <1>1 DEF LastInv, OwnedLast
<1>5. OwnedUnseen'
  BY WorkKinds DEF LastInv, OwnedUnseen
<1>6. FirstSend'
  BY DEF LastInv, FirstSend
<1> QED
  BY <1>2, <1>3, <1>4, <1>5, <1>6 DEF LastInv

(* The next batch of a job is its last.                                     *)
LEMMA LastSent ==
  ASSUME Base, Intact, PollInv, LastInv, JobInv,
         NEW s \in Server, NEW w \in Work, Send(s, w)
  PROVE  LastInv'
<1>f. Facts
  BY DEF Base
<1>1. PICK n \in Batch : Sent(n, s, w)
  BY <1>f, SendEffect
<1> DEFINE i == JobOf(w)
<1>2. task[s][w].pc = "send" /\ UNCHANGED poll /\ ~Exists(n) /\ i \in Job
  BY <1>f, <1>1, TaskHasJob DEF Send, Sent
<1>3. batch[n].job = NoJob /\ batch[n].row = "none"
  BY <1>f, <1>2 DEF Facts, BatchFacts, NoBatch
<1>4. /\ batch'[n].job = i /\ batch'[n].row = "none"
      /\ \A c \in Batch \ {n} : batch'[c] = batch[c]
      /\ task'[s][w].pc = "row" /\ task'[s][w].new = n
      /\ \A u \in Server, v \in Work : (u # s \/ v # w) => task'[u][v] = task[u][v]
  BY <1>1 DEF Sent
<1>5. IsLast(n)'
  <2> SUFFICES ASSUME NEW c \in Batch \ {n}, batch[c].job = i
               PROVE  batch[c].turn < batch'[n].turn
    BY <1>4 DEF IsLast
  <2>1. w \in Batch
    BY <1>2, WorkKinds DEF LastInv, FirstSend, Work
  <2>2. batch'[n].turn = batch[w].turn + 1 /\ batch[w].job = i
    BY <1>1, <2>1, WorkKinds DEF Sent
  <2>3. IsLast(w)
    BY <1>2, <2>1 DEF LastInv, ActiveLast
  <2>4. batch[w].turn \in Nat /\ batch[c].turn \in Nat
    BY <1>f, <2>1, BatchAssumption DEF Facts, Shapes, BatchRec
  <2>5. batch[c].turn <= batch[w].turn
    BY <2>1, <2>2, <2>3, <2>4 DEF IsLast
  <2> QED
    BY <2>2, <2>4, <2>5
<1> HIDE DEF i
<1>6. \A c \in Batch : c # n /\ IsLast(c) /\ batch[c].job # i => IsLast(c)'
  BY <1>4 DEF IsLast
<1>7. /\ \A t \in Server, c \in Batch : Early(t) /\ c \in poll[t].seen => batch[c].job # i
      /\ \A c \in Batch : batch[c].row = "running" => batch[c].job # i
      /\ \A t \in Server, v \in Work : JobOf(v) = i /\ task[t][v].pc # "none" => t = s /\ v = w
  <2>1. CASE w \in Batch
    BY <1>2, <2>1, Alone, WorkKinds DEF i
  <2>2. CASE w \in Job
    <3>1. i = w /\ \A c \in Batch : batch[c].job # i
      BY <1>2, <2>2, WorkKinds DEF LastInv, FirstSend, i
    <3>2. ASSUME NEW t \in Server, NEW v \in Work, JobOf(v) = i, task[t][v].pc # "none"
          PROVE  t = s /\ v = w
      <4>1. v = w
        BY <3>1, <3>2, WorkKinds DEF Work
      <4> QED
        BY <1>2, <2>2, <3>2, <4>1 DEF JobInv
    <3> QED
      BY <3>1, <3>2
  <2> QED
    BY <2>1, <2>2 DEF Work
<1>8. \A t \in Server, c \in Batch : c \in poll[t].seen => c # n
  BY <1>f, <1>3 DEF Facts, Listings
<1>9. \A t \in Server, c \in Batch : task[t][c].pc # "none" => c # n
  BY <1>f, <1>2, OwnerExists
<1>10. ActiveLast'
  <2>1. \A c \in Batch : batch'[c].row = "running" => IsLast(c)'
    BY <1>4, <1>6, <1>7 DEF LastInv, ActiveLast
  <2>2. \A t \in Server, c \in Batch : Early(t)' /\ c \in poll'[t].seen => IsLast(c)'
    BY <1>2, <1>6, <1>7, <1>8 DEF LastInv, ActiveLast, Early
  <2>3. \A t \in Server, c \in Batch : task'[t][c].pc \in Resuming \cup {"send"} =>
          (t # s \/ c # w) /\ task'[t][c] = task[t][c] /\ task[t][c].pc # "none"
    BY <1>4, WorkKinds DEF Resuming
  <2>4. \A t \in Server, c \in Batch : task'[t][c].pc \in Resuming \cup {"send"} => IsLast(c)'
    BY <1>6, <1>7, <1>9, <2>3, WorkKinds DEF LastInv, ActiveLast
  <2> QED
    BY <2>1, <2>2, <2>4 DEF ActiveLast
<1>11. ItemsIn'
  <2> SUFFICES ASSUME NEW t \in Server, NEW c \in Batch, task'[t][c].pc \notin {"none", "collect"}
               PROVE  \E a \in Agent : batch'[c].item[a] = "completed"
    BY DEF ItemsIn
  <2>1. task[t][c].pc \notin {"none", "collect"}
    BY <1>2, <1>4, WorkKinds
  <2>2. batch'[c] = batch[c]
    BY <1>4, <1>9, <2>1
  <2> QED
    BY <2>1, <2>2 DEF LastInv, ItemsIn
<1>12. OwnedLast'
  <2> SUFFICES ASSUME NEW t \in Server, NEW v \in Work, Owns(t, v)',
                      NEW m \in Batch, m = task'[t][v].new
               PROVE  IsLast(m)'
    <3>1. Submissions'
      BY <1>f, SendFacts DEF Facts
    <3> QED
      BY <3>1 DEF OwnedLast, Submissions
  <2>1. CASE t = s /\ v = w
    BY <1>4, <1>5, <2>1
  <2>2. CASE t # s \/ v # w
    <3>1. task'[t][v] = task[t][v]
      BY <1>4, <2>2
    <3>2. Owns(t, v)
      BY <3>1 DEF Owns
    <3>3. m = task[t][v].new /\ Exists(m) /\ batch[m].job = JobOf(v) /\ IsLast(m)
      BY <1>f, <3>1, <3>2 DEF Facts, Submissions, LastInv, OwnedLast
    <3>4. JobOf(v) # i
      BY <1>7, <2>2, <3>2 DEF Owns
    <3> QED
      BY <1>2, <1>6, <3>3, <3>4
  <2> QED
    BY <2>1, <2>2
<1>13. OwnedUnseen'
  <2> SUFFICES ASSUME NEW t \in Server, NEW c \in Batch, Owns(t, c)'
               PROVE  task'[t][c].new \notin poll'[t].seen
    BY DEF OwnedUnseen
  <2>1. CASE t = s /\ c = w
    BY <1>2, <1>4, <1>8, <2>1
  <2>2. CASE t # s \/ c # w
    <3>1. task'[t][c] = task[t][c]
      BY <1>4, <2>2, WorkKinds
    <3>2. Owns(t, c)
      BY <3>1 DEF Owns
    <3> QED
      BY <1>2, <3>1, <3>2 DEF LastInv, OwnedUnseen
  <2> QED
    BY <2>1, <2>2
<1>14. FirstSend'
  <2> SUFFICES ASSUME NEW t \in Server, NEW j \in Job, task'[t][j].pc = "send", NEW c \in Batch
               PROVE  batch'[c].job # j
    BY DEF FirstSend
  <2>1. (t # s \/ j # w) /\ task[t][j].pc = "send"
    BY <1>4, WorkKinds
  <2>2. JobOf(j) # i
    BY <1>7, <2>1, WorkKinds
  <2>3. batch[c].job # j
    BY <2>1 DEF LastInv, FirstSend
  <2> QED
    BY <1>4, <2>2, <2>3, WorkKinds
<1> QED
  BY <1>10, <1>11, <1>12, <1>13, <1>14 DEF LastInv

LEMMA LastInvStep ==
  ASSUME Base, Intact, PollInv, LastInv, JobInv, [Next]_vars
  PROVE  LastInv'
<1>f. Facts
  BY DEF Base
<1>1. CASE Calm
  BY <1>f, <1>1, CalmLast
<1>2. ASSUME NEW s \in Server, Starts(s)
      PROVE  LastInv'
  <2>0. ASSUME UNCHANGED poll
        PROVE  \A t \in Server : Early(t)' => Early(t) /\ poll'[t].seen = poll[t].seen
    BY <2>0 DEF Early
  <2>1. ASSUME NEW j \in Job, CreateBatch(s, j)
        PROVE  LastInv'
    <3>1. /\ UNCHANGED <<batch, poll>> /\ job[j] = "none" /\ task'[s][j].pc = "send"
          /\ \A u \in Server, v \in Work : (u # s \/ v # j) => task'[u][v] = task[u][v]
      BY <1>f, <2>1, Created
    <3>2. \A b \in Batch : batch[b].job # j
      BY <3>1 DEF JobInv
    <3>3. \A t \in Server, b \in Batch : task'[t][b] = task[t][b]
      BY <3>1, WorkKinds
    <3>4. \A t \in Server, w \in Work : Owns(t, w)' =>
            Owns(t, w) /\ task'[t][w].new = task[t][w].new
      BY <3>1 DEF Owns
    <3>5. \A t \in Server, i \in Job : task'[t][i].pc = "send" =>
            task[t][i].pc = "send" \/ \A b \in Batch : batch[b].job # i
      BY <3>1, <3>2, WorkKinds
    <3> QED
      BY <1>f, <2>0, <3>1, <3>3, <3>4, <3>5, LastKept
  <2>2. ASSUME NEW w \in Work, Send(s, w)
        PROVE  LastInv'
    BY <2>2, LastSent
  <2>3. ASSUME NEW w \in Work, CreateRow(s, w)
        PROVE  LastInv'
    <3>1. PICK n \in Batch : RowCreated(n, s, w)
      BY <1>f, <2>3, CreateRowEffect
    <3>2. UNCHANGED poll /\ task[s][w].pc = "row" /\ n = task[s][w].new
      BY <2>3, <3>1 DEF CreateRow, RowCreated
    <3>3. IsLast(n)
      BY <3>2 DEF LastInv, OwnedLast, Owns
    <3>4. \A b \in Batch :
            /\ batch'[b].job = batch[b].job /\ batch'[b].turn = batch[b].turn
            /\ batch'[b].item = batch[b].item
            /\ batch'[b].row = batch[b].row \/ b = n
      BY <3>1 DEF RowCreated, Same
    <3>5. /\ task'[s][w].pc = "items" /\ task'[s][w].new = n
          /\ \A u \in Server, v \in Work : (u # s \/ v # w) => task'[u][v] = task[u][v]
      BY <3>1 DEF RowCreated
    <3>6. \A t \in Server, v \in Work : Owns(t, v)' =>
            Owns(t, v) /\ task'[t][v].new = task[t][v].new
      BY <3>2, <3>5 DEF Owns
    <3>7. \A t \in Server, b \in Batch :
            /\ task'[t][b].pc \in Resuming \cup {"send"} => task[t][b].pc \in Resuming \cup {"send"}
            /\ task'[t][b].pc \notin {"none", "collect"} => task[t][b].pc \notin {"none", "collect"}
      BY <3>2, <3>5, WorkKinds DEF Resuming
    <3>8. \A t \in Server, j \in Job : task'[t][j].pc = "send" => task[t][j].pc = "send"
      BY <3>2, <3>5, WorkKinds
    <3> QED
      BY <1>f, <2>0, <3>2, <3>3, <3>4, <3>6, <3>7, <3>8, LastKept
  <2>4. ASSUME NEW b \in Batch, ExecTools(s, b)
        PROVE  LastInv'
    <3>1. /\ UNCHANGED poll
          /\ task[s][b].pc = "exec" /\ task'[s][b].pc = "persist"
          /\ \A u \in Server, v \in Work : (u # s \/ v # b) => task'[u][v] = task[u][v]
          /\ \A c \in Batch :
               /\ batch'[c].job = batch[c].job /\ batch'[c].turn = batch[c].turn
               /\ batch'[c].item = batch[c].item /\ batch'[c].row = batch[c].row
      BY <1>f, <2>4, Executes DEF Resumed
    <3>2. \A t \in Server, c \in Batch :
            /\ task'[t][c].pc \in Resuming \cup {"send"} => task[t][c].pc \in Resuming \cup {"send"}
            /\ task'[t][c].pc \notin {"none", "collect"} => task[t][c].pc \notin {"none", "collect"}
      BY <3>1, WorkKinds DEF Resuming
    <3>3. \A t \in Server, v \in Work : Owns(t, v)' =>
            Owns(t, v) /\ task'[t][v].new = task[t][v].new
      BY <3>1 DEF Owns
    <3>4. \A t \in Server, j \in Job : task'[t][j].pc = "send" => task[t][j].pc = "send"
      BY <3>1, WorkKinds
    <3> QED
      BY <1>f, <2>0, <3>1, <3>2, <3>3, <3>4, LastKept
  <2>5. ASSUME NEW b \in Batch, PrepareNext(s, b)
        PROVE  LastInv'
    BY <1>f, <2>5, CalmNext, CalmLast
  <2>6. CASE PollStarts(s)
    <3>1. \A t \in Server, b \in Batch : Early(t)' /\ b \in poll'[t].seen =>
            (Early(t) /\ b \in poll[t].seen) \/ IsLast(b)
      BY <1>f, <2>6, Begins DEF Early, Listed, LastInv, ActiveLast
    <3>2. \A t \in Server, w \in Work : Owns(t, w)' =>
            /\ Owns(t, w) /\ task'[t][w].new = task[t][w].new
            /\ w \in Batch => poll'[t].seen = poll[t].seen
      BY <1>f, <2>6, Begins DEF Owns, PollInv
    <3> QED
      BY <1>f, <2>6, <3>1, <3>2, Begins, LastKept
  <2>7. CASE WriteStatuses(s)
    <3>1. \A t \in Server : Early(t)' => Early(t) /\ poll'[t].seen = poll[t].seen
      BY <1>f, <2>7, Writes DEF Early
    <3>2. \A b \in Batch : b \in poll[s].seen => IsLast(b)
      BY <1>f, <2>7, Writes DEF LastInv, ActiveLast, Early
    <3>3. \A t \in Server, w \in Work : Owns(t, w)' =>
            /\ Owns(t, w) /\ task'[t][w].new = task[t][w].new
            /\ w \in Batch => poll'[t].seen = poll[t].seen
      BY <1>f, <2>7, Writes DEF Owns, PollInv
    <3> QED
      BY <1>f, <2>7, <3>1, <3>2, <3>3, Writes, LastKept
  <2>8. CASE ApplyItems(s) /\ Applied(s)
    <3>0. /\ poll[s].pc = "fetch" /\ poll'[s].pc = "resume"
          /\ \A b \in Batch :
               /\ batch'[b].row = batch[b].row
               /\ batch'[b].job = batch[b].job /\ batch'[b].turn = batch[b].turn
          /\ \A t \in Server \ {s} : poll'[t] = poll[t]
          /\ \A b \in Batch : b \in Completed(s) =>
               b \in poll[s].seen /\ task'[s][b].pc = "collect"
          /\ \A t \in Server, w \in Work : t # s \/ w \notin Completed(s) => task'[t][w] = task[t][w]
      BY <1>f, <2>8, Applies
    <3>1. \A t \in Server : Early(t)' => Early(t) /\ poll'[t].seen = poll[t].seen
      BY <3>0 DEF Early
    <3>2. \A b \in Batch : b \in Completed(s) => IsLast(b)
      BY <3>0 DEF LastInv, ActiveLast, Early
    <3>3. \A b \in Batch : task[s][b].pc = "none"
      BY <3>0 DEF PollInv
    <3>4. \A t \in Server, b \in Batch : task'[t][b].pc \in {"none", "collect"}
      <4>1. \A t \in Server \ {s}, b \in Batch : task[t][b].pc = "none"
        BY <3>0, OnePoll DEF PollInv
      <4> QED
        BY <3>0, <3>3, <4>1, WorkKinds
    <3>5. \A t \in Server, b \in Batch : task'[t][b].pc \in Resuming \cup {"send"} =>
            task[t][b].pc \in Resuming \cup {"send"} \/ IsLast(b)
      BY <3>0, <3>2, WorkKinds
    <3>6. \A w \in Work : w \in Completed(s) => w \in Batch
      BY <1>f, SeenJobs
    <3>7. \A t \in Server, w \in Work : Owns(t, w)' =>
            /\ Owns(t, w) /\ task'[t][w].new = task[t][w].new
            /\ w \in Batch => poll'[t].seen = poll[t].seen
      BY <3>0, <3>3, <3>6 DEF Owns
    <3>8. \A t \in Server, j \in Job : task'[t][j].pc = "send" => task[t][j].pc = "send"
      BY <3>0, <3>6, WorkKinds
    <3> QED
      BY <1>f, <3>0, <3>1, <3>4, <3>5, <3>7, <3>8, LastKept
  <2> QED
    BY <1>2, <2>1, <2>2, <2>3, <2>4, <2>5, <2>6, <2>7, <2>8 DEF Starts
<1> QED
  BY <1>f, <1>1, <1>2, StepKinds

(* The row of a job and what is left of it, step by step.                   *)
LEMMA JobKept ==
  ASSUME JobInv, PollInv, SameJobs,
         \A b \in Batch : batch'[b].job = batch[b].job,
         \A t \in Server, w \in Work : task'[t][w].pc # "none" =>
           task[t][w].pc # "none" \/ (w \in Batch /\ Early(t) /\ w \in poll[t].seen),
         \A t \in Server, b \in Batch : Early(t)' /\ b \in poll'[t].seen =>
           (Early(t) /\ b \in poll[t].seen) \/ batch[b].row = "running",
         \A b \in Batch : batch'[b].row = "running" =>
           \/ batch[b].row = "running"
           \/ \E t \in Server : Early(t) /\ b \in poll[t].seen
           \/ \E t \in Server, w \in Work : task[t][w].pc # "none" /\ JobOf(w) = batch[b].job
  PROVE  JobInv'
<1>1. \A w \in Work : JobOf(w)' = JobOf(w)
  BY WorkKinds DEF JobOf, Work
<1> SUFFICES ASSUME NEW j \in Job
             PROVE  /\ job'[j] = "none" =>
                         /\ \A b \in Batch : batch'[b].job # j
                         /\ \A s \in Server : task'[s][j].pc = "none"
                    /\ \A s, t \in Server : task'[s][j].pc # "none" /\ task'[t][j].pc # "none" => s = t
                    /\ job'[j] = "completed" =>
                         /\ \A s \in Server, b \in Batch :
                              Early(s)' /\ b \in poll'[s].seen => batch'[b].job # j
                         /\ \A b \in Batch : batch'[b].job = j => batch'[b].row # "running"
                         /\ \A s \in Server, w \in Work : JobOf(w) = j => task'[s][w].pc = "none"
  BY <1>1 DEF JobInv
<1>2. \A s \in Server : task'[s][j].pc # "none" => task[s][j].pc # "none"
  BY WorkKinds
<1>3. job'[j] = "none" =>
        /\ \A b \in Batch : batch'[b].job # j
        /\ \A s \in Server : task'[s][j].pc = "none"
  BY <1>2 DEF JobInv, SameJobs
<1>4. \A s, t \in Server : task'[s][j].pc # "none" /\ task'[t][j].pc # "none" => s = t
  BY <1>2 DEF JobInv
<1>5. ASSUME job'[j] = "completed"
      PROVE  /\ \A s \in Server, b \in Batch :
                  Early(s)' /\ b \in poll'[s].seen => batch'[b].job # j
             /\ \A b \in Batch : batch'[b].job = j => batch'[b].row # "running"
             /\ \A s \in Server, w \in Work : JobOf(w) = j => task'[s][w].pc = "none"
  <2>1. /\ \A s \in Server, b \in Batch : Early(s) /\ b \in poll[s].seen => batch[b].job # j
        /\ \A b \in Batch : batch[b].job = j => batch[b].row # "running"
        /\ \A s \in Server, w \in Work : JobOf(w) = j => task[s][w].pc = "none"
    BY <1>5 DEF JobInv, SameJobs
  <2> QED
    BY <2>1, WorkKinds
<1> QED
  BY <1>3, <1>4, <1>5

(* A job that has a task or a batch is not new.                             *)
LEMMA JobBegun ==
  ASSUME Facts, JobInv, NEW s \in Server, NEW w \in Work, task[s][w].pc # "none"
  PROVE  job[JobOf(w)] \notin {"none", "completed"}
<1>1. JobOf(w) \in Job
  BY TaskHasJob
<1>2. CASE w \in Job
  BY <1>1, <1>2, WorkKinds DEF JobInv
<1>3. CASE w \in Batch
  BY <1>1, <1>3, WorkKinds DEF JobInv
<1> QED
  BY <1>2, <1>3 DEF Work

LEMMA JobCreated ==
  ASSUME Facts, JobInv, NEW s \in Server, NEW j \in Job, CreateBatch(s, j)
  PROVE  JobInv'
<1>1. /\ UNCHANGED <<batch, poll>> /\ job[j] = "none" /\ job'[j] = "running"
      /\ \A u \in Server, v \in Work : (u # s \/ v # j) => task'[u][v] = task[u][v]
      /\ \A i \in Job \ {j} : job'[i] = job[i]
  BY Created
<1>2. /\ \A t \in Server : task[t][j].pc = "none"
      /\ \A w \in Work : JobOf(w)' = JobOf(w)
      /\ \A t \in Server : Early(t)' = Early(t)
  BY <1>1 DEF JobInv, JobOf, Early
<1>3. \A t \in Server : task'[t][j].pc # "none" => t = s
  BY <1>1, <1>2, WorkKinds
<1>4. ASSUME NEW i \in Job \ {j}
      PROVE  \A t \in Server, w \in Work : JobOf(w) = i => task'[t][w] = task[t][w]
  BY <1>1, WorkKinds
<1>5. ASSUME NEW i \in Job \ {j}
      PROVE  \A t \in Server : task'[t][i] = task[t][i]
  BY <1>1, WorkKinds
<1> QED
  BY <1>1, <1>2, <1>3, <1>4, <1>5 DEF JobInv

LEMMA JobSends ==
  ASSUME Facts, JobInv, NEW s \in Server, NEW w \in Work, Send(s, w)
  PROVE  JobInv'
<1>1. PICK n \in Batch : Sent(n, s, w)
  BY SendEffect
<1> DEFINE i == JobOf(w)
<1>2. /\ UNCHANGED <<poll, job>> /\ task[s][w].pc = "send" /\ ~Exists(n)
      /\ i \in Job /\ job[i] \notin {"none", "completed"}
  BY <1>1, TaskHasJob, JobBegun DEF Send, Sent
<1>3. /\ batch'[n].job = i /\ batch'[n].row = "none"
      /\ \A c \in Batch \ {n} : batch'[c] = batch[c]
      /\ \A u \in Server, v \in Work : (u # s \/ v # w) => task'[u][v] = task[u][v]
  BY <1>1 DEF Sent
<1>4. w \in Batch => Exists(w)
  BY <1>2, OwnerExists
<1>5. /\ \A t \in Server, v \in Work : task'[t][v].pc # "none" => task[t][v].pc # "none"
      /\ \A t \in Server : Early(t)' = Early(t)
  BY <1>2, <1>3 DEF Early
<1>6. \A t \in Server, b \in Batch : b \in poll[t].seen => b # n
  <2>1. batch[n].row = "none"
    BY <1>2 DEF Facts, BatchFacts, NoBatch
  <2> QED
    BY <2>1 DEF Facts, Listings
<1>7. \A t \in Server, b \in Batch : task[t][b].pc # "none" => b # n
  BY <1>2, OwnerExists
<1>8. \A t \in Server, v \in Work : task'[t][v].pc # "none" => JobOf(v)' = JobOf(v)
  BY <1>3, <1>5, <1>7, WorkKinds DEF JobOf, Work
<1> HIDE DEF i
<1> SUFFICES ASSUME NEW j \in Job
             PROVE  /\ job[j] = "none" =>
                         /\ \A b \in Batch : batch'[b].job # j
                         /\ \A t \in Server : task'[t][j].pc = "none"
                    /\ \A u, t \in Server : task'[u][j].pc # "none" /\ task'[t][j].pc # "none" => u = t
                    /\ job[j] = "completed" =>
                         /\ \A t \in Server, b \in Batch :
                              Early(t) /\ b \in poll[t].seen => batch'[b].job # j
                         /\ \A b \in Batch : batch'[b].job = j => batch'[b].row # "running"
                         /\ \A t \in Server, v \in Work : task'[t][v].pc # "none" => JobOf(v)' # j
  BY <1>2, <1>5 DEF JobInv
<1>9. job[j] \in {"none", "completed"} => j # i
  BY <1>2
<1>10. job[j] = "none" =>
        /\ \A b \in Batch : batch'[b].job # j
        /\ \A t \in Server : task'[t][j].pc = "none"
  BY <1>3, <1>5, <1>9, WorkKinds DEF JobInv
<1>11. \A u, t \in Server : task'[u][j].pc # "none" /\ task'[t][j].pc # "none" => u = t
  BY <1>5, WorkKinds DEF JobInv
<1>12. ASSUME job[j] = "completed"
      PROVE  /\ \A t \in Server, b \in Batch :
                  Early(t) /\ b \in poll[t].seen => batch'[b].job # j
             /\ \A b \in Batch : batch'[b].job = j => batch'[b].row # "running"
             /\ \A t \in Server, v \in Work : task'[t][v].pc # "none" => JobOf(v)' # j
  BY <1>3, <1>5, <1>6, <1>8, <1>9, <1>12 DEF JobInv
<1> QED
  BY <1>10, <1>11, <1>12

LEMMA JobCompletes ==
  ASSUME Base, Intact, PollInv, LastInv, JobInv,
         NEW s \in Server, NEW b \in Batch, PrepareNext(s, b)
  PROVE  JobInv'
<1>f. Facts
  BY DEF Base
<1>1. /\ Calm /\ b \in Work /\ batch[b].job \in Job /\ task[s][b].pc = "next"
      /\ UNCHANGED <<batch, poll>>
      /\ \A u \in Server, v \in Work : (u # s \/ v # b) => task'[u][v] = task[u][v]
      /\ \/ job' = job
         \/ task'[s][b].pc = "none" /\ job' = [job EXCEPT ![batch[b].job] = "completed"]
  BY <1>f, CalmNext
<1>2. CASE job' = job
  <2>1. SameJobs
    BY <1>2 DEF SameJobs
  <2> QED
    BY <1>1, <2>1, CalmJob
<1>3. CASE task'[s][b].pc = "none" /\ job' = [job EXCEPT ![batch[b].job] = "completed"]
  <2> DEFINE i == batch[b].job
  <2>1. job'[i] = "completed" /\ \A j \in Job \ {i} : job'[j] = job[j]
    BY <1>1, <1>3, <1>f DEF Facts, Shapes
  <2>2. /\ \A t \in Server : ~Early(t)
        /\ \A c \in Batch : batch[c].job = i => batch[c].row # "running"
        /\ \A t \in Server, w \in Work : JobOf(w) = i /\ task[t][w].pc # "none" => t = s /\ w = b
    BY <1>1, Alone
  <2> HIDE DEF i
  <2>3. /\ \A w \in Work : JobOf(w)' = JobOf(w)
        /\ \A t \in Server : Early(t)' = Early(t)
        /\ \A t \in Server, w \in Work : task'[t][w].pc # "none" => task[t][w].pc # "none"
    BY <1>1, <1>3 DEF JobOf, Early
  <2>4. \A t \in Server, w \in Work : JobOf(w) = i => task'[t][w].pc = "none"
    BY <1>1, <1>3, <2>2, <2>3
  <2> QED
    BY <1>1, <2>1, <2>2, <2>3, <2>4, WorkKinds DEF JobInv
<1> QED
  BY <1>1, <1>2, <1>3

LEMMA JobInvStep ==
  ASSUME Base, Intact, PollInv, LastInv, JobInv, [Next]_vars
  PROVE  JobInv'
<1>f. Facts
  BY DEF Base
<1>1. CASE Calm /\ SameJobs
  BY <1>1, CalmJob
<1>2. ASSUME NEW s \in Server, Starts(s)
      PROVE  JobInv'
  <2>0. ASSUME UNCHANGED poll
        PROVE  \A t \in Server : Early(t)' => Early(t) /\ poll'[t].seen = poll[t].seen
    BY <2>0 DEF Early
  <2>9. ASSUME UNCHANGED job
        PROVE  SameJobs
    BY <2>9 DEF SameJobs
  <2>1. ASSUME NEW j \in Job, CreateBatch(s, j)
        PROVE  JobInv'
    BY <1>f, <2>1, JobCreated
  <2>2. ASSUME NEW w \in Work, Send(s, w)
        PROVE  JobInv'
    BY <1>f, <2>2, JobSends
  <2>3. ASSUME NEW w \in Work, CreateRow(s, w)
        PROVE  JobInv'
    <3>1. PICK n \in Batch : RowCreated(n, s, w)
      BY <1>f, <2>3, CreateRowEffect
    <3>2. /\ UNCHANGED <<poll, job>> /\ task[s][w].pc = "row" /\ n = task[s][w].new
          /\ batch[n].job = JobOf(w)
      BY <1>f, <2>3, <3>1 DEF CreateRow, RowCreated, Facts, Submissions, Owns
    <3>3. \A b \in Batch :
            /\ batch'[b].job = batch[b].job
            /\ batch'[b].row = batch[b].row \/ b = n
      BY <3>1 DEF RowCreated, Same
    <3>4. \A t \in Server, v \in Work : task'[t][v].pc # "none" => task[t][v].pc # "none"
      BY <3>1, <3>2 DEF RowCreated
    <3> QED
      BY <2>0, <2>9, <3>2, <3>3, <3>4, JobKept
  <2>4. ASSUME NEW b \in Batch, ExecTools(s, b)
        PROVE  JobInv'
    <3>1. /\ UNCHANGED <<poll, job>>
          /\ \A t \in Server, v \in Work : task'[t][v].pc # "none" => task[t][v].pc # "none"
          /\ \A c \in Batch : batch'[c].job = batch[c].job /\ batch'[c].row = batch[c].row
      BY <1>f, <2>4, Executes DEF Resumed
    <3> QED
      BY <2>0, <2>9, <3>1, JobKept
  <2>5. ASSUME NEW b \in Batch, PrepareNext(s, b)
        PROVE  JobInv'
    BY <2>5, JobCompletes
  <2>6. CASE PollStarts(s)
    <3>1. \A t \in Server, b \in Batch : Early(t)' /\ b \in poll'[t].seen =>
            (Early(t) /\ b \in poll[t].seen) \/ batch[b].row = "running"
      BY <1>f, <2>6, Begins DEF Early, Listed
    <3> QED
      BY <1>f, <2>6, <2>9, <3>1, Begins, JobKept
  <2>7. CASE WriteStatuses(s)
    <3>1. Early(s) /\ \A t \in Server : Early(t)' => Early(t) /\ poll'[t].seen = poll[t].seen
      BY <1>f, <2>7, Writes DEF Early
    <3> QED
      BY <1>f, <2>7, <2>9, <3>1, Writes, JobKept
  <2>8. CASE ApplyItems(s) /\ Applied(s)
    <3>1. Early(s) /\ \A t \in Server : Early(t)' => Early(t) /\ poll'[t].seen = poll[t].seen
      BY <1>f, <2>8, Applies DEF Early
    <3>2. \A w \in Work : w \in Completed(s) => w \in Batch /\ w \in poll[s].seen
      BY <1>f, SeenJobs
    <3>3. \A t \in Server, w \in Work : task'[t][w].pc # "none" =>
            task[t][w].pc # "none" \/ (w \in Batch /\ Early(t) /\ w \in poll[t].seen)
      BY <1>f, <2>8, <3>1, <3>2, Applies
    <3> QED
      BY <1>f, <2>8, <2>9, <3>1, <3>3, Applies, JobKept
  <2> QED
    BY <1>2, <2>1, <2>2, <2>3, <2>4, <2>5, <2>6, <2>7, <2>8 DEF Starts
<1> QED
  BY <1>f, <1>1, <1>2, StepKinds

-----------------------------------------------------------------------------
LEMMA SafeInit == Init => SafeInv
<1> SUFFICES ASSUME Init
             PROVE  Base /\ PollInv /\ RanInv /\ LastInv /\ JobInv
  BY DEF SafeInv
<1>1. /\ \A b \in Batch : batch[b] = NoBatch
      /\ \A s \in Server : poll[s] = NoPoll
      /\ \A s \in Server, w \in Work : task[s][w] = NoTask
      /\ \A j \in Job : job[j] = "none"
  BY DEF Init
<1>2. /\ \A s \in Server : poll[s].pc = "idle"
      /\ \A s \in Server, w \in Work : task[s][w].pc = "none"
      /\ \A b \in Batch : batch[b].row = "none" /\ batch[b].job = NoJob
      /\ \A b \in Batch, a \in Agent : batch[b].ran[a] = 0
  BY <1>1, NoOthers, NoBatchIs
<1>3. PollInv
  BY <1>2, WorkKinds DEF PollInv
<1>4. RanInv
  BY <1>2, WorkKinds DEF RanInv, Unrun, Early
<1>5. LastInv
  BY <1>2, WorkKinds DEF LastInv, ActiveLast, ItemsIn, OwnedLast, OwnedUnseen, FirstSend,
                         Early, Owns, Resuming
<1>6. JobInv
  BY <1>1, <1>2, WorkKinds, BatchAssumption DEF JobInv
<1> QED
  BY <1>3, <1>4, <1>5, <1>6, BaseInit

LEMMA SafeStep == SafeInv /\ [Next]_vars => SafeInv'
<1> SUFFICES ASSUME SafeInv, [Next]_vars
             PROVE  Base' /\ (Intact' => PollInv' /\ RanInv' /\ LastInv' /\ JobInv')
  BY DEF SafeInv
<1>1. Base /\ Base'
  BY BaseStep DEF SafeInv
<1>2. ASSUME Intact'
      PROVE  Intact /\ PollInv /\ RanInv /\ LastInv /\ JobInv
  BY <1>1, <1>2, RecycledStays DEF SafeInv, Base
<1> QED
  BY <1>1, <1>2, PollInvStep, RanInvStep, LastInvStep, JobInvStep

(* The tool call of a reply is executed at most once, whichever server      *)
(* stops or dies when, unless a leader's connection was closed under it     *)
(* (_execute_tools of letta_agent_batch.py, polled under scheduler.py's     *)
(* lock).                                                                   *)
THEOREM ToolOnce == Spec => []ToolRunsOnce
<1>1. SafeInv => ToolRunsOnce
  BY DEF SafeInv, Intact, RanInv, ToolRunsOnce
<1> QED
  BY <1>1, SafeInit, SafeStep, PTL DEF Spec

(* Nothing of a completed job is listed, being submitted or being resumed,  *)
(* unless a leader's connection was closed under it (the last branch of     *)
(* resume_step_after_request).                                              *)
THEOREM CompletedLast == Spec => []CompletedIsLast
<1>1. SafeInv => CompletedIsLast
  BY DEF SafeInv, Intact, JobInv, CompletedIsLast
<1> QED
  BY <1>1, SafeInit, SafeStep, PTL DEF Spec
=============================================================================
