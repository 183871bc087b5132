-------------------------- MODULE CoreMemoryProofs --------------------------
(***************************************************************************)
(* The optimistic transactions of a block keep its history linear, for all *)
(* agents, clients, texts, bounds and past histories. The action property  *)
(* needs to know what a transaction has read: as long as the version it    *)
(* read is the row's, so is everything else it read (ReadsAreCurrent).     *)
(*                                                                         *)
(* The system messages follow the row: an agent nothing was hidden from is *)
(* due a rebuild, or the one under way has read what the row holds         *)
(* (RebuildIsCurrent).                                                     *)
(***************************************************************************)
EXTENDS CoreMemory, TLAPS

(* What the transaction o read still holds in the row and the history.      *)
StillTrue(o) ==
  /\ o.at = row.at
  /\ o.kind = "checkpoint" => o.new = row.value
  /\ o.kind = "undo" => row.at > 1 /\ o.new = history[row.at - 1]
  /\ o.kind = "redo" => row.at > 0 /\ row.at < Len(history) /\ o.new = history[row.at + 1]

ReadsAreCurrent ==
  \A p \in Proc : op[p].pc = "commit" =>
    /\ op[p].kind # "none"
    /\ op[p].version <= row.version /\ op[p].version < MaxVersion
    /\ op[p].version = row.version => StillTrue(op[p])

(* A rebuild under way has an agent.                                        *)
RebuildsAgent == \A p \in Proc : op[p].pc \in {"message", "render"} => op[p].agent \in Agent

MemoryInv == TypeOK /\ ReadsAreCurrent /\ RebuildsAgent

(* The steps that leave the row and the history alone.                      *)
NoCommit ==
  \/ \E c \in Client : Transaction(c)
  \/ \E a \in Agent : Loop(a)
  \/ \E p \in Proc : \/ CommitFails(p) \/ RebuildCompares(p) \/ RebuildWrites(p)
                     \/ RebuildFails(p) \/ Lost(p)
                     \/ \E a \in Agent : RebuildReads(p, a)

LEMMA NextSplit == Next <=> NoCommit \/ \E p \in Proc : CommitRow(p)
  BY DEF Next, NoCommit, Proceed

(* Where a transaction begins, it is up to date.                            *)
LEMMA ReadsStep ==
  ASSUME NEW p \in Proc, NEW kind \in Kinds \ {"none"}, NEW new \in Value,
         MemoryInv, Reads(p, kind, new), row.version < MaxVersion,
         StillTrue([kind |-> kind, at |-> row.at, new |-> new]),
         UNCHANGED <<row, history, copy, prompt, exposed, faults>>
  PROVE  MemoryInv'
<1> DEFINE o == [op[p] EXCEPT !.pc = "commit", !.kind = kind, !.version = row.version,
                              !.base = row.value, !.at = row.at, !.new = new]
<1>1. op' = [op EXCEPT ![p] = o] /\ op \in [Proc -> Operation] /\ op[p] \in Operation
  BY DEF Reads, Become, MemoryInv, TypeOK
<1>2. o \in Operation
  <2> row.value \in Value /\ row.version \in 0 .. MaxVersion /\ row.at \in Nat
    BY MemoryAssumption DEF MemoryInv, TypeOK
  <2> HIDE DEF Value, Kinds
  <2> QED
    BY <1>1 DEF Operation
<1>3. o.pc = "commit" /\ o.kind = kind /\ o.version = row.version /\ o.at = row.at /\ o.new = new
  BY <1>1 DEF Operation
<1> HIDE DEF o
<1>4. TypeOK'
  BY <1>1, <1>2 DEF MemoryInv, TypeOK
<1>5. row.version \in Nat
  BY DEF MemoryInv, TypeOK
<1>6. ReadsAreCurrent'
  BY <1>1, <1>3, <1>5 DEF MemoryInv, ReadsAreCurrent, StillTrue
<1>7. RebuildsAgent'
  BY <1>1, <1>3 DEF MemoryInv, RebuildsAgent
<1> QED
  BY <1>4, <1>6, <1>7 DEF MemoryInv

(* A process that goes on to something else than a commit disturbs no       *)
(* transaction.                                                             *)
LEMMA OtherStep ==
  ASSUME NEW p \in Proc, NEW o \in Operation,
         MemoryInv, Become(p, o), UNCHANGED <<row, history>>,
         o.pc # "commit", o.pc \in {"message", "render"} => o.agent \in Agent,
         copy' \in [Agent -> Value], prompt' \in [Agent -> Value],
         exposed' \subseteq Agent, faults' \in 0 .. MaxFaults
  PROVE  MemoryInv'
<1>1. op' = [op EXCEPT ![p] = o] /\ op \in [Proc -> Operation]
  BY DEF Become, MemoryInv, TypeOK
<1>2. TypeOK'
  BY <1>1 DEF MemoryInv, TypeOK
<1>3. ReadsAreCurrent'
  BY <1>1 DEF MemoryInv, ReadsAreCurrent, StillTrue
<1>4. RebuildsAgent'
  BY <1>1 DEF MemoryInv, RebuildsAgent
<1> QED
  BY <1>2, <1>3, <1>4 DEF MemoryInv

LEMMA IdleIsOperation == Idle \in Operation /\ Idle.pc = "idle"
  BY MemoryAssumption DEF Idle, Operation, Kinds, Value

LEMMA OperationOf ==
  ASSUME MemoryInv, NEW p \in Proc
  PROVE  op[p] \in Operation
  BY DEF MemoryInv, TypeOK

(* What a process goes on with after a rebuild is an operation.             *)
LEMMA FinishedIsOperation ==
  ASSUME NEW o \in Operation
  PROVE  Finished(o) \in Operation /\ Finished(o).pc \in {"idle", "rebuild"}
  BY IdleIsOperation DEF Finished, Operation

(* The transactions of the clients begin with a read of the row.            *)
LEMMA TransactionStep ==
  ASSUME NEW c \in Client, MemoryInv, Transaction(c)
  PROVE  MemoryInv'
<1> c \in Proc
  BY DEF Proc
<1> row.value \in Value /\ history \in Seq(Value) /\ row.at \in Nat /\ row.at <= Len(history)
  BY DEF MemoryInv, TypeOK
<1>1. ASSUME NEW v \in Value, EditBlock(c, v)
      PROVE  MemoryInv'
  BY <1>1, ReadsStep DEF EditBlock, Begins, Kinds, StillTrue
<1>2. ASSUME NEW v \in Value, BulkEdit(c, v)
      PROVE  MemoryInv'
  BY <1>2, ReadsStep DEF BulkEdit, Begins, Kinds, StillTrue
<1>3. CASE Checkpoint(c)
  BY <1>3, ReadsStep DEF Checkpoint, Begins, Kinds, StillTrue
<1>4. CASE Undo(c)
  <2> history[row.at - 1] \in Value
    BY <1>4 DEF Undo
  <2> QED
    BY <1>4, ReadsStep DEF Undo, Begins, Kinds, StillTrue
<1>5. CASE Redo(c)
  <2> history[row.at + 1] \in Value
    BY <1>5 DEF Redo
  <2> QED
    BY <1>5, ReadsStep DEF Redo, Begins, Kinds, StillTrue
<1> QED
  BY <1>1, <1>2, <1>3, <1>4, <1>5 DEF Transaction

(* The steps of an agent's loop.                                            *)
LEMMA LoopStep ==
  ASSUME NEW a \in Agent, MemoryInv, Loop(a)
  PROVE  MemoryInv'
<1> a \in Proc
  BY DEF Proc
<1>t. /\ row.value \in Value /\ copy \in [Agent -> Value] /\ prompt \in [Agent -> Value]
      /\ exposed \subseteq Agent /\ faults \in 0 .. MaxFaults /\ op[a] \in Operation
      /\ op \in [Proc -> Operation]
  BY DEF MemoryInv, TypeOK
<1>1. CASE StartTurn(a)
  <2>1. TypeOK' /\ UNCHANGED <<row, history, op>>
    BY <1>1, <1>t DEF StartTurn, MemoryInv, TypeOK
  <2> QED
    BY <2>1 DEF MemoryInv, ReadsAreCurrent, RebuildsAgent, StillTrue
<1>2. ASSUME NEW v \in Value, ToolEdit(a, v)
      PROVE  MemoryInv'
  <2>1. [Idle EXCEPT !.pc = "look", !.new = v] \in Operation
    BY IdleIsOperation DEF Operation
  <2>2. [Idle EXCEPT !.pc = "look", !.new = v].pc = "look"
    BY DEF Idle
  <2>3. copy' \in [Agent -> Value]
    BY <1>2, <1>t DEF ToolEdit
  <2> QED
    BY <1>2, <1>t, <2>1, <2>2, <2>3, OtherStep DEF ToolEdit
<1>3. CASE ToolLooks(a)
  <2>1. [op[a] EXCEPT !.pc = "compare", !.base = row.value] \in Operation
    BY <1>t DEF Operation
  <2>2. [op[a] EXCEPT !.pc = "compare", !.base = row.value].pc = "compare"
    BY <1>t DEF Operation
  <2> QED
    BY <1>3, <1>t, <2>1, <2>2, OtherStep DEF ToolLooks
<1>4. CASE ToolCompares(a)
  <2> DEFINE o == IF op[a].new = prompt[a] THEN Idle
                  ELSE [op[a] EXCEPT !.own = "check",
                              !.pc = IF op[a].new = op[a].base THEN "rebuild" ELSE "open"]
  <2>1. o \in Operation /\ o.pc \in {"idle", "rebuild", "open"}
    BY <1>t, IdleIsOperation DEF Operation
  <2>2. Become(a, o)
    BY <1>4 DEF ToolCompares
  <2> HIDE DEF o
  <2> QED
    BY <1>4, <1>t, <2>1, <2>2, OtherStep DEF ToolCompares
<1>5. CASE ToolReads(a)
  <2>1. CASE op[a].new = row.value
    <3>1. [op[a] EXCEPT !.pc = "rebuild"] \in Operation
      BY <1>t DEF Operation
    <3>2. [op[a] EXCEPT !.pc = "rebuild"].pc = "rebuild"
      BY <1>t DEF Operation
    <3> QED
      BY <1>5, <1>t, <2>1, <3>1, <3>2, OtherStep DEF ToolReads
  <2>2. CASE op[a].new # row.value
    <3>1. op[a].new \in Value
      BY <1>t DEF Operation
    <3> QED
      BY <1>5, <2>2, <3>1, ReadsStep DEF ToolReads, Kinds, StillTrue
  <2> QED
    BY <2>1, <2>2
<1>6. CASE Compact(a)
  <2>1. [Idle EXCEPT !.pc = "rebuild", !.todo = {a}, !.own = "refresh"] \in Operation
    BY IdleIsOperation DEF Operation
  <2>2. [Idle EXCEPT !.pc = "rebuild", !.todo = {a}, !.own = "refresh"].pc = "rebuild"
    BY DEF Idle
  <2> QED
    BY <1>6, <1>t, <2>1, <2>2, OtherStep DEF Compact
<1>7. CASE OwnReads(a)
  <2> DEFINE o == [op[a] EXCEPT !.pc = IF op[a].own = "check" THEN "message" ELSE "render",
                          !.agent = a, !.base = row.value, !.forced = FALSE, !.own = "none"]
  <2>1. o \in Operation /\ o.pc # "commit" /\ o.agent = a
    BY <1>t DEF Operation
  <2>2. Become(a, o)
    BY <1>7 DEF OwnReads
  <2>3. copy' \in [Agent -> Value] /\ exposed' \subseteq Agent
    BY <1>7, <1>t DEF OwnReads, Opens
  <2> HIDE DEF o
  <2> QED
    BY <1>7, <1>t, <2>1, <2>2, <2>3, OtherStep DEF OwnReads
<1>8. ASSUME NEW t \in Text
      PROVE  copy[a] \cup {t} \in Value /\ copy[a] \ {t} \in Value
  BY <1>t DEF Value
<1> QED
  BY <1>1, <1>2, <1>3, <1>4, <1>5, <1>6, <1>7, <1>8 DEF Loop

(* The steps of a process that are neither a read nor a commit.             *)
LEMMA ProceedStep ==
  ASSUME NEW p \in Proc, MemoryInv,
         \/ CommitFails(p) \/ RebuildCompares(p) \/ RebuildWrites(p)
         \/ RebuildFails(p) \/ Lost(p)
         \/ \E a \in Agent : RebuildReads(p, a)
  PROVE  MemoryInv'
<1>t. /\ row.value \in Value /\ row.version \in Nat
      /\ copy \in [Agent -> Value] /\ prompt \in [Agent -> Value]
      /\ exposed \subseteq Agent /\ faults \in 0 .. MaxFaults /\ op[p] \in Operation
  BY DEF MemoryInv, TypeOK
<1>f. Finished(op[p]) \in Operation /\ Finished(op[p]).pc \in {"idle", "rebuild"}
  BY <1>t, FinishedIsOperation
<1>a. op[p].pc \in {"message", "render"} => op[p].agent \in Agent
  BY DEF MemoryInv, RebuildsAgent
<1>1. CASE CommitFails(p)
  <2>1. [Idle EXCEPT !.refused = Current(p)] \in Operation
    BY IdleIsOperation DEF Operation, Current
  <2>2. [Idle EXCEPT !.refused = Current(p)].pc = "idle"
    BY DEF Idle
  <2> QED
    BY <1>1, <1>t, <2>1, <2>2, OtherStep DEF CommitFails
<1>2. CASE RebuildCompares(p)
  <2>1. [op[p] EXCEPT !.pc = "render"] \in Operation
    BY <1>t DEF Operation
  <2>2. /\ [op[p] EXCEPT !.pc = "render"].pc = "render"
        /\ [op[p] EXCEPT !.pc = "render"].agent = op[p].agent
    BY <1>t DEF Operation
  <2>3. op[p].agent \in Agent
    BY <1>2, <1>a DEF RebuildCompares
  <2>4. Become(p, Finished(op[p])) \/ Become(p, [op[p] EXCEPT !.pc = "render"])
    BY <1>2 DEF RebuildCompares
  <2> QED
    BY <1>2, <1>t, <1>f, <2>1, <2>2, <2>3, <2>4, OtherStep DEF RebuildCompares
<1>3. CASE RebuildWrites(p)
  <2>1. prompt' \in [Agent -> Value]
    BY <1>3, <1>t DEF RebuildWrites, Operation
  <2> QED
    BY <1>3, <1>t, <1>f, <2>1, OtherStep DEF RebuildWrites
<1>4. CASE RebuildFails(p)
  <2>1. exposed' \subseteq Agent /\ faults' \in 0 .. MaxFaults
    BY <1>4, <1>t, <1>a, MemoryAssumption DEF RebuildFails, Fault
  <2>2. Become(p, Finished(op[p])) \/ Become(p, Idle)
    BY <1>4 DEF RebuildFails
  <2> QED
    BY <1>4, <1>t, <1>f, <2>1, <2>2, IdleIsOperation, OtherStep DEF RebuildFails
<1>5. CASE Lost(p)
  <2>1. exposed' \subseteq Agent /\ faults' \in 0 .. MaxFaults
    <3> op[p].todo \subseteq Agent
      BY <1>t DEF Operation
    <3> QED
      BY <1>5, <1>t, MemoryAssumption DEF Lost, Fault
  <2> QED
    BY <1>5, <1>t, <2>1, IdleIsOperation, OtherStep DEF Lost
<1>6. ASSUME NEW a \in Agent, RebuildReads(p, a)
      PROVE  MemoryInv'
  <2> DEFINE o == [op[p] EXCEPT !.pc = "message", !.todo = @ \ {a}, !.agent = a,
                                !.base = row.value, !.forced = TRUE]
  <2>1. o \in Operation /\ o.pc = "message" /\ o.agent = a
    BY <1>t DEF Operation
  <2>2. Become(p, o)
    BY <1>6 DEF RebuildReads
  <2>3. exposed' \subseteq Agent
    BY <1>6, <1>t DEF RebuildReads, Opens
  <2> HIDE DEF o
  <2> QED
    BY <1>6, <1>t, <2>1, <2>2, <2>3, OtherStep DEF RebuildReads
<1> QED
  BY <1>1, <1>2, <1>3, <1>4, <1>5, <1>6

(* What a commit does to the row and the history, given what it has read.   *)
LinearStep ==
  /\ row'.at \in {row.at - 1, row.at, row.at + 1}
  /\ row'.at # row.at => row'.at \in 1 .. Len(history') /\ row'.value = history'[row'.at]
  /\ history' # history =>
       history' = Append(history, row.value) /\ row'.at = Len(history')

LEMMA CommitIsLinear ==
  ASSUME NEW p \in Proc, MemoryInv, CommitRow(p)
  PROVE  LinearStep
<1>1. /\ history \in Seq(Value) /\ row.at \in Nat /\ row.at <= Len(history)
      /\ row.value \in Value /\ op[p].kind \in Kinds
  BY DEF MemoryInv, TypeOK, Operation
<1>2. op[p].kind # "none" /\ StillTrue(op[p]) /\ ~Taken(op[p])
  BY DEF CommitRow, Current, MemoryInv, ReadsAreCurrent
<1>3. /\ row'.at = Target(op[p]) /\ row'.value = op[p].new
      /\ history' = IF op[p].kind = "checkpoint" THEN Append(history, op[p].new) ELSE history
  BY DEF CommitRow
<1>4. CASE op[p].kind \in {"edit", "bulk"}
  BY <1>1, <1>2, <1>3, <1>4 DEF LinearStep, StillTrue, Target
<1>5. CASE op[p].kind = "checkpoint"
  <2>1. row.at = Len(history) /\ op[p].new = row.value
    BY <1>1, <1>2, <1>5 DEF StillTrue, Taken
  <2>2. history' = Append(history, row.value) /\ row'.at = row.at + 1
    BY <1>2, <1>3, <1>5, <2>1 DEF Target, StillTrue
  <2>3. Len(history') = Len(history) + 1 /\ history'[Len(history) + 1] = row.value
    BY <1>1, <2>2
  <2> QED
    BY <1>1, <1>3, <2>1, <2>2, <2>3 DEF LinearStep
<1>6. CASE op[p].kind = "undo"
  BY <1>1, <1>2, <1>3, <1>6 DEF LinearStep, StillTrue, Target
<1>7. CASE op[p].kind = "redo"
  BY <1>1, <1>2, <1>3, <1>7 DEF LinearStep, StillTrue, Target
<1> QED
  BY <1>1, <1>2, <1>4, <1>5, <1>6, <1>7 DEF Kinds

(* A commit makes every other transaction under way stale.                  *)
LEMMA CommitStep ==
  ASSUME NEW p \in Proc, MemoryInv, CommitRow(p)
  PROVE  MemoryInv'
<1>t. /\ history \in Seq(Value) /\ row.at \in Nat /\ row.at <= Len(history)
      /\ row.value \in Value /\ row.version \in 1 .. MaxVersion
      /\ op \in [Proc -> Operation] /\ op[p] \in Operation
  BY DEF MemoryInv, TypeOK
<1>1. op[p].kind # "none" /\ row.version < MaxVersion /\ StillTrue(op[p]) /\ ~Taken(op[p])
  BY DEF CommitRow, Current, MemoryInv, ReadsAreCurrent
<1>2. op[p].new \in Value /\ op[p].kind \in Kinds
  BY <1>t DEF Operation
<1>3. history' \in Seq(Value) /\ row'.at \in Nat /\ row'.at <= Len(history')
  <2>1. history' \in Seq(Value) /\ Len(history) <= Len(history')
    BY <1>t, <1>2 DEF CommitRow
  <2>2. row'.at \in {row.at - 1, row.at, row.at + 1}
    BY CommitIsLinear DEF LinearStep
  <2>3. row'.at # row.at => row'.at \in 1 .. Len(history')
    BY CommitIsLinear DEF LinearStep
  <2> QED
    BY <1>t, <2>1, <2>2, <2>3
<1>4. row' \in [value : Value, version : 1 .. MaxVersion, at : Nat]
      /\ row'.version = row.version + 1
  <2>1. row' = [value |-> op[p].new, version |-> row.version + 1, at |-> row'.at]
    BY DEF CommitRow
  <2>2. row.version + 1 \in 1 .. MaxVersion
    BY <1>t, <1>1, MemoryAssumption
  <2> QED
    BY <1>2, <1>3, <2>1, <2>2
<1>5. AfterCommit(p) \in Operation /\ AfterCommit(p).pc \in {"idle", "rebuild"}
  BY <1>t, IdleIsOperation DEF AfterCommit, Operation, Rebuilds
<1>6. op' = [op EXCEPT ![p] = AfterCommit(p)]
  BY DEF CommitRow, Become
<1>7. TypeOK'
  <2>1. op' \in [Proc -> Operation]
    BY <1>t, <1>5, <1>6
  <2>2. exposed' \subseteq Agent /\ UNCHANGED <<copy, prompt, faults>>
    BY DEF CommitRow, MemoryInv, TypeOK
  <2> QED
    BY <1>3, <1>4, <2>1, <2>2 DEF MemoryInv, TypeOK
<1>8. ReadsAreCurrent'
  <2> SUFFICES ASSUME NEW q \in Proc, op'[q].pc = "commit"
               PROVE  /\ op'[q].kind # "none" /\ op'[q].version < MaxVersion
                      /\ op'[q].version <= row'.version /\ op'[q].version # row'.version
    BY DEF ReadsAreCurrent
  <2>1. q # p /\ op'[q] = op[q]
    BY <1>t, <1>5, <1>6
  <2>2. op[q].version \in 0 .. MaxVersion /\ op[q].version <= row.version
    BY <1>t, <2>1 DEF Operation, MemoryInv, ReadsAreCurrent
  <2>3. row'.version = row.version + 1 /\ row.version \in Nat
    BY <1>t, <1>4
  <2>4. op[q].kind # "none" /\ op[q].version < MaxVersion
    BY <2>1 DEF MemoryInv, ReadsAreCurrent
  <2> QED
    BY <2>1, <2>2, <2>3, <2>4, MemoryAssumption
<1>9. RebuildsAgent'
  BY <1>t, <1>5, <1>6 DEF MemoryInv, RebuildsAgent
<1> QED
  BY <1>7, <1>8, <1>9 DEF MemoryInv

(* Every step keeps the invariant...                                        *)
LEMMA MemoryStep == MemoryInv /\ [Next]_vars => MemoryInv'
<1> SUFFICES ASSUME MemoryInv, [Next]_vars
             PROVE  MemoryInv'
  OBVIOUS
<1>1. CASE UNCHANGED vars
  BY <1>1 DEF vars, MemoryInv, TypeOK, ReadsAreCurrent, RebuildsAgent, StillTrue
<1>2. CASE NoCommit
  BY <1>2, TransactionStep, LoopStep, ProceedStep DEF NoCommit
<1>3. ASSUME NEW p \in Proc, CommitRow(p)
      PROVE  MemoryInv'
  BY <1>3, CommitStep
<1> QED
  BY <1>1, <1>2, <1>3, NextSplit

(* ... and only a commit touches the row or the history.                    *)
LEMMA NoCommitFrame == NoCommit => UNCHANGED <<row, history>>
<1>1. ASSUME NEW c \in Client, Transaction(c)
      PROVE  UNCHANGED <<row, history>>
  BY <1>1 DEF Transaction, EditBlock, BulkEdit, Checkpoint, Undo, Redo
<1>2. ASSUME NEW a \in Agent, Loop(a)
      PROVE  UNCHANGED <<row, history>>
  BY <1>2 DEF Loop, StartTurn, Compact, ToolEdit, ToolLooks, ToolCompares, ToolReads, OwnReads
<1>3. ASSUME NEW p \in Proc,
             \/ CommitFails(p) \/ RebuildCompares(p) \/ RebuildWrites(p)
             \/ RebuildFails(p) \/ Lost(p)
             \/ \E a \in Agent : RebuildReads(p, a)
      PROVE  UNCHANGED <<row, history>>
  BY <1>3 DEF CommitFails, RebuildCompares, RebuildWrites, RebuildFails, Lost, RebuildReads
<1> QED
  BY <1>1, <1>2, <1>3 DEF NoCommit

LEMMA MemoryInit == Init => MemoryInv
<1> SUFFICES ASSUME Init
             PROVE  MemoryInv
  OBVIOUS
<1>1. history \in Seq(Value) /\ {} \in Value
  BY MemoryAssumption DEF Init, Value
<1>2. PICK at \in 0 .. Len(history) :
        /\ (at = 0) = (history = << >>)
        /\ row = [value |-> IF at = 0 THEN {} ELSE history[at], version |-> 1, at |-> at]
  BY DEF Init
<1>3. row.value \in Value
  BY <1>1, <1>2
<1>4. row \in [value : Value, version : 1 .. MaxVersion, at : Nat] /\ row.at <= Len(history)
  BY <1>1, <1>2, <1>3, MemoryAssumption
<1>5. op \in [Proc -> Operation] /\ \A p \in Proc : op[p].pc = "idle"
  BY IdleIsOperation DEF Init
<1>6. TypeOK
  BY <1>1, <1>3, <1>4, <1>5, MemoryAssumption DEF Init, TypeOK
<1> QED
  BY <1>5, <1>6 DEF MemoryInv, ReadsAreCurrent, RebuildsAgent

(* The state keeps its types, the pointer stays within the history.         *)
THEOREM MemoryTypes == Spec => []TypeOK
<1>1. MemoryInv => TypeOK
  BY DEF MemoryInv
<1> QED
  BY <1>1, MemoryInit, MemoryStep, PTL DEF Spec

(* However many transactions on a block overlap, checkpoints append what    *)
(* the row holds, and undo and redo move by one entry and restore its value *)
(* (checkpoint_block_async, undo_checkpoint_block, redo_checkpoint_block).  *)
THEOREM HistorySafety == Spec => HistoryIsLinear
<1>1. MemoryInv /\ [Next]_vars => [LinearStep]_vars
  <2> SUFFICES ASSUME MemoryInv, [Next]_vars, ~UNCHANGED vars
               PROVE  LinearStep
    OBVIOUS
  <2>1. CASE NoCommit
    BY <2>1, NoCommitFrame DEF LinearStep
  <2>2. ASSUME NEW p \in Proc, CommitRow(p)
        PROVE  LinearStep
    BY <2>2, CommitIsLinear
  <2> QED
    BY <2>1, <2>2, NextSplit
<1> QED
  BY <1>1, MemoryInit, MemoryStep, PTL DEF Spec, HistoryIsLinear, LinearStep

-----------------------------------------------------------------------------
(* The system messages: what a process has still to rebuild, and when.      *)

(* An agent is rebuilt only in the two steps after the read of its memory,  *)
(* agents wait only after a commit or for a compaction, and whatever ends a *)
(* rebuild early leaves nobody waiting.                                     *)
OrderOf(p, o) ==
  /\ o.pc \notin {"rebuild", "message", "render"} => o.todo = {}
  /\ o.pc \notin {"message", "render"} => o.agent = NoAgent
  /\ o.pc = "rebuild" /\ o.kind # "edit" => o.todo \subseteq {p}
  /\ o.pc \in {"message", "render"} /\ ~(o.kind = "edit" /\ o.forced) => o.todo = {}

RebuildOrder == \A p \in Proc : OrderOf(p, op[p])

Due(a) == \E p \in Proc : a \in op[p].todo

(* Of an agent that nothing was hidden from: one rebuild at a time, and if  *)
(* none is due, the one under way has read the row's value, or the message  *)
(* shows it.                                                                *)
CurrentFor(a) ==
  /\ \A p, q \in Proc : op[p].agent = a /\ op[q].agent = a => p = q
  /\ ~Due(a) => /\ \A p \in Proc : op[p].agent = a => op[p].base = row.value
                /\ (\A p \in Proc : op[p].agent # a) => prompt[a] = row.value

RebuildIsCurrent == \A a \in Agent \ exposed : CurrentFor(a)

PromptInv == RebuildOrder /\ RebuildIsCurrent

(* A process that goes on without hiding anything from an agent: what is    *)
(* due stays due, and the rebuild under way is the same.                    *)
LEMMA PromptFrame ==
  ASSUME NEW p \in Proc, NEW o, MemoryInv, PromptInv, Become(p, o), OrderOf(p, o),
         row'.value = row.value, UNCHANGED prompt, exposed \subseteq exposed',
         \A a \in Agent \ exposed' :
           /\ a \in op[p].todo => a \in o.todo
           /\ o.agent = a <=> op[p].agent = a
           /\ o.agent = a => o.base = op[p].base
  PROVE  PromptInv'
<1>1. op' = [op EXCEPT ![p] = o] /\ DOMAIN op = Proc
  BY DEF Become, MemoryInv, TypeOK
<1>2. op'[p] = o /\ \A q \in Proc \ {p} : op'[q] = op[q]
  BY <1>1
<1>3. RebuildOrder'
  BY <1>2 DEF PromptInv, RebuildOrder, OrderOf
<1>4. ASSUME NEW a \in Agent \ exposed'
      PROVE  CurrentFor(a)'
  <2>1. CurrentFor(a)
    BY DEF PromptInv, RebuildIsCurrent
  <2>2. \A q \in Proc : op'[q].agent = a <=> op[q].agent = a
    BY <1>2
  <2>3. \A q \in Proc : op'[q].agent = a => op'[q].base = op[q].base
    BY <1>2
  <2>4. Due(a) => Due(a)'
    BY <1>2 DEF Due
  <2> QED
    BY <2>1, <2>2, <2>3, <2>4 DEF CurrentFor
<1> QED
  BY <1>3, <1>4 DEF PromptInv, RebuildIsCurrent

(* The first read of a rebuild of a: the rebuild is up to date, or another  *)
(* one of the same message is under way.                                    *)
LEMMA OpensStep ==
  ASSUME NEW p \in Proc, NEW o, NEW a \in Agent, MemoryInv, PromptInv,
         Become(p, o), OrderOf(p, o), Opens(a), UNCHANGED <<row, prompt>>,
         op[p].agent = NoAgent, o.agent = a, o.base = row.value,
         op[p].todo \ {a} \subseteq o.todo
  PROVE  PromptInv'
<1>1. op' = [op EXCEPT ![p] = o] /\ DOMAIN op = Proc
  BY DEF Become, MemoryInv, TypeOK
<1>2. op'[p] = o /\ \A q \in Proc \ {p} : op'[q] = op[q]
  BY <1>1
<1>3. RebuildOrder'
  BY <1>2 DEF PromptInv, RebuildOrder, OrderOf
<1>4. ASSUME NEW b \in Agent \ exposed'
      PROVE  CurrentFor(b)'
  <2>1. CASE b = a
    <3>1. \A q \in Proc : op[q].agent # a
      BY <2>1 DEF Opens, Rebuilding
    <3>2. \A q \in Proc : op'[q].agent = a => q = p
      BY <1>2, <3>1
    <3> QED
      BY <1>2, <2>1, <3>2 DEF CurrentFor
  <2>2. CASE b # a
    <3>1. CurrentFor(b)
      BY <2>2 DEF Opens, PromptInv, RebuildIsCurrent
    <3>2. \A q \in Proc : op'[q].agent = b <=> op[q].agent = b
      BY <1>2, <2>2, MemoryAssumption
    <3>3. \A q \in Proc : op'[q].agent = b => op'[q].base = op[q].base
      BY <1>2, <2>2
    <3>4. Due(b) => Due(b)'
      BY <1>2, <2>2 DEF Due
    <3> QED
      BY <3>1, <3>2, <3>3, <3>4 DEF CurrentFor
  <2> QED
    BY <2>1, <2>2
<1> QED
  BY <1>3, <1>4 DEF PromptInv, RebuildIsCurrent

(* A process that is not rebuilding has nobody to rebuild.                  *)
LEMMA NobodyWaits ==
  ASSUME NEW p \in Proc, PromptInv, op[p].pc \notin {"rebuild", "message", "render"}
  PROVE  op[p].todo = {} /\ op[p].agent = NoAgent
  BY DEF PromptInv, RebuildOrder, OrderOf

LEMMA IdleOrder == Idle.pc = "idle" /\ Idle.todo = {} /\ Idle.agent = NoAgent
  BY DEF Idle

(* After a rebuild the agents that wait go on waiting.                      *)
LEMMA FinishedOrder ==
  ASSUME MemoryInv, PromptInv, NEW p \in Proc, op[p].pc \in {"message", "render"}
  PROVE  /\ OrderOf(p, Finished(op[p]))
         /\ Finished(op[p]).todo = op[p].todo /\ Finished(op[p]).agent = NoAgent
<1>1. op[p] \in Operation /\ OrderOf(p, op[p])
  BY DEF MemoryInv, TypeOK, PromptInv, RebuildOrder
<1>2. CASE op[p].todo = {} /\ op[p].own = "none"
  BY <1>2, IdleOrder DEF Finished, OrderOf
<1>3. CASE ~(op[p].todo = {} /\ op[p].own = "none")
  <2>1. Finished(op[p]) = [op[p] EXCEPT !.pc = "rebuild", !.agent = NoAgent]
    BY <1>3 DEF Finished
  <2>2. /\ Finished(op[p]).pc = "rebuild" /\ Finished(op[p]).agent = NoAgent
        /\ Finished(op[p]).todo = op[p].todo /\ Finished(op[p]).kind = op[p].kind
    BY <1>1, <2>1 DEF Operation
  <2> QED
    BY <1>1, <2>2 DEF OrderOf
<1> QED
  BY <1>2, <1>3

(* A transaction begins: nothing is due to its process.                     *)
LEMMA PromptReads ==
  ASSUME NEW p \in Proc, NEW kind \in Kinds, NEW new, MemoryInv, PromptInv,
         Reads(p, kind, new), op[p].pc \notin {"rebuild", "message", "render"},
         UNCHANGED <<row, prompt, exposed>>
  PROVE  PromptInv'
<1> DEFINE o == [op[p] EXCEPT !.pc = "commit", !.kind = kind, !.version = row.version,
                              !.base = row.value, !.at = row.at, !.new = new]
<1>1. o.pc = "commit" /\ o.todo = op[p].todo /\ o.agent = op[p].agent
  BY OperationOf DEF Operation
<1>2. op[p].todo = {} /\ op[p].agent = NoAgent
  BY NobodyWaits
<1>3. Become(p, o)
  BY DEF Reads
<1> HIDE DEF o
<1>4. OrderOf(p, o)
  BY <1>1, <1>2 DEF OrderOf
<1> QED
  BY <1>1, <1>2, <1>3, <1>4, PromptFrame, MemoryAssumption

LEMMA PromptTransaction ==
  ASSUME NEW c \in Client, MemoryInv, PromptInv, Transaction(c)
  PROVE  PromptInv'
<1> c \in Proc
  BY DEF Proc
<1>1. /\ op[c].pc = "idle" /\ UNCHANGED <<row, prompt, exposed>>
      /\ \E kind \in Kinds : \E new : Reads(c, kind, new)
  <2>1. ASSUME NEW v \in Value, EditBlock(c, v) \/ BulkEdit(c, v)
        PROVE  /\ op[c].pc = "idle" /\ UNCHANGED <<row, prompt, exposed>>
               /\ Reads(c, "edit", v) \/ Reads(c, "bulk", v)
    BY <2>1 DEF EditBlock, BulkEdit, Begins
  <2>2. Checkpoint(c) \/ Undo(c) \/ Redo(c) =>
          /\ op[c].pc = "idle" /\ UNCHANGED <<row, prompt, exposed>>
          /\ \/ Reads(c, "checkpoint", row.value) \/ Reads(c, "undo", history[row.at - 1])
             \/ Reads(c, "redo", history[row.at + 1])
    BY DEF Checkpoint, Undo, Redo, Begins
  <2> {"edit", "bulk", "checkpoint", "undo", "redo"} \subseteq Kinds
    BY DEF Kinds
  <2> HIDE DEF Kinds
  <2> QED
    BY <2>1, <2>2 DEF Transaction
<1> QED
  BY <1>1, PromptReads

(* A loop puts its own agent on the list, or takes the rebuild it owes it.  *)
LEMMA PromptLoop ==
  ASSUME NEW a \in Agent, MemoryInv, PromptInv, Loop(a)
  PROVE  PromptInv'
<1> a \in Proc /\ a # NoAgent
  BY MemoryAssumption DEF Proc
<1>o. op[a] \in Operation
  BY OperationOf
<1>1. CASE StartTurn(a)
  BY <1>1 DEF StartTurn, PromptInv, RebuildOrder, OrderOf, RebuildIsCurrent, CurrentFor, Due
<1>2. ASSUME NEW v, ToolEdit(a, v)
      PROVE  PromptInv'
  <2> DEFINE o == [Idle EXCEPT !.pc = "look", !.new = v]
  <2>1. o.pc = "look" /\ o.todo = {} /\ o.agent = NoAgent
    BY DEF Idle
  <2>2. op[a].todo = {} /\ op[a].agent = NoAgent /\ Become(a, o)
    BY <1>2, NobodyWaits DEF ToolEdit, Begins
  <2> HIDE DEF o
  <2>3. OrderOf(a, o)
    BY <2>1 DEF OrderOf
  <2> QED
    BY <1>2, <2>1, <2>2, <2>3, PromptFrame, MemoryAssumption DEF ToolEdit
<1>3. CASE ToolLooks(a)
  <2> DEFINE o == [op[a] EXCEPT !.pc = "compare", !.base = row.value]
  <2>1. op[a].todo = {} /\ op[a].agent = NoAgent /\ Become(a, o)
    BY <1>3, NobodyWaits DEF ToolLooks
  <2>2. o.pc = "compare" /\ o.todo = {} /\ o.agent = NoAgent
    BY <1>o, <2>1 DEF Operation
  <2> HIDE DEF o
  <2>3. OrderOf(a, o)
    BY <2>2 DEF OrderOf
  <2> QED
    BY <1>3, <2>1, <2>2, <2>3, PromptFrame, MemoryAssumption DEF ToolLooks
<1>4. CASE ToolCompares(a)
  <2> DEFINE o == IF op[a].new = prompt[a] THEN Idle
                  ELSE [op[a] EXCEPT !.own = "check",
                              !.pc = IF op[a].new = op[a].base THEN "rebuild" ELSE "open"]
  <2>1. op[a].todo = {} /\ op[a].agent = NoAgent /\ Become(a, o)
    BY <1>4, NobodyWaits DEF ToolCompares
  <2>2. o.pc \in {"idle", "rebuild", "open"} /\ o.todo = {} /\ o.agent = NoAgent
    BY <1>o, <2>1, IdleOrder DEF Operation
  <2> HIDE DEF o
  <2>3. OrderOf(a, o)
    BY <2>2 DEF OrderOf
  <2> QED
    BY <1>4, <2>1, <2>2, <2>3, PromptFrame, MemoryAssumption DEF ToolCompares
<1>5. CASE ToolReads(a)
  <2>1. CASE op[a].new = row.value
    <3> DEFINE o == [op[a] EXCEPT !.pc = "rebuild"]
    <3>1. op[a].todo = {} /\ op[a].agent = NoAgent /\ Become(a, o)
      BY <1>5, <2>1, NobodyWaits DEF ToolReads
    <3>2. o.pc = "rebuild" /\ o.todo = {} /\ o.agent = NoAgent
      BY <1>o, <3>1 DEF Operation
    <3> HIDE DEF o
    <3>3. OrderOf(a, o)
      BY <3>2 DEF OrderOf
    <3> QED
      BY <1>5, <3>1, <3>2, <3>3, PromptFrame, MemoryAssumption DEF ToolReads
  <2>2. CASE op[a].new # row.value
    <3>1. Reads(a, "edit", op[a].new) /\ "edit" \in Kinds
      BY <1>5, <2>2 DEF ToolReads, Kinds
    <3> QED
      BY <1>5, <3>1, PromptReads DEF ToolReads
  <2> QED
    BY <2>1, <2>2
<1>6. CASE Compact(a)
  <2> DEFINE o == [Idle EXCEPT !.pc = "rebuild", !.todo = {a}, !.own = "refresh"]
  <2>1. o.pc = "rebuild" /\ o.todo = {a} /\ o.agent = NoAgent
    BY DEF Idle
  <2>2. op[a].todo = {} /\ op[a].agent = NoAgent /\ Become(a, o)
    BY <1>6, NobodyWaits DEF Compact
  <2> HIDE DEF o
  <2>3. OrderOf(a, o)
    BY <2>1 DEF OrderOf
  <2> QED
    BY <1>6, <2>1, <2>2, <2>3, PromptFrame, MemoryAssumption DEF Compact
<1>7. CASE OwnReads(a)
  <2> DEFINE o == [op[a] EXCEPT !.pc = IF op[a].own = "check" THEN "message" ELSE "render",
                          !.agent = a, !.base = row.value, !.forced = FALSE, !.own = "none"]
  <2>1. op[a].pc = "rebuild" /\ op[a].todo = {} /\ Become(a, o) /\ Opens(a)
        /\ UNCHANGED <<row, prompt>>
    BY <1>7 DEF OwnReads
  <2>2. /\ o.pc \in {"message", "render"} /\ o.todo = {} /\ o.agent = a
        /\ o.base = row.value /\ ~o.forced
    BY <1>o, <2>1 DEF Operation
  <2> HIDE DEF o
  <2>3. OrderOf(a, o)
    BY <2>2 DEF OrderOf
  <2>4. op[a].agent = NoAgent
    BY <2>1 DEF PromptInv, RebuildOrder, OrderOf
  <2> QED
    BY <2>1, <2>2, <2>3, <2>4, OpensStep
<1> QED
  BY <1>1, <1>2, <1>3, <1>4, <1>5, <1>6, <1>7 DEF Loop

(* The steps of a rebuild, and of a process that ends.                      *)
LEMMA PromptProceed ==
  ASSUME NEW p \in Proc, MemoryInv, PromptInv,
         \/ CommitFails(p) \/ RebuildCompares(p) \/ RebuildWrites(p)
         \/ RebuildFails(p) \/ Lost(p)
         \/ \E a \in Agent : RebuildReads(p, a)
  PROVE  PromptInv'
<1>o. op[p] \in Operation /\ OrderOf(p, op[p]) /\ NoAgent \notin Agent
  BY OperationOf, MemoryAssumption DEF PromptInv, RebuildOrder
<1>a. op[p].pc \in {"message", "render"} => op[p].agent \in Agent
  BY DEF MemoryInv, RebuildsAgent
<1>i. OrderOf(p, Idle)
  BY IdleOrder DEF OrderOf
<1>p. prompt \in [Agent -> Value] /\ op \in [Proc -> Operation]
  BY DEF MemoryInv, TypeOK
<1>1. CASE CommitFails(p)
  <2> DEFINE o == [Idle EXCEPT !.refused = Current(p)]
  <2>1. o.pc = "idle" /\ o.todo = {} /\ o.agent = NoAgent
    BY DEF Idle
  <2>2. op[p].todo = {} /\ op[p].agent = NoAgent /\ Become(p, o)
    BY <1>1, NobodyWaits DEF CommitFails
  <2> HIDE DEF o
  <2>3. OrderOf(p, o)
    BY <2>1 DEF OrderOf
  <2> QED
    BY <1>1, <1>o, <2>1, <2>2, <2>3, PromptFrame DEF CommitFails
<1>r. ASSUME op[p].pc \in {"message", "render"}, Become(p, Finished(op[p])), UNCHANGED <<row, exposed>>,
             prompt' = [prompt EXCEPT ![op[p].agent] = op[p].base]
      PROVE  PromptInv'
  <2>1. op' = [op EXCEPT ![p] = Finished(op[p])]
    BY <1>r DEF Become
  <2>2. OrderOf(p, Finished(op[p])) /\ Finished(op[p]).todo = op[p].todo
        /\ Finished(op[p]).agent = NoAgent
    BY <1>r, FinishedOrder
  <2>3. op'[p] = Finished(op[p]) /\ \A q \in Proc \ {p} : op'[q] = op[q]
    BY <1>p, <2>1
  <2>4. RebuildOrder'
    BY <2>2, <2>3 DEF PromptInv, RebuildOrder, OrderOf
  <2>5. ASSUME NEW b \in Agent \ exposed'
        PROVE  CurrentFor(b)'
    <3>1. CurrentFor(b)
      BY <1>r DEF PromptInv, RebuildIsCurrent
    <3>2. Due(b) <=> Due(b)'
      BY <2>2, <2>3 DEF Due
    <3>3. \A q \in Proc : op'[q].agent = b => q # p /\ op[q].agent = b /\ op'[q] = op[q]
      BY <1>o, <2>2, <2>3
    <3>4. CASE b = op[p].agent
      <4>1. prompt'[b] = op[p].base
        BY <1>r, <1>p, <3>4
      <4>2. \A q \in Proc : op'[q].agent # b
        BY <3>1, <3>3, <3>4 DEF CurrentFor
      <4> QED
        BY <1>r, <3>1, <3>2, <3>4, <4>1, <4>2 DEF CurrentFor
    <3>5. CASE b # op[p].agent
      <4>1. prompt'[b] = prompt[b]
        BY <1>r, <1>p, <3>5
      <4>2. \A q \in Proc : op[q].agent = b => op'[q].agent = b
        BY <2>3, <3>5
      <4> QED
        BY <1>r, <3>1, <3>2, <3>3, <4>1, <4>2 DEF CurrentFor
    <3> QED
      BY <3>4, <3>5
  <2> QED
    BY <2>4, <2>5 DEF PromptInv, RebuildIsCurrent
<1>2. CASE RebuildCompares(p)
  <2>0. op[p].pc = "message" /\ UNCHANGED <<row, history, copy, prompt, exposed, faults>>
    BY <1>2 DEF RebuildCompares
  <2>1. CASE prompt[op[p].agent] = op[p].base /\ Become(p, Finished(op[p]))
    <3>1. prompt' = [prompt EXCEPT ![op[p].agent] = op[p].base]
      BY <1>p, <2>0, <2>1
    <3> QED
      BY <1>r, <2>0, <2>1, <3>1
  <2>2. CASE Become(p, [op[p] EXCEPT !.pc = "render"])
    <3> DEFINE o == [op[p] EXCEPT !.pc = "render"]
    <3>1. /\ o.pc = "render" /\ o.todo = op[p].todo /\ o.agent = op[p].agent
          /\ o.base = op[p].base /\ o.kind = op[p].kind /\ o.forced = op[p].forced
      BY <1>o DEF Operation
    <3>2. Become(p, o)
      BY <2>2
    <3> HIDE DEF o
    <3>3. OrderOf(p, o)
      BY <1>o, <2>0, <3>1 DEF OrderOf
    <3> QED
      BY <2>0, <3>1, <3>2, <3>3, PromptFrame
  <2> QED
    BY <1>2, <2>1, <2>2 DEF RebuildCompares
<1>3. CASE RebuildWrites(p)
  BY <1>3, <1>r DEF RebuildWrites
<1>4. CASE RebuildFails(p)
  <2>0. /\ op[p].pc \in {"message", "render"} /\ exposed' = exposed \cup {op[p].agent}
        /\ UNCHANGED <<row, history, copy, prompt>>
    BY <1>4 DEF RebuildFails
  <2>1. CASE op[p].kind = "edit" /\ op[p].forced
    <3>1. Become(p, Finished(op[p]))
      BY <1>4, <2>1 DEF RebuildFails
    <3> QED
      BY <1>o, <2>0, <3>1, FinishedOrder, PromptFrame
  <2>2. CASE ~(op[p].kind = "edit" /\ op[p].forced)
    <3>1. Become(p, Idle)
      BY <1>4, <2>2 DEF RebuildFails
    <3>2. op[p].todo = {}
      BY <1>o, <2>0, <2>2 DEF OrderOf
    <3> QED
      BY <1>o, <1>i, <2>0, <3>1, <3>2, IdleOrder, PromptFrame
  <2> QED
    BY <2>1, <2>2
<1>5. CASE Lost(p)
  <2>1. exposed' = exposed \cup op[p].todo \cup (Agent \cap {op[p].agent})
        /\ Become(p, Idle) /\ UNCHANGED <<row, history, copy, prompt>>
    BY <1>5 DEF Lost
  <2> QED
    BY <1>o, <1>i, <2>1, IdleOrder, PromptFrame
<1>6. ASSUME NEW a \in Agent, RebuildReads(p, a)
      PROVE  PromptInv'
  <2> DEFINE o == [op[p] EXCEPT !.pc = "message", !.todo = @ \ {a}, !.agent = a,
                                !.base = row.value, !.forced = TRUE]
  <2>1. op[p].pc = "rebuild" /\ a \in op[p].todo /\ Become(p, o) /\ Opens(a)
        /\ UNCHANGED <<row, prompt>>
    BY <1>6 DEF RebuildReads
  <2>2. /\ o.pc = "message" /\ o.todo = op[p].todo \ {a} /\ o.agent = a
        /\ o.base = row.value /\ o.forced /\ o.kind = op[p].kind
    BY <1>o DEF Operation
  <2> HIDE DEF o
  <2>3. op[p].agent = NoAgent
    BY <1>o, <2>1 DEF OrderOf
  <2>4. OrderOf(p, o)
    BY <1>o, <2>1, <2>2 DEF OrderOf
  <2> QED
    BY <2>1, <2>2, <2>3, <2>4, OpensStep
<1> QED
  BY <1>1, <1>2, <1>3, <1>4, <1>5, <1>6

(* A committed edit makes every agent wait for its rebuild, a checkpoint    *)
(* leaves the value, and the rest hides the value from every agent.         *)
LEMMA PromptCommit ==
  ASSUME NEW p \in Proc, MemoryInv, PromptInv, CommitRow(p)
  PROVE  PromptInv'
<1>1. /\ op[p].pc = "commit" /\ op[p] \in Operation /\ op \in [Proc -> Operation]
      /\ op[p].kind # "none" /\ StillTrue(op[p])
      /\ row'.value = op[p].new /\ Become(p, AfterCommit(p)) /\ UNCHANGED prompt
      /\ exposed' = IF op[p].kind \in {"bulk", "undo", "redo"} THEN Agent ELSE exposed
  BY OperationOf DEF CommitRow, Current, MemoryInv, TypeOK, ReadsAreCurrent
<1>2. op[p].todo = {} /\ op[p].agent = NoAgent
  BY <1>1, NobodyWaits
<1>3. op'[p] = AfterCommit(p) /\ \A q \in Proc \ {p} : op'[q] = op[q]
  BY <1>1 DEF Become
<1>4. /\ OrderOf(p, AfterCommit(p)) /\ AfterCommit(p).agent = NoAgent
      /\ op[p].kind = "edit" => AfterCommit(p).todo = Agent
  <2>1. CASE op[p].kind = "edit"
    <3>1. AfterCommit(p) = [op[p] EXCEPT !.pc = "rebuild", !.todo = Agent]
      BY <2>1 DEF AfterCommit, Rebuilds
    <3>2. /\ AfterCommit(p).pc = "rebuild" /\ AfterCommit(p).todo = Agent
          /\ AfterCommit(p).agent = NoAgent /\ AfterCommit(p).kind = "edit"
      BY <1>1, <1>2, <2>1, <3>1 DEF Operation
    <3> QED
      BY <3>2 DEF OrderOf
  <2>2. CASE op[p].kind # "edit"
    BY <2>2, IdleOrder DEF AfterCommit, OrderOf
  <2> QED
    BY <2>1, <2>2
<1>5. RebuildOrder'
  BY <1>3, <1>4 DEF PromptInv, RebuildOrder, OrderOf
<1>6. CASE op[p].kind \in {"bulk", "undo", "redo"}
  BY <1>1, <1>5, <1>6 DEF PromptInv, RebuildIsCurrent
<1>7. CASE op[p].kind = "edit"
  <2> SUFFICES ASSUME NEW a \in Agent \ exposed'
               PROVE  CurrentFor(a)'
    BY <1>5 DEF PromptInv, RebuildIsCurrent
  <2>1. CurrentFor(a)
    BY <1>1, <1>7 DEF PromptInv, RebuildIsCurrent
  <2>2. Due(a)'
    BY <1>3, <1>4, <1>7 DEF Due
  <2>3. \A q \in Proc : op'[q].agent = a => op[q].agent = a
    BY <1>3, <1>4, MemoryAssumption
  <2> QED
    BY <2>1, <2>2, <2>3 DEF CurrentFor
<1>8. CASE op[p].kind = "checkpoint"
  <2>1. row'.value = row.value /\ AfterCommit(p).todo = {}
    BY <1>1, <1>8, IdleOrder DEF StillTrue, AfterCommit
  <2> QED
    BY <1>1, <1>2, <1>4, <1>8, <2>1, MemoryAssumption, PromptFrame
<1> QED
  BY <1>1, <1>6, <1>7, <1>8 DEF Operation, Kinds

LEMMA PromptStep == MemoryInv /\ PromptInv /\ [Next]_vars => PromptInv'
<1> SUFFICES ASSUME MemoryInv, PromptInv, [Next]_vars
             PROVE  PromptInv'
  OBVIOUS
<1>1. CASE UNCHANGED vars
  BY <1>1 DEF vars, PromptInv, RebuildOrder, OrderOf, RebuildIsCurrent, CurrentFor, Due
<1>2. CASE NoCommit
  BY <1>2, PromptTransaction, PromptLoop, PromptProceed DEF NoCommit
<1>3. ASSUME NEW p \in Proc, CommitRow(p)
      PROVE  PromptInv'
  BY <1>3, PromptCommit
<1> QED
  BY <1>1, <1>2, <1>3, NextSplit

(* Whenever no rebuild of an agent's system message is due or under way,    *)
(* the message shows the block's value, unless an operation that rebuilds   *)
(* nothing set it, a rebuild was lost or two overlapped (update_block_async,*)
(* update_memory_if_changed_async, rebuild_system_prompt_async).            *)
THEOREM PromptSafety == Spec => []PromptFollowsRow
<1>1. Init => PromptInv
  <2> SUFFICES ASSUME Init
               PROVE  PromptInv
    OBVIOUS
  <2>1. \A p \in Proc : op[p] = Idle
    BY DEF Init
  <2>2. RebuildOrder
    BY <2>1, IdleOrder DEF RebuildOrder, OrderOf
  <2>3. \A a \in Agent : prompt[a] = row.value /\ \A p \in Proc : op[p].agent # a
    BY <2>1, IdleOrder, MemoryAssumption DEF Init
  <2> QED
    BY <2>2, <2>3 DEF PromptInv, RebuildIsCurrent, CurrentFor
<1>2. PromptInv => PromptFollowsRow
  BY DEF PromptInv, RebuildIsCurrent, CurrentFor, Due, PromptFollowsRow, Quiet
<1> QED
  BY <1>1, <1>2, MemoryInit, MemoryStep, PromptStep, PTL DEF Spec
=============================================================================
