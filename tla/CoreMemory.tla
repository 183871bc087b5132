----------------------------- MODULE CoreMemory -----------------------------
(***************************************************************************)
(* A memory block that several agents share: its versioned row, the        *)
(* history of its checkpoints, the copy every agent's loop works on and    *)
(* the copy compiled into every agent's system message.                    *)
(*                                                                         *)
(* A write of the row is a transaction that reads the row, then commits    *)
(* under the version it read. Afterwards the system messages are rebuilt   *)
(* agent by agent, each in three steps: read the memory, read the message, *)
(* write the message.                                                      *)
(***************************************************************************)
EXTENDS Naturals, Sequences, FiniteSets

CONSTANTS
  Agent,       \* agents the block is attached to: each runs one loop
  Client,      \* requests of the blocks API, the batch runner, the history
  Text,        \* pieces of text; a block's value is a set of them
  Past,        \* histories the block may start with, from earlier checkpoints
  MaxVersion,  \* bound on the row's version: the writes that follow, plus one
  MaxFaults    \* bound on lost processes and failed rebuilds

Proc == Agent \cup Client
Value == SUBSET Text
NoAgent == "no agent"

ASSUME MemoryAssumption ==
  /\ Agent \cap Client = {} /\ NoAgent \notin Agent
  /\ Past \subseteq Seq(Value)
  /\ MaxVersion \in Nat \ {0} /\ MaxFaults \in Nat

VARIABLES
  row,      \* the block's row: value, version, current checkpoint (0: none)
  history,  \* values of the checkpoints, by sequence number
  copy,     \* [Agent -> the value in its loop's agent_state]
  prompt,   \* [Agent -> the value in its system message]
  op,       \* [Proc -> what it is doing]
  exposed,  \* agents whose message may have missed a value (history)
  faults    \* how many processes and rebuilds were lost

vars == <<row, history, copy, prompt, op, exposed, faults>>

Idle == [pc |-> "idle", kind |-> "none", version |-> 0, base |-> {}, at |-> 0, new |-> {},
         todo |-> {}, own |-> "none", agent |-> NoAgent, forced |-> FALSE, refused |-> FALSE]

Kinds == {"none", "edit", "bulk", "checkpoint", "undo", "redo"}

Operation ==
  [pc : {"idle", "look", "compare", "open", "commit", "rebuild", "message", "render"},
   kind : Kinds, version : 0 .. MaxVersion, base : Value, at : Nat, new : Value,
   todo : SUBSET Agent, own : {"none", "check", "refresh"},
   agent : Agent \cup {NoAgent}, forced : BOOLEAN, refused : BOOLEAN]

TypeOK ==
  /\ row \in [value : Value, version : 1 .. MaxVersion, at : Nat]
  /\ history \in Seq(Value) /\ row.at <= Len(history)
  /\ copy \in [Agent -> Value] /\ prompt \in [Agent -> Value]
  /\ op \in [Proc -> Operation]
  /\ exposed \subseteq Agent
  /\ faults \in 0 .. MaxFaults

Init ==
  /\ history \in Past
  /\ \E at \in 0 .. Len(history) :
       /\ (at = 0) = (history = << >>)
       /\ row = [value |-> IF at = 0 THEN {} ELSE history[at], version |-> 1, at |-> at]
  /\ copy = [a \in Agent |-> row.value]
  /\ prompt = [a \in Agent |-> row.value]
  /\ op = [p \in Proc |-> Idle]
  /\ exposed = {}
  /\ faults = 0

Become(p, o) == op' = [op EXCEPT ![p] = o]
Fault == faults < MaxFaults /\ faults' = faults + 1

-----------------------------------------------------------------------------
(* Transactions on the row *)

(* Read the row, and with it everything the commit will write.              *)
Reads(p, kind, new) ==
  Become(p, [op[p] EXCEPT !.pc = "commit", !.kind = kind, !.version = row.version,
                          !.base = row.value, !.at = row.at, !.new = new])

Begins(c) == op[c].pc = "idle" /\ row.version < MaxVersion

(* update_block_async of the API: a value that is there already is skipped. *)
EditBlock(c, v) ==
  /\ Begins(c) /\ v # row.value
  /\ Reads(c, "edit", v)
  /\ UNCHANGED <<row, history, copy, prompt, exposed, faults>>

(* bulk_update_block_values_async, for rethink_memory in a batch            *)
BulkEdit(c, v) ==
  /\ Begins(c) /\ v # row.value
  /\ Reads(c, "bulk", v)
  /\ UNCHANGED <<row, history, copy, prompt, exposed, faults>>

Checkpoint(c) ==
  /\ Begins(c)
  /\ Reads(c, "checkpoint", row.value)
  /\ UNCHANGED <<row, history, copy, prompt, exposed, faults>>

(* The largest sequence below the current one...                            *)
Undo(c) ==
  /\ Begins(c) /\ row.at > 1
  /\ Reads(c, "undo", history[row.at - 1])
  /\ UNCHANGED <<row, history, copy, prompt, exposed, faults>>

(* ... and the smallest above it.                                           *)
Redo(c) ==
  /\ Begins(c) /\ row.at > 0 /\ row.at < Len(history)
  /\ Reads(c, "redo", history[row.at + 1])
  /\ UNCHANGED <<row, history, copy, prompt, exposed, faults>>

\* Mutant of Current: the version is not compared.
Current_Always(p) == row.version < MaxVersion

Current(p) == op[p].version = row.version

(* The pointer a transaction of this kind leaves behind.                    *)
Target(o) ==
  CASE o.kind \in {"edit", "bulk"} -> o.at
    [] o.kind \in {"checkpoint", "redo"} -> o.at + 1
    [] o.kind = "undo" -> o.at - 1

(* The unique index on the sequence numbers: the entries above the current  *)
(* one are selected for deletion, yet the delete is never awaited.          *)
Taken(o) == o.kind = "checkpoint" /\ o.at < Len(history)

\* Mutant of Rebuilds: only the agent that made the edit gets its message rebuilt.
Rebuilds_OnlyEditor(p) == Agent \cap {p}

(* The agents connected to the block                                        *)
Rebuilds(p) == Agent

(* What the process goes on with: an edit rebuilds the messages of all the  *)
(* agents of the block, nothing else does.                                  *)
AfterCommit(p) ==
  IF op[p].kind = "edit" THEN [op[p] EXCEPT !.pc = "rebuild", !.todo = Rebuilds(p)] ELSE Idle

\* Mutant of CommitRow: the new entry is never added to the session.
CommitRow_NoEntry(p) ==
  /\ op[p].pc = "commit"
  /\ Current(p) /\ ~Taken(op[p])
  /\ row' = [value |-> op[p].new, version |-> row.version + 1, at |-> Target(op[p])]
  /\ Become(p, AfterCommit(p))
  /\ exposed' = IF op[p].kind \in {"bulk", "undo", "redo"} THEN Agent ELSE exposed
  /\ UNCHANGED <<history, copy, prompt, faults>>

CommitRow(p) ==
  /\ op[p].pc = "commit"
  /\ Current(p) /\ ~Taken(op[p])
  /\ row' = [value |-> op[p].new, version |-> row.version + 1, at |-> Target(op[p])]
  /\ history' = IF op[p].kind = "checkpoint" THEN Append(history, op[p].new) ELSE history
  /\ Become(p, AfterCommit(p))
  /\ exposed' = IF op[p].kind \in {"bulk", "undo", "redo"} THEN Agent ELSE exposed
  /\ UNCHANGED <<copy, prompt, faults>>

(* The insert of a checkpoint violates the index, or the version has moved  *)
(* on (ConcurrentUpdateError): rolled back.                                 *)
CommitFails(p) ==
  /\ op[p].pc = "commit"
  /\ ~Current(p) \/ Taken(op[p])
  /\ Become(p, [Idle EXCEPT !.refused = Current(p)])
  /\ UNCHANGED <<row, history, copy, prompt, exposed, faults>>

-----------------------------------------------------------------------------
(* An agent's loop *)

(* A request loads the agent's state.                                       *)
StartTurn(a) ==
  /\ op[a].pc = "idle" /\ copy[a] # row.value
  /\ copy' = [copy EXCEPT ![a] = row.value]
  /\ UNCHANGED <<row, history, prompt, op, exposed, faults>>

(* core_memory_append and core_memory_replace: computed from the copy and   *)
(* kept in it, whatever becomes of the write.                               *)
ToolEdit(a, v) ==
  /\ Begins(a) /\ v # copy[a]
  /\ copy' = [copy EXCEPT ![a] = v]
  /\ Become(a, [Idle EXCEPT !.pc = "look", !.new = v])
  /\ UNCHANGED <<row, history, prompt, exposed, faults>>

(* update_memory_if_changed_async reads the agent's memory...               *)
ToolLooks(a) ==
  /\ op[a].pc = "look"
  /\ Become(a, [op[a] EXCEPT !.pc = "compare", !.base = row.value])
  /\ UNCHANGED <<row, history, copy, prompt, exposed, faults>>

(* ... and its system message: a memory that is in the message is not       *)
(* written at all, a value the row had is not written again, another one    *)
(* is, and the message is looked at once more after that.                   *)
ToolCompares(a) ==
  /\ op[a].pc = "compare"
  /\ Become(a, IF op[a].new = prompt[a] THEN Idle
               ELSE [op[a] EXCEPT !.own = "check",
                                  !.pc = IF op[a].new = op[a].base THEN "rebuild" ELSE "open"])
  /\ UNCHANGED <<row, history, copy, prompt, exposed, faults>>

(* update_block_async of the tool                                           *)
ToolReads(a) ==
  /\ op[a].pc = "open" /\ row.version < MaxVersion
  /\ IF op[a].new = row.value THEN Become(a, [op[a] EXCEPT !.pc = "rebuild"])
     ELSE Reads(a, "edit", op[a].new)
  /\ UNCHANGED <<row, history, copy, prompt, exposed, faults>>

(* After a compaction the loop rebuilds its message, then refreshes its     *)
(* copy and rebuilds it again.                                              *)
Compact(a) ==
  /\ op[a].pc = "idle"
  /\ Become(a, [Idle EXCEPT !.pc = "rebuild", !.todo = {a}, !.own = "refresh"])
  /\ UNCHANGED <<row, history, copy, prompt, exposed, faults>>

-----------------------------------------------------------------------------
(* rebuild_system_prompt_async *)

Rebuilding(a) == {p \in Proc : op[p].agent = a}

(* From its first read on a rebuild is up to date, unless another one of    *)
(* the same message is under way.                                           *)
Opens(a) == exposed' = IF Rebuilding(a) = {} THEN exposed \ {a} ELSE exposed \cup {a}

(* The memory is read: of the next agent...                                 *)
RebuildReads(p, a) ==
  /\ op[p].pc = "rebuild" /\ a \in op[p].todo
  /\ Become(p, [op[p] EXCEPT !.pc = "message", !.todo = @ \ {a}, !.agent = a,
                             !.base = row.value, !.forced = TRUE])
  /\ Opens(a)
  /\ UNCHANGED <<row, history, copy, prompt, faults>>

(* ... or, in the end, of the agent whose tool or compaction it is.         *)
OwnReads(a) ==
  /\ op[a].pc = "rebuild" /\ op[a].todo = {} /\ op[a].own # "none"
  /\ Become(a, [op[a] EXCEPT !.pc = IF op[a].own = "check" THEN "message" ELSE "render",
                             !.agent = a, !.base = row.value, !.forced = FALSE, !.own = "none"])
  /\ copy' = IF op[a].own = "refresh" THEN [copy EXCEPT ![a] = row.value] ELSE copy
  /\ Opens(a)
  /\ UNCHANGED <<row, history, prompt, faults>>

Finished(o) ==
  IF o.todo = {} /\ o.own = "none" THEN Idle
  ELSE [o EXCEPT !.pc = "rebuild", !.agent = NoAgent]

(* The message is read: nothing is written when nothing differs. A forced   *)
(* rebuild may differ in its statistics alone, and is then written.         *)
RebuildCompares(p) ==
  /\ op[p].pc = "message"
  /\ LET same == prompt[op[p].agent] = op[p].base
     IN \/ same /\ Become(p, Finished(op[p]))
        \/ (same => op[p].forced) /\ Become(p, [op[p] EXCEPT !.pc = "render"])
  /\ UNCHANGED <<row, history, copy, prompt, exposed, faults>>

RebuildWrites(p) ==
  /\ op[p].pc = "render"
  /\ prompt' = [prompt EXCEPT ![op[p].agent] = op[p].base]
  /\ Become(p, Finished(op[p]))
  /\ UNCHANGED <<row, history, copy, exposed, faults>>

(* A rebuild after an edit that fails is logged, and the next agent follows;*)
(* elsewhere the error ends the operation.                                  *)
RebuildFails(p) ==
  /\ op[p].pc \in {"message", "render"}
  /\ Fault
  /\ exposed' = exposed \cup {op[p].agent}
  /\ Become(p, IF op[p].kind = "edit" /\ op[p].forced THEN Finished(op[p]) ELSE Idle)
  /\ UNCHANGED <<row, history, copy, prompt>>

(* The process of an operation ends.                                        *)
Lost(p) ==
  /\ op[p].pc # "idle"
  /\ Fault
  /\ exposed' = exposed \cup op[p].todo \cup (Agent \cap {op[p].agent})
  /\ Become(p, Idle)
  /\ UNCHANGED <<row, history, copy, prompt>>

Transaction(c) ==
  \/ \E v \in Value : EditBlock(c, v) \/ BulkEdit(c, v)
  \/ Checkpoint(c) \/ Undo(c) \/ Redo(c)

Loop(a) ==
  \/ StartTurn(a) \/ Compact(a)
  \/ \E t \in Text : ToolEdit(a, copy[a] \cup {t}) \/ ToolEdit(a, copy[a] \ {t})
  \/ ToolLooks(a) \/ ToolCompares(a) \/ ToolReads(a) \/ OwnReads(a)

Proceed(p) ==
  \/ CommitRow(p) \/ CommitFails(p)
  \/ \E a \in Agent : RebuildReads(p, a)
  \/ RebuildCompares(p) \/ RebuildWrites(p)

Next ==
  \/ \E c \in Client : Transaction(c)
  \/ \E a \in Agent : Loop(a)
  \/ \E p \in Proc : Proceed(p) \/ RebuildFails(p) \/ Lost(p)

Spec == Init /\ [][Next]_vars

-----------------------------------------------------------------------------
Quiet(a) == \A p \in Proc : a \notin op[p].todo /\ op[p].agent # a

(* An agent's system message shows the block's value whenever no rebuild of *)
(* it is due or under way, unless the value was set by an operation that    *)
(* rebuilds nothing, a rebuild was lost or two of them overlapped.          *)
PromptFollowsRow ==
  \A a \in Agent : Quiet(a) => prompt[a] = row.value \/ a \in exposed

(* However transactions overlap, the history grows by the value the row has *)
(* at that time, and the pointer moves by one entry, to the one whose value *)
(* the row gets.                                                            *)
HistoryIsLinear ==
  [][/\ row'.at \in {row.at - 1, row.at, row.at + 1}
     /\ row'.at # row.at => row'.at \in 1 .. Len(history') /\ row'.value = history'[row'.at]
     /\ history' # history =>
          history' = Append(history, row.value) /\ row'.at = Len(history')]_vars

(* "If the block was undone to an earlier checkpoint, we remove any 'future'*)
(* checkpoints" (checkpoint_block_async): a checkpoint of the row's current *)
(* version is never refused.                                                *)
CheckpointAfterUndo == \A p \in Proc : ~op[p].refused
=============================================================================
