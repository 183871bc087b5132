----------------------------- MODULE OpenFiles -----------------------------
(***************************************************************************)
(* The files attached to one agent and which of them are open: at most     *)
(* max_files_open, the least recently accessed being closed for another to *)
(* open (files_agents_manager.py).                                         *)
(*                                                                         *)
(* Opening reads the open files, reads the row of the file and then writes *)
(* both, without a lock: requests of the API, the agent's tool calls and   *)
(* attached folders overlap.                                               *)
(***************************************************************************)
EXTENDS Naturals, FiniteSets, SequencesExt, Places

CONSTANTS
  File,
  Proc,     \* requests and tool calls that run at once
  Limits,   \* values max_files_open may take
  Folders   \* sequences of files that are attached at once

ASSUME FilesAssumption ==
  /\ Limits \subseteq Nat \ {0}
  /\ \A l \in Folders : l \in Seq(File) /\ IsInjective(l)

VARIABLES
  row,      \* [File -> "none", "attached" or "detached": its row of files_agents]
  open,     \* the open files in the order of their last access, oldest first
  limit,    \* the agent's max_files_open
  op,       \* [Proc -> the transaction it is in]
  excused   \* whether a race or a lower limit may have left too many open (history)

vars == <<row, open, limit, op, excused>>

None == [pc |-> "none", files |-> << >>, max |-> 0, bulk |-> FALSE, closing |-> {},
         rows |-> {}, opened |-> {}, stale |-> FALSE, refused |-> FALSE]

TypeOK ==
  /\ row \in [File -> {"none", "attached", "detached"}]
  /\ open \in Seq(File) /\ IsInjective(open)
  /\ \A f \in Range(open) : row[f] = "attached"
  /\ limit \in Limits
  /\ \A p \in Proc : /\ op[p].pc \in {"none", "list", "row", "write"}
                     /\ op[p].opened \subseteq Range(op[p].files)
  /\ excused \in BOOLEAN

Init ==
  /\ row = [f \in File |-> "none"]
  /\ open = << >>
  /\ limit \in Limits
  /\ op = [p \in Proc |-> None]
  /\ excused = FALSE

(* s without the files fs.                                                  *)
Without(s, fs) == ElementsAt(s, {i \in DOMAIN s : s[i] \notin fs})
Attached == {f \in File : row[f] = "attached"}

(* A commit makes what the other transactions have read stale; their first  *)
(* read is of the open files for one file, of the rows for many.            *)
HasRead(o) == o.pc = "write" \/ o.pc = IF o.bulk THEN "list" ELSE "row"
Disturbed(o) == IF HasRead(o) THEN [o EXCEPT !.stale = TRUE] ELSE o
Disturbs(p) == op' = [q \in Proc |-> IF q = p THEN None ELSE Disturbed(op[q])]
DisturbsAll == op' = [q \in Proc |-> Disturbed(op[q])]

-----------------------------------------------------------------------------
(* Opening one file (enforce_max_open_files_and_open) and attaching many    *)
(* (attach_files_bulk) begin with the agent's limit.                        *)

Begin(p, files, bulk) ==
  /\ op[p].pc = "none"
  /\ op' = [op EXCEPT ![p] = [None EXCEPT !.pc = IF bulk THEN "row" ELSE "list",
                                          !.files = files, !.max = limit, !.bulk = bulk]]
  /\ UNCHANGED <<row, open, limit, excused>>

OpenFile(p, f) == Begin(p, <<f>>, FALSE)
AttachFolder(p, files) == Begin(p, files, TRUE)

\* Mutant of Evicted: the most recently accessed files are closed.
Evicted_Newest(o) ==
  LET others == Without(open, Range(o.files))
      spare == Len(others) - (o.max - 1)
  IN IF spare > 0 THEN Range(SubSeq(others, Len(others) - spare + 1, Len(others))) ELSE {}

(* The oldest of the other open files that leave no room for one more.      *)
Evicted(o) ==
  LET others == Without(open, Range(o.files))
      spare == Len(others) - (o.max - 1)
  IN IF spare > 0 THEN Range(SubSeq(others, 1, spare)) ELSE {}

Opening(o) == Range(SubSeq(o.files, 1, IF Len(o.files) < o.max THEN Len(o.files) ELSE o.max))

\* Mutant of FinalOpen: the new files are not counted.
FinalOpen_IgnoresNew(o) ==
  LET others == Without(open, Range(o.files))
      keep == IF Len(others) < o.max THEN Len(others) ELSE o.max
  IN Opening(o) \cup Range(SubSeq(others, Len(others) - keep + 1, Len(others)))

(* The files open after a bulk attach: the first max of the new ones and as *)
(* many of the latest others as there is room for.                          *)
FinalOpen(o) ==
  LET others == Without(open, Range(o.files))
      room == IF Len(o.files) < o.max THEN o.max - Len(o.files) ELSE 0
      keep == IF Len(others) < room THEN Len(others) ELSE room
  IN Opening(o) \cup Range(SubSeq(others, Len(others) - keep + 1, Len(others)))

(* The open files, oldest first, and with them which are to be closed: read *)
(* first for one file, last for many.                                       *)
ReadOpen(p) ==
  /\ op[p].pc = "list"
  /\ LET o == op[p]
         others == [o EXCEPT !.pc = "row", !.closing = Evicted(o),
                             !.opened = Range(open) \cap Range(o.files)]
         all == [o EXCEPT !.pc = "write", !.closing = Range(open) \ FinalOpen(o)]
     IN op' = [op EXCEPT ![p] = IF o.bulk THEN all ELSE others]
  /\ UNCHANGED <<row, open, limit, excused>>

(* The rows of the files that are not detached, and which of them are open: *)
(* a row the session has loaded before keeps the state it had then.         *)
ReadRows(p) ==
  /\ op[p].pc = "row"
  /\ LET rows == Range(op[p].files) \cap Attached
     IN op' = [op EXCEPT ![p].pc = IF op[p].bulk THEN "list" ELSE "write",
                         ![p].rows = rows, ![p].opened = rows \cap (@ \cup Range(open))]
  /\ UNCHANGED <<row, open, limit, excused>>

(* A row that was not found is inserted, which the unique constraints refuse*)
(* when there is one, detached or inserted meanwhile.                       *)
Clash(o) == \E f \in Range(o.files) \ o.rows : row[f] # "none"

\* Mutant of Reopened: a row is open again even if it was detached meanwhile.
Reopened_Detached(o, f) == f \notin o.opened \/ f \in Range(open)

(* The update of a row leaves out what it does not change, so a file that   *)
(* was read as open and has been closed meanwhile stays closed.             *)
Reopened(o, f) == IF f \in o.opened THEN f \in Range(open) ELSE row[f] = "attached"

(* The requested files that are open in the end, and those closed.          *)
NowOpen(o) ==
  {f \in Opening(o) : f \notin o.rows \/ Reopened(o, f)}
  \cup {f \in Range(o.files) \ (Opening(o) \cup o.opened \cup o.closing) : f \in Range(open)}
NowClosed(o) == o.closing \cup (o.opened \ Opening(o))

(* Files attached together carry one time of access, in no order.           *)
Write(p) ==
  /\ op[p].pc = "write"
  /\ ~Clash(op[p])
  /\ row' = [f \in File |-> IF f \in Range(op[p].files) \ op[p].rows THEN "attached" ELSE row[f]]
  /\ \E latest \in SetToSeqs(NowOpen(op[p])) :
       open' = Without(open, NowClosed(op[p]) \cup Range(op[p].files)) \o latest
  /\ Disturbs(p)
  /\ excused' = op[p].stale
  /\ UNCHANGED limit

Refused(p) ==
  /\ op[p].pc = "write"
  /\ Clash(op[p])
  /\ op' = [op EXCEPT ![p] = [None EXCEPT !.refused = ~op[p].stale]]
  /\ UNCHANGED <<row, open, limit, excused>>

-----------------------------------------------------------------------------
(* Single statements *)

(* update_file_agent_by_id of the close endpoint                            *)
CloseFile(f) ==
  /\ f \in Range(open)
  /\ open' = Without(open, {f})
  /\ DisturbsAll
  /\ UNCHANGED <<row, limit, excused>>

(* close_all_other_files *)
CloseOthers(keep) ==
  /\ ~(Range(open) \subseteq keep)
  /\ open' = Without(open, Range(open) \ keep)
  /\ DisturbsAll
  /\ UNCHANGED <<row, limit, excused>>

(* mark_access, mark_access_bulk *)
MarkAccess(f) ==
  /\ f \in Range(open)
  /\ open' = Append(Without(open, {f}), f)
  /\ DisturbsAll
  /\ UNCHANGED <<row, limit, excused>>

(* detach_file, detach_file_bulk: the row is marked deleted.                *)
Detach(f) ==
  /\ row[f] = "attached"
  /\ row' = [row EXCEPT ![f] = "detached"]
  /\ open' = Without(open, {f})
  /\ DisturbsAll
  /\ UNCHANGED <<limit, excused>>

(* A lower limit closes nothing by itself.                                  *)
SetLimit(n) ==
  /\ n # limit
  /\ limit' = n
  /\ excused' = (excused \/ Len(open) > n)
  /\ op' = [p \in Proc |-> IF op[p].pc = "none" THEN op[p] ELSE [op[p] EXCEPT !.stale = TRUE]]
  /\ UNCHANGED <<row, open>>

Next ==
  \/ \E p \in Proc : \/ \E f \in File : OpenFile(p, f)
                     \/ \E files \in Folders : AttachFolder(p, files)
                     \/ ReadOpen(p) \/ ReadRows(p) \/ Write(p) \/ Refused(p)
  \/ \E f \in File : CloseFile(f) \/ MarkAccess(f) \/ Detach(f) \/ CloseOthers({f})
  \/ \E n \in Limits : SetLimit(n)

Spec == Init /\ [][Next]_vars

-----------------------------------------------------------------------------
(* At most max_files_open files are open, except after transactions that    *)
(* overlapped or a limit that was lowered, and then until the next one that *)
(* runs alone.                                                              *)
WithinLimit == excused \/ Len(open) <= limit

Position(f) == CHOOSE i \in 1 .. Len(open) : open[i] = f

(* A transaction that runs alone ends with the files it was asked for       *)
(* accessed last, and every file it closed had been accessed before every   *)
(* file it left open.                                                       *)
EvictsOldest ==
  [][\A p \in Proc :
       op[p].pc = "write" /\ op'[p] = None /\ ~op[p].stale =>
         \A f \in Range(open) \ Range(open'), g \in Range(open) \cap Range(open') :
           g \in Range(op[p].files) \/ f \in Range(op[p].files) \/ Position(f) < Position(g)]_vars

(* "Idempotently attach" (attach_file): attaching a file again succeeds.    *)
ReattachWorks == \A p \in Proc : ~op[p].refused
=============================================================================
