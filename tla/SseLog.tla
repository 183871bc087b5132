------------------------------- MODULE SseLog -------------------------------
(***************************************************************************)
(* What the Redis stream of a run promises to its readers: a log that only *)
(* grows, and readers that take its entries in order, each entry once,     *)
(* keep those numbered after their cursor, and end at the first entry they *)
(* keep that is marked complete.                                           *)
(***************************************************************************)
EXTENDS Naturals, Sequences

CONSTANT Reader

VARIABLES
  log,   \* sequence of [seq, src, complete]
  at,    \* [Reader -> how many entries of the log it has taken]
  after, \* [Reader -> the sequence number it starts after]
  got,   \* [Reader -> the entries delivered to it since it connected]
  ended  \* the readers whose stream has ended

vars == <<log, at, after, got, ended>>

Wanted(r, i) == log[i].seq > after[r]

(* The entries of s numbered after n.                                       *)
Kept(s, n) == LET Keep(e) == e.seq > n IN SelectSeq(s, Keep)

Init ==
  /\ log = <<>>
  /\ at = [r \in Reader |-> 0]
  /\ after \in [Reader -> Nat]
  /\ got = [r \in Reader |-> <<>>]
  /\ ended = {}

Append_ ==
  /\ Len(log') > Len(log)
  /\ SubSeq(log', 1, Len(log)) = log
  /\ UNCHANGED <<at, after, got, ended>>

(* r takes the next entries, up to n; only the n-th may end its stream.     *)
Take(r, n) ==
  /\ r \notin ended
  /\ n \in at[r] + 1 .. Len(log)
  /\ \A i \in at[r] + 1 .. n - 1 : ~(Wanted(r, i) /\ log[i].complete)
  /\ at' = [at EXCEPT ![r] = n]
  /\ got' = [got EXCEPT ![r] = @ \o Kept(SubSeq(log, at[r] + 1, n), after[r])]
  /\ ended' = IF Wanted(r, n) /\ log[n].complete THEN ended \cup {r} ELSE ended
  /\ UNCHANGED <<log, after>>

(* A client that lost its connection comes back with the last number it saw. *)
Reconnect(r) ==
  /\ r \notin ended
  /\ at' = [at EXCEPT ![r] = 0]
  /\ after' = [after EXCEPT ![r] = IF got[r] = <<>> THEN @ ELSE got[r][Len(got[r])].seq]
  /\ got' = [got EXCEPT ![r] = <<>>]
  /\ UNCHANGED <<log, ended>>

Next == Append_ \/ \E r \in Reader : Reconnect(r) \/ \E n \in 1 .. Len(log) : Take(r, n)

Spec == Init /\ [][Next]_vars
=============================================================================
