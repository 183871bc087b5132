---------------------------- MODULE RedisStream ----------------------------
(***************************************************************************)
(* The Redis stream of one background run: the writer's buffer and its two *)
(* flushers (the processor's own write_chunk and the periodic task), the   *)
(* processor that writes the chunks of the agent stream, reports errors,   *)
(* stops the writer and appends the forced [DONE], and the readers that    *)
(* poll the stream in batches, with a cursor.                              *)
(*                                                                         *)
(* A flush takes the buffer at once, then awaits a pipeline that is not a  *)
(* transaction: its XADDs reach Redis one by one, in order, and those of   *)
(* the other flusher may come between them.                                *)
(***************************************************************************)
EXTENDS Naturals, Sequences

CONSTANTS
  N,             \* chunks of the agent stream; the last one is its terminal event
  FlushSize,     \* buffered chunks that force a flush
  Reader,        \* clients reading the stream
  StartAfter,    \* [Reader -> Nat]: the cursor each connects with first
  BatchSize,     \* entries a reader asks for at once
  MaxReconnects, \* bound on the connections a reader loses
  MaxFailures,   \* bound on the pipelines that fail
  MayInterrupt   \* whether the processor task may be cancelled

Flusher == {"processor", "timer"}

ASSUME StreamAssumption ==
  /\ N \in Nat \ {0}
  /\ FlushSize \in Nat \ {0}
  /\ BatchSize \in Nat \ {0}
  /\ MaxReconnects \in Nat
  /\ StartAfter \in [Reader -> Nat]
  /\ MaxFailures \in Nat
  /\ MayInterrupt \in BOOLEAN

VARIABLES
  log,      \* the entries of the Redis stream
  buffer,   \* writer.buffer[run_id]
  nextSeq,  \* writer.seq_counters[run_id]
  flushed,  \* writer.last_flush[run_id]: absent, never (0.0) or once
  flight,   \* [Flusher -> [chunks taken from the buffer, how many were added]]
  timer,    \* the periodic task
  todo,     \* what the processor still has to write in its current phase
  phase,    \* the part of the processor that is executing
  pc,       \* what the processor is doing in that phase
  failures,    \* pipelines that failed
  interrupted, \* whether the processor task was cancelled
  reader    \* [Reader -> [state, pos, cursor, got, lost]]

writer == <<buffer, nextSeq, flushed>>
processor == <<todo, phase, pc>>
trouble == <<failures, interrupted>>
vars == <<log, writer, flight, timer, processor, trouble, reader>>

Source == [i \in 1 .. N |-> i]
Report == 0  \* a chunk the processor writes itself: error report, [DONE]

Chunk == [seq : 1 .. N + 4, src : 0 .. N, complete : BOOLEAN]
NoFlight == [on |-> FALSE, chunks |-> <<>>, sent |-> 0]
IsChunks(s) == \A i \in DOMAIN s : s[i] \in Chunk

TypeOK ==
  /\ IsChunks(log) /\ IsChunks(buffer)
  /\ nextSeq \in 1 .. N + 5
  /\ flushed \in {"absent", "never", "once"}
  /\ \A f \in Flusher : /\ flight[f].on \in BOOLEAN
                        /\ IsChunks(flight[f].chunks)
                        /\ flight[f].sent \in 0 .. Len(flight[f].chunks)
  /\ timer \in {"running", "ended"}
  /\ \A i \in DOMAIN todo : todo[i] \in 0 .. N
  /\ phase \in {"stream", "report", "stopping", "final"}
  /\ pc \in {"write", "flush", "stop", "flushRest", "done", "dead"}
  /\ failures \in 0 .. MaxFailures
  /\ interrupted \in BOOLEAN
  /\ \A r \in Reader : /\ reader[r].state \in {"reading", "ended"}
                       /\ reader[r].pos \in 0 .. Len(log)
                       /\ reader[r].lost \in 0 .. MaxReconnects

Init ==
  /\ log = <<>>
  /\ buffer = <<>>
  /\ nextSeq = 1
  /\ flushed = "absent"
  /\ flight = [f \in Flusher |-> NoFlight]
  /\ timer = "running"
  /\ todo = Source
  /\ phase = "stream"
  /\ pc = "write"
  /\ failures = 0
  /\ interrupted = FALSE
  /\ reader = [r \in Reader |->
                [state |-> "reading", pos |-> 0, cursor |-> StartAfter[r], got |-> <<>>, lost |-> 0]]

-----------------------------------------------------------------------------
(* RedisSSEStreamWriter *)

Last(s) == s[Len(s)]

\* Mutant of TakeOff: the buffer is copied, not taken.
TakeOff_KeepsBuffer(f, chunks) ==
  /\ flight' = [flight EXCEPT ![f] = [on |-> TRUE, chunks |-> chunks, sent |-> 0]]
  /\ buffer' = chunks

(* _flush_run takes the whole buffer and leaves it empty.                   *)
TakeOff(f, chunks) ==
  /\ flight' = [flight EXCEPT ![f] = [on |-> TRUE, chunks |-> chunks, sent |-> 0]]
  /\ buffer' = <<>>

Land(f) == flight' = [flight EXCEPT ![f] = NoFlight]

\* Mutant of NewChunk: the terminal chunk is not marked.
NewChunk_NeverComplete(src, complete) == [seq |-> nextSeq, src |-> src, complete |-> FALSE]

NewChunk(src, complete) == [seq |-> nextSeq, src |-> src, complete |-> complete]

\* Mutant of CountChunk: the counter advances twice per chunk.
CountChunk_Twice == nextSeq' = nextSeq + 2

CountChunk == nextSeq' = nextSeq + 1

(* write_chunk: number the chunk, buffer it, and flush when the buffer is   *)
(* full, the chunk is terminal, nothing was flushed yet, or (time) a flush  *)
(* is due.                                                                  *)
WriteChunk ==
  /\ pc = "write"
  /\ LET complete == Len(todo) = 1
         grown == Append(buffer, NewChunk(Head(todo), complete))
         full == Len(grown) >= FlushSize \/ complete
     IN \/ /\ TakeOff("processor", grown)
           /\ pc' = "flush"
           /\ flushed' = IF ~full /\ flushed = "absent" THEN "never" ELSE flushed
        \/ /\ ~full /\ flushed = "once"
           /\ buffer' = grown
           /\ UNCHANGED <<flight, pc, flushed>>
  /\ CountChunk
  /\ todo' = Tail(todo)
  /\ UNCHANGED <<log, timer, phase, trouble, reader>>

\* Mutant of FlushDue: the periodic task waits for a full buffer.
FlushDue_OnlyFull == flushed # "absent" /\ Len(buffer) >= FlushSize

(* The run is tracked in last_flush and has something buffered.             *)
FlushDue == flushed # "absent" /\ buffer # <<>>

(* _periodic_flush, when its interval has passed.                           *)
TimerFlush ==
  /\ timer = "running"
  /\ ~flight["timer"].on
  /\ FlushDue
  /\ TakeOff("timer", buffer)
  /\ UNCHANGED <<log, nextSeq, flushed, timer, processor, trouble, reader>>

XAdd(f) ==
  /\ flight[f].on
  /\ flight[f].sent < Len(flight[f].chunks)
  /\ log' = Append(log, flight[f].chunks[flight[f].sent + 1])
  /\ flight' = [flight EXCEPT ![f].sent = @ + 1]
  /\ UNCHANGED <<writer, timer, processor, trouble, reader>>

(* Where the processor goes once its flush returned...                      *)
Proceed ==
  IF phase = "final" /\ todo = <<>> THEN pc' = "done" /\ UNCHANGED <<todo, phase>>
  ELSE IF phase = "stopping" THEN pc' = "write" /\ phase' = "final" /\ todo' = <<Report>>
  ELSE pc' = (IF todo = <<>> THEN "stop" ELSE "write") /\ UNCHANGED <<todo, phase>>

(* ... or raised: the stream is replaced by an error report (two chunks     *)
(* when the run was cancelled, three otherwise), an error in the report     *)
(* goes to the finally block, one in writer.stop() leaves it, and one in    *)
(* mark_complete is only logged.                                            *)
GiveUp ==
  \/ /\ phase = "stream"
     /\ pc' = "write" /\ phase' = "report"
     /\ todo' \in {<<Report, Report>>, <<Report, Report, Report>>}
  \/ phase = "report" /\ pc' = "stop" /\ UNCHANGED <<todo, phase>>
  \/ phase = "stopping" /\ pc' = "dead" /\ UNCHANGED <<todo, phase>>
  \/ phase = "final" /\ pc' = "done" /\ UNCHANGED <<todo, phase>>

Return(f) == IF f = "processor" THEN Proceed ELSE UNCHANGED processor
Raise(f) == IF f = "processor" THEN GiveUp ELSE UNCHANGED processor

\* Mutant of Forgets: every flush cleans the run up.
Forgets_Always(chunks) == chunks # <<>>

Forgets(chunks) == Last(chunks).complete

(* The pipeline succeeded; a flush whose last chunk is complete forgets the *)
(* run: buffer, counter and flush time.                                     *)
FlushReturns(f) ==
  /\ flight[f].on
  /\ flight[f].sent = Len(flight[f].chunks)
  /\ IF Forgets(flight[f].chunks)
     THEN buffer' = <<>> /\ nextSeq' = 1 /\ flushed' = "absent"
     ELSE flushed' = "once" /\ UNCHANGED <<buffer, nextSeq>>
  /\ Land(f)
  /\ Return(f)
  /\ UNCHANGED <<log, timer, trouble, reader>>

\* Mutant of PutBack: failed chunks are not put back.
PutBack_Drops(chunks) == buffer' = buffer

PutBack(chunks) == buffer' = chunks \o buffer

(* The pipeline failed, after any number of its XADDs: all its chunks go    *)
(* back to the front of the buffer.                                         *)
FlushRaises(f) ==
  /\ failures < MaxFailures
  /\ failures' = failures + 1
  /\ flight[f].on
  /\ PutBack(flight[f].chunks)
  /\ Land(f)
  /\ Raise(f)
  /\ UNCHANGED <<log, nextSeq, flushed, timer, interrupted, reader>>

(* A cancelled flush: CancelledError is no Exception, so nothing is put     *)
(* back; the commands already sent may still be executed by Redis.          *)
Abandon(f) ==
  /\ \E n \in flight[f].sent .. Len(flight[f].chunks) :
       log' = log \o SubSeq(flight[f].chunks, flight[f].sent + 1, n)
  /\ Land(f)

(* writer.stop(): cancel the periodic task and wait for it...               *)
StopTimer ==
  /\ pc = "stop"
  /\ timer' = "ended"
  /\ Abandon("timer")
  /\ pc' = "flushRest" /\ phase' = "stopping"
  /\ UNCHANGED <<writer, todo, trouble, reader>>

(* ... then flush what is left in the buffer.                               *)
FlushRest ==
  /\ pc = "flushRest"
  /\ IF buffer = <<>>
     THEN /\ pc' = "write" /\ phase' = "final" /\ todo' = <<Report>>
          /\ UNCHANGED <<buffer, flight>>
     ELSE /\ TakeOff("processor", buffer)
          /\ pc' = "flush"
          /\ UNCHANGED <<todo, phase>>
  /\ UNCHANGED <<log, nextSeq, flushed, timer, trouble, reader>>

(* The processor task is cancelled while it awaits a chunk or a flush.      *)
Interrupted ==
  /\ MayInterrupt
  /\ ~interrupted
  /\ interrupted' = TRUE
  /\ pc = "flush" \/ (pc = "write" /\ phase = "stream")
  /\ Abandon("processor")
  /\ GiveUp
  /\ UNCHANGED <<writer, timer, failures, reader>>

Processor == WriteChunk \/ StopTimer \/ FlushRest \/ Interrupted
Flush(f) == XAdd(f) \/ FlushReturns(f) \/ FlushRaises(f)

-----------------------------------------------------------------------------
(* redis_sse_stream_generator                                               *)

Least(m, n) == IF m < n THEN m ELSE n

\* Mutant of FirstNew: the inclusive first entry is delivered again.
FirstNew_NoSkip(pos) == IF pos = 0 THEN 1 ELSE pos

FirstNew(pos) == pos + 1

(* Entries numbered at or before the cursor are skipped.                    *)
Kept(s, cursor) == LET Keep(e) == e.seq > cursor IN SelectSeq(s, Keep)

(* One XRANGE from the last entry read, which it returns again; entries at  *)
(* or before the cursor are skipped, the first kept complete entry ends it. *)
ReadBatch(r) ==
  LET rd == reader[r]
      first == IF rd.pos = 0 THEN 1 ELSE rd.pos
      last == Least(Len(log), first + BatchSize - 1)
      Ends(i) == log[i].seq > rd.cursor /\ log[i].complete
      ends == {i \in FirstNew(rd.pos) .. last : Ends(i)}
      upto == IF ends = {} THEN last ELSE CHOOSE i \in ends : \A j \in ends : i <= j
  IN /\ rd.state = "reading"
     /\ last > rd.pos
     /\ reader' = [reader EXCEPT ![r] =
          [@ EXCEPT !.pos = upto,
                    !.got = rd.got \o Kept(SubSeq(log, FirstNew(rd.pos), upto), rd.cursor),
                    !.state = IF ends = {} THEN "reading" ELSE "ended"]]
     /\ UNCHANGED <<log, writer, flight, timer, processor, trouble>>

(* The client loses its connection and asks for the rest of the stream.     *)
Reconnect(r) ==
  LET rd == reader[r]
  IN /\ rd.state = "reading"
     /\ rd.lost < MaxReconnects
     /\ reader' = [reader EXCEPT ![r] =
          [state |-> "reading", pos |-> 0, got |-> <<>>, lost |-> rd.lost + 1,
           cursor |-> IF rd.got = <<>> THEN rd.cursor ELSE Last(rd.got).seq]]
     /\ UNCHANGED <<log, writer, flight, timer, processor, trouble>>

Next ==
  \/ Processor
  \/ TimerFlush
  \/ \E f \in Flusher : Flush(f)
  \/ \E r \in Reader : ReadBatch(r) \/ Reconnect(r)

Spec == Init /\ [][Next]_vars

(* The event loop runs every task, the periodic flush comes due, Redis      *)
(* answers, and a connected reader polls. The agent owes nothing: its       *)
(* stream may stay silent for ever.                                         *)
FairSpec ==
  /\ Spec
  /\ WF_vars((phase # "stream" /\ WriteChunk) \/ StopTimer \/ FlushRest)
  /\ WF_vars(TimerFlush)
  /\ \A f \in Flusher : WF_vars(XAdd(f) \/ FlushReturns(f))
  /\ \A r \in Reader : WF_vars(ReadBatch(r))

-----------------------------------------------------------------------------
Srcs(s) == {s[i].src : i \in DOMAIN s}
Written == 1 .. N \ {todo[i] : i \in DOMAIN todo}
InRedis(i) == i \in Srcs(log)
Held(i) == i \in Srcs(buffer) \/ \E f \in Flusher : i \in Srcs(flight[f].chunks)
Stopped == timer = "ended"

(* As long as Redis does not fail, no chunk of the agent is stored twice,   *)
(* although two flushers share the buffer.                                  *)
NoDuplicateChunk ==
  failures = 0 =>
    \A i, j \in DOMAIN log : log[i].src = log[j].src /\ log[i].src # Report => i = j

(* Until the terminal chunk is stored, a chunk the agent produced is in     *)
(* Redis, in the buffer or in a flush that will put it back: failing        *)
(* pipelines of either flusher lose nothing.                                *)
NoChunkLostWhileStreaming ==
  phase = "stream" /\ pc # "stop" => \A i \in Written : InRedis(i) \/ Held(i)

(* The sequence number a reader resumes from identifies a chunk: a chunk of *)
(* the agent has the same number wherever it is stored.                     *)
NumberIdentifiesChunk ==
  \A i \in DOMAIN log : log[i].src # Report => log[i].seq = log[i].src

(* A reader is never handed a chunk numbered at or before its cursor again, *)
(* and what it gets is a part of the log in log order.                      *)
Log == INSTANCE SseLog
  WITH at <- [r \in Reader |-> reader[r].pos],
       after <- [r \in Reader |-> reader[r].cursor],
       got <- [r \in Reader |-> reader[r].got],
       ended <- {r \in Reader : reader[r].state = "ended"}
ImplementsSseLog == Log!Spec

(* Unless a pipeline failed, once the agent's stream has ended, or the      *)
(* processor was interrupted at any point of it, every client that reads    *)
(* from the start ends.                                                     *)
FromStartTerminates ==
  \A r \in Reader :
    StartAfter[r] = 0 /\ (phase # "stream" \/ todo = <<>>) ~>
      reader[r].state = "ended" \/ failures > 0

(* A chunk does not wait for the next one: again and again all that was     *)
(* produced has reached Redis, though the agent stays silent or a pipeline  *)
(* failed.                                                                  *)
BufferedIsFlushed ==
  []<>(Stopped \/ \A i \in Written : Held(i) => InRedis(i))

(* "Response will start streaming after this chunk sequence id"             *)
(* (letta_request.py): a stream that ends has delivered every chunk of the  *)
(* agent numbered after the cursor.                                         *)
EndedReaderHasAll ==
  \A r \in Reader :
    reader[r].state = "ended" /\ Last(reader[r].got).src = N =>
      \A i \in reader[r].cursor + 1 .. N : i \in Srcs(reader[r].got)
=============================================================================
