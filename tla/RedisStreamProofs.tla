-------------------------- MODULE RedisStreamProofs --------------------------
(***************************************************************************)
(* The Redis stream of a run, for every number of chunks, size of the      *)
(* buffer and of the batches, set of readers, and any failures: types, the *)
(* numbers of the agent's chunks, that none is lost or doubled, and that   *)
(* the stream implements SseLog.                                           *)
(*                                                                         *)
(* The counter of the writer is reset by the flush of the terminal chunk,  *)
(* whichever flusher it is. The invariant says where that chunk may be in  *)
(* each phase, and so that the reset comes after the agent's last chunk.   *)
(***************************************************************************)
EXTENDS RedisStream, TLAPS, WellFoundedInduction

Elements(s) == {s[i] : i \in DOMAIN s}

(* What the sequence operators of the writer do to the elements.            *)
LEMMA ElementsOfAppend ==
  ASSUME NEW S, NEW s \in Seq(S), NEW x \in S
  PROVE  Append(s, x) \in Seq(S) /\ Elements(Append(s, x)) = Elements(s) \cup {x}
<1>1. /\ Append(s, x) \in Seq(S) /\ DOMAIN Append(s, x) = 1 .. Len(s) + 1
      /\ DOMAIN s = 1 .. Len(s) /\ Len(s) \in Nat
  OBVIOUS
<1>2. \A i \in 1 .. Len(s) : Append(s, x)[i] = s[i]
  OBVIOUS
<1>3. Append(s, x)[Len(s) + 1] = x
  OBVIOUS
<1>4. ASSUME NEW y \in Elements(Append(s, x))
      PROVE  y \in Elements(s) \cup {x}
  <2>1. PICK i \in 1 .. Len(s) + 1 : y = Append(s, x)[i]
    BY <1>1 DEF Elements
  <2> QED
    BY <1>1, <1>2, <1>3, <2>1 DEF Elements
<1>5. ASSUME NEW y \in Elements(s) \cup {x}
      PROVE  y \in Elements(Append(s, x))
  BY <1>1, <1>2, <1>3 DEF Elements
<1> QED
  BY <1>1, <1>4, <1>5

LEMMA ElementsOfConcat ==
  ASSUME NEW S, NEW s \in Seq(S), NEW t \in Seq(S)
  PROVE  s \o t \in Seq(S) /\ Elements(s \o t) = Elements(s) \cup Elements(t)
<1>1. /\ s \o t \in Seq(S) /\ DOMAIN (s \o t) = 1 .. Len(s) + Len(t)
      /\ DOMAIN s = 1 .. Len(s) /\ Len(s) \in Nat /\ DOMAIN t = 1 .. Len(t) /\ Len(t) \in Nat
  OBVIOUS
<1>2. \A i \in 1 .. Len(s) : (s \o t)[i] = s[i]
  OBVIOUS
<1>3. \A i \in 1 .. Len(t) : (s \o t)[Len(s) + i] = t[i]
  OBVIOUS
<1>4. ASSUME NEW y \in Elements(s \o t)
      PROVE  y \in Elements(s) \cup Elements(t)
  <2>1. PICK i \in 1 .. Len(s) + Len(t) : y = (s \o t)[i]
    BY <1>1 DEF Elements
  <2>2. CASE i \in 1 .. Len(s)
    BY <1>1, <1>2, <2>1, <2>2 DEF Elements
  <2>3. CASE i \notin 1 .. Len(s)
    <3>1. i - Len(s) \in 1 .. Len(t) /\ Len(s) + (i - Len(s)) = i
      BY <1>1, <2>1, <2>3
    <3> QED
      BY <1>1, <1>3, <2>1, <3>1 DEF Elements
  <2> QED
    BY <2>2, <2>3
<1>5. ASSUME NEW y \in Elements(s) \cup Elements(t)
      PROVE  y \in Elements(s \o t)
  <2>1. CASE y \in Elements(s)
    BY <1>1, <1>2, <2>1 DEF Elements
  <2>2. CASE y \in Elements(t)
    <3>1. PICK i \in 1 .. Len(t) : y = t[i]
      BY <1>1, <2>2 DEF Elements
    <3>2. Len(s) + i \in 1 .. Len(s) + Len(t)
      BY <1>1
    <3> QED
      BY <1>1, <1>3, <3>1, <3>2 DEF Elements
  <2> QED
    BY <2>1, <2>2
<1> QED
  BY <1>1, <1>4, <1>5

LEMMA ElementsOfSubSeq ==
  ASSUME NEW S, NEW s \in Seq(S), NEW m \in Nat, NEW n \in m .. Len(s)
  PROVE  /\ SubSeq(s, m + 1, n) \in Seq(S) /\ Len(SubSeq(s, m + 1, n)) = n - m
         /\ \A i \in 1 .. n - m : SubSeq(s, m + 1, n)[i] = s[m + i]
         /\ Elements(SubSeq(s, m + 1, n)) \subseteq Elements(s)
<1>1. /\ SubSeq(s, m + 1, n) \in Seq(S) /\ Len(SubSeq(s, m + 1, n)) = n - m
      /\ DOMAIN s = 1 .. Len(s)
  OBVIOUS
<1>2. \A i \in 1 .. n - m : SubSeq(s, m + 1, n)[i] = s[m + i]
  OBVIOUS
<1>3. DOMAIN SubSeq(s, m + 1, n) = 1 .. n - m
  BY <1>1
<1> QED
  BY <1>1, <1>2, <1>3 DEF Elements

LEMMA ElementsOfEmpty == Elements(<<>>) = {}
  BY DEF Elements

LEMMA ElementsIn ==
  ASSUME NEW S, NEW s \in Seq(S)
  PROVE  Elements(s) \subseteq S
  BY DEF Elements

-----------------------------------------------------------------------------
(* Types, with the parts of the state as functions, records and sequences.  *)
IsReader(x) ==
  x = [state |-> x.state, pos |-> x.pos, cursor |-> x.cursor, got |-> x.got, lost |-> x.lost]

Flight == [on : BOOLEAN, chunks : Seq(Chunk), sent : Nat]

StreamTypes ==
  /\ log \in Seq(Chunk) /\ buffer \in Seq(Chunk) /\ todo \in Seq(0 .. N)
  /\ nextSeq \in Nat \ {0}
  /\ flushed \in {"absent", "never", "once"}
  /\ flight \in [Flusher -> Flight]
  /\ timer \in {"running", "ended"}
  /\ phase \in {"stream", "report", "stopping", "final"}
  /\ failures \in 0 .. MaxFailures /\ interrupted \in BOOLEAN

ReaderTypes ==
  /\ DOMAIN reader = Reader
  /\ \A r \in Reader : /\ IsReader(reader[r])
                       /\ reader[r].state \in {"reading", "ended"}
                       /\ reader[r].pos \in 0 .. Len(log)
                       /\ reader[r].lost \in 0 .. MaxReconnects

(* Where the processor is in each of its phases.                            *)
Control ==
  /\ phase \in {"stream", "report"} => pc \in {"write", "flush", "stop"}
  /\ phase = "stopping" => pc \in {"flushRest", "flush", "dead"}
  /\ phase = "final" => pc \in {"write", "flush", "done"} /\ Len(todo) <= 1
  /\ pc = "write" => todo # <<>>
  /\ pc # "write" /\ phase = "final" => todo = <<>>
  /\ pc = "stop" /\ phase = "stream" => todo = <<>>

(* What is left of the agent's chunks, or of the processor's own.           *)
Remaining ==
  /\ phase = "stream" => Len(todo) <= N /\ \A i \in DOMAIN todo : todo[i] = N - Len(todo) + i
  /\ phase # "stream" => \A i \in DOMAIN todo : todo[i] = Report

(* The numbers that the rest of the run may still take.                     *)
Budget ==
  /\ phase = "stream" => nextSeq + Len(todo) <= N + 1
  /\ phase = "report" => nextSeq + Len(todo) <= N + 4
  /\ phase = "stopping" => nextSeq <= N + 4
  /\ phase = "final" => nextSeq + Len(todo) <= N + 5

PhaseInv == Control /\ Remaining /\ Budget

(* A flush under way has something to store; the processor's is awaited.    *)
Flights ==
  /\ \A f \in Flusher : /\ flight[f].on => flight[f].chunks # <<>>
                        /\ ~flight[f].on => flight[f] = NoFlight
                        /\ flight[f].sent <= Len(flight[f].chunks)
  /\ flight["processor"].on <=> pc = "flush"
  /\ timer = "ended" => ~flight["timer"].on

WriterInv == StreamTypes /\ PhaseInv /\ Flights

(* A number taken again leaves the budget as it is.                         *)
LEMMA SmallerFits ==
  ASSUME NEW m \in Nat, NEW n \in Nat, NEW k \in Nat, NEW b \in Nat, m <= n, n + k <= b
  PROVE  m + k <= b
  OBVIOUS

(* The processor writes the next chunk of its phase.                        *)
LEMMA PhaseWrite ==
  ASSUME StreamTypes, PhaseInv, WriteChunk
  PROVE  /\ PhaseInv' /\ todo' \in Seq(0 .. N)
         /\ Len(todo') = Len(todo) - 1 /\ Len(todo) >= 1
<1> N \in Nat /\ Report = 0
  BY StreamAssumption DEF Report
<1>1. /\ pc = "write" /\ todo' = Tail(todo) /\ nextSeq' = nextSeq + 1 /\ phase' = phase
      /\ pc' = "flush" \/ (pc' = "write" /\ Len(todo) # 1)
  BY DEF WriteChunk, CountChunk
<1>2. todo \in Seq(0 .. N) /\ todo # <<>> /\ nextSeq \in Nat
  BY <1>1 DEF StreamTypes, PhaseInv, Control
<1>3. /\ todo' \in Seq(0 .. N) /\ Len(todo) \in Nat \ {0} /\ Len(todo') = Len(todo) - 1
      /\ \A i \in 1 .. Len(todo) - 1 : todo'[i] = todo[i + 1]
  BY <1>1, <1>2
<1>4. /\ DOMAIN todo = 1 .. Len(todo) /\ DOMAIN todo' = 1 .. Len(todo) - 1
      /\ todo' = <<>> <=> Len(todo) = 1
  <2>1. \A s \in Seq(0 .. N) : DOMAIN s = 1 .. Len(s) /\ (s = <<>> <=> Len(s) = 0)
    OBVIOUS
  <2>2. Len(todo') = 0 <=> Len(todo) = 1
    BY <1>3
  <2> QED
    BY <1>2, <1>3, <2>1, <2>2
<1>5. Control'
  BY <1>1, <1>3, <1>4 DEF PhaseInv, Control
<1>6. Remaining'
  <2>1. ASSUME phase = "stream", NEW i \in DOMAIN todo'
        PROVE  todo'[i] = N - Len(todo') + i
    <3>1. i + 1 \in DOMAIN todo /\ todo'[i] = todo[i + 1]
      BY <1>3, <1>4, <2>1
    <3>2. todo[i + 1] = N - Len(todo) + (i + 1)
      BY <2>1, <3>1 DEF PhaseInv, Remaining
    <3> QED
      BY <1>3, <1>4, <3>1, <3>2
  <2>2. ASSUME phase # "stream", NEW i \in DOMAIN todo'
        PROVE  todo'[i] = Report
    <3>1. i + 1 \in DOMAIN todo /\ todo'[i] = todo[i + 1]
      BY <1>3, <1>4, <2>2
    <3> QED
      BY <2>2, <3>1 DEF PhaseInv, Remaining
  <2>3. phase = "stream" => Len(todo') <= N
    BY <1>3 DEF PhaseInv, Remaining
  <2> QED
    BY <1>1, <2>1, <2>2, <2>3 DEF Remaining
<1>7. Budget'
  <2>1. nextSeq \in Nat /\ Len(todo) \in Nat /\ Len(todo') = Len(todo) - 1
    BY <1>2, <1>3
  <2>2. nextSeq' + Len(todo') = nextSeq + Len(todo)
    <3>1. \A a, b \in Nat : (a + 1) + (b - 1) = a + b
      OBVIOUS
    <3>2. nextSeq' = nextSeq + 1
      BY <1>1
    <3> QED
      BY <2>1, <3>1, <3>2
  <2>3. phase \in {"stream", "report", "final"} /\ phase' = phase
    BY <1>1 DEF StreamTypes, PhaseInv, Control
  <2>4. Budget
    BY DEF PhaseInv
  <2> QED
    BY <2>1, <2>2, <2>3, <2>4 DEF Budget
<1> QED
  BY <1>3, <1>5, <1>6, <1>7 DEF PhaseInv

(* A flush of the processor returned; the counter may have been reset.      *)
LEMMA PhaseProceed ==
  ASSUME StreamTypes, PhaseInv, pc = "flush", Proceed,
         nextSeq' \in Nat, nextSeq' <= nextSeq
  PROVE  /\ PhaseInv' /\ todo' \in Seq(0 .. N) /\ pc' # "flush"
         /\ phase' \in {"stream", "report", "stopping", "final"}
         /\ phase' = "stream" =>
              /\ phase = "stream" /\ todo' = todo
              /\ pc' = "stop" <=> todo = <<>>
<1> N \in Nat /\ Report = 0
  BY StreamAssumption DEF Report
<1>1. todo \in Seq(0 .. N) /\ Len(todo) \in Nat /\ nextSeq \in Nat
  BY DEF StreamTypes
<1>s. \A k, b \in Nat : nextSeq + k <= b => nextSeq' + k <= b
  BY <1>1, SmallerFits
<1>2. CASE phase = "final"
  <2>1. todo = <<>> /\ pc' = "done" /\ todo' = todo /\ phase' = phase
    BY <1>2 DEF PhaseInv, Control, Proceed
  <2>2. Len(todo) = 0 /\ nextSeq' + Len(todo) <= N + 5
    <3>1. Len(todo) = 0 /\ nextSeq + Len(todo) <= N + 5
      BY <1>2, <2>1 DEF PhaseInv, Budget
    <3>2. N + 5 \in Nat
      OBVIOUS
    <3> QED
      BY <1>1, <1>s, <3>1, <3>2
  <2>3. Control' /\ Remaining'
    BY <1>2, <2>1, <2>2 DEF PhaseInv, Control, Remaining
  <2>4. Budget'
    BY <1>1, <1>2, <2>1, <2>2 DEF Budget
  <2> QED
    BY <1>1, <1>2, <2>1, <2>3, <2>4 DEF PhaseInv
<1>3. CASE phase = "stopping"
  <2>1. pc' = "write" /\ phase' = "final" /\ todo' = <<Report>>
    BY <1>3 DEF Proceed
  <2>2. /\ todo' \in Seq(0 .. N) /\ Len(todo') = 1 /\ todo'[1] = Report
        /\ DOMAIN todo' = {1} /\ todo' # <<>>
    BY <2>1
  <2>3. nextSeq' + Len(todo') <= N + 5
    <3>1. nextSeq <= N + 4
      BY <1>3 DEF PhaseInv, Budget
    <3>2. nextSeq + 1 <= N + 5 /\ N + 5 \in Nat
      BY <1>1, <3>1
    <3>3. nextSeq' + 1 <= N + 5
      BY <1>s, <3>2
    <3> QED
      BY <2>2, <3>3
  <2>4. Control' /\ Remaining'
    BY <2>1, <2>2 DEF Control, Remaining
  <2>5. Budget'
    BY <2>1, <2>3 DEF Budget
  <2> QED
    BY <1>3, <2>1, <2>2, <2>4, <2>5 DEF PhaseInv
<1>4. CASE phase \in {"stream", "report"}
  <2>1. pc' = (IF todo = <<>> THEN "stop" ELSE "write") /\ todo' = todo /\ phase' = phase
    BY <1>4 DEF Proceed
  <2>2. Control' /\ Remaining'
    BY <1>4, <2>1 DEF PhaseInv, Control, Remaining
  <2>3. Budget'
    <3>1. \A b \in Nat : nextSeq + Len(todo) <= b => nextSeq' + Len(todo) <= b
      BY <1>1, <1>s
    <3> QED
      BY <1>4, <2>1, <3>1 DEF PhaseInv, Budget
  <2> QED
    BY <1>1, <1>4, <2>1, <2>2, <2>3 DEF PhaseInv
<1> QED
  BY <1>2, <1>3, <1>4 DEF StreamTypes

(* The processor gives its phase up.                                        *)
LEMMA PhaseGiveUp ==
  ASSUME StreamTypes, PhaseInv, pc = "flush" \/ (pc = "write" /\ phase = "stream"), GiveUp,
         nextSeq' = nextSeq
  PROVE  /\ PhaseInv' /\ todo' \in Seq(0 .. N) /\ pc' # "flush"
         /\ phase' \in {"report", "stopping", "final"}
<1> N \in Nat /\ Report = 0
  BY StreamAssumption DEF Report
<1>1. todo \in Seq(0 .. N) /\ Len(todo) \in Nat /\ nextSeq \in Nat
  BY DEF StreamTypes
<1>2. CASE phase = "stream"
  <2>1. pc' = "write" /\ phase' = "report" /\ todo' \in {<<Report, Report>>, <<Report, Report, Report>>}
    BY <1>2 DEF GiveUp
  <2>2. /\ todo' \in Seq(0 .. N) /\ Len(todo') \in {2, 3} /\ \A i \in DOMAIN todo' : todo'[i] = Report
        /\ todo' # <<>>
    <3>1. CASE todo' = <<Report, Report>>
      BY <3>1
    <3>2. CASE todo' = <<Report, Report, Report>>
      BY <3>2
    <3> QED
      BY <2>1, <3>1, <3>2
  <2>3. nextSeq <= N + 1
    BY <1>1, <1>2 DEF PhaseInv, Budget
  <2>4. nextSeq' + Len(todo') <= N + 4
    <3>1. nextSeq + 3 <= N + 4 /\ nextSeq + 2 <= N + 4
      BY <1>1, <2>3
    <3> QED
      BY <2>2, <3>1
  <2>5. Control' /\ Remaining' /\ Budget'
    BY <2>1, <2>2, <2>4 DEF Control, Remaining, Budget
  <2> QED
    BY <2>1, <2>2, <2>5 DEF PhaseInv
<1>3. CASE phase # "stream"
  <2>1. /\ todo' = todo
        /\ \/ phase = "report" /\ phase' = phase /\ pc' = "stop"
           \/ phase = "stopping" /\ phase' = phase /\ pc' = "dead"
           \/ phase = "final" /\ phase' = phase /\ pc' = "done"
    BY <1>3 DEF GiveUp
  <2>2. phase = "final" => todo = <<>>
    BY <1>3 DEF PhaseInv, Control
  <2> QED
    BY <1>1, <1>3, <2>1, <2>2 DEF PhaseInv, Control, Remaining, Budget
<1> QED
  BY <1>2, <1>3

-----------------------------------------------------------------------------
(* The steps of the two flushers and of the processor.                      *)

LEMMA TakeOffStep ==
  ASSUME NEW f \in Flusher, NEW chunks \in Seq(Chunk), StreamTypes, TakeOff(f, chunks)
  PROVE  /\ buffer' = <<>> /\ buffer' \in Seq(Chunk) /\ flight' \in [Flusher -> Flight]
         /\ flight'[f] = [on |-> TRUE, chunks |-> chunks, sent |-> 0]
         /\ flight'[f].chunks = chunks /\ flight'[f].sent = 0
         /\ \A g \in Flusher \ {f} : flight'[g] = flight[g]
  BY DEF TakeOff, StreamTypes, Flight

LEMMA LandStep ==
  ASSUME NEW f \in Flusher, StreamTypes, Land(f)
  PROVE  /\ flight' \in [Flusher -> Flight] /\ flight'[f] = NoFlight
         /\ \A g \in Flusher \ {f} : flight'[g] = flight[g]
<1>1. NoFlight \in Flight
  BY DEF NoFlight, Flight
<1> QED
  BY <1>1 DEF Land, StreamTypes

LEMMA NoFlightIs == NoFlight.on = FALSE /\ NoFlight.chunks = <<>> /\ NoFlight.sent = 0
  BY DEF NoFlight

LEMMA FlightOf ==
  ASSUME NEW f \in Flusher, StreamTypes
  PROVE  flight[f] \in Flight /\ flight[f].chunks \in Seq(Chunk) /\ flight[f].sent \in Nat
         /\ flight[f].on \in BOOLEAN
  BY DEF StreamTypes, Flight

(* The chunk that write_chunk numbers is one.                               *)
LEMMA NewChunkType ==
  ASSUME WriterInv, pc = "write"
  PROVE  /\ NewChunk(Head(todo), Len(todo) = 1) \in Chunk
         /\ Append(buffer, NewChunk(Head(todo), Len(todo) = 1)) \in Seq(Chunk)
<1>1. N \in Nat /\ nextSeq \in Nat \ {0} /\ todo \in Seq(0 .. N) /\ todo # <<>>
  BY StreamAssumption DEF WriterInv, StreamTypes, PhaseInv, Control
<1>2. Head(todo) \in 0 .. N /\ Len(todo) \in Nat \ {0}
  BY <1>1
<1>3. nextSeq <= N + 4
  <2>1. phase \in {"stream", "report", "final"}
    BY DEF WriterInv, StreamTypes, PhaseInv, Control
  <2>2. \A k \in Nat \ {0}, b \in {N + 1, N + 4, N + 5} : nextSeq + k <= b => nextSeq <= N + 4
    BY <1>1
  <2>3. nextSeq + Len(todo) <= N + 1 \/ nextSeq + Len(todo) <= N + 4 \/ nextSeq + Len(todo) <= N + 5
    BY <2>1 DEF WriterInv, PhaseInv, Budget
  <2> QED
    BY <1>2, <2>2, <2>3
<1>4. nextSeq \in 1 .. N + 4
  BY <1>1, <1>3
<1>5. NewChunk(Head(todo), Len(todo) = 1) \in Chunk
  BY <1>2, <1>4 DEF NewChunk, Chunk
<1> QED
  BY <1>5, ElementsOfAppend DEF WriterInv, StreamTypes

LEMMA WriterWrites ==
  ASSUME WriterInv, WriteChunk
  PROVE  WriterInv'
<1> DEFINE grown == Append(buffer, NewChunk(Head(todo), Len(todo) = 1))
<1>t. StreamTypes /\ PhaseInv /\ Flights
  BY DEF WriterInv
<1>1. /\ pc = "write" /\ nextSeq' = nextSeq + 1
      /\ UNCHANGED <<log, timer, phase, failures, interrupted>>
  BY DEF WriteChunk, CountChunk, trouble
<1>2. PhaseInv' /\ todo' \in Seq(0 .. N)
  BY <1>t, PhaseWrite
<1>3. grown \in Seq(Chunk) /\ grown # <<>> /\ nextSeq' \in Nat \ {0}
  <2>1. grown \in Seq(Chunk)
    BY <1>1, NewChunkType
  <2>2. buffer \in Seq(Chunk) /\ nextSeq \in Nat
    BY <1>t DEF StreamTypes
  <2>3. grown # <<>>
    <3>1. Len(grown) = Len(buffer) + 1
      BY <1>1, <2>2, NewChunkType
    <3>2. Len(buffer) + 1 # 0 /\ Len(<<>>) = 0
      BY <2>2
    <3> HIDE DEF grown
    <3> QED
      BY <3>1, <3>2
  <2>4. nextSeq' \in Nat \ {0}
    BY <1>1, <2>2
  <2> QED
    BY <2>1, <2>3, <2>4
<1>4. \/ TakeOff("processor", grown) /\ pc' = "flush" /\ flushed' \in {flushed, "never"}
      \/ buffer' = grown /\ UNCHANGED <<flight, pc, flushed>>
  BY DEF WriteChunk
<1> HIDE DEF grown
<1>5. CASE TakeOff("processor", grown) /\ pc' = "flush" /\ flushed' \in {flushed, "never"}
  <2>1. "processor" \in Flusher /\ Flusher = {"processor", "timer"}
    BY DEF Flusher
  <2>2. /\ buffer' = <<>> /\ buffer' \in Seq(Chunk) /\ flight' \in [Flusher -> Flight]
        /\ flight'["processor"] = [on |-> TRUE, chunks |-> grown, sent |-> 0]
        /\ \A g \in Flusher \ {"processor"} : flight'[g] = flight[g]
    BY <1>t, <1>3, <1>5, <2>1, TakeOffStep
  <2>3. Flights'
    <3>1. grown \in Seq(Chunk) /\ 0 <= Len(grown)
      BY <1>3
    <3> QED
      BY <1>t, <1>1, <1>3, <1>5, <2>1, <2>2, <3>1 DEF Flights
  <2>4. StreamTypes'
    BY <1>t, <1>1, <1>2, <1>3, <1>5, <2>2 DEF StreamTypes
  <2> QED
    BY <1>2, <2>3, <2>4 DEF WriterInv
<1>6. CASE buffer' = grown /\ UNCHANGED <<flight, pc, flushed>>
  <2>1. Flights'
    BY <1>t, <1>1, <1>6 DEF Flights
  <2>2. StreamTypes'
    BY <1>t, <1>1, <1>2, <1>3, <1>6 DEF StreamTypes
  <2> QED
    BY <1>2, <2>1, <2>2 DEF WriterInv
<1> QED
  BY <1>4, <1>5, <1>6

LEMMA WriterTimer ==
  ASSUME WriterInv, TimerFlush
  PROVE  WriterInv'
<1>t. StreamTypes /\ PhaseInv /\ Flights
  BY DEF WriterInv
<1>1. /\ timer = "running" /\ ~flight["timer"].on /\ buffer # <<>> /\ TakeOff("timer", buffer)
      /\ UNCHANGED <<log, nextSeq, flushed, timer, todo, phase, pc, failures, interrupted>>
  BY DEF TimerFlush, FlushDue, processor, trouble
<1>2. "timer" \in Flusher /\ Flusher = {"processor", "timer"}
  BY DEF Flusher
<1>3. /\ buffer' = <<>> /\ buffer' \in Seq(Chunk) /\ flight' \in [Flusher -> Flight]
      /\ flight'["timer"] = [on |-> TRUE, chunks |-> buffer, sent |-> 0]
      /\ \A g \in Flusher \ {"timer"} : flight'[g] = flight[g]
  BY <1>t, <1>1, <1>2, TakeOffStep DEF StreamTypes
<1>4. Flights'
  <2>1. 0 <= Len(buffer)
    BY <1>t DEF StreamTypes
  <2> QED
    BY <1>t, <1>1, <1>2, <1>3, <2>1 DEF Flights
<1>5. StreamTypes'
  BY <1>t, <1>1, <1>3 DEF StreamTypes
<1>6. PhaseInv'
  BY <1>t, <1>1 DEF PhaseInv, Control, Remaining, Budget
<1> QED
  BY <1>4, <1>5, <1>6 DEF WriterInv

(* One entry more in the log, one chunk more of the flight sent.            *)
LEMMA XAddStep ==
  ASSUME NEW f \in Flusher, WriterInv, XAdd(f)
  PROVE  /\ flight[f].sent + 1 \in 1 .. Len(flight[f].chunks)
         /\ flight[f].chunks[flight[f].sent + 1] \in Chunk
         /\ log' = Append(log, flight[f].chunks[flight[f].sent + 1])
         /\ flight' \in [Flusher -> Flight]
         /\ flight'[f].on = flight[f].on /\ flight'[f].chunks = flight[f].chunks
         /\ flight'[f].sent = flight[f].sent + 1 /\ flight[f].on
         /\ \A g \in Flusher \ {f} : flight'[g] = flight[g]
         /\ UNCHANGED <<buffer, nextSeq, flushed, timer, todo, phase, pc, failures, interrupted>>
<1>1. /\ flight[f].on /\ flight[f].sent < Len(flight[f].chunks)
      /\ log' = Append(log, flight[f].chunks[flight[f].sent + 1])
      /\ flight' = [flight EXCEPT ![f].sent = @ + 1]
      /\ UNCHANGED <<buffer, nextSeq, flushed, timer, todo, phase, pc, failures, interrupted>>
  BY DEF XAdd, writer, processor, trouble
<1>2. StreamTypes /\ flight[f] \in Flight /\ flight[f].chunks \in Seq(Chunk) /\ flight[f].sent \in Nat
  BY FlightOf DEF WriterInv
<1>3. Len(flight[f].chunks) \in Nat
  BY <1>2
<1>4. flight[f].sent + 1 \in 1 .. Len(flight[f].chunks)
  BY <1>1, <1>2, <1>3
<1>5. flight[f].chunks[flight[f].sent + 1] \in Chunk
  BY <1>2, <1>4
<1>6. /\ [flight[f] EXCEPT !.sent = @ + 1] \in Flight
      /\ flight'[f] = [flight[f] EXCEPT !.sent = @ + 1]
      /\ \A g \in Flusher \ {f} : flight'[g] = flight[g]
      /\ flight' \in [Flusher -> Flight]
  <2>1. [flight[f] EXCEPT !.sent = @ + 1] \in Flight
    BY <1>2 DEF Flight
  <2> QED
    BY <1>1, <1>2, <2>1 DEF StreamTypes
<1>7. /\ flight'[f].on = flight[f].on /\ flight'[f].chunks = flight[f].chunks
      /\ flight'[f].sent = flight[f].sent + 1
  BY <1>2, <1>6 DEF Flight
<1> QED
  BY <1>1, <1>4, <1>5, <1>6, <1>7

LEMMA WriterXAdd ==
  ASSUME NEW f \in Flusher, WriterInv, XAdd(f)
  PROVE  WriterInv'
<1>t. StreamTypes /\ PhaseInv /\ Flights
  BY DEF WriterInv
<1>1. /\ flight[f].sent + 1 \in 1 .. Len(flight[f].chunks)
      /\ flight[f].chunks[flight[f].sent + 1] \in Chunk
      /\ log' = Append(log, flight[f].chunks[flight[f].sent + 1])
      /\ flight' \in [Flusher -> Flight]
      /\ flight'[f].on = flight[f].on /\ flight'[f].chunks = flight[f].chunks
      /\ flight'[f].sent = flight[f].sent + 1 /\ flight[f].on
      /\ \A g \in Flusher \ {f} : flight'[g] = flight[g]
      /\ UNCHANGED <<buffer, nextSeq, flushed, timer, todo, phase, pc, failures, interrupted>>
  BY XAddStep
<1>2. log' \in Seq(Chunk)
  BY <1>t, <1>1, ElementsOfAppend DEF StreamTypes
<1>3. StreamTypes'
  BY <1>t, <1>1, <1>2 DEF StreamTypes
<1>4. PhaseInv'
  BY <1>t, <1>1 DEF PhaseInv, Control, Remaining, Budget
<1>5. Flights'
  <2>1. flight'[f].sent <= Len(flight'[f].chunks)
    BY <1>1
  <2>2. \A g \in Flusher : flight'[g].on = flight[g].on
    BY <1>1
  <2>3. "processor" \in Flusher /\ "timer" \in Flusher
    BY DEF Flusher
  <2> QED
    BY <1>t, <1>1, <2>1, <2>2, <2>3 DEF Flights
<1> QED
  BY <1>3, <1>4, <1>5 DEF WriterInv

(* Where a returned flush leaves the buffer and the counter.                *)
LEMMA ReturnsStep ==
  ASSUME NEW f \in Flusher, WriterInv, FlushReturns(f)
  PROVE  /\ flight[f].on /\ flight[f].sent = Len(flight[f].chunks)
         /\ flight' \in [Flusher -> Flight] /\ flight'[f] = NoFlight
         /\ \A g \in Flusher \ {f} : flight'[g] = flight[g]
         /\ \/ Last(flight[f].chunks).complete /\ buffer' = <<>> /\ nextSeq' = 1
            \/ ~Last(flight[f].chunks).complete /\ UNCHANGED <<buffer, nextSeq>>
         /\ nextSeq' \in Nat \ {0} /\ nextSeq' <= nextSeq /\ buffer' \in Seq(Chunk)
         /\ flushed' \in {"absent", "never", "once"}
         /\ UNCHANGED <<log, timer, failures, interrupted>>
<1>1. /\ flight[f].on /\ flight[f].sent = Len(flight[f].chunks) /\ Land(f)
      /\ \/ Last(flight[f].chunks).complete /\ buffer' = <<>> /\ nextSeq' = 1
         \/ ~Last(flight[f].chunks).complete /\ UNCHANGED <<buffer, nextSeq>>
      /\ flushed' \in {"absent", "once"}
      /\ UNCHANGED <<log, timer, failures, interrupted>>
  BY DEF FlushReturns, Forgets, trouble
<1>2. /\ flight' \in [Flusher -> Flight] /\ flight'[f] = NoFlight
      /\ \A g \in Flusher \ {f} : flight'[g] = flight[g]
  BY <1>1, LandStep DEF WriterInv
<1>3. nextSeq \in Nat \ {0} /\ buffer \in Seq(Chunk)
  BY DEF WriterInv, StreamTypes
<1>4. nextSeq' \in Nat \ {0} /\ nextSeq' <= nextSeq
  BY <1>1, <1>3
<1>5. buffer' \in Seq(Chunk) /\ flushed' \in {"absent", "never", "once"}
  <2>1. <<>> \in Seq(Chunk)
    OBVIOUS
  <2> QED
    BY <1>1, <1>3, <2>1
<1> QED
  BY <1>1, <1>2, <1>4, <1>5

(* The processor's part of it: only its own flush moves it on.              *)
LEMMA ReturnsPhase ==
  ASSUME NEW f \in Flusher, WriterInv, FlushReturns(f)
  PROVE  /\ PhaseInv' /\ todo' \in Seq(0 .. N)
         /\ phase' \in {"stream", "report", "stopping", "final"}
         /\ f = "timer" => UNCHANGED <<todo, phase, pc>>
         /\ f = "processor" => pc = "flush" /\ pc' # "flush"
         /\ f = "processor" /\ phase' = "stream" =>
              phase = "stream" /\ todo' = todo /\ (pc' = "stop" <=> todo = <<>>)
<1>t. StreamTypes /\ PhaseInv /\ Flights
  BY DEF WriterInv
<1>1. flight[f].on /\ nextSeq' \in Nat \ {0} /\ nextSeq' <= nextSeq /\ Return(f)
  BY ReturnsStep DEF FlushReturns
<1>2. CASE f = "processor"
  <2>1. pc = "flush" /\ Proceed
    BY <1>t, <1>1, <1>2 DEF Return, Flights
  <2> QED
    BY <1>t, <1>1, <1>2, <2>1, PhaseProceed
<1>3. CASE f = "timer"
  <2>1. UNCHANGED <<todo, phase, pc>>
    BY <1>1, <1>3 DEF Return, processor
  <2>2. Control' /\ Remaining'
    BY <1>t, <2>1 DEF PhaseInv, Control, Remaining
  <2>3. Budget'
    <3>1. Budget /\ N \in Nat /\ Len(todo) \in Nat /\ nextSeq \in Nat
      BY <1>t, StreamAssumption DEF PhaseInv, StreamTypes
    <3>2. \A k, b \in Nat : nextSeq + k <= b => nextSeq' + k <= b
      BY <1>1, <3>1, SmallerFits
    <3>3. nextSeq <= N + 4 => nextSeq' <= N + 4
      <4>1. \A m \in Nat : m + 0 = m
        OBVIOUS
      <4>2. N + 4 \in Nat /\ 0 \in Nat
        BY <3>1
      <4> QED
        BY <1>1, <3>1, <3>2, <4>1, <4>2
    <3>4. N + 1 \in Nat /\ N + 4 \in Nat /\ N + 5 \in Nat
      BY <3>1
    <3> QED
      BY <2>1, <3>1, <3>2, <3>3, <3>4 DEF Budget
  <2> QED
    BY <1>t, <1>3, <2>1, <2>2, <2>3 DEF PhaseInv, StreamTypes
<1> QED
  BY <1>2, <1>3 DEF Flusher

(* A flush that ended leaves a flight the others do not notice.             *)
LEMMA FlightsLand ==
  ASSUME NEW f \in Flusher, WriterInv, flight' \in [Flusher -> Flight], flight'[f] = NoFlight,
         \A g \in Flusher \ {f} : flight'[g] = flight[g],
         timer' = "ended" => f = "timer" \/ timer = "ended",
         f = "timer" => pc' = "flush" <=> pc = "flush",
         f = "processor" => pc' # "flush"
  PROVE  Flights'
<1>1. "processor" \in Flusher /\ "timer" \in Flusher /\ Flights
  BY DEF Flusher, WriterInv
<1>2. ~NoFlight.on /\ NoFlight.sent <= Len(NoFlight.chunks)
  BY NoFlightIs
<1>3. \A g \in Flusher : /\ flight'[g].on => flight'[g].chunks # <<>>
                         /\ ~flight'[g].on => flight'[g] = NoFlight
                         /\ flight'[g].sent <= Len(flight'[g].chunks)
  BY <1>1, <1>2 DEF Flights
<1>4. flight'["processor"].on <=> pc' = "flush"
  BY <1>1, <1>2 DEF Flights, Flusher
<1>5. timer' = "ended" => ~flight'["timer"].on
  BY <1>1, <1>2 DEF Flights
<1> QED
  BY <1>3, <1>4, <1>5 DEF Flights

LEMMA WriterReturns ==
  ASSUME NEW f \in Flusher, WriterInv, FlushReturns(f)
  PROVE  WriterInv'
<1>1. Flights'
  BY ReturnsStep, ReturnsPhase, FlightsLand
<1>2. StreamTypes'
  <2>1. StreamTypes
    BY DEF WriterInv
  <2> QED
    BY <2>1, ReturnsStep, ReturnsPhase DEF StreamTypes
<1> QED
  BY <1>1, <1>2, ReturnsPhase DEF WriterInv

(* A failed flush puts its chunks back, in front.                           *)
LEMMA RaisesStep ==
  ASSUME NEW f \in Flusher, WriterInv, FlushRaises(f)
  PROVE  /\ failures' = failures + 1 /\ failures' \in 0 .. MaxFailures /\ flight[f].on
         /\ buffer' = flight[f].chunks \o buffer /\ buffer' \in Seq(Chunk)
         /\ flight' \in [Flusher -> Flight] /\ flight'[f] = NoFlight
         /\ \A g \in Flusher \ {f} : flight'[g] = flight[g]
         /\ PhaseInv' /\ todo' \in Seq(0 .. N)
         /\ phase' \in {"stream", "report", "stopping", "final"}
         /\ f = "timer" => UNCHANGED <<todo, phase, pc>>
         /\ f = "processor" => pc = "flush" /\ pc' # "flush" /\ phase' # "stream"
         /\ UNCHANGED <<log, nextSeq, flushed, timer, interrupted>>
<1>t. StreamTypes /\ PhaseInv /\ Flights
  BY DEF WriterInv
<1>1. /\ failures < MaxFailures /\ failures' = failures + 1 /\ flight[f].on
      /\ buffer' = flight[f].chunks \o buffer /\ Land(f) /\ Raise(f)
      /\ UNCHANGED <<log, nextSeq, flushed, timer, interrupted>>
  BY DEF FlushRaises, PutBack
<1>2. buffer' \in Seq(Chunk)
  BY <1>t, <1>1, FlightOf, ElementsOfConcat DEF StreamTypes
<1>3. failures' \in 0 .. MaxFailures
  BY <1>t, <1>1, StreamAssumption DEF StreamTypes
<1>4. CASE f = "processor"
  <2>1. pc = "flush" /\ GiveUp
    BY <1>t, <1>1, <1>4 DEF Raise, Flights
  <2>2. /\ PhaseInv' /\ todo' \in Seq(0 .. N) /\ pc' # "flush"
        /\ phase' \in {"report", "stopping", "final"}
    BY <1>t, <1>1, <2>1, PhaseGiveUp
  <2> QED
    BY <1>t, <1>1, <1>2, <1>3, <1>4, <2>1, <2>2, LandStep
<1>5. CASE f = "timer"
  <2>1. UNCHANGED <<todo, phase, pc>>
    BY <1>1, <1>5 DEF Raise, processor
  <2>2. PhaseInv'
    BY <1>t, <1>1, <2>1 DEF PhaseInv, Control, Remaining, Budget
  <2>3. todo' \in Seq(0 .. N) /\ phase' \in {"stream", "report", "stopping", "final"}
    BY <1>t, <2>1 DEF StreamTypes
  <2> QED
    BY <1>t, <1>1, <1>2, <1>3, <1>5, <2>1, <2>2, <2>3, LandStep
<1> QED
  BY <1>4, <1>5 DEF Flusher

LEMMA WriterRaises ==
  ASSUME NEW f \in Flusher, WriterInv, FlushRaises(f)
  PROVE  WriterInv'
<1>1. Flights'
  BY RaisesStep, FlightsLand
<1>2. StreamTypes'
  <2>1. StreamTypes
    BY DEF WriterInv
  <2> QED
    BY <2>1, RaisesStep DEF StreamTypes
<1> QED
  BY <1>1, <1>2, RaisesStep DEF WriterInv

(* What a cancelled flush may still have stored.                            *)
LEMMA AbandonStep ==
  ASSUME NEW f \in Flusher, WriterInv, Abandon(f)
  PROVE  /\ flight' \in [Flusher -> Flight] /\ flight'[f] = NoFlight
         /\ \A g \in Flusher \ {f} : flight'[g] = flight[g]
         /\ log' \in Seq(Chunk)
         /\ \E t \in Seq(Chunk) :
              /\ log' = log \o t /\ Len(t) <= Len(flight[f].chunks) - flight[f].sent
              /\ \A i \in 1 .. Len(t) : t[i] = flight[f].chunks[flight[f].sent + i]
              /\ Elements(t) \subseteq Elements(flight[f].chunks)
<1>1. /\ StreamTypes /\ flight[f].chunks \in Seq(Chunk) /\ flight[f].sent \in Nat
      /\ log \in Seq(Chunk)
  BY FlightOf DEF WriterInv, StreamTypes
<1>2. PICK n \in flight[f].sent .. Len(flight[f].chunks) :
        log' = log \o SubSeq(flight[f].chunks, flight[f].sent + 1, n)
  BY DEF Abandon
<1> DEFINE t == SubSeq(flight[f].chunks, flight[f].sent + 1, n)
<1>3. /\ t \in Seq(Chunk) /\ Len(t) = n - flight[f].sent
      /\ \A i \in 1 .. n - flight[f].sent : t[i] = flight[f].chunks[flight[f].sent + i]
      /\ Elements(t) \subseteq Elements(flight[f].chunks)
  BY <1>1, ElementsOfSubSeq
<1>4. n \in Nat /\ n <= Len(flight[f].chunks) /\ Len(flight[f].chunks) \in Nat
  BY <1>1
<1>5. log' \in Seq(Chunk)
  BY <1>1, <1>2, <1>3, ElementsOfConcat
<1>6. Len(t) <= Len(flight[f].chunks) - flight[f].sent
  BY <1>1, <1>3, <1>4
<1> QED
  BY <1>1, <1>2, <1>3, <1>5, <1>6, LandStep DEF Abandon

LEMMA WriterStops ==
  ASSUME WriterInv, StopTimer
  PROVE  WriterInv'
<1>t. StreamTypes /\ PhaseInv /\ Flights /\ N \in Nat /\ "timer" \in Flusher
  BY StreamAssumption DEF WriterInv, Flusher
<1>1. /\ pc = "stop" /\ timer' = "ended" /\ Abandon("timer")
      /\ pc' = "flushRest" /\ phase' = "stopping"
      /\ UNCHANGED <<buffer, nextSeq, flushed, todo, failures, interrupted>>
  BY DEF StopTimer, writer, trouble
<1>2. flight' \in [Flusher -> Flight] /\ flight'["timer"] = NoFlight /\ log' \in Seq(Chunk)
      /\ \A g \in Flusher \ {"timer"} : flight'[g] = flight[g]
  BY <1>t, <1>1, AbandonStep
<1>3. Flights'
  BY <1>t, <1>1, <1>2, FlightsLand
<1>4. StreamTypes'
  BY <1>t, <1>1, <1>2 DEF StreamTypes
<1>5. phase \in {"stream", "report"} /\ (phase = "stream" => todo = <<>>)
  BY <1>t, <1>1 DEF StreamTypes, PhaseInv, Control
<1>6. nextSeq <= N + 4
  <2>1. \A k \in Nat : nextSeq + k <= N + 1 \/ nextSeq + k <= N + 4 => nextSeq <= N + 4
    BY <1>t DEF StreamTypes
  <2>2. Len(todo) \in Nat
    BY <1>t DEF StreamTypes
  <2> QED
    BY <1>t, <1>5, <2>1, <2>2 DEF PhaseInv, Budget
<1>7. Control' /\ Budget'
  BY <1>1, <1>6 DEF Control, Budget
<1>8. Remaining'
  BY <1>t, <1>1, <1>5 DEF PhaseInv, Remaining
<1> QED
  BY <1>3, <1>4, <1>7, <1>8 DEF WriterInv, PhaseInv

LEMMA WriterRest ==
  ASSUME WriterInv, FlushRest
  PROVE  WriterInv'
<1>t. StreamTypes /\ PhaseInv /\ Flights /\ N \in Nat /\ Report \in 0 .. N
  BY StreamAssumption DEF WriterInv, Report
<1>1. pc = "flushRest" /\ UNCHANGED <<log, nextSeq, flushed, timer, failures, interrupted>>
  BY DEF FlushRest, trouble
<1>2. phase = "stopping" /\ nextSeq \in Nat /\ nextSeq <= N + 4
  BY <1>t, <1>1 DEF StreamTypes, PhaseInv, Control, Budget
<1>3. CASE buffer = <<>>
  <2>1. pc' = "write" /\ phase' = "final" /\ todo' = <<Report>> /\ UNCHANGED <<buffer, flight>>
    BY <1>3 DEF FlushRest
  <2>2. /\ todo' \in Seq(0 .. N) /\ Len(todo') = 1 /\ todo' # <<>>
        /\ DOMAIN todo' = {1} /\ todo'[1] = Report
    BY <1>t, <2>1
  <2>3. Control' /\ Remaining' /\ Budget'
    <3>1. nextSeq' + Len(todo') <= N + 5
      BY <1>t, <1>1, <1>2, <2>2
    <3> QED
      BY <2>1, <2>2, <3>1 DEF Control, Remaining, Budget
  <2>4. StreamTypes' /\ Flights'
    BY <1>t, <1>1, <2>1, <2>2 DEF StreamTypes, Flights
  <2> QED
    BY <2>3, <2>4 DEF WriterInv, PhaseInv
<1>4. CASE buffer # <<>>
  <2>1. TakeOff("processor", buffer) /\ pc' = "flush" /\ UNCHANGED <<todo, phase>>
    BY <1>4 DEF FlushRest
  <2>2. "processor" \in Flusher /\ "timer" \in Flusher \ {"processor"} /\ Flusher = {"processor", "timer"}
    BY DEF Flusher
  <2>3. /\ buffer' = <<>> /\ buffer' \in Seq(Chunk) /\ flight' \in [Flusher -> Flight]
        /\ flight'["processor"] = [on |-> TRUE, chunks |-> buffer, sent |-> 0]
        /\ \A g \in Flusher \ {"processor"} : flight'[g] = flight[g]
    BY <1>t, <2>1, <2>2, TakeOffStep DEF StreamTypes
  <2>4. Flights'
    <3>1. 0 <= Len(buffer)
      BY <1>t DEF StreamTypes
    <3> QED
      BY <1>t, <1>1, <1>4, <2>1, <2>2, <2>3, <3>1 DEF Flights
  <2>5. StreamTypes'
    BY <1>t, <1>1, <2>1, <2>3 DEF StreamTypes
  <2>6. PhaseInv'
    BY <1>t, <1>1, <1>2, <2>1 DEF PhaseInv, Control, Remaining, Budget
  <2> QED
    BY <2>4, <2>5, <2>6 DEF WriterInv
<1> QED
  BY <1>3, <1>4

(* What a cancelled processor leaves: the phase is given up.                *)
LEMMA InterruptedStep ==
  ASSUME WriterInv, Interrupted
  PROVE  /\ PhaseInv' /\ todo' \in Seq(0 .. N) /\ pc' # "flush"
         /\ phase' \in {"report", "stopping", "final"}
         /\ Abandon("processor") /\ "processor" \in Flusher /\ interrupted' = TRUE
         /\ UNCHANGED <<buffer, nextSeq, flushed, timer, failures>>
<1>1. /\ pc = "flush" \/ (pc = "write" /\ phase = "stream")
      /\ GiveUp
      /\ Abandon("processor") /\ interrupted' = TRUE
      /\ UNCHANGED <<buffer, nextSeq, flushed, timer, failures>>
  BY DEF Interrupted, writer
<1>2. StreamTypes /\ PhaseInv
  BY DEF WriterInv
<1> QED
  BY <1>1, <1>2, PhaseGiveUp DEF Flusher

LEMMA WriterInterrupted ==
  ASSUME WriterInv, Interrupted
  PROVE  WriterInv'
<1>1. /\ flight' \in [Flusher -> Flight] /\ flight'["processor"] = NoFlight /\ log' \in Seq(Chunk)
      /\ \A g \in Flusher \ {"processor"} : flight'[g] = flight[g]
  BY InterruptedStep, AbandonStep
<1>2. Flights'
  BY <1>1, InterruptedStep, FlightsLand
<1>3. StreamTypes'
  <2>1. StreamTypes
    BY DEF WriterInv
  <2> QED
    BY <1>1, <2>1, InterruptedStep DEF StreamTypes
<1> QED
  BY <1>2, <1>3, InterruptedStep DEF WriterInv

LEMMA WriterFrame ==
  ASSUME WriterInv, UNCHANGED <<log, writer, flight, timer, processor, trouble>>
  PROVE  WriterInv'
<1>1. UNCHANGED <<log, buffer, nextSeq, flushed, flight, timer, todo, phase, pc, failures, interrupted>>
  BY DEF writer, processor, trouble
<1>2. StreamTypes' /\ PhaseInv' /\ Flights'
  BY <1>1 DEF WriterInv, StreamTypes, PhaseInv, Control, Remaining, Budget, Flights
<1> QED
  BY <1>2 DEF WriterInv

LEMMA WriterInit ==
  ASSUME Init
  PROVE  WriterInv
<1> N \in Nat /\ N # 0 /\ Report = 0 /\ MaxFailures \in Nat
  BY StreamAssumption DEF Report
<1>1. /\ log = <<>> /\ buffer = <<>> /\ nextSeq = 1 /\ flushed = "absent"
      /\ flight = [f \in Flusher |-> NoFlight] /\ timer = "running" /\ todo = Source
      /\ phase = "stream" /\ pc = "write" /\ failures = 0 /\ interrupted = FALSE
  BY DEF Init
<1>2. /\ Source \in Seq(0 .. N) /\ Len(Source) = N /\ DOMAIN Source = 1 .. N
      /\ \A i \in 1 .. N : Source[i] = i
  BY DEF Source
<1>3. todo # <<>> /\ Len(todo) = N
  BY <1>1, <1>2
<1>4. <<>> \in Seq(Chunk) /\ NoFlight \in Flight
  BY DEF NoFlight, Flight
<1>5. StreamTypes
  <2>1. log \in Seq(Chunk) /\ buffer \in Seq(Chunk) /\ flight \in [Flusher -> Flight]
    BY <1>1, <1>4
  <2>2. todo \in Seq(0 .. N) /\ failures \in 0 .. MaxFailures
    BY <1>1, <1>2
  <2>3. interrupted \in BOOLEAN
    BY <1>1
  <2> QED
    BY <1>1, <2>1, <2>2, <2>3 DEF StreamTypes
<1>6. Control /\ Budget
  BY <1>1, <1>3 DEF Control, Budget
<1>7. Remaining
  BY <1>1, <1>2, <1>3 DEF Remaining
<1>8. Flights
  BY <1>1, NoFlightIs DEF Flights, Flusher
<1> QED
  BY <1>5, <1>6, <1>7, <1>8 DEF WriterInv, PhaseInv

LEMMA WriterStep ==
  ASSUME WriterInv, [Next]_vars
  PROVE  WriterInv'
<1>1. CASE WriteChunk
  BY <1>1, WriterWrites
<1>2. CASE StopTimer
  BY <1>2, WriterStops
<1>3. CASE FlushRest
  BY <1>3, WriterRest
<1>4. CASE Interrupted
  BY <1>4, WriterInterrupted
<1>5. CASE TimerFlush
  BY <1>5, WriterTimer
<1>6. ASSUME NEW f \in Flusher, Flush(f)
      PROVE  WriterInv'
  BY <1>6, WriterXAdd, WriterReturns, WriterRaises DEF Flush
<1>7. ASSUME NEW r \in Reader, ReadBatch(r) \/ Reconnect(r)
      PROVE  WriterInv'
  BY <1>7, WriterFrame DEF ReadBatch, Reconnect
<1>8. CASE UNCHANGED vars
  BY <1>8, WriterFrame DEF vars
<1> QED
  BY <1>1, <1>2, <1>3, <1>4, <1>5, <1>6, <1>7, <1>8 DEF Next, Processor

-----------------------------------------------------------------------------
(* The readers, and the log they are promised.                              *)

LEMMA LeastElement ==
  ASSUME NEW S \in SUBSET Nat, S # {}
  PROVE  \E m \in S : \A n \in S : m <= n
<1>1. IsWellFoundedOn(OpToRel(<, Nat), Nat)
  BY NatLessThanWellFounded
<1>2. PICK m \in S : \A n \in S : <<n, m>> \notin OpToRel(<, Nat)
  BY <1>1, WFMin
<1>3. \A n \in S : ~(n < m)
  BY <1>2 DEF OpToRel
<1> QED
  BY <1>3

LEMMA Advanced ==
  ASSUME NEW x, IsReader(x), NEW n, NEW g, NEW s
  PROVE  [x EXCEPT !.pos = n, !.got = g, !.state = s] =
           [state |-> s, pos |-> n, cursor |-> x.cursor, got |-> g, lost |-> x.lost]
<1>1. PICK a, b, c, d, e : x = [state |-> a, pos |-> b, cursor |-> c, got |-> d, lost |-> e]
  BY DEF IsReader
<1> DEFINE y == [x EXCEPT !.pos = n]
           z == [y EXCEPT !.got = g]
<1>2. y = [state |-> a, pos |-> n, cursor |-> c, got |-> d, lost |-> e]
  BY <1>1
<1> HIDE DEF y
<1>3. z = [state |-> a, pos |-> n, cursor |-> c, got |-> g, lost |-> e]
  BY <1>2
<1> HIDE DEF z
<1>4. [z EXCEPT !.state = s] = [state |-> s, pos |-> n, cursor |-> c, got |-> g, lost |-> e]
  BY <1>3
<1>5. x.cursor = c /\ x.lost = e
  BY <1>1
<1>6. [x EXCEPT !.pos = n, !.got = g, !.state = s] = [z EXCEPT !.state = s]
  BY DEF y, z
<1> QED
  BY <1>4, <1>5, <1>6

(* A batch ends with the last entry asked for, or with the first complete   *)
(* entry that the reader keeps.                                             *)
LEMMA ReadStep ==
  ASSUME WriterInv, ReaderTypes, NEW r \in Reader, ReadBatch(r)
  PROVE  \E n \in reader[r].pos + 1 .. Len(log) :
           /\ \A i \in reader[r].pos + 1 .. n - 1 : ~(log[i].seq > reader[r].cursor /\ log[i].complete)
           /\ reader' = [reader EXCEPT ![r] =
                [state |-> IF log[n].seq > reader[r].cursor /\ log[n].complete
                           THEN "ended" ELSE "reading",
                 pos |-> n, cursor |-> reader[r].cursor, lost |-> reader[r].lost,
                 got |-> reader[r].got \o Kept(SubSeq(log, reader[r].pos + 1, n), reader[r].cursor)]]
<1> DEFINE first == IF reader[r].pos = 0 THEN 1 ELSE reader[r].pos
           last == Least(Len(log), first + BatchSize - 1)
           Ends(i) == log[i].seq > reader[r].cursor /\ log[i].complete
           ends == {i \in reader[r].pos + 1 .. last : Ends(i)}
           upto == IF ends = {} THEN last ELSE CHOOSE i \in ends : \A j \in ends : i <= j
<1>1. /\ last > reader[r].pos
      /\ reader' = [reader EXCEPT ![r] =
           [@ EXCEPT !.pos = upto,
                     !.got = reader[r].got \o Kept(SubSeq(log, reader[r].pos + 1, upto), reader[r].cursor),
                     !.state = IF ends = {} THEN "reading" ELSE "ended"]]
  BY DEF ReadBatch, FirstNew
<1>2. reader[r].pos \in Nat /\ Len(log) \in Nat /\ BatchSize \in Nat
  BY StreamAssumption DEF WriterInv, StreamTypes, ReaderTypes
<1>3. last \in Nat /\ last <= Len(log)
  BY <1>1, <1>2 DEF Least
<1> HIDE DEF first, last, Ends
<1>4. /\ upto \in reader[r].pos + 1 .. Len(log)
      /\ \A i \in reader[r].pos + 1 .. upto - 1 : ~Ends(i)
      /\ (IF ends = {} THEN "reading" ELSE "ended") = (IF Ends(upto) THEN "ended" ELSE "reading")
  <2>1. CASE ends = {}
    <3>1. \A i \in reader[r].pos + 1 .. last : ~Ends(i)
      BY <2>1
    <3>2. upto = last
      BY <2>1
    <3>3. last \in reader[r].pos + 1 .. Len(log) /\ last \in reader[r].pos + 1 .. last
      BY <1>1, <1>2, <1>3
    <3>4. \A i \in reader[r].pos + 1 .. last - 1 : i \in reader[r].pos + 1 .. last
      BY <1>2, <1>3
    <3> HIDE DEF ends, upto
    <3> QED
      BY <2>1, <3>1, <3>2, <3>3, <3>4
  <2>2. CASE ends # {}
    <3>1. \E m \in ends : \A j \in ends : m <= j
      <4>1. ends \in SUBSET Nat
        BY <1>2
      <4> HIDE DEF ends
      <4> QED
        BY <2>2, <4>1, LeastElement
    <3>2. upto \in ends /\ \A j \in ends : upto <= j
      <4>1. upto = CHOOSE i \in ends : \A j \in ends : i <= j
        BY <2>2
      <4> HIDE DEF ends, upto
      <4> QED
        BY <3>1, <4>1
    <3> HIDE DEF upto
    <3>3. upto \in reader[r].pos + 1 .. last /\ Ends(upto)
      BY <3>2
    <3>4. \A i \in reader[r].pos + 1 .. upto - 1 : i \in reader[r].pos + 1 .. last /\ i < upto
      BY <1>2, <1>3, <3>3
    <3>5. ASSUME NEW i \in reader[r].pos + 1 .. upto - 1
          PROVE  ~Ends(i)
      <4>1. i \in Nat /\ upto \in Nat /\ i < upto
        BY <1>2, <1>3, <3>3, <3>4
      <4>2. i \notin ends
        BY <3>2, <4>1
      <4> QED
        BY <3>4, <4>2
    <3>6. upto \in reader[r].pos + 1 .. Len(log)
      BY <1>2, <1>3, <3>3
    <3> QED
      BY <2>2, <3>3, <3>5, <3>6
  <2> QED
    BY <2>1, <2>2
<1> HIDE DEF ends, upto
<1>5. IsReader(reader[r])
  BY DEF ReaderTypes
<1> DEFINE new == reader[r].got \o Kept(SubSeq(log, reader[r].pos + 1, upto), reader[r].cursor)
           state == IF ends = {} THEN "reading" ELSE "ended"
<1>6. [reader[r] EXCEPT !.pos = upto, !.got = new, !.state = state] =
        [state |-> state, pos |-> upto, cursor |-> reader[r].cursor, lost |-> reader[r].lost, got |-> new]
  <2> HIDE DEF new, state
  <2>1. [reader[r] EXCEPT !.pos = upto, !.got = new, !.state = state] =
          [state |-> state, pos |-> upto, cursor |-> reader[r].cursor, got |-> new, lost |-> reader[r].lost]
    BY <1>5, Advanced
  <2> QED
    BY <2>1
<1>7. reader' = [reader EXCEPT ![r] =
        [reader[r] EXCEPT !.pos = upto, !.got = new, !.state = state]]
  BY <1>1
<1>8. reader' = [reader EXCEPT ![r] =
        [state |-> IF Ends(upto) THEN "ended" ELSE "reading",
         pos |-> upto, cursor |-> reader[r].cursor, lost |-> reader[r].lost,
         got |-> reader[r].got \o Kept(SubSeq(log, reader[r].pos + 1, upto), reader[r].cursor)]]
  BY <1>4, <1>6, <1>7
<1> QED
  BY <1>4, <1>8 DEF Ends

(* The rest of the system does not touch the readers, and adds to the log.  *)
LEMMA Prefix ==
  ASSUME NEW S, NEW s \in Seq(S), NEW t \in Seq(S)
  PROVE  /\ Len(s \o t) = Len(s) + Len(t)
         /\ SubSeq(s \o t, 1, Len(s)) = s
         /\ t = <<>> => s \o t = s
         /\ t # <<>> => Len(s \o t) > Len(s)
<1>1. Len(s \o t) = Len(s) + Len(t) /\ Len(s) \in Nat /\ Len(t) \in Nat
  OBVIOUS
<1>2. SubSeq(s \o t, 1, Len(s)) = s
  OBVIOUS
<1>3. t # <<>> => Len(t) # 0
  OBVIOUS
<1>4. t = <<>> => s \o t = s
  OBVIOUS
<1>5. \A a, b, c \in Nat : c = a + b /\ b # 0 => c > a
  OBVIOUS
<1>6. t # <<>> => Len(s \o t) > Len(s)
  <2>1. Len(s \o t) \in Nat
    BY <1>1
  <2> QED
    BY <1>1, <1>3, <1>5, <2>1
<1> QED
  BY <1>1, <1>2, <1>4, <1>6

LEMMA LogGrows ==
  ASSUME WriterInv, Processor \/ TimerFlush \/ \E f \in Flusher : Flush(f)
  PROVE  /\ UNCHANGED reader
         /\ \/ UNCHANGED log
            \/ Len(log') > Len(log) /\ SubSeq(log', 1, Len(log)) = log
         /\ Len(log') >= Len(log)
<1>t. log \in Seq(Chunk) /\ Len(log) \in Nat
  BY DEF WriterInv, StreamTypes
<1>a. ASSUME NEW f \in Flusher, Abandon(f)
      PROVE  UNCHANGED log \/ (Len(log') > Len(log) /\ SubSeq(log', 1, Len(log)) = log)
  <2>1. PICK t \in Seq(Chunk) : log' = log \o t
    BY <1>a, AbandonStep
  <2> QED
    BY <1>t, <2>1, Prefix
<1>1. CASE WriteChunk \/ FlushRest \/ TimerFlush
  BY <1>t, <1>1 DEF WriteChunk, FlushRest, TimerFlush
<1>2. CASE StopTimer
  <2>1. Abandon("timer") /\ "timer" \in Flusher /\ UNCHANGED reader
    BY <1>2 DEF StopTimer, Flusher
  <2> QED
    BY <1>t, <1>a, <2>1
<1>3. CASE Interrupted
  <2>1. Abandon("processor") /\ "processor" \in Flusher /\ UNCHANGED reader
    BY <1>3 DEF Interrupted, Flusher
  <2> QED
    BY <1>t, <1>a, <2>1
<1>4. ASSUME NEW f \in Flusher, XAdd(f)
      PROVE  /\ UNCHANGED reader
             /\ Len(log') > Len(log) /\ SubSeq(log', 1, Len(log)) = log
  <2>1. /\ log' = Append(log, flight[f].chunks[flight[f].sent + 1])
        /\ flight[f].chunks[flight[f].sent + 1] \in Chunk
    BY <1>4, XAddStep
  <2>2. Len(log') = Len(log) + 1 /\ SubSeq(log', 1, Len(log)) = log
    BY <1>t, <2>1
  <2> QED
    BY <1>4, <1>t, <2>2 DEF XAdd
<1>5. ASSUME NEW f \in Flusher, FlushReturns(f) \/ FlushRaises(f)
      PROVE  UNCHANGED <<log, reader>>
  BY <1>5 DEF FlushReturns, FlushRaises
<1> QED
  BY <1>t, <1>1, <1>2, <1>3, <1>4, <1>5 DEF Processor, Flush

LEMMA ReaderStep ==
  ASSUME WriterInv, ReaderTypes, [Next]_vars
  PROVE  ReaderTypes'
<1>t. Len(log) \in Nat
  BY DEF WriterInv, StreamTypes
<1>1. ASSUME Len(log') \in Nat, Len(log') >= Len(log), UNCHANGED reader
      PROVE  ReaderTypes'
  BY <1>1, <1>t DEF ReaderTypes
<1>2. CASE Processor \/ TimerFlush \/ \E f \in Flusher : Flush(f)
  <2>1. Len(log') \in Nat
    BY WriterStep DEF WriterInv, StreamTypes
  <2> QED
    BY <1>1, <1>2, <2>1, LogGrows
<1>3. ASSUME NEW r \in Reader, ReadBatch(r)
      PROVE  ReaderTypes'
  <2>1. PICK n \in reader[r].pos + 1 .. Len(log) :
          reader' = [reader EXCEPT ![r] =
             [state |-> IF log[n].seq > reader[r].cursor /\ log[n].complete
                        THEN "ended" ELSE "reading",
              pos |-> n, cursor |-> reader[r].cursor, lost |-> reader[r].lost,
              got |-> reader[r].got \o Kept(SubSeq(log, reader[r].pos + 1, n), reader[r].cursor)]]
    BY <1>3, ReadStep
  <2>2. n \in 0 .. Len(log) /\ log' = log
    BY <1>t, <1>3 DEF ReadBatch, ReaderTypes
  <2>3. DOMAIN reader' = Reader /\ \A q \in Reader \ {r} : reader'[q] = reader[q]
    BY <2>1 DEF ReaderTypes
  <2>4. /\ IsReader(reader'[r]) /\ reader'[r].pos = n /\ reader'[r].lost = reader[r].lost
        /\ reader'[r].state \in {"reading", "ended"}
    BY <2>1 DEF ReaderTypes, IsReader
  <2> QED
    BY <2>2, <2>3, <2>4 DEF ReaderTypes
<1>4. ASSUME NEW r \in Reader, Reconnect(r)
      PROVE  ReaderTypes'
  <2>1. /\ reader' = [reader EXCEPT ![r] =
             [state |-> "reading", pos |-> 0, got |-> <<>>, lost |-> reader[r].lost + 1,
              cursor |-> IF reader[r].got = <<>> THEN reader[r].cursor ELSE Last(reader[r].got).seq]]
        /\ reader[r].lost < MaxReconnects /\ log' = log
    BY <1>4 DEF Reconnect
  <2>2. DOMAIN reader' = Reader /\ \A q \in Reader \ {r} : reader'[q] = reader[q]
    BY <2>1 DEF ReaderTypes
  <2>3. /\ IsReader(reader'[r]) /\ reader'[r].pos = 0 /\ reader'[r].lost = reader[r].lost + 1
        /\ reader'[r].state = "reading"
    BY <2>1 DEF ReaderTypes, IsReader
  <2>4. reader[r].lost + 1 \in 0 .. MaxReconnects
    BY <2>1, StreamAssumption DEF ReaderTypes
  <2> QED
    BY <1>t, <2>1, <2>2, <2>3, <2>4 DEF ReaderTypes
<1>5. CASE UNCHANGED vars
  BY <1>t, <1>5 DEF vars, ReaderTypes
<1> QED
  BY <1>2, <1>3, <1>4, <1>5 DEF Next

LEMMA ReaderInit ==
  ASSUME Init
  PROVE  ReaderTypes
<1>1. MaxReconnects \in Nat /\ Len(log) = 0
  BY StreamAssumption DEF Init
<1>2. reader = [r \in Reader |->
        [state |-> "reading", pos |-> 0, cursor |-> StartAfter[r], got |-> <<>>, lost |-> 0]]
  BY DEF Init
<1> QED
  BY <1>1, <1>2 DEF ReaderTypes, IsReader

LEMMA StreamBase == Spec => [](WriterInv /\ ReaderTypes)
<1>1. Init => WriterInv /\ ReaderTypes
  BY WriterInit, ReaderInit
<1>2. WriterInv /\ ReaderTypes /\ [Next]_vars => (WriterInv /\ ReaderTypes)'
  BY WriterStep, ReaderStep
<1> QED
  BY <1>1, <1>2, PTL DEF Spec

(* The types of the stream: no number beyond N + 4 is ever given, though an *)
(* error report and the forced [DONE] follow a stream given up anywhere.    *)
THEOREM StreamTypesCorrect == Spec => []TypeOK
<1>1. ASSUME WriterInv, ReaderTypes
      PROVE  TypeOK
  <2>1. StreamTypes /\ PhaseInv /\ Flights /\ N \in Nat
    BY <1>1, StreamAssumption DEF WriterInv
  <2>2. IsChunks(log) /\ IsChunks(buffer) /\ \A i \in DOMAIN todo : todo[i] \in 0 .. N
    BY <2>1 DEF StreamTypes, IsChunks
  <2>3. nextSeq \in 1 .. N + 5
    <3>1. \A k \in Nat : \/ nextSeq + k <= N + 1
                         \/ nextSeq + k <= N + 4
                         \/ nextSeq <= N + 4
                         \/ nextSeq + k <= N + 5
                         => nextSeq <= N + 5
      BY <2>1 DEF StreamTypes
    <3>2. Len(todo) \in Nat
      BY <2>1 DEF StreamTypes
    <3>3. nextSeq <= N + 5
      BY <2>1, <3>1, <3>2 DEF StreamTypes, PhaseInv, Budget
    <3> QED
      BY <2>1, <3>3 DEF StreamTypes
  <2>4. ASSUME NEW f \in Flusher
        PROVE  /\ flight[f].on \in BOOLEAN
               /\ IsChunks(flight[f].chunks)
               /\ flight[f].sent \in 0 .. Len(flight[f].chunks)
    <3>1. flight[f].chunks \in Seq(Chunk) /\ flight[f].sent \in Nat /\ flight[f].on \in BOOLEAN
      BY <2>1, FlightOf
    <3>2. IsChunks(flight[f].chunks)
      BY <3>1 DEF IsChunks
    <3>3. flight[f].sent \in 0 .. Len(flight[f].chunks)
      BY <2>1, <3>1 DEF Flights
    <3> QED
      BY <3>1, <3>2, <3>3
  <2>5. pc \in {"write", "flush", "stop", "flushRest", "done", "dead"}
    BY <2>1 DEF StreamTypes, PhaseInv, Control
  <2> QED
    BY <1>1, <2>1, <2>2, <2>3, <2>4, <2>5 DEF TypeOK, StreamTypes, ReaderTypes
<1> QED
  BY <1>1, StreamBase, PTL

-----------------------------------------------------------------------------
(* A reader's step is a step of the log it is promised.                     *)

LEMMA SameKept == \A s, n : Kept(s, n) = Log!Kept(s, n)
  BY DEF Kept, Log!Kept

LEMMA LogInit ==
  ASSUME Init
  PROVE  Log!Init
<1>1. log = <<>> /\ StartAfter \in [Reader -> Nat]
  BY StreamAssumption DEF Init
<1>2. \A r \in Reader : /\ reader[r].state = "reading" /\ reader[r].pos = 0
                        /\ reader[r].cursor = StartAfter[r] /\ reader[r].got = <<>>
  BY DEF Init
<1>3. \A r \in Reader : reader[r].cursor \in Nat
  BY <1>1, <1>2
<1> QED
  BY <1>1, <1>2, <1>3 DEF Log!Init

LEMMA LogTake ==
  ASSUME WriterInv, ReaderTypes, NEW r \in Reader, ReadBatch(r)
  PROVE  \E n \in 1 .. Len(log) : Log!Take(r, n)
<1>1. PICK n \in reader[r].pos + 1 .. Len(log) :
        /\ \A i \in reader[r].pos + 1 .. n - 1 : ~(log[i].seq > reader[r].cursor /\ log[i].complete)
        /\ reader' = [reader EXCEPT ![r] =
             [state |-> IF log[n].seq > reader[r].cursor /\ log[n].complete
                        THEN "ended" ELSE "reading",
              pos |-> n, cursor |-> reader[r].cursor, lost |-> reader[r].lost,
              got |-> reader[r].got \o Kept(SubSeq(log, reader[r].pos + 1, n), reader[r].cursor)]]
  BY ReadStep
<1>2. reader[r].state = "reading" /\ log' = log
  BY DEF ReadBatch
<1>3. DOMAIN reader = Reader /\ DOMAIN reader' = Reader /\ \A q \in Reader \ {r} : reader'[q] = reader[q]
  BY <1>1 DEF ReaderTypes
<1>4. /\ reader'[r].pos = n /\ reader'[r].cursor = reader[r].cursor
      /\ reader'[r].got = reader[r].got \o Kept(SubSeq(log, reader[r].pos + 1, n), reader[r].cursor)
      /\ reader'[r].state = IF log[n].seq > reader[r].cursor /\ log[n].complete
                            THEN "ended" ELSE "reading"
  BY <1>1 DEF ReaderTypes, IsReader
<1>5. n \in 1 .. Len(log) /\ reader[r].pos \in Nat
  BY <1>1 DEF ReaderTypes, WriterInv, StreamTypes
<1> DEFINE at == [q \in Reader |-> reader[q].pos]
           after == [q \in Reader |-> reader[q].cursor]
           got == [q \in Reader |-> reader[q].got]
           ended == {q \in Reader : reader[q].state = "ended"}
<1>6. at' = [at EXCEPT ![r] = n]
  BY <1>3, <1>4
<1>7. got' = [got EXCEPT ![r] = @ \o Log!Kept(SubSeq(log, at[r] + 1, n), after[r])]
  <2>1. reader'[r].got = got[r] \o Log!Kept(SubSeq(log, at[r] + 1, n), after[r])
    BY <1>4, SameKept
  <2> QED
    BY <1>3, <2>1
<1>8. ended' = IF log[n].seq > after[r] /\ log[n].complete THEN ended \cup {r} ELSE ended
  <2>1. \A q \in Reader \ {r} : q \in ended' <=> q \in ended
    BY <1>3
  <2>2. r \in ended' <=> log[n].seq > after[r] /\ log[n].complete
    BY <1>4
  <2>3. r \notin ended
    BY <1>2
  <2>4. ended \subseteq Reader /\ ended' \subseteq Reader
    OBVIOUS
  <2> HIDE DEF ended, after
  <2> QED
    BY <2>1, <2>2, <2>3, <2>4
<1>9. after' = after
  BY <1>3, <1>4
<1>10. r \notin ended /\ at[r] = reader[r].pos /\ after[r] = reader[r].cursor
  BY <1>2
<1> HIDE DEF ended, at, after, got
<1>11. \A i \in at[r] + 1 .. n - 1 : ~(log[i].seq > after[r] /\ log[i].complete)
  BY <1>1, <1>10
<1>12. n \in at[r] + 1 .. Len(log)
  BY <1>1, <1>10
<1> USE DEF ended, at, after, got
<1>13. Log!Take(r, n)
  BY ONLY <1>2, <1>6, <1>7, <1>8, <1>9, <1>10, <1>11, <1>12, Zenon DEF Log!Take, Log!Wanted
<1> QED
  BY <1>5, <1>13

LEMMA LogReconnect ==
  ASSUME ReaderTypes, NEW r \in Reader, Reconnect(r)
  PROVE  Log!Reconnect(r)
<1>1. /\ reader[r].state = "reading" /\ log' = log
      /\ reader' = [reader EXCEPT ![r] =
           [state |-> "reading", pos |-> 0, got |-> <<>>, lost |-> reader[r].lost + 1,
            cursor |-> IF reader[r].got = <<>> THEN reader[r].cursor ELSE Last(reader[r].got).seq]]
  BY DEF Reconnect
<1>2. DOMAIN reader = Reader /\ DOMAIN reader' = Reader /\ \A q \in Reader \ {r} : reader'[q] = reader[q]
  BY <1>1 DEF ReaderTypes
<1>3. /\ reader'[r].state = "reading" /\ reader'[r].pos = 0 /\ reader'[r].got = <<>>
      /\ reader'[r].cursor = IF reader[r].got = <<>> THEN reader[r].cursor
                             ELSE reader[r].got[Len(reader[r].got)].seq
  BY <1>1 DEF ReaderTypes, Last
<1> DEFINE at == [q \in Reader |-> reader[q].pos]
           after == [q \in Reader |-> reader[q].cursor]
           got == [q \in Reader |-> reader[q].got]
           ended == {q \in Reader : reader[q].state = "ended"}
<1>4. at' = [at EXCEPT ![r] = 0] /\ got' = [got EXCEPT ![r] = <<>>]
  BY <1>2, <1>3
<1>5. after' = [after EXCEPT ![r] = IF got[r] = <<>> THEN @ ELSE got[r][Len(got[r])].seq]
  <2>1. reader'[r].cursor = IF got[r] = <<>> THEN after[r] ELSE got[r][Len(got[r])].seq
    BY <1>3
  <2> QED
    BY <1>2, <2>1
<1>6. ended' = ended /\ r \notin ended
  BY <1>1, <1>2, <1>3
<1> QED
  BY ONLY <1>1, <1>4, <1>5, <1>6, Zenon DEF Log!Reconnect

(* A reader that changes nothing leaves its view of the log as it is.       *)
LEMMA LogStep ==
  ASSUME WriterInv, ReaderTypes, [Next]_vars
  PROVE  [Log!Next]_(Log!vars)
<1>1. CASE Processor \/ TimerFlush \/ \E f \in Flusher : Flush(f)
  <2>1. UNCHANGED reader
    BY <1>1, LogGrows
  <2>2. CASE UNCHANGED log
    BY <2>1, <2>2 DEF Log!vars
  <2>3. CASE Len(log') > Len(log) /\ SubSeq(log', 1, Len(log)) = log
    <3>1. Log!Append_
      BY <2>1, <2>3 DEF Log!Append_
    <3> QED
      BY <3>1 DEF Log!Next
  <2> QED
    BY <1>1, <2>2, <2>3, LogGrows
<1>2. ASSUME NEW r \in Reader, ReadBatch(r)
      PROVE  Log!Next
  BY <1>2, LogTake DEF Log!Next
<1>3. ASSUME NEW r \in Reader, Reconnect(r)
      PROVE  Log!Next
  BY <1>3, LogReconnect DEF Log!Next
<1>4. CASE UNCHANGED vars
  BY <1>4 DEF vars, Log!vars
<1> QED
  BY <1>1, <1>2, <1>3, <1>4 DEF Next

(* Whatever the writer, its two flushers and the failures do, the readers   *)
(* see a log that only grows: each takes its entries in order and once,     *)
(* past its cursor, and ends at the first complete one it keeps.            *)
THEOREM StreamRefines == Spec => ImplementsSseLog
<1>1. Init => Log!Init
  BY LogInit
<1>2. WriterInv /\ ReaderTypes /\ [Next]_vars => [Log!Next]_(Log!vars)
  BY LogStep
<1> QED
  BY <1>1, <1>2, StreamBase, PTL DEF Spec, ImplementsSseLog, Log!Spec

-----------------------------------------------------------------------------
(* Where chunks are, and how the steps move them.                           *)
Flying(f) == Elements(flight[f].chunks)
Known == Elements(log) \cup Elements(buffer) \cup Flying("processor") \cup Flying("timer")

Fresh == NewChunk(Head(todo), Len(todo) = 1)

LEMMA NothingFlies ==
  ASSUME NEW f \in Flusher, WriterInv, ~flight[f].on
  PROVE  Flying(f) = {}
<1>1. flight[f] = NoFlight
  BY DEF WriterInv, Flights
<1> QED
  BY <1>1, NoFlightIs, ElementsOfEmpty DEF Flying

LEMMA WriteElements ==
  ASSUME WriterInv, WriteChunk
  PROVE  /\ Fresh \in Chunk /\ Elements(log') = Elements(log)
         /\ Flying("timer")' = Flying("timer") /\ Flying("processor") = {}
         /\ \/ Elements(buffer') = {} /\ Flying("processor")' = Elements(buffer) \cup {Fresh}
            \/ /\ Elements(buffer') = Elements(buffer) \cup {Fresh}
               /\ Flying("processor")' = {} /\ Len(todo) # 1
<1>1. /\ pc = "write" /\ log' = log
      /\ \/ TakeOff("processor", Append(buffer, Fresh))
         \/ buffer' = Append(buffer, Fresh) /\ UNCHANGED flight /\ Len(todo) # 1
  BY DEF WriteChunk, Fresh
<1>2. StreamTypes /\ ~flight["processor"].on /\ "processor" \in Flusher /\ "timer" \in Flusher \ {"processor"}
  BY <1>1 DEF WriterInv, Flights, Flusher
<1>3. Flying("processor") = {}
  BY <1>2, NothingFlies
<1>4. /\ Fresh \in Chunk /\ Append(buffer, Fresh) \in Seq(Chunk)
      /\ Elements(Append(buffer, Fresh)) = Elements(buffer) \cup {Fresh}
  BY <1>1, <1>2, NewChunkType, ElementsOfAppend DEF StreamTypes, Fresh
<1>5. CASE TakeOff("processor", Append(buffer, Fresh))
  <2>1. /\ buffer' = <<>> /\ flight'["timer"] = flight["timer"]
        /\ flight'["processor"].chunks = Append(buffer, Fresh)
    BY <1>2, <1>4, <1>5, TakeOffStep
  <2> QED
    BY <1>1, <1>3, <1>4, <2>1, ElementsOfEmpty DEF Flying
<1>6. CASE buffer' = Append(buffer, Fresh) /\ UNCHANGED flight /\ Len(todo) # 1
  BY <1>1, <1>3, <1>4, <1>6 DEF Flying
<1> QED
  BY <1>1, <1>5, <1>6

LEMMA TimerElements ==
  ASSUME WriterInv, TimerFlush
  PROVE  /\ Elements(log') = Elements(log) /\ Elements(buffer') = {}
         /\ Flying("timer") = {} /\ Flying("timer")' = Elements(buffer)
         /\ Flying("processor")' = Flying("processor")
<1>1. ~flight["timer"].on /\ TakeOff("timer", buffer) /\ log' = log
  BY DEF TimerFlush
<1>2. StreamTypes /\ buffer \in Seq(Chunk) /\ "timer" \in Flusher /\ "processor" \in Flusher \ {"timer"}
  BY DEF WriterInv, StreamTypes, Flusher
<1>3. buffer' = <<>> /\ flight'["timer"].chunks = buffer /\ flight'["processor"] = flight["processor"]
  BY <1>1, <1>2, TakeOffStep
<1> QED
  BY <1>1, <1>2, <1>3, NothingFlies, ElementsOfEmpty DEF Flying

LEMMA XAddElements ==
  ASSUME NEW f \in Flusher, WriterInv, XAdd(f)
  PROVE  /\ Elements(buffer') = Elements(buffer)
         /\ \A g \in Flusher : Flying(g)' = Flying(g)
         /\ flight[f].chunks[flight[f].sent + 1] \in Flying(f)
         /\ Elements(log') = Elements(log) \cup {flight[f].chunks[flight[f].sent + 1]}
<1>1. /\ flight[f].sent + 1 \in 1 .. Len(flight[f].chunks)
      /\ flight[f].chunks[flight[f].sent + 1] \in Chunk
      /\ log' = Append(log, flight[f].chunks[flight[f].sent + 1])
      /\ flight'[f].chunks = flight[f].chunks
      /\ \A g \in Flusher \ {f} : flight'[g] = flight[g]
      /\ buffer' = buffer
  BY XAddStep
<1>2. log \in Seq(Chunk) /\ flight[f].chunks \in Seq(Chunk)
  BY FlightOf DEF WriterInv, StreamTypes
<1>3. flight[f].chunks[flight[f].sent + 1] \in Flying(f)
  <2>1. DOMAIN flight[f].chunks = 1 .. Len(flight[f].chunks)
    BY <1>2
  <2> QED
    BY <1>1, <2>1 DEF Flying, Elements
<1>4. Elements(log') = Elements(log) \cup {flight[f].chunks[flight[f].sent + 1]}
  BY <1>1, <1>2, ElementsOfAppend
<1> QED
  BY <1>1, <1>3, <1>4 DEF Flying

LEMMA ReturnsElements ==
  ASSUME NEW f \in Flusher, WriterInv, FlushReturns(f)
  PROVE  /\ Elements(log') = Elements(log) /\ Flying(f)' = {}
         /\ \A g \in Flusher \ {f} : Flying(g)' = Flying(g)
         /\ \/ UNCHANGED <<buffer, nextSeq>>
            \/ Elements(buffer') = {} /\ \E c \in Flying(f) : c.complete
<1>1. /\ flight[f].on /\ flight'[f] = NoFlight /\ \A g \in Flusher \ {f} : flight'[g] = flight[g]
      /\ \/ Last(flight[f].chunks).complete /\ buffer' = <<>>
         \/ UNCHANGED <<buffer, nextSeq>>
      /\ log' = log
  BY ReturnsStep
<1>2. Last(flight[f].chunks) \in Flying(f)
  <2>1. flight[f].chunks \in Seq(Chunk) /\ flight[f].chunks # <<>>
    BY <1>1, FlightOf DEF WriterInv, Flights
  <2>2. Len(flight[f].chunks) \in DOMAIN flight[f].chunks
    BY <2>1
  <2> QED
    BY <2>2 DEF Flying, Elements, Last
<1>3. Flying(f)' = {}
  BY <1>1, NoFlightIs, ElementsOfEmpty DEF Flying
<1>4. \A g \in Flusher \ {f} : Flying(g)' = Flying(g)
  BY <1>1 DEF Flying
<1>5. UNCHANGED <<buffer, nextSeq>> \/ (Elements(buffer') = {} /\ \E c \in Flying(f) : c.complete)
  BY <1>1, <1>2, ElementsOfEmpty
<1> QED
  BY <1>1, <1>3, <1>4, <1>5

LEMMA RaisesElements ==
  ASSUME NEW f \in Flusher, WriterInv, FlushRaises(f)
  PROVE  /\ Elements(log') = Elements(log) /\ Flying(f)' = {}
         /\ \A g \in Flusher \ {f} : Flying(g)' = Flying(g)
         /\ Elements(buffer') = Elements(buffer) \cup Flying(f)
<1>1. /\ flight'[f] = NoFlight /\ \A g \in Flusher \ {f} : flight'[g] = flight[g]
      /\ buffer' = flight[f].chunks \o buffer /\ log' = log
  BY RaisesStep
<1>2. flight[f].chunks \in Seq(Chunk) /\ buffer \in Seq(Chunk)
  BY FlightOf DEF WriterInv, StreamTypes
<1>3. Elements(buffer') = Elements(buffer) \cup Flying(f)
  BY <1>1, <1>2, ElementsOfConcat DEF Flying
<1> QED
  BY <1>1, <1>3, NoFlightIs, ElementsOfEmpty DEF Flying

LEMMA AbandonElements ==
  ASSUME NEW f \in Flusher, WriterInv, Abandon(f)
  PROVE  /\ Elements(log) \subseteq Elements(log')
         /\ Elements(log') \subseteq Elements(log) \cup Flying(f)
         /\ Flying(f)' = {}
         /\ \A g \in Flusher \ {f} : Flying(g)' = Flying(g)
<1>1. /\ flight'[f] = NoFlight /\ \A g \in Flusher \ {f} : flight'[g] = flight[g]
  BY AbandonStep
<1>2. PICK t \in Seq(Chunk) : log' = log \o t /\ Elements(t) \subseteq Flying(f)
  BY AbandonStep DEF Flying
<1>3. Elements(log') = Elements(log) \cup Elements(t)
  BY <1>2, ElementsOfConcat DEF WriterInv, StreamTypes
<1> QED
  BY <1>1, <1>2, <1>3, NoFlightIs, ElementsOfEmpty DEF Flying

LEMMA RestElements ==
  ASSUME WriterInv, FlushRest
  PROVE  /\ Elements(log') = Elements(log) /\ Flying("timer")' = Flying("timer")
         /\ Flying("processor") = {}
         /\ \/ UNCHANGED <<buffer, flight>>
            \/ Elements(buffer') = {} /\ Flying("processor")' = Elements(buffer)
         /\ phase' # "stream"
<1>1. /\ pc = "flushRest" /\ log' = log
      /\ \/ UNCHANGED <<buffer, flight>> /\ phase' = "final"
         \/ TakeOff("processor", buffer) /\ phase' = phase
  BY DEF FlushRest
<1>2. /\ StreamTypes /\ buffer \in Seq(Chunk) /\ phase = "stopping" /\ ~flight["processor"].on
      /\ "processor" \in Flusher /\ "timer" \in Flusher \ {"processor"}
  BY <1>1 DEF WriterInv, StreamTypes, PhaseInv, Control, Flights, Flusher
<1>3. Flying("processor") = {}
  BY <1>2, NothingFlies
<1>4. CASE TakeOff("processor", buffer) /\ phase' = phase
  <2>1. /\ buffer' = <<>> /\ flight'["timer"] = flight["timer"]
        /\ flight'["processor"].chunks = buffer
    BY <1>2, <1>4, TakeOffStep
  <2> QED
    BY <1>1, <1>2, <1>3, <1>4, <2>1, ElementsOfEmpty DEF Flying
<1>5. CASE UNCHANGED <<buffer, flight>> /\ phase' = "final"
  BY <1>1, <1>3, <1>5 DEF Flying
<1> QED
  BY <1>1, <1>4, <1>5

-----------------------------------------------------------------------------
(* Up to the agent's terminal chunk the counter is not reset, so its chunks *)
(* are numbered in the order it produced them; only the processor's own     *)
(* flush may hold that chunk as long as the stream lasts.                   *)
Numbering ==
  /\ \A c \in Known : c.src # Report => c.seq = c.src
  /\ phase = "stream" =>
       /\ todo # <<>> => nextSeq = N - Len(todo) + 1
       /\ \A c \in Known : c.src <= N - Len(todo)
       /\ \A c \in Elements(buffer) \cup Flying("timer") : ~c.complete
       /\ todo # <<>> => \A c \in Flying("processor") : ~c.complete

LEMMA NumberingKept ==
  ASSUME Numbering, Known' \subseteq Known,
         phase' = "stream" =>
           /\ phase = "stream" /\ todo' = todo
           /\ todo # <<>> => nextSeq' = nextSeq
           /\ Elements(buffer') \cup Flying("timer")' \subseteq Elements(buffer) \cup Flying("timer")
           /\ Flying("processor")' \subseteq Flying("processor")
  PROVE  Numbering'
<1>1. \A c \in Known' : c.src # Report => c.seq = c.src
  BY DEF Numbering
<1>2. ASSUME phase' = "stream"
      PROVE  /\ todo' # <<>> => nextSeq' = N - Len(todo') + 1
             /\ \A c \in Known' : c.src <= N - Len(todo')
             /\ \A c \in Elements(buffer') \cup Flying("timer")' : ~c.complete
             /\ todo' # <<>> => \A c \in Flying("processor")' : ~c.complete
  <2> HIDE DEF Numbering
  <2>1. /\ phase = "stream" /\ todo' = todo
        /\ todo # <<>> => nextSeq' = nextSeq
        /\ Elements(buffer') \cup Flying("timer")' \subseteq Elements(buffer) \cup Flying("timer")
        /\ Flying("processor")' \subseteq Flying("processor")
    BY <1>2
  <2>2. /\ todo # <<>> => nextSeq = N - Len(todo) + 1
        /\ \A c \in Known : c.src <= N - Len(todo)
        /\ \A c \in Elements(buffer) \cup Flying("timer") : ~c.complete
        /\ todo # <<>> => \A c \in Flying("processor") : ~c.complete
    BY <2>1 DEF Numbering
  <2> QED
    BY <2>1, <2>2
<1> QED
  BY <1>1, <1>2 DEF Numbering

(* The chunk that write_chunk numbers.                                      *)
LEMMA FreshIs ==
  ASSUME WriterInv, Numbering, WriteChunk
  PROVE  /\ Fresh.src # Report => Fresh.seq = Fresh.src
         /\ Fresh.complete <=> Len(todo) = 1
         /\ phase = "stream" =>
              Fresh.src = N - Len(todo) + 1 /\ Fresh.seq = Fresh.src /\ nextSeq = N - Len(todo) + 1
         /\ phase # "stream" => Fresh.src = Report
         /\ Len(todo) \in Nat \ {0} /\ N \in Nat /\ nextSeq \in Nat
<1>1. /\ pc = "write" /\ todo \in Seq(0 .. N) /\ todo # <<>> /\ N \in Nat /\ nextSeq \in Nat
  BY StreamAssumption DEF WriteChunk, WriterInv, StreamTypes, PhaseInv, Control
<1>2. Head(todo) = todo[1] /\ 1 \in DOMAIN todo /\ Len(todo) \in Nat \ {0}
  BY <1>1
<1>3. Fresh.src = todo[1] /\ Fresh.seq = nextSeq /\ (Fresh.complete <=> Len(todo) = 1)
  BY <1>2 DEF Fresh, NewChunk
<1>4. CASE phase = "stream"
  <2>1. todo[1] = N - Len(todo) + 1
    BY <1>2, <1>4 DEF WriterInv, PhaseInv, Remaining
  <2>2. nextSeq = N - Len(todo) + 1
    BY <1>1, <1>4 DEF Numbering
  <2> QED
    BY <1>1, <1>2, <1>3, <1>4, <2>1, <2>2
<1>5. CASE phase # "stream"
  <2>1. todo[1] = Report
    BY <1>2, <1>5 DEF WriterInv, PhaseInv, Remaining
  <2> QED
    BY <1>1, <1>2, <1>3, <1>5, <2>1
<1> QED
  BY <1>4, <1>5

LEMMA NumberingWrites ==
  ASSUME WriterInv, Numbering, WriteChunk
  PROVE  Numbering'
<1>1. /\ Elements(log') = Elements(log)
      /\ Flying("timer")' = Flying("timer") /\ Flying("processor") = {}
      /\ \/ Elements(buffer') = {} /\ Flying("processor")' = Elements(buffer) \cup {Fresh}
         \/ /\ Elements(buffer') = Elements(buffer) \cup {Fresh}
            /\ Flying("processor")' = {} /\ Len(todo) # 1
  BY WriteElements
<1>2. Known' = Known \cup {Fresh}
  BY <1>1 DEF Known
<1>3. \A c \in Known' : c.src # Report => c.seq = c.src
  BY <1>2, FreshIs DEF Numbering
<1>4. ASSUME phase' = "stream"
      PROVE  /\ todo' # <<>> => nextSeq' = N - Len(todo') + 1
             /\ \A c \in Known' : c.src <= N - Len(todo')
             /\ \A c \in Elements(buffer') \cup Flying("timer")' : ~c.complete
             /\ todo' # <<>> => \A c \in Flying("processor")' : ~c.complete
  <2>1. phase = "stream" /\ nextSeq' = nextSeq + 1
    BY <1>4 DEF WriteChunk, CountChunk
  <2>2. /\ nextSeq = N - Len(todo) + 1 /\ Fresh.src = N - Len(todo) + 1
        /\ Len(todo) \in Nat \ {0} /\ N \in Nat
    BY <2>1, FreshIs
  <2>3. /\ \A c \in Known : c.src <= N - Len(todo)
        /\ \A c \in Elements(buffer) \cup Flying("timer") : ~c.complete
    BY <2>1 DEF Numbering
  <2>4. Len(todo') = Len(todo) - 1 /\ todo' \in Seq(0 .. N)
    BY PhaseWrite DEF WriterInv
  <2>5. nextSeq' = N - Len(todo') + 1
    BY <2>1, <2>2, <2>4
  <2>6. \A c \in Known' : c.src <= N - Len(todo')
    <3>1. \A c \in Known : c.src \in Nat
      <4>1. \A s \in Seq(Chunk) : \A c \in Elements(s) : c.src \in Nat
        <5>1. \A c \in Chunk : c.src \in Nat
          BY <2>2 DEF Chunk
        <5>2. \A s \in Seq(Chunk) : Elements(s) \subseteq Chunk
          BY ElementsIn
        <5> QED
          BY <5>1, <5>2
      <4>2. /\ log \in Seq(Chunk) /\ buffer \in Seq(Chunk)
            /\ flight["processor"].chunks \in Seq(Chunk) /\ flight["timer"].chunks \in Seq(Chunk)
        BY FlightOf DEF WriterInv, StreamTypes, Flusher
      <4> QED
        BY <4>1, <4>2 DEF Known, Flying
    <3>2. \A a \in Nat : a <= N - Len(todo) => a <= N - Len(todo')
      BY <2>2, <2>4
    <3>3. Fresh.src <= N - Len(todo')
      BY <2>2, <2>4
    <3> QED
      BY <1>2, <2>3, <3>1, <3>2, <3>3
  <2>7. todo' # <<>> => ~Fresh.complete
    <3>1. Len(todo) = 1 => todo' = <<>>
      BY <2>4
    <3> QED
      BY <3>1, FreshIs
  <2>8. Len(todo) # 1 => ~Fresh.complete
    BY FreshIs
  <2> QED
    BY <1>1, <2>3, <2>5, <2>6, <2>7, <2>8
<1> QED
  BY <1>3, <1>4 DEF Numbering

LEMMA NumberingReturns ==
  ASSUME NEW f \in Flusher, WriterInv, Numbering, FlushReturns(f)
  PROVE  Numbering'
<1>1. /\ Elements(log') = Elements(log) /\ Flying(f)' = {}
      /\ \A g \in Flusher \ {f} : Flying(g)' = Flying(g)
      /\ \/ UNCHANGED <<buffer, nextSeq>>
         \/ Elements(buffer') = {} /\ \E c \in Flying(f) : c.complete
  BY ReturnsElements
<1>2. /\ "processor" \in Flusher /\ "timer" \in Flusher /\ f \in {"processor", "timer"}
      /\ Flying("processor")' \subseteq Flying("processor") /\ Flying("timer")' \subseteq Flying("timer")
      /\ Elements(buffer') \subseteq Elements(buffer)
  BY <1>1 DEF Flusher
<1>3. Known' \subseteq Known
  BY <1>1, <1>2 DEF Known
<1>4. ASSUME phase' = "stream"
      PROVE  phase = "stream" /\ todo' = todo
  BY <1>2, <1>4, ReturnsPhase
<1>5. ASSUME phase' = "stream", todo # <<>>
      PROVE  nextSeq' = nextSeq
  <2>1. \A c \in Flying(f) : ~c.complete
    BY <1>2, <1>4, <1>5 DEF Numbering
  <2> QED
    BY <1>1, <2>1
<1> QED
  BY <1>2, <1>3, <1>4, <1>5, NumberingKept

LEMMA NumberingStep ==
  ASSUME WriterInv, Numbering, [Next]_vars
  PROVE  Numbering'
<1>f. "processor" \in Flusher /\ "timer" \in Flusher /\ Flusher = {"processor", "timer"}
  BY DEF Flusher
<1>1. CASE StopTimer
  <2>1. Abandon("timer") /\ buffer' = buffer /\ phase' = "stopping"
    BY <1>1 DEF StopTimer, writer
  <2>2. Known' \subseteq Known
    BY <1>f, <2>1, AbandonElements DEF Known
  <2> QED
    BY <2>1, <2>2, NumberingKept
<1>2. CASE FlushRest
  <2>1. Known' \subseteq Known
    BY <1>2, RestElements DEF Known, Flying
  <2> QED
    BY <1>2, <2>1, RestElements, NumberingKept
<1>3. CASE Interrupted
  <2>1. Abandon("processor") /\ buffer' = buffer /\ phase' # "stream"
    BY <1>3, InterruptedStep
  <2>2. Known' \subseteq Known
    BY <1>f, <2>1, AbandonElements DEF Known
  <2> QED
    BY <2>1, <2>2, NumberingKept
<1>4. CASE TimerFlush
  <2>1. UNCHANGED <<phase, todo, nextSeq>>
    BY <1>4 DEF TimerFlush, processor
  <2>2. Known' \subseteq Known
    BY <1>4, TimerElements DEF Known
  <2>3. /\ Elements(buffer') \cup Flying("timer")' \subseteq Elements(buffer) \cup Flying("timer")
        /\ Flying("processor")' \subseteq Flying("processor")
    BY <1>4, TimerElements
  <2> QED
    BY <2>1, <2>2, <2>3, NumberingKept
<1>5. ASSUME NEW f \in Flusher, XAdd(f)
      PROVE  Numbering'
  <2>1. UNCHANGED <<phase, todo, nextSeq>>
    BY <1>5, XAddStep
  <2>2. Known' \subseteq Known
    BY <1>f, <1>5, XAddElements DEF Known
  <2>3. /\ Elements(buffer') \cup Flying("timer")' \subseteq Elements(buffer) \cup Flying("timer")
        /\ Flying("processor")' \subseteq Flying("processor")
    BY <1>f, <1>5, XAddElements
  <2> QED
    BY <2>1, <2>2, <2>3, NumberingKept
<1>6. ASSUME NEW f \in Flusher, FlushRaises(f)
      PROVE  Numbering'
  <2>1. nextSeq' = nextSeq /\ (phase' = "stream" => f = "timer" /\ phase = "stream" /\ todo' = todo)
    BY <1>f, <1>6, RaisesStep
  <2>2. Known' \subseteq Known
    BY <1>f, <1>6, RaisesElements DEF Known
  <2>3. f = "timer" =>
          /\ Elements(buffer') \cup Flying("timer")' \subseteq Elements(buffer) \cup Flying("timer")
          /\ Flying("processor")' \subseteq Flying("processor")
    BY <1>f, <1>6, RaisesElements
  <2> QED
    BY <2>1, <2>2, <2>3, NumberingKept
<1>7. ASSUME UNCHANGED <<log, writer, flight, timer, processor, trouble>>
      PROVE  Numbering'
  BY <1>7 DEF Numbering, Known, Flying, writer, processor
<1>8. ASSUME NEW r \in Reader, ReadBatch(r) \/ Reconnect(r)
      PROVE  Numbering'
  BY <1>7, <1>8 DEF ReadBatch, Reconnect
<1>9. CASE UNCHANGED vars
  BY <1>7, <1>9 DEF vars
<1>10. CASE WriteChunk
  BY <1>10, NumberingWrites
<1>11. ASSUME NEW f \in Flusher, FlushReturns(f)
       PROVE  Numbering'
  BY <1>11, NumberingReturns
<1> QED
  BY <1>1, <1>2, <1>3, <1>4, <1>5, <1>6, <1>8, <1>9, <1>10, <1>11 DEF Next, Processor, Flush

LEMMA NothingKnown ==
  ASSUME Init
  PROVE  Known = {} /\ Elements(buffer) = {} /\ \A f \in Flusher : Flying(f) = {}
<1>1. Elements(log) = {} /\ Elements(buffer) = {}
  BY ElementsOfEmpty DEF Init
<1>2. \A f \in Flusher : Flying(f) = {}
  <2>1. WriterInv /\ \A f \in Flusher : ~flight[f].on
    BY WriterInit, NoFlightIs DEF Init
  <2> QED
    BY <2>1, NothingFlies
<1> QED
  BY <1>1, <1>2 DEF Known, Flusher

LEMMA NumberingInit ==
  ASSUME Init
  PROVE  Numbering
<1>1. N \in Nat /\ Len(todo) = N /\ nextSeq = 1
  BY StreamAssumption DEF Init, Source
<1>2. "processor" \in Flusher /\ "timer" \in Flusher
  BY DEF Flusher
<1>3. nextSeq = N - Len(todo) + 1
  BY <1>1
<1> QED
  BY <1>2, <1>3, NothingKnown DEF Numbering

(* The cursor a reader resumes with identifies a chunk of the agent.        *)
THEOREM NumbersIdentify == Spec => []NumberIdentifiesChunk
<1>1. Init => Numbering
  BY NumberingInit
<1>2. WriterInv /\ Numbering /\ [Next]_vars => Numbering'
  BY NumberingStep
<1>3. Numbering => NumberIdentifiesChunk
  BY DEF Numbering, Known, Elements, NumberIdentifiesChunk
<1> QED
  BY <1>1, <1>2, <1>3, StreamBase, PTL DEF Spec

-----------------------------------------------------------------------------
(* What was sent is stored; and while the stream lasts, what was written is *)
(* stored, buffered or in a flush.                                          *)
SentIsStored ==
  \A f \in Flusher : \A i \in 1 .. flight[f].sent : flight[f].chunks[i] \in Elements(log)

WrittenIsKnown ==
  phase = "stream" /\ pc # "stop" => \A i \in 1 .. N - Len(todo) : \E c \in Known : c.src = i

LEMMA NothingSent ==
  ASSUME NEW f \in Flusher, SentIsStored, Elements(log) \subseteq Elements(log'),
         \A g \in Flusher \ {f} : flight'[g] = flight[g],
         flight'[f].sent = 0
  PROVE  SentIsStored'
<1>1. ASSUME NEW g \in Flusher, NEW i \in 1 .. flight'[g].sent
      PROVE  flight'[g].chunks[i] \in Elements(log')
  <2>1. CASE g = f
    BY <1>1, <2>1
  <2>2. CASE g # f
    BY <1>1, <2>2 DEF SentIsStored
  <2> QED
    BY <2>1, <2>2
<1> QED
  BY <1>1 DEF SentIsStored

LEMMA SentStep ==
  ASSUME WriterInv, SentIsStored, [Next]_vars
  PROVE  SentIsStored'
<1>f. /\ "processor" \in Flusher /\ "timer" \in Flusher /\ NoFlight.sent = 0
      /\ StreamTypes /\ buffer \in Seq(Chunk)
  BY NoFlightIs DEF Flusher, WriterInv, StreamTypes
<1>1. ASSUME UNCHANGED <<log, flight>>
      PROVE  SentIsStored'
  BY <1>1 DEF SentIsStored
<1>2. ASSUME NEW f \in Flusher, NEW chunks \in Seq(Chunk), TakeOff(f, chunks), log' = log
      PROVE  SentIsStored'
  <2>1. flight'[f].sent = 0 /\ \A g \in Flusher \ {f} : flight'[g] = flight[g]
    BY <1>f, <1>2, TakeOffStep
  <2> QED
    BY <1>2, <2>1, NothingSent
<1>3. CASE WriteChunk
  <2>1. \/ TakeOff("processor", Append(buffer, Fresh))
        \/ UNCHANGED flight
    BY <1>3 DEF WriteChunk, Fresh
  <2>2. Append(buffer, Fresh) \in Seq(Chunk) /\ log' = log
    BY <1>f, <1>3, WriteElements, ElementsOfAppend DEF WriteChunk
  <2> QED
    BY <1>f, <1>1, <1>2, <2>1, <2>2
<1>4. CASE StopTimer
  <2>1. Abandon("timer")
    BY <1>4 DEF StopTimer
  <2>2. /\ Elements(log) \subseteq Elements(log') /\ flight'["timer"] = NoFlight
        /\ \A g \in Flusher \ {"timer"} : flight'[g] = flight[g]
    BY <1>f, <2>1, AbandonElements, AbandonStep
  <2> QED
    BY <1>f, <2>2, NothingSent
<1>5. CASE FlushRest
  BY <1>f, <1>1, <1>2, <1>5 DEF FlushRest
<1>6. CASE Interrupted
  <2>1. Abandon("processor")
    BY <1>6 DEF Interrupted
  <2>2. /\ Elements(log) \subseteq Elements(log') /\ flight'["processor"] = NoFlight
        /\ \A g \in Flusher \ {"processor"} : flight'[g] = flight[g]
    BY <1>f, <2>1, AbandonElements, AbandonStep
  <2> QED
    BY <1>f, <2>2, NothingSent
<1>7. CASE TimerFlush
  BY <1>f, <1>2, <1>7 DEF TimerFlush
<1>8. ASSUME NEW f \in Flusher, XAdd(f)
      PROVE  SentIsStored'
  <2>1. /\ flight'[f].chunks = flight[f].chunks /\ flight'[f].sent = flight[f].sent + 1
        /\ \A g \in Flusher \ {f} : flight'[g] = flight[g]
        /\ flight[f].sent \in Nat
    BY <1>f, <1>8, XAddStep, FlightOf
  <2>2. Elements(log') = Elements(log) \cup {flight[f].chunks[flight[f].sent + 1]}
    BY <1>8, XAddElements
  <2>3. ASSUME NEW g \in Flusher, NEW i \in 1 .. flight'[g].sent
        PROVE  flight'[g].chunks[i] \in Elements(log')
    <3>1. CASE g # f
      BY <2>1, <2>2, <2>3, <3>1 DEF SentIsStored
    <3>2. CASE g = f /\ i = flight[f].sent + 1
      BY <2>1, <2>2, <3>2
    <3>3. CASE g = f /\ i # flight[f].sent + 1
      <4>1. i \in 1 .. flight[f].sent
        BY <2>1, <2>3, <3>3
      <4> QED
        BY <2>1, <2>2, <3>3, <4>1 DEF SentIsStored
    <3> QED
      BY <3>1, <3>2, <3>3
  <2> QED
    BY <2>3 DEF SentIsStored
<1>9. ASSUME NEW f \in Flusher, FlushReturns(f) \/ FlushRaises(f)
      PROVE  SentIsStored'
  <2>1. /\ log' = log /\ flight'[f] = NoFlight
        /\ \A g \in Flusher \ {f} : flight'[g] = flight[g]
    BY <1>9, ReturnsStep, RaisesStep
  <2> QED
    BY <1>f, <2>1, NothingSent
<1>10. ASSUME NEW r \in Reader, ReadBatch(r) \/ Reconnect(r)
       PROVE  SentIsStored'
  BY <1>1, <1>10 DEF ReadBatch, Reconnect
<1>11. CASE UNCHANGED vars
  BY <1>1, <1>11 DEF vars
<1> QED
  BY <1>3, <1>4, <1>5, <1>6, <1>7, <1>8, <1>9, <1>10, <1>11 DEF Next, Processor, Flush

(* A chunk that a returned flush lets go of is in the log.                  *)
LEMMA LandedIsStored ==
  ASSUME NEW f \in Flusher, WriterInv, SentIsStored, FlushReturns(f)
  PROVE  Flying(f) \subseteq Elements(log)
<1>1. flight[f].sent = Len(flight[f].chunks) /\ flight[f].chunks \in Seq(Chunk)
  BY ReturnsStep, FlightOf DEF WriterInv
<1>2. DOMAIN flight[f].chunks = 1 .. flight[f].sent
  BY <1>1
<1> QED
  BY <1>2 DEF Flying, Elements, SentIsStored

LEMMA WrittenStays ==
  ASSUME WrittenIsKnown, phase' = "stream" /\ pc' # "stop" => Known \subseteq Known',
         phase' = "stream" /\ pc' # "stop" => phase = "stream" /\ pc # "stop" /\ todo' = todo
  PROVE  WrittenIsKnown'
<1>1. ASSUME phase' = "stream", pc' # "stop", NEW i \in 1 .. N - Len(todo')
      PROVE  \E c \in Known' : c.src = i
  <2>1. Known \subseteq Known' /\ phase = "stream" /\ pc # "stop" /\ i \in 1 .. N - Len(todo)
    BY <1>1
  <2>2. PICK c \in Known : c.src = i
    BY <2>1 DEF WrittenIsKnown
  <2> QED
    BY <2>1, <2>2
<1> QED
  BY <1>1 DEF WrittenIsKnown

LEMMA WrittenStep ==
  ASSUME WriterInv, Numbering, SentIsStored, WrittenIsKnown, [Next]_vars
  PROVE  WrittenIsKnown'
<1>f. "processor" \in Flusher /\ "timer" \in Flusher /\ Flusher = {"processor", "timer"}
  BY DEF Flusher
<1>1. ASSUME UNCHANGED <<log, writer, flight, timer, processor, trouble>>
      PROVE  WrittenIsKnown'
  BY <1>1 DEF WrittenIsKnown, Known, Flying, writer, processor
<1>2. CASE WriteChunk
  <2>1. Known' = Known \cup {Fresh}
    BY <1>2, WriteElements DEF Known
  <2>2. ASSUME phase' = "stream", NEW i \in 1 .. N - Len(todo')
        PROVE  \E c \in Known' : c.src = i
    <3>1. phase = "stream" /\ pc # "stop"
      BY <1>2, <2>2 DEF WriteChunk
    <3>2. /\ Fresh.src = N - Len(todo) + 1 /\ Len(todo) \in Nat \ {0} /\ N \in Nat
          /\ Len(todo') = Len(todo) - 1
      BY <1>2, <3>1, FreshIs, PhaseWrite DEF WriterInv
    <3>3. CASE i = N - Len(todo) + 1
      BY <2>1, <3>2, <3>3
    <3>4. CASE i # N - Len(todo) + 1
      <4>1. i \in 1 .. N - Len(todo)
        BY <2>2, <3>2, <3>4
      <4> QED
        BY <2>1, <3>1, <4>1 DEF WrittenIsKnown
    <3> QED
      BY <3>3, <3>4
  <2> QED
    BY <2>2 DEF WrittenIsKnown
<1>3. CASE StopTimer \/ FlushRest \/ Interrupted
  <2>1. phase' # "stream"
    BY <1>3, RestElements, InterruptedStep DEF StopTimer
  <2> QED
    BY <2>1 DEF WrittenIsKnown
<1>4. CASE TimerFlush
  <2>1. UNCHANGED <<phase, todo, pc>>
    BY <1>4 DEF TimerFlush, processor
  <2>2. Known \subseteq Known'
    BY <1>4, TimerElements DEF Known
  <2> QED
    BY <2>1, <2>2, WrittenStays
<1>5. ASSUME NEW f \in Flusher, XAdd(f)
      PROVE  WrittenIsKnown'
  <2>1. UNCHANGED <<phase, todo, pc>>
    BY <1>5, XAddStep
  <2>2. Known \subseteq Known'
    BY <1>f, <1>5, XAddElements DEF Known
  <2> QED
    BY <2>1, <2>2, WrittenStays
<1>6. ASSUME NEW f \in Flusher, FlushRaises(f)
      PROVE  WrittenIsKnown'
  <2>1. phase' = "stream" => f = "timer" /\ UNCHANGED <<phase, todo, pc>>
    BY <1>f, <1>6, RaisesStep
  <2>2. Known \subseteq Known'
    BY <1>f, <1>6, RaisesElements DEF Known
  <2> QED
    BY <2>1, <2>2, WrittenStays
<1>7. ASSUME NEW f \in Flusher, FlushReturns(f)
      PROVE  WrittenIsKnown'
  <2>1. phase' = "stream" /\ pc' # "stop" => phase = "stream" /\ pc # "stop" /\ todo' = todo
    BY <1>f, <1>7, ReturnsPhase
  <2>2. ASSUME phase' = "stream", pc' # "stop"
        PROVE  Known \subseteq Known'
    <3>1. f = "processor" => todo # <<>>
      BY <1>7, <2>2, ReturnsPhase
    <3>2. \A c \in Flying(f) : ~c.complete
      BY <1>f, <2>1, <2>2, <3>1 DEF Numbering
    <3>3. Elements(buffer') = Elements(buffer)
      BY <1>7, <3>2, ReturnsElements
    <3>4. Flying(f) \subseteq Elements(log)
      BY <1>7, LandedIsStored
    <3> QED
      BY <1>f, <1>7, <3>3, <3>4, ReturnsElements DEF Known
  <2> QED
    BY <2>1, <2>2, WrittenStays
<1>8. ASSUME NEW r \in Reader, ReadBatch(r) \/ Reconnect(r)
      PROVE  WrittenIsKnown'
  BY <1>1, <1>8 DEF ReadBatch, Reconnect
<1>9. CASE UNCHANGED vars
  BY <1>1, <1>9 DEF vars
<1> QED
  BY <1>2, <1>3, <1>4, <1>5, <1>6, <1>7, <1>8, <1>9 DEF Next, Processor, Flush

LEMMA StoredInit ==
  ASSUME Init
  PROVE  SentIsStored /\ WrittenIsKnown
<1>1. N \in Nat /\ Len(todo) = N
  BY StreamAssumption DEF Init, Source
<1>2. \A f \in Flusher : flight[f].sent = 0
  BY NoFlightIs DEF Init
<1>3. 1 .. N - Len(todo) = {} /\ 1 .. 0 = {}
  BY <1>1
<1> QED
  BY <1>2, <1>3 DEF SentIsStored, WrittenIsKnown

LEMMA StreamStored == Spec => [](Numbering /\ SentIsStored /\ WrittenIsKnown)
<1>1. Init => Numbering /\ SentIsStored /\ WrittenIsKnown
  BY NumberingInit, StoredInit
<1>2. WriterInv /\ Numbering /\ SentIsStored /\ WrittenIsKnown /\ [Next]_vars
        => (Numbering /\ SentIsStored /\ WrittenIsKnown)'
  BY NumberingStep, SentStep, WrittenStep
<1> QED
  BY <1>1, <1>2, StreamBase, PTL DEF Spec

(* Whatever fails, and however often, no chunk of the agent is lost as long *)
(* as its stream lasts.                                                     *)
THEOREM NothingLost == Spec => []NoChunkLostWhileStreaming
<1>1. ASSUME WriterInv, WrittenIsKnown, phase = "stream", pc # "stop", NEW i \in Written
      PROVE  InRedis(i) \/ Held(i)
  <2>1. N \in Nat /\ Len(todo) \in Nat /\ Len(todo) <= N /\ DOMAIN todo = 1 .. Len(todo)
    BY <1>1, StreamAssumption DEF WriterInv, StreamTypes, PhaseInv, Remaining
  <2>2. i \in 1 .. N - Len(todo)
    <3>1. i \in 1 .. N /\ \A j \in DOMAIN todo : i # todo[j]
      BY <1>1 DEF Written
    <3>2. CASE i > N - Len(todo)
      <4>1. i - (N - Len(todo)) \in DOMAIN todo
        BY <2>1, <3>1, <3>2
      <4>2. todo[i - (N - Len(todo))] = N - Len(todo) + (i - (N - Len(todo)))
        BY <1>1, <4>1 DEF WriterInv, PhaseInv, Remaining
      <4>3. N - Len(todo) + (i - (N - Len(todo))) = i
        BY <2>1, <3>1
      <4> QED
        BY <3>1, <4>1, <4>2, <4>3
    <3> QED
      BY <2>1, <3>1, <3>2
  <2>3. PICK c \in Known : c.src = i
    BY <1>1, <2>2 DEF WrittenIsKnown
  <2>4. \A s : c \in Elements(s) => i \in Srcs(s)
    BY <2>3 DEF Elements, Srcs
  <2> QED
    BY <2>3, <2>4 DEF Known, Flying, InRedis, Held, Flusher
<1>2. WriterInv /\ WrittenIsKnown => NoChunkLostWhileStreaming
  BY <1>1 DEF NoChunkLostWhileStreaming
<1> QED
  BY <1>2, StreamBase, StreamStored, PTL

-----------------------------------------------------------------------------
(* The agent's chunks that a sequence still holds from its (b+1)-th on, and *)
(* that it holds each of them once.                                         *)
Rest(s, b) == {s[i].src : i \in b + 1 .. Len(s)} \ {Report}
Single(s, b) ==
  \A i, j \in b + 1 .. Len(s) : s[i].src = s[j].src /\ s[i].src # Report => i = j

Stored == Rest(log, 0)
Waiting == Rest(buffer, 0)
Coming(f) == Rest(flight[f].chunks, flight[f].sent)

(* A chunk is stored, in the buffer, or still to be sent by one flush: in   *)
(* one of these places, and there once.                                     *)
Once ==
  failures = 0 =>
    /\ Single(log, 0) /\ Single(buffer, 0)
    /\ \A f \in Flusher : Single(flight[f].chunks, flight[f].sent)
    /\ Stored \cap Waiting = {}
    /\ \A f \in Flusher : Coming(f) \cap Stored = {} /\ Coming(f) \cap Waiting = {}
    /\ Coming("processor") \cap Coming("timer") = {}

LEMMA RestOfEmpty == Rest(<<>>, 0) = {} /\ Single(<<>>, 0)
<1>1. Len(<<>>) = 0 /\ 0 + 1 .. 0 = {}
  OBVIOUS
<1> QED
  BY <1>1 DEF Rest, Single

LEMMA RestOfConcat ==
  ASSUME NEW s \in Seq(Chunk), NEW t \in Seq(Chunk)
  PROVE  /\ Rest(s \o t, 0) = Rest(s, 0) \cup Rest(t, 0)
         /\ Single(s, 0) /\ Single(t, 0) /\ Rest(s, 0) \cap Rest(t, 0) = {} => Single(s \o t, 0)
<1>1. /\ Len(s \o t) = Len(s) + Len(t) /\ Len(s) \in Nat /\ Len(t) \in Nat
      /\ \A i \in 1 .. Len(s) : (s \o t)[i] = s[i]
      /\ \A i \in 1 .. Len(t) : (s \o t)[Len(s) + i] = t[i]
  OBVIOUS
<1>0. \A u, x : x \in Rest(u, 0) <=> x # Report /\ \E i \in 1 .. Len(u) : x = u[i].src
  <2>1. 0 + 1 = 1
    OBVIOUS
  <2> QED
    BY <2>1 DEF Rest
<1>2. \A i \in 1 .. Len(s) + Len(t) :
        \/ i \in 1 .. Len(s) /\ (s \o t)[i] = s[i]
        \/ /\ i > Len(s) /\ i - Len(s) \in 1 .. Len(t)
           /\ (s \o t)[i] = t[i - Len(s)]
  <2>1. ASSUME NEW i \in 1 .. Len(s) + Len(t), i \notin 1 .. Len(s)
        PROVE  i > Len(s) /\ i - Len(s) \in 1 .. Len(t) /\ Len(s) + (i - Len(s)) = i
    BY <1>1, <2>1
  <2> QED
    BY <1>1, <2>1
<1>3. Rest(s \o t, 0) \subseteq Rest(s, 0) \cup Rest(t, 0)
  <2>1. ASSUME NEW x \in Rest(s \o t, 0)
        PROVE  x \in Rest(s, 0) \cup Rest(t, 0)
    <3>1. PICK i \in 1 .. Len(s \o t) : x = (s \o t)[i].src
      BY <1>0
    <3>2. x # Report /\ i \in 1 .. Len(s) + Len(t)
      BY <1>0, <1>1
    <3>3. CASE i \in 1 .. Len(s) /\ (s \o t)[i] = s[i]
      BY <1>0, <3>1, <3>2, <3>3
    <3>4. CASE i - Len(s) \in 1 .. Len(t) /\ (s \o t)[i] = t[i - Len(s)]
      BY <1>0, <3>1, <3>2, <3>4
    <3> QED
      BY <1>2, <3>2, <3>3, <3>4
  <2> QED
    BY <2>1
<1>4. Rest(s, 0) \cup Rest(t, 0) \subseteq Rest(s \o t, 0)
  <2>1. ASSUME NEW x \in Rest(s, 0)
        PROVE  x \in Rest(s \o t, 0)
    <3>1. PICK i \in 1 .. Len(s) : x = s[i].src /\ x # Report
      BY <1>0
    <3>2. i \in 1 .. Len(s) + Len(t) /\ x = (s \o t)[i].src
      BY <1>1, <3>1
    <3>3. i \in 1 .. Len(s \o t)
      BY <1>1, <3>2
    <3> QED
      BY <1>0, <3>1, <3>2, <3>3
  <2>2. ASSUME NEW x \in Rest(t, 0)
        PROVE  x \in Rest(s \o t, 0)
    <3>1. PICK i \in 1 .. Len(t) : x = t[i].src /\ x # Report
      BY <1>0
    <3>2. Len(s) + i \in 1 .. Len(s) + Len(t) /\ x = (s \o t)[Len(s) + i].src
      BY <1>1, <3>1
    <3>3. Len(s) + i \in 1 .. Len(s \o t)
      BY <1>1, <3>2
    <3> QED
      BY <1>0, <3>1, <3>2, <3>3
  <2> QED
    BY <2>1, <2>2
<1>5. ASSUME Single(s, 0), Single(t, 0), Rest(s, 0) \cap Rest(t, 0) = {},
             NEW i \in 1 .. Len(s) + Len(t), NEW j \in 1 .. Len(s) + Len(t),
             (s \o t)[i].src = (s \o t)[j].src, (s \o t)[i].src # Report
      PROVE  i = j
  <2>1. \A a \in 1 .. Len(s), b \in 1 .. Len(t) : s[a].src # Report => s[a].src # t[b].src
    <3>1. ASSUME NEW a \in 1 .. Len(s), s[a].src # Report
          PROVE  s[a].src \in Rest(s, 0)
      BY <3>1 DEF Rest
    <3>2. ASSUME NEW b \in 1 .. Len(t), t[b].src # Report
          PROVE  t[b].src \in Rest(t, 0)
      BY <3>2 DEF Rest
    <3> QED
      BY <1>5, <3>1, <3>2
  <2>2. \A a, b \in 1 .. Len(s) : s[a].src = s[b].src /\ s[a].src # Report => a = b
    BY <1>5 DEF Single
  <2>3. \A a, b \in 1 .. Len(t) : t[a].src = t[b].src /\ t[a].src # Report => a = b
    BY <1>5 DEF Single
  <2>4. CASE i \in 1 .. Len(s) /\ j \in 1 .. Len(s)
    BY <1>1, <1>5, <2>2, <2>4
  <2>5. CASE i \in 1 .. Len(s) /\ j \notin 1 .. Len(s)
    BY <1>2, <1>5, <2>1, <2>5
  <2>6. CASE i \notin 1 .. Len(s) /\ j \in 1 .. Len(s)
    BY <1>2, <1>5, <2>1, <2>6
  <2>7. CASE i \notin 1 .. Len(s) /\ j \notin 1 .. Len(s)
    <3>1. i - Len(s) = j - Len(s)
      BY <1>2, <1>5, <2>3, <2>7
    <3> QED
      BY <1>1, <3>1
  <2> QED
    BY <2>4, <2>5, <2>6, <2>7
<1>6. Single(s, 0) /\ Single(t, 0) /\ Rest(s, 0) \cap Rest(t, 0) = {} => Single(s \o t, 0)
  BY <1>1, <1>5 DEF Single
<1> QED
  BY <1>3, <1>4, <1>6

LEMMA RestOfOne ==
  ASSUME NEW s \in Seq(Chunk), NEW c \in Chunk
  PROVE  /\ Rest(Append(s, c), 0) = Rest(s, 0) \cup ({c.src} \ {Report})
         /\ Single(s, 0) /\ c.src \notin Rest(s, 0) => Single(Append(s, c), 0)
<1>1. <<c>> \in Seq(Chunk) /\ Append(s, c) = s \o <<c>>
  OBVIOUS
<1>2. Len(<<c>>) = 1 /\ <<c>>[1] = c /\ 0 + 1 .. 1 = {1}
  OBVIOUS
<1>3. Rest(<<c>>, 0) = {c.src} \ {Report} /\ Single(<<c>>, 0)
  BY <1>2 DEF Rest, Single
<1>4. /\ Rest(s \o <<c>>, 0) = Rest(s, 0) \cup Rest(<<c>>, 0)
      /\ Single(s, 0) /\ Single(<<c>>, 0) /\ Rest(s, 0) \cap Rest(<<c>>, 0) = {} => Single(s \o <<c>>, 0)
  BY <1>1, RestOfConcat
<1>5. c.src \notin Rest(s, 0) => Rest(s, 0) \cap Rest(<<c>>, 0) = {}
  BY <1>3
<1> QED
  BY <1>1, <1>3, <1>4, <1>5

(* What is sent next, and any prefix of what is still to be sent.           *)
LEMMA RestOfNext ==
  ASSUME NEW s \in Seq(Chunk), NEW b \in Nat, b + 1 \in 1 .. Len(s)
  PROVE  /\ Rest(s, b + 1) \subseteq Rest(s, b)
         /\ {s[b + 1].src} \ {Report} \subseteq Rest(s, b)
         /\ Single(s, b) => Single(s, b + 1) /\ s[b + 1].src \notin Rest(s, b + 1)
<1>1. \A i \in (b + 1) + 1 .. Len(s) : i \in b + 1 .. Len(s) /\ i # b + 1
  OBVIOUS
<1>2. b + 1 \in b + 1 .. Len(s)
  OBVIOUS
<1>3. Rest(s, b + 1) \subseteq Rest(s, b)
  BY <1>1 DEF Rest
<1>4. {s[b + 1].src} \ {Report} \subseteq Rest(s, b)
  BY <1>2 DEF Rest
<1>5. ASSUME Single(s, b)
      PROVE  Single(s, b + 1) /\ s[b + 1].src \notin Rest(s, b + 1)
  BY <1>1, <1>2, <1>5 DEF Single, Rest
<1> QED
  BY <1>3, <1>4, <1>5

LEMMA RestOfPart ==
  ASSUME NEW s \in Seq(Chunk), NEW b \in Nat, NEW t \in Seq(Chunk), Len(t) <= Len(s) - b,
         \A i \in 1 .. Len(t) : t[i] = s[b + i]
  PROVE  /\ Rest(t, 0) \subseteq Rest(s, b)
         /\ Single(s, b) => Single(t, 0)
<1>1. Len(t) \in Nat /\ Len(s) \in Nat
  OBVIOUS
<1>2. \A i \in 1 .. Len(t) : b + i \in b + 1 .. Len(s)
  BY <1>1
<1>3. \A i, j \in 1 .. Len(t) : b + i = b + j => i = j
  BY <1>1
<1>4. Rest(t, 0) \subseteq Rest(s, b)
  <2>1. ASSUME NEW x \in Rest(t, 0)
        PROVE  x \in Rest(s, b)
    <3>1. PICK i \in 1 .. Len(t) : x = t[i].src /\ x # Report
      BY DEF Rest
    <3>2. b + i \in b + 1 .. Len(s) /\ x = s[b + i].src
      BY <1>2, <3>1
    <3> QED
      BY <3>1, <3>2 DEF Rest
  <2> QED
    BY <2>1
<1>5. ASSUME Single(s, b), NEW i \in 1 .. Len(t), NEW j \in 1 .. Len(t),
             t[i].src = t[j].src, t[i].src # Report
      PROVE  i = j
  <2>1. b + i = b + j
    BY <1>2, <1>5 DEF Single
  <2> QED
    BY <1>3, <2>1
<1>6. Single(s, b) => Single(t, 0)
  BY <1>5 DEF Single
<1> QED
  BY <1>4, <1>6

LEMMA RestOfSent ==
  ASSUME NEW s \in Seq(Chunk)
  PROVE  Rest(s, Len(s)) = {}
<1>1. Len(s) + 1 .. Len(s) = {}
  OBVIOUS
<1> QED
  BY <1>1 DEF Rest

(* A flush that is not under way sends nothing more.                        *)
LEMMA NothingComes ==
  ASSUME NEW f \in Flusher, flight[f] = NoFlight
  PROVE  Coming(f) = {} /\ Single(flight[f].chunks, flight[f].sent)
  BY NoFlightIs, RestOfEmpty DEF Coming

LEMMA NothingComesNext ==
  ASSUME NEW f \in Flusher, flight'[f] = NoFlight
  PROVE  Coming(f)' = {} /\ Single(flight'[f].chunks, flight'[f].sent)
  BY NoFlightIs, RestOfEmpty DEF Coming

(* The buffer taken off by a flusher that has no flush under way.           *)
LEMMA OnceTakeOff ==
  ASSUME NEW f \in Flusher, NEW g \in Flusher \ {f}, NEW chunks \in Seq(Chunk), WriterInv,
         ~flight[f].on, TakeOff(f, chunks), log' = log, failures' = failures,
         failures = 0 =>
           /\ Once /\ Single(chunks, 0)
           /\ Rest(chunks, 0) \cap Stored = {} /\ Rest(chunks, 0) \cap Coming(g) = {}
  PROVE  Once'
<1>1. /\ buffer' = <<>> /\ flight'[f].chunks = chunks /\ flight'[f].sent = 0
      /\ flight'[g] = flight[g]
  BY TakeOffStep DEF WriterInv
<1>2. Flusher = {f, g} /\ {f, g} = {"processor", "timer"}
  BY DEF Flusher
<1>3. SUFFICES ASSUME failures = 0
               PROVE  Once'
  BY DEF Once
<1>4. Coming(f)' = Rest(chunks, 0) /\ Coming(g)' = Coming(g) /\ Stored' = Stored /\ Waiting' = {}
  BY <1>1, RestOfEmpty DEF Coming, Stored, Waiting
<1>5. /\ Single(log', 0) /\ Single(buffer', 0)
      /\ Single(flight'[f].chunks, flight'[f].sent) /\ Single(flight'[g].chunks, flight'[g].sent)
  BY <1>1, <1>3, RestOfEmpty DEF Once
<1>6. Coming(f)' \cap Coming(g)' = {} /\ Coming(f)' \cap Stored' = {} /\ Coming(g)' \cap Stored' = {}
  BY <1>3, <1>4 DEF Once
<1>7. Coming("processor")' \cap Coming("timer")' = {}
  BY <1>2, <1>6
<1>8. \A h \in Flusher : /\ Single(flight'[h].chunks, flight'[h].sent)
                         /\ Coming(h)' \cap Stored' = {} /\ Coming(h)' \cap Waiting' = {}
  BY <1>2, <1>4, <1>5, <1>6
<1> QED
  BY <1>4, <1>5, <1>7, <1>8 DEF Once

(* Some of what a flush still had to send reached the log, and the flush    *)
(* keeps at most the others.                                                *)
LEMMA OnceMoves ==
  ASSUME Once, failures' = failures, NEW f \in Flusher,
         failures = 0 =>
           /\ Single(log', 0) /\ Stored' \subseteq Stored \cup Coming(f)
           /\ Single(buffer', 0) /\ Waiting' \subseteq Waiting
           /\ Single(flight'[f].chunks, flight'[f].sent) /\ Coming(f)' \subseteq Coming(f)
           /\ Coming(f)' \cap Stored' = {}
           /\ \A g \in Flusher \ {f} : flight'[g] = flight[g]
  PROVE  Once'
<1>1. SUFFICES ASSUME failures = 0
               PROVE  Once'
  BY DEF Once
<1>2. PICK g \in Flusher \ {f} : Flusher = {f, g} /\ {f, g} = {"processor", "timer"}
  BY DEF Flusher
<1>3. flight'[g] = flight[g] /\ Coming(g)' = Coming(g)
  BY <1>1, <1>2 DEF Coming
<1>4. /\ Single(flight[g].chunks, flight[g].sent) /\ Coming(g) \cap Stored = {}
      /\ Coming(g) \cap Waiting = {} /\ Coming(f) \cap Waiting = {} /\ Stored \cap Waiting = {}
      /\ Coming(f) \cap Coming(g) = {}
  BY <1>1, <1>2 DEF Once
<1>5. /\ Stored' \cap Waiting' = {} /\ Coming(f)' \cap Coming(g)' = {}
      /\ Coming(g)' \cap Stored' = {} /\ Coming(g)' \cap Waiting' = {} /\ Coming(f)' \cap Waiting' = {}
  BY <1>1, <1>3, <1>4
<1>6. Coming("processor")' \cap Coming("timer")' = {}
  BY <1>2, <1>5
<1>7. \A h \in Flusher : /\ Single(flight'[h].chunks, flight'[h].sent)
                         /\ Coming(h)' \cap Stored' = {} /\ Coming(h)' \cap Waiting' = {}
  BY <1>1, <1>2, <1>3, <1>4, <1>5
<1> QED
  BY <1>1, <1>5, <1>6, <1>7 DEF Once

(* What a sequence still holds is among its elements.                       *)
LEMMA RestIn ==
  ASSUME NEW s \in Seq(Chunk), NEW b \in Nat, NEW x \in Rest(s, b)
  PROVE  x # Report /\ \E c \in Elements(s) : c.src = x
<1>1. PICK i \in b + 1 .. Len(s) : x = s[i].src /\ x # Report
  BY DEF Rest
<1>2. i \in DOMAIN s
  OBVIOUS
<1> QED
  BY <1>1, <1>2 DEF Elements

(* The number of the next chunk is new to every place.                      *)
LEMMA FreshIsNew ==
  ASSUME WriterInv, Numbering, WriteChunk
  PROVE  /\ Fresh.src \notin Stored /\ Fresh.src \notin Waiting
         /\ \A f \in Flusher : Fresh.src \notin Coming(f)
<1>1. \A c \in Known : c.src = Fresh.src => c.src = Report
  <2>1. CASE phase = "stream"
    <3>1. Fresh.src = N - Len(todo) + 1 /\ Len(todo) \in Nat /\ N \in Nat
      BY <2>1, FreshIs
    <3>2. \A c \in Known : c.src <= N - Len(todo)
      BY <2>1 DEF Numbering
    <3>3. ~(N - Len(todo) + 1 <= N - Len(todo))
      BY <3>1
    <3> QED
      BY <3>1, <3>2, <3>3
  <2>2. CASE phase # "stream"
    BY <2>2, FreshIs
  <2> QED
    BY <2>1, <2>2
<1>2. \A c \in Elements(log) \cup Elements(buffer) : c \in Known
  BY DEF Known
<1>3. \A f \in Flusher : \A c \in Flying(f) : c \in Known
  BY DEF Known, Flusher
<1>4. log \in Seq(Chunk) /\ buffer \in Seq(Chunk)
  BY DEF WriterInv, StreamTypes
<1>5. \A f \in Flusher : flight[f].chunks \in Seq(Chunk) /\ flight[f].sent \in Nat
  BY FlightOf DEF WriterInv
<1>6. Fresh.src \notin Stored /\ Fresh.src \notin Waiting
  BY <1>1, <1>2, <1>4, RestIn DEF Stored, Waiting
<1>7. ASSUME NEW f \in Flusher, Fresh.src \in Coming(f)
      PROVE  FALSE
  <2>1. Fresh.src # Report /\ \E c \in Flying(f) : c.src = Fresh.src
    BY <1>5, <1>7, RestIn DEF Coming, Flying
  <2> QED
    BY <1>1, <1>3, <2>1
<1> QED
  BY <1>6, <1>7

LEMMA OnceWrites ==
  ASSUME WriterInv, Numbering, Once, WriteChunk
  PROVE  Once'
<1> DEFINE grown == Append(buffer, Fresh)
<1>1. /\ pc = "write" /\ log' = log /\ failures' = failures
      /\ \/ TakeOff("processor", grown)
         \/ buffer' = grown /\ UNCHANGED flight
  BY DEF WriteChunk, Fresh, trouble
<1>2. /\ ~flight["processor"].on /\ buffer \in Seq(Chunk) /\ Fresh \in Chunk
      /\ "processor" \in Flusher /\ "timer" \in Flusher \ {"processor"}
  BY <1>1, WriteElements DEF WriterInv, StreamTypes, Flights, Flusher
<1>3. /\ grown \in Seq(Chunk) /\ Rest(grown, 0) = Waiting \cup ({Fresh.src} \ {Report})
      /\ Single(buffer, 0) => Single(grown, 0)
  BY <1>2, FreshIsNew, RestOfOne, ElementsOfAppend DEF Waiting
<1> HIDE DEF grown
<1>4. failures = 0 =>
        /\ Single(grown, 0) /\ Rest(grown, 0) \cap Stored = {}
        /\ \A f \in Flusher : Rest(grown, 0) \cap Coming(f) = {}
  BY <1>3, FreshIsNew DEF Once
<1>5. CASE TakeOff("processor", grown)
  BY <1>1, <1>2, <1>3, <1>4, <1>5, OnceTakeOff
<1>6. CASE buffer' = grown /\ UNCHANGED flight
  <2>1. Waiting' = Rest(grown, 0) /\ Stored' = Stored /\ \A f \in Flusher : Coming(f)' = Coming(f)
    BY <1>1, <1>6 DEF Waiting, Stored, Coming
  <2>2. SUFFICES ASSUME failures = 0
                 PROVE  Once'
    BY <1>1 DEF Once
  <2>3. /\ Single(log', 0) /\ Single(buffer', 0)
        /\ \A f \in Flusher : Single(flight'[f].chunks, flight'[f].sent)
    BY <1>1, <1>4, <1>6, <2>2 DEF Once
  <2>4. /\ Stored' \cap Waiting' = {}
        /\ \A f \in Flusher : Coming(f)' \cap Stored' = {} /\ Coming(f)' \cap Waiting' = {}
        /\ Coming("processor")' \cap Coming("timer")' = {}
    BY <1>2, <1>4, <2>1, <2>2 DEF Once
  <2> QED
    BY <2>3, <2>4 DEF Once
<1> QED
  BY <1>1, <1>5, <1>6

LEMMA OnceXAdd ==
  ASSUME NEW f \in Flusher, WriterInv, Once, XAdd(f)
  PROVE  Once'
<1> DEFINE b == flight[f].sent
           s == flight[f].chunks
<1>1. /\ b + 1 \in 1 .. Len(s) /\ s[b + 1] \in Chunk /\ log' = Append(log, s[b + 1])
      /\ flight'[f].chunks = s /\ flight'[f].sent = b + 1
      /\ \A g \in Flusher \ {f} : flight'[g] = flight[g]
      /\ buffer' = buffer /\ failures' = failures
  BY XAddStep
<1>2. s \in Seq(Chunk) /\ b \in Nat /\ log \in Seq(Chunk)
  BY FlightOf DEF WriterInv, StreamTypes
<1>3. Coming(f) = Rest(s, b) /\ Coming(f)' = Rest(s, b + 1)
  BY <1>1 DEF Coming
<1> HIDE DEF b, s
<1>4. /\ Rest(s, b + 1) \subseteq Rest(s, b)
      /\ {s[b + 1].src} \ {Report} \subseteq Rest(s, b)
      /\ Single(s, b) => Single(s, b + 1) /\ s[b + 1].src \notin Rest(s, b + 1)
  BY <1>1, <1>2, RestOfNext
<1>5. /\ Stored' = Stored \cup ({s[b + 1].src} \ {Report})
      /\ Single(log, 0) /\ s[b + 1].src \notin Stored => Single(log', 0)
  BY <1>1, <1>2, RestOfOne DEF Stored
<1>6. Waiting' = Waiting /\ Report \notin Stored
  BY <1>1 DEF Waiting, Stored, Rest
<1>7. ASSUME failures = 0
      PROVE  /\ Single(log', 0) /\ Stored' \subseteq Stored \cup Coming(f)
             /\ Single(buffer', 0) /\ Waiting' \subseteq Waiting
             /\ Single(flight'[f].chunks, flight'[f].sent) /\ Coming(f)' \subseteq Coming(f)
             /\ Coming(f)' \cap Stored' = {}
             /\ \A g \in Flusher \ {f} : flight'[g] = flight[g]
  <2>1. /\ Single(log, 0) /\ Single(buffer, 0) /\ Single(s, b)
        /\ Coming(f) \cap Stored = {}
    BY <1>7 DEF Once, s, b
  <2>2. s[b + 1].src \notin Stored
    BY <1>3, <1>4, <1>6, <2>1
  <2> QED
    BY <1>1, <1>3, <1>4, <1>5, <1>6, <2>1, <2>2
<1> QED
  BY <1>1, <1>7, OnceMoves

LEMMA OnceAbandons ==
  ASSUME NEW f \in Flusher, WriterInv, Once, Abandon(f), buffer' = buffer, failures' = failures
  PROVE  Once'
<1>1. flight'[f] = NoFlight /\ \A g \in Flusher \ {f} : flight'[g] = flight[g]
  BY AbandonStep
<1>2. PICK t \in Seq(Chunk) :
        /\ log' = log \o t /\ Len(t) <= Len(flight[f].chunks) - flight[f].sent
        /\ \A i \in 1 .. Len(t) : t[i] = flight[f].chunks[flight[f].sent + i]
  BY AbandonStep
<1>3. log \in Seq(Chunk) /\ flight[f].chunks \in Seq(Chunk) /\ flight[f].sent \in Nat
  BY FlightOf DEF WriterInv, StreamTypes
<1>4. /\ Rest(t, 0) \subseteq Coming(f)
      /\ Single(flight[f].chunks, flight[f].sent) => Single(t, 0)
  BY <1>2, <1>3, RestOfPart DEF Coming
<1>5. /\ Stored' = Stored \cup Rest(t, 0)
      /\ Single(log, 0) /\ Single(t, 0) /\ Stored \cap Rest(t, 0) = {} => Single(log', 0)
  BY <1>2, <1>3, RestOfConcat DEF Stored
<1>6. Coming(f)' = {} /\ Single(flight'[f].chunks, flight'[f].sent) /\ Waiting' = Waiting
  BY <1>1, NothingComesNext DEF Waiting
<1>7. ASSUME failures = 0
      PROVE  /\ Single(log', 0) /\ Single(buffer', 0)
  BY <1>4, <1>5, <1>7 DEF Once
<1> QED
  BY <1>1, <1>4, <1>5, <1>6, <1>7, OnceMoves

LEMMA OnceStep ==
  ASSUME WriterInv, Numbering, Once, [Next]_vars
  PROVE  Once'
<1>f. /\ "processor" \in Flusher /\ "timer" \in Flusher
      /\ "timer" \in Flusher \ {"processor"} /\ "processor" \in Flusher \ {"timer"}
      /\ buffer \in Seq(Chunk)
  BY DEF Flusher, WriterInv, StreamTypes
<1>1. ASSUME UNCHANGED <<log, writer, flight, timer, processor, trouble>>
      PROVE  Once'
  BY <1>1 DEF Once, Stored, Waiting, Coming, writer, trouble
<1>2. ASSUME NEW f \in Flusher, NEW g \in Flusher \ {f}, ~flight[f].on, TakeOff(f, buffer),
             log' = log, failures' = failures
      PROVE  Once'
  <2>1. failures = 0 =>
          /\ Once /\ Single(buffer, 0)
          /\ Rest(buffer, 0) \cap Stored = {} /\ Rest(buffer, 0) \cap Coming(g) = {}
    BY DEF Once, Waiting
  <2> QED
    BY <1>f, <1>2, <2>1, OnceTakeOff
<1>3. CASE WriteChunk
  BY <1>3, OnceWrites
<1>4. CASE StopTimer
  BY <1>f, <1>4, OnceAbandons DEF StopTimer, writer, trouble
<1>5. CASE FlushRest
  <2>1. /\ ~flight["processor"].on /\ log' = log /\ failures' = failures
    BY <1>5 DEF FlushRest, trouble, WriterInv, Flights
  <2>2. CASE TakeOff("processor", buffer)
    BY <1>f, <1>2, <2>1, <2>2
  <2>3. CASE UNCHANGED <<buffer, flight>>
    BY <2>1, <2>3 DEF Once, Stored, Waiting, Coming
  <2> QED
    BY <1>5, <2>2, <2>3 DEF FlushRest
<1>6. CASE Interrupted
  BY <1>f, <1>6, InterruptedStep, OnceAbandons
<1>7. CASE TimerFlush
  BY <1>f, <1>2, <1>7 DEF TimerFlush, trouble
<1>8. ASSUME NEW f \in Flusher, FlushReturns(f)
      PROVE  Once'
  <2>1. /\ flight'[f] = NoFlight /\ \A g \in Flusher \ {f} : flight'[g] = flight[g]
        /\ buffer' = <<>> \/ buffer' = buffer
        /\ log' = log /\ failures' = failures
    BY <1>8, ReturnsStep
  <2>2. Coming(f)' = {} /\ Single(flight'[f].chunks, flight'[f].sent)
    BY <2>1, NothingComesNext
  <2>3. Stored' = Stored /\ Waiting' \subseteq Waiting
    BY <2>1, RestOfEmpty DEF Stored, Waiting
  <2>4. failures = 0 => Single(log', 0) /\ Single(buffer', 0)
    BY <2>1, RestOfEmpty DEF Once
  <2> QED
    BY <2>1, <2>2, <2>3, <2>4, OnceMoves
<1>9. ASSUME NEW f \in Flusher, FlushRaises(f)
      PROVE  Once'
  <2>1. failures' # 0
    <3>1. failures \in Nat
      BY StreamAssumption DEF WriterInv, StreamTypes
    <3> QED
      BY <1>9, <3>1 DEF FlushRaises
  <2> QED
    BY <2>1 DEF Once
<1>10. ASSUME NEW r \in Reader, ReadBatch(r) \/ Reconnect(r)
       PROVE  Once'
  BY <1>1, <1>10 DEF ReadBatch, Reconnect
<1>11. CASE UNCHANGED vars
  BY <1>1, <1>11 DEF vars
<1>12. ASSUME NEW f \in Flusher, XAdd(f)
       PROVE  Once'
  BY <1>12, OnceXAdd
<1> QED
  BY <1>3, <1>4, <1>5, <1>6, <1>7, <1>8, <1>9, <1>10, <1>11, <1>12 DEF Next, Processor, Flush

LEMMA OnceInit ==
  ASSUME Init
  PROVE  Once
<1>1. log = <<>> /\ buffer = <<>> /\ \A f \in Flusher : flight[f] = NoFlight
  BY DEF Init
<1>2. Stored = {} /\ Waiting = {} /\ Single(log, 0) /\ Single(buffer, 0)
  BY <1>1, RestOfEmpty DEF Stored, Waiting
<1>3. \A f \in Flusher : Coming(f) = {} /\ Single(flight[f].chunks, flight[f].sent)
  BY <1>1, NothingComes
<1> QED
  BY <1>2, <1>3 DEF Once, Flusher

(* Two flushers share the buffer, and one may store in the middle of the    *)
(* other's pipeline: unless a pipeline fails, no chunk is stored twice.     *)
THEOREM StoredOnce == Spec => []NoDuplicateChunk
<1>1. Init => Once
  BY OnceInit
<1>2. WriterInv /\ Numbering /\ Once /\ [Next]_vars => Once'
  BY OnceStep
<1>3. WriterInv /\ Once => NoDuplicateChunk
  <2>1. ASSUME WriterInv
        PROVE  DOMAIN log = 0 + 1 .. Len(log)
    BY <2>1 DEF WriterInv, StreamTypes
  <2> QED
    BY <2>1 DEF Once, Single, NoDuplicateChunk
<1> QED
  BY <1>1, <1>2, <1>3, StreamBase, StreamStored, PTL DEF Spec
====
