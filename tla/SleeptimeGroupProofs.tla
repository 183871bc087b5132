----------------------- MODULE SleeptimeGroupProofs -----------------------
(***************************************************************************)
(* The promises of SleeptimeGroup, for every number of requests, steps and *)
(* compactions:                                                            *)
(*   - GroupKeepsLoop: under a group the loop takes no other steps, so all *)
(*     of AgentLoopProofs holds under one;                                 *)
(*   - GroupTypesCorrect: the types, which bound the counter;              *)
(*   - ReviewedOnce: no message is given to the sleeptime agents twice, if *)
(*     every request takes the lock of the same conversation;              *)
(*   - UserMessagesHandedOver: no message of a user is passed over, but    *)
(*     for the causes the property names, if moreover checkpoints store    *)
(*     what they should.                                                   *)
(* ReviewedOnce needs what a loop reports in every state (Reporting:       *)
(* responses are the run's own, are told apart by their numbers, and the   *)
(* newest is stored last), from which Handed follows: whoever holds the    *)
(* lock stores its messages after all that was handed over before, and the *)
(* id of the last processed message is never before any of that.  The last *)
(* theorem adds Sound: what is reported is stored, and the rows of the run *)
(* that holds the lock are the end of the table.                           *)
(***************************************************************************)
EXTENDS SleeptimeGroup, AgentLoopProofs, WellFoundedInduction

(* A loop or a cancellation goes on, or the group does.                     *)
LEMMA LoopStays ==
  ASSUME [GroupNext]_<<vars, groupVars>>
  PROVE  [Next]_vars
BY DEF GroupNext, Next, groupVars

(* The group watches the loop: whatever the loop promises, it promises      *)
(* under a group.                                                           *)
THEOREM GroupKeepsLoop ==
  GroupSpec => Spec
<1>1. [GroupNext]_<<vars, groupVars>> => [Next]_vars
  BY LoopStays
<1> QED
  BY <1>1, PTL DEF GroupSpec, Spec

-----------------------------------------------------------------------------
(* What a loop reports, and where it is stored.                             *)

Made == {"text", "nudge", "call", "return", "request"}

(* The responses of a run are its own; what it is about to store ends with  *)
(* the newest of them.                                                      *)
ReportOf(r, l) ==
  /\ \A m \in Elements(l.resp) : m.run = r /\ m.kind \in Made \cup {"summary"}
  /\ l.at \in {"step", "llm", "save"} =>
       \A m \in Elements(l.input) : m.run = r /\ m.kind \in {"user", "response"}
  /\ l.at = "save" =>
       /\ \A m \in Elements(l.new) : m.run = r /\ m.kind \in Made /\ m.n = l.n
       /\ Len(l.new) > 0 => Last(l.new) = Last(l.resp)

(* No message that a run has still to make is stored.                       *)
Numbered(r, l, R) ==
  \A m \in Elements(R) : m.run = r =>
    /\ m.kind \in Made => m.n < l.n \/ (m.n = l.n /\ l.at \in {"compact", "next", "done"})
    /\ m.kind = "summary" => m.n < Len(l.resp)
    /\ m.kind # "system" => l.at \notin {"idle", "loaded"}

(* No response is stored after the newest one, once that is stored.         *)
InOrder(l, R) ==
  Last(l.resp) \in Elements(R) =>
    \A i \in DOMAIN R : R[i] \in Elements(l.resp) => \E j \in DOMAIN R : R[j] = Last(l.resp) /\ i <= j

Reports(r, l, R) == ReportOf(r, l) /\ Numbered(r, l, R) /\ InOrder(l, R)

Reporting == \A r \in Req : Reports(r, loop[r], rows)

(* The places of a table that grew.                                         *)
LEMMA TableGrows ==
  ASSUME NEW R \in Log, NEW w \in Log
  PROVE  LET Q == R \o w
         IN /\ Q \in Log /\ DOMAIN R = 1 .. Len(R) /\ Len(R) \in Nat /\ DOMAIN Q = 1 .. Len(Q) /\ Len(Q) \in Nat
            /\ Len(R) <= Len(Q) /\ Elements(Q) = Elements(R) \cup Elements(w)
            /\ \A i \in DOMAIN R : i \in DOMAIN Q /\ Q[i] = R[i] /\ R[i] \in Elements(R)
            /\ \A i \in DOMAIN Q : i \notin DOMAIN R => i > Len(R) /\ Q[i] \in Elements(w)
            /\ Len(w) > 0 => Len(Q) \in DOMAIN Q /\ Q[Len(Q)] = Last(w)
<1> DEFINE Q == R \o w
<1>1. /\ R \in Seq(Message) /\ w \in Seq(Message)
      /\ Q \in Seq(Message) /\ Len(Q) = Len(R) + Len(w)
      /\ Elements(Q) = Elements(R) \cup Elements(w)
      /\ \A i \in 1 .. Len(R) : Q[i] = R[i]
      /\ \A i \in 1 .. Len(w) : Q[Len(R) + i] = w[i]
  BY ElementsOfJoin DEF Log
<1> HIDE DEF Q
<1>2. /\ DOMAIN R = 1 .. Len(R) /\ Len(R) \in Nat /\ DOMAIN Q = 1 .. Len(Q) /\ Len(Q) \in Nat
      /\ DOMAIN w = 1 .. Len(w) /\ Len(w) \in Nat
  BY <1>1
<1>3. \A i \in DOMAIN R : i \in DOMAIN Q /\ Q[i] = R[i] /\ R[i] \in Elements(R)
  BY <1>1, <1>2 DEF Elements
<1>4. ASSUME NEW i \in DOMAIN Q, i \notin DOMAIN R
      PROVE  i > Len(R) /\ Q[i] \in Elements(w)
  <2>1. i > Len(R) /\ i - Len(R) \in 1 .. Len(w) /\ Len(R) + (i - Len(R)) = i
    BY <1>1, <1>2, <1>4
  <2>2. Q[i] = w[i - Len(R)]
    BY <1>1, <2>1
  <2> QED
    BY <1>2, <2>1, <2>2 DEF Elements
<1>5. Len(w) > 0 => Len(Q) \in DOMAIN Q /\ Q[Len(Q)] = Last(w)
  <2>1. ASSUME Len(w) > 0
        PROVE  Len(Q) \in DOMAIN Q /\ Q[Len(Q)] = Last(w)
    <3>1. Len(w) \in 1 .. Len(w) /\ Len(Q) \in 1 .. Len(Q)
      BY <1>1, <1>2, <2>1
    <3> QED
      BY <1>1, <1>2, <3>1 DEF Last
  <2> QED
    BY <2>1
<1>6. Len(R) <= Len(Q) /\ Q \in Log
  BY <1>1, <1>2 DEF Log
<1> QED
  BY <1>1, <1>2, <1>3, <1>4, <1>5, <1>6 DEF Q

(* The messages of another run change nothing for a run.                    *)
LEMMA ReportsOfOthers ==
  ASSUME NEW q, NEW r, q # r, NEW l, NEW R \in Log, NEW w \in Log, \A m \in Elements(w) : m.run = r,
         Reports(q, l, R), l.resp \in Log
  PROVE  Reports(q, l, R \o w)
<1> DEFINE Q == R \o w
<1>1. /\ Elements(Q) = Elements(R) \cup Elements(w)
      /\ \A i \in DOMAIN R : i \in DOMAIN Q /\ Q[i] = R[i]
      /\ \A i \in DOMAIN Q : i \notin DOMAIN R => Q[i] \in Elements(w)
  BY TableGrows
<1> HIDE DEF Q
<1>2. \A m \in Elements(l.resp) : m.run = q
  BY DEF Reports, ReportOf
<1>3. Numbered(q, l, Q)
  BY <1>1 DEF Reports, Numbered
<1>4. InOrder(l, Q)
  <2>1. ASSUME Last(l.resp) \in Elements(Q), NEW i \in DOMAIN Q, Q[i] \in Elements(l.resp)
        PROVE  \E j \in DOMAIN Q : Q[j] = Last(l.resp) /\ i <= j
    <3>1. i \in DOMAIN R /\ R[i] = Q[i]
      BY <1>1, <1>2, <2>1
    <3>2. Last(l.resp) \in Elements(l.resp)
      <4>1. Len(l.resp) # 0
        BY <2>1 DEF Elements, Log
      <4>2. Len(l.resp) \in DOMAIN l.resp
        BY <4>1 DEF Log
      <4> QED
        BY <4>2 DEF Last, Elements
    <3>3. Last(l.resp) \in Elements(R)
      BY <1>1, <1>2, <2>1, <3>2
    <3>4. PICK j \in DOMAIN R : R[j] = Last(l.resp) /\ i <= j
      BY <2>1, <3>1, <3>3 DEF Reports, InOrder
    <3> QED
      BY <1>1, <3>4
  <2> QED
    BY <2>1 DEF InOrder
<1> QED
  BY <1>3, <1>4 DEF Reports, Q

(* A newest response that is not stored is after all others, and so is one  *)
(* that ends the table.                                                     *)
LEMMA NewestLast ==
  ASSUME NEW l, NEW R \in Log, Last(l.resp) \notin Elements(R) \/ (Len(R) > 0 /\ Last(l.resp) = Last(R))
  PROVE  InOrder(l, R)
<1>1. DOMAIN R = 1 .. Len(R) /\ Len(R) \in Nat
  BY DEF Log
<1>2. CASE Len(R) > 0 /\ Last(l.resp) = Last(R)
  <2>1. Len(R) \in DOMAIN R /\ \A i \in DOMAIN R : i <= Len(R)
    BY <1>1, <1>2
  <2> QED
    BY <1>2, <2>1 DEF InOrder, Last
<1>3. CASE Last(l.resp) \notin Elements(R)
  BY <1>3 DEF InOrder
<1> QED
  BY <1>2, <1>3

(* What a step of a loop does to its report.                                *)
ReportStep(r) ==
  /\ \A q \in Req : q # r => loop'[q] = loop[q]
  /\ Reports(r, loop'[r], rows')
  /\ rows' = rows \/ (Active(r) /\ \E w \in Log : rows' = rows \o w /\ \A m \in Elements(w) : m.run = r)

(* A loop that ends without storing.                                        *)
LEMMA ReportFinish ==
  ASSUME NEW r \in Req, Inv, Reporting, NEW stop, Finish(r, stop), UNCHANGED rows
  PROVE  ReportStep(r)
<1>1. /\ loop'[r].at = "done" /\ loop'[r].n = loop[r].n /\ loop'[r].resp = loop[r].resp
      /\ \A q \in Req : q # r => loop'[q] = loop[q]
  BY Finished
<1>2. Reports(r, loop[r], rows)
  BY DEF Reporting
<1>3. Reports(r, loop'[r], rows)
  BY <1>1, <1>2 DEF Reports, ReportOf, Numbered, InOrder
<1> QED
  BY <1>1, <1>3 DEF ReportStep

(* The agent is loaded.                                                     *)
LEMMA ReportLoadAgent ==
  ASSUME NEW r \in Req, Inv, Reporting, LoadAgent(r)
  PROVE  ReportStep(r)
<1> DEFINE here == [loop[r] EXCEPT !.at = "loaded", !.snap = ctx[ThreadOf[r]]]
<1>1. loop[r] \in LoopRecord /\ loop[r].at = "idle" /\ UNCHANGED rows /\ Reports(r, loop[r], rows)
  BY LoopOf DEF LoadAgent, Reporting
<1>2. /\ here.at = "loaded" /\ here.n = loop[r].n /\ here.resp = loop[r].resp /\ DOMAIN here = DOMAIN loop[r]
  BY <1>1 DEF LoopRecord
<1>3. /\ loop'[r].at = "loaded" /\ loop'[r].n = loop[r].n /\ loop'[r].resp = loop[r].resp
      /\ \A q \in Req : q # r => loop'[q] = loop[q]
  <2>1. CASE Upd(r, here)
    BY <1>2, <2>1, After
  <2>2. ASSUME NEW x, NEW v, Upd(r, [here EXCEPT !.target = x.calls, !.verdict = v])
        PROVE  /\ loop'[r].at = "loaded" /\ loop'[r].n = loop[r].n /\ loop'[r].resp = loop[r].resp
               /\ \A q \in Req : q # r => loop'[q] = loop[q]
    <3>1. loop'[r] = [here EXCEPT !.target = x.calls, !.verdict = v] /\ \A p \in Req : p # r => loop'[p] = loop[p]
      BY <2>2, After
    <3>2. loop'[r].at = "loaded" /\ loop'[r].n = loop[r].n /\ loop'[r].resp = loop[r].resp
      BY <1>1, <1>2, <3>1 DEF LoopRecord
    <3> HIDE DEF here
    <3> QED
      BY <3>1, <3>2
  <2> QED
    BY <2>1, <2>2 DEF LoadAgent
<1>4. Reports(r, loop'[r], rows)
  BY <1>1, <1>3 DEF Reports, ReportOf, Numbered, InOrder
<1> QED
  BY <1>1, <1>3, <1>4 DEF ReportStep

(* A turn begins, with nothing reported.                                    *)
LEMMA ReportBegin ==
  ASSUME NEW r \in Req, Inv, Reporting, loop[r].at = "loaded", UNCHANGED rows,
         NEW seen, NEW input, NEW follow, Begin(r, seen, input, follow),
         \A m \in Elements(input) : m.run = r /\ m.kind \in {"user", "response"}
  PROVE  ReportStep(r)
<1>1. /\ loop'[r] = [loop[r] EXCEPT !.at = "step", !.msgs = seen, !.input = input, !.follow = follow]
      /\ \A q \in Req : q # r => loop'[q] = loop[q]
  BY After DEF Begin
<1>2. loop[r] \in LoopRecord /\ Reports(r, loop[r], rows)
  BY LoopOf DEF Reporting
<1>3. loop'[r].at = "step" /\ loop'[r].n = loop[r].n /\ loop'[r].input = input /\ loop'[r].resp = loop[r].resp
  BY <1>1, <1>2 DEF LoopRecord
<1>4. Reports(r, loop'[r], rows)
  BY <1>2, <1>3 DEF Reports, ReportOf, Numbered, InOrder
<1> QED
  BY <1>1, <1>4 DEF ReportStep

(* The input is a message or an answer, of the request itself.              *)
LEMMA ReportPrepare ==
  ASSUME NEW r \in Req, Inv, Reporting, Prepare(r)
  PROVE  ReportStep(r)
<1>1. loop[r].at = "loaded" /\ UNCHANGED rows
  BY DEF Prepare
<1>2. CASE Finish(r, "error")
  BY <1>1, <1>2, ReportFinish
<1>3. ASSUME Begin(r, Seen(r), <<Plain("user", r, 1)>>, FALSE)
      PROVE  ReportStep(r)
  <2>1. PICK w : w = <<Plain("user", r, 1)>> /\ \A m \in Elements(w) : m.kind = "user" /\ m.run = r
    BY UserMessage
  <2> QED
    BY <1>1, <1>3, <2>1, ReportBegin
<1>4. ASSUME Begin(r, Seen(r), <<Msg("response", r, 1, loop[r].target, Denied(r))>>, r \in FollowUps)
      PROVE  ReportStep(r)
  <2>1. PICK u : u = Msg("response", r, 1, loop[r].target, Denied(r))
    OBVIOUS
  <2>2. u.run = r /\ u.kind = "response"
    BY <2>1 DEF Msg
  <2>3. PICK w : w = <<u>>
    OBVIOUS
  <2>4. Elements(w) = {u}
    BY <2>3, OneElement
  <2>5. Begin(r, Seen(r), w, r \in FollowUps)
    BY <1>4, <2>1, <2>3
  <2> QED
    BY <1>1, <2>2, <2>4, <2>5, ReportBegin
<1> QED
  BY <1>2, <1>3, <1>4 DEF Prepare, PrepareMessage, PrepareApproval

(* What a model's reply is made of.                                         *)
LEMMA ReplyMade ==
  ASSUME NEW r \in Req, NEW reply \in Replies
  PROVE  \A m \in Elements(NewMessages(r, reply)) : m.kind \in Made /\ m.n = loop[r].n
<1>1. reply \in Reply
  BY LoopAssumption
<1>2. \A x : Elements(<<x>>) = {x}
  BY OneElement
<1>3. \A x, y : \A m \in Elements(<<x, y>>) : m = x \/ m = y
  BY DEF Elements
<1>4. Elements(<<>>) = {}
  BY NoElements
<1> DEFINE n == loop[r].n
<1>5. ASSUME NEW kind \in Made, NEW calls, NEW denied
      PROVE  Msg(kind, r, n, calls, denied).kind \in Made /\ Msg(kind, r, n, calls, denied).n = n
  BY DEF Msg
<1>6. {"text", "nudge", "call", "return", "request"} \subseteq Made
  BY DEF Made
<1> HIDE DEF n
<1>7. CASE reply \in {"text", "nudge"}
  <2>1. PICK p : p = Plain(IF reply = "text" THEN "text" ELSE "nudge", r, n)
    OBVIOUS
  <2>2. p.kind \in Made /\ p.n = n
    BY <1>5, <1>6, <1>7, <2>1 DEF Plain
  <2>3. NewMessages(r, reply) = <<p>>
    BY <1>7, <2>1 DEF NewMessages, n
  <2> QED
    BY <1>2, <2>2, <2>3 DEF n
<1>8. CASE reply = "noop"
  BY <1>4, <1>8 DEF NewMessages
<1>9. CASE reply \in {"tool", "terminal"}
  <2>1. PICK p, q : p = Msg("call", r, n, {<<r, n, "plain">>}, {}) /\ q = Msg("return", r, n, {<<r, n, "plain">>}, {})
    OBVIOUS
  <2>2. p.kind \in Made /\ p.n = n /\ q.kind \in Made /\ q.n = n
    BY <1>5, <1>6, <2>1
  <2>3. NewMessages(r, reply) = <<p, q>>
    BY <1>9, <2>1 DEF NewMessages, n
  <2> QED
    BY <1>3, <2>2, <2>3 DEF n
<1>10. CASE reply = "gated"
  <2>1. PICK p : p = Msg("request", r, n, {<<r, n, "gated">>}, {})
    OBVIOUS
  <2>2. p.kind \in Made /\ p.n = n
    BY <1>5, <1>6, <2>1
  <2>3. NewMessages(r, reply) = <<p>>
    BY <1>10, <2>1 DEF NewMessages, n
  <2> QED
    BY <1>2, <2>2, <2>3 DEF n
<1>11. CASE reply = "mixed"
  <2>1. PICK p, q : p = Msg("call", r, n, {<<r, n, "plain">>}, {}) /\ q = Msg("request", r, n, {<<r, n, "gated">>}, {})
    OBVIOUS
  <2>2. p.kind \in Made /\ p.n = n /\ q.kind \in Made /\ q.n = n
    BY <1>5, <1>6, <2>1
  <2>3. NewMessages(r, reply) = <<p, q>>
    BY <1>11, <2>1 DEF NewMessages, n
  <2> QED
    BY <1>3, <2>2, <2>3 DEF n
<1> QED
  BY <1>1, <1>7, <1>8, <1>9, <1>10, <1>11 DEF Reply

(* New messages that were never made before join the responses.             *)
LEMMA ReportMade ==
  ASSUME NEW r \in Req, Inv, Reporting, loop[r].at \in {"step", "llm"}, UNCHANGED rows,
         \A q \in Req : q # r => loop'[q] = loop[q],
         NEW w \in Log, \A m \in Elements(w) : m.run = r /\ m.kind \in Made /\ m.n = loop[r].n,
         loop'[r].at = "save", loop'[r].n = loop[r].n, loop'[r].input = loop[r].input,
         loop'[r].new = w, loop'[r].resp = loop[r].resp \o w
  PROVE  ReportStep(r)
<1> DEFINE s == loop[r].resp
<1>1. /\ Reports(r, loop[r], rows) /\ s \in Log /\ rows \in Log
  BY LoopOf DEF Reporting, Inv, Types
<1> HIDE DEF s
<1>2. /\ s \o w \in Log /\ Elements(s \o w) = Elements(s) \cup Elements(w)
      /\ Len(s) \in Nat /\ Len(s \o w) \in Nat /\ Len(s) <= Len(s \o w)
  BY <1>1, TableGrows
<1>3. ReportOf(r, loop'[r])
  <2>1. Len(w) > 0 => Last(s \o w) = Last(w)
    BY <1>1, LastOfJoin DEF Log
  <2> QED
    BY <1>1, <1>2, <2>1 DEF Reports, ReportOf, s
<1>4. Numbered(r, loop'[r], rows)
  <2>1. ASSUME NEW m \in Elements(rows), m.run = r
        PROVE  (m.kind \in Made => m.n < loop[r].n) /\ (m.kind = "summary" => m.n < Len(s \o w))
    <3>1. m.kind = "summary" => m.n < Len(s)
      BY <1>1, <2>1 DEF Reports, Numbered, s
    <3>2. m.n \in Nat
      <4>1. m \in Message
        BY <1>1, <2>1, ElementsOf DEF Log
      <4> QED
        BY <4>1 DEF Message
    <3>3. m.kind \in Made => m.n < loop[r].n
      BY <1>1, <2>1 DEF Reports, Numbered
    <3> QED
      BY <1>2, <3>1, <3>2, <3>3
  <2> QED
    BY <2>1 DEF Numbered, s
<1>5. InOrder(loop'[r], rows)
  <2>1. CASE Len(w) > 0
    <3>1. Last(s \o w) = Last(w)
      BY <1>1, <2>1, LastOfJoin DEF Log
    <3>2. Last(w) \in Elements(w)
      BY <2>1 DEF Last, Elements, Log
    <3>3. \A m \in Elements(rows) : m.run = r /\ m.kind \in Made => m.n < loop[r].n
      BY <1>1 DEF Reports, Numbered
    <3>4. loop[r].n \in Nat
      BY LoopOf
    <3>5. Last(w) \notin Elements(rows)
      BY <3>2, <3>3, <3>4
    <3> QED
      BY <1>1, <3>1, <3>5, NewestLast DEF s
  <2>2. CASE ~(Len(w) > 0)
    <3>1. w = <<>>
      BY <2>2 DEF Log
    <3>2. s \o w = s
      BY <1>1, <3>1 DEF Log
    <3> QED
      BY <1>1, <3>2 DEF Reports, InOrder, s
  <2> QED
    BY <2>1, <2>2
<1> QED
  BY <1>3, <1>4, <1>5 DEF ReportStep, Reports

(* The result of an answered request.                                       *)
LEMMA ReportAnswer ==
  ASSUME NEW r \in Req, Inv, Reporting, AnswerStep(r)
  PROVE  ReportStep(r)
<1>1. /\ loop[r].at = "step" /\ Answering(r) /\ UNCHANGED rows
      /\ loop'[r].at = "save" /\ loop'[r].n = loop[r].n /\ loop'[r].input = loop[r].input
      /\ loop'[r].new = <<Result(r)>> /\ loop'[r].resp = Append(loop[r].resp, Result(r))
      /\ \A q \in Req : q # r => loop'[q] = loop[q]
  BY Answer
<1>2. Result(r) \in Message /\ Result(r).kind = "return" /\ Result(r).run = r
  BY <1>1, AnswerFacts
<1>3. Result(r).n = loop[r].n
  BY DEF Result, Msg
<1>4. PICK w \in Seq(Message) : w = <<Result(r)>> /\ Elements(w) = {Result(r)}
  BY <1>2, OneElement
<1>5. Append(loop[r].resp, Result(r)) = loop[r].resp \o w
  BY <1>2, <1>4, LoopOf DEF Log
<1>6. \A m \in Elements(w) : m.run = r /\ m.kind \in Made /\ m.n = loop[r].n
  BY <1>2, <1>3, <1>4 DEF Made
<1>7. w \in Log /\ loop'[r].new = w /\ loop'[r].resp = loop[r].resp \o w
  BY <1>1, <1>4, <1>5 DEF Log
<1> QED
  BY <1>1, <1>6, <1>7, ReportMade

(* The reply of the model.                                                  *)
LEMMA ReportReplies ==
  ASSUME NEW r \in Req, Inv, Reporting, ModelReplies(r)
  PROVE  ReportStep(r)
<1>1. PICK reply \in Replies :
        /\ loop[r].at = "llm" /\ UNCHANGED rows
        /\ loop'[r].at = "save" /\ loop'[r].n = loop[r].n /\ loop'[r].input = loop[r].input
        /\ loop'[r].new = NewMessages(r, reply) /\ loop'[r].resp = loop[r].resp \o NewMessages(r, reply)
        /\ \A q \in Req : q # r => loop'[q] = loop[q]
  BY ReplyStored
<1> DEFINE w == NewMessages(r, reply)
<1>2. Good(loop[r].msgs) /\ Closed(loop[r].msgs) /\ loop[r].n \in 1 .. MaxSteps
  BY <1>1, LoopOf DEF LoopOK
<1>3. w \in Log /\ \A m \in Elements(w) : m.run = r
  <2>1. PICK s : Good(s) /\ Closed(s)
    BY <1>2
  <2>2. /\ w \in Seq(Message)
        /\ \A m \in Elements(w) : m.run = r /\ m.calls \subseteq StepCalls(r, loop[r].n)
    BY <1>2, <2>1, Replied
  <2> QED
    BY <2>2 DEF Log
<1>4. \A m \in Elements(w) : m.kind \in Made /\ m.n = loop[r].n
  BY ReplyMade
<1>5. loop'[r].new = w /\ loop'[r].resp = loop[r].resp \o w
  BY <1>1
<1> HIDE DEF w
<1> QED
  BY <1>1, <1>3, <1>4, <1>5, ReportMade

(* The loop asks the model.                                                 *)
LEMMA ReportAskModel ==
  ASSUME NEW r \in Req, Inv, Reporting, AskModel(r)
  PROVE  ReportStep(r)
<1>1. PICK s : s = Current(r)
  OBVIOUS
<1>2. /\ loop[r].at = "step" /\ UNCHANGED rows
      /\ Upd(r, [loop[r] EXCEPT !.at = "llm", !.msgs = s, !.tries = 0])
  BY <1>1 DEF AskModel
<1>3. /\ loop'[r] = [loop[r] EXCEPT !.at = "llm", !.msgs = s, !.tries = 0]
      /\ \A q \in Req : q # r => loop'[q] = loop[q]
  BY <1>2, After
<1>4. loop[r] \in LoopRecord /\ Reports(r, loop[r], rows)
  BY LoopOf DEF Reporting
<1>5. /\ loop'[r].at = "llm" /\ loop'[r].n = loop[r].n /\ loop'[r].input = loop[r].input
      /\ loop'[r].resp = loop[r].resp
  BY <1>3, <1>4 DEF LoopRecord
<1>6. Reports(r, loop'[r], rows)
  BY <1>2, <1>4, <1>5 DEF Reports, ReportOf, Numbered, InOrder
<1> QED
  BY <1>2, <1>3, <1>6 DEF ReportStep

(* A summary is the newest response, stored or not.                         *)
LEMMA ReportCompaction ==
  ASSUME NEW r \in Req, Inv, Reporting, NEW back, Compacts(r, back),
         (loop[r].at = "llm" /\ back = "llm") \/ (loop[r].at = "compact" /\ back = "next")
  PROVE  ReportStep(r)
<1> DEFINE u == Summary(r)
           s == loop[r].resp
<1>1. /\ Reports(r, loop[r], rows) /\ s \in Log /\ rows \in Log
  BY LoopOf DEF Reporting, Inv, Types
<1>2. u \in Message /\ u.kind = "summary" /\ u.run = r /\ u.n = Len(s)
  BY <1>1, SummaryOf DEF Summary, Plain, Msg
<1>3. /\ \A q \in Req : q # r => loop'[q] = loop[q]
      /\ loop'[r].n = loop[r].n /\ loop'[r].input = loop[r].input
      /\ loop'[r].at \in {back, "done"}
      /\ \/ loop'[r].resp = s /\ rows' = rows
         \/ loop'[r].resp = Append(s, u) /\ (rows' = rows \/ rows' = rows \o <<u>>)
  BY DEF Compacts
<1>4. Active(r)
  BY DEF Active
<1> HIDE DEF u, s
<1>5. PICK w \in Log : w = <<u>> /\ Elements(w) = {u} /\ Len(w) = 1 /\ w[1] = u
  <2>1. PICK w \in Seq(Message) : w = <<u>>
    BY <1>2, OneElement
  <2> QED
    BY <1>2, <2>1, OneElement DEF Log
<1>6. /\ Append(s, u) = s \o w /\ s \o w \in Log /\ Elements(s \o w) = Elements(s) \cup {u}
      /\ Len(s \o w) = Len(s) + 1 /\ Len(s) \in Nat /\ Last(s \o w) = u
  <2>1. Append(s, u) = s \o w /\ Len(s \o w) = Len(s) + 1 /\ Len(s) \in Nat
    BY <1>1, <1>2, <1>5 DEF Log
  <2>2. Last(s \o w) = Last(w) /\ Last(w) = u
    BY <1>1, <1>5, LastOfJoin DEF Log, Last
  <2>3. s \o w \in Log /\ Elements(s \o w) = Elements(s) \cup Elements(w)
    BY <1>1, TableGrows
  <2> QED
    BY <1>5, <2>1, <2>2, <2>3
<1>7. CASE loop'[r].resp = s /\ rows' = rows
  <2>1. Reports(r, loop'[r], rows)
    BY <1>1, <1>3, <1>7 DEF Reports, ReportOf, Numbered, InOrder, s
  <2> QED
    BY <1>3, <1>7, <2>1 DEF ReportStep
<1>8. ASSUME loop'[r].resp = s \o w, NEW Q \in Log, Elements(Q) \subseteq Elements(rows) \cup {u},
             Q = rows \/ (Len(Q) > 0 /\ Last(Q) = u)
      PROVE  Reports(r, loop'[r], Q)
  <2>1. ReportOf(r, loop'[r])
    BY <1>1, <1>2, <1>3, <1>6, <1>8 DEF Reports, ReportOf, s
  <2>2. Numbered(r, loop'[r], Q)
    <3>1. ASSUME NEW m \in Elements(rows), m.run = r
          PROVE  /\ m.kind \in Made => m.n < loop[r].n \/ (m.n = loop[r].n /\ loop[r].at = "compact")
                 /\ m.kind = "summary" => m.n < Len(s) + 1
      <4>1. m.n \in Nat
        <5>1. m \in Message
          BY <1>1, <3>1, ElementsOf DEF Log
        <5> QED
          BY <5>1 DEF Message
      <4>2. m.kind = "summary" => m.n < Len(s)
        BY <1>1, <3>1 DEF Reports, Numbered, s
      <4>3. m.kind \in Made => m.n < loop[r].n \/ (m.n = loop[r].n /\ loop[r].at = "compact")
        BY <1>1, <3>1 DEF Reports, Numbered
      <4> QED
        BY <1>6, <4>1, <4>2, <4>3
    <3>2. u.kind \notin Made /\ u.n < Len(s) + 1
      BY <1>2, <1>6 DEF Made
    <3> QED
      BY <1>2, <1>3, <1>6, <1>8, <3>1, <3>2 DEF Numbered
  <2>3. InOrder(loop'[r], Q)
    <3>1. u \notin Elements(rows)
      <4>1. \A m \in Elements(rows) : m.run = r /\ m.kind = "summary" => m.n < Len(s)
        BY <1>1 DEF Reports, Numbered, s
      <4> QED
        BY <1>2, <1>6, <4>1
    <3> QED
      BY <1>6, <1>8, <3>1, NewestLast
  <2> QED
    BY <2>1, <2>2, <2>3 DEF Reports
<1>9. CASE loop'[r].resp = Append(s, u) /\ rows' = rows
  <2>1. Reports(r, loop'[r], rows)
    BY <1>1, <1>6, <1>8, <1>9
  <2> QED
    BY <1>3, <1>9, <2>1 DEF ReportStep
<1>10. CASE loop'[r].resp = Append(s, u) /\ rows' = rows \o <<u>>
  <2> DEFINE Q == rows \o w
  <2>1. Q \in Log /\ Elements(Q) = Elements(rows) \cup {u} /\ Len(Q) \in DOMAIN Q /\ Q[Len(Q)] = u /\ DOMAIN Q = 1 .. Len(Q) /\ Len(Q) \in Nat
    <3>1. Last(w) = u /\ Len(w) > 0
      BY <1>5 DEF Last
    <3>2. /\ Q \in Log /\ Elements(Q) = Elements(rows) \cup Elements(w) /\ DOMAIN Q = 1 .. Len(Q) /\ Len(Q) \in Nat
          /\ Len(w) > 0 => Len(Q) \in DOMAIN Q /\ Q[Len(Q)] = Last(w)
      BY <1>1, TableGrows
    <3> QED
      BY <1>5, <3>1, <3>2
  <2>2. rows' = Q
    BY <1>5, <1>10
  <2> HIDE DEF Q
  <2>3. Reports(r, loop'[r], Q)
    BY <1>6, <1>8, <1>10, <2>1 DEF Last
  <2>4. \A m \in Elements(w) : m.run = r
    BY <1>2, <1>5
  <2> QED
    BY <1>3, <1>4, <2>2, <2>3, <2>4 DEF ReportStep, Q
<1> QED
  BY <1>3, <1>5, <1>7, <1>9, <1>10

(* A checkpoint stores input and new messages, the newest response last.    *)
LEMMA ReportStores ==
  ASSUME NEW r \in Req, Inv, Reporting, loop[r].at = "save",
         rows' = rows \o (loop[r].input \o loop[r].new),
         loop'[r].at \in {"next", "compact", "done"}, loop'[r].n = loop[r].n, loop'[r].resp = loop[r].resp,
         \A q \in Req : q # r => loop'[q] = loop[q]
  PROVE  ReportStep(r)
<1> DEFINE v == loop[r].input
           w == loop[r].new
           s == loop[r].resp
           x == v \o w
           Q == rows \o x
<1>1. /\ Reports(r, loop[r], rows) /\ rows \in Log /\ v \in Log /\ w \in Log /\ s \in Log
  BY LoopOf DEF Reporting, Inv, Types
<1>2. /\ \A m \in Elements(v) : m.run = r /\ m.kind \in {"user", "response"}
      /\ \A m \in Elements(w) : m.run = r /\ m.kind \in Made /\ m.n = loop[r].n
      /\ Len(w) > 0 => Last(w) = Last(s)
      /\ \A m \in Elements(s) : m.kind \in Made \cup {"summary"}
  BY <1>1 DEF Reports, ReportOf
<1>3. rows' = Q /\ loop'[r].resp = s
  OBVIOUS
<1> HIDE DEF v, w, s
<1>4. x \in Log /\ Elements(x) = Elements(v) \cup Elements(w) /\ (Len(w) > 0 => Len(x) > 0 /\ Last(x) = Last(w))
  <2>1. x \in Log /\ Elements(x) = Elements(v) \cup Elements(w) /\ Len(x) = Len(v) + Len(w)
    BY <1>1, ElementsOfJoin DEF Log
  <2>2. Len(w) > 0 => Last(x) = Last(w)
    BY <1>1, LastOfJoin DEF Log
  <2>3. Len(w) \in Nat /\ Len(v) \in Nat
    BY <1>1 DEF Log
  <2> QED
    BY <2>1, <2>2, <2>3
<1> HIDE DEF x
<1>5. /\ Q \in Log /\ DOMAIN Q = 1 .. Len(Q) /\ Len(Q) \in Nat /\ Elements(Q) = Elements(rows) \cup Elements(x)
      /\ \A i \in DOMAIN rows : i \in DOMAIN Q /\ Q[i] = rows[i]
      /\ \A i \in DOMAIN Q : i \notin DOMAIN rows => Q[i] \in Elements(x)
      /\ Len(x) > 0 => Len(Q) \in DOMAIN Q /\ Q[Len(Q)] = Last(x)
  BY <1>1, <1>4, TableGrows
<1> HIDE DEF Q
<1>6. ReportOf(r, loop'[r])
  BY <1>1, <1>3 DEF Reports, ReportOf, s
<1>7. Numbered(r, loop'[r], Q)
  <2>1. \A m \in Elements(rows) : m.run = r => (m.kind \in Made => m.n < loop[r].n) /\ (m.kind = "summary" => m.n < Len(s))
    BY <1>1 DEF Reports, Numbered, s
  <2>2. \A m \in Elements(x) : m.kind # "summary" /\ (m.kind \in Made => m.n = loop[r].n)
    BY <1>2, <1>4 DEF Made
  <2> QED
    BY <1>3, <1>5, <2>1, <2>2 DEF Numbered
<1>8. InOrder(loop'[r], Q)
  <2>1. CASE Len(w) > 0
    <3>1. Len(Q) > 0 /\ Last(Q) = Last(s)
      BY <1>2, <1>4, <1>5, <2>1 DEF Last
    <3> QED
      BY <1>3, <1>5, <3>1, NewestLast
  <2>2. CASE ~(Len(w) > 0)
    <3>1. Elements(w) = {}
      BY <1>1, <2>2 DEF Elements, Log
    <3>2. \A m \in Elements(x) : m \notin Elements(s)
      BY <1>2, <1>4, <3>1 DEF Made
    <3>3. ASSUME Last(s) \in Elements(Q), NEW i \in DOMAIN Q, Q[i] \in Elements(s)
          PROVE  \E j \in DOMAIN Q : Q[j] = Last(s) /\ i <= j
      <4>1. i \in DOMAIN rows /\ rows[i] = Q[i]
        BY <1>5, <3>2, <3>3
      <4>2. Last(s) \in Elements(s)
        <5>1. Len(s) \in DOMAIN s
          BY <1>1, <3>3 DEF Elements, Log
        <5> QED
          BY <5>1 DEF Last, Elements
      <4>3. Last(s) \in Elements(rows)
        BY <1>5, <3>2, <3>3, <4>2
      <4>4. PICK j \in DOMAIN rows : rows[j] = Last(s) /\ i <= j
        BY <1>1, <3>3, <4>1, <4>3 DEF Reports, InOrder, s
      <4> QED
        BY <1>5, <4>4
    <3> QED
      BY <1>3, <3>3 DEF InOrder
  <2> QED
    BY <2>1, <2>2
<1>9. Reports(r, loop'[r], Q) /\ Active(r)
  BY <1>6, <1>7, <1>8 DEF Reports, Active
<1>10. \A m \in Elements(x) : m.run = r
  BY <1>2, <1>4
<1> QED
  BY <1>3, <1>4, <1>9, <1>10 DEF ReportStep, Q

(* The step is stored, or its checkpoint fails.                             *)
LEMMA ReportSave ==
  ASSUME NEW r \in Req, Inv, Reporting, Save(r) \/ SaveFails(r)
  PROVE  ReportStep(r)
<1>1. CASE Save(r)
  <2>1. /\ loop[r].at = "save" /\ loop'[r].at \in {"next", "compact"} /\ loop'[r].n = loop[r].n
        /\ loop'[r].resp = loop[r].resp /\ rows' = rows \o (loop[r].input \o loop[r].new)
        /\ \A q \in Req : q # r => loop'[q] = loop[q]
    BY <1>1, Saved
  <2> QED
    BY <2>1, ReportStores
<1>2. CASE SaveFails(r)
  <2>1. loop[r].at = "save" /\ (rows' = rows \/ rows' = rows \o (loop[r].input \o loop[r].new))
    BY <1>2 DEF SaveFails, CheckpointFails
  <2>2. PICK stop : Finish(r, stop)
    BY <1>2 DEF SaveFails, FinishSwallowing
  <2>3. /\ loop'[r].at = "done" /\ loop'[r].n = loop[r].n /\ loop'[r].resp = loop[r].resp
        /\ \A q \in Req : q # r => loop'[q] = loop[q]
    BY <2>2, Finished
  <2>4. CASE rows' = rows
    BY <2>2, <2>4, ReportFinish
  <2>5. CASE rows' = rows \o (loop[r].input \o loop[r].new)
    BY <2>1, <2>3, <2>5, ReportStores
  <2> QED
    BY <2>1, <2>4, <2>5
<1> QED
  BY <1>1, <1>2

(* The loop goes on to another step.                                        *)
LEMMA ReportNextStep ==
  ASSUME NEW r \in Req, Inv, Reporting, NextStep(r)
  PROVE  ReportStep(r)
<1>1. UNCHANGED rows /\ Reports(r, loop[r], rows)
  BY DEF NextStep, Reporting
<1>2. ASSUME NEW stop, Finish(r, stop)
      PROVE  ReportStep(r)
  BY <1>1, <1>2, ReportFinish
<1>3. CASE ~\E stop : Finish(r, stop)
  <2>1. /\ loop[r].at = "next" /\ loop'[r].at = "step" /\ loop'[r].n = loop[r].n + 1
        /\ loop'[r].resp = loop[r].resp
        /\ \A m \in Elements(loop'[r].input) : m.run = r /\ m.kind = "user"
        /\ \A q \in Req : q # r => loop'[q] = loop[q]
    BY <1>3, Proceeds
  <2>2. ReportOf(r, loop'[r]) /\ InOrder(loop'[r], rows)
    BY <1>1, <2>1 DEF Reports, ReportOf, InOrder
  <2>3. Numbered(r, loop'[r], rows)
    <3>1. ASSUME NEW m \in Elements(rows), m.run = r, m.kind \in Made
          PROVE  m.n < loop[r].n + 1
      <4>1. rows \in Log /\ loop[r].n \in Nat
        BY LoopOf DEF Inv, Types
      <4>2. m \in Message
        BY <4>1, ElementsOf DEF Log
      <4>3. m.n \in Nat
        BY <4>2 DEF Message
      <4>4. m.n < loop[r].n \/ m.n = loop[r].n
        BY <1>1, <3>1 DEF Reports, Numbered
      <4> QED
        BY <4>1, <4>3, <4>4
    <3> QED
      BY <1>1, <2>1, <3>1 DEF Reports, Numbered
  <2> QED
    BY <1>1, <2>1, <2>2, <2>3 DEF ReportStep, Reports
<1> QED
  BY <1>2, <1>3

(* Every action of a loop is such a step.                                   *)
LEMMA ReportLoop ==
  ASSUME NEW r \in Req, Inv, Reporting, Loop(r)
  PROVE  ReportStep(r)
<1>1. ASSUME NEW stop, Finish(r, stop), UNCHANGED <<ctx, rows>>
      PROVE  ReportStep(r)
  BY <1>1, ReportFinish
<1>2. CASE LoadAgent(r)
  BY <1>2, ReportLoadAgent
<1>3. CASE Refused(r)
  BY <1>1, <1>3 DEF Refused
<1>4. CASE Prepare(r)
  BY <1>4, ReportPrepare
<1>5. CASE AnswerStep(r)
  BY <1>5, ReportAnswer
<1>6. CASE SeeCancel(r)
  BY <1>1, <1>6 DEF SeeCancel
<1>7. CASE AskModel(r)
  BY <1>7, ReportAskModel
<1>8. CASE ModelReplies(r)
  BY <1>8, ReportReplies
<1>9. CASE ModelFails(r)
  BY <1>1, <1>9 DEF ModelFails
<1>10. CASE Overflow(r)
  BY <1>10, OverflowCompacts, ReportCompaction
<1>11. CASE Save(r) \/ SaveFails(r)
  BY <1>11, ReportSave
<1>12. CASE CompactAfterStep(r)
  BY <1>12, CompactAfterStepCompacts, ReportCompaction
<1>13. CASE NextStep(r)
  BY <1>13, ReportNextStep
<1>14. CASE Abandoned(r)
  BY <1>1, <1>14 DEF Abandoned
<1>15. CASE Crash(r)
  BY <1>1, <1>15 DEF Crash
<1> QED
  BY <1>2, <1>3, <1>4, <1>5, <1>6, <1>7, <1>8, <1>9, <1>10, <1>11, <1>12, <1>13, <1>14, <1>15 DEF Loop

(* The reports of all runs are in order in every reachable state.           *)
LEMMA ReportingHolds ==
  ASSUME Guarded
  PROVE  Spec => []Reporting
<1>1. Init => Reporting
  <2>1. ASSUME Init, NEW r \in Req
        PROVE  Reports(r, loop[r], rows)
    <3>1. /\ loop[r].at = "idle" /\ loop[r].resp = <<>> /\ rows = <<System>>
      BY <2>1 DEF Init
    <3>2. Elements(<<>>) = {} /\ Elements(<<System>>) = {System} /\ System.run = NoRun
      BY DEF Elements, System, Plain, Msg
    <3>3. System.kind = "system"
      BY DEF System, Plain, Msg
    <3>4. ReportOf(r, loop[r])
      BY <3>1, <3>2 DEF ReportOf
    <3>5. InOrder(loop[r], rows)
      <4>1. \A i \in DOMAIN rows : rows[i] \notin Elements(loop[r].resp)
        BY <3>1, <3>2
      <4> QED
        BY <4>1 DEF InOrder
    <3>6. Numbered(r, loop[r], rows)
      BY <3>1, <3>2, <3>3 DEF Numbered, Made
    <3> QED
      BY <3>4, <3>5, <3>6 DEF Reports
  <2> QED
    BY <2>1 DEF Reporting
<1>2. Inv /\ Apart /\ Reporting /\ [Next]_vars => Reporting'
  <2>1. ASSUME Inv, Reporting, NEW r \in Req, Loop(r)
        PROVE  Reporting'
    <3>1. ReportStep(r)
      BY <2>1, ReportLoop
    <3>2. ASSUME NEW q \in Req, q # r
          PROVE  Reports(q, loop'[q], rows')
      <4>1. Reports(q, loop[q], rows) /\ loop[q].resp \in Log /\ rows \in Log /\ loop'[q] = loop[q]
        BY <2>1, <3>1, <3>2, LoopOf DEF Reporting, ReportStep, Inv, Types
      <4>2. ASSUME NEW w \in Log, rows' = rows \o w, \A m \in Elements(w) : m.run = r
            PROVE  Reports(q, loop'[q], rows')
        BY <3>2, <4>1, <4>2, ReportsOfOthers
      <4> QED
        BY <3>1, <4>1, <4>2 DEF ReportStep
    <3> QED
      BY <3>1, <3>2 DEF ReportStep, Reporting
  <2>2. ASSUME Inv, Apart, Reporting, NEW r \in Req, Cancellation(r)
        PROVE  Reporting'
    BY <2>2, ApartCancellation DEF Reporting
  <2>3. ASSUME Reporting, UNCHANGED vars
        PROVE  Reporting'
    BY <2>3 DEF vars, Reporting
  <2> QED
    BY <2>1, <2>2, <2>3 DEF Next
<1> QED
  BY <1>1, <1>2, InvHolds, ApartHolds, PTL DEF Spec

-----------------------------------------------------------------------------
(* The types of the group's state.                                          *)

(* Every set of numbers that is not empty has a least element.              *)
LEMMA LeastElement ==
  ASSUME NEW S \in SUBSET Nat, S # {}
  PROVE  \E m \in S : \A n \in S : m <= n
<1>1. IsWellFoundedOn(OpToRel(<, Nat), Nat)
  BY NatLessThanWellFounded
<1>2. PICK m \in S : \A n \in S : <<n, m>> \notin OpToRel(<, Nat)
  BY <1>1, WFMin
<1>3. \A n \in S : ~(n < m)
  BY <1>2 DEF OpToRel
<1> QED
  BY <1>3

(* The first and the last of some places of a table.                        *)
LEMMA FirstAndLast ==
  ASSUME NEW n \in Nat, NEW S \in SUBSET (1 .. n), S # {}
  PROVE  /\ Min(S) \in S /\ \A i \in S : Min(S) <= i
         /\ Max(S) \in S /\ \A i \in S : i <= Max(S)
<1>1. S \subseteq Nat
  OBVIOUS
<1>2. PICK m \in S : \A i \in S : m <= i
  BY <1>1, LeastElement
<1> DEFINE T == {n - i : i \in S}
<1>3. T \subseteq Nat /\ T # {}
  OBVIOUS
<1>4. PICK d \in T : \A e \in T : d <= e
  BY <1>3, LeastElement
<1>5. PICK x \in S : d = n - x
  OBVIOUS
<1>6. \A i \in S : i <= x
  <2>1. ASSUME NEW i \in S
        PROVE  i <= x
    <3>1. n - x <= n - i
      BY <1>4, <1>5
    <3> QED
      BY <1>1, <3>1
  <2> QED
    BY <2>1
<1>7. Min(S) \in S /\ \A i \in S : Min(S) <= i
  BY <1>2 DEF Min
<1>8. Max(S) \in S /\ \A i \in S : Max(S) >= i
  <2>1. \A i \in S : x >= i
    BY <1>1, <1>6
  <2> QED
    BY <2>1 DEF Max
<1> QED
  BY <1>1, <1>7, <1>8

(* Nobody deletes a row.                                                    *)
LEMMA TableStays ==
  ASSUME Inv, [Next]_vars
  PROVE  DOMAIN rows \subseteq DOMAIN rows'
<1>1. rows \in Log
  BY DEF Inv, Types
<1>2. ASSUME NEW w \in Log, rows' = rows \o w
      PROVE  DOMAIN rows \subseteq DOMAIN rows'
  BY <1>1, <1>2, TableGrows
<1>3. ASSUME NEW r \in Req, rows' = rows \o <<Summary(r)>>
      PROVE  DOMAIN rows \subseteq DOMAIN rows'
  <2>1. Summary(r) \in Message
    BY LoopOf, SummaryOf
  <2> QED
    BY <1>2, <1>3, <2>1 DEF Log
<1>4. ASSUME NEW r \in Req, rows' = rows \o (loop[r].input \o loop[r].new)
      PROVE  DOMAIN rows \subseteq DOMAIN rows'
  <2>1. loop[r].input \o loop[r].new \in Log
    BY LoopOf DEF Log
  <2> QED
    BY <1>2, <1>4, <2>1
<1>5. ASSUME NEW r \in Req, Loop(r)
      PROVE  DOMAIN rows \subseteq DOMAIN rows'
  <2>1. CASE Overflow(r)
    BY <1>3, <2>1, OverflowCompacts DEF Compacts
  <2>2. CASE CompactAfterStep(r)
    BY <1>3, <2>2, CompactAfterStepCompacts DEF Compacts
  <2>3. CASE Save(r)
    BY <1>4, <2>3, Saved
  <2>4. CASE SaveFails(r)
    BY <1>4, <2>4 DEF SaveFails, CheckpointFails
  <2>5. CASE ~(Overflow(r) \/ CompactAfterStep(r) \/ Save(r) \/ SaveFails(r))
    <3>1. UNCHANGED rows
      BY <1>5, <2>5 DEF Loop, LoadAgent, Refused, Prepare, AnswerStep, SeeCancel, AskModel, ModelReplies,
         ModelFails, NextStep, Abandoned, Crash
    <3> QED
      BY <3>1
  <2> QED
    BY <2>1, <2>2, <2>3, <2>4, <2>5
<1>6. ASSUME NEW r \in Req, Cancellation(r)
      PROVE  DOMAIN rows \subseteq DOMAIN rows'
  <2>1. PICK x, y : rows' = rows \/ rows' = rows \o <<x, y>>
    BY <1>6 DEF Cancellation, CancelReads, CancelWrites, CancelDenies
  <2>2. CASE rows' = rows \o <<x, y>>
    <3>1. Len(rows') = Len(rows) + 2 /\ Len(rows) \in Nat /\ DOMAIN rows = 1 .. Len(rows) /\ DOMAIN rows' = 1 .. Len(rows')
      BY <1>1, <2>2 DEF Log
    <3> QED
      BY <3>1
  <2> QED
    BY <2>1, <2>2
<1> QED
  BY <1>5, <1>6 DEF Next, vars

GroupPoint == {"stream", "bump", "due", "claim", "task", "lost", "over"}
GroupRecord == [at : GroupPoint, read : -1 .. Frequency, after : Int]
Places(R) == {NoRow, NoMessage} \cup DOMAIN R

GroupTypes ==
  /\ group \in [Req -> GroupRecord] /\ transcript \in [Req -> SUBSET Nat]
  /\ counter \in -1 .. Frequency /\ (Frequency > 0 => counter < Frequency)
  /\ anchor \in Places(rows)
  /\ \A r \in Req :
       /\ group[r].after \in Places(rows) /\ transcript[r] \subseteq DOMAIN rows
       /\ group[r].at = "bump" => Frequency > 0

(* The places an id may name, or a transcript.                              *)
LEMMA PlacesTaken ==
  ASSUME Inv, NEW r
  PROVE  /\ DOMAIN rows \subseteq Nat /\ Places(rows) \subseteq Int
         /\ Newest(r) \in Places(rows)
         /\ Prior(r) \cup Responses(r) \subseteq DOMAIN rows
<1>1. DOMAIN rows = 1 .. Len(rows) /\ Len(rows) \in Nat
  BY DEF Inv, Types, Log
<1>2. Newest(r) \in Places(rows)
  <2> DEFINE here == RowsOf(Last(loop[r].resp))
  <2>1. CASE here = {}
    BY <2>1 DEF Newest, Places
  <2>2. CASE here # {}
    <3>1. here \in SUBSET (1 .. Len(rows))
      BY <1>1 DEF RowsOf
    <3> HIDE DEF here
    <3>2. Max(here) \in here
      BY <1>1, <2>2, <3>1, FirstAndLast
    <3>3. Newest(r) = Max(here)
      BY <2>2 DEF Newest, here
    <3> QED
      BY <1>1, <3>1, <3>2, <3>3 DEF Places
  <2> QED
    BY <2>1, <2>2
<1>3. Prior(r) \subseteq DOMAIN rows
  BY DEF Prior, Listable, Between
<1>4. Responses(r) \subseteq DOMAIN rows
  BY DEF Responses, RowsOf
<1>5. DOMAIN rows \subseteq Nat /\ Places(rows) \subseteq Int
  BY <1>1 DEF Places, NoRow, NoMessage
<1> QED
  BY <1>2, <1>3, <1>4, <1>5

(* The counter that is written back is below the frequency.                 *)
LEMMA BumpedBelow ==
  ASSUME NEW n \in -1 .. Frequency, Frequency > 0
  PROVE  Bumped(n) \in 0 .. Frequency - 1
BY GroupAssumption DEF Bumped

(* What a step of the group does to the record of its request.              *)
LEMMA Moved ==
  ASSUME GroupTypes, NEW r \in Req, NEW f, Move(r, f)
  PROVE  group'[r] = f /\ \A q \in Req : q # r => group'[q] = group[q]
BY DEF GroupTypes, Move

(* A record of the group, changed.                                          *)
LEMMA MovedRecord ==
  ASSUME GroupTypes, NEW r \in Req, NEW at \in GroupPoint
  PROVE  /\ group[r] \in GroupRecord
         /\ [group[r] EXCEPT !.at = at] \in GroupRecord
         /\ [group[r] EXCEPT !.at = at].after = group[r].after
         /\ [group[r] EXCEPT !.at = at].at = at
         /\ [group[r] EXCEPT !.at = at, !.read = counter] \in GroupRecord
         /\ [group[r] EXCEPT !.at = at, !.read = counter].after = group[r].after
         /\ [group[r] EXCEPT !.at = at, !.read = counter].at = at
         /\ anchor \in Int => [group[r] EXCEPT !.at = at, !.after = anchor] \in GroupRecord
         /\ [group[r] EXCEPT !.at = at, !.after = anchor].after = anchor
         /\ [group[r] EXCEPT !.at = at, !.after = anchor].at = at
BY DEF GroupTypes, GroupRecord

(* A record of the group that is one again, in one or two fields.           *)
LEMMA GroupMoves ==
  ASSUME Inv, GroupTypes, NEW r \in Req, NEW f, Move(r, f), f \in GroupRecord, f.after \in Places(rows),
         f.at = "bump" => Frequency > 0, rows' = rows,
         counter' \in -1 .. Frequency, Frequency > 0 => counter' < Frequency, anchor' \in Places(rows),
         transcript' \in [Req -> SUBSET Nat], \A q \in Req : transcript'[q] \subseteq DOMAIN rows
  PROVE  GroupTypes'
<1>1. group'[r] = f /\ (\A q \in Req : q # r => group'[q] = group[q]) /\ group' \in [Req -> GroupRecord]
  BY Moved DEF GroupTypes, Move
<1> QED
  BY <1>1 DEF GroupTypes

(* A step of the group keeps the types.                                     *)
LEMMA GroupStepTypes ==
  ASSUME Inv, GroupTypes, NEW r \in Req, GroupStep(r), UNCHANGED vars
  PROVE  GroupTypes'
<1>1. rows' = rows /\ anchor \in Places(rows) /\ anchor \in Int
  BY PlacesTaken DEF vars, GroupTypes
<1>2. /\ counter \in -1 .. Frequency /\ (Frequency > 0 => counter < Frequency)
      /\ group[r].read \in -1 .. Frequency /\ group[r].after \in Places(rows)
      /\ transcript \in [Req -> SUBSET Nat] /\ \A q \in Req : transcript[q] \subseteq DOMAIN rows
  BY DEF GroupTypes, GroupRecord
<1>3. Due(r) \in GroupPoint \ {"bump"} /\ {"bump", "claim", "task", "lost", "over"} \subseteq GroupPoint
  BY DEF Due, GroupPoint
<1>4. ASSUME NEW at \in GroupPoint \ {"bump"}, Move(r, [group[r] EXCEPT !.at = at]),
             counter' \in -1 .. Frequency, Frequency > 0 => counter' < Frequency, anchor' \in Places(rows),
             transcript' \in [Req -> SUBSET Nat], \A q \in Req : transcript'[q] \subseteq DOMAIN rows
      PROVE  GroupTypes'
  <2>1. PICK f : f = [group[r] EXCEPT !.at = at]
    OBVIOUS
  <2>2. f \in GroupRecord /\ f.after = group[r].after /\ f.at = at
    BY <2>1, MovedRecord
  <2>3. Move(r, f) /\ f.after \in Places(rows) /\ (f.at = "bump" => Frequency > 0)
    BY <1>2, <1>4, <2>1, <2>2
  <2> QED
    BY <1>1, <1>4, <2>2, <2>3, GroupMoves
<1>5. CASE ReadCounter(r)
  <2>1. PICK at \in GroupPoint : /\ Move(r, [group[r] EXCEPT !.at = at, !.read = counter])
                                 /\ at = "bump" => Frequency > 0
    <3>1. Move(r, [group[r] EXCEPT !.at = IF Frequency = 0 THEN Due(r) ELSE "bump", !.read = counter])
      BY <1>5 DEF ReadCounter
    <3>2. CASE Frequency = 0
      BY <1>3, <3>1, <3>2
    <3>3. CASE Frequency # 0
      <4>1. Frequency > 0
        BY <3>3, GroupAssumption
      <4>2. Move(r, [group[r] EXCEPT !.at = "bump", !.read = counter])
        BY <3>1, <3>3
      <4> QED
        BY <1>3, <4>1, <4>2
    <3> QED
      BY <3>2, <3>3
  <2>2. PICK f : f = [group[r] EXCEPT !.at = at, !.read = counter]
    OBVIOUS
  <2>3. f \in GroupRecord /\ f.after = group[r].after /\ f.at = at
    BY <2>2, MovedRecord
  <2>4. counter' = counter /\ anchor' = anchor /\ transcript' = transcript
    BY <1>5 DEF ReadCounter
  <2>5. Move(r, f) /\ f.after \in Places(rows) /\ (f.at = "bump" => Frequency > 0)
    BY <1>2, <2>1, <2>2, <2>3
  <2> QED
    BY <1>1, <1>2, <2>3, <2>4, <2>5, GroupMoves
<1>6. CASE BumpCounter(r)
  <2>1. group[r].at = "bump" /\ counter' = Bumped(group[r].read) /\ anchor' = anchor /\ transcript' = transcript
    BY <1>6 DEF BumpCounter
  <2>2. counter' \in 0 .. Frequency - 1
    BY <1>2, <2>1, BumpedBelow DEF GroupTypes
  <2>3. PICK at \in GroupPoint \ {"bump"} : Move(r, [group[r] EXCEPT !.at = at])
    <3>1. Move(r, [group[r] EXCEPT !.at = IF counter' = 0 THEN Due(r) ELSE "over"])
      BY <1>6 DEF BumpCounter
    <3>2. CASE counter' = 0
      BY <1>3, <3>1, <3>2
    <3>3. CASE counter' # 0
      BY <1>3, <3>1, <3>3
    <3> QED
      BY <3>2, <3>3
  <2>4. counter' \in -1 .. Frequency /\ counter' < Frequency
    BY <2>2, GroupAssumption
  <2> QED
    BY <1>1, <1>2, <1>4, <2>1, <2>3, <2>4
<1>7. CASE ReadAnchor(r)
  <2>1. /\ Move(r, [group[r] EXCEPT !.at = "claim", !.after = anchor])
        /\ counter' = counter /\ anchor' = anchor /\ transcript' = transcript
    BY <1>7 DEF ReadAnchor
  <2>2. PICK f : f = [group[r] EXCEPT !.at = "claim", !.after = anchor]
    OBVIOUS
  <2>3. f \in GroupRecord /\ f.after = anchor /\ f.at = "claim"
    BY <1>1, <1>3, <2>2, MovedRecord
  <2>4. Move(r, f) /\ f.after \in Places(rows) /\ f.at # "bump"
    BY <1>1, <2>1, <2>2, <2>3
  <2> QED
    BY <1>1, <1>2, <2>1, <2>3, <2>4, GroupMoves
<1>8. CASE MoveAnchor(r)
  <2>1. /\ Move(r, [group[r] EXCEPT !.at = "task"])
        /\ counter' = counter /\ anchor' = Newest(r) /\ transcript' = transcript
    BY <1>8 DEF MoveAnchor
  <2>2. anchor' \in Places(rows)
    BY <2>1, PlacesTaken
  <2> QED
    BY <1>2, <1>3, <1>4, <2>1, <2>2
<1>9. CASE Review(r)
  <2>1. /\ Move(r, [group[r] EXCEPT !.at = "over"]) /\ counter' = counter /\ anchor' = anchor
        /\ transcript' = [transcript EXCEPT ![r] = Prior(r) \cup Responses(r)]
    BY <1>9 DEF Review
  <2>2. Prior(r) \cup Responses(r) \subseteq DOMAIN rows /\ DOMAIN rows \subseteq Nat
    BY PlacesTaken
  <2>3. transcript' \in [Req -> SUBSET Nat] /\ \A q \in Req : transcript'[q] \subseteq DOMAIN rows
    BY <1>2, <2>1, <2>2
  <2> QED
    BY <1>1, <1>2, <1>3, <1>4, <2>1, <2>3
<1>10. CASE LoseTask(r)
  <2>1. /\ Move(r, [group[r] EXCEPT !.at = "lost"])
        /\ counter' = counter /\ anchor' = anchor /\ transcript' = transcript
    BY <1>10 DEF LoseTask
  <2> QED
    BY <1>1, <1>2, <1>3, <1>4, <2>1
<1>11. CASE StopInFinally(r)
  <2>1. /\ Move(r, [group[r] EXCEPT !.at = "over"])
        /\ counter' = counter /\ anchor' = anchor /\ transcript' = transcript
    BY <1>11 DEF StopInFinally
  <2> QED
    BY <1>1, <1>2, <1>3, <1>4, <2>1
<1> QED
  BY <1>5, <1>6, <1>7, <1>8, <1>9, <1>10, <1>11 DEF GroupStep

(* The types hold in every reachable state.                                 *)
LEMMA GroupTypesHold ==
  GroupSpec => []GroupTypes
<1>1. Init /\ GroupInit => GroupTypes
  <2>1. ASSUME Init, GroupInit
        PROVE  GroupTypes
    <3>1. [at |-> "stream", read |-> 0, after |-> NoMessage] \in GroupRecord
      BY GroupAssumption DEF GroupRecord, GroupPoint, NoMessage
    <3> QED
      BY <2>1, <3>1, GroupAssumption DEF GroupInit, GroupTypes, Places
  <2> QED
    BY <2>1
<1>2. Inv /\ GroupTypes /\ [GroupNext]_<<vars, groupVars>> => GroupTypes'
  <2>1. ASSUME Inv, GroupTypes, [Next]_vars, UNCHANGED groupVars
        PROVE  GroupTypes'
    <3>1. Places(rows) \subseteq Places(rows') /\ DOMAIN rows \subseteq DOMAIN rows'
      BY <2>1, TableStays DEF Places
    <3> QED
      BY <2>1, <3>1 DEF groupVars, GroupTypes
  <2>2. ASSUME Inv, GroupTypes, NEW r \in Req, GroupStep(r), UNCHANGED vars
        PROVE  GroupTypes'
    BY <2>2, GroupStepTypes
  <2> QED
    BY <2>1, <2>2 DEF GroupNext, Next, groupVars
<1> QED
  BY <1>1, <1>2, GroupKeepsLoop, InvHolds, PTL DEF GroupSpec

(* The counter stays below the frequency - the row is read and written      *)
(* without a lock - and an id names a row of the table, or nothing.         *)
THEOREM GroupTypesCorrect ==
  GroupSpec => []GroupTypeOK
<1>1. GroupTypes => GroupTypeOK
  BY DEF GroupTypes, GroupTypeOK, GroupRecord, GroupPoint, Places
<1> QED
  BY <1>1, GroupTypesHold, PTL

-----------------------------------------------------------------------------
(* What the background tasks are given.                                     *)

(* All requests are made to the same conversation of the agent.             *)
OneConversation == \A r \in Req, q \in Req : ThreadOf[r] = ThreadOf[q]

(* The request holds the lock of the conversation.                          *)
Busy(r) == Active(r) \/ InFinally(r)

(* The rows a task may be given once the ids are moved.                     *)
Before(r) == IF Listable(r) THEN Between(r) ELSE {}
Window(r) == Before(r) \cup Responses(r)
Given(r) == IF group[r].at = "task" THEN Window(r) ELSE transcript[r]

(* What follows the stream follows one that is over; the id that was read   *)
(* is still the group's.                                                    *)
Ended(r) ==
  /\ group[r].at # "stream" => loop[r].at = "done" /\ loop[r].stop \notin {"busy", "crashed"}
  /\ transcript[r] # {} => group[r].at = "over"
  /\ group[r].at \in {"due", "claim", "task"} => loop[r].resp # <<>>
  /\ group[r].at = "claim" => group[r].after = anchor

OneInStream == \A r \in Req, q \in Req : Busy(r) /\ Busy(q) => r = q

(* A run that is not over stores after everything that was handed over.     *)
StoredAfter ==
  \A r \in Req, q \in Req : Busy(r) =>
    \A i \in Given(q), j \in DOMAIN rows : rows[j].run = r /\ rows[j].kind # "system" => i < j

Disjoint == \A r \in Req, q \in Req : r # q => Given(r) \cap Given(q) = {}

Behind == anchor # NoRow => \A q \in Req : \A i \in Given(q) : i <= anchor

Handed == (\A r \in Req : Ended(r)) /\ OneInStream /\ StoredAfter /\ Disjoint /\ Behind

(* The rows handed over are rows.                                           *)
LEMMA GivenRows ==
  ASSUME Inv, GroupTypes, NEW r \in Req
  PROVE  /\ DOMAIN rows = 1 .. Len(rows) /\ Len(rows) \in Nat
         /\ Given(r) \subseteq DOMAIN rows
<1>1. DOMAIN rows = 1 .. Len(rows) /\ Len(rows) \in Nat
  BY DEF Inv, Types, Log
<1>2. transcript[r] \subseteq DOMAIN rows
  BY DEF GroupTypes
<1>3. Before(r) \subseteq DOMAIN rows /\ Responses(r) \subseteq DOMAIN rows
  BY DEF Before, Listable, Between, Responses, RowsOf
<1> QED
  BY <1>1, <1>2, <1>3 DEF Given, Window

(* A table that grew: what was in it stays in its place.                    *)
LEMMA TableKept ==
  ASSUME NEW R \in Log, NEW w \in Log, NEW Q, R \o w = Q
  PROVE  /\ \A i \in DOMAIN R : i \in DOMAIN Q /\ Q[i] = R[i]
         /\ \A i \in DOMAIN Q : i \notin DOMAIN R => i > Len(R) /\ Q[i] \in Elements(w)
<1> DEFINE P == R \o w
<1>1. /\ \A i \in DOMAIN R : i \in DOMAIN P /\ P[i] = R[i]
      /\ \A i \in DOMAIN P : i \notin DOMAIN R => i > Len(R) /\ P[i] \in Elements(w)
  BY TableGrows
<1> QED
  BY <1>1

(* Rows of other runs are outside the window of a run.                      *)
LEMMA WindowStays ==
  ASSUME Inv, GroupTypes, NEW q \in Req, NEW w \in Log, rows' = rows \o w, \A m \in Elements(w) : m.run # q,
         loop[q].resp # <<>>, \A m \in Elements(loop[q].resp) : m.run = q,
         loop'[q] = loop[q], group'[q] = group[q]
  PROVE  Window(q)' = Window(q) /\ Before(q)' = Before(q)
<1>1. PICK s \in Log : s = loop[q].resp /\ s # <<>> /\ rows \in Log /\ \A m \in Elements(s) : m.run = q
  BY LoopOf DEF Inv, Types
<1>2. /\ DOMAIN rows = 1 .. Len(rows) /\ Len(rows) \in Nat
      /\ \A i \in DOMAIN rows : i \in DOMAIN rows' /\ rows'[i] = rows[i]
      /\ \A i \in DOMAIN rows' : i \notin DOMAIN rows => i > Len(rows) /\ rows'[i] \in Elements(w)
  <2>1. rows \in Log /\ w \in Log /\ rows \o w = rows'
    BY <1>1
  <2>2. /\ \A i \in DOMAIN rows : i \in DOMAIN rows' /\ rows'[i] = rows[i]
        /\ \A i \in DOMAIN rows' : i \notin DOMAIN rows => i > Len(rows) /\ rows'[i] \in Elements(w)
    BY <2>1, TableKept
  <2>3. DOMAIN rows = 1 .. Len(rows) /\ Len(rows) \in Nat
    BY <1>1 DEF Log
  <2> QED
    BY <2>2, <2>3
<1>3. PICK h \in Elements(s) : h = Head(s)
  BY <1>1 DEF Elements, Log
<1>4. \A m \in Elements(s) : RowsOf(m)' = RowsOf(m)
  <2>1. ASSUME NEW m \in Elements(s)
        PROVE  {i \in DOMAIN rows' : rows'[i] = m} = {i \in DOMAIN rows : rows[i] = m}
    BY <1>1, <1>2, <2>1
  <2> QED
    BY <2>1 DEF RowsOf
<1>5. Responses(q)' = Responses(q)
  <2>1. Responses(q) = UNION {RowsOf(m) : m \in Elements(s)}
    BY <1>1 DEF Responses
  <2>2. Responses(q)' = UNION {RowsOf(m)' : m \in Elements(s)}
    BY <1>1 DEF Responses
  <2>3. {RowsOf(m)' : m \in Elements(s)} = {RowsOf(m) : m \in Elements(s)}
    BY <1>4
  <2> QED
    BY <2>1, <2>2, <2>3
<1>6. Before(q)' = Before(q)
  <2> DEFINE S == RowsOf(h)
             b == group[q].after
  <2>1. RowsOf(h)' = S
    BY <1>3, <1>4
  <2>2. S \in SUBSET (1 .. Len(rows))
    BY <1>2 DEF RowsOf
  <2>3. /\ Before(q) = IF b = NoRow \/ S = {} THEN {} ELSE {i \in DOMAIN rows : b < i /\ i < Min(S)}
        /\ Before(q)' = IF b = NoRow \/ S = {} THEN {} ELSE {i \in DOMAIN rows' : b < i /\ i < Min(S)}
    <3>1. Head(loop[q].resp) = h /\ Head(loop'[q].resp) = h /\ group'[q].after = b
      BY <1>1, <1>3
    <3>2. Before(q) = IF b = NoRow \/ S = {} THEN {} ELSE {i \in DOMAIN rows : b < i /\ i < Min(S)}
      BY <3>1 DEF Before, Listable, Between
    <3>3. Before(q)' = IF b = NoRow \/ RowsOf(h)' = {} THEN {} ELSE {i \in DOMAIN rows' : b < i /\ i < Min(RowsOf(h)')}
      BY <3>1 DEF Before, Listable, Between, RowsOf
    <3> HIDE DEF S, b
    <3> QED
      BY <2>1, <3>2, <3>3
  <2> HIDE DEF S, b
  <2>4. CASE S # {}
    <3>1. Min(S) \in DOMAIN rows
      BY <1>2, <2>2, <2>4, FirstAndLast
    <3>2. ASSUME NEW i \in DOMAIN rows', i < Min(S)
          PROVE  i \in DOMAIN rows
      BY <1>2, <3>1, <3>2
    <3>3. {i \in DOMAIN rows' : b < i /\ i < Min(S)} = {i \in DOMAIN rows : b < i /\ i < Min(S)}
      BY <1>2, <3>2
    <3> QED
      BY <2>3, <3>3
  <2> QED
    BY <2>3, <2>4
<1> QED
  BY <1>5, <1>6 DEF Window

(* A row of a run that begins or goes on leaves what was given as it is.    *)
LEMMA GivenStays ==
  ASSUME Inv, GroupTypes, Reporting, NEW r \in Req, Ended(r), ReportStep(r), UNCHANGED groupVars,
         loop[r].at # "done",
         NEW q \in Req, Ended(q)
  PROVE  Given(q)' = Given(q)
<1>1. group' = group /\ transcript' = transcript
  BY DEF groupVars
<1>2. CASE group[q].at # "task"
  BY <1>1, <1>2 DEF Given
<1>3. CASE group[q].at = "task"
  <2>1. q # r /\ loop[q].resp # <<>> /\ loop'[q] = loop[q] /\ group'[q] = group[q]
    BY <1>1, <1>3 DEF Ended, ReportStep
  <2>2. \A m \in Elements(loop[q].resp) : m.run = q
    BY DEF Reporting, Reports, ReportOf
  <2>3. PICK w \in Log : rows' = rows \o w /\ \A m \in Elements(w) : m.run = r
    <3>1. CASE rows' = rows
      <4>1. rows = rows \o <<>> /\ <<>> \in Log /\ Elements(<<>>) = {}
        BY DEF Inv, Types, Log, Elements
      <4> QED
        BY <3>1, <4>1
    <3> QED
      BY <3>1 DEF ReportStep
  <2>4. \A m \in Elements(w) : m.run # q
    BY <2>1, <2>3
  <2>5. Window(q)' = Window(q)
    BY <2>1, <2>2, <2>3, <2>4, WindowStays
  <2> QED
    BY <1>1, <1>3, <2>5 DEF Given
<1> QED
  BY <1>2, <1>3

(* Only a run that is prepared starts to need the lock.                     *)
LEMMA LoopEntry ==
  ASSUME Inv, NEW r \in Req, Loop(r)
  PROVE  /\ loop[r].at # "done"
         /\ \/ Active(r)
            \/ loop[r].at = "loaded" /\ Prepare(r)
            \/ loop'[r].at = "loaded"
            \/ loop'[r].at = "done" /\ loop'[r].stop = "busy"
<1>1. ASSUME loop[r].at \in {"step", "llm", "save", "compact", "next"}
      PROVE  loop[r].at # "done" /\ Active(r)
  BY <1>1 DEF Active
<1>2. CASE LoadAgent(r)
  <2>1. loop[r].at = "idle" /\ loop[r] \in LoopRecord
    BY <1>2, LoopOf DEF LoadAgent
  <2> DEFINE here == [loop[r] EXCEPT !.at = "loaded", !.snap = ctx[ThreadOf[r]]]
  <2>2. here.at = "loaded" /\ DOMAIN here = DOMAIN loop[r]
    BY <2>1 DEF LoopRecord
  <2>3. CASE Upd(r, here)
    BY <2>1, <2>2, <2>3, After
  <2>4. ASSUME NEW x, NEW v, Upd(r, [here EXCEPT !.target = x.calls, !.verdict = v])
        PROVE  loop'[r].at = "loaded"
    <3>1. loop'[r] = [here EXCEPT !.target = x.calls, !.verdict = v]
      BY <2>4, After
    <3> HIDE DEF here
    <3> QED
      BY <2>1, <2>2, <3>1 DEF LoopRecord
  <2> QED
    BY <1>2, <2>1, <2>3, <2>4 DEF LoadAgent
<1>3. CASE Refused(r)
  <2>1. loop[r].at = "loaded" /\ Finish(r, "busy") /\ loop[r] \in LoopRecord
    BY <1>3, LoopOf DEF Refused
  <2>2. loop'[r] = [loop[r] EXCEPT !.at = "done", !.stop = "busy"]
    BY <2>1, After DEF Finish
  <2> QED
    BY <2>1, <2>2 DEF LoopRecord
<1>4. CASE Prepare(r)
  BY <1>4 DEF Prepare
<1>5. CASE Crash(r)
  BY <1>5 DEF Crash, Active
<1>6. CASE \/ AnswerStep(r) \/ SeeCancel(r) \/ AskModel(r) \/ ModelReplies(r) \/ ModelFails(r)
           \/ Overflow(r) \/ Save(r) \/ SaveFails(r) \/ CompactAfterStep(r) \/ NextStep(r) \/ Abandoned(r)
  <2>1. loop[r].at \in {"step", "llm", "save", "compact", "next"}
    BY <1>6 DEF AnswerStep, SeeCancel, AskModel, ModelReplies, ModelFails, Overflow, Save, SaveFails,
       CompactAfterStep, NextStep, Abandoned
  <2> QED
    BY <1>1, <2>1
<1> QED
  BY <1>2, <1>3, <1>4, <1>5, <1>6 DEF Loop

(* A step of a loop: its rows come after everything that was handed over,   *)
(* and it begins when nobody is in the stream of the conversation.          *)
LEMMA HandedLoop ==
  ASSUME Guarded, OneConversation, Inv, GroupTypes, Reporting, Handed,
         NEW r \in Req, Loop(r), Admitted(r), UNCHANGED groupVars
  PROVE  Handed'
<1>1. ReportStep(r) /\ loop[r].at # "done" /\ group' = group /\ transcript' = transcript /\ anchor' = anchor
  BY ReportLoop, LoopEntry DEF groupVars
<1>2. (\A q \in Req : Ended(q)) /\ OneInStream /\ StoredAfter /\ Disjoint /\ Behind
  BY DEF Handed
<1>3. group[r].at = "stream"
  BY <1>1, <1>2 DEF Ended
<1>4. \A q \in Req : q # r => loop'[q] = loop[q] /\ (Busy(q)' <=> Busy(q))
  <2>1. ASSUME NEW q \in Req, q # r
        PROVE  loop'[q] = loop[q] /\ (Busy(q)' <=> Busy(q))
    <3>1. loop'[q] = loop[q] /\ group'[q] = group[q]
      BY <1>1, <2>1 DEF ReportStep
    <3> QED
      BY <3>1 DEF Busy, Active, InFinally
  <2> QED
    BY <2>1
<1>5. \A q \in Req : Given(q)' = Given(q)
  <2>1. ASSUME NEW q \in Req
        PROVE  Given(q)' = Given(q)
    BY <1>1, <1>2, GivenStays
  <2> QED
    BY <2>1
<1>6. ASSUME Busy(r)'
      PROVE  Active(r) \/ (loop[r].at = "loaded" /\ Prepare(r))
  <2>1. ~(loop'[r].at = "loaded") /\ ~(loop'[r].at = "done" /\ loop'[r].stop = "busy")
    BY <1>6 DEF Busy, Active, InFinally
  <2> QED
    BY <2>1, LoopEntry
<1>7. ASSUME Busy(r)', NEW q \in Req, q # r
      PROVE  ~Busy(q)
  <2>1. CASE Active(r)
    BY <1>2, <1>7, <2>1 DEF OneInStream, Busy
  <2>2. CASE loop[r].at = "loaded" /\ Prepare(r)
    <3>1. LockFree(r) /\ r \in Locked /\ q \in Locked /\ ThreadOf[q] = ThreadOf[r]
      BY <2>2 DEF Prepare, Guarded, OneConversation
    <3>2. ~Active(q)
      BY <1>7, <3>1 DEF LockFree
    <3>3. ~InFinally(q)
      BY <2>2, <3>1 DEF Admitted
    <3> QED
      BY <3>2, <3>3 DEF Busy
  <2> QED
    BY <1>6, <1>7, <2>1, <2>2
<1>8. OneInStream'
  BY <1>2, <1>4, <1>7 DEF OneInStream
<1>9. \A q \in Req : Ended(q)'
  <2>1. ASSUME NEW q \in Req
        PROVE  Ended(q)'
    <3>1. CASE q = r
      BY <1>1, <1>2, <1>3, <3>1 DEF Ended
    <3>2. CASE q # r
      BY <1>1, <1>2, <1>4, <3>2 DEF Ended
    <3> QED
      BY <3>1, <3>2
  <2> QED
    BY <2>1
<1>10. StoredAfter'
  <2>1. ASSUME NEW x \in Req, NEW q \in Req, Busy(x)', NEW i \in Given(q), NEW j \in DOMAIN rows',
               rows'[j].run = x, rows'[j].kind # "system"
        PROVE  i < j
    <3>1. /\ DOMAIN rows = 1 .. Len(rows) /\ Len(rows) \in Nat /\ i \in DOMAIN rows
      BY <2>1, GivenRows
    <3>2. CASE j \in DOMAIN rows /\ rows'[j] = rows[j]
      <4>1. CASE Busy(x)
        BY <1>2, <2>1, <3>2, <4>1 DEF StoredAfter
      <4>2. CASE x = r /\ ~Busy(r)
        <5>1. loop[r].at = "loaded"
          BY <1>6, <2>1, <4>2 DEF Busy
        <5>2. Numbered(r, loop[r], rows) /\ rows[j] \in Elements(rows)
          BY <3>2 DEF Reporting, Reports, Elements
        <5>3. rows[j].run = r /\ rows[j].kind # "system"
          BY <2>1, <3>2, <4>2
        <5> QED
          BY <5>1, <5>2, <5>3 DEF Numbered
      <4> QED
        BY <1>4, <2>1, <4>1, <4>2
    <3>3. CASE rows' # rows
      <4>1. PICK w \in Log : rows' = rows \o w /\ \A m \in Elements(w) : m.run = r
        BY <1>1, <3>3 DEF ReportStep
      <4> DEFINE Q == rows \o w
      <4>2. /\ \A k \in DOMAIN rows : k \in DOMAIN Q /\ Q[k] = rows[k]
            /\ DOMAIN Q = 1 .. Len(Q) /\ Len(Q) \in Nat
            /\ \A k \in DOMAIN Q : k \notin DOMAIN rows => k > Len(rows) /\ Q[k] \in Elements(w)
        <5>1. rows \in Log /\ w \in Log
          BY <4>1 DEF Inv, Types
        <5> QED
          BY <5>1, TableGrows
      <4>3. Q = rows' /\ j \in Nat
        BY <2>1, <4>1, <4>2
      <4> HIDE DEF Q
      <4>4. j \notin DOMAIN rows => j > Len(rows)
        BY <2>1, <4>2, <4>3
      <4> QED
        BY <2>1, <3>1, <3>2, <4>2, <4>3, <4>4
    <3> QED
      BY <2>1, <3>2, <3>3
  <2> QED
    BY <1>5, <2>1 DEF StoredAfter
<1>11. Disjoint' /\ Behind'
  BY <1>1, <1>2, <1>5 DEF Disjoint, Behind
<1> QED
  BY <1>8, <1>9, <1>10, <1>11 DEF Handed

(* A step of the group that hands over nothing new.                         *)
LEMMA HandedStays ==
  ASSUME Handed, NEW r \in Req, UNCHANGED vars, anchor' = anchor,
         \A q \in Req : q # r => group'[q] = group[q] /\ transcript'[q] = transcript[q],
         Ended(r)', Given(r)' \subseteq Given(r), Busy(r)' => Busy(r)
  PROVE  Handed'
<1>1. rows' = rows /\ loop' = loop /\ anchor' = anchor
  BY DEF vars
<1>2. (\A q \in Req : Ended(q)) /\ OneInStream /\ StoredAfter /\ Disjoint /\ Behind
  BY DEF Handed
<1>3. ASSUME NEW q \in Req, q # r
      PROVE  Ended(q)' /\ Given(q)' = Given(q) /\ (Busy(q)' <=> Busy(q))
  <2>1. group'[q] = group[q] /\ transcript'[q] = transcript[q]
    BY <1>3
  <2>2. Ended(q)'
    BY <1>1, <1>2, <2>1 DEF Ended
  <2>3. Busy(q)' <=> Busy(q)
    BY <1>1, <2>1 DEF Busy, Active, InFinally
  <2>4. Given(q)' = Given(q)
    BY <1>1, <2>1 DEF Given, Window, Before, Listable, Between, Responses, RowsOf
  <2> QED
    BY <2>2, <2>3, <2>4
<1>4. \A q \in Req : Given(q)' \subseteq Given(q) /\ Ended(q)' /\ (Busy(q)' => Busy(q))
  BY <1>3
<1>5. OneInStream' /\ StoredAfter' /\ Disjoint' /\ Behind'
  BY <1>1, <1>2, <1>4 DEF OneInStream, StoredAfter, Disjoint, Behind
<1> QED
  BY <1>4, <1>5 DEF Handed

(* The window of a turn ends at its newest response.                        *)
LEMMA WindowEnds ==
  ASSUME Inv, Reporting, NEW r \in Req, loop[r].resp # <<>>, Newest(r) # NoRow
  PROVE  /\ Newest(r) \in DOMAIN rows /\ rows[Newest(r)] \in Elements(loop[r].resp)
         /\ \A i \in Window(r) : i <= Newest(r)
<1>1. PICK s \in Log : s = loop[r].resp /\ s # <<>>
  BY LoopOf
<1>2. Len(s) \in DOMAIN s /\ Last(s) \in Elements(s) /\ Head(s) \in Elements(s)
  <2>1. Len(s) \in DOMAIN s /\ 1 \in DOMAIN s /\ Head(s) = s[1]
    BY <1>1 DEF Log
  <2> QED
    BY <2>1 DEF Last, Elements
<1>3. DOMAIN rows = 1 .. Len(rows) /\ Len(rows) \in Nat
  BY DEF Inv, Types, Log
<1>4. PICK T : T = RowsOf(Last(s)) /\ T \in SUBSET (1 .. Len(rows))
  BY <1>3 DEF RowsOf
<1>5. T # {} /\ Newest(r) = Max(T)
  BY <1>1, <1>4 DEF Newest
<1>6. Max(T) \in T /\ \A i \in T : i <= Max(T)
  BY <1>3, <1>4, <1>5, FirstAndLast
<1>7. Max(T) \in DOMAIN rows /\ rows[Max(T)] = Last(s)
  BY <1>3, <1>4, <1>6 DEF RowsOf
<1>8. \A i \in Responses(r) : i \in DOMAIN rows /\ i <= Max(T)
  <2>1. ASSUME NEW i \in Responses(r)
        PROVE  i \in DOMAIN rows /\ i <= Max(T)
    <3>1. i \in DOMAIN rows /\ rows[i] \in Elements(s)
      BY <1>1, <2>1 DEF Responses, RowsOf
    <3>2. InOrder(loop[r], rows) /\ Last(s) \in Elements(rows)
      BY <1>7 DEF Reporting, Reports, Elements
    <3>3. PICK j \in DOMAIN rows : rows[j] = Last(s) /\ i <= j
      BY <1>1, <3>1, <3>2 DEF InOrder
    <3>4. j \in T
      BY <1>4, <3>3 DEF RowsOf
    <3> QED
      BY <1>3, <1>6, <1>7, <3>1, <3>3, <3>4
  <2> QED
    BY <2>1
<1>9. \A i \in Before(r) : i <= Max(T)
  <2>1. ASSUME NEW i \in Before(r)
        PROVE  i <= Max(T)
    <3>1. PICK S : S = RowsOf(Head(s)) /\ S \in SUBSET (1 .. Len(rows))
      BY <1>3 DEF RowsOf
    <3>2. S # {} /\ i \in DOMAIN rows /\ i < Min(S)
      BY <1>1, <2>1, <3>1 DEF Before, Listable, Between
    <3>3. Min(S) \in S
      BY <1>3, <3>1, <3>2, FirstAndLast
    <3>4. Min(S) \in Responses(r)
      BY <1>1, <1>2, <3>1, <3>3 DEF Responses
    <3>5. Min(S) \in DOMAIN rows /\ Min(S) <= Max(T)
      BY <1>8, <3>4
    <3> QED
      BY <1>3, <1>7, <3>2, <3>5
  <2> QED
    BY <2>1
<1> QED
  BY <1>1, <1>2, <1>5, <1>7, <1>8, <1>9 DEF Window

(* What a turn is about to hand over was not handed over before.            *)
LEMMA WindowIsNew ==
  ASSUME Inv, GroupTypes, Reporting, Handed, NEW r \in Req, Busy(r), group[r].at = "claim",
         NEW q \in Req
  PROVE  Window(r) \cap Given(q) = {}
<1>1. Ended(r) /\ StoredAfter /\ Behind
  BY DEF Handed
<1>2. /\ DOMAIN rows = 1 .. Len(rows) /\ Len(rows) \in Nat /\ Given(q) \subseteq DOMAIN rows
      /\ anchor \in Int
  BY GivenRows, PlacesTaken DEF GroupTypes
<1>3. ASSUME NEW i \in Before(r), i \in Given(q)
      PROVE  FALSE
  <2>1. group[r].after = anchor /\ anchor # NoRow /\ i \in DOMAIN rows /\ anchor < i
    BY <1>1, <1>3 DEF Ended, Before, Listable, Between
  <2>2. i <= anchor
    BY <1>1, <1>3, <2>1 DEF Behind
  <2> QED
    BY <1>2, <2>1, <2>2
<1>4. ASSUME NEW i \in Responses(r), i \in Given(q)
      PROVE  FALSE
  <2>1. i \in DOMAIN rows /\ rows[i] \in Elements(loop[r].resp)
    BY <1>4 DEF Responses, RowsOf
  <2>2. rows[i].run = r /\ rows[i].kind # "system"
    BY <2>1 DEF Reporting, Reports, ReportOf, Made
  <2>3. i < i
    BY <1>1, <1>4, <2>1, <2>2 DEF StoredAfter
  <2> QED
    BY <1>2, <2>1, <2>3
<1> QED
  BY <1>3, <1>4 DEF Window

(* The id moves: the window of the turn will be given to its task.          *)
LEMMA HandedMoveAnchor ==
  ASSUME Inv, GroupTypes, Reporting, Handed, NEW r \in Req, MoveAnchor(r), UNCHANGED vars
  PROVE  Handed'
<1>1. rows' = rows /\ loop' = loop
  BY DEF vars
<1>2. (\A q \in Req : Ended(q)) /\ OneInStream /\ StoredAfter /\ Disjoint /\ Behind
  BY DEF Handed
<1>3. /\ group[r].at = "claim" /\ anchor' = Newest(r) /\ transcript' = transcript
      /\ Move(r, [group[r] EXCEPT !.at = "task"])
  BY DEF MoveAnchor
<1>4. PICK f : f = [group[r] EXCEPT !.at = "task"]
  OBVIOUS
<1>5. f.at = "task" /\ f.after = group[r].after
  BY <1>4, MovedRecord DEF GroupPoint
<1>6. group'[r].at = "task" /\ group'[r].after = group[r].after /\ \A q \in Req : q # r => group'[q] = group[q]
  BY <1>3, <1>4, <1>5, Moved
<1>7. loop[r].at = "done" /\ loop[r].stop \notin {"busy", "crashed"} /\ loop[r].resp # <<>> /\ transcript[r] = {}
  BY <1>2, <1>3 DEF Ended
<1>8. Busy(r) /\ ~Busy(r)'
  BY <1>1, <1>3, <1>6, <1>7 DEF Busy, Active, InFinally
<1>9. \A q \in Req : q # r => Given(q)' = Given(q) /\ ~Busy(q)'
  <2>1. ASSUME NEW q \in Req, q # r
        PROVE  Given(q)' = Given(q) /\ ~Busy(q)'
    <3>1. group'[q] = group[q] /\ transcript'[q] = transcript[q] /\ ~Busy(q)
      BY <1>2, <1>3, <1>6, <1>8, <2>1 DEF OneInStream
    <3>2. ~Busy(q)'
      BY <1>1, <3>1 DEF Busy, Active, InFinally
    <3>3. Given(q)' = Given(q)
      BY <1>1, <3>1 DEF Given, Window, Before, Listable, Between, Responses, RowsOf
    <3> QED
      BY <3>2, <3>3
  <2> QED
    BY <2>1
<1>10. Given(r)' = Window(r)
  BY <1>1, <1>6 DEF Given, Window, Before, Listable, Between, Responses, RowsOf
<1>11. \A q \in Req : Ended(q)'
  <2>1. ASSUME NEW q \in Req
        PROVE  Ended(q)'
    <3>1. CASE q = r
      BY <1>1, <1>3, <1>6, <1>7, <3>1 DEF Ended
    <3>2. CASE q # r
      <4>1. Ended(q) /\ ~Busy(q)
        BY <1>2, <1>8, <3>2 DEF OneInStream
      <4>2. group[q].at # "claim"
        BY <4>1 DEF Ended, Busy, InFinally
      <4> QED
        BY <1>1, <1>3, <1>6, <3>2, <4>1, <4>2 DEF Ended
    <3> QED
      BY <3>1, <3>2
  <2> QED
    BY <2>1
<1>12. OneInStream' /\ StoredAfter'
  BY <1>8, <1>9 DEF OneInStream, StoredAfter
<1>13. Disjoint'
  <2>1. \A q \in Req : q # r => Given(q)' = Given(q) /\ Window(r) \cap Given(q) = {}
    BY <1>3, <1>8, <1>9, WindowIsNew
  <2> QED
    BY <1>2, <1>10, <2>1 DEF Disjoint
<1>14. Behind'
  <2>1. ASSUME Newest(r) # NoRow, NEW q \in Req, NEW i \in Given(q)'
        PROVE  i <= Newest(r)
    <3>1. /\ Newest(r) \in DOMAIN rows /\ rows[Newest(r)] \in Elements(loop[r].resp)
          /\ \A k \in Window(r) : k <= Newest(r)
      BY <1>7, <2>1, WindowEnds
    <3>2. CASE q = r
      BY <1>10, <2>1, <3>1, <3>2
    <3>3. CASE q # r
      <4>1. i \in Given(q) /\ DOMAIN rows = 1 .. Len(rows) /\ Len(rows) \in Nat /\ Given(q) \subseteq DOMAIN rows
        BY <1>9, <2>1, <3>3, GivenRows
      <4>2. rows[Newest(r)].run = r /\ rows[Newest(r)].kind # "system"
        BY <3>1 DEF Reporting, Reports, ReportOf, Made
      <4>3. i < Newest(r)
        BY <1>2, <1>8, <3>1, <4>1, <4>2 DEF StoredAfter
      <4> QED
        BY <3>1, <4>1, <4>3
    <3> QED
      BY <3>2, <3>3
  <2> QED
    BY <1>3, <2>1 DEF Behind
<1> QED
  BY <1>11, <1>12, <1>13, <1>14 DEF Handed

(* Every step of the group.                                                 *)
LEMMA HandedGroupStep ==
  ASSUME Inv, GroupTypes, Reporting, Handed, NEW r \in Req, GroupStep(r), UNCHANGED vars
  PROVE  Handed'
<1>1. rows' = rows /\ loop' = loop
  BY DEF vars
<1>2. Ended(r)
  BY DEF Handed
<1>3. ASSUME anchor' = anchor, transcript' = transcript, NEW f, Move(r, f),
             InFinally(r), f.at \in {"bump", "due", "claim", "over"}, f.at \in {"due", "claim"} => loop[r].resp # <<>>,
             f.at = "claim" => f.after = anchor
      PROVE  Handed'
  <2>1. group'[r] = f /\ \A q \in Req : q # r => group'[q] = group[q]
    BY <1>3, Moved
  <2>2. loop[r].at = "done" /\ loop[r].stop \notin {"busy", "crashed"} /\ group[r].at \notin {"task", "over"}
    BY <1>3 DEF InFinally
  <2>3. transcript[r] = {}
    BY <1>2, <2>2 DEF Ended
  <2>4. Ended(r)'
    BY <1>1, <1>3, <2>1, <2>2, <2>3 DEF Ended
  <2>5. Given(r)' \subseteq Given(r)
    BY <1>3, <2>1, <2>2 DEF Given
  <2>6. Busy(r)' => Busy(r)
    BY <1>3 DEF Busy
  <2>7. \A q \in Req : q # r => group'[q] = group[q] /\ transcript'[q] = transcript[q]
    BY <1>3, <2>1
  <2> QED
    BY <1>3, <2>4, <2>5, <2>6, <2>7, HandedStays
<1>4. ASSUME anchor' = anchor, group[r].at = "task", NEW f, Move(r, f), f.at \in {"lost", "over"},
             \A q \in Req : q # r => transcript'[q] = transcript[q],
             transcript'[r] \subseteq Window(r), f.at = "lost" => transcript'[r] = transcript[r]
      PROVE  Handed'
  <2>1. group'[r] = f /\ \A q \in Req : q # r => group'[q] = group[q]
    BY <1>4, Moved
  <2>2. loop[r].at = "done" /\ loop[r].stop \notin {"busy", "crashed"} /\ transcript[r] = {}
    BY <1>2, <1>4 DEF Ended
  <2>3. Ended(r)'
    BY <1>1, <1>4, <2>1, <2>2 DEF Ended
  <2>4. Given(r)' \subseteq Given(r)
    BY <1>4, <2>1 DEF Given
  <2>5. Busy(r)' => Busy(r)
    BY <1>1, <1>4, <2>1, <2>2 DEF Busy, Active, InFinally
  <2>6. \A q \in Req : q # r => group'[q] = group[q] /\ transcript'[q] = transcript[q]
    BY <1>4, <2>1
  <2> QED
    BY <1>4, <2>3, <2>4, <2>5, <2>6, HandedStays
<1>5. {"bump", "due", "claim", "over", "lost"} \subseteq GroupPoint
  BY DEF GroupPoint
<1>6. Due(r) \in {"due", "over"} /\ (Due(r) = "due" => loop[r].resp # <<>>)
  BY DEF Due
<1>7. CASE ReadCounter(r)
  <2>1. PICK at \in GroupPoint : /\ Move(r, [group[r] EXCEPT !.at = at, !.read = counter])
                                 /\ at \in {"bump", "due", "over"} /\ (at = "due" => loop[r].resp # <<>>)
    <3>1. Move(r, [group[r] EXCEPT !.at = IF Frequency = 0 THEN Due(r) ELSE "bump", !.read = counter])
      BY <1>7 DEF ReadCounter
    <3>2. CASE Frequency = 0
      BY <1>5, <1>6, <3>1, <3>2
    <3>3. CASE Frequency # 0
      BY <1>5, <3>1, <3>3
    <3> QED
      BY <3>2, <3>3
  <2>2. PICK f : f = [group[r] EXCEPT !.at = at, !.read = counter]
    OBVIOUS
  <2>3. f.at = at
    BY <2>2, MovedRecord
  <2>4. anchor' = anchor /\ transcript' = transcript /\ InFinally(r)
    BY <1>7 DEF ReadCounter
  <2> QED
    BY <1>3, <2>1, <2>2, <2>3, <2>4
<1>8. ASSUME group[r].at \in {"bump", "due"}
      PROVE  InFinally(r)
  BY <1>2, <1>8 DEF Ended, InFinally
<1>9. CASE BumpCounter(r)
  <2>1. PICK at \in GroupPoint : /\ Move(r, [group[r] EXCEPT !.at = at])
                                 /\ at \in {"due", "over"} /\ (at = "due" => loop[r].resp # <<>>)
    <3>1. Move(r, [group[r] EXCEPT !.at = IF counter' = 0 THEN Due(r) ELSE "over"])
      BY <1>9 DEF BumpCounter
    <3>2. CASE counter' = 0
      BY <1>5, <1>6, <3>1, <3>2
    <3>3. CASE counter' # 0
      BY <1>5, <3>1, <3>3
    <3> QED
      BY <3>2, <3>3
  <2>2. PICK f : f = [group[r] EXCEPT !.at = at]
    OBVIOUS
  <2>3. f.at = at
    BY <2>2, MovedRecord
  <2>4. anchor' = anchor /\ transcript' = transcript /\ InFinally(r)
    BY <1>8, <1>9 DEF BumpCounter
  <2> QED
    BY <1>3, <2>1, <2>2, <2>3, <2>4
<1>10. CASE ReadAnchor(r)
  <2>1. /\ Move(r, [group[r] EXCEPT !.at = "claim", !.after = anchor])
        /\ anchor' = anchor /\ transcript' = transcript /\ InFinally(r) /\ loop[r].resp # <<>>
    BY <1>2, <1>8, <1>10 DEF ReadAnchor, Ended
  <2>2. PICK f : f = [group[r] EXCEPT !.at = "claim", !.after = anchor]
    OBVIOUS
  <2>3. f.at = "claim" /\ f.after = anchor
    BY <1>5, <2>2, MovedRecord
  <2> QED
    BY <1>3, <2>1, <2>2, <2>3
<1>11. CASE MoveAnchor(r)
  BY <1>11, HandedMoveAnchor
<1>12. CASE Review(r)
  <2>1. /\ Move(r, [group[r] EXCEPT !.at = "over"]) /\ anchor' = anchor /\ group[r].at = "task"
        /\ transcript' = [transcript EXCEPT ![r] = Prior(r) \cup Responses(r)]
    BY <1>12 DEF Review
  <2>2. PICK f : f = [group[r] EXCEPT !.at = "over"]
    OBVIOUS
  <2>3. f.at = "over"
    BY <1>5, <2>2, MovedRecord
  <2>4. Prior(r) \cup Responses(r) \subseteq Window(r)
    BY DEF Prior, Window, Before, Listable
  <2>5. transcript'[r] = Prior(r) \cup Responses(r) /\ \A q \in Req : q # r => transcript'[q] = transcript[q]
    BY <2>1 DEF GroupTypes
  <2> QED
    BY <1>4, <2>1, <2>2, <2>3, <2>4, <2>5
<1>13. CASE LoseTask(r)
  <2>1. /\ Move(r, [group[r] EXCEPT !.at = "lost"]) /\ anchor' = anchor /\ group[r].at = "task"
        /\ transcript' = transcript /\ transcript[r] = {}
    BY <1>2, <1>13 DEF LoseTask, Ended
  <2>2. PICK f : f = [group[r] EXCEPT !.at = "lost"]
    OBVIOUS
  <2>3. f.at = "lost"
    BY <1>5, <2>2, MovedRecord
  <2> QED
    BY <1>4, <2>1, <2>2, <2>3
<1>14. CASE StopInFinally(r)
  <2>1. /\ Move(r, [group[r] EXCEPT !.at = "over"])
        /\ anchor' = anchor /\ transcript' = transcript /\ InFinally(r)
    BY <1>14 DEF StopInFinally
  <2>2. PICK f : f = [group[r] EXCEPT !.at = "over"]
    OBVIOUS
  <2>3. f.at = "over"
    BY <1>5, <2>2, MovedRecord
  <2> QED
    BY <1>3, <2>1, <2>2, <2>3
<1> QED
  BY <1>7, <1>9, <1>10, <1>11, <1>12, <1>13, <1>14 DEF GroupStep

(* A cancellation does nothing where no request is made to the agent.       *)
LEMMA HandedIdle ==
  ASSUME Handed, UNCHANGED <<rows, loop>>, UNCHANGED groupVars
  PROVE  Handed'
<1>1. rows' = rows /\ loop' = loop /\ group' = group /\ transcript' = transcript /\ anchor' = anchor
  BY DEF groupVars
<1>2. ASSUME NEW q \in Req
      PROVE  Given(q)' = Given(q) /\ (Busy(q)' <=> Busy(q)) /\ (Ended(q)' <=> Ended(q))
  <2>1. Given(q)' = Given(q)
    BY <1>1 DEF Given, Window, Before, Listable, Between, Responses, RowsOf
  <2>2. Busy(q)' <=> Busy(q)
    BY <1>1 DEF Busy, Active, InFinally
  <2>3. Ended(q)' <=> Ended(q)
    BY <1>1 DEF Ended
  <2> QED
    BY <2>1, <2>2, <2>3
<1> QED
  BY <1>1, <1>2 DEF Handed, OneInStream, StoredAfter, Disjoint, Behind

(* The invariant holds in every reachable state.                            *)
LEMMA HandedHolds ==
  ASSUME Guarded, OneConversation
  PROVE  GroupSpec => []Handed
<1>1. Init /\ GroupInit => Handed
  <2>1. ASSUME Init, GroupInit, NEW r \in Req
        PROVE  /\ loop[r].at = "idle" /\ group[r].at = "stream" /\ transcript[r] = {} /\ anchor = NoMessage
               /\ ~Busy(r) /\ Given(r) = {}
    <3>1. loop[r].at = "idle" /\ group[r].at = "stream" /\ transcript[r] = {} /\ anchor = NoMessage
      BY <2>1 DEF Init, GroupInit
    <3> QED
      BY <3>1 DEF Busy, Active, InFinally, Given
  <2> QED
    BY <2>1 DEF Handed, Ended, OneInStream, StoredAfter, Disjoint, Behind
<1>2. Inv /\ Apart /\ Reporting /\ GroupTypes /\ Handed /\ [GroupNext]_<<vars, groupVars>> => Handed'
  <2>1. ASSUME Inv, Reporting, GroupTypes, Handed, NEW r \in Req, Loop(r), Admitted(r), UNCHANGED groupVars
        PROVE  Handed'
    BY <2>1, HandedLoop
  <2>2. ASSUME Inv, Apart, Handed, NEW r \in Req, Cancellation(r), UNCHANGED groupVars
        PROVE  Handed'
    BY <2>2, ApartCancellation, HandedIdle
  <2>3. ASSUME Inv, Reporting, GroupTypes, Handed, NEW r \in Req, GroupStep(r), UNCHANGED vars
        PROVE  Handed'
    BY <2>3, HandedGroupStep
  <2>4. ASSUME Handed, UNCHANGED <<vars, groupVars>>
        PROVE  Handed'
    <3>1. UNCHANGED <<rows, loop>> /\ UNCHANGED groupVars
      BY <2>4 DEF vars
    <3> QED
      BY <2>4, <3>1, HandedIdle
  <2> QED
    BY <2>1, <2>2, <2>3, <2>4 DEF GroupNext
<1> QED
  BY <1>1, <1>2, GroupKeepsLoop, InvHolds, ApartHolds, ReportingHolds, GroupTypesHold, PTL DEF GroupSpec

(* The sleeptime agents of a conversation are given no message twice, if    *)
(* every request takes the lock of the conversation: the id of the last     *)
(* processed message moves past what a task will be given, before the task  *)
(* reads it and before the next request may store a message.                *)
THEOREM ReviewedOnce ==
  ASSUME Guarded, OneConversation
  PROVE  GroupSpec => []NoMessageReviewedTwice
<1>1. Handed => NoMessageReviewedTwice
  <2>1. ASSUME Handed, NEW r \in Req, NEW q \in Req, r # q
        PROVE  transcript[r] \cap transcript[q] = {}
    <3>1. Ended(r) /\ Ended(q) /\ Given(r) \cap Given(q) = {}
      BY <2>1 DEF Handed, Disjoint
    <3>2. transcript[r] \subseteq Given(r) /\ transcript[q] \subseteq Given(q)
      BY <3>1 DEF Ended, Given
    <3> QED
      BY <3>1, <3>2
  <2> QED
    BY <2>1 DEF NoMessageReviewedTwice
<1> QED
  BY <1>1, HandedHolds, PTL

-----------------------------------------------------------------------------
(* What a user wrote reaches the sleeptime agents.                          *)

(* The responses of a run are stored with its steps; only a server that     *)
(* stops loses some.                                                        *)
Landed(l, R) ==
  /\ l.at = "save" => Elements(l.resp) \subseteq Elements(R) \cup Elements(l.new)
  /\ l.at # "save" =>
       (l.at = "done" /\ l.stop = "crashed") \/ Elements(l.resp) \subseteq Elements(R)

LandedAll == \A r \in Req : Landed(loop[r], rows)

(* A loop that reports nothing new, outside of a step to store.             *)
LEMMA LandedSame ==
  ASSUME NEW r \in Req, LandedAll, loop[r].at \notin {"save", "done"}, loop'[r].at # "save",
         loop'[r].resp = loop[r].resp, UNCHANGED rows
  PROVE  Landed(loop'[r], rows')
<1>1. Elements(loop[r].resp) \subseteq Elements(rows)
  BY DEF LandedAll, Landed
<1> QED
  BY <1>1 DEF Landed

(* A loop ends.                                                             *)
LEMMA LandedFinish ==
  ASSUME Inv, NEW r \in Req, LandedAll, NEW stop, Finish(r, stop), UNCHANGED rows,
         loop[r].at \notin {"save", "done"} \/ stop = "crashed"
  PROVE  Landed(loop'[r], rows')
<1>1. loop'[r].at = "done" /\ loop'[r].resp = loop[r].resp
  BY Finished
<1>2. CASE loop[r].at \notin {"save", "done"}
  BY <1>1, <1>2, LandedSame
<1>3. CASE stop = "crashed"
  <2>1. loop'[r] = [loop[r] EXCEPT !.at = "done", !.stop = stop] /\ loop[r] \in LoopRecord
    BY LoopOf, After DEF Finish
  <2>2. loop'[r].stop = "crashed"
    BY <1>3, <2>1 DEF LoopRecord
  <2> QED
    BY <1>1, <2>2 DEF Landed
<1> QED
  BY <1>2, <1>3

(* The agent is loaded, or the model asked.                                 *)
LEMMA LandedEarly ==
  ASSUME Inv, NEW r \in Req, LandedAll, LoadAgent(r) \/ AskModel(r)
  PROVE  Landed(loop'[r], rows')
<1>1. loop[r] \in LoopRecord
  BY LoopOf
<1>2. CASE LoadAgent(r)
  <2> DEFINE here == [loop[r] EXCEPT !.at = "loaded", !.snap = ctx[ThreadOf[r]]]
  <2>1. here.at = "loaded" /\ here.resp = loop[r].resp /\ DOMAIN here = DOMAIN loop[r]
    BY <1>1 DEF LoopRecord
  <2>2. ASSUME Upd(r, here)
        PROVE  loop'[r].at = "loaded" /\ loop'[r].resp = loop[r].resp
    BY <2>1, <2>2, After
  <2>3. ASSUME NEW x, NEW v, Upd(r, [here EXCEPT !.target = x.calls, !.verdict = v])
        PROVE  loop'[r].at = "loaded" /\ loop'[r].resp = loop[r].resp
    <3>1. loop'[r] = [here EXCEPT !.target = x.calls, !.verdict = v]
      BY <2>3, After
    <3> HIDE DEF here
    <3> QED
      BY <1>1, <2>1, <3>1 DEF LoopRecord
  <2>4. loop'[r].at = "loaded" /\ loop'[r].resp = loop[r].resp
    BY <1>2, <2>2, <2>3 DEF LoadAgent
  <2>5. loop[r].at = "idle" /\ UNCHANGED rows
    BY <1>2 DEF LoadAgent
  <2> HIDE DEF here
  <2> QED
    BY <2>4, <2>5, LandedSame
<1>3. CASE AskModel(r)
  <2>1. PICK s : s = Current(r)
    OBVIOUS
  <2>2. loop[r].at = "step" /\ UNCHANGED rows /\ Upd(r, [loop[r] EXCEPT !.at = "llm", !.msgs = s, !.tries = 0])
    BY <1>3, <2>1 DEF AskModel
  <2>3. loop'[r] = [loop[r] EXCEPT !.at = "llm", !.msgs = s, !.tries = 0]
    BY <2>2, After
  <2>4. loop'[r].at = "llm" /\ loop'[r].resp = loop[r].resp
    BY <1>1, <2>3 DEF LoopRecord
  <2> QED
    BY <2>2, <2>4, LandedSame
<1> QED
  BY <1>2, <1>3

(* The turn begins, or is refused.                                          *)
LEMMA LandedPrepare ==
  ASSUME Inv, NEW r \in Req, LandedAll, Prepare(r)
  PROVE  Landed(loop'[r], rows')
<1>1. loop[r].at = "loaded" /\ UNCHANGED rows
  BY DEF Prepare
<1>2. CASE Finish(r, "error")
  BY <1>1, <1>2, LandedFinish
<1>3. ASSUME NEW seen, NEW input, NEW follow, Begin(r, seen, input, follow)
      PROVE  Landed(loop'[r], rows')
  <2>1. loop'[r] = [loop[r] EXCEPT !.at = "step", !.msgs = seen, !.input = input, !.follow = follow]
    BY <1>3, After DEF Begin
  <2>2. loop'[r].at = "step" /\ loop'[r].resp = loop[r].resp
    BY <2>1, LoopOf DEF LoopRecord
  <2> QED
    BY <1>1, <2>2, LandedSame
<1> QED
  BY <1>2, <1>3 DEF Prepare, PrepareMessage, PrepareApproval

(* New messages are responses that are about to be stored.                  *)
LEMMA LandedMade ==
  ASSUME Inv, NEW r \in Req, LandedAll, loop[r].at \in {"step", "llm"}, UNCHANGED rows,
         NEW w \in Log, loop'[r].at = "save", loop'[r].new = w, loop'[r].resp = loop[r].resp \o w
  PROVE  Landed(loop'[r], rows')
<1>1. Elements(loop[r].resp) \subseteq Elements(rows)
  BY DEF LandedAll, Landed
<1>2. PICK s \in Log : s = loop[r].resp
  BY LoopOf
<1>3. Elements(s \o w) = Elements(s) \cup Elements(w)
  BY ElementsOfJoin DEF Log
<1> QED
  BY <1>1, <1>2, <1>3 DEF Landed

(* The result of an approval, or a reply.                                   *)
LEMMA LandedReplies ==
  ASSUME Inv, NEW r \in Req, LandedAll, AnswerStep(r) \/ ModelReplies(r)
  PROVE  Landed(loop'[r], rows')
<1>1. CASE AnswerStep(r)
  <2>1. /\ loop[r].at = "step" /\ Answering(r) /\ UNCHANGED rows /\ loop'[r].at = "save"
        /\ loop'[r].new = <<Result(r)>> /\ loop'[r].resp = Append(loop[r].resp, Result(r))
    BY <1>1, Answer
  <2>2. Result(r) \in Message
    BY <2>1, AnswerFacts
  <2>3. PICK w \in Seq(Message) : w = <<Result(r)>>
    BY <2>2, OneElement
  <2>4. Append(loop[r].resp, Result(r)) = loop[r].resp \o w
    BY <2>2, <2>3, LoopOf DEF Log
  <2>5. w \in Log /\ loop'[r].new = w /\ loop'[r].resp = loop[r].resp \o w
    BY <2>1, <2>3, <2>4 DEF Log
  <2> QED
    BY <2>1, <2>5, LandedMade
<1>2. CASE ModelReplies(r)
  <2>1. PICK reply \in Replies :
          /\ loop[r].at = "llm" /\ UNCHANGED rows /\ loop'[r].at = "save"
          /\ loop'[r].new = NewMessages(r, reply) /\ loop'[r].resp = loop[r].resp \o NewMessages(r, reply)
    BY <1>2, ReplyStored
  <2> DEFINE w == NewMessages(r, reply)
  <2>2. Good(loop[r].msgs) /\ Closed(loop[r].msgs) /\ loop[r].n \in 1 .. MaxSteps
    BY <2>1, LoopOf DEF LoopOK
  <2>3. PICK s : Good(s) /\ Closed(s)
    BY <2>2
  <2>4. w \in Seq(Message)
    BY <2>2, <2>3, Replied
  <2>5. w \in Log /\ loop'[r].new = w /\ loop'[r].resp = loop[r].resp \o w
    BY <2>1, <2>4 DEF Log
  <2> HIDE DEF w
  <2> QED
    BY <2>1, <2>5, LandedMade
<1> QED
  BY <1>1, <1>2

(* A summary is stored as it joins the responses.                           *)
LEMMA LandedCompaction ==
  ASSUME Inv, NEW r \in Req, LandedAll, NEW back, Compacts(r, back), "save" \notin Faults,
         (loop[r].at = "llm" /\ back = "llm") \/ (loop[r].at = "compact" /\ back = "next"),
         rows' = rows => loop'[r].resp = loop[r].resp
  PROVE  Landed(loop'[r], rows')
<1>1. loop[r].at \notin {"save", "done"} /\ loop'[r].at \in {back, "done"} /\ loop'[r].at # "save"
  BY DEF Compacts
<1>2. CASE rows' = rows
  BY <1>1, <1>2, LandedSame
<1>3. CASE rows' = rows \o <<Summary(r)>>
  <2>1. Elements(loop[r].resp) \subseteq Elements(rows)
    BY <1>1 DEF LandedAll, Landed
  <2>2. PICK s \in Log, u \in Message, w \in Log, R \in Log :
          s = loop[r].resp /\ u = Summary(r) /\ w = <<u>> /\ Elements(w) = {u} /\ R = rows
    <3>1. loop[r].resp \in Log /\ Summary(r) \in Message /\ rows \in Log
      BY LoopOf, SummaryOf DEF Inv, Types
    <3>2. <<Summary(r)>> \in Seq(Message) /\ Elements(<<Summary(r)>>) = {Summary(r)}
      BY <3>1, OneElement
    <3> QED
      BY <3>1, <3>2 DEF Log
  <2>3. Elements(Append(s, u)) = Elements(s) \cup {u} /\ Elements(R \o w) = Elements(R) \cup {u}
    <3>1. s \in Seq(Message) /\ w \in Seq(Message) /\ R \in Seq(Message)
      BY DEF Log
    <3>2. Elements(Append(s, u)) = Elements(s) \cup {u}
      BY <3>1, ElementsOfAppend
    <3>3. Elements(R \o w) = Elements(R) \cup Elements(w)
      BY <3>1, ElementsOfJoin
    <3> QED
      BY <2>2, <3>2, <3>3
  <2>4. loop'[r].resp = s \/ loop'[r].resp = Append(s, u)
    BY <2>2 DEF Compacts
  <2>5. rows' = R \o w
    BY <1>3, <2>2
  <2>6. Elements(loop'[r].resp) \subseteq Elements(rows')
    BY <2>1, <2>2, <2>3, <2>4, <2>5
  <2> QED
    BY <1>1, <2>6 DEF Landed
<1> QED
  BY <1>2, <1>3 DEF Compacts

(* A summary that is not stored was not made: no checkpoint fails.          *)
LEMMA SummaryLands ==
  ASSUME Inv, NEW r \in Req, LandedAll, Overflow(r) \/ CompactAfterStep(r), "save" \notin Faults
  PROVE  Landed(loop'[r], rows')
<1>1. \A w : ~CheckpointFails(w)
  BY DEF CheckpointFails
<1>2. rows \in Log /\ Summary(r) \in Message
  BY LoopOf, SummaryOf DEF Inv, Types
<1>3. rows \o <<Summary(r)>> # rows
  <2>1. PICK u \in Message, R \in Seq(Message) : u = Summary(r) /\ R = rows
    BY <1>2 DEF Log
  <2>2. Len(R \o <<u>>) = Len(R) + 1 /\ Len(R) \in Nat
    OBVIOUS
  <2> QED
    BY <2>1, <2>2
<1>4. CASE Overflow(r)
  <2>1. loop[r].at = "llm" /\ Compacts(r, "llm")
    BY <1>4, OverflowCompacts
  <2>2. CASE Finish(r, "error") /\ UNCHANGED <<ctx, rows>>
    BY <2>1, <2>2, LandedFinish
  <2>3. CASE rows' = rows \o <<Summary(r)>>
    BY <1>3, <2>1, <2>3, LandedCompaction
  <2> QED
    BY <1>1, <1>4, <2>2, <2>3 DEF Overflow, Checkpoint
<1>5. CASE CompactAfterStep(r)
  <2>1. loop[r].at = "compact" /\ Compacts(r, "next")
    BY <1>5, CompactAfterStepCompacts
  <2>2. ASSUME FinishSwallowing(r), UNCHANGED <<ctx, rows>>
        PROVE  Landed(loop'[r], rows')
    BY <2>1, <2>2, LandedFinish DEF FinishSwallowing
  <2>3. CASE rows' = rows \o <<Summary(r)>>
    BY <1>3, <2>1, <2>3, LandedCompaction
  <2> QED
    BY <1>1, <1>5, <2>2, <2>3 DEF CompactAfterStep, Checkpoint
<1> QED
  BY <1>4, <1>5

(* The step is stored, and its responses with it.                           *)
LEMMA LandedSave ==
  ASSUME Inv, NEW r \in Req, LandedAll, Save(r)
  PROVE  Landed(loop'[r], rows')
<1>1. /\ loop[r].at = "save" /\ loop'[r].at \in {"next", "compact"} /\ loop'[r].resp = loop[r].resp
      /\ rows' = rows \o (loop[r].input \o loop[r].new)
  BY Saved
<1>2. PICK v \in Log, w \in Log, R \in Log : v = loop[r].input /\ w = loop[r].new /\ R = rows
  BY LoopOf DEF Inv, Types
<1>3. Elements(v \o w) = Elements(v) \cup Elements(w) /\ v \o w \in Log
  BY ElementsOfJoin DEF Log
<1>4. PICK x \in Log : x = v \o w
  BY <1>3
<1>5. Elements(R \o x) = Elements(R) \cup Elements(x)
  BY ElementsOfJoin DEF Log
<1>6. Elements(loop[r].resp) \subseteq Elements(rows) \cup Elements(loop[r].new)
  BY <1>1 DEF LandedAll, Landed
<1>7. rows' = R \o x
  BY <1>1, <1>2, <1>4
<1>8. Elements(loop'[r].resp) \subseteq Elements(rows')
  BY <1>1, <1>2, <1>3, <1>4, <1>5, <1>6, <1>7
<1> QED
  BY <1>1, <1>8 DEF Landed

(* The loop goes on, or ends.                                               *)
LEMMA LandedNextStep ==
  ASSUME Inv, NEW r \in Req, LandedAll, NextStep(r)
  PROVE  Landed(loop'[r], rows')
<1>1. loop[r].at = "next" /\ UNCHANGED rows
  BY DEF NextStep
<1>2. ASSUME NEW stop, Finish(r, stop)
      PROVE  Landed(loop'[r], rows')
  BY <1>1, <1>2, LandedFinish
<1>3. CASE ~\E stop : Finish(r, stop)
  <2>1. loop'[r].at = "step" /\ loop'[r].resp = loop[r].resp
    BY <1>3, Proceeds
  <2> QED
    BY <1>1, <2>1, LandedSame
<1> QED
  BY <1>2, <1>3

(* Every action of a loop.                                                  *)
LEMMA LandedLoop ==
  ASSUME Inv, NEW r \in Req, LandedAll, Loop(r), "save" \notin Faults
  PROVE  Landed(loop'[r], rows')
<1>1. ASSUME NEW stop, Finish(r, stop), UNCHANGED rows, loop[r].at \notin {"save", "done"} \/ stop = "crashed"
      PROVE  Landed(loop'[r], rows')
  BY <1>1, LandedFinish
<1>2. CASE LoadAgent(r) \/ AskModel(r)
  BY <1>2, LandedEarly
<1>3. CASE Refused(r)
  BY <1>1, <1>3 DEF Refused
<1>4. CASE Prepare(r)
  BY <1>4, LandedPrepare
<1>5. CASE AnswerStep(r) \/ ModelReplies(r)
  BY <1>5, LandedReplies
<1>6. CASE SeeCancel(r)
  BY <1>1, <1>6 DEF SeeCancel
<1>7. CASE ModelFails(r)
  BY <1>1, <1>7 DEF ModelFails
<1>8. CASE Overflow(r) \/ CompactAfterStep(r)
  BY <1>8, SummaryLands
<1>9. CASE Save(r)
  BY <1>9, LandedSave
<1>10. CASE SaveFails(r)
  BY <1>10 DEF SaveFails, CheckpointFails
<1>11. CASE NextStep(r)
  BY <1>11, LandedNextStep
<1>12. CASE Abandoned(r)
  BY <1>1, <1>12 DEF Abandoned
<1>13. CASE Crash(r)
  BY <1>1, <1>13 DEF Crash
<1> QED
  BY <1>2, <1>3, <1>4, <1>5, <1>6, <1>7, <1>8, <1>9, <1>10, <1>11, <1>12, <1>13 DEF Loop

(* What a step of the group does to its request: it goes on in the          *)
(* `finally`, or leaves it; it moves the id; or its task ends.              *)
GoesOn(r) ==
  /\ InFinally(r) /\ UNCHANGED <<anchor, transcript>>
  /\ group'[r].at \in {"bump", "due", "claim", "over"}
  /\ group'[r].at = "claim" => group'[r].after = anchor /\ loop[r].resp # <<>>
Claims(r) ==
  /\ group[r].at = "claim" /\ group'[r].at = "task" /\ group'[r].after = group[r].after
  /\ anchor' = Newest(r) /\ UNCHANGED transcript
TaskEnds(r) ==
  /\ group[r].at = "task" /\ group'[r].after = group[r].after /\ UNCHANGED anchor
  /\ \/ group'[r].at = "over" /\ transcript' = [transcript EXCEPT ![r] = Prior(r) \cup Responses(r)]
     \/ group'[r].at = "lost" /\ UNCHANGED transcript

(* Every step of the group is one of these.                                 *)
LEMMA GroupEffect ==
  ASSUME GroupTypes, NEW r \in Req, Ended(r), GroupStep(r)
  PROVE  /\ \A q \in Req : q # r => group'[q] = group[q]
         /\ GoesOn(r) \/ Claims(r) \/ TaskEnds(r)
<1>1. Due(r) \in {"due", "over"} /\ {"bump", "due", "claim", "task", "over", "lost"} \subseteq GroupPoint
  BY DEF Due, GroupPoint
<1>2. group[r].at \in {"bump", "due"} => InFinally(r)
  BY DEF Ended, InFinally
<1>3. CASE ReadCounter(r)
  <2>1. PICK at \in GroupPoint : at \in {"bump", "due", "over"} /\ Move(r, [group[r] EXCEPT !.at = at, !.read = counter])
    <3>1. Move(r, [group[r] EXCEPT !.at = IF Frequency = 0 THEN Due(r) ELSE "bump", !.read = counter])
      BY <1>3 DEF ReadCounter
    <3>2. CASE Frequency = 0
      BY <1>1, <3>1, <3>2
    <3>3. CASE Frequency # 0
      BY <1>1, <3>1, <3>3
    <3> QED
      BY <3>2, <3>3
  <2>2. PICK f : f = [group[r] EXCEPT !.at = at, !.read = counter]
    OBVIOUS
  <2>3. f.at = at
    BY <2>2, MovedRecord
  <2>4. group'[r] = f /\ \A q \in Req : q # r => group'[q] = group[q]
    BY <2>1, <2>2, Moved
  <2>5. InFinally(r) /\ UNCHANGED <<anchor, transcript>>
    BY <1>3 DEF ReadCounter
  <2> QED
    BY <2>1, <2>3, <2>4, <2>5 DEF GoesOn
<1>4. CASE BumpCounter(r) \/ StopInFinally(r)
  <2>1. PICK at \in GroupPoint : at \in {"due", "over"} /\ Move(r, [group[r] EXCEPT !.at = at])
    <3>1. CASE BumpCounter(r)
      <4>1. Move(r, [group[r] EXCEPT !.at = IF counter' = 0 THEN Due(r) ELSE "over"])
        BY <3>1 DEF BumpCounter
      <4>2. CASE counter' = 0
        BY <1>1, <4>1, <4>2
      <4>3. CASE counter' # 0
        BY <1>1, <4>1, <4>3
      <4> QED
        BY <4>2, <4>3
    <3>2. CASE StopInFinally(r)
      BY <1>1, <3>2 DEF StopInFinally
    <3> QED
      BY <1>4, <3>1, <3>2
  <2>2. PICK f : f = [group[r] EXCEPT !.at = at]
    OBVIOUS
  <2>3. f.at = at
    BY <2>2, MovedRecord
  <2>4. group'[r] = f /\ \A q \in Req : q # r => group'[q] = group[q]
    BY <2>1, <2>2, Moved
  <2>5. InFinally(r) /\ UNCHANGED <<anchor, transcript>>
    BY <1>2, <1>4 DEF BumpCounter, StopInFinally
  <2> QED
    BY <2>1, <2>3, <2>4, <2>5 DEF GoesOn
<1>5. CASE ReadAnchor(r)
  <2>1. PICK f : f = [group[r] EXCEPT !.at = "claim", !.after = anchor]
    OBVIOUS
  <2>2. f.at = "claim" /\ f.after = anchor
    BY <1>1, <2>1, MovedRecord
  <2>3. group'[r] = f /\ \A q \in Req : q # r => group'[q] = group[q]
    BY <1>5, <2>1, Moved DEF ReadAnchor
  <2>4. InFinally(r) /\ UNCHANGED <<anchor, transcript>> /\ loop[r].resp # <<>>
    BY <1>2, <1>5 DEF ReadAnchor, Ended
  <2> QED
    BY <2>2, <2>3, <2>4 DEF GoesOn
<1>6. CASE MoveAnchor(r)
  <2>1. PICK f : f = [group[r] EXCEPT !.at = "task"]
    OBVIOUS
  <2>2. f.at = "task" /\ f.after = group[r].after
    BY <1>1, <2>1, MovedRecord
  <2>3. group'[r] = f /\ \A q \in Req : q # r => group'[q] = group[q]
    BY <1>6, <2>1, Moved DEF MoveAnchor
  <2> QED
    BY <1>6, <2>2, <2>3 DEF MoveAnchor, Claims
<1>7. CASE Review(r)
  <2>1. PICK f : f = [group[r] EXCEPT !.at = "over"]
    OBVIOUS
  <2>2. f.at = "over" /\ f.after = group[r].after
    BY <1>1, <2>1, MovedRecord
  <2>3. group'[r] = f /\ \A q \in Req : q # r => group'[q] = group[q]
    BY <1>7, <2>1, Moved DEF Review
  <2> QED
    BY <1>7, <2>2, <2>3 DEF Review, TaskEnds
<1>8. CASE LoseTask(r)
  <2>1. PICK f : f = [group[r] EXCEPT !.at = "lost"]
    OBVIOUS
  <2>2. f.at = "lost" /\ f.after = group[r].after
    BY <1>1, <2>1, MovedRecord
  <2>3. group'[r] = f /\ \A q \in Req : q # r => group'[q] = group[q]
    BY <1>8, <2>1, Moved DEF LoseTask
  <2> QED
    BY <1>8, <2>2, <2>3 DEF LoseTask, TaskEnds
<1> QED
  BY <1>3, <1>4, <1>5, <1>6, <1>7, <1>8 DEF GroupStep

(* The rows of the run that holds the lock are the last ones of the table.  *)
Contiguous ==
  \A r \in Req : Busy(r) =>
    \A i \in DOMAIN rows, j \in DOMAIN rows :
      i < j /\ rows[i].run = r /\ rows[i].kind # "system" => rows[j].run = r

(* A turn that hands over has stored what it reports, and the id it read    *)
(* names a row or nothing.                                                  *)
Handing(r) == group[r].at \in {"claim", "task", "lost"} \/ transcript[r] # {}

Sound ==
  /\ LandedAll /\ Contiguous /\ anchor # NoRow
  /\ \A r \in Req : Handing(r) => loop[r].resp # <<>> /\ group[r].after # NoRow

(* Where the responses of a turn that hands over begin, and end.            *)
LEMMA ReportInTable ==
  ASSUME Inv, Reporting, LandedAll, NEW r \in Req, loop[r].at = "done", loop[r].stop # "crashed",
         loop[r].resp # <<>>
  PROVE  /\ Newest(r) # NoRow /\ RowsOf(Head(loop[r].resp)) # {}
         /\ Min(RowsOf(Head(loop[r].resp))) \in Responses(r)
         /\ Responses(r) \subseteq DOMAIN rows
         /\ \A j \in Responses(r) : rows[j].run = r /\ rows[j].kind \in Made \cup {"summary"}
<1>1. PICK s \in Log : s = loop[r].resp /\ s # <<>>
  BY LoopOf
<1>2. Last(s) \in Elements(s) /\ Head(s) \in Elements(s)
  <2>1. Len(s) \in DOMAIN s /\ 1 \in DOMAIN s /\ Head(s) = s[1]
    BY <1>1 DEF Log
  <2> QED
    BY <2>1 DEF Last, Elements
<1>3. Elements(s) \subseteq Elements(rows)
  BY <1>1 DEF LandedAll, Landed
<1>4. DOMAIN rows = 1 .. Len(rows) /\ Len(rows) \in Nat
  BY DEF Inv, Types, Log
<1>5. \A m \in Elements(s) : RowsOf(m) # {} /\ RowsOf(m) \in SUBSET (1 .. Len(rows))
  BY <1>3, <1>4 DEF RowsOf, Elements
<1>6. Newest(r) # NoRow
  <2>1. PICK T : T = RowsOf(Last(s)) /\ T # {} /\ T \in SUBSET (1 .. Len(rows))
    BY <1>2, <1>5
  <2>2. Newest(r) = Max(T) /\ Max(T) \in T
    BY <1>1, <1>4, <2>1, FirstAndLast DEF Newest
  <2> QED
    BY <1>4, <2>1, <2>2 DEF NoRow
<1>7. PICK S : S = RowsOf(Head(s)) /\ S # {} /\ S \in SUBSET (1 .. Len(rows))
  BY <1>2, <1>5
<1>8. Min(S) \in S
  BY <1>4, <1>7, FirstAndLast
<1>9. Min(S) \in Responses(r)
  BY <1>1, <1>2, <1>7, <1>8 DEF Responses
<1>10. \A j \in Responses(r) : j \in DOMAIN rows /\ rows[j] \in Elements(s)
  BY <1>1 DEF Responses, RowsOf
<1>11. \A m \in Elements(s) : m.run = r /\ m.kind \in Made \cup {"summary"}
  BY <1>1 DEF Reporting, Reports, ReportOf
<1> QED
  BY <1>1, <1>6, <1>7, <1>9, <1>10, <1>11

(* A loop's step adds to the table, if at all, rows of its run.             *)
LEMMA RowsAdded ==
  ASSUME Inv, NEW r \in Req, ReportStep(r)
  PROVE  /\ DOMAIN rows = 1 .. Len(rows) /\ Len(rows) \in Nat /\ Elements(rows) \subseteq Elements(rows')
         /\ \A i \in DOMAIN rows : i \in DOMAIN rows' /\ rows'[i] = rows[i]
         /\ \A i \in DOMAIN rows' : i \notin DOMAIN rows => rows'[i].run = r
         /\ \E w \in Log : rows' = rows \o w /\ \A m \in Elements(w) : m.run = r
         /\ rows' = rows \/ Active(r)
<1>1. rows \in Log /\ DOMAIN rows = 1 .. Len(rows) /\ Len(rows) \in Nat
  BY DEF Inv, Types, Log
<1>2. rows' = rows \/ Active(r)
  BY DEF ReportStep
<1>3. PICK w \in Log : rows' = rows \o w /\ \A m \in Elements(w) : m.run = r
  <2>1. CASE rows' = rows
    <3>1. rows = rows \o <<>> /\ <<>> \in Log /\ Elements(<<>>) = {}
      BY <1>1 DEF Log, Elements
    <3> QED
      BY <2>1, <3>1
  <2> QED
    BY <2>1 DEF ReportStep
<1>4. /\ \A i \in DOMAIN rows : i \in DOMAIN rows' /\ rows'[i] = rows[i]
      /\ \A i \in DOMAIN rows' : i \notin DOMAIN rows => i > Len(rows) /\ rows'[i] \in Elements(w)
  <2>1. PICK R \in Log : R = rows
    BY <1>1
  <2>2. PICK Q : Q = rows'
    OBVIOUS
  <2>3. R \o w = Q
    BY <1>3, <2>1, <2>2
  <2>4. /\ \A i \in DOMAIN R : i \in DOMAIN Q /\ Q[i] = R[i]
        /\ \A i \in DOMAIN Q : i \notin DOMAIN R => i > Len(R) /\ Q[i] \in Elements(w)
    BY <2>3, TableKept
  <2> QED
    BY <2>1, <2>2, <2>4
<1>5. Elements(rows) \subseteq Elements(rows')
  BY <1>4 DEF Elements
<1> QED
  BY <1>1, <1>2, <1>3, <1>4, <1>5

(* The end of the stream of a turn that hands over.                         *)
LEMMA HandingEnded ==
  ASSUME NEW r \in Req, Ended(r), Handing(r)
  PROVE  loop[r].at = "done" /\ loop[r].stop \notin {"busy", "crashed"}
<1>1. group[r].at # "stream"
  BY DEF Handing, Ended
<1> QED
  BY <1>1 DEF Ended

(* A step of a loop keeps its rows together.                                *)
LEMMA SoundLoop ==
  ASSUME Inv, Reporting, Handed, Sound, "save" \notin Faults,
         NEW r \in Req, Loop(r), UNCHANGED groupVars, Handed'
  PROVE  Sound'
<1>1. /\ ReportStep(r) /\ loop[r].at # "done" /\ group' = group /\ transcript' = transcript /\ anchor' = anchor
      /\ \A q \in Req : q # r => loop'[q] = loop[q]
  BY ReportLoop, LoopEntry DEF groupVars, ReportStep
<1>2. /\ Elements(rows) \subseteq Elements(rows') /\ (rows' = rows \/ Active(r))
      /\ \A i \in DOMAIN rows : i \in DOMAIN rows' /\ rows'[i] = rows[i]
      /\ \A i \in DOMAIN rows' : i \notin DOMAIN rows => rows'[i].run = r
      /\ DOMAIN rows = 1 .. Len(rows) /\ Len(rows) \in Nat
  BY <1>1, RowsAdded
<1>3. LandedAll /\ Contiguous /\ anchor # NoRow /\ OneInStream /\ OneInStream' /\ \A q \in Req : Ended(q)
  BY DEF Sound, Handed
<1>4. LandedAll'
  <2>1. Landed(loop'[r], rows')
    BY <1>3, LandedLoop
  <2>2. ASSUME NEW q \in Req, q # r
        PROVE  Landed(loop'[q], rows')
    <3>1. Landed(loop[q], rows) /\ loop'[q] = loop[q]
      BY <1>1, <1>3, <2>2 DEF LandedAll
    <3> QED
      BY <1>2, <3>1 DEF Landed
  <2> QED
    BY <2>1, <2>2 DEF LandedAll
<1>5. Contiguous'
  <2>1. ASSUME NEW x \in Req, Busy(x)', NEW i \in DOMAIN rows', NEW j \in DOMAIN rows',
               i < j, rows'[i].run = x, rows'[i].kind # "system"
        PROVE  rows'[j].run = x
    <3>1. CASE x # r
      <4>1. Busy(x)
        <5>1. loop'[x] = loop[x] /\ group'[x] = group[x]
          BY <1>1, <3>1
        <5> QED
          BY <2>1, <5>1 DEF Busy, Active, InFinally
      <4>2. ~Active(r)
        BY <1>3, <3>1, <4>1 DEF OneInStream, Busy
      <4>3. rows' = rows
        BY <1>2, <4>2
      <4> QED
        BY <1>3, <2>1, <4>1, <4>3 DEF Contiguous
    <3>2. CASE x = r /\ j \notin DOMAIN rows
      BY <1>2, <2>1, <3>2
    <3>3. CASE x = r /\ j \in DOMAIN rows
      <4>1. i \in DOMAIN rows
        <5>1. i \in Nat
          <6>1. rows' \in Log
            <7>1. PICK w \in Log : rows' = rows \o w
              BY <1>1, RowsAdded
            <7>2. rows \in Log
              BY DEF Inv, Types
            <7> QED
              BY <7>1, <7>2 DEF Log
          <6> QED
            BY <2>1, <6>1 DEF Log
        <5>2. i >= 1
          <6>1. PICK w \in Log : rows' = rows \o w
            BY <1>1, RowsAdded
          <6>2. rows \in Log
            BY DEF Inv, Types
          <6>3. rows' \in Seq(Message)
            BY <6>1, <6>2 DEF Log
          <6> QED
            BY <2>1, <6>3
        <5> QED
          BY <1>2, <2>1, <3>3, <5>1, <5>2
      <4>2. rows'[i] = rows[i] /\ rows'[j] = rows[j]
        BY <1>2, <3>3, <4>1
      <4>3. CASE Busy(r)
        BY <1>3, <2>1, <3>3, <4>1, <4>2, <4>3 DEF Contiguous
      <4>4. CASE ~Busy(r)
        <5>1. loop[r].at = "loaded"
          <6>1. ~(loop'[r].at = "loaded") /\ ~(loop'[r].at = "done" /\ loop'[r].stop = "busy")
            BY <2>1, <3>3 DEF Busy, Active, InFinally
          <6> QED
            BY <4>4, <6>1, LoopEntry DEF Busy
        <5>2. Numbered(r, loop[r], rows) /\ rows[i] \in Elements(rows)
          BY <4>1 DEF Reporting, Reports, Elements
        <5> QED
          BY <2>1, <3>3, <4>2, <5>1, <5>2 DEF Numbered
      <4> QED
        BY <4>3, <4>4
    <3> QED
      BY <3>1, <3>2, <3>3
  <2> QED
    BY <2>1 DEF Contiguous
<1>6. ASSUME NEW q \in Req, Handing(q)'
      PROVE  loop'[q].resp # <<>> /\ group'[q].after # NoRow
  <2>1. Handing(q)
    BY <1>1, <1>6 DEF Handing
  <2>2. loop[q].at = "done"
    BY <1>3, <2>1, HandingEnded
  <2>3. loop'[q] = loop[q] /\ group'[q] = group[q]
    BY <1>1, <2>2
  <2> QED
    BY <2>1, <2>3 DEF Sound
<1>7. anchor' # NoRow
  BY <1>1, <1>3
<1> QED
  BY <1>4, <1>5, <1>6, <1>7 DEF Sound

(* A step of the group: the id that moves is that of a stored message.      *)
LEMMA SoundGroupStep ==
  ASSUME Inv, GroupTypes, Reporting, Handed, Sound, NEW r \in Req, GroupStep(r), UNCHANGED vars
  PROVE  Sound'
<1>1. rows' = rows /\ loop' = loop
  BY DEF vars
<1>2. /\ LandedAll /\ Contiguous /\ anchor # NoRow /\ \A q \in Req : Ended(q)
      /\ \A q \in Req : Handing(q) => loop[q].resp # <<>> /\ group[q].after # NoRow
  BY DEF Sound, Handed
<1>3. (\A q \in Req : q # r => group'[q] = group[q]) /\ (GoesOn(r) \/ Claims(r) \/ TaskEnds(r))
  BY <1>2, GroupEffect
<1>4. LandedAll'
  BY <1>1, <1>2 DEF LandedAll
<1>5. \A q \in Req : q # r => transcript'[q] = transcript[q]
  BY <1>3 DEF GoesOn, Claims, TaskEnds, GroupTypes
<1>6. Ended(r) /\ (group[r].at \in {"stream", "bump", "due", "claim", "task"} => transcript[r] = {})
  BY <1>2 DEF Ended
<1>7. Contiguous'
  <2>1. ASSUME NEW x \in Req, Busy(x)'
        PROVE  Busy(x)
    <3>1. CASE x = r
      <4>1. ASSUME TaskEnds(r) \/ Claims(r)
            PROVE  ~InFinally(r)'
        BY <4>1 DEF TaskEnds, Claims, InFinally
      <4>2. GoesOn(r) => InFinally(r)
        BY DEF GoesOn
      <4>3. Active(r)' => Active(r)
        BY <1>1 DEF Active
      <4> QED
        BY <1>3, <2>1, <3>1, <4>1, <4>2, <4>3 DEF Busy
    <3>2. CASE x # r
      BY <1>1, <1>3, <2>1, <3>2 DEF Busy, Active, InFinally
    <3> QED
      BY <3>1, <3>2
  <2> QED
    BY <1>1, <1>2, <2>1 DEF Contiguous
<1>8. anchor' # NoRow
  <2>1. CASE Claims(r)
    <3>1. Handing(r) /\ loop[r].at = "done" /\ loop[r].stop # "crashed" /\ loop[r].resp # <<>>
      BY <1>2, <1>6, <2>1, HandingEnded DEF Claims, Handing
    <3> QED
      BY <1>2, <2>1, <3>1, ReportInTable DEF Claims
  <2> QED
    BY <1>2, <1>3, <2>1 DEF GoesOn, TaskEnds
<1>9. ASSUME NEW q \in Req, Handing(q)'
      PROVE  loop'[q].resp # <<>> /\ group'[q].after # NoRow
  <2>1. CASE q # r
    BY <1>1, <1>2, <1>3, <1>5, <1>9, <2>1 DEF Handing
  <2>2. CASE q = r /\ GoesOn(r)
    <3>1. group'[r].at \in {"bump", "due", "claim", "over"} /\ transcript'[r] = {}
      BY <1>6, <2>2 DEF GoesOn, InFinally
    <3>2. group'[r].at = "claim"
      BY <1>9, <2>2, <3>1 DEF Handing
    <3> QED
      BY <1>1, <1>2, <2>2, <3>2 DEF GoesOn
  <2>3. CASE q = r /\ (Claims(r) \/ TaskEnds(r))
    <3>1. Handing(r) /\ group'[r].after = group[r].after
      BY <2>3 DEF Claims, TaskEnds, Handing
    <3> QED
      BY <1>1, <1>2, <2>3, <3>1
  <2> QED
    BY <1>3, <2>1, <2>2, <2>3
<1> QED
  BY <1>4, <1>7, <1>8, <1>9 DEF Sound

(* Who was given the message of a row, or why nobody was.                   *)
Covered(i) ==
  \/ \E r \in Req : i \in transcript[r]
  \/ \E r \in Req : InWindow(i, r)
  \/ \E j \in Responses(rows[i].run) : j < i

(* The rows up to the id, and the runs that stored them.                    *)
LEMMA UserRows ==
  ASSUME Inv, GroupTypes, RunsKnown
  PROVE  /\ DOMAIN rows = 1 .. Len(rows) /\ Len(rows) \in Nat /\ anchor \in Int
         /\ 1 .. anchor \subseteq DOMAIN rows
         /\ \A i \in DOMAIN rows : rows[i].kind = "user" => rows[i].run \in Req
<1>1. DOMAIN rows = 1 .. Len(rows) /\ Len(rows) \in Nat
  BY DEF Inv, Types, Log
<1>2. anchor \in Int /\ (anchor \in DOMAIN rows \/ anchor < 1)
  BY <1>1 DEF GroupTypes, Places, NoRow, NoMessage
<1>3. 1 .. anchor \subseteq DOMAIN rows
  BY <1>1, <1>2
<1>4. ASSUME NEW i \in DOMAIN rows, rows[i].kind = "user"
      PROVE  rows[i].run \in Req
  <2>1. rows[i] \in Elements(rows)
    BY DEF Elements
  <2>2. System.kind = "system"
    BY DEF System, Plain, Msg
  <2> QED
    BY <1>4, <2>1, <2>2 DEF RunsKnown
<1> QED
  BY <1>1, <1>2, <1>3, <1>4

(* A loop stores rows of its own: the windows of turns that are over stay.  *)
LEMMA BetweenStays ==
  ASSUME Inv, GroupTypes, Reporting, Sound, NEW r \in Req, ReportStep(r), loop[r].at # "done",
         UNCHANGED groupVars, NEW q \in Req, Ended(q), Handing(q)
  PROVE  Between(q)' = Between(q) /\ Listable(q)'
<1>1. group'[q] = group[q] /\ loop[q].at = "done" /\ loop[q].stop # "crashed"
  BY HandingEnded DEF groupVars
<1>2. loop'[q] = loop[q] /\ q # r
  BY <1>1 DEF ReportStep
<1>3. loop[q].resp # <<>> /\ group[q].after # NoRow /\ LandedAll
  BY DEF Sound
<1>4. RowsOf(Head(loop[q].resp)) # {}
  BY <1>1, <1>3, ReportInTable
<1>5. PICK w \in Log : rows' = rows \o w /\ \A m \in Elements(w) : m.run = r
  BY RowsAdded
<1>6. \A m \in Elements(w) : m.run # q
  BY <1>2, <1>5
<1>7. \A m \in Elements(loop[q].resp) : m.run = q
  BY DEF Reporting, Reports, ReportOf
<1>8. Before(q)' = Before(q)
  BY <1>1, <1>2, <1>3, <1>5, <1>6, <1>7, WindowStays
<1>9. Before(q) = Between(q)
  BY <1>3, <1>4 DEF Before, Listable
<1>10. Before(q)' = Between(q)' /\ Listable(q)'
  <2>1. \A i \in DOMAIN rows : i \in DOMAIN rows' /\ rows'[i] = rows[i]
    BY RowsAdded
  <2>2. RowsOf(Head(loop[q].resp))' # {}
    BY <1>2, <1>4, <2>1 DEF RowsOf
  <2>3. group'[q].after # NoRow
    BY <1>1, <1>3
  <2> QED
    BY <2>2, <2>3 DEF Before, Listable
<1> QED
  BY <1>8, <1>9, <1>10

(* What a run reported stays in its place.                                  *)
LEMMA ResponsesGrow ==
  ASSUME Inv, CallInv, NEW r \in Req, Loop(r), ReportStep(r), NEW x \in Req
  PROVE  Responses(x) \subseteq Responses(x)'
<1>1. Elements(loop[x].resp) \subseteq Elements(loop'[x].resp)
  <2>1. CallStep(r)
    BY CallsLoop
  <2>2. CASE x = r
    BY <2>1, <2>2 DEF CallStep
  <2>3. CASE x # r
    BY <2>3 DEF ReportStep
  <2> QED
    BY <2>2, <2>3
<1>2. \A i \in DOMAIN rows : i \in DOMAIN rows' /\ rows'[i] = rows[i]
  BY RowsAdded
<1> QED
  BY <1>1, <1>2 DEF Responses, RowsOf

(* A step of a loop uncovers nothing.                                       *)
LEMMA CoveredLoop ==
  ASSUME Inv, CallInv, GroupTypes, Reporting, RunsKnown, Handed, Sound, UserMessagesReviewed,
         NEW r \in Req, Loop(r), UNCHANGED groupVars
  PROVE  UserMessagesReviewed'
<1>1. /\ ReportStep(r) /\ loop[r].at # "done" /\ group' = group /\ transcript' = transcript /\ anchor' = anchor
  BY ReportLoop, LoopEntry DEF groupVars
<1>2. \A i \in DOMAIN rows : i \in DOMAIN rows' /\ rows'[i] = rows[i]
  BY <1>1, RowsAdded
<1>3. ASSUME NEW i \in 1 .. anchor, rows'[i].kind = "user"
      PROVE  Covered(i)'
  <2>1. i \in DOMAIN rows /\ rows'[i] = rows[i] /\ rows[i].run \in Req /\ Covered(i)
    <3>1. i \in DOMAIN rows
      BY UserRows
    <3>2. rows'[i] = rows[i] /\ rows[i].kind = "user"
      BY <1>2, <1>3, <3>1
    <3>3. Covered(i)
      BY <3>2 DEF UserMessagesReviewed, Covered
    <3> QED
      BY <3>1, <3>2, <3>3, UserRows
  <2>2. ASSUME NEW q \in Req, i \in transcript[q]
        PROVE  Covered(i)'
    BY <1>1, <2>2 DEF Covered
  <2>3. ASSUME NEW q \in Req, InWindow(i, q)
        PROVE  Covered(i)'
    <3>1. Handing(q) /\ Ended(q)
      BY <2>3 DEF InWindow, Handing, Handed
    <3>2. Between(q)' = Between(q) /\ Listable(q)'
      BY <1>1, <3>1, BetweenStays
    <3>3. InWindow(i, q)'
      BY <1>1, <2>3, <3>2 DEF InWindow
    <3> QED
      BY <3>3 DEF Covered
  <2>4. ASSUME NEW j \in Responses(rows[i].run), j < i
        PROVE  Covered(i)'
    <3>1. j \in Responses(rows[i].run)'
      BY <1>1, <2>1, <2>4, ResponsesGrow
    <3> QED
      BY <2>1, <2>4, <3>1 DEF Covered, Responses, RowsOf
  <2> QED
    BY <2>1, <2>2, <2>3, <2>4 DEF Covered
<1> QED
  BY <1>1, <1>3 DEF UserMessagesReviewed, Covered

(* The id moves to the newest response: what a user wrote meanwhile is in   *)
(* the window of the turn, or follows a response of the turn itself.        *)
LEMMA CoveredClaim ==
  ASSUME Inv, GroupTypes, Reporting, RunsKnown, Handed, Sound, UserMessagesReviewed,
         NEW r \in Req, GroupStep(r), Claims(r), UNCHANGED vars
  PROVE  UserMessagesReviewed'
<1>1. rows' = rows /\ loop' = loop
  BY DEF vars
<1>2. (\A q \in Req : Ended(q)) /\ LandedAll /\ Contiguous /\ anchor # NoRow
  BY DEF Sound, Handed
<1>3. /\ group[r].at = "claim" /\ group'[r].at = "task" /\ group'[r].after = group[r].after
      /\ anchor' = Newest(r) /\ transcript' = transcript /\ group[r].after = anchor
      /\ transcript[r] = {} /\ \A q \in Req : q # r => group'[q] = group[q]
  BY <1>2, GroupEffect DEF Claims, Ended
<1>4. loop[r].at = "done" /\ loop[r].stop \notin {"busy", "crashed"} /\ loop[r].resp # <<>> /\ Busy(r)
  BY <1>2, <1>3 DEF Ended, Busy, InFinally
<1>5. /\ Newest(r) # NoRow /\ Newest(r) \in DOMAIN rows
      /\ RowsOf(Head(loop[r].resp)) # {} /\ Responses(r) \subseteq DOMAIN rows
      /\ \A j \in Responses(r) : rows[j].run = r /\ rows[j].kind \in Made \cup {"summary"}
  BY <1>2, <1>4, ReportInTable, WindowEnds
<1>6. PICK m : m = Min(RowsOf(Head(loop[r].resp))) /\ m \in Responses(r)
  BY <1>2, <1>4, ReportInTable
<1>7. DOMAIN rows = 1 .. Len(rows) /\ Len(rows) \in Nat /\ anchor \in Int /\ 1 .. anchor \subseteq DOMAIN rows
  BY UserRows
<1>8. \A q \in Req : Responses(q)' = Responses(q)
  BY <1>1 DEF Responses, RowsOf
<1>9. ASSUME NEW i \in DOMAIN rows, rows[i].kind = "user", Covered(i)
      PROVE  Covered(i)'
  <2>1. ASSUME NEW q \in Req, InWindow(i, q)
        PROVE  InWindow(i, q)'
    <3>1. q # r
      BY <1>3, <2>1 DEF InWindow
    <3>2. group'[q] = group[q] /\ Between(q)' = Between(q) /\ (Listable(q) => Listable(q)')
      BY <1>1, <1>3, <3>1 DEF Between, Listable, RowsOf
    <3> QED
      BY <1>3, <2>1, <3>2 DEF InWindow
  <2>2. ASSUME NEW j \in Responses(rows[i].run), j < i
        PROVE  \E k \in Responses(rows[i].run)' : k < i
    <3>1. rows[i].run \in Req
      BY <1>9, UserRows
    <3> QED
      BY <1>1, <1>8, <2>2, <3>1
  <2> QED
    BY <1>1, <1>3, <1>9, <2>1, <2>2 DEF Covered
<1>10. ASSUME NEW i \in DOMAIN rows, rows[i].kind = "user", anchor < i
       PROVE  Covered(i)'
  <2>1. CASE i < m
    <3>1. i \in Between(r)'
      BY <1>1, <1>3, <1>6, <1>10, <2>1 DEF Between, RowsOf
    <3>2. Listable(r)'
      BY <1>1, <1>2, <1>3, <1>5 DEF Listable, RowsOf
    <3>3. InWindow(i, r)'
      BY <1>3, <3>1, <3>2 DEF InWindow
    <3> QED
      BY <3>3 DEF Covered
  <2>2. CASE m < i
    <3>1. m \in DOMAIN rows /\ rows[m].run = r /\ rows[m].kind # "system"
      BY <1>5, <1>6 DEF Made
    <3>2. rows[i].run = r
      BY <1>2, <1>4, <1>10, <2>2, <3>1 DEF Contiguous
    <3>3. m \in Responses(r)'
      BY <1>6, <1>8
    <3> QED
      BY <1>1, <2>2, <3>2, <3>3 DEF Covered
  <2>3. i # m
    BY <1>5, <1>6, <1>10 DEF Made
  <2>4. m \in Nat /\ i \in Nat
    BY <1>5, <1>6, <1>7
  <2> QED
    BY <2>1, <2>2, <2>3, <2>4
<1>11. ASSUME NEW i \in 1 .. Newest(r), rows[i].kind = "user"
       PROVE  Covered(i)'
  <2>1. i \in DOMAIN rows /\ i \in Nat /\ i >= 1
    BY <1>5, <1>7
  <2>2. CASE i <= anchor
    <3>1. i \in 1 .. anchor
      BY <1>7, <2>1, <2>2
    <3>2. Covered(i)
      BY <1>11, <3>1 DEF UserMessagesReviewed, Covered
    <3> QED
      BY <1>9, <1>11, <2>1, <3>2
  <2>3. CASE anchor < i
    BY <1>10, <1>11, <2>1, <2>3
  <2> QED
    BY <1>7, <2>1, <2>2, <2>3
<1> QED
  BY <1>1, <1>3, <1>11 DEF UserMessagesReviewed, Covered

(* A task is given its window, up to the limit, or is lost.                 *)
LEMMA CoveredTask ==
  ASSUME Inv, GroupTypes, Reporting, RunsKnown, Handed, Sound, UserMessagesReviewed, Frequency > 0,
         NEW r \in Req, GroupStep(r), TaskEnds(r), UNCHANGED vars
  PROVE  UserMessagesReviewed'
<1>1. rows' = rows /\ loop' = loop
  BY DEF vars
<1>2. (\A q \in Req : Ended(q)) /\ LandedAll
  BY DEF Sound, Handed
<1>3. /\ group[r].at = "task" /\ group'[r].after = group[r].after /\ anchor' = anchor
      /\ transcript[r] = {} /\ \A q \in Req : q # r => group'[q] = group[q] /\ transcript'[q] = transcript[q]
  BY <1>2, GroupEffect DEF TaskEnds, Ended, GroupTypes
<1>4. /\ loop[r].at = "done" /\ loop[r].stop \notin {"busy", "crashed"} /\ loop[r].resp # <<>>
      /\ group[r].after # NoRow
  BY <1>2, <1>3 DEF Ended, Sound, Handing
<1>5. RowsOf(Head(loop[r].resp)) # {} /\ Responses(r) # {}
  BY <1>2, <1>4, ReportInTable
<1>6. DOMAIN rows = 1 .. Len(rows) /\ Len(rows) \in Nat /\ 1 .. anchor \subseteq DOMAIN rows
  BY UserRows
<1>7. \A q \in Req : Responses(q)' = Responses(q) /\ Between(q)' = Between(q) /\ (Listable(q) => Listable(q)')
  <2>1. ASSUME NEW q \in Req
        PROVE  Responses(q)' = Responses(q) /\ Between(q)' = Between(q) /\ (Listable(q) => Listable(q)')
    <3>1. group'[q].after = group[q].after
      BY <1>3
    <3>2. Responses(q)' = Responses(q) /\ Between(q)' = Between(q)
      BY <1>1, <3>1 DEF Responses, Between, RowsOf
    <3>3. Listable(q) => Listable(q)'
      BY <1>1, <3>1 DEF Listable, RowsOf
    <3> QED
      BY <3>2, <3>3
  <2> QED
    BY <2>1
<1>8. ASSUME NEW i \in 1 .. anchor, rows[i].kind = "user"
      PROVE  Covered(i)'
  <2>1. Covered(i) /\ i \in DOMAIN rows /\ rows[i].run \in Req
    BY <1>6, <1>8, UserRows DEF UserMessagesReviewed, Covered
  <2>2. ASSUME NEW q \in Req, i \in transcript[q]
        PROVE  Covered(i)'
    <3>1. q # r
      BY <1>3, <2>2
    <3> QED
      BY <1>3, <2>2, <3>1 DEF Covered
  <2>3. ASSUME NEW q \in Req, InWindow(i, q), q # r
        PROVE  Covered(i)'
    <3>1. InWindow(i, q)'
      BY <1>3, <1>7, <2>3 DEF InWindow
    <3> QED
      BY <3>1 DEF Covered
  <2>4. ASSUME InWindow(i, r)
        PROVE  Covered(i)'
    <3>1. i \in Between(r) /\ Listable(r)
      BY <2>4 DEF InWindow
    <3>2. CASE group'[r].at = "lost" /\ transcript' = transcript
      <4>1. InWindow(i, r)'
        BY <1>3, <1>7, <3>1, <3>2 DEF InWindow
      <4> QED
        BY <4>1 DEF Covered
    <3>3. CASE transcript' = [transcript EXCEPT ![r] = Prior(r) \cup Responses(r)]
      <4>1. transcript'[r] = Prior(r) \cup Responses(r)
        BY <3>3 DEF GroupTypes
      <4> DEFINE J == {j \in Between(r) : j <= i}
      <4>2. Cardinality(J) \in Nat
        <5>1. J \subseteq 1 .. Len(rows)
          BY <1>6 DEF Between
        <5>2. IsFiniteSet(1 .. Len(rows))
          BY <1>6, FS_Interval
        <5> HIDE DEF J
        <5>3. IsFiniteSet(J)
          BY <5>1, <5>2, FS_Subset
        <5> QED
          BY <5>3, FS_CardinalityType
      <4> HIDE DEF J
      <4>3. CASE Cardinality(J) <= Limit
        <5>1. i \in Prior(r)
          BY <1>4, <1>5, <3>1, <4>3 DEF Prior, Listable, J
        <5> QED
          BY <4>1, <5>1 DEF Covered
      <4>4. CASE Cardinality(J) > Limit
        <5>1. transcript'[r] # {}
          BY <1>5, <4>1
        <5>2. InWindow(i, r)'
          BY <1>7, <3>1, <4>4, <5>1 DEF InWindow, J
        <5> QED
          BY <5>2 DEF Covered
      <4> QED
        BY <4>2, <4>3, <4>4, GroupAssumption
    <3> QED
      BY <3>2, <3>3 DEF TaskEnds
  <2>5. ASSUME NEW j \in Responses(rows[i].run), j < i
        PROVE  Covered(i)'
    <3>1. j \in Responses(rows[i].run)'
      BY <1>1, <1>7, <2>1, <2>5
    <3> QED
      BY <1>1, <2>5, <3>1 DEF Covered
  <2> QED
    BY <2>1, <2>2, <2>3, <2>4, <2>5 DEF Covered
<1> QED
  BY <1>1, <1>3, <1>8 DEF UserMessagesReviewed, Covered

(* Every step of the group.                                                 *)
LEMMA CoveredGroupStep ==
  ASSUME Inv, GroupTypes, Reporting, RunsKnown, Handed, Sound, UserMessagesReviewed, Frequency > 0,
         NEW r \in Req, GroupStep(r), UNCHANGED vars
  PROVE  UserMessagesReviewed'
<1>1. /\ \A q \in Req : q # r => group'[q] = group[q]
      /\ GoesOn(r) \/ Claims(r) \/ TaskEnds(r)
  BY GroupEffect DEF Handed
<1>2. CASE GoesOn(r)
  <2>1. rows' = rows /\ loop' = loop /\ transcript' = transcript /\ anchor' = anchor
    BY <1>2 DEF GoesOn, vars
  <2>2. transcript[r] = {} /\ group[r].at \notin {"task", "lost"}
    BY <1>2 DEF GoesOn, InFinally, Handed, Ended
  <2>3. ASSUME NEW i \in 1 .. anchor, Covered(i)
        PROVE  Covered(i)'
    <3>1. ASSUME NEW q \in Req, InWindow(i, q)
          PROVE  InWindow(i, q)'
      <4>1. q # r
        BY <2>2, <3>1 DEF InWindow
      <4>2. group'[q] = group[q] /\ Between(q)' = Between(q) /\ (Listable(q) => Listable(q)')
        BY <1>1, <2>1, <4>1 DEF Between, Listable, RowsOf
      <4> QED
        BY <2>1, <3>1, <4>2 DEF InWindow
    <3>2. Responses(rows[i].run)' = Responses(rows[i].run)
      BY <2>1 DEF Responses, RowsOf
    <3> QED
      BY <2>1, <2>3, <3>1, <3>2 DEF Covered
  <2> QED
    BY <2>1, <2>3 DEF UserMessagesReviewed, Covered
<1>3. CASE Claims(r)
  BY <1>3, CoveredClaim
<1>4. CASE TaskEnds(r)
  BY <1>4, CoveredTask
<1> QED
  BY <1>1, <1>2, <1>3, <1>4

(* Nothing happens.                                                         *)
LEMMA SoundIdle ==
  ASSUME Sound, UserMessagesReviewed, UNCHANGED <<rows, loop>>, UNCHANGED groupVars
  PROVE  Sound' /\ UserMessagesReviewed'
<1>1. rows' = rows /\ loop' = loop /\ group' = group /\ transcript' = transcript /\ anchor' = anchor
  BY DEF groupVars
<1>2. Sound'
  <2>1. LandedAll' /\ anchor' # NoRow
    BY <1>1 DEF Sound, LandedAll
  <2>2. Contiguous'
    BY <1>1 DEF Sound, Contiguous, Busy, Active, InFinally
  <2>3. \A q \in Req : Handing(q)' => loop'[q].resp # <<>> /\ group'[q].after # NoRow
    BY <1>1 DEF Sound, Handing
  <2> QED
    BY <2>1, <2>2, <2>3 DEF Sound
<1>3. UserMessagesReviewed'
  <2>1. \A x : Responses(x)' = Responses(x) /\ Between(x)' = Between(x) /\ (Listable(x) => Listable(x)')
    BY <1>1 DEF Responses, Between, Listable, RowsOf
  <2>2. \A i : \A q \in Req : InWindow(i, q) => InWindow(i, q)'
    BY <1>1, <2>1 DEF InWindow
  <2>3. \A i : Covered(i) => Covered(i)'
    BY <1>1, <2>1, <2>2 DEF Covered
  <2> QED
    BY <1>1, <2>3 DEF UserMessagesReviewed, Covered
<1> QED
  BY <1>2, <1>3

(* What a user wrote before the last processed message was given to the     *)
(* sleeptime agents, or is in the window of a turn whose task is under way, *)
(* was lost or met the limit, or was stored after a response of its own     *)
(* turn: if every request takes the lock of the conversation, the group has *)
(* a frequency and no checkpoint fails, the id never passes a message that  *)
(* no turn will hand over.                                                  *)
THEOREM UserMessagesHandedOver ==
  ASSUME Guarded, OneConversation, Frequency > 0, "save" \notin Faults
  PROVE  GroupSpec => []UserMessagesReviewed
<1>1. Init /\ GroupInit => Sound /\ UserMessagesReviewed
  <2>1. ASSUME Init, GroupInit, NEW r \in Req
        PROVE  ~Busy(r) /\ ~Handing(r) /\ Landed(loop[r], rows) /\ anchor = NoMessage
    <3>1. /\ loop[r].at = "idle" /\ loop[r].resp = <<>>
          /\ group[r].at = "stream" /\ transcript[r] = {} /\ anchor = NoMessage
      BY <2>1 DEF Init, GroupInit
    <3>2. Elements(<<>>) = {}
      BY DEF Elements
    <3> QED
      BY <3>1, <3>2 DEF Busy, Active, InFinally, Handing, Landed
  <2>2. ASSUME Init, GroupInit
        PROVE  Sound /\ UserMessagesReviewed
    <3>1. anchor = 0 /\ anchor # NoRow
      BY <2>2 DEF GroupInit, NoMessage, NoRow
    <3>2. Sound
      BY <2>1, <2>2, <3>1 DEF Sound, LandedAll, Contiguous
    <3>3. UserMessagesReviewed
      BY <3>1 DEF UserMessagesReviewed
    <3> QED
      BY <3>2, <3>3
  <2> QED
    BY <2>2
<1>2. /\ Inv /\ CallInv /\ Apart /\ RunsKnown /\ Reporting /\ GroupTypes /\ Handed /\ Handed'
      /\ Sound /\ UserMessagesReviewed /\ [GroupNext]_<<vars, groupVars>>
      => Sound' /\ UserMessagesReviewed'
  <2>1. ASSUME Inv, CallInv, RunsKnown, Reporting, GroupTypes, Handed, Handed', Sound, UserMessagesReviewed,
               NEW r \in Req, Loop(r), UNCHANGED groupVars
        PROVE  Sound' /\ UserMessagesReviewed'
    BY <2>1, SoundLoop, CoveredLoop
  <2>2. ASSUME Inv, Apart, Sound, UserMessagesReviewed, NEW r \in Req, Cancellation(r), UNCHANGED groupVars
        PROVE  Sound' /\ UserMessagesReviewed'
    BY <2>2, ApartCancellation, SoundIdle
  <2>3. ASSUME Inv, RunsKnown, Reporting, GroupTypes, Handed, Sound, UserMessagesReviewed,
               NEW r \in Req, GroupStep(r), UNCHANGED vars
        PROVE  Sound' /\ UserMessagesReviewed'
    BY <2>3, SoundGroupStep, CoveredGroupStep
  <2>4. ASSUME Sound, UserMessagesReviewed, UNCHANGED <<vars, groupVars>>
        PROVE  Sound' /\ UserMessagesReviewed'
    <3>1. UNCHANGED <<rows, loop>> /\ UNCHANGED groupVars
      BY <2>4 DEF vars
    <3> QED
      BY <2>4, <3>1, SoundIdle
  <2> QED
    BY <2>1, <2>2, <2>3, <2>4 DEF GroupNext
<1>3. Spec => []RunsKnown
  <2>1. History => RunsKnown
    BY DEF History
  <2> QED
    BY <2>1, HistoryHolds, PTL
<1> QED
  BY <1>1, <1>2, <1>3, GroupKeepsLoop, InvHolds, CallInvHolds, ApartHolds, ReportingHolds, GroupTypesHold, HandedHolds,
     PTL DEF GroupSpec

=============================================================================
