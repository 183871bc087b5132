-------------------------- MODULE AgentLoopProofs --------------------------
(***************************************************************************)
(* What AgentLoop promises, for every set of requests and of               *)
(* conversations, for any replies of the model, faults and cancellations.  *)
(*                                                                         *)
(* 1. Contexts. A context is well-formed, and nothing in it is without a   *)
(* row but the input of users that was not saved. WellFormed speaks of the *)
(* contexts stored. A step writes back what it loaded, extended or         *)
(* compacted, so the invariant asks of every sequence of messages on its   *)
(* way there (the snapshot, the context of the loop, its input and its new *)
(* messages, the list a cancellation read) that it is, or extends a good   *)
(* one to, a good one: Good, LoopOK, CancelOK.                             *)
(*                                                                         *)
(* 2. Calls. The types of the records, among them that executions are      *)
(* bounded by the requests, and that on locked conversations a call whose  *)
(* result is kept was executed once. Whoever executes a call says so in    *)
(* its response (Counted). On a locked conversation turns exclude each     *)
(* other (Turns): the calls an approval executes are open in the context   *)
(* until its result is stored, or lost.                                    *)
(*                                                                         *)
(* 3. History. On locked conversations whose checkpoints store both the    *)
(* rows and the context or neither, the request a conversation waits on    *)
(* ends its context, and every message is in the context or under a later  *)
(* summary. The invariant asks it of the context stored and of the copy    *)
(* the loop that has its turn works on, unless the result that answers the *)
(* request is among what that loop is about to store (History).            *)
(***************************************************************************)
EXTENDS AgentLoop, PlacesProofs, SequenceTheorems

-----------------------------------------------------------------------------
(* Contexts as sequences.                                                   *)

Log == Seq(Message)

(* Elements is the range of a sequence.                                     *)
LEMMA ElementsOf ==
  ASSUME NEW S, NEW s \in Seq(S)
  PROVE  /\ Elements(s) \subseteq S
         /\ \A i \in 1 .. Len(s) : s[i] \in S /\ s[i] \in Elements(s)
         /\ \A m \in Elements(s) : \E i \in 1 .. Len(s) : s[i] = m
         /\ DOMAIN s = 1 .. Len(s) /\ Len(s) \in Nat
BY DEF Elements

(* The elements and places of a concatenation.                              *)
LEMMA ElementsOfJoin ==
  ASSUME NEW S, NEW s \in Seq(S), NEW w \in Seq(S)
  PROVE  /\ s \o w \in Seq(S) /\ Len(s \o w) = Len(s) + Len(w)
         /\ Elements(s \o w) = Elements(s) \cup Elements(w)
         /\ \A i \in 1 .. Len(s) : (s \o w)[i] = s[i]
         /\ \A i \in 1 .. Len(w) : (s \o w)[Len(s) + i] = w[i]
<1> DEFINE t == s \o w
<1>1. /\ t \in Seq(S) /\ Len(t) = Len(s) + Len(w)
      /\ \A i \in 1 .. Len(s) : t[i] = s[i]
      /\ \A i \in 1 .. Len(w) : t[Len(s) + i] = w[i]
  OBVIOUS
<1>2. Len(s) \in Nat /\ Len(w) \in Nat
  OBVIOUS
<1> HIDE DEF t
<1>3. Elements(t) \subseteq Elements(s) \cup Elements(w)
  <2>1. ASSUME NEW m \in Elements(t)
        PROVE  m \in Elements(s) \/ m \in Elements(w)
    <3>1. PICK i \in 1 .. Len(t) : t[i] = m
      BY <1>1, <2>1, ElementsOf
    <3>2. CASE i <= Len(s)
      BY <1>1, <1>2, <3>1, <3>2, ElementsOf
    <3>3. CASE i > Len(s)
      <4>1. i - Len(s) \in 1 .. Len(w) /\ Len(s) + (i - Len(s)) = i
        BY <1>1, <1>2, <3>1, <3>3
      <4>2. w[i - Len(s)] = m
        BY <1>1, <3>1, <4>1
      <4> QED
        BY <4>1, <4>2, ElementsOf
    <3> QED
      BY <1>2, <3>2, <3>3
  <2> QED
    BY <2>1
<1>4. ASSUME NEW m \in Elements(s)
      PROVE  m \in Elements(t)
  <2>1. PICK i \in 1 .. Len(s) : s[i] = m
    BY ElementsOf
  <2>2. i \in 1 .. Len(t) /\ t[i] = m
    BY <1>1, <1>2, <2>1
  <2> QED
    BY <1>1, <2>2, ElementsOf
<1>5. ASSUME NEW m \in Elements(w)
      PROVE  m \in Elements(t)
  <2>1. PICK i \in 1 .. Len(w) : w[i] = m
    BY ElementsOf
  <2>2. Len(s) + i \in 1 .. Len(t) /\ t[Len(s) + i] = m
    BY <1>1, <1>2, <2>1
  <2> QED
    BY <1>1, <2>2, ElementsOf
<1>6. Elements(t) = Elements(s) \cup Elements(w)
  BY <1>3, <1>4, <1>5
<1> QED
  BY <1>1, <1>6 DEF t

(* The places of what was appended, for one or two elements.                *)
LEMMA JoinEnd ==
  ASSUME NEW S, NEW s \in Seq(S), NEW w \in Seq(S)
  PROVE  /\ s \o w \in Seq(S) /\ Len(s \o w) = Len(s) + Len(w)
         /\ \A i \in 1 .. Len(s) : (s \o w)[i] = s[i]
         /\ Len(w) > 0 => (s \o w)[Len(s) + 1] = w[1]
         /\ Len(w) = 2 => (s \o w)[Len(s) + 2] = w[2]
<1>1. /\ s \o w \in Seq(S) /\ Len(s \o w) = Len(s) + Len(w)
      /\ \A i \in 1 .. Len(s) : (s \o w)[i] = s[i]
      /\ \A i \in 1 .. Len(w) : (s \o w)[Len(s) + i] = w[i]
  BY ElementsOfJoin
<1>2. Len(w) \in Nat
  OBVIOUS
<1>3. \A n \in Nat : (n > 0 => 1 \in 1 .. n) /\ (n = 2 => 1 \in 1 .. n /\ 2 \in 1 .. n)
  OBVIOUS
<1> QED
  BY <1>1, <1>2, <1>3

(* A sequence of one message.                                               *)
LEMMA OneElement ==
  ASSUME NEW S, NEW m \in S
  PROVE  /\ <<m>> \in Seq(S) /\ Len(<<m>>) = 1 /\ <<m>>[1] = m
         /\ Elements(<<m>>) = {m}
BY DEF Elements

(* A sequence of two messages.                                              *)
LEMMA TwoElements ==
  ASSUME NEW S, NEW m \in S, NEW p \in S
  PROVE  /\ <<m, p>> \in Seq(S) /\ Len(<<m, p>>) = 2
         /\ <<m, p>>[1] = m /\ <<m, p>>[2] = p
         /\ Elements(<<m, p>>) = {m, p}
BY DEF Elements

(* The empty sequence.                                                      *)
LEMMA NoElements ==
  ASSUME NEW S
  PROVE  <<>> \in Seq(S) /\ Len(<<>>) = 0 /\ Elements(<<>>) = {}
BY DEF Elements

-----------------------------------------------------------------------------
(* Well-formed contexts.                                                    *)

Closed(s) == Last(s).kind # "request"

NoSplit == "mixed" \notin Replies \/ "sliding" \notin Modes

Continues(s, i) ==
  /\ s[i].kind = "call" =>
       /\ i < Len(s)
       /\ \/ s[i + 1].kind = "return" /\ s[i + 1].calls = s[i].calls
          \/ s[i + 1].kind = "request" /\ "mixed" \in Replies
  /\ s[i].kind = "request" =>
       i = Len(s) \/ (s[i + 1].kind = "response" /\ s[i + 1].calls = s[i].calls)
  /\ s[i].kind = "response" =>
       /\ 1 < i /\ i < Len(s)
       /\ s[i - 1].kind = "request"
       /\ s[i + 1].kind = "return"
       /\ NoSplit => s[i + 1].calls = s[i].calls \cup PendingPlain(s, i - 1)
  /\ s[i].kind = "return" => 1 < i /\ s[i - 1].kind \in {"call", "response"}

Good(s) ==
  /\ s \in Log /\ Len(s) > 0 /\ s[1] = System
  /\ \A i \in 1 .. Len(s) : Continues(s, i)

(* The system message is a message; the fields of any other are typed.      *)
LEMMA MessageParts ==
  /\ System \in Message /\ System.kind = "system" /\ System.calls = {}
  /\ \A m \in Message : m.kind \in Kind /\ m.calls \subseteq Call /\ m.run \in Req \cup {NoRun}
<1>1. \A m \in Message : m.kind \in Kind /\ m.calls \subseteq Call /\ m.run \in Req \cup {NoRun}
  BY DEF Message
<1>2. "system" \in Kind /\ 0 \in Nat
  BY LoopAssumption DEF Kind
<1> QED
  BY <1>1, <1>2 DEF System, Plain, Msg, Message

(* A well-formed context: the system message first, and behind each message *)
(* what may follow it.                                                      *)
LEMMA GoodFollows ==
  ASSUME NEW s, Good(s), NoSplit, NEW i \in DOMAIN s
  PROVE  s[1].kind = "system" /\ Follows(s, i)
<1>1. i \in 1 .. Len(s) /\ Len(s) \in Nat /\ s \in Seq(Message)
  BY DEF Good, Log
<1>2. Continues(s, i) /\ s[1].kind = "system"
  BY <1>1, MessageParts DEF Good
<1>3. CASE i < Len(s)
  BY <1>1, <1>2, <1>3 DEF Continues, Follows
<1>4. CASE i = Len(s)
  BY <1>1, <1>2, <1>4 DEF Continues, Follows
<1> QED
  BY <1>1, <1>2, <1>3, <1>4

(* A well-formed context has a last message, and it is no call or response  *)
(* without its result.                                                      *)
LEMMA GoodLast ==
  ASSUME NEW s, Good(s)
  PROVE  /\ s \in Seq(Message) /\ Len(s) \in Nat /\ Len(s) > 0 /\ s # <<>>
         /\ Last(s) = s[Len(s)] /\ Last(s) \in Message /\ Last(s) \in Elements(s)
         /\ Last(s).kind \notin {"call", "response"}
         /\ LastKind(s) = Last(s).kind
<1>1. s \in Seq(Message) /\ Len(s) \in Nat /\ Len(s) > 0
  BY DEF Good, Log
<1>2. Len(s) \in 1 .. Len(s) /\ s[Len(s)] \in Message /\ s[Len(s)] \in Elements(s)
  BY <1>1, ElementsOf
<1>3. s[Len(s)].kind \notin {"call", "response"}
  BY <1>1, <1>2 DEF Good, Continues
<1>4. s # <<>>
  BY <1>1
<1> QED
  BY <1>1, <1>2, <1>3, <1>4 DEF Last, LastKind

(* What follows the end of a context decides whether the longer one is good.*)
LEMMA Extended ==
  ASSUME NEW s, Good(s), NEW w \in Seq(Message),
         \A i \in Len(s) .. Len(s) + Len(w) : Continues(s \o w, i)
  PROVE  Good(s \o w)
<1> DEFINE t == s \o w
<1>1. s \in Seq(Message) /\ Len(s) \in Nat /\ Len(s) > 0 /\ Len(w) \in Nat /\ s[1] = System
  BY DEF Good, Log
<1>2. /\ t \in Seq(Message) /\ Len(t) = Len(s) + Len(w)
      /\ \A i \in 1 .. Len(s) : t[i] = s[i]
  BY <1>1, ElementsOfJoin
<1>3. \A i \in Len(s) .. Len(t) : Continues(t, i)
  BY <1>2
<1> HIDE DEF t
<1>4. ASSUME NEW i \in 1 .. Len(s), i < Len(s)
      PROVE  Continues(t, i)
  <2>1. Continues(s, i)
    BY DEF Good
  <2>2. t[i] = s[i] /\ t[i + 1] = s[i + 1] /\ i < Len(t) /\ i # Len(t) /\ i # Len(s)
    BY <1>1, <1>2, <1>4
  <2>3. i > 1 => t[i - 1] = s[i - 1]
    BY <1>1, <1>2
  <2>4. i > 1 => PendingPlain(t, i - 1) = PendingPlain(s, i - 1)
    <3>1. i - 1 > 1 => t[i - 1 - 1] = s[i - 1 - 1]
      BY <1>1, <1>2
    <3> QED
      BY <3>1 DEF PendingPlain
  <2> QED
    BY <1>4, <2>1, <2>2, <2>3, <2>4 DEF Continues
<1>5. ASSUME NEW i \in 1 .. Len(t)
      PROVE  Continues(t, i)
  <2>1. (i \in 1 .. Len(s) /\ i < Len(s)) \/ i \in Len(s) .. Len(t)
    BY <1>1, <1>2
  <2> QED
    BY <1>3, <1>4, <2>1
<1>6. Good(t)
  BY <1>1, <1>2, <1>5 DEF Good, Log
<1> QED
  BY <1>6 DEF t

(* The places of a well-formed context that was extended.                   *)
LEMMA GoodJoin ==
  ASSUME NEW s, Good(s), NEW w \in Seq(Message)
  PROVE  /\ s \o w \in Seq(Message) /\ Len(s \o w) = Len(s) + Len(w)
         /\ \A i \in 1 .. Len(s) : (s \o w)[i] = s[i]
         /\ Len(w) = 1 => Len(s \o w) = Len(s) + 1 /\ (s \o w)[Len(s) + 1] = w[1]
         /\ Len(w) = 2 => /\ Len(s \o w) = Len(s) + 2
                          /\ (s \o w)[Len(s) + 1] = w[1] /\ (s \o w)[Len(s) + 2] = w[2]
<1>1. s \in Seq(Message)
  BY GoodLast
<1>2. /\ s \o w \in Seq(Message) /\ Len(s \o w) = Len(s) + Len(w)
      /\ \A i \in 1 .. Len(s) : (s \o w)[i] = s[i]
      /\ Len(w) > 0 => (s \o w)[Len(s) + 1] = w[1]
      /\ Len(w) = 2 => (s \o w)[Len(s) + 2] = w[2]
  BY <1>1, JoinEnd
<1>3. \A k : k = 1 \/ k = 2 => k > 0
  OBVIOUS
<1> QED
  BY <1>2, <1>3

(* A context that waits for nothing may be extended by what opens a turn, a *)
(* text or a request.                                                       *)
LEMMA ExtendedByOne ==
  ASSUME NEW s, Good(s), Closed(s), NEW w \in Seq(Message), Len(w) = 1,
         w[1].kind \in {"user", "nudge", "text", "request"}
  PROVE  /\ Good(s \o w) /\ Len(s \o w) = Len(s) + 1 /\ Last(s \o w) = w[1]
         /\ PendingPlain(s \o w, Len(s) + 1) = {}
<1> DEFINE t == s \o w
           n == Len(s)
<1>1. s \in Seq(Message) /\ n \in Nat /\ n > 0 /\ s[n].kind \notin {"call", "request", "response"}
  BY GoodLast DEF Closed
<1>2. /\ t \in Seq(Message) /\ Len(t) = n + 1
      /\ \A i \in 1 .. n : t[i] = s[i]
      /\ t[n + 1] = w[1]
  BY GoodJoin
<1>3. Continues(s, n)
  BY <1>1 DEF Good
<1>4. t[n] = s[n] /\ (n > 1 => t[n - 1] = s[n - 1])
  BY <1>1, <1>2
<1> HIDE DEF t
<1>5. Continues(t, n)
  BY <1>1, <1>2, <1>3, <1>4 DEF Continues
<1>6. Continues(t, n + 1)
  BY <1>1, <1>2 DEF Continues
<1>7. \A i \in n .. n + Len(w) : Continues(t, i)
  <2>1. \A i \in n .. n + Len(w) : i = n \/ i = n + 1
    BY <1>1
  <2> QED
    BY <1>5, <1>6, <2>1
<1>8. Good(t)
  BY <1>7, Extended DEF t
<1>9. PendingPlain(t, n + 1) = {}
  <2>1. n + 1 - 1 = n
    BY <1>1
  <2> QED
    BY <1>1, <1>4, <2>1 DEF PendingPlain
<1> QED
  BY <1>1, <1>2, <1>8, <1>9 DEF t, Last

Called(s, w) ==
  /\ Closed(s) /\ w[1].kind = "call"
  /\ \/ w[2].kind = "return" /\ w[2].calls = w[1].calls
     \/ w[2].kind = "request" /\ "mixed" \in Replies

Approved(s, w) ==
  /\ Last(s).kind = "request"
  /\ w[1].kind = "response" /\ w[1].calls = Last(s).calls
  /\ w[2].kind = "return" /\ w[2].calls = w[1].calls \cup PendingPlain(s, Len(s))

(* A call with its results, or an answer with its results, closes what was  *)
(* open.                                                                    *)
LEMMA ExtendedByTwo ==
  ASSUME NEW s, Good(s), NEW w \in Seq(Message), Len(w) = 2, Called(s, w) \/ Approved(s, w)
  PROVE  /\ Good(s \o w) /\ Len(s \o w) = Len(s) + 2 /\ Last(s \o w) = w[2]
         /\ w[1].kind = "call" => PendingPlain(s \o w, Len(s) + 2) = w[1].calls
<1> DEFINE t == s \o w
           n == Len(s)
<1>1. s \in Seq(Message) /\ n \in Nat /\ n > 0 /\ s[n].kind \notin {"call", "response"} /\ Last(s) = s[n]
  BY GoodLast
<1>2. /\ t \in Seq(Message) /\ Len(t) = n + 2
      /\ \A i \in 1 .. n : t[i] = s[i]
      /\ t[n + 1] = w[1] /\ t[n + 2] = w[2]
  BY GoodJoin
<1>3. Continues(s, n)
  BY <1>1 DEF Good
<1>4. t[n] = s[n] /\ (n > 1 => t[n - 1] = s[n - 1])
  BY <1>1, <1>2
<1>5. PendingPlain(t, n) = PendingPlain(s, n)
  BY <1>4 DEF PendingPlain
<1> HIDE DEF t
<1>6. Continues(t, n)
  BY <1>1, <1>2, <1>3, <1>4 DEF Continues, Closed, Called, Approved
<1>7. Continues(t, n + 1) /\ Continues(t, n + 2)
  <2>1. /\ n + 1 + 1 = n + 2 /\ n + 1 - 1 = n /\ n + 2 - 1 = n + 1
        /\ n + 1 > 1 /\ n + 2 > 1 /\ n + 1 < Len(t) /\ n + 2 = Len(t)
    BY <1>1, <1>2
  <2>2. Continues(t, n + 1)
    BY <1>1, <1>2, <1>4, <1>5, <2>1 DEF Continues, Called, Approved
  <2>3. Continues(t, n + 2)
    BY <1>1, <1>2, <1>4, <2>1 DEF Continues, Called, Approved
  <2> QED
    BY <2>2, <2>3
<1>8. \A i \in n .. n + Len(w) : Continues(t, i)
  <2>1. \A i \in n .. n + Len(w) : i = n \/ i = n + 1 \/ i = n + 2
    BY <1>1
  <2> QED
    BY <1>6, <1>7, <2>1
<1>9. Good(t)
  BY <1>8, Extended DEF t
<1>10. w[1].kind = "call" => PendingPlain(t, n + 2) = w[1].calls
  <2>1. n + 2 - 1 = n + 1 /\ n + 2 > 1
    BY <1>1
  <2> QED
    BY <1>2, <2>1 DEF PendingPlain
<1> QED
  BY <1>1, <1>2, <1>9, <1>10 DEF t, Last

-----------------------------------------------------------------------------
(* get_messages_by_ids_async: ids without a row are left out.               *)

Open(s) == IF Last(s).kind = "request" THEN Last(s).calls \cup PendingPlain(s, Len(s)) ELSE {}

(* What is stored of a context is a context: only inputs of users are       *)
(* missing from it.                                                         *)
LEMMA StoredContext ==
  ASSUME NEW s, Good(s), System \in Elements(rows),
         \A m \in Elements(s) : m \in Elements(rows) \/ m.kind = "user"
  PROVE  /\ Good(Stored(s)) /\ Elements(Stored(s)) \subseteq Elements(rows)
         /\ Closed(s) <=> Closed(Stored(s))
         /\ Open(Stored(s)) = Open(s)
         /\ Last(s).kind # "user" => Last(Stored(s)) = Last(s)
         /\ Elements(Stored(s)) \subseteq Elements(s)
         /\ \A m \in Elements(s) : m \in Elements(rows) => m \in Elements(Stored(s))
<1> DEFINE P == {i \in DOMAIN s : s[i] \in Elements(rows)}
           t == ElementsAt(s, P)
           f(k) == Place(P, k)
           n == Len(s)
           l == Len(t)
<1>s. t = Stored(s)
  BY DEF Stored
<1>1. s \in Seq(Message) /\ n \in Nat /\ n > 0 /\ DOMAIN s = 1 .. n
  BY GoodLast
<1>2. P \in SUBSET (1 .. Len(s))
  BY <1>1
<1>3. \A i \in 1 .. n : Continues(s, i) /\ s[1] = System
  BY DEF Good
<1>4. \A i \in 1 .. n : i \in P <=> s[i] \in Elements(rows)
  BY <1>1
<1>5. \A i \in 1 .. n : i \in P \/ s[i].kind = "user"
  BY <1>1, <1>4, ElementsOf
<1> HIDE DEF P
<1>6. /\ t \in Seq(Message) /\ l \in Nat
      /\ \A k \in 1 .. l : f(k) \in P /\ Rank(P, f(k)) = k /\ t[k] = s[f(k)]
      /\ \A k, j \in 1 .. l : k < j => f(k) < f(j)
      /\ \A i \in P : Rank(P, i) \in 1 .. l /\ f(Rank(P, i)) = i
  BY <1>1, <1>2, Picked
<1> HIDE DEF t, f, l
<1>7. \A k \in 1 .. l : f(k) \in 1 .. n
  BY <1>2, <1>6
(* Between two messages that follow one another there is none left out.     *)
<1>8. ASSUME NEW k \in 1 .. l, NEW i \in P, i > f(k)
      PROVE  k < l /\ f(k + 1) <= i
  <2>1. PICK j \in 1 .. l : f(j) = i
    BY <1>6
  <2>2. j \in Int /\ k \in Int /\ f(j) \in Int /\ f(k) \in Int /\ l \in Int
    BY <1>6, <1>7
  <2>3. ~(j < k) /\ j # k
    BY <1>6, <1>8, <2>1, <2>2
  <2>4. k < j /\ k + 1 \in 1 .. l /\ k < l
    BY <2>2, <2>3
  <2>5. k + 1 = j \/ f(k + 1) < f(j)
    BY <1>6, <2>2, <2>4
  <2> QED
    BY <1>7, <2>1, <2>2, <2>4, <2>5
<1>9. ASSUME NEW k \in 1 .. l, f(k) < n, s[f(k) + 1].kind # "user"
      PROVE  k < l /\ f(k + 1) = f(k) + 1 /\ t[k + 1] = s[f(k) + 1]
  <2>1. f(k) \in 1 .. n /\ f(k) + 1 \in 1 .. n
    BY <1>1, <1>7, <1>9
  <2>2. f(k) + 1 \in P /\ f(k) + 1 > f(k)
    BY <1>5, <1>9, <2>1
  <2>3. k < l /\ f(k + 1) <= f(k) + 1
    BY <1>8, <2>2
  <2>4. k + 1 \in 1 .. l /\ k < k + 1
    BY <1>6, <2>3
  <2>5. f(k + 1) > f(k) /\ f(k + 1) \in 1 .. n
    BY <1>6, <1>7, <2>4
  <2>6. f(k + 1) = f(k) + 1
    BY <2>1, <2>3, <2>5
  <2> QED
    BY <1>6, <2>3, <2>4, <2>6
<1>10. ASSUME NEW k \in 1 .. l, f(k) > 1, s[f(k) - 1].kind # "user"
       PROVE  k > 1 /\ f(k - 1) = f(k) - 1 /\ t[k - 1] = s[f(k) - 1]
  <2>1. f(k) \in 1 .. n /\ f(k) - 1 \in 1 .. n
    BY <1>1, <1>7, <1>10
  <2>2. f(k) - 1 \in P
    BY <1>5, <1>10, <2>1
  <2>3. PICK j \in 1 .. l : f(j) = f(k) - 1
    BY <1>6, <2>2
  <2>4. f(k) > f(j) /\ j \in Int /\ k \in Int
    BY <1>6, <1>7, <2>1, <2>3
  <2>5. j < l /\ f(j + 1) <= f(k)
    BY <1>6, <1>8, <2>4
  <2>6. j + 1 \in 1 .. l /\ j < j + 1
    BY <1>6, <2>5
  <2>7. f(j) < f(j + 1) /\ f(j + 1) \in 1 .. n
    BY <1>6, <1>7, <2>6
  <2>8. f(j + 1) = f(k)
    BY <2>1, <2>3, <2>5, <2>7
  <2>9. j + 1 = k
    BY <1>6, <2>6, <2>8
  <2> QED
    BY <1>6, <2>3, <2>4, <2>9
<1>11. \A k \in 1 .. l : PendingPlain(t, k) = PendingPlain(s, f(k))
  <2>1. TAKE k \in 1 .. l
  <2>2. f(k) \in 1 .. n
    BY <1>7
  <2>3. CASE f(k) > 1 /\ s[f(k) - 1].kind # "user"
    BY <1>10, <2>3 DEF PendingPlain
  <2>4. CASE ~(f(k) > 1 /\ s[f(k) - 1].kind # "user")
    <3>1. PendingPlain(s, f(k)) = {}
      BY <2>4 DEF PendingPlain
    <3>2. ASSUME k > 1, t[k - 1].kind = "call"
          PROVE  FALSE
      <4>1. k - 1 \in 1 .. l /\ k - 1 < k /\ k - 1 + 1 = k
        BY <1>6, <3>2
      <4>2. f(k - 1) \in 1 .. n /\ f(k - 1) < f(k) /\ s[f(k - 1)].kind = "call"
        BY <1>6, <1>7, <3>2, <4>1
      <4>3. f(k - 1) < n /\ s[f(k - 1) + 1].kind # "user"
        BY <1>3, <2>2, <4>2 DEF Continues
      <4>4. f(k) = f(k - 1) + 1
        BY <1>9, <4>1, <4>3
      <4>5. f(k) > 1 /\ f(k) - 1 = f(k - 1)
        BY <4>2, <4>4
      <4> QED
        BY <2>4, <4>2, <4>5
    <3> QED
      BY <3>1, <3>2 DEF PendingPlain
  <2> QED
    BY <2>3, <2>4
<1>12. ASSUME NEW k \in 1 .. l
       PROVE  Continues(t, k)
  <2>0. f(k) \in 1 .. n /\ t[k] = s[f(k)] /\ Continues(s, f(k))
    BY <1>3, <1>6, <1>7
  <2>1. t[k].kind = "call" =>
          /\ k < l
          /\ \/ t[k + 1].kind = "return" /\ t[k + 1].calls = t[k].calls
             \/ t[k + 1].kind = "request" /\ "mixed" \in Replies
    BY <1>9, <2>0 DEF Continues
  <2>2. t[k].kind = "request" =>
          k = l \/ (t[k + 1].kind = "response" /\ t[k + 1].calls = t[k].calls)
    <3>1. CASE f(k) = n
      <4>1. ~(k < l)
        <5>1. k < l => k + 1 \in 1 .. l /\ k < k + 1
          BY <1>6
        <5> QED
          BY <1>1, <1>6, <1>7, <3>1, <5>1
      <4> QED
        BY <1>6, <4>1
    <3>2. CASE f(k) # n
      <4>1. f(k) < n
        BY <1>1, <2>0, <3>2
      <4> QED
        BY <1>9, <2>0, <3>2, <4>1 DEF Continues
    <3> QED
      BY <3>1, <3>2
  <2>3. ASSUME t[k].kind = "response"
        PROVE  /\ 1 < k /\ k < l
               /\ t[k - 1].kind = "request"
               /\ t[k + 1].kind = "return"
               /\ NoSplit => t[k + 1].calls = t[k].calls \cup PendingPlain(t, k - 1)
    <3>1. /\ 1 < f(k) /\ f(k) < n
          /\ s[f(k) - 1].kind = "request"
          /\ s[f(k) + 1].kind = "return"
          /\ NoSplit => s[f(k) + 1].calls = s[f(k)].calls \cup PendingPlain(s, f(k) - 1)
      BY <2>0, <2>3 DEF Continues
    <3>2. k < l /\ t[k + 1] = s[f(k) + 1]
      BY <1>9, <3>1
    <3>3. k > 1 /\ f(k - 1) = f(k) - 1 /\ t[k - 1] = s[f(k) - 1]
      BY <1>10, <3>1
    <3>4. k - 1 \in 1 .. l
      BY <1>6, <3>3
    <3>5. PendingPlain(t, k - 1) = PendingPlain(s, f(k) - 1)
      BY <1>11, <3>3, <3>4
    <3> QED
      BY <2>0, <3>1, <3>2, <3>3, <3>5
  <2>4. t[k].kind = "return" => 1 < k /\ t[k - 1].kind \in {"call", "response"}
    BY <1>10, <2>0 DEF Continues
  <2> QED
    BY <2>1, <2>2, <2>3, <2>4 DEF Continues, l
<1>13. l > 0 /\ t[1] = System
  <2>1. 1 \in 1 .. n /\ s[1] = System
    BY <1>1, <1>3
  <2>2. 1 \in P
    BY <1>4, <2>1
  <2>3. Rank(P, 1) \in 1 .. l /\ f(Rank(P, 1)) = 1
    BY <1>6, <2>2
  <2>4. l > 0 /\ 1 \in 1 .. l
    BY <1>6, <2>3
  <2>5. ~(1 < Rank(P, 1))
    BY <1>6, <1>7, <2>3, <2>4
  <2>6. Rank(P, 1) = 1
    BY <1>6, <2>3, <2>5
  <2> QED
    BY <1>6, <2>1, <2>3, <2>4, <2>6
<1>14. Good(t)
  BY <1>6, <1>12, <1>13 DEF Good, Log, l
<1>15. Elements(t) \subseteq Elements(rows) /\ Elements(t) \subseteq Elements(s)
  <2>1. ASSUME NEW m \in Elements(t)
        PROVE  m \in Elements(rows) /\ m \in Elements(s)
    <3>1. PICK k \in 1 .. l : t[k] = m
      BY <1>6, ElementsOf DEF l
    <3> QED
      BY <1>1, <1>4, <1>6, <1>7, <3>1, ElementsOf
  <2> QED
    BY <2>1
<1>16. ASSUME NEW m \in Elements(s), m \in Elements(rows)
       PROVE  m \in Elements(t)
  <2>1. PICK i \in 1 .. n : s[i] = m
    BY <1>1, ElementsOf
  <2>2. i \in P
    BY <1>4, <1>16, <2>1
  <2>3. Rank(P, i) \in 1 .. l /\ t[Rank(P, i)] = m
    BY <1>6, <2>1, <2>2
  <2> QED
    BY <1>6, <2>3, ElementsOf DEF l
<1>17. Last(t) = t[l] /\ Last(s) = s[n] /\ l \in 1 .. l /\ n \in 1 .. n
  BY <1>1, <1>6, <1>13 DEF Last, l
<1>18. n \in P => f(l) = n
  <2>1. ASSUME n \in P
        PROVE  f(l) = n
    <3>1. Rank(P, n) \in 1 .. l /\ f(Rank(P, n)) = n
      BY <1>6, <2>1
    <3>2. ~(Rank(P, n) < l)
      BY <1>1, <1>6, <1>7, <1>17, <3>1
    <3> QED
      BY <1>6, <3>1, <3>2
  <2> QED
    BY <2>1
<1>19. s[n].kind # "user" => Last(t) = Last(s) /\ PendingPlain(t, l) = PendingPlain(s, n)
  BY <1>5, <1>6, <1>11, <1>17, <1>18
<1>20. s[n].kind = "user" => t[l].kind # "request"
  <2>1. ASSUME s[n].kind = "user", t[l].kind = "request"
        PROVE  FALSE
    <3>1. f(l) \in 1 .. n /\ s[f(l)].kind = "request" /\ Continues(s, f(l))
      BY <1>3, <1>6, <1>7, <1>17, <2>1
    <3>2. f(l) # n /\ f(l) < n
      BY <1>1, <2>1, <3>1
    <3>3. s[f(l) + 1].kind = "response"
      BY <3>1, <3>2 DEF Continues
    <3>4. l < l
      BY <1>9, <1>17, <3>2, <3>3
    <3> QED
      BY <1>6, <3>4
  <2> QED
    BY <2>1
<1>21. (Closed(s) <=> Closed(t)) /\ Open(t) = Open(s)
  BY <1>17, <1>19, <1>20 DEF Closed, Open, l
<1> QED
  BY <1>s, <1>14, <1>15, <1>16, <1>17, <1>19, <1>21

-----------------------------------------------------------------------------
(* compact                                                                  *)

Suffix(s, w, i) ==
  /\ w \in Seq(Message) /\ Len(w) = Len(s) - i + 1
  /\ \A k \in 1 .. Len(w) : w[k] = s[i + k - 1]
  /\ s[i].kind \in {"text", "call", "request"}
  /\ NoSplit => i = Len(s) \/ s[i].kind # "request" \/ PendingPlain(s, i) = {}

(* A context cut at a legal place and put under a summary is well-formed    *)
(* (unless a mixed reply was split).                                        *)
LEMMA CutOff ==
  ASSUME NEW s, Good(s), NEW w, NEW i \in 2 .. Len(s), Suffix(s, w, i),
         NEW u \in Message, u.kind = "summary"
  PROVE  LET c == <<System, u>> \o w
         IN /\ Good(c) /\ Elements(c) \subseteq Elements(s) \cup {System, u}
            /\ Last(c) = Last(s) /\ Open(c) \subseteq Open(s) /\ u \in Elements(c)
<1> DEFINE c == <<System, u>> \o w
           n == Len(s)
           l == Len(c)
<1>1. s \in Seq(Message) /\ n \in Nat /\ n > 0
  BY GoodLast
<1>2. w \in Seq(Message) /\ Len(w) = n - i + 1 /\ i \in Nat /\ i >= 2 /\ i <= n
  BY <1>1 DEF Suffix
<1>3. System \in Message /\ System.kind = "system"
  BY MessageParts
<1>4. /\ <<System, u>> \in Seq(Message) /\ Len(<<System, u>>) = 2
      /\ <<System, u>>[1] = System /\ <<System, u>>[2] = u
      /\ Elements(<<System, u>>) = {System, u}
  BY <1>3, TwoElements
<1>5. PICK h \in Seq(Message) : h = <<System, u>>
  BY <1>4
<1>6. /\ c \in Seq(Message) /\ l = 2 + Len(w)
      /\ \A k \in 1 .. 2 : c[k] = h[k]
      /\ \A k \in 1 .. Len(w) : c[2 + k] = w[k]
      /\ Elements(c) = {System, u} \cup Elements(w)
  <2> w \in Seq(Message)
    BY <1>2
  <2>1. /\ h \o w \in Seq(Message) /\ Len(h \o w) = Len(h) + Len(w)
        /\ Elements(h \o w) = Elements(h) \cup Elements(w)
        /\ \A k \in 1 .. Len(h) : (h \o w)[k] = h[k]
        /\ \A k \in 1 .. Len(w) : (h \o w)[Len(h) + k] = w[k]
    BY ElementsOfJoin
  <2>2. c = h \o w /\ Len(h) = 2 /\ Elements(h) = {System, u}
    BY <1>4, <1>5
  <2> HIDE DEF c
  <2> QED
    BY <2>1, <2>2
<1>7. c[1] = System /\ c[2] = u
  BY <1>4, <1>5, <1>6
<1> HIDE DEF c
<1>8. l = n - i + 3 /\ \A k \in 3 .. l : i + k - 3 \in i .. n /\ c[k] = s[i + k - 3]
  <2>1. l = n - i + 3
    BY <1>1, <1>2, <1>6
  <2>2. ASSUME NEW k \in 3 .. l
        PROVE  i + k - 3 \in i .. n /\ c[k] = s[i + k - 3]
    <3>1. k - 2 \in 1 .. Len(w) /\ 2 + (k - 2) = k /\ i + (k - 2) - 1 = i + k - 3
      BY <1>1, <1>2, <2>1
    <3>2. c[k] = w[k - 2] /\ w[k - 2] = s[i + (k - 2) - 1]
      <4>1. c[2 + (k - 2)] = w[k - 2]
        BY <1>6, <3>1
      <4> QED
        BY <3>1, <4>1 DEF Suffix
    <3>3. i + k - 3 \in i .. n
      BY <1>1, <1>2, <2>1
    <3> QED
      BY <3>1, <3>2, <3>3
  <2> QED
    BY <2>1, <2>2
<1> HIDE DEF l
<1>9. /\ s[i].kind \in {"text", "call", "request"}
      /\ NoSplit => i = n \/ s[i].kind # "request" \/ PendingPlain(s, i) = {}
  BY DEF Suffix
<1>10. ASSUME NEW k \in 3 .. l
       PROVE  Continues(c, k)
  <2> DEFINE j == i + k - 3
  <2>1. j \in i .. n /\ j \in 1 .. n /\ c[k] = s[j] /\ Continues(s, j)
    BY <1>1, <1>2, <1>8 DEF Good
  <2>2. k \in Nat /\ l \in Nat /\ k >= 3 /\ k <= l
    BY <1>1, <1>2, <1>8
  <2>3. (k = l <=> j = n) /\ (k < l <=> j < n) /\ (k = 3 <=> j = i) /\ j \in Nat
    BY <1>1, <1>2, <1>8, <2>2
  <2>4. k < l => c[k + 1] = s[j + 1]
    <3>1. ASSUME k < l
          PROVE  c[k + 1] = s[j + 1]
      <4>1. PICK e : e = k + 1
        OBVIOUS
      <4>2. e \in 3 .. l /\ i + e - 3 = j + 1
        BY <1>2, <2>2, <3>1, <4>1
      <4> HIDE DEF j
      <4>3. c[e] = s[i + e - 3]
        BY <1>8, <4>2
      <4> QED
        BY <4>1, <4>2, <4>3
    <3> QED
      BY <3>1
  <2>5. k > 3 => c[k - 1] = s[j - 1]
    <3>1. ASSUME k > 3
          PROVE  c[k - 1] = s[j - 1]
      <4>1. PICK e : e = k - 1
        OBVIOUS
      <4>2. e \in 3 .. l /\ i + e - 3 = j - 1
        BY <1>2, <2>2, <3>1, <4>1
      <4> HIDE DEF j
      <4>3. c[e] = s[i + e - 3]
        BY <1>8, <4>2
      <4> QED
        BY <4>1, <4>2, <4>3
    <3> QED
      BY <3>1
  <2>6. s[j].kind = "response" => k > 3 /\ (NoSplit => PendingPlain(c, k - 1) = PendingPlain(s, j - 1))
    <3>1. SUFFICES ASSUME s[j].kind = "response"
                   PROVE  k > 3 /\ (NoSplit => PendingPlain(c, k - 1) = PendingPlain(s, j - 1))
      OBVIOUS
    <3>2. k > 3
      BY <1>9, <2>2, <2>3, <3>1
    <3>3. s[j - 1].kind = "request"
      BY <2>1, <3>1 DEF Continues
    <3>4. CASE k = 4
      <4>1. k - 1 = 3 /\ j - 1 = i /\ i # n /\ 3 > 1 /\ 3 - 1 = 2
        BY <1>2, <2>1, <2>2, <3>4
      <4>2. NoSplit => PendingPlain(s, j - 1) = {}
        BY <1>9, <3>3, <4>1
      <4>3. PendingPlain(c, 3) = {}
        BY <1>7, <4>1 DEF PendingPlain
      <4> QED
        BY <3>2, <4>1, <4>2, <4>3
    <3>5. CASE k > 4
      <4>1. /\ k - 1 - 1 \in 3 .. l /\ i + (k - 1 - 1) - 3 = j - 1 - 1
            /\ k - 1 > 1 /\ j - 1 > 1
        BY <1>2, <2>2, <3>5
      <4>2. c[k - 1 - 1] = s[j - 1 - 1]
        BY <1>8, <4>1
      <4> QED
        BY <3>2, <4>1, <4>2 DEF PendingPlain
    <3> QED
      BY <2>2, <3>2, <3>4, <3>5
  <2>7. s[j].kind = "return" => k > 3
    BY <1>9, <2>2, <2>3
  <2> HIDE DEF j
  <2>8. k > 1
    BY <2>2
  <2> QED
    BY <2>1, <2>3, <2>4, <2>5, <2>6, <2>7, <2>8 DEF Continues, l
<1>11. \A k \in 1 .. l : Continues(c, k)
  <2>1. Continues(c, 1)
    BY <1>3, <1>7 DEF Continues
  <2>2. Continues(c, 2)
    BY <1>7 DEF Continues
  <2>3. \A k \in 1 .. l : k = 1 \/ k = 2 \/ k \in 3 .. l
    BY <1>1, <1>2, <1>8
  <2> QED
    BY <1>10, <2>1, <2>2, <2>3
<1>12. Good(c)
  <2>1. l > 0
    BY <1>1, <1>2, <1>8
  <2> QED
    BY <1>6, <1>7, <1>11, <2>1 DEF Good, Log, l
<1>13. Elements(w) \subseteq Elements(s)
  <2>1. ASSUME NEW m \in Elements(w)
        PROVE  m \in Elements(s)
    <3>1. PICK k \in 1 .. Len(w) : w[k] = m
      BY <1>2, ElementsOf
    <3>2. i + k - 1 \in 1 .. n /\ w[k] = s[i + k - 1]
      BY <1>1, <1>2 DEF Suffix
    <3> QED
      BY <1>1, <3>1, <3>2, ElementsOf
  <2> QED
    BY <2>1
<1>14. l \in 3 .. l /\ i + l - 3 = n /\ c[l] = s[n]
  <2>1. l \in 3 .. l /\ i + l - 3 = n
    BY <1>1, <1>2, <1>8
  <2> QED
    BY <1>8, <2>1
<1>15. Last(c) = Last(s)
  BY <1>14 DEF Last, l
<1>16. PendingPlain(c, l) \subseteq PendingPlain(s, n)
  <2>1. CASE i = n
    <3>1. l = 3 /\ 3 - 1 = 2
      BY <1>2, <1>8, <2>1
    <3> QED
      BY <1>7, <3>1 DEF PendingPlain
  <2>2. CASE i < n
    <3>1. l - 1 \in 3 .. l /\ i + (l - 1) - 3 = n - 1 /\ n > 1
      BY <1>1, <1>2, <1>8, <2>2
    <3>2. c[l - 1] = s[n - 1]
      BY <1>8, <3>1
    <3> QED
      BY <3>1, <3>2 DEF PendingPlain
  <2> QED
    BY <1>1, <1>2, <2>1, <2>2
<1>17. Open(c) \subseteq Open(s)
  BY <1>15, <1>16 DEF Open, l
<1> QED
  BY <1>6, <1>12, <1>13, <1>15, <1>17 DEF c

(* Msg builds messages.                                                     *)
LEMMA MsgType ==
  ASSUME NEW kind, kind \in Kind, NEW r \in Req, NEW n, n \in Nat,
         NEW calls, calls \subseteq Call, NEW denied, denied \subseteq Call
  PROVE  LET m == Msg(kind, r, n, calls, denied)
         IN m \in Message /\ m.kind = kind /\ m.calls = calls /\ m.run = r
BY DEF Msg, Message

(* Plain builds messages.                                                   *)
LEMMA PlainType ==
  ASSUME NEW kind, kind \in Kind, NEW r \in Req, NEW n, n \in Nat
  PROVE  LET m == Plain(kind, r, n)
         IN m \in Message /\ m.kind = kind /\ m.calls = {} /\ m.run = r
BY DEF Plain, Msg, Message

(* The summary of a compaction is a message without calls.                  *)
LEMMA SummaryOf ==
  ASSUME NEW r \in Req, loop[r].resp \in Log
  PROVE  Summary(r) \in Message /\ Summary(r).kind = "summary" /\ Summary(r).calls = {} /\ Summary(r).run = r
<1>1. Len(loop[r].resp) \in Nat /\ "summary" \in Kind
  BY DEF Log, Kind
<1> QED
  BY <1>1, PlainType DEF Summary

(* Compaction keeps a context well-formed, its last open request included.  *)
LEMMA CompactedContext ==
  ASSUME NEW r \in Req, loop[r].resp \in Log, NEW s, Good(s),
         NEW c \in Compacted(r, s)
  PROVE  /\ Good(c) /\ Elements(c) \subseteq Elements(s) \cup {System, Summary(r)}
         /\ Closed(s) <=> Closed(c)
         /\ ~Closed(s) => Last(c) = Last(s)
         /\ Open(c) \subseteq Open(s) /\ Summary(r) \in Elements(c)
<1> DEFINE u == Summary(r)
           n == Len(s)
<1>1. u \in Message /\ u.kind = "summary"
  BY SummaryOf
<1> HIDE DEF u
<1>2. /\ s \in Seq(Message) /\ n \in Nat /\ n > 0 /\ Last(s) = s[n] /\ Last(s) \in Message
      /\ s[1] = System /\ \A i \in 1 .. n : Continues(s, i)
  BY GoodLast DEF Good
<1>3. System \in Message /\ System.kind = "system"
  BY MessageParts
<1>4. ASSUME NEW w, NEW i \in 2 .. n, Suffix(s, w, i), c = <<System, u>> \o w
      PROVE  /\ Good(c) /\ Elements(c) \subseteq Elements(s) \cup {System, u}
             /\ Closed(s) <=> Closed(c)
             /\ ~Closed(s) => Last(c) = Last(s)
             /\ Open(c) \subseteq Open(s) /\ u \in Elements(c)
  BY <1>1, <1>4, CutOff DEF Closed
<1>5. CASE c = <<System, u>> \o <<>> /\ Closed(s)
  <2>1. PICK h \in Seq(Message) : h = <<System, u>>
    BY <1>1, <1>3, TwoElements
  <2>2. Len(h) = 2 /\ h[1] = System /\ h[2] = u /\ Elements(h) = {System, u}
    BY <1>1, <1>3, <2>1, TwoElements
  <2>3. c = h
    BY <1>5, <2>1
  <2>4. \A i \in 1 .. Len(h) : Continues(h, i)
    <3>1. Continues(h, 1)
      BY <1>3, <2>2 DEF Continues
    <3>2. Continues(h, 2)
      BY <1>1, <2>2 DEF Continues
    <3> QED
      BY <2>2, <3>1, <3>2
  <2>5. Good(h)
    BY <2>2, <2>4 DEF Good, Log
  <2>6. Closed(h) /\ Open(h) = {}
    BY <1>1, <2>2 DEF Closed, Open, Last
  <2> QED
    BY <1>5, <2>2, <2>3, <2>5, <2>6 DEF u
<1>6. CASE c = <<System, u>> \o Protected(s)
  <2>1. CASE Closed(s)
    BY <1>5, <1>6, <2>1 DEF Protected, Closed
  <2>2. CASE ~Closed(s) /\ PendingPlain(s, n) # {}
    <3>1. n > 1 /\ s[n - 1].kind = "call" /\ n - 1 \in 2 .. n
      <4>1. n > 1 /\ s[n - 1].kind = "call"
        BY <2>2 DEF PendingPlain
      <4>2. n - 1 # 1
        BY <1>2, <1>3, <4>1
      <4>3. \A k \in Nat : k > 1 /\ k - 1 # 1 => k - 1 \in 2 .. k
        OBVIOUS
      <4> QED
        BY <1>2, <4>1, <4>2, <4>3
    <3>2. Protected(s) = SubSeq(s, n - 1, n)
      BY <2>2 DEF Protected, Closed
    <3>3. Suffix(s, SubSeq(s, n - 1, n), n - 1)
      BY <1>2, <3>1 DEF Suffix
    <3> QED
      BY <1>4, <1>6, <3>1, <3>2, <3>3 DEF u
  <2>3. CASE ~Closed(s) /\ PendingPlain(s, n) = {}
    <3>1. Protected(s) = <<Last(s)>> /\ s[n].kind = "request"
      BY <1>2, <2>3 DEF Protected, Closed
    <3>2. n \in 2 .. n
      BY <1>2, <1>3, <3>1
    <3>3. Suffix(s, <<Last(s)>>, n)
      <4>1. <<Last(s)>> \in Seq(Message) /\ Len(<<Last(s)>>) = 1 /\ <<Last(s)>>[1] = Last(s)
        BY <1>2, OneElement
      <4>2. PICK w : w = <<Last(s)>>
        OBVIOUS
      <4>3. n - n + 1 = 1 /\ n + 1 - 1 = n
        BY <1>2
      <4>4. Suffix(s, w, n)
        BY <1>2, <3>1, <4>1, <4>2, <4>3 DEF Suffix
      <4> QED
        BY <4>2, <4>4
    <3> QED
      BY <1>4, <1>6, <3>1, <3>2, <3>3 DEF u
  <2> QED
    BY <2>1, <2>2, <2>3
<1>7. ASSUME "sliding" \in Modes, NEW i \in Cutoffs(s), c = <<System, u>> \o SubSeq(s, i, n)
      PROVE  /\ Good(c) /\ Elements(c) \subseteq Elements(s) \cup {System, u}
             /\ Closed(s) <=> Closed(c)
             /\ ~Closed(s) => Last(c) = Last(s)
             /\ Open(c) \subseteq Open(s) /\ u \in Elements(c)
  <2>1. i \in 2 .. n /\ i \in Nat /\ i >= 2 /\ s[i].kind \in {"text", "call", "request"}
    BY <1>2 DEF Cutoffs
  <2>2. NoSplit => "mixed" \notin Replies
    BY <1>7 DEF NoSplit
  <2>3. NoSplit /\ s[i].kind = "request" => PendingPlain(s, i) = {}
    <3>1. SUFFICES ASSUME NoSplit, s[i].kind = "request", s[i - 1].kind = "call"
                   PROVE  FALSE
      BY DEF PendingPlain
    <3>2. i - 1 \in 1 .. n /\ i - 1 + 1 = i
      BY <1>2, <2>1
    <3>3. Continues(s, i - 1)
      BY <1>2, <3>2
    <3> QED
      BY <2>2, <3>1, <3>2, <3>3 DEF Continues
  <2>4. /\ SubSeq(s, i, n) \in Seq(Message) /\ Len(SubSeq(s, i, n)) = n - i + 1
        /\ \A k \in 1 .. n - i + 1 : SubSeq(s, i, n)[k] = s[i + k - 1]
    BY <1>2, <2>1
  <2>5. Suffix(s, SubSeq(s, i, n), i)
    BY <2>1, <2>3, <2>4 DEF Suffix
  <2> QED
    BY <1>4, <1>7, <2>1, <2>5
<1> QED
  BY <1>6, <1>7 DEF Compacted, u

-----------------------------------------------------------------------------
(* The messages of a reply.                                                 *)

StepCalls(r, n) == {<<r, n, "plain">>, <<r, n, "gated">>}

(* The messages of a step extend a closed context to a well-formed one,     *)
(* open only if a reply was gated.                                          *)
LEMMA Replied ==
  ASSUME NEW r \in Req, loop[r].n \in 1 .. MaxSteps, NEW reply \in Replies,
         NEW s, Good(s), Closed(s)
  PROVE  LET w == NewMessages(r, reply)
             plain == <<r, loop[r].n, "plain">>
         IN /\ w \in Seq(Message) /\ Good(s \o w)
            /\ StopOf(reply) \in Stop
            /\ StopOf(reply) = "none" => Closed(s \o w)
            /\ StepCalls(r, loop[r].n) \subseteq Call
            /\ \A m \in Elements(w) : m.run = r /\ m.calls \subseteq StepCalls(r, loop[r].n)
            /\ \A m \in Elements(w) : m.kind = "return" => m.calls = {plain} /\ reply \in {"tool", "terminal"}
            /\ reply \in {"tool", "terminal"} => \E m \in Elements(w) : m.kind = "return" /\ m.calls = {plain}
            /\ reply \in {"tool", "terminal"} => Closed(s \o w)
            /\ Open(s \o w) \subseteq StepCalls(r, loop[r].n)
<1> DEFINE n == loop[r].n
           w == NewMessages(r, reply)
           plain == {<<r, n, "plain">>}
           gated == {<<r, n, "gated">>}
<1>1. reply \in Reply /\ n \in 1 .. MaxSteps /\ n \in Nat /\ {} \subseteq Call
  BY LoopAssumption
<1>2. plain \in SUBSET Call /\ gated \in SUBSET Call /\ plain \subseteq StepCalls(r, n) /\ gated \subseteq StepCalls(r, n)
  BY <1>1 DEF Call, Gate, StepCalls
<1>3. {"text", "nudge", "call", "return", "request"} \subseteq Kind
  BY DEF Kind
<1> HIDE DEF n, plain, gated
<1>4. /\ s \in Seq(Message) /\ s \o <<>> = s
  BY GoodLast
<1>5. CASE reply = "noop"
  <2>1. w = <<>> /\ StopOf(reply) = "end_turn"
    BY <1>5 DEF NewMessages, StopOf
  <2>2. w \in Seq(Message) /\ Elements(w) = {} /\ s \o w = s
    BY <1>4, <2>1, NoElements
  <2>3. Open(s) = {}
    BY DEF Open, Closed
  <2> QED
    BY <1>2, <1>5, <2>1, <2>2, <2>3 DEF Stop, n, StepCalls, plain, gated
<1>6. ASSUME NEW m \in Message, w = <<m>>, m.kind \in {"text", "nudge", "request"}
      PROVE  /\ w \in Seq(Message) /\ Good(s \o w) /\ Elements(w) = {m}
             /\ m.kind # "request" => Closed(s \o w)
             /\ Open(s \o w) \subseteq m.calls
  <2>1. PICK v \in Seq(Message) : v = <<m>>
    BY <1>6, OneElement
  <2>2. Len(v) = 1 /\ v[1] = m /\ Elements(v) = {m}
    BY <2>1, OneElement
  <2>3. Good(s \o v) /\ Last(s \o v) = m /\ Len(s \o v) = Len(s) + 1 /\ PendingPlain(s \o v, Len(s) + 1) = {}
    BY <1>6, <2>2, ExtendedByOne
  <2> QED
    BY <1>6, <2>1, <2>2, <2>3 DEF Open, Closed
<1>7. ASSUME NEW m \in Message, NEW p \in Message, w = <<m, p>>, m.kind = "call",
             \/ p.kind = "return" /\ p.calls = m.calls
             \/ p.kind = "request" /\ "mixed" \in Replies
      PROVE  /\ w \in Seq(Message) /\ Good(s \o w) /\ Elements(w) = {m, p}
             /\ p.kind # "request" => Closed(s \o w)
             /\ Open(s \o w) \subseteq m.calls \cup p.calls
  <2>1. PICK v \in Seq(Message) : v = <<m, p>>
    BY <1>7, TwoElements
  <2>2. Len(v) = 2 /\ v[1] = m /\ v[2] = p /\ Elements(v) = {m, p}
    BY <2>1, TwoElements
  <2>3. Called(s, v)
    BY <1>7, <2>2 DEF Called
  <2>4. Good(s \o v) /\ Last(s \o v) = p /\ Len(s \o v) = Len(s) + 2 /\ PendingPlain(s \o v, Len(s) + 2) = m.calls
    BY <1>7, <2>2, <2>3, ExtendedByTwo
  <2> QED
    BY <1>7, <2>1, <2>2, <2>4 DEF Open, Closed
<1>8. CASE reply \in {"text", "nudge"}
  <2>1. w = <<Plain(reply, r, n)>> /\ StopOf(reply) \in {"end_turn", "none"}
    BY <1>8 DEF NewMessages, StopOf, n
  <2>2. Plain(reply, r, n) \in Message /\ Plain(reply, r, n).kind = reply /\ Plain(reply, r, n).calls = {} /\ Plain(reply, r, n).run = r
    BY <1>1, <1>3, <1>8, PlainType
  <2> QED
    BY <1>2, <1>6, <1>8, <2>1, <2>2 DEF Stop, n, StepCalls, plain, gated
<1>9. CASE reply \in {"tool", "terminal"}
  <2> DEFINE m == Msg("call", r, n, plain, {})
             p == Msg("return", r, n, plain, {})
  <2>1. w = <<m, p>> /\ StopOf(reply) \in {"tool_rule", "none"}
    BY <1>9 DEF NewMessages, StopOf, n, plain
  <2>2. /\ m \in Message /\ m.kind = "call" /\ m.calls = plain /\ m.run = r
        /\ p \in Message /\ p.kind = "return" /\ p.calls = plain /\ p.run = r
    BY <1>1, <1>2, <1>3, MsgType
  <2> HIDE DEF m, p
  <2>3. /\ w \in Seq(Message) /\ Good(s \o w) /\ Elements(w) = {m, p}
        /\ Closed(s \o w) /\ Open(s \o w) \subseteq plain
    BY <1>7, <2>1, <2>2
  <2> QED
    BY <1>2, <1>9, <2>1, <2>2, <2>3 DEF Stop, n, StepCalls, plain, gated
<1>10. CASE reply = "gated"
  <2> DEFINE m == Msg("request", r, n, gated, {})
  <2>1. w = <<m>> /\ StopOf(reply) = "requires_approval"
    BY <1>10 DEF NewMessages, StopOf, n, gated
  <2>2. m \in Message /\ m.kind = "request" /\ m.calls = gated /\ m.run = r
    BY <1>1, <1>2, <1>3, MsgType
  <2> HIDE DEF m
  <2>3. w \in Seq(Message) /\ Good(s \o w) /\ Elements(w) = {m} /\ Open(s \o w) \subseteq gated
    BY <1>6, <2>1, <2>2
  <2> QED
    BY <1>2, <1>10, <2>1, <2>2, <2>3 DEF Stop, n, StepCalls, plain, gated
<1>11. CASE reply = "mixed"
  <2> DEFINE m == Msg("call", r, n, plain, {})
             p == Msg("request", r, n, gated, {})
  <2>1. w = <<m, p>> /\ StopOf(reply) = "requires_approval"
    BY <1>11 DEF NewMessages, StopOf, n, plain, gated
  <2>2. /\ m \in Message /\ m.kind = "call" /\ m.calls = plain /\ m.run = r
        /\ p \in Message /\ p.kind = "request" /\ p.calls = gated /\ p.run = r
    BY <1>1, <1>2, <1>3, MsgType
  <2> HIDE DEF m, p
  <2>3. /\ w \in Seq(Message) /\ Good(s \o w) /\ Elements(w) = {m, p}
        /\ Open(s \o w) \subseteq plain \cup gated
    BY <1>7, <1>11, <2>1, <2>2
  <2> QED
    BY <1>2, <1>11, <2>1, <2>2, <2>3 DEF Stop, n, StepCalls, plain, gated
<1> QED
  BY <1>1, <1>5, <1>8, <1>9, <1>10, <1>11 DEF Reply

-----------------------------------------------------------------------------
(* The invariant.                                                           *)

LoopRecord ==
  [at : LoopPoint, snap : Log, msgs : Log, input : Log, new : Log, resp : Log, follow : BOOLEAN,
   target : SUBSET Call, verdict : Verdict, n : 1 .. MaxSteps, tries : 0 .. MaxTries,
   stop : Stop, go : BOOLEAN]

CancelPoint == {"idle", "write", "deny", "done"}

Types ==
  /\ ctx \in [Thread -> Log] /\ rows \in Log /\ ran \in [Call -> Nat]
  /\ loop \in [Req -> LoopRecord]
  /\ cancelled \subseteq MayCancel
  /\ canc \in [Req -> [at : CancelPoint, msgs : Log]]
  /\ System \in Elements(rows)
  /\ \A r \in Req : canc[r].at # "idle" => r \in MayCancel

UnsavedBy(l, m) ==
  /\ m.kind = "user" /\ l.tries > 0
  /\ l.at = "done" \/ (l.at \in {"llm", "save"} /\ m \in Elements(l.input))

Contexts ==
  \A t \in Thread :
    /\ Good(ctx[t])
    /\ \A m \in Elements(ctx[t]) :
         m \in Elements(rows) \/ (m.run \in Req /\ UnsavedBy(loop[m.run], m))

UserInput(r, l) == \A m \in Elements(l.input) : m.kind = "user" /\ m.run = r

Answered(l) ==
  /\ l.n = 1 /\ l.resp = <<>>
  /\ Len(l.input) = 1 /\ l.input[1].kind = "response" /\ l.input[1].calls = l.target
  /\ Last(l.msgs).kind = "request" /\ Last(l.msgs).calls = l.target

LoopOK(r, l, R) ==
  /\ l.at \in {"idle", "loaded"} => l.n = 1 /\ l.resp = <<>>
  /\ l.at = "loaded" => Good(l.snap) /\ \A m \in Elements(l.snap) : m \in R \/ m.kind = "user"
  /\ l.at \in {"step", "compact", "next"} => Good(l.msgs) /\ Elements(l.msgs) \subseteq R
  /\ l.at = "step" => Answered(l) \/ (Closed(l.msgs) /\ UserInput(r, l) /\ Len(l.input) <= 1)
  /\ l.at = "llm" => Good(l.msgs) /\ Closed(l.msgs) /\ UserInput(r, l)
  /\ l.at = "save" => Good(l.msgs \o l.new) /\ (l.go => Closed(l.msgs \o l.new))
  /\ l.at \in {"llm", "save"} => Elements(l.msgs) \subseteq R \cup Elements(l.input)
  /\ l.at \in {"compact", "next"} => (l.go => Closed(l.msgs))

Loops == \A r \in Req : LoopOK(r, loop[r], Elements(rows))

CancelOK(o, R) ==
  /\ o.at \in {"write", "deny"} => Good(o.msgs) /\ Elements(o.msgs) \subseteq R
  /\ o.at = "deny" => Last(o.msgs).kind = "request"

Cancels == \A r \in Req : CancelOK(canc[r], Elements(rows))

Inv == Types /\ Contexts /\ Loops /\ Cancels

(* What is known of a loop stays so when messages are stored.               *)
LEMMA LoopGrows ==
  ASSUME NEW r, NEW l, NEW R, NEW Q, R \subseteq Q, LoopOK(r, l, R)
  PROVE  LoopOK(r, l, Q)
BY DEF LoopOK

(* What is known of a cancellation stays so when messages are stored.       *)
LEMMA CancelGrows ==
  ASSUME NEW o, NEW R, NEW Q, R \subseteq Q, CancelOK(o, R)
  PROVE  CancelOK(o, Q)
BY DEF CancelOK

(* What a step of a loop does.                                              *)
LoopStep(r, l) ==
  /\ l \in LoopRecord /\ loop' = [loop EXCEPT ![r] = l]
  /\ rows' \in Log /\ Elements(rows) \subseteq Elements(rows')
  /\ LoopOK(r, l, Elements(rows'))
  /\ \A m \in Message : UnsavedBy(loop[r], m) => m \in Elements(rows') \/ UnsavedBy(l, m)
  /\ \/ ctx' = ctx
     \/ \E s : /\ ctx' = [ctx EXCEPT ![ThreadOf[r]] = s] /\ Good(s)
               /\ \A m \in Elements(s) : m \in Elements(rows') \/ (m.run = r /\ UnsavedBy(l, m))

(* A step of one loop that leaves its own record in order leaves the        *)
(* invariant in order.                                                      *)
LEMMA LoopStepInv ==
  ASSUME NEW r \in Req, NEW l, Inv, LoopStep(r, l), ran' \in [Call -> Nat], UNCHANGED <<cancelled, canc>>
  PROVE  Inv'
<1> DEFINE R == Elements(rows)
           Q == Elements(rows')
<1>1. /\ l \in LoopRecord /\ loop' = [loop EXCEPT ![r] = l] /\ loop \in [Req -> LoopRecord]
      /\ rows' \in Log /\ R \subseteq Q /\ LoopOK(r, l, Q) /\ System \in R
  BY DEF LoopStep, Inv, Types
<1>2. /\ loop' \in [Req -> LoopRecord] /\ loop'[r] = l
      /\ \A q \in Req : q # r => loop'[q] = loop[q]
  BY <1>1
<1>3. /\ \A t \in Thread : t # ThreadOf[r] => ctx'[t] = ctx[t]
      /\ ThreadOf[r] \in Thread /\ ctx' \in [Thread -> Log]
      /\ \/ ctx'[ThreadOf[r]] = ctx[ThreadOf[r]]
         \/ /\ Good(ctx'[ThreadOf[r]])
            /\ \A m \in Elements(ctx'[ThreadOf[r]]) : m \in Q \/ (m.run = r /\ UnsavedBy(l, m))
  <2>1. ctx \in [Thread -> Log] /\ ThreadOf[r] \in Thread
    BY LoopAssumption DEF Inv, Types
  <2>2. CASE ctx' = ctx
    BY <2>1, <2>2
  <2>3. ASSUME NEW s, ctx' = [ctx EXCEPT ![ThreadOf[r]] = s], Good(s),
               \A m \in Elements(s) : m \in Q \/ (m.run = r /\ UnsavedBy(l, m))
        PROVE  /\ \A t \in Thread : t # ThreadOf[r] => ctx'[t] = ctx[t]
               /\ ctx' \in [Thread -> Log] /\ ctx'[ThreadOf[r]] = s
    <3>1. s \in Log
      BY <2>3 DEF Good
    <3> QED
      BY <2>1, <2>3, <3>1
  <2>4. ASSUME NEW s, ctx' = [ctx EXCEPT ![ThreadOf[r]] = s], Good(s),
               \A m \in Elements(s) : m \in Q \/ (m.run = r /\ UnsavedBy(l, m))
        PROVE  /\ Good(ctx'[ThreadOf[r]])
               /\ \A m \in Elements(ctx'[ThreadOf[r]]) : m \in Q \/ (m.run = r /\ UnsavedBy(l, m))
    BY <2>3, <2>4
  <2> QED
    BY <2>1, <2>2, <2>3, <2>4 DEF LoopStep
<1>4. Types'
  BY <1>1, <1>2, <1>3 DEF Inv, Types
<1>5. Loops'
  <2>1. ASSUME NEW q \in Req
        PROVE  LoopOK(q, loop'[q], Q)
    <3>1. CASE q = r
      BY <1>1, <1>2, <3>1
    <3>2. CASE q # r
      <4>1. LoopOK(q, loop[q], R)
        BY DEF Inv, Loops
      <4> QED
        BY <1>1, <1>2, <3>2, <4>1, LoopGrows
    <3> QED
      BY <3>1, <3>2
  <2> QED
    BY <2>1 DEF Loops
<1>6. Cancels'
  <2>1. ASSUME NEW q \in Req
        PROVE  CancelOK(canc[q], Q)
    BY <1>1, CancelGrows DEF Inv, Cancels
  <2> QED
    BY <2>1 DEF Cancels
<1>7. Contexts'
  <2>1. ASSUME NEW t \in Thread
        PROVE  /\ Good(ctx'[t])
               /\ \A m \in Elements(ctx'[t]) : m \in Q \/ (m.run \in Req /\ UnsavedBy(loop'[m.run], m))
    <3>1. ASSUME ctx'[t] = ctx[t]
          PROVE  /\ Good(ctx'[t])
                 /\ \A m \in Elements(ctx'[t]) : m \in Q \/ (m.run \in Req /\ UnsavedBy(loop'[m.run], m))
      <4>1. /\ Good(ctx[t])
            /\ \A m \in Elements(ctx[t]) : m \in R \/ (m.run \in Req /\ UnsavedBy(loop[m.run], m))
        BY DEF Inv, Contexts
      <4>2. Elements(ctx[t]) \subseteq Message
        BY <4>1, ElementsOf, GoodLast
      <4>3. ASSUME NEW m \in Elements(ctx[t])
            PROVE  m \in Q \/ (m.run \in Req /\ UnsavedBy(loop'[m.run], m))
        <5>1. CASE m \in R
          BY <1>1, <5>1
        <5>2. CASE m.run \in Req /\ UnsavedBy(loop[m.run], m) /\ m.run # r
          BY <1>2, <5>2
        <5>3. CASE m.run \in Req /\ UnsavedBy(loop[m.run], m) /\ m.run = r
          BY <1>2, <4>2, <5>3 DEF LoopStep
        <5> QED
          BY <4>1, <5>1, <5>2, <5>3
      <4> QED
        BY <3>1, <4>1, <4>3
    <3>2. CASE ctx'[t] # ctx[t]
      BY <1>2, <1>3, <3>2
    <3> QED
      BY <3>1, <3>2
  <2> QED
    BY <2>1 DEF Contexts
<1> QED
  BY <1>4, <1>5, <1>6, <1>7 DEF Inv

(* What the invariant says of one request.                                  *)
LEMMA LoopOf ==
  ASSUME Inv, NEW r \in Req
  PROVE  /\ loop[r] \in LoopRecord /\ LoopOK(r, loop[r], Elements(rows))
         /\ loop[r].at \in LoopPoint /\ loop[r].snap \in Log /\ loop[r].msgs \in Log
         /\ loop[r].input \in Log /\ loop[r].new \in Log /\ loop[r].resp \in Log
         /\ loop[r].target \subseteq Call /\ loop[r].n \in 1 .. MaxSteps /\ loop[r].tries \in 0 .. MaxTries
         /\ loop[r].stop \in Stop /\ loop[r].n \in Nat
<1>1. loop[r] \in LoopRecord /\ LoopOK(r, loop[r], Elements(rows))
  BY DEF Inv, Types, Loops
<1>2. \A n \in 1 .. MaxSteps : n \in Nat
  BY LoopAssumption
<1> QED
  BY <1>1, <1>2 DEF LoopRecord

(* A loop that ends, with whatever stop reason.                             *)
LEMMA Finishes ==
  ASSUME NEW r \in Req, NEW stop \in Stop, Inv, Finish(r, stop),
         rows' \in Log, Elements(rows) \subseteq Elements(rows'), UNCHANGED ctx
  PROVE  \E l : LoopStep(r, l)
<1>1. loop[r] \in LoopRecord
  BY LoopOf
<1>2. [loop[r] EXCEPT !.at = "done", !.stop = stop] \in LoopRecord
  BY <1>1 DEF LoopRecord, LoopPoint
<1>3. PICK l \in LoopRecord : l = [loop[r] EXCEPT !.at = "done", !.stop = stop]
  BY <1>2
<1>4. l.at = "done" /\ l.tries = loop[r].tries
  BY <1>1, <1>3 DEF LoopRecord
<1>5. loop' = [loop EXCEPT ![r] = l]
  BY <1>3 DEF Finish, Upd
<1>6. LoopOK(r, l, Elements(rows'))
  BY <1>4 DEF LoopOK
<1>7. \A m \in Message : UnsavedBy(loop[r], m) => UnsavedBy(l, m)
  BY <1>4 DEF UnsavedBy
<1> QED
  BY <1>5, <1>6, <1>7 DEF LoopStep

(* Frame: no message stored.                                                *)
LEMMA SameRows ==
  ASSUME Inv, UNCHANGED rows
  PROVE  rows' \in Log /\ Elements(rows) \subseteq Elements(rows')
BY DEF Inv, Types

(* Frame: messages stored at the end of the table.                          *)
LEMMA MoreRows ==
  ASSUME Inv, NEW w \in Log, rows' = rows \o w
  PROVE  /\ rows' \in Log /\ Elements(rows) \subseteq Elements(rows')
         /\ Elements(rows') = Elements(rows) \cup Elements(w)
<1>1. rows \in Seq(Message) /\ w \in Seq(Message)
  BY DEF Inv, Types, Log
<1> QED
  BY <1>1, ElementsOfJoin DEF Log

(* The agent is loaded, before or under the lock.                           *)
LEMMA StepLoadAgent ==
  ASSUME NEW r \in Req, Inv, LoadAgent(r)
  PROVE  \E l : LoopStep(r, l)
<1> DEFINE here == [loop[r] EXCEPT !.at = "loaded", !.snap = ctx[ThreadOf[r]]]
<1>1. loop[r] \in LoopRecord /\ LoopOK(r, loop[r], Elements(rows)) /\ loop[r].at = "idle"
  BY LoopOf DEF LoadAgent
<1>2. ctx[ThreadOf[r]] \in Log /\ ThreadOf[r] \in Thread
  BY LoopAssumption DEF Inv, Types
<1>3. here \in LoopRecord
  BY <1>1, <1>2 DEF LoopRecord, LoopPoint
<1>4. PICK h \in LoopRecord : h = here
  BY <1>3
<1>5. h.at = "loaded" /\ h.snap = ctx[ThreadOf[r]] /\ h.n = loop[r].n /\ h.resp = loop[r].resp
  BY <1>1, <1>4 DEF LoopRecord
<1>6. PICK l \in LoopRecord : /\ loop' = [loop EXCEPT ![r] = l]
                              /\ l.at = h.at /\ l.snap = h.snap /\ l.n = h.n /\ l.resp = h.resp
  <2>1. CASE InputOf[r] = "message" /\ Upd(r, here)
    BY <1>4, <2>1 DEF Upd
  <2>2. ASSUME NEW q \in Elements(rows), NEW v \in Verdict, Upd(r, [here EXCEPT !.target = q.calls, !.verdict = v])
        PROVE  \E l \in LoopRecord :
                 /\ loop' = [loop EXCEPT ![r] = l]
                 /\ l.at = h.at /\ l.snap = h.snap /\ l.n = h.n /\ l.resp = h.resp
    <3>1. q \in Message
      BY ElementsOf DEF Inv, Types, Log
    <3>2. q.calls \in SUBSET Call
      BY <3>1, MessageParts
    <3>3. [h EXCEPT !.target = q.calls, !.verdict = v] \in LoopRecord
      BY <3>2 DEF LoopRecord
    <3>4. PICK l \in LoopRecord : l = [h EXCEPT !.target = q.calls, !.verdict = v]
      BY <3>3
    <3>5. l.at = h.at /\ l.snap = h.snap /\ l.n = h.n /\ l.resp = h.resp
      BY <3>4 DEF LoopRecord
    <3> QED
      BY <1>4, <2>2, <3>4, <3>5 DEF Upd
  <2> QED
    BY <2>1, <2>2 DEF LoadAgent
<1>7. UNCHANGED <<ctx, rows>>
  BY DEF LoadAgent
<1>8. \A m \in Elements(ctx[ThreadOf[r]]) : m \in Elements(rows) \/ m.kind = "user"
  BY <1>2 DEF Inv, Contexts, UnsavedBy
<1>9. LoopOK(r, l, Elements(rows))
  BY <1>1, <1>2, <1>5, <1>6, <1>8 DEF LoopOK, Inv, Contexts
<1>10. \A m \in Message : ~UnsavedBy(loop[r], m)
  BY <1>1 DEF UnsavedBy
<1> QED
  BY <1>6, <1>7, <1>9, <1>10, SameRows DEF LoopStep

(* The context an input is checked against, loaded or read again, is well-  *)
(* formed and stored.                                                       *)
LEMMA SeenContext ==
  ASSUME NEW r \in Req, Inv, loop[r].at = "loaded"
  PROVE  Good(Seen(r)) /\ Elements(Seen(r)) \subseteq Elements(rows)
<1> DEFINE s == IF ThreadOf[r] = Default THEN loop[r].snap ELSE ctx[ThreadOf[r]]
<1>1. Good(s) /\ \A m \in Elements(s) : m \in Elements(rows) \/ m.kind = "user"
  <2>1. CASE ThreadOf[r] = Default
    BY <2>1, LoopOf DEF LoopOK
  <2>2. CASE ThreadOf[r] # Default
    <3>1. ThreadOf[r] \in Thread
      BY LoopAssumption
    <3> QED
      BY <2>2, <3>1 DEF Inv, Contexts, UnsavedBy
  <2> QED
    BY <2>1, <2>2
<1>2. System \in Elements(rows)
  BY DEF Inv, Types
<1>3. Seen(r) = Stored(s)
  BY DEF Seen
<1> HIDE DEF s
<1> QED
  BY <1>1, <1>2, <1>3, StoredContext

(* A request starts its loop on a context that its input may extend.        *)
LEMMA Begins ==
  ASSUME NEW r \in Req, Inv, loop[r].at = "loaded", NEW input \in Log, NEW follow \in BOOLEAN,
         Begin(r, Seen(r), input, follow), UNCHANGED <<ctx, rows>>,
         \/ Closed(Seen(r)) /\ (\A m \in Elements(input) : m.kind = "user" /\ m.run = r) /\ Len(input) <= 1
         \/ /\ Len(input) = 1 /\ input[1].kind = "response" /\ input[1].calls = loop[r].target
            /\ Last(Seen(r)).kind = "request" /\ Last(Seen(r)).calls = loop[r].target
  PROVE  \E l : LoopStep(r, l)
<1> DEFINE f == [loop[r] EXCEPT !.at = "step", !.msgs = Seen(r), !.input = input, !.follow = follow]
<1>1. loop[r] \in LoopRecord /\ LoopOK(r, loop[r], Elements(rows))
  BY LoopOf
<1>2. Good(Seen(r)) /\ Elements(Seen(r)) \subseteq Elements(rows) /\ Seen(r) \in Log
  BY SeenContext DEF Good
<1>3. f \in LoopRecord
  BY <1>1, <1>2 DEF LoopRecord, LoopPoint
<1>4. PICK l \in LoopRecord : l = f
  BY <1>3
<1>5. /\ l.at = "step" /\ l.msgs = Seen(r) /\ l.input = input /\ l.n = loop[r].n
      /\ l.resp = loop[r].resp /\ l.target = loop[r].target
  BY <1>1, <1>4 DEF LoopRecord
<1>6. l.n = 1 /\ l.resp = <<>>
  BY <1>1, <1>5 DEF LoopOK
<1>7. loop' = [loop EXCEPT ![r] = l]
  BY <1>4 DEF Begin, Upd
<1>8. Answered(l) \/ (Closed(l.msgs) /\ UserInput(r, l) /\ Len(l.input) <= 1)
  BY <1>5, <1>6 DEF Answered, UserInput
<1>9. LoopOK(r, l, Elements(rows))
  BY <1>2, <1>5, <1>8 DEF LoopOK
<1>10. \A m \in Message : ~UnsavedBy(loop[r], m)
  BY DEF UnsavedBy
<1> QED
  BY <1>7, <1>9, <1>10, SameRows DEF LoopStep

(* A user's input is one message without calls.                             *)
LEMMA UserMessage ==
  ASSUME NEW r \in Req, NEW n \in {1, 2}
  PROVE  \E w \in Log : /\ w = <<Plain("user", r, n)>> /\ Len(w) = 1
                        /\ \A m \in Elements(w) : m.kind = "user" /\ m.run = r
<1>1. n \in Nat /\ "user" \in Kind
  BY LoopAssumption DEF Kind
<1>2. PICK m : m = Plain("user", r, n)
  OBVIOUS
<1>3. m \in Message /\ m.kind = "user" /\ m.run = r
  BY <1>1, <1>2, PlainType
<1>4. PICK w \in Log : w = <<m>>
  BY <1>3, OneElement DEF Log
<1>5. Len(w) = 1 /\ Elements(w) = {m}
  BY <1>3, <1>4, OneElement
<1> QED
  BY <1>2, <1>3, <1>4, <1>5

(* The input is checked: a message, an approval, a retry of it, or a        *)
(* refusal.                                                                 *)
LEMMA StepPrepare ==
  ASSUME NEW r \in Req, Inv, Prepare(r)
  PROVE  \E l : LoopStep(r, l)
<1>1. loop[r].at = "loaded" /\ UNCHANGED <<ctx, rows>>
  BY DEF Prepare
<1>2. Good(Seen(r)) /\ LastKind(Seen(r)) = Last(Seen(r)).kind
  BY <1>1, SeenContext, GoodLast
<1>3. {"error", "busy"} \subseteq Stop
  BY DEF Stop
<1>4. CASE Finish(r, "error")
  BY <1>1, <1>3, <1>4, Finishes, SameRows
<1>5. ASSUME Begin(r, Seen(r), <<Plain("user", r, 1)>>, FALSE), LastKind(Seen(r)) # "request"
      PROVE  \E l : LoopStep(r, l)
  <2>1. PICK w \in Log : /\ w = <<Plain("user", r, 1)>> /\ Len(w) = 1
                         /\ \A m \in Elements(w) : m.kind = "user" /\ m.run = r
    BY UserMessage
  <2>2. Len(w) <= 1
    BY <2>1
  <2>3. Closed(Seen(r))
    BY <1>2, <1>5 DEF Closed
  <2>4. Begin(r, Seen(r), w, FALSE)
    BY <1>5, <2>1
  <2> QED
    BY <1>1, <2>1, <2>2, <2>3, <2>4, Begins
<1>6. ASSUME Begin(r, Seen(r), <<Msg("response", r, 1, loop[r].target, Denied(r))>>, r \in FollowUps),
             Last(Seen(r)).kind = "request", Last(Seen(r)).calls = loop[r].target
      PROVE  \E l : LoopStep(r, l)
  <2>1. loop[r].target \subseteq Call /\ Denied(r) \subseteq Call
    BY LoopOf DEF Denied
  <2>2. PICK m : m = Msg("response", r, 1, loop[r].target, Denied(r))
    OBVIOUS
  <2>3. 1 \in Nat /\ "response" \in Kind
    BY LoopAssumption DEF Kind
  <2>4. m \in Message /\ m.kind = "response" /\ m.calls = loop[r].target
    BY <2>1, <2>2, <2>3, MsgType
  <2>5. PICK w \in Log : w = <<m>>
    BY <2>4, OneElement DEF Log
  <2>6. Len(w) = 1 /\ w[1] = m
    BY <2>4, <2>5, OneElement
  <2>7. Begin(r, Seen(r), w, r \in FollowUps) /\ (r \in FollowUps) \in BOOLEAN
    BY <1>6, <2>2, <2>5
  <2> QED
    BY <1>1, <1>6, <2>4, <2>6, <2>7, Begins
<1>7. CASE PrepareMessage(r)
  BY <1>4, <1>5, <1>7 DEF PrepareMessage
<1>8. CASE PrepareApproval(r)
  BY <1>4, <1>5, <1>6, <1>8 DEF PrepareApproval
<1> QED
  BY <1>7, <1>8 DEF Prepare

(* Execution counts up.                                                     *)
LEMMA Executed ==
  ASSUME Inv, NEW calls, Execute(calls)
  PROVE  ran' \in [Call -> Nat]
BY DEF Inv, Types, Execute

(* What the loop is about to work on.                                       *)
LEMMA CurrentContext ==
  ASSUME NEW r \in Req, Inv, loop[r].at = "step"
  PROVE  LET s == Current(r)
         IN /\ s \in Seq(Message) /\ Len(s) \in Nat
            /\ Elements(s) \subseteq Elements(rows) \cup Elements(loop[r].input)
            /\ Answering(r) =>
                 /\ Answered(loop[r]) /\ Good(loop[r].msgs)
                 /\ Len(s) - 1 = Len(loop[r].msgs)
                 /\ PendingPlain(s, Len(s) - 1) = PendingPlain(loop[r].msgs, Len(loop[r].msgs))
            /\ ~Answering(r) => Good(s) /\ Closed(s) /\ UserInput(r, loop[r])
<1> DEFINE g == loop[r].msgs
           w == loop[r].input
           n == Len(g)
           s == g \o w
<1>1. /\ Good(g) /\ Elements(g) \subseteq Elements(rows) /\ w \in Seq(Message)
      /\ Answered(loop[r]) \/ (Closed(g) /\ UserInput(r, loop[r]) /\ Len(w) <= 1)
  BY LoopOf DEF LoopOK, Log
<1>2. /\ g \in Seq(Message) /\ n \in Nat /\ n > 0 /\ Last(g) = g[n]
      /\ g[n].kind \notin {"call", "response"}
  BY <1>1, GoodLast
<1>3. Current(r) = s
  BY DEF Current
<1>4. s \in Seq(Message) /\ Len(s) = n + Len(w) /\ Elements(s) = Elements(g) \cup Elements(w) /\ Len(w) \in Nat
  BY <1>1, <1>2, ElementsOfJoin
<1>5. /\ \A i \in 1 .. n : s[i] = g[i]
      /\ Len(w) = 1 => Len(s) = n + 1 /\ s[n + 1] = w[1]
  BY <1>1, GoodJoin
<1> HIDE DEF s, w, g
<1>6. CASE Answered(loop[r])
  <2>1. Len(w) = 1 /\ w[1].kind = "response" /\ Last(g).kind = "request"
    BY <1>6 DEF Answered, w, g
  <2>2. Len(s) = n + 1 /\ Last(s) = w[1] /\ s[n] = g[n] /\ Len(s) - 1 = n /\ Len(s) >= 2
    BY <1>2, <1>5, <2>1 DEF Last
  <2>3. Answering(r)
    BY <1>2, <1>3, <2>1, <2>2 DEF Answering
  <2>4. PendingPlain(s, n) = PendingPlain(g, n)
    <3>1. n > 1 => s[n - 1] = g[n - 1]
      BY <1>2, <1>5
    <3> QED
      BY <3>1 DEF PendingPlain
  <2>5. PendingPlain(s, Len(s) - 1) = PendingPlain(g, n)
    BY <2>2, <2>4
  <2>6. Elements(s) \subseteq Elements(rows) \cup Elements(w) /\ Len(s) \in Nat
    BY <1>1, <1>4
  <2> QED
    BY <1>1, <1>3, <1>4, <1>6, <2>2, <2>3, <2>5, <2>6, Zenon DEF g, w
<1>7. CASE Closed(g) /\ UserInput(r, loop[r]) /\ Len(w) <= 1
  <2>1. Good(s) /\ Closed(s)
    <3>1. CASE Len(w) = 0
      <4>1. s = g
        BY <1>1, <1>2, <3>1 DEF s
      <4> QED
        BY <1>1, <1>7, <4>1
    <3>2. CASE Len(w) = 1
      <4>1. w[1] \in Elements(w)
        BY <1>1, <3>2, ElementsOf
      <4>2. w[1].kind = "user"
        BY <1>7, <4>1 DEF UserInput, w
      <4> QED
        BY <1>1, <1>7, <3>2, <4>2, ExtendedByOne DEF s, Closed
    <3>3. \A k \in Nat : k <= 1 => k = 0 \/ k = 1
      OBVIOUS
    <3> QED
      BY <1>4, <1>7, <3>1, <3>2, <3>3
  <2>2. ~Answering(r)
    BY <1>3, <2>1, GoodLast DEF Answering
  <2> QED
    BY <1>1, <1>2, <1>3, <1>4, <1>7, <2>1, <2>2 DEF w
<1> QED
  BY <1>1, <1>6, <1>7 DEF w

(* The answer to an approval completes the context.                         *)
Result(r) ==
  LET s == Current(r)
  IN Msg("return", r, loop[r].n, PendingPlain(s, Len(s) - 1) \cup loop[r].target, Denied(r))

(* An approval turns the open request into its results.                     *)
LEMMA AnswerFacts ==
  ASSUME NEW r \in Req, Inv, loop[r].at = "step", Answering(r)
  PROVE  /\ Result(r) \in Message /\ Result(r).kind = "return" /\ Result(r).run = r
         /\ Result(r).calls = Open(loop[r].msgs)
         /\ Append(loop[r].resp, Result(r)) \in Log
         /\ \E w \in Log : w = <<Result(r)>> /\ Good(Current(r) \o w) /\ Closed(Current(r) \o w)
<1> DEFINE g == loop[r].msgs
           v == loop[r].input
           s == Current(r)
           m == Result(r)
<1>1. /\ s \in Seq(Message) /\ Answered(loop[r]) /\ Good(g)
      /\ PendingPlain(s, Len(s) - 1) = PendingPlain(g, Len(g))
  BY CurrentContext
<1>2. /\ Len(v) = 1 /\ v[1].kind = "response" /\ v[1].calls = loop[r].target
      /\ Last(g).kind = "request" /\ Last(g).calls = loop[r].target
  BY <1>1 DEF Answered
<1>3. /\ v \in Seq(Message) /\ loop[r].target \subseteq Call /\ loop[r].n \in Nat
      /\ Denied(r) \subseteq Call /\ loop[r].resp \in Seq(Message)
  BY LoopOf DEF Log, Denied
<1>4. g \in Seq(Message) /\ Len(g) \in Nat /\ Len(g) > 0
  BY <1>1, GoodLast
<1>5. PendingPlain(g, Len(g)) \subseteq Call
  <2>1. CASE Len(g) > 1
    <3>1. Len(g) - 1 \in 1 .. Len(g)
      BY <1>4, <2>1
    <3>2. g[Len(g) - 1].calls \subseteq Call
      BY <1>4, <3>1, ElementsOf, MessageParts
    <3> QED
      BY <3>2 DEF PendingPlain
  <2>2. CASE ~(Len(g) > 1)
    BY <2>2 DEF PendingPlain
  <2> QED
    BY <2>1, <2>2
<1>6. Open(g) = PendingPlain(s, Len(s) - 1) \cup loop[r].target
  BY <1>1, <1>2 DEF Open
<1>7. Open(g) \subseteq Call
  BY <1>1, <1>3, <1>5, <1>6
<1>8. m = Msg("return", r, loop[r].n, Open(g), Denied(r)) /\ "return" \in Kind
  BY <1>6 DEF Result, Kind
<1> HIDE DEF m, g, v, s
<1>9. m \in Message /\ m.kind = "return" /\ m.run = r /\ m.calls = Open(g)
  BY <1>3, <1>7, <1>8, MsgType
<1>10. PICK w \in Seq(Message) : w = <<m>>
  BY <1>9, OneElement
<1>11. Len(w) = 1 /\ w[1] = m
  BY <1>9, <1>10, OneElement
<1>12. s = g \o v /\ s \o w = g \o (v \o w)
  <2>1. s = g \o v
    BY DEF s, g, v, Current
  <2>2. (g \o v) \o w = g \o (v \o w)
    BY <1>3, <1>4, ConcatAssociative
  <2> QED
    BY <2>1, <2>2
<1>13. /\ v \o w \in Seq(Message) /\ Len(v \o w) = 2
       /\ (v \o w)[1] = v[1] /\ (v \o w)[2] = m
  <2>1. /\ v \o w \in Seq(Message) /\ Len(v \o w) = Len(v) + Len(w)
        /\ \A i \in 1 .. Len(v) : (v \o w)[i] = v[i]
        /\ Len(w) > 0 => (v \o w)[Len(v) + 1] = w[1]
    <3> v \in Seq(Message)
      BY <1>3
    <3> QED
      BY JoinEnd
  <2> HIDE DEF v
  <2> QED
    BY <1>2, <1>11, <2>1
<1>14. Approved(g, v \o w)
  <2>1. Open(g) = v[1].calls \cup PendingPlain(g, Len(g))
    BY <1>2 DEF Open
  <2> QED
    BY <1>2, <1>9, <1>13, <2>1 DEF Approved
<1>15. Good(g \o (v \o w)) /\ Last(g \o (v \o w)) = m
  BY <1>1, <1>13, <1>14, ExtendedByTwo
<1>16. Good(s \o w) /\ Closed(s \o w)
  BY <1>9, <1>12, <1>15 DEF Closed
<1>17. Append(loop[r].resp, m) \in Seq(Message)
  BY <1>3, <1>9
<1> QED
  BY <1>9, <1>10, <1>16, <1>17 DEF m, g, s, Log

(* The approved calls are executed, and the denied ones answered.           *)
LEMMA StepAnswer ==
  ASSUME NEW r \in Req, Inv, AnswerStep(r)
  PROVE  (\E l : LoopStep(r, l)) /\ ran' \in [Call -> Nat]
<1> DEFINE s == Current(r)
           m == Result(r)
<1>1. loop[r].at = "step" /\ Answering(r) /\ UNCHANGED <<ctx, rows>>
  BY DEF AnswerStep
<1>2. PICK w \in Log : w = <<m>> /\ Good(s \o w) /\ Closed(s \o w)
  BY <1>1, AnswerFacts
<1>3. Append(loop[r].resp, m) \in Log /\ s \in Log /\ Elements(s) \subseteq Elements(rows) \cup Elements(loop[r].input)
  BY <1>1, AnswerFacts, CurrentContext DEF Log
<1>4. loop[r] \in LoopRecord
  BY LoopOf
<1> DEFINE here == [loop[r] EXCEPT !.at = "save", !.msgs = s, !.new = <<m>>, !.resp = Append(@, m)]
<1>5. Upd(r, [here EXCEPT !.go = TRUE]) \/ Upd(r, [here EXCEPT !.go = FALSE, !.stop = "tool_rule"])
  BY DEF AnswerStep, Result
<1>6. ran' \in [Call -> Nat]
  BY Executed DEF AnswerStep
<1> HIDE DEF s, m
<1>7. here \in LoopRecord
  BY <1>2, <1>3, <1>4 DEF LoopRecord, LoopPoint
<1>8. PICK h \in LoopRecord : h = here
  BY <1>7
<1>9. h.at = "save" /\ h.msgs = s /\ h.new = w /\ h.input = loop[r].input /\ h.tries = loop[r].tries
  BY <1>2, <1>4, <1>8 DEF LoopRecord
<1>10. [h EXCEPT !.go = TRUE] \in LoopRecord /\ [h EXCEPT !.go = FALSE, !.stop = "tool_rule"] \in LoopRecord
  BY DEF LoopRecord, Stop
<1>11. PICK l \in LoopRecord : /\ loop' = [loop EXCEPT ![r] = l]
                               /\ l.at = "save" /\ l.msgs = s /\ l.new = w /\ l.input = loop[r].input
                               /\ l.tries = loop[r].tries
  <2>1. CASE Upd(r, [here EXCEPT !.go = TRUE])
    <3>1. PICK l \in LoopRecord : l = [h EXCEPT !.go = TRUE]
      BY <1>10
    <3>2. l.at = h.at /\ l.msgs = h.msgs /\ l.new = h.new /\ l.input = h.input /\ l.tries = h.tries
      BY <3>1 DEF LoopRecord
    <3>3. loop' = [loop EXCEPT ![r] = l]
      BY <1>8, <2>1, <3>1 DEF Upd
    <3> QED
      BY <1>9, <3>2, <3>3
  <2>2. CASE Upd(r, [here EXCEPT !.go = FALSE, !.stop = "tool_rule"])
    <3>1. PICK l \in LoopRecord : l = [h EXCEPT !.go = FALSE, !.stop = "tool_rule"]
      BY <1>10
    <3>2. l.at = h.at /\ l.msgs = h.msgs /\ l.new = h.new /\ l.input = h.input /\ l.tries = h.tries
      BY <3>1 DEF LoopRecord
    <3>3. loop' = [loop EXCEPT ![r] = l]
      BY <1>8, <2>2, <3>1 DEF Upd
    <3> QED
      BY <1>9, <3>2, <3>3
  <2> QED
    BY <1>5, <2>1, <2>2
<1>12. LoopOK(r, l, Elements(rows))
  BY <1>2, <1>3, <1>11 DEF LoopOK
<1>13. \A x \in Message : ~UnsavedBy(loop[r], x)
  BY <1>1 DEF UnsavedBy
<1> QED
  BY <1>1, <1>6, <1>11, <1>12, <1>13, SameRows DEF LoopStep

(* The model is asked on a context that waits for nothing.                  *)
LEMMA StepAskModel ==
  ASSUME NEW r \in Req, Inv, AskModel(r)
  PROVE  \E l : LoopStep(r, l)
<1> DEFINE s == Current(r)
<1>1. loop[r].at = "step" /\ ~Answering(r) /\ UNCHANGED <<ctx, rows>>
  BY DEF AskModel
<1>2. /\ Good(s) /\ Closed(s) /\ UserInput(r, loop[r]) /\ s \in Log
      /\ Elements(s) \subseteq Elements(rows) \cup Elements(loop[r].input)
  BY <1>1, CurrentContext DEF Log
<1> HIDE DEF s
<1>3. loop[r] \in LoopRecord
  BY LoopOf
<1>4. [loop[r] EXCEPT !.at = "llm", !.msgs = s, !.tries = 0] \in LoopRecord
  <2>1. 0 \in 0 .. MaxTries
    BY LoopAssumption
  <2> QED
    BY <1>2, <1>3, <2>1 DEF LoopRecord, LoopPoint
<1>5. PICK l \in LoopRecord : l = [loop[r] EXCEPT !.at = "llm", !.msgs = s, !.tries = 0]
  BY <1>4
<1>6. l.at = "llm" /\ l.msgs = s /\ l.input = loop[r].input
  BY <1>3, <1>5 DEF LoopRecord
<1>7. loop' = [loop EXCEPT ![r] = l]
  BY <1>5 DEF AskModel, Upd, s
<1>8. LoopOK(r, l, Elements(rows))
  BY <1>2, <1>6 DEF LoopOK, UserInput
<1>9. \A x \in Message : ~UnsavedBy(loop[r], x)
  BY <1>1 DEF UnsavedBy
<1> QED
  BY <1>1, <1>7, <1>8, <1>9, SameRows DEF LoopStep

(* The model replies and the tool of a plain call is executed.              *)
LEMMA StepModelReplies ==
  ASSUME NEW r \in Req, Inv, ModelReplies(r)
  PROVE  (\E l : LoopStep(r, l)) /\ ran' \in [Call -> Nat]
<1>1. PICK reply \in Replies :
        /\ Execute(IF reply \in {"tool", "terminal"} THEN {<<r, loop[r].n, "plain">>} ELSE {})
        /\ Upd(r, [loop[r] EXCEPT !.at = "save", !.new = NewMessages(r, reply),
                                  !.resp = @ \o NewMessages(r, reply), !.stop = StopOf(reply), !.go = StopOf(reply) = "none"])
  BY DEF ModelReplies
<1>2. loop[r].at = "llm" /\ UNCHANGED <<ctx, rows>>
  BY DEF ModelReplies
<1>3. ran' \in [Call -> Nat]
  BY <1>1, Executed
<1> DEFINE s == loop[r].msgs
           w == NewMessages(r, reply)
<1>4. /\ loop[r] \in LoopRecord /\ loop[r].n \in 1 .. MaxSteps /\ loop[r].resp \in Log
      /\ Good(s) /\ Closed(s) /\ Elements(s) \subseteq Elements(rows) \cup Elements(loop[r].input)
  BY <1>2, LoopOf DEF LoopOK
<1>5. w \in Seq(Message) /\ Good(s \o w) /\ StopOf(reply) \in Stop /\ (StopOf(reply) = "none" => Closed(s \o w))
  BY <1>4, Replied
<1>6. PICK v \in Log : v = w
  BY <1>5 DEF Log
<1>7. PICK e \in Log : e = loop[r].resp \o v
  <2>1. loop[r].resp \o v \in Seq(Message)
    BY <1>4, JoinEnd DEF Log
  <2> QED
    BY <2>1 DEF Log
<1>8. PICK stop \in Stop : stop = StopOf(reply)
  BY <1>5
<1>9. PICK go \in BOOLEAN : go = (StopOf(reply) = "none")
  OBVIOUS
<1> HIDE DEF w, s
<1>10. [loop[r] EXCEPT !.at = "save", !.new = v, !.resp = e, !.stop = stop, !.go = go] \in LoopRecord
  BY <1>4 DEF LoopRecord, LoopPoint
<1>11. PICK l \in LoopRecord :
         l = [loop[r] EXCEPT !.at = "save", !.new = v, !.resp = e, !.stop = stop, !.go = go]
  BY <1>10
<1>12. /\ l.at = "save" /\ l.msgs = s /\ l.new = v /\ l.input = loop[r].input /\ l.tries = loop[r].tries
       /\ l.go = go
  BY <1>4, <1>11 DEF LoopRecord, s
<1>13. loop' = [loop EXCEPT ![r] = l]
  BY <1>1, <1>6, <1>7, <1>8, <1>9, <1>11 DEF Upd, w
<1>14. Good(s \o v) /\ (go => Closed(s \o v))
  BY <1>5, <1>6, <1>9
<1>15. LoopOK(r, l, Elements(rows))
  BY <1>4, <1>12, <1>14 DEF LoopOK
<1>16. \A x \in Message : UnsavedBy(loop[r], x) => UnsavedBy(l, x)
  BY <1>2, <1>12 DEF UnsavedBy
<1> QED
  BY <1>2, <1>3, <1>13, <1>15, <1>16, SameRows DEF LoopStep

(* A compaction stores its summary, and a context that names nothing else   *)
(* that is not stored.                                                      *)
LEMMA CompactionRows ==
  ASSUME NEW r \in Req, Inv, rows' = rows \o <<Summary(r)>>
  PROVE  /\ rows' \in Log /\ Elements(rows') = Elements(rows) \cup {Summary(r)}
         /\ Elements(rows) \subseteq Elements(rows') /\ System \in Elements(rows')
<1>1. Summary(r) \in Message
  BY LoopOf, SummaryOf
<1>2. PICK w \in Log : w = <<Summary(r)>>
  BY <1>1, OneElement DEF Log
<1>3. Elements(w) = {Summary(r)}
  BY <1>1, <1>2, OneElement
<1>4. rows' = rows \o w
  BY <1>2
<1>5. System \in Elements(rows)
  BY DEF Inv, Types
<1> QED
  BY <1>3, <1>4, <1>5, MoreRows

(* The summary is reported among the messages of the request.               *)
LEMMA SummarisedResp ==
  ASSUME NEW r \in Req, Inv
  PROVE  Append(loop[r].resp, Summary(r)) \in Log
<1>1. Summary(r) \in Message /\ loop[r].resp \in Seq(Message)
  BY LoopOf, SummaryOf DEF Log
<1> QED
  BY <1>1 DEF Log

(* The window overflows: compaction and another attempt, or the end.        *)
LEMMA StepOverflow ==
  ASSUME NEW r \in Req, Inv, Overflow(r)
  PROVE  \E l : LoopStep(r, l)
<1> DEFINE s == loop[r].msgs
           here == Summarised(r)
<1>1. loop[r].at = "llm"
  BY DEF Overflow
<1>2. /\ loop[r] \in LoopRecord /\ Good(s) /\ Closed(s) /\ UserInput(r, loop[r])
      /\ Elements(s) \subseteq Elements(rows) \cup Elements(loop[r].input)
      /\ loop[r].resp \in Log /\ loop[r].tries \in 0 .. MaxTries
  BY <1>1, LoopOf DEF LoopOK
<1>3. CASE Finish(r, "error") /\ UNCHANGED <<ctx, rows>>
  <2>1. "error" \in Stop
    BY DEF Stop
  <2> QED
    BY <1>3, <2>1, Finishes, SameRows
<1>4. Append(loop[r].resp, Summary(r)) \in Log
  BY SummarisedResp
<1>5. here \in LoopRecord
  BY <1>2, <1>4 DEF Summarised, LoopRecord
<1>6. PICK h \in LoopRecord : h = here
  BY <1>5
<1>7. h.at = "llm" /\ h.input = loop[r].input /\ h.tries = loop[r].tries
  BY <1>1, <1>2, <1>6 DEF Summarised, LoopRecord
<1>8. ASSUME loop[r].tries # MaxTries, NEW c \in Compacted(r, s), Checkpoint(r, <<Summary(r)>>, c),
             Upd(r, [here EXCEPT !.msgs = c, !.tries = @ + 1])
      PROVE  \E l : LoopStep(r, l)
  <2>1. Good(c) /\ Closed(c) /\ Elements(c) \subseteq Elements(s) \cup {System, Summary(r)} /\ c \in Log
    BY <1>2, CompactedContext DEF Good
  <2>2. PICK k \in 0 .. MaxTries : k = h.tries + 1 /\ k > 0
    <3>1. loop[r].tries + 1 \in 0 .. MaxTries /\ loop[r].tries + 1 > 0
      BY <1>2, <1>8, LoopAssumption
    <3> QED
      BY <1>7, <3>1
  <2>3. [h EXCEPT !.msgs = c, !.tries = k] \in LoopRecord
    BY <2>1 DEF LoopRecord
  <2>4. PICK l \in LoopRecord : l = [h EXCEPT !.msgs = c, !.tries = k]
    BY <2>3
  <2>5. l.at = "llm" /\ l.input = loop[r].input /\ l.msgs = c /\ l.tries = k
    BY <1>7, <2>4 DEF LoopRecord
  <2>6. loop' = [loop EXCEPT ![r] = l]
    BY <1>6, <1>8, <2>2, <2>4 DEF Upd
  <2>7. /\ rows' \in Log /\ Elements(rows') = Elements(rows) \cup {Summary(r)}
        /\ Elements(rows) \subseteq Elements(rows') /\ System \in Elements(rows')
    BY <1>8, CompactionRows DEF Checkpoint
  <2>8. Elements(c) \subseteq Elements(rows') \cup Elements(loop[r].input)
    BY <1>2, <2>1, <2>7
  <2>9. LoopOK(r, l, Elements(rows'))
    BY <1>2, <2>1, <2>5, <2>8 DEF LoopOK, UserInput
  <2>10. \A m \in Message : UnsavedBy(loop[r], m) => UnsavedBy(l, m)
    BY <1>1, <2>2, <2>5 DEF UnsavedBy
  <2>11. \A m \in Elements(c) : m \in Elements(rows') \/ (m.run = r /\ UnsavedBy(l, m))
    BY <1>2, <2>2, <2>5, <2>8 DEF UserInput, UnsavedBy
  <2>12. ctx' = [ctx EXCEPT ![ThreadOf[r]] = c]
    BY <1>8 DEF Checkpoint
  <2> QED
    BY <2>1, <2>6, <2>7, <2>9, <2>10, <2>11, <2>12 DEF LoopStep
<1>9. ASSUME CheckpointFails(<<Summary(r)>>), Upd(r, [here EXCEPT !.at = "done", !.stop = "error"])
      PROVE  \E l : LoopStep(r, l)
  <2>1. [h EXCEPT !.at = "done", !.stop = "error"] \in LoopRecord
    BY DEF LoopRecord, LoopPoint, Stop
  <2>2. PICK l \in LoopRecord : l = [h EXCEPT !.at = "done", !.stop = "error"]
    BY <2>1
  <2>3. l.at = "done" /\ l.tries = loop[r].tries
    BY <1>7, <2>2 DEF LoopRecord
  <2>4. loop' = [loop EXCEPT ![r] = l]
    BY <1>6, <1>9, <2>2 DEF Upd
  <2>5. rows' \in Log /\ Elements(rows) \subseteq Elements(rows') /\ ctx' = ctx
    BY <1>9, SameRows, CompactionRows DEF CheckpointFails
  <2>6. LoopOK(r, l, Elements(rows'))
    BY <2>3 DEF LoopOK
  <2>7. \A m \in Message : UnsavedBy(loop[r], m) => UnsavedBy(l, m)
    BY <2>3 DEF UnsavedBy
  <2> QED
    BY <2>4, <2>5, <2>6, <2>7 DEF LoopStep
<1> QED
  BY <1>3, <1>8, <1>9 DEF Overflow

(* A checkpoint stores the messages of the step.                            *)
LEMMA StepSave ==
  ASSUME NEW r \in Req, Inv, Save(r)
  PROVE  \E l : LoopStep(r, l)
<1> DEFINE s == loop[r].msgs \o loop[r].new
<1>1. loop[r].at = "save" /\ Checkpoint(r, loop[r].input \o loop[r].new, s)
  BY DEF Save
<1>2. PICK at \in {"next", "compact"} : Upd(r, [loop[r] EXCEPT !.at = at, !.msgs = s, !.input = <<>>, !.new = <<>>])
  BY DEF Save
<1>3. /\ loop[r] \in LoopRecord /\ Good(s) /\ (loop[r].go => Closed(s))
      /\ Elements(loop[r].msgs) \subseteq Elements(rows) \cup Elements(loop[r].input)
      /\ loop[r].input \in Seq(Message) /\ loop[r].new \in Seq(Message) /\ loop[r].msgs \in Seq(Message)
  BY <1>1, LoopOf DEF LoopOK, Log
<1>4. /\ loop[r].input \o loop[r].new \in Log
      /\ Elements(loop[r].input \o loop[r].new) = Elements(loop[r].input) \cup Elements(loop[r].new)
      /\ Elements(s) = Elements(loop[r].msgs) \cup Elements(loop[r].new)
  BY <1>3, ElementsOfJoin DEF Log
<1>5. rows' = rows \o (loop[r].input \o loop[r].new) /\ ctx' = [ctx EXCEPT ![ThreadOf[r]] = s]
  BY <1>1 DEF Checkpoint
<1>6. /\ rows' \in Log /\ Elements(rows) \subseteq Elements(rows')
      /\ Elements(rows') = Elements(rows) \cup Elements(loop[r].input \o loop[r].new)
  BY <1>4, <1>5, MoreRows
<1>7. Elements(s) \subseteq Elements(rows') /\ s \in Log
  BY <1>3, <1>4, <1>6 DEF Good
<1> HIDE DEF s
<1>8. PICK e \in Log : e = <<>>
  BY NoElements DEF Log
<1>9. [loop[r] EXCEPT !.at = at, !.msgs = s, !.input = e, !.new = e] \in LoopRecord
  BY <1>3, <1>7 DEF LoopRecord, LoopPoint
<1>10. PICK l \in LoopRecord : l = [loop[r] EXCEPT !.at = at, !.msgs = s, !.input = e, !.new = e]
  BY <1>9
<1>11. l.at = at /\ l.msgs = s /\ l.go = loop[r].go
  BY <1>3, <1>10 DEF LoopRecord
<1>12. loop' = [loop EXCEPT ![r] = l]
  BY <1>2, <1>8, <1>10 DEF Upd
<1>13. LoopOK(r, l, Elements(rows'))
  BY <1>3, <1>7, <1>11 DEF LoopOK
<1>14. \A m \in Message : UnsavedBy(loop[r], m) => m \in Elements(rows')
  BY <1>1, <1>4, <1>6 DEF UnsavedBy
<1> QED
  BY <1>3, <1>5, <1>6, <1>7, <1>12, <1>13, <1>14 DEF LoopStep

(* A checkpoint that fails ends the loop.                                   *)
LEMMA StepSaveFails ==
  ASSUME NEW r \in Req, Inv, SaveFails(r)
  PROVE  \E l : LoopStep(r, l)
<1>1. loop[r].stop \in Stop /\ "error" \in Stop /\ loop[r].input \in Seq(Message) /\ loop[r].new \in Seq(Message)
  BY LoopOf DEF Stop, Log
<1>2. PICK stop \in Stop : Finish(r, stop)
  BY <1>1 DEF SaveFails, FinishSwallowing
<1>3. loop[r].input \o loop[r].new \in Log
  BY <1>1, ElementsOfJoin DEF Log
<1>4. rows' \in Log /\ Elements(rows) \subseteq Elements(rows') /\ ctx' = ctx
  BY <1>3, SameRows, MoreRows DEF SaveFails, CheckpointFails
<1> QED
  BY <1>2, <1>4, Finishes

(* The compaction after a step.                                             *)
LEMMA StepCompactAfterStep ==
  ASSUME NEW r \in Req, Inv, CompactAfterStep(r)
  PROVE  \E l : LoopStep(r, l)
<1> DEFINE s == loop[r].msgs
           here == Summarised(r)
<1>1. loop[r].at = "compact"
  BY DEF CompactAfterStep
<1>2. /\ loop[r] \in LoopRecord /\ Good(s) /\ Elements(s) \subseteq Elements(rows)
      /\ (loop[r].go => Closed(s)) /\ loop[r].resp \in Log
  BY <1>1, LoopOf DEF LoopOK
<1>3. loop[r].stop \in Stop /\ "error" \in Stop
  BY LoopOf DEF Stop
<1>4. Append(loop[r].resp, Summary(r)) \in Log
  BY SummarisedResp
<1>5. here \in LoopRecord
  BY <1>2, <1>4 DEF Summarised, LoopRecord
<1>6. PICK h \in LoopRecord : h = here
  BY <1>5
<1>7. h.tries = loop[r].tries /\ h.stop = loop[r].stop /\ h.go = loop[r].go
  BY <1>2, <1>6 DEF Summarised, LoopRecord
<1>8. \A m \in Message : ~UnsavedBy(loop[r], m)
  BY <1>1 DEF UnsavedBy
<1>9. ASSUME NEW c \in Compacted(r, s), Checkpoint(r, <<Summary(r)>>, c),
             Upd(r, [here EXCEPT !.at = "next", !.msgs = c])
      PROVE  \E l : LoopStep(r, l)
  <2>1. Good(c) /\ (Closed(s) <=> Closed(c)) /\ Elements(c) \subseteq Elements(s) \cup {System, Summary(r)} /\ c \in Log
    BY <1>2, CompactedContext DEF Good
  <2>2. [h EXCEPT !.at = "next", !.msgs = c] \in LoopRecord
    BY <2>1 DEF LoopRecord, LoopPoint
  <2>3. PICK l \in LoopRecord : l = [h EXCEPT !.at = "next", !.msgs = c]
    BY <2>2
  <2>4. l.at = "next" /\ l.msgs = c /\ l.go = loop[r].go
    BY <1>7, <2>3 DEF LoopRecord
  <2>5. loop' = [loop EXCEPT ![r] = l]
    BY <1>6, <1>9, <2>3 DEF Upd
  <2>6. /\ rows' \in Log /\ Elements(rows') = Elements(rows) \cup {Summary(r)}
        /\ Elements(rows) \subseteq Elements(rows') /\ System \in Elements(rows')
    BY <1>9, CompactionRows DEF Checkpoint
  <2>7. Elements(c) \subseteq Elements(rows')
    BY <1>2, <2>1, <2>6
  <2>8. LoopOK(r, l, Elements(rows'))
    BY <1>2, <2>1, <2>4, <2>7 DEF LoopOK
  <2>9. ctx' = [ctx EXCEPT ![ThreadOf[r]] = c]
    BY <1>9 DEF Checkpoint
  <2> QED
    BY <1>8, <2>1, <2>5, <2>6, <2>7, <2>8, <2>9 DEF LoopStep
<1>10. ASSUME CheckpointFails(<<Summary(r)>>),
              Upd(r, [here EXCEPT !.at = "done", !.stop = IF @ = "none" THEN "error" ELSE @])
       PROVE  \E l : LoopStep(r, l)
  <2>1. PICK stop \in Stop : stop = IF h.stop = "none" THEN "error" ELSE h.stop
    BY <1>3, <1>7
  <2>2. [h EXCEPT !.at = "done", !.stop = stop] \in LoopRecord
    BY DEF LoopRecord, LoopPoint
  <2>3. PICK l \in LoopRecord : l = [h EXCEPT !.at = "done", !.stop = stop]
    BY <2>2
  <2>4. l.at = "done"
    BY <2>3 DEF LoopRecord
  <2>5. loop' = [loop EXCEPT ![r] = l]
    BY <1>6, <1>10, <2>1, <2>3 DEF Upd
  <2>6. rows' \in Log /\ Elements(rows) \subseteq Elements(rows') /\ ctx' = ctx
    BY <1>10, SameRows, CompactionRows DEF CheckpointFails
  <2>7. LoopOK(r, l, Elements(rows'))
    BY <2>4 DEF LoopOK
  <2> QED
    BY <1>8, <2>5, <2>6, <2>7 DEF LoopStep
<1>11. CASE FinishSwallowing(r) /\ UNCHANGED <<ctx, rows>>
  <2>1. PICK stop \in Stop : Finish(r, stop)
    BY <1>3, <1>11 DEF FinishSwallowing
  <2> QED
    BY <1>11, <2>1, Finishes, SameRows
<1> QED
  BY <1>9, <1>10, <1>11 DEF CompactAfterStep

(* The loop goes on or ends.                                                *)
LEMMA StepNextStep ==
  ASSUME NEW r \in Req, Inv, NextStep(r)
  PROVE  \E l : LoopStep(r, l)
<1> DEFINE follow == IF loop[r].n = 1 /\ loop[r].follow THEN <<Plain("user", r, 2)>> ELSE <<>>
<1>1. loop[r].at = "next" /\ UNCHANGED <<ctx, rows>>
  BY DEF NextStep
<1>2. /\ loop[r] \in LoopRecord /\ Good(loop[r].msgs) /\ Elements(loop[r].msgs) \subseteq Elements(rows)
      /\ (loop[r].go => Closed(loop[r].msgs)) /\ loop[r].n \in 1 .. MaxSteps /\ loop[r].stop \in Stop
  BY <1>1, LoopOf DEF LoopOK
<1>3. {"max_steps", "insufficient_credits"} \subseteq Stop
  BY DEF Stop
<1>4. ASSUME NEW stop \in Stop, Finish(r, stop)
      PROVE  \E l : LoopStep(r, l)
  BY <1>1, <1>4, Finishes, SameRows
<1>5. ASSUME loop[r].go, loop[r].n # MaxSteps,
             Upd(r, [loop[r] EXCEPT !.at = "step", !.n = @ + 1, !.input = follow])
      PROVE  \E l : LoopStep(r, l)
  <2>1. PICK w \in Log : w = follow /\ Len(w) <= 1 /\ \A m \in Elements(w) : m.kind = "user" /\ m.run = r
    <3>0. follow = <<>> \/ follow = <<Plain("user", r, 2)>>
      OBVIOUS
    <3> HIDE DEF follow
    <3>1. CASE follow = <<>>
      <4>1. <<>> \in Log /\ Len(<<>>) = 0 /\ Elements(<<>>) = {}
        BY NoElements DEF Log
      <4> QED
        BY <3>1, <4>1
    <3>2. CASE follow = <<Plain("user", r, 2)>>
      <4>1. PICK w \in Log : /\ w = <<Plain("user", r, 2)>> /\ Len(w) = 1
                             /\ \A m \in Elements(w) : m.kind = "user" /\ m.run = r
        BY UserMessage
      <4>2. Len(w) <= 1
        BY <4>1
      <4> QED
        BY <3>2, <4>1, <4>2
    <3> QED
      BY <3>0, <3>1, <3>2
  <2>2. PICK k \in 1 .. MaxSteps : k = loop[r].n + 1
    <3>1. loop[r].n + 1 \in 1 .. MaxSteps
      BY <1>2, <1>5, LoopAssumption
    <3> QED
      BY <3>1
  <2> HIDE DEF follow
  <2>3. [loop[r] EXCEPT !.at = "step", !.n = k, !.input = w] \in LoopRecord
    BY <1>2 DEF LoopRecord, LoopPoint
  <2>4. PICK l \in LoopRecord : l = [loop[r] EXCEPT !.at = "step", !.n = k, !.input = w]
    BY <2>3
  <2>5. l.at = "step" /\ l.input = w /\ l.msgs = loop[r].msgs
    BY <1>2, <2>4 DEF LoopRecord
  <2>6. loop' = [loop EXCEPT ![r] = l]
    BY <1>5, <2>1, <2>2, <2>4 DEF Upd
  <2>7. LoopOK(r, l, Elements(rows))
    BY <1>2, <1>5, <2>1, <2>5 DEF LoopOK, UserInput
  <2>8. \A m \in Message : ~UnsavedBy(loop[r], m)
    BY <1>1 DEF UnsavedBy
  <2> QED
    BY <1>1, <2>6, <2>7, <2>8, SameRows DEF LoopStep
<1> QED
  BY <1>2, <1>3, <1>4, <1>5 DEF NextStep

(* Every action of a loop is such a step.                                   *)
LEMMA LoopSteps ==
  ASSUME NEW r \in Req, Inv, Loop(r)
  PROVE  (\E l : LoopStep(r, l)) /\ ran' \in [Call -> Nat] /\ UNCHANGED <<cancelled, canc>>
<1>1. {"busy", "cancelled", "llm_api_error", "crashed"} \subseteq Stop
  BY DEF Stop
<1>2. ASSUME NEW stop \in Stop, Finish(r, stop), UNCHANGED <<ctx, rows>>
      PROVE  \E l : LoopStep(r, l)
  BY <1>2, Finishes, SameRows
<1>3. ran \in [Call -> Nat]
  BY DEF Inv, Types
<1>4. CASE LoadAgent(r)
  BY <1>3, <1>4, StepLoadAgent DEF LoadAgent
<1>5. CASE Refused(r)
  BY <1>1, <1>2, <1>3, <1>5 DEF Refused
<1>6. CASE Prepare(r)
  BY <1>3, <1>6, StepPrepare DEF Prepare
<1>7. CASE AnswerStep(r)
  BY <1>7, StepAnswer DEF AnswerStep
<1>8. CASE SeeCancel(r)
  BY <1>1, <1>2, <1>3, <1>8 DEF SeeCancel
<1>9. CASE AskModel(r)
  BY <1>3, <1>9, StepAskModel DEF AskModel
<1>10. CASE ModelReplies(r)
  BY <1>10, StepModelReplies DEF ModelReplies
<1>11. CASE ModelFails(r)
  BY <1>1, <1>2, <1>3, <1>11 DEF ModelFails
<1>12. CASE Overflow(r)
  BY <1>3, <1>12, StepOverflow DEF Overflow
<1>13. CASE Save(r)
  BY <1>3, <1>13, StepSave DEF Save
<1>14. CASE SaveFails(r)
  BY <1>3, <1>14, StepSaveFails DEF SaveFails
<1>15. CASE CompactAfterStep(r)
  BY <1>3, <1>15, StepCompactAfterStep DEF CompactAfterStep
<1>16. CASE NextStep(r)
  BY <1>3, <1>16, StepNextStep DEF NextStep
<1>17. CASE Abandoned(r)
  BY <1>1, <1>2, <1>3, <1>17 DEF Abandoned
<1>18. CASE Crash(r)
  BY <1>1, <1>2, <1>3, <1>18 DEF Crash
<1> QED
  BY <1>4, <1>5, <1>6, <1>7, <1>8, <1>9, <1>10, <1>11, <1>12, <1>13, <1>14, <1>15, <1>16, <1>17, <1>18 DEF Loop

(* Every step of a loop keeps the invariant.                                *)
LEMMA LoopInv ==
  ASSUME NEW r \in Req, Inv, Loop(r)
  PROVE  Inv'
BY LoopSteps, LoopStepInv

-----------------------------------------------------------------------------
(* A cancellation.                                                          *)

(* A step of one cancellation that leaves its own record in order leaves    *)
(* the invariant in order.                                                  *)
LEMMA CancelStepInv ==
  ASSUME NEW r \in Req, Inv, NEW o \in [at : CancelPoint, msgs : Log], canc' = [canc EXCEPT ![r] = o],
         o.at # "idle" => r \in MayCancel, CancelOK(o, Elements(rows')),
         rows' \in Log, Elements(rows) \subseteq Elements(rows'),
         cancelled' \subseteq MayCancel, UNCHANGED <<ran, loop>>,
         \/ ctx' = ctx
         \/ \E s : /\ ctx' = [ctx EXCEPT ![Default] = s] /\ Good(s) /\ Elements(s) \subseteq Elements(rows')
  PROVE  Inv'
<1> DEFINE R == Elements(rows)
           Q == Elements(rows')
<1>1. /\ canc' \in [Req -> [at : CancelPoint, msgs : Log]] /\ canc'[r] = o
      /\ \A q \in Req : q # r => canc'[q] = canc[q]
  BY DEF Inv, Types
<1>2. /\ ctx' \in [Thread -> Log]
      /\ \A t \in Thread : ctx'[t] = ctx[t] \/ (Good(ctx'[t]) /\ Elements(ctx'[t]) \subseteq Q)
  <2>1. ctx \in [Thread -> Log] /\ Default \in Thread
    BY LoopAssumption DEF Inv, Types
  <2>2. ASSUME NEW s, ctx' = [ctx EXCEPT ![Default] = s], Good(s), Elements(s) \subseteq Q
        PROVE  /\ ctx' \in [Thread -> Log]
               /\ \A t \in Thread : ctx'[t] = ctx[t] \/ (Good(ctx'[t]) /\ Elements(ctx'[t]) \subseteq Q)
    <3>1. s \in Log
      BY <2>2 DEF Good
    <3> QED
      BY <2>1, <2>2, <3>1
  <2> QED
    BY <2>1, <2>2
<1>3. Types'
  <2>1. \A q \in Req : canc'[q].at # "idle" => q \in MayCancel
    BY <1>1 DEF Inv, Types
  <2>2. ran' \in [Call -> Nat] /\ loop' \in [Req -> LoopRecord] /\ System \in Q
    BY DEF Inv, Types
  <2> QED
    BY <1>1, <1>2, <2>1, <2>2 DEF Types
<1>4. Loops'
  <2>1. ASSUME NEW q \in Req
        PROVE  LoopOK(q, loop[q], Q)
    BY LoopOf, LoopGrows
  <2> QED
    BY <2>1 DEF Loops
<1>5. Cancels'
  <2>1. ASSUME NEW q \in Req
        PROVE  CancelOK(canc'[q], Q)
    <3>1. CancelOK(canc[q], R)
      BY DEF Inv, Cancels
    <3>2. CancelOK(canc[q], Q)
      BY <3>1, CancelGrows
    <3> QED
      BY <1>1, <3>2
  <2> QED
    BY <2>1 DEF Cancels
<1>6. Contexts'
  <2>1. ASSUME NEW t \in Thread
        PROVE  /\ Good(ctx'[t])
               /\ \A m \in Elements(ctx'[t]) : m \in Q \/ (m.run \in Req /\ UnsavedBy(loop[m.run], m))
    <3>1. CASE ctx'[t] = ctx[t]
      BY <3>1 DEF Inv, Contexts
    <3>2. CASE Good(ctx'[t]) /\ Elements(ctx'[t]) \subseteq Q
      BY <3>2
    <3> QED
      BY <1>2, <3>1, <3>2
  <2>2. loop' = loop
    OBVIOUS
  <2> QED
    BY <2>1, <2>2 DEF Contexts
<1> QED
  BY <1>3, <1>4, <1>5, <1>6 DEF Inv

(* What the invariant says of one cancellation.                             *)
LEMMA CancelOf ==
  ASSUME Inv, NEW r \in Req
  PROVE  /\ canc[r] \in [at : CancelPoint, msgs : Log] /\ CancelOK(canc[r], Elements(rows))
         /\ canc[r].at \in CancelPoint /\ canc[r].msgs \in Log
         /\ canc[r].at # "idle" => r \in MayCancel
         /\ cancelled \subseteq MayCancel
BY DEF Inv, Types, Cancels

(* A cancellation denies the pending request: the context it read, with an  *)
(* answer and its results, is closed.                                       *)
LEMMA DeniedContext ==
  ASSUME NEW r \in Req, NEW s, Good(s), Last(s).kind = "request"
  PROVE  LET gated == Last(s).calls
             all == gated \cup PendingPlain(s, Len(s))
         IN \E w \in Log : /\ w = <<Msg("response", r, 1, gated, gated), Msg("return", r, 1, all, all)>>
                           /\ Good(s \o w) /\ Closed(s \o w) /\ all = Open(s)
                           /\ \A m \in Elements(w) : m.calls \subseteq Open(s)
                           /\ \A m \in Elements(w) : m.run = r /\ m.kind \in {"response", "return"}
<1> DEFINE gated == Last(s).calls
           all == gated \cup PendingPlain(s, Len(s))
<1>1. s \in Seq(Message) /\ Len(s) \in Nat /\ Len(s) > 0 /\ Last(s) \in Message
  BY GoodLast
<1>2. PendingPlain(s, Len(s)) \subseteq Call
  <2>1. CASE Len(s) > 1
    <3>1. Len(s) - 1 \in 1 .. Len(s)
      BY <1>1, <2>1
    <3>2. s[Len(s) - 1].calls \subseteq Call
      BY <1>1, <3>1, ElementsOf, MessageParts
    <3> QED
      BY <3>2 DEF PendingPlain
  <2>2. CASE ~(Len(s) > 1)
    BY <2>2 DEF PendingPlain
  <2> QED
    BY <2>1, <2>2
<1>3. gated \subseteq Call /\ all \subseteq Call /\ Open(s) = all /\ gated \subseteq all
  BY <1>1, <1>2, MessageParts DEF Open
<1>4. 1 \in Nat /\ "response" \in Kind /\ "return" \in Kind
  BY LoopAssumption DEF Kind
<1> HIDE DEF all, gated
<1>5. PICK m : m = Msg("response", r, 1, gated, gated)
  OBVIOUS
<1>6. PICK p : p = Msg("return", r, 1, all, all)
  OBVIOUS
<1>7. m \in Message /\ m.kind = "response" /\ m.calls = gated /\ m.run = r
  BY <1>3, <1>4, <1>5, MsgType
<1>8. p \in Message /\ p.kind = "return" /\ p.calls = all /\ p.run = r
  BY <1>3, <1>4, <1>6, MsgType
<1>9. PICK w \in Seq(Message) : w = <<m, p>>
  BY <1>7, <1>8, TwoElements
<1>10. Len(w) = 2 /\ w[1] = m /\ w[2] = p /\ Elements(w) = {m, p}
  BY <1>7, <1>8, <1>9, TwoElements
<1>11. Approved(s, w)
  BY <1>7, <1>8, <1>10 DEF Approved, all, gated
<1>12. Good(s \o w) /\ Last(s \o w) = p
  BY <1>10, <1>11, ExtendedByTwo
<1>13. Closed(s \o w)
  BY <1>8, <1>12 DEF Closed
<1> QED
  BY <1>3, <1>5, <1>6, <1>7, <1>8, <1>9, <1>10, <1>12, <1>13 DEF Log, all, gated

(* Every step of a cancellation keeps the invariant.                        *)
LEMMA CancellationInv ==
  ASSUME NEW r \in Req, Inv, Cancellation(r)
  PROVE  Inv'
<1>1. /\ canc[r] \in [at : CancelPoint, msgs : Log] /\ CancelOK(canc[r], Elements(rows))
      /\ canc[r].at # "idle" => r \in MayCancel
      /\ cancelled \subseteq MayCancel
  BY CancelOf
<1>2. CASE CancelReads(r)
  <2> DEFINE s == Stored(ctx[Default])
  <2>1. r \in MayCancel /\ canc' = [canc EXCEPT ![r] = [at |-> "write", msgs |-> s]]
        /\ UNCHANGED <<ctx, rows, ran, loop, cancelled>>
    BY <1>2 DEF CancelReads
  <2>2. Good(ctx[Default]) /\ \A m \in Elements(ctx[Default]) : m \in Elements(rows) \/ m.kind = "user"
    BY LoopAssumption DEF Inv, Contexts, UnsavedBy
  <2>3. System \in Elements(rows)
    BY DEF Inv, Types
  <2>4. Good(s) /\ Elements(s) \subseteq Elements(rows) /\ s \in Log
    BY <2>2, <2>3, StoredContext DEF Good
  <2> HIDE DEF s
  <2>5. PICK o \in [at : CancelPoint, msgs : Log] : o = [at |-> "write", msgs |-> s]
    BY <2>4 DEF CancelPoint
  <2>6. o.at = "write" /\ o.msgs = s
    BY <2>5
  <2>7. CancelOK(o, Elements(rows))
    BY <2>4, <2>6 DEF CancelOK
  <2> QED
    BY <1>1, <2>1, <2>5, <2>7, SameRows, CancelStepInv
<1>3. CASE CancelWrites(r)
  <2>1. PICK at \in {"deny", "done"} : /\ canc' = [canc EXCEPT ![r].at = at]
                                       /\ at = "deny" => Last(canc[r].msgs).kind = "request"
    BY <1>3 DEF CancelWrites
  <2>2. canc[r].at = "write" /\ cancelled' = cancelled \cup {r} /\ UNCHANGED <<ctx, rows, ran, loop>>
    BY <1>3 DEF CancelWrites
  <2>3. [canc[r] EXCEPT !.at = at] \in [at : CancelPoint, msgs : Log]
    BY <1>1 DEF CancelPoint
  <2>4. PICK o \in [at : CancelPoint, msgs : Log] : o = [canc[r] EXCEPT !.at = at]
    BY <2>3
  <2>5. o.at = at /\ o.msgs = canc[r].msgs
    BY <1>1, <2>4
  <2>6. canc' = [canc EXCEPT ![r] = o]
    BY <2>1, <2>4
  <2>7. CancelOK(o, Elements(rows))
    BY <1>1, <2>1, <2>2, <2>5 DEF CancelOK
  <2>8. r \in MayCancel /\ cancelled' \subseteq MayCancel
    BY <1>1, <2>2
  <2> QED
    BY <2>2, <2>4, <2>6, <2>7, <2>8, SameRows, CancelStepInv
<1>4. CASE CancelDenies(r)
  <2> DEFINE s == canc[r].msgs
             gated == Last(s).calls
             all == gated \cup PendingPlain(s, Len(s))
  <2>1. canc[r].at = "deny" /\ canc' = [canc EXCEPT ![r].at = "done"] /\ UNCHANGED <<ran, loop, cancelled>>
    BY <1>4 DEF CancelDenies
  <2>2. Good(s) /\ Elements(s) \subseteq Elements(rows) /\ Last(s).kind = "request" /\ s \in Seq(Message)
    BY <1>1, <2>1, GoodLast DEF CancelOK
  <2>3. PICK w \in Log : /\ w = <<Msg("response", r, 1, gated, gated), Msg("return", r, 1, all, all)>>
                         /\ Good(s \o w)
    BY <2>2, DeniedContext
  <2>4. rows' = rows \o w /\ ctx' = [ctx EXCEPT ![Default] = s \o w]
    BY <1>4, <2>3 DEF CancelDenies
  <2>5. /\ rows' \in Log /\ Elements(rows) \subseteq Elements(rows')
        /\ Elements(rows') = Elements(rows) \cup Elements(w)
    BY <2>4, MoreRows
  <2>6. Elements(s \o w) = Elements(s) \cup Elements(w)
    BY <2>2, ElementsOfJoin DEF Log
  <2>7. Elements(s \o w) \subseteq Elements(rows')
    BY <2>2, <2>5, <2>6
  <2>8. [canc[r] EXCEPT !.at = "done"] \in [at : CancelPoint, msgs : Log]
    BY <1>1 DEF CancelPoint
  <2> HIDE DEF s, gated, all
  <2>9. PICK o \in [at : CancelPoint, msgs : Log] : o = [canc[r] EXCEPT !.at = "done"]
    BY <2>8
  <2>10. canc' = [canc EXCEPT ![r] = o] /\ o.at = "done"
    BY <1>1, <2>1, <2>9
  <2>11. CancelOK(o, Elements(rows')) /\ r \in MayCancel /\ cancelled' \subseteq MayCancel
    BY <1>1, <2>1, <2>10 DEF CancelOK
  <2> QED
    BY <2>1, <2>3, <2>4, <2>5, <2>7, <2>9, <2>10, <2>11, CancelStepInv
<1> QED
  BY <1>2, <1>3, <1>4 DEF Cancellation
-----------------------------------------------------------------------------
(* Every context is well formed, and what it lists is stored.               *)

(* The initial states.                                                      *)
LEMMA InitInv ==
  Init => Inv
<1>1. SUFFICES ASSUME Init PROVE Inv
  OBVIOUS
<1>2. System \in Message /\ System.kind = "system"
  BY MessageParts
<1>3. PICK s \in Seq(Message) : s = <<System>>
  BY <1>2, OneElement
<1>4. Len(s) = 1 /\ s[1] = System /\ Elements(s) = {System}
  BY <1>2, <1>3, OneElement
<1>5. Good(s)
  <2>1. Continues(s, 1)
    BY <1>2, <1>4 DEF Continues
  <2> QED
    BY <1>4, <2>1 DEF Good, Log
<1>6. PICK e \in Log : e = <<>>
  BY NoElements DEF Log
<1>7. PICK l : l = [at |-> "idle", snap |-> e, msgs |-> e, input |-> e, new |-> e,
                    resp |-> e, follow |-> FALSE, target |-> {}, verdict |-> "approve",
                    n |-> 1, tries |-> 0, stop |-> "none", go |-> TRUE]
  OBVIOUS
<1>8. l \in LoopRecord
  BY <1>7, LoopAssumption DEF LoopRecord, LoopPoint, Verdict, Stop
<1>9. l.at = "idle" /\ l.n = 1 /\ l.resp = <<>>
  BY <1>6, <1>7
<1>10. loop = [r \in Req |-> l] /\ ctx = [t \in Thread |-> s] /\ rows = s
  BY <1>1, <1>3, <1>6, <1>7 DEF Init
<1>11. Types
  <2>1. ran \in [Call -> Nat] /\ cancelled \subseteq MayCancel
    BY <1>1 DEF Init
  <2>2. /\ canc \in [Req -> [at : CancelPoint, msgs : Log]]
        /\ \A r \in Req : canc[r].at = "idle"
    BY <1>1, <1>6 DEF Init, CancelPoint
  <2> QED
    BY <1>4, <1>8, <1>10, <2>1, <2>2 DEF Types, Log
<1>12. Contexts
  BY <1>4, <1>5, <1>10 DEF Contexts
<1>13. Loops
  <2>1. ASSUME NEW r \in Req
        PROVE  LoopOK(r, l, Elements(rows))
    BY <1>9 DEF LoopOK
  <2> QED
    BY <1>10, <2>1 DEF Loops
<1>14. Cancels
  BY <1>1 DEF Init, Cancels, CancelOK
<1> QED
  BY <1>11, <1>12, <1>13, <1>14 DEF Inv

(* Contexts, loops and cancellations are in order in every reachable state. *)
LEMMA InvHolds ==
  Spec => []Inv
<1>1. Init => Inv
  BY InitInv
<1>2. Inv /\ [Next]_vars => Inv'
  <2>1. ASSUME Inv, Next
        PROVE  Inv'
    BY <2>1, LoopInv, CancellationInv DEF Next
  <2>2. ASSUME Inv, UNCHANGED vars
        PROVE  Inv'
    BY <2>2 DEF vars, Inv, Types, Contexts, Loops, Cancels
  <2> QED
    BY <2>1, <2>2
<1> QED
  BY <1>1, <1>2, PTL DEF Spec

(* Every stored context is one a model provider accepts, whatever the       *)
(* order of the steps, the denials of a cancellation and the compactions    *)
(* that each write the whole context.  With a sliding window and a model    *)
(* that mixes calls that need an approval with calls that do not, the       *)
(* window may part the two messages of such a reply.                        *)
THEOREM ContextsWellFormed ==
  ASSUME NoSplit
  PROVE  Spec => []WellFormed
<1>1. Inv => WellFormed
  BY GoodFollows, GoodLast DEF Inv, Contexts, WellFormed
<1> QED
  BY <1>1, InvHolds, PTL

(* A context lists a message that has no row only if it is the input of a   *)
(* request that compacted before it stored it.                              *)
THEOREM StoredOrUnsavedInput ==
  Spec => []OnlyUnsavedInputDangles
<1>1. ASSUME Inv, NEW t \in Thread, NEW i \in DOMAIN ctx[t], ctx[t][i] \notin Elements(rows)
      PROVE  LET m == ctx[t][i]
             IN /\ m.kind = "user" /\ loop[m.run].tries > 0
                /\ loop[m.run].at \in {"llm", "save", "done"}
  <2>1. ctx[t][i] \in Elements(ctx[t])
    BY DEF Elements
  <2> QED
    BY <1>1, <2>1 DEF Inv, Contexts, UnsavedBy
<1>2. Inv => OnlyUnsavedInputDangles
  BY <1>1 DEF OnlyUnsavedInputDangles
<1> QED
  BY <1>2, InvHolds, PTL

-----------------------------------------------------------------------------
(* Calls that were made, and runs that executed them.                       *)

KnownAt(l, k) == k < l.n \/ (k = l.n /\ l.at \in {"save", "compact", "next", "done"})

(* Calls of a step that the model has answered.                             *)
Known == {d \in Call : KnownAt(loop[d[1]], d[2])}

KnownIn(S, K) == \A m \in S : m.calls \subseteq K

CallsOK(l, K) ==
  /\ l.target \subseteq K
  /\ KnownIn(Elements(l.input), K) /\ KnownIn(Elements(l.new), K) /\ KnownIn(Elements(l.resp), K)

AllKnown ==
  /\ KnownIn(Elements(rows), Known)
  /\ \A r \in Req : CallsOK(loop[r], Known)

(* Runs whose response says that they executed the call.                    *)
RanBy(d) == {r \in Req : \E m \in Elements(loop[r].resp) : m.kind = "return" /\ d \in m.calls}

Counted == \A d \in Call : ran[d] <= Cardinality(RanBy(d))

CallInv == AllKnown /\ Counted

(* The number of runs that executed a call grows with their set.            *)
LEMMA Counting ==
  ASSUME NEW A, NEW B, A \subseteq B, B \subseteq Req
  PROVE  /\ Cardinality(A) \in Nat /\ Cardinality(B) \in Nat
         /\ Cardinality(A) <= Cardinality(B) /\ Cardinality(B) <= Cardinality(Req)
         /\ Cardinality(Req) \in Nat
         /\ A # B => Cardinality(A) + 1 <= Cardinality(B)
<1>1. IsFiniteSet(Req)
  BY LoopAssumption
<1>2. IsFiniteSet(B) /\ Cardinality(B) <= Cardinality(Req)
  BY <1>1, FS_Subset
<1>3. /\ IsFiniteSet(A) /\ Cardinality(A) <= Cardinality(B)
      /\ Cardinality(B) = Cardinality(A) => A = B
  BY <1>2, FS_Subset
<1>4. Cardinality(A) \in Nat /\ Cardinality(B) \in Nat /\ Cardinality(Req) \in Nat
  BY <1>1, <1>2, <1>3, FS_CardinalityType
<1> QED
  BY <1>2, <1>3, <1>4

(* A call names its request, its step and its gate.                         *)
LEMMA CallOwner ==
  ASSUME NEW d \in Call
  PROVE  d[1] \in Req /\ d[2] \in 1 .. MaxSteps /\ d[3] \in Gate /\ d = <<d[1], d[2], d[3]>>
BY DEF Call

(* A loop's step changes one record.                                        *)
LEMMA After ==
  ASSUME Inv, NEW r \in Req, NEW f, Upd(r, f)
  PROVE  loop'[r] = f /\ \A q \in Req : q # r => loop'[q] = loop[q]
BY DEF Inv, Types, Upd

(* What a step of a loop does to the calls.                                 *)
CallStep(r) ==
  /\ \A q \in Req : q # r => loop'[q] = loop[q]
  /\ \A k \in 1 .. MaxSteps : KnownAt(loop[r], k) => KnownAt(loop'[r], k)
  /\ \A K : /\ Known \subseteq K
            /\ \A d \in Call : d[1] = r /\ KnownAt(loop'[r], d[2]) => d \in K
            => KnownIn(Elements(rows'), K) /\ CallsOK(loop'[r], K)
  /\ Elements(loop[r].resp) \subseteq Elements(loop'[r].resp)
  /\ \A d \in Call : \/ ran'[d] = ran[d]
                     \/ /\ ran'[d] = ran[d] + 1 /\ r \notin RanBy(d)
                        /\ \E m \in Elements(loop'[r].resp) : m.kind = "return" /\ d \in m.calls

(* Calls, once made, stay known.                                            *)
LEMMA KnownGrows ==
  ASSUME NEW r \in Req, CallStep(r)
  PROVE  /\ Known \subseteq Known'
         /\ \A d \in Call : d[1] = r /\ KnownAt(loop'[r], d[2]) => d \in Known'
<1>1. ASSUME NEW d \in Known
      PROVE  d \in Known'
  <2>1. d \in Call /\ KnownAt(loop[d[1]], d[2])
    BY DEF Known
  <2>2. d[1] \in Req /\ d[2] \in 1 .. MaxSteps
    BY <2>1, CallOwner
  <2>3. KnownAt(loop'[d[1]], d[2])
    BY <2>1, <2>2 DEF CallStep
  <2> QED
    BY <2>1, <2>3 DEF Known, KnownAt
<1>2. ASSUME NEW d \in Call, d[1] = r, KnownAt(loop'[r], d[2])
      PROVE  d \in Known'
  BY <1>2 DEF Known, KnownAt
<1> QED
  BY <1>1, <1>2

(* A step of one loop that knows its calls and counts its executions keeps  *)
(* the invariant.                                                           *)
LEMMA CallStepInv ==
  ASSUME NEW r \in Req, Inv, CallInv, CallStep(r)
  PROVE  CallInv'
<1>1. /\ Known \subseteq Known'
      /\ \A d \in Call : d[1] = r /\ KnownAt(loop'[r], d[2]) => d \in Known'
  BY KnownGrows
<1>2. KnownIn(Elements(rows'), Known') /\ CallsOK(loop'[r], Known')
  BY <1>1 DEF CallStep
<1>3. \A q \in Req : q # r => loop'[q] = loop[q]
  BY DEF CallStep
<1>4. \A q \in Req : CallsOK(loop'[q], Known')
  <2>1. ASSUME NEW q \in Req, q # r
        PROVE  CallsOK(loop'[q], Known')
    <3>1. CallsOK(loop[q], Known)
      BY DEF CallInv, AllKnown
    <3>2. CallsOK(loop[q], Known')
      BY <1>1, <3>1 DEF CallsOK, KnownIn
    <3> QED
      BY <1>3, <2>1, <3>2
  <2> QED
    BY <1>2, <2>1
<1>5. AllKnown'
  BY <1>2, <1>4 DEF AllKnown
<1>6. ASSUME NEW d \in Call
      PROVE  ran'[d] <= Cardinality(RanBy(d)')
  <2>1. RanBy(d) \subseteq RanBy(d)' /\ RanBy(d)' \subseteq Req
    BY <1>3 DEF CallStep, RanBy
  <2>2. ran[d] \in Nat /\ ran[d] <= Cardinality(RanBy(d))
    BY DEF CallInv, Counted, Inv, Types
  <2>3. /\ Cardinality(RanBy(d)) \in Nat /\ Cardinality(RanBy(d)') \in Nat
        /\ Cardinality(RanBy(d)) <= Cardinality(RanBy(d)')
        /\ RanBy(d) # RanBy(d)' => Cardinality(RanBy(d)) + 1 <= Cardinality(RanBy(d)')
    BY <2>1, Counting
  <2>4. CASE ran'[d] = ran[d]
    BY <2>2, <2>3, <2>4
  <2>5. CASE /\ ran'[d] = ran[d] + 1 /\ r \notin RanBy(d)
             /\ \E m \in Elements(loop'[r].resp) : m.kind = "return" /\ d \in m.calls
    <3>1. RanBy(d) # RanBy(d)'
      BY <2>5 DEF RanBy
    <3> QED
      BY <2>2, <2>3, <2>5, <3>1
  <2> QED
    BY <2>4, <2>5 DEF CallStep
<1> QED
  BY <1>5, <1>6 DEF CallInv, Counted

(* A step that makes no call and executes none.                             *)
LEMMA NoCall ==
  ASSUME NEW r \in Req, Inv, CallInv, UNCHANGED ran,
         \A q \in Req : q # r => loop'[q] = loop[q],
         \A k \in 1 .. MaxSteps : KnownAt(loop[r], k) => KnownAt(loop'[r], k),
         \A K : Known \subseteq K => KnownIn(Elements(rows'), K),
         \A K : Known \subseteq K => KnownIn(Elements(loop'[r].input), K),
         loop'[r].target \subseteq Known,
         loop'[r].new = loop[r].new \/ loop'[r].new = <<>>,
         Elements(loop[r].resp) \subseteq Elements(loop'[r].resp),
         \A m \in Elements(loop'[r].resp) : m \in Elements(loop[r].resp) \/ m.calls = {}
  PROVE  CallStep(r)
<1>1. CallsOK(loop[r], Known) /\ KnownIn(Elements(rows), Known)
  BY DEF CallInv, AllKnown
<1>2. Elements(<<>>) = {}
  BY NoElements
<1>3. ASSUME NEW K, Known \subseteq K
      PROVE  KnownIn(Elements(rows'), K) /\ CallsOK(loop'[r], K)
  <2>1. KnownIn(Elements(rows'), K) /\ KnownIn(Elements(loop'[r].input), K)
    BY <1>3
  <2>2. KnownIn(Elements(loop'[r].new), K)
    BY <1>1, <1>2, <1>3 DEF CallsOK, KnownIn
  <2>3. KnownIn(Elements(loop'[r].resp), K)
    BY <1>1, <1>3 DEF CallsOK, KnownIn
  <2> QED
    BY <1>3, <2>1, <2>2, <2>3 DEF CallsOK
<1>4. \A d \in Call : ran'[d] = ran[d]
  OBVIOUS
<1> QED
  BY <1>3, <1>4 DEF CallStep

(* What the end of a loop leaves as it was.                                 *)
LEMMA Finished ==
  ASSUME Inv, NEW r \in Req, NEW stop, Finish(r, stop)
  PROVE  /\ loop'[r].at = "done" /\ loop'[r].n = loop[r].n /\ loop'[r].target = loop[r].target
         /\ loop'[r].input = loop[r].input /\ loop'[r].new = loop[r].new /\ loop'[r].resp = loop[r].resp
         /\ \A q \in Req : q # r => loop'[q] = loop[q]
<1>1. loop[r] \in LoopRecord
  BY LoopOf
<1>2. loop'[r] = [loop[r] EXCEPT !.at = "done", !.stop = stop]
  BY After DEF Finish
<1>3. \A q \in Req : q # r => loop'[q] = loop[q]
  BY After DEF Finish
<1> QED
  BY <1>1, <1>2, <1>3 DEF LoopRecord

(* A loop that moves on within its step has still made its call.            *)
LEMMA Later ==
  ASSUME NEW l, NEW h, h.n = l.n,
         l.at \in {"save", "compact", "next", "done"} => h.at \in {"save", "compact", "next", "done"}
  PROVE  \A k \in 1 .. MaxSteps : KnownAt(l, k) => KnownAt(h, k)
BY DEF KnownAt

(* Calls that were known stay known wherever they stand.                    *)
LEMMA OldCalls ==
  ASSUME NEW r \in Req, CallInv, NEW K, Known \subseteq K
  PROVE  KnownIn(Elements(rows), K) /\ CallsOK(loop[r], K)
BY DEF CallInv, AllKnown, CallsOK, KnownIn

(* A loop that ends.                                                        *)
LEMMA CallsFinish ==
  ASSUME NEW r \in Req, Inv, CallInv, NEW stop, Finish(r, stop), UNCHANGED ran,
         \A K : Known \subseteq K => KnownIn(Elements(rows'), K)
  PROVE  CallStep(r)
<1>1. /\ loop'[r].at = "done" /\ loop'[r].n = loop[r].n /\ loop'[r].target = loop[r].target
      /\ loop'[r].input = loop[r].input /\ loop'[r].new = loop[r].new /\ loop'[r].resp = loop[r].resp
      /\ \A q \in Req : q # r => loop'[q] = loop[q]
  BY Finished
<1>2. \A K : Known \subseteq K => CallsOK(loop[r], K)
  BY OldCalls
<1>3. \A K : Known \subseteq K => KnownIn(Elements(loop'[r].input), K)
  BY <1>1, <1>2 DEF CallsOK
<1>4. loop'[r].target \subseteq Known
  BY <1>1, <1>2 DEF CallsOK
<1>5. \A k \in 1 .. MaxSteps : KnownAt(loop[r], k) => KnownAt(loop'[r], k)
  BY <1>1, Later
<1> QED
  BY <1>1, <1>3, <1>4, <1>5, NoCall

(* Frame: no message stored.                                                *)
LEMMA CallsSameRows ==
  ASSUME NEW r \in Req, CallInv, UNCHANGED rows
  PROVE  \A K : Known \subseteq K => KnownIn(Elements(rows'), K)
<1>1. \A K : Known \subseteq K => KnownIn(Elements(rows), K)
  BY OldCalls
<1> QED
  BY <1>1

(* A summary is about no call.                                              *)
LEMMA CallsSummary ==
  ASSUME NEW r \in Req, Inv, CallInv, rows' = rows \/ rows' = rows \o <<Summary(r)>>
  PROVE  \A K : Known \subseteq K => KnownIn(Elements(rows'), K)
<1>1. \A K : Known \subseteq K => KnownIn(Elements(rows), K)
  BY OldCalls
<1>2. Summary(r).calls = {}
  BY LoopOf, SummaryOf
<1>3. CASE rows' = rows
  BY <1>1, <1>3
<1>4. CASE rows' = rows \o <<Summary(r)>>
  <2>1. Elements(rows') = Elements(rows) \cup {Summary(r)}
    BY <1>4, CompactionRows
  <2> QED
    BY <1>1, <1>2, <2>1 DEF KnownIn
<1> QED
  BY <1>3, <1>4

(* Loading the agent makes no call.                                         *)
LEMMA CallsLoadAgent ==
  ASSUME NEW r \in Req, Inv, CallInv, LoadAgent(r)
  PROVE  CallStep(r)
<1> DEFINE here == [loop[r] EXCEPT !.at = "loaded", !.snap = ctx[ThreadOf[r]]]
<1>1. loop[r] \in LoopRecord /\ loop[r].at = "idle" /\ UNCHANGED <<rows, ran>>
  BY LoopOf DEF LoadAgent
<1>2. /\ loop'[r].at = "loaded" /\ loop'[r].n = loop[r].n
      /\ loop'[r].input = loop[r].input /\ loop'[r].new = loop[r].new /\ loop'[r].resp = loop[r].resp
      /\ loop'[r].target = loop[r].target \/ \E q \in Elements(rows) : loop'[r].target = q.calls
      /\ \A q \in Req : q # r => loop'[q] = loop[q]
  <2>1. CASE InputOf[r] = "message" /\ Upd(r, here)
    <3>1. loop'[r] = here /\ \A q \in Req : q # r => loop'[q] = loop[q]
      BY <2>1, After
    <3> QED
      BY <1>1, <3>1 DEF LoopRecord
  <2>2. ASSUME NEW q \in Elements(rows), NEW v \in Verdict, Upd(r, [here EXCEPT !.target = q.calls, !.verdict = v])
        PROVE  /\ loop'[r].at = "loaded" /\ loop'[r].n = loop[r].n
               /\ loop'[r].input = loop[r].input /\ loop'[r].new = loop[r].new /\ loop'[r].resp = loop[r].resp
               /\ loop'[r].target = q.calls
               /\ \A p \in Req : p # r => loop'[p] = loop[p]
    <3>1. loop'[r] = [here EXCEPT !.target = q.calls, !.verdict = v] /\ \A p \in Req : p # r => loop'[p] = loop[p]
      BY <2>2, After
    <3> QED
      BY <1>1, <3>1 DEF LoopRecord
  <2> QED
    BY <2>1, <2>2 DEF LoadAgent
<1>3. KnownIn(Elements(rows), Known) /\ CallsOK(loop[r], Known)
  BY DEF CallInv, AllKnown
<1>4. loop'[r].target \subseteq Known
  BY <1>2, <1>3 DEF KnownIn, CallsOK
<1>5. \A K : Known \subseteq K => KnownIn(Elements(loop'[r].input), K)
  BY <1>2, <1>3 DEF CallsOK, KnownIn
<1>6. \A k \in 1 .. MaxSteps : KnownAt(loop[r], k) => KnownAt(loop'[r], k)
  BY <1>1, <1>2, Later
<1> QED
  BY <1>1, <1>2, <1>4, <1>5, <1>6, CallsSameRows, NoCall

(* Checking the input makes no call: an approval names calls of the         *)
(* context.                                                                 *)
LEMMA CallsPrepare ==
  ASSUME NEW r \in Req, Inv, CallInv, Prepare(r)
  PROVE  CallStep(r)
<1>1. loop[r] \in LoopRecord /\ loop[r].at = "loaded" /\ UNCHANGED <<rows, ran>>
  BY LoopOf DEF Prepare
<1>2. CASE Finish(r, "error")
  BY <1>1, <1>2, CallsFinish, CallsSameRows
<1>3. ASSUME NEW m \in Message, m.calls \subseteq loop[r].target, NEW follow, Begin(r, Seen(r), <<m>>, follow)
      PROVE  CallStep(r)
  <2>1. /\ loop'[r] = [loop[r] EXCEPT !.at = "step", !.msgs = Seen(r), !.input = <<m>>, !.follow = follow]
        /\ \A q \in Req : q # r => loop'[q] = loop[q]
    BY <1>3, After DEF Begin
  <2>2. /\ loop'[r].at = "step" /\ loop'[r].n = loop[r].n /\ loop'[r].target = loop[r].target
        /\ loop'[r].input = <<m>> /\ loop'[r].new = loop[r].new /\ loop'[r].resp = loop[r].resp
    BY <1>1, <2>1 DEF LoopRecord
  <2>3. Elements(loop'[r].input) = {m}
    BY <2>2, OneElement
  <2>4. loop[r].target \subseteq Known
    BY DEF CallInv, AllKnown, CallsOK
  <2>5. \A K : Known \subseteq K => KnownIn(Elements(loop'[r].input), K)
    BY <1>3, <2>3, <2>4 DEF KnownIn
  <2>6. \A k \in 1 .. MaxSteps : KnownAt(loop[r], k) => KnownAt(loop'[r], k)
    BY <1>1, <2>2, Later
  <2> QED
    BY <1>1, <2>1, <2>2, <2>4, <2>5, <2>6, CallsSameRows, NoCall
<1>4. CASE Begin(r, Seen(r), <<Plain("user", r, 1)>>, FALSE)
  <2>1. "user" \in Kind /\ 1 \in Nat
    BY LoopAssumption DEF Kind
  <2>2. Plain("user", r, 1) \in Message /\ Plain("user", r, 1).calls = {}
    BY <2>1, PlainType
  <2> QED
    BY <1>3, <1>4, <2>2
<1>5. CASE Begin(r, Seen(r), <<Msg("response", r, 1, loop[r].target, Denied(r))>>, r \in FollowUps)
  <2>1. "response" \in Kind /\ 1 \in Nat /\ loop[r].target \subseteq Call /\ Denied(r) \subseteq Call
    BY LoopAssumption, LoopOf DEF Kind, Denied
  <2>2. PICK m : m = Msg("response", r, 1, loop[r].target, Denied(r))
    OBVIOUS
  <2>3. m \in Message /\ m.calls = loop[r].target
    BY <2>1, <2>2, MsgType
  <2> QED
    BY <1>3, <1>5, <2>2, <2>3
<1>6. Finish(r, "error") \/ Begin(r, Seen(r), <<Plain("user", r, 1)>>, FALSE)
      \/ Begin(r, Seen(r), <<Msg("response", r, 1, loop[r].target, Denied(r))>>, r \in FollowUps)
  BY DEF Prepare, PrepareMessage, PrepareApproval
<1> QED
  BY <1>2, <1>4, <1>5, <1>6

(* The elements of a sequence with one more.                                *)
LEMMA ElementsOfAppend ==
  ASSUME NEW s \in Seq(Message), NEW m \in Message
  PROVE  Append(s, m) \in Seq(Message) /\ Elements(Append(s, m)) = Elements(s) \cup {m}
<1>1. PICK w \in Seq(Message) : w = <<m>>
  BY OneElement
<1>2. Elements(w) = {m}
  BY <1>1, OneElement
<1>3. Append(s, m) = s \o w
  BY <1>1
<1> QED
  BY <1>2, <1>3, ElementsOfJoin

(* The calls of the last messages of a context are known.                   *)
LEMMA OpenKnown ==
  ASSUME NEW s, Good(s), NEW K, \A m \in Elements(s) : m.calls \subseteq K \/ m.kind = "user"
  PROVE  Open(s) \subseteq K
<1>1. s \in Seq(Message) /\ Len(s) \in Nat /\ Len(s) > 0 /\ Last(s) \in Elements(s)
  BY GoodLast
<1>2. PendingPlain(s, Len(s)) \subseteq K
  <2>1. CASE Len(s) > 1 /\ s[Len(s) - 1].kind = "call"
    <3>1. Len(s) - 1 \in 1 .. Len(s)
      BY <1>1, <2>1
    <3>2. s[Len(s) - 1] \in Elements(s)
      BY <1>1, <3>1, ElementsOf
    <3> QED
      BY <2>1, <3>2 DEF PendingPlain
  <2>2. CASE ~(Len(s) > 1 /\ s[Len(s) - 1].kind = "call")
    BY <2>2 DEF PendingPlain
  <2> QED
    BY <2>1, <2>2
<1>3. CASE Last(s).kind = "request"
  BY <1>1, <1>2, <1>3 DEF Open
<1>4. CASE Last(s).kind # "request"
  BY <1>4 DEF Open
<1> QED
  BY <1>3, <1>4

(* What a context leaves open are calls.                                    *)
LEMMA OpenCalls ==
  ASSUME NEW s, Good(s)
  PROVE  Open(s) \subseteq Call
<1>1. s \in Seq(Message)
  BY GoodLast
<1>2. Elements(s) \subseteq Message
  BY <1>1, ElementsOf
<1>3. \A m \in Elements(s) : m.calls \subseteq Call
  BY <1>2, MessageParts
<1> QED
  BY <1>3, OpenKnown

(* What the loop holds once it has answered an approval.                    *)
LEMMA Answer ==
  ASSUME NEW r \in Req, Inv, AnswerStep(r)
  PROVE  /\ loop[r].at = "step" /\ Answering(r) /\ UNCHANGED <<ctx, rows>>
         /\ loop'[r].at = "save" /\ loop'[r].n = loop[r].n /\ loop'[r].target = loop[r].target
         /\ loop'[r].msgs = Current(r) /\ loop'[r].input = loop[r].input
         /\ loop'[r].new = <<Result(r)>> /\ loop'[r].resp = Append(loop[r].resp, Result(r))
         /\ \A q \in Req : q # r => loop'[q] = loop[q]
         /\ \E calls : calls \subseteq Result(r).calls /\ Execute(calls)
<1>1. loop[r] \in LoopRecord /\ loop[r].at = "step" /\ Answering(r) /\ UNCHANGED <<ctx, rows>>
  BY LoopOf DEF AnswerStep
<1> DEFINE s == Current(r)
           m == Result(r)
           here == [loop[r] EXCEPT !.at = "save", !.msgs = s, !.new = <<m>>, !.resp = Append(@, m)]
<1>2. Upd(r, [here EXCEPT !.go = TRUE]) \/ Upd(r, [here EXCEPT !.go = FALSE, !.stop = "tool_rule"])
  BY DEF AnswerStep, Result
<1>3. \E calls : calls \subseteq Result(r).calls /\ Execute(calls)
  <2> DEFINE pending == PendingPlain(s, Len(s) - 1)
             approved == IF loop[r].verdict = "approve" THEN loop[r].target ELSE {}
  <2>1. Execute(approved \cup pending)
    BY DEF AnswerStep
  <2>2. Result(r).calls = pending \cup loop[r].target
    BY DEF Result, Msg
  <2> QED
    BY <2>1, <2>2
<1> HIDE DEF s, m
<1>4. ASSUME NEW f, Upd(r, f), f = [here EXCEPT !.go = TRUE] \/ f = [here EXCEPT !.go = FALSE, !.stop = "tool_rule"]
      PROVE  /\ loop'[r].at = "save" /\ loop'[r].n = loop[r].n /\ loop'[r].target = loop[r].target
             /\ loop'[r].msgs = s /\ loop'[r].input = loop[r].input
             /\ loop'[r].new = <<m>> /\ loop'[r].resp = Append(loop[r].resp, m)
             /\ \A q \in Req : q # r => loop'[q] = loop[q]
  <2>1. loop'[r] = f /\ \A q \in Req : q # r => loop'[q] = loop[q]
    BY <1>4, After
  <2>2. PICK w, e : w = <<m>> /\ e = Append(loop[r].resp, m)
    OBVIOUS
  <2>3. PICK h : h = [loop[r] EXCEPT !.at = "save", !.msgs = s, !.new = w, !.resp = e]
    OBVIOUS
  <2>4. f = [h EXCEPT !.go = TRUE] \/ f = [h EXCEPT !.go = FALSE, !.stop = "tool_rule"]
    BY <1>4, <2>2, <2>3
  <2>5. /\ h.at = "save" /\ h.n = loop[r].n /\ h.target = loop[r].target
        /\ h.msgs = s /\ h.input = loop[r].input /\ h.new = w /\ h.resp = e
        /\ DOMAIN h = DOMAIN loop[r]
    BY <1>1, <2>3 DEF LoopRecord
  <2>6. /\ f.at = "save" /\ f.n = loop[r].n /\ f.target = loop[r].target
        /\ f.msgs = s /\ f.input = loop[r].input /\ f.new = w /\ f.resp = e
    <3>1. CASE f = [h EXCEPT !.go = TRUE]
      BY <1>1, <2>5, <3>1 DEF LoopRecord
    <3>2. CASE f = [h EXCEPT !.go = FALSE, !.stop = "tool_rule"]
      BY <1>1, <2>5, <3>2 DEF LoopRecord
    <3> QED
      BY <2>4, <3>1, <3>2
  <2> QED
    BY <2>1, <2>2, <2>6
<1> QED
  BY <1>1, <1>2, <1>3, <1>4 DEF s, m

(* Approved calls are executed, once each, and the run says so in its       *)
(* response.                                                                *)
LEMMA CallsAnswer ==
  ASSUME NEW r \in Req, Inv, CallInv, AnswerStep(r)
  PROVE  CallStep(r)
<1> DEFINE g == loop[r].msgs
           m == Result(r)
<1>1. /\ loop[r].at = "step" /\ Answering(r) /\ UNCHANGED rows
      /\ loop'[r].at = "save" /\ loop'[r].n = loop[r].n /\ loop'[r].target = loop[r].target
      /\ loop'[r].input = loop[r].input
      /\ loop'[r].new = <<m>> /\ loop'[r].resp = Append(loop[r].resp, m)
      /\ \A q \in Req : q # r => loop'[q] = loop[q]
      /\ \E calls : calls \subseteq m.calls /\ Execute(calls)
  BY Answer
<1>2. /\ Good(g) /\ Answered(loop[r]) /\ Elements(g) \subseteq Elements(rows)
      /\ loop[r].resp \in Seq(Message)
  BY <1>1, LoopOf, CurrentContext DEF LoopOK, Log
<1>3. m \in Message /\ m.kind = "return" /\ m.calls = Open(g)
  BY <1>1, AnswerFacts
<1> HIDE DEF m, g
<1>4. KnownIn(Elements(rows), Known) /\ CallsOK(loop[r], Known)
  BY DEF CallInv, AllKnown
<1>5. m.calls \subseteq Known
  BY <1>2, <1>3, <1>4, OpenKnown DEF KnownIn
<1>6. Elements(loop'[r].new) = {m} /\ Elements(loop'[r].resp) = Elements(loop[r].resp) \cup {m}
  BY <1>1, <1>2, <1>3, OneElement, ElementsOfAppend
<1>7. ASSUME NEW K, Known \subseteq K
      PROVE  KnownIn(Elements(rows'), K) /\ CallsOK(loop'[r], K)
  <2>1. KnownIn(Elements(rows), K) /\ CallsOK(loop[r], K)
    BY <1>7, OldCalls
  <2> QED
    BY <1>1, <1>5, <1>6, <1>7, <2>1 DEF CallsOK, KnownIn
<1>8. \A k \in 1 .. MaxSteps : KnownAt(loop[r], k) => KnownAt(loop'[r], k)
  BY <1>1, Later
<1>9. ASSUME NEW d \in Call
      PROVE  \/ ran'[d] = ran[d]
             \/ /\ ran'[d] = ran[d] + 1 /\ r \notin RanBy(d)
                /\ \E x \in Elements(loop'[r].resp) : x.kind = "return" /\ d \in x.calls
  <2>1. PICK calls : calls \subseteq m.calls /\ Execute(calls)
    BY <1>1
  <2>2. CASE d \in calls
    <3>1. ran'[d] = ran[d] + 1
      BY <2>1, <2>2 DEF Execute
    <3>2. Elements(loop[r].resp) = {}
      BY <1>2, NoElements DEF Answered
    <3>3. r \notin RanBy(d)
      BY <3>2 DEF RanBy
    <3>4. d \in m.calls /\ m \in Elements(loop'[r].resp)
      BY <1>6, <2>1, <2>2
    <3> QED
      BY <1>3, <3>1, <3>3, <3>4
  <2>3. CASE d \notin calls
    BY <2>1, <2>3 DEF Execute
  <2> QED
    BY <2>2, <2>3
<1> QED
  BY <1>1, <1>6, <1>7, <1>8, <1>9 DEF CallStep

(* Asking the model makes no call.                                          *)
LEMMA CallsAskModel ==
  ASSUME NEW r \in Req, Inv, CallInv, AskModel(r)
  PROVE  CallStep(r)
<1>1. loop[r] \in LoopRecord /\ loop[r].at = "step" /\ UNCHANGED <<rows, ran>>
  BY LoopOf DEF AskModel
<1>2. /\ loop'[r] = [loop[r] EXCEPT !.at = "llm", !.msgs = Current(r), !.tries = 0]
      /\ \A q \in Req : q # r => loop'[q] = loop[q]
  BY After DEF AskModel
<1>3. /\ loop'[r].at = "llm" /\ loop'[r].n = loop[r].n /\ loop'[r].target = loop[r].target
      /\ loop'[r].input = loop[r].input /\ loop'[r].new = loop[r].new /\ loop'[r].resp = loop[r].resp
  BY <1>1, <1>2 DEF LoopRecord
<1>4. \A K : Known \subseteq K => CallsOK(loop[r], K)
  BY OldCalls
<1>5. \A k \in 1 .. MaxSteps : KnownAt(loop[r], k) => KnownAt(loop'[r], k)
  BY <1>1, <1>3, Later
<1> QED
  BY <1>1, <1>2, <1>3, <1>4, <1>5, CallsSameRows, NoCall DEF CallsOK

(* What the loop holds once the model has replied.                          *)
LEMMA ReplyStored ==
  ASSUME NEW r \in Req, Inv, ModelReplies(r)
  PROVE  \E reply \in Replies :
           /\ loop[r].at = "llm" /\ UNCHANGED <<ctx, rows>>
           /\ loop'[r].at = "save" /\ loop'[r].n = loop[r].n /\ loop'[r].target = loop[r].target
           /\ loop'[r].msgs = loop[r].msgs /\ loop'[r].input = loop[r].input
           /\ loop'[r].new = NewMessages(r, reply) /\ loop'[r].resp = loop[r].resp \o NewMessages(r, reply)
           /\ \A q \in Req : q # r => loop'[q] = loop[q]
           /\ Execute(IF reply \in {"tool", "terminal"} THEN {<<r, loop[r].n, "plain">>} ELSE {})
<1>1. PICK reply \in Replies :
        /\ Execute(IF reply \in {"tool", "terminal"} THEN {<<r, loop[r].n, "plain">>} ELSE {})
        /\ Upd(r, [loop[r] EXCEPT !.at = "save", !.new = NewMessages(r, reply),
                                  !.resp = @ \o NewMessages(r, reply), !.stop = StopOf(reply), !.go = StopOf(reply) = "none"])
  BY DEF ModelReplies
<1>2. loop[r].at = "llm" /\ UNCHANGED <<ctx, rows>> /\ loop[r] \in LoopRecord
  BY LoopOf DEF ModelReplies
<1>3. PICK w, stop, go : w = NewMessages(r, reply) /\ stop = StopOf(reply) /\ go = (StopOf(reply) = "none")
  OBVIOUS
<1>4. /\ loop'[r] = [loop[r] EXCEPT !.at = "save", !.new = w, !.resp = @ \o w, !.stop = stop, !.go = go]
      /\ \A q \in Req : q # r => loop'[q] = loop[q]
  BY <1>1, <1>3, After
<1>5. /\ loop'[r].at = "save" /\ loop'[r].n = loop[r].n /\ loop'[r].target = loop[r].target
      /\ loop'[r].msgs = loop[r].msgs /\ loop'[r].input = loop[r].input
      /\ loop'[r].new = w /\ loop'[r].resp = loop[r].resp \o w
  BY <1>2, <1>4 DEF LoopRecord
<1> QED
  BY <1>1, <1>2, <1>3, <1>4, <1>5

(* A reply makes the calls of its step, which nobody knew before.           *)
LEMMA CallsModelReplies ==
  ASSUME NEW r \in Req, Inv, CallInv, ModelReplies(r)
  PROVE  CallStep(r)
<1>1. PICK reply \in Replies :
        /\ loop[r].at = "llm" /\ UNCHANGED <<ctx, rows>>
        /\ loop'[r].at = "save" /\ loop'[r].n = loop[r].n /\ loop'[r].target = loop[r].target
        /\ loop'[r].input = loop[r].input
        /\ loop'[r].new = NewMessages(r, reply) /\ loop'[r].resp = loop[r].resp \o NewMessages(r, reply)
        /\ \A q \in Req : q # r => loop'[q] = loop[q]
        /\ Execute(IF reply \in {"tool", "terminal"} THEN {<<r, loop[r].n, "plain">>} ELSE {})
  BY ReplyStored
<1> DEFINE n == loop[r].n
           w == NewMessages(r, reply)
           plain == <<r, n, "plain">>
<1>2. /\ Good(loop[r].msgs) /\ Closed(loop[r].msgs) /\ n \in 1 .. MaxSteps
      /\ loop[r].resp \in Seq(Message)
  BY <1>1, LoopOf DEF LoopOK, Log
<1>3. /\ w \in Seq(Message) /\ StepCalls(r, n) \subseteq Call
      /\ \A m \in Elements(w) : m.calls \subseteq StepCalls(r, n)
      /\ reply \in {"tool", "terminal"} => \E m \in Elements(w) : m.kind = "return" /\ m.calls = {plain}
  <2> DEFINE s == loop[r].msgs
  <2>1. Good(s) /\ Closed(s) /\ loop[r].n \in 1 .. MaxSteps
    BY <1>2
  <2> HIDE DEF s
  <2> QED
    BY <2>1, Replied
<1>4. plain \in Call /\ \A d \in StepCalls(r, n) : d[1] = r /\ d[2] = n
  BY <1>3 DEF StepCalls
<1> HIDE DEF w
<1>5. Elements(loop'[r].resp) = Elements(loop[r].resp) \cup Elements(w)
  BY <1>1, <1>2, <1>3, ElementsOfJoin DEF w
<1>6. KnownAt(loop'[r], n)
  BY <1>1 DEF KnownAt
<1>7. ASSUME NEW K, Known \subseteq K, \A d \in Call : d[1] = r /\ KnownAt(loop'[r], d[2]) => d \in K
      PROVE  KnownIn(Elements(rows'), K) /\ CallsOK(loop'[r], K)
  <2>1. StepCalls(r, n) \subseteq K
    BY <1>3, <1>4, <1>6, <1>7
  <2>2. KnownIn(Elements(w), K)
    BY <1>3, <2>1 DEF KnownIn
  <2>3. KnownIn(Elements(rows), K) /\ CallsOK(loop[r], K)
    BY <1>7, OldCalls
  <2>4. loop'[r].new = w
    BY <1>1 DEF w
  <2> QED
    BY <1>1, <1>5, <2>2, <2>3, <2>4 DEF CallsOK, KnownIn
<1>8. \A k \in 1 .. MaxSteps : KnownAt(loop[r], k) => KnownAt(loop'[r], k)
  BY <1>1, Later
<1>9. ASSUME NEW d \in Call
      PROVE  \/ ran'[d] = ran[d]
             \/ /\ ran'[d] = ran[d] + 1 /\ r \notin RanBy(d)
                /\ \E x \in Elements(loop'[r].resp) : x.kind = "return" /\ d \in x.calls
  <2>1. CASE reply \in {"tool", "terminal"} /\ d = plain
    <3>1. ran'[d] = ran[d] + 1
      BY <1>1, <2>1 DEF Execute
    <3>2. ~KnownAt(loop[r], n)
      BY <1>1, <1>2 DEF KnownAt
    <3>3. d \notin Known
      BY <2>1, <3>2 DEF Known
    <3>4. r \notin RanBy(d)
      BY <3>3 DEF RanBy, CallInv, AllKnown, CallsOK, KnownIn
    <3> QED
      BY <1>3, <1>5, <2>1, <3>1, <3>4
  <2>2. CASE ~(reply \in {"tool", "terminal"} /\ d = plain)
    BY <1>1, <2>2 DEF Execute
  <2> QED
    BY <2>1, <2>2
<1> QED
  BY <1>1, <1>5, <1>7, <1>8, <1>9 DEF CallStep

(* What a compaction does: the loop goes on at `back`, or it ends.          *)
Compacts(r, back) ==
  /\ loop'[r].n = loop[r].n /\ loop'[r].target = loop[r].target
  /\ loop'[r].input = loop[r].input /\ loop'[r].new = loop[r].new
  /\ \/ loop'[r].resp = loop[r].resp /\ rows' = rows
     \/ loop'[r].resp = Append(loop[r].resp, Summary(r))
  /\ \A q \in Req : q # r => loop'[q] = loop[q]
  /\ rows' = rows \/ rows' = rows \o <<Summary(r)>>
  /\ \/ loop'[r].at = "done" /\ ctx' = ctx /\ ("save" \in Faults \/ rows' = rows)
     \/ /\ loop'[r].at = back /\ rows' = rows \o <<Summary(r)>>
        /\ \E c \in Compacted(r, loop[r].msgs) :
             loop'[r].msgs = c /\ ctx' = [ctx EXCEPT ![ThreadOf[r]] = c]

(* What an overflow does, as a compaction.                                  *)
LEMMA OverflowCompacts ==
  ASSUME NEW r \in Req, Inv, Overflow(r)
  PROVE  loop[r].at = "llm" /\ UNCHANGED ran /\ Compacts(r, "llm")
<1>1. loop[r].at = "llm" /\ UNCHANGED ran /\ loop[r] \in LoopRecord
  BY LoopOf DEF Overflow
<1>2. CASE Finish(r, "error") /\ UNCHANGED <<ctx, rows>>
  BY <1>1, <1>2, Finished DEF Compacts
<1>3. PICK e : e = Append(loop[r].resp, Summary(r))
  OBVIOUS
<1>4. PICK h : h = [loop[r] EXCEPT !.resp = e]
  OBVIOUS
<1>5. /\ h.at = "llm" /\ h.n = loop[r].n /\ h.target = loop[r].target /\ h.input = loop[r].input
      /\ h.new = loop[r].new /\ h.resp = e /\ DOMAIN h = DOMAIN loop[r]
  BY <1>1, <1>4 DEF LoopRecord
<1>6. Summarised(r) = h
  BY <1>3, <1>4 DEF Summarised
<1>7. ASSUME NEW c \in Compacted(r, loop[r].msgs), Checkpoint(r, <<Summary(r)>>, c),
             Upd(r, [Summarised(r) EXCEPT !.msgs = c, !.tries = @ + 1])
      PROVE  Compacts(r, "llm")
  <2>1. PICK k : k = h.tries + 1
    OBVIOUS
  <2>2. loop'[r] = [h EXCEPT !.msgs = c, !.tries = k] /\ \A q \in Req : q # r => loop'[q] = loop[q]
    BY <1>6, <1>7, <2>1, After
  <2>3. /\ loop'[r].at = "llm" /\ loop'[r].n = loop[r].n /\ loop'[r].target = loop[r].target
        /\ loop'[r].input = loop[r].input /\ loop'[r].new = loop[r].new /\ loop'[r].resp = e
        /\ loop'[r].msgs = c
    BY <1>1, <1>5, <2>2 DEF LoopRecord
  <2> QED
    BY <1>3, <1>7, <2>2, <2>3 DEF Compacts, Checkpoint
<1>8. ASSUME CheckpointFails(<<Summary(r)>>), Upd(r, [Summarised(r) EXCEPT !.at = "done", !.stop = "error"])
      PROVE  Compacts(r, "llm")
  <2>1. loop'[r] = [h EXCEPT !.at = "done", !.stop = "error"] /\ \A q \in Req : q # r => loop'[q] = loop[q]
    BY <1>6, <1>8, After
  <2>2. /\ loop'[r].at = "done" /\ loop'[r].n = loop[r].n /\ loop'[r].target = loop[r].target
        /\ loop'[r].input = loop[r].input /\ loop'[r].new = loop[r].new /\ loop'[r].resp = e
    BY <1>1, <1>5, <2>1 DEF LoopRecord
  <2> QED
    BY <1>3, <1>8, <2>1, <2>2 DEF Compacts, CheckpointFails
<1> QED
  BY <1>1, <1>2, <1>7, <1>8 DEF Overflow

(* What the compaction after a step does.                                   *)
LEMMA CompactAfterStepCompacts ==
  ASSUME NEW r \in Req, Inv, CompactAfterStep(r)
  PROVE  loop[r].at = "compact" /\ UNCHANGED ran /\ Compacts(r, "next")
<1>1. loop[r].at = "compact" /\ UNCHANGED ran /\ loop[r] \in LoopRecord
  BY LoopOf DEF CompactAfterStep
<1>2. CASE FinishSwallowing(r) /\ UNCHANGED <<ctx, rows>>
  BY <1>1, <1>2, Finished DEF Compacts, FinishSwallowing
<1>3. PICK e : e = Append(loop[r].resp, Summary(r))
  OBVIOUS
<1>4. PICK h : h = [loop[r] EXCEPT !.resp = e]
  OBVIOUS
<1>5. /\ h.n = loop[r].n /\ h.target = loop[r].target /\ h.input = loop[r].input
      /\ h.new = loop[r].new /\ h.resp = e /\ DOMAIN h = DOMAIN loop[r]
  BY <1>1, <1>4 DEF LoopRecord
<1>6. Summarised(r) = h
  BY <1>3, <1>4 DEF Summarised
<1>7. ASSUME NEW c \in Compacted(r, loop[r].msgs), Checkpoint(r, <<Summary(r)>>, c),
             Upd(r, [Summarised(r) EXCEPT !.at = "next", !.msgs = c])
      PROVE  Compacts(r, "next")
  <2>1. loop'[r] = [h EXCEPT !.at = "next", !.msgs = c] /\ \A q \in Req : q # r => loop'[q] = loop[q]
    BY <1>6, <1>7, After
  <2>2. /\ loop'[r].at = "next" /\ loop'[r].n = loop[r].n /\ loop'[r].target = loop[r].target
        /\ loop'[r].input = loop[r].input /\ loop'[r].new = loop[r].new /\ loop'[r].resp = e
        /\ loop'[r].msgs = c
    BY <1>1, <1>5, <2>1 DEF LoopRecord
  <2> QED
    BY <1>3, <1>7, <2>1, <2>2 DEF Compacts, Checkpoint
<1>8. ASSUME CheckpointFails(<<Summary(r)>>),
             Upd(r, [Summarised(r) EXCEPT !.at = "done", !.stop = IF @ = "none" THEN "error" ELSE @])
      PROVE  Compacts(r, "next")
  <2>1. PICK stop : stop = IF h.stop = "none" THEN "error" ELSE h.stop
    OBVIOUS
  <2>2. loop'[r] = [h EXCEPT !.at = "done", !.stop = stop] /\ \A q \in Req : q # r => loop'[q] = loop[q]
    BY <1>6, <1>8, <2>1, After
  <2>3. /\ loop'[r].at = "done" /\ loop'[r].n = loop[r].n /\ loop'[r].target = loop[r].target
        /\ loop'[r].input = loop[r].input /\ loop'[r].new = loop[r].new /\ loop'[r].resp = e
    BY <1>1, <1>5, <2>2 DEF LoopRecord
  <2> QED
    BY <1>3, <1>8, <2>2, <2>3 DEF Compacts, CheckpointFails
<1> QED
  BY <1>1, <1>2, <1>7, <1>8 DEF CompactAfterStep

(* A compaction makes no call.                                              *)
LEMMA CallsCompaction ==
  ASSUME NEW r \in Req, Inv, CallInv, UNCHANGED ran,
         NEW back, Compacts(r, back), <<loop[r].at, back>> \in {<<"llm", "llm">>, <<"compact", "next">>}
  PROVE  CallStep(r)
<1>1. Summary(r) \in Message /\ Summary(r).calls = {} /\ loop[r].resp \in Seq(Message)
  BY LoopOf, SummaryOf DEF Log
<1>2. /\ Elements(loop[r].resp) \subseteq Elements(loop'[r].resp)
      /\ \A m \in Elements(loop'[r].resp) : m \in Elements(loop[r].resp) \/ m.calls = {}
  <2>1. CASE loop'[r].resp = loop[r].resp
    BY <2>1
  <2>2. CASE loop'[r].resp = Append(loop[r].resp, Summary(r))
    BY <1>1, <2>2, ElementsOfAppend
  <2> QED
    BY <2>1, <2>2 DEF Compacts
<1>3. \A K : Known \subseteq K => KnownIn(Elements(rows'), K)
  BY CallsSummary DEF Compacts
<1>4. \A K : Known \subseteq K => CallsOK(loop[r], K)
  BY OldCalls
<1>5. \A K : Known \subseteq K => KnownIn(Elements(loop'[r].input), K)
  BY <1>4 DEF Compacts, CallsOK
<1>6. loop'[r].target \subseteq Known
  BY <1>4 DEF Compacts, CallsOK
<1>7. loop'[r].n = loop[r].n /\ (loop'[r].at = "done" \/ loop'[r].at = back)
  BY DEF Compacts
<1>8. \A k \in 1 .. MaxSteps : KnownAt(loop[r], k) => KnownAt(loop'[r], k)
  BY <1>7, Later
<1> QED
  BY <1>2, <1>3, <1>5, <1>6, <1>8, NoCall DEF Compacts

(* The rows of a stored step are about calls the loop knows.                *)
LEMMA CallsStored ==
  ASSUME NEW r \in Req, Inv, CallInv, rows' = rows \/ rows' = rows \o (loop[r].input \o loop[r].new)
  PROVE  \A K : Known \subseteq K => KnownIn(Elements(rows'), K)
<1>1. /\ loop[r].input \in Seq(Message) /\ loop[r].new \in Seq(Message) /\ rows \in Seq(Message)
  BY LoopOf DEF Log, Inv, Types
<1>2. \A K : Known \subseteq K => KnownIn(Elements(rows), K) /\ CallsOK(loop[r], K)
  BY OldCalls
<1>3. CASE rows' = rows
  BY <1>2, <1>3
<1>4. CASE rows' = rows \o (loop[r].input \o loop[r].new)
  <2> DEFINE i == loop[r].input
             n == loop[r].new
             w == i \o n
  <2>1. i \in Seq(Message) /\ n \in Seq(Message)
    BY <1>1
  <2> HIDE DEF i, n
  <2>2. w \in Seq(Message) /\ Elements(w) = Elements(i) \cup Elements(n)
    BY <2>1, ElementsOfJoin
  <2>3. rows' = rows \o w
    BY <1>4 DEF i, n
  <2> HIDE DEF w
  <2>4. Elements(rows \o w) = Elements(rows) \cup Elements(w)
    BY <1>1, <2>2, ElementsOfJoin
  <2> QED
    BY <1>2, <2>2, <2>3, <2>4 DEF CallsOK, KnownIn, i, n
<1> QED
  BY <1>3, <1>4

(* What the loop holds once its step is stored.                             *)
LEMMA Saved ==
  ASSUME NEW r \in Req, Inv, Save(r)
  PROVE  LET s == loop[r].msgs \o loop[r].new
         IN /\ loop[r].at = "save" /\ UNCHANGED ran
            /\ loop'[r].at \in {"next", "compact"} /\ loop'[r].n = loop[r].n
            /\ loop'[r].target = loop[r].target /\ loop'[r].resp = loop[r].resp
            /\ loop'[r].msgs = s /\ loop'[r].input = <<>> /\ loop'[r].new = <<>>
            /\ \A q \in Req : q # r => loop'[q] = loop[q]
            /\ rows' = rows \o (loop[r].input \o loop[r].new)
            /\ ctx' = [ctx EXCEPT ![ThreadOf[r]] = s]
<1>1. PICK s : s = loop[r].msgs \o loop[r].new
  OBVIOUS
<1>2. PICK e : e = <<>>
  OBVIOUS
<1>3. PICK at \in {"next", "compact"} : Upd(r, [loop[r] EXCEPT !.at = at, !.msgs = s, !.input = e, !.new = e])
  BY <1>1, <1>2 DEF Save
<1>4. loop[r] \in LoopRecord
  BY LoopOf
<1>5. /\ loop'[r] = [loop[r] EXCEPT !.at = at, !.msgs = s, !.input = e, !.new = e]
      /\ \A q \in Req : q # r => loop'[q] = loop[q]
  BY <1>3, After
<1>6. /\ loop'[r].at = at /\ loop'[r].n = loop[r].n
      /\ loop'[r].target = loop[r].target /\ loop'[r].resp = loop[r].resp
      /\ loop'[r].msgs = s /\ loop'[r].input = e /\ loop'[r].new = e
  BY <1>4, <1>5 DEF LoopRecord
<1> QED
  BY <1>1, <1>2, <1>5, <1>6 DEF Save, Checkpoint

(* A checkpoint stores calls that were made.                                *)
LEMMA CallsSave ==
  ASSUME NEW r \in Req, Inv, CallInv, Save(r)
  PROVE  CallStep(r)
<1>1. /\ loop[r].at = "save" /\ UNCHANGED ran
      /\ loop'[r].at \in {"next", "compact"} /\ loop'[r].n = loop[r].n
      /\ loop'[r].target = loop[r].target /\ loop'[r].resp = loop[r].resp
      /\ loop'[r].input = <<>> /\ loop'[r].new = <<>>
      /\ \A q \in Req : q # r => loop'[q] = loop[q]
      /\ rows' = rows \o (loop[r].input \o loop[r].new)
  BY Saved
<1>2. \A K : Known \subseteq K => KnownIn(Elements(rows'), K)
  BY <1>1, CallsStored
<1>3. loop'[r].target \subseteq Known
  BY <1>1 DEF CallInv, AllKnown, CallsOK
<1>4. \A K : KnownIn(Elements(loop'[r].input), K)
  BY <1>1, NoElements DEF KnownIn
<1>5. \A k \in 1 .. MaxSteps : KnownAt(loop[r], k) => KnownAt(loop'[r], k)
  BY <1>1, Later
<1> QED
  BY <1>1, <1>2, <1>3, <1>4, <1>5, NoCall

(* A checkpoint that fails.                                                 *)
LEMMA CallsSaveFails ==
  ASSUME NEW r \in Req, Inv, CallInv, SaveFails(r)
  PROVE  CallStep(r)
<1>1. /\ UNCHANGED ran
      /\ rows' = rows \/ rows' = rows \o (loop[r].input \o loop[r].new)
  BY DEF SaveFails, CheckpointFails
<1>2. PICK stop : Finish(r, stop)
  BY DEF SaveFails, FinishSwallowing
<1>3. \A K : Known \subseteq K => KnownIn(Elements(rows'), K)
  BY <1>1, CallsStored
<1> QED
  BY <1>1, <1>2, <1>3, CallsFinish

(* What the loop holds when it goes on to another step.                     *)
LEMMA Proceeds ==
  ASSUME NEW r \in Req, Inv, NextStep(r), ~\E stop : Finish(r, stop)
  PROVE  /\ loop[r].at = "next" /\ loop'[r].at = "step" /\ loop'[r].n = loop[r].n + 1
         /\ loop'[r].target = loop[r].target /\ loop'[r].resp = loop[r].resp
         /\ loop'[r].msgs = loop[r].msgs /\ loop'[r].new = loop[r].new
         /\ \A m \in Elements(loop'[r].input) : m.calls = {} /\ m.run = r /\ m.kind = "user"
         /\ \A q \in Req : q # r => loop'[q] = loop[q]
<1>1. PICK follow : follow = IF loop[r].n = 1 /\ loop[r].follow THEN <<Plain("user", r, 2)>> ELSE <<>>
  OBVIOUS
<1>2. loop[r].at = "next" /\ Upd(r, [loop[r] EXCEPT !.at = "step", !.n = @ + 1, !.input = follow])
  BY <1>1 DEF NextStep
<1>3. loop[r] \in LoopRecord
  BY LoopOf
<1>4. /\ loop'[r] = [loop[r] EXCEPT !.at = "step", !.n = @ + 1, !.input = follow]
      /\ \A q \in Req : q # r => loop'[q] = loop[q]
  BY <1>2, After
<1>5. /\ loop'[r].at = "step" /\ loop'[r].n = loop[r].n + 1
      /\ loop'[r].target = loop[r].target /\ loop'[r].resp = loop[r].resp
      /\ loop'[r].msgs = loop[r].msgs /\ loop'[r].new = loop[r].new /\ loop'[r].input = follow
  BY <1>3, <1>4 DEF LoopRecord
<1>6. \A m \in Elements(follow) : m.calls = {} /\ m.run = r /\ m.kind = "user"
  <2>1. CASE follow = <<>>
    BY <2>1, NoElements
  <2>2. CASE follow = <<Plain("user", r, 2)>>
    <3>1. Elements(follow) = {Plain("user", r, 2)}
      BY <2>2, OneElement
    <3> QED
      BY <3>1 DEF Plain, Msg
  <2> QED
    BY <1>1, <2>1, <2>2
<1> QED
  BY <1>2, <1>4, <1>5, <1>6

(* The next step has a number of its own, under which nothing is known yet. *)
LEMMA CallsNextStep ==
  ASSUME NEW r \in Req, Inv, CallInv, NextStep(r)
  PROVE  CallStep(r)
<1>1. UNCHANGED <<rows, ran>> /\ loop[r].at = "next"
  BY DEF NextStep
<1>2. CASE \E stop : Finish(r, stop)
  BY <1>1, <1>2, CallsFinish, CallsSameRows
<1>3. CASE ~\E stop : Finish(r, stop)
  <2>1. /\ loop'[r].at = "step" /\ loop'[r].n = loop[r].n + 1
        /\ loop'[r].target = loop[r].target /\ loop'[r].resp = loop[r].resp
        /\ loop'[r].new = loop[r].new
        /\ \A m \in Elements(loop'[r].input) : m.calls = {}
        /\ \A q \in Req : q # r => loop'[q] = loop[q]
    BY <1>3, Proceeds
  <2>2. \A K : KnownIn(Elements(loop'[r].input), K)
    BY <2>1 DEF KnownIn
  <2>3. loop'[r].target \subseteq Known
    BY <2>1 DEF CallInv, AllKnown, CallsOK
  <2>4. \A k \in 1 .. MaxSteps : KnownAt(loop[r], k) => KnownAt(loop'[r], k)
    <3>1. loop[r].n \in 1 .. MaxSteps /\ MaxSteps \in Nat
      BY LoopOf, LoopAssumption
    <3>2. \A k \in 1 .. MaxSteps : k < loop[r].n \/ k = loop[r].n => k < loop[r].n + 1
      BY <3>1
    <3> QED
      BY <2>1, <3>2 DEF KnownAt
  <2> QED
    BY <1>1, <2>1, <2>2, <2>3, <2>4, CallsSameRows, NoCall
<1> QED
  BY <1>2, <1>3

(* Every step of a loop keeps the calls in order.                           *)
LEMMA CallsLoop ==
  ASSUME NEW r \in Req, Inv, CallInv, Loop(r)
  PROVE  CallStep(r)
<1>1. ASSUME NEW stop, Finish(r, stop), UNCHANGED <<rows, ran>>
      PROVE  CallStep(r)
  BY <1>1, CallsFinish, CallsSameRows
<1>2. CASE LoadAgent(r)
  BY <1>2, CallsLoadAgent
<1>3. CASE Refused(r)
  BY <1>1, <1>3 DEF Refused
<1>4. CASE Prepare(r)
  BY <1>4, CallsPrepare
<1>5. CASE AnswerStep(r)
  BY <1>5, CallsAnswer
<1>6. CASE SeeCancel(r)
  BY <1>1, <1>6 DEF SeeCancel
<1>7. CASE AskModel(r)
  BY <1>7, CallsAskModel
<1>8. CASE ModelReplies(r)
  BY <1>8, CallsModelReplies
<1>9. CASE ModelFails(r)
  BY <1>1, <1>9 DEF ModelFails
<1>10. CASE Overflow(r)
  BY <1>10, OverflowCompacts, CallsCompaction
<1>11. CASE Save(r)
  BY <1>11, CallsSave
<1>12. CASE SaveFails(r)
  BY <1>12, CallsSaveFails
<1>13. CASE CompactAfterStep(r)
  BY <1>13, CompactAfterStepCompacts, CallsCompaction
<1>14. CASE NextStep(r)
  BY <1>14, CallsNextStep
<1>15. CASE Abandoned(r)
  BY <1>1, <1>15 DEF Abandoned
<1>16. CASE Crash(r)
  BY <1>1, <1>16 DEF Crash
<1> QED
  BY <1>2, <1>3, <1>4, <1>5, <1>6, <1>7, <1>8, <1>9, <1>10, <1>11, <1>12, <1>13, <1>14, <1>15, <1>16 DEF Loop

(* A cancellation answers calls and executes none.                          *)
LEMMA CallsCancellation ==
  ASSUME NEW r \in Req, Inv, CallInv, Cancellation(r)
  PROVE  CallInv'
<1>1. UNCHANGED <<loop, ran>>
  BY DEF Cancellation, CancelReads, CancelWrites, CancelDenies
<1>2. KnownIn(Elements(rows), Known)
  BY DEF CallInv, AllKnown
<1>3. KnownIn(Elements(rows'), Known)
  <2>1. CASE CancelReads(r) \/ CancelWrites(r)
    BY <1>2, <2>1 DEF CancelReads, CancelWrites
  <2>2. CASE CancelDenies(r)
    <3> DEFINE s == canc[r].msgs
               gated == Last(s).calls
               all == gated \cup PendingPlain(s, Len(s))
    <3>1. Good(s) /\ Elements(s) \subseteq Elements(rows) /\ Last(s).kind = "request"
      BY <2>2, CancelOf DEF CancelDenies, CancelOK
    <3>2. PICK w \in Log : /\ w = <<Msg("response", r, 1, gated, gated), Msg("return", r, 1, all, all)>>
                           /\ \A m \in Elements(w) : m.calls \subseteq Open(s)
      BY <3>1, DeniedContext
    <3>3. rows' = rows \o w
      BY <2>2, <3>2 DEF CancelDenies
    <3>4. Elements(rows') = Elements(rows) \cup Elements(w)
      BY <3>3, MoreRows
    <3>5. Open(s) \subseteq Known
      <4>1. \A m \in Elements(s) : m.calls \subseteq Known
        BY <1>2, <3>1 DEF KnownIn
      <4> QED
        BY <3>1, <4>1, OpenKnown
    <3> QED
      BY <1>2, <3>2, <3>4, <3>5 DEF KnownIn
  <2> QED
    BY <2>1, <2>2 DEF Cancellation
<1>4. Known' = Known /\ \A d \in Call : RanBy(d)' = RanBy(d)
  BY <1>1 DEF Known, KnownAt, RanBy
<1> QED
  BY <1>1, <1>3, <1>4 DEF CallInv, AllKnown, Counted

(* The initial states: no call is known.                                    *)
LEMMA InitCallInv ==
  Init => CallInv
<1>1. SUFFICES ASSUME Init PROVE CallInv
  OBVIOUS
<1>2. Elements(rows) = {System} /\ System.calls = {}
  BY <1>1, MessageParts, OneElement DEF Init
<1>3. /\ \A r \in Req : /\ loop[r].input = <<>> /\ loop[r].new = <<>> /\ loop[r].resp = <<>>
                         /\ loop[r].target = {}
      /\ \A d \in Call : ran[d] = 0
  BY <1>1 DEF Init
<1>4. AllKnown
  BY <1>2, <1>3, NoElements DEF AllKnown, KnownIn, CallsOK
<1>5. Counted
  <2>1. \A d \in Call : RanBy(d) \subseteq Req
    BY DEF RanBy
  <2>2. \A d \in Call : 0 <= Cardinality(RanBy(d))
    BY <2>1, Counting
  <2> QED
    BY <1>3, <2>2 DEF Counted
<1> QED
  BY <1>4, <1>5 DEF CallInv

(* Calls are known and executions counted in every reachable state.         *)
LEMMA CallInvHolds ==
  Spec => []CallInv
<1>1. Init => CallInv
  BY InitCallInv
<1>2. Inv /\ CallInv /\ [Next]_vars => CallInv'
  <2>1. ASSUME Inv, CallInv, Next
        PROVE  CallInv'
    BY <2>1, CallsLoop, CallStepInv, CallsCancellation DEF Next
  <2>2. ASSUME CallInv, UNCHANGED vars
        PROVE  CallInv'
    BY <2>2 DEF vars, CallInv, AllKnown, Counted, Known, RanBy, KnownAt
  <2> QED
    BY <2>1, <2>2
<1> QED
  BY <1>1, <1>2, InvHolds, PTL DEF Spec

(* The contexts, the rows and what the loops hold are made of messages, and *)
(* a call is executed at most once by every request.                        *)
THEOREM LoopTypesCorrect ==
  Spec => []TypeOK
<1>1. ASSUME Inv, CallInv
      PROVE  TypeOK
  <2>1. \A t \in Thread : IsContext(ctx[t])
    <3>1. ASSUME NEW t \in Thread
          PROVE  IsContext(ctx[t])
      <4>1. Good(ctx[t])
        BY <1>1 DEF Inv, Contexts
      <4>2. ctx[t] \in Seq(Message) /\ Len(ctx[t]) > 0
        BY <4>1, GoodLast
      <4> QED
        BY <4>2 DEF IsContext
    <3> QED
      BY <3>1
  <2>2. Elements(rows) \subseteq Message /\ cancelled \subseteq MayCancel
    BY <1>1, ElementsOf DEF Inv, Types, Log
  <2>3. ASSUME NEW d \in Call
        PROVE  ran[d] \in 0 .. Cardinality(Req)
    <3>1. ran[d] \in Nat /\ ran[d] <= Cardinality(RanBy(d)) /\ RanBy(d) \subseteq Req
      BY <1>1 DEF Inv, Types, CallInv, Counted, RanBy
    <3>2. Cardinality(RanBy(d)) <= Cardinality(Req) /\ Cardinality(RanBy(d)) \in Nat /\ Cardinality(Req) \in Nat
      BY <3>1, Counting
    <3> QED
      BY <3>1, <3>2
  <2>4. ASSUME NEW r \in Req
        PROVE  /\ loop[r].at \in LoopPoint
               /\ loop[r].n \in 1 .. MaxSteps
               /\ loop[r].tries \in 0 .. MaxTries
               /\ loop[r].stop \in Stop
               /\ loop[r].go \in BOOLEAN
               /\ loop[r].target \subseteq Call
               /\ Elements(loop[r].msgs \o loop[r].input \o loop[r].new \o loop[r].resp) \subseteq Message
               /\ canc[r].at \in {"idle", "write", "deny", "done"}
    <3>1. /\ loop[r].msgs \in Seq(Message) /\ loop[r].input \in Seq(Message)
          /\ loop[r].new \in Seq(Message) /\ loop[r].resp \in Seq(Message)
      BY <1>1, LoopOf DEF Log
    <3>2. loop[r].msgs \o loop[r].input \o loop[r].new \o loop[r].resp \in Seq(Message)
      BY <3>1
    <3>3. Elements(loop[r].msgs \o loop[r].input \o loop[r].new \o loop[r].resp) \subseteq Message
      BY <3>2, ElementsOf
    <3>4. loop[r] \in LoopRecord /\ canc[r].at \in CancelPoint
      BY <1>1, LoopOf, CancelOf
    <3> QED
      BY <3>3, <3>4 DEF LoopRecord, CancelPoint
  <2> QED
    BY <2>1, <2>2, <2>3, <2>4 DEF TypeOK
<1> QED
  BY <1>1, InvHolds, CallInvHolds, PTL

-----------------------------------------------------------------------------
(* Under the lock of a conversation, a call is executed once.               *)

(* Every request is made to a conversation, and takes its lock.             *)
Guarded == Locked = Req /\ \A r \in Req : ThreadOf[r] # Default

Exclusive == \A r \in Req, q \in Req : ThreadOf[r] = ThreadOf[q] /\ Active(r) /\ Active(q) => r = q

Runs == CallRunsOnce /\ \A d \in Call : d \notin Known => ran[d] = 0

(* The result of the call is made, and not stored yet.                      *)
InHand(r, d) == loop[r].at = "save" /\ \E m \in Elements(loop[r].new) : m.kind = "return" /\ d \in m.calls

Lost(d) == Cardinality(LostResult(d))

(* A call a context still asks about was not executed, unless the result is *)
(* in hand or was lost.                                                     *)
Opens ==
  \A t \in Thread \ {Default} : \A d \in Open(ctx[t]) :
    /\ ThreadOf[d[1]] = t
    /\ (\A r \in Req : ThreadOf[r] = t => ~InHand(r, d)) => ran[d] <= Lost(d)

(* What a loop holds asks for no call that the stored context does not.     *)
Hand(r) ==
  /\ loop[r].at \in {"step", "compact", "next"} => Open(loop[r].msgs) \subseteq Open(ctx[ThreadOf[r]])
  /\ loop[r].at = "save" => \A d \in Open(loop[r].msgs \o loop[r].new) : d[1] = r /\ ran[d] = 0

Hands == \A r \in Req : Hand(r)

Turns == Exclusive /\ Runs /\ Opens /\ Hands

(* A run that ends with results in hand has lost them, once and for all.    *)
LEMMA Loses ==
  ASSUME NEW r \in Req, loop[r].at # "done", \A q \in Req : q # r => loop'[q] = loop[q], NEW d
  PROVE  /\ Lost(d) \in Nat /\ Lost(d)' \in Nat /\ Lost(d) <= Lost(d)'
         /\ InHand(r, d) /\ loop'[r].at = "done" /\ loop'[r].new = loop[r].new => Lost(d) + 1 <= Lost(d)'
<1>1. LostResult(d) \subseteq LostResult(d)' /\ LostResult(d)' \subseteq Req
  BY DEF LostResult
<1>2. ASSUME InHand(r, d), loop'[r].at = "done", loop'[r].new = loop[r].new
      PROVE  LostResult(d) # LostResult(d)'
  BY <1>2 DEF LostResult, InHand
<1> QED
  BY <1>1, <1>2, Counting DEF Lost

(* Where one loop has its turn, no other of the conversation has.           *)
LEMMA Alone ==
  ASSUME Exclusive, NEW r \in Req, Active(r), NEW q \in Req, q # r, ThreadOf[q] = ThreadOf[r]
  PROVE  ~Active(q) /\ loop[q].at \notin {"step", "llm", "save", "compact", "next"} /\ \A d : ~InHand(q, d)
BY DEF Exclusive, Active, InHand

(* A request that a conversation leaves open was made.                      *)
LEMMA OpenIsKnown ==
  ASSUME Inv, CallInv, NEW t \in Thread
  PROVE  Open(ctx[t]) \subseteq Known
<1>1. Good(ctx[t])
  BY DEF Inv, Contexts
<1>2. \A m \in Elements(ctx[t]) : m.calls \subseteq Known \/ m.kind = "user"
  BY DEF Inv, Contexts, UnsavedBy, CallInv, AllKnown, KnownIn
<1> QED
  BY <1>1, <1>2, OpenKnown

(* A step keeps turns exclusive if it begins none, or if nobody else has    *)
(* one.                                                                     *)
LEMMA ExclusiveStep ==
  ASSUME NEW r \in Req, Exclusive, \A q \in Req : q # r => loop'[q] = loop[q],
         Active(r) \/ ~Active(r)' \/ \A q \in Req \ {r} : ThreadOf[q] = ThreadOf[r] => ~Active(q)
  PROVE  Exclusive'
<1>1. \A q \in Req : q # r => (Active(q)' <=> Active(q))
  BY DEF Active
<1>2. ASSUME NEW p \in Req, NEW q \in Req, ThreadOf[p] = ThreadOf[q], Active(p)', Active(q)', p # q
      PROVE  FALSE
  <2>1. CASE p = r
    BY <1>1, <1>2, <2>1 DEF Exclusive
  <2>2. CASE q = r
    BY <1>1, <1>2, <2>2 DEF Exclusive
  <2>3. CASE p # r /\ q # r
    BY <1>1, <1>2, <2>3 DEF Exclusive
  <2> QED
    BY <2>1, <2>2, <2>3
<1> QED
  BY <1>2 DEF Exclusive

(* A step that executes nothing leaves the executions and what is known of  *)
(* their results.                                                           *)
LEMMA RunsStep ==
  ASSUME NEW r \in Req, Inv, Runs, loop[r].at # "done", CallStep(r), UNCHANGED ran
  PROVE  Runs'
<1>1. Known \subseteq Known'
  BY KnownGrows
<1>2. ASSUME NEW d \in Call
      PROVE  ran[d] <= 1 + Lost(d)'
  <2>1. Lost(d) \in Nat /\ Lost(d)' \in Nat /\ Lost(d) <= Lost(d)'
    BY Loses DEF CallStep
  <2>2. ran[d] \in Nat /\ ran[d] <= 1 + Lost(d)
    BY DEF Inv, Types, Runs, CallRunsOnce, Lost
  <2> QED
    BY <2>1, <2>2
<1> QED
  BY <1>1, <1>2 DEF Runs, CallRunsOnce, Lost

(* A step that executes nothing and stores nothing.                         *)
LEMMA Quiet ==
  ASSUME NEW r \in Req, Guarded, Inv, CallInv, Turns, CallStep(r), UNCHANGED <<ctx, ran>>,
         loop[r].at \notin {"save", "done"}, loop'[r].at # "save",
         Active(r) \/ ~Active(r)' \/ \A q \in Req \ {r} : ThreadOf[q] = ThreadOf[r] => ~Active(q),
         loop'[r].at \in {"step", "compact", "next"} => Open(loop'[r].msgs) \subseteq Open(ctx[ThreadOf[r]])
  PROVE  Turns'
<1>1. \A q \in Req : q # r => loop'[q] = loop[q]
  BY DEF CallStep
<1>2. Exclusive'
  BY <1>1, ExclusiveStep DEF Turns
<1>3. Runs'
  BY RunsStep DEF Turns
<1>4. Opens'
  <2>1. ASSUME NEW t \in Thread \ {Default}, NEW d \in Open(ctx[t])
        PROVE  /\ ThreadOf[d[1]] = t
               /\ (\A q \in Req : ThreadOf[q] = t => ~InHand(q, d)') => ran[d] <= Lost(d)'
    <3>1. /\ ThreadOf[d[1]] = t
          /\ (\A q \in Req : ThreadOf[q] = t => ~InHand(q, d)) => ran[d] <= Lost(d)
      BY DEF Turns, Opens
    <3>2. \A q \in Req : InHand(q, d) => InHand(q, d)'
      BY <1>1 DEF InHand
    <3>3. Lost(d) \in Nat /\ Lost(d)' \in Nat /\ Lost(d) <= Lost(d)'
      BY <1>1, Loses
    <3>4. ran[d] \in Nat
      <4>1. d \in Call
        BY OpenIsKnown DEF Known
      <4> QED
        BY <4>1 DEF Inv, Types
    <3> QED
      BY <3>1, <3>2, <3>3, <3>4
  <2> QED
    BY <2>1 DEF Opens
<1>5. Hands'
  <2>1. ASSUME NEW q \in Req, q # r
        PROVE  Hand(q)'
    BY <1>1, <2>1 DEF Turns, Hands, Hand
  <2>2. Hand(r)'
    BY DEF Hand
  <2> QED
    BY <2>1, <2>2 DEF Hands
<1> QED
  BY <1>2, <1>3, <1>4, <1>5 DEF Turns

(* A loop that ends with results in hand loses them.                        *)
LEMMA QuitsSaving ==
  ASSUME NEW r \in Req, Guarded, Inv, CallInv, Turns, CallStep(r), UNCHANGED <<ctx, ran>>,
         loop[r].at = "save", loop'[r].at = "done", loop'[r].new = loop[r].new
  PROVE  Turns'
<1>1. \A q \in Req : q # r => loop'[q] = loop[q]
  BY DEF CallStep
<1>2. Exclusive'
  <2>1. Active(r)
    BY DEF Active
  <2> QED
    BY <1>1, <2>1, ExclusiveStep DEF Turns
<1>3. Runs'
  BY RunsStep DEF Turns
<1>4. Opens'
  <2>1. ASSUME NEW t \in Thread \ {Default}, NEW d \in Open(ctx[t])
        PROVE  /\ ThreadOf[d[1]] = t
               /\ (\A q \in Req : ThreadOf[q] = t => ~InHand(q, d)') => ran[d] <= Lost(d)'
    <3>1. /\ ThreadOf[d[1]] = t
          /\ (\A q \in Req : ThreadOf[q] = t => ~InHand(q, d)) => ran[d] <= Lost(d)
      BY DEF Turns, Opens
    <3>2. \A q \in Req : q # r /\ InHand(q, d) => InHand(q, d)'
      BY <1>1 DEF InHand
    <3>3. /\ Lost(d) \in Nat /\ Lost(d)' \in Nat /\ Lost(d) <= Lost(d)'
          /\ InHand(r, d) => Lost(d) + 1 <= Lost(d)'
      BY <1>1, Loses
    <3>4. ran[d] \in Nat /\ ran[d] <= 1 + Lost(d)
      <4>1. d \in Call
        BY OpenIsKnown DEF Known
      <4> QED
        BY <4>1 DEF Inv, Types, Turns, Runs, CallRunsOnce, Lost
    <3>5. CASE InHand(r, d)
      BY <3>1, <3>3, <3>4, <3>5
    <3>6. CASE ~InHand(r, d)
      BY <3>1, <3>2, <3>3, <3>4, <3>6
    <3> QED
      BY <3>5, <3>6
  <2> QED
    BY <2>1 DEF Opens
<1>5. Hands'
  <2>1. ASSUME NEW q \in Req, q # r
        PROVE  Hand(q)'
    BY <1>1, <2>1 DEF Turns, Hands, Hand
  <2>2. Hand(r)'
    BY DEF Hand
  <2> QED
    BY <2>1, <2>2 DEF Hands
<1> QED
  BY <1>2, <1>3, <1>4, <1>5 DEF Turns

(* A loop stores the context it holds.                                      *)
LEMMA Stores ==
  ASSUME NEW r \in Req, Guarded, Inv, CallInv, Turns, CallStep(r), UNCHANGED ran, Active(r),
         NEW s, ctx' = [ctx EXCEPT ![ThreadOf[r]] = s], loop'[r].msgs = s,
         loop'[r].at \in {"llm", "compact", "next"},
         \A d \in Open(s) : d \in Call /\ ThreadOf[d[1]] = ThreadOf[r] /\ ran[d] <= Lost(d)
  PROVE  Turns'
<1>1. \A q \in Req : q # r => loop'[q] = loop[q]
  BY DEF CallStep
<1>2. loop[r].at # "done"
  BY DEF Active
<1>3. /\ ThreadOf[r] \in Thread /\ ctx \in [Thread -> Log]
      /\ ctx'[ThreadOf[r]] = s /\ \A t \in Thread : t # ThreadOf[r] => ctx'[t] = ctx[t]
  BY LoopAssumption DEF Inv, Types
<1>4. Exclusive'
  BY <1>1, ExclusiveStep DEF Turns
<1>5. Runs'
  BY <1>2, RunsStep DEF Turns
<1>6. Opens'
  <2>1. ASSUME NEW t \in Thread \ {Default}, NEW d \in Open(ctx'[t])
        PROVE  /\ ThreadOf[d[1]] = t
               /\ (\A q \in Req : ThreadOf[q] = t => ~InHand(q, d)') => ran[d] <= Lost(d)'
    <3>1. Lost(d) \in Nat /\ Lost(d)' \in Nat /\ Lost(d) <= Lost(d)'
      BY <1>1, <1>2, Loses
    <3>2. CASE t = ThreadOf[r]
      <4>1. d \in Call /\ ThreadOf[d[1]] = t /\ ran[d] <= Lost(d)
        BY <1>3, <2>1, <3>2
      <4>2. ran[d] \in Nat
        BY <4>1 DEF Inv, Types
      <4> QED
        BY <3>1, <4>1, <4>2
    <3>3. CASE t # ThreadOf[r]
      <4>1. d \in Open(ctx[t])
        BY <1>3, <2>1, <3>3
      <4>2. /\ ThreadOf[d[1]] = t
            /\ (\A q \in Req : ThreadOf[q] = t => ~InHand(q, d)) => ran[d] <= Lost(d)
        BY <4>1 DEF Turns, Opens
      <4>3. \A q \in Req : ThreadOf[q] = t /\ InHand(q, d) => InHand(q, d)'
        BY <1>1, <3>3 DEF InHand
      <4>4. ran[d] \in Nat
        <5>1. d \in Call
          BY <4>1, OpenIsKnown DEF Known
        <5> QED
          BY <5>1 DEF Inv, Types
      <4> QED
        BY <3>1, <4>2, <4>3, <4>4
    <3> QED
      BY <3>2, <3>3
  <2> QED
    BY <2>1 DEF Opens
<1>7. Hands'
  <2>1. ASSUME NEW q \in Req, q # r
        PROVE  Hand(q)'
    <3>1. CASE ThreadOf[q] = ThreadOf[r]
      <4>1. loop'[q].at \notin {"step", "llm", "save", "compact", "next"}
        BY <1>1, <2>1, <3>1, Alone DEF Turns
      <4> QED
        BY <4>1 DEF Hand
    <3>2. CASE ThreadOf[q] # ThreadOf[r]
      <4>1. ctx'[ThreadOf[q]] = ctx[ThreadOf[q]]
        BY <1>3, <3>2, LoopAssumption
      <4> QED
        BY <1>1, <2>1, <4>1 DEF Turns, Hands, Hand
    <3> QED
      BY <3>1, <3>2
  <2>2. Hand(r)'
    BY <1>3 DEF Hand
  <2> QED
    BY <2>1, <2>2 DEF Hands
<1> QED
  BY <1>4, <1>5, <1>6, <1>7 DEF Turns

(* The approved calls are executed for the first time, or after their       *)
(* result was lost.                                                         *)
LEMMA TurnAnswer ==
  ASSUME NEW r \in Req, Guarded, Inv, CallInv, Turns, CallStep(r), AnswerStep(r)
  PROVE  Turns'
<1> DEFINE m == Result(r)
           g == loop[r].msgs
           T == ThreadOf[r]
<1>1. /\ loop[r].at = "step" /\ Answering(r) /\ UNCHANGED <<ctx, rows>>
      /\ loop'[r].at = "save" /\ loop'[r].msgs = Current(r) /\ loop'[r].new = <<m>>
      /\ \A q \in Req : q # r => loop'[q] = loop[q]
  BY Answer
<1>2. PICK calls : calls \subseteq m.calls /\ Execute(calls)
  BY Answer
<1>3. m \in Message /\ m.kind = "return" /\ m.calls = Open(g)
  BY <1>1, AnswerFacts
<1>4. Closed(loop'[r].msgs \o loop'[r].new)
  BY <1>1, AnswerFacts
<1> HIDE DEF m, g
<1>5. Elements(loop'[r].new) = {m}
  BY <1>1, <1>3, OneElement
<1>6. Active(r) /\ loop[r].at # "done" /\ Exclusive /\ T \in Thread \ {Default}
  BY <1>1, LoopAssumption DEF Active, Turns, Guarded
<1>7. Open(g) \subseteq Open(ctx[T])
  BY <1>1 DEF Turns, Hands, Hand, g
<1>8. ASSUME NEW d \in calls
      PROVE  d \in Call /\ d \in Known /\ ThreadOf[d[1]] = T /\ ran[d] \in Nat /\ ran[d] <= Lost(d)
  <2>1. d \in Open(ctx[T])
    BY <1>2, <1>3, <1>7
  <2>2. /\ ThreadOf[d[1]] = T
        /\ (\A q \in Req : ThreadOf[q] = T => ~InHand(q, d)) => ran[d] <= Lost(d)
    BY <1>6, <2>1 DEF Turns, Opens
  <2>3. ASSUME NEW q \in Req, ThreadOf[q] = T
        PROVE  ~InHand(q, d)
    <3>1. CASE q = r
      BY <1>1, <3>1 DEF InHand
    <3>2. CASE q # r
      BY <1>6, <2>3, <3>2, Alone
    <3> QED
      BY <3>1, <3>2
  <2>4. d \in Known /\ d \in Call
    BY <1>6, <2>1, OpenIsKnown DEF Known
  <2>5. ran[d] \in Nat
    BY <2>4 DEF Inv, Types
  <2> QED
    BY <2>2, <2>3, <2>4, <2>5
<1>9. ASSUME NEW d \in Call
      PROVE  /\ d \in calls => ran'[d] = ran[d] + 1
             /\ d \notin calls => ran'[d] = ran[d]
             /\ ran[d] \in Nat /\ Lost(d) \in Nat /\ Lost(d)' \in Nat /\ Lost(d) <= Lost(d)'
  <2>1. ran[d] \in Nat
    BY DEF Inv, Types
  <2>2. Lost(d) \in Nat /\ Lost(d)' \in Nat /\ Lost(d) <= Lost(d)'
    BY <1>1, <1>6, Loses
  <2> QED
    BY <1>2, <2>1, <2>2 DEF Execute
<1>10. Exclusive'
  BY <1>1, <1>6, ExclusiveStep
<1>11. Runs'
  <2>1. Known \subseteq Known'
    BY KnownGrows
  <2>2. ASSUME NEW d \in Call
        PROVE  ran'[d] <= 1 + Lost(d)' /\ (d \notin Known' => ran'[d] = 0)
    <3>1. ran[d] <= 1 + Lost(d) /\ (d \notin Known => ran[d] = 0)
      BY DEF Turns, Runs, CallRunsOnce, Lost
    <3>2. CASE d \in calls
      BY <1>8, <1>9, <2>1, <3>2
    <3>3. CASE d \notin calls
      BY <1>9, <2>1, <3>1, <3>3
    <3> QED
      BY <3>2, <3>3
  <2> QED
    BY <2>2 DEF Runs, CallRunsOnce, Lost
<1>12. Opens'
  <2>1. ASSUME NEW t \in Thread \ {Default}, NEW d \in Open(ctx[t])
        PROVE  /\ ThreadOf[d[1]] = t
               /\ (\A q \in Req : ThreadOf[q] = t => ~InHand(q, d)') => ran'[d] <= Lost(d)'
    <3>1. /\ ThreadOf[d[1]] = t
          /\ (\A q \in Req : ThreadOf[q] = t => ~InHand(q, d)) => ran[d] <= Lost(d)
      BY DEF Turns, Opens
    <3>2. d \in Call
      BY OpenIsKnown DEF Known
    <3>3. \A q \in Req : InHand(q, d) => InHand(q, d)'
      BY <1>1 DEF InHand
    <3>4. CASE d \in calls
      <4>1. InHand(r, d)'
        BY <1>1, <1>2, <1>3, <1>5, <3>4 DEF InHand
      <4>2. ThreadOf[r] = t
        BY <1>8, <3>1, <3>4
      <4> QED
        BY <3>1, <4>1, <4>2
    <3>5. CASE d \notin calls
      BY <1>9, <3>1, <3>2, <3>3, <3>5
    <3> QED
      BY <3>4, <3>5
  <2> QED
    BY <1>1, <2>1 DEF Opens
<1>13. Hands'
  <2>1. Hand(r)'
    BY <1>1, <1>4 DEF Hand, Open, Closed
  <2>2. ASSUME NEW q \in Req, q # r
        PROVE  Hand(q)'
    <3>1. CASE loop[q].at # "save"
      BY <1>1, <2>2, <3>1 DEF Turns, Hands, Hand
    <3>2. CASE loop[q].at = "save"
      <4>1. ThreadOf[q] # T
        BY <1>6, <2>2, <3>2, Alone
      <4>2. ASSUME NEW d \in Open(loop[q].msgs \o loop[q].new)
            PROVE  d[1] = q /\ ran'[d] = 0
        <5>1. d[1] = q /\ ran[d] = 0
          BY <3>2 DEF Turns, Hands, Hand
        <5>2. d \notin calls
          BY <1>8, <4>1, <5>1
        <5>3. d \in Call
          <6>1. Good(loop[q].msgs \o loop[q].new)
            BY <3>2, LoopOf DEF LoopOK
          <6> QED
            BY <6>1, OpenCalls
        <5> QED
          BY <1>9, <5>1, <5>2, <5>3
      <4> QED
        BY <1>1, <2>2, <3>2, <4>2 DEF Hand
    <3> QED
      BY <3>1, <3>2
  <2> QED
    BY <2>1, <2>2 DEF Hands
<1> QED
  BY <1>10, <1>11, <1>12, <1>13 DEF Turns

(* A call the model has just made was never executed before.                *)
LEMMA TurnReplies ==
  ASSUME NEW r \in Req, Guarded, Inv, CallInv, Turns, CallStep(r), ModelReplies(r)
  PROVE  Turns'
<1>1. PICK reply \in Replies :
        /\ loop[r].at = "llm" /\ UNCHANGED <<ctx, rows>>
        /\ loop'[r].at = "save" /\ loop'[r].n = loop[r].n
        /\ loop'[r].msgs = loop[r].msgs /\ loop'[r].new = NewMessages(r, reply)
        /\ \A q \in Req : q # r => loop'[q] = loop[q]
        /\ Execute(IF reply \in {"tool", "terminal"} THEN {<<r, loop[r].n, "plain">>} ELSE {})
  BY ReplyStored
<1> DEFINE n == loop[r].n
           w == NewMessages(r, reply)
           plain == <<r, n, "plain">>
           s == loop[r].msgs
<1>2. Good(s) /\ Closed(s) /\ n \in 1 .. MaxSteps
  BY <1>1, LoopOf DEF LoopOK
<1>3. /\ StepCalls(r, n) \subseteq Call
      /\ reply \in {"tool", "terminal"} => Closed(s \o w)
      /\ Open(s \o w) \subseteq StepCalls(r, n)
  <2> HIDE DEF s
  <2> QED
    BY <1>2, Replied
<1>4. /\ \A d \in StepCalls(r, n) : d[1] = r /\ d[2] = n /\ d \in Call
      /\ plain \in StepCalls(r, n)
  BY <1>3 DEF StepCalls
<1>5. ~KnownAt(loop[r], n)
  BY <1>1, <1>2 DEF KnownAt
<1>6. \A d \in StepCalls(r, n) : d \notin Known /\ ran[d] = 0
  BY <1>4, <1>5 DEF Known, Turns, Runs
<1>7. Active(r) /\ loop[r].at # "done" /\ Exclusive
  BY <1>1 DEF Active, Turns
<1>8. loop'[r].msgs = s /\ loop'[r].new = w
  BY <1>1
<1> HIDE DEF w, s
<1>9. ASSUME NEW d \in Call
      PROVE  /\ d = plain => ran'[d] = ran[d] \/ (ran'[d] = ran[d] + 1 /\ reply \in {"tool", "terminal"})
             /\ d # plain => ran'[d] = ran[d]
             /\ ran[d] \in Nat /\ Lost(d) \in Nat /\ Lost(d)' \in Nat /\ Lost(d) <= Lost(d)'
  <2>1. ran[d] \in Nat
    BY DEF Inv, Types
  <2>2. Lost(d) \in Nat /\ Lost(d)' \in Nat /\ Lost(d) <= Lost(d)'
    BY <1>1, <1>7, Loses
  <2> QED
    BY <1>1, <2>1, <2>2 DEF Execute
<1>10. Exclusive'
  BY <1>1, <1>7, ExclusiveStep
<1>11. Runs'
  <2>1. Known \subseteq Known'
    BY KnownGrows
  <2>2. plain \in Known'
    <3>1. KnownAt(loop'[r], n)
      BY <1>1 DEF KnownAt
    <3> QED
      BY <1>4, <3>1, KnownGrows
  <2>3. ASSUME NEW d \in Call
        PROVE  ran'[d] <= 1 + Lost(d)' /\ (d \notin Known' => ran'[d] = 0)
    <3>1. ran[d] <= 1 + Lost(d) /\ (d \notin Known => ran[d] = 0)
      BY DEF Turns, Runs, CallRunsOnce, Lost
    <3>2. CASE d = plain
      <4>1. ran[d] = 0
        BY <1>4, <1>6, <3>2
      <4> QED
        BY <1>9, <2>2, <3>2, <4>1
    <3>3. CASE d # plain
      BY <1>9, <2>1, <3>1, <3>3
    <3> QED
      BY <3>2, <3>3
  <2> QED
    BY <2>3 DEF Runs, CallRunsOnce, Lost
<1>12. Opens'
  <2>1. ASSUME NEW t \in Thread \ {Default}, NEW d \in Open(ctx[t])
        PROVE  /\ ThreadOf[d[1]] = t
               /\ (\A q \in Req : ThreadOf[q] = t => ~InHand(q, d)') => ran'[d] <= Lost(d)'
    <3>1. /\ ThreadOf[d[1]] = t
          /\ (\A q \in Req : ThreadOf[q] = t => ~InHand(q, d)) => ran[d] <= Lost(d)
      BY DEF Turns, Opens
    <3>2. d \in Known /\ d \in Call
      BY OpenIsKnown DEF Known
    <3>3. \A q \in Req : InHand(q, d) => InHand(q, d)'
      BY <1>1 DEF InHand
    <3>4. d # plain
      BY <1>4, <1>6, <3>2
    <3> QED
      BY <1>9, <3>1, <3>2, <3>3, <3>4
  <2> QED
    BY <1>1, <2>1 DEF Opens
<1>13. Hands'
  <2>1. ASSUME NEW d \in Open(s \o w)
        PROVE  d[1] = r /\ ran'[d] = 0
    <3>1. reply \notin {"tool", "terminal"}
      BY <1>3, <2>1 DEF Open, Closed
    <3>2. d \in StepCalls(r, n)
      BY <1>3, <2>1
    <3> QED
      BY <1>4, <1>6, <1>9, <3>1, <3>2
  <2>2. Hand(r)'
    BY <1>1, <1>8, <2>1 DEF Hand
  <2>3. ASSUME NEW q \in Req, q # r
        PROVE  Hand(q)'
    <3>1. CASE loop[q].at # "save"
      BY <1>1, <2>3, <3>1 DEF Turns, Hands, Hand
    <3>2. CASE loop[q].at = "save"
      <4>1. ASSUME NEW d \in Open(loop[q].msgs \o loop[q].new)
            PROVE  d[1] = q /\ ran'[d] = 0
        <5>1. d[1] = q /\ ran[d] = 0
          BY <3>2 DEF Turns, Hands, Hand
        <5>2. d # plain
          BY <1>4, <2>3, <5>1
        <5>3. d \in Call
          <6>1. Good(loop[q].msgs \o loop[q].new)
            BY <3>2, LoopOf DEF LoopOK
          <6> QED
            BY <6>1, OpenCalls
        <5> QED
          BY <1>9, <5>1, <5>2, <5>3
      <4> QED
        BY <1>1, <2>3, <3>2, <4>1 DEF Hand
    <3> QED
      BY <3>1, <3>2
  <2> QED
    BY <2>2, <2>3 DEF Hands
<1> QED
  BY <1>10, <1>11, <1>12, <1>13 DEF Turns

(* The end of a loop anywhere but at a save loses nothing.                  *)
LEMMA TurnFinish ==
  ASSUME NEW r \in Req, Guarded, Inv, CallInv, Turns, CallStep(r), UNCHANGED <<ctx, ran>>,
         loop[r].at # "done", NEW stop, Finish(r, stop)
  PROVE  Turns'
<1>1. loop'[r].at = "done" /\ loop'[r].new = loop[r].new
  BY Finished
<1>2. ~Active(r)'
  BY <1>1 DEF Active
<1>3. CASE loop[r].at = "save"
  BY <1>1, <1>3, QuitsSaving
<1>4. CASE loop[r].at # "save"
  BY <1>1, <1>2, <1>4, Quiet
<1> QED
  BY <1>3, <1>4

(* A turn begins only where none is under way.                              *)
LEMMA TurnLoadAgent ==
  ASSUME NEW r \in Req, Guarded, Inv, CallInv, Turns, CallStep(r), LoadAgent(r)
  PROVE  Turns'
<1>1. loop[r].at = "idle" /\ UNCHANGED <<ctx, ran>>
  BY DEF LoadAgent
<1>2. loop'[r].at = "loaded"
  <2> DEFINE here == [loop[r] EXCEPT !.at = "loaded", !.snap = ctx[ThreadOf[r]]]
  <2>1. loop[r] \in LoopRecord
    BY LoopOf
  <2>2. CASE InputOf[r] = "message" /\ Upd(r, here)
    <3>1. loop'[r] = here
      BY <2>2, After
    <3> QED
      BY <2>1, <3>1 DEF LoopRecord
  <2>3. ASSUME NEW q, NEW v, Upd(r, [here EXCEPT !.target = q.calls, !.verdict = v])
        PROVE  loop'[r].at = "loaded"
    <3>1. loop'[r] = [here EXCEPT !.target = q.calls, !.verdict = v]
      BY <2>3, After
    <3> QED
      BY <2>1, <3>1 DEF LoopRecord
  <2> QED
    BY <2>2, <2>3 DEF LoadAgent
<1>3. ~Active(r)'
  BY <1>2 DEF Active
<1> QED
  BY <1>1, <1>2, <1>3, Quiet

(* The target of an approval is what the conversation leaves open now,      *)
(* since nobody else has a turn.                                            *)
LEMMA TurnPrepare ==
  ASSUME NEW r \in Req, Guarded, Inv, CallInv, Turns, CallStep(r), Prepare(r)
  PROVE  Turns'
<1>1. loop[r] \in LoopRecord /\ loop[r].at = "loaded" /\ UNCHANGED <<ctx, ran>> /\ LockFree(r)
  BY LoopOf DEF Prepare
<1>2. \A q \in Req \ {r} : ThreadOf[q] = ThreadOf[r] => ~Active(q)
  BY <1>1 DEF LockFree, Guarded
<1>3. CASE Finish(r, "error")
  BY <1>1, <1>3, TurnFinish
<1>4. ASSUME NEW input, NEW follow, Begin(r, Seen(r), input, follow)
      PROVE  Turns'
  <2>1. loop'[r] = [loop[r] EXCEPT !.at = "step", !.msgs = Seen(r), !.input = input, !.follow = follow]
    BY <1>4, After DEF Begin
  <2>2. loop'[r].at = "step" /\ loop'[r].msgs = Seen(r)
    BY <1>1, <2>1 DEF LoopRecord
  <2>3. Seen(r) = Stored(ctx[ThreadOf[r]]) /\ ThreadOf[r] \in Thread
    BY LoopAssumption DEF Seen, Guarded
  <2>4. /\ Good(ctx[ThreadOf[r]])
        /\ \A m \in Elements(ctx[ThreadOf[r]]) : m \in Elements(rows) \/ m.kind = "user"
    BY <2>3 DEF Inv, Contexts, UnsavedBy
  <2>5. System \in Elements(rows)
    BY DEF Inv, Types
  <2>6. Open(Seen(r)) = Open(ctx[ThreadOf[r]])
    BY <2>3, <2>4, <2>5, StoredContext
  <2> QED
    BY <1>1, <1>2, <2>2, <2>6, Quiet
<1>5. Finish(r, "error") \/ \E input, follow : Begin(r, Seen(r), input, follow)
  BY DEF Prepare, PrepareMessage, PrepareApproval
<1> QED
  BY <1>3, <1>4, <1>5

(* Asking the model, or ending before.                                      *)
LEMMA TurnAskModel ==
  ASSUME NEW r \in Req, Guarded, Inv, CallInv, Turns, CallStep(r), AskModel(r)
  PROVE  Turns'
<1>1. loop[r] \in LoopRecord /\ loop[r].at = "step" /\ UNCHANGED <<ctx, ran>>
  BY LoopOf DEF AskModel
<1>2. loop'[r] = [loop[r] EXCEPT !.at = "llm", !.msgs = Current(r), !.tries = 0]
  BY After DEF AskModel
<1>3. loop'[r].at = "llm" /\ Active(r)
  BY <1>1, <1>2 DEF LoopRecord, Active
<1> QED
  BY <1>1, <1>3, Quiet

(* A compaction opens nothing.                                              *)
LEMMA TurnCompaction ==
  ASSUME NEW r \in Req, Guarded, Inv, CallInv, Turns, CallStep(r), UNCHANGED ran,
         NEW back, Compacts(r, back), <<loop[r].at, back>> \in {<<"llm", "llm">>, <<"compact", "next">>}
  PROVE  Turns'
<1>1. \/ loop[r].at = "llm" /\ back = "llm"
      \/ loop[r].at = "compact" /\ back = "next"
  OBVIOUS
<1>2. Active(r) /\ loop[r].at \notin {"save", "done"}
  BY <1>1 DEF Active
<1>3. CASE loop'[r].at = "done" /\ ctx' = ctx
  BY <1>2, <1>3, Quiet
<1>4. ASSUME loop'[r].at = back, NEW c \in Compacted(r, loop[r].msgs), loop'[r].msgs = c,
             ctx' = [ctx EXCEPT ![ThreadOf[r]] = c]
      PROVE  Turns'
  <2>1. Good(loop[r].msgs) /\ loop[r].resp \in Log
    BY <1>1, LoopOf DEF LoopOK
  <2>2. Open(c) \subseteq Open(loop[r].msgs)
    BY <1>4, <2>1, CompactedContext
  <2>3. ThreadOf[r] \in Thread \ {Default} /\ Exclusive
    BY LoopAssumption DEF Guarded, Turns
  <2>4. Open(c) \subseteq Open(ctx[ThreadOf[r]])
    <3>1. CASE loop[r].at = "llm"
      <4>1. Open(loop[r].msgs) = {}
        BY <3>1, LoopOf DEF LoopOK, Open, Closed
      <4> QED
        BY <2>2, <4>1
    <3>2. CASE loop[r].at = "compact"
      BY <2>2, <3>2 DEF Turns, Hands, Hand
    <3> QED
      BY <1>1, <3>1, <3>2
  <2>5. ASSUME NEW d \in Open(c)
        PROVE  d \in Call /\ ThreadOf[d[1]] = ThreadOf[r] /\ ran[d] <= Lost(d)
    <3>1. d \in Open(ctx[ThreadOf[r]])
      BY <2>4
    <3>2. d \in Call
      BY <2>3, <3>1, OpenIsKnown DEF Known
    <3>3. /\ ThreadOf[d[1]] = ThreadOf[r]
          /\ (\A q \in Req : ThreadOf[q] = ThreadOf[r] => ~InHand(q, d)) => ran[d] <= Lost(d)
      BY <2>3, <3>1 DEF Turns, Opens
    <3>4. ASSUME NEW q \in Req, ThreadOf[q] = ThreadOf[r]
          PROVE  ~InHand(q, d)
      <4>1. CASE q = r
        BY <1>2, <4>1 DEF InHand
      <4>2. CASE q # r
        BY <1>2, <2>3, <3>4, <4>2, Alone
      <4> QED
        BY <4>1, <4>2
    <3> QED
      BY <3>2, <3>3, <3>4
  <2> QED
    BY <1>1, <1>2, <1>4, <2>5, Stores
<1> QED
  BY <1>3, <1>4 DEF Compacts

(* A checkpoint hands the results in hand over to the conversation.         *)
LEMMA TurnSave ==
  ASSUME NEW r \in Req, Guarded, Inv, CallInv, Turns, CallStep(r), Save(r)
  PROVE  Turns'
<1>1. PICK s : s = loop[r].msgs \o loop[r].new
  OBVIOUS
<1>2. /\ loop[r].at = "save" /\ UNCHANGED ran
      /\ loop'[r].at \in {"next", "compact"} /\ loop'[r].msgs = s
      /\ ctx' = [ctx EXCEPT ![ThreadOf[r]] = s]
  BY <1>1, Saved
<1>3. Active(r) /\ loop[r].at # "done"
  BY <1>2 DEF Active
<1>4. Good(s)
  BY <1>1, <1>2, LoopOf DEF LoopOK
<1>5. ASSUME NEW d \in Open(s)
      PROVE  d \in Call /\ ThreadOf[d[1]] = ThreadOf[r] /\ ran[d] <= Lost(d)
  <2>1. d \in Call
    BY <1>4, OpenCalls
  <2>2. d[1] = r /\ ran[d] = 0
    BY <1>1, <1>2 DEF Turns, Hands, Hand
  <2>3. Lost(d) \in Nat
    BY <1>3, Loses DEF CallStep
  <2> QED
    BY <2>1, <2>2, <2>3
<1> QED
  BY <1>2, <1>3, <1>5, Stores

(* Between two steps nothing is in hand.                                    *)
LEMMA TurnNextStep ==
  ASSUME NEW r \in Req, Guarded, Inv, CallInv, Turns, CallStep(r), NextStep(r)
  PROVE  Turns'
<1>1. loop[r].at = "next" /\ UNCHANGED <<ctx, ran>>
  BY DEF NextStep
<1>2. Active(r)
  BY <1>1 DEF Active
<1>3. CASE \E stop : Finish(r, stop)
  BY <1>1, <1>3, TurnFinish
<1>4. CASE ~\E stop : Finish(r, stop)
  <2>1. loop'[r].at = "step" /\ loop'[r].msgs = loop[r].msgs
    BY <1>4, Proceeds
  <2>2. Open(loop[r].msgs) \subseteq Open(ctx[ThreadOf[r]])
    BY <1>1 DEF Turns, Hands, Hand
  <2> QED
    BY <1>1, <1>2, <2>1, <2>2, Quiet
<1> QED
  BY <1>3, <1>4

(* Every step of a loop keeps the turns.                                    *)
LEMMA TurnLoop ==
  ASSUME NEW r \in Req, Guarded, Inv, CallInv, Turns, Loop(r)
  PROVE  Turns'
<1>1. CallStep(r)
  BY CallsLoop
<1>2. ASSUME NEW stop, Finish(r, stop), UNCHANGED <<ctx, ran>>, loop[r].at # "done"
      PROVE  Turns'
  BY <1>1, <1>2, TurnFinish
<1>3. CASE LoadAgent(r)
  BY <1>1, <1>3, TurnLoadAgent
<1>4. CASE Refused(r)
  BY <1>2, <1>4 DEF Refused
<1>5. CASE Prepare(r)
  BY <1>1, <1>5, TurnPrepare
<1>6. CASE AnswerStep(r)
  BY <1>1, <1>6, TurnAnswer
<1>7. CASE SeeCancel(r)
  BY <1>2, <1>7 DEF SeeCancel
<1>8. CASE AskModel(r)
  BY <1>1, <1>8, TurnAskModel
<1>9. CASE ModelReplies(r)
  BY <1>1, <1>9, TurnReplies
<1>10. CASE ModelFails(r)
  BY <1>2, <1>10 DEF ModelFails
<1>11. CASE Overflow(r)
  BY <1>1, <1>11, OverflowCompacts, TurnCompaction
<1>12. CASE Save(r)
  BY <1>1, <1>12, TurnSave
<1>13. CASE SaveFails(r)
  <2>1. loop[r].at # "done" /\ UNCHANGED <<ctx, ran>> /\ \E stop : Finish(r, stop)
    BY <1>13 DEF SaveFails, CheckpointFails, FinishSwallowing
  <2> QED
    BY <1>2, <2>1
<1>14. CASE CompactAfterStep(r)
  BY <1>1, <1>14, CompactAfterStepCompacts, TurnCompaction
<1>15. CASE NextStep(r)
  BY <1>1, <1>15, TurnNextStep
<1>16. CASE Abandoned(r)
  BY <1>2, <1>16 DEF Abandoned
<1>17. CASE Crash(r)
  BY <1>2, <1>17 DEF Crash, Active
<1> QED
  BY <1>3, <1>4, <1>5, <1>6, <1>7, <1>8, <1>9, <1>10, <1>11, <1>12, <1>13, <1>14, <1>15, <1>16, <1>17 DEF Loop

(* A step that leaves loops, executions and conversations alone keeps the   *)
(* turns.                                                                   *)
LEMMA TurnFrame ==
  ASSUME Guarded, Turns, UNCHANGED <<loop, ran>>, \A t \in Thread \ {Default} : ctx'[t] = ctx[t]
  PROVE  Turns'
<1>1. UNCHANGED <<loop, ran>>
  OBVIOUS
<1>2. \A t \in Thread \ {Default} : ctx'[t] = ctx[t]
  OBVIOUS
<1>3. \A q \in Req : ThreadOf[q] \in Thread \ {Default}
  BY LoopAssumption DEF Guarded
<1>4. /\ \A d : LostResult(d)' = LostResult(d) /\ \A q : InHand(q, d)' <=> InHand(q, d)
      /\ Known' = Known /\ \A q : Active(q)' <=> Active(q)
  BY <1>1 DEF LostResult, InHand, Known, KnownAt, Active
<1>5. Exclusive' /\ Runs'
  BY <1>1, <1>4 DEF Turns, Exclusive, Runs, CallRunsOnce
<1>6. Opens'
  BY <1>1, <1>2, <1>4 DEF Turns, Opens, Lost
<1>7. Hands'
  BY <1>1, <1>2, <1>3 DEF Turns, Hands, Hand
<1> QED
  BY <1>5, <1>6, <1>7 DEF Turns

(* A cancellation writes the agent's own thread only.                       *)
LEMMA TurnCancellation ==
  ASSUME NEW r \in Req, Guarded, Inv, Turns, Cancellation(r)
  PROVE  Turns'
<1>1. UNCHANGED <<loop, ran>>
  BY DEF Cancellation, CancelReads, CancelWrites, CancelDenies
<1>2. \A t \in Thread \ {Default} : ctx'[t] = ctx[t]
  <2>1. ctx \in [Thread -> Log]
    BY DEF Inv, Types
  <2> QED
    BY <2>1 DEF Cancellation, CancelReads, CancelWrites, CancelDenies
<1> QED
  BY <1>1, <1>2, TurnFrame

(* The initial states.                                                      *)
LEMMA InitTurns ==
  ASSUME Init
  PROVE  Turns
<1>1. \A r \in Req : loop[r].at = "idle"
  BY DEF Init
<1>2. ASSUME NEW d \in Call
      PROVE  ran[d] = 0 /\ Lost(d) \in Nat
  <2>1. LostResult(d) \subseteq Req
    BY DEF LostResult
  <2> QED
    BY <2>1, Counting DEF Init, Lost
<1>3. Exclusive /\ Hands
  BY <1>1 DEF Exclusive, Active, Hands, Hand
<1>4. Runs
  BY <1>2 DEF Runs, CallRunsOnce, Lost
<1>5. \A t \in Thread : Open(ctx[t]) = {}
  <2>1. \A t \in Thread : ctx[t] = <<System>>
    BY DEF Init
  <2>2. Len(<<System>>) = 1 /\ <<System>>[1] = System /\ System.kind = "system"
    BY MessageParts
  <2> QED
    BY <2>1, <2>2 DEF Open, Last
<1>6. Opens
  BY <1>5 DEF Opens
<1> QED
  BY <1>3, <1>4, <1>6 DEF Turns

(* On guarded conversations turns are in order in every reachable state.    *)
LEMMA TurnsHold ==
  ASSUME Guarded
  PROVE  Spec => []Turns
<1>1. Init => Turns
  BY InitTurns
<1>2. Inv /\ CallInv /\ Turns /\ [Next]_vars => Turns'
  <2>1. ASSUME Inv, CallInv, Turns, Next
        PROVE  Turns'
    BY <2>1, TurnLoop, TurnCancellation DEF Next
  <2>2. ASSUME Turns, UNCHANGED vars
        PROVE  Turns'
    BY <2>2, TurnFrame DEF vars
  <2> QED
    BY <2>1, <2>2
<1> QED
  BY <1>1, <1>2, InvHolds, CallInvHolds, PTL DEF Spec

(* Under the lock of its conversation no call is executed twice - by an     *)
(* approval that is sent again, or answered twice, or by the step that made *)
(* it - unless a run ended between executing the call and storing what it   *)
(* returned.                                                                *)
THEOREM CallsRunOnce ==
  ASSUME Guarded
  PROVE  Spec => []CallRunsOnce
<1>1. Turns => CallRunsOnce
  BY DEF Turns, Runs
<1> QED
  BY <1>1, TurnsHold, PTL

-----------------------------------------------------------------------------
(* What a guarded conversation waits for, and what it keeps.                *)

(* Requests for approval that no stored result answers, and those of one    *)
(* thread.                                                                  *)
Unanswered(R) ==
  {q \in Elements(R) : /\ q.kind = "request"
                       /\ \A m \in Elements(R) : m.kind = "return" => ~(q.calls \subseteq m.calls)}
WaitingOn(t, R) == {q \in Unanswered(R) : ThreadOf[q.run] = t}

(* The messages of thread t in the table R are in the context s, or a       *)
(* summary in s stands for them.                                            *)
KeptIn(s, t, R) ==
  \A i \in DOMAIN R :
    R[i].run \in Req /\ ThreadOf[R[i].run] = t =>
      \/ R[i] \in Elements(s)
      \/ \E j \in DOMAIN R : R[j].kind = "summary" /\ R[j] \in Elements(s) /\ (j > i \/ R[i].kind = "user")

(* A stored context ends with the request its thread waits on, and keeps    *)
(* the messages of the thread.                                              *)
ThreadKeeps(t, s, R) == (\A q \in WaitingOn(t, R) : Last(s) = q) /\ KeptIn(s, t, R)

(* What a loop is about to store is its own, and a request among it comes   *)
(* last.                                                                    *)
Owns(r, l) ==
  /\ l.at \in {"step", "llm", "save"} =>
       \A m \in Elements(l.input) : m.run = r /\ m.kind \in {"user", "response"}
  /\ l.at = "save" =>
       \A m \in Elements(l.new) : m.run = r /\ (m.kind = "request" => m = Last(l.msgs \o l.new))

(* A loop that has its turn while q waits ends with q, or has the result.   *)
Rests(l, q) ==
  /\ l.at \in {"step", "compact", "next"} => Last(l.msgs) = q
  /\ l.at # "llm"
  /\ l.at = "save" => \E m \in Elements(l.new) : m.kind = "return" /\ q.calls \subseteq m.calls

(* A summary that replaced an input before it was stored.                   *)
InputKept(l) ==
  \A m \in Elements(l.input) :
    m \in Elements(l.msgs) \/ (m.kind = "user" /\ \E u \in Elements(l.msgs) : u.kind = "summary")

LoopKeeps(r, l, R) ==
  /\ Owns(r, l)
  /\ \A q \in WaitingOn(ThreadOf[r], R) : Rests(l, q)
  /\ l.at \in {"step", "llm", "save", "compact", "next"} => KeptIn(l.msgs, ThreadOf[r], R)
  /\ l.at \in {"llm", "save"} => InputKept(l)

(* Nobody writes the agent's own thread, and a cancellation, which reads    *)
(* only that one, finds nothing to deny.                                    *)
Apart ==
  /\ Closed(ctx[Default])
  /\ \A r \in Req : canc[r].at # "deny" /\ (canc[r].at = "write" => Closed(canc[r].msgs))

RunsKnown == \A m \in Elements(rows) : m = System \/ m.run \in Req

History ==
  /\ Apart /\ RunsKnown
  /\ \A t \in Thread \ {Default} : ThreadKeeps(t, ctx[t], rows)
  /\ \A r \in Req : LoopKeeps(r, loop[r], rows)

(* The requests that wait after messages were stored waited before, or are  *)
(* among these.                                                             *)
LEMMA WaitingAfter ==
  ASSUME NEW R \in Log, NEW w \in Log, NEW t
  PROVE  /\ R \o w \in Log /\ Elements(R \o w) = Elements(R) \cup Elements(w)
         /\ WaitingOn(t, R \o w) \subseteq WaitingOn(t, R) \cup {q \in Elements(w) : q.kind = "request" /\ ThreadOf[q.run] = t}
         /\ \A q \in WaitingOn(t, R \o w) : \A m \in Elements(w) : m.kind = "return" => ~(q.calls \subseteq m.calls)
<1>1. /\ R \o w \in Seq(Message)
      /\ Elements(R \o w) = Elements(R) \cup Elements(w)
  BY ElementsOfJoin DEF Log
<1> QED
  BY <1>1 DEF Log, WaitingOn, Unanswered

(* What is kept stays kept when messages are stored that are in the context *)
(* too, or are of another thread, or inputs a summary stands for.           *)
LEMMA KeptAfter ==
  ASSUME NEW R \in Log, NEW w \in Log, NEW t, NEW s, NEW c, KeptIn(s, t, R),
         \A m \in Elements(s) : m \in Elements(R) => m \in Elements(c),
         \A m \in Elements(w) :
           \/ m.run \notin Req \/ ThreadOf[m.run] # t \/ m \in Elements(c)
           \/ m.kind = "user" /\ \E u \in Elements(c) : u \in Elements(R) /\ u.kind = "summary"
  PROVE  KeptIn(c, t, R \o w)
<1> DEFINE Q == R \o w
<1>1. /\ Q \in Seq(Message) /\ Len(Q) = Len(R) + Len(w)
      /\ \A i \in 1 .. Len(R) : Q[i] = R[i]
      /\ \A i \in 1 .. Len(w) : Q[Len(R) + i] = w[i]
  BY ElementsOfJoin DEF Log
<1>2. /\ DOMAIN R = 1 .. Len(R) /\ Len(R) \in Nat /\ DOMAIN w = 1 .. Len(w) /\ Len(w) \in Nat
      /\ DOMAIN Q = 1 .. Len(Q) /\ Len(Q) \in Nat
      /\ \A i \in 1 .. Len(R) : R[i] \in Elements(R)
      /\ \A i \in 1 .. Len(w) : w[i] \in Elements(w)
      /\ \A m \in Elements(R) : \E i \in 1 .. Len(R) : R[i] = m
  BY <1>1, ElementsOf DEF Log
<1> HIDE DEF Q
<1>3. ASSUME NEW i \in 1 .. Len(Q), Q[i].run \in Req, ThreadOf[Q[i].run] = t, Q[i] \notin Elements(c)
      PROVE  \E j \in 1 .. Len(Q) : Q[j].kind = "summary" /\ Q[j] \in Elements(c) /\ (j > i \/ Q[i].kind = "user")
  <2>1. CASE i \in 1 .. Len(R)
    <3>1. Q[i] = R[i] /\ R[i] \in Elements(R) /\ R[i] \notin Elements(s)
      BY <1>1, <1>2, <1>3, <2>1
    <3>2. PICK j \in 1 .. Len(R) : R[j].kind = "summary" /\ R[j] \in Elements(s) /\ (j > i \/ R[i].kind = "user")
      BY <1>2, <1>3, <2>1, <3>1 DEF KeptIn
    <3>3. j \in 1 .. Len(Q) /\ Q[j] = R[j] /\ R[j] \in Elements(R)
      BY <1>1, <1>2
    <3> QED
      BY <3>1, <3>2, <3>3
  <2>2. CASE i \notin 1 .. Len(R)
    <3>1. PICK k \in 1 .. Len(w) : i = Len(R) + k
      <4>1. i - Len(R) \in 1 .. Len(w)
        BY <1>1, <1>2, <2>2
      <4> QED
        BY <1>2, <4>1
    <3>2. Q[i] = w[k] /\ w[k] \in Elements(w)
      BY <1>1, <1>2, <3>1
    <3>3. Q[i].kind = "user" /\ \E u \in Elements(c) : u \in Elements(R) /\ u.kind = "summary"
      BY <1>3, <3>2
    <3>4. PICK u \in Elements(c) : u \in Elements(R) /\ u.kind = "summary"
      BY <3>3
    <3>5. PICK j \in 1 .. Len(R) : R[j] = u
      BY <1>2, <3>4
    <3>6. j \in 1 .. Len(Q) /\ Q[j] = u
      BY <1>1, <1>2, <3>5
    <3> QED
      BY <3>3, <3>4, <3>6
  <2> QED
    BY <2>1, <2>2
<1> QED
  BY <1>2, <1>3 DEF KeptIn, Q

(* A summary stored last stands for everything before it.                   *)
LEMMA KeptBySummary ==
  ASSUME NEW R \in Log, NEW u \in Message, u.kind = "summary", NEW t, NEW c, u \in Elements(c)
  PROVE  KeptIn(c, t, R \o <<u>>)
<1>1. PICK w \in Seq(Message) : w = <<u>>
  BY OneElement
<1>2. Len(w) = 1 /\ w[1] = u
  BY <1>1
<1> DEFINE Q == R \o w
<1>3. /\ Q \in Seq(Message) /\ Len(Q) = Len(R) + Len(w)
      /\ \A i \in 1 .. Len(w) : Q[Len(R) + i] = w[i]
  BY ElementsOfJoin DEF Log
<1>4. DOMAIN Q = 1 .. Len(Q) /\ Len(R) \in Nat
  BY <1>3 DEF Log
<1> HIDE DEF Q
<1>5. Len(Q) = Len(R) + 1 /\ Q[Len(Q)] = u
  BY <1>2, <1>3, <1>4
<1>6. KeptIn(c, t, Q)
  BY <1>4, <1>5 DEF KeptIn
<1> QED
  BY <1>1, <1>6 DEF Q

(* The end of a joined sequence.                                            *)
LEMMA LastOfJoin ==
  ASSUME NEW s \in Seq(Message), NEW w \in Seq(Message), Len(w) > 0
  PROVE  Last(s \o w) = Last(w)
<1>1. /\ Len(s \o w) = Len(s) + Len(w) /\ Len(s) \in Nat /\ Len(w) \in Nat
      /\ \A i \in 1 .. Len(w) : (s \o w)[Len(s) + i] = w[i]
  BY ElementsOfJoin
<1> QED
  BY <1>1 DEF Last

(* A loop without a turn keeps everything.                                  *)
LEMMA KeepsIdle ==
  ASSUME NEW r, NEW l, NEW R, l.at \in {"idle", "loaded", "done"}
  PROVE  LoopKeeps(r, l, R)
BY DEF LoopKeeps, Owns, Rests

-----------------------------------------------------------------------------
(* The steps of a loop and of a cancellation, as the history sees them.     *)

(* What a step of a loop does to the history.                               *)
HistoryStep(r) ==
  /\ \A q \in Req : q # r => loop'[q] = loop[q]
  /\ \A t \in Thread : t # ThreadOf[r] => ctx'[t] = ctx[t]
  /\ UNCHANGED canc
  /\ ThreadKeeps(ThreadOf[r], ctx'[ThreadOf[r]], rows')
  /\ LoopKeeps(r, loop'[r], rows')
  /\ \/ rows' = rows
     \/ /\ \E w \in Log : rows' = rows \o w /\ \A m \in Elements(w) : m.run = r
        /\ \A q \in Req \ {r} : ThreadOf[q] = ThreadOf[r] => ~Active(q)

(* The messages of a run of another thread change nothing for a thread.     *)
LEMMA OtherThread ==
  ASSUME NEW R \in Log, NEW w \in Log, NEW r \in Req, \A m \in Elements(w) : m.run = r,
         NEW t, t # ThreadOf[r]
  PROVE  /\ WaitingOn(t, R \o w) \subseteq WaitingOn(t, R)
         /\ \A s : KeptIn(s, t, R) => KeptIn(s, t, R \o w)
<1>1. WaitingOn(t, R \o w) \subseteq WaitingOn(t, R)
  BY WaitingAfter
<1>2. ASSUME NEW s, KeptIn(s, t, R)
      PROVE  KeptIn(s, t, R \o w)
  <2>1. \A m \in Elements(w) : m.run \notin Req \/ ThreadOf[m.run] # t
    OBVIOUS
  <2> QED
    BY <1>2, <2>1, KeptAfter
<1> QED
  BY <1>1, <1>2

(* A step of one loop that leaves its own thread in order leaves the        *)
(* history in order.                                                        *)
LEMMA HistoryStepInv ==
  ASSUME NEW r \in Req, Guarded, Inv, History, HistoryStep(r)
  PROVE  History'
<1>1. /\ \A q \in Req : q # r => loop'[q] = loop[q]
      /\ \A t \in Thread : t # ThreadOf[r] => ctx'[t] = ctx[t]
      /\ canc' = canc
  BY DEF HistoryStep
<1>2. Default \in Thread /\ \A q \in Req : ThreadOf[q] \in Thread \ {Default}
  BY LoopAssumption DEF Guarded
<1>3. Apart'
  <2>1. ctx'[Default] = ctx[Default]
    BY <1>1, <1>2
  <2> QED
    BY <1>1, <2>1 DEF History, Apart
<1>4. CASE rows' = rows
  <2>1. RunsKnown'
    BY <1>4 DEF History, RunsKnown
  <2>2. ASSUME NEW t \in Thread \ {Default}
        PROVE  ThreadKeeps(t, ctx'[t], rows')
    BY <1>1, <1>4 DEF History, HistoryStep
  <2>3. ASSUME NEW q \in Req
        PROVE  LoopKeeps(q, loop'[q], rows')
    BY <1>1, <1>4 DEF History, HistoryStep
  <2> QED
    BY <1>3, <2>1, <2>2, <2>3 DEF History
<1>5. CASE rows' # rows
  <2>1. PICK w \in Log : rows' = rows \o w /\ \A m \in Elements(w) : m.run = r
    BY <1>5 DEF HistoryStep
  <2>2. \A q \in Req \ {r} : ThreadOf[q] = ThreadOf[r] => ~Active(q)
    BY <1>5 DEF HistoryStep
  <2>3. rows \in Log
    BY DEF Inv, Types
  <2>4. Elements(rows') = Elements(rows) \cup Elements(w)
    BY <2>1, <2>3, WaitingAfter
  <2>5. RunsKnown'
    BY <2>1, <2>4 DEF History, RunsKnown
  <2>6. ASSUME NEW t, t # ThreadOf[r]
        PROVE  /\ WaitingOn(t, rows') \subseteq WaitingOn(t, rows)
               /\ \A s : KeptIn(s, t, rows) => KeptIn(s, t, rows')
    BY <2>1, <2>3, <2>6, OtherThread
  <2>7. ASSUME NEW t \in Thread \ {Default}
        PROVE  ThreadKeeps(t, ctx'[t], rows')
    <3>1. CASE t = ThreadOf[r]
      BY <3>1 DEF HistoryStep
    <3>2. CASE t # ThreadOf[r]
      <4>1. ThreadKeeps(t, ctx[t], rows) /\ ctx'[t] = ctx[t]
        BY <1>1, <3>2 DEF History
      <4> QED
        BY <2>6, <3>2, <4>1 DEF ThreadKeeps
    <3> QED
      BY <3>1, <3>2
  <2>8. ASSUME NEW q \in Req
        PROVE  LoopKeeps(q, loop'[q], rows')
    <3>1. CASE q = r
      BY <3>1 DEF HistoryStep
    <3>2. CASE q # r /\ ThreadOf[q] # ThreadOf[r]
      <4>1. LoopKeeps(q, loop[q], rows) /\ loop'[q] = loop[q]
        BY <1>1, <3>2 DEF History
      <4> QED
        BY <2>6, <3>2, <4>1 DEF LoopKeeps
    <3>3. CASE q # r /\ ThreadOf[q] = ThreadOf[r]
      <4>1. loop[q].at \in {"idle", "loaded", "done"} /\ loop'[q] = loop[q]
        BY <1>1, <2>2, <3>3 DEF Active
      <4> QED
        BY <4>1, KeepsIdle
    <3> QED
      BY <3>1, <3>2, <3>3
  <2> QED
    BY <1>3, <2>5, <2>7, <2>8 DEF History
<1> QED
  BY <1>4, <1>5

(* A step that stores nothing.                                              *)
LEMMA HistoryQuiet ==
  ASSUME NEW r \in Req, Guarded, History, UNCHANGED <<ctx, rows, canc>>,
         \A q \in Req : q # r => loop'[q] = loop[q], LoopKeeps(r, loop'[r], rows)
  PROVE  HistoryStep(r)
<1>1. ThreadOf[r] \in Thread \ {Default}
  BY LoopAssumption DEF Guarded
<1> QED
  BY <1>1 DEF HistoryStep, History

(* A loop that ends without storing.                                        *)
LEMMA HistoryFinish ==
  ASSUME NEW r \in Req, Guarded, Inv, History, NEW stop, Finish(r, stop), UNCHANGED <<ctx, rows, canc>>
  PROVE  HistoryStep(r)
<1>1. loop'[r].at = "done" /\ \A q \in Req : q # r => loop'[q] = loop[q]
  BY Finished
<1>2. LoopKeeps(r, loop'[r], rows)
  BY <1>1, KeepsIdle
<1> QED
  BY <1>1, <1>2, HistoryQuiet

(* The agent is loaded.                                                     *)
LEMMA HistoryLoadAgent ==
  ASSUME NEW r \in Req, Guarded, Inv, History, LoadAgent(r)
  PROVE  HistoryStep(r)
<1> DEFINE here == [loop[r] EXCEPT !.at = "loaded", !.snap = ctx[ThreadOf[r]]]
<1>1. loop[r] \in LoopRecord /\ UNCHANGED <<ctx, rows, canc>>
  BY LoopOf DEF LoadAgent
<1>2. here.at = "loaded" /\ DOMAIN here = DOMAIN loop[r]
  BY <1>1 DEF LoopRecord
<1>3. CASE Upd(r, here)
  <2>1. loop'[r].at = "loaded" /\ \A q \in Req : q # r => loop'[q] = loop[q]
    BY <1>2, <1>3, After
  <2> QED
    BY <1>1, <2>1, KeepsIdle, HistoryQuiet
<1>4. ASSUME NEW q, NEW v, Upd(r, [here EXCEPT !.target = q.calls, !.verdict = v])
      PROVE  HistoryStep(r)
  <2>1. loop'[r] = [here EXCEPT !.target = q.calls, !.verdict = v] /\ \A p \in Req : p # r => loop'[p] = loop[p]
    BY <1>4, After
  <2>2. loop'[r].at = "loaded"
    BY <1>1, <1>2, <2>1 DEF LoopRecord
  <2>3. LoopKeeps(r, loop'[r], rows)
    BY <2>2, KeepsIdle
  <2>4. \A p \in Req : p # r => loop'[p] = loop[p]
    BY <2>1
  <2> HIDE DEF here
  <2> QED
    BY <1>1, <2>3, <2>4, HistoryQuiet
<1> QED
  BY <1>3, <1>4 DEF LoadAgent

(* What was kept, or what a loop may wait for, as the history says it.      *)
LEMMA HistoryOf ==
  ASSUME NEW r \in Req, Guarded, Inv, History
  PROVE  /\ ThreadOf[r] \in Thread \ {Default}
         /\ ThreadKeeps(ThreadOf[r], ctx[ThreadOf[r]], rows)
         /\ LoopKeeps(r, loop[r], rows)
         /\ Owns(r, loop[r])
         /\ \A q \in WaitingOn(ThreadOf[r], rows) : Rests(loop[r], q) /\ q.kind = "request"
<1>1. ThreadOf[r] \in Thread \ {Default}
  BY LoopAssumption DEF Guarded
<1> QED
  BY <1>1 DEF History, LoopKeeps, WaitingOn, Unanswered

(* A turn begins: only an answer to the request may follow it.              *)
LEMMA HistoryBegin ==
  ASSUME NEW r \in Req, Guarded, Inv, History, loop[r].at = "loaded", UNCHANGED <<ctx, rows, canc>>,
         NEW input, NEW follow, Begin(r, Seen(r), input, follow),
         \A m \in Elements(input) : m.run = r /\ m.kind \in {"user", "response"}
  PROVE  HistoryStep(r)
<1> DEFINE s == ctx[ThreadOf[r]]
           c == Seen(r)
<1>1. /\ loop'[r] = [loop[r] EXCEPT !.at = "step", !.msgs = c, !.input = input, !.follow = follow]
      /\ \A q \in Req : q # r => loop'[q] = loop[q]
  BY After DEF Begin
<1>2. loop[r] \in LoopRecord /\ ThreadOf[r] \in Thread \ {Default} /\ ThreadKeeps(ThreadOf[r], s, rows)
  BY LoopOf, HistoryOf
<1>3. loop'[r].at = "step" /\ loop'[r].msgs = c /\ loop'[r].input = input
  BY <1>1, <1>2 DEF LoopRecord
<1>4. Good(s) /\ \A m \in Elements(s) : m \in Elements(rows) \/ m.kind = "user"
  BY <1>2 DEF Inv, Contexts, UnsavedBy
<1>5. System \in Elements(rows) /\ c = Stored(s)
  BY <1>2 DEF Inv, Types, Seen
<1> HIDE DEF s, c
<1>6. /\ Last(s).kind # "user" => Last(c) = Last(s)
      /\ \A m \in Elements(s) : m \in Elements(rows) => m \in Elements(c)
  BY <1>4, <1>5, StoredContext
<1>7. ASSUME NEW q \in WaitingOn(ThreadOf[r], rows)
      PROVE  Last(c) = q
  <2>1. Last(s) = q /\ q.kind = "request"
    BY <1>2 DEF ThreadKeeps, WaitingOn, Unanswered
  <2> QED
    BY <1>6, <2>1
<1>8. KeptIn(c, ThreadOf[r], rows)
  <2>1. KeptIn(s, ThreadOf[r], rows)
    BY <1>2 DEF ThreadKeeps
  <2>2. \A i \in DOMAIN rows : rows[i] \in Elements(rows)
    BY DEF Elements
  <2> QED
    BY <1>6, <2>1, <2>2 DEF KeptIn
<1>9. LoopKeeps(r, loop'[r], rows)
  BY <1>3, <1>7, <1>8 DEF LoopKeeps, Owns, Rests
<1> QED
  BY <1>1, <1>9, HistoryQuiet

(* The input is a message or an answer, of the request itself.              *)
LEMMA HistoryPrepare ==
  ASSUME NEW r \in Req, Guarded, Inv, History, Prepare(r)
  PROVE  HistoryStep(r)
<1>1. loop[r].at = "loaded" /\ UNCHANGED <<ctx, rows, canc>>
  BY DEF Prepare
<1>2. CASE Finish(r, "error")
  BY <1>1, <1>2, HistoryFinish
<1>3. ASSUME Begin(r, Seen(r), <<Plain("user", r, 1)>>, FALSE)
      PROVE  HistoryStep(r)
  <2>1. PICK w : w = <<Plain("user", r, 1)>> /\ \A m \in Elements(w) : m.kind = "user" /\ m.run = r
    BY UserMessage
  <2> QED
    BY <1>1, <1>3, <2>1, HistoryBegin
<1>4. ASSUME Begin(r, Seen(r), <<Msg("response", r, 1, loop[r].target, Denied(r))>>, r \in FollowUps)
      PROVE  HistoryStep(r)
  <2>1. PICK u : u = Msg("response", r, 1, loop[r].target, Denied(r))
    OBVIOUS
  <2>2. u.run = r /\ u.kind = "response"
    BY <2>1 DEF Msg
  <2>3. PICK w : w = <<u>>
    OBVIOUS
  <2>4. Elements(w) = {u}
    BY <2>3, OneElement
  <2>5. Begin(r, Seen(r), w, r \in FollowUps)
    BY <1>4, <2>1, <2>3
  <2> QED
    BY <1>1, <2>2, <2>4, <2>5, HistoryBegin
<1> QED
  BY <1>2, <1>3, <1>4 DEF Prepare, PrepareMessage, PrepareApproval

(* The result of an answered request is in hand.                            *)
LEMMA HistoryAnswer ==
  ASSUME NEW r \in Req, Guarded, Inv, History, AnswerStep(r)
  PROVE  HistoryStep(r)
<1> DEFINE m == Result(r)
           g == loop[r].msgs
           v == loop[r].input
<1>1. /\ loop[r].at = "step" /\ Answering(r) /\ UNCHANGED <<ctx, rows>>
      /\ loop'[r].at = "save" /\ loop'[r].msgs = Current(r) /\ loop'[r].input = v
      /\ loop'[r].new = <<m>>
      /\ \A q \in Req : q # r => loop'[q] = loop[q]
  BY Answer
<1>2. UNCHANGED canc
  BY DEF AnswerStep
<1>3. m \in Message /\ m.kind = "return" /\ m.run = r /\ m.calls = Open(g)
  BY <1>1, AnswerFacts
<1>4. g \in Seq(Message) /\ v \in Seq(Message) /\ Current(r) = g \o v
  BY LoopOf DEF Log, Current
<1>5. LoopKeeps(r, loop[r], rows) /\ Owns(r, loop[r])
  BY HistoryOf
<1> HIDE DEF m, g, v
<1>6. Elements(loop'[r].new) = {m}
  BY <1>1, <1>3, OneElement
<1>7. Elements(loop'[r].msgs) = Elements(g) \cup Elements(v)
  BY <1>1, <1>4, ElementsOfJoin
<1>8. ASSUME NEW q \in WaitingOn(ThreadOf[r], rows)
      PROVE  Rests(loop'[r], q)
  <2>1. Last(g) = q /\ q.kind = "request"
    BY <1>1, <1>5 DEF LoopKeeps, Rests, WaitingOn, Unanswered, g
  <2>2. q.calls \subseteq m.calls
    BY <1>3, <2>1 DEF Open
  <2> QED
    BY <1>1, <1>3, <1>6, <2>2 DEF Rests
<1>9. KeptIn(loop'[r].msgs, ThreadOf[r], rows)
  BY <1>1, <1>5, <1>7 DEF LoopKeeps, KeptIn, g
<1>10. Owns(r, loop'[r])
  BY <1>1, <1>3, <1>5, <1>6 DEF Owns, v
<1>11. InputKept(loop'[r])
  BY <1>1, <1>7 DEF InputKept
<1>12. LoopKeeps(r, loop'[r], rows)
  BY <1>8, <1>9, <1>10, <1>11 DEF LoopKeeps
<1> QED
  BY <1>1, <1>2, <1>12, HistoryQuiet

(* The model is asked only where nothing waits.                             *)
LEMMA HistoryAskModel ==
  ASSUME NEW r \in Req, Guarded, Inv, History, AskModel(r)
  PROVE  HistoryStep(r)
<1> DEFINE g == loop[r].msgs
           v == loop[r].input
           s == Current(r)
<1>1. /\ loop[r] \in LoopRecord /\ loop[r].at = "step" /\ ~Answering(r) /\ UNCHANGED <<ctx, rows, canc>>
      /\ loop'[r] = [loop[r] EXCEPT !.at = "llm", !.msgs = s, !.tries = 0]
      /\ \A q \in Req : q # r => loop'[q] = loop[q]
  BY LoopOf, After DEF AskModel
<1>2. loop'[r].at = "llm" /\ loop'[r].msgs = s /\ loop'[r].input = v
  BY <1>1 DEF LoopRecord
<1>3. g \in Seq(Message) /\ v \in Seq(Message) /\ s = g \o v
  BY LoopOf DEF Log, Current
<1>4. LoopKeeps(r, loop[r], rows) /\ Owns(r, loop[r])
  BY HistoryOf
<1>5. UserInput(r, loop[r])
  BY <1>1, CurrentContext
<1>6. Answered(loop[r]) \/ Closed(g)
  BY <1>1, LoopOf DEF LoopOK
<1> HIDE DEF g, v, s
<1>7. Elements(s) = Elements(g) \cup Elements(v)
  BY <1>3, ElementsOfJoin
<1>8. Closed(g)
  <2>1. ASSUME Answered(loop[r])
        PROVE  FALSE
    <3>1. Len(v) = 1 /\ v[1].kind = "response"
      BY <2>1 DEF Answered, v
    <3>2. v[1] \in Elements(v)
      BY <1>3, <3>1, ElementsOf
    <3> QED
      BY <1>5, <3>1, <3>2 DEF UserInput, v
  <2> QED
    BY <1>6, <2>1
<1>9. WaitingOn(ThreadOf[r], rows) = {}
  BY <1>1, <1>4, <1>8 DEF LoopKeeps, Rests, WaitingOn, Unanswered, Closed, g
<1>10. LoopKeeps(r, loop'[r], rows)
  BY <1>1, <1>2, <1>4, <1>7, <1>9 DEF LoopKeeps, KeptIn, Owns, InputKept, g, v
<1> QED
  BY <1>1, <1>10, HistoryQuiet

(* The messages of a reply are the run's, and a request is the last of      *)
(* them.                                                                    *)
LEMMA ReplyOwned ==
  ASSUME NEW r \in Req, loop[r].n \in 1 .. MaxSteps, NEW reply \in Replies,
         NEW s, Good(s), Closed(s), NEW m \in Elements(NewMessages(r, reply)), m.kind = "request"
  PROVE  m = Last(s \o NewMessages(r, reply))
<1> DEFINE w == NewMessages(r, reply)
           n == loop[r].n
<1>1. w \in Seq(Message) /\ s \in Seq(Message)
  BY Replied, GoodLast
<1>2. reply \in Reply
  BY LoopAssumption
<1>3. PICK u : u = Msg("request", r, n, {<<r, n, "gated">>}, {})
  OBVIOUS
<1>4. CASE reply \in {"text", "nudge"}
  <2>1. PICK p : p = Plain(IF reply = "text" THEN "text" ELSE "nudge", r, n)
    OBVIOUS
  <2>2. w = <<p>> /\ p.kind # "request"
    BY <1>4, <2>1 DEF NewMessages, Plain, Msg
  <2> QED
    BY <2>2 DEF Elements
<1>5. CASE reply = "noop"
  BY <1>5, NoElements DEF NewMessages
<1>6. CASE reply \in {"tool", "terminal"}
  <2>1. PICK p, q : p = Msg("call", r, n, {<<r, n, "plain">>}, {}) /\ q = Msg("return", r, n, {<<r, n, "plain">>}, {})
    OBVIOUS
  <2>2. w = <<p, q>> /\ p.kind # "request" /\ q.kind # "request"
    BY <1>6, <2>1 DEF NewMessages, Msg
  <2> QED
    BY <2>2 DEF Elements
<1>7. CASE reply = "gated"
  <2>1. w = <<u>>
    BY <1>3, <1>7 DEF NewMessages
  <2>2. Elements(w) = {u} /\ Len(w) = 1 /\ w[1] = u
    BY <2>1 DEF Elements
  <2>3. Last(w) = u
    BY <2>2 DEF Last
  <2>4. m \in Elements(w)
    OBVIOUS
  <2> HIDE DEF w
  <2>5. Last(s \o w) = Last(w)
    <3>1. Len(w) > 0
      BY <2>2
    <3> QED
      BY <1>1, <3>1, LastOfJoin
  <2> QED
    BY <2>2, <2>3, <2>4, <2>5 DEF w
<1>8. CASE reply = "mixed"
  <2>1. PICK p : p = Msg("call", r, n, {<<r, n, "plain">>}, {})
    OBVIOUS
  <2>2. w = <<p, u>> /\ p.kind # "request"
    BY <1>3, <1>8, <2>1 DEF NewMessages, Msg
  <2>3. Elements(w) = {p, u} /\ Len(w) = 2 /\ w[2] = u
    BY <2>2 DEF Elements
  <2>4. Last(w) = u
    BY <2>3 DEF Last
  <2>5. m \in Elements(w)
    OBVIOUS
  <2> HIDE DEF w
  <2>6. Last(s \o w) = Last(w)
    BY <1>1, <2>3, LastOfJoin
  <2> QED
    BY <2>2, <2>3, <2>4, <2>5, <2>6 DEF w
<1> QED
  BY <1>2, <1>4, <1>5, <1>6, <1>7, <1>8 DEF Reply

(* The model replies where nothing waits.                                   *)
LEMMA HistoryReplies ==
  ASSUME NEW r \in Req, Guarded, Inv, History, ModelReplies(r)
  PROVE  HistoryStep(r)
<1>1. PICK reply \in Replies :
        /\ loop[r].at = "llm" /\ UNCHANGED <<ctx, rows>>
        /\ loop'[r].at = "save" /\ loop'[r].msgs = loop[r].msgs /\ loop'[r].input = loop[r].input
        /\ loop'[r].new = NewMessages(r, reply)
        /\ \A q \in Req : q # r => loop'[q] = loop[q]
  BY ReplyStored
<1>2. UNCHANGED canc
  BY DEF ModelReplies
<1>3. Good(loop[r].msgs) /\ Closed(loop[r].msgs) /\ loop[r].n \in 1 .. MaxSteps
  BY <1>1, LoopOf DEF LoopOK
<1>4. LoopKeeps(r, loop[r], rows) /\ Owns(r, loop[r])
  BY HistoryOf
<1>5. WaitingOn(ThreadOf[r], rows) = {}
  BY <1>1, <1>4 DEF LoopKeeps, Rests
<1> DEFINE s == loop[r].msgs
           w == NewMessages(r, reply)
<1>6. Good(s) /\ Closed(s)
  BY <1>3
<1>7. loop'[r].msgs \o loop'[r].new = s \o w /\ loop'[r].new = w
  BY <1>1
<1> HIDE DEF s
<1>8. \A m \in Elements(w) : m.run = r
  <2>1. \A m \in Elements(w) : m.run = r /\ m.calls \subseteq StepCalls(r, loop[r].n)
    BY <1>3, <1>6, Replied
  <2> QED
    BY <2>1
<1>9. \A m \in Elements(w) : m.kind = "request" => m = Last(s \o w)
  BY <1>3, <1>6, ReplyOwned
<1> HIDE DEF w
<1>10. Owns(r, loop'[r])
  BY <1>1, <1>4, <1>7, <1>8, <1>9 DEF Owns
<1>11. LoopKeeps(r, loop'[r], rows)
  BY <1>1, <1>4, <1>5, <1>10 DEF LoopKeeps, InputKept
<1> QED
  BY <1>1, <1>2, <1>11, HistoryQuiet

(* A compaction keeps the request the thread waits on last; its summary     *)
(* stands for the rest.                                                     *)
LEMMA HistoryCompaction ==
  ASSUME NEW r \in Req, Guarded, "save" \notin Faults, Inv, Turns, History, UNCHANGED canc,
         NEW back, Compacts(r, back), <<loop[r].at, back>> \in {<<"llm", "llm">>, <<"compact", "next">>}
  PROVE  HistoryStep(r)
<1>1. \/ loop[r].at = "llm" /\ back = "llm"
      \/ loop[r].at = "compact" /\ back = "next"
  OBVIOUS
<1>2. \A q \in Req : q # r => loop'[q] = loop[q]
  BY DEF Compacts
<1>3. CASE loop'[r].at = "done" /\ UNCHANGED <<ctx, rows>>
  <2>1. LoopKeeps(r, loop'[r], rows)
    BY <1>3, KeepsIdle
  <2> QED
    BY <1>2, <1>3, <2>1, HistoryQuiet
<1>4. ASSUME loop'[r].at = back, rows' = rows \o <<Summary(r)>>,
             NEW c \in Compacted(r, loop[r].msgs), loop'[r].msgs = c,
             ctx' = [ctx EXCEPT ![ThreadOf[r]] = c]
      PROVE  HistoryStep(r)
  <2> DEFINE T == ThreadOf[r]
             g == loop[r].msgs
             u == Summary(r)
  <2>1. Good(g) /\ loop[r].resp \in Log /\ (loop[r].at = "llm" => Closed(g) /\ UserInput(r, loop[r]))
    BY <1>1, LoopOf DEF LoopOK
  <2>2. (Closed(g) <=> Closed(c)) /\ (~Closed(g) => Last(c) = Last(g)) /\ u \in Elements(c)
    BY <1>4, <2>1, CompactedContext
  <2>3. u \in Message /\ u.kind = "summary" /\ u.run = r
    BY <2>1, SummaryOf
  <2>4. LoopKeeps(r, loop[r], rows) /\ Owns(r, loop[r]) /\ T \in Thread \ {Default}
    BY HistoryOf
  <2>5. rows \in Log /\ ctx \in [Thread -> Log] /\ Exclusive
    BY DEF Inv, Types, Turns
  <2>6. loop'[r].input = loop[r].input
    BY DEF Compacts
  <2> HIDE DEF u, g
  <2>7. PICK w \in Log : w = <<u>> /\ Elements(w) = {u}
    BY <2>3, OneElement DEF Log
  <2>8. rows' = rows \o w
    BY <1>4, <2>7 DEF u
  <2>9. WaitingOn(T, rows') \subseteq WaitingOn(T, rows)
    BY <2>3, <2>5, <2>7, <2>8, WaitingAfter
  <2>10. KeptIn(c, T, rows')
    BY <2>2, <2>3, <2>5, <2>7, <2>8, KeptBySummary
  <2>11. ASSUME NEW q \in WaitingOn(T, rows')
         PROVE  loop[r].at = "compact" /\ Last(c) = q
    <3>1. q \in WaitingOn(T, rows) /\ Rests(loop[r], q) /\ q.kind = "request"
      BY <2>4, <2>9 DEF LoopKeeps, WaitingOn, Unanswered
    <3>2. loop[r].at = "compact" /\ Last(g) = q
      BY <1>1, <3>1 DEF Rests, g
    <3> QED
      BY <2>2, <3>1, <3>2 DEF Closed
  <2>12. ctx'[T] = c /\ \A t \in Thread : t # T => ctx'[t] = ctx[t]
    BY <1>4, <2>4, <2>5
  <2>13. ThreadKeeps(T, ctx'[T], rows')
    BY <2>10, <2>11, <2>12 DEF ThreadKeeps
  <2>14. LoopKeeps(r, loop'[r], rows')
    <3>1. CASE loop[r].at = "llm"
      <4>1. loop'[r].at = "llm" /\ WaitingOn(T, rows') = {}
        BY <1>1, <1>4, <2>11, <3>1
      <4>2. \A m \in Elements(loop'[r].input) : m.kind = "user"
        BY <2>1, <2>6, <3>1 DEF UserInput
      <4>3. InputKept(loop'[r])
        BY <1>4, <2>2, <2>3, <4>2 DEF InputKept
      <4>4. Owns(r, loop'[r])
        BY <2>4, <2>6, <3>1, <4>1 DEF Owns
      <4> QED
        BY <1>4, <2>10, <4>1, <4>3, <4>4 DEF LoopKeeps
    <3>2. CASE loop[r].at = "compact"
      <4>1. loop'[r].at = "next"
        BY <1>1, <1>4, <3>2
      <4> QED
        BY <1>4, <2>10, <2>11, <4>1 DEF LoopKeeps, Owns, Rests
    <3> QED
      BY <1>1, <3>1, <3>2
  <2>15. \A q \in Req \ {r} : ThreadOf[q] = ThreadOf[r] => ~Active(q)
    <3>1. Active(r)
      BY <1>1 DEF Active
    <3> QED
      BY <2>5, <3>1, Alone
  <2> QED
    BY <1>2, <2>3, <2>7, <2>8, <2>12, <2>13, <2>14, <2>15 DEF HistoryStep
<1> QED
  BY <1>3, <1>4 DEF Compacts

(* A checkpoint stores the results, or the request, of the step.            *)
LEMMA HistorySave ==
  ASSUME NEW r \in Req, Guarded, Inv, Turns, History, Save(r)
  PROVE  HistoryStep(r)
<1> DEFINE g == loop[r].msgs
           v == loop[r].input
           w == loop[r].new
           T == ThreadOf[r]
<1>1. PICK s : s = g \o w
  OBVIOUS
<1>2. /\ loop[r].at = "save"
      /\ loop'[r].at \in {"next", "compact"} /\ loop'[r].msgs = s
      /\ \A q \in Req : q # r => loop'[q] = loop[q]
      /\ rows' = rows \o (v \o w)
      /\ ctx' = [ctx EXCEPT ![T] = s]
  BY <1>1, Saved
<1>3. UNCHANGED canc
  BY DEF Save
<1>4. g \in Seq(Message) /\ v \in Seq(Message) /\ w \in Seq(Message)
  BY LoopOf DEF Log
<1>5. LoopKeeps(r, loop[r], rows) /\ Owns(r, loop[r]) /\ T \in Thread \ {Default}
  BY HistoryOf
<1>6. Elements(g) \subseteq Elements(rows) \cup Elements(v)
  BY <1>2, LoopOf DEF LoopOK
<1>7. rows \in Log /\ ctx \in [Thread -> Log] /\ Exclusive
  BY DEF Inv, Types, Turns
<1>8. /\ \A m \in Elements(v) : m.run = r /\ m.kind \in {"user", "response"}
      /\ \A m \in Elements(w) : m.run = r /\ (m.kind = "request" => m = Last(s))
  BY <1>1, <1>2, <1>5 DEF Owns
<1>9. KeptIn(g, T, rows) /\ InputKept(loop[r])
  BY <1>2, <1>5 DEF LoopKeeps
<1>10. \A q \in WaitingOn(T, rows) : \E m \in Elements(w) : m.kind = "return" /\ q.calls \subseteq m.calls
  BY <1>2, <1>5 DEF LoopKeeps, Rests
<1>11. \A m \in Elements(v) : m \in Elements(g) \/ (m.kind = "user" /\ \E u \in Elements(g) : u.kind = "summary")
  BY <1>9 DEF InputKept
<1> HIDE DEF g, v, w, T
<1>12. v \o w \in Log /\ Elements(v \o w) = Elements(v) \cup Elements(w)
  BY <1>4, ElementsOfJoin DEF Log
<1>13. s \in Seq(Message) /\ Elements(s) = Elements(g) \cup Elements(w)
  BY <1>1, <1>4, ElementsOfJoin
<1>14. PICK x \in Log : x = v \o w
  BY <1>12
<1>15. rows' = rows \o x /\ Elements(x) = Elements(v) \cup Elements(w)
  BY <1>2, <1>12, <1>14
<1>16. ASSUME NEW q \in WaitingOn(T, rows')
       PROVE  Last(s) = q
  <2>1. \A m \in Elements(x) : m.kind = "return" => ~(q.calls \subseteq m.calls)
    BY <1>7, <1>15, WaitingAfter
  <2>2. q \notin WaitingOn(T, rows)
    BY <1>10, <1>15, <2>1
  <2>3. q \in Elements(x) /\ q.kind = "request"
    BY <1>7, <1>15, <2>2, WaitingAfter
  <2> QED
    BY <1>8, <1>15, <2>3
<1>17. KeptIn(s, T, rows')
  <2>1. \A m \in Elements(g) : m \in Elements(rows) => m \in Elements(s)
    BY <1>13
  <2>2. ASSUME NEW m \in Elements(x), m \notin Elements(s)
        PROVE  m.kind = "user" /\ \E u \in Elements(s) : u \in Elements(rows) /\ u.kind = "summary"
    <3>1. m \in Elements(v) /\ m \notin Elements(g)
      BY <1>13, <1>15, <2>2
    <3>2. PICK u \in Elements(g) : m.kind = "user" /\ u.kind = "summary"
      BY <1>11, <3>1
    <3>3. u \in Elements(rows)
      BY <1>6, <1>8, <3>2
    <3> QED
      BY <1>13, <3>2, <3>3
  <2> QED
    BY <1>7, <1>9, <1>15, <2>1, <2>2, KeptAfter
<1>18. ctx'[T] = s /\ \A t \in Thread : t # T => ctx'[t] = ctx[t]
  BY <1>2, <1>5, <1>7
<1>19. ThreadKeeps(T, ctx'[T], rows')
  BY <1>16, <1>17, <1>18 DEF ThreadKeeps
<1>20. LoopKeeps(r, loop'[r], rows')
  BY <1>2, <1>16, <1>17 DEF LoopKeeps, Owns, Rests, T
<1>21. \A q \in Req \ {r} : ThreadOf[q] = ThreadOf[r] => ~Active(q)
  <2>1. Active(r)
    BY <1>2 DEF Active
  <2> QED
    BY <1>7, <2>1, Alone
<1> QED
  BY <1>2, <1>3, <1>8, <1>15, <1>18, <1>19, <1>20, <1>21 DEF HistoryStep, T

(* Between two steps the context stays as it was stored.                    *)
LEMMA HistoryNextStep ==
  ASSUME NEW r \in Req, Guarded, Inv, History, NextStep(r)
  PROVE  HistoryStep(r)
<1>1. loop[r].at = "next" /\ UNCHANGED <<ctx, rows, canc>>
  BY DEF NextStep
<1>2. CASE \E stop : Finish(r, stop)
  BY <1>1, <1>2, HistoryFinish
<1>3. CASE ~\E stop : Finish(r, stop)
  <2>1. /\ loop'[r].at = "step" /\ loop'[r].msgs = loop[r].msgs
        /\ \A m \in Elements(loop'[r].input) : m.run = r /\ m.kind = "user"
        /\ \A q \in Req : q # r => loop'[q] = loop[q]
    BY <1>3, Proceeds
  <2>2. LoopKeeps(r, loop[r], rows)
    BY HistoryOf
  <2>3. LoopKeeps(r, loop'[r], rows)
    BY <1>1, <2>1, <2>2 DEF LoopKeeps, Owns, Rests
  <2> QED
    BY <1>1, <2>1, <2>3, HistoryQuiet
<1> QED
  BY <1>2, <1>3

(* Every step of a loop keeps the history.                                  *)
LEMMA HistoryLoop ==
  ASSUME NEW r \in Req, Guarded, "save" \notin Faults, Inv, Turns, History, Loop(r)
  PROVE  History'
<1>1. UNCHANGED canc
  BY DEF Loop, LoadAgent, Refused, Prepare, AnswerStep, SeeCancel, AskModel, ModelReplies, ModelFails,
     Overflow, Save, SaveFails, CompactAfterStep, NextStep, Abandoned, Crash
<1>2. ASSUME NEW stop, Finish(r, stop), UNCHANGED <<ctx, rows>>
      PROVE  HistoryStep(r)
  BY <1>1, <1>2, HistoryFinish
<1>3. HistoryStep(r)
  <2>1. CASE LoadAgent(r)
    BY <2>1, HistoryLoadAgent
  <2>2. CASE Refused(r)
    BY <1>2, <2>2 DEF Refused
  <2>3. CASE Prepare(r)
    BY <2>3, HistoryPrepare
  <2>4. CASE AnswerStep(r)
    BY <2>4, HistoryAnswer
  <2>5. CASE SeeCancel(r)
    BY <1>2, <2>5 DEF SeeCancel
  <2>6. CASE AskModel(r)
    BY <2>6, HistoryAskModel
  <2>7. CASE ModelReplies(r)
    BY <2>7, HistoryReplies
  <2>8. CASE ModelFails(r)
    BY <1>2, <2>8 DEF ModelFails
  <2>9. CASE Overflow(r)
    BY <1>1, <2>9, OverflowCompacts, HistoryCompaction
  <2>10. CASE Save(r)
    BY <2>10, HistorySave
  <2>11. CASE SaveFails(r)
    BY <2>11 DEF SaveFails, CheckpointFails
  <2>12. CASE CompactAfterStep(r)
    BY <1>1, <2>12, CompactAfterStepCompacts, HistoryCompaction
  <2>13. CASE NextStep(r)
    BY <2>13, HistoryNextStep
  <2>14. CASE Abandoned(r)
    BY <1>2, <2>14 DEF Abandoned
  <2>15. CASE Crash(r)
    BY <1>2, <2>15 DEF Crash
  <2> QED
    BY <2>1, <2>2, <2>3, <2>4, <2>5, <2>6, <2>7, <2>8, <2>9, <2>10, <2>11, <2>12, <2>13, <2>14, <2>15 DEF Loop
<1> QED
  BY <1>3, HistoryStepInv

(* A loop writes the context of its own conversation.                       *)
LEMMA ApartLoop ==
  ASSUME NEW r \in Req, Guarded, Inv, Apart, Loop(r)
  PROVE  Apart'
<1>1. UNCHANGED canc /\ (ctx' = ctx \/ \E s : ctx' = [ctx EXCEPT ![ThreadOf[r]] = s])
  BY LoopSteps DEF LoopStep
<1>2. ctx'[Default] = ctx[Default]
  BY <1>1, LoopAssumption DEF Guarded, Inv, Types
<1> QED
  BY <1>1, <1>2 DEF Apart

(* A cancellation finds no request to deny.                                 *)
LEMMA ApartCancellation ==
  ASSUME NEW r \in Req, Inv, Apart, Cancellation(r)
  PROVE  Apart' /\ UNCHANGED <<ctx, rows, loop>>
<1>1. canc[r].at # "deny" /\ (canc[r].at = "write" => Closed(canc[r].msgs)) /\ Closed(ctx[Default])
  BY DEF Apart
<1>2. CancelReads(r) \/ CancelWrites(r)
  BY <1>1 DEF Cancellation, CancelDenies
<1>3. UNCHANGED <<ctx, rows, loop>>
  BY <1>2 DEF CancelReads, CancelWrites
<1>4. canc \in [Req -> [at : CancelPoint, msgs : Log]]
  BY DEF Inv, Types
<1>5. /\ \A q \in Req : q # r => canc'[q] = canc[q]
      /\ canc'[r].at # "deny" /\ (canc'[r].at = "write" => Closed(canc'[r].msgs))
  <2>1. CASE CancelReads(r)
    <3>1. /\ Good(ctx[Default]) /\ System \in Elements(rows)
          /\ \A m \in Elements(ctx[Default]) : m \in Elements(rows) \/ m.kind = "user"
      BY LoopAssumption DEF Inv, Contexts, Types, UnsavedBy
    <3>2. Closed(Stored(ctx[Default]))
      BY <1>1, <3>1, StoredContext
    <3>3. canc' = [canc EXCEPT ![r] = [at |-> "write", msgs |-> Stored(ctx[Default])]]
      BY <2>1 DEF CancelReads
    <3> QED
      BY <1>4, <3>2, <3>3
  <2>2. CASE CancelWrites(r)
    <3>1. canc[r].at = "write" /\ Last(canc[r].msgs).kind # "request"
      BY <1>1, <2>2 DEF CancelWrites, Closed
    <3>2. canc' = [canc EXCEPT ![r].at = "done"]
      BY <2>2, <3>1 DEF CancelWrites
    <3> QED
      BY <1>4, <3>2
  <2> QED
    BY <1>2, <2>1, <2>2
<1> QED
  BY <1>1, <1>3, <1>5 DEF Apart

(* Nobody writes the agent's own thread.                                    *)
LEMMA ApartHolds ==
  ASSUME Guarded
  PROVE  Spec => []Apart
<1>1. Init => Apart
  <2>1. System.kind = "system"
    BY DEF System, Plain, Msg
  <2> QED
    BY <2>1, LoopAssumption DEF Init, Apart, Closed, Last
<1>2. Inv /\ Apart /\ [Next]_vars => Apart'
  <2>1. ASSUME Inv, Apart, Next
        PROVE  Apart'
    BY <2>1, ApartLoop, ApartCancellation DEF Next
  <2>2. ASSUME Apart, UNCHANGED vars
        PROVE  Apart'
    BY <2>2 DEF vars, Apart
  <2> QED
    BY <2>1, <2>2
<1> QED
  BY <1>1, <1>2, InvHolds, PTL DEF Spec

(* A cancellation leaves the history alone.                                 *)
LEMMA HistoryCancellation ==
  ASSUME NEW r \in Req, Inv, History, Cancellation(r)
  PROVE  History'
<1>1. Apart' /\ UNCHANGED <<ctx, rows, loop>>
  BY ApartCancellation DEF History
<1> QED
  BY <1>1 DEF History, RunsKnown

(* The initial states.                                                      *)
LEMMA InitHistory ==
  ASSUME Guarded, Init
  PROVE  History
<1>1. Elements(<<System>>) = {System} /\ System.kind = "system" /\ System.run = NoRun
  BY DEF Elements, System, Plain, Msg
<1>2. rows = <<System>> /\ Last(<<System>>) = System /\ \A t \in Thread : ctx[t] = <<System>>
  BY DEF Init, Last
<1>3. Apart
  BY <1>1, <1>2, LoopAssumption DEF Init, Apart, Closed
<1>4. RunsKnown
  BY <1>1, <1>2 DEF RunsKnown
<1>5. \A t \in Thread : ThreadKeeps(t, ctx[t], rows)
  <2>1. Unanswered(<<System>>) = {}
    BY <1>1 DEF Unanswered
  <2>2. \A t : KeptIn(<<System>>, t, <<System>>)
    BY DEF KeptIn, Elements
  <2> QED
    BY <1>2, <2>1, <2>2 DEF ThreadKeeps, WaitingOn
<1>6. \A r \in Req : loop[r].at = "idle"
  BY DEF Init
<1>7. \A r \in Req : LoopKeeps(r, loop[r], rows)
  BY <1>6, KeepsIdle
<1> QED
  BY <1>3, <1>4, <1>5, <1>7 DEF History

(* The history is in order in every reachable state.                        *)
LEMMA HistoryHolds ==
  ASSUME Guarded, "save" \notin Faults
  PROVE  Spec => []History
<1>1. Init => History
  BY InitHistory
<1>2. Inv /\ Turns /\ History /\ [Next]_vars => History'
  <2>1. ASSUME Inv, Turns, History, Next
        PROVE  History'
    BY <2>1, HistoryLoop, HistoryCancellation DEF Next
  <2>2. ASSUME History, UNCHANGED vars
        PROVE  History'
    BY <2>2 DEF vars, History, Apart, RunsKnown
  <2> QED
    BY <2>1, <2>2
<1> QED
  BY <1>1, <1>2, InvHolds, TurnsHold, PTL DEF Spec

(* An approval request that nobody answered stays the last message of its   *)
(* conversation, over refused messages, compactions and crashes, as long as *)
(* a checkpoint stores both the rows and the context.                       *)
THEOREM UnansweredIsLast ==
  ASSUME Guarded, "save" \notin Faults
  PROVE  Spec => []UnansweredStaysLast
<1>1. ASSUME History
      PROVE  UnansweredStaysLast
  <2>1. ASSUME NEW q \in Elements(rows), q.kind = "request", ThreadOf[q.run] # Default,
               \A m \in Elements(rows) : m.kind = "return" => ~(q.calls \subseteq m.calls)
        PROVE  Last(ctx[ThreadOf[q.run]]) = q
    <3>1. q.run \in Req
      BY <1>1, <2>1, MessageParts DEF History, RunsKnown
    <3>2. ThreadOf[q.run] \in Thread \ {Default}
      BY <2>1, <3>1, LoopAssumption
    <3>3. q \in WaitingOn(ThreadOf[q.run], rows)
      BY <2>1 DEF WaitingOn, Unanswered
    <3> QED
      BY <1>1, <3>2, <3>3 DEF History, ThreadKeeps
  <2> QED
    BY <2>1 DEF UnansweredStaysLast
<1> QED
  BY <1>1, HistoryHolds, PTL

(* A message a conversation's loop stored stays in its context until a      *)
(* later summary stands for it: no loop writes back a context from before   *)
(* what another one stored.                                                 *)
THEOREM HistoryStays ==
  ASSUME Guarded, "save" \notin Faults
  PROVE  Spec => []HistoryIsKept
<1>1. ASSUME Inv, History
      PROVE  HistoryIsKept
  <2>1. ASSUME NEW i \in DOMAIN rows, rows[i].run # NoRun, ThreadOf[rows[i].run] # Default,
               rows[i] \notin Elements(ctx[ThreadOf[rows[i].run]])
        PROVE  \E j \in DOMAIN rows :
                 /\ rows[j].kind = "summary" /\ rows[j] \in Elements(ctx[ThreadOf[rows[i].run]])
                 /\ j > i \/ rows[i].kind = "user"
    <3>1. rows[i].run \in Req
      <4>1. rows[i] \in Elements(rows)
        BY DEF Elements
      <4>2. System.run = NoRun
        BY DEF System, Plain, Msg
      <4> QED
        BY <1>1, <2>1, <4>1, <4>2 DEF History, RunsKnown
    <3>2. ThreadOf[rows[i].run] \in Thread \ {Default}
      BY <2>1, <3>1, LoopAssumption
    <3>3. KeptIn(ctx[ThreadOf[rows[i].run]], ThreadOf[rows[i].run], rows)
      BY <1>1, <3>2 DEF History, ThreadKeeps
    <3> QED
      BY <2>1, <3>1, <3>3 DEF KeptIn
  <2> QED
    BY <2>1 DEF HistoryIsKept
<1> QED
  BY <1>1, InvHolds, HistoryHolds, PTL
=============================================================================
