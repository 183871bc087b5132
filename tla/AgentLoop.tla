----------------------------- MODULE AgentLoop -----------------------------
(***************************************************************************)
(* The agent's step loop (letta_agent_v3) and what it does to the context  *)
(* of a thread: the agent's own message_ids (Default) or the in-context    *)
(* messages of a conversation.  Requests that hold the thread's lock       *)
(* exclude each other; a cancellation takes no lock and works on Default.  *)
(*                                                                         *)
(* Every writer replaces the whole context by the one it holds in memory.  *)
(* A message is identified by its kind, the run and step that made it and  *)
(* the tool calls it is about; its text is left out.                       *)
(***************************************************************************)
EXTENDS Naturals, Sequences, FiniteSets, Places

CONSTANTS
  Req,       \* requests, each identified with its run
  Thread,    \* conversations, and Default
  Default,   \* the agent's own thread
  ThreadOf,  \* [Req -> Thread]
  InputOf,   \* [Req -> {"message", "approval"}]
  FollowUps, \* approval requests that carry a user message as well
  Locked,    \* requests whose endpoint takes the thread's lock
  MayCancel, \* runs a user may cancel
  MayCrash,  \* requests whose server process may stop
  Replies,   \* what the model may answer
  Modes,     \* compaction modes, {} when the context window is never full
  Faults,    \* what may fail
  MaxSteps,  \* max_steps of every request
  MaxTries   \* max_summarizer_retries

Reply == {"text", "noop", "nudge", "tool", "terminal", "gated", "mixed"}
Verdict == {"approve", "deny", "return"}
Fault == {"llm", "save", "credits"}

ASSUME LoopAssumption ==
  /\ IsFiniteSet(Req)
  /\ Default \in Thread
  /\ ThreadOf \in [Req -> Thread]
  /\ InputOf \in [Req -> {"message", "approval"}]
  /\ FollowUps \subseteq Req
  /\ Locked \subseteq Req
  /\ MayCancel \subseteq Req
  /\ MayCrash \subseteq Req
  /\ Replies \subseteq Reply
  /\ Modes \subseteq {"all", "sliding"}
  /\ Faults \subseteq Fault
  /\ MaxSteps \in Nat \ {0}
  /\ MaxTries \in Nat

VARIABLES
  ctx,       \* [Thread -> the messages in context, as the database lists them]
  rows,      \* the messages table, in the order the rows were created
  ran,       \* [Call -> how often the server executed the call]
  loop,      \* [Req -> state of its agent loop]
  cancelled, \* runs whose row is cancelled
  canc       \* [Req -> state of the cancellation of its run]

vars == <<ctx, rows, ran, loop, cancelled, canc>>

-----------------------------------------------------------------------------
(* Messages *)

Gate == {"plain", "gated"}  \* gated: requires approval or runs in the client
Call == Req \X (1 .. MaxSteps) \X Gate
Kind == {"system", "summary", "user", "nudge", "text", "call", "return", "request", "response"}
NoRun == "no_run"

Msg(kind, r, n, calls, denied) ==
  [kind |-> kind, run |-> r, n |-> n, calls |-> calls, denied |-> denied]
Plain(kind, r, n) == Msg(kind, r, n, {}, {})
System == Plain("system", NoRun, 0)

Message == [kind : Kind, run : Req \cup {NoRun}, n : Nat,
            calls : SUBSET Call, denied : SUBSET Call]
IsContext(s) == Len(s) > 0 /\ \A i \in DOMAIN s : s[i] \in Message
Elements(s) == {s[i] : i \in DOMAIN s}
Last(s) == s[Len(s)]
LastKind(s) == IF s = <<>> THEN "none" ELSE Last(s).kind

LoopPoint == {"idle", "loaded", "step", "llm", "save", "compact", "next", "done"}
Stop == {"none", "end_turn", "tool_rule", "requires_approval", "max_steps", "cancelled",
         "insufficient_credits", "llm_api_error", "error", "busy", "crashed"}

TypeOK ==
  /\ \A t \in Thread : IsContext(ctx[t])
  /\ Elements(rows) \subseteq Message
  /\ \A c \in Call : ran[c] \in 0 .. Cardinality(Req)
  /\ \A r \in Req :
       /\ loop[r].at \in LoopPoint
       /\ loop[r].n \in 1 .. MaxSteps
       /\ loop[r].tries \in 0 .. MaxTries
       /\ loop[r].stop \in Stop
       /\ loop[r].go \in BOOLEAN
       /\ loop[r].target \subseteq Call
       /\ Elements(loop[r].msgs \o loop[r].input \o loop[r].new \o loop[r].resp) \subseteq Message
       /\ canc[r].at \in {"idle", "write", "deny", "done"}
  /\ cancelled \subseteq MayCancel

Init ==
  /\ ctx = [t \in Thread |-> <<System>>]
  /\ rows = <<System>>
  /\ ran = [c \in Call |-> 0]
  /\ loop = [r \in Req |->
              [at |-> "idle", snap |-> <<>>, msgs |-> <<>>, input |-> <<>>, new |-> <<>>,
               resp |-> <<>>, follow |-> FALSE, target |-> {}, verdict |-> "approve",
               n |-> 1, tries |-> 0, stop |-> "none", go |-> TRUE]]
  /\ cancelled = {}
  /\ canc = [r \in Req |-> [at |-> "idle", msgs |-> <<>>]]

Upd(r, f) == loop' = [loop EXCEPT ![r] = f]
Finish(r, stop) == Upd(r, [loop[r] EXCEPT !.at = "done", !.stop = stop])
(* Leave the loop with the stop reason already set, or with an error.       *)
FinishSwallowing(r) == Finish(r, IF loop[r].stop = "none" THEN "error" ELSE loop[r].stop)

Active(r) == loop[r].at \notin {"idle", "loaded", "done"}

-----------------------------------------------------------------------------
(* The endpoint and _prepare_in_context_messages_no_persist_async.          *)

(* The endpoint loads the agent, and with it message_ids, before the lock;  *)
(* a client answers an approval request it was shown.                       *)
LoadAgent(r) ==
  /\ loop[r].at = "idle"
  /\ LET here == [loop[r] EXCEPT !.at = "loaded", !.snap = ctx[ThreadOf[r]]]
     IN \/ InputOf[r] = "message" /\ Upd(r, here)
        \/ /\ InputOf[r] = "approval"
           /\ \E q \in Elements(rows), v \in Verdict :
                /\ q.kind = "request"
                /\ ThreadOf[q.run] = ThreadOf[r]
                /\ Upd(r, [here EXCEPT !.target = q.calls, !.verdict = v])
  /\ UNCHANGED <<ctx, rows, ran, cancelled, canc>>

\* Mutant of LockFree: the lock does not exclude another request.
LockFree_Always(r) == TRUE

LockFree(r) ==
  r \in Locked => \A q \in Locked \ {r} : ThreadOf[q] = ThreadOf[r] => ~Active(q)

Refused(r) ==
  /\ loop[r].at = "loaded"
  /\ ~LockFree(r)
  /\ Finish(r, "busy")
  /\ UNCHANGED <<ctx, rows, ran, cancelled, canc>>

(* get_messages_by_ids_async: ids without a row are skipped.                *)
Stored(s) == ElementsAt(s, {i \in DOMAIN s : s[i] \in Elements(rows)})

\* Mutant of Seen: conversations too use the context loaded before the lock.
Seen_Stale(r) == Stored(loop[r].snap)

(* Default uses the ids loaded with the agent, a conversation reads them    *)
(* now.                                                                     *)
Seen(r) == Stored(IF ThreadOf[r] = Default THEN loop[r].snap ELSE ctx[ThreadOf[r]])

Denied(r) == IF loop[r].verdict = "deny" THEN loop[r].target ELSE {}

Recent == 10  \* messages the idempotency check looks back

(* A recent tool message answers exactly the calls of this approval; right  *)
(* after a compaction the agent's latest tool message is asked instead.     *)
AlreadyProcessed(r, s) ==
  LET IsReturn(m) == m.kind = "return"
      Answers(m) == IsReturn(m) /\ m.calls = loop[r].target
  IN \/ \E i \in DOMAIN s : i > Len(s) - Recent /\ Answers(s[i])
     \/ /\ \A i \in DOMAIN s : s[i].kind \in {"system", "summary"}
        /\ \E i \in DOMAIN rows :
             Answers(rows[i]) /\ \A j \in DOMAIN rows : j > i => ~IsReturn(rows[j])

Begin(r, seen, input, follow) ==
  Upd(r, [loop[r] EXCEPT !.at = "step", !.msgs = seen, !.input = input, !.follow = follow])

PrepareMessage(r) ==
  /\ InputOf[r] = "message"
  /\ IF LastKind(Seen(r)) = "request"
     THEN Finish(r, "error")
     ELSE Begin(r, Seen(r), <<Plain("user", r, 1)>>, FALSE)

(* An approval answers the pending request with the same calls; one that    *)
(* was processed already becomes its follow-up or a keep-alive message.     *)
PrepareApproval(r) ==
  LET seen == Seen(r)
  IN /\ InputOf[r] = "approval"
     /\ IF LastKind(seen) \in {"request", "response"}
        THEN IF Last(seen).kind = "request" /\ Last(seen).calls = loop[r].target
             THEN Begin(r, seen, <<Msg("response", r, 1, loop[r].target, Denied(r))>>, r \in FollowUps)
             ELSE Finish(r, "error")
        ELSE IF AlreadyProcessed(r, seen)
             THEN Begin(r, seen, <<Plain("user", r, 1)>>, FALSE)
             ELSE Finish(r, "error")

Prepare(r) ==
  /\ loop[r].at = "loaded"
  /\ LockFree(r)
  /\ PrepareMessage(r) \/ PrepareApproval(r)
  /\ UNCHANGED <<ctx, rows, ran, cancelled, canc>>

-----------------------------------------------------------------------------
(* _step *)

Current(r) == loop[r].msgs \o loop[r].input

Answering(r) ==
  LET s == Current(r)
  IN Len(s) >= 2 /\ s[Len(s) - 1].kind = "request" /\ Last(s).kind = "response"

(* Calls of the same reply that needed no approval: the assistant message   *)
(* before the request.                                                      *)
PendingPlain(s, i) == IF i > 1 /\ s[i - 1].kind = "call" THEN s[i - 1].calls ELSE {}

Execute(calls) == ran' = [c \in Call |-> IF c \in calls THEN ran[c] + 1 ELSE ran[c]]

\* Mutant of AnswerStep: denied calls are dropped instead of answered.
AnswerStep_DropsDenied(r) ==
  LET s == Current(r)
      pending == PendingPlain(s, Len(s) - 1)
      approved == IF loop[r].verdict = "approve" THEN loop[r].target ELSE {}
      result == Msg("return", r, loop[r].n, pending \cup (loop[r].target \ Denied(r)), {})
  IN /\ loop[r].at = "step"
     /\ Answering(r)
     /\ Execute(approved \cup pending)
     /\ Upd(r, [loop[r] EXCEPT !.at = "save", !.msgs = s, !.new = <<result>>,
                               !.resp = Append(@, result), !.go = TRUE])
     /\ UNCHANGED <<ctx, rows, cancelled, canc>>

(* An answered approval: run what was approved together with the pending    *)
(* plain calls, and answer every call in one tool message.  A single        *)
(* approved tool may be terminal.                                           *)
AnswerStep(r) ==
  LET s == Current(r)
      pending == PendingPlain(s, Len(s) - 1)
      approved == IF loop[r].verdict = "approve" THEN loop[r].target ELSE {}
      result == Msg("return", r, loop[r].n, pending \cup loop[r].target, Denied(r))
      here == [loop[r] EXCEPT !.at = "save", !.msgs = s, !.new = <<result>>,
                              !.resp = Append(@, result)]
  IN /\ loop[r].at = "step"
     /\ Answering(r)
     /\ Execute(approved \cup pending)
     /\ \/ Upd(r, [here EXCEPT !.go = TRUE])
        \/ /\ pending = {} /\ approved # {}
           /\ Upd(r, [here EXCEPT !.go = FALSE, !.stop = "tool_rule"])
     /\ UNCHANGED <<ctx, rows, cancelled, canc>>

(* Every other step first looks whether its run was cancelled.              *)
SeeCancel(r) ==
  /\ loop[r].at = "step"
  /\ ~Answering(r)
  /\ r \in cancelled
  /\ Finish(r, "cancelled")
  /\ UNCHANGED <<ctx, rows, ran, cancelled, canc>>

AskModel(r) ==
  /\ loop[r].at = "step"
  /\ ~Answering(r)
  /\ r \notin cancelled
  /\ Upd(r, [loop[r] EXCEPT !.at = "llm", !.msgs = Current(r), !.tries = 0])
  /\ UNCHANGED <<ctx, rows, ran, cancelled, canc>>

(* _handle_ai_response: the new messages of a reply.  nudge: the model      *)
(* called nothing while tools are still required before exit.               *)
NewMessages(r, reply) ==
  LET n == loop[r].n
      plain == {<<r, n, "plain">>}
      gated == {<<r, n, "gated">>}
  IN CASE reply = "text"  -> <<Plain("text", r, n)>>
       [] reply = "noop"  -> <<>>
       [] reply = "nudge" -> <<Plain("nudge", r, n)>>
       [] reply \in {"tool", "terminal"} ->
            <<Msg("call", r, n, plain, {}), Msg("return", r, n, plain, {})>>
       [] reply = "gated" -> <<Msg("request", r, n, gated, {})>>
       [] reply = "mixed" -> <<Msg("call", r, n, plain, {}), Msg("request", r, n, gated, {})>>

StopOf(reply) ==
  CASE reply \in {"text", "noop"}   -> "end_turn"
    [] reply = "terminal"           -> "tool_rule"
    [] reply \in {"gated", "mixed"} -> "requires_approval"
    [] OTHER                        -> "none"

ModelReplies(r) ==
  /\ loop[r].at = "llm"
  /\ \E reply \in Replies :
       /\ Execute(IF reply \in {"tool", "terminal"} THEN {<<r, loop[r].n, "plain">>} ELSE {})
       /\ Upd(r, [loop[r] EXCEPT !.at = "save", !.new = NewMessages(r, reply),
                                 !.resp = @ \o NewMessages(r, reply), !.stop = StopOf(reply), !.go = StopOf(reply) = "none"])
  /\ UNCHANGED <<ctx, rows, cancelled, canc>>

(* The request, or the compaction it needed, fails: the step raises.        *)
ModelFails(r) ==
  /\ "llm" \in Faults
  /\ loop[r].at = "llm"
  /\ Finish(r, "llm_api_error")
  /\ UNCHANGED <<ctx, rows, ran, cancelled, canc>>

-----------------------------------------------------------------------------
(* compact: [system, summary] and what the mode keeps.                      *)

\* Mutant of Protected: a pending request is summarised away.
Protected_Nothing(s) == <<>>

(* summarize_all and its self_ variant keep a pending request and the       *)
(* assistant message of the same step before it.                            *)
Protected(s) ==
  IF Last(s).kind # "request" THEN <<>>
  ELSE IF PendingPlain(s, Len(s)) # {} THEN SubSeq(s, Len(s) - 1, Len(s)) ELSE <<Last(s)>>

\* Mutant of Cutoffs: the window may start at a tool message.
Cutoffs_AnyMessage(s) == 2 .. Len(s) - 1

(* The sliding window starts at an assistant message or approval request,   *)
(* before the last message (or the last but one, if that is an approval).   *)
Cutoffs(s) ==
  {i \in 2 .. (IF Last(s).kind \in {"request", "response"} THEN Len(s) - 2 ELSE Len(s) - 1) :
     s[i].kind \in {"text", "call", "request"}}

(* The summaries of a run are told apart by the responses before them.      *)
Summary(r) == Plain("summary", r, Len(loop[r].resp))

Compacted(r, s) ==
  {<<System, Summary(r)>> \o Protected(s)}
  \cup (IF "sliding" \in Modes
        THEN {<<System, Summary(r)>> \o SubSeq(s, i, Len(s)) : i \in Cutoffs(s)} ELSE {})

(* _checkpoint_messages: the new rows, then the whole context.              *)
Checkpoint(r, new, context) ==
  /\ rows' = rows \o new
  /\ ctx' = [ctx EXCEPT ![ThreadOf[r]] = context]

(* It fails before the rows are created or between the two.                 *)
CheckpointFails(new) ==
  /\ "save" \in Faults
  /\ rows' = rows \/ rows' = rows \o new
  /\ UNCHANGED ctx

(* The summary joins response_messages before it is stored.                 *)
Summarised(r) == [loop[r] EXCEPT !.resp = Append(@, Summary(r))]

(* ContextWindowExceededError: compact, store the result, and ask again.    *)
(* The input of the request is part of the context by then, its rows are    *)
(* not created yet.                                                         *)
Overflow(r) ==
  /\ Modes # {}
  /\ loop[r].at = "llm"
  /\ IF loop[r].tries = MaxTries
     THEN Finish(r, "error") /\ UNCHANGED <<ctx, rows>>
     ELSE \/ \E s \in Compacted(r, loop[r].msgs) :
               /\ Checkpoint(r, <<Summary(r)>>, s)
               /\ Upd(r, [Summarised(r) EXCEPT !.msgs = s, !.tries = @ + 1])
          \/ /\ CheckpointFails(<<Summary(r)>>)
             /\ Upd(r, [Summarised(r) EXCEPT !.at = "done", !.stop = "error"])
  /\ UNCHANGED <<ran, cancelled, canc>>

Asked(r) == loop[r].new = <<>> \/ loop[r].new[1].kind # "return"

(* The step is finished, its messages are stored.  The size of the context  *)
(* is known once the model was asked, in this step or an earlier one.       *)
Save(r) ==
  LET s == loop[r].msgs \o loop[r].new
  IN /\ loop[r].at = "save"
     /\ Checkpoint(r, loop[r].input \o loop[r].new, s)
     /\ \E at \in {"next"} \cup (IF Modes # {} /\ (Asked(r) \/ loop[r].n > 1) THEN {"compact"} ELSE {}) :
          Upd(r, [loop[r] EXCEPT !.at = at, !.msgs = s, !.input = <<>>, !.new = <<>>])
     /\ UNCHANGED <<ran, cancelled, canc>>

\* Mutant of SaveFails: the context is written before the rows.
SaveFails_ContextFirst(r) ==
  /\ loop[r].at = "save"
  /\ "save" \in Faults
  /\ ctx' = [ctx EXCEPT ![ThreadOf[r]] = loop[r].msgs \o loop[r].new]
  /\ FinishSwallowing(r)
  /\ UNCHANGED <<rows, ran, cancelled, canc>>

(* An exception here meets the `return` of the finally block.               *)
SaveFails(r) ==
  /\ loop[r].at = "save"
  /\ CheckpointFails(loop[r].input \o loop[r].new)
  /\ FinishSwallowing(r)
  /\ UNCHANGED <<ran, cancelled, canc>>

(* The compaction after a step; an exception is swallowed as well.          *)
CompactAfterStep(r) ==
  /\ loop[r].at = "compact"
  /\ \/ \E s \in Compacted(r, loop[r].msgs) :
          /\ Checkpoint(r, <<Summary(r)>>, s)
          /\ Upd(r, [Summarised(r) EXCEPT !.at = "next", !.msgs = s])
     \/ /\ CheckpointFails(<<Summary(r)>>)
        /\ Upd(r, [Summarised(r) EXCEPT !.at = "done", !.stop = IF @ = "none" THEN "error" ELSE @])
     \/ "llm" \in Faults /\ FinishSwallowing(r) /\ UNCHANGED <<ctx, rows>>
  /\ UNCHANGED <<ran, cancelled, canc>>

\* Mutant of NextStep: the limit is noticed one step late.
NextStep_Late(r) ==
  LET here == loop[r]
  IN /\ here.at = "next"
     /\ IF ~here.go THEN Finish(r, here.stop)
        ELSE IF here.n > MaxSteps THEN Finish(r, "max_steps")
        ELSE Upd(r, [here EXCEPT !.at = "step", !.n = @ + 1])
     /\ UNCHANGED <<ctx, rows, ran, cancelled, canc>>

(* The loop over max_steps.  A follow-up message is the input of the second *)
(* step only.                                                               *)
NextStep(r) ==
  LET here == loop[r]
      follow == IF here.n = 1 /\ here.follow THEN <<Plain("user", r, 2)>> ELSE <<>>
  IN /\ here.at = "next"
     /\ CASE ~here.go -> Finish(r, here.stop)
          [] here.go /\ here.n = MaxSteps -> Finish(r, "max_steps")
          [] OTHER -> \/ Upd(r, [here EXCEPT !.at = "step", !.n = @ + 1, !.input = follow])
                      \/ "credits" \in Faults /\ Finish(r, "insufficient_credits")
     /\ UNCHANGED <<ctx, rows, ran, cancelled, canc>>

(* The response of a cancelled run is closed while the loop yields...       *)
Abandoned(r) ==
  /\ r \in cancelled
  /\ loop[r].at \in {"llm", "compact", "next"}
  /\ Finish(r, "cancelled")
  /\ UNCHANGED <<ctx, rows, ran, cancelled, canc>>

(* ... and its server may stop at any point.                                *)
Crash(r) ==
  /\ r \in MayCrash
  /\ Active(r)
  /\ Finish(r, "crashed")
  /\ UNCHANGED <<ctx, rows, ran, cancelled, canc>>

Loop(r) ==
  \/ LoadAgent(r) \/ Refused(r) \/ Prepare(r) \/ AnswerStep(r) \/ SeeCancel(r) \/ AskModel(r)
  \/ ModelReplies(r) \/ ModelFails(r) \/ Overflow(r) \/ Save(r) \/ SaveFails(r)
  \/ CompactAfterStep(r) \/ NextStep(r) \/ Abandoned(r) \/ Crash(r)

-----------------------------------------------------------------------------
(* RunManager.cancel_run and the agent's context: no lock is taken, and the *)
(* context is the agent's, whatever the run's thread.                       *)

(* The row of a run that ended may still lack its stop reason.              *)
CancelReads(r) ==
  /\ r \in MayCancel
  /\ canc[r].at = "idle"
  /\ loop[r].at \notin {"idle", "loaded"} /\ loop[r].stop # "busy"
  /\ canc' = [canc EXCEPT ![r] = [at |-> "write", msgs |-> Stored(ctx[Default])]]
  /\ UNCHANGED <<ctx, rows, ran, loop, cancelled>>

CancelWrites(r) ==
  /\ canc[r].at = "write"
  /\ cancelled' = cancelled \cup {r}
  /\ canc' = [canc EXCEPT ![r].at = IF Last(canc[r].msgs).kind = "request" THEN "deny" ELSE "done"]
  /\ UNCHANGED <<ctx, rows, ran, loop>>

(* The pending request is answered by denials of all pending calls.         *)
CancelDenies(r) ==
  LET s == canc[r].msgs
      gated == Last(s).calls
      all == gated \cup PendingPlain(s, Len(s))
      denials == <<Msg("response", r, 1, gated, gated), Msg("return", r, 1, all, all)>>
  IN /\ canc[r].at = "deny"
     /\ rows' = rows \o denials
     /\ ctx' = [ctx EXCEPT ![Default] = s \o denials]
     /\ canc' = [canc EXCEPT ![r].at = "done"]
     /\ UNCHANGED <<ran, loop, cancelled>>

Cancellation(r) == CancelReads(r) \/ CancelWrites(r) \/ CancelDenies(r)

Next == \E r \in Req : Loop(r) \/ Cancellation(r)

Spec == Init /\ [][Next]_vars

-----------------------------------------------------------------------------
(* How a context may go on after its i-th message.                          *)
Follows(s, i) ==
  LET m == s[i]
      next == IF i < Len(s) THEN s[i + 1] ELSE [kind |-> "end", calls |-> {}]
  IN CASE m.kind = "call" ->
            (next.kind = "return" /\ next.calls = m.calls) \/ next.kind = "request"
       [] m.kind = "request"  -> next.kind = "end" \/ (next.kind = "response" /\ next.calls = m.calls)
       [] m.kind = "response" ->
            /\ i > 1 /\ s[i - 1].kind = "request"
            /\ next.kind = "return" /\ next.calls = m.calls \cup PendingPlain(s, i - 1)
       [] m.kind = "return"   -> i > 1 /\ s[i - 1].kind \in {"call", "response"}
       [] OTHER -> TRUE

(* Every stored context is one a model provider accepts: it starts with the *)
(* system message, every tool call is answered once and at once, every tool *)
(* message answers the calls before it, and only the last message may wait  *)
(* for an approval - whatever the order of loops, denials by a cancellation *)
(* and compactions that each replace the whole context.                     *)
WellFormed ==
  \A t \in Thread :
    /\ ctx[t][1].kind = "system"
    /\ \A i \in DOMAIN ctx[t] : Follows(ctx[t], i)

(* "check if this is an idempotent retry" (helpers.py): an approval sent    *)
(* again, or answered twice, does not execute a tool call twice.  Only a    *)
(* run that ended between executing a call and storing its result lets the  *)
(* next approval execute it again.                                          *)
LostResult(c) ==
  {r \in Req : loop[r].at = "done" /\ \E m \in Elements(loop[r].new) : m.kind = "return" /\ c \in m.calls}
CallRunsOnce == \A c \in Call : ran[c] <= 1 + Cardinality(LostResult(c))

(* An approval request of a conversation that nobody answered is the last   *)
(* message of the conversation's context, so that the client can answer it: *)
(* later messages are refused and compactions keep it.                      *)
UnansweredStaysLast ==
  \A q \in Elements(rows) :
    /\ q.kind = "request" /\ ThreadOf[q.run] # Default
    /\ \A m \in Elements(rows) : m.kind = "return" => ~(q.calls \subseteq m.calls)
    => Last(ctx[ThreadOf[q.run]]) = q

(* A context lists a message without a row only when it is the input of a   *)
(* request that compacted in the middle of a step it has not stored: never  *)
(* a reply, a summary or a denial, and never by a stored step, whichever of *)
(* the writers of the whole context failed or came last.                    *)
OnlyUnsavedInputDangles ==
  \A t \in Thread : \A i \in DOMAIN ctx[t] :
    LET m == ctx[t][i]
    IN m \notin Elements(rows) =>
         /\ m.kind = "user" /\ loop[m.run].tries > 0
         /\ loop[m.run].at \in {"llm", "save", "done"}

(* A message a conversation's loop stored stays in its context until a      *)
(* later summary stands for it: the loops, each of which writes the whole   *)
(* context it holds in memory, never undo one another's messages.  (The     *)
(* input of a request may be stored after the summary that covers it.)      *)
HistoryIsKept ==
  \A i \in DOMAIN rows :
    LET t == ThreadOf[rows[i].run]
        Covers(j) == rows[j].kind = "summary" /\ rows[j] \in Elements(ctx[t])
    IN rows[i].run # NoRun /\ t # Default /\ rows[i] \notin Elements(ctx[t]) =>
         \E j \in DOMAIN rows : Covers(j) /\ (j > i \/ rows[i].kind = "user")
=============================================================================
