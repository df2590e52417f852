------------------------------ MODULE Sessions ------------------------------
(***************************************************************************)
(* The dashboard's control of one eve session: the snapshot folded from    *)
(* the session's durable stream (lib/agent-client.ts), the routes that     *)
(* answer parked requests, send follow-ups and replay a conversation       *)
(* (app/api/control/sessions), and the approval log (lib/approvals.ts).    *)
(*                                                                         *)
(* eve itself is external and modelled from what the code says of it: it   *)
(* publishes one event at a time, parks a turn with a token of that turn,  *)
(* takes a follow-up only at a park and with that token, publishes what a  *)
(* follow-up caused some time after taking it, and starts a new session    *)
(* for an id it has lost.                                                  *)
(*                                                                         *)
(* A call is one HTTP request; every await ends an action.  Tokens are     *)
(* numbered by the turn whose park published them, 0 for none.             *)
(***************************************************************************)
EXTENDS Integers, Sequences, FiniteSets

CONSTANTS
    Requests,     \* ids of the requests the agent may park on
    Tools,        \* those that are tool approvals; the others are questions
    Approvers,    \* POST /approve calls
    Senders,      \* POST /message calls
    None,         \* an absent requestId
    Lookback,     \* TRANSCRIPT_LOOKBACK, in user messages
    MaxMessages,  \* bound: user messages of the forked conversation
    MaxTurns,     \* bound: turns of the session
    MaxFaults     \* bound: answers of eve that are lost, statements that fail, deaths
                  \* of the dashboard process and losses of the session by eve, together

ASSUME SessionAssumption ==
    /\ Tools \subseteq Requests
    /\ None \notin Requests
    /\ Approvers \cap Senders = {}
    /\ {MaxMessages, MaxFaults} \subseteq Nat
    /\ {Lookback, MaxTurns} \subseteq Nat \ {0}

VARIABLES
    \* eve
    phase,     \* "none", "taken", "running", "settled", "parked", "over" or "gone"
    turn,      \* turns started
    asked,     \* requests it is waiting for an answer to
    born,      \* requests it has ever asked
    reemit,    \* the running turn still has to repeat the outstanding requests
    results,   \* approved tools whose action.result is not published yet
    taken,     \* the decisions it has acted on
    \* the dashboard
    board,     \* the snapshot that a fold of the whole stream gives
    call,      \* each POST /approve and POST /message
    rows,      \* evestack.approvals
    fork,      \* the POST /fork whose replay this session is
    messages,  \* user messages of the conversation it forks
    sent,      \* which of them eve took, in order
    faults

eve == <<phase, turn, asked, born, reemit, results, taken>>
vars == <<eve, board, call, rows, fork, messages, sent, faults>>

Calls == Approvers \cup Senders
Turns == 0 .. MaxTurns
\* An answer that lets a tool run, and every other: a denial, the option of a
\* question, and the text that answerFor takes for either kind of request.
Answers == {"approve", "other"}
Offers(r) == IF r \in Tools THEN Answers ELSE {"other"}

Decisions == [by : Approvers, request : Requests, answer : Answers, turn : Turns]
Rows == [by : Approvers, request : Requests, answer : Answers, turn : Turns, stray : BOOLEAN]

-----------------------------------------------------------------------------
(* getSessionSnapshot: one operator per event type *)

EmptySnapshot ==
    [seen |-> FALSE, waiting |-> FALSE, terminal |-> FALSE,
     token |-> 0, turnId |-> 0, pending |-> {}]

OnTurnStartedKeepsPending(s, t) == [s EXCEPT !.seen = TRUE, !.turnId = t, !.waiting = FALSE]
OnTurnStartedCountsAhead(s, t) ==
    [s EXCEPT !.seen = TRUE, !.turnId = t + 1, !.waiting = FALSE, !.pending = {}]
OnTurnStarted(s, t) ==
    [s EXCEPT !.seen = TRUE, !.turnId = t, !.waiting = FALSE, !.pending = {}]

OnInputRequested(s, rs) == [s EXCEPT !.pending = @ \cup rs]

OnActionResult(s, r) == [s EXCEPT !.pending = @ \ {r}]

OnTurnCompletedClears(s) == [s EXCEPT !.pending = {}]
OnTurnCompleted(s) == s

OnWaiting(s, t) == [s EXCEPT !.token = t, !.waiting = TRUE, !.terminal = FALSE]

OnEnded(s) == [s EXCEPT !.waiting = FALSE, !.terminal = TRUE, !.pending = {}]

\* classifySession: what the fleet banner says of a session with an open turn
\* row, `old` when that row is older than STUCK_TURN_MS.
Health(s, old) ==
    IF s.terminal THEN "idle"
    ELSE IF s.pending # {} THEN "awaiting-human"
    ELSE IF s.waiting THEN "idle"
    ELSE IF old THEN "wedged" ELSE "active"

-----------------------------------------------------------------------------
NoFork ==
    [pc |-> "idle", plan |-> 0, first |-> 0, length |-> 0, at |-> 0, token |-> 0, spent |-> 0,
     late |-> FALSE, delivered |-> 0, end |-> "none"]

NoCall == [pc |-> "idle", token |-> 0, request |-> None, answer |-> "other",
           turn |-> 0, stray |-> FALSE, end |-> "none"]

Init ==
    /\ phase = "none" /\ turn = 0 /\ asked = {} /\ born = {}
    /\ reemit = FALSE /\ results = {} /\ taken = {}
    /\ board = EmptySnapshot
    /\ call = [c \in Calls |-> NoCall]
    /\ rows = {} /\ fork = NoFork /\ sent = <<>>
    /\ messages \in {0, Lookback}   \* bound: one conversation to fork, or none
    /\ faults = 0

-----------------------------------------------------------------------------
(* eve publishes: each action appends one event to the stream *)

TurnStarted ==
    /\ phase = "taken"
    /\ phase' = "running" /\ turn' = turn + 1
    /\ board' = OnTurnStarted(board, turn + 1)
    /\ UNCHANGED <<asked, born, reemit, results, taken, call, rows, fork, messages, sent, faults>>

\* Whatever is still outstanding is requested again, together with new requests.
InputRequested ==
    /\ phase = "running"
    /\ \E new \in SUBSET (Requests \ born) :
         /\ new # {} \/ reemit
         /\ asked' = asked \cup new
         /\ born' = born \cup new
         /\ board' = OnInputRequested(board, asked \cup new)
    /\ reemit' = FALSE
    /\ UNCHANGED <<phase, turn, results, taken, call, rows, fork, messages, sent, faults>>

\* An approved tool runs, before or after the next turn is announced.
ActionResult(r) ==
    /\ r \in results
    /\ phase \in {"taken", "running"}
    /\ results' = results \ {r}
    /\ board' = OnActionResult(board, r)
    /\ UNCHANGED <<phase, turn, asked, born, reemit, taken, call, rows, fork, messages, sent, faults>>

TurnCompleted ==
    /\ phase = "running" /\ ~reemit /\ results = {}
    /\ phase' = "settled"
    /\ board' = OnTurnCompleted(board)
    /\ UNCHANGED <<turn, asked, born, reemit, results, taken, call, rows, fork, messages, sent, faults>>

SessionWaiting ==
    /\ phase = "settled" /\ turn < MaxTurns
    /\ phase' = "parked"
    /\ board' = OnWaiting(board, turn)
    /\ UNCHANGED <<turn, asked, born, reemit, results, taken, call, rows, fork, messages, sent, faults>>

\* session.completed and session.failed
SessionEnded ==
    /\ phase \in {"running", "settled"}
    /\ phase' = "over" /\ asked' = {} /\ reemit' = FALSE /\ results' = {}
    /\ board' = OnEnded(board)
    /\ UNCHANGED <<turn, born, taken, call, rows, fork, messages, sent, faults>>

\* The session goes missing: the id is one eve has never heard of.
Forgotten ==
    /\ phase \notin {"none", "gone"} /\ faults < MaxFaults
    /\ faults' = faults + 1
    /\ phase' = "gone" /\ asked' = {} /\ reemit' = FALSE /\ results' = {}
    /\ board' = EmptySnapshot
    /\ UNCHANGED <<turn, born, taken, call, rows, fork, messages, sent>>

-----------------------------------------------------------------------------
(* A follow-up request to eve: continueSession and answerInput *)

Resume(ds) ==
    LET heeded == {d \in ds : d.request \in asked}
    IN /\ phase' = "taken"
       /\ asked' = asked \ {d.request : d \in heeded}
       /\ reemit' = (asked' # {})
       /\ results' = {d.request : d \in {e \in heeded : e.answer = "approve"}}
       /\ taken' = taken \cup heeded
       /\ UNCHANGED <<turn, born, board>>

\* eve acts on a follow-up that carries the token of its park and refuses any
\* other; the request or its answer may be lost.
FollowUp(t, ds, reply) ==
    LET current == phase = "parked" /\ t = turn
    IN /\ \/ current /\ reply \in {"accepted", "lost"} /\ Resume(ds)
          \/ ~current /\ phase # "gone" /\ reply = "rejected" /\ UNCHANGED <<eve, board>>
          \/ phase = "gone" /\ reply = "elsewhere" /\ UNCHANGED <<eve, board>>
          \/ reply = "lost" /\ UNCHANGED <<eve, board>>
       /\ IF reply = "lost" THEN faults < MaxFaults /\ faults' = faults + 1
                            ELSE UNCHANGED faults

Replies == {"accepted", "rejected", "elsewhere", "lost"}

\* The tokens a caller can come with: the snapshot's, or an older one of its own.
Published == 1 .. board.token

\* POST /sessions, or any other client of eve: a session no replay started
SessionStarted ==
    /\ phase = "none" /\ fork.pc = "idle" /\ messages = 0
    /\ phase' = "taken"
    /\ UNCHANGED <<turn, asked, born, reemit, results, taken, board, call, rows, fork,
                   messages, sent, faults>>

-----------------------------------------------------------------------------
(* POST /approve *)

\* selectTargets: at most one request is ever answered by a call
Targets(rid) ==
    IF rid = None
    THEN IF Cardinality(board.pending) = 1 THEN board.pending ELSE {}
    ELSE board.pending \cap {rid}

\* What a call goes on with: the request it answers, its token, its answer, and
\* the turn of the snapshot, which the row will name.
Asked(k, r, t, a) ==
    [k EXCEPT !.pc = "answer", !.token = t, !.answer = a, !.turn = board.turnId, !.request = r]

\* The snapshot is read and every refusal decided on it; a refused call, an
\* unidentified one where an approver is required included, changes nothing.
ApproveRead(c) ==
    /\ call[c].pc = "idle"
    /\ board.seen /\ ~board.terminal
    /\ \E rid \in Requests \cup {None} : \E r \in Targets(rid), t \in Published :
         \E a \in Offers(r) :
           call' = [call EXCEPT ![c] = Asked(@, r, t, a)]
    /\ UNCHANGED <<eve, board, rows, fork, messages, sent, faults>>

Done(k, how) == [NoCall EXCEPT !.pc = "done", !.end = how, !.stray = k.stray]

AfterAnswerUnheard(k, reply) ==
    IF reply = "rejected" THEN Done(k, "rejected") ELSE [k EXCEPT !.pc = "audit"]
AfterAnswerAnyhow(k, reply) ==
    IF reply = "lost" THEN Done(k, "unknown") ELSE [k EXCEPT !.pc = "audit"]
\* What the route does with eve's reply: it does not compare the session ids.
AfterAnswer(k, reply) ==
    CASE reply = "accepted"  -> [k EXCEPT !.pc = "audit"]
      [] reply = "elsewhere" -> [k EXCEPT !.pc = "audit", !.stray = TRUE]
      [] reply = "rejected"  -> Done(k, "rejected")
      [] reply = "lost"      -> Done(k, "unknown")

ApproveAnswer(c) ==
    /\ call[c].pc = "answer"
    /\ \E reply \in Replies :
         /\ FollowUp(call[c].token,
                     {[by |-> c, request |-> call[c].request, answer |-> call[c].answer,
                       turn |-> turn]},
                     reply)
         /\ call' = [call EXCEPT ![c] = AfterAnswer(@, reply)]
    /\ UNCHANGED <<rows, fork, messages, sent>>

Row(c) == [by |-> c, request |-> call[c].request, answer |-> call[c].answer,
           turn |-> call[c].turn, stray |-> call[c].stray]

\* recordApproval: the INSERT commits, ...
ApproveInsert(c) ==
    /\ call[c].pc = "audit"
    /\ rows' = rows \cup {Row(c)}
    /\ call' = [call EXCEPT ![c].pc = "inserted"]
    /\ UNCHANGED <<eve, board, fork, messages, sent, faults>>

\* ... and the route hears of it; or it hears of a failure, before or after the
\* commit, which it reports and does not throw.
ApproveAudit(c) ==
    /\ call[c].pc \in {"audit", "inserted"}
    /\ \E how \in {"audited", "unaudited"} :
         /\ how = "audited" => call[c].pc = "inserted"
         /\ call' = [call EXCEPT ![c] = Done(@, how)]
         /\ IF how = "unaudited" THEN faults < MaxFaults /\ faults' = faults + 1
                                ELSE UNCHANGED faults
    /\ UNCHANGED <<eve, board, rows, fork, messages, sent>>

-----------------------------------------------------------------------------
(* POST /message *)

\* With a token of the caller's the snapshot is not read.
MessageRead(c) ==
    /\ call[c].pc = "idle"
    /\ \E t \in Published, provided \in BOOLEAN :
         /\ provided \/ (t = board.token /\ board.seen /\ ~board.terminal)
         /\ call' = [call EXCEPT ![c] = [@ EXCEPT !.pc = "answer", !.token = t]]
    /\ UNCHANGED <<eve, board, rows, fork, messages, sent, faults>>

MessageSend(c) ==
    /\ call[c].pc = "answer"
    /\ \E reply \in Replies :
         /\ FollowUp(call[c].token, {}, reply)
         /\ call' = [call EXCEPT ![c] =
              Done(@, CASE reply = "accepted"  -> "sent"
                        [] reply = "elsewhere" -> "mismatch"
                        [] reply = "rejected"  -> "rejected"
                        [] reply = "lost"      -> "unknown")]
    /\ UNCHANGED <<rows, fork, messages, sent>>

-----------------------------------------------------------------------------
(* GET and POST /fork *)

\* readRecentEvents reads a window that ends at the tail; recoverTurns numbers
\* the messages it finds there from 1.
WindowStart == IF messages > Lookback THEN messages - Lookback ELSE 0
Recovered == messages - WindowStart   \* the i-th of them is message WindowStart + i

OriginalGrows ==
    /\ messages \in 1 .. MaxMessages - 1 /\ phase = "none" /\ fork.pc \in {"idle", "shown"}
    /\ messages' = messages + 1
    /\ UNCHANGED <<eve, board, call, rows, fork, sent, faults>>

ForkShow ==
    /\ fork.pc = "idle" /\ phase = "none"
    /\ WindowStart = 0
    /\ fork' = [fork EXCEPT !.pc = "shown", !.plan = Recovered]
    /\ UNCHANGED <<eve, board, call, rows, messages, sent, faults>>

PlanAcceptedBySize == Recovered > 0 /\ Recovered = fork.plan
\* describeTruncation and fingerprintPlan on the second read
PlanAccepted == WindowStart = 0 /\ Recovered > 0 /\ Recovered = fork.plan

\* The answer of the route; what only its loop needed is forgotten.
ForkEnd(f, how) == [f EXCEPT !.pc = "done", !.end = how, !.token = 0, !.spent = 0, !.late = FALSE,
                           !.first = 0, !.at = 0,
                           !.length = IF how = "complete" THEN @ ELSE 0]

ForkPost ==
    /\ fork.pc = "shown"
    /\ IF PlanAccepted
       THEN \E fromTurn \in 1 .. Recovered :
              fork' = [fork EXCEPT !.pc = "create", !.first = WindowStart, !.length = fromTurn]
       ELSE fork' = ForkEnd(fork, "refused")
    /\ UNCHANGED <<eve, board, call, rows, messages, sent, faults>>

\* The next message of the script was taken with token t.
Delivered(f, t) ==
    LET g == [f EXCEPT !.delivered = @ + 1, !.at = @ + 1, !.spent = t, !.late = FALSE]
    IN IF g.at > g.length THEN ForkEnd(g, "complete") ELSE [g EXCEPT !.pc = "wait"]

ForkCreate ==
    /\ fork.pc = "create"
    /\ \/ /\ fork' = Delivered([fork EXCEPT !.at = 1], 0)
          /\ phase' = "taken" /\ sent' = <<fork.first + 1>>
          /\ UNCHANGED faults
       \/ /\ faults < MaxFaults /\ faults' = faults + 1
          /\ fork' = ForkEnd(fork, "error")
          /\ \/ phase' = "taken" /\ sent' = <<fork.first + 1>>
             \/ UNCHANGED <<phase, sent>>
    /\ UNCHANGED <<turn, asked, born, reemit, results, taken, board, call, rows, messages>>

ReadyAtAnyPark(f, s) == s.waiting /\ s.pending = {} /\ s.token # 0
\* waitUntilReady: one look at the snapshot.  Being parked is not yet being
\* ready: the park may be the one whose token the replay has just spent.
Ready(f, s) == s.waiting /\ s.pending = {} /\ s.token \notin {0, f.spent}

LookedForEver(f, s) ==
    CASE s.terminal                       -> ForkEnd(f, "ended")
      [] ~s.terminal /\ s.waiting /\ s.pending # {} -> ForkEnd(f, "human")
      [] ~s.terminal /\ Ready(f, s)       -> [f EXCEPT !.pc = "send", !.token = s.token]
      [] OTHER                            -> f
Looked(f, s) ==
    CASE s.terminal                       -> ForkEnd(f, "ended")
      [] ~s.terminal /\ s.waiting /\ s.pending # {} -> ForkEnd(f, "human")
      [] ~s.terminal /\ Ready(f, s)       -> [f EXCEPT !.pc = "send", !.token = s.token]
      [] OTHER                            -> IF f.late THEN ForkEnd(f, "timeout") ELSE f

\* A read that fails, and a tab that closes, throw out of the whole route.
ForkPoll ==
    /\ fork.pc = "wait"
    /\ \/ fork' = Looked(fork, board) /\ UNCHANGED faults
       \/ faults < MaxFaults /\ faults' = faults + 1 /\ fork' = ForkEnd(fork, "error")
    /\ UNCHANGED <<eve, board, call, rows, messages, sent>>

\* TURN_READY_TIMEOUT_MS or FORK_BUDGET_MS has passed.
ForkDeadline ==
    /\ fork.pc = "wait" /\ ~fork.late
    /\ fork' = [fork EXCEPT !.late = TRUE]
    /\ UNCHANGED <<eve, board, call, rows, messages, sent, faults>>

AfterSend(f, reply) ==
    CASE reply = "accepted"  -> Delivered(f, f.token)
      [] reply = "elsewhere" -> ForkEnd(f, "mismatch")
      [] reply = "rejected"  -> ForkEnd(f, "rejected")
      [] reply = "lost"      -> ForkEnd(f, "unanswered")

ForkSend ==
    /\ fork.pc = "send"
    /\ \E reply \in Replies :
         /\ FollowUp(fork.token, {}, reply)
         /\ fork' = AfterSend(fork, reply)
    /\ sent' = IF phase' # phase THEN Append(sent, fork.first + fork.at) ELSE sent
    /\ UNCHANGED <<call, rows, messages>>

-----------------------------------------------------------------------------
(* The dashboard process dies: every request it was serving is gone. *)
Crash ==
    /\ faults < MaxFaults /\ faults' = faults + 1
    /\ call' = [c \in Calls |-> IF call[c].pc \in {"answer", "audit", "inserted"}
                               THEN Done(call[c], "dead") ELSE call[c]]
    /\ fork' = IF fork.pc \in {"create", "wait", "send"} THEN ForkEnd(fork, "dead") ELSE fork
    /\ <<call', fork'>> # <<call, fork>>
    /\ UNCHANGED <<eve, board, rows, messages, sent>>

EveNext ==
    \/ TurnStarted \/ InputRequested \/ TurnCompleted \/ SessionWaiting
    \/ SessionEnded \/ Forgotten
    \/ \E r \in Requests : ActionResult(r)

ForkNext == ForkCreate \/ ForkPoll \/ ForkDeadline \/ ForkSend

Next ==
    \/ EveNext \/ SessionStarted \/ OriginalGrows
    \/ \E c \in Approvers : \/ ApproveRead(c) \/ ApproveAnswer(c)
                            \/ ApproveInsert(c) \/ ApproveAudit(c)
    \/ \E c \in Senders : MessageRead(c) \/ MessageSend(c)
    \/ ForkShow \/ ForkPost \/ ForkNext
    \/ Crash

\* The route runs on and its timers fire; eve may never publish anything again.
Spec == Init /\ [][Next]_vars /\ WF_vars(ForkNext)

-----------------------------------------------------------------------------
(* Properties *)

\* Every variable keeps its type.
TypeOK ==
    /\ phase \in {"none", "taken", "running", "settled", "parked", "over", "gone"}
    /\ turn \in Turns /\ reemit \in BOOLEAN
    /\ {asked, born, results} \subseteq SUBSET Requests
    /\ taken \subseteq Decisions
    /\ board \in [seen : BOOLEAN, waiting : BOOLEAN, terminal : BOOLEAN,
                  token : Turns, turnId : Turns, pending : SUBSET Requests]
    /\ call \in [Calls -> [pc : {"idle", "answer", "audit", "inserted", "done"}, token : Turns,
                           request : Requests \cup {None}, answer : Answers, turn : Turns,
                           stray : BOOLEAN,
                           end : {"none", "rejected", "unknown", "dead", "audited",
                                  "unaudited", "sent", "mismatch"}]]
    /\ rows \subseteq Rows
    /\ fork \in [pc : {"idle", "shown", "create", "wait", "send", "done"},
                 plan : Nat, first : Nat, length : Nat, at : Nat, token : Turns, spent : Turns,
                 late : BOOLEAN, delivered : Nat,
                 end : {"none", "refused", "complete", "error", "ended", "human", "timeout",
                        "mismatch", "rejected", "unanswered", "dead"}]
    /\ messages \in Nat /\ sent \in Seq(Nat)
    /\ faults \in 0 .. MaxFaults

\* "The log never claims a decision that did not take effect", and a request
\* two people answer at once is decided once: the routes implement DecisionLog.
\* The rows of a session eve has lost are left out (see the README).
Log ==
    INSTANCE DecisionLog
      WITH decided <- taken,
           log <- {[by |-> w.by, request |-> w.request, answer |-> w.answer, turn |-> w.turn] :
                    w \in {x \in rows : ~x.stray}}

ImplementsDecisionLog == Log!Spec

\* What the approver's browser is told agrees with eve and with the log: "audited"
\* means that the decision was taken and its row is there, "audited: false" that it
\* was taken, with a row or without (the INSERT's answer may be all that was lost);
\* a decision without its row is one whose failure was reported, whose answer from
\* eve was lost or whose process died, and a row is there only for a decision that
\* was neither refused nor left unanswered: approve/route.ts, after answerInput.
ApproverIsToldTheTruth ==
    \A c \in Approvers : call[c].pc = "done" =>
      LET decided == \E d \in taken : d.by = c
          logged  == \E w \in rows : w.by = c
          how     == call[c].end
      IN /\ how = "audited" => logged
         /\ how \in {"audited", "unaudited"} => decided \/ call[c].stray
         /\ decided /\ ~logged => how \in {"unaudited", "unknown", "dead"}
         /\ logged => how \in {"audited", "unaudited", "dead"}

\* The snapshot an operator decides on, and what the fleet banner makes of it:
\* while eve is parked it shows exactly the requests eve waits for and the
\* token eve takes; a turn in flight never looks parked, and shows no request
\* that was decided already.
BoardIsHonest ==
    /\ phase = "parked" =>
         /\ board.waiting /\ board.pending = asked /\ board.token = turn
         /\ Health(board, TRUE) = IF asked = {} THEN "idle" ELSE "awaiting-human"
    /\ phase \in {"running", "settled"} => ~board.waiting /\ board.pending \subseteq asked
    /\ phase = "over" => Health(board, FALSE) = "idle"

\* A replay sends the messages of the plan that was shown, in order and each
\* once, and the response counts those that landed, but for one whose answer
\* was lost.
ForkReportIsHonest ==
    /\ \A i \in DOMAIN sent : sent[i] = i /\ i <= fork.plan
    /\ fork.pc = "done" =>
         /\ fork.end = "complete" => Len(sent) = fork.length
         /\ \/ fork.delivered = Len(sent)
            \/ fork.end \in {"error", "unanswered"} /\ fork.delivered + 1 = Len(sent)

\* eve refuses a message of the replay only because somebody else has used the
\* session meanwhile, never because the replay came with a token it had spent.
OnlyOthersCutItShort ==
    fork.end = "rejected" =>
      taken # {} \/ \E c \in Senders : call[c].end \in {"sent", "unknown", "dead"}

\* A replay never talks over a request that waits for a person.
ReplayWaitsForPeople == [][sent' # sent => asked = {}]_vars

\* A replay ends, whatever eve does: it is finished, or stopped, or timed out.
ReplayEnds == fork.pc = "create" ~> fork.pc = "done"
=============================================================================
