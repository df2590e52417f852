---------------------------- MODULE SessionsProofs ----------------------------
(***************************************************************************)
(* Session control, for every number of requests, callers, turns and       *)
(* failures: the routes implement DecisionLog, an approver is told the     *)
(* truth, the snapshot shows what eve waits for, and a replay never talks  *)
(* over a request that waits for a person.                                 *)
(***************************************************************************)
EXTENDS Sessions, TLAPS

-----------------------------------------------------------------------------
(* The invariant, one part per actor.                                      *)

EveType ==
    /\ phase \in {"none", "taken", "running", "settled", "parked", "over", "gone"}
    /\ turn \in Nat /\ turn <= MaxTurns /\ reemit \in BOOLEAN
    /\ asked \subseteq Requests /\ born \subseteq Requests /\ results \subseteq Requests
    /\ taken \subseteq Decisions

\* A request is asked once and decided once, and is not asked when it is decided.
Asking ==
    /\ asked \subseteq born /\ results \subseteq born \ asked
    /\ \A d \in taken : d.request \in born \ asked

\* Where in the session eve is.
Moving ==
    /\ phase \in {"none", "taken", "parked"} => turn < MaxTurns
    /\ phase \in {"none", "taken"} => (reemit <=> asked # {})
    /\ phase = "none" => turn = 0 /\ asked = {}
    /\ phase \in {"settled", "parked"} => ~reemit

EveInv == EveType /\ Asking /\ Moving

BoardType ==
    board \in [seen : BOOLEAN, waiting : BOOLEAN, terminal : BOOLEAN,
               token : Nat, turnId : Nat, pending : SUBSET Requests]

\* The snapshot is of this turn, and shows a token of a turn that has parked.
Current ==
    /\ board.token <= turn
    /\ IF phase = "gone" THEN board = EmptySnapshot ELSE board.turnId = turn

\* What the snapshot shows of the requests.
Shown ==
    /\ board.waiting => phase \in {"parked", "taken"}
    /\ board.token = turn => phase \in {"none", "parked", "taken", "gone"}
    /\ phase = "parked" => board.waiting /\ ~board.terminal /\ board.token = turn
    /\ phase \in {"settled", "parked"} => board.pending = asked
    /\ phase = "running" =>
         board.pending \subseteq asked /\ (reemit \/ board.pending = asked)
    /\ phase = "over" => board.terminal

BoardInv == BoardType /\ Current /\ Shown

CallRecords ==
    [pc : {"idle", "answer", "audit", "inserted", "done"}, token : Turns,
     request : Requests \cup {None}, answer : Answers, turn : Turns, stray : BOOLEAN,
     end : {"none", "rejected", "unknown", "dead", "audited", "unaudited", "sent",
            "mismatch"}]

CallType == call \in [Calls -> CallRecords]

\* An approver on its way comes with a token of its snapshot's turn or an older,
\* and with a request that is still asked if the token is still good.
Answering(c) ==
    call[c].pc = "answer" =>
        /\ call[c].token <= call[c].turn /\ call[c].turn <= turn
        /\ call[c].request \in Requests
        /\ call[c].token = turn => /\ phase \in {"parked", "taken", "gone"}
                                   /\ phase = "parked" => call[c].request \in asked

\* The decision that the call is about to put on record.
DecisionOf(c) == [by |-> c, request |-> call[c].request, answer |-> call[c].answer,
                  turn |-> call[c].turn]

Auditing(c) ==
    call[c].pc \in {"audit", "inserted"} =>
        /\ call[c].request \in Requests
        /\ call[c].stray \/ DecisionOf(c) \in taken

Told(c) ==
    /\ call[c].pc \in {"idle", "answer"} => \A d \in taken : d.by # c
    /\ call[c].pc \in {"idle", "answer", "audit"} => \A w \in rows : w.by # c
    /\ call[c].pc = "inserted" => \E w \in rows : w.by = c
    /\ call[c].pc = "done" =>
         LET decided == \E d \in taken : d.by = c
             logged  == \E w \in rows : w.by = c
             how     == call[c].end
         IN /\ how = "audited" => logged
            /\ how \in {"audited", "unaudited"} => decided \/ call[c].stray
            /\ decided /\ ~logged => how \in {"unaudited", "unknown", "dead"}
            /\ logged => how \in {"audited", "unaudited", "dead"}

CallInv == CallType /\ \A c \in Approvers : Answering(c) /\ Auditing(c) /\ Told(c)

\* The log as its reader sees it.
Shelf == {[by |-> w.by, request |-> w.request, answer |-> w.answer, turn |-> w.turn] :
             w \in {x \in rows : ~x.stray}}

ForkRecords ==
    [pc : {"idle", "shown", "create", "wait", "send", "done"},
     plan : Nat, first : Nat, length : Nat, at : Nat, token : Turns, spent : Turns,
     late : BOOLEAN, delivered : Nat,
     end : {"none", "refused", "complete", "error", "ended", "human", "timeout",
            "mismatch", "rejected", "unanswered", "dead"}]

ForkType == fork \in ForkRecords

\* The replay has no session before it created one, and the token it sends with
\* is one of a park that had nothing to ask.
ForkInv ==
    /\ ForkType
    /\ fork.pc \in {"shown", "create"} => phase = "none"
    /\ fork.pc = "send" =>
         /\ fork.token <= turn
         /\ fork.token = turn => /\ phase \in {"parked", "taken", "gone"}
                                 /\ phase = "parked" => asked = {}

\* What the rest of the invariant does not speak of.
Stock ==
    /\ rows \subseteq Rows /\ messages \in Nat /\ sent \in Seq(Nat)
    /\ faults \in Nat /\ faults <= MaxFaults

Core == EveInv /\ BoardInv /\ CallInv /\ ForkInv

IInv == Core /\ Stock

LEMMA Bounds == /\ MaxTurns \in Nat /\ MaxTurns > 0 /\ Lookback \in Nat
                /\ None \notin Requests /\ Approvers \cap Senders = {}
                /\ MaxFaults \in Nat
  BY SessionAssumption

-----------------------------------------------------------------------------
(* eve publishes.                                                          *)

LEMMA InitHolds == Init => Core
<1> SUFFICES ASSUME Init PROVE Core
  OBVIOUS
<1>1. EveInv
  <2>0. /\ phase = "none" /\ turn = 0 /\ asked = {} /\ born = {}
        /\ reemit = FALSE /\ results = {} /\ taken = {}
    BY DEF Init
  <2>1. EveType
    <3>1. reemit \in BOOLEAN
      BY <2>0
    <3>2. turn \in Nat /\ turn <= MaxTurns
      BY <2>0, Bounds
    <3> QED
      BY <2>0, <3>1, <3>2 DEF EveType
  <2>2. Asking /\ Moving
    BY <2>0, Bounds DEF Asking, Moving
  <2> QED
    BY <2>1, <2>2 DEF EveInv
<1>2. BoardInv
  BY Bounds DEF Init, BoardInv, BoardType, Current, Shown, EmptySnapshot
<1>3. CallInv
  <2>1. CallType
    <3>1. NoCall \in CallRecords
      BY Bounds DEF NoCall, CallRecords, Answers, Turns
    <3> QED
      BY <3>1 DEF Init, CallType
  <2>2. ASSUME NEW c \in Approvers
        PROVE  call[c].pc = "idle" /\ taken = {} /\ rows = {}
    BY DEF Init, NoCall, Calls
  <2> QED
    BY <2>1, <2>2 DEF CallInv, Answering, Auditing, Told
<1>4. ForkInv
  BY Bounds DEF Init, NoFork, ForkInv, ForkType, ForkRecords, Turns
<1> QED
  BY <1>1, <1>2, <1>3, <1>4 DEF Core

\* What a step may do to the park that a token or an answer was taken from.
Paced ==
    /\ turn' \in Nat /\ turn <= turn'
    /\ \/ turn < turn'
       \/ phase' \in {"taken", "gone"}
       \/ phase \notin {"parked", "taken", "gone"}
       \/ phase' = phase /\ asked' = asked

\* A call that the step is not of, and that it adds no decision or row for.
LEMMA CallStands ==
    ASSUME EveType, CallType, Paced, NEW c \in Approvers,
           Answering(c), Auditing(c), Told(c), call'[c] = call[c],
           taken \subseteq taken', \A d \in taken' \ taken : d.by # c,
           rows \subseteq rows', \A w \in rows' \ rows : w.by # c
    PROVE  Answering(c)' /\ Auditing(c)' /\ Told(c)'
<1>1. turn \in Nat /\ call[c].turn \in Nat /\ call[c].token \in Nat
  BY Bounds DEF EveType, CallType, CallRecords, Calls, Turns
<1>2. Answering(c)'
  BY <1>1 DEF Answering, Paced
<1>3. Auditing(c)'
  BY DEF Auditing, DecisionOf
<1>4. Told(c)'
  <2>1. /\ (\E d \in taken' : d.by = c) <=> (\E d \in taken : d.by = c)
        /\ (\E w \in rows' : w.by = c) <=> (\E w \in rows : w.by = c)
    OBVIOUS
  <2> QED
    BY <2>1 DEF Told
<1> QED
  BY <1>2, <1>3, <1>4

\* No call is served by the step.
LEMMA CallsStand ==
    ASSUME EveType, CallInv, UNCHANGED <<call, rows, taken>>, Paced
    PROVE  CallInv'
<1>1. CallType'
  BY DEF CallInv, CallType, Calls, CallRecords, Answers
<1>2. ASSUME NEW c \in Approvers
      PROVE  Answering(c)' /\ Auditing(c)' /\ Told(c)'
  BY <1>2, CallStands DEF CallInv
<1> QED
  BY <1>1, <1>2 DEF CallInv

LEMMA ForkStands ==
    ASSUME EveType, ForkInv, UNCHANGED fork, Paced,
           phase' = phase \/ fork.pc \notin {"shown", "create"}
    PROVE  ForkInv'
<1>1. ForkType'
  BY DEF ForkInv, ForkType, Turns
<1>2. turn \in Nat /\ fork.token \in Nat
  BY Bounds DEF EveType, ForkInv, ForkType, ForkRecords, Turns
<1> QED
  BY <1>1, <1>2 DEF ForkInv, Paced

LEMMA TurnStartedKeeps == ASSUME Core, TurnStarted PROVE Core'
<1>0. /\ phase = "taken" /\ phase' = "running" /\ turn' = turn + 1
      /\ board' = OnTurnStarted(board, turn + 1)
      /\ UNCHANGED <<asked, born, reemit, results, taken, call, rows, fork>>
  BY DEF TurnStarted
<1>1. turn' \in Nat /\ turn' <= MaxTurns /\ turn <= turn'
  BY <1>0, Bounds DEF Core, EveInv, EveType, Moving
<1>2. EveType'
  BY <1>0, <1>1 DEF Core, EveInv, EveType
<1>3. Asking' /\ Moving'
  BY <1>0 DEF Core, EveInv, Asking, Moving
<1>4. /\ BoardType'
      /\ board'.turnId = turn' /\ ~board'.waiting /\ board'.pending = {}
      /\ board'.token = board.token
  BY <1>0, <1>1 DEF Core, BoardInv, BoardType, OnTurnStarted
<1>5. board.token \in Nat /\ board.token <= turn /\ turn \in Nat
  BY DEF Core, BoardInv, BoardType, Current, EveInv, EveType
<1>6. Current'
  BY <1>0, <1>4, <1>5 DEF Current
<1>7. Shown'
  BY <1>0, <1>4, <1>5 DEF Shown, Core, EveInv, Moving
<1>8. Paced
  BY <1>0, <1>1, <1>5 DEF Paced
<1>9. CallInv' /\ ForkInv'
  BY <1>0, <1>8, CallsStand, ForkStands DEF Core, EveInv, ForkInv
<1> QED
  BY <1>2, <1>3, <1>4, <1>6, <1>7, <1>8, <1>9 DEF Core, EveInv, BoardInv

LEMMA InputRequestedKeeps == ASSUME Core, InputRequested PROVE Core'
<1>0. PICK new \in SUBSET (Requests \ born) :
        /\ asked' = asked \cup new /\ born' = born \cup new
        /\ board' = OnInputRequested(board, asked \cup new)
  BY DEF InputRequested
<1>1. /\ phase = "running" /\ reemit' = FALSE
      /\ UNCHANGED <<phase, turn, results, taken, call, rows, fork>>
  BY DEF InputRequested
<1>2. EveType'
  BY <1>0, <1>1 DEF Core, EveInv, EveType
<1>3. Asking'
  BY <1>0, <1>1 DEF Core, EveInv, Asking, EveType
<1>4. Moving'
  BY <1>1 DEF Moving
<1>5. /\ BoardType'
      /\ board'.turnId = board.turnId /\ board'.waiting = board.waiting
      /\ board'.pending = board.pending \cup (asked \cup new)
      /\ board'.token = board.token
  BY <1>0 DEF Core, BoardInv, BoardType, OnInputRequested, EveInv, EveType
<1>6. Current'
  BY <1>1, <1>5 DEF Current, Core, BoardInv
<1>7. Shown'
  BY <1>0, <1>1, <1>5 DEF Shown, Core, BoardInv
<1>8. Paced
  BY <1>1, <1>0 DEF Core, EveInv, EveType, Paced
<1>9. CallInv' /\ ForkInv'
  BY <1>1, <1>8, CallsStand, ForkStands DEF Core, EveInv, ForkInv
<1> QED
  BY <1>2, <1>3, <1>4, <1>5, <1>6, <1>7, <1>8, <1>9 DEF Core, EveInv, BoardInv

LEMMA ActionResultKeeps == ASSUME Core, NEW r \in Requests, ActionResult(r) PROVE Core'
<1>0. /\ r \in results /\ phase \in {"taken", "running"}
      /\ results' = results \ {r} /\ board' = OnActionResult(board, r)
      /\ UNCHANGED <<phase, turn, asked, born, reemit, taken, call, rows, fork>>
  BY DEF ActionResult
<1>1. EveType' /\ Moving'
  BY <1>0 DEF Core, EveInv, EveType, Moving
<1>2. Asking' /\ r \notin asked
  BY <1>0 DEF Core, EveInv, Asking
<1>3. /\ BoardType'
      /\ board'.turnId = board.turnId /\ board'.waiting = board.waiting
      /\ board'.pending = board.pending \ {r} /\ board'.token = board.token
  BY <1>0 DEF Core, BoardInv, BoardType, OnActionResult
<1>4. Current'
  BY <1>0, <1>3 DEF Current, Core, BoardInv
<1>5. Shown'
  BY <1>0, <1>2, <1>3 DEF Shown, Core, BoardInv
<1>6. Paced
  BY <1>0 DEF Core, EveInv, EveType, Paced
<1>7. CallInv' /\ ForkInv'
  BY <1>0, <1>6, CallsStand, ForkStands DEF Core, EveInv, ForkInv
<1> QED
  BY <1>1, <1>2, <1>3, <1>4, <1>5, <1>6, <1>7 DEF Core, EveInv, BoardInv

LEMMA TurnCompletedKeeps == ASSUME Core, TurnCompleted PROVE Core'
<1>0. /\ phase = "running" /\ ~reemit /\ phase' = "settled"
      /\ UNCHANGED <<turn, board, asked, born, reemit, results, taken, call, rows, fork>>
  BY DEF TurnCompleted, OnTurnCompleted
<1>1. EveType' /\ Asking' /\ Moving'
  BY <1>0 DEF Core, EveInv, EveType, Asking, Moving
<1>2. BoardType' /\ Current' /\ Shown'
  BY <1>0 DEF Core, BoardInv, BoardType, Current, Shown
<1>3. Paced
  BY <1>0 DEF Core, EveInv, EveType, Paced
<1>4. CallInv' /\ ForkInv'
  BY <1>0, <1>3, CallsStand, ForkStands DEF Core, EveInv, ForkInv
<1> QED
  BY <1>1, <1>2, <1>3, <1>4 DEF Core, EveInv, BoardInv

LEMMA SessionWaitingKeeps == ASSUME Core, SessionWaiting PROVE Core'
<1>0. /\ phase = "settled" /\ turn < MaxTurns /\ phase' = "parked"
      /\ board' = OnWaiting(board, turn)
      /\ UNCHANGED <<turn, asked, born, reemit, results, taken, call, rows, fork>>
  BY DEF SessionWaiting
<1>1. EveType' /\ Asking' /\ Moving'
  BY <1>0 DEF Core, EveInv, EveType, Asking, Moving
<1>2. turn \in Nat
  BY DEF Core, EveInv, EveType
<1>3. /\ BoardType'
      /\ board'.turnId = board.turnId /\ board'.waiting /\ ~board'.terminal
      /\ board'.pending = board.pending /\ board'.token = turn
  BY <1>0, <1>2 DEF Core, BoardInv, BoardType, OnWaiting
<1>4. Current' /\ Shown'
  BY <1>0, <1>2, <1>3 DEF Core, BoardInv, Current, Shown
<1>5. Paced
  BY <1>0 DEF Core, EveInv, EveType, Paced
<1>6. CallInv' /\ ForkInv'
  BY <1>0, <1>5, CallsStand, ForkStands DEF Core, EveInv, ForkInv
<1> QED
  BY <1>1, <1>3, <1>4, <1>5, <1>6 DEF Core, EveInv, BoardInv

LEMMA SessionEndedKeeps == ASSUME Core, SessionEnded PROVE Core'
<1>0. /\ phase \in {"running", "settled"} /\ phase' = "over"
      /\ asked' = {} /\ reemit' = FALSE /\ results' = {}
      /\ board' = OnEnded(board)
      /\ UNCHANGED <<turn, born, taken, call, rows, fork>>
  BY DEF SessionEnded
<1>1. EveType' /\ Asking' /\ Moving'
  BY <1>0 DEF Core, EveInv, EveType, Asking, Moving
<1>2. /\ BoardType'
      /\ board'.turnId = board.turnId /\ ~board'.waiting /\ board'.terminal
      /\ board'.token = board.token
  BY <1>0 DEF Core, BoardInv, BoardType, OnEnded
<1>3. Current' /\ Shown'
  BY <1>0, <1>2 DEF Core, BoardInv, Current, Shown
<1>4. Paced
  BY <1>0 DEF Core, EveInv, EveType, Paced
<1>5. CallInv' /\ ForkInv'
  BY <1>0, <1>4, CallsStand, ForkStands DEF Core, EveInv, ForkInv
<1> QED
  BY <1>1, <1>2, <1>3, <1>4, <1>5 DEF Core, EveInv, BoardInv

LEMMA ForgottenKeeps == ASSUME Core, Forgotten PROVE Core'
<1>0. /\ phase # "none" /\ phase' = "gone"
      /\ asked' = {} /\ reemit' = FALSE /\ results' = {}
      /\ board' = EmptySnapshot
      /\ UNCHANGED <<turn, born, taken, call, rows, fork>>
  BY DEF Forgotten
<1>1. EveType' /\ Asking' /\ Moving'
  BY <1>0 DEF Core, EveInv, EveType, Asking, Moving
<1>2. BoardType' /\ Current' /\ Shown'
  BY <1>0 DEF Core, EveInv, EveType, BoardType, EmptySnapshot, Current, Shown
<1>3. Paced
  BY <1>0 DEF Core, EveInv, EveType, Paced
<1>4. CallInv' /\ ForkInv'
  BY <1>0, <1>3, CallsStand, ForkStands DEF Core, EveInv, ForkInv
<1> QED
  BY <1>1, <1>2, <1>3, <1>4 DEF Core, EveInv, BoardInv

-----------------------------------------------------------------------------
(* eve takes a follow-up, or does not.                                     *)

LEMMA ResumeKeeps ==
    ASSUME EveInv, BoardInv, NEW ds \in SUBSET Decisions, phase = "parked", Resume(ds)
    PROVE  /\ EveInv' /\ BoardInv' /\ Paced
           /\ taken' = taken \cup {d \in ds : d.request \in asked}
<1>1. /\ phase' = "taken" /\ UNCHANGED <<turn, born, board>>
      /\ asked' \subseteq asked /\ reemit' = (asked' # {})
      /\ taken' = taken \cup {d \in ds : d.request \in asked}
  BY DEF Resume
<1>2. asked' = asked \ {d.request : d \in {e \in ds : e.request \in asked}}
  BY DEF Resume
<1>3. results' \subseteq {d.request : d \in {e \in ds : e.request \in asked}}
  BY DEF Resume
<1>4. \A d \in ds : d.request \in asked => d.request \in asked \ asked'
  BY <1>2
<1>5. results' \subseteq asked \ asked'
  BY <1>2, <1>3
<1>6. EveType'
  BY <1>1, <1>5 DEF EveInv, EveType
<1>7. Asking'
  BY <1>1, <1>4, <1>5 DEF EveInv, Asking
<1>8. Moving'
  BY <1>1 DEF EveInv, Moving
<1>9. BoardInv'
  BY <1>1 DEF BoardInv, BoardType, Current, Shown
<1>10. Paced
  BY <1>1 DEF EveInv, EveType, Paced
<1> QED
  BY <1>1, <1>6, <1>7, <1>8, <1>9, <1>10 DEF EveInv

\* eve publishes nothing and takes nothing.
LEMMA EveStands ==
    ASSUME EveInv, BoardInv, UNCHANGED <<eve, board>>
    PROVE  EveInv' /\ BoardInv' /\ Paced /\ taken' = taken /\ phase' = phase
<1>1. UNCHANGED <<phase, turn, asked, born, reemit, results, taken, board>>
  BY DEF eve
<1>2. EveType' /\ Asking' /\ Moving'
  BY <1>1 DEF EveInv, EveType, Asking, Moving
<1>3. BoardInv'
  BY <1>1 DEF BoardInv, BoardType, Current, Shown
<1>4. Paced
  BY <1>1 DEF EveInv, EveType, Paced
<1> QED
  BY <1>1, <1>2, <1>3, <1>4 DEF EveInv

LEMMA FollowUpKeeps ==
    ASSUME EveInv, BoardInv, NEW ds \in SUBSET Decisions, NEW t, NEW reply \in Replies,
           FollowUp(t, ds, reply)
    PROVE  /\ EveInv' /\ BoardInv' /\ Paced
           /\ \/ /\ phase = "parked" /\ t = turn /\ reply \in {"accepted", "lost"}
                 /\ phase' = "taken"
                 /\ taken' = taken \cup {d \in ds : d.request \in asked}
              \/ /\ reply \in {"rejected", "elsewhere", "lost"}
                 /\ taken' = taken /\ phase' = phase
<1>1. CASE phase = "parked" /\ t = turn /\ reply \in {"accepted", "lost"} /\ Resume(ds)
  <2>1. phase' = "taken"
    BY <1>1 DEF Resume
  <2> QED
    BY <1>1, <2>1, ResumeKeeps
<1>2. CASE reply # "accepted" /\ UNCHANGED <<eve, board>>
  BY <1>2, EveStands DEF Replies
<1> QED
  BY <1>1, <1>2 DEF FollowUp

\* One call is served: the decisions and rows that the step adds are its own.
LEMMA ServedKeeps ==
    ASSUME EveType, CallInv, Paced, NEW c \in Calls, NEW k \in CallRecords,
           call' = [call EXCEPT ![c] = k],
           taken \subseteq taken', \A d \in taken' \ taken : d.by = c,
           rows \subseteq rows', \A w \in rows' \ rows : w.by = c,
           c \in Approvers => Answering(c)' /\ Auditing(c)' /\ Told(c)'
    PROVE  CallInv'
<1>1. CallType'
  BY DEF CallInv, CallType
<1>2. ASSUME NEW x \in Approvers, x # c
      PROVE  Answering(x)' /\ Auditing(x)' /\ Told(x)'
  <2>1. call'[x] = call[x]
    BY <1>2 DEF CallInv, CallType, Calls
  <2> QED
    BY <1>2, <2>1, CallStands DEF CallInv
<1> QED
  BY <1>1, <1>2 DEF CallInv

-----------------------------------------------------------------------------
(* The routes.                                                             *)

\* A step of a route that eve has no part in.
LEMMA RouteKeeps ==
    ASSUME Core, UNCHANGED <<eve, board>>, CallInv', ForkInv'
    PROVE  Core'
  BY EveStands DEF Core

LEMMA ApproveReadKeeps == ASSUME Core, NEW c \in Approvers, ApproveRead(c) PROVE Core'
<1>0. /\ call[c].pc = "idle" /\ board.seen /\ c \in Calls
      /\ UNCHANGED <<eve, board, rows, fork>>
  BY DEF ApproveRead, Calls
<1>1. PICK r \in board.pending, t \in Published, a \in Answers :
        call' = [call EXCEPT ![c] = Asked(call[c], r, t, a)]
  <2>1. /\ \A rid \in Requests \cup {None} : Targets(rid) \subseteq board.pending
        /\ \A r \in Requests : Offers(r) \subseteq Answers
    BY DEF Targets, Offers, Answers
  <2>2. board.pending \subseteq Requests
    BY DEF Core, BoardInv, BoardType
  <2> QED
    BY <2>1, <2>2 DEF ApproveRead
<1>2. /\ t \in Nat /\ 1 <= t /\ t <= board.token /\ board.token <= turn /\ turn \in Nat
      /\ board.token \in Nat /\ board.turnId \in Nat /\ r \in Requests
  BY DEF Core, EveInv, EveType, BoardInv, BoardType, Current, Published
<1>3. phase # "gone" /\ board.turnId = turn
  BY <1>0 DEF Core, BoardInv, Current, EmptySnapshot
<1>4. t = turn => /\ phase \in {"parked", "taken"}
                  /\ phase = "parked" => r \in asked
  <2> SUFFICES ASSUME t = turn
               PROVE  phase \in {"parked", "taken"} /\ (phase = "parked" => r \in asked)
    OBVIOUS
  <2>1. board.token = turn /\ turn # 0
    BY <1>2
  <2>2. phase \in {"none", "parked", "taken", "gone"} /\ (phase = "parked" => board.pending = asked)
    BY <2>1 DEF Core, BoardInv, Shown
  <2>3. phase # "none"
    BY <2>1 DEF Core, EveInv, Moving
  <2> QED
    BY <1>3, <2>2, <2>3
<1>5. call[c] \in CallRecords
  BY <1>0 DEF Core, CallInv, CallType
<1> DEFINE k == Asked(call[c], r, t, a)
<1>13. t \in Turns /\ turn \in Turns
  BY <1>2, Bounds DEF Core, EveInv, EveType, Turns
<1>6. /\ k \in CallRecords
      /\ k.pc = "answer" /\ k.token = t /\ k.turn = turn /\ k.request = r
  BY <1>2, <1>3, <1>5, <1>13 DEF CallRecords, Asked
<1>7. call' = [call EXCEPT ![c] = k]
  BY <1>1
<1> HIDE DEF k
<1>8. call'[c] = k
  BY <1>0, <1>7 DEF Core, CallInv, CallType
<1>9. UNCHANGED <<phase, turn, asked, taken, rows>>
  BY <1>0 DEF eve
<1>10. Answering(c)' /\ Auditing(c)' /\ Told(c)'
  <2>1. Answering(c)'
    BY <1>2, <1>3, <1>4, <1>6, <1>8, <1>9 DEF Answering
  <2>2. Auditing(c)'
    BY <1>6, <1>8 DEF Auditing
  <2>3. Told(c)
    BY DEF Core, CallInv
  <2>4. Told(c)'
    BY <1>0, <1>6, <1>8, <1>9, <2>3 DEF Told
  <2> QED
    BY <2>1, <2>2, <2>4
<1>11. Paced
  BY <1>2, <1>9 DEF Paced
<1>12. CallInv'
  BY <1>0, <1>6, <1>7, <1>9, <1>10, <1>11, ServedKeeps DEF Core, EveInv
<1>14. ForkInv'
  BY <1>0, <1>9, <1>11, ForkStands DEF Core, EveInv
<1> QED
  BY <1>0, <1>12, <1>14, RouteKeeps

LEMMA DoneIs ==
    ASSUME NEW k \in CallRecords, NEW how \in {"rejected", "unknown", "dead", "audited",
                                               "unaudited", "sent", "mismatch"}
    PROVE  /\ Done(k, how) \in CallRecords
           /\ Done(k, how).pc = "done" /\ Done(k, how).end = how
           /\ Done(k, how).stray = k.stray
<1>1. NoCall \in CallRecords
  BY Bounds DEF NoCall, CallRecords, Answers, Turns
<1>2. k.stray \in BOOLEAN
  BY DEF CallRecords
<1> QED
  BY <1>1, <1>2 DEF Done, CallRecords

LEMMA AfterAnswerIs ==
    ASSUME NEW k \in CallRecords, NEW reply \in Replies
    PROVE  /\ AfterAnswer(k, reply) \in CallRecords
           /\ reply \in {"accepted", "elsewhere"} =>
                /\ AfterAnswer(k, reply).pc = "audit"
                /\ AfterAnswer(k, reply).request = k.request
                /\ AfterAnswer(k, reply).answer = k.answer
                /\ AfterAnswer(k, reply).turn = k.turn
                /\ reply = "elsewhere" => AfterAnswer(k, reply).stray
           /\ reply \in {"rejected", "lost"} =>
                /\ AfterAnswer(k, reply).pc = "done"
                /\ reply = "rejected" => AfterAnswer(k, reply).end = "rejected"
                /\ reply = "lost" => AfterAnswer(k, reply).end = "unknown"
<1>1. CASE reply = "accepted"
  BY <1>1 DEF AfterAnswer, CallRecords
<1>2. CASE reply = "elsewhere"
  BY <1>2 DEF AfterAnswer, CallRecords
<1>3. CASE reply \in {"rejected", "lost"}
  BY <1>3, DoneIs DEF AfterAnswer
<1> QED
  BY <1>1, <1>2, <1>3 DEF Replies

LEMMA ApproveAnswerKeeps ==
    ASSUME Core, NEW c \in Approvers, ApproveAnswer(c)
    PROVE  Core'
<1> DEFINE mine == [by |-> c, request |-> call[c].request, answer |-> call[c].answer,
                    turn |-> turn]
<1>0. /\ call[c].pc = "answer" /\ c \in Calls
      /\ UNCHANGED <<rows, fork>>
  BY DEF ApproveAnswer, Calls
<1>1. PICK reply \in Replies :
        /\ FollowUp(call[c].token, {mine}, reply)
        /\ call' = [call EXCEPT ![c] = AfterAnswer(call[c], reply)]
  BY DEF ApproveAnswer
<1>2. call[c] \in CallRecords /\ Answering(c) /\ Told(c)
  BY <1>0 DEF Core, CallInv, CallType
<1>3. mine \in Decisions
  BY <1>0, <1>2 DEF Core, EveInv, EveType, Decisions, Turns, Answering, CallRecords
<1>4. /\ EveInv' /\ BoardInv' /\ Paced
      /\ \/ /\ phase = "parked" /\ call[c].token = turn /\ reply \in {"accepted", "lost"}
            /\ phase' = "taken"
            /\ taken' = taken \cup {d \in {mine} : d.request \in asked}
         \/ /\ reply \in {"rejected", "elsewhere", "lost"}
            /\ taken' = taken /\ phase' = phase
  BY <1>1, <1>3, FollowUpKeeps DEF Core
<1> DEFINE k == AfterAnswer(call[c], reply)
<1>5. call'[c] = k /\ call' = [call EXCEPT ![c] = k]
  BY <1>0, <1>1 DEF Core, CallInv, CallType
<1>6. /\ k \in CallRecords
      /\ reply \in {"accepted", "elsewhere"} =>
           /\ k.pc = "audit" /\ k.request = call[c].request
           /\ k.answer = call[c].answer /\ k.turn = call[c].turn
           /\ reply = "elsewhere" => k.stray
      /\ reply \in {"rejected", "lost"} =>
           /\ k.pc = "done"
           /\ reply = "rejected" => k.end = "rejected"
           /\ reply = "lost" => k.end = "unknown"
  BY <1>2, AfterAnswerIs
<1> HIDE DEF k
<1>7. taken \subseteq taken' /\ \A d \in taken' \ taken : d = mine
  BY <1>4
<1>8. reply = "accepted" => call[c].turn = turn /\ mine \in taken'
  <2> SUFFICES ASSUME reply = "accepted" PROVE call[c].turn = turn /\ mine \in taken'
    OBVIOUS
  <2>1. /\ phase = "parked" /\ call[c].token = turn
        /\ taken' = taken \cup {d \in {mine} : d.request \in asked}
    BY <1>4
  <2>2. call[c].turn = turn
    BY <1>0, <1>2, <2>1 DEF Answering, CallRecords, Core, EveInv, EveType, Turns
  <2>3. mine.request \in asked
    BY <1>0, <1>2, <2>1 DEF Answering
  <2> QED
    BY <2>1, <2>2, <2>3
<1>9. mine.by = c
  OBVIOUS
<1>10. reply = "accepted" => DecisionOf(c)' \in taken'
  BY <1>5, <1>6, <1>8 DEF DecisionOf
<1> HIDE DEF mine
<1>11. Answering(c)' /\ Auditing(c)'
  <2>1. call[c].request \in Requests
    BY <1>0, <1>2 DEF Answering
  <2> QED
    BY <1>5, <1>6, <1>10, <2>1 DEF Answering, Auditing, Replies
<1>12. Told(c)'
  <2>1. (\A d \in taken : d.by # c) /\ (\A w \in rows' : w.by # c)
    BY <1>0, <1>2 DEF Told
  <2>2. CASE reply \in {"accepted", "elsewhere"}
    BY <1>5, <1>6, <2>1, <2>2 DEF Told
  <2>3. CASE reply = "rejected"
    BY <1>4, <1>5, <1>6, <2>1, <2>3 DEF Told
  <2>4. CASE reply = "lost"
    BY <1>5, <1>6, <2>1, <2>4 DEF Told
  <2> QED
    BY <2>2, <2>3, <2>4 DEF Replies
<1>13. CallInv'
  BY <1>0, <1>4, <1>5, <1>6, <1>7, <1>9, <1>11, <1>12, ServedKeeps DEF Core, EveInv
<1>14. ForkInv'
  <2>1. phase' = phase \/ fork.pc \notin {"shown", "create"}
    BY <1>4 DEF Core, ForkInv
  <2> QED
    BY <1>0, <1>4, <2>1, ForkStands DEF Core, EveInv
<1> QED
  BY <1>4, <1>13, <1>14 DEF Core

LEMMA ApproveInsertKeeps ==
    ASSUME Core, NEW c \in Approvers, ApproveInsert(c)
    PROVE  Core'
<1>0. /\ call[c].pc = "audit" /\ c \in Calls
      /\ rows' = rows \cup {Row(c)}
      /\ UNCHANGED <<eve, board, fork>>
  BY DEF ApproveInsert, Calls
<1>2. call[c] \in CallRecords /\ Auditing(c) /\ Told(c)
  BY <1>0 DEF Core, CallInv, CallType
<1> DEFINE k == [call[c] EXCEPT !.pc = "inserted"]
<1>3. call'[c] = k /\ call' = [call EXCEPT ![c] = k]
  BY <1>0 DEF ApproveInsert, Core, CallInv, CallType
<1>4. /\ k \in CallRecords /\ k.pc = "inserted" /\ k.stray = call[c].stray
      /\ k.request = call[c].request /\ k.answer = call[c].answer /\ k.turn = call[c].turn
  BY <1>2 DEF CallRecords
<1> HIDE DEF k
<1>5. UNCHANGED <<phase, turn, asked, taken>> /\ Row(c).by = c
  BY <1>0 DEF eve, Row
<1>6. rows \subseteq rows' /\ \A w \in rows' \ rows : w.by = c
  BY <1>0, <1>5
<1>7. DecisionOf(c)' = DecisionOf(c)
  BY <1>3, <1>4 DEF DecisionOf
<1>8. Answering(c)' /\ Auditing(c)'
  BY <1>0, <1>2, <1>3, <1>4, <1>5, <1>7 DEF Answering, Auditing
<1>9. Told(c)'
  BY <1>0, <1>3, <1>4, <1>5 DEF Told
<1>10. Paced
  BY <1>5 DEF Paced, Core, EveInv, EveType
<1>11. CallInv'
  BY <1>0, <1>3, <1>4, <1>5, <1>6, <1>8, <1>9, <1>10, ServedKeeps DEF Core, EveInv
<1>12. ForkInv'
  BY <1>0, <1>5, <1>10, ForkStands DEF Core, EveInv
<1> QED
  BY <1>0, <1>11, <1>12, RouteKeeps

LEMMA ApproveAuditKeeps ==
    ASSUME Core, NEW c \in Approvers, ApproveAudit(c)
    PROVE  Core'
<1>0. /\ call[c].pc \in {"audit", "inserted"} /\ c \in Calls
      /\ UNCHANGED <<eve, board, rows, fork>>
  BY DEF ApproveInsert, ApproveAudit, Calls
<1>1. PICK how \in {"audited", "unaudited"} :
        /\ how = "audited" => call[c].pc = "inserted"
        /\ call' = [call EXCEPT ![c] = Done(call[c], how)]
  BY DEF ApproveAudit
<1>2. call[c] \in CallRecords /\ Auditing(c) /\ Told(c)
  BY <1>0 DEF Core, CallInv, CallType
<1> DEFINE k == Done(call[c], how)
<1>3. call'[c] = k /\ call' = [call EXCEPT ![c] = k]
  BY <1>0, <1>1 DEF Core, CallInv, CallType
<1>4. k \in CallRecords /\ k.pc = "done" /\ k.end = how /\ k.stray = call[c].stray
  BY <1>2, DoneIs
<1> HIDE DEF k
<1>5. UNCHANGED <<phase, turn, asked, taken, rows>>
  BY <1>0 DEF eve
<1>7. (\E d \in taken : d.by = c) \/ call[c].stray
  BY <1>0, <1>2 DEF Auditing, DecisionOf
<1>8. how = "audited" => \E w \in rows : w.by = c
  BY <1>1, <1>2 DEF Told
<1>9. Answering(c)' /\ Auditing(c)'
  BY <1>3, <1>4 DEF Answering, Auditing
<1>10. Told(c)'
  BY <1>3, <1>4, <1>5, <1>7, <1>8 DEF Told
<1>11. Paced
  BY <1>5 DEF Paced, Core, EveInv, EveType
<1>12. CallInv'
  BY <1>0, <1>3, <1>4, <1>5, <1>9, <1>10, <1>11, ServedKeeps DEF Core, EveInv
<1>13. ForkInv'
  BY <1>0, <1>5, <1>11, ForkStands DEF Core, EveInv
<1> QED
  BY <1>0, <1>12, <1>13, RouteKeeps

LEMMA MessageReadKeeps ==
    ASSUME Core, NEW c \in Senders, MessageRead(c)
    PROVE  Core'
<1>0. /\ c \in Calls /\ c \notin Approvers
      /\ UNCHANGED <<eve, board, rows, fork>>
  BY Bounds DEF MessageRead, Calls
<1>1. PICK t \in Published, provided \in BOOLEAN :
        call' = [call EXCEPT ![c] = [call[c] EXCEPT !.pc = "answer", !.token = t]]
  BY DEF MessageRead
<1>2. t \in Turns
  BY Bounds DEF Core, EveInv, EveType, BoardInv, BoardType, Current, Published, Turns
<1>3. call[c] \in CallRecords
  BY <1>0 DEF Core, CallInv, CallType
<1>4. [call[c] EXCEPT !.pc = "answer", !.token = t] \in CallRecords
  BY <1>2, <1>3 DEF CallRecords
<1>5. UNCHANGED <<phase, turn, asked, taken, rows>>
  BY <1>0 DEF eve
<1>6. Paced
  BY <1>5 DEF Paced, Core, EveInv, EveType
<1>7. CallInv'
  BY <1>0, <1>1, <1>4, <1>5, <1>6, ServedKeeps DEF Core, EveInv
<1>8. ForkInv'
  BY <1>0, <1>5, <1>6, ForkStands DEF Core, EveInv
<1> QED
  BY <1>0, <1>7, <1>8, RouteKeeps

LEMMA MessageSendKeeps ==
    ASSUME Core, NEW c \in Senders, MessageSend(c)
    PROVE  Core'
<1>0. /\ c \in Calls /\ c \notin Approvers /\ UNCHANGED <<rows, fork>>
  BY Bounds DEF MessageSend, Calls
<1>1. PICK reply \in Replies :
        /\ FollowUp(call[c].token, {}, reply)
        /\ call' = [call EXCEPT ![c] =
             Done(@, CASE reply = "accepted"  -> "sent"
                       [] reply = "elsewhere" -> "mismatch"
                       [] reply = "rejected"  -> "rejected"
                       [] reply = "lost"      -> "unknown")]
  BY DEF MessageSend
<1>2. PICK how \in {"sent", "mismatch", "rejected", "unknown"} :
        call' = [call EXCEPT ![c] = Done(call[c], how)]
  BY <1>1 DEF Replies
<1>3. call[c] \in CallRecords
  BY <1>0 DEF Core, CallInv, CallType
<1>4. Done(call[c], how) \in CallRecords
  BY <1>3, DoneIs
<1>5. /\ EveInv' /\ BoardInv' /\ Paced /\ taken' = taken
      /\ phase' = phase \/ phase = "parked"
  <2>1. {} \in SUBSET Decisions /\ {d \in {} : d.request \in asked} = {}
    OBVIOUS
  <2>2. /\ EveInv' /\ BoardInv' /\ Paced
        /\ \/ phase = "parked" /\ taken' = taken \cup {d \in {} : d.request \in asked}
           \/ taken' = taken /\ phase' = phase
    BY <1>1, <2>1, FollowUpKeeps DEF Core
  <2> QED
    BY <2>1, <2>2
<1>6. CallInv'
  BY <1>0, <1>2, <1>4, <1>5, ServedKeeps DEF Core, EveInv
<1>7. ForkInv'
  BY <1>0, <1>5, ForkStands DEF Core, EveInv, ForkInv
<1> QED
  BY <1>5, <1>6, <1>7 DEF Core

\* A session is created, by a replay or another client of eve.
LEMMA StartKeeps ==
    ASSUME EveInv, BoardInv, phase = "none", phase' = "taken",
           UNCHANGED <<turn, asked, born, reemit, results, taken, board>>
    PROVE  EveInv' /\ BoardInv' /\ Paced
<1>1. EveType' /\ Asking' /\ Moving'
  BY DEF EveInv, EveType, Asking, Moving
<1>2. BoardType' /\ Current' /\ Shown'
  BY DEF BoardInv, BoardType, Current, Shown
<1>3. Paced
  BY DEF EveInv, EveType, Paced
<1> QED
  BY <1>1, <1>2, <1>3 DEF EveInv, BoardInv

LEMMA SessionStartedKeeps == ASSUME Core, SessionStarted PROVE Core'
<1>0. /\ phase = "none" /\ phase' = "taken" /\ fork.pc = "idle"
      /\ UNCHANGED <<turn, asked, born, reemit, results, taken, board, call, rows, fork>>
  BY DEF SessionStarted
<1>1. EveInv' /\ BoardInv' /\ Paced
  BY <1>0, StartKeeps DEF Core
<1>2. CallInv' /\ ForkInv'
  BY <1>0, <1>1, CallsStand, ForkStands DEF Core, EveInv
<1> QED
  BY <1>1, <1>2 DEF Core

\* A step of the replay that does not reach eve, and does not leave it with a token.
LEMMA ForkMoves ==
    ASSUME Core, UNCHANGED <<eve, board, call, rows>>, fork' \in ForkRecords,
           fork'.pc \in {"shown", "create"} => phase = "none",
           fork'.pc # "send"
    PROVE  Core'
<1>1. UNCHANGED <<phase, turn, asked, taken>>
  BY DEF eve
<1>2. Paced
  BY <1>1 DEF Paced, Core, EveInv, EveType
<1>3. CallInv'
  BY <1>1, <1>2, CallsStand DEF Core, EveInv
<1>4. ForkInv'
  BY <1>1 DEF ForkInv, ForkType
<1> QED
  BY <1>3, <1>4, RouteKeeps

LEMMA ForkEndIs ==
    ASSUME NEW f \in ForkRecords,
           NEW how \in {"refused", "complete", "error", "ended", "human", "timeout",
                        "mismatch", "rejected", "unanswered", "dead"}
    PROVE  ForkEnd(f, how) \in ForkRecords /\ ForkEnd(f, how).pc = "done"
<1>1. 0 \in Turns
  BY Bounds DEF Turns
<1> QED
  BY <1>1 DEF ForkEnd, ForkRecords

LEMMA DeliveredIs ==
    ASSUME NEW f \in ForkRecords, NEW t \in Turns
    PROVE  Delivered(f, t) \in ForkRecords /\ Delivered(f, t).pc \in {"done", "wait"}
<1> DEFINE g == [f EXCEPT !.delivered = @ + 1, !.at = @ + 1, !.spent = t, !.late = FALSE]
<1>1. g \in ForkRecords
  <2>1. f.delivered + 1 \in Nat /\ f.at + 1 \in Nat
    BY DEF ForkRecords
  <2>2. g = [f EXCEPT !.delivered = f.delivered + 1, !.at = f.at + 1, !.spent = t, !.late = FALSE]
    BY DEF ForkRecords
  <2> QED
    BY <2>1, <2>2 DEF ForkRecords
<1>2. Delivered(f, t) = IF g.at > g.length THEN ForkEnd(g, "complete") ELSE [g EXCEPT !.pc = "wait"]
  BY DEF Delivered
<1> HIDE DEF g
<1>3. [g EXCEPT !.pc = "wait"] \in ForkRecords /\ [g EXCEPT !.pc = "wait"].pc = "wait"
  BY <1>1 DEF ForkRecords
<1> QED
  BY <1>1, <1>2, <1>3, ForkEndIs

LEMMA WindowIs ==
    ASSUME messages \in Nat
    PROVE  WindowStart \in Nat /\ Recovered \in Nat
  BY Bounds DEF WindowStart, Recovered

LEMMA ForkPlanKeeps ==
    ASSUME Core, messages \in Nat, ForkShow \/ ForkPost \/ ForkDeadline
    PROVE  Core'
<1>0. fork \in ForkRecords
  BY DEF Core, ForkInv, ForkType
<1>1. CASE ForkShow
  <2>1. /\ phase = "none" /\ UNCHANGED <<eve, board, call, rows>>
        /\ fork' = [fork EXCEPT !.pc = "shown", !.plan = Recovered]
    BY <1>1 DEF ForkShow
  <2>2. fork' \in ForkRecords /\ fork'.pc = "shown"
    BY <1>0, <2>1, WindowIs DEF ForkRecords
  <2> QED
    BY <2>1, <2>2, ForkMoves
<1>2. CASE ForkPost
  <2>0. fork.pc = "shown" /\ UNCHANGED <<eve, board, call, rows>>
    BY <1>2 DEF ForkPost
  <2>1. phase = "none"
    BY <2>0 DEF Core, ForkInv
  <2>2. CASE fork' = ForkEnd(fork, "refused")
    BY <1>0, <2>0, <2>1, <2>2, ForkEndIs, ForkMoves
  <2>3. ASSUME NEW fromTurn \in 1 .. Recovered,
               fork' = [fork EXCEPT !.pc = "create", !.first = WindowStart, !.length = fromTurn]
        PROVE  Core'
    <3>1. WindowStart \in Nat /\ fromTurn \in Nat
      BY WindowIs
    <3>2. fork' \in ForkRecords /\ fork'.pc = "create"
      BY <1>0, <2>3, <3>1 DEF ForkRecords
    <3> QED
      BY <2>0, <2>1, <3>2, ForkMoves
  <2>4. CASE PlanAccepted
    <3>1. \E fromTurn \in 1 .. Recovered :
            fork' = [fork EXCEPT !.pc = "create", !.first = WindowStart, !.length = fromTurn]
      BY <1>2, <2>4 DEF ForkPost
    <3> QED
      BY <2>3, <3>1
  <2>5. CASE ~PlanAccepted
    BY <1>2, <2>2, <2>5 DEF ForkPost
  <2> QED
    BY <2>4, <2>5
<1>3. CASE ForkDeadline
  <2>1. /\ fork.pc = "wait" /\ UNCHANGED <<eve, board, call, rows>>
        /\ fork' = [fork EXCEPT !.late = TRUE]
    BY <1>3 DEF ForkDeadline
  <2>2. fork' \in ForkRecords /\ fork'.pc = "wait"
    BY <1>0, <2>1 DEF ForkRecords
  <2> QED
    BY <2>1, <2>2, ForkMoves
<1> QED
  BY <1>1, <1>2, <1>3

LEMMA ForkCreateKeeps == ASSUME Core, ForkCreate PROVE Core'
<1>0. /\ fork.pc = "create" /\ phase = "none" /\ fork \in ForkRecords
      /\ UNCHANGED <<turn, asked, born, reemit, results, taken, board, call, rows>>
  BY DEF ForkCreate, Core, ForkInv, ForkType
<1>1. fork' \in ForkRecords /\ fork'.pc \in {"done", "wait"}
  <2>1. CASE fork' = ForkEnd(fork, "error")
    BY <1>0, <2>1, ForkEndIs
  <2>2. CASE fork' = Delivered([fork EXCEPT !.at = 1], 0)
    <3>1. [fork EXCEPT !.at = 1] \in ForkRecords
      BY <1>0 DEF ForkRecords
    <3>2. 0 \in Turns
      BY Bounds DEF Turns
    <3> QED
      BY <2>2, <3>1, <3>2, DeliveredIs
  <2> QED
    BY <2>1, <2>2 DEF ForkCreate
<1>2. CASE phase' = "taken"
  <2>1. EveInv' /\ BoardInv' /\ Paced
    BY <1>0, <1>2, StartKeeps DEF Core
  <2>2. CallInv'
    BY <1>0, <2>1, CallsStand DEF Core, EveInv
  <2>3. ForkInv'
    BY <1>1 DEF ForkInv, ForkType
  <2> QED
    BY <2>1, <2>2, <2>3 DEF Core
<1>3. CASE phase' = phase
  BY <1>0, <1>1, <1>3, ForkMoves DEF eve
<1> QED
  BY <1>2, <1>3 DEF ForkCreate

LEMMA LookedIs ==
    ASSUME NEW f \in ForkRecords, f.pc = "wait", BoardType, board.token \in Turns
    PROVE  /\ Looked(f, board) \in ForkRecords
           /\ \/ Looked(f, board).pc \in {"done", "wait"}
              \/ /\ Looked(f, board).pc = "send" /\ Looked(f, board).token = board.token
                 /\ board.waiting /\ board.pending = {}
<1>1. CASE board.terminal
  BY <1>1, ForkEndIs DEF Looked
<1>2. CASE ~board.terminal /\ board.waiting /\ board.pending # {}
  <2>1. Looked(f, board) = ForkEnd(f, "human")
    BY <1>2 DEF Looked, Ready
  <2> QED
    BY <2>1, ForkEndIs
<1>3. CASE ~board.terminal /\ Ready(f, board)
  <2>1. Looked(f, board) = [f EXCEPT !.pc = "send", !.token = board.token]
    BY <1>3 DEF Looked, Ready
  <2> QED
    BY <1>3, <2>1 DEF ForkRecords, Ready
<1>4. CASE ~board.terminal /\ ~(board.waiting /\ board.pending # {}) /\ ~Ready(f, board)
  <2>1. Looked(f, board) = IF f.late THEN ForkEnd(f, "timeout") ELSE f
    BY <1>4 DEF Looked
  <2> QED
    BY <2>1, ForkEndIs
<1> QED
  BY <1>1, <1>2, <1>3, <1>4

LEMMA ForkPollKeeps == ASSUME Core, ForkPoll PROVE Core'
<1>0. /\ fork.pc = "wait" /\ fork \in ForkRecords /\ UNCHANGED <<eve, board, call, rows>>
  BY DEF ForkPoll, Core, ForkInv, ForkType
<1>1. CASE fork' = ForkEnd(fork, "error")
  BY <1>0, <1>1, ForkEndIs, ForkMoves
<1>2. CASE fork' = Looked(fork, board)
  <2>1. /\ board.token \in Turns /\ board.token <= turn /\ turn \in Nat
        /\ board.waiting => phase \in {"parked", "taken"}
        /\ phase = "parked" => board.pending = asked
    BY Bounds DEF Core, EveInv, EveType, BoardInv, BoardType, Current, Shown, Turns
  <2>2. /\ fork' \in ForkRecords
        /\ \/ fork'.pc \in {"done", "wait"}
           \/ /\ fork'.pc = "send" /\ fork'.token = board.token
              /\ board.waiting /\ board.pending = {}
    BY <1>0, <1>2, <2>1, LookedIs DEF Core, BoardInv
  <2>3. CASE fork'.pc \in {"done", "wait"}
    BY <1>0, <2>2, <2>3, ForkMoves
  <2>4. CASE fork'.pc = "send"
    <3>1. UNCHANGED <<phase, turn, asked, taken>>
      BY <1>0 DEF eve
    <3>2. ForkInv'
      BY <2>1, <2>2, <2>4, <3>1 DEF ForkInv, ForkType
    <3>3. Paced
      BY <3>1 DEF Paced, Core, EveInv, EveType
    <3>4. CallInv'
      BY <1>0, <3>1, <3>3, CallsStand DEF Core, EveInv
    <3> QED
      BY <1>0, <3>2, <3>4, RouteKeeps
  <2> QED
    BY <2>2, <2>3, <2>4
<1> QED
  BY <1>1, <1>2 DEF ForkPoll

LEMMA AfterSendIs ==
    ASSUME NEW f \in ForkRecords, NEW reply \in Replies
    PROVE  AfterSend(f, reply) \in ForkRecords /\ AfterSend(f, reply).pc \in {"done", "wait"}
<1>1. f.token \in Turns
  BY DEF ForkRecords
<1>2. CASE reply = "accepted"
  BY <1>1, <1>2, DeliveredIs DEF AfterSend
<1>3. CASE reply \in {"elsewhere", "rejected", "lost"}
  BY <1>3, ForkEndIs DEF AfterSend
<1> QED
  BY <1>2, <1>3 DEF Replies

LEMMA ForkSendKeeps == ASSUME Core, ForkSend PROVE Core'
<1>0. fork.pc = "send" /\ fork \in ForkRecords /\ UNCHANGED <<call, rows>>
  BY DEF ForkSend, Core, ForkInv, ForkType
<1>1. PICK reply \in Replies :
        FollowUp(fork.token, {}, reply) /\ fork' = AfterSend(fork, reply)
  BY DEF ForkSend
<1>2. EveInv' /\ BoardInv' /\ Paced /\ taken' = taken
  <2>1. {} \in SUBSET Decisions /\ {d \in {} : d.request \in asked} = {}
    OBVIOUS
  <2>2. /\ EveInv' /\ BoardInv' /\ Paced
        /\ taken' = taken \cup {d \in {} : d.request \in asked} \/ taken' = taken
    BY <1>1, <2>1, FollowUpKeeps DEF Core
  <2> QED
    BY <2>1, <2>2
<1>3. CallInv'
  BY <1>0, <1>2, CallsStand DEF Core, EveInv
<1>4. ForkInv'
  BY <1>0, <1>1, AfterSendIs DEF ForkInv, ForkType
<1> QED
  BY <1>2, <1>3, <1>4 DEF Core

LEMMA CrashKeeps == ASSUME Core, Crash PROVE Core'
<1>0. /\ call' = [c \in Calls |-> IF call[c].pc \in {"answer", "audit", "inserted"}
                                  THEN Done(call[c], "dead") ELSE call[c]]
      /\ fork' = IF fork.pc \in {"create", "wait", "send"} THEN ForkEnd(fork, "dead") ELSE fork
      /\ UNCHANGED <<eve, board, rows>>
  BY DEF Crash
<1>1. UNCHANGED <<phase, turn, asked, taken, rows>>
  BY <1>0 DEF eve
<1>2. Paced
  BY <1>1 DEF Paced, Core, EveInv, EveType
<1>3. ASSUME NEW c \in Calls
      PROVE  /\ call'[c] \in CallRecords
             /\ IF call[c].pc \in {"answer", "audit", "inserted"}
                THEN call'[c].pc = "done" /\ call'[c].end = "dead"
                ELSE call'[c] = call[c]
  <2>1. call[c] \in CallRecords
    BY DEF Core, CallInv, CallType
  <2> QED
    BY <1>0, <2>1, DoneIs
<1>4. CallType'
  BY <1>0, <1>3 DEF CallType
<1>5. ASSUME NEW c \in Approvers
      PROVE  Answering(c)' /\ Auditing(c)' /\ Told(c)'
  <2>0. c \in Calls /\ Answering(c) /\ Auditing(c) /\ Told(c)
    BY DEF Calls, Core, CallInv
  <2>1. CASE call'[c] = call[c]
    BY <1>1, <1>2, <2>0, <2>1, CallStands DEF Core, EveInv, CallInv
  <2>2. CASE call'[c].pc = "done" /\ call'[c].end = "dead"
    <3>1. Answering(c)' /\ Auditing(c)'
      BY <2>2 DEF Answering, Auditing
    <3>2. Told(c)'
      BY <2>2 DEF Told
    <3> QED
      BY <3>1, <3>2
  <2> QED
    BY <1>3, <2>0, <2>1, <2>2
<1>6. CallInv'
  BY <1>4, <1>5 DEF CallInv
<1>7. ForkInv'
  <2>1. CASE fork' = fork
    BY <1>1, <1>2, <2>1, ForkStands DEF Core, EveInv
  <2>2. CASE fork' = ForkEnd(fork, "dead")
    BY <2>2, ForkEndIs DEF Core, ForkInv, ForkType
  <2> QED
    BY <1>0, <2>1, <2>2
<1> QED
  BY <1>0, <1>6, <1>7, RouteKeeps

\* The conversation that is forked grows, or nothing happens.
LEMMA NothingKeeps ==
    ASSUME Core, UNCHANGED <<eve, board, call, rows, fork>>
    PROVE  Core'
<1>1. UNCHANGED <<phase, turn, asked, taken>>
  BY DEF eve
<1>2. Paced
  BY <1>1 DEF Paced, Core, EveInv, EveType
<1>3. CallInv' /\ ForkInv'
  BY <1>1, <1>2, CallsStand, ForkStands DEF Core, EveInv
<1> QED
  BY <1>3, RouteKeeps

LEMMA CoreKeeps == ASSUME Core, messages \in Nat, [Next]_vars PROVE Core'
<1>1. ASSUME EveNext PROVE Core'
  BY <1>1, TurnStartedKeeps, InputRequestedKeeps, ActionResultKeeps, TurnCompletedKeeps,
     SessionWaitingKeeps, SessionEndedKeeps, ForgottenKeeps DEF EveNext
<1>2. ASSUME NEW c \in Approvers,
             ApproveRead(c) \/ ApproveAnswer(c) \/ ApproveInsert(c) \/ ApproveAudit(c)
      PROVE  Core'
  BY <1>2, ApproveReadKeeps, ApproveAnswerKeeps, ApproveInsertKeeps, ApproveAuditKeeps
<1>3. ASSUME NEW c \in Senders, MessageRead(c) \/ MessageSend(c) PROVE Core'
  BY <1>3, MessageReadKeeps, MessageSendKeeps
<1>4. ASSUME ForkShow \/ ForkPost \/ ForkNext PROVE Core'
  BY <1>4, ForkPlanKeeps, ForkCreateKeeps, ForkPollKeeps, ForkSendKeeps DEF ForkNext
<1>5. ASSUME SessionStarted \/ Crash PROVE Core'
  BY <1>5, SessionStartedKeeps, CrashKeeps
<1>6. ASSUME OriginalGrows PROVE Core'
  BY <1>6, NothingKeeps DEF OriginalGrows
<1>7. ASSUME UNCHANGED vars PROVE Core'
  BY <1>7, NothingKeeps DEF vars
<1> QED
  BY <1>1, <1>2, <1>3, <1>4, <1>5, <1>6, <1>7 DEF Next

\* A failure is counted, a row is of the call that writes it.
LEMMA StockKeeps == ASSUME Core, Stock, [Next]_vars PROVE Stock'
<1> DEFINE Counts == faults' \in Nat /\ faults' <= MaxFaults
           Counted == faults' = faults \/ (faults < MaxFaults /\ faults' = faults + 1)
<1>0. Counted => Counts
  BY Bounds DEF Stock
<1>1. ASSUME UNCHANGED <<rows, messages, sent>>, Counted PROVE Stock'
  BY <1>0, <1>1 DEF Stock
<1>2. ASSUME EveNext PROVE Stock'
  <2>1. UNCHANGED <<rows, messages, sent>> /\ Counted
    BY <1>2 DEF EveNext, TurnStarted, InputRequested, ActionResult, TurnCompleted,
                SessionWaiting, SessionEnded, Forgotten
  <2> QED
    BY <1>1, <2>1
<1>3. ASSUME NEW t, NEW ds, NEW reply, FollowUp(t, ds, reply) PROVE Counted
  BY <1>3 DEF FollowUp
<1>4. ASSUME NEW c \in Approvers, ApproveRead(c) \/ ApproveAnswer(c) PROVE Stock'
  <2>1. UNCHANGED <<rows, messages, sent>> /\ Counted
    BY <1>3, <1>4 DEF ApproveRead, ApproveAnswer
  <2> QED
    BY <1>1, <2>1
<1>5. ASSUME NEW c \in Approvers, ApproveInsert(c) \/ ApproveAudit(c) PROVE Stock'
  <2>1. /\ UNCHANGED <<messages, sent>> /\ call[c].pc \in {"audit", "inserted"}
        /\ rows' \subseteq rows \cup {Row(c)} /\ Counted
    BY <1>5 DEF ApproveInsert, ApproveAudit
  <2>2. call[c] \in CallRecords /\ call[c].request \in Requests
    BY <2>1 DEF Core, CallInv, CallType, Calls, Auditing
  <2>3. Row(c) \in Rows
    BY <2>2 DEF Row, Rows, CallRecords
  <2> QED
    BY <1>0, <2>1, <2>3 DEF Stock
<1>6. ASSUME NEW c \in Senders, MessageRead(c) \/ MessageSend(c) PROVE Stock'
  <2>1. UNCHANGED <<rows, messages, sent>> /\ Counted
    BY <1>3, <1>6 DEF MessageRead, MessageSend
  <2> QED
    BY <1>1, <2>1
<1>7. ASSUME ForkCreate PROVE Stock'
  <2>1. /\ UNCHANGED <<rows, messages>> /\ Counted
        /\ sent' = <<fork.first + 1>> \/ sent' = sent
    BY <1>7 DEF ForkCreate
  <2>2. fork.first + 1 \in Nat
    BY DEF Core, ForkInv, ForkType, ForkRecords
  <2>3. sent \in Seq(Nat) /\ <<fork.first + 1>> \in Seq(Nat)
    BY <2>2 DEF Stock
  <2>4. sent' \in Seq(Nat)
    BY <2>1, <2>3
  <2> QED
    BY <1>0, <2>1, <2>4 DEF Stock
<1>8. ASSUME ForkSend PROVE Stock'
  <2>1. /\ UNCHANGED <<rows, messages>> /\ Counted
        /\ sent' = Append(sent, fork.first + fork.at) \/ sent' = sent
    BY <1>3, <1>8 DEF ForkSend
  <2>2. fork.first + fork.at \in Nat
    BY DEF Core, ForkInv, ForkType, ForkRecords
  <2>3. sent' \in Seq(Nat)
    BY <2>1, <2>2 DEF Stock
  <2> QED
    BY <1>0, <2>1, <2>3 DEF Stock
<1>9. ASSUME ForkShow \/ ForkPost \/ ForkPoll \/ ForkDeadline \/ SessionStarted \/ Crash
      PROVE  Stock'
  <2>1. UNCHANGED <<rows, messages, sent>> /\ Counted
    BY <1>9 DEF ForkShow, ForkPost, ForkPoll, ForkDeadline, SessionStarted, Crash
  <2> QED
    BY <1>1, <2>1
<1>10. ASSUME OriginalGrows PROVE Stock'
  BY <1>10 DEF OriginalGrows, Stock
<1>11. ASSUME UNCHANGED vars PROVE Stock'
  BY <1>11 DEF vars, Stock
<1> QED
  BY <1>2, <1>4, <1>5, <1>6, <1>7, <1>8, <1>9, <1>10, <1>11 DEF Next, ForkNext

LEMMA Invariance == Spec => []IInv
<1>1. Init => IInv
  <2> SUFFICES ASSUME Init PROVE IInv
    OBVIOUS
  <2>1. Stock
    BY Bounds DEF Init, Stock
  <2> QED
    BY <2>1, InitHolds DEF IInv
<1>2. IInv /\ [Next]_vars => IInv'
  <2> SUFFICES ASSUME IInv, [Next]_vars PROVE IInv'
    OBVIOUS
  <2> QED
    BY CoreKeeps, StockKeeps DEF IInv, Stock
<1> QED
  BY <1>1, <1>2, PTL DEF Spec

-----------------------------------------------------------------------------
(* The theorems.                                                           *)

\* The variables of eve, of the routes and of the tables keep their types.
THEOREM TypeCorrect == Spec => []TypeOK
<1>1. IInv => TypeOK
  <2> SUFFICES ASSUME IInv PROVE TypeOK
    OBVIOUS
  <2>1. EveType /\ BoardType /\ board.token <= turn /\ board.turnId <= turn
    BY Bounds DEF IInv, Core, EveInv, EveType, BoardInv, BoardType, Current, EmptySnapshot
  <2>2. /\ turn \in Turns /\ board.token \in Turns /\ board.turnId \in Turns
    BY <2>1, Bounds DEF EveType, BoardType, Turns
  <2>3. board \in [seen : BOOLEAN, waiting : BOOLEAN, terminal : BOOLEAN,
                   token : Turns, turnId : Turns, pending : SUBSET Requests]
    BY <2>1, <2>2 DEF BoardType
  <2>4. faults \in 0 .. MaxFaults
    BY Bounds DEF IInv, Stock
  <2>5. /\ call \in [Calls -> CallRecords] /\ fork \in ForkRecords
        /\ rows \subseteq Rows /\ messages \in Nat /\ sent \in Seq(Nat)
    BY DEF IInv, Core, CallInv, CallType, ForkInv, ForkType, Stock
  <2> QED
    BY <2>1, <2>2, <2>3, <2>4, <2>5 DEF TypeOK, EveType, CallRecords, ForkRecords
<1> QED
  BY Invariance, <1>1, PTL

\* One step of the routes, of eve or of a crash is a step of DecisionLog, or none.
LEMMA StepIsLogged ==
    IInv /\ [Next]_vars => [Log!Next]_<<taken, Shelf>>
<1> SUFFICES ASSUME IInv, [Next]_vars PROVE [Log!Next]_<<taken, Shelf>>
  OBVIOUS
<1>1. ASSUME UNCHANGED <<taken, rows>> PROVE [Log!Next]_<<taken, Shelf>>
  BY <1>1 DEF Shelf
<1>2. ASSUME EveNext PROVE UNCHANGED <<taken, rows>>
  BY <1>2 DEF EveNext, TurnStarted, InputRequested, ActionResult, TurnCompleted,
              SessionWaiting, SessionEnded, Forgotten
<1>3. ASSUME NEW t, NEW reply \in Replies, FollowUp(t, {}, reply) PROVE taken' = taken
  <2>1. {} \in SUBSET Decisions /\ {d \in {} : d.request \in asked} = {}
    OBVIOUS
  <2>2. taken' = taken \cup {d \in {} : d.request \in asked} \/ taken' = taken
    BY <1>3, <2>1, FollowUpKeeps DEF IInv, Core
  <2> QED
    BY <2>1, <2>2
<1>4. ASSUME NEW c \in Approvers, ApproveAnswer(c) PROVE [Log!Next]_<<taken, Shelf>>
  <2> DEFINE mine == [by |-> c, request |-> call[c].request, answer |-> call[c].answer,
                      turn |-> turn]
  <2>1. PICK reply \in Replies : FollowUp(call[c].token, {mine}, reply)
    BY <1>4 DEF ApproveAnswer
  <2>2. mine \in Decisions /\ rows' = rows
    <3>1. call[c] \in CallRecords /\ call[c].request \in Requests
      BY <1>4 DEF ApproveAnswer, IInv, Core, CallInv, CallType, Calls, Answering
    <3> QED
      BY <1>4, <3>1 DEF ApproveAnswer, CallRecords, Decisions, Turns, IInv, Core, EveInv, EveType
  <2>3. taken' = taken \cup {d \in {mine} : d.request \in asked} \/ taken' = taken
    BY <2>1, <2>2, FollowUpKeeps DEF IInv, Core
  <2> HIDE DEF mine
  <2>4. CASE mine.request \in asked /\ taken' = taken \cup {mine}
    <3>1. \A e \in taken : e.request # mine.request
      BY <2>4 DEF IInv, Core, EveInv, Asking
    <3>2. Shelf' = Shelf
      BY <2>2 DEF Shelf
    <3>3. Log!Decide(mine)
      BY <2>4, <3>1, <3>2 DEF Log!Decide, Shelf
    <3> QED
      BY <2>2, <3>3 DEF Log!Next
  <2>5. CASE taken' = taken
    BY <1>1, <2>2, <2>5
  <2> QED
    BY <2>3, <2>4, <2>5
<1>5. ASSUME NEW c \in Approvers, ApproveInsert(c) \/ ApproveAudit(c)
      PROVE  [Log!Next]_<<taken, Shelf>>
  <2>1. /\ taken' = taken /\ call[c].pc \in {"audit", "inserted"}
        /\ rows' = rows \cup {Row(c)} \/ rows' = rows
    BY <1>5 DEF ApproveInsert, ApproveAudit, eve
  <2>2. CASE rows' = rows
    BY <1>1, <2>1, <2>2
  <2>3. CASE rows' = rows \cup {Row(c)} /\ call[c].stray
    <3>1. Row(c).stray
      BY <2>3 DEF Row
    <3>2. {w \in rows' : ~w.stray} = {w \in rows : ~w.stray}
      BY <2>3, <3>1
    <3>3. Shelf' = Shelf
      BY <3>2 DEF Shelf
    <3> QED
      BY <2>1, <3>3
  <2>4. CASE rows' = rows \cup {Row(c)} /\ ~call[c].stray
    <3>1. /\ ~Row(c).stray /\ Row(c).by = c /\ Row(c).request = call[c].request
          /\ Row(c).answer = call[c].answer /\ Row(c).turn = call[c].turn
      BY <2>4 DEF Row
    <3>2. Shelf' = Shelf \cup {DecisionOf(c)}
      BY <2>4, <3>1 DEF Shelf, DecisionOf
    <3>3. DecisionOf(c) \in taken
      BY <2>1, <2>4 DEF IInv, Core, CallInv, Auditing
    <3>4. CASE DecisionOf(c) \in Shelf
      BY <2>1, <3>2, <3>4
    <3>5. CASE DecisionOf(c) \notin Shelf
      <4>1. PICK d \in Decisions : d = DecisionOf(c)
        BY <3>3 DEF IInv, Core, EveInv, EveType
      <4>2. Log!Write(d)
        BY <2>1, <3>2, <3>3, <3>5, <4>1 DEF Log!Write, Shelf
      <4> QED
        BY <4>2 DEF Log!Next
    <3> QED
      BY <3>4, <3>5
  <2> QED
    BY <2>1, <2>2, <2>3, <2>4
<1>6. ASSUME NEW c \in Calls, ApproveRead(c) \/ MessageRead(c) PROVE UNCHANGED <<taken, rows>>
  BY <1>6 DEF ApproveRead, MessageRead, eve
<1>7. ASSUME NEW c \in Senders, MessageSend(c) PROVE UNCHANGED <<taken, rows>>
  BY <1>3, <1>7 DEF MessageSend
<1>8. ASSUME ForkSend PROVE UNCHANGED <<taken, rows>>
  BY <1>3, <1>8 DEF ForkSend
<1>9. ASSUME \/ ForkShow \/ ForkPost \/ ForkCreate \/ ForkPoll \/ ForkDeadline
             \/ SessionStarted \/ OriginalGrows \/ Crash
      PROVE  UNCHANGED <<taken, rows>>
  BY <1>9 DEF ForkShow, ForkPost, ForkCreate, ForkPoll, ForkDeadline, SessionStarted,
              OriginalGrows, Crash, eve
<1>10. ASSUME UNCHANGED vars PROVE UNCHANGED <<taken, rows>>
  BY <1>10 DEF vars, eve
<1> QED
  BY <1>1, <1>2, <1>4, <1>5, <1>6, <1>7, <1>8, <1>9, <1>10 DEF Next, ForkNext, Calls

\* The routes implement DecisionLog: whoever answers a parked request at the same
\* time, whatever is lost and whenever the dashboard dies, a request is decided
\* once and the approval log shows only decisions eve acted on.
THEOREM RoutesImplementLog == Spec => ImplementsDecisionLog
<1>1. Init => taken = {} /\ Shelf = {}
  BY DEF Init, Shelf
<1>2. Init => Log!Init
  BY <1>1 DEF Log!Init, Shelf
<1>3. [][Log!Next]_<<taken, Shelf>> => [][Log!Next]_<<taken,
         {[by |-> w.by, request |-> w.request, answer |-> w.answer, turn |-> w.turn] :
             w \in {x \in rows : ~x.stray}}>>
  BY DEF Shelf
<1> QED
  BY Invariance, StepIsLogged, <1>2, <1>3, PTL DEF Spec, ImplementsDecisionLog, Log!Spec

\* What an approver is told agrees with eve and with the log: audited means a row, a
\* decision without its row is one whose failure was reported, whose answer was lost
\* or whose process died, and a row of one that was told "not audited" is there
\* because its INSERT committed and its answer was lost.
THEOREM ApproverTold == Spec => []ApproverIsToldTheTruth
<1>1. IInv => ApproverIsToldTheTruth
  BY DEF IInv, Core, CallInv, Told, ApproverIsToldTheTruth
<1> QED
  BY Invariance, <1>1, PTL

\* While eve is parked the snapshot folded from its stream shows exactly the
\* requests it waits for and the token it takes, and never a park or a decided
\* request while a turn is in flight.
THEOREM BoardHonest == Spec => []BoardIsHonest
<1>1. IInv => BoardIsHonest
  <2> SUFFICES ASSUME Shown PROVE BoardIsHonest
    BY DEF IInv, Core, BoardInv
  <2>1. CASE phase = "parked"
    <3>1. Health(board, TRUE) = IF asked = {} THEN "idle" ELSE "awaiting-human"
      BY <2>1 DEF Shown, Health
    <3> QED
      BY <2>1, <3>1 DEF Shown, BoardIsHonest
  <2>2. CASE phase = "over"
    <3>1. Health(board, FALSE) = "idle"
      BY <2>2 DEF Shown, Health
    <3> QED
      BY <2>2, <3>1 DEF BoardIsHonest
  <2>3. CASE phase \in {"running", "settled"}
    BY <2>3 DEF Shown, BoardIsHonest
  <2>4. CASE phase \notin {"parked", "over", "running", "settled"}
    BY <2>4 DEF BoardIsHonest
  <2> QED
    BY <2>1, <2>2, <2>3, <2>4
<1> QED
  BY Invariance, <1>1, PTL

\* A replay never talks over a request that waits for a person: the token it
\* sends with is one of a park that had nothing to ask.
THEOREM ReplayYields == Spec => ReplayWaitsForPeople
<1>1. IInv /\ [Next]_vars => [sent' # sent => asked = {}]_vars
  <2> SUFFICES ASSUME IInv, [Next]_vars, sent' # sent PROVE asked = {}
    OBVIOUS
  <2>1. CASE ForkCreate
    BY <2>1 DEF ForkCreate, IInv, Core, ForkInv, EveInv, Moving
  <2>2. CASE ForkSend
    <3>1. PICK reply \in Replies : FollowUp(fork.token, {}, reply)
      BY <2>2 DEF ForkSend
    <3>2. {} \in SUBSET Decisions
      OBVIOUS
    <3>3. (phase = "parked" /\ fork.token = turn) \/ phase' = phase
      BY <3>1, <3>2, FollowUpKeeps DEF IInv, Core
    <3> QED
      BY <2>2, <3>3 DEF ForkSend, IInv, Core, ForkInv
  <2>3. CASE ~ForkCreate /\ ~ForkSend
    BY <2>3 DEF Next, ForkNext, EveNext, TurnStarted, InputRequested, ActionResult, TurnCompleted,
                SessionWaiting, SessionEnded, Forgotten, SessionStarted, OriginalGrows,
                ApproveRead, ApproveAnswer, ApproveInsert, ApproveAudit, MessageRead, MessageSend,
                ForkShow, ForkPost, ForkPoll, ForkDeadline, Crash, vars
  <2> QED
    BY <2>1, <2>2, <2>3
<1> QED
  BY Invariance, <1>1, PTL DEF Spec, ReplayWaitsForPeople

-----------------------------------------------------------------------------
(* The replay.                                                             *)

\* How far the replay is in its script, and what it has sent of it: messages
\* 1 to `delivered`, and the next one is number `at`.
Script ==
    /\ fork.pc \in {"idle", "shown", "create"} => sent = <<>> /\ fork.delivered = 0
    /\ fork.pc = "create" => fork.first = 0 /\ fork.length \in 1 .. fork.plan
    /\ fork.pc \in {"wait", "send"} =>
         /\ fork.first = 0 /\ fork.length <= fork.plan
         /\ fork.delivered = Len(sent)
         /\ fork.at = Len(sent) + 1 /\ fork.at <= fork.length

\* Somebody else has used the session, or may have.
Others == taken # {} \/ \E c \in Senders : call[c].end \in {"sent", "unknown", "dead"}

\* Unless somebody else has, the park that the replay waits for or sends into is one
\* nobody has answered, itself included.
Unused ==
    \/ Others
    \/ /\ fork.pc = "wait" /\ phase = "taken" /\ board.waiting => board.token = fork.spent
       /\ fork.pc = "send" => phase = "gone" \/ (phase = "parked" /\ fork.token = turn)

\* A call that has told its end is over.
Ended == \A c \in Senders : call[c].end # "none" => call[c].pc = "done"

LEMMA ForkEndMeans ==
    ASSUME NEW f \in ForkRecords, NEW how
    PROVE  LET e == ForkEnd(f, how)
           IN /\ e.pc = "done" /\ e.end = how
              /\ e.plan = f.plan /\ e.delivered = f.delivered
              /\ how = "complete" => e.length = f.length
  BY DEF ForkEnd, ForkRecords

\* One more message was taken: the script goes on, or is complete.
LEMMA DeliveredMeans ==
    ASSUME NEW f \in ForkRecords, NEW t \in Turns
    PROVE  LET e == Delivered(f, t)
           IN /\ e.plan = f.plan /\ e.length = f.length /\ e.delivered = f.delivered + 1
              /\ \/ /\ e.pc = "wait" /\ f.at + 1 <= f.length /\ e.end = f.end
                    /\ e.at = f.at + 1 /\ e.first = f.first /\ e.spent = t
                 \/ e.pc = "done" /\ e.end = "complete" /\ f.at + 1 > f.length
<1> DEFINE g == [f EXCEPT !.delivered = @ + 1, !.at = @ + 1, !.spent = t, !.late = FALSE]
<1>1. /\ g \in ForkRecords
      /\ g.plan = f.plan /\ g.length = f.length /\ g.delivered = f.delivered + 1
      /\ g.at = f.at + 1 /\ g.first = f.first /\ g.spent = t /\ g.end = f.end
  <2>1. f.delivered + 1 \in Nat /\ f.at + 1 \in Nat
    BY DEF ForkRecords
  <2>2. g = [f EXCEPT !.delivered = f.delivered + 1, !.at = f.at + 1, !.spent = t, !.late = FALSE]
    BY DEF ForkRecords
  <2> QED
    BY <2>1, <2>2 DEF ForkRecords
<1>2. Delivered(f, t) = IF g.at > g.length THEN ForkEnd(g, "complete") ELSE [g EXCEPT !.pc = "wait"]
  BY DEF Delivered
<1> HIDE DEF g
<1>3. g.at \in Nat /\ g.length \in Nat
  BY <1>1 DEF ForkRecords
<1>4. CASE g.at > g.length
  BY <1>1, <1>2, <1>4, ForkEndMeans
<1>5. CASE g.at <= g.length
  <2>1. Delivered(f, t) = [g EXCEPT !.pc = "wait"]
    BY <1>2, <1>3, <1>5
  <2> QED
    BY <1>1, <1>5, <2>1 DEF ForkRecords
<1> QED
  BY <1>3, <1>4, <1>5

\* A look at the snapshot leaves the script where it was.
LEMMA LookedMeans ==
    ASSUME NEW f \in ForkRecords, f.pc = "wait"
    PROVE  LET e == Looked(f, board)
           IN /\ e.plan = f.plan /\ e.delivered = f.delivered
              /\ \/ e.pc = "done" /\ e.end \in {"ended", "human", "timeout"}
                 \/ /\ e.pc \in {"wait", "send"} /\ e.at = f.at /\ e.first = f.first
                    /\ e.length = f.length
<1>1. PICK e \in {ForkEnd(f, "ended"), ForkEnd(f, "human"), ForkEnd(f, "timeout"), f,
                  [f EXCEPT !.pc = "send", !.token = board.token]} : Looked(f, board) = e
  BY DEF Looked
<1>2. CASE e = [f EXCEPT !.pc = "send", !.token = board.token]
  BY <1>1, <1>2 DEF ForkRecords
<1> QED
  BY <1>1, <1>2, ForkEndMeans

\* The next message of the script is the one its number says.
LEMMA NextMessage ==
    ASSUME sent \in Seq(Nat), NEW plan \in Nat, Len(sent) + 1 <= plan,
           \A i \in DOMAIN sent : sent[i] = i /\ i <= plan,
           sent' = Append(sent, Len(sent) + 1)
    PROVE  /\ Len(sent') = Len(sent) + 1
           /\ \A i \in DOMAIN sent' : sent'[i] = i /\ i <= plan
  OBVIOUS

\* A replay that is over reported what it sent.
LEMMA ReportStands ==
    ASSUME fork'.pc = "done",
           \A i \in DOMAIN sent' : sent'[i] = i /\ i <= fork'.plan,
           fork'.end = "complete" => Len(sent') = fork'.length,
           \/ fork'.delivered = Len(sent')
           \/ fork'.end \in {"error", "unanswered"} /\ fork'.delivered + 1 = Len(sent')
    PROVE  Script' /\ ForkReportIsHonest'
  BY DEF Script, ForkReportIsHonest

LEMMA ScriptPlans ==
    ASSUME IInv, Script, ForkReportIsHonest, ForkShow \/ ForkPost \/ ForkDeadline
    PROVE  Script' /\ ForkReportIsHonest'
<1>0. fork \in ForkRecords /\ messages \in Nat /\ sent' = sent
  BY DEF IInv, Core, ForkInv, ForkType, Stock, ForkShow, ForkPost, ForkDeadline
<1>1. CASE ForkShow
  <2>1. fork'.pc = "shown" /\ fork'.delivered = 0 /\ sent = <<>>
    BY <1>0, <1>1 DEF ForkShow, Script, ForkRecords
  <2> QED
    BY <1>0, <2>1 DEF Script, ForkReportIsHonest
<1>2. CASE ForkPost
  <2>1. sent = <<>> /\ fork.delivered = 0
    BY <1>2 DEF ForkPost, Script
  <2>2. CASE fork' = ForkEnd(fork, "refused")
    <3>1. fork'.pc = "done" /\ fork'.end = "refused" /\ fork'.delivered = 0
      BY <1>0, <2>1, <2>2, ForkEndMeans
    <3> QED
      BY <1>0, <2>1, <3>1, ReportStands
  <2>3. ASSUME PlanAccepted, NEW fromTurn \in 1 .. Recovered,
               fork' = [fork EXCEPT !.pc = "create", !.first = WindowStart, !.length = fromTurn]
        PROVE  Script' /\ ForkReportIsHonest'
    <3>1. /\ fork'.pc = "create" /\ fork'.first = 0 /\ fork'.length = fromTurn
          /\ fork'.plan = fork.plan /\ fork'.delivered = 0
      BY <1>0, <2>1, <2>3 DEF ForkRecords, PlanAccepted
    <3>2. fromTurn \in 1 .. fork.plan
      BY <2>3 DEF PlanAccepted
    <3> QED
      BY <1>0, <2>1, <3>1, <3>2 DEF Script, ForkReportIsHonest
  <2> QED
    BY <1>2, <2>2, <2>3 DEF ForkPost
<1>3. CASE ForkDeadline
  <2>1. /\ fork.pc = "wait" /\ fork'.pc = "wait"
        /\ fork'.first = fork.first /\ fork'.length = fork.length /\ fork'.plan = fork.plan
        /\ fork'.at = fork.at /\ fork'.delivered = fork.delivered
    BY <1>0, <1>3 DEF ForkDeadline, ForkRecords
  <2> QED
    BY <1>0, <2>1 DEF Script, ForkReportIsHonest
<1> QED
  BY <1>1, <1>2, <1>3

LEMMA ScriptCreates ==
    ASSUME IInv, Script, ForkReportIsHonest, ForkCreate
    PROVE  Script' /\ ForkReportIsHonest'
<1>0. /\ fork.pc = "create" /\ fork \in ForkRecords /\ fork.length \in Nat /\ fork.plan \in Nat
      /\ sent = <<>> /\ fork.delivered = 0 /\ fork.first = 0
      /\ 1 <= fork.length /\ fork.length <= fork.plan
  BY DEF ForkCreate, Script, IInv, Core, ForkInv, ForkType, ForkRecords
<1>1. ASSUME fork' = ForkEnd(fork, "error"), sent' = << 1 >> \/ sent' = sent
      PROVE  Script' /\ ForkReportIsHonest'
  <2>1. fork'.pc = "done" /\ fork'.end = "error" /\ fork'.delivered = 0 /\ fork'.plan = fork.plan
    BY <1>0, <1>1, ForkEndMeans
  <2>2. CASE sent' = sent
    BY <1>0, <2>1, <2>2, ReportStands
  <2>3. CASE sent' = << 1 >>
    <3>1. Len(sent') = 1 /\ \A i \in DOMAIN sent' : sent'[i] = i /\ i <= fork'.plan
      BY <1>0, <2>1, <2>3
    <3> QED
      BY <2>1, <3>1, ReportStands
  <2> QED
    BY <1>1, <2>2, <2>3
<1>2. ASSUME fork' = Delivered([fork EXCEPT !.at = 1], 0), sent' = << 1 >>
      PROVE  Script' /\ ForkReportIsHonest'
  <2> DEFINE f == [fork EXCEPT !.at = 1]
  <2>1. /\ f \in ForkRecords /\ f.at = 1 /\ f.first = 0 /\ f.delivered = 0
        /\ f.plan = fork.plan /\ f.length = fork.length
    BY <1>0 DEF ForkRecords
  <2>2. 0 \in Turns
    BY Bounds DEF Turns
  <2>3. fork' = Delivered(f, 0)
    BY <1>2
  <2> HIDE DEF f
  <2>4. /\ fork'.plan = fork.plan /\ fork'.length = fork.length /\ fork'.delivered = 1
        /\ \/ fork'.pc = "wait" /\ 2 <= fork.length /\ fork'.at = 2 /\ fork'.first = 0
           \/ fork'.pc = "done" /\ fork'.end = "complete" /\ 2 > fork.length
    BY <2>1, <2>2, <2>3, DeliveredMeans
  <2>5. Len(sent') = 1 /\ \A i \in DOMAIN sent' : sent'[i] = i /\ i <= fork'.plan
    BY <1>0, <1>2, <2>4
  <2>6. CASE fork'.pc = "wait"
    BY <1>0, <2>4, <2>5, <2>6 DEF Script, ForkReportIsHonest
  <2>7. CASE fork'.pc = "done"
    BY <1>0, <2>4, <2>5, <2>7, ReportStands
  <2> QED
    BY <2>4, <2>6, <2>7
<1> QED
  BY <1>0, <1>1, <1>2 DEF ForkCreate

LEMMA ScriptPolls ==
    ASSUME IInv, Script, ForkReportIsHonest, ForkPoll
    PROVE  Script' /\ ForkReportIsHonest'
<1>0. /\ fork.pc = "wait" /\ fork \in ForkRecords /\ sent' = sent
      /\ fork.delivered = Len(sent) /\ \A i \in DOMAIN sent : sent[i] = i /\ i <= fork.plan
  BY DEF ForkPoll, Script, ForkReportIsHonest, IInv, Core, ForkInv, ForkType
<1>1. CASE fork' = ForkEnd(fork, "error")
  <2>1. /\ fork'.pc = "done" /\ fork'.end = "error"
        /\ fork'.plan = fork.plan /\ fork'.delivered = fork.delivered
    BY <1>0, <1>1, ForkEndMeans
  <2> QED
    BY <1>0, <2>1, ReportStands
<1>2. CASE fork' = Looked(fork, board)
  <2>1. /\ fork'.plan = fork.plan /\ fork'.delivered = fork.delivered
        /\ \/ fork'.pc = "done" /\ fork'.end \in {"ended", "human", "timeout"}
           \/ /\ fork'.pc \in {"wait", "send"} /\ fork'.at = fork.at /\ fork'.first = fork.first
              /\ fork'.length = fork.length
    BY <1>0, <1>2, LookedMeans
  <2>2. CASE fork'.pc = "done"
    BY <1>0, <2>1, <2>2, ReportStands
  <2>3. CASE fork'.pc \in {"wait", "send"}
    BY <1>0, <2>1, <2>3 DEF Script, ForkReportIsHonest
  <2> QED
    BY <2>1, <2>2, <2>3
<1> QED
  BY <1>1, <1>2 DEF ForkPoll

\* What eve answers a message without answers: it took it in a park, or nothing moved.
LEMMA SaidToEve ==
    ASSUME IInv, NEW t, NEW reply \in Replies, FollowUp(t, {}, reply)
    PROVE  /\ taken' = taken
           /\ \/ phase = "parked" /\ t = turn /\ reply \in {"accepted", "lost"} /\ phase' = "taken"
              \/ reply \in {"rejected", "elsewhere", "lost"} /\ phase' = phase
<1>1. {} \in SUBSET Decisions /\ {d \in {} : d.request \in asked} = {}
  OBVIOUS
<1> QED
  BY <1>1, FollowUpKeeps DEF IInv, Core

LEMMA ScriptSends ==
    ASSUME IInv, Script, ForkReportIsHonest, ForkSend
    PROVE  Script' /\ ForkReportIsHonest'
<1>0. /\ fork.pc = "send" /\ fork \in ForkRecords /\ sent \in Seq(Nat)
      /\ fork.first = 0 /\ fork.length <= fork.plan /\ fork.delivered = Len(sent)
      /\ fork.at = Len(sent) + 1 /\ fork.at <= fork.length
      /\ \A i \in DOMAIN sent : sent[i] = i /\ i <= fork.plan
  BY DEF ForkSend, Script, ForkReportIsHonest, IInv, Core, ForkInv, ForkType, Stock
<1>1. /\ fork.length \in Nat /\ fork.plan \in Nat /\ fork.at \in Nat /\ fork.token \in Turns
      /\ Len(sent) \in Nat
  BY <1>0 DEF ForkRecords
<1>2. PICK reply \in Replies : FollowUp(fork.token, {}, reply) /\ fork' = AfterSend(fork, reply)
  BY DEF ForkSend
<1>3. \/ reply \in {"accepted", "lost"} /\ sent' = Append(sent, Len(sent) + 1)
      \/ reply \in {"rejected", "elsewhere", "lost"} /\ sent' = sent
  BY <1>0, <1>1, <1>2, SaidToEve DEF ForkSend
<1>4. ASSUME sent' = Append(sent, Len(sent) + 1)
      PROVE  Len(sent') = Len(sent) + 1 /\ \A i \in DOMAIN sent' : sent'[i] = i /\ i <= fork.plan
  <2>1. Len(sent) + 1 <= fork.plan
    BY <1>0, <1>1
  <2> QED
    BY <1>0, <1>1, <1>4, <2>1, NextMessage
<1>5. CASE reply = "accepted"
  <2>1. sent' = Append(sent, Len(sent) + 1) /\ fork' = Delivered(fork, fork.token)
    BY <1>2, <1>3, <1>5 DEF AfterSend
  <2>2. /\ fork'.plan = fork.plan /\ fork'.length = fork.length
        /\ fork'.delivered = fork.delivered + 1
        /\ \/ /\ fork'.pc = "wait" /\ fork.at + 1 <= fork.length
              /\ fork'.at = fork.at + 1 /\ fork'.first = fork.first
           \/ fork'.pc = "done" /\ fork'.end = "complete" /\ fork.at + 1 > fork.length
    BY <1>0, <1>1, <2>1, DeliveredMeans
  <2>3. Len(sent') = Len(sent) + 1 /\ \A i \in DOMAIN sent' : sent'[i] = i /\ i <= fork.plan
    BY <1>4, <2>1
  <2>4. CASE fork'.pc = "wait"
    BY <1>0, <1>1, <2>2, <2>3, <2>4 DEF Script, ForkReportIsHonest
  <2>5. CASE fork'.pc = "done"
    <3>1. fork'.delivered = Len(sent') /\ Len(sent') = fork'.length
      BY <1>0, <1>1, <2>2, <2>3, <2>5
    <3> QED
      BY <2>2, <2>3, <2>5, <3>1, ReportStands
  <2> QED
    BY <2>2, <2>4, <2>5
<1>6. CASE reply \in {"rejected", "elsewhere", "lost"}
  <2>1. PICK how \in {"rejected", "mismatch", "unanswered"} :
          /\ fork' = ForkEnd(fork, how)
          /\ reply = "lost" => how = "unanswered"
    BY <1>2, <1>6 DEF AfterSend
  <2>2. /\ fork'.pc = "done" /\ fork'.end = how
        /\ fork'.plan = fork.plan /\ fork'.delivered = fork.delivered
    BY <1>0, <2>1, ForkEndMeans
  <2>3. CASE sent' = sent
    BY <1>0, <2>2, <2>3, ReportStands
  <2>4. CASE reply = "lost" /\ sent' = Append(sent, Len(sent) + 1)
    <3>1. how = "unanswered" /\ fork'.delivered + 1 = Len(sent')
      BY <1>0, <1>4, <2>1, <2>2, <2>4
    <3> QED
      BY <1>4, <2>2, <2>4, <3>1, ReportStands
  <2> QED
    BY <1>3, <1>6, <2>3, <2>4
<1> QED
  BY <1>5, <1>6 DEF Replies

LEMMA ScriptDies ==
    ASSUME IInv, Script, ForkReportIsHonest, Crash
    PROVE  Script' /\ ForkReportIsHonest'
<1>0. /\ fork \in ForkRecords /\ sent' = sent
      /\ fork' = IF fork.pc \in {"create", "wait", "send"} THEN ForkEnd(fork, "dead") ELSE fork
  BY DEF Crash, IInv, Core, ForkInv, ForkType
<1>1. CASE fork.pc \in {"create", "wait", "send"}
  <2>1. /\ fork'.pc = "done" /\ fork'.end = "dead"
        /\ fork'.plan = fork.plan /\ fork'.delivered = fork.delivered
    BY <1>0, <1>1, ForkEndMeans
  <2>2. fork.delivered = Len(sent)
    BY <1>1 DEF Script
  <2> QED
    BY <1>0, <2>1, <2>2, ReportStands DEF ForkReportIsHonest
<1>2. CASE fork.pc \notin {"create", "wait", "send"}
  BY <1>0, <1>2 DEF Script, ForkReportIsHonest
<1> QED
  BY <1>1, <1>2

LEMMA ScriptKeeps ==
    ASSUME IInv, Script, ForkReportIsHonest, [Next]_vars
    PROVE  Script' /\ ForkReportIsHonest'
<1>1. CASE UNCHANGED <<fork, sent>>
  BY <1>1 DEF Script, ForkReportIsHonest
<1>2. CASE ForkShow \/ ForkPost \/ ForkNext \/ Crash
  BY <1>2, ScriptPlans, ScriptCreates, ScriptPolls, ScriptSends, ScriptDies DEF ForkNext
<1>3. CASE ~(ForkShow \/ ForkPost \/ ForkNext \/ Crash)
  BY <1>1, <1>3
  DEF Next, EveNext, TurnStarted, InputRequested, ActionResult, TurnCompleted, SessionWaiting,
      SessionEnded, Forgotten, SessionStarted, OriginalGrows, ApproveRead, ApproveAnswer,
      ApproveInsert, ApproveAudit, MessageRead, MessageSend, vars
<1> QED
  BY <1>2, <1>3

\* A replay sends the messages of the plan that was shown, in order and each once,
\* and reports those that landed, but for one whose answer was lost: whatever eve
\* does, whoever else uses the session and wherever the replay is cut short.
THEOREM ReportHonest == Spec => []ForkReportIsHonest
<1>1. Init => Script /\ ForkReportIsHonest
  BY DEF Init, NoFork, Script, ForkReportIsHonest
<1>2. IInv /\ Script /\ ForkReportIsHonest /\ [Next]_vars => Script' /\ ForkReportIsHonest'
  BY ScriptKeeps
<1> QED
  BY Invariance, <1>1, <1>2, PTL DEF Spec

-----------------------------------------------------------------------------
(* Who else used the session.                                              *)

LEMMA TakenGrows == ASSUME IInv, [Next]_vars PROVE taken \subseteq taken'
<1>1. [Log!Next]_<<taken, Shelf>>
  BY StepIsLogged
<1> QED
  BY <1>1 DEF Log!Next, Log!Decide, Log!Write

\* What a sender was told at its end stays.
LEMMA SendersEnd ==
    ASSUME IInv, Ended, [Next]_vars
    PROVE  /\ Ended'
           /\ \A c \in Senders : call[c].end # "none" => call'[c] = call[c]
<1> DEFINE Kept == Ended' /\ \A c \in Senders : call[c].end # "none" => call'[c] = call[c]
<1>0. /\ Senders \subseteq Calls /\ Approvers \cap Senders = {}
      /\ DOMAIN call = Calls /\ \A c \in Calls : call[c] \in CallRecords
  BY Bounds DEF Calls, IInv, Core, CallInv, CallType
<1>1. CASE UNCHANGED call
  BY <1>1 DEF Ended
<1>2. ASSUME NEW c \in Approvers,
             ApproveRead(c) \/ ApproveAnswer(c) \/ ApproveInsert(c) \/ ApproveAudit(c)
      PROVE  Kept
  <2>1. \A d \in Senders : call'[d] = call[d]
    BY <1>0, <1>2 DEF ApproveRead, ApproveAnswer, ApproveInsert, ApproveAudit
  <2> QED
    BY <2>1 DEF Ended
<1>3. ASSUME NEW c \in Senders, MessageRead(c) PROVE Kept
  <2>1. PICK t : /\ call[c].pc = "idle"
                 /\ call' = [call EXCEPT ![c] = [call[c] EXCEPT !.pc = "answer", !.token = t]]
    BY <1>3 DEF MessageRead
  <2>2. call[c].end = "none" /\ call'[c].end = "none" /\ \A d \in Senders \ {c} : call'[d] = call[d]
    BY <1>0, <2>1 DEF Ended, CallRecords
  <2> QED
    BY <2>2 DEF Ended
<1>4. ASSUME NEW c \in Senders, MessageSend(c) PROVE Kept
  <2>1. PICK how : call[c].pc = "answer" /\ call' = [call EXCEPT ![c] = Done(call[c], how)]
    BY <1>4 DEF MessageSend
  <2>2. call[c].end = "none" /\ call'[c].pc = "done" /\ \A d \in Senders \ {c} : call'[d] = call[d]
    BY <1>0, <2>1 DEF Ended, Done, NoCall
  <2> QED
    BY <2>2 DEF Ended
<1>5. CASE Crash
  <2>1. \A c \in Senders : call'[c] = IF call[c].pc \in {"answer", "audit", "inserted"}
                                      THEN Done(call[c], "dead") ELSE call[c]
    BY <1>0, <1>5 DEF Crash
  <2>2. \A c \in Senders : Done(call[c], "dead").pc = "done"
    BY DEF Done, NoCall
  <2> QED
    BY <2>1, <2>2 DEF Ended
<1> QED
  BY <1>1, <1>2, <1>3, <1>4, <1>5
  DEF Next, EveNext, TurnStarted, InputRequested, ActionResult, TurnCompleted, SessionWaiting,
      SessionEnded, Forgotten, SessionStarted, OriginalGrows, ForkShow, ForkPost, ForkNext,
      ForkCreate, ForkPoll, ForkDeadline, ForkSend, vars

LEMMA OthersStand == ASSUME IInv, Ended, [Next]_vars, Others PROVE Others'
  BY TakenGrows, SendersEnd DEF Others

\* Whoever but the replay answers a park has used the session.
LEMMA OthersAnswer ==
    ASSUME IInv, [Next]_vars, phase = "parked", phase' = "taken"
    PROVE  ForkSend \/ Others'
<1>1. ASSUME NEW c \in Approvers, ApproveAnswer(c) PROVE Others'
  <2> DEFINE mine == [by |-> c, request |-> call[c].request, answer |-> call[c].answer,
                      turn |-> turn]
  <2>1. PICK reply \in Replies : FollowUp(call[c].token, {mine}, reply)
    BY <1>1 DEF ApproveAnswer
  <2>2. mine \in Decisions
    <3>1. call[c] \in CallRecords /\ call[c].request \in Requests
      BY <1>1 DEF ApproveAnswer, IInv, Core, CallInv, CallType, Calls, Answering
    <3> QED
      BY <1>1, <3>1 DEF CallRecords, Decisions, Turns, IInv, Core, EveInv, EveType
  <2>3. /\ call[c].token = turn
        /\ taken' = taken \cup {d \in {mine} : d.request \in asked}
    <3>1. EveInv /\ BoardInv
      BY DEF IInv, Core
    <3>2. {mine} \in SUBSET Decisions
      BY <2>2
    <3> HIDE DEF mine
    <3>3. \/ call[c].token = turn /\ taken' = taken \cup {d \in {mine} : d.request \in asked}
          \/ phase' = phase
      <4>0. PICK t : t = call[c].token
        OBVIOUS
      <4>1. PICK ds \in SUBSET Decisions : ds = {mine}
        BY <3>2
      <4>2. FollowUp(t, ds, reply)
        BY <2>1, <4>0, <4>1
      <4>3. \/ t = turn /\ taken' = taken \cup {d \in ds : d.request \in asked}
            \/ phase' = phase
        BY <3>1, <4>2, FollowUpKeeps
      <4> QED
        BY <4>0, <4>1, <4>3
    <3> QED
      BY <3>3
  <2>4. mine.request \in asked
    BY <1>1, <2>3 DEF ApproveAnswer, IInv, Core, CallInv, Answering
  <2> HIDE DEF mine
  <2> QED
    BY <2>3, <2>4 DEF Others
<1>2. ASSUME NEW c \in Senders, MessageSend(c) PROVE Others'
  <2>1. PICK reply \in Replies :
          /\ FollowUp(call[c].token, {}, reply)
          /\ call' = [call EXCEPT ![c] =
               Done(@, CASE reply = "accepted"  -> "sent"
                         [] reply = "elsewhere" -> "mismatch"
                         [] reply = "rejected"  -> "rejected"
                         [] reply = "lost"      -> "unknown")]
    BY <1>2 DEF MessageSend
  <2>2. reply \in {"accepted", "lost"}
    BY <2>1, SaidToEve
  <2>3. c \in DOMAIN call
    BY DEF IInv, Core, CallInv, CallType, Calls
  <2>4. call'[c].end \in {"sent", "unknown"}
    BY <2>1, <2>2, <2>3 DEF Done, NoCall
  <2> QED
    BY <2>4 DEF Others
<1>3. CASE \/ EveNext \/ SessionStarted \/ OriginalGrows \/ ForkShow \/ ForkPost \/ ForkPoll
           \/ ForkDeadline \/ Crash \/ UNCHANGED vars
           \/ \E c \in Approvers : ApproveRead(c) \/ ApproveInsert(c) \/ ApproveAudit(c)
           \/ \E c \in Senders : MessageRead(c)
  BY <1>3
  DEF EveNext, TurnStarted, InputRequested, ActionResult, TurnCompleted, SessionWaiting,
      SessionEnded, Forgotten, SessionStarted, OriginalGrows, ApproveRead, ApproveInsert,
      ApproveAudit, MessageRead, ForkShow, ForkPost, ForkPoll, ForkDeadline, Crash, eve, vars
<1>4. ~ForkCreate
  BY DEF ForkCreate, IInv, Core, ForkInv
<1> QED
  BY <1>1, <1>2, <1>3, <1>4 DEF Next, ForkNext

\* What happens to the park while the replay does nothing.
LEMMA ParkStands ==
    ASSUME IInv, [Next]_vars, fork' = fork, fork.pc # "idle", ~Others'
    PROVE  \/ UNCHANGED <<phase, turn>> /\ board'.waiting = board.waiting
                                        /\ board'.token = board.token
           \/ phase \notin {"parked", "gone"} /\ phase' # "taken"
           \/ phase' = "gone"
<1>1. CASE EveNext
  <2>1. ASSUME NEW r \in Requests, ActionResult(r)
        PROVE  UNCHANGED <<phase, turn>> /\ board'.waiting = board.waiting
                                         /\ board'.token = board.token
    BY <2>1 DEF ActionResult, OnActionResult, IInv, Core, BoardInv, BoardType
  <2> QED
    BY <1>1, <2>1 DEF EveNext, TurnStarted, InputRequested, TurnCompleted, SessionWaiting,
       SessionEnded, Forgotten
<1>2. CASE UNCHANGED <<eve, board>>
  BY <1>2 DEF eve
<1>3. ~ForkSend /\ ~ForkCreate
  <2>1. fork \in ForkRecords
    BY DEF IInv, Core, ForkInv, ForkType
  <2>2. ForkSend => fork'.pc # "send"
    <3>1. ASSUME NEW reply \in Replies PROVE AfterSend(fork, reply).pc # "send"
      BY <2>1, AfterSendIs
    <3> QED
      BY Zenon, <3>1 DEF ForkSend
  <2>3. ForkCreate => fork'.pc # "create"
    <3>1. [fork EXCEPT !.at = 1] \in ForkRecords /\ 0 \in Turns
      BY <2>1, Bounds DEF ForkRecords, Turns
    <3>2. /\ Delivered([fork EXCEPT !.at = 1], 0).pc \in {"done", "wait"}
          /\ ForkEnd(fork, "error").pc = "done"
      BY <2>1, <3>1, DeliveredIs, ForkEndIs
    <3> QED
      BY <3>2 DEF ForkCreate
  <2> QED
    BY <2>2, <2>3 DEF ForkSend, ForkCreate
<1>4. ASSUME NEW c \in Approvers, ApproveAnswer(c) PROVE UNCHANGED <<eve, board>>
  BY <1>3, <1>4, OthersAnswer DEF ApproveAnswer, FollowUp, Resume
<1>5. ASSUME NEW c \in Senders, MessageSend(c) PROVE UNCHANGED <<eve, board>>
  BY <1>3, <1>5, OthersAnswer DEF MessageSend, FollowUp, Resume
<1>6. CASE \/ OriginalGrows \/ ForkShow \/ ForkPost \/ ForkPoll
           \/ ForkDeadline \/ Crash \/ UNCHANGED vars
           \/ \E c \in Approvers : ApproveRead(c) \/ ApproveInsert(c) \/ ApproveAudit(c)
           \/ \E c \in Senders : MessageRead(c)
  BY <1>2, <1>6
  DEF OriginalGrows, ApproveRead, ApproveInsert, ApproveAudit,
      MessageRead, ForkShow, ForkPost, ForkPoll, ForkDeadline, Crash, vars
<1>7. ~SessionStarted
  BY DEF SessionStarted
<1> QED
  BY <1>1, <1>2, <1>3, <1>4, <1>5, <1>6, <1>7 DEF Next, ForkNext

LEMMA UnusedKeeps ==
    ASSUME IInv, Unused, Ended, OnlyOthersCutItShort, [Next]_vars
    PROVE  Unused' /\ OnlyOthersCutItShort'
<1>1. CASE Others'
  BY <1>1 DEF Unused, OnlyOthersCutItShort, Others
<1>2. CASE ~Others'
  <2>0. ~Others /\ fork \in ForkRecords /\ fork.end # "rejected"
    BY <1>2, OthersStand DEF OnlyOthersCutItShort, Others, IInv, Core, ForkInv, ForkType
  <2>1. /\ fork.pc = "wait" /\ phase = "taken" /\ board.waiting => board.token = fork.spent
        /\ fork.pc = "send" => phase = "gone" \/ (phase = "parked" /\ fork.token = turn)
    BY <2>0 DEF Unused
  <2>2. /\ phase = "parked" => board.token = turn
        /\ board.waiting => phase \in {"parked", "taken"}
    BY DEF IInv, Core, BoardInv, Shown
  <2>3. SUFFICES /\ fork'.end # "rejected"
                 /\ fork'.pc = "wait" /\ phase' = "taken" /\ board'.waiting
                      => board'.token = fork'.spent
                 /\ fork'.pc = "send" =>
                      phase' = "gone" \/ (phase' = "parked" /\ fork'.token = turn')
    BY DEF Unused, OnlyOthersCutItShort
  <2>4. CASE fork' = fork
    <3>1. CASE fork.pc \notin {"wait", "send"}
      BY <2>0, <2>4, <3>1
    <3>2. CASE fork.pc \in {"wait", "send"}
      <4>1. \/ UNCHANGED <<phase, turn>> /\ board'.waiting = board.waiting
                                         /\ board'.token = board.token
            \/ phase \notin {"parked", "gone"} /\ phase' # "taken"
            \/ phase' = "gone"
        BY <1>2, <2>4, <3>2, ParkStands
      <4> QED
        BY <2>0, <2>1, <2>4, <3>2, <4>1
    <3> QED
      BY <3>1, <3>2
  <2>5. CASE ForkShow \/ ForkPost
    <3>1. PICK f \in {[fork EXCEPT !.pc = "shown", !.plan = Recovered], ForkEnd(fork, "refused")}
                    \cup {[fork EXCEPT !.pc = "create", !.first = WindowStart, !.length = n] :
                            n \in 1 .. Recovered} : fork' = f
      BY <2>5 DEF ForkShow, ForkPost
    <3>2. CASE f = ForkEnd(fork, "refused")
      BY <2>0, <3>1, <3>2, ForkEndMeans
    <3>3. CASE f # ForkEnd(fork, "refused")
      BY <2>0, <3>1, <3>3 DEF ForkRecords
    <3> QED
      BY <3>2, <3>3
  <2>6. CASE ForkCreate
    <3>1. /\ [fork EXCEPT !.at = 1] \in ForkRecords
          /\ [fork EXCEPT !.at = 1].end = fork.end /\ 0 \in Turns
      BY <2>0, Bounds DEF ForkRecords, Turns
    <3> DEFINE d == Delivered([fork EXCEPT !.at = 1], 0)
    <3>2. fork' = d \/ fork' = ForkEnd(fork, "error")
      BY <2>6 DEF ForkCreate
    <3>3. d.pc \in {"wait", "done"} /\ d.end # "rejected"
      BY <2>0, <3>1, DeliveredMeans
    <3> HIDE DEF d
    <3>4. fork'.pc \in {"wait", "done"} /\ fork'.end # "rejected"
      BY <2>0, <3>2, <3>3, ForkEndMeans
    <3>5. ~board.waiting /\ board' = board
      BY <2>2, <2>6 DEF ForkCreate, IInv, Core, ForkInv
    <3> QED
      BY <3>4, <3>5
  <2>7. CASE ForkPoll
    <3>1. fork.pc = "wait" /\ UNCHANGED <<phase, turn, board>>
      BY <2>7 DEF ForkPoll, eve
    <3>2. CASE fork' \in {ForkEnd(fork, how) : how \in {"error", "ended", "human", "timeout"}}
      BY <2>0, <3>2, ForkEndMeans
    <3>3. CASE fork' = [fork EXCEPT !.pc = "send", !.token = board.token] /\ Ready(fork, board)
      <4>1. fork'.pc = "send" /\ fork'.token = board.token /\ fork'.end = fork.end
        BY <2>0, <3>3 DEF ForkRecords
      <4>2. board.waiting /\ board.token # fork.spent
        BY <3>3 DEF Ready
      <4> QED
        BY <2>0, <2>1, <2>2, <3>1, <4>1, <4>2
    <3> QED
      BY <2>4, <2>7, <3>2, <3>3 DEF ForkPoll, Looked
  <2>8. CASE ForkDeadline
    <3>1. fork.pc = "wait" /\ UNCHANGED <<phase, turn, board>>
      BY <2>8 DEF ForkDeadline, eve
    <3>2. fork'.pc = "wait" /\ fork'.spent = fork.spent /\ fork'.end = fork.end
      BY <2>0, <2>8, <3>1 DEF ForkDeadline, ForkRecords
    <3> QED
      BY <2>0, <2>1, <3>1, <3>2
  <2>9. CASE ForkSend
    <3>1. fork.pc = "send" /\ fork.token \in Turns
      BY <2>0, <2>9 DEF ForkSend, ForkRecords
    <3>2. PICK reply \in Replies :
            FollowUp(fork.token, {}, reply) /\ fork' = AfterSend(fork, reply)
      BY <2>9 DEF ForkSend
    <3>3. reply # "rejected"
      BY <2>1, <3>1, <3>2 DEF FollowUp
    <3>4. CASE reply = "accepted"
      <4>1. fork' = Delivered(fork, fork.token)
        BY <3>2, <3>4 DEF AfterSend
      <4>2. /\ fork'.pc = "done" \/ (fork'.pc = "wait" /\ fork'.spent = fork.token)
            /\ fork'.end # "rejected"
        BY <2>0, <3>1, <4>1, DeliveredMeans
      <4>3. phase = "parked" /\ fork.token = turn
        BY <3>2, <3>4, SaidToEve
      <4>4. board' = board
        BY <3>2, <3>4 DEF FollowUp, Resume
      <4> QED
        BY <2>2, <4>2, <4>3, <4>4
    <3>5. CASE reply \in {"elsewhere", "lost"}
      <4>1. PICK how \in {"mismatch", "unanswered"} : fork' = ForkEnd(fork, how)
        BY <3>2, <3>5 DEF AfterSend
      <4> QED
        BY <2>0, <4>1, ForkEndMeans
    <3> QED
      BY <3>3, <3>4, <3>5 DEF Replies
  <2>10. CASE Crash
    <3>1. fork' = fork \/ fork' = ForkEnd(fork, "dead")
      BY <2>10 DEF Crash
    <3> QED
      BY <2>0, <2>4, <3>1, ForkEndMeans
  <2> QED
    BY <2>4, <2>5, <2>6, <2>7, <2>8, <2>9, <2>10
    DEF Next, EveNext, TurnStarted, InputRequested, ActionResult, TurnCompleted, SessionWaiting,
        SessionEnded, Forgotten, SessionStarted, OriginalGrows, ApproveRead, ApproveAnswer,
        ApproveInsert, ApproveAudit, MessageRead, MessageSend, ForkNext, vars
<1> QED
  BY <1>1, <1>2

\* eve refuses a message of a replay only when somebody else has used the session
\* meanwhile: the poll never hands the replay a token it has spent itself.
THEOREM OthersCutShort == Spec => []OnlyOthersCutItShort
<1>1. Init => Unused /\ Ended /\ OnlyOthersCutItShort
  <2> SUFFICES ASSUME Init PROVE Unused /\ Ended /\ OnlyOthersCutItShort
    OBVIOUS
  <2>1. fork.pc = "idle" /\ fork.end = "none"
    BY DEF Init, NoFork
  <2>2. \A c \in Senders : call[c].end = "none"
    BY DEF Init, Calls, NoCall
  <2> QED
    BY <2>1, <2>2 DEF Unused, Ended, OnlyOthersCutItShort
<1>2. IInv /\ Unused /\ Ended /\ OnlyOthersCutItShort /\ [Next]_vars
      => Unused' /\ Ended' /\ OnlyOthersCutItShort'
  BY UnusedKeeps, SendersEnd
<1> QED
  BY Invariance, <1>1, <1>2, PTL DEF Spec
=============================================================================
