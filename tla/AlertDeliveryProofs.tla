------------------------- MODULE AlertDeliveryProofs -------------------------
(***************************************************************************)
(* Alert delivery, for every number of dashboards, sinks, monitors, faults *)
(* and re-notify settings: what is recorded or shown as told was told, and *)
(* nobody is stood down before having been paged.                          *)
(***************************************************************************)
EXTENDS AlertDelivery, TLAPS

\* The rule table always answers with a kind of notice or with silence.
LEMMA KindType ==
    ASSUME NEW from, NEW to, NEW ok, NEW page, NEW due
    PROVE  KindOf(from, to, ok, page, due) \in TransitionKind \cup {"silent"}
BY DEF KindOf, TransitionKind

\* Only a state a monitor can be in is announced, never a missing value.
LEMMA AnnouncedIsState ==
    ASSUME NEW from \in Remembered, NEW to \in Remembered, NEW ok, NEW page, NEW due,
           KindOf(from, to, ok, page, due) # "silent"
    PROVE  to \in AlertState
BY DEF KindOf, Remembered, AlertState

\* An all-clear is announced only to a sink whose record says "firing".
LEMMA AllClearFromFiring ==
    ASSUME NEW from \in Remembered, NEW ok, NEW page, NEW due,
           KindOf(from, "ok", ok, page, due) # "silent"
    PROVE  from = "firing"
BY DEF KindOf, Remembered, AlertState

-----------------------------------------------------------------------------
\* What ties a running call to the tables and the inboxes.
BeforePlan == {"idle", "evaluate", "read", "observe"}
BeforePost == BeforePlan \cup {"settle"}

\* A call before its plan has none, and before its POSTs nothing was accepted.
Blank ==
    \A c \in Calls :
        /\ pc[c] \in BeforePlan => plan[c] = NoPlan
        /\ pc[c] \in BeforePost => accepted[c] = {}

\* A plan announces real states, and an all-clear only to a sink that was paged.
PlanSound ==
    \A c \in Calls, s \in Sinks, a \in Alerts :
        plan[c][s][a] # "silent" =>
            /\ snap[c][a] \in AlertState
            /\ snap[c][a] = "ok" => "firing" \in ever[s][a]

\* What a call read of a sink's record had been told to that sink.
PriorSound ==
    \A c \in Calls, s \in Sinks, a \in Alerts :
        prior[c].sinks[s][a] # "never" => prior[c].sinks[s][a] \in ever[s][a]

\* A sink counted as accepting has heard everything the call had to say to it.
AcceptedHeard ==
    \A c \in Calls, s \in Sinks, a \in Alerts :
        (s \in accepted[c] /\ plan[c][s][a] # "silent") => snap[c][a] \in ever[s][a]

\* Only sinks that accepted are acknowledged.
AckAccepted == \A c \in Calls : pc[c] = "ack" => todo[c] \subseteq accepted[c]

IInv ==
    /\ TypeOK
    /\ Blank
    /\ PlanSound
    /\ PriorSound
    /\ AcceptedHeard
    /\ AckAccepted
    /\ AcknowledgedWasTold
    /\ PanelMeansEverySink
    /\ NoAllClearUnpaged

-----------------------------------------------------------------------------
LEMMA TypeInit == Init => TypeOK
<1> SUFFICES ASSUME Init PROVE TypeOK
  OBVIOUS
<1> USE DEF Init, Remembered, AlertState
<1>1. Unseen \in [Alerts -> Remembered] /\ Nobody \in Record
  BY DEF Unseen, Nobody, Record
<1>2. NoPlan \in [Sinks -> [Alerts -> TransitionKind \cup {"silent"}]]
  BY DEF NoPlan, TransitionKind
<1>3. Unread \in [sinks : Record, ok : SUBSET Alerts]
  BY <1>1 DEF Unread
<1> QED
  BY <1>1, <1>2, <1>3 DEF TypeOK, Steps

\* A call that returns leaves well-typed locals.
LEMMA ReturnType ==
    ASSUME TypeOK, NEW c \in Calls, Return(c)
    PROVE  /\ pc' \in [Calls -> Steps]
           /\ snap' \in [Calls -> [Alerts -> Remembered]]
           /\ prior' \in [Calls -> [sinks : Record, ok : SUBSET Alerts]]
           /\ plan' \in [Calls -> [Sinks -> [Alerts -> TransitionKind \cup {"silent"}]]]
           /\ todo' \in [Calls -> SUBSET Sinks]
           /\ accepted' \in [Calls -> SUBSET Sinks]
<1>1. Unseen \in [Alerts -> Remembered] /\ Nobody \in Record
  BY DEF Unseen, Nobody, Record, Remembered
<1>2. NoPlan \in [Sinks -> [Alerts -> TransitionKind \cup {"silent"}]]
  BY DEF NoPlan
<1>3. Unread \in [sinks : Record, ok : SUBSET Alerts]
  BY <1>1 DEF Unread
<1> QED
  BY <1>1, <1>2, <1>3 DEF TypeOK, Return, Steps

\* The inbox of a sink that takes a message stays well typed.
LEMMA HearType ==
    ASSUME TypeOK, PlanSound, NEW c \in Calls, NEW s \in Sinks, Hear(c, s)
    PROVE  /\ told' \in Record
           /\ ever' \in [Sinks -> [Alerts -> SUBSET AlertState]]
           /\ twice' \in SUBSET (Sinks \X Alerts)
<1>1. ASSUME NEW a \in About(c, s) PROVE a \in Alerts /\ snap[c][a] \in AlertState
  BY <1>1 DEF About, PlanSound
<1>2. told' \in Record
  BY <1>1 DEF Hear, TypeOK, Record, Remembered
<1>3. ever' \in [Sinks -> [Alerts -> SUBSET AlertState]]
  BY <1>1 DEF Hear, TypeOK
<1>4. twice' \in SUBSET (Sinks \X Alerts)
  BY <1>1 DEF Hear, TypeOK
<1> QED
  BY <1>2, <1>3, <1>4

LEMMA AfterPostType ==
    ASSUME TypeOK, NEW c \in Calls, NEW s \in Sinks, NEW ok \in BOOLEAN, AfterPost(c, s, ok)
    PROVE  /\ pc' \in [Calls -> Steps]
           /\ todo' \in [Calls -> SUBSET Sinks]
           /\ accepted' \in [Calls -> SUBSET Sinks]
<1>1. Accept(c, s, ok) \in SUBSET Sinks
  BY DEF Accept, TypeOK
<1>2. todo[c] \ {s} \in SUBSET Sinks
  BY DEF TypeOK
<1> QED
  BY <1>1, <1>2 DEF AfterPost, TypeOK, Steps

LEMMA TypeStep == TypeOK /\ PlanSound /\ [Next]_vars => TypeOK'
<1> SUFFICES ASSUME TypeOK, PlanSound, [Next]_vars PROVE TypeOK'
  OBVIOUS
<1>1. CASE UNCHANGED vars
  BY <1>1 DEF vars, TypeOK
<1>2. ASSUME NEW a \in Alerts, NEW s \in AlertState, Monitor(a, s) PROVE TypeOK'
  BY <1>2 DEF Monitor, TypeOK, row, local, inbox
<1>3. CASE LeaseExpires
  BY <1>3 DEF LeaseExpires, TypeOK, row, local, inbox
<1>4. ASSUME NEW c \in Calls, Start(c) PROVE TypeOK'
  BY <1>4 DEF Start, ClaimLease, TypeOK, row, inbox, Steps
<1>5. ASSUME NEW c \in Calls, Evaluate(c) PROVE TypeOK'
  BY <1>5 DEF Evaluate, TypeOK, row, inbox, Steps, Remembered
<1>6. ASSUME NEW c \in Calls, ReadRemembered(c) PROVE TypeOK'
  BY <1>6 DEF ReadRemembered, TypeOK, row, inbox, Steps
<1>7. ASSUME NEW c \in Calls, WriteObservations(c) PROVE TypeOK'
  <2>1. PICK due : plan' = [plan EXCEPT ![c] = [s \in Sinks |-> PlanNotifications(c, s, due)]]
    BY <1>7 DEF WriteObservations
  <2>2. ASSUME NEW s \in Sinks
        PROVE  PlanNotifications(c, s, due) \in [Alerts -> TransitionKind \cup {"silent"}]
    BY KindType DEF PlanNotifications
  <2>3. plan' \in [Calls -> [Sinks -> [Alerts -> TransitionKind \cup {"silent"}]]]
    BY <2>1, <2>2 DEF TypeOK
  <2>4. prior' \in [Calls -> [sinks : Record, ok : SUBSET Alerts]]
    BY <1>7 DEF WriteObservations, TypeOK, Unread, Nobody, Record, Remembered
  <2>5. state' \in [Alerts -> Remembered] /\ everOk' \in SUBSET Alerts
    BY <1>7 DEF WriteObservations, TypeOK, Latched
  <2> QED
    BY <1>7, <2>3, <2>4, <2>5 DEF WriteObservations, TypeOK, inbox, Steps
<1>8. ASSUME NEW c \in Calls, Settle(c) PROVE TypeOK'
  <2>1. error' \in SUBSET Alerts
    BY <1>8 DEF Settle, TypeOK
  <2>2. CASE Addressed(c) = {}
    BY <1>8, <2>1, <2>2, ReturnType DEF Settle, TypeOK, inbox
  <2>3. CASE Addressed(c) # {}
    <3>1. Addressed(c) \in SUBSET Sinks
      BY DEF Addressed
    <3>2. pc' = [pc EXCEPT ![c] = "post"] /\ todo' = [todo EXCEPT ![c] = Addressed(c)]
      BY <1>8, <2>3 DEF Settle
    <3>3. pc' \in [Calls -> Steps] /\ todo' \in [Calls -> SUBSET Sinks]
      BY <3>1, <3>2 DEF TypeOK, Steps
    <3> QED
      BY <1>8, <2>1, <2>3, <3>3 DEF Settle, TypeOK, inbox
  <2> QED
    BY <2>2, <2>3
<1>9. ASSUME NEW c \in Calls, NEW s \in Sinks, PostAccepted(c, s) PROVE TypeOK'
  <2>1. Hear(c, s) /\ AfterPost(c, s, TRUE)
    BY <1>9 DEF PostAccepted
  <2> QED
    BY <1>9, <2>1, HearType, AfterPostType DEF PostAccepted, AfterPost, TypeOK, row
<1>10. ASSUME NEW c \in Calls, NEW s \in Sinks, PostRefused(c, s) PROVE TypeOK'
  <2>1. AfterPost(c, s, FALSE)
    BY <1>10 DEF PostRefused
  <2> QED
    BY <1>10, <2>1, AfterPostType DEF PostRefused, AfterPost, TypeOK, row, inbox
<1>11. ASSUME NEW c \in Calls, NEW s \in Sinks, PostUnanswered(c, s) PROVE TypeOK'
  <2>1. Hear(c, s) /\ AfterPost(c, s, FALSE)
    BY <1>11 DEF PostUnanswered
  <2>2. faults' \in Nat
    BY <1>11 DEF PostUnanswered, TypeOK
  <2>3. /\ told' \in Record
        /\ ever' \in [Sinks -> [Alerts -> SUBSET AlertState]]
        /\ twice' \in SUBSET (Sinks \X Alerts)
    BY <2>1, HearType
  <2>4. /\ pc' \in [Calls -> Steps]
        /\ todo' \in [Calls -> SUBSET Sinks]
        /\ accepted' \in [Calls -> SUBSET Sinks]
    BY <2>1, AfterPostType
  <2>5. UNCHANGED <<live, row, leaseFree, snap, prior, plan>>
    BY <1>11 DEF PostUnanswered, AfterPost
  <2> QED
    BY <2>2, <2>3, <2>4, <2>5 DEF TypeOK, row
<1>12. ASSUME NEW c \in Calls, NEW s \in Sinks, Acknowledge(c, s) PROVE TypeOK'
  <2>1. notified' \in Record
    BY <1>12 DEF Acknowledge, Announced, TypeOK, Record
  <2>2. error' \in SUBSET Alerts /\ todo' \in [Calls -> SUBSET Sinks] /\ pc' \in [Calls -> Steps]
    BY <1>12 DEF Acknowledge, TypeOK, Steps
  <2> QED
    BY <1>12, <2>1, <2>2 DEF Acknowledge, TypeOK, inbox
<1>13. ASSUME NEW c \in Calls, Derive(c) PROVE TypeOK'
  <2>1. delivered' \in [Alerts -> Remembered]
    <3>1. ASSUME NEW a \in Alerts, \E v \in AlertState : Agreed(a, v)
          PROVE  (CHOOSE v \in AlertState : Agreed(a, v)) \in AlertState
      BY <3>1
    <3> QED
      BY <1>13, <3>1 DEF Derive, TypeOK, Remembered
  <2>2. CASE Refused(c) # {}
    BY <1>13, <2>1, <2>2 DEF Derive, TypeOK, inbox, Steps
  <2>3. CASE Refused(c) = {}
    BY <1>13, <2>1, <2>3, ReturnType DEF Derive, TypeOK, inbox
  <2> QED
    BY <2>2, <2>3
<1>14. ASSUME NEW c \in Calls, MarkFailed(c) PROVE TypeOK'
  <2>1. Refused(c) \subseteq Alerts
    BY DEF Refused, About
  <2> QED
    BY <1>14, <2>1, ReturnType DEF MarkFailed, TypeOK, inbox
<1>15. ASSUME NEW c \in Calls, Abort(c) PROVE TypeOK'
  BY <1>15, ReturnType DEF Abort, TypeOK, row, inbox
<1> QED
  BY <1>1, <1>2, <1>3, <1>4, <1>5, <1>6, <1>7, <1>8, <1>9, <1>10, <1>11, <1>12, <1>13,
     <1>14, <1>15 DEF Next, Step

-----------------------------------------------------------------------------
\* What a message adds to an inbox.
LEMMA HearAdds ==
    ASSUME TypeOK, NEW c \in Calls, NEW s \in Sinks, Hear(c, s)
    PROVE  \A t \in Sinks, a \in Alerts :
              ever'[t][a] = IF t = s /\ plan[c][s][a] # "silent"
                              THEN ever[t][a] \cup {snap[c][a]} ELSE ever[t][a]
BY DEF TypeOK, Hear, About

\* What sinks have heard changes when a post reaches one of them.
LEMMA InboxFrame ==
    [Next]_vars => \/ UNCHANGED inbox
                   \/ \E c \in Calls, s \in Sinks :
                         Hear(c, s) /\ (PostAccepted(c, s) \/ PostUnanswered(c, s))
<1>1. ASSUME NEW c \in Calls, NEW s \in Sinks,
             PostAccepted(c, s) \/ PostRefused(c, s) \/ PostUnanswered(c, s) \/ Acknowledge(c, s)
      PROVE  \/ UNCHANGED inbox
             \/ Hear(c, s) /\ (PostAccepted(c, s) \/ PostUnanswered(c, s))
  BY <1>1 DEF PostAccepted, PostRefused, PostUnanswered, Acknowledge
<1>2. ASSUME NEW c \in Calls, \/ Start(c) \/ Evaluate(c) \/ ReadRemembered(c)
                              \/ WriteObservations(c) \/ Settle(c)
                              \/ Derive(c) \/ MarkFailed(c) \/ Abort(c)
      PROVE  UNCHANGED inbox
  BY <1>2 DEF Start, Evaluate, ReadRemembered, WriteObservations, Settle, Derive, MarkFailed, Abort
<1>3. ASSUME NEW c \in Calls, Start(c) \/ Step(c) \/ Abort(c)
      PROVE  \/ UNCHANGED inbox
             \/ \E s \in Sinks : Hear(c, s) /\ (PostAccepted(c, s) \/ PostUnanswered(c, s))
  BY <1>1, <1>2, <1>3 DEF Step
<1> QED
  BY <1>3 DEF Next, Monitor, LeaseExpires, inbox, vars

\* The column delivered is written where the sinks' entries are compared.
LEMMA DeliveredFrame ==
    [Next]_vars => UNCHANGED delivered \/ \E c \in Calls : Derive(c)
<1>1. ASSUME NEW c \in Calls, Start(c) \/ Step(c) \/ Abort(c)
      PROVE  UNCHANGED delivered \/ Derive(c)
  BY <1>1 DEF Step, Start, Evaluate, ReadRemembered, WriteObservations, Settle, PostAccepted,
              PostRefused, PostUnanswered, Acknowledge, MarkFailed, Abort, row
<1> QED
  BY <1>1 DEF Next, Monitor, LeaseExpires, row, vars

\* A sink cannot unhear a message.
LEMMA EverGrows ==
    TypeOK /\ [Next]_vars => \A s \in Sinks, a \in Alerts : ever[s][a] \subseteq ever'[s][a]
<1> SUFFICES ASSUME TypeOK, [Next]_vars
             PROVE  \A s \in Sinks, a \in Alerts : ever[s][a] \subseteq ever'[s][a]
  OBVIOUS
<1>1. ASSUME NEW c \in Calls, NEW s \in Sinks, Hear(c, s)
      PROVE  \A t \in Sinks, a \in Alerts : ever[t][a] \subseteq ever'[t][a]
  BY <1>1, HearAdds
<1>2. UNCHANGED ever \/ \E c \in Calls, s \in Sinks : Hear(c, s)
  BY InboxFrame DEF inbox
<1> QED
  BY <1>1, <1>2

\* A call's view and plan change where it looks, where it plans, where it ends.
LEMMA PlanFrame ==
    [Next]_vars => \/ UNCHANGED <<snap, plan>>
                   \/ \E c \in Calls : Evaluate(c) \/ WriteObservations(c) \/ Return(c)
<1>1. ASSUME NEW c \in Calls, Start(c) \/ Step(c) \/ Abort(c)
      PROVE  UNCHANGED <<snap, plan>> \/ Evaluate(c) \/ WriteObservations(c) \/ Return(c)
  BY <1>1 DEF Step, Start, ReadRemembered, Settle, PostAccepted, PostRefused,
              PostUnanswered, Acknowledge, Derive, MarkFailed, Abort, AfterPost
<1> QED
  BY <1>1 DEF Next, Monitor, LeaseExpires, local, vars

\* What a call remembers changes where it reads, where it plans, where it ends.
LEMMA PriorFrame ==
    [Next]_vars => \/ UNCHANGED prior
                   \/ \E c \in Calls : ReadRemembered(c) \/ WriteObservations(c) \/ Return(c)
<1>1. ASSUME NEW c \in Calls, Start(c) \/ Step(c) \/ Abort(c)
      PROVE  UNCHANGED prior \/ ReadRemembered(c) \/ WriteObservations(c) \/ Return(c)
  BY <1>1 DEF Step, Start, Evaluate, Settle, PostAccepted, PostRefused,
              PostUnanswered, Acknowledge, Derive, MarkFailed, Abort, AfterPost
<1> QED
  BY <1>1 DEF Next, Monitor, LeaseExpires, local, vars

\* The sinks a call counts as accepting change at a POST's answer and at its end.
LEMMA AcceptedFrame ==
    [Next]_vars =>
        \/ UNCHANGED accepted
        \/ \E c \in Calls : Return(c)
        \/ \E c \in Calls, s \in Sinks : AfterPost(c, s, TRUE) /\ Hear(c, s) /\ pc[c] = "post"
        \/ \E c \in Calls, s \in Sinks : AfterPost(c, s, FALSE) /\ pc[c] = "post"
<1>1. ASSUME NEW c \in Calls, NEW s \in Sinks,
             PostAccepted(c, s) \/ PostRefused(c, s) \/ PostUnanswered(c, s) \/ Acknowledge(c, s)
      PROVE  \/ UNCHANGED accepted
             \/ AfterPost(c, s, TRUE) /\ Hear(c, s) /\ pc[c] = "post"
             \/ AfterPost(c, s, FALSE) /\ pc[c] = "post"
  BY <1>1 DEF PostAccepted, PostRefused, PostUnanswered, Acknowledge, local
<1>2. ASSUME NEW c \in Calls, \/ Start(c) \/ Evaluate(c) \/ ReadRemembered(c)
                              \/ WriteObservations(c) \/ Settle(c)
                              \/ Derive(c) \/ MarkFailed(c) \/ Abort(c)
      PROVE  UNCHANGED accepted \/ Return(c)
  BY <1>2 DEF Start, Evaluate, ReadRemembered, WriteObservations, Settle, Derive, MarkFailed, Abort
<1>3. ASSUME NEW c \in Calls, Start(c) \/ Step(c) \/ Abort(c)
      PROVE  \/ UNCHANGED accepted \/ Return(c)
             \/ \E s \in Sinks : AfterPost(c, s, TRUE) /\ Hear(c, s) /\ pc[c] = "post"
             \/ \E s \in Sinks : AfterPost(c, s, FALSE) /\ pc[c] = "post"
  BY <1>1, <1>2, <1>3 DEF Step
<1> QED
  BY <1>3 DEF Next, Monitor, LeaseExpires, local, vars

LEMMA BlankStep == TypeOK /\ Blank /\ [Next]_vars => Blank'
<1> SUFFICES ASSUME TypeOK, Blank, [Next]_vars, NEW d \in Calls
             PROVE  /\ pc'[d] \in BeforePlan => plan'[d] = NoPlan
                    /\ pc'[d] \in BeforePost => accepted'[d] = {}
  BY DEF Blank
<1> USE DEF BeforePlan, BeforePost
<1>1. ASSUME NEW c \in Calls, Return(c)
      PROVE  /\ pc'[d] \in BeforePlan => plan'[d] = NoPlan
             /\ pc'[d] \in BeforePost => accepted'[d] = {}
  BY <1>1 DEF Return, TypeOK, Blank
<1>2. CASE UNCHANGED <<pc, plan, accepted>>
  BY <1>2 DEF Blank
<1>3. ASSUME NEW c \in Calls, Start(c) \/ Evaluate(c) \/ ReadRemembered(c)
      PROVE  /\ pc'[d] \in BeforePlan => plan'[d] = NoPlan
             /\ pc'[d] \in BeforePost => accepted'[d] = {}
  BY <1>3 DEF Start, Chain, Evaluate, ReadRemembered, Blank, TypeOK
<1>4. ASSUME NEW c \in Calls, WriteObservations(c)
      PROVE  /\ pc'[d] \in BeforePlan => plan'[d] = NoPlan
             /\ pc'[d] \in BeforePost => accepted'[d] = {}
  BY <1>4 DEF WriteObservations, Blank, TypeOK
<1>5. ASSUME NEW c \in Calls, Settle(c)
      PROVE  /\ pc'[d] \in BeforePlan => plan'[d] = NoPlan
             /\ pc'[d] \in BeforePost => accepted'[d] = {}
  BY <1>1, <1>5 DEF Settle, Blank, TypeOK
<1>6. ASSUME NEW c \in Calls, NEW s \in Sinks, NEW ok \in BOOLEAN, AfterPost(c, s, ok),
             pc[c] = "post"
      PROVE  /\ pc'[d] \in BeforePlan => plan'[d] = NoPlan
             /\ pc'[d] \in BeforePost => accepted'[d] = {}
  BY <1>6 DEF AfterPost, Blank, TypeOK
<1>7. ASSUME NEW c \in Calls, NEW s \in Sinks, Acknowledge(c, s)
      PROVE  /\ pc'[d] \in BeforePlan => plan'[d] = NoPlan
             /\ pc'[d] \in BeforePost => accepted'[d] = {}
  BY <1>7 DEF Acknowledge, Blank, TypeOK
<1>8. ASSUME NEW c \in Calls, Derive(c)
      PROVE  /\ pc'[d] \in BeforePlan => plan'[d] = NoPlan
             /\ pc'[d] \in BeforePost => accepted'[d] = {}
  BY <1>1, <1>8 DEF Derive, Blank, TypeOK
<1> QED
  BY <1>1, <1>2, <1>3, <1>4, <1>5, <1>6, <1>7, <1>8
  DEF Next, Step, Monitor, LeaseExpires, PostAccepted, PostRefused, PostUnanswered,
      MarkFailed, Abort, local, vars

LEMMA PlanSoundStep ==
    TypeOK /\ Blank /\ PriorSound /\ PlanSound /\ [Next]_vars => PlanSound'
<1> SUFFICES ASSUME TypeOK, Blank, PriorSound, PlanSound, [Next]_vars,
                    NEW d \in Calls, NEW s \in Sinks, NEW a \in Alerts,
                    plan'[d][s][a] # "silent"
             PROVE  /\ snap'[d][a] \in AlertState
                    /\ snap'[d][a] = "ok" => "firing" \in ever'[s][a]
  BY DEF PlanSound
<1>1. ever[s][a] \subseteq ever'[s][a]
  BY EverGrows
<1>2. NoPlan[s][a] = "silent"
  BY DEF NoPlan
<1>3. CASE snap'[d] = snap[d] /\ plan'[d] = plan[d]
  BY <1>1, <1>3 DEF PlanSound
<1>4. ASSUME NEW c \in Calls, Evaluate(c) PROVE c # d
  BY <1>2, <1>4 DEF Evaluate, Blank, BeforePlan
<1>5. ASSUME NEW c \in Calls, Return(c) PROVE c # d
  BY <1>2, <1>5 DEF Return, TypeOK
<1>6. ASSUME WriteObservations(d)
      PROVE  /\ snap'[d][a] \in AlertState
             /\ snap'[d][a] = "ok" => "firing" \in ever'[s][a]
  <2> DEFINE from == prior[d].sinks[s][a]
             to == snap[d][a]
  <2>1. PICK due : plan' = [plan EXCEPT ![d] = [t \in Sinks |-> PlanNotifications(d, t, due)]]
    BY <1>6 DEF WriteObservations
  <2>2. plan'[d][s][a] = KindOf(from, to, a \in prior[d].ok, a \in Page, <<s, a>> \in due)
    BY <2>1 DEF PlanNotifications, TypeOK
  <2>3. from \in Remembered /\ to \in Remembered
    BY DEF TypeOK, Record
  <2>4. to \in AlertState
    BY <2>2, <2>3, AnnouncedIsState
  <2>5. to = "ok" => from = "firing"
    BY <2>2, <2>3, AllClearFromFiring
  <2>6. snap'[d][a] = to
    BY <1>6 DEF WriteObservations
  <2> QED
    BY <1>1, <2>4, <2>5, <2>6 DEF PriorSound
<1>7. ASSUME NEW c \in Calls, c # d, Evaluate(c) \/ WriteObservations(c) \/ Return(c)
      PROVE  snap'[d] = snap[d] /\ plan'[d] = plan[d]
  BY <1>7 DEF Evaluate, WriteObservations, Return, TypeOK
<1> QED
  BY <1>3, <1>4, <1>5, <1>6, <1>7, PlanFrame

LEMMA PriorSoundStep ==
    TypeOK /\ AcknowledgedWasTold /\ PriorSound /\ [Next]_vars => PriorSound'
<1> SUFFICES ASSUME TypeOK, AcknowledgedWasTold, PriorSound, [Next]_vars,
                    NEW d \in Calls, NEW s \in Sinks, NEW a \in Alerts,
                    prior'[d].sinks[s][a] # "never"
             PROVE  prior'[d].sinks[s][a] \in ever'[s][a]
  BY DEF PriorSound
<1>1. ever[s][a] \subseteq ever'[s][a]
  BY EverGrows
<1>2. CASE prior'[d] = prior[d]
  BY <1>1, <1>2 DEF PriorSound
<1>3. ASSUME NEW c \in Calls, WriteObservations(c) \/ Return(c)
      PROVE  prior'[d] = prior[d]
  <2>1. Unread.sinks[s][a] = "never"
    BY DEF Unread, Nobody
  <2>2. prior' = [prior EXCEPT ![c] = Unread]
    BY <1>3 DEF WriteObservations, Return
  <2> QED
    BY <2>1, <2>2 DEF TypeOK
<1>4. ASSUME NEW c \in Calls, ReadRemembered(c)
      PROVE  prior'[d].sinks[s][a] \in ever'[s][a]
  <2>1. CASE c = d
    BY <1>1, <1>4, <2>1 DEF ReadRemembered, TypeOK, AcknowledgedWasTold
  <2>2. CASE c # d
    BY <1>2, <1>4, <2>2 DEF ReadRemembered, TypeOK
  <2> QED
    BY <2>1, <2>2
<1> QED
  BY <1>2, <1>3, <1>4, PriorFrame

LEMMA AcceptedHeardStep ==
    TypeOK /\ Blank /\ AcceptedHeard /\ [Next]_vars => AcceptedHeard'
<1> SUFFICES ASSUME TypeOK, Blank, AcceptedHeard, [Next]_vars,
                    NEW d \in Calls, NEW s \in Sinks, NEW a \in Alerts,
                    s \in accepted'[d], plan'[d][s][a] # "silent"
             PROVE  snap'[d][a] \in ever'[s][a]
  BY DEF AcceptedHeard
<1>1. ever[s][a] \subseteq ever'[s][a]
  BY EverGrows
<1>2. ASSUME NEW c \in Calls, Return(c) PROVE c # d
  BY <1>2 DEF Return, TypeOK
<1>3. ASSUME NEW c \in Calls, c # d, Return(c)
      PROVE  snap'[d] = snap[d] /\ plan'[d] = plan[d] /\ accepted'[d] = accepted[d]
  BY <1>3 DEF Return, TypeOK
<1>4. ASSUME NEW c \in Calls, Evaluate(c) \/ WriteObservations(c)
      PROVE  snap'[d] = snap[d] /\ plan'[d] = plan[d] /\ accepted'[d] = accepted[d]
  <2>1. accepted' = accepted
    BY <1>4 DEF Evaluate, WriteObservations
  <2>2. accepted[c] = {}
    BY <1>4 DEF Evaluate, WriteObservations, Blank, BeforePlan, BeforePost
  <2>3. c # d
    BY <2>1, <2>2
  <2> QED
    BY <1>4, <2>1, <2>3 DEF Evaluate, WriteObservations, TypeOK
<1>5. CASE s \in accepted[d] /\ snap'[d] = snap[d] /\ plan'[d] = plan[d]
  BY <1>1, <1>5 DEF AcceptedHeard
<1>6. CASE UNCHANGED accepted
  BY <1>2, <1>3, <1>4, <1>5, <1>6, PlanFrame
<1>7. ASSUME NEW c \in Calls, NEW t \in Sinks, AfterPost(c, t, TRUE), Hear(c, t)
      PROVE  snap'[d][a] \in ever'[s][a]
  <2>1. UNCHANGED <<snap, plan>>
    BY <1>7 DEF AfterPost
  <2>2. CASE c = d /\ t = s
    BY <1>7, <2>1, <2>2, HearAdds
  <2>3. CASE ~(c = d /\ t = s)
    <3>1. s \in accepted[d]
      BY <1>7, <2>3 DEF AfterPost, Accept, TypeOK
    <3> QED
      BY <1>5, <2>1, <3>1
  <2> QED
    BY <2>2, <2>3
<1>8. ASSUME NEW c \in Calls, NEW t \in Sinks, AfterPost(c, t, FALSE)
      PROVE  snap'[d][a] \in ever'[s][a]
  <2>1. UNCHANGED <<snap, plan>> /\ s \in accepted[d]
    BY <1>8 DEF AfterPost, Accept, TypeOK
  <2> QED
    BY <1>5, <2>1
<1>9. ASSUME NEW c \in Calls, Return(c) PROVE snap'[d][a] \in ever'[s][a]
  BY <1>2, <1>3, <1>5, <1>9
<1> QED
  BY <1>6, <1>7, <1>8, <1>9, AcceptedFrame

LEMMA AckAcceptedStep == TypeOK /\ AckAccepted /\ [Next]_vars => AckAccepted'
<1> SUFFICES ASSUME TypeOK, AckAccepted, [Next]_vars, NEW d \in Calls, pc'[d] = "ack"
             PROVE  todo'[d] \subseteq accepted'[d]
  BY DEF AckAccepted
<1>1. CASE pc'[d] = pc[d] /\ todo'[d] = todo[d] /\ accepted'[d] = accepted[d]
  BY <1>1 DEF AckAccepted
<1>2. ASSUME NEW c \in Calls, Return(c) PROVE todo'[d] \subseteq accepted'[d]
  BY <1>1, <1>2 DEF Return, TypeOK
<1>3. ASSUME NEW c \in Calls,
             Start(c) \/ Evaluate(c) \/ ReadRemembered(c) \/ WriteObservations(c)
      PROVE  todo'[d] \subseteq accepted'[d]
  BY <1>1, <1>3 DEF Start, Evaluate, ReadRemembered, WriteObservations, TypeOK
<1>4. ASSUME NEW c \in Calls, Settle(c) PROVE todo'[d] \subseteq accepted'[d]
  BY <1>1, <1>2, <1>4 DEF Settle, TypeOK
<1>5. ASSUME NEW c \in Calls, NEW s \in Sinks, NEW ok \in BOOLEAN, AfterPost(c, s, ok),
             pc[c] = "post"
      PROVE  todo'[d] \subseteq accepted'[d]
  BY <1>1, <1>5 DEF AfterPost, TypeOK
<1>6. ASSUME NEW c \in Calls, NEW s \in Sinks, Acknowledge(c, s)
      PROVE  todo'[d] \subseteq accepted'[d]
  BY <1>1, <1>6 DEF Acknowledge, TypeOK, AckAccepted
<1>7. ASSUME NEW c \in Calls, Derive(c) PROVE todo'[d] \subseteq accepted'[d]
  BY <1>1, <1>2, <1>7 DEF Derive, TypeOK
<1> QED
  BY <1>1, <1>2, <1>3, <1>4, <1>5, <1>6, <1>7
  DEF Next, Step, Monitor, LeaseExpires, PostAccepted, PostRefused, PostUnanswered,
      MarkFailed, Abort, local, vars

LEMMA AcknowledgedStep ==
    TypeOK /\ AckAccepted /\ AcceptedHeard /\ AcknowledgedWasTold /\ [Next]_vars
      => AcknowledgedWasTold'
<1> SUFFICES ASSUME TypeOK, AckAccepted, AcceptedHeard, AcknowledgedWasTold, [Next]_vars,
                    NEW t \in Sinks, NEW a \in Alerts, notified'[t][a] # "never"
             PROVE  notified'[t][a] \in ever'[t][a]
  BY DEF AcknowledgedWasTold
<1>1. ever[t][a] \subseteq ever'[t][a]
  BY EverGrows
<1>2. CASE notified'[t][a] = notified[t][a]
  BY <1>1, <1>2 DEF AcknowledgedWasTold
<1>3. ASSUME NEW c \in Calls, NEW s \in Sinks, Acknowledge(c, s)
      PROVE  notified'[t][a] \in ever'[t][a]
  <2>1. s \in accepted[c]
    BY <1>3 DEF Acknowledge, First, AckAccepted
  <2>2. CASE s = t /\ a \in About(c, s)
    <3>1. notified'[t][a] = snap[c][a]
      BY <1>3, <2>2 DEF Acknowledge, Announced, TypeOK, Record
    <3> QED
      BY <1>1, <2>1, <2>2, <3>1 DEF AcceptedHeard, About
  <2>3. CASE ~(s = t /\ a \in About(c, s))
    BY <1>2, <1>3, <2>3 DEF Acknowledge, TypeOK, Record
  <2> QED
    BY <2>2, <2>3
<1>4. UNCHANGED notified \/ \E c \in Calls, s \in Sinks : Acknowledge(c, s)
  BY DEF Next, Step, Monitor, LeaseExpires, Start, Evaluate, ReadRemembered,
         WriteObservations, Settle, PostAccepted, PostRefused, PostUnanswered,
         Derive, MarkFailed, Abort, row, vars
<1> QED
  BY <1>2, <1>3, <1>4

LEMMA PanelStep ==
    TypeOK /\ AcknowledgedWasTold /\ PanelMeansEverySink /\ [Next]_vars
      => PanelMeansEverySink'
<1> SUFFICES ASSUME TypeOK, AcknowledgedWasTold, PanelMeansEverySink, [Next]_vars,
                    NEW a \in Alerts, NEW t \in Sinks, delivered'[a] # "never"
             PROVE  delivered'[a] \in ever'[t][a]
  BY DEF PanelMeansEverySink
<1>1. ever[t][a] \subseteq ever'[t][a]
  BY EverGrows
<1>2. CASE delivered'[a] = delivered[a]
  BY <1>1, <1>2 DEF PanelMeansEverySink
<1>3. ASSUME NEW c \in Calls, Derive(c) PROVE delivered'[a] \in ever'[t][a]
  <2>1. CASE \E v \in AlertState : Agreed(a, v)
    <3>1. delivered'[a] = CHOOSE v \in AlertState : Agreed(a, v)
      BY <1>3, <2>1 DEF Derive
    <3>2. delivered'[a] \in AlertState /\ Agreed(a, delivered'[a])
      BY <2>1, <3>1
    <3>3. notified[t][a] = delivered'[a] /\ notified[t][a] # "never"
      BY <3>2 DEF Agreed, AlertState
    <3> QED
      BY <1>1, <3>3 DEF AcknowledgedWasTold
  <2>2. CASE ~\E v \in AlertState : Agreed(a, v)
    BY <1>2, <1>3, <2>2 DEF Derive
  <2> QED
    BY <2>1, <2>2
<1>4. UNCHANGED delivered \/ \E c \in Calls : Derive(c)
  BY DeliveredFrame
<1> QED
  BY <1>2, <1>3, <1>4

LEMMA AllClearStep ==
    TypeOK /\ PlanSound /\ NoAllClearUnpaged /\ [Next]_vars => NoAllClearUnpaged'
<1> SUFFICES ASSUME TypeOK, PlanSound, NoAllClearUnpaged, [Next]_vars,
                    NEW t \in Sinks, NEW a \in Alerts, "ok" \in ever'[t][a]
             PROVE  "firing" \in ever'[t][a]
  BY DEF NoAllClearUnpaged
<1>1. ever[t][a] \subseteq ever'[t][a]
  BY EverGrows
<1>2. CASE "ok" \in ever[t][a]
  BY <1>1, <1>2 DEF NoAllClearUnpaged
<1>3. ASSUME NEW c \in Calls, NEW s \in Sinks, Hear(c, s), "ok" \notin ever[t][a]
      PROVE  "firing" \in ever'[t][a]
  <2>0. ever'[t][a] = IF t = s /\ plan[c][s][a] # "silent"
                        THEN ever[t][a] \cup {snap[c][a]} ELSE ever[t][a]
    BY <1>3, HearAdds
  <2>1. s = t /\ plan[c][s][a] # "silent" /\ snap[c][a] = "ok"
    BY <1>3, <2>0
  <2> QED
    BY <1>1, <2>1 DEF PlanSound
<1>4. UNCHANGED ever \/ \E c \in Calls, s \in Sinks : Hear(c, s)
  BY InboxFrame DEF inbox
<1> QED
  BY <1>2, <1>3, <1>4

-----------------------------------------------------------------------------
LEMMA InvInit == Init => IInv
<1> SUFFICES ASSUME Init PROVE IInv
  OBVIOUS
<1>1. TypeOK
  BY TypeInit
<1>2. Blank /\ PlanSound /\ AcceptedHeard /\ AckAccepted
  BY DEF Init, Blank, PlanSound, AcceptedHeard, AckAccepted, NoPlan, BeforePlan, BeforePost
<1>3. PriorSound /\ AcknowledgedWasTold /\ PanelMeansEverySink /\ NoAllClearUnpaged
  BY DEF Init, PriorSound, AcknowledgedWasTold, PanelMeansEverySink, NoAllClearUnpaged,
         Unread, Nobody, Unseen
<1> QED
  BY <1>1, <1>2, <1>3 DEF IInv

\* IInv is inductive: each part is preserved on the strength of the others.
THEOREM Invariance == Spec => []IInv
<1>1. IInv /\ [Next]_vars => IInv'
  BY TypeStep, BlankStep, PlanSoundStep, PriorSoundStep, AcceptedHeardStep,
     AckAcceptedStep, AcknowledgedStep, PanelStep, AllClearStep
  DEF IInv
<1> QED
  BY InvInit, <1>1, PTL DEF Spec

\* Every variable keeps its type.
THEOREM TypeCorrect == Spec => []TypeOK
<1>1. IInv => TypeOK
  BY DEF IInv
<1> QED
  BY Invariance, <1>1, PTL

\* notified_sinks never names a state its sink was not sent, however many
\* dashboards overlap and wherever their ticks are cut short.
THEOREM NothingConsumedUnsent == Spec => []AcknowledgedWasTold
<1>1. IInv => AcknowledgedWasTold
  BY DEF IInv
<1> QED
  BY Invariance, <1>1, PTL

\* notified_state, which the panel shows as delivered, was sent to every sink.
THEOREM PanelIsHonest == Spec => []PanelMeansEverySink
<1>1. IInv => PanelMeansEverySink
  BY DEF IInv
<1> QED
  BY Invariance, <1>1, PTL

\* No sink is ever sent the all-clear of a monitor before its alarm.
THEOREM NobodyStoodDownUnpaged == Spec => []NoAllClearUnpaged
<1>1. IInv => NoAllClearUnpaged
  BY DEF IInv
<1> QED
  BY Invariance, <1>1, PTL
=============================================================================
