-------------------------- MODULE AlertChannelProofs --------------------------
(***************************************************************************)
(* Alert delivery from one dashboard, until an answer is lost or a tick    *)
(* cut short: for every number of sinks, monitors and forced calls, each   *)
(* record is what its sink heard, nobody hears the same news twice, a      *)
(* failure marker means a retry, and the sequence of messages is one of    *)
(* AlertChannel.  Neither hypothesis can be dropped: two dashboards, or    *)
(* one lost answer, break each of them.                                    *)
(***************************************************************************)
EXTENDS AlertDeliveryProofs

\* Every call runs in the same process.
OneDashboard == \A c, d \in Calls : ProcOf[c] = ProcOf[d]

\* deliveryChain of one process: one call at a time.
Serial == \A c, d \in Calls : pc[c] # "idle" /\ pc[d] # "idle" => c = d

\* What a sink would be sent now, by its record.
Kind(s, a, due) == KindOf(notified[s][a], state[a], a \in everOk, a \in Page, due)

\* The sinks whose acknowledgement a call has written, and those it still owes one.
Acked(c) ==
    CASE pc[c] = "ack" -> accepted[c] \ todo[c]
      [] pc[c] \in {"derive", "mark"} -> accepted[c]
      [] OTHER -> {}

Owed(c) == accepted[c] \ Acked(c)

\* Between ticks every record is what its sink heard and the markers are the news.
Rest ==
    (\A c \in Calls : pc[c] \in BeforePlan) =>
      /\ told = notified
      /\ Retried(FALSE) \subseteq error /\ error \subseteq Retried(Renotify)

\* What the call is about to plan from is still in the table.
ReadStands ==
    \A c \in Calls : pc[c] = "observe" => prior[c] = [sinks |-> notified, ok |-> everOk]

\* The call plans against the row it wrote: whom it has not acknowledged is owed its
\* plan, ...
PlanStands(c) ==
    /\ snap[c] = state
    /\ \A s \in Sinks, a \in Alerts :
         IF s \in Acked(c) THEN Kind(s, a, FALSE) = "silent"
         ELSE plan[c][s][a] \in {Kind(s, a, FALSE), Kind(s, a, Renotify)}

\* ... and exactly the sinks it owes an acknowledgement have heard more than their
\* record says.
HeardStands(c) ==
    \A s \in Sinks, a \in Alerts :
      told[s][a] = IF s \in Owed(c) /\ plan[c][s][a] # "silent"
                     THEN state[a] ELSE notified[s][a]

\* Markers are left only where a sink has something coming.
MarkersStand(c) ==
    pc[c] # "settle" =>
      \A a \in error : \E s \in Sinks \ Acked(c) : plan[c][s][a] # "silent"

Working ==
    \A c \in Calls : pc[c] \notin BeforePlan =>
      /\ PlanStands(c)
      /\ HeardStands(c)
      /\ MarkersStand(c)
      /\ pc[c] = "post" => todo[c] \cap accepted[c] = {}

Answered == Rest /\ ReadStands /\ Working /\ ToldOnce

\* No answer was lost and no tick cut short.
NoFault == faults = 0

-----------------------------------------------------------------------------
(* The rule table.                                                         *)

\* A re-notify interval that elapsed only adds notices, ...
LEMMA KindMore ==
    ASSUME NEW from, NEW to, NEW ok, NEW page, NEW due,
           KindOf(from, to, ok, page, FALSE) # "silent"
    PROVE  KindOf(from, to, ok, page, due) # "silent"
  BY DEF KindOf

\* ... and it alone speaks of a state that was told already.
LEMMA KindSame ==
    ASSUME NEW from, NEW ok, NEW page, NEW due
    PROVE  /\ KindOf(from, from, ok, page, FALSE) = "silent"
           /\ KindOf(from, from, ok, page, due) \in {"silent", "renotify"}
  BY DEF KindOf

\* The healthy past of a monitor that is healthy now makes no difference.
LEMMA KindLatched ==
    ASSUME NEW from, NEW to, NEW ok \in BOOLEAN, NEW was \in BOOLEAN, NEW page, NEW due,
           to # "ok" => ok = was
    PROVE  KindOf(from, to, ok, page, due) = KindOf(from, to, was, page, due)
  BY DEF KindOf

\* What is announced of a state not told yet is news to the reader of a channel.
LEMMA KindNews ==
    ASSUME NEW from \in Remembered, NEW to \in Remembered,
           NEW ok, NEW page \in BOOLEAN, NEW due, from # to,
           KindOf(from, to, ok, page, due) # "silent"
    PROVE  \/ to = "firing"
           \/ to = "ok" /\ from = "firing"
           \/ to = "unknown" /\ (from = "firing" \/ page)
  BY DEF KindOf, Remembered, AlertState

-----------------------------------------------------------------------------
(* One call at a time.                                                     *)

\* The chain of a single process lets no two calls run.
LEMMA SerialStep == OneDashboard /\ TypeOK /\ Serial /\ [Next]_vars => Serial'
<1> SUFFICES ASSUME OneDashboard, TypeOK, Serial, [Next]_vars PROVE Serial'
  OBVIOUS
<1>1. ASSUME NEW c \in Calls, Start(c) PROVE Serial'
  BY <1>1 DEF Start, Chain, OneDashboard, Serial, TypeOK
<1>2. ASSUME NEW c \in Calls, Step(c) \/ Abort(c) PROVE Serial'
  <2>1. pc[c] # "idle"
    BY <1>2 DEF Step, Evaluate, ReadRemembered, WriteObservations, Settle, PostAccepted,
                PostRefused, PostUnanswered, Acknowledge, Derive, MarkFailed, Abort
  <2>2. \A d \in Calls \ {c} : pc'[d] = pc[d]
    BY <1>2 DEF Step, Evaluate, ReadRemembered, WriteObservations, Settle, PostAccepted,
                PostRefused, PostUnanswered, Acknowledge, Derive, MarkFailed, Abort,
                AfterPost, Return, TypeOK
  <2> QED
    BY <2>1, <2>2 DEF Serial
<1>3. CASE UNCHANGED pc
  BY <1>3 DEF Serial
<1> QED
  BY <1>1, <1>2, <1>3 DEF Next, Monitor, LeaseExpires, local, vars

\* A call that goes on working answers for itself.
LEMMA StillWorking ==
    ASSUME Serial, NEW c \in Calls, pc[c] # "idle", pc'[c] \notin BeforePlan,
           \A d \in Calls \ {c} : pc'[d] = pc[d],
           PlanStands(c)', HeardStands(c)', MarkersStand(c)',
           pc'[c] = "post" => todo'[c] \cap accepted'[c] = {}, ToldOnce'
    PROVE  Answered'
<1>1. \A d \in Calls \ {c} : pc'[d] = "idle"
  BY DEF Serial
<1> QED
  BY <1>1 DEF Answered, Rest, ReadStands, Working, BeforePlan

\* A call that returns leaves the tables at rest.
LEMMA ComesToRest ==
    ASSUME TypeOK, Serial, NEW c \in Calls, pc[c] # "idle", Return(c), ToldOnce',
           told' = notified',
           Retried(FALSE)' \subseteq error', error' \subseteq Retried(Renotify)'
    PROVE  Answered'
<1>1. \A d \in Calls : pc'[d] = "idle"
  BY DEF Serial, Return, TypeOK
<1> QED
  BY <1>1 DEF Answered, Rest, ReadStands, Working, BeforePlan

\* A monitor is to be retried when some sink has something coming.
LEMMA RetriedMeans ==
    ASSUME NEW due
    PROVE  Retried(due) = {a \in Alerts : \E s \in Sinks : Kind(s, a, due) # "silent"}
  BY DEF Retried, Kind

-----------------------------------------------------------------------------
(* The steps of a call.                                                    *)

\* Before its plan a call has touched nothing but what it read.
LEMMA LookingKeeps ==
    ASSUME OneDashboard, IInv, Serial, Answered, NEW c \in Calls,
           Start(c) \/ Evaluate(c) \/ ReadRemembered(c)
    PROVE  Answered'
<1> USE DEF row, inbox, BeforePlan
<1>1. /\ UNCHANGED <<state, everOk, notified, error, told, twice>>
      /\ \A d \in Calls \ {c} : pc'[d] = pc[d]
      /\ pc[c] \in BeforePlan /\ pc'[c] \in BeforePlan
      /\ pc'[c] = "observe" =>
           prior' = [prior EXCEPT ![c] = [sinks |-> notified, ok |-> everOk]]
      /\ pc'[c] # "observe" => prior' = prior
  BY DEF Start, Chain, Evaluate, ReadRemembered, IInv, TypeOK
<1>2. \A d \in Calls : pc[d] \in BeforePlan
  BY <1>1 DEF Start, Chain, Evaluate, ReadRemembered, Serial, OneDashboard
<1>3. Rest'
  BY <1>1, <1>2 DEF Answered, Rest, Retried
<1>4. ReadStands'
  BY <1>1 DEF Answered, ReadStands, IInv, TypeOK
<1>5. Working' /\ ToldOnce'
  BY <1>1, <1>2 DEF Answered, Working, ToldOnce
<1> QED
  BY <1>3, <1>4, <1>5 DEF Answered

LEMMA PlanningKeeps ==
    ASSUME IInv, Serial, Answered, NEW c \in Calls, WriteObservations(c)
    PROVE  Answered'
<1> USE DEF inbox
<1>0. /\ TypeOK /\ pc[c] = "observe" /\ pc'[c] = "settle"
      /\ \A d \in Calls \ {c} : pc'[d] = pc[d]
      /\ state' = snap[c] /\ snap' = snap /\ everOk' = Latched(c)
      /\ UNCHANGED <<notified, error, todo, accepted, told, twice>>
  BY DEF WriteObservations, IInv, TypeOK
<1>1. prior[c] = [sinks |-> notified, ok |-> everOk]
  BY <1>0 DEF Answered, ReadStands
<1>2. told = notified
  <2>1. \A d \in Calls : pc[d] \in BeforePlan
    BY <1>0 DEF Serial, BeforePlan
  <2> QED
    BY <2>1 DEF Answered, Rest
<1>3. accepted[c] = {}
  BY <1>0 DEF IInv, Blank, BeforePost, BeforePlan
<1>4. Acked(c)' = {} /\ Owed(c)' = {}
  BY <1>0, <1>3 DEF Acked, Owed
<1>5. PlanStands(c)'
  <2>1. PICK due \in IF Renotify THEN SUBSET (Sinks \X Alerts) ELSE {{}} :
          plan' = [plan EXCEPT ![c] = [s \in Sinks |-> PlanNotifications(c, s, due)]]
    BY DEF WriteObservations
  <2>2. ASSUME NEW s \in Sinks, NEW a \in Alerts
        PROVE  plan'[c][s][a] \in {Kind(s, a, FALSE)', Kind(s, a, Renotify)'}
    <3>1. plan'[c][s][a] = KindOf(notified[s][a], snap[c][a], a \in everOk, a \in Page,
                                  <<s, a>> \in due)
      BY <1>0, <1>1, <2>1 DEF PlanNotifications, TypeOK
    <3>2. \A d : Kind(s, a, d)'
                 = KindOf(notified[s][a], snap[c][a], a \in everOk', a \in Page, d)
      BY <1>0 DEF Kind
    <3>3. snap[c][a] # "ok" => (a \in everOk') = (a \in everOk)
      BY <1>0 DEF Latched
    <3>4. ASSUME NEW d
          PROVE  KindOf(notified[s][a], snap[c][a], a \in everOk', a \in Page, d)
                   = KindOf(notified[s][a], snap[c][a], a \in everOk, a \in Page, d)
      <4>1. CASE snap[c][a] = "ok"
        BY <4>1 DEF KindOf
      <4>2. CASE snap[c][a] # "ok"
        BY <3>3, <4>2
      <4> QED
        BY <4>1, <4>2
    <3>5. CASE <<s, a>> \in due
      <4>1. Renotify = TRUE /\ (<<s, a>> \in due) = TRUE
        BY <2>1, <3>5, AlertAssumption
      <4> QED
        BY <3>1, <3>2, <3>4, <4>1
    <3>6. CASE <<s, a>> \notin due
      <4>1. (<<s, a>> \in due) = FALSE
        BY <3>6
      <4> QED
        BY <3>1, <3>2, <3>4, <4>1
    <3> QED
      BY <3>5, <3>6
  <2> QED
    BY <1>0, <1>4, <2>2 DEF PlanStands
<1>6. HeardStands(c)'
  BY <1>0, <1>2, <1>4 DEF HeardStands
<1>7. MarkersStand(c)' /\ ToldOnce'
  BY <1>0 DEF MarkersStand, Answered, ToldOnce
<1> QED
  BY <1>0, <1>5, <1>6, <1>7, StillWorking DEF BeforePlan

\* Nothing planned and nothing marked: nothing is to be retried.
LEMMA SilentPlan ==
    ASSUME NEW c \in Calls, PlanStands(c), \A s \in Sinks \ Acked(c) : About(c, s) = {}
    PROVE  Retried(FALSE) = {}
<1> SUFFICES ASSUME NEW s \in Sinks, NEW a \in Alerts, Kind(s, a, FALSE) # "silent"
             PROVE  FALSE
  BY RetriedMeans
<1>1. s \notin Acked(c)
  BY DEF PlanStands
<1>2. plan[c][s][a] = "silent"
  BY <1>1 DEF About
<1>3. Kind(s, a, Renotify) # "silent"
  BY KindMore DEF Kind
<1> QED
  BY <1>1, <1>2, <1>3 DEF PlanStands

LEMMA SettleKeeps ==
    ASSUME IInv, Serial, Answered, NEW c \in Calls, Settle(c)
    PROVE  Answered'
<1> USE DEF inbox
<1>0. /\ TypeOK /\ pc[c] = "settle" /\ error' = error \ (Alerts \ Pending(c))
      /\ UNCHANGED <<state, everOk, notified, told, twice>>
  BY DEF Settle, Settled, IInv
<1>1. PlanStands(c) /\ HeardStands(c) /\ ToldOnce
  BY <1>0 DEF Answered, Working, BeforePlan
<1>2. accepted[c] = {} /\ Acked(c) = {} /\ Owed(c) = {}
  BY <1>0 DEF IInv, Blank, BeforePost, Acked, Owed
<1>3. error' \subseteq Pending(c)
  BY <1>0 DEF TypeOK
<1>4. CASE Addressed(c) = {}
  <2>1. \A s \in Sinks : About(c, s) = {}
    BY <1>4 DEF Addressed
  <2>2. error' = {}
    BY <1>3, <2>1 DEF Pending
  <2>3. Retried(FALSE) = {}
    BY <1>1, <2>1, SilentPlan
  <2>4. Retried(FALSE)' = {}
    BY <1>0, <2>3 DEF Retried
  <2>5. told = notified
    <3>1. \A s \in Sinks, a \in Alerts : told[s][a] = notified[s][a]
      BY <1>1, <1>2 DEF HeardStands
    <3> QED
      BY <1>0, <3>1 DEF TypeOK, Record
  <2>6. Return(c)
    BY <1>4 DEF Settle
  <2> QED
    BY <1>0, <1>1, <2>2, <2>4, <2>5, <2>6, ComesToRest DEF ToldOnce
<1>5. CASE Addressed(c) # {}
  <2>1. /\ pc'[c] = "post" /\ UNCHANGED <<snap, plan, accepted>>
        /\ \A d \in Calls \ {c} : pc'[d] = pc[d]
    BY <1>0, <1>5 DEF Settle, TypeOK
  <2>2. Acked(c)' = {} /\ Owed(c)' = {}
    BY <1>2, <2>1 DEF Acked, Owed
  <2>3. PlanStands(c)'
    BY <1>0, <1>1, <1>2, <2>1, <2>2 DEF PlanStands, Kind
  <2>4. HeardStands(c)'
    BY <1>0, <1>1, <1>2, <2>1, <2>2 DEF HeardStands
  <2>5. MarkersStand(c)'
    BY <1>3, <2>1, <2>2 DEF MarkersStand, Pending, About
  <2>6. ToldOnce' /\ todo'[c] \cap accepted'[c] = {}
    BY <1>0, <1>1, <1>2, <2>1 DEF ToldOnce
  <2> QED
    BY <1>0, <2>1, <2>3, <2>4, <2>5, <2>6, StillWorking DEF BeforePlan
<1> QED
  BY <1>4, <1>5

\* What one answer, yes or no, leaves of the call.
LEMMA PostLeaves ==
    ASSUME TypeOK, NEW c \in Calls, NEW s \in Sinks, NEW ok \in BOOLEAN, pc[c] = "post",
           s \in todo[c], todo[c] \cap accepted[c] = {}, AfterPost(c, s, ok)
    PROVE  /\ pc'[c] \in {"post", "ack", "mark"}
           /\ \A d \in Calls \ {c} : pc'[d] = pc[d]
           /\ UNCHANGED <<snap, plan>>
           /\ accepted'[c] = IF ok THEN accepted[c] \cup {s} ELSE accepted[c]
           /\ Acked(c) = {} /\ Acked(c)' = {} /\ Owed(c)' = accepted'[c]
           /\ pc'[c] = "post" => todo'[c] \cap accepted'[c] = {}
<1> DEFINE rest == todo[c] \ {s}
           acks == Accept(c, s, ok)
<1>1. /\ accepted' = [accepted EXCEPT ![c] = acks] /\ UNCHANGED <<snap, plan>>
      /\ \/ rest # {} /\ todo' = [todo EXCEPT ![c] = rest] /\ pc' = pc
         \/ /\ todo' = [todo EXCEPT ![c] = acks]
            /\ pc' = [pc EXCEPT ![c] = IF acks # {} THEN "ack" ELSE "mark"]
  BY DEF AfterPost
<1>2. acks = IF ok THEN accepted[c] \cup {s} ELSE accepted[c]
  BY DEF Accept
<1> HIDE DEF acks
<1>3. /\ accepted'[c] = acks
      /\ \/ pc'[c] = "post" /\ todo'[c] = rest
         \/ pc'[c] = "ack" /\ todo'[c] = acks
         \/ pc'[c] = "mark" /\ acks = {}
  BY <1>1 DEF TypeOK
<1>4. Acked(c)' = {} /\ Owed(c)' = accepted'[c]
  BY <1>3 DEF Acked, Owed
<1> QED
  BY <1>1, <1>2, <1>3, <1>4 DEF Acked, TypeOK

\* A sink that took the message has heard its plan, and none of it twice.
LEMMA PostAcceptedKeeps ==
    ASSUME IInv, Serial, Answered, NEW c \in Calls, NEW s \in Sinks, PostAccepted(c, s)
    PROVE  Answered'
<1> USE DEF row
<1>0. /\ TypeOK /\ pc[c] = "post" /\ s \in todo[c] /\ Hear(c, s) /\ AfterPost(c, s, TRUE)
      /\ UNCHANGED <<state, everOk, notified, error>>
  BY DEF PostAccepted, First, IInv
<1>1. /\ PlanStands(c) /\ HeardStands(c) /\ MarkersStand(c) /\ ToldOnce
      /\ todo[c] \cap accepted[c] = {}
  BY <1>0 DEF Answered, Working, BeforePlan
<1>2. /\ pc'[c] \in {"post", "ack", "mark"}
      /\ \A d \in Calls \ {c} : pc'[d] = pc[d]
      /\ UNCHANGED <<snap, plan>>
      /\ accepted'[c] = accepted[c] \cup {s}
      /\ Acked(c) = {} /\ Acked(c)' = {} /\ Owed(c)' = accepted'[c]
      /\ pc'[c] = "post" => todo'[c] \cap accepted'[c] = {}
  BY <1>0, <1>1, PostLeaves
<1>3. PlanStands(c)'
  BY <1>0, <1>1, <1>2 DEF PlanStands, Kind
<1>4. MarkersStand(c)'
  BY <1>0, <1>1, <1>2 DEF MarkersStand
<1>5. HeardStands(c)'
  <2> SUFFICES ASSUME NEW t \in Sinks, NEW a \in Alerts
               PROVE  told'[t][a] = IF t \in accepted'[c] /\ plan[c][t][a] # "silent"
                                      THEN state[a] ELSE notified[t][a]
    BY <1>0, <1>2 DEF HeardStands
  <2>1. told[t][a] = IF t \in accepted[c] /\ plan[c][t][a] # "silent"
                       THEN state[a] ELSE notified[t][a]
    BY <1>1, <1>2 DEF HeardStands, Owed
  <2>2. told'[t][a] = IF t = s /\ plan[c][s][a] # "silent" THEN snap[c][a] ELSE told[t][a]
    BY <1>0 DEF Hear, About, TypeOK, Record
  <2> QED
    BY <1>1, <1>2, <2>1, <2>2 DEF PlanStands
<1>6. ToldOnce'
  <2>1. ASSUME NEW a \in About(c, s), told[s][a] = snap[c][a] PROVE plan[c][s][a] = "renotify"
    <3>1. a \in Alerts /\ plan[c][s][a] # "silent"
      BY <2>1 DEF About
    <3>2. told[s][a] = notified[s][a]
      BY <1>0, <1>1, <3>1 DEF HeardStands, Owed
    <3>3. notified[s][a] = state[a]
      BY <1>1, <2>1, <3>2 DEF PlanStands
    <3>4. plan[c][s][a] \in {Kind(s, a, FALSE), Kind(s, a, Renotify)}
      BY <1>1, <1>2, <3>1 DEF PlanStands
    <3>5. \A d : Kind(s, a, d) \in {"silent", "renotify"}
      BY <3>3, KindSame DEF Kind
    <3> QED
      BY <3>1, <3>4, <3>5
  <2> QED
    BY <1>0, <1>1, <2>1 DEF Hear, ToldOnce
<1> QED
  BY <1>0, <1>2, <1>3, <1>4, <1>5, <1>6, StillWorking DEF BeforePlan

LEMMA PostRefusedKeeps ==
    ASSUME IInv, Serial, Answered, NEW c \in Calls, NEW s \in Sinks, PostRefused(c, s)
    PROVE  Answered'
<1> USE DEF row, inbox
<1>0. /\ TypeOK /\ pc[c] = "post" /\ s \in todo[c] /\ AfterPost(c, s, FALSE)
      /\ UNCHANGED <<state, everOk, notified, error, told, twice>>
  BY DEF PostRefused, First, IInv
<1>1. /\ PlanStands(c) /\ HeardStands(c) /\ MarkersStand(c) /\ ToldOnce
      /\ todo[c] \cap accepted[c] = {}
  BY <1>0 DEF Answered, Working, BeforePlan
<1>2. /\ pc'[c] \in {"post", "ack", "mark"}
      /\ \A d \in Calls \ {c} : pc'[d] = pc[d]
      /\ UNCHANGED <<snap, plan>>
      /\ accepted'[c] = accepted[c]
      /\ Acked(c) = {} /\ Acked(c)' = {} /\ Owed(c)' = accepted'[c]
      /\ pc'[c] = "post" => todo'[c] \cap accepted'[c] = {}
  BY <1>0, <1>1, PostLeaves
<1>3. PlanStands(c)' /\ MarkersStand(c)' /\ ToldOnce'
  BY <1>0, <1>1, <1>2 DEF PlanStands, Kind, MarkersStand, ToldOnce
<1>4. HeardStands(c)'
  BY <1>0, <1>1, <1>2 DEF HeardStands, Owed
<1> QED
  BY <1>0, <1>2, <1>3, <1>4, StillWorking DEF BeforePlan

\* The record of the sink catches up with what it heard, and its markers go.
LEMMA AcknowledgeKeeps ==
    ASSUME IInv, Serial, Answered, NEW c \in Calls, NEW s \in Sinks, Acknowledge(c, s)
    PROVE  Answered'
<1> USE DEF inbox
<1>0. /\ TypeOK /\ pc[c] = "ack" /\ s \in todo[c] /\ todo[c] \subseteq accepted[c]
      /\ error' = error \ About(c, s)
      /\ todo'[c] = todo[c] \ {s}
      /\ pc'[c] = IF todo[c] = {s} THEN "derive" ELSE "ack"
      /\ \A d \in Calls \ {c} : pc'[d] = pc[d]
      /\ UNCHANGED <<state, everOk, snap, plan, accepted, told, twice>>
  BY DEF Acknowledge, First, IInv, TypeOK, AckAccepted
<1>1. PlanStands(c) /\ HeardStands(c) /\ MarkersStand(c) /\ ToldOnce
  BY <1>0 DEF Answered, Working, BeforePlan
<1>2. Acked(c) = accepted[c] \ todo[c] /\ Acked(c)' = Acked(c) \cup {s}
  BY <1>0 DEF Acked
<1>3. Owed(c) = todo[c] /\ Owed(c)' = todo[c] \ {s}
  BY <1>0, <1>2 DEF Owed
<1>4. \A t \in Sinks, a \in Alerts :
        notified'[t][a] =
          IF t = s /\ plan[c][s][a] # "silent" THEN state[a] ELSE notified[t][a]
  BY <1>0, <1>1 DEF Acknowledge, Announced, About, PlanStands, TypeOK, Record
<1>5. PlanStands(c)'
  <2> SUFFICES ASSUME NEW t \in Sinks, NEW a \in Alerts
               PROVE  IF t \in Acked(c)' THEN Kind(t, a, FALSE)' = "silent"
                      ELSE plan'[c][t][a] \in {Kind(t, a, FALSE)', Kind(t, a, Renotify)'}
    BY <1>0, <1>1 DEF PlanStands
  <2>1. CASE t # s
    <3>1. \A d : Kind(t, a, d)' = Kind(t, a, d)
      BY <1>0, <1>4, <2>1 DEF Kind
    <3> QED
      BY <1>0, <1>1, <1>2, <2>1, <3>1 DEF PlanStands
  <2>2. CASE t = s
    <3>1. CASE plan[c][s][a] # "silent"
      <4>1. notified'[s][a] = state'[a]
        BY <1>0, <1>4, <3>1
      <4>2. Kind(s, a, FALSE)' = "silent"
        BY <4>1, KindSame DEF Kind
      <4> QED
        BY <1>2, <2>2, <4>2
    <3>2. CASE plan[c][s][a] = "silent"
      <4>1. plan[c][s][a] \in {Kind(s, a, FALSE), Kind(s, a, Renotify)}
        BY <1>0, <1>1, <1>2 DEF PlanStands
      <4>2. Kind(s, a, FALSE) = "silent"
        BY <3>2, <4>1, KindMore DEF Kind
      <4>3. Kind(s, a, FALSE)' = Kind(s, a, FALSE)
        BY <1>0, <1>4, <3>2 DEF Kind
      <4> QED
        BY <1>2, <2>2, <4>2, <4>3
    <3> QED
      BY <3>1, <3>2
  <2> QED
    BY <2>1, <2>2
<1>6. HeardStands(c)'
  BY <1>0, <1>1, <1>3, <1>4 DEF HeardStands
<1>7. MarkersStand(c)' /\ ToldOnce'
  BY <1>0, <1>1, <1>2 DEF MarkersStand, ToldOnce, About, TypeOK
<1> QED
  BY <1>0, <1>5, <1>6, <1>7, StillWorking DEF BeforePlan

\* A call whose acknowledgements are written has its records where its sinks are, and
\* what it still has coming is what its refused sinks were to be sent.
LEMMA AllAcknowledged ==
    ASSUME IInv, NEW c \in Calls, pc[c] \in {"derive", "mark"},
           PlanStands(c), HeardStands(c), MarkersStand(c)
    PROVE  /\ told = notified
           /\ Retried(FALSE) \subseteq Refused(c)
           /\ Refused(c) \subseteq Retried(Renotify)
           /\ error \subseteq Refused(c)
<1>0. TypeOK /\ Acked(c) = accepted[c] /\ Owed(c) = {}
  BY DEF IInv, Acked, Owed
<1>1. told = notified
  <2>1. \A s \in Sinks, a \in Alerts : told[s][a] = notified[s][a]
    BY <1>0 DEF HeardStands
  <2> QED
    BY <1>0, <2>1 DEF TypeOK, Record
<1>2. \A a \in Alerts : a \in Refused(c) <=>
                        \E s \in Sinks \ accepted[c] : plan[c][s][a] # "silent"
  BY DEF Refused, Addressed, About
<1>3. ASSUME NEW s \in Sinks, NEW a \in Alerts, Kind(s, a, FALSE) # "silent"
      PROVE  a \in Refused(c)
  <2>1. s \notin accepted[c]
    BY <1>0, <1>3 DEF PlanStands
  <2>2. Kind(s, a, Renotify) # "silent"
    BY <1>3, KindMore DEF Kind
  <2>3. plan[c][s][a] # "silent"
    BY <1>0, <1>3, <2>1, <2>2 DEF PlanStands
  <2> QED
    BY <1>2, <2>1, <2>3
<1>4. ASSUME NEW a \in Refused(c) PROVE a \in Retried(Renotify)
  <2>1. a \in Alerts
    BY DEF Refused, About
  <2>2. PICK s \in Sinks \ accepted[c] : plan[c][s][a] # "silent"
    BY <1>2, <2>1
  <2>3. Kind(s, a, FALSE) # "silent" \/ Kind(s, a, Renotify) # "silent"
    BY <1>0, <2>1, <2>2 DEF PlanStands
  <2>4. Kind(s, a, Renotify) # "silent"
    BY <2>3, KindMore DEF Kind
  <2> QED
    BY <2>1, <2>4, RetriedMeans
<1>5. error \subseteq Refused(c)
  BY <1>0, <1>2 DEF MarkersStand, TypeOK
<1> QED
  BY <1>1, <1>3, <1>4, <1>5, RetriedMeans

\* The panel's summary does not touch what is pending; a tick with nobody refused ends.
LEMMA DeriveKeeps ==
    ASSUME IInv, Serial, Answered, NEW c \in Calls, Derive(c)
    PROVE  Answered'
<1> USE DEF inbox
<1>0. /\ TypeOK /\ pc[c] = "derive"
      /\ UNCHANGED <<state, everOk, notified, error, told, twice>>
  BY DEF Derive, IInv
<1>1. PlanStands(c) /\ HeardStands(c) /\ MarkersStand(c) /\ ToldOnce
  BY <1>0 DEF Answered, Working, BeforePlan
<1>2. CASE Refused(c) = {}
  <2>1. told = notified /\ Retried(FALSE) = {} /\ error = {}
    BY <1>0, <1>1, <1>2, AllAcknowledged
  <2>2. Retried(FALSE)' = Retried(FALSE)
    BY <1>0 DEF Retried
  <2>3. Return(c)
    BY <1>2 DEF Derive
  <2> QED
    BY <1>0, <1>1, <2>1, <2>2, <2>3, ComesToRest DEF ToldOnce
<1>3. CASE Refused(c) # {}
  <2>1. /\ pc'[c] = "mark" /\ UNCHANGED <<snap, plan, accepted>>
        /\ \A d \in Calls \ {c} : pc'[d] = pc[d]
    BY <1>0, <1>3 DEF Derive, TypeOK
  <2>2. Acked(c)' = Acked(c) /\ Owed(c)' = Owed(c)
    BY <1>0, <2>1 DEF Acked, Owed
  <2>3. PlanStands(c)' /\ ToldOnce'
    <3>1. state' = state /\ everOk' = everOk /\ notified' = notified /\ twice' = twice
      BY <1>0
    <3>2. \A s \in Sinks, a \in Alerts : /\ Kind(s, a, FALSE)' = Kind(s, a, FALSE)
                                         /\ Kind(s, a, Renotify)' = Kind(s, a, Renotify)
      BY <3>1 DEF Kind
    <3> QED
      BY <1>1, <2>1, <2>2, <3>1, <3>2 DEF PlanStands, ToldOnce
  <2>4. HeardStands(c)'
    BY <1>0, <1>1, <2>1, <2>2 DEF HeardStands
  <2>5. MarkersStand(c)'
    BY <1>0, <1>1, <2>1, <2>2 DEF MarkersStand
  <2> QED
    BY <1>0, <2>1, <2>3, <2>4, <2>5, StillWorking DEF BeforePlan
<1> QED
  BY <1>2, <1>3

\* The refused sinks' monitors are marked, and they are the ones still to be told.
LEMMA MarkFailedKeeps ==
    ASSUME IInv, Serial, Answered, NEW c \in Calls, MarkFailed(c)
    PROVE  Answered'
<1> USE DEF inbox
<1>0. /\ TypeOK /\ pc[c] = "mark" /\ Return(c) /\ error' = error \cup Refused(c)
      /\ UNCHANGED <<state, everOk, notified, told, twice>>
  BY DEF MarkFailed, IInv
<1>1. PlanStands(c) /\ HeardStands(c) /\ MarkersStand(c) /\ ToldOnce
  BY <1>0 DEF Answered, Working, BeforePlan
<1>2. /\ told = notified
      /\ Retried(FALSE) \subseteq Refused(c) /\ Refused(c) \subseteq Retried(Renotify)
      /\ error \subseteq Refused(c)
  BY <1>0, <1>1, AllAcknowledged
<1>3. Retried(FALSE)' = Retried(FALSE) /\ Retried(Renotify)' = Retried(Renotify)
  BY <1>0 DEF Retried
<1> QED
  BY <1>0, <1>1, <1>2, <1>3, ComesToRest DEF ToldOnce

-----------------------------------------------------------------------------
(* Every step until the first fault.                                       *)

LEMMA AnsweredInit == Init => Serial /\ Answered
<1> SUFFICES ASSUME Init PROVE Serial /\ Answered
  OBVIOUS
<1>1. \A c \in Calls : pc[c] = "idle"
  BY DEF Init
<1>2. told = notified /\ error = {} /\ twice = {}
  BY DEF Init
<1>3. ASSUME NEW due PROVE Retried(due) = {}
  <2>1. \A s \in Sinks, a \in Alerts : notified[s][a] = "never" /\ state[a] = "never"
    BY DEF Init, Nobody, Unseen
  <2> QED
    BY <2>1 DEF Retried, KindOf
<1> QED
  BY <1>1, <1>2, <1>3 DEF Serial, Answered, Rest, ReadStands, Working, ToldOnce, BeforePlan

LEMMA AnsweredStep ==
    /\ OneDashboard
    /\ IInv
    /\ Serial
    /\ NoFault => Answered
    /\ [Next]_vars
    => (NoFault' => Answered')
<1> SUFFICES ASSUME OneDashboard, IInv, Serial, faults = 0 => Answered, [Next]_vars,
                    faults' = 0
             PROVE  Answered'
  BY DEF NoFault
<1>0. faults \in Nat
  BY DEF IInv, TypeOK
<1>1. ASSUME UNCHANGED <<row, local, inbox, faults>> PROVE Answered'
  <2>1. Answered /\ UNCHANGED <<state, everOk, notified, error, pc, snap, prior, plan, todo,
                                accepted, told, twice>>
    BY <1>1 DEF row, local, inbox
  <2>2. Rest' /\ ReadStands' /\ ToldOnce'
    BY <2>1 DEF Answered, Rest, Retried, ReadStands, ToldOnce
  <2>3. ASSUME NEW c \in Calls
        PROVE  /\ Acked(c)' = Acked(c) /\ Owed(c)' = Owed(c)
               /\ PlanStands(c)' = PlanStands(c) /\ HeardStands(c)' = HeardStands(c)
               /\ MarkersStand(c)' = MarkersStand(c)
    BY <2>1 DEF Acked, Owed, PlanStands, HeardStands, MarkersStand, Kind
  <2> QED
    BY <2>1, <2>2, <2>3 DEF Answered, Working
<1>2. ASSUME NEW c \in Calls, Start(c) \/ Step(c) \/ Abort(c) PROVE Answered'
  <2>0. faults' # faults + 1
    BY <1>0
  <2>1. ~Abort(c) /\ \A s \in Sinks : ~PostUnanswered(c, s)
    BY <2>0 DEF PostUnanswered, Abort
  <2>2. CASE UNCHANGED faults
    <3>1. Answered
      BY <2>2
    <3> QED
      BY <1>2, <2>1, <3>1, LookingKeeps, PlanningKeeps, SettleKeeps, PostAcceptedKeeps,
         PostRefusedKeeps, AcknowledgeKeeps, DeriveKeeps, MarkFailedKeeps DEF Step
  <2>3. UNCHANGED faults
    BY <1>2, <2>1 DEF Step, Start, Evaluate, ReadRemembered, WriteObservations, Settle,
       PostAccepted, PostRefused, Acknowledge, Derive, MarkFailed
  <2> QED
    BY <2>2, <2>3
<1>3. CASE UNCHANGED vars
  BY <1>1, <1>3 DEF vars, row, local, inbox
<1> QED
  BY <1>1, <1>2, <1>3 DEF Next, Monitor, LeaseExpires
-----------------------------------------------------------------------------
(* What holds until the first fault.                                       *)

\* From one dashboard, and until a fault, the tables answer for what was heard.
THEOREM Undisturbed ==
    ASSUME OneDashboard
    PROVE  Spec => [](IInv /\ Serial /\ (NoFault => Answered))
<1>1. Init => IInv /\ Serial /\ (NoFault => Answered)
  BY InvInit, AnsweredInit
<1>2. IInv /\ Serial /\ (NoFault => Answered) /\ [Next]_vars
      => Serial' /\ (NoFault' => Answered')
  BY SerialStep, AnsweredStep DEF IInv
<1>3. Spec => []IInv
  BY Invariance
<1> QED
  BY <1>1, <1>2, <1>3, PTL DEF Spec

\* One dashboard whose answers all arrive and whose ticks all finish leaves in
\* notified_sinks, outside the send window, exactly what each sink last heard,
\* whatever the monitors do and whichever sinks refuse.
THEOREM RecordsAreWhatWasHeard ==
    ASSUME OneDashboard
    PROVE  Spec => [](NoFault => RecordIsWhatWasHeard)
<1>1. ASSUME IInv, Answered, \A c \in Calls : pc[c] \notin {"post", "ack"}
      PROVE  notified = told
  <2>1. CASE \A c \in Calls : pc[c] \in BeforePlan
    BY <1>1, <2>1 DEF Answered, Rest
  <2>2. ASSUME NEW c \in Calls, pc[c] \notin BeforePlan
        PROVE  notified = told
    <3>1. TypeOK /\ pc[c] \in {"settle", "derive", "mark"}
      BY <1>1, <2>2 DEF IInv, TypeOK, Steps, BeforePlan
    <3>2. Owed(c) = {}
      BY <1>1, <3>1 DEF IInv, Blank, BeforePost, Owed, Acked
    <3>3. \A s \in Sinks, a \in Alerts : told[s][a] = notified[s][a]
      BY <1>1, <2>2, <3>2 DEF Answered, Working, HeardStands
    <3> QED
      BY <3>1, <3>3 DEF TypeOK, Record
  <2> QED
    BY <2>1, <2>2
<1>2. IInv /\ (NoFault => Answered) => (NoFault => RecordIsWhatWasHeard)
  BY <1>1 DEF RecordIsWhatWasHeard
<1> QED
  BY Undisturbed, <1>2, PTL

\* Until a fault, no sink hears the same state twice as if it were news, however
\* often forced calls, the timer and refusals of other sinks repeat a tick.
THEOREM NewsIsToldOnce ==
    ASSUME OneDashboard
    PROVE  Spec => [](NoFault => ToldOnce)
<1>1. (NoFault => Answered) => (NoFault => ToldOnce)
  BY DEF Answered
<1> QED
  BY Undisturbed, <1>1, PTL

\* Until a fault, a failure marker is there between ticks exactly for the monitors
\* some sink has still to be told about (an elapsed re-notify interval aside).
THEOREM MarkersMeanRetry ==
    ASSUME OneDashboard
    PROVE  Spec => [](NoFault => ErrorMeansRetry)
<1>1. (NoFault => Answered) => (NoFault => ErrorMeansRetry)
  BY DEF Answered, Rest, ErrorMeansRetry, BeforePlan
<1> QED
  BY Undisturbed, <1>1, PTL

-----------------------------------------------------------------------------
(* The channel.                                                            *)

\* A message that a sink takes is a message of its channel, or tells nothing new.
LEMMA PostIsMessage ==
    ASSUME IInv, Answered, NEW c \in Calls, NEW s \in Sinks, PostAccepted(c, s)
    PROVE  told' = told \/ Channel!Message(s)
<1> DEFINE news == {a \in About(c, s) : told[s][a] # snap[c][a]}
<1>0. TypeOK /\ pc[c] = "post" /\ s \in todo[c] /\ Hear(c, s)
  BY DEF PostAccepted, First, IInv
<1>1. PlanStands(c) /\ HeardStands(c) /\ s \notin accepted[c] /\ Acked(c) = {}
  BY <1>0 DEF Answered, Working, BeforePlan, Acked
<1>2. told \in Record /\ About(c, s) \subseteq Alerts /\ snap[c] = state
  BY <1>0, <1>1 DEF TypeOK, About, PlanStands
<1>3. told' = [told EXCEPT ![s] =
                 [a \in Alerts |-> IF a \in news THEN snap[c][a] ELSE told[s][a]]]
  <2>1. told' = [told EXCEPT ![s] =
                   [a \in Alerts |-> IF a \in About(c, s) THEN snap[c][a] ELSE told[s][a]]]
    BY <1>0, <1>2 DEF Hear, Record
  <2> QED
    BY <2>1
<1>4. ASSUME NEW a \in news
      PROVE  snap[c][a] \in AlertState /\ Channel!News(a, told[s][a], snap[c][a])
  <2>1. a \in Alerts /\ plan[c][s][a] # "silent" /\ told[s][a] # state[a]
    BY <1>2 DEF About
  <2>2. told[s][a] = notified[s][a]
    BY <1>1, <2>1 DEF HeardStands, Owed
  <2>3. Kind(s, a, FALSE) # "silent" \/ Kind(s, a, Renotify) # "silent"
    BY <1>1, <2>1 DEF PlanStands
  <2>4. notified[s][a] \in Remembered /\ state[a] \in Remembered
    BY <1>0, <2>1 DEF TypeOK, Record
  <2>5. \/ state[a] = "firing"
        \/ state[a] = "ok" /\ notified[s][a] = "firing"
        \/ state[a] = "unknown" /\ (notified[s][a] = "firing" \/ a \in Page)
    <3> DEFINE page == a \in Page
               ok == a \in everOk
    <3>1. page \in BOOLEAN /\ notified[s][a] # state[a]
      BY <2>1, <2>2
    <3>2. PICK due : KindOf(notified[s][a], state[a], ok, page, due) # "silent"
      BY <2>3 DEF Kind
    <3> HIDE DEF page, ok
    <3>3. \/ state[a] = "firing"
          \/ state[a] = "ok" /\ notified[s][a] = "firing"
          \/ state[a] = "unknown" /\ (notified[s][a] = "firing" \/ page)
      BY <2>4, <3>1, <3>2, KindNews
    <3> QED
      BY <3>3 DEF page
  <2> QED
    BY <1>2, <2>1, <2>2, <2>5 DEF Channel!News, AlertState
<1>5. CASE news = {}
  BY <1>2, <1>3, <1>5 DEF Record
<1>6. CASE news # {}
  <2> DEFINE to == [a \in news |-> snap[c][a]]
  <2>1. news \in (SUBSET Alerts) \ {{}}
    <3>1. news \subseteq Alerts
      BY <1>2
    <3> QED
      BY <1>6, <3>1
  <2>2. to \in [news -> {"ok", "firing", "unknown"}]
    BY <1>4 DEF AlertState
  <2>3. \A a \in news : Channel!News(a, told[s][a], to[a])
    BY <1>4
  <2>4. told' = [told EXCEPT ![s] = [a \in Alerts |-> IF a \in news THEN to[a] ELSE @[a]]]
    BY <1>2, <1>3 DEF Record
  <2> HIDE DEF news, to
  <2> QED
    BY <2>1, <2>2, <2>3, <2>4 DEF Channel!Message
<1> QED
  BY <1>5, <1>6

\* Until the first fault, what one dashboard sends its sinks is a behaviour of
\* AlertChannel: every message is news, and an all-clear answers an alarm.
THEOREM DeliveryImplementsChannel ==
    ASSUME OneDashboard
    PROVE  Spec /\ []NoFault => ImplementsChannel
<1>1. Init => Channel!Init
  BY DEF Init, Channel!Init, Nobody
<1>2. IInv /\ Answered /\ NoFault /\ NoFault' /\ [Next]_vars => [Channel!Next]_told
  <2> SUFFICES ASSUME IInv, Answered, faults = 0, faults' = 0, [Next]_vars
               PROVE  [Channel!Next]_told
    BY DEF NoFault
  <2>1. ASSUME NEW c \in Calls, NEW s \in Sinks, PostAccepted(c, s)
        PROVE  [Channel!Next]_told
    BY <2>1, PostIsMessage DEF Channel!Next
  <2>2. ASSUME NEW c \in Calls, NEW s \in Sinks PROVE ~PostUnanswered(c, s)
    <3>1. faults' # faults + 1
      OBVIOUS
    <3> QED
      BY <3>1 DEF PostUnanswered
  <2>3. CASE \E c \in Calls, s \in Sinks : PostAccepted(c, s)
    BY <2>1, <2>3
  <2>4. CASE UNCHANGED told
    BY <2>4
  <2> QED
    BY <2>2, <2>3, <2>4, InboxFrame DEF inbox
<1>3. Spec => []IInv /\ [](NoFault => Answered)
  BY Undisturbed, PTL
<1> QED
  BY <1>1, <1>2, <1>3, PTL DEF Spec, ImplementsChannel, Channel!Spec
=============================================================================
