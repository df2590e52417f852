------------------------------- MODULE Sandbox -------------------------------
(***************************************************************************)
(* The OpenSandbox backend of eve                                          *)
(* (packages/sandbox-opensandbox/src/index.ts): over the turns of one      *)
(* durable session, create() reattaches to the sandbox the session's       *)
(* metadata names or makes a new one, captureState() gives eve what to     *)
(* persist, and shutdown() pauses.  A process may be spawned on the way.   *)
(*                                                                         *)
(* The sandbox server and eve are external.  Sandboxes are numbered as     *)
(* they are created; the template key is null (create() refuses any other  *)
(* before it does anything).                                               *)
(***************************************************************************)
EXTENDS Integers, FiniteSets

CONSTANTS
    Policies,      \* keys networkPolicyKey gives
    Unrestricted,  \* UNRESTRICTED_POLICY_KEYS
    Unset,         \* the key of no policy at all
    Killers, Signal,
    MaxTurns,      \* bound: create() calls
    MaxBoxes,      \* bound: sandboxes the server hands out
    MaxFaults      \* bound: calls that fail and deaths of the agent process

ASSUME SandboxAssumption ==
    /\ Unset \in Unrestricted /\ Unrestricted \subseteq Policies
    /\ {MaxTurns, MaxBoxes} \subseteq Nat \ {0}
    /\ IsFiniteSet(Killers) /\ Signal \notin Killers /\ MaxFaults \in Nat

VARIABLES
    box,      \* per sandbox: its state, its egress, the turns its /workspace holds
    made,     \* sandboxes created
    policy,   \* networkPolicy of the running program
    meta,     \* what eve persists: sandboxId (0: none) and networkPolicyKey
    step,     \* the await the current turn is at; "idle" between turns
    live,     \* the sandbox this turn uses
    turn,     \* create() calls
    written,  \* the turns that wrote into the workspace
    shaky,    \* a call of this turn's ladder failed though its sandbox lives
    lost,     \* per cause: the turns whose files it took from the session
    home,     \* the sandbox the process was spawned in, 0 without one
    proc, wait, kills, script, intents, aborted,
    faults

life == <<box, made, policy, meta, step, live, turn, written, shaky, lost>>
process == <<proc, wait, kills, script, intents, aborted>>
vars == <<life, home, process, faults>>

Boxes == 1 .. MaxBoxes
Turns == 1 .. MaxTurns
Causes == {"reaped", "unsaved", "abandoned", "killed"}
Up == home # 0 /\ box[home].state = "running"
Process == INSTANCE SpawnedProcess WITH up <- Up

TypeOK ==
    /\ box \in [Boxes -> [state : {"none", "running", "paused", "gone"},
                          egress : Policies, work : SUBSET Turns]]
    /\ made \in 0 .. MaxBoxes /\ policy \in Policies
    /\ meta \in [id : 0 .. MaxBoxes, key : Policies]
    /\ step \in {"idle", "connect", "resume", "refuse", "create", "dirs", "live", "kill"}
    /\ {live, home} \subseteq 0 .. MaxBoxes
    /\ turn \in 0 .. MaxTurns /\ written \subseteq Turns
    /\ shaky \in BOOLEAN /\ lost \in [Causes -> SUBSET Turns]
    /\ faults \in 0 .. MaxFaults
    /\ Process!TypeOK

Blank == [state |-> "none", egress |-> Unset, work |-> {}]

\* A new session, or one persisted before the option existed: no key, which
\* reads as Unset, and a sandbox made without a policy.
Init ==
    /\ policy \in Policies
    /\ \/ /\ box = [n \in Boxes |-> Blank] /\ made = 0
          /\ meta = [id |-> 0, key |-> Unset]
       \/ /\ box = [n \in Boxes |-> IF n = 1 THEN [Blank EXCEPT !.state = "paused"] ELSE Blank]
          /\ made = 1 /\ meta = [id |-> 1, key |-> Unset]
    /\ step = "idle" /\ live = 0 /\ turn = 0 /\ written = {}
    /\ shaky = FALSE /\ lost = [c \in Causes |-> {}]
    /\ home = 0 /\ faults = 0
    /\ Process!Init

Fault == faults < MaxFaults /\ faults' = faults + 1
NoFault == UNCHANGED faults

\* sameNetworkPolicyKey
Canonical(key) == IF key \in Unrestricted THEN Unset ELSE key
SamePolicy(a, b) == Canonical(a) = Canonical(b)

Becomes(n, state) == box' = [box EXCEPT ![n].state = state]

\* The files of sandbox n are lost to the session.
Loses(cause, n) == lost' = [lost EXCEPT ![cause] = @ \cup box[n].work]

\* create(): a session that has a sandbox climbs the ladder first.  Bound: a
\* turn begins only when no handle of a process is left from an earlier one.
BeginTurn ==
    /\ step = "idle" /\ turn < MaxTurns /\ home = 0
    /\ turn' = turn + 1 /\ shaky' = FALSE
    /\ step' = IF meta.id # 0 THEN "connect" ELSE "create"
    /\ UNCHANGED <<box, made, policy, meta, live, written, lost, home, process, faults>>

\* The egress check, for a sandbox that was recovered.
RecoveredUnchecked == live' = meta.id /\ step' = "dirs"
Recovered ==
    /\ live' = meta.id
    /\ step' = IF SamePolicy(meta.key, policy) THEN "dirs" ELSE "refuse"

\* Sandbox.connect: it fails on a paused sandbox.
Connect ==
    /\ step = "connect"
    /\ \/ box[meta.id].state = "running" /\ Recovered /\ UNCHANGED shaky /\ NoFault
       \/ box[meta.id].state # "running" /\ step' = "resume" /\ UNCHANGED <<live, shaky>> /\ NoFault
       \/ Fault /\ step' = "resume" /\ shaky' = TRUE /\ UNCHANGED live
    /\ UNCHANGED <<box, made, policy, meta, turn, written, lost, home, process>>

\* Sandbox.resume: any failure falls through to create.  A failed one may have
\* woken the sandbox; what it does to a running one is the server's.  ResumeNever
\* is the ladder without this rung.
ResumeNever ==
    /\ step = "resume" /\ step' = "create"
    /\ UNCHANGED <<box, made, policy, meta, live, turn, written, shaky, lost, home, process>>
    /\ NoFault

Resume ==
    /\ step = "resume"
    /\ \/ /\ box[meta.id].state \in {"paused", "running"}
          /\ Becomes(meta.id, "running") /\ Recovered /\ UNCHANGED shaky /\ NoFault
       \/ /\ box[meta.id].state \in {"running", "gone"}
          /\ step' = "create" /\ UNCHANGED <<box, live, shaky>> /\ NoFault
       \/ /\ box[meta.id].state \in {"paused", "running"} /\ Fault
          /\ \/ Becomes(meta.id, "running")
             \/ UNCHANGED box
          /\ step' = "create" /\ shaky' = TRUE /\ UNCHANGED live
    /\ UNCHANGED <<made, policy, meta, turn, written, lost, home, process>>

\* A recovered sandbox of another policy is paused again, and create() throws.
Refuse ==
    /\ step = "refuse"
    /\ \/ Becomes(live, "paused") /\ NoFault
       \/ UNCHANGED box /\ Fault
    /\ step' = "idle" /\ live' = 0
    /\ UNCHANGED <<made, policy, meta, turn, written, shaky, lost, home, process>>

\* Sandbox.create, under the policy of the program; it may throw after the
\* sandbox was made.
New == [state |-> "running", egress |-> policy, work |-> {}]

Create ==
    /\ step = "create" /\ made < MaxBoxes
    /\ \/ /\ made' = made + 1 /\ box' = [box EXCEPT ![made + 1] = New]
          /\ \/ live' = made + 1 /\ step' = "dirs" /\ NoFault
             \/ live' = 0 /\ step' = "idle" /\ Fault
       \/ UNCHANGED <<made, box>> /\ live' = 0 /\ step' = "idle" /\ Fault
    /\ UNCHANGED <<policy, meta, turn, written, shaky, lost, home, process>>

\* createDirectories, then the handle; a throw leaves the sandbox running.  The
\* turn that is handed a new sandbox because a living one did not answer has
\* abandoned that one.
Dirs ==
    /\ step = "dirs"
    /\ \/ /\ box[live].state = "running" /\ step' = "live" /\ UNCHANGED live /\ NoFault
          /\ IF shaky /\ meta.id \notin {0, live}
                THEN Loses("abandoned", meta.id) ELSE UNCHANGED lost
       \/ /\ step' = "idle" /\ live' = 0 /\ UNCHANGED lost
          /\ IF box[live].state = "running" THEN Fault ELSE NoFault
    /\ UNCHANGED <<box, made, policy, meta, turn, written, shaky, home, process>>

\* The turn's own work.
Write ==
    /\ step = "live" /\ box[live].state = "running" /\ turn \notin written
    /\ box' = [box EXCEPT ![live].work = @ \cup {turn}]
    /\ written' = written \cup {turn}
    /\ UNCHANGED <<made, policy, meta, step, live, turn, shaky, lost, home, process, faults>>

\* captureState, which eve persists.
State == [id |-> live, key |-> policy]

Capture ==
    /\ step = "live" /\ meta # State
    /\ meta' = State
    /\ UNCHANGED <<box, made, policy, step, live, turn, written, shaky, lost, home, process>>
    /\ NoFault

\* shutdown(): pause, and kill when pause fails, although it may have paused.
Shutdown ==
    /\ step = "live" /\ meta = State
    /\ \/ /\ box[live].state = "running" /\ Becomes(live, "paused")
          /\ \/ step' = "idle" /\ live' = 0 /\ NoFault
             \/ step' = "kill" /\ UNCHANGED live /\ Fault
       \/ /\ UNCHANGED <<box, live>> /\ step' = "kill"
          /\ IF box[live].state = "running" THEN Fault ELSE NoFault
    /\ UNCHANGED <<made, policy, meta, turn, written, shaky, lost, home, process>>

ShutdownFallback ==
    /\ step = "kill"
    /\ \/ Becomes(live, "gone") /\ Loses("killed", live) /\ NoFault
          /\ IF home = live THEN Process!Perish ELSE UNCHANGED process
       \/ UNCHANGED <<box, lost, process>> /\ (IF box[live].state = "gone" THEN NoFault ELSE Fault)
    /\ step' = "idle" /\ live' = 0
    /\ UNCHANGED <<made, policy, meta, turn, written, shaky, home>>

\* The server reaps a sandbox: its lifetime is over.
Reap(n) ==
    /\ box[n].state \in {"running", "paused"}
    /\ Becomes(n, "gone")
    /\ Loses("reaped", n)
    /\ IF home = n THEN Process!Perish ELSE UNCHANGED process
    /\ UNCHANGED <<made, policy, meta, step, live, turn, written, shaky, home, faults>>

\* The agent process dies in a turn.  What the turn wrote is found again only
\* when eve had persisted the state.
Crash ==
    /\ step # "idle" /\ Fault
    /\ IF live \notin {0, meta.id} THEN Loses("unsaved", live) ELSE UNCHANGED lost
    /\ step' = "idle" /\ live' = 0
    /\ Process!Forget /\ home' = 0
    /\ UNCHANGED <<box, made, policy, meta, turn, written, shaky>>

\* The program is started again with another networkPolicy.
Redeploy(p) ==
    /\ step = "idle" /\ p # policy
    /\ policy' = p
    /\ Process!Forget /\ home' = 0
    /\ UNCHANGED <<box, made, meta, step, live, turn, written, shaky, lost, faults>>

\* Bound: the process is spawned in the session's first turn, its state captured.
Spawn ==
    /\ step = "live" /\ turn = 1 /\ meta = State
    /\ box[live].state = "running" /\ home = 0
    /\ home' = live
    /\ Process!Spawn
    /\ UNCHANGED life

ProcessStep == Process!Next /\ UNCHANGED <<life, home>>

Next ==
    \/ BeginTurn \/ Connect \/ Resume \/ Refuse \/ Create \/ Dirs
    \/ Write \/ Capture \/ Shutdown \/ ShutdownFallback
    \/ Crash \/ Spawn \/ ProcessStep
    \/ \E n \in Boxes : Reap(n)
    \/ \E p \in Policies : Redeploy(p)

\* A turn is handed the workspace with all that the session ever wrote, over
\* pauses, restarts and deaths of the program and refusals of the egress check.
\* What is missing was in a sandbox the server deleted, or in one whose id eve had
\* not persisted; or the backend itself let go of it, in one of two ways: no rung
\* of the ladder reached a sandbox that lives, and create() made another, or
\* shutdown() killed what it could not pause.  It does neither before a request
\* to the server has failed.
TakenFromOutside == lost["reaped"] \cup lost["unsaved"]
TakenByTheBackend == lost["abandoned"] \cup lost["killed"]

WorkspaceIsKept ==
    /\ step = "live" =>
          written \subseteq box[live].work \cup TakenFromOutside \cup TakenByTheBackend
    /\ faults = 0 => TakenByTheBackend \subseteq TakenFromOutside

\* No turn runs under an egress other than the one the program asks for, however
\* old its sandbox and however often the program changed its mind.
EgressIsAsAsked ==
    step \in {"dirs", "live"} => SamePolicy(box[live].egress, policy)

WaitAndKillAgree == Process!WaitAndKillAgree

Spec == Init /\ [][Next]_vars
=============================================================================
