--------------------------- MODULE SpawnedProcess ---------------------------
(***************************************************************************)
(* session.spawn() of the OpenSandbox backend                              *)
(* (packages/sandbox-opensandbox/src/index.ts): one process started in a   *)
(* sandbox, the stream its output and its end arrive on, concurrent kill() *)
(* calls, and the abort signal of the caller.                              *)
(*                                                                         *)
(* Killing is a second command run in the sandbox: it reads the pid file   *)
(* that the wrapper of the first one writes, so it does nothing when it    *)
(* runs before the pid is there.  A request may fail after it took effect. *)
(***************************************************************************)
EXTENDS Integers

CONSTANTS
    Killers,    \* calls of the handle's kill()
    Signal,     \* the caller's abort signal
    MaxFaults   \* bound: calls of the sandbox server that fail

VARIABLES
    up,        \* the sandbox of the process is running
    proc,      \* the process: "none", "starting", "running", "exited", "killed"
    wait,      \* the promise wait() returns: "none", "pending", "exit",
               \* "killed" (code 137), "cut" (137 too: no code came), "rejected"
    kills,     \* per kill(): where it is, and wait() when it began and ended
    script,    \* per kill() and signal: "no", "sent", "found", "missed"
    intents,   \* killIntents
    aborted,   \* the controller that funnels every abort
    faults

process == <<proc, wait, kills, script, intents, aborted>>

Alive == {"starting", "running"}
Promise == {"none", "pending", "exit", "killed", "cut", "rejected"}

TypeOK ==
    /\ proc \in {"none", "starting", "running", "exited", "killed"}
    /\ wait \in Promise
    /\ kills \in [Killers -> [at : {"no", "sent", "acked", "done", "failed"},
                              saw : Promise, end : Promise]]
    /\ script \in [Killers \cup {Signal} -> {"no", "sent", "found", "missed"}]
    /\ intents \in Nat
    /\ aborted \in BOOLEAN

NoKills == [k \in Killers |-> [at |-> "no", saw |-> "none", end |-> "none"]]
NoScripts == [k \in Killers \cup {Signal} |-> "no"]

Init ==
    /\ proc = "none" /\ wait = "none" /\ intents = 0 /\ aborted = FALSE
    /\ kills = NoKills /\ script = NoScripts

Fault == faults < MaxFaults /\ faults' = faults + 1
NoFault == UNCHANGED faults

\* spawn(): the command is sent; nothing has run yet.  Where it may be called
\* is for the module that composes this one to say.
Spawn ==
    /\ wait = "none"
    /\ proc' = "starting" /\ wait' = "pending"
    /\ UNCHANGED <<kills, script, intents, aborted, faults>>

\* The first line of the wrapper.
RecordPid ==
    /\ up /\ proc = "starting"
    /\ proc' = "running"
    /\ UNCHANGED <<wait, kills, script, intents, aborted, faults>>

\* The process ends by itself, or the server terminates it (a timeout, memory).
Ends(how) ==
    /\ up
    /\ \/ how = "exited" /\ proc = "running"
       \/ how = "killed" /\ proc \in Alive
    /\ proc' = how
    /\ UNCHANGED <<wait, kills, script, intents, aborted, faults>>

\* exitCodeOf: an end without a code reads as killed, never as success.
Code == IF proc = "exited" THEN "exit" ELSE "killed"

\* The handlers of the command's promise: fulfilled by the end of the process, or
\* by a stream that simply ends, whatever the process does, ...
StreamEnds ==
    /\ wait = "pending"
    /\ \/ up /\ proc \notin Alive /\ wait' = Code /\ NoFault
       \/ wait' = "cut" /\ IF up THEN Fault ELSE NoFault
    /\ UNCHANGED <<proc, kills, script, intents, aborted>>

\* ... or rejected: a rejection under a kill() is that kill.
Broken == IF intents > 0 THEN "killed" ELSE "rejected"

StreamBreaks ==
    /\ wait = "pending"
    /\ \/ (aborted \/ ~up \/ proc = "killed") /\ NoFault
       \/ Fault
    /\ wait' = Broken
    /\ UNCHANGED <<proc, kills, script, intents, aborted>>

\* kill(): the intent first, then the round trip.  SendOnly forgets it.
SendOnly(k) == kills[k].at = "no" /\ UNCHANGED intents
Intend(k) == kills[k].at = "no" /\ intents' = intents + 1

Kill(k) ==
    /\ wait # "none"
    /\ Intend(k)
    /\ kills' = [kills EXCEPT ![k].at = "sent", ![k].saw = wait]
    /\ script' = [script EXCEPT ![k] = "sent"]
    /\ UNCHANGED <<proc, wait, aborted, faults>>

\* The kill command runs in the sandbox: killProcessTreeCommand.
RunScript(k) ==
    /\ up /\ script[k] = "sent"
    /\ script' = [script EXCEPT ![k] = IF proc = "starting" THEN "missed" ELSE "found"]
    /\ proc' = IF proc = "running" THEN "killed" ELSE proc
    /\ UNCHANGED <<wait, kills, intents, aborted, faults>>

\* The round trip fails: the intent is withdrawn.  ClearIntents clears
\* every intent, as a flag instead of a count would.
ClearIntents == intents' = 0
Withdraw == intents' = intents - 1

KillFails(k) ==
    /\ kills[k].at = "sent"
    /\ IF up THEN Fault ELSE NoFault
    /\ Withdraw
    /\ kills' = [kills EXCEPT ![k].at = "failed", ![k].end = wait]
    /\ UNCHANGED <<proc, wait, script, aborted>>

\* It is fulfilled: the controller aborts our stream, and kill() waits for wait().
\* killTree() reads neither the code nor the output of its command, so one that
\* could not run, or whose own stream was cut, is fulfilled like any other.
KillLands(k) ==
    /\ kills[k].at = "sent"
    /\ IF script[k] = "sent" THEN Fault ELSE NoFault
    /\ kills' = [kills EXCEPT ![k].at = "acked"]
    /\ aborted' = TRUE
    /\ UNCHANGED <<proc, wait, script, intents>>

KillReturns(k) ==
    /\ kills[k].at = "acked" /\ wait # "pending"
    /\ kills' = [kills EXCEPT ![k].at = "done", ![k].end = wait]
    /\ UNCHANGED <<proc, wait, script, intents, aborted, faults>>

\* The caller's signal: a kill command nobody waits for, and the abort.
Abort ==
    /\ wait # "none" /\ script[Signal] = "no"
    /\ script' = [script EXCEPT ![Signal] = "sent"]
    /\ aborted' = TRUE
    /\ UNCHANGED <<proc, wait, kills, intents, faults>>

\* What happens to a process once it is spawned.
Next ==
    \/ RecordPid \/ StreamEnds \/ StreamBreaks \/ Abort
    \/ \E how \in {"exited", "killed"} : Ends(how)
    \/ \E k \in Killers : Kill(k) \/ KillFails(k) \/ KillLands(k) \/ KillReturns(k)
    \/ \E k \in Killers \cup {Signal} : RunScript(k)

\* The agent process dies, and with it every handle: what the process does from
\* here on is nobody's to see.
Forget ==
    /\ proc' = "none" /\ wait' = "none" /\ intents' = 0 /\ aborted' = FALSE
    /\ kills' = NoKills /\ script' = NoScripts

\* The sandbox is deleted, and the process with it.
Perish ==
    /\ proc' = IF proc \in Alive THEN "killed" ELSE proc
    /\ UNCHANGED <<wait, kills, script, intents, aborted>>

\* kill() is called at a wait() that is pending, and returns: then wait() resolved,
\* and did not reject.  The process is dead, unless the command of that kill() came
\* before the pid or never ran, which kill() does not tell its caller.  And wait()
\* says 137 of a process that lives in two cases only: its stream ended without a
\* code ("cut"), or broke under a kill() that had not found the process.  What
\* kill() and wait() tell agrees that far whatever the order of the kill, the other
\* kill, the abort, the end of the process and that of its stream.
Excused(k) ==
    /\ script[k] # "found"
    /\ \/ kills[k].at \in {"sent", "acked", "done"}
       \/ kills[k].at = "failed" /\ kills[k].end # "pending"

WaitAndKillAgree ==
    /\ \A k \in Killers : kills[k].at = "done" =>
          /\ proc \notin Alive \/ script[k] # "found"
          /\ kills[k].saw = "pending" => wait \in {"exit", "killed", "cut"}
    /\ wait = "killed" /\ proc \in Alive => \E k \in Killers : Excused(k)
=============================================================================
