---------------------------- MODULE SandboxProofs ----------------------------
(***************************************************************************)
(* The sandbox backend, for every number of turns, sandboxes, policies,    *)
(* kill() calls and failing requests: kill() and wait() agree, no turn     *)
(* runs under another egress, and the workspace is handed on but for what  *)
(* was taken from outside or let go of by the backend in two named ways.   *)
(***************************************************************************)
EXTENDS Sandbox, FiniteSetTheorems, TLAPS

USE SandboxAssumption

-----------------------------------------------------------------------------
(* The process.                                                            *)

\* The kill() calls whose intent is in killIntents.
Counted == {k \in Killers : kills[k].at \in {"sent", "acked", "done"}}

IntentsCount == intents = Cardinality(Counted)

\* Nothing is under way before spawn().
Unspawned ==
    wait = "none" =>
        /\ proc \notin Process!Alive
        /\ \A k \in Killers : kills[k].at = "no"
        /\ \A k \in Killers \cup {Signal} : script[k] = "no"

\* What a command that found the process has done.
ScriptsTell ==
    \A k \in Killers : script[k] = "found" => proc \notin Process!Alive

\* A stream that breaks under an intent settles wait() as killed.
WaitSettles ==
    \A k \in Killers :
        /\ kills[k].at \in {"sent", "acked", "done"} /\ kills[k].saw = "pending" =>
               wait \in {"pending", "exit", "killed", "cut"}
        /\ kills[k].at = "done" => wait # "pending"

\* Code 137 of a process that lives has a kill() to blame.
Blamed ==
    wait = "killed" /\ proc \in Process!Alive => \E k \in Killers : Process!Excused(k)

Kept == Unspawned /\ ScriptsTell /\ WaitSettles /\ Blamed

ProcessInv == Process!TypeOK /\ IntentsCount /\ Kept

LEMMA CountedFinite ==
    /\ IsFiniteSet(Counted) /\ Cardinality(Counted) \in Nat
    /\ Cardinality(Counted) = 0 <=> Counted = {}
<1>1. Counted \subseteq Killers
  BY DEF Counted
<1>2. /\ IsFiniteSet(Counted) /\ Cardinality(Counted) <= Cardinality(Killers)
      /\ Cardinality(Killers) \in Nat
  BY <1>1, FS_Subset, FS_CardinalityType
<1> QED
  BY <1>2, FS_CardinalityType, FS_EmptySet

\* An intent more, one less, or as many as before, with the calls they are of.
LEMMA IntentsKeep ==
    ASSUME Process!TypeOK, IntentsCount,
           \/ Counted' = Counted /\ intents' = intents
           \/ \E k \in Killers \ Counted :
                 Counted' = Counted \cup {k} /\ intents' = intents + 1
           \/ \E k \in Counted : Counted' = Counted \ {k} /\ intents' = intents - 1
    PROVE  IntentsCount' /\ intents' \in Nat
<1>1. IntentsCount'
  <2>1. ASSUME NEW k \in Killers \ Counted, Counted' = Counted \cup {k}, intents' = intents + 1
        PROVE  IntentsCount'
    BY <2>1, CountedFinite, FS_AddElement DEF IntentsCount
  <2>2. ASSUME NEW k \in Counted, Counted' = Counted \ {k}, intents' = intents - 1
        PROVE  IntentsCount'
    BY <2>2, CountedFinite, FS_RemoveElement DEF IntentsCount
  <2> QED
    BY <2>1, <2>2 DEF IntentsCount
<1>2. Cardinality(Counted') \in Nat
  <2>1. Counted' \subseteq Killers
    BY DEF Counted
  <2> QED
    BY <2>1, FS_Subset, FS_CardinalityType
<1> QED
  BY <1>1, <1>2 DEF IntentsCount

\* A kill() begins.
LEMMA KillKeeps ==
    ASSUME ProcessInv, NEW k \in Killers, Process!Kill(k)
    PROVE  ProcessInv'
<1> USE DEF ProcessInv, Process!TypeOK, Process!Promise
<1>1. /\ kills[k].at = "no" /\ intents' = intents + 1 /\ wait # "none"
      /\ kills' = [kills EXCEPT ![k] = [kills[k] EXCEPT !.at = "sent", !.saw = wait]]
      /\ script' = [script EXCEPT ![k] = "sent"]
      /\ UNCHANGED <<proc, wait, aborted>>
  BY DEF Process!Kill, Process!Intend
<1>2. /\ kills'[k].at = "sent" /\ kills'[k].saw = wait
      /\ \A j \in Killers \ {k} : kills'[j] = kills[j] /\ script'[j] = script[j]
      /\ script'[k] = "sent"
  BY <1>1
<1>3. k \in Killers \ Counted /\ Counted' = Counted \cup {k}
  BY <1>1, <1>2 DEF Counted
<1>4. IntentsCount' /\ intents' \in Nat
  BY <1>1, <1>3, IntentsKeep
<1>5. Process!TypeOK'
  BY <1>1, <1>4
<1>6. Kept'
  <2>1. Unspawned' /\ ScriptsTell'
    BY <1>1, <1>2 DEF Kept, Unspawned, ScriptsTell, Process!Alive
  <2>2. WaitSettles'
    BY <1>1, <1>2 DEF Kept, WaitSettles
  <2>3. Blamed'
    BY <1>1, <1>2 DEF Kept, Blamed, Process!Excused
  <2> QED
    BY <2>1, <2>2, <2>3 DEF Kept
<1> QED
  BY <1>4, <1>5, <1>6

\* One that failed takes its own intent back.
LEMMA KillFailsKeeps ==
    ASSUME ProcessInv, NEW k \in Killers, Process!KillFails(k)
    PROVE  ProcessInv'
<1> USE DEF ProcessInv, Process!TypeOK, Process!Promise
<1>1. /\ kills[k].at = "sent" /\ intents' = intents - 1
      /\ kills' = [kills EXCEPT ![k] = [kills[k] EXCEPT !.at = "failed", !.end = wait]]
      /\ UNCHANGED <<proc, wait, script, aborted>>
  BY DEF Process!KillFails, Process!Withdraw
<1>2. /\ kills'[k].at = "failed" /\ kills'[k].end = wait
      /\ \A j \in Killers \ {k} : kills'[j] = kills[j]
  BY <1>1
<1>3. k \in Counted /\ Counted' = Counted \ {k}
  BY <1>1, <1>2 DEF Counted
<1>4. IntentsCount' /\ intents' \in Nat
  BY <1>1, <1>3, IntentsKeep
<1>5. Process!TypeOK'
  BY <1>1, <1>4
<1>6. Kept'
  <2>1. Unspawned' /\ ScriptsTell'
    BY <1>1, <1>2 DEF Kept, Unspawned, ScriptsTell
  <2>2. WaitSettles'
    BY <1>1, <1>2 DEF Kept, WaitSettles
  <2>3. Blamed'
    BY <1>1, <1>2 DEF Kept, Blamed, Process!Excused
  <2> QED
    BY <2>1, <2>2, <2>3 DEF Kept
<1> QED
  BY <1>4, <1>5, <1>6

\* One that was answered, or returns, keeps its intent.
LEMMA KillEndsKeeps ==
    ASSUME ProcessInv, NEW k \in Killers, Process!KillLands(k) \/ Process!KillReturns(k)
    PROVE  ProcessInv'
<1> USE DEF ProcessInv, Process!TypeOK, Process!Promise
<1>1. UNCHANGED <<proc, wait, script, intents>> /\ aborted' \in BOOLEAN
  BY DEF Process!KillLands, Process!KillReturns
<1>2. /\ \A j \in Killers \ {k} : kills'[j] = kills[j]
      /\ kills'[k].saw = kills[k].saw
      /\ \/ kills[k].at = "sent" /\ kills'[k].at = "acked"
         \/ kills[k].at = "acked" /\ kills'[k].at = "done" /\ wait # "pending"
      /\ kills' \in [Killers -> [at : {"no", "sent", "acked", "done", "failed"},
                                  saw : Process!Promise, end : Process!Promise]]
  <2>1. CASE Process!KillLands(k)
    <3>1. kills' = [kills EXCEPT ![k] = [kills[k] EXCEPT !.at = "acked"]]
      BY <2>1 DEF Process!KillLands
    <3> QED
      BY <2>1, <3>1 DEF Process!KillLands
  <2>2. CASE Process!KillReturns(k)
    <3>1. kills' = [kills EXCEPT ![k] = [kills[k] EXCEPT !.at = "done", !.end = wait]]
      BY <2>2 DEF Process!KillReturns
    <3> QED
      BY <2>2, <3>1 DEF Process!KillReturns
  <2> QED
    BY <2>1, <2>2
<1>3. Counted' = Counted
  BY <1>2 DEF Counted
<1>4. IntentsCount' /\ Process!TypeOK'
  BY <1>1, <1>2, <1>3, IntentsKeep
<1>5. Kept'
  <2>1. Unspawned' /\ ScriptsTell'
    BY <1>1, <1>2 DEF Kept, Unspawned, ScriptsTell
  <2>2. WaitSettles'
    BY <1>1, <1>2 DEF Kept, WaitSettles
  <2>3. Blamed'
    <3> SUFFICES ASSUME wait = "killed", proc \in Process!Alive
                 PROVE  \E j \in Killers : Process!Excused(j)'
      BY <1>1 DEF Blamed
    <3>1. PICK j \in Killers : Process!Excused(j)
      BY DEF Kept, Blamed
    <3>2. CASE j # k
      BY <1>1, <1>2, <3>1, <3>2 DEF Process!Excused
    <3>3. CASE j = k
      BY <1>1, <1>2, <3>1, <3>3 DEF Process!Excused, Kept, ScriptsTell
    <3> QED
      BY <3>2, <3>3
  <2> QED
    BY <2>1, <2>2, <2>3 DEF Kept
<1> QED
  BY <1>4, <1>5

\* A kill command runs in the sandbox.
LEMMA RunScriptKeeps ==
    ASSUME ProcessInv, NEW k \in Killers \cup {Signal}, Process!RunScript(k)
    PROVE  ProcessInv'
<1> USE DEF ProcessInv, Process!TypeOK, Process!Promise
<1>1. /\ script[k] = "sent" /\ UNCHANGED <<wait, kills, intents, aborted>>
      /\ script' = [script EXCEPT ![k] = IF proc = "starting" THEN "missed" ELSE "found"]
      /\ proc' = IF proc = "running" THEN "killed" ELSE proc
  BY DEF Process!RunScript
<1>2. /\ \A j \in (Killers \cup {Signal}) \ {k} : script'[j] = script[j]
      /\ script'[k] = IF proc = "starting" THEN "missed" ELSE "found"
  BY <1>1
<1>3. Counted' = Counted
  BY <1>1 DEF Counted
<1>4. IntentsCount' /\ Process!TypeOK'
  BY <1>1, <1>3, IntentsKeep
<1>5. Kept'
  <2>1. Unspawned' /\ ScriptsTell'
    BY <1>1, <1>2 DEF Kept, Unspawned, ScriptsTell, Process!Alive
  <2>2. WaitSettles'
    BY <1>1 DEF Kept, WaitSettles
  <2>3. Blamed'
    BY <1>1, <1>2 DEF Kept, Blamed, Process!Excused, Process!Alive
  <2> QED
    BY <2>1, <2>2, <2>3 DEF Kept
<1> QED
  BY <1>4, <1>5

\* The stream ends, or breaks: under an intent that is as good as killed.
LEMMA StreamKeeps ==
    ASSUME ProcessInv, Process!StreamEnds \/ Process!StreamBreaks
    PROVE  ProcessInv'
<1> USE DEF ProcessInv, Process!TypeOK, Process!Promise
<1>1. /\ UNCHANGED <<proc, kills, script, intents, aborted>> /\ wait = "pending"
      /\ \/ proc \notin Process!Alive /\ wait' \in {"exit", "killed"}
         \/ wait' = "cut"
         \/ intents = 0 /\ wait' = "rejected"
         \/ intents # 0 /\ wait' = "killed"
  BY DEF Process!StreamEnds, Process!StreamBreaks, Process!Code, Process!Broken
<1>2. Counted' = Counted
  BY <1>1 DEF Counted
<1>3. intents = 0 <=> Counted = {}
  BY CountedFinite DEF IntentsCount
<1>4. IntentsCount' /\ Process!TypeOK'
  BY <1>1, <1>2, IntentsKeep
<1>5. Kept'
  <2>1. Unspawned' /\ ScriptsTell'
    BY <1>1 DEF Kept, Unspawned, ScriptsTell
  <2>2. WaitSettles'
    BY <1>1, <1>3 DEF Kept, WaitSettles, Counted
  <2>3. Blamed'
    <3> SUFFICES ASSUME wait' = "killed", proc \in Process!Alive
                 PROVE  \E j \in Killers : Process!Excused(j)'
      BY <1>1 DEF Blamed
    <3>1. PICK j \in Killers : kills[j].at \in {"sent", "acked", "done"}
      BY <1>1, <1>3 DEF Counted
    <3>2. script[j] # "found"
      BY DEF Kept, ScriptsTell
    <3> QED
      BY <1>1, <3>1, <3>2 DEF Process!Excused
  <2> QED
    BY <2>1, <2>2, <2>3 DEF Kept
<1> QED
  BY <1>4, <1>5

\* The steps of the process alone, and the death of its sandbox.
LEMMA ProcKeeps ==
    ASSUME ProcessInv, UNCHANGED <<wait, kills, script, intents>>, aborted' \in BOOLEAN,
           \/ proc' = proc
           \/ proc = "starting" /\ proc' = "running"
           \/ proc \in Process!Alive /\ proc' \in {"exited", "killed"}
    PROVE  ProcessInv'
<1> USE DEF ProcessInv, Process!TypeOK, Process!Promise
<1>1. Counted' = Counted
  BY DEF Counted
<1>2. IntentsCount' /\ Process!TypeOK'
  BY <1>1, IntentsKeep
<1>3. Kept'
  <2>1. Unspawned' /\ ScriptsTell'
    BY DEF Kept, Unspawned, ScriptsTell, Process!Alive
  <2>2. WaitSettles'
    BY DEF Kept, WaitSettles
  <2>3. Blamed'
    BY DEF Kept, Blamed, Process!Excused, Process!Alive
  <2> QED
    BY <2>1, <2>2, <2>3 DEF Kept
<1> QED
  BY <1>2, <1>3

LEMMA AbortKeeps ==
    ASSUME ProcessInv, Process!Abort
    PROVE  ProcessInv'
<1> USE DEF ProcessInv, Process!TypeOK, Process!Promise
<1>1. /\ wait # "none" /\ UNCHANGED <<proc, wait, kills, intents>> /\ aborted' = TRUE
      /\ script' = [script EXCEPT ![Signal] = "sent"]
  BY DEF Process!Abort
<1>2. \A j \in Killers : script'[j] = script[j]
  BY <1>1
<1>3. Counted' = Counted
  BY <1>1 DEF Counted
<1>4. IntentsCount' /\ Process!TypeOK'
  BY <1>1, <1>3, IntentsKeep
<1>5. Kept'
  BY <1>1, <1>2 DEF Kept, Unspawned, ScriptsTell, WaitSettles, Blamed, Process!Excused
<1> QED
  BY <1>4, <1>5

LEMMA NextKeeps ==
    ASSUME ProcessInv, Process!Next
    PROVE  ProcessInv'
<1>1. CASE Process!RecordPid
  BY <1>1, ProcKeeps DEF Process!RecordPid, ProcessInv, Process!TypeOK
<1>2. ASSUME NEW how \in {"exited", "killed"}, Process!Ends(how) PROVE ProcessInv'
  BY <1>2, ProcKeeps DEF Process!Ends, Process!Alive, ProcessInv, Process!TypeOK
<1> QED
  BY <1>1, <1>2, StreamKeeps, AbortKeeps, KillKeeps, KillFailsKeeps, KillEndsKeeps,
     RunScriptKeeps DEF Process!Next

\* No process: before the first, and when its handle is forgotten.
LEMMA NoneKeeps ==
    ASSUME Process!Init
    PROVE  ProcessInv
<1> USE DEF Process!Init, Process!NoKills, Process!NoScripts
<1>1. Counted = {}
  BY DEF Counted
<1>2. IntentsCount
  BY <1>1, FS_EmptySet DEF IntentsCount
<1>3. Process!TypeOK
  BY DEF Process!TypeOK, Process!Promise
<1>4. Kept
  BY DEF Kept, Unspawned, ScriptsTell, WaitSettles, Blamed, Process!Alive
<1> QED
  BY <1>2, <1>3, <1>4 DEF ProcessInv

LEMMA ForgetKeeps == Process!Forget => ProcessInv'
<1> SUFFICES ASSUME Process!Forget PROVE ProcessInv'
  OBVIOUS
<1>1. Process!Init'
  BY DEF Process!Forget, Process!Init
<1> QED
  BY <1>1, NoneKeeps, PTL

LEMMA SpawnKeeps ==
    ASSUME ProcessInv, Process!Spawn
    PROVE  ProcessInv'
<1> USE DEF ProcessInv, Process!TypeOK, Process!Promise
<1>1. /\ wait = "none" /\ proc' = "starting" /\ wait' = "pending"
      /\ UNCHANGED <<kills, script, intents, aborted>>
  BY DEF Process!Spawn
<1>2. Counted' = Counted
  BY <1>1 DEF Counted
<1>3. IntentsCount' /\ Process!TypeOK'
  BY <1>1, <1>2, IntentsKeep
<1>4. Kept'
  BY <1>1 DEF Kept, Unspawned, ScriptsTell, WaitSettles, Blamed
<1> QED
  BY <1>3, <1>4

-----------------------------------------------------------------------------
(* The session's sandboxes.                                                *)

BoxType ==
    box \in [Boxes -> [state : {"none", "running", "paused", "gone"},
                       egress : Policies, work : SUBSET Turns]]

Counts ==
    /\ made \in Nat /\ made <= MaxBoxes
    /\ turn \in Nat /\ turn <= MaxTurns
    /\ faults \in Nat /\ faults <= MaxFaults

Names ==
    /\ meta \in [id : 0 .. MaxBoxes, key : Policies] /\ policy \in Policies
    /\ live \in 0 .. MaxBoxes /\ home \in 0 .. MaxBoxes

Rest ==
    /\ step \in {"idle", "connect", "resume", "refuse", "create", "dirs", "live", "kill"}
    /\ written \subseteq Turns
    /\ shaky \in BOOLEAN /\ lost \in [Causes -> SUBSET Turns]

LifeType == BoxType /\ Counts /\ Names /\ Rest

\* The awaits of a turn that has a sandbox, and those of one on the ladder.
HasBox == step \in {"dirs", "live", "kill"}
Climbs == step \in {"connect", "resume", "refuse"}

\* Which sandboxes are named: made ones, and on the ladder the persisted one.
Named ==
    /\ meta.id <= made
    /\ HasBox => live \in 1 .. made
    /\ Climbs => meta.id # 0
    /\ step = "refuse" => live = meta.id
    /\ step # "idle" => turn # 0

\* The persisted key and the program's policy are what the sandboxes were made
\* under.
KeysTell ==
    /\ meta.id # 0 => SamePolicy(box[meta.id].egress, meta.key)
    /\ HasBox => SamePolicy(box[live].egress, policy)

\* What was written and is lost, by whoever's doing.
Lost == TakenFromOutside \cup TakenByTheBackend

\* The files of a deleted sandbox are lost, and the backend has lost none itself
\* before a request failed.
GoneIsLost ==
    /\ \A n \in Boxes : box[n].state = "gone" => box[n].work \subseteq Lost
    /\ faults = 0 => TakenByTheBackend \subseteq TakenFromOutside

\* What was written is in the sandbox of the turn, or before the turn has one in
\* the persisted one, or it is lost.
InHand == step \in {"live", "kill"}
Persisted == IF meta.id = 0 THEN {} ELSE box[meta.id].work

FilesHeld ==
    /\ InHand => written \subseteq box[live].work \cup Lost
    /\ ~InHand => written \subseteq Persisted \cup Lost

\* The ladder is left without the persisted sandbox only when that one is gone or
\* a call has failed, and a sandbox is killed only when it is gone or pause failed.
LadderTells ==
    /\ step = "create" /\ meta.id # 0 => shaky \/ box[meta.id].state = "gone"
    /\ step = "dirs" /\ meta.id \notin {0, live} => shaky \/ box[meta.id].state = "gone"
    /\ step = "resume" /\ box[meta.id].state = "running" => shaky
    /\ shaky => faults # 0
    /\ step = "live" => box[live].state \in {"running", "gone"}
    /\ step = "kill" => live = meta.id /\ (faults # 0 \/ box[live].state = "gone")

Holding == GoneIsLost /\ FilesHeld /\ LadderTells

LifeInv == LifeType /\ Named /\ KeysTell /\ Holding

IInv == LifeInv /\ ProcessInv

LEMMA Bounds == MaxTurns \in Nat \ {0} /\ MaxBoxes \in Nat \ {0} /\ MaxFaults \in Nat
  OBVIOUS

LEMMA FaultCounts ==
    ASSUME Counts, Fault \/ NoFault
    PROVE  /\ faults' \in Nat /\ faults' <= MaxFaults
           /\ Fault => faults' # 0
           /\ faults # 0 => faults' # 0
  BY Bounds DEF Counts, Fault, NoFault

\* Files that are lost are added to those lost before, under their cause.
LEMMA LosesAdds ==
    ASSUME LifeType, NEW cause \in Causes, NEW n \in Boxes, Loses(cause, n)
    PROVE  /\ lost' \in [Causes -> SUBSET Turns]
           /\ Lost' = Lost \cup box[n].work
           /\ IF cause \in {"reaped", "unsaved"}
                 THEN /\ TakenFromOutside' = TakenFromOutside \cup box[n].work
                      /\ TakenByTheBackend' = TakenByTheBackend
                 ELSE /\ TakenFromOutside' = TakenFromOutside
                      /\ TakenByTheBackend' = TakenByTheBackend \cup box[n].work
<1>1. box[n].work \subseteq Turns /\ lost \in [Causes -> SUBSET Turns]
  BY DEF LifeType, BoxType, Rest
<1>2. /\ lost'[cause] = lost[cause] \cup box[n].work
      /\ \A c \in Causes \ {cause} : lost'[c] = lost[c]
      /\ lost' \in [Causes -> SUBSET Turns]
  BY <1>1 DEF Loses
<1> QED
  BY <1>2 DEF Causes, Lost, TakenFromOutside, TakenByTheBackend

\* A step that loses nothing, deletes nothing and leaves every file where it is.
LEMMA GoneKeeps ==
    ASSUME GoneIsLost, UNCHANGED lost, faults # 0 => faults' # 0,
           \A n \in Boxes : /\ box'[n].work = box[n].work
                            /\ box'[n].state = "gone" => box[n].state = "gone"
    PROVE  GoneIsLost' /\ Lost' = Lost
  BY DEF GoneIsLost, Lost, TakenFromOutside, TakenByTheBackend

LEMMA InitLife == Init => LifeInv
<1> SUFFICES ASSUME Init PROVE LifeInv
  OBVIOUS
<1>1. BoxType
  BY DEF Init, Blank, Boxes, BoxType
<1>2. Counts
  BY Bounds DEF Init, Counts
<1>3. Names
  BY Bounds DEF Init, Names
<1>4. Rest
  BY DEF Init, Rest
<1>5. Named /\ KeysTell
  BY DEF Init, Blank, Boxes, Named, KeysTell, HasBox, Climbs, SamePolicy
<1>6. Holding
  BY DEF Init, Blank, Boxes, Causes, Holding, GoneIsLost, FilesHeld, LadderTells, InHand,
         Persisted, Lost, TakenFromOutside, TakenByTheBackend
<1> QED
  BY <1>1, <1>2, <1>3, <1>4, <1>5, <1>6 DEF LifeInv, LifeType

LEMMA BeginTurnLife == ASSUME LifeInv, BeginTurn PROVE LifeInv'
<1>1. BoxType' /\ Names'
  BY DEF LifeInv, LifeType, BeginTurn, BoxType, Names, Boxes
<1>2. Counts'
  BY Bounds DEF LifeInv, LifeType, BeginTurn, Counts
<1>3. Rest'
  BY DEF LifeInv, LifeType, BeginTurn, Rest
<1>4. Named'
  BY DEF LifeInv, LifeType, Counts, BeginTurn, Named, HasBox, Climbs
<1>5. KeysTell'
  BY DEF LifeInv, BeginTurn, KeysTell, HasBox, SamePolicy
<1>6. Holding'
  <2>1. GoneIsLost' /\ Lost' = Lost
    BY GoneKeeps DEF LifeInv, Holding, BeginTurn
  <2>2. FilesHeld' /\ LadderTells'
    BY <2>1 DEF LifeInv, Holding, BeginTurn, FilesHeld, LadderTells, InHand, Persisted
  <2> QED
    BY <2>1, <2>2 DEF Holding
<1> QED
  BY <1>1, <1>2, <1>3, <1>4, <1>5, <1>6 DEF LifeInv, LifeType

LEMMA ConnectLife == ASSUME LifeInv, Connect PROVE LifeInv'
<1>0. /\ step = "connect" /\ meta.id \in 1 .. made /\ ~HasBox
      /\ UNCHANGED <<box, made, policy, meta, turn, written, lost, home>>
  BY DEF LifeInv, LifeType, Names, Counts, Connect, Named, Climbs, HasBox
<1>1. \/ /\ live' = meta.id /\ shaky' = shaky /\ box[meta.id].state = "running"
         /\ step' = IF SamePolicy(meta.key, policy) THEN "dirs" ELSE "refuse"
      \/ /\ step' = "resume" /\ live' = live
         /\ \/ shaky' = TRUE /\ faults' # 0
            \/ shaky' = shaky /\ box[meta.id].state # "running"
  BY FaultCounts DEF LifeInv, LifeType, Connect, Recovered
<1>2. Counts'
  BY <1>0, FaultCounts DEF LifeInv, LifeType, Connect, Counts
<1>2f. faults # 0 => faults' # 0
  BY FaultCounts DEF LifeInv, LifeType, Connect
<1>3. BoxType' /\ Names' /\ Rest'
  <2>1. BoxType'
    BY <1>0 DEF LifeInv, LifeType, BoxType, Boxes
  <2>2. Names'
    BY <1>0, <1>1 DEF LifeInv, LifeType, Names
  <2>3. Rest'
    BY <1>0, <1>1 DEF LifeInv, LifeType, Rest
  <2> QED
    BY <2>1, <2>2, <2>3
<1>4. Named'
  BY <1>0, <1>1 DEF LifeInv, LifeType, Counts, Named, HasBox, Climbs
<1>5. KeysTell'
  BY <1>0, <1>1 DEF LifeInv, KeysTell, HasBox, SamePolicy
<1>6. Holding'
  <2>1. GoneIsLost' /\ Lost' = Lost
    BY <1>0, <1>2f, GoneKeeps DEF LifeInv, Holding
  <2>2. FilesHeld'
    BY <1>0, <1>1, <2>1 DEF LifeInv, Holding, FilesHeld, InHand, Persisted
  <2>3. LadderTells'
    BY <1>0, <1>1, <1>2f DEF LifeInv, Holding, LadderTells
  <2> QED
    BY <2>1, <2>2, <2>3 DEF Holding
<1> QED
  BY <1>2, <1>3, <1>4, <1>5, <1>6 DEF LifeInv, LifeType

\* A sandbox that changes its state only keeps its policy and its files.
LEMMA BecomesType ==
    ASSUME BoxType, NEW n \in Boxes, NEW st \in {"running", "paused", "gone"}, Becomes(n, st)
    PROVE  /\ BoxType'
           /\ box'[n].state = st
           /\ \A m \in Boxes : box'[m].egress = box[m].egress /\ box'[m].work = box[m].work
           /\ \A m \in Boxes \ {n} : box'[m] = box[m]
<1>1. box' = [box EXCEPT ![n] = [box[n] EXCEPT !.state = st]]
  BY DEF Becomes
<1>2. box[n] \in [state : {"none", "running", "paused", "gone"},
                  egress : Policies, work : SUBSET Turns]
  BY DEF BoxType
<1>3. /\ [box[n] EXCEPT !.state = st] \in [state : {"none", "running", "paused", "gone"},
                                          egress : Policies, work : SUBSET Turns]
      /\ [box[n] EXCEPT !.state = st].state = st
      /\ [box[n] EXCEPT !.state = st].egress = box[n].egress
      /\ [box[n] EXCEPT !.state = st].work = box[n].work
  BY <1>2
<1>4. BoxType'
  BY <1>1, <1>3 DEF BoxType
<1>5. /\ box'[n] = [box[n] EXCEPT !.state = st]
      /\ \A m \in Boxes \ {n} : box'[m] = box[m]
  BY <1>1 DEF BoxType
<1> QED
  BY <1>3, <1>4, <1>5

LEMMA ResumeLife == ASSUME LifeInv, Resume PROVE LifeInv'
<1>0. /\ step = "resume" /\ meta.id \in 1 .. made /\ meta.id \in Boxes /\ ~HasBox
      /\ UNCHANGED <<made, policy, meta, turn, written, lost, home>>
  BY DEF LifeInv, LifeType, Names, Counts, Resume, Named, Climbs, HasBox, Boxes
<1>1. /\ BoxType'
      /\ box'[meta.id].state \in {"running", box[meta.id].state}
      /\ \A m \in Boxes : box'[m].egress = box[m].egress /\ box'[m].work = box[m].work
      /\ \A m \in Boxes : box'[m].state = "gone" => box[m].state = "gone"
  <2>1. CASE UNCHANGED box
    BY <2>1 DEF LifeInv, LifeType, BoxType, Boxes
  <2>2. CASE Becomes(meta.id, "running")
    BY <1>0, <2>2, BecomesType DEF LifeInv, LifeType
  <2> QED
    BY <2>1, <2>2 DEF Resume
<1>2. \/ /\ live' = meta.id /\ shaky' = shaky /\ box'[meta.id].state = "running"
         /\ step' = IF SamePolicy(meta.key, policy) THEN "dirs" ELSE "refuse"
      \/ /\ step' = "create" /\ live' = live
         /\ \/ shaky' = TRUE /\ faults' # 0
            \/ shaky' = shaky /\ box[meta.id].state \in {"running", "gone"} /\ UNCHANGED box
  <2>1. Becomes(meta.id, "running") => box'[meta.id].state = "running"
    BY <1>0, BecomesType DEF LifeInv, LifeType
  <2> QED
    BY <2>1, FaultCounts DEF LifeInv, LifeType, Resume, Recovered
<1>3. Counts'
  BY <1>0, FaultCounts DEF LifeInv, LifeType, Resume, Counts
<1>3f. faults # 0 => faults' # 0
  BY FaultCounts DEF LifeInv, LifeType, Resume
<1>4. Names' /\ Rest'
  <2>1. Names'
    BY <1>0, <1>2 DEF LifeInv, LifeType, Names
  <2>2. Rest'
    BY <1>0, <1>2 DEF LifeInv, LifeType, Rest
  <2> QED
    BY <2>1, <2>2
<1>5. Named'
  BY <1>0, <1>2 DEF LifeInv, LifeType, Counts, Named, HasBox, Climbs
<1>6. KeysTell'
  BY <1>0, <1>1, <1>2 DEF LifeInv, KeysTell, HasBox, SamePolicy
<1>7. Holding'
  <2>1. GoneIsLost' /\ Lost' = Lost
    BY <1>0, <1>1, <1>3f, GoneKeeps DEF LifeInv, Holding
  <2>2. FilesHeld'
    BY <1>0, <1>1, <1>2, <2>1 DEF LifeInv, Holding, FilesHeld, InHand, Persisted
  <2>3. LadderTells'
    BY <1>0, <1>2, <1>3f DEF LifeInv, Holding, LadderTells
  <2> QED
    BY <2>1, <2>2, <2>3 DEF Holding
<1> QED
  BY <1>1, <1>3, <1>4, <1>5, <1>6, <1>7 DEF LifeInv, LifeType

LEMMA RefuseLife == ASSUME LifeInv, Refuse PROVE LifeInv'
<1>0. /\ step = "refuse" /\ live = meta.id /\ meta.id \in 1 .. made /\ meta.id \in Boxes
      /\ step' = "idle" /\ live' = 0 /\ ~HasBox /\ ~HasBox'
      /\ UNCHANGED <<made, policy, meta, turn, written, shaky, lost, home>>
  BY DEF LifeInv, LifeType, Names, Counts, Refuse, Named, Climbs, HasBox, Boxes
<1>1. /\ BoxType'
      /\ box'[meta.id].state = "paused" \/ box'[meta.id].state = box[meta.id].state
      /\ \A m \in Boxes : box'[m].egress = box[m].egress /\ box'[m].work = box[m].work
      /\ \A m \in Boxes : box'[m].state = "gone" => box[m].state = "gone"
  <2>1. CASE UNCHANGED box
    BY <2>1 DEF LifeInv, LifeType, BoxType, Boxes
  <2>2. CASE Becomes(meta.id, "paused")
    BY <1>0, <2>2, BecomesType DEF LifeInv, LifeType
  <2> QED
    BY <1>0, <2>1, <2>2 DEF Refuse
<1>2. Counts'
  BY <1>0, FaultCounts DEF LifeInv, LifeType, Refuse, Counts
<1>2f. faults # 0 => faults' # 0
  BY FaultCounts DEF LifeInv, LifeType, Refuse
<1>3. Names'
  BY <1>0, Bounds DEF LifeInv, LifeType, Names
<1>4. Rest'
  BY <1>0 DEF LifeInv, LifeType, Rest
<1>5. Named'
  BY <1>0 DEF LifeInv, Named, HasBox, Climbs
<1>6. KeysTell'
  BY <1>0, <1>1 DEF LifeInv, KeysTell, SamePolicy
<1>7. Holding'
  <2>1. GoneIsLost' /\ Lost' = Lost
    BY <1>0, <1>1, <1>2f, GoneKeeps DEF LifeInv, Holding
  <2>2. FilesHeld'
    BY <1>0, <1>1, <2>1 DEF LifeInv, Holding, FilesHeld, InHand, Persisted, Refuse
  <2>3. LadderTells'
    BY <1>0, <1>2f DEF LifeInv, Holding, LadderTells
  <2> QED
    BY <2>1, <2>2, <2>3 DEF Holding
<1> QED
  BY <1>1, <1>2, <1>3, <1>4, <1>5, <1>6, <1>7 DEF LifeInv, LifeType

\* What Create leaves behind: at most one more sandbox, under the policy asked for.
LEMMA CreateLife == ASSUME LifeInv, Create PROVE LifeInv'
<1>0. /\ step = "create" /\ made \in Nat /\ made + 1 \in Boxes /\ meta.id \in 0 .. made
      /\ UNCHANGED <<policy, meta, turn, written, shaky, lost, home>>
  BY DEF LifeInv, LifeType, Names, Counts, Create, Named, Boxes
<1>1. /\ BoxType'
      /\ \A m \in Boxes \ {made + 1} : box'[m] = box[m]
  <2>1. CASE UNCHANGED box
    BY <2>1 DEF LifeInv, LifeType, BoxType, Boxes
  <2>2. CASE box' = [box EXCEPT ![made + 1] = New]
    <3>1. New \in [state : {"none", "running", "paused", "gone"},
                   egress : Policies, work : SUBSET Turns]
      BY DEF New, LifeInv, LifeType, Names
    <3> QED
      BY <1>0, <2>2, <3>1 DEF LifeInv, LifeType, BoxType
  <2> QED
    BY <2>1, <2>2 DEF Create
<1>2. \/ /\ made' = made + 1 /\ live' = made + 1 /\ step' = "dirs"
         /\ box'[made + 1] = New
      \/ made' \in {made, made + 1} /\ live' = 0 /\ step' = "idle"
  BY <1>0 DEF Create, LifeInv, LifeType, BoxType
<1>3. Counts'
  <2>1. faults' \in Nat /\ faults' <= MaxFaults
    BY FaultCounts DEF LifeInv, LifeType, Create
  <2> QED
    BY <1>0, <1>2, <2>1 DEF LifeInv, LifeType, Counts, Boxes
<1>4. Names'
  BY <1>0, <1>2, Bounds DEF LifeInv, LifeType, Names, Boxes
<1>5. Rest'
  BY <1>0, <1>2 DEF LifeInv, LifeType, Rest
<1>6. Named'
  BY <1>0, <1>2 DEF LifeInv, Named, HasBox, Climbs
<1>7. KeysTell'
  <2>1. meta.id # 0 => box'[meta.id] = box[meta.id]
    BY <1>0, <1>1, Bounds DEF Boxes
  <2>2. step' = "dirs" => box'[live'].egress = policy
    BY <1>2 DEF New
  <2> QED
    BY <1>0, <1>2, <2>1, <2>2 DEF LifeInv, KeysTell, HasBox, SamePolicy
<1>8. Holding'
  <2>1. meta.id # 0 => box'[meta.id] = box[meta.id]
    BY <1>0, <1>1, Bounds DEF Boxes
  <2>2. faults # 0 => faults' # 0
    BY FaultCounts DEF LifeInv, LifeType, Create
  <2>3. /\ GoneIsLost'
        /\ Lost' = Lost
    <3>1. UNCHANGED box \/ box'[made + 1].state = "running"
      BY <1>0 DEF New, Create, LifeInv, LifeType, BoxType
    <3>2. \A n \in Boxes : box'[n].state = "gone" => box[n] = box'[n]
      BY <1>0, <1>1, <3>1
    <3>3. Lost' = Lost /\ TakenByTheBackend' = TakenByTheBackend
          /\ TakenFromOutside' = TakenFromOutside
      BY <1>0 DEF Lost, TakenByTheBackend, TakenFromOutside
    <3> QED
      BY <2>2, <3>2, <3>3 DEF LifeInv, Holding, GoneIsLost
  <2>4. FilesHeld'
    BY <1>0, <1>2, <2>1, <2>3 DEF LifeInv, Holding, FilesHeld, InHand, Persisted
  <2>5. LadderTells'
    BY <1>0, <1>2, <2>1, <2>2 DEF LifeInv, Holding, LadderTells
  <2> QED
    BY <2>3, <2>4, <2>5 DEF Holding
<1> QED
  BY <1>1, <1>3, <1>4, <1>5, <1>6, <1>7, <1>8 DEF LifeInv, LifeType

LEMMA DirsLife == ASSUME LifeInv, Dirs PROVE LifeInv'
<1>0. /\ step = "dirs" /\ HasBox /\ live \in 1 .. made /\ meta.id \in Boxes \cup {0}
      /\ UNCHANGED <<box, made, policy, meta, turn, written, shaky, home>>
      /\ \/ step' = "live" /\ live' = live /\ box[live].state = "running"
         \/ step' = "idle" /\ live' = 0 /\ lost' = lost
  BY Bounds DEF LifeInv, LifeType, Names, Named, Dirs, HasBox, Boxes
<1>1. /\ Counts'
      /\ faults # 0 => faults' # 0
  BY <1>0, FaultCounts DEF LifeInv, LifeType, Dirs, Counts
<1>2. BoxType'
  BY <1>0 DEF LifeInv, LifeType, BoxType, Boxes
<1>3. Names'
  BY <1>0, Bounds DEF LifeInv, LifeType, Names
<1>4. Named'
  BY <1>0 DEF LifeInv, Named, HasBox, Climbs
<1>5. KeysTell'
  BY <1>0 DEF LifeInv, KeysTell, HasBox, SamePolicy
<1>6. LadderTells'
  BY <1>0, <1>1 DEF LifeInv, Holding, LadderTells
<1>7. lost' \in [Causes -> SUBSET Turns] /\ GoneIsLost' /\ FilesHeld'
  <2>1. CASE step' = "idle"
    <3>1. GoneIsLost' /\ Lost' = Lost
      BY <1>0, <1>1, <2>1, GoneKeeps DEF LifeInv, Holding
    <3> QED
      BY <1>0, <2>1, <3>1 DEF LifeInv, LifeType, Rest, Holding, FilesHeld, InHand, Persisted
  <2>2. CASE step' = "live" /\ shaky /\ meta.id \notin {0, live}
    <3>1. Loses("abandoned", meta.id) /\ meta.id \in Boxes
      BY <1>0, <2>2 DEF Dirs
    <3>2. /\ lost' \in [Causes -> SUBSET Turns]
          /\ Lost' = Lost \cup box[meta.id].work
      BY <3>1, LosesAdds DEF LifeInv, Causes
    <3>3. faults' # 0
      BY <1>1, <2>2 DEF LifeInv, Holding, LadderTells
    <3>4. GoneIsLost'
      BY <1>0, <3>2, <3>3 DEF LifeInv, Holding, GoneIsLost
    <3>5. FilesHeld'
      BY <1>0, <2>2, <3>2 DEF LifeInv, Holding, FilesHeld, InHand, Persisted
    <3> QED
      BY <3>2, <3>4, <3>5
  <2>3. CASE step' = "live" /\ ~(shaky /\ meta.id \notin {0, live})
    <3>1. lost' = lost
      BY <1>0, <2>3 DEF Dirs
    <3>2. GoneIsLost' /\ Lost' = Lost
      BY <1>0, <1>1, <3>1, GoneKeeps DEF LifeInv, Holding
    <3>3. Persisted \subseteq box[live].work \cup Lost
      BY <1>0, <2>3 DEF LifeInv, Holding, LadderTells, GoneIsLost, Persisted
    <3>4. FilesHeld'
      BY <1>0, <2>3, <3>2, <3>3 DEF LifeInv, Holding, FilesHeld, InHand
    <3> QED
      BY <3>1, <3>2, <3>4 DEF LifeInv, LifeType, Rest
  <2> QED
    BY <1>0, <2>1, <2>2, <2>3
<1>8. Rest'
  BY <1>0, <1>7 DEF LifeInv, LifeType, Rest
<1> QED
  BY <1>1, <1>2, <1>3, <1>4, <1>5, <1>6, <1>7, <1>8 DEF LifeInv, LifeType, Holding

LEMMA WriteLife == ASSUME LifeInv, Write PROVE LifeInv'
<1>0. /\ step = "live" /\ HasBox /\ live \in 1 .. made /\ live \in Boxes /\ turn \in Turns
      /\ UNCHANGED <<made, policy, meta, step, live, turn, shaky, lost, home, faults>>
      /\ written' = written \cup {turn}
      /\ box' = [box EXCEPT ![live] = [box[live] EXCEPT !.work = box[live].work \cup {turn}]]
  BY DEF LifeInv, LifeType, Counts, Named, Write, HasBox, Boxes, Turns
<1>1. box[live] \in [state : {"none", "running", "paused", "gone"},
                     egress : Policies, work : SUBSET Turns]
  BY <1>0 DEF LifeInv, LifeType, BoxType
<1> DEFINE after == [box[live] EXCEPT !.work = box[live].work \cup {turn}]
<1>2. /\ after \in [state : {"none", "running", "paused", "gone"},
                    egress : Policies, work : SUBSET Turns]
      /\ after.state = box[live].state /\ after.egress = box[live].egress
      /\ after.work = box[live].work \cup {turn}
  BY <1>0, <1>1
<1>3. box' = [box EXCEPT ![live] = after]
  BY <1>0
<1> HIDE DEF after
<1>4. BoxType'
  BY <1>2, <1>3 DEF LifeInv, LifeType, BoxType
<1>5. /\ box'[live] = after
      /\ \A m \in Boxes \ {live} : box'[m] = box[m]
  BY <1>0, <1>3 DEF LifeInv, LifeType, BoxType
<1>6. meta.id \in Boxes \cup {0}
  BY Bounds DEF LifeInv, LifeType, Names, Boxes
<1>7. /\ \A m \in Boxes : box'[m].state = box[m].state /\ box'[m].egress = box[m].egress
      /\ box'[live].work = box[live].work \cup {turn}
  BY <1>2, <1>5
<1>8. Counts' /\ Names'
  BY <1>0 DEF LifeInv, LifeType, Counts, Names
<1>9. Rest'
  BY <1>0 DEF LifeInv, LifeType, Rest
<1>10. Named'
  BY <1>0 DEF LifeInv, Named, HasBox, Climbs
<1>11. KeysTell'
  BY <1>0, <1>6, <1>7 DEF LifeInv, KeysTell, HasBox, SamePolicy
<1>12. Holding'
  <2>1. Lost' = Lost /\ TakenByTheBackend' = TakenByTheBackend
        /\ TakenFromOutside' = TakenFromOutside
    BY <1>0 DEF Lost, TakenByTheBackend, TakenFromOutside
  <2>2. \A m \in Boxes : box'[m].state = "gone" => box'[m].work = box[m].work
    BY <1>0, <1>5, <1>7 DEF Write
  <2>3. GoneIsLost'
    BY <1>0, <1>7, <2>1, <2>2 DEF LifeInv, Holding, GoneIsLost
  <2>4. FilesHeld'
    BY <1>0, <1>7, <2>1 DEF LifeInv, Holding, FilesHeld, InHand
  <2>5. LadderTells'
    BY <1>0, <1>7 DEF LifeInv, Holding, LadderTells
  <2> QED
    BY <2>3, <2>4, <2>5 DEF Holding
<1> QED
  BY <1>4, <1>8, <1>9, <1>10, <1>11, <1>12 DEF LifeInv, LifeType

LEMMA CaptureLife == ASSUME LifeInv, Capture PROVE LifeInv'
<1>0. /\ step = "live" /\ HasBox /\ live \in 1 .. made
      /\ meta'.id = live /\ meta'.key = policy /\ meta' = [id |-> live, key |-> policy]
      /\ UNCHANGED <<box, made, policy, step, live, turn, written, shaky, lost, home, faults>>
  BY DEF LifeInv, Named, Capture, NoFault, State, HasBox
<1>1. BoxType' /\ Counts'
  BY <1>0 DEF LifeInv, LifeType, BoxType, Boxes, Counts
<1>2. Names'
  BY <1>0 DEF LifeInv, LifeType, Names
<1>3. Rest'
  BY <1>0 DEF LifeInv, LifeType, Rest
<1>4. Named'
  BY <1>0 DEF LifeInv, LifeType, Counts, Named, HasBox, Climbs
<1>5. KeysTell'
  BY <1>0 DEF LifeInv, KeysTell, HasBox, SamePolicy
<1>6. Holding'
  <2>1. GoneIsLost' /\ Lost' = Lost
    BY <1>0, GoneKeeps DEF LifeInv, Holding
  <2>2. FilesHeld' /\ LadderTells'
    BY <1>0, <2>1 DEF LifeInv, Holding, FilesHeld, LadderTells, InHand
  <2> QED
    BY <2>1, <2>2 DEF Holding
<1> QED
  BY <1>1, <1>2, <1>3, <1>4, <1>5, <1>6 DEF LifeInv, LifeType

\* The pause of a turn that ends, and of one whose sandbox has to be deleted.
LEMMA ShutdownLife == ASSUME LifeInv, Shutdown PROVE LifeInv'
<1>0. /\ step = "live" /\ HasBox /\ live \in 1 .. made /\ live \in Boxes
      /\ meta.id = live /\ meta.key = policy
      /\ UNCHANGED <<made, policy, meta, turn, written, shaky, lost, home>>
      /\ \/ step' = "kill" /\ live' = live
         \/ step' = "idle" /\ live' = 0
  BY DEF LifeInv, LifeType, Counts, Named, Shutdown, State, HasBox, Boxes
<1>1. /\ BoxType'
      /\ box'[live].state = "paused" \/ box'[live].state = box[live].state
      /\ \A m \in Boxes : box'[m].egress = box[m].egress /\ box'[m].work = box[m].work
      /\ \A m \in Boxes : box'[m].state = "gone" => box[m].state = "gone"
  <2>1. CASE UNCHANGED box
    BY <2>1 DEF LifeInv, LifeType, BoxType, Boxes
  <2>2. CASE Becomes(live, "paused")
    BY <1>0, <2>2, BecomesType DEF LifeInv, LifeType
  <2> QED
    BY <1>0, <2>1, <2>2 DEF Shutdown
<1>2. Counts'
  BY <1>0, FaultCounts DEF LifeInv, LifeType, Shutdown, Counts
<1>2f. /\ faults # 0 => faults' # 0
       /\ step' = "kill" => faults' # 0 \/ box'[live].state = "gone"
  <2>1. /\ Fault => faults' # 0
        /\ faults # 0 => faults' # 0
    BY FaultCounts DEF LifeInv, LifeType, Shutdown
  <2>2. CASE step' = "kill" /\ UNCHANGED box
    BY <1>0, <2>1, <2>2 DEF LifeInv, Holding, LadderTells, Shutdown
  <2> QED
    BY <1>0, <2>1, <2>2 DEF Shutdown
<1>3. Names'
  BY <1>0, Bounds DEF LifeInv, LifeType, Names
<1>4. Rest'
  BY <1>0 DEF LifeInv, LifeType, Rest
<1>5. Named'
  BY <1>0 DEF LifeInv, Named, HasBox, Climbs
<1>6. KeysTell'
  BY <1>0, <1>1 DEF LifeInv, KeysTell, HasBox, SamePolicy
<1>7. Holding'
  <2>1. GoneIsLost' /\ Lost' = Lost
    BY <1>0, <1>1, <1>2f, GoneKeeps DEF LifeInv, Holding
  <2>2. FilesHeld'
    BY <1>0, <1>1, <2>1, Bounds DEF LifeInv, Holding, FilesHeld, InHand, Persisted
  <2>3. LadderTells'
    BY <1>0, <1>2f DEF LifeInv, Holding, LadderTells
  <2> QED
    BY <2>1, <2>2, <2>3 DEF Holding
<1> QED
  BY <1>1, <1>2, <1>3, <1>4, <1>5, <1>6, <1>7 DEF LifeInv, LifeType

LEMMA ShutdownFallbackLife == ASSUME LifeInv, ShutdownFallback PROVE LifeInv'
<1>0. /\ step = "kill" /\ HasBox /\ live \in Boxes
      /\ step' = "idle" /\ live' = 0
      /\ UNCHANGED <<made, policy, meta, turn, written, shaky, home>>
  BY DEF LifeInv, LifeType, Counts, Named, ShutdownFallback, HasBox, Boxes
<1>1. /\ BoxType'
      /\ \A m \in Boxes : box'[m].egress = box[m].egress /\ box'[m].work = box[m].work
      /\ \A m \in Boxes \ {live} : box'[m] = box[m]
  <2>1. CASE UNCHANGED box
    BY <2>1 DEF LifeInv, LifeType, BoxType, Boxes
  <2>2. CASE Becomes(live, "gone")
    BY <1>0, <2>2, BecomesType DEF LifeInv, LifeType
  <2> QED
    BY <2>1, <2>2 DEF ShutdownFallback
<1>2. Counts'
  BY <1>0, FaultCounts DEF LifeInv, LifeType, ShutdownFallback, Counts
<1>3. Names'
  BY <1>0, Bounds DEF LifeInv, LifeType, Names
<1>3l. \/ UNCHANGED <<box, lost>>
       \/ Becomes(live, "gone") /\ Loses("killed", live) /\ NoFault
  BY DEF ShutdownFallback
<1>3f. faults # 0 => faults' # 0
  BY FaultCounts DEF LifeInv, LifeType, ShutdownFallback
<1>4. Rest'
  BY <1>0, <1>3l, LosesAdds DEF LifeInv, LifeType, Rest, Causes
<1>5. Named'
  BY <1>0 DEF LifeInv, Named, HasBox, Climbs
<1>6. meta.id \in Boxes \cup {0}
  BY Bounds DEF LifeInv, LifeType, Names, Boxes
<1>7. KeysTell'
  BY <1>0, <1>1, <1>6 DEF LifeInv, KeysTell, HasBox, SamePolicy
<1>8. Holding'
  <2>1. written \subseteq box[live].work \cup Lost
    BY <1>0 DEF LifeInv, Holding, FilesHeld, InHand
  <2>2. LadderTells'
    BY <1>0, <1>3f DEF LifeInv, Holding, LadderTells
  <2>3. CASE UNCHANGED <<box, lost>>
    <3>1. GoneIsLost' /\ Lost' = Lost
      BY <2>3, <1>3f, GoneKeeps DEF LifeInv, Holding
    <3>2. FilesHeld'
      <4>1. live = meta.id /\ meta.id # 0
        BY <1>0, Bounds DEF LifeInv, Holding, LadderTells, Boxes
      <4> QED
        BY <1>0, <2>1, <2>3, <3>1, <4>1 DEF FilesHeld, InHand, Persisted
    <3> QED
      BY <2>2, <3>1, <3>2 DEF Holding
  <2>4. CASE Becomes(live, "gone") /\ Loses("killed", live) /\ NoFault
    <3>1. /\ Lost' = Lost \cup box[live].work
          /\ TakenFromOutside' = TakenFromOutside
          /\ TakenByTheBackend' = TakenByTheBackend \cup box[live].work
      BY <1>0, <2>4, LosesAdds DEF LifeInv, Causes
    <3>2. faults = 0 => box[live].work \subseteq TakenFromOutside
      BY <1>0 DEF LifeInv, Holding, LadderTells, GoneIsLost, Lost
    <3>3. GoneIsLost'
      BY <1>0, <1>1, <2>4, <3>1, <3>2 DEF LifeInv, Holding, GoneIsLost, NoFault
    <3>4. FilesHeld'
      BY <1>0, <2>1, <3>1 DEF FilesHeld, InHand
    <3> QED
      BY <2>2, <3>3, <3>4 DEF Holding
  <2> QED
    BY <1>3l, <2>3, <2>4
<1> QED
  BY <1>1, <1>2, <1>3, <1>4, <1>5, <1>7, <1>8 DEF LifeInv, LifeType

LEMMA ReapLife == ASSUME LifeInv, NEW n \in Boxes, Reap(n) PROVE LifeInv'
<1>0. /\ UNCHANGED <<made, policy, meta, step, live, turn, written, shaky, home, faults>>
      /\ Becomes(n, "gone") /\ Loses("reaped", n)
  BY DEF Reap
<1>1. /\ BoxType'
      /\ \A m \in Boxes : box'[m].egress = box[m].egress /\ box'[m].work = box[m].work
      /\ box'[n].state = "gone"
      /\ \A m \in Boxes \ {n} : box'[m] = box[m]
  BY <1>0, BecomesType DEF LifeInv, LifeType
<1>2. Counts' /\ Names'
  BY <1>0 DEF LifeInv, LifeType, Counts, Names
<1>3. Rest'
  BY <1>0, LosesAdds DEF LifeInv, LifeType, Rest, Causes
<1>4. Named'
  BY <1>0 DEF LifeInv, Named, HasBox, Climbs
<1>5. meta.id \in Boxes \cup {0} /\ (HasBox => live \in Boxes)
  BY Bounds DEF LifeInv, LifeType, Counts, Names, Named, Boxes
<1>6. KeysTell'
  BY <1>0, <1>1, <1>5 DEF LifeInv, KeysTell, HasBox, SamePolicy
<1>7. Holding'
  <2>1. /\ Lost' = Lost \cup box[n].work
        /\ TakenFromOutside' = TakenFromOutside \cup box[n].work
        /\ TakenByTheBackend' = TakenByTheBackend
    BY <1>0, LosesAdds DEF LifeInv, Causes
  <2>2. GoneIsLost'
    BY <1>0, <1>1, <2>1 DEF LifeInv, Holding, GoneIsLost
  <2>3. FilesHeld'
    BY <1>0, <1>1, <1>5, <2>1 DEF LifeInv, Holding, FilesHeld, InHand, HasBox, Persisted
  <2>4. LadderTells'
    <3>1. step = "resume" => meta.id # 0
      BY DEF LifeInv, Named, Climbs
    <3>2. \A m \in Boxes : box'[m].state \in {"gone", box[m].state}
      BY <1>1
    <3> QED
      BY <1>0, <1>5, <3>1, <3>2 DEF LifeInv, Holding, LadderTells, HasBox
  <2> QED
    BY <2>2, <2>3, <2>4 DEF Holding
<1> QED
  BY <1>1, <1>2, <1>3, <1>4, <1>6, <1>7 DEF LifeInv, LifeType

LEMMA CrashLife == ASSUME LifeInv, Crash PROVE LifeInv'
<1>0. /\ step' = "idle" /\ live' = 0 /\ home' = 0
      /\ IF live \notin {0, meta.id} THEN Loses("unsaved", live) ELSE UNCHANGED lost
      /\ live \in Boxes \cup {0}
      /\ UNCHANGED <<box, made, policy, meta, turn, written, shaky>>
  BY Bounds DEF LifeInv, LifeType, Names, Boxes, Crash
<1>1. BoxType'
  BY <1>0 DEF LifeInv, LifeType, BoxType, Boxes
<1>2. Counts'
  BY <1>0, FaultCounts DEF LifeInv, LifeType, Crash, Counts
<1>2f. faults # 0 => faults' # 0
  BY FaultCounts DEF LifeInv, LifeType, Crash
<1>3. Names'
  BY <1>0, Bounds DEF LifeInv, LifeType, Names
<1>4. Rest'
  BY <1>0, LosesAdds DEF LifeInv, LifeType, Rest, Causes
<1>5. Named'
  BY <1>0 DEF LifeInv, Named, HasBox, Climbs
<1>6. KeysTell'
  BY <1>0 DEF LifeInv, KeysTell, HasBox, SamePolicy
<1>7. HasBox => live # 0
  BY Bounds DEF LifeInv, LifeType, Counts, Named
<1>8. Holding'
  <2>1. LadderTells'
    BY <1>0, <1>2f DEF LifeInv, Holding, LadderTells
  <2>2. CASE live \in {0, meta.id}
    <3>1. GoneIsLost' /\ Lost' = Lost
      BY <1>0, <1>2f, <2>2, GoneKeeps DEF LifeInv, Holding
    <3>2. FilesHeld'
      BY <1>0, <1>7, <2>2, <3>1 DEF LifeInv, Holding, FilesHeld, InHand, HasBox, Persisted
    <3> QED
      BY <2>1, <3>1, <3>2 DEF Holding
  <2>3. CASE live \notin {0, meta.id}
    <3>1. /\ Lost' = Lost \cup box[live].work
          /\ TakenFromOutside' = TakenFromOutside \cup box[live].work
          /\ TakenByTheBackend' = TakenByTheBackend
      BY <1>0, <2>3, LosesAdds DEF LifeInv, Causes
    <3>2. GoneIsLost'
      BY <1>0, <1>2f, <3>1 DEF LifeInv, Holding, GoneIsLost
    <3>3. FilesHeld'
      BY <1>0, <3>1 DEF LifeInv, Holding, FilesHeld, InHand, Persisted
    <3> QED
      BY <2>1, <3>2, <3>3 DEF Holding
  <2> QED
    BY <2>2, <2>3
<1> QED
  BY <1>1, <1>2, <1>3, <1>4, <1>5, <1>6, <1>8 DEF LifeInv, LifeType

LEMMA RedeployLife == ASSUME LifeInv, NEW p \in Policies, Redeploy(p) PROVE LifeInv'
<1>0. /\ step = "idle" /\ ~HasBox /\ policy' = p /\ home' = 0
      /\ UNCHANGED <<box, made, meta, step, live, turn, written, shaky, lost, faults>>
  BY DEF Redeploy, HasBox
<1>1. BoxType' /\ Counts'
  BY <1>0 DEF LifeInv, LifeType, BoxType, Boxes, Counts
<1>2. Names'
  BY <1>0, Bounds DEF LifeInv, LifeType, Names
<1>3. Rest'
  BY <1>0 DEF LifeInv, LifeType, Rest
<1>4. Named' /\ KeysTell'
  BY <1>0 DEF LifeInv, Named, KeysTell, HasBox, Climbs, SamePolicy
<1>5. Holding'
  <2>1. GoneIsLost' /\ Lost' = Lost
    BY <1>0, GoneKeeps DEF LifeInv, Holding
  <2>2. FilesHeld' /\ LadderTells'
    BY <1>0, <2>1 DEF LifeInv, Holding, FilesHeld, LadderTells, InHand, Persisted
  <2> QED
    BY <2>1, <2>2 DEF Holding
<1> QED
  BY <1>1, <1>2, <1>3, <1>4, <1>5 DEF LifeInv, LifeType

\* The process's own steps, and its beginning, leave the life of the sandbox alone.
LEMMA ProcessLife ==
    ASSUME LifeInv, UNCHANGED life, home' \in 0 .. MaxBoxes,
           faults' \in Nat, faults' <= MaxFaults, faults # 0 => faults' # 0
    PROVE  LifeInv'
<1>0. UNCHANGED <<box, made, policy, meta, step, live, turn, written, shaky, lost>>
  BY DEF life
<1>1. BoxType' /\ Counts'
  BY <1>0 DEF LifeInv, LifeType, BoxType, Boxes, Counts
<1>2. Names'
  BY <1>0 DEF LifeInv, LifeType, Names
<1>3. Rest'
  BY <1>0 DEF LifeInv, LifeType, Rest
<1>4. Named' /\ KeysTell'
  BY <1>0 DEF LifeInv, Named, KeysTell, HasBox, Climbs, SamePolicy
<1>5. Holding'
  <2>1. GoneIsLost' /\ Lost' = Lost
    BY <1>0, GoneKeeps DEF LifeInv, Holding
  <2>2. FilesHeld' /\ LadderTells'
    BY <1>0, <2>1 DEF LifeInv, Holding, FilesHeld, LadderTells, InHand, Persisted
  <2> QED
    BY <2>1, <2>2 DEF Holding
<1> QED
  BY <1>1, <1>2, <1>3, <1>4, <1>5 DEF LifeInv, LifeType

LEMMA ProcessFaults ==
    ASSUME Counts, Process!Next
    PROVE  /\ faults' \in Nat /\ faults' <= MaxFaults
           /\ faults # 0 => faults' # 0
<1>1. faults' = faults \/ (faults < MaxFaults /\ faults' = faults + 1)
  BY DEF Process!Next, Process!RecordPid, Process!StreamEnds, Process!StreamBreaks,
         Process!Abort, Process!Ends, Process!Kill, Process!KillFails, Process!KillLands,
         Process!KillReturns, Process!RunScript, Process!Fault, Process!NoFault
<1> QED
  BY <1>1, Bounds DEF Counts

-----------------------------------------------------------------------------
(* The whole.                                                              *)

\* A step that deletes the sandbox of the process, or leaves the process alone.
LEMMA PerishKeeps ==
    ASSUME ProcessInv, Process!Perish \/ UNCHANGED process
    PROVE  ProcessInv'
  BY ProcKeeps DEF Process!Perish, Process!Alive, process, ProcessInv, Process!TypeOK

\* Every step of the backend, of the server and of the process keeps the invariant.
LEMMA StepKeeps == IInv /\ [Next]_vars => IInv'
<1> SUFFICES ASSUME IInv, [Next]_vars PROVE IInv'
  OBVIOUS
<1>0. LifeInv /\ ProcessInv
  BY DEF IInv
<1>1. CASE BeginTurn
  BY <1>0, <1>1, BeginTurnLife, PerishKeeps DEF IInv, BeginTurn
<1>2. CASE Connect
  BY <1>0, <1>2, ConnectLife, PerishKeeps DEF IInv, Connect
<1>3. CASE Resume
  BY <1>0, <1>3, ResumeLife, PerishKeeps DEF IInv, Resume
<1>4. CASE Refuse
  BY <1>0, <1>4, RefuseLife, PerishKeeps DEF IInv, Refuse
<1>5. CASE Create
  BY <1>0, <1>5, CreateLife, PerishKeeps DEF IInv, Create
<1>6. CASE Dirs
  BY <1>0, <1>6, DirsLife, PerishKeeps DEF IInv, Dirs
<1>7. CASE Write
  BY <1>0, <1>7, WriteLife, PerishKeeps DEF IInv, Write
<1>8. CASE Capture
  BY <1>0, <1>8, CaptureLife, PerishKeeps DEF IInv, Capture
<1>9. CASE Shutdown
  BY <1>0, <1>9, ShutdownLife, PerishKeeps DEF IInv, Shutdown
<1>10. CASE ShutdownFallback
  BY <1>0, <1>10, ShutdownFallbackLife, PerishKeeps DEF IInv, ShutdownFallback, process
<1>11. CASE Crash
  BY <1>0, <1>11, CrashLife, ForgetKeeps DEF IInv, Crash
<1>12. CASE Spawn
  <2>1. UNCHANGED life /\ UNCHANGED faults /\ home' = live /\ Process!Spawn
    BY <1>12 DEF Spawn, Process!Spawn
  <2>2. live \in 0 .. MaxBoxes /\ faults \in Nat /\ faults <= MaxFaults
    BY <1>0 DEF LifeInv, LifeType, Names, Counts
  <2> QED
    BY <1>0, <2>1, <2>2, ProcessLife, SpawnKeeps DEF IInv
<1>13. CASE ProcessStep
  <2>1. UNCHANGED life /\ home' = home /\ Process!Next
    BY <1>13 DEF ProcessStep
  <2>2. home \in 0 .. MaxBoxes /\ Counts
    BY <1>0 DEF LifeInv, LifeType, Names
  <2> QED
    BY <1>0, <2>1, <2>2, ProcessLife, ProcessFaults, NextKeeps DEF IInv
<1>14. ASSUME NEW n \in Boxes, Reap(n) PROVE IInv'
  BY <1>0, <1>14, ReapLife, PerishKeeps DEF IInv, Reap
<1>15. ASSUME NEW p \in Policies, Redeploy(p) PROVE IInv'
  BY <1>0, <1>15, RedeployLife, ForgetKeeps DEF IInv, Redeploy
<1>16. CASE UNCHANGED vars
  <2>1. UNCHANGED <<life, home, process, faults>>
    BY <1>16 DEF vars
  <2>2. home \in 0 .. MaxBoxes /\ faults \in Nat /\ faults <= MaxFaults
    BY <1>0 DEF LifeInv, LifeType, Names, Counts
  <2> QED
    BY <1>0, <2>1, <2>2, ProcessLife, PerishKeeps DEF IInv
<1> QED
  BY <1>1, <1>2, <1>3, <1>4, <1>5, <1>6, <1>7, <1>8, <1>9, <1>10, <1>11, <1>12, <1>13,
     <1>14, <1>15, <1>16 DEF Next

LEMMA Invariance == Spec => []IInv
<1>1. Init => IInv
  BY InitLife, NoneKeeps DEF IInv, Init
<1> QED
  BY <1>1, StepKeeps, PTL DEF Spec

\* The variables of the backend, of eve's metadata and of the process keep their
\* types.
THEOREM TypeCorrect == Spec => []TypeOK
<1>1. IInv => TypeOK
  BY DEF IInv, LifeInv, LifeType, BoxType, Counts, Names, Rest, ProcessInv, TypeOK
<1> QED
  BY Invariance, <1>1, PTL

\* A turn is handed all the session ever wrote, but for what was in a sandbox the
\* server deleted or eve had not persisted, and for what the backend let go of when
\* a request had failed: a living sandbox that no rung of the ladder reached, or one
\* that shutdown() killed.  Beside those create()'s ladder, captureState() and
\* shutdown() lose nothing over pauses, restarts, deaths of the program and
\* refusals, for every number of turns, sandboxes and failing calls.
THEOREM WorkspaceKept == Spec => []WorkspaceIsKept
<1>1. IInv => WorkspaceIsKept
  BY DEF IInv, LifeInv, Holding, GoneIsLost, FilesHeld, InHand, Lost, WorkspaceIsKept
<1> QED
  BY Invariance, <1>1, PTL

\* No turn runs under an egress other than the one the program asks for: the
\* persisted key tells the policy its sandbox was made under, and create()
\* refuses a recovered sandbox whose key differs.
THEOREM EgressAsAsked == Spec => []EgressIsAsAsked
<1>1. IInv => EgressIsAsAsked
  BY DEF IInv, LifeInv, KeysTell, HasBox, EgressIsAsAsked
<1> QED
  BY Invariance, <1>1, PTL

\* What kill() and wait() tell the callers of a spawned process agrees, for any
\* number of kill() calls and failing requests.
THEOREM KillAndWaitAgree == Spec => []WaitAndKillAgree
<1>1. IInv => WaitAndKillAgree
  BY DEF IInv, ProcessInv, Kept, ScriptsTell, WaitSettles, Blamed, WaitAndKillAgree,
         Process!WaitAndKillAgree
<1> QED
  BY Invariance, <1>1, PTL
=============================================================================
