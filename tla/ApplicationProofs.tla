------------------------- MODULE ApplicationProofs -------------------------
(***************************************************************************)
(* The shell and the application, for any number of launches and sidecars  *)
(* and any range of schemas: a sidecar is never lost track of, and the     *)
(* application implements Desktop.  As long as no shell is killed and none *)
(* is launched beside another, its files see a run of Migration with one   *)
(* sidecar at a time, which is what the theorems of MigrationProofs        *)
(* assume.                                                                 *)
(***************************************************************************)
EXTENDS Application, TLAPS

-----------------------------------------------------------------------------
\* The shell and its sidecars (Desktop): a shell never loses track of one it started.

\* The child of a shell is a sidecar of its launch, it is let go of only with the shell, and a
\* shell that waits for one has one.
ChildIsOwn(l) ==
    /\ child[l] # None => child[l] \in 1 .. spawned /\ parent[child[l]] = l
    /\ IF shell[l] = "off" THEN child[l] = None ELSE l <= launch
    /\ shell[l] = "terminating" => child[l] # None
ChildrenAreOwn == \A l \in Launched : ChildIsOwn(l)

\* What was not started is not running, and what was has a launch it is of.
UnstartedRest ==
    \A s \in Sidecar : IF s > spawned THEN proc[s] = "unused" ELSE parent[s] \in Launched

\* There is one shell at a time unless one was launched beside another.
OneShell ==
    beside = {} => \A l, m \in Launched : shell[l] # "off" /\ shell[m] # "off" => l = m

\* EverySidecarIsOwned is not inductive: that a shell lets go of no sidecar but its own takes
\* ChildrenAreOwn, that a new one is not running yet takes UnstartedRest.  OneShell is for
\* ImplementsExclusive.
IInv == EverySidecarIsOwned /\ ChildrenAreOwn /\ UnstartedRest /\ OneShell

LEMMA InitOwned == Init => IInv
BY SpawnsType, LaunchesType, RestartLimitType, PollsType
   DEF Init, IInv, EverySidecarIsOwned, ChildrenAreOwn, ChildIsOwn, UnstartedRest, OneShell, TypeOK,
       Phase, Alive, Sidecar, None

\* start_sidecar, called by a shell that has no child left.
LEMMA StartKeepsOwned ==
    ASSUME IInv, NEW l \in Launched, child[l] = None, StartSidecar(l),
           shell' = [shell EXCEPT ![l] = "running"], killed' = killed, polls' = polls,
           launch' \in 0 .. Launches, launch <= launch', l <= launch',
           restarts' \in [Launched -> 0 .. RestartLimit], beside' \subseteq Launched, OneShell'
    PROVE  IInv'
<1>1. /\ spawned' = spawned + 1 /\ spawned + 1 \in Sidecar
      /\ proc' = [proc EXCEPT ![spawned + 1] = "migrating"]
      /\ parent' = [parent EXCEPT ![spawned + 1] = l]
      /\ child' = [child EXCEPT ![l] = spawned + 1] /\ UNCHANGED <<stop, port>>
  <2>1. spawned \in 0 .. Spawns  BY DEF IInv, EverySidecarIsOwned, TypeOK
  <2>. QED  BY <2>1, SpawnsType DEF StartSidecar, Sidecar
<1>2. TypeOK'
  <2>1. TypeOK  BY DEF IInv, EverySidecarIsOwned
  <2>2. spawned' \in 0 .. Spawns /\ port' \in 0 .. Spawns /\ launch' \in 0 .. Launches
    BY <1>1, <2>1, SpawnsType DEF TypeOK, Sidecar
  <2>3. child' \in [Launched -> 0 .. Spawns]
    BY <1>1, <2>1, SpawnsType DEF TypeOK, Sidecar
  <2>4. proc' \in [Sidecar -> Phase] /\ stop' \in [Sidecar -> BOOLEAN]
    BY <1>1, <2>1 DEF TypeOK, Phase
  <2>5. parent' \in [Sidecar -> 0 .. Launches]
    BY <1>1, <2>1, LaunchesType DEF TypeOK, Launched
  <2>6. shell' \in [Launched -> {"off", "running", "terminating"}]
        /\ polls' \in [Launched -> 0 .. Polls] /\ killed' \subseteq Launched
    BY <2>1 DEF TypeOK
  <2>. QED  BY <2>2, <2>3, <2>4, <2>5, <2>6 DEF TypeOK
<1>3. ASSUME NEW m \in Launched PROVE ChildIsOwn(m)'
  <2>1. CASE m = l
    BY <1>1, <2>1, SpawnsType
       DEF IInv, EverySidecarIsOwned, TypeOK, ChildrenAreOwn, ChildIsOwn, Sidecar, Launched, None
  <2>2. CASE m # l
    <3>1. child'[m] = child[m] /\ shell'[m] = shell[m]
      BY <1>1, <2>2 DEF IInv, EverySidecarIsOwned, TypeOK
    <3>2. ASSUME child[m] # None
          PROVE  child[m] \in 1 .. spawned' /\ parent'[child[m]] = m
      <4>1. child[m] \in 1 .. spawned /\ parent[child[m]] = m
        BY <3>2 DEF IInv, ChildrenAreOwn, ChildIsOwn
      <4>2. spawned \in 0 .. Spawns
        BY DEF IInv, EverySidecarIsOwned, TypeOK
      <4>3. child[m] # spawned + 1 /\ child[m] \in Sidecar
        BY <4>1, <4>2, SpawnsType DEF Sidecar
      <4>. QED  BY <1>1, <4>1, <4>2, <4>3, SpawnsType DEF IInv, EverySidecarIsOwned, TypeOK
    <3>3. launch \in Nat /\ launch' \in Nat /\ m \in Nat
      BY LaunchesType DEF IInv, EverySidecarIsOwned, TypeOK, Launched
    <3>. QED  BY <3>1, <3>2, <3>3 DEF IInv, ChildrenAreOwn, ChildIsOwn
  <2>. QED  BY <2>1, <2>2
<1>4. UnstartedRest'
  BY <1>1, SpawnsType DEF IInv, EverySidecarIsOwned, TypeOK, UnstartedRest, Sidecar
<1>5. ASSUME NEW s \in Sidecar, Alive(s)'
      PROVE  parent'[s] \in killed' \/ child'[parent'[s]] = s
  <2>1. CASE s = spawned + 1  BY <1>1, <2>1 DEF IInv, EverySidecarIsOwned, TypeOK
  <2>2. CASE s # spawned + 1
    <3>1. proc'[s] = proc[s] /\ parent'[s] = parent[s]
      BY <1>1, <2>2 DEF IInv, EverySidecarIsOwned, TypeOK
    <3>2. Alive(s)  BY <1>5, <3>1 DEF Alive
    <3>3. parent[s] \in Launched
      BY <3>2 DEF IInv, UnstartedRest, Alive
    <3>4. child[l] # s  BY SpawnsType DEF Sidecar, None
    <3>. QED
      BY <1>1, <3>1, <3>2, <3>3, <3>4 DEF IInv, EverySidecarIsOwned, TypeOK
  <2>. QED  BY <2>1, <2>2
<1>. QED  BY <1>2, <1>3, <1>4, <1>5 DEF IInv, EverySidecarIsOwned, ChildrenAreOwn

LEMMA LaunchKeepsOwned == IInv /\ Launch => IInv'
<1> SUFFICES ASSUME IInv, Launch PROVE IInv'  OBVIOUS
<1> DEFINE l == launch + 1
<1>1. /\ l \in Launched /\ launch' = l /\ launch \in Nat /\ StartSidecar(l)
      /\ shell' = [shell EXCEPT ![l] = "running"] /\ UNCHANGED <<restarts, polls, killed>>
      /\ beside' = IF \E m \in Launched : shell[m] # "off" THEN beside \cup {l} ELSE beside
  BY LaunchesType DEF Launch, Launched, IInv, EverySidecarIsOwned, TypeOK
<1>2. child[l] = None /\ beside' \subseteq Launched
  BY <1>1 DEF IInv, EverySidecarIsOwned, TypeOK, ChildrenAreOwn, ChildIsOwn
<1>3. OneShell'
  BY <1>1 DEF IInv, EverySidecarIsOwned, TypeOK, OneShell
<1>4. launch' \in 0 .. Launches /\ launch <= launch' /\ l <= launch'
  BY <1>1, LaunchesType DEF Launched
<1>5. restarts' \in [Launched -> 0 .. RestartLimit]
  BY <1>1 DEF IInv, EverySidecarIsOwned, TypeOK
<1> HIDE DEF l
<1>. QED  BY <1>1, <1>2, <1>3, <1>4, <1>5, StartKeepsOwned

LEMMA RestartKeepsOwned == ASSUME IInv, NEW l \in Launched, RestartSidecar(l) PROVE IInv'
<1>1. /\ shell[l] = "running" /\ child[l] = None /\ restarts[l] < RestartLimit
      /\ restarts' = [restarts EXCEPT ![l] = restarts[l] + 1]
      /\ StartSidecar(l) /\ UNCHANGED <<shell, launch, polls, killed, beside>>
  BY DEF RestartSidecar, MayRestart
<1>2. shell' = [shell EXCEPT ![l] = "running"]
  BY <1>1 DEF IInv, EverySidecarIsOwned, TypeOK
<1>3. launch' \in 0 .. Launches /\ launch <= launch' /\ l <= launch' /\ beside' \subseteq Launched
  BY <1>1, LaunchesType DEF IInv, EverySidecarIsOwned, TypeOK, ChildrenAreOwn, ChildIsOwn
<1>4. restarts' \in [Launched -> 0 .. RestartLimit]
  BY <1>1, RestartLimitType DEF IInv, EverySidecarIsOwned, TypeOK
<1>5. OneShell'
  BY <1>1 DEF IInv, OneShell
<1>. QED  BY <1>1, <1>2, <1>3, <1>4, <1>5, StartKeepsOwned

\* The other steps of a shell start nothing: what ends is its child, or nothing.
ShellStep(l) == BackendStatus(l) \/ Exit(l) \/ Terminate(l) \/ ShellKilled(l)

\* What such a step may do: another shell and its child stay, a sidecar that is let go of is dead
\* or its shell killed, and no sidecar comes to life.
LEMMA ShellStepDoes ==
    ASSUME IInv, NEW l \in Launched, ShellStep(l)
    PROVE  /\ TypeOK' /\ UNCHANGED <<launch, restarts, spawned, parent, beside>>
           /\ \A m \in Launched \ {l} : shell'[m] = shell[m] /\ child'[m] = child[m]
           /\ shell[l] # "off" /\ child'[l] \in {None, child[l]} /\ killed \subseteq killed'
           /\ shell'[l] = "off" => child'[l] = None
           /\ shell'[l] = "terminating" => child'[l] # None
           /\ \A s \in Sidecar : /\ Alive(s)' => Alive(s)
                                 /\ s > spawned /\ proc[s] = "unused" => proc'[s] = "unused"
           /\ child[l] # None /\ child'[l] = None => l \in killed' \/ proc'[child[l]] = "dead"
<1> USE DEF IInv, EverySidecarIsOwned, TypeOK, ChildrenAreOwn, ChildIsOwn, Alive, Sidecar,
            None, Phase
<1>1. CASE BackendStatus(l)  BY <1>1, SpawnsType DEF BackendStatus
<1>2. CASE Exit(l)
  <2>1. Polls \in 0 .. Polls  BY PollsType
  <2>2. CASE child[l] = None  BY <1>2, <2>2, SpawnsType DEF Exit
  <2>3. CASE child[l] # None
    <3>1. CASE proc[child[l]] \in {"migrating", "armed"}
      BY <1>2, <2>1, <2>3, <3>1, SpawnsType DEF Exit, Sigterm
    <3>2. CASE proc[child[l]] \notin {"migrating", "armed"}
      BY <1>2, <2>1, <2>3, <3>2, SpawnsType DEF Exit, Sigterm
    <3>. QED  BY <3>1, <3>2
  <2>. QED  BY <2>2, <2>3
<1>3. CASE Terminate(l)
  <2>1. CASE /\ proc[child[l]] # "dead" /\ polls[l] > 0
             /\ polls' = [polls EXCEPT ![l] = polls[l] - 1] /\ UNCHANGED <<shell, child, proc, port>>
    BY <1>3, <2>1, SpawnsType, PollsType DEF Terminate
  <2>2. CASE /\ shell' = [shell EXCEPT ![l] = "off"] /\ child' = [child EXCEPT ![l] = None]
             /\ proc' = [proc EXCEPT ![child[l]] = "dead"]
             /\ port' = (IF port = child[l] THEN None ELSE port) /\ UNCHANGED polls
    <3>1. UNCHANGED <<launch, restarts, spawned, parent, stop, killed, beside>>
          /\ shell[l] = "terminating"
      BY <1>3 DEF Terminate
    <3>2. child[l] \in 1 .. spawned /\ spawned \in 0 .. Spawns
      BY <3>1
    <3>. QED  BY <2>2, <3>1, <3>2, SpawnsType
  <2>. QED  BY <1>3, <2>1, <2>2 DEF Terminate, Kill
<1>4. CASE ShellKilled(l)
  BY <1>4, SpawnsType DEF ShellKilled
<1>. QED  BY <1>1, <1>2, <1>3, <1>4 DEF ShellStep

LEMMA ShellKeepsOwned == ASSUME IInv, NEW l \in Launched, ShellStep(l) PROVE IInv'
<1>1. /\ TypeOK' /\ UNCHANGED <<launch, restarts, spawned, parent, beside>>
      /\ \A m \in Launched \ {l} : shell'[m] = shell[m] /\ child'[m] = child[m]
      /\ shell[l] # "off" /\ child'[l] \in {None, child[l]} /\ killed \subseteq killed'
      /\ shell'[l] = "off" => child'[l] = None
      /\ shell'[l] = "terminating" => child'[l] # None
      /\ \A s \in Sidecar : /\ Alive(s)' => Alive(s)
                            /\ s > spawned /\ proc[s] = "unused" => proc'[s] = "unused"
      /\ child[l] # None /\ child'[l] = None => l \in killed' \/ proc'[child[l]] = "dead"
  BY ShellStepDoes
<1>2. ASSUME NEW m \in Launched PROVE ChildIsOwn(m)'
  <2>1. CASE m = l
    <3>1. child'[l] # None => child'[l] = child[l]  BY <1>1
    <3>2. l <= launch  BY <1>1 DEF IInv, ChildrenAreOwn, ChildIsOwn
    <3>3. child[l] # None => child[l] \in 1 .. spawned /\ parent[child[l]] = l
      BY DEF IInv, ChildrenAreOwn, ChildIsOwn
    <3>. QED  BY <1>1, <2>1, <3>1, <3>2, <3>3 DEF ChildIsOwn
  <2>2. CASE m # l  BY <1>1, <2>2 DEF IInv, ChildrenAreOwn, ChildIsOwn
  <2>. QED  BY <2>1, <2>2
<1>3. UnstartedRest'  BY <1>1 DEF IInv, UnstartedRest
<1>4. OneShell'
  BY <1>1 DEF IInv, OneShell
<1>5. ASSUME NEW s \in Sidecar, Alive(s)'
      PROVE  parent'[s] \in killed' \/ child'[parent'[s]] = s
  <2>1. Alive(s) /\ parent'[s] = parent[s] /\ parent[s] \in Launched
    BY <1>1, <1>5 DEF IInv, UnstartedRest, Alive
  <2>2. parent[s] \in killed \/ child[parent[s]] = s
    BY <2>1 DEF IInv, EverySidecarIsOwned
  <2>3. CASE parent[s] = l /\ child[l] = s
    <3>1. child[l] # None  BY <2>3, SpawnsType DEF Sidecar, None
    <3>2. proc'[s] # "dead"  BY <1>5 DEF Alive
    <3>. QED  BY <1>1, <2>1, <2>3, <3>1, <3>2
  <2>. QED  BY <1>1, <2>1, <2>2, <2>3
<1>. QED  BY <1>1, <1>2, <1>3, <1>4, <1>5 DEF IInv, EverySidecarIsOwned, ChildrenAreOwn

\* A sidecar's own steps start none, and what was dead or unstarted stays so.
LEMMA SidecarKeepsOwned ==
    ASSUME IInv, NEW s \in Sidecar,
           Startup(s) \/ Shutdown(s) \/ Returned(s) \/ MonitorParent(s) \/ Crash(s)
    PROVE  IInv'
<1> USE DEF Alive, Sidecar, None, Phase
<1>1. /\ UNCHANGED <<shellVars, spawned, parent>>
      /\ proc' \in [Sidecar -> Phase] /\ stop' \in [Sidecar -> BOOLEAN] /\ port' \in 0 .. Spawns
      /\ \A q \in Sidecar : Alive(q)' => Alive(q)
      /\ \A q \in Sidecar : proc[q] = "unused" => proc'[q] = "unused"
  <2> USE SpawnsType DEF IInv, EverySidecarIsOwned, TypeOK
  <2>1. CASE Migrated(s)  BY <2>1 DEF Migrated, Go
  <2>2. CASE InstallHandlers(s)  BY <2>2 DEF InstallHandlers, Go
  <2>3. CASE Bind(s)
    <3>1. CASE Go(s, "binding", "serving") /\ port' = s
      BY <2>3, <3>1 DEF Bind, Go
    <3>2. CASE Go(s, "binding", "dead") /\ UNCHANGED port
      BY <2>3, <3>2 DEF Bind, Go
    <3>. QED  BY <2>3, <3>1, <3>2 DEF Bind
  <2>4. CASE Shutdown(s)  BY <2>4 DEF Shutdown, Go
  <2>5. CASE Returned(s)  BY <2>5 DEF Returned, Go
  <2>6. CASE MonitorParent(s)  BY <2>6 DEF MonitorParent
  <2>7. CASE Crash(s)  BY <2>7 DEF Crash
  <2>. QED  BY <2>1, <2>2, <2>3, <2>4, <2>5, <2>6, <2>7 DEF Startup
<1>. QED
  BY <1>1 DEF IInv, EverySidecarIsOwned, TypeOK, ChildrenAreOwn, ChildIsOwn, UnstartedRest, OneShell,
              shellVars

LEMMA StepOwned == IInv /\ [Next]_vars => IInv'
<1> SUFFICES ASSUME IInv, [Next]_vars PROVE IInv'  OBVIOUS
<1>1. CASE Shell
  BY <1>1, LaunchKeepsOwned, RestartKeepsOwned, ShellKeepsOwned DEF Shell, ShellStep
<1>2. ASSUME NEW s \in Sidecar,
             Startup(s) \/ Shutdown(s) \/ Returned(s) \/ MonitorParent(s) \/ Crash(s)
      PROVE  IInv'
  BY <1>2, SidecarKeepsOwned
<1>3. CASE UNCHANGED vars
  BY <1>3 DEF vars, shellVars, IInv, EverySidecarIsOwned, TypeOK, ChildrenAreOwn, ChildIsOwn,
              UnstartedRest, OneShell, Alive
<1>. QED  BY <1>1, <1>2, <1>3 DEF Next

LEMMA AlwaysOwned == Spec => []IInv
BY InitOwned, StepOwned, PTL DEF Spec

\* main.rs:40-78, 291-371.  Whatever is launched, restarted, quit or killed, in any order and
\* number: a sidecar that is alive is the child its shell will terminate, or its shell was killed.
THEOREM SidecarsAreOwned == Spec => []EverySidecarIsOwned
<1>1. IInv => EverySidecarIsOwned  BY DEF IInv
<1>. QED  BY <1>1, AlwaysOwned, PTL

-----------------------------------------------------------------------------
\* The application.

LEMMA StepIsOfDesktop == [ApplicationNext]_applicationVars => [Next]_vars
<1> SUFFICES ASSUME ApplicationNext \/ UNCHANGED applicationVars PROVE [Next]_vars
  BY DEF applicationVars
<1>1. CASE Starts  BY <1>1 DEF Starts, Next, Shell
<1>2. CASE Ends
  <2>1. PICK l \in Launched : ShellStep(l)  BY <1>2 DEF Ends, ShellStep
  <2>. QED  BY <2>1 DEF ShellStep, Next, Shell
<1>3. ASSUME NEW s \in Sidecar, MigrationReturns(s) PROVE Next
  BY <1>3 DEF MigrationReturns, Next, Startup
<1>4. ASSUME NEW s \in Sidecar, Serves(s) \/ Signals(s) PROVE Next
  BY <1>4 DEF Serves, Signals, Next, Startup
<1>5. ASSUME NEW s \in Sidecar, Migrates(s) \/ Writes(s) PROVE UNCHANGED vars
  BY <1>5 DEF Migrates, Writes
<1>6. CASE UNCHANGED applicationVars  BY <1>6 DEF applicationVars
<1>. QED  BY <1>1, <1>2, <1>3, <1>4, <1>5, <1>6 DEF ApplicationNext

\* Desktop's sidecars migrate and write on the side.
LEMMA ImplementsDesktop == ApplicationSpec => Spec
<1>1. ApplicationInit => Init  BY DEF ApplicationInit
<1>. QED  BY <1>1, StepIsOfDesktop, PTL DEF ApplicationSpec, Spec

\* A sidecar is at a step of Migration exactly while it lives.
PhasesAgree ==
    /\ pc \in [Sidecar -> Files!Step]
    /\ \A s \in Sidecar : pc[s] = "down" <=> ~Alive(s)

\* No step of a migration moves another sidecar.
LEMMA MigrateMoves ==
    ASSUME NEW s \in Sidecar, pc \in [Sidecar -> Files!Step], Files!Migrate(s)
    PROVE  /\ pc' \in [Sidecar -> Files!Step]
           /\ \A q \in Sidecar \ {s} : pc'[q] = pc[q]
<1> USE DEF Files!At, Files!Step
<1>1. CASE Files!Inspect(s)  BY <1>1 DEF Files!Inspect
<1>2. CASE Files!Validate(s)  BY <1>2 DEF Files!Validate
<1>3. CASE Files!ReadPrevious(s)  BY <1>3 DEF Files!ReadPrevious
<1>4. CASE Files!BackupOpen(s)  BY <1>4 DEF Files!BackupOpen
<1>5. CASE Files!BackupCopied(s)  BY <1>5 DEF Files!BackupCopied
<1>6. CASE Files!BackupPublish(s)  BY <1>6 DEF Files!BackupPublish
<1>7. CASE Files!BackupDigest(s)  BY <1>7 DEF Files!BackupDigest
<1>8. CASE Files!BackupMetadata(s)  BY <1>8 DEF Files!BackupMetadata
<1>9. CASE Files!BackupFails(s)  BY <1>9 DEF Files!BackupFails
<1>10. CASE Files!WriteMarker(s)  BY <1>10 DEF Files!WriteMarker
<1>11. CASE Files!BootstrapOpen(s)  BY <1>11 DEF Files!BootstrapOpen
<1>12. CASE Files!BootstrapBuilt(s)  BY <1>12 DEF Files!BootstrapBuilt
<1>13. CASE Files!BootstrapInstall(s)  BY <1>13 DEF Files!BootstrapInstall
<1>14. CASE Files!Connect(s)  BY <1>14 DEF Files!Connect
<1>15. CASE Files!ApplyDdl(s)  BY <1>15 DEF Files!ApplyDdl
<1>16. CASE Files!Stamp(s)  BY <1>16 DEF Files!Stamp
<1>17. CASE Files!UpgradeDone(s)  BY <1>17 DEF Files!UpgradeDone
<1>18. CASE Files!UpgradeFails(s)  BY <1>18 DEF Files!UpgradeFails
<1>19. CASE Files!SetAside(s)  BY <1>19 DEF Files!SetAside
<1>20. CASE Files!CopyBackOpen(s)  BY <1>20 DEF Files!CopyBackOpen
<1>21. CASE Files!CopiedBack(s)  BY <1>21 DEF Files!CopiedBack
<1>22. CASE Files!MarkFailed(s)  BY <1>22 DEF Files!MarkFailed
<1>23. CASE Files!Unmark(s)  BY <1>23 DEF Files!Unmark
<1>24. CASE Files!Verify(s)  BY <1>24 DEF Files!Verify
<1>. QED
  BY <1>1, <1>2, <1>3, <1>4, <1>5, <1>6, <1>7, <1>8, <1>9, <1>10, <1>11, <1>12,
     <1>13, <1>14, <1>15, <1>16, <1>17, <1>18, <1>19, <1>20, <1>21, <1>22, <1>23, <1>24
     DEF Files!Migrate

LEMMA InitAgrees == ApplicationInit => PhasesAgree
BY DEF ApplicationInit, PhasesAgree, Init, Files!Init, Files!Step, Alive

\* What ends in Desktop is stopped on the files.
LEMMA FollowingAgrees ==
    ASSUME PhasesAgree, FilesFollow, NEW v,
           \A s \in Sidecar : /\ Alive(s)' => Alive(s)
                              /\ Alive(s) => proc'[s] # "unused"
                              /\ s # v /\ Alive(s) => Alive(s)'
    PROVE  PhasesAgree'
<1>1. ASSUME NEW s \in Sidecar, Dies(s), Files!Stop(s) PROVE PhasesAgree'
  <2>1. pc' = [pc EXCEPT ![s] = "down"]  BY <1>1 DEF Files!Stop
  <2>2. v = s /\ ~Alive(s)'  BY <1>1 DEF Dies, Alive
  <2>. QED  BY <2>1, <2>2 DEF PhasesAgree, Files!Step
<1>2. CASE (\A s \in Sidecar : ~Dies(s)) /\ UNCHANGED filesVars
  <2>1. \A s \in Sidecar : Alive(s)' <=> Alive(s)  BY <1>2 DEF Dies, Alive
  <2>. QED  BY <1>2, <2>1 DEF PhasesAgree, filesVars
<1>. QED  BY <1>1, <1>2 DEF FilesFollow

LEMMA StartsAgrees == IInv /\ PhasesAgree /\ Starts => PhasesAgree'
<1> SUFFICES ASSUME IInv, PhasesAgree, Starts PROVE PhasesAgree'  OBVIOUS
<1>1. /\ spawned' = spawned + 1 /\ spawned + 1 \in Sidecar
      /\ proc' = [proc EXCEPT ![spawned + 1] = "migrating"]
      /\ proc \in [Sidecar -> Phase]
  BY SpawnsType DEF Starts, Launch, RestartSidecar, StartSidecar, IInv, EverySidecarIsOwned, TypeOK,
                    Sidecar
<1>2. PICK policy \in {"inspect", "validate"} : pc' = [pc EXCEPT ![spawned + 1] = policy]
  BY <1>1 DEF Starts, Files!Launch, Files!At
<1>. QED  BY <1>1, <1>2 DEF PhasesAgree, Alive, Files!Step

LEMMA StepAgrees == IInv /\ PhasesAgree /\ [ApplicationNext]_applicationVars => PhasesAgree'
<1> SUFFICES ASSUME IInv, PhasesAgree, ApplicationNext \/ UNCHANGED applicationVars
             PROVE  PhasesAgree'
  BY DEF applicationVars
<1>1. proc \in [Sidecar -> Phase]  BY DEF IInv, EverySidecarIsOwned, TypeOK
<1>2. CASE Starts  BY <1>2, StartsAgrees
<1>3. CASE Ends
  <2> PICK l \in Launched : ShellStep(l)  BY <1>3 DEF Ends, ShellStep
  <2>1. CASE BackendStatus(l) \/ ShellKilled(l)
    BY <1>3, <2>1, FollowingAgrees DEF Ends, BackendStatus, ShellKilled, Alive
  <2>2. CASE Exit(l) \/ Terminate(l)
    <3>1. \A s \in Sidecar : /\ Alive(s)' => Alive(s)
                             /\ Alive(s) => proc'[s] # "unused"
                             /\ s # child[l] /\ Alive(s) => Alive(s)'
      BY <1>1, <2>2 DEF Exit, Sigterm, Terminate, Kill, Alive
    <3>. QED  BY <1>3, <3>1, FollowingAgrees DEF Ends
  <2>. QED  BY <2>1, <2>2 DEF ShellStep
<1>4. ASSUME NEW s \in Sidecar, Migrates(s) PROVE PhasesAgree'
  <2>1. Alive(s) /\ pc'[s] # "down" /\ UNCHANGED proc
    BY <1>4 DEF Migrates, Alive, vars
  <2>. QED  BY <1>4, <2>1, MigrateMoves DEF Migrates, PhasesAgree, Alive
<1>5. ASSUME NEW s \in Sidecar, MigrationReturns(s) PROVE PhasesAgree'
  <2>1. \/ proc' = [proc EXCEPT ![s] = "armed"] /\ pc'[s] = "serving"
        \/ proc' = [proc EXCEPT ![s] = "dead"] /\ pc'[s] = "down"
    BY <1>1, <1>5 DEF MigrationReturns, Migrated, Go
  <2>. QED  BY <1>1, <1>5, <2>1, MigrateMoves DEF MigrationReturns, PhasesAgree, Alive
<1>6. ASSUME NEW s \in Sidecar, Serves(s) \/ Signals(s) PROVE PhasesAgree'
  <2>1. \A q \in Sidecar : /\ Alive(q)' => Alive(q)
                           /\ Alive(q) => proc'[q] # "unused"
                           /\ q # s /\ Alive(q) => Alive(q)'
    BY <1>1, <1>6 DEF Serves, Signals, InstallHandlers, Bind, Shutdown, Returned, MonitorParent,
                      Crash, Go, Alive
  <2>. QED  BY <1>6, <2>1, FollowingAgrees DEF Serves, Signals
<1>7. ASSUME NEW s \in Sidecar, Writes(s) PROVE PhasesAgree'
  BY <1>7 DEF Writes, Files!UserWrite, Files!locals, vars, PhasesAgree, Alive
<1>8. CASE UNCHANGED applicationVars
  BY <1>8 DEF applicationVars, vars, filesVars, PhasesAgree, Alive
<1>. QED  BY <1>2, <1>3, <1>4, <1>5, <1>6, <1>7, <1>8 DEF ApplicationNext

\* Nothing but the guard of Launch tells Files and Alone apart.
LEMMA MigrateIsAlone == ASSUME NEW s \in Sidecar, Files!Migrate(s) PROVE Alone!Migrate(s)
<1> USE DEF Alone!Migrate, Files!At, Alone!At, Files!files, Alone!files, Files!restoring,
            Alone!restoring, Files!Contents, Alone!Contents, Files!Corrupt, Alone!Corrupt,
            Files!NoFile, Alone!NoFile, Files!Fresh, Alone!Fresh, Files!Status, Alone!Status,
            Files!SchemaStatus, Alone!SchemaStatus, Files!RevisionOf, Alone!RevisionOf,
            Files!Renamed, Alone!Renamed, Files!Store, Alone!Store, Files!Held, Alone!Held,
            Files!Pending, Alone!Pending
<1>1. CASE Files!Inspect(s)  BY <1>1 DEF Files!Inspect, Alone!Inspect
<1>2. CASE Files!Validate(s)  BY <1>2 DEF Files!Validate, Alone!Validate
<1>3. CASE Files!ReadPrevious(s)  BY <1>3 DEF Files!ReadPrevious, Alone!ReadPrevious
<1>4. CASE Files!BackupOpen(s)  BY <1>4 DEF Files!BackupOpen, Alone!BackupOpen
<1>5. CASE Files!BackupCopied(s)  BY <1>5 DEF Files!BackupCopied, Alone!BackupCopied
<1>6. CASE Files!BackupPublish(s)  BY <1>6 DEF Files!BackupPublish, Alone!BackupPublish
<1>7. CASE Files!BackupDigest(s)  BY <1>7 DEF Files!BackupDigest, Alone!BackupDigest
<1>8. CASE Files!BackupMetadata(s)  BY <1>8 DEF Files!BackupMetadata, Alone!BackupMetadata
<1>9. CASE Files!BackupFails(s)  BY <1>9 DEF Files!BackupFails, Alone!BackupFails
<1>10. CASE Files!WriteMarker(s)  BY <1>10 DEF Files!WriteMarker, Alone!WriteMarker
<1>11. CASE Files!BootstrapOpen(s)  BY <1>11 DEF Files!BootstrapOpen, Alone!BootstrapOpen
<1>12. CASE Files!BootstrapBuilt(s)  BY <1>12 DEF Files!BootstrapBuilt, Alone!BootstrapBuilt
<1>13. CASE Files!BootstrapInstall(s)  BY <1>13 DEF Files!BootstrapInstall, Alone!BootstrapInstall
<1>14. CASE Files!Connect(s)  BY <1>14 DEF Files!Connect, Alone!Connect
<1>15. CASE Files!ApplyDdl(s)  BY <1>15 DEF Files!ApplyDdl, Alone!ApplyDdl
<1>16. CASE Files!Stamp(s)  BY <1>16 DEF Files!Stamp, Alone!Stamp
<1>17. CASE Files!UpgradeDone(s)  BY <1>17 DEF Files!UpgradeDone, Alone!UpgradeDone
<1>18. CASE Files!UpgradeFails(s)  BY <1>18 DEF Files!UpgradeFails, Alone!UpgradeFails
<1>19. CASE Files!SetAside(s)  BY <1>19 DEF Files!SetAside, Alone!SetAside
<1>20. CASE Files!CopyBackOpen(s)  BY <1>20 DEF Files!CopyBackOpen, Alone!CopyBackOpen
<1>21. CASE Files!CopiedBack(s)  BY <1>21 DEF Files!CopiedBack, Alone!CopiedBack
<1>22. CASE Files!MarkFailed(s)  BY <1>22 DEF Files!MarkFailed, Alone!MarkFailed
<1>23. CASE Files!Unmark(s)  BY <1>23 DEF Files!Unmark, Alone!Unmark
<1>24. CASE Files!Verify(s)  BY <1>24 DEF Files!Verify, Alone!Verify
<1>. QED
  BY <1>1, <1>2, <1>3, <1>4, <1>5, <1>6, <1>7, <1>8, <1>9, <1>10, <1>11, <1>12,
     <1>13, <1>14, <1>15, <1>16, <1>17, <1>18, <1>19, <1>20, <1>21, <1>22, <1>23, <1>24
     DEF Files!Migrate

LEMMA FollowIsAlone == FilesFollow => Alone!Next \/ UNCHANGED filesVars
BY DEF FilesFollow, Files!Stop, Alone!Stop, Alone!Next, Files!files, Alone!files, Files!restoring,
       Alone!restoring

\* A sidecar is started when its shell, the only one, has no child, and then no other is alive.
LEMMA StartIsAlone == IInv /\ PhasesAgree /\ Starts /\ killed' \cup beside' = {} => Alone!Next
<1> SUFFICES ASSUME IInv, PhasesAgree, Starts, killed' \cup beside' = {} PROVE Alone!Next  OBVIOUS
<1>1. killed = {} /\ spawned' \in Sidecar
  BY SpawnsType DEF Starts, Launch, RestartSidecar, StartSidecar, Sidecar, IInv,
                    EverySidecarIsOwned, TypeOK
<1>0. \A m \in Launched : child[m] = None
  <2>1. CASE Launch
    <3>1. \A m \in Launched : shell[m] = "off"  BY <2>1 DEF Launch
    <3>. QED  BY <3>1 DEF IInv, ChildrenAreOwn, ChildIsOwn
  <2>2. ASSUME NEW l \in Launched, RestartSidecar(l) PROVE \A m \in Launched : child[m] = None
    <3>1. shell[l] # "off" /\ child[l] = None /\ beside = {}
      BY <2>2 DEF RestartSidecar, MayRestart
    <3>2. \A m \in Launched : m # l => shell[m] = "off"
      BY <3>1 DEF IInv, OneShell
    <3>. QED  BY <3>1, <3>2 DEF IInv, ChildrenAreOwn, ChildIsOwn
  <2>. QED  BY <2>1, <2>2 DEF Starts
<1>2. \A s \in Sidecar : pc[s] = "down"
  <2> TAKE s \in Sidecar
  <2>1. \A m \in Launched : child[m] # s  BY <1>0, SpawnsType DEF Sidecar, None
  <2>2. Alive(s) => parent[s] \in Launched  BY DEF IInv, UnstartedRest, Alive
  <2>. QED  BY <1>1, <2>1, <2>2 DEF IInv, EverySidecarIsOwned, PhasesAgree
<1>3. ASSUME NEW p \in Sidecar, Files!Launch(p) PROVE Alone!Launch(p)
  BY <1>2, <1>3 DEF Files!Launch, Alone!Launch, Files!At, Alone!At, Files!files, Alone!files,
                    Files!restoring, Alone!restoring, Files!NoFile, Alone!NoFile, Files!Contents,
                    Alone!Contents
<1>. QED  BY <1>1, <1>3 DEF Starts, Alone!Next

LEMMA StepIsAlone ==
    IInv /\ PhasesAgree /\ [ApplicationNext]_applicationVars =>
        [killed' \cup beside' = {} => [Alone!Next]_filesVars]_applicationVars
<1> SUFFICES ASSUME IInv, PhasesAgree, ApplicationNext, killed' \cup beside' = {}
             PROVE [Alone!Next]_filesVars
  OBVIOUS
<1>1. CASE Starts  BY <1>1, StartIsAlone
<1>2. CASE Ends  BY <1>2, FollowIsAlone DEF Ends
<1>3. ASSUME NEW s \in Sidecar, Migrates(s) \/ MigrationReturns(s) PROVE Alone!Next
  BY <1>3, MigrateIsAlone DEF Migrates, MigrationReturns, Alone!Next
<1>4. ASSUME NEW s \in Sidecar, Serves(s) \/ Signals(s) PROVE [Alone!Next]_filesVars
  BY <1>4, FollowIsAlone DEF Serves, Signals
<1>5. ASSUME NEW s \in Sidecar, Writes(s) PROVE Alone!Next
  <2>1. Alone!UserWrite(s)
    BY <1>5 DEF Writes, Files!UserWrite, Alone!UserWrite, Files!Contents, Alone!Contents,
                Files!locals, Alone!locals, Files!restoring, Alone!restoring
  <2>. QED  BY <2>1 DEF Alone!Next
<1>. QED  BY <1>1, <1>2, <1>3, <1>4, <1>5 DEF ApplicationNext

\* main.rs:40-78, 291-371.  With its files, too, a sidecar of the application that is alive is the
\* child of its shell, or its shell was killed.
THEOREM ApplicationOwnsSidecars == ApplicationSpec => []EverySidecarIsOwned
BY ImplementsDesktop, SidecarsAreOwned, PTL

\* main.rs:291-371, sidecar.py:115-157.  As long as no shell was killed and none launched beside
\* another, every step on the files is a step of Migration with one sidecar at a time: what
\* MigrationProofs proves of it holds of the application.
THEOREM ApplicationMigratesAlone == ApplicationSpec => ImplementsExclusive
<1>1. ApplicationSpec => []IInv  BY ImplementsDesktop, AlwaysOwned, PTL
<1>2. IInv /\ PhasesAgree /\ IInv' /\ [ApplicationNext]_applicationVars => PhasesAgree'
  BY StepAgrees
<1>3. ApplicationSpec => []PhasesAgree
  BY <1>1, <1>2, InitAgrees, PTL DEF ApplicationSpec
<1>. QED
  BY <1>1, <1>3, StepIsAlone, PTL DEF ApplicationSpec, ImplementsExclusive
=============================================================================
