------------------------------ MODULE Desktop ------------------------------
(***************************************************************************)
(* The desktop shell (src-tauri/main.rs) and the sidecars it spawns        *)
(* (backend/sidecar.py).  A shell owns at most one child and restarts it   *)
(* a bounded number of times; quitting terminates the child, first with a  *)
(* SIGTERM, then with a SIGKILL.  Nothing keeps the user from launching a  *)
(* second shell beside a running one.  A sidecar watches its parent only   *)
(* once its migration is over.  Start-up of the data directory itself is   *)
(* in module Migration: here it is one step that succeeds or fails.        *)
(***************************************************************************)
EXTENDS Integers, FiniteSets

CONSTANTS
    Spawns,         \* bound: sidecars started over all launches, 1..Spawns
    Launches,       \* bound: launches of the application
    RestartLimit,   \* restart_sidecar refuses from this count on (3 in main.rs)
    Polls           \* polls terminate_sidecar waits for the child (50 in main.rs)

ASSUME SpawnsType == Spawns \in Nat
ASSUME LaunchesType == Launches \in Nat
ASSUME RestartLimitType == RestartLimit \in Nat
ASSUME PollsType == Polls \in Nat

Sidecar == 1 .. Spawns
Launched == 1 .. Launches
None == 0

VARIABLES
    shell,      \* the shell of each launch: "off", "running", or "terminating" its child
    launch,     \* launches of the application so far
    child,      \* SidecarState.child of each
    restarts,   \* SidecarState.restart_count of each
    polls,      \* polls left in terminate_sidecar of each
    spawned,    \* sidecars started so far
    proc,       \* the phase of each sidecar
    parent,     \* the launch that started it: --parent-pid
    stop,       \* server.should_exit
    port,       \* the sidecar listening on BACKEND_PORT
    killed,     \* launches whose shell was killed (a crash, a force quit)
    beside      \* launches made while the shell of another was there

shellVars == <<shell, launch, child, restarts, polls, killed, beside>>
vars == <<shellVars, spawned, proc, parent, stop, port>>

Phase == {"unused", "migrating", "armed", "binding", "serving", "draining", "dead"}
Alive(s) == proc[s] \notin {"unused", "dead"}
ParentAlive(s) == parent[s] \in Launched /\ shell[parent[s]] # "off"

Init ==
    /\ shell = [l \in Launched |-> "off"] /\ launch = 0
    /\ child = [l \in Launched |-> None]
    /\ restarts = [l \in Launched |-> 0] /\ polls = [l \in Launched |-> 0]
    /\ spawned = 0
    /\ proc = [s \in Sidecar |-> "unused"]
    /\ parent = [s \in Sidecar |-> 0]
    /\ stop = [s \in Sidecar |-> FALSE]
    /\ port = None /\ killed = {} /\ beside = {}

-----------------------------------------------------------------------------
(* A shell.  Its commands run one at a time on the main thread. *)

\* start_sidecar for launch l: the new process becomes the child.
StartSidecar(l) ==
    /\ spawned < Spawns
    /\ spawned' = spawned + 1
    /\ proc' = [proc EXCEPT ![spawned + 1] = "migrating"]
    /\ parent' = [parent EXCEPT ![spawned + 1] = l]
    /\ child' = [child EXCEPT ![l] = spawned + 1]
    /\ UNCHANGED <<stop, port>>

\* main has no guard against a second instance.
Launch ==
    /\ launch < Launches /\ launch' = launch + 1
    /\ shell' = [shell EXCEPT ![launch + 1] = "running"]
    /\ beside' = IF \E l \in Launched : shell[l] # "off" THEN beside \cup {launch + 1} ELSE beside
    /\ StartSidecar(launch + 1)
    /\ UNCHANGED <<restarts, polls, killed>>

\* backend_status: a child that has exited is reaped.
BackendStatus(l) ==
    /\ shell[l] = "running" /\ child[l] # None /\ proc[child[l]] = "dead"
    /\ child' = [child EXCEPT ![l] = None]
    /\ UNCHANGED <<shell, launch, restarts, polls, spawned, proc, parent, stop, port, killed, beside>>

MayRestartBeside(l) == restarts[l] < RestartLimit                 \* mutant
MayRestart(l) == child[l] = None /\ restarts[l] < RestartLimit

RestartSidecar(l) ==
    /\ shell[l] = "running" /\ MayRestart(l)
    /\ restarts' = [restarts EXCEPT ![l] = @ + 1]
    /\ StartSidecar(l)
    /\ UNCHANGED <<shell, launch, polls, killed, beside>>

\* Without handlers of its own the process dies of the SIGTERM; with them it sets
\* should_exit.
Sigterm(s) ==
    IF proc[s] \in {"migrating", "armed"}
    THEN proc' = [proc EXCEPT ![s] = "dead"] /\ UNCHANGED stop
    ELSE stop' = [stop EXCEPT ![s] = TRUE] /\ UNCHANGED proc

\* RunEvent::ExitRequested
Exit(l) ==
    /\ shell[l] = "running"
    /\ IF child[l] = None
       THEN shell' = [shell EXCEPT ![l] = "off"] /\ UNCHANGED <<polls, proc, stop>>
       ELSE /\ shell' = [shell EXCEPT ![l] = "terminating"]
            /\ polls' = [polls EXCEPT ![l] = Polls] /\ Sigterm(child[l])
    /\ UNCHANGED <<launch, child, restarts, spawned, parent, port, killed, beside>>

TerminateWaits(l) ==            \* mutant: no limit on the wait
    /\ shell[l] = "terminating" /\ proc[child[l]] = "dead"
    /\ shell' = [shell EXCEPT ![l] = "off"] /\ child' = [child EXCEPT ![l] = None]
    /\ UNCHANGED <<launch, restarts, polls, spawned, proc, parent, stop, port, killed, beside>>

KillForgotten(s) == proc                                          \* mutant
Kill(s)          == [proc EXCEPT ![s] = "dead"]

Terminate(l) ==
    /\ shell[l] = "terminating"
    /\ \/ /\ proc[child[l]] # "dead" /\ polls[l] > 0
          /\ polls' = [polls EXCEPT ![l] = @ - 1]
          /\ UNCHANGED <<shell, child, proc, port>>
       \/ /\ proc[child[l]] = "dead" \/ polls[l] = 0
          /\ shell' = [shell EXCEPT ![l] = "off"] /\ child' = [child EXCEPT ![l] = None]
          /\ proc' = Kill(child[l])
          /\ port' = IF port = child[l] THEN None ELSE port
          /\ UNCHANGED polls
    /\ UNCHANGED <<launch, restarts, spawned, parent, stop, killed, beside>>

ShellKilled(l) ==
    /\ shell[l] # "off" /\ killed' = killed \cup {l}
    /\ shell' = [shell EXCEPT ![l] = "off"] /\ child' = [child EXCEPT ![l] = None]
    /\ UNCHANGED <<launch, restarts, polls, spawned, proc, parent, stop, port, beside>>

Shell ==
    \/ Launch
    \/ \E l \in Launched :
          BackendStatus(l) \/ RestartSidecar(l) \/ Exit(l) \/ Terminate(l) \/ ShellKilled(l)

-----------------------------------------------------------------------------
(* A sidecar: sidecar.main *)

Go(s, from, to) == proc[s] = from /\ proc' = [proc EXCEPT ![s] = to]

\* migrate() returns, and the monitor thread starts; or it raises: exit status 2.
Migrated(s) ==
    /\ Go(s, "migrating", "armed") \/ Go(s, "migrating", "dead")
    /\ UNCHANGED <<shellVars, spawned, parent, stop, port>>

InstallHandlers(s) ==
    /\ Go(s, "armed", "binding")
    /\ UNCHANGED <<shellVars, spawned, parent, stop, port>>

\* uvicorn binds the port, or exits when another process holds it
Bind(s) ==
    /\ IF port = None THEN Go(s, "binding", "serving") /\ port' = s
                      ELSE Go(s, "binding", "dead") /\ UNCHANGED port
    /\ UNCHANGED <<shellVars, spawned, parent, stop>>

\* The server stops listening, finishes its requests and returns.
Shutdown(s) ==
    /\ stop[s]
    /\ Go(s, "serving", "draining")
    /\ port' = None
    /\ UNCHANGED <<shellVars, spawned, parent, stop>>

Returned(s) ==
    /\ Go(s, "draining", "dead")
    /\ UNCHANGED <<shellVars, spawned, parent, stop, port>>

\* killed, or ended by an error of its own
Crash(s) ==
    /\ Alive(s)
    /\ proc' = [proc EXCEPT ![s] = "dead"]
    /\ port' = IF port = s THEN None ELSE port
    /\ UNCHANGED <<shellVars, spawned, parent, stop>>

WatchesOnce(s) == proc[s] = "armed"                               \* mutant
Watches(s)     == proc[s] \in {"armed", "binding", "serving"}

\* monitor_parent, every quarter of a second
MonitorParent(s) ==
    /\ Watches(s) /\ ~ParentAlive(s) /\ ~stop[s]
    /\ stop' = [stop EXCEPT ![s] = TRUE]
    /\ UNCHANGED <<shellVars, spawned, proc, parent, port>>

Startup(s) == Migrated(s) \/ InstallHandlers(s) \/ Bind(s)

Next == Shell \/ \E s \in Sidecar : \/ Startup(s) \/ Shutdown(s) \/ Returned(s)
                                \/ MonitorParent(s) \/ Crash(s)

Spec == Init /\ [][Next]_vars

\* Running processes and threads are scheduled; a shell's wait loop goes on.
\* Nothing makes the user launch, restart or quit, or a process crash.  A server
\* that drains waits for its open connections, so it is sure to return only when
\* the shell that holds them is gone.
FairSpec ==
    /\ Spec
    /\ \A l \in Launched : WF_vars(Terminate(l))
    /\ \A s \in Sidecar : /\ WF_vars(Startup(s) \/ Shutdown(s))
                          /\ WF_vars(MonitorParent(s))
                          /\ WF_vars(Returned(s) /\ ~ParentAlive(s))

-----------------------------------------------------------------------------
(* Properties *)

TypeOK ==
    /\ shell \in [Launched -> {"off", "running", "terminating"}]
    /\ launch \in 0 .. Launches
    /\ child \in [Launched -> 0 .. Spawns] /\ spawned \in 0 .. Spawns
    /\ restarts \in [Launched -> 0 .. RestartLimit]
    /\ polls \in [Launched -> 0 .. Polls]
    /\ proc \in [Sidecar -> Phase]
    /\ parent \in [Sidecar -> 0 .. Launches]
    /\ stop \in [Sidecar -> BOOLEAN]
    /\ port \in 0 .. Spawns
    /\ killed \subseteq Launched /\ beside \subseteq Launched

\* main.rs:40-78, 291-371.  A shell never loses track of a sidecar it started, however many are
\* launched beside it: one that is alive is the child its own shell will terminate, or that
\* shell was killed.  So a shell that is never killed leaves no sidecar to a later launch, the
\* assumption Exclusive of Migration, which a second shell beside it breaks.
EverySidecarIsOwned ==
    TypeOK /\ \A s \in Sidecar : Alive(s) => parent[s] \in killed \/ child[parent[s]] = s

\* sidecar.py, monitor_parent; docs/Release_Readiness.md:11, "orphan prevention".  A sidecar
\* whose shell is gone ends, also one that was still migrating when its shell was killed, and
\* whatever shells are still there beside it.
NoOrphans == \A s \in Sidecar : (Alive(s) /\ ~ParentAlive(s)) ~> ~Alive(s)

\* main.rs:320-333.  Quitting ends, whatever the sidecar does with the SIGTERM.
QuitCompletes == \A l \in Launched : (shell[l] = "terminating") ~> (shell[l] = "off")

=============================================================================
