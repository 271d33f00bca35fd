------------------------------ MODULE MCSidecar ------------------------------
(***************************************************************************)
(* A sidecar from both sides, checked side by side: the calls by which its *)
(* threads store into the database (Persistence, extended here), and the   *)
(* process itself under the shell that starts, restarts and ends it        *)
(* (Desktop).  Each behaviour runs one of them, the other rests.           *)
(***************************************************************************)
EXTENDS Persistence

CONSTANTS Spawns, Launches, RestartLimit, Polls     \* Desktop

VARIABLES
    part,
    shell, launch, child, restarts, polls, spawned, proc, parent, stop, port, killed, beside

processVars ==
    <<shell, launch, child, restarts, polls, spawned, proc, parent, stop, port, killed, beside>>
allVars == <<part, vars, processVars>>

Process == INSTANCE Desktop

ASSUME ProcessConstants == {Spawns, Launches, RestartLimit, Polls} \subseteq Nat

-----------------------------------------------------------------------------
\* No client has called anything yet, and nothing is stored.
StoresRest ==
    /\ service = [needs |-> {}, header |-> {}, kind |-> "latest"] /\ focus = "rest"
    /\ header = [run \in Runs |-> NoRow] /\ rows = {}
    /\ tx = [c \in Clients |-> Idle] /\ calls = 0 /\ faults = 0

SidecarInit ==
    \/ part = "stores" /\ Init /\ Process!Init
    \/ part = "process" /\ Process!Init /\ StoresRest

Stores(A) == part = "stores" /\ A /\ UNCHANGED <<part, processVars>>
Lives(A)  == part = "process" /\ A /\ UNCHANGED <<part, vars>>

StoreSteps == Stores(Next)
ProcessSteps == Lives(Process!Next)

\* Nobody has to call a service, and nobody has to launch the application.
SidecarSpec ==
    /\ SidecarInit /\ [][StoreSteps \/ ProcessSteps]_allVars
    /\ \A c \in Clients : WF_allVars(Stores(Step(c)))
    /\ \A l \in Process!Launched : WF_allVars(Lives(Process!Terminate(l)))
    /\ \A s \in Process!Sidecar :
        /\ WF_allVars(Lives(Process!Startup(s) \/ Process!Shutdown(s)))
        /\ WF_allVars(Lives(Process!MonitorParent(s)))
        /\ WF_allVars(Lives(Process!Returned(s) /\ ~Process!ParentAlive(s)))

-----------------------------------------------------------------------------
\* sidecar.py, monitor_parent.  A sidecar whose shell is gone ends, in whatever phase it was.
NoOrphans == Process!NoOrphans

\* main.rs:320-333.  Quitting ends, whatever the sidecar does with the SIGTERM.
QuitCompletes == Process!QuitCompletes

=============================================================================
