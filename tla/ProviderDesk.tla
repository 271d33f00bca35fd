----------------------------- MODULE ProviderDesk ----------------------------
(* The provider desk in memory: jobs and their checkpoints                    *)
(* (data/provider_operations.py), the schedules workers claim and the alerts  *)
(* (data/provider_runtime.py), as provider_api.py offers them.  The workers   *)
(* and the people at the desk are not under src/: a worker polls, claims and  *)
(* drives a job page by page, looking at its cancelled flag before each step. *)
EXTENDS Integers, FiniteSets, Functions

CONSTANTS
    Schedules,     \* schedule identifiers, each of one request of its own
    Workers,
    Rules,         \* alert rules of a provider
    Pages,         \* pages of a request
    Responses,     \* what the provider may answer to a page
    MaxEvents,     \* bound: transitions of a job
    MaxEmits       \* bound: occurrences of an alert

ConstantsType == {Pages, MaxEvents, MaxEmits} \subseteq Nat

VARIABLES
    jobs,          \* request -> [status, cancelled, events]
    checkpoints,   \* <<request, page>> -> the response accepted
    schedules,     \* the schedules added, all due
    claimed,       \* the runs claimed
    started,       \* worker -> schedule -> how often it began its job
    workers,       \* worker -> what it does
    alerts         \* rule -> [severity, occurrences, acknowledged, resolved, heard]

vars == <<jobs, checkpoints, schedules, claimed, started, workers, alerts>>

Severities == {"critical", "info", "major", "warning"}
Idle == [step |-> "idle"]
With(f, k, v) == [x \in DOMAIN f \cup {k} |-> IF x = k THEN v ELSE f[x]]

Init ==
    /\ jobs = <<>> /\ checkpoints = <<>>
    /\ schedules = {} /\ claimed = {} /\ started = [w \in Workers |-> [s \in Schedules |-> 0]]
    /\ workers = [w \in Workers |-> Idle]
    /\ alerts = <<>>

-----------------------------------------------------------------------------
(* ProviderOperationsService                                                  *)
Transition(job, status) == [job EXCEPT !.status = status, !.events = @ + 1]

\* the job of the same parameters, whatever became of it
CreateJob(r) ==
    IF r \in DOMAIN jobs THEN jobs
    ELSE With(jobs, r, [status |-> "planned", cancelled |-> FALSE, events |-> 0])

Busy(r) == jobs[r].events < MaxEvents

Cancel(r) ==
    /\ Busy(r)
    /\ jobs' = [jobs EXCEPT ![r] = [Transition(@, "cancelled") EXCEPT !.cancelled = TRUE]]
    /\ UNCHANGED <<checkpoints, schedules, claimed, started, workers, alerts>>

Resume(r) ==
    /\ Busy(r) /\ jobs[r].status \in {"cancelled", "failed"}
    /\ jobs' = [jobs EXCEPT ![r] = [Transition(@, "planned") EXCEPT !.cancelled = FALSE]]
    /\ UNCHANGED <<checkpoints, schedules, claimed, started, workers, alerts>>

ChangedNever(r, page, response) == FALSE                            \* mutant
\* checkpoint() raises when the page was answered otherwise before
Changed(r, page, response) ==
    <<r, page>> \in DOMAIN checkpoints /\ checkpoints[<<r, page>>] # response

-----------------------------------------------------------------------------
(* SchedulerService.  No run ever moves a schedule's next_run.                *)
Add(s) ==
    /\ s \notin schedules
    /\ schedules' = schedules \cup {s}
    /\ UNCHANGED <<jobs, checkpoints, claimed, started, workers, alerts>>

Due == schedules

\* a worker asks what is due, and then claims it
Poll(w, s) ==
    /\ workers[w].step = "idle" /\ s \in Due
    /\ workers' = [workers EXCEPT ![w] = [step |-> "polled", job |-> s]]
    /\ UNCHANGED <<jobs, checkpoints, schedules, claimed, started, alerts>>

GoneNever(s) == FALSE                                               \* mutant
Gone(s) == s \in claimed

\* claim() looks whether the run was claimed and then enters it, without a lock: of two
\* workers between the two both are told they have it
Claim(w) ==
    /\ workers[w].step = "polled"
    /\ workers' = [workers EXCEPT ![w] =
           IF Gone(workers[w].job) THEN Idle ELSE [@ EXCEPT !.step = "claiming"]]
    /\ UNCHANGED <<jobs, checkpoints, schedules, claimed, started, alerts>>

Enter(w) ==
    /\ workers[w].step = "claiming"
    /\ LET s == workers[w].job
       IN  /\ claimed' = claimed \cup {s}
           /\ started' = [started EXCEPT ![w][s] = @ + 1]
           /\ jobs' = CreateJob(s)
           /\ workers' = [workers EXCEPT ![w] = [step |-> "working", job |-> s, page |-> 0]]
    /\ UNCHANGED <<checkpoints, schedules, alerts>>

On(r) == {w \in Workers : workers[w].step # "idle" /\ workers[w].job = r}

\* a resumed job is taken up by a worker, from its first page
TakeUp(w, r) ==
    /\ workers[w].step = "idle" /\ jobs[r].status = "planned" /\ jobs[r].events > 0
    /\ On(r) = {}
    /\ workers' = [workers EXCEPT ![w] = [step |-> "working", job |-> r, page |-> 0]]
    /\ UNCHANGED <<jobs, checkpoints, schedules, claimed, started, alerts>>

Look(w) ==
    /\ workers[w].step = "working"
    /\ workers' = [workers EXCEPT ![w] =
           IF jobs[@.job].cancelled THEN Idle ELSE [@ EXCEPT !.step = "moving"]]
    /\ UNCHANGED <<jobs, checkpoints, schedules, claimed, started, alerts>>

Move(w, response) ==
    /\ workers[w].step = "moving" /\ Busy(workers[w].job)
    /\ LET r == workers[w].job   page == workers[w].page + 1
       IN  \/ /\ page <= Pages /\ ~Changed(r, page, response)
              /\ checkpoints' = With(checkpoints, <<r, page>>, response)
              /\ jobs' = [jobs EXCEPT ![r] = Transition(@, "importing")]
              /\ workers' = [workers EXCEPT ![w] = [step |-> "working", job |-> r, page |-> page]]
           \/ /\ page <= Pages => Changed(r, page, response)
              /\ jobs' = [jobs EXCEPT ![r] =
                              Transition(@, IF page <= Pages THEN "failed" ELSE "completed")]
              /\ workers' = [workers EXCEPT ![w] = Idle]
              /\ UNCHANGED checkpoints
    /\ UNCHANGED <<schedules, claimed, started, alerts>>

-----------------------------------------------------------------------------
(* AlertService.  The severities are strings, and max() takes the later in    *)
(* the alphabet.                                                              *)
PlaceByRank ==                                                      \* mutant
    [s \in Severities |-> CASE s = "critical" -> 4 [] s = "major" -> 3
                            [] s = "warning" -> 2 [] OTHER -> 1]
Place == [s \in Severities |-> CASE s = "critical" -> 1 [] s = "info" -> 2
                                 [] s = "major" -> 3 [] OTHER -> 4]

Emit(rule, severity) ==
    /\ rule \in DOMAIN alerts => alerts[rule].occurrences < MaxEmits
    /\ alerts' = With(alerts, rule,
           IF rule \in DOMAIN alerts /\ ~alerts[rule].resolved
           THEN [alerts[rule] EXCEPT
                     !.occurrences = @ + 1, !.heard = @ \cup {severity},
                     !.severity = IF Place[severity] > Place[@] THEN severity ELSE @]
           ELSE [severity |-> severity, occurrences |-> 1, acknowledged |-> FALSE,
                 resolved |-> FALSE, heard |-> {severity}])
    /\ UNCHANGED <<jobs, checkpoints, schedules, claimed, started, workers>>

Acknowledge(rule) ==
    /\ alerts' = [alerts EXCEPT ![rule].acknowledged = TRUE]
    /\ UNCHANGED <<jobs, checkpoints, schedules, claimed, started, workers>>

Resolve(rule) ==
    /\ alerts' = [alerts EXCEPT ![rule].resolved = TRUE]
    /\ UNCHANGED <<jobs, checkpoints, schedules, claimed, started, workers>>

-----------------------------------------------------------------------------
\* jobs and alerts share nothing: each is exercised while the other is empty
Next ==
    \/ /\ alerts = <<>>
       /\ \/ \E r \in DOMAIN jobs : Cancel(r) \/ Resume(r) \/ \E w \in Workers : TakeUp(w, r)
          \/ \E s \in Schedules : Add(s) \/ \E w \in Workers : Poll(w, s)
          \/ \E w \in Workers : Claim(w) \/ Enter(w) \/ Look(w) \/ \E response \in Responses : Move(w, response)
    \/ /\ schedules = {}
       /\ \/ \E rule \in Rules, severity \in Severities : Emit(rule, severity)
          \/ \E rule \in DOMAIN alerts : Acknowledge(rule) \/ Resolve(rule)

Spec == Init /\ [][Next]_vars

-----------------------------------------------------------------------------
TypeOK ==
    /\ DOMAIN jobs \subseteq Schedules /\ claimed \subseteq schedules
    /\ \A r \in DOMAIN jobs : jobs[r].events \in 0 .. MaxEvents
    /\ \A rule \in DOMAIN alerts : alerts[rule].severity \in Severities

\* However often a job is cancelled, resumed and driven again, a completed one
\* included, every page of it keeps the response accepted first, and it is
\* completed only with all of them (create_job, checkpoint, cancel, resume).
KeepsResponses ==
    \A k \in DOMAIN checkpoints : k \in DOMAIN checkpoints' /\ checkpoints'[k] = checkpoints[k]
ResponsesNeverChange == [][KeepsResponses]_vars

\* No worker begins a schedule twice, though it stays due, and a claimed one has
\* its job: only a worker that looked before the first of them had entered the
\* run begins it as well (due, claim).  Whoever drives it, a job is complete only
\* with all its pages, and one no worker is on can be gone on with, or says it
\* was cancelled: one moved on by a step begun before the cancellation can be
\* resumed only after it is cancelled once more.
DeskIsOrderly ==
    /\ \A w \in Workers, s \in Schedules : started[w][s] <= 1 /\ (started[w][s] = 1 => s \in claimed)
    /\ claimed \subseteq DOMAIN jobs
    /\ \A r \in DOMAIN jobs :
          /\ jobs[r].status = "completed" => \A p \in 1 .. Pages : <<r, p>> \in DOMAIN checkpoints
          /\ On(r) = {} =>
                jobs[r].cancelled \/ jobs[r].status \in {"planned", "completed", "failed", "cancelled"}

\* An open alert counts every occurrence and shows a severity it was raised
\* with; it shows as critical only when it was never anything else (emit, whose
\* max() compares the words).
AlertsAreCounted ==
    \A rule \in DOMAIN alerts :
        LET a == alerts[rule]
        IN  /\ a.severity \in a.heard /\ a.occurrences >= Cardinality(a.heard)
            /\ a.severity = "critical" => a.heard = {"critical"}
=============================================================================
