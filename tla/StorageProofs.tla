---------------------------- MODULE StorageProofs ----------------------------
(***************************************************************************)
(* Proofs about what the application keeps: the desk of the providers, the *)
(* tables it writes, the paged downloads and the file cache, for every     *)
(* number of workers, sessions, faults, processes and events.              *)
(***************************************************************************)
EXTENDS MCStorage, FiniteSetTheorems, WellFoundedInduction, TLAPS

-----------------------------------------------------------------------------
(* The desk                                                                  *)

Job_statuses == {"planned", "importing", "completed", "failed", "cancelled"}
DeskJobs == [status : Job_statuses, cancelled : BOOLEAN, events : 0 .. DeskEvents]
DeskSteps_of_a_worker == {"idle", "polled", "claiming", "working", "moving"}
Driving(r) == {w \in Workers : workers[w].step \in {"working", "moving"} /\ workers[w].job = r}

\* A job exists once its schedule was claimed, which each worker begins at most once.
ClaimsInv ==
    /\ schedules \subseteq Schedules /\ claimed \subseteq schedules
    /\ claimed \subseteq DOMAIN jobs
    /\ DOMAIN jobs \subseteq Schedules /\ \A r \in DOMAIN jobs : jobs[r] \in DeskJobs
    /\ DOMAIN started = Workers /\ \A w \in Workers : DOMAIN started[w] = Schedules
    /\ \A w \in Workers, s \in Schedules : started[w][s] = 0 \/ (started[w][s] = 1 /\ s \in claimed)

\* A worker about to enter a run has not begun it; one on a job is on a job that exists, and
\* has brought in the pages behind it.
WorkersInv ==
    /\ DOMAIN workers = Workers
    /\ \A w \in Workers :
          /\ workers[w].step \in DeskSteps_of_a_worker
          /\ workers[w].step \in {"polled", "claiming"} => workers[w].job \in schedules
          /\ workers[w].step = "claiming" => started[w][workers[w].job] = 0
          /\ workers[w].step \in {"working", "moving"} =>
                /\ workers[w].job \in DOMAIN jobs /\ workers[w].page \in 0 .. DeskPages
                /\ \A p \in 1 .. workers[w].page : <<workers[w].job, p>> \in DOMAIN checkpoints

\* What is said of a job: complete with its pages, and being imported while it is driven.
JobsInv ==
    \A r \in DOMAIN jobs :
        /\ jobs[r].status = "completed" => \A p \in 1 .. DeskPages : <<r, p>> \in DOMAIN checkpoints
        /\ jobs[r].status = "importing" /\ ~jobs[r].cancelled => Driving(r) # {}

\* An alert has counted what it was raised with and shows the last of it in the alphabet.
AlertsInv ==
    \A rule \in DOMAIN alerts :
        LET a == alerts[rule]
        IN  /\ a.heard \subseteq Desk!Severities /\ a.severity \in a.heard
            /\ \A h \in a.heard : Desk!Place[h] <= Desk!Place[a.severity]
            /\ a.occurrences \in Nat /\ Cardinality(a.heard) <= a.occurrences

DeskInv == ClaimsInv /\ WorkersInv /\ JobsInv /\ AlertsInv

LEMMA DeskConstants == DeskPages \in Nat /\ DeskEvents \in Nat /\ MaxEmits \in Nat
  BY StorageConstants DEF StorageConstants, Desk!ConstantsType

LEMMA DeskInit == Desk!Init => DeskInv
  <1> SUFFICES ASSUME Desk!Init PROVE DeskInv
    OBVIOUS
  <1>1. DOMAIN jobs = {} /\ DOMAIN alerts = {}
    BY DEF Desk!Init
  <1>2. ClaimsInv
    BY <1>1 DEF Desk!Init, ClaimsInv
  <1>3. WorkersInv
    BY DEF Desk!Init, WorkersInv, Desk!Idle, DeskSteps_of_a_worker
  <1> QED
    BY <1>1, <1>2, <1>3 DEF DeskInv, JobsInv, AlertsInv

LEMMA TransitionIs ==
    ASSUME NEW j \in DeskJobs, NEW word
    PROVE  /\ Desk!Transition(j, word) = [status |-> word, cancelled |-> j.cancelled, events |-> j.events + 1]
           /\ \A c : [Desk!Transition(j, word) EXCEPT !.cancelled = c] =
                       [status |-> word, cancelled |-> c, events |-> j.events + 1]
  <1>1. j = [status |-> j.status, cancelled |-> j.cancelled, events |-> j.events]
    BY DEF DeskJobs
  <1>2. Desk!Transition(j, word) = [j EXCEPT !.status = word, !.events = j.events + 1]
    BY DEF Desk!Transition
  <1> DEFINE t == Desk!Transition(j, word)
  <1>3. t = [status |-> word, cancelled |-> j.cancelled, events |-> j.events + 1]
    BY <1>1, <1>2
  <1> HIDE DEF t
  <1>4. \A c : [t EXCEPT !.cancelled = c] = [status |-> word, cancelled |-> c, events |-> j.events + 1]
    BY <1>3
  <1> QED
    BY <1>3, <1>4 DEF t

\* A transition of a job: its status changes, and whether it is cancelled.
LEMMA CancelKeeps ==
    ASSUME DeskInv, NEW r \in DOMAIN jobs, Desk!Cancel(r) PROVE DeskInv'
  <1>1. /\ jobs[r] \in DeskJobs /\ jobs[r].events < DeskEvents
        /\ jobs' = [jobs EXCEPT ![r] = [status |-> "cancelled", cancelled |-> TRUE, events |-> jobs[r].events + 1]]
        /\ UNCHANGED <<checkpoints, schedules, claimed, started, workers, alerts>>
    <2>1. jobs[r] \in DeskJobs /\ jobs[r].events <= DeskEvents /\ Desk!Busy(r)
      BY DEF DeskInv, ClaimsInv, DeskJobs, Desk!Cancel
    <2>2. jobs' = [jobs EXCEPT ![r] = [Desk!Transition(jobs[r], "cancelled") EXCEPT !.cancelled = TRUE]]
          /\ UNCHANGED <<checkpoints, schedules, claimed, started, workers, alerts>>
      BY DEF Desk!Cancel
    <2>3. jobs[r].events < DeskEvents
      BY <2>1, DeskConstants DEF Desk!Busy
    <2>4. [Desk!Transition(jobs[r], "cancelled") EXCEPT !.cancelled = TRUE] =
             [status |-> "cancelled", cancelled |-> TRUE, events |-> jobs[r].events + 1]
      BY <2>1, TransitionIs
    <2> QED
      BY <2>1, <2>2, <2>3, <2>4
  <1>2. jobs'[r] \in DeskJobs /\ DOMAIN jobs' = DOMAIN jobs
        /\ \A x \in DOMAIN jobs : x # r => jobs'[x] = jobs[x]
    BY <1>1, DeskConstants DEF DeskJobs, Job_statuses
  <1>3. ClaimsInv' /\ WorkersInv'
    BY <1>1, <1>2 DEF DeskInv, ClaimsInv, WorkersInv
  <1>4. JobsInv'
    BY <1>1, <1>2 DEF DeskInv, JobsInv, Driving
  <1> QED
    BY <1>1, <1>3, <1>4 DEF DeskInv, AlertsInv

LEMMA ResumeKeeps ==
    ASSUME DeskInv, NEW r \in DOMAIN jobs, Desk!Resume(r) PROVE DeskInv'
  <1>1. /\ jobs[r] \in DeskJobs /\ jobs[r].events < DeskEvents
        /\ jobs' = [jobs EXCEPT ![r] = [status |-> "planned", cancelled |-> FALSE, events |-> jobs[r].events + 1]]
        /\ UNCHANGED <<checkpoints, schedules, claimed, started, workers, alerts>>
    <2>1. jobs[r] \in DeskJobs /\ jobs[r].events <= DeskEvents /\ Desk!Busy(r)
      BY DEF DeskInv, ClaimsInv, DeskJobs, Desk!Resume
    <2>2. jobs' = [jobs EXCEPT ![r] = [Desk!Transition(jobs[r], "planned") EXCEPT !.cancelled = FALSE]]
          /\ UNCHANGED <<checkpoints, schedules, claimed, started, workers, alerts>>
      BY DEF Desk!Resume
    <2>3. jobs[r].events < DeskEvents
      BY <2>1, DeskConstants DEF Desk!Busy
    <2>4. [Desk!Transition(jobs[r], "planned") EXCEPT !.cancelled = FALSE] =
             [status |-> "planned", cancelled |-> FALSE, events |-> jobs[r].events + 1]
      BY <2>1, TransitionIs
    <2> QED
      BY <2>1, <2>2, <2>3, <2>4
  <1>2. jobs'[r] \in DeskJobs /\ DOMAIN jobs' = DOMAIN jobs
        /\ \A x \in DOMAIN jobs : x # r => jobs'[x] = jobs[x]
    BY <1>1, DeskConstants DEF DeskJobs, Job_statuses
  <1>3. ClaimsInv' /\ WorkersInv'
    BY <1>1, <1>2 DEF DeskInv, ClaimsInv, WorkersInv
  <1>4. JobsInv'
    BY <1>1, <1>2 DEF DeskInv, JobsInv, Driving
  <1> QED
    BY <1>1, <1>3, <1>4 DEF DeskInv, AlertsInv

LEMMA AddKeeps == ASSUME DeskInv, NEW s \in Schedules, Desk!Add(s) PROVE DeskInv'
  BY DEF DeskInv, ClaimsInv, WorkersInv, JobsInv, AlertsInv, Driving, Desk!Add

\* The workers that step between jobs: who drove one before drives it still.
LEMMA WorkerSteps ==
    ASSUME DeskInv, NEW w \in Workers, NEW to, workers' = [workers EXCEPT ![w] = to],
           to.step \in DeskSteps_of_a_worker,
           to.step \in {"polled", "claiming"} => to.job \in schedules,
           to.step = "claiming" => started[w][to.job] = 0,
           to.step \in {"working", "moving"} =>
                /\ to.job \in DOMAIN jobs /\ to.page \in 0 .. DeskPages
                /\ \A p \in 1 .. to.page : <<to.job, p>> \in DOMAIN checkpoints,
           workers[w].step \in {"working", "moving"} =>
                \/ jobs[workers[w].job].cancelled
                \/ to.step \in {"working", "moving"} /\ to.job = workers[w].job,
           UNCHANGED <<jobs, checkpoints, schedules, claimed, started, alerts>>
    PROVE  DeskInv'
  <1>1. DOMAIN workers = Workers /\ workers'[w] = to /\ \A v \in Workers : v # w => workers'[v] = workers[v]
    BY DEF DeskInv, WorkersInv
  <1>2. WorkersInv'
    BY <1>1 DEF DeskInv, WorkersInv
  <1>3. ASSUME NEW r \in DOMAIN jobs, ~jobs[r].cancelled, Driving(r) # {} PROVE Driving(r)' # {}
    <2>1. PICK v \in Workers : workers[v].step \in {"working", "moving"} /\ workers[v].job = r
      BY <1>3 DEF Driving
    <2>2. workers'[v].step \in {"working", "moving"} /\ workers'[v].job = r
      BY <1>1, <1>3, <2>1
    <2> QED
      BY <2>2 DEF Driving
  <1>4. JobsInv'
    BY <1>3 DEF DeskInv, JobsInv
  <1> QED
    BY <1>2, <1>4 DEF DeskInv, ClaimsInv, AlertsInv

LEMMA PollKeeps ==
    ASSUME DeskInv, NEW w \in Workers, NEW s \in Schedules, Desk!Poll(w, s) PROVE DeskInv'
  BY WorkerSteps DEF Desk!Poll, Desk!Due, DeskSteps_of_a_worker

LEMMA TakeUpKeeps ==
    ASSUME DeskInv, NEW w \in Workers, NEW r \in DOMAIN jobs, Desk!TakeUp(w, r) PROVE DeskInv'
  <1> DEFINE to == [step |-> "working", job |-> r, page |-> 0]
  <1>1. /\ to.step = "working" /\ to.job = r /\ to.page = 0
        /\ workers[w].step = "idle" /\ workers' = [workers EXCEPT ![w] = to]
        /\ UNCHANGED <<jobs, checkpoints, schedules, claimed, started, alerts>>
    BY DEF Desk!TakeUp
  <1> HIDE DEF to
  <1>2. to.page \in 0 .. DeskPages /\ \A p \in 1 .. to.page : <<to.job, p>> \in DOMAIN checkpoints
    BY <1>1, DeskConstants
  <1> QED
    BY <1>1, <1>2, WorkerSteps DEF DeskSteps_of_a_worker

LEMMA LookKeeps ==
    ASSUME DeskInv, NEW w \in Workers, Desk!Look(w) PROVE DeskInv'
  <1>1. /\ workers[w].step = "working" /\ workers[w].job \in DOMAIN jobs
        /\ workers[w].page \in 0 .. DeskPages
        /\ \A p \in 1 .. workers[w].page : <<workers[w].job, p>> \in DOMAIN checkpoints
        /\ UNCHANGED <<jobs, checkpoints, schedules, claimed, started, alerts>>
    BY DEF Desk!Look, DeskInv, WorkersInv
  <1>2. CASE jobs[workers[w].job].cancelled
    <2>1. workers' = [workers EXCEPT ![w] = Desk!Idle] /\ Desk!Idle.step = "idle"
      BY <1>2 DEF Desk!Look, Desk!Idle
    <2> QED
      BY <1>1, <1>2, <2>1, WorkerSteps DEF DeskSteps_of_a_worker
  <1>3. CASE ~jobs[workers[w].job].cancelled
    <2> DEFINE to == [workers[w] EXCEPT !.step = "moving"]
    <2>1. workers' = [workers EXCEPT ![w] = to]
      BY <1>3 DEF Desk!Look
    <2>2. to.step = "moving" /\ to.job = workers[w].job /\ to.page = workers[w].page
      BY <1>1
    <2> HIDE DEF to
    <2> QED
      BY <1>1, <1>3, <2>1, <2>2, WorkerSteps DEF DeskSteps_of_a_worker
  <1> QED
    BY <1>2, <1>3

\* Who looks and finds the run free has not begun it: to begin it is to enter it.
LEMMA ClaimKeeps ==
    ASSUME DeskInv, NEW w \in Workers, Desk!Claim(w) PROVE DeskInv'
  <1> DEFINE s == workers[w].job
  <1>1. /\ workers[w].step = "polled" /\ s \in schedules /\ s \in Schedules
        /\ UNCHANGED <<jobs, checkpoints, schedules, claimed, started, alerts>>
    BY DEF Desk!Claim, DeskInv, WorkersInv, ClaimsInv
  <1>2. CASE Desk!Gone(s)
    <2>1. workers' = [workers EXCEPT ![w] = Desk!Idle] /\ Desk!Idle.step = "idle"
      BY <1>2 DEF Desk!Claim, Desk!Idle
    <2> QED
      BY <1>1, <2>1, WorkerSteps DEF DeskSteps_of_a_worker
  <1>3. CASE ~Desk!Gone(s)
    <2> DEFINE to == [workers[w] EXCEPT !.step = "claiming"]
    <2>1. workers' = [workers EXCEPT ![w] = to]
      BY <1>3 DEF Desk!Claim
    <2>2. to.step = "claiming" /\ to.job = s
      BY <1>1
    <2>3. started[w][s] = 0
      BY <1>1, <1>3 DEF Desk!Gone, DeskInv, ClaimsInv
    <2> HIDE DEF to
    <2> QED
      BY <1>1, <2>1, <2>2, <2>3, WorkerSteps DEF DeskSteps_of_a_worker
  <1> QED
    BY <1>2, <1>3

\* Entering a run begins it for the worker and gives it the job, whoever else is on it.
LEMMA EnterKeeps ==
    ASSUME DeskInv, NEW w \in Workers, Desk!Enter(w) PROVE DeskInv'
  <1> DEFINE s == workers[w].job
             to == [step |-> "working", job |-> s, page |-> 0]
  <1>1. /\ workers[w].step = "claiming" /\ s \in schedules /\ s \in Schedules /\ started[w][s] = 0
        /\ UNCHANGED <<checkpoints, schedules, alerts>>
    BY DEF Desk!Enter, DeskInv, WorkersInv, ClaimsInv
  <1>2. /\ claimed' = claimed \cup {s}
        /\ started' = [started EXCEPT ![w][s] = started[w][s] + 1]
        /\ jobs' = Desk!CreateJob(s) /\ workers' = [workers EXCEPT ![w] = to]
    BY DEF Desk!Enter
  <1>3. to.step = "working" /\ to.job = s /\ to.page = 0
    OBVIOUS
  <1> HIDE DEF to, s
  <1>4. /\ DOMAIN jobs' = DOMAIN jobs \cup {s}
        /\ \A r \in DOMAIN jobs : jobs'[r] = jobs[r]
        /\ s \notin DOMAIN jobs => jobs'[s] = [status |-> "planned", cancelled |-> FALSE, events |-> 0]
    BY <1>2 DEF Desk!CreateJob, Desk!With
  <1>5. [status |-> "planned", cancelled |-> FALSE, events |-> 0] \in DeskJobs
    BY DeskConstants DEF DeskJobs, Job_statuses
  <1>6. /\ DOMAIN started' = Workers /\ \A v \in Workers : DOMAIN started'[v] = Schedules
        /\ started'[w][s] = 1
        /\ \A v \in Workers, x \in Schedules : v # w \/ x # s => started'[v][x] = started[v][x]
    BY <1>1, <1>2 DEF DeskInv, ClaimsInv
  <1>7. ClaimsInv'
    <2>1. \A v \in Workers, x \in Schedules :
              started'[v][x] = 0 \/ (started'[v][x] = 1 /\ x \in claimed')
      BY <1>2, <1>6 DEF DeskInv, ClaimsInv
    <2>2. \A r \in DOMAIN jobs' : jobs'[r] \in DeskJobs
      BY <1>4, <1>5 DEF DeskInv, ClaimsInv
    <2>3. /\ schedules' \subseteq Schedules /\ claimed' \subseteq schedules'
          /\ claimed' \subseteq DOMAIN jobs' /\ DOMAIN jobs' \subseteq Schedules
      BY <1>1, <1>2, <1>4 DEF DeskInv, ClaimsInv
    <2> QED
      BY <1>6, <2>1, <2>2, <2>3 DEF ClaimsInv
  <1>8. DOMAIN workers' = Workers /\ workers'[w] = to /\ \A v \in Workers : v # w => workers'[v] = workers[v]
    BY <1>2 DEF DeskInv, WorkersInv
  <1>9. WorkersInv'
    <2>1. to.page \in 0 .. DeskPages /\ \A p \in 1 .. to.page : <<to.job, p>> \in DOMAIN checkpoints
      BY <1>3, DeskConstants
    <2>2. ASSUME NEW v \in Workers, v # w, workers[v].step = "claiming"
          PROVE  started'[v][workers[v].job] = 0
      BY <1>6, <2>2 DEF DeskInv, WorkersInv, ClaimsInv
    <2> QED
      BY <1>1, <1>3, <1>4, <1>8, <2>1, <2>2 DEF DeskInv, WorkersInv, DeskSteps_of_a_worker
  <1>10. ASSUME NEW r \in DOMAIN jobs, Driving(r) # {} PROVE Driving(r)' # {}
    <2>1. PICK v \in Workers : workers[v].step \in {"working", "moving"} /\ workers[v].job = r
      BY <1>10 DEF Driving
    <2> QED
      BY <1>1, <1>8, <2>1 DEF Driving
  <1>11. JobsInv'
    BY <1>1, <1>4, <1>10 DEF DeskInv, JobsInv
  <1> QED
    BY <1>1, <1>7, <1>9, <1>11 DEF DeskInv, AlertsInv

\* A step of a job: a page more, or the end of it.
LEMMA MoveKeeps ==
    ASSUME DeskInv, NEW w \in Workers, NEW answer \in Responses, Desk!Move(w, answer) PROVE DeskInv'
  <1> DEFINE r == workers[w].job
             next == workers[w].page + 1
  <1>1. /\ workers[w].step = "moving" /\ r \in DOMAIN jobs /\ workers[w].page \in 0 .. DeskPages
        /\ \A p \in 1 .. workers[w].page : <<r, p>> \in DOMAIN checkpoints
        /\ jobs[r] \in DeskJobs /\ jobs[r].events \in 0 .. DeskEvents - 1 /\ DOMAIN workers = Workers
        /\ UNCHANGED <<schedules, claimed, started, alerts>>
    <2>1. /\ workers[w].step = "moving" /\ Desk!Busy(r) /\ UNCHANGED <<schedules, claimed, started, alerts>>
      BY DEF Desk!Move
    <2>2. /\ r \in DOMAIN jobs /\ workers[w].page \in 0 .. DeskPages
          /\ \A p \in 1 .. workers[w].page : <<r, p>> \in DOMAIN checkpoints
          /\ jobs[r] \in DeskJobs /\ DOMAIN workers = Workers
      BY <2>1 DEF DeskInv, WorkersInv, ClaimsInv
    <2> HIDE DEF r
    <2>3. jobs[r].events \in 0 .. DeskEvents - 1
      BY <2>1, <2>2, DeskConstants DEF Desk!Busy, DeskJobs
    <2> QED
      BY <2>1, <2>2, <2>3 DEF r
  <1>20. PICK word \in Job_statuses : \E to :
            /\ jobs' = [jobs EXCEPT ![r] = Desk!Transition(jobs[r], word)]
            /\ workers' = [workers EXCEPT ![w] = to]
            /\ \/ /\ word = "importing" /\ to = [step |-> "working", job |-> r, page |-> next]
                  /\ next <= DeskPages /\ checkpoints' = Desk!With(checkpoints, <<r, next>>, answer)
               \/ /\ word = (IF next <= DeskPages THEN "failed" ELSE "completed") /\ to = Desk!Idle
                  /\ UNCHANGED checkpoints
    <2>1. CASE next <= DeskPages /\ checkpoints' = Desk!With(checkpoints, <<r, next>>, answer)
               /\ jobs' = [jobs EXCEPT ![r] = Desk!Transition(jobs[r], "importing")]
               /\ workers' = [workers EXCEPT ![w] = [step |-> "working", job |-> r, page |-> next]]
      BY <2>1 DEF Job_statuses
    <2>2. CASE /\ jobs' = [jobs EXCEPT ![r] = Desk!Transition(jobs[r], IF next <= DeskPages THEN "failed" ELSE "completed")]
               /\ workers' = [workers EXCEPT ![w] = Desk!Idle] /\ UNCHANGED checkpoints
      BY <2>2 DEF Job_statuses
    <2> QED
      BY <2>1, <2>2 DEF Desk!Move
  <1>2. PICK to :
            /\ jobs' = [jobs EXCEPT ![r] = Desk!Transition(jobs[r], word)]
            /\ workers' = [workers EXCEPT ![w] = to]
            /\ \/ /\ word = "importing" /\ to = [step |-> "working", job |-> r, page |-> next]
                  /\ next <= DeskPages /\ checkpoints' = Desk!With(checkpoints, <<r, next>>, answer)
               \/ /\ word = (IF next <= DeskPages THEN "failed" ELSE "completed") /\ to = Desk!Idle
                  /\ UNCHANGED checkpoints
    BY <1>20
  <1> DEFINE new == [status |-> word, cancelled |-> jobs[r].cancelled, events |-> jobs[r].events + 1]
  <1>3. jobs' = [jobs EXCEPT ![r] = new]
    BY <1>1, <1>2, TransitionIs
  <1>4. new \in DeskJobs /\ new.status = word /\ new.cancelled = jobs[r].cancelled
    BY <1>1, <1>2, DeskConstants DEF DeskJobs
  <1> HIDE DEF new
  <1>5. DOMAIN checkpoints \subseteq DOMAIN checkpoints'
    BY <1>2 DEF Desk!With
  <1>6. /\ to.step \in {"idle", "working"}
        /\ to.step = "working" => /\ word = "importing" /\ to.job = r /\ to.page \in 0 .. DeskPages
                                  /\ \A p \in 1 .. to.page : <<r, p>> \in DOMAIN checkpoints'
        /\ to.step = "idle" => word \in {"failed", "completed"}
        /\ word = "completed" => \A p \in 1 .. DeskPages : <<r, p>> \in DOMAIN checkpoints'
    <2>1. CASE word = "importing"
      <3>1. /\ to = [step |-> "working", job |-> r, page |-> next] /\ next <= DeskPages
            /\ checkpoints' = Desk!With(checkpoints, <<r, next>>, answer)
        BY <1>2, <2>1
      <3>2. to.step = "working" /\ to.job = r /\ to.page = next
        BY <3>1
      <3>3. DOMAIN checkpoints' = DOMAIN checkpoints \cup {<<r, next>>}
        BY <3>1 DEF Desk!With
      <3>4. next \in 0 .. DeskPages /\ \A p \in 1 .. next : p \in 1 .. workers[w].page \/ p = next
        BY <1>1, <3>1, DeskConstants
      <3> QED
        BY <1>1, <2>1, <3>2, <3>3, <3>4
    <2>2. CASE word # "importing"
      <3>1. to.step = "idle" /\ word = (IF next <= DeskPages THEN "failed" ELSE "completed")
            /\ UNCHANGED checkpoints
        BY <1>2, <2>2 DEF Desk!Idle
      <3>2. word = "completed" => DeskPages = workers[w].page
        BY <1>1, <3>1, DeskConstants
      <3> QED
        BY <1>1, <3>1, <3>2
    <2> QED
      BY <2>1, <2>2
  <1> HIDE DEF r, next
  <1>7. /\ DOMAIN workers' = Workers /\ workers'[w] = to /\ \A v \in Workers : v # w => workers'[v] = workers[v]
        /\ DOMAIN jobs' = DOMAIN jobs /\ jobs'[r] = new /\ \A x \in DOMAIN jobs : x # r => jobs'[x] = jobs[x]
    BY <1>1, <1>2, <1>3
  <1>8. ClaimsInv'
    BY <1>1, <1>4, <1>7 DEF DeskInv, ClaimsInv
  <1>9. WorkersInv'
    BY <1>1, <1>5, <1>6, <1>7 DEF DeskInv, WorkersInv, DeskSteps_of_a_worker
  <1>10. ASSUME NEW x \in DOMAIN jobs, x # r, Driving(x) # {} PROVE Driving(x)' # {}
    <2>1. PICK v \in Workers : workers[v].step \in {"working", "moving"} /\ workers[v].job = x
      BY <1>10 DEF Driving
    <2> QED
      BY <1>7, <1>10, <2>1 DEF Driving, r
  <1>11. ASSUME NEW x \in DOMAIN jobs, x = r, new.status = "importing" PROVE Driving(x)' # {}
    BY <1>4, <1>6, <1>7, <1>11 DEF Driving
  <1>12. JobsInv'
    BY <1>4, <1>5, <1>6, <1>7, <1>10, <1>11 DEF DeskInv, JobsInv
  <1> QED
    BY <1>1, <1>8, <1>9, <1>12 DEF DeskInv, AlertsInv

\* The instances count as everyone does.
LEMMA CountsAlike ==
    \A S : /\ Desk!Cardinality(S) = Cardinality(S) /\ Store!Cardinality(S) = Cardinality(S)
           /\ Cache!Cardinality(S) = Cardinality(S)
  <1>1. \A S : Desk!Cardinality(S) = Cardinality(S)
    BY DEF Desk!Cardinality, Cardinality
  <1>2. \A S : Store!Cardinality(S) = Cardinality(S)
    BY DEF Store!Cardinality, Cardinality
  <1>3. \A S : Cache!Cardinality(S) = Cardinality(S)
    BY DEF Cache!Cardinality, Cardinality
  <1> QED
    BY <1>1, <1>2, <1>3

\* Of an alert: what it shows was heard, nothing heard comes later in the alphabet, and it was
\* counted at least once for each severity heard.
AlertSound(a) ==
    /\ a.heard \subseteq Desk!Severities /\ a.severity \in a.heard
    /\ \A h \in a.heard : Desk!Place[h] <= Desk!Place[a.severity]
    /\ a.occurrences \in Nat /\ Cardinality(a.heard) <= a.occurrences

LEMMA SeveritiesAreFew == IsFiniteSet(Desk!Severities) /\ \A x \in Desk!Severities : Desk!Place[x] \in Nat
  <1>1. IsFiniteSet({"critical"} \cup {"info"}) /\ IsFiniteSet({"major"} \cup {"warning"})
    BY FS_Singleton, FS_Union
  <1>2. Desk!Severities = ({"critical"} \cup {"info"}) \cup ({"major"} \cup {"warning"})
    BY DEF Desk!Severities
  <1>3. IsFiniteSet(Desk!Severities)
    BY <1>1, <1>2, FS_Union
  <1>4. \A x \in Desk!Severities : Desk!Place[x] \in Nat
    BY DEF Desk!Severities, Desk!Place
  <1> QED
    BY <1>3, <1>4

LEMMA EmitKeeps ==
    ASSUME DeskInv, NEW rule \in Rules, NEW severity \in Desk!Severities, Desk!Emit(rule, severity)
    PROVE  DeskInv'
  <1> DEFINE a == alerts[rule]
             more == [a EXCEPT !.occurrences = @ + 1, !.heard = @ \cup {severity},
                               !.severity = IF Desk!Place[severity] > Desk!Place[@] THEN severity ELSE @]
             first == [severity |-> severity, occurrences |-> 1, acknowledged |-> FALSE,
                       resolved |-> FALSE, heard |-> {severity}]
  <1>1. UNCHANGED <<jobs, checkpoints, schedules, claimed, started, workers>>
    BY DEF Desk!Emit
  <1>2. AlertSound(first)
    BY SeveritiesAreFew, FS_Singleton DEF AlertSound
  <1>3. ASSUME rule \in DOMAIN alerts PROVE AlertSound(more)
    <2>1. AlertSound(a)
      BY <1>3 DEF DeskInv, AlertsInv, AlertSound
    <2>2. a.heard \subseteq Desk!Severities /\ IsFiniteSet(a.heard)
      BY <2>1, SeveritiesAreFew, FS_Subset DEF AlertSound
    <2>3. Cardinality(a.heard \cup {severity}) <= Cardinality(a.heard) + 1
          /\ Cardinality(a.heard) \in Nat /\ Cardinality(a.heard \cup {severity}) \in Nat
      <3>1. /\ IsFiniteSet(a.heard \cup {severity}) /\ Cardinality(a.heard) \in Nat
            /\ Cardinality(a.heard \cup {severity}) =
                 IF severity \in a.heard THEN Cardinality(a.heard) ELSE Cardinality(a.heard) + 1
        BY <2>2, FS_AddElement, FS_CardinalityType
      <3> QED
        BY <3>1
    <2>4. /\ more.heard = a.heard \cup {severity} /\ more.occurrences = a.occurrences + 1
          /\ more.severity = IF Desk!Place[severity] > Desk!Place[a.severity] THEN severity ELSE a.severity
      BY <2>1 DEF AlertSound
    <2> HIDE DEF more, a
    <2>5. \A x \in Desk!Severities : Desk!Place[x] \in Int
      BY SeveritiesAreFew
    <2>6. more.severity \in more.heard /\ more.heard \subseteq Desk!Severities
      BY <2>1, <2>2, <2>4 DEF AlertSound
    <2>7. ASSUME NEW h \in more.heard PROVE Desk!Place[h] <= Desk!Place[more.severity]
      <3>1. h = severity \/ (h \in a.heard /\ Desk!Place[h] <= Desk!Place[a.severity])
        BY <2>1, <2>4 DEF AlertSound
      <3>2. h \in Desk!Severities /\ a.severity \in Desk!Severities
        BY <2>1, <2>6 DEF AlertSound
      <3> QED
        BY <2>4, <2>5, <3>1, <3>2
    <2> QED
      BY <2>1, <2>3, <2>4, <2>6, <2>7 DEF AlertSound
  <1>4. alerts' = Desk!With(alerts, rule, IF rule \in DOMAIN alerts /\ ~a.resolved THEN more ELSE first)
    BY DEF Desk!Emit
  <1> HIDE DEF more, first, a
  <1>5. \A x \in DOMAIN alerts' : AlertSound(alerts'[x])
    BY <1>2, <1>3, <1>4 DEF Desk!With, DeskInv, AlertsInv, AlertSound
  <1>6. AlertsInv'
    BY <1>5 DEF AlertsInv, AlertSound
  <1> QED
    BY <1>1, <1>6 DEF DeskInv, ClaimsInv, WorkersInv, JobsInv, Driving

LEMMA AnswerKeeps ==
    ASSUME DeskInv, NEW rule \in DOMAIN alerts, Desk!Acknowledge(rule) \/ Desk!Resolve(rule)
    PROVE  DeskInv'
  <1>1. PICK a :
            /\ alerts' = [alerts EXCEPT ![rule] = a]
            /\ a.heard = alerts[rule].heard /\ a.severity = alerts[rule].severity
            /\ a.occurrences = alerts[rule].occurrences
    <2>1. CASE Desk!Acknowledge(rule)
      <3> DEFINE a == [alerts[rule] EXCEPT !.acknowledged = TRUE]
      <3>1. alerts' = [alerts EXCEPT ![rule] = a]
        BY <2>1 DEF Desk!Acknowledge
      <3>2. a.heard = alerts[rule].heard /\ a.severity = alerts[rule].severity
            /\ a.occurrences = alerts[rule].occurrences
        OBVIOUS
      <3> HIDE DEF a
      <3> QED
        BY <3>1, <3>2
    <2>2. CASE Desk!Resolve(rule)
      <3> DEFINE a == [alerts[rule] EXCEPT !.resolved = TRUE]
      <3>1. alerts' = [alerts EXCEPT ![rule] = a]
        BY <2>2 DEF Desk!Resolve
      <3>2. a.heard = alerts[rule].heard /\ a.severity = alerts[rule].severity
            /\ a.occurrences = alerts[rule].occurrences
        OBVIOUS
      <3> HIDE DEF a
      <3> QED
        BY <3>1, <3>2
    <2> QED
      BY <2>1, <2>2
  <1>2. AlertsInv'
    BY <1>1 DEF DeskInv, AlertsInv
  <1>3. UNCHANGED <<jobs, checkpoints, schedules, claimed, started, workers>>
    BY DEF Desk!Acknowledge, Desk!Resolve
  <1> QED
    BY <1>2, <1>3 DEF DeskInv, ClaimsInv, WorkersInv, JobsInv, Driving

LEMMA DeskRestsStill == DeskInv /\ UNCHANGED deskVars => DeskInv'
  BY DEF DeskInv, ClaimsInv, WorkersInv, JobsInv, AlertsInv, Driving, deskVars

LEMMA DeskStep == DeskInv /\ Desk!Next => DeskInv'
  BY CancelKeeps, ResumeKeeps, TakeUpKeeps, AddKeeps, PollKeeps, ClaimKeeps, EnterKeeps, LookKeeps, MoveKeeps,
     EmitKeeps, AnswerKeeps DEF Desk!Next

LEMMA DeskInvariantImplies == DeskInv => Desk!TypeOK /\ Desk!DeskIsOrderly /\ Desk!AlertsAreCounted
  <1> SUFFICES ASSUME DeskInv PROVE Desk!TypeOK /\ Desk!DeskIsOrderly /\ Desk!AlertsAreCounted
    OBVIOUS
  <1>1. Desk!TypeOK
    BY DEF Desk!TypeOK, DeskInv, ClaimsInv, AlertsInv, DeskJobs
  <1>2. ASSUME NEW r \in DOMAIN jobs, Desk!On(r) = {}
        PROVE  jobs[r].cancelled \/ jobs[r].status \in {"planned", "completed", "failed", "cancelled"}
    <2>1. jobs[r].status \in Job_statuses
      BY DEF DeskInv, ClaimsInv, DeskJobs
    <2>2. Driving(r) = {}
      BY <1>2 DEF Desk!On, Driving
    <2> QED
      BY <2>1, <2>2 DEF DeskInv, JobsInv, Job_statuses
  <1>3. Desk!DeskIsOrderly
    BY <1>2 DEF Desk!DeskIsOrderly, DeskInv, ClaimsInv, JobsInv
  <1>4. ASSUME NEW rule \in DOMAIN alerts
        PROVE  /\ alerts[rule].severity \in alerts[rule].heard
               /\ alerts[rule].occurrences >= Desk!Cardinality(alerts[rule].heard)
               /\ alerts[rule].severity = "critical" => alerts[rule].heard = {"critical"}
    <2>1. AlertSound(alerts[rule])
      BY DEF DeskInv, AlertsInv, AlertSound
    <2>2. alerts[rule].severity = "critical" => alerts[rule].heard = {"critical"}
      <3>1. Desk!Place["critical"] = 1 /\ \A h \in Desk!Severities : Desk!Place[h] <= 1 => h = "critical"
        BY DEF Desk!Severities, Desk!Place
      <3> QED
        BY <2>1, <3>1 DEF AlertSound
    <2>3. IsFiniteSet(alerts[rule].heard) /\ Cardinality(alerts[rule].heard) \in Nat
      BY <2>1, SeveritiesAreFew, FS_Subset, FS_CardinalityType DEF AlertSound
    <2> QED
      BY <2>1, <2>2, <2>3, CountsAlike DEF AlertSound
  <1> QED
    BY <1>1, <1>3, <1>4 DEF Desk!AlertsAreCounted

\* What the provider answered to a page first stays.
LEMMA DeskKeepsResponses == Desk!Next => Desk!KeepsResponses
  <1>1. ASSUME NEW w \in Workers, NEW answer \in Responses, Desk!Move(w, answer)
        PROVE  Desk!KeepsResponses
    BY <1>1 DEF Desk!Move, Desk!Changed, Desk!With, Desk!KeepsResponses
  <1>2. ASSUME UNCHANGED checkpoints PROVE Desk!KeepsResponses
    BY <1>2 DEF Desk!KeepsResponses
  <1>3. Desk!Next => \/ UNCHANGED checkpoints
                     \/ \E w \in Workers, answer \in Responses : Desk!Move(w, answer)
    <2>1. \A w : Desk!Look(w) \/ Desk!Claim(w) \/ Desk!Enter(w) => UNCHANGED checkpoints
      BY DEF Desk!Look, Desk!Claim, Desk!Enter
    <2>2. \A w, r : Desk!Cancel(r) \/ Desk!Resume(r) \/ Desk!TakeUp(w, r) => UNCHANGED checkpoints
      BY DEF Desk!Cancel, Desk!Resume, Desk!TakeUp
    <2>3. \A w, d : Desk!Add(d) \/ Desk!Poll(w, d) => UNCHANGED checkpoints
      BY DEF Desk!Add, Desk!Poll
    <2>4. \A rule, severity : Desk!Emit(rule, severity) \/ Desk!Acknowledge(rule) \/ Desk!Resolve(rule)
                                  => UNCHANGED checkpoints
      BY DEF Desk!Emit, Desk!Acknowledge, Desk!Resolve
    <2> QED
      BY <2>1, <2>2, <2>3, <2>4 DEF Desk!Next
  <1> QED
    BY <1>1, <1>2, <1>3

-----------------------------------------------------------------------------
(* The tables                                                                *)

JobColumns == {"checksum", "status", "cancelled"}
IsMap(r) == r = [x \in DOMAIN r |-> r[x]]
IsJobRow(r) ==
    /\ DOMAIN r = JobColumns
    /\ r["checksum"] \in Digests /\ r["status"] \in Status /\ r["cancelled"] \in BOOLEAN
IsArtifactRow(r) == DOMAIN r = {"checksum"} /\ r["checksum"] \in Digests
IsRow(e, r) ==
    /\ IsMap(r)
    /\ DOMAIN r # {} => (e \in Job /\ IsJobRow(r)) \/ (e \in Artifact /\ IsArtifactRow(r))
\* What append_event has changed of a job: none, one or both of these columns.
IsUpdate(r) ==
    /\ IsMap(r) /\ DOMAIN r \subseteq {"status", "cancelled"}
    /\ "status" \in DOMAIN r => r["status"] \in Status
    /\ "cancelled" \in DOMAIN r => r["cancelled"] \in BOOLEAN

\* Sequence numbers without a gap.
Upto(S) == \E n \in 0 .. StoredEvents : S = 1 .. n
Holds(s, j) == DOMAIN appended[s][j] # {}

StoreShapes ==
    /\ pc \in [Session -> {"open", "insert", "append"}] /\ calls \in [Session -> 0 .. MaxCalls]
    /\ DOMAIN asked = Session /\ stale \subseteq Job
    /\ DOMAIN rows = Store!Entity /\ DOMAIN events = Job
    /\ DOMAIN written = Session /\ \A s \in Session : DOMAIN written[s] = Store!Entity
    /\ DOMAIN appended = Session /\ \A s \in Session : DOMAIN appended[s] = Job
    /\ DOMAIN loaded = Session /\ \A s \in Session : DOMAIN loaded[s] = Job
    /\ \A s \in Session, j \in Job : Store!Stands(loaded[s][j]) => loaded[s][j]["status"] \in Status
    /\ \A s \in Session :
          /\ pc[s] = "insert" => asked[s].id \in Store!Entity /\ asked[s].value \in Digests
          /\ pc[s] = "append" =>
                /\ asked[s].id \in Job /\ asked[s].value \in Status
                /\ asked[s].sequence \in 1 .. StoredEvents
                /\ 1 .. asked[s].sequence - 1 \subseteq Store!SeenEvents(s, asked[s].id)

\* A row is inserted once: by a session of which nobody else sees it, or before by a commit.
RowsInv ==
    \A e \in Store!Entity :
        /\ IsRow(e, rows[e])
        /\ \A s \in Session :
              /\ Store!Inserted(written[s][e]) => IsRow(e, written[s][e]) /\ DOMAIN rows[e] = {}
              /\ ~Store!Inserted(written[s][e]) =>
                    /\ IsUpdate(written[s][e])
                    /\ DOMAIN written[s][e] # {} => e \in Job /\ DOMAIN rows[e] # {} /\ Holds(s, e)
        /\ \A s, t \in Session :
              Store!Inserted(written[s][e]) /\ Store!Inserted(written[t][e]) => s = t

\* No two artifacts share a checksum, committed or not.
ChecksumsInv ==
    \A a, b \in Artifact :
        /\ Store!Inserted(rows[a]) /\ Store!Inserted(rows[b]) /\ a # b
              => rows[a]["checksum"] # rows[b]["checksum"]
        /\ \A s \in Session : Store!Inserted(written[s][a]) /\ Store!Inserted(rows[b])
              => written[s][a]["checksum"] # rows[b]["checksum"]
        /\ \A s, t \in Session :
              Store!Inserted(written[s][a]) /\ Store!Inserted(written[t][b]) /\ a # b
                 => written[s][a]["checksum"] # written[t][b]["checksum"]

\* One session at a time holds events of a job, those that come after the committed ones.
EventsInv ==
    \A j \in Job :
        /\ IsMap(events[j]) /\ Upto(DOMAIN events[j])
        /\ \A n \in DOMAIN events[j] : events[j][n] \in Status
        /\ DOMAIN events[j] # {} => DOMAIN rows[j] # {}
        /\ \A s \in Session :
              /\ Upto(Store!SeenEvents(s, j)) /\ DOMAIN events[j] \cap DOMAIN appended[s][j] = {}
              /\ \A n \in DOMAIN appended[s][j] : appended[s][j][n] \in Status
              /\ Holds(s, j) => DOMAIN Store!Seen(s, j) # {}
        /\ \A s, t \in Session : Holds(s, j) /\ Holds(t, j) => s = t

\* What a row says of a history: the status of its last event.
Tells(row, history) ==
    \A n \in DOMAIN history :
        (\A k \in DOMAIN history : k <= n) =>
            row["status"] = history[n] /\ row["cancelled"] = (history[n] = "cancelled")
StatusInv ==
    \A j \in Job \ stale :
        /\ Tells(rows[j], events[j])
        /\ \A s \in Session : Holds(s, j) => Tells(Store!Seen(s, j), appended[s][j])

StoreInv == StoreShapes /\ RowsInv /\ ChecksumsInv /\ EventsInv /\ StatusInv

LEMMA StoreConstants ==
    /\ "planned" \in Status /\ "cancelled" \in Status /\ Job \cap Artifact = {}
    /\ StoredEvents \in Nat /\ MaxCalls \in Nat
  BY StorageConstants DEF StorageConstants, Store!ConstantsType

\* h is f laid over g, field by field.
Overlaid(h, f, g) ==
    /\ IsMap(h) /\ DOMAIN h = DOMAIN f \cup DOMAIN g
    /\ \A x \in DOMAIN f : h[x] = f[x]
    /\ \A x \in DOMAIN g \ DOMAIN f : h[x] = g[x]
LEMMA OverIs == ASSUME NEW f, NEW g PROVE Overlaid(Store!Over(f, g), f, g)
  BY DEF Store!Over, IsMap, Overlaid

LEMMA NoColumnsIs ==
    /\ IsMap(Store!NoColumns) /\ DOMAIN Store!NoColumns = {}
    /\ \A r : IsMap(r) => (Store!Stands(r) <=> DOMAIN r # {})
  <1>1. IsMap(Store!NoColumns) /\ DOMAIN Store!NoColumns = {}
    BY DEF Store!NoColumns, IsMap
  <1>2. ASSUME NEW r, IsMap(r), DOMAIN r = {} PROVE r = Store!NoColumns
    BY <1>2 DEF IsMap, Store!NoColumns
  <1> QED
    BY <1>1, <1>2 DEF Store!Stands

\* What a session sees of an entity is a row, that of the table or its own.
LEMMA SeenIsRow ==
    ASSUME RowsInv, NEW s \in Session, NEW e \in Store!Entity
    PROVE  /\ IsRow(e, Store!Seen(s, e))
           /\ DOMAIN Store!Seen(s, e) # {} <=> DOMAIN rows[e] # {} \/ Store!Inserted(written[s][e])
           /\ DOMAIN rows[e] # {} => Store!Seen(s, e)["checksum"] = rows[e]["checksum"]
           /\ Store!Inserted(written[s][e]) => Store!Seen(s, e)["checksum"] = written[s][e]["checksum"]
           /\ DOMAIN written[s][e] = {} => Store!Seen(s, e) = rows[e]
  <1> DEFINE v == Store!Seen(s, e)   w == written[s][e]   r == rows[e]
  <1>1. /\ IsMap(v) /\ DOMAIN v = DOMAIN w \cup DOMAIN r
        /\ \A x \in DOMAIN w : v[x] = w[x]
        /\ \A x \in DOMAIN r \ DOMAIN w : v[x] = r[x]
    BY OverIs DEF Store!Seen, Overlaid
  <1>2. /\ IsRow(e, r)
        /\ Store!Inserted(w) => IsRow(e, w) /\ DOMAIN r = {}
        /\ ~Store!Inserted(w) => IsUpdate(w) /\ (DOMAIN w # {} => e \in Job /\ DOMAIN r # {})
    BY DEF RowsInv
  <1>3. Store!Inserted(w) <=> "checksum" \in DOMAIN w
    BY DEF Store!Inserted
  <1>4. e \in Job => e \notin Artifact
    BY StoreConstants
  <1> HIDE DEF v, w, r
  <1>5. CASE Store!Inserted(w)
    <2>1. DOMAIN v = DOMAIN w /\ \A x \in DOMAIN v : v[x] = w[x]
      BY <1>1, <1>2, <1>5
    <2> QED
      BY <1>1, <1>2, <1>3, <1>5, <2>1 DEF IsRow, IsJobRow, IsArtifactRow, JobColumns, v, w, r
  <1>6. CASE ~Store!Inserted(w) /\ DOMAIN w = {}
    <2>1. v = r
      BY <1>1, <1>2, <1>6 DEF IsRow, IsMap
    <2> QED
      BY <1>2, <1>6, <2>1 DEF v, w, r
  <1>7. CASE ~Store!Inserted(w) /\ DOMAIN w # {}
    <2>1. e \in Job /\ IsJobRow(r) /\ IsUpdate(w)
      BY <1>2, <1>4, <1>7 DEF IsRow
    <2>2. DOMAIN v = JobColumns /\ v["checksum"] = r["checksum"] /\ "checksum" \in DOMAIN r
      BY <1>1, <1>3, <1>7, <2>1 DEF IsJobRow, JobColumns, IsUpdate
    <2>3. v["status"] \in Status /\ v["cancelled"] \in BOOLEAN
      BY <1>1, <2>1 DEF IsJobRow, JobColumns, IsUpdate
    <2> QED
      BY <1>1, <1>7, <2>1, <2>2, <2>3 DEF IsRow, IsJobRow, JobColumns, v, w, r
  <1> QED
    BY <1>5, <1>6, <1>7

\* Who holds events of a job is the only one to have changed it.
LEMMA OneHolder ==
    ASSUME RowsInv, EventsInv, NEW s \in Session, NEW t \in Session, s # t, NEW j \in Job, Holds(s, j)
    PROVE  DOMAIN written[t][j] = {} /\ DOMAIN appended[t][j] = {}
  <1>1. j \in Store!Entity /\ ~Holds(t, j) /\ DOMAIN Store!Seen(s, j) # {}
    BY DEF EventsInv, Store!Entity
  <1>2. DOMAIN rows[j] # {} \/ Store!Inserted(written[s][j])
    BY <1>1, SeenIsRow
  <1>3. ~Store!Inserted(written[t][j])
    BY <1>1, <1>2 DEF RowsInv
  <1> QED
    BY <1>1, <1>3 DEF RowsInv, Holds

LEMMA StoreInit == Store!Init => StoreInv
  <1> SUFFICES ASSUME Store!Init PROVE StoreInv
    OBVIOUS
  <1>1. /\ pc = [s \in Session |-> "open"] /\ calls = [s \in Session |-> 0]
        /\ rows = [e \in Store!Entity |-> Store!NoColumns] /\ stale = {}
        /\ written = [s \in Session |-> [e \in Store!Entity |-> Store!NoColumns]]
        /\ loaded = [s \in Session |-> [j \in Job |-> Store!NoColumns]]
        /\ DOMAIN asked = Session
    BY DEF Store!Init
  <1>2. /\ DOMAIN events = Job /\ DOMAIN appended = Session
        /\ \A j \in Job : IsMap(events[j]) /\ DOMAIN events[j] = {}
        /\ \A s \in Session : DOMAIN appended[s] = Job /\ \A j \in Job : DOMAIN appended[s][j] = {}
    BY DEF Store!Init, Store!NoEvents, IsMap
  <1>3. \A e \in Store!Entity : IsRow(e, Store!NoColumns)
    BY NoColumnsIs DEF IsRow
  <1>4. IsUpdate(Store!NoColumns) /\ ~Store!Inserted(Store!NoColumns) /\ ~Store!Stands(Store!NoColumns)
    BY NoColumnsIs DEF IsUpdate, Store!Inserted
  <1>5. StoreShapes
    BY <1>1, <1>2, <1>4, StoreConstants DEF StoreShapes
  <1>6. RowsInv
    BY <1>1, <1>3, <1>4, NoColumnsIs DEF RowsInv
  <1>7. ChecksumsInv
    BY <1>1, <1>4 DEF ChecksumsInv, Store!Entity
  <1>8. EventsInv
    <2>1. Upto({})
      <3>1. 0 \in 0 .. StoredEvents /\ 1 .. 0 = {}
        BY StoreConstants
      <3> QED
        BY <3>1 DEF Upto
    <2> QED
      BY <1>2, <2>1 DEF EventsInv, Holds, Store!SeenEvents
  <1>9. StatusInv
    BY <1>2 DEF StatusInv, Tells, Holds
  <1> QED
    BY <1>5, <1>6, <1>7, <1>8, <1>9 DEF StoreInv

\* A call that has only read: the tables and what the sessions wrote are as they were.
LEMMA ReadingKeeps ==
    ASSUME StoreInv, StoreShapes', UNCHANGED <<rows, events, stale, written, appended>>
    PROVE  StoreInv'
  <1>1. RowsInv'
    BY DEF StoreInv, RowsInv, Holds
  <1>2. ChecksumsInv'
    BY DEF StoreInv, ChecksumsInv
  <1>3. EventsInv'
    BY DEF StoreInv, EventsInv, Holds, Store!SeenEvents, Store!Seen
  <1>4. StatusInv'
    BY DEF StoreInv, StatusInv, Holds, Store!Seen
  <1> QED
    BY <1>1, <1>2, <1>3, <1>4 DEF StoreInv

LEMMA FindKeeps ==
    ASSUME StoreInv, NEW s \in Session, NEW e \in Store!Entity, NEW c \in Digests, Store!Find(s, e, c)
    PROVE  StoreInv'
  <1> DEFINE made == [id |-> e, value |-> c, sequence |-> 0]
  <1>1. /\ pc[s] = "open" /\ calls[s] < MaxCalls
        /\ pc' = [pc EXCEPT ![s] = "insert"] /\ calls' = [calls EXCEPT ![s] = calls[s] + 1]
        /\ asked' = [asked EXCEPT ![s] = made] /\ made.id = e /\ made.value = c
        /\ UNCHANGED <<rows, events, stale, written, appended, loaded>>
    BY DEF Store!Find, Store!Begin, Store!committed, Store!transaction
  <1> HIDE DEF made
  <1>2. StoreShapes'
    BY <1>1, StoreConstants DEF StoreInv, StoreShapes, Store!SeenEvents
  <1> QED
    BY <1>1, <1>2, ReadingKeeps

LEMMA FoundKeeps ==
    ASSUME StoreInv, NEW s \in Session, NEW e \in Store!Entity, NEW c \in Digests, Store!Found(s, e, c)
    PROVE  StoreInv'
  <1>1. /\ pc[s] = "open" /\ calls[s] < MaxCalls /\ Store!Stands(Store!Seen(s, e))
        /\ calls' = [calls EXCEPT ![s] = calls[s] + 1]
        /\ loaded' = IF e \in Job THEN [loaded EXCEPT ![s][e] = Store!Loaded(s, e)] ELSE loaded
        /\ UNCHANGED <<rows, events, stale, written, appended, pc, asked>>
    BY DEF Store!Found, Store!Load, Store!committed
  <1>2. e \in Job => Store!Loaded(s, e)["status"] \in Status
    <2>1. SUFFICES ASSUME e \in Job PROVE Store!Loaded(s, e)["status"] \in Status
      OBVIOUS
    <2>2. IsRow(e, Store!Seen(s, e)) /\ e \notin Artifact
      BY <2>1, SeenIsRow, StoreConstants DEF StoreInv
    <2>3. IsJobRow(Store!Seen(s, e))
      BY <1>1, <2>2, NoColumnsIs DEF IsRow
    <2> QED
      BY <2>1, <2>3 DEF Store!Loaded, IsJobRow, StoreInv, StoreShapes
  <1>3. StoreShapes'
    BY <1>1, <1>2, StoreConstants DEF StoreInv, StoreShapes, Store!SeenEvents
  <1> QED
    BY <1>1, <1>3, ReadingKeeps

LEMMA CountKeeps ==
    ASSUME StoreInv, NEW s \in Session, NEW j \in Job, NEW word \in Status, Store!Count(s, j, word)
    PROVE  StoreInv'
  <1> DEFINE made == [id |-> j, value |-> word, sequence |-> Store!NextSequence(s, j)]
  <1>1. /\ pc[s] = "open" /\ calls[s] < MaxCalls /\ Store!NextSequence(s, j) <= StoredEvents
        /\ pc' = [pc EXCEPT ![s] = "append"] /\ calls' = [calls EXCEPT ![s] = calls[s] + 1]
        /\ asked' = [asked EXCEPT ![s] = made]
        /\ made.id = j /\ made.value = word /\ made.sequence = Store!NextSequence(s, j)
        /\ UNCHANGED <<rows, events, stale, written, appended, loaded>>
    BY DEF Store!Count, Store!Begin, Store!committed, Store!transaction
  <1>2. PICK n \in 0 .. StoredEvents : Store!SeenEvents(s, j) = 1 .. n
    BY DEF StoreInv, EventsInv, Upto
  <1>3. Cardinality(1 .. n) = n
    BY <1>2, StoreConstants, FS_Interval
  <1>4. Store!NextSequence(s, j) = n + 1
    BY <1>2, <1>3, CountsAlike DEF Store!NextSequence
  <1>5. made.sequence \in 1 .. StoredEvents /\ 1 .. made.sequence - 1 \subseteq Store!SeenEvents(s, j)
    BY <1>1, <1>2, <1>4, StoreConstants
  <1> HIDE DEF made
  <1>6. StoreShapes'
    BY <1>1, <1>5, StoreConstants DEF StoreInv, StoreShapes, Store!SeenEvents
  <1> QED
    BY <1>1, <1>6, ReadingKeeps

\* The end of a scope: the session has nothing written, the others have what they had.
LEMMA CleanIs ==
    ASSUME StoreInv, NEW s \in Session, Store!Clean(s)
    PROVE  /\ pc' = [pc EXCEPT ![s] = "open"] /\ calls' = [calls EXCEPT ![s] = 0]
           /\ DOMAIN asked' = Session /\ \A t \in Session : t # s => asked'[t] = asked[t]
           /\ DOMAIN written' = Session /\ \A t \in Session : t # s => written'[t] = written[t]
           /\ DOMAIN written'[s] = Store!Entity
           /\ \A e \in Store!Entity : IsMap(written'[s][e]) /\ DOMAIN written'[s][e] = {}
           /\ DOMAIN appended' = Session /\ \A t \in Session : t # s => appended'[t] = appended[t]
           /\ DOMAIN appended'[s] = Job
           /\ \A j \in Job : IsMap(appended'[s][j]) /\ DOMAIN appended'[s][j] = {}
           /\ DOMAIN loaded' = Session /\ \A t \in Session : t # s => loaded'[t] = loaded[t]
           /\ DOMAIN loaded'[s] = Job /\ \A j \in Job : ~Store!Stands(loaded'[s][j])
  <1>1. /\ pc' = [pc EXCEPT ![s] = "open"] /\ calls' = [calls EXCEPT ![s] = 0]
        /\ asked' = [asked EXCEPT ![s] = Store!NotAsked]
        /\ written' = [written EXCEPT ![s] = [e \in Store!Entity |-> Store!NoColumns]]
        /\ appended' = [appended EXCEPT ![s] = [j \in Job |-> Store!NoEvents]]
        /\ loaded' = [loaded EXCEPT ![s] = [j \in Job |-> Store!NoColumns]]
    BY DEF Store!Clean
  <1>2. DOMAIN Store!NoEvents = {} /\ IsMap(Store!NoEvents)
    BY DEF Store!NoEvents, IsMap
  <1>3. ~Store!Stands(Store!NoColumns)
    BY NoColumnsIs
  <1> QED
    BY <1>1, <1>2, <1>3, NoColumnsIs DEF StoreInv, StoreShapes

\* What the committed tables may become when the scope of s ends: rows and events stay, and so
\* does what the other sessions see of them.
LEMMA ScopeEnds ==
    ASSUME StoreInv, NEW s \in Session, Store!Clean(s), stale' = stale,
           DOMAIN rows' = Store!Entity, DOMAIN events' = Job,
           \A j \in Job : DOMAIN events[j] \subseteq DOMAIN events'[j]
    PROVE  StoreShapes'
  <1>1. \A t \in Session, j \in Job : t # s =>
            (Store!SeenEvents(t, j) \subseteq (DOMAIN events'[j] \cup DOMAIN appended'[t][j]))
    BY CleanIs DEF Store!SeenEvents
  <1>2. /\ pc' \in [Session -> {"open", "insert", "append"}] /\ calls' \in [Session -> 0 .. MaxCalls]
        /\ pc'[s] = "open" /\ \A t \in Session : t # s => pc'[t] = pc[t]
    BY CleanIs, StoreConstants DEF StoreInv, StoreShapes
  <1>3. ASSUME NEW t \in Session
        PROVE  /\ pc'[t] = "insert" => asked'[t].id \in Store!Entity /\ asked'[t].value \in Digests
               /\ pc'[t] = "append" =>
                     /\ asked'[t].id \in Job /\ asked'[t].value \in Status
                     /\ asked'[t].sequence \in 1 .. StoredEvents
                     /\ 1 .. asked'[t].sequence - 1 \subseteq
                           (DOMAIN events'[asked'[t].id] \cup DOMAIN appended'[t][asked'[t].id])
    <2>1. CASE t = s
      BY <1>2, <2>1
    <2>2. CASE t # s
      <3>1. pc'[t] = pc[t] /\ asked'[t] = asked[t]
        BY <1>2, <2>2, CleanIs
      <3>2. pc[t] = "append" => 1 .. asked[t].sequence - 1 \subseteq
                           (DOMAIN events'[asked[t].id] \cup DOMAIN appended'[t][asked[t].id])
        BY <1>1, <2>2 DEF StoreInv, StoreShapes
      <3> QED
        BY <3>1, <3>2 DEF StoreInv, StoreShapes
    <2> QED
      BY <2>1, <2>2
  <1>4. /\ DOMAIN asked' = Session /\ stale' \subseteq Job
        /\ DOMAIN written' = Session /\ \A t \in Session : DOMAIN written'[t] = Store!Entity
        /\ DOMAIN appended' = Session /\ \A t \in Session : DOMAIN appended'[t] = Job
        /\ DOMAIN loaded' = Session /\ \A t \in Session : DOMAIN loaded'[t] = Job
    <2>1. /\ stale \subseteq Job
          /\ \A t \in Session : DOMAIN written[t] = Store!Entity /\ DOMAIN appended[t] = Job /\ DOMAIN loaded[t] = Job
      BY DEF StoreInv, StoreShapes
    <2>2. DOMAIN asked' = Session /\ DOMAIN written' = Session /\ DOMAIN appended' = Session /\ DOMAIN loaded' = Session
      BY CleanIs
    <2>3. \A t \in Session : DOMAIN written'[t] = Store!Entity
      BY <2>1, CleanIs
    <2>4. \A t \in Session : DOMAIN appended'[t] = Job
      BY <2>1, CleanIs
    <2>5. \A t \in Session : DOMAIN loaded'[t] = Job
      BY <2>1, CleanIs
    <2> QED
      BY <2>1, <2>2, <2>3, <2>4, <2>5
  <1>5. ASSUME NEW t \in Session, NEW j \in Job, Store!Stands(loaded'[t][j])
        PROVE  loaded'[t][j]["status"] \in Status
    <2>1. loaded'[t] = loaded[t]
      BY <1>5, CleanIs
    <2> QED
      BY <1>5, <2>1 DEF StoreInv, StoreShapes
  <1> QED
    BY <1>2, <1>3, <1>4, <1>5 DEF StoreShapes, Store!SeenEvents

LEMMA RollbackKeeps == ASSUME StoreInv, NEW s \in Session, Store!Rollback(s) PROVE StoreInv'
  <1>1. Store!Clean(s) /\ UNCHANGED <<rows, events, stale>>
    BY DEF Store!Rollback, Store!committed
  <1>2. StoreShapes'
    BY <1>1, ScopeEnds DEF StoreInv, StoreShapes
  <1>3. /\ \A t \in Session : t # s => written'[t] = written[t] /\ appended'[t] = appended[t]
        /\ \A e \in Store!Entity : ~Store!Inserted(written'[s][e]) /\ IsUpdate(written'[s][e])
                                   /\ DOMAIN written'[s][e] = {}
        /\ \A j \in Job : DOMAIN appended'[s][j] = {}
    BY <1>1, CleanIs DEF Store!Inserted, IsUpdate
  <1>4. \A t \in Session, j \in Job : DOMAIN appended'[t][j] # {} => t # s /\ Holds(t, j)
    BY <1>3 DEF Holds
  <1>5. \A t \in Session, e \in Store!Entity :
           Store!Inserted(written'[t][e]) => t # s /\ written'[t][e] = written[t][e]
    BY <1>3
  <1>6. RowsInv'
    BY <1>1, <1>3, <1>5 DEF StoreInv, RowsInv, Holds
  <1>7. ChecksumsInv'
    BY <1>1, <1>5 DEF StoreInv, ChecksumsInv, Store!Entity
  <1>8. EventsInv'
    <2>1. ASSUME NEW j \in Job, NEW t \in Session
          PROVE  /\ Upto(DOMAIN events[j] \cup DOMAIN appended'[t][j])
                 /\ DOMAIN events[j] \cap DOMAIN appended'[t][j] = {}
                 /\ \A n \in DOMAIN appended'[t][j] : appended'[t][j][n] \in Status
                 /\ DOMAIN appended'[t][j] # {} => DOMAIN Store!Over(written'[t][j], rows[j]) # {}
      <3>1. CASE t = s
        BY <1>3, <3>1 DEF StoreInv, EventsInv
      <3>2. CASE t # s
        BY <1>3, <3>2 DEF StoreInv, EventsInv, Store!SeenEvents, Store!Seen, Holds
      <3> QED
        BY <3>1, <3>2
    <2>2. \A j \in Job, t, u \in Session : Holds(t, j)' /\ Holds(u, j)' => t = u
      <3>1. \A j \in Job, t \in Session : Holds(t, j)' => Holds(t, j)
        BY <1>4 DEF Holds
      <3>2. \A j \in Job, t, u \in Session : Holds(t, j) /\ Holds(u, j) => t = u
        BY DEF StoreInv, EventsInv
      <3> QED
        BY <3>1, <3>2
    <2>3. \A j \in Job :
             /\ IsMap(events'[j]) /\ Upto(DOMAIN events'[j])
             /\ \A n \in DOMAIN events'[j] : events'[j][n] \in Status
             /\ DOMAIN events'[j] # {} => DOMAIN rows'[j] # {}
      BY <1>1 DEF StoreInv, EventsInv
    <2>4. rows' = rows /\ events' = events
      BY <1>1
    <2>5. \A j \in Job, t \in Session :
             /\ Upto(Store!SeenEvents(t, j)') /\ DOMAIN events'[j] \cap DOMAIN appended'[t][j] = {}
             /\ \A n \in DOMAIN appended'[t][j] : appended'[t][j][n] \in Status
             /\ Holds(t, j)' => DOMAIN Store!Seen(t, j)' # {}
      BY <2>1, <2>4 DEF Store!SeenEvents, Store!Seen, Holds
    <2> QED
      BY <2>2, <2>3, <2>5 DEF EventsInv
  <1>9. StatusInv'
    BY <1>1, <1>3, <1>4 DEF StoreInv, StatusInv, Holds, Store!Seen
  <1> QED
    BY <1>2, <1>6, <1>7, <1>8, <1>9 DEF StoreInv

LEMMA CommitKeeps == ASSUME StoreInv, NEW s \in Session, Store!Commit(s) PROVE StoreInv'
  <1>1. /\ Store!Clean(s) /\ stale' = stale
        /\ rows' = [e \in Store!Entity |-> Store!Seen(s, e)]
        /\ events' = [j \in Job |-> Store!Over(events[j], appended[s][j])]
    BY DEF Store!Commit
  <1>2. \A e \in Store!Entity :
            /\ IsRow(e, rows'[e])
            /\ DOMAIN rows'[e] # {} <=> DOMAIN rows[e] # {} \/ Store!Inserted(written[s][e])
            /\ DOMAIN rows[e] # {} => rows'[e]["checksum"] = rows[e]["checksum"]
            /\ Store!Inserted(written[s][e]) => rows'[e]["checksum"] = written[s][e]["checksum"]
            /\ DOMAIN written[s][e] = {} => rows'[e] = rows[e]
    BY <1>1, SeenIsRow DEF StoreInv
  <1>3. \A j \in Job :
            /\ IsMap(events'[j]) /\ DOMAIN events'[j] = DOMAIN events[j] \cup DOMAIN appended[s][j]
            /\ \A n \in DOMAIN events[j] : events'[j][n] = events[j][n]
            /\ \A n \in DOMAIN appended[s][j] \ DOMAIN events[j] : events'[j][n] = appended[s][j][n]
    <2>1. ASSUME NEW j \in Job PROVE Overlaid(events'[j], events[j], appended[s][j])
      BY <1>1, OverIs
    <2> QED
      BY <2>1 DEF Overlaid
  <1>4. StoreShapes'
    BY <1>1, <1>3, ScopeEnds
  <1>5. /\ \A t \in Session : t # s => written'[t] = written[t] /\ appended'[t] = appended[t]
        /\ \A e \in Store!Entity : ~Store!Inserted(written'[s][e]) /\ IsUpdate(written'[s][e])
                                   /\ DOMAIN written'[s][e] = {}
        /\ \A j \in Job : DOMAIN appended'[s][j] = {}
    BY <1>1, CleanIs DEF Store!Inserted, IsUpdate
  <1>6. \A t \in Session, j \in Job : DOMAIN appended'[t][j] # {} => t # s /\ Holds(t, j)
    BY <1>5 DEF Holds
  <1>7. \A t \in Session, e \in Store!Entity :
           Store!Inserted(written'[t][e]) =>
              t # s /\ written'[t][e] = written[t][e] /\ ~Store!Inserted(written[s][e])
    BY <1>5 DEF StoreInv, RowsInv
  <1>8. RowsInv'
    <2>1. ASSUME NEW e \in Store!Entity, NEW t \in Session, Store!Inserted(written'[t][e])
          PROVE  IsRow(e, written'[t][e]) /\ DOMAIN rows'[e] = {}
      BY <1>2, <1>7, <2>1 DEF StoreInv, RowsInv
    <2>2. ASSUME NEW e \in Store!Entity, NEW t \in Session, ~Store!Inserted(written'[t][e])
          PROVE  /\ IsUpdate(written'[t][e])
                 /\ DOMAIN written'[t][e] # {} =>
                       e \in Job /\ DOMAIN rows'[e] # {} /\ DOMAIN appended'[t][e] # {}
      BY <1>2, <1>5, <2>2 DEF StoreInv, RowsInv, Holds
    <2>3. ASSUME NEW e \in Store!Entity, NEW t \in Session, NEW u \in Session,
                 Store!Inserted(written'[t][e]), Store!Inserted(written'[u][e])
          PROVE  t = u
      BY <1>7, <2>3 DEF StoreInv, RowsInv
    <2> QED
      BY <1>2, <2>1, <2>2, <2>3 DEF RowsInv, Holds
  <1>9. ChecksumsInv'
    <2>1. \A a \in Artifact : Store!Inserted(rows'[a]) =>
              \/ Store!Inserted(rows[a]) /\ rows'[a]["checksum"] = rows[a]["checksum"]
              \/ Store!Inserted(written[s][a]) /\ rows'[a]["checksum"] = written[s][a]["checksum"]
      <3>1. ASSUME NEW a \in Artifact, DOMAIN rows[a] # {} PROVE Store!Inserted(rows[a])
        BY <3>1 DEF StoreInv, RowsInv, IsRow, IsJobRow, IsArtifactRow, JobColumns, Store!Inserted, Store!Entity
      <3> QED
        BY <1>2, <3>1 DEF Store!Inserted, Store!Entity
    <2>2. \A t \in Session, a \in Artifact : Store!Inserted(written'[t][a]) =>
              t # s /\ written'[t][a] = written[t][a]
      BY <1>7 DEF Store!Entity
    <2>3. ASSUME NEW a \in Artifact, NEW b \in Artifact, a # b,
                 Store!Inserted(rows'[a]), Store!Inserted(rows'[b])
          PROVE  rows'[a]["checksum"] # rows'[b]["checksum"]
      BY <2>1, <2>3 DEF StoreInv, ChecksumsInv
    <2>4. ASSUME NEW a \in Artifact, NEW b \in Artifact, NEW t \in Session,
                 Store!Inserted(written'[t][a]), Store!Inserted(rows'[b])
          PROVE  written'[t][a]["checksum"] # rows'[b]["checksum"]
      <3>1. CASE a = b
        BY <1>8, <2>4, <3>1 DEF RowsInv, Store!Inserted, Store!Entity
      <3>2. CASE a # b
        BY <2>1, <2>2, <2>4, <3>2 DEF StoreInv, ChecksumsInv
      <3> QED
        BY <3>1, <3>2
    <2>5. ASSUME NEW a \in Artifact, NEW b \in Artifact, a # b, NEW t \in Session, NEW u \in Session,
                 Store!Inserted(written'[t][a]), Store!Inserted(written'[u][b])
          PROVE  written'[t][a]["checksum"] # written'[u][b]["checksum"]
      BY <2>2, <2>5 DEF StoreInv, ChecksumsInv
    <2> QED
      BY <2>3, <2>4, <2>5 DEF ChecksumsInv
  <1>10. ASSUME NEW j \in Job, NEW t \in Session, t # s, DOMAIN appended'[t][j] # {}
         PROVE  /\ DOMAIN events'[j] = DOMAIN events[j] /\ rows'[j] = rows[j]
                /\ appended'[t][j] = appended[t][j] /\ written'[t][j] = written[t][j] /\ Holds(t, j)
    <2>1. Holds(t, j) /\ j \in Store!Entity
      BY <1>6, <1>10 DEF Store!Entity
    <2>2. DOMAIN written[s][j] = {} /\ DOMAIN appended[s][j] = {}
      BY <1>10, <2>1, OneHolder DEF StoreInv
    <2> QED
      BY <1>2, <1>3, <1>5, <1>10, <2>1, <2>2
  <1>11. EventsInv'
    <2>1. ASSUME NEW j \in Job
          PROVE  /\ Upto(DOMAIN events'[j]) /\ \A n \in DOMAIN events'[j] : events'[j][n] \in Status
                 /\ DOMAIN events'[j] # {} => DOMAIN rows'[j] # {}
      <3>1. DOMAIN events'[j] = Store!SeenEvents(s, j) /\ j \in Store!Entity
        BY <1>3 DEF Store!SeenEvents, Store!Entity
      <3>2. Upto(DOMAIN events'[j])
        BY <3>1 DEF StoreInv, EventsInv
      <3>3. \A n \in DOMAIN events'[j] : events'[j][n] \in Status
        BY <1>3 DEF StoreInv, EventsInv
      <3>4. DOMAIN events'[j] # {} => DOMAIN events[j] # {} \/ Holds(s, j)
        BY <1>3 DEF Holds
      <3>5. Holds(s, j) => DOMAIN rows'[j] # {}
        BY <1>1, <3>1 DEF StoreInv, EventsInv
      <3> QED
        BY <1>2, <3>1, <3>2, <3>3, <3>4, <3>5 DEF StoreInv, EventsInv
    <2>2. ASSUME NEW j \in Job, NEW t \in Session
          PROVE  /\ Upto(DOMAIN events'[j] \cup DOMAIN appended'[t][j])
                 /\ DOMAIN events'[j] \cap DOMAIN appended'[t][j] = {}
                 /\ \A n \in DOMAIN appended'[t][j] : appended'[t][j][n] \in Status
                 /\ DOMAIN appended'[t][j] # {} => DOMAIN Store!Over(written'[t][j], rows'[j]) # {}
      <3>1. CASE DOMAIN appended'[t][j] = {}
        BY <2>1, <3>1
      <3>2. CASE DOMAIN appended'[t][j] # {}
        <4>1. t # s
          BY <1>6, <3>2
        <4>2. /\ Upto(DOMAIN events[j] \cup DOMAIN appended[t][j])
              /\ DOMAIN events[j] \cap DOMAIN appended[t][j] = {}
              /\ \A n \in DOMAIN appended[t][j] : appended[t][j][n] \in Status
              /\ DOMAIN appended[t][j] # {} => DOMAIN Store!Over(written[t][j], rows[j]) # {}
          <5>1. Holds(t, j)
            BY <1>10, <3>2, <4>1, <1>6
          <5> QED
            BY <5>1 DEF StoreInv, EventsInv, Store!SeenEvents, Store!Seen
        <4>3. /\ DOMAIN events'[j] = DOMAIN events[j] /\ rows'[j] = rows[j]
              /\ appended'[t][j] = appended[t][j] /\ written'[t][j] = written[t][j]
          BY <1>10, <3>2, <4>1
        <4> QED
          BY <4>2, <4>3
      <3> QED
        BY <3>1, <3>2
    <2> QED
      BY <1>3, <1>6, <2>1, <2>2 DEF StoreInv, EventsInv, Store!SeenEvents, Store!Seen, Holds
  <1>12. StatusInv'
    <2>1. ASSUME NEW j \in Job \ stale PROVE Tells(rows'[j], events'[j])
      <3>0. j \in Job /\ j \in Store!Entity
        BY DEF Store!Entity
      <3>1. CASE Holds(s, j)
        <4>1. Tells(rows'[j], appended[s][j])
          BY <1>1, <3>0, <3>1 DEF StoreInv, StatusInv
        <4>2. PICK m \in 0 .. StoredEvents : DOMAIN events[j] = 1 .. m
          BY <3>0 DEF StoreInv, EventsInv, Upto
        <4>3. PICK k \in DOMAIN appended[s][j] : k \notin DOMAIN events[j]
          BY <3>0, <3>1 DEF Holds, StoreInv, EventsInv
        <4>4. PICK q \in 0 .. StoredEvents : DOMAIN events'[j] = 1 .. q
          BY <3>0, <1>11 DEF EventsInv, Upto
        <4>5. ASSUME NEW n \in DOMAIN events'[j], \A i \in DOMAIN events'[j] : i <= n
              PROVE  n \in DOMAIN appended[s][j] \ DOMAIN events[j]
          <5>1. k \in DOMAIN events'[j] /\ n \in Int /\ k \in Int /\ k <= n /\ 1 <= k
            BY <1>3, <3>0, <4>3, <4>4, <4>5
          <5>2. n \notin DOMAIN events[j]
            BY <4>2, <4>3, <5>1
          <5> QED
            BY <1>3, <3>0, <4>5, <5>2
        <4> QED
          BY <1>3, <3>0, <4>1, <4>5 DEF Tells
      <3>2. CASE ~Holds(s, j)
        <4>1. DOMAIN events'[j] = DOMAIN events[j] /\ \A n \in DOMAIN events[j] : events'[j][n] = events[j][n]
          BY <1>3, <3>0, <3>2 DEF Holds
        <4>2. CASE Store!Inserted(written[s][j])
          BY <3>0, <4>1, <4>2 DEF Tells, StoreInv, EventsInv, RowsInv
        <4>3. CASE ~Store!Inserted(written[s][j])
          <5>1. rows'[j] = rows[j]
            BY <1>2, <3>0, <3>2, <4>3 DEF StoreInv, RowsInv
          <5> QED
            BY <4>1, <5>1 DEF Tells, StoreInv, StatusInv
        <4> QED
          BY <4>2, <4>3
      <3> QED
        BY <3>1, <3>2
    <2>2. ASSUME NEW j \in Job \ stale, NEW t \in Session, DOMAIN appended'[t][j] # {}
          PROVE  Tells(Store!Over(written'[t][j], rows'[j]), appended'[t][j])
      <3>1. t # s /\ j \in Job
        BY <1>6, <2>2
      <3> QED
        BY <1>10, <2>2, <3>1 DEF StoreInv, StatusInv, Store!Seen
    <2> QED
      BY <1>1, <2>1, <2>2 DEF StatusInv, Holds, Store!Seen
  <1> QED
    BY <1>4, <1>8, <1>9, <1>11, <1>12 DEF StoreInv

\* Nobody has written anything of an entity without a row, or appended an event to it.
LEMMA NothingOfIt ==
    ASSUME StoreInv, NEW e \in Store!Entity,
           ~Store!Inserted(rows[e]), \A t \in Session : ~Store!Inserted(written[t][e])
    PROVE  /\ DOMAIN rows[e] = {} /\ \A t \in Session : DOMAIN written[t][e] = {}
           /\ e \in Job => DOMAIN events[e] = {} /\ \A t \in Session : ~Holds(t, e)
  <1>1. DOMAIN rows[e] = {}
    BY DEF StoreInv, RowsInv, IsRow, IsJobRow, IsArtifactRow, JobColumns, Store!Inserted
  <1>2. \A t \in Session : DOMAIN written[t][e] = {}
    BY <1>1 DEF StoreInv, RowsInv
  <1>3. \A t \in Session : DOMAIN Store!Seen(t, e) = {}
    BY <1>1, SeenIsRow DEF StoreInv
  <1> QED
    BY <1>1, <1>2, <1>3 DEF StoreInv, EventsInv

LEMMA InsertKeeps == ASSUME StoreInv, NEW s \in Session, Store!Insert(s) PROVE StoreInv'
  <1> DEFINE e == asked[s].id   c == asked[s].value
             row == IF e \in Job THEN Store!JobRow(c) ELSE Store!ArtifactRow(c)
  <1>1. /\ pc[s] = "insert" /\ pc' = [pc EXCEPT ![s] = "open"]
        /\ ~Store!Clash(e, c, rows) /\ \A t \in Session : ~Store!Clash(e, c, written[t])
        /\ written' = [written EXCEPT ![s] = [written[s] EXCEPT ![e] = row]]
        /\ loaded' = IF e \in Job THEN [loaded EXCEPT ![s] = [loaded[s] EXCEPT ![e] = row]] ELSE loaded
        /\ asked' = [asked EXCEPT ![s] = Store!NotAsked]
        /\ UNCHANGED <<rows, events, stale, calls, appended>>
    BY DEF Store!Insert, Store!Return, Store!Load, Store!committed
  <1>2. e \in Store!Entity /\ c \in Digests
    BY <1>1 DEF StoreInv, StoreShapes
  <1>3. /\ IsRow(e, row) /\ Store!Inserted(row) /\ row["checksum"] = c
        /\ e \in Job => row["status"] \in Status /\ IsJobRow(row)
    BY <1>2, StoreConstants
    DEF IsRow, IsMap, IsJobRow, IsArtifactRow, JobColumns, Store!JobRow, Store!ArtifactRow, Store!Inserted,
        Store!Entity
  <1> HIDE DEF row, e, c
  <1>4. /\ ~Store!Inserted(rows[e]) /\ \A t \in Session : ~Store!Inserted(written[t][e])
        /\ e \in Artifact => \A a \in Artifact :
              /\ Store!Inserted(rows[a]) => rows[a].checksum # c
              /\ \A t \in Session : Store!Inserted(written[t][a]) => written[t][a].checksum # c
    BY <1>1 DEF Store!Clash
  <1>5. /\ DOMAIN rows[e] = {} /\ \A t \in Session : DOMAIN written[t][e] = {}
        /\ e \in Job => DOMAIN events[e] = {} /\ \A t \in Session : ~Holds(t, e)
    BY <1>2, <1>4, NothingOfIt
  <1>6. /\ written'[s][e] = row
        /\ \A t \in Session, d \in Store!Entity : t # s \/ d # e => written'[t][d] = written[t][d]
        /\ DOMAIN written' = Session /\ \A t \in Session : DOMAIN written'[t] = Store!Entity
    BY <1>1, <1>2 DEF StoreInv, StoreShapes
  <1>7. StoreShapes'
    <2>1. \A t \in Session : t # s => asked'[t] = asked[t] /\ pc'[t] = pc[t]
      BY <1>1 DEF StoreInv, StoreShapes
    <2>2. pc' \in [Session -> {"open", "insert", "append"}] /\ pc'[s] = "open" /\ DOMAIN asked' = Session
      BY <1>1 DEF StoreInv, StoreShapes
    <2>3. /\ DOMAIN loaded' = Session /\ \A t \in Session : DOMAIN loaded'[t] = Job
          /\ \A t \in Session, j \in Job : loaded'[t][j] = loaded[t][j] \/ (j = e /\ loaded'[t][j] = row)
      BY <1>1 DEF StoreInv, StoreShapes
    <2>4. \A t \in Session, j \in Job : Store!Stands(loaded'[t][j]) => loaded'[t][j]["status"] \in Status
      BY <1>3, <2>3 DEF StoreInv, StoreShapes
    <2>5. \A t \in Session :
             /\ pc'[t] = "insert" => asked'[t].id \in Store!Entity /\ asked'[t].value \in Digests
             /\ pc'[t] = "append" =>
                   /\ asked'[t].id \in Job /\ asked'[t].value \in Status
                   /\ asked'[t].sequence \in 1 .. StoredEvents
                   /\ 1 .. asked'[t].sequence - 1 \subseteq
                         (DOMAIN events[asked'[t].id] \cup DOMAIN appended[t][asked'[t].id])
      BY <2>1, <2>2 DEF StoreInv, StoreShapes, Store!SeenEvents
    <2> QED
      BY <1>1, <1>6, <2>2, <2>3, <2>4, <2>5 DEF StoreInv, StoreShapes, Store!SeenEvents
  <1>8. RowsInv'
    BY <1>1, <1>2, <1>3, <1>4, <1>5, <1>6 DEF StoreInv, RowsInv, Holds
  <1>9. ChecksumsInv'
    <2>1. \A a \in Artifact, t \in Session : Store!Inserted(written'[t][a]) =>
             \/ t = s /\ a = e /\ written'[t][a]["checksum"] = c
             \/ Store!Inserted(written[t][a]) /\ written'[t][a] = written[t][a]
      BY <1>3, <1>6 DEF Store!Entity
    <2> QED
      BY <1>1, <1>4, <2>1 DEF StoreInv, ChecksumsInv
  <1>10. \A t \in Session, j \in Job : Holds(t, j) => written'[t][j] = written[t][j]
    BY <1>5, <1>6 DEF Store!Entity
  <1>11. EventsInv'
    BY <1>1, <1>10 DEF StoreInv, EventsInv, Holds, Store!SeenEvents, Store!Seen
  <1>12. StatusInv'
    BY <1>1, <1>10 DEF StoreInv, StatusInv, Holds, Store!Seen
  <1> QED
    BY <1>7, <1>8, <1>9, <1>11, <1>12 DEF StoreInv

\* The sequence a session has counted and finds free is the next one, and no other session
\* holds events of that job.
LEMMA NextIsFree ==
    ASSUME EventsInv, NEW s \in Session, NEW j \in Job, NEW n \in 1 .. StoredEvents,
           1 .. n - 1 \subseteq Store!SeenEvents(s, j), ~Store!Taken(j, n)
    PROVE  /\ Store!SeenEvents(s, j) = 1 .. n - 1 /\ \A t \in Session : t # s => ~Holds(t, j)
           /\ n \notin DOMAIN events[j] /\ n \notin DOMAIN appended[s][j]
  <1>1. n \notin DOMAIN events[j] /\ \A t \in Session : n \notin DOMAIN appended[t][j]
    BY DEF Store!Taken
  <1>2. PICK m \in 0 .. StoredEvents : Store!SeenEvents(s, j) = 1 .. m
    BY DEF EventsInv, Upto
  <1>3. m = n - 1
    <2>1. n \in Int /\ m \in Int /\ 1 <= n /\ 0 <= m
      BY <1>2, StoreConstants
    <2>2. ~(n <= m)
      BY <1>1, <1>2, <2>1 DEF Store!SeenEvents
    <2>3. CASE n = 1
      BY <2>1, <2>2, <2>3
    <2>4. CASE n # 1
      <3>1. n - 1 \in 1 .. n - 1
        BY <2>1, <2>4
      <3>2. n - 1 \in 1 .. m
        BY <1>2, <3>1
      <3> QED
        BY <2>1, <2>2, <3>2
    <2> QED
      BY <2>3, <2>4
  <1>4. ASSUME NEW t \in Session, t # s, Holds(t, j) PROVE FALSE
    <2>1. DOMAIN appended[s][j] = {}
      BY <1>4 DEF EventsInv, Holds
    <2>2. DOMAIN events[j] = 1 .. m
      BY <1>2, <2>1 DEF Store!SeenEvents
    <2>3. PICK q \in 0 .. StoredEvents : DOMAIN events[j] \cup DOMAIN appended[t][j] = 1 .. q
      BY DEF EventsInv, Upto, Store!SeenEvents
    <2>4. PICK k \in DOMAIN appended[t][j] : k \notin DOMAIN events[j]
      BY <1>4 DEF EventsInv, Holds
    <2>5. k \in 1 .. q /\ k \notin 1 .. m
      BY <2>2, <2>3, <2>4
    <2>6. n \in 1 .. q
      BY <1>3, <2>5, StoreConstants
    <2> QED
      BY <1>1, <2>3, <2>6
  <1> QED
    BY <1>1, <1>2, <1>3, <1>4

\* The columns an UPDATE names, and what they leave of the row it is of.
LEMMA DifferingIs ==
    ASSUME NEW old, NEW word \in Status
    PROVE  LET new == Store!Assigned(word)
               d == Store!Differing(new, old)
           IN  /\ IsUpdate(d) /\ ~("checksum" \in DOMAIN d)
               /\ new["status"] = word /\ new["cancelled"] = (word = "cancelled")
               /\ DOMAIN new = {"status", "cancelled"}
               /\ \A x \in DOMAIN d : x \in {"status", "cancelled"} /\ d[x] = new[x]
               /\ \A x \in {"status", "cancelled"} : x \notin DOMAIN d => old[x] = new[x]
  <1> DEFINE new == Store!Assigned(word)
             d == Store!Differing(new, old)
  <1>1. /\ new["status"] = word /\ new["cancelled"] = (word = "cancelled")
        /\ DOMAIN new = {"status", "cancelled"}
    BY DEF Store!Assigned
  <1> HIDE DEF new
  <1>2. /\ IsMap(d) /\ DOMAIN d = {x \in DOMAIN new : new[x] # old[x]}
        /\ \A x \in DOMAIN d : d[x] = new[x]
    BY DEF Store!Differing, IsMap
  <1> HIDE DEF d
  <1>3. \A x \in DOMAIN d : x \in {"status", "cancelled"} /\ d[x] = new[x]
    BY <1>1, <1>2
  <1>4. \A x \in {"status", "cancelled"} : x \notin DOMAIN d => old[x] = new[x]
    BY <1>1, <1>2
  <1>5. new["status"] \in Status /\ new["cancelled"] \in BOOLEAN
    BY <1>1
  <1>6. IsUpdate(d)
    BY <1>2, <1>3, <1>5 DEF IsUpdate
  <1>7. ~("checksum" \in DOMAIN d)
    BY <1>3
  <1> QED
    BY <1>1, <1>3, <1>4, <1>6, <1>7 DEF new, d

\* An UPDATE of a row there is, flushed over what the session wrote of it before.
LEMMA UpdateIs ==
    ASSUME RowsInv, NEW s \in Session, NEW j \in Job, NEW d, NEW w, NEW v,
           IsUpdate(d), DOMAIN Store!Seen(s, j) # {},
           w = Store!Over(d, written[s][j]), v = Store!Over(w, rows[j])
    PROVE  /\ Store!Inserted(w) <=> Store!Inserted(written[s][j])
           /\ Store!Inserted(w) => IsRow(j, w)
           /\ ~Store!Inserted(w) => IsUpdate(w) /\ DOMAIN rows[j] # {}
           /\ DOMAIN v # {} /\ \A x \in DOMAIN d : v[x] = d[x]
           /\ \A x \in JobColumns \ DOMAIN d : v[x] = Store!Seen(s, j)[x]
  <1> DEFINE o == written[s][j]   r == rows[j]   u == Store!Seen(s, j)
  <1>1. /\ IsMap(w) /\ DOMAIN w = DOMAIN d \cup DOMAIN o
        /\ \A x \in DOMAIN d : w[x] = d[x]
        /\ \A x \in DOMAIN o \ DOMAIN d : w[x] = o[x]
    <2>1. Overlaid(w, d, o)
      BY OverIs
    <2> QED
      BY <2>1 DEF Overlaid
  <1>2. /\ DOMAIN v = DOMAIN w \cup DOMAIN r
        /\ \A x \in DOMAIN w : v[x] = w[x]
        /\ \A x \in DOMAIN r \ DOMAIN w : v[x] = r[x]
    <2>1. Overlaid(v, w, r)
      BY OverIs
    <2> QED
      BY <2>1 DEF Overlaid
  <1>3. /\ DOMAIN u = DOMAIN o \cup DOMAIN r
        /\ \A x \in DOMAIN o : u[x] = o[x]
        /\ \A x \in DOMAIN r \ DOMAIN o : u[x] = r[x]
    BY OverIs DEF Store!Seen, Overlaid
  <1>4. /\ j \notin Artifact /\ j \in Store!Entity
        /\ IsUpdate(d) /\ ~("checksum" \in DOMAIN d)
    BY StoreConstants DEF Store!Entity, IsUpdate
  <1>5. /\ IsRow(j, u)
        /\ Store!Inserted(o) => IsRow(j, o)
        /\ ~Store!Inserted(o) => IsUpdate(o)
        /\ DOMAIN u # {} => DOMAIN r # {} \/ Store!Inserted(o)
    BY <1>4, SeenIsRow DEF RowsInv
  <1> HIDE DEF o, r
  <1>6. /\ Store!Inserted(w) <=> "checksum" \in DOMAIN w
        /\ Store!Inserted(o) <=> "checksum" \in DOMAIN o
    BY DEF Store!Inserted
  <1>7. Store!Inserted(w) <=> Store!Inserted(o)
    BY <1>1, <1>4, <1>6
  <1>8. ASSUME Store!Inserted(w) PROVE IsRow(j, w)
    <2>1. IsJobRow(o)
      BY <1>4, <1>5, <1>6, <1>7, <1>8 DEF IsRow
    <2>2. DOMAIN w = JobColumns /\ w["checksum"] \in Digests
      BY <1>1, <1>4, <2>1 DEF IsJobRow, JobColumns, IsUpdate
    <2>3. w["status"] \in Status /\ w["cancelled"] \in BOOLEAN
      BY <1>1, <1>4, <2>1 DEF IsJobRow, JobColumns, IsUpdate
    <2> QED
      BY <1>1, <2>2, <2>3 DEF IsRow, IsJobRow
  <1>9. ASSUME ~Store!Inserted(w) PROVE IsUpdate(w) /\ DOMAIN r # {}
    <2>1. IsUpdate(o)
      BY <1>5, <1>7, <1>9
    <2>2. DOMAIN w \subseteq {"status", "cancelled"}
      BY <1>1, <1>4, <2>1 DEF IsUpdate
    <2>3. "status" \in DOMAIN w => w["status"] \in Status
      BY <1>1, <1>4, <2>1 DEF IsUpdate
    <2>4. "cancelled" \in DOMAIN w => w["cancelled"] \in BOOLEAN
      BY <1>1, <1>4, <2>1 DEF IsUpdate
    <2> QED
      BY <1>1, <1>5, <1>7, <1>9, <2>2, <2>3, <2>4 DEF IsUpdate
  <1>10. DOMAIN u = JobColumns
    BY <1>4, <1>5 DEF IsRow, IsJobRow
  <1> HIDE DEF u
  <1>11. DOMAIN v # {} /\ \A x \in DOMAIN d : v[x] = d[x]
    BY <1>1, <1>2, <1>3, <1>10 DEF JobColumns
  <1>12. \A x \in JobColumns \ DOMAIN d : v[x] = u[x]
    BY <1>1, <1>2, <1>3, <1>10
  <1> QED
    BY <1>7, <1>8, <1>9, <1>11, <1>12 DEF o, r, u

LEMMA Append_eventKeeps ==
    ASSUME StoreInv, NEW s \in Session, NEW kept \in BOOLEAN, Store!Append_event(s, kept)
    PROVE  StoreInv'
  <1> DEFINE j == asked[s].id   word == asked[s].value   n == asked[s].sequence
             old == IF kept THEN Store!Loaded(s, j) ELSE Store!Seen(s, j)
             new == Store!Assigned(word)
             d == Store!Differing(new, old)
             w == Store!Over(d, written[s][j])
             more == Store!Over([i \in {n} |-> word], appended[s][j])
             row == Store!Over(new, old)
             v == Store!Over(w, rows[j])
  <1>1. /\ pc[s] = "append" /\ pc' = [pc EXCEPT ![s] = "open"]
        /\ ~Store!Taken(j, n) /\ Store!Stands(Store!Seen(s, j))
        /\ appended' = [appended EXCEPT ![s] = [appended[s] EXCEPT ![j] = more]]
        /\ loaded' = [loaded EXCEPT ![s] = [loaded[s] EXCEPT ![j] = row]]
        /\ written' = [written EXCEPT ![s] = [written[s] EXCEPT ![j] = w]]
        /\ stale' = IF old = Store!Seen(s, j) THEN stale ELSE stale \cup {j}
        /\ asked' = [asked EXCEPT ![s] = Store!NotAsked]
        /\ UNCHANGED <<rows, events, calls>>
    BY DEF Store!Append_event, Store!Return, Store!Load
  <1>2. /\ j \in Job /\ j \in Store!Entity /\ j \notin Artifact /\ word \in Status /\ n \in 1 .. StoredEvents
        /\ 1 .. n - 1 \subseteq Store!SeenEvents(s, j)
    BY <1>1, StoreConstants DEF StoreInv, StoreShapes, Store!Entity
  <1>3. /\ IsUpdate(d)
        /\ new["status"] = word /\ new["cancelled"] = (word = "cancelled")
        /\ \A x \in DOMAIN d : x \in {"status", "cancelled"} /\ d[x] = new[x]
        /\ \A x \in {"status", "cancelled"} : x \notin DOMAIN d => old[x] = new[x]
        /\ DOMAIN new = {"status", "cancelled"}
    BY <1>2, DifferingIs
  <1>4. row["status"] = word
    <2>1. Overlaid(row, new, old)
      BY OverIs
    <2> HIDE DEF row, new
    <2> QED
      BY <1>3, <2>1 DEF Overlaid
  <1>5. DOMAIN more = {n} \cup DOMAIN appended[s][j] /\ more[n] = word
        /\ \A k \in DOMAIN appended[s][j] : k # n => more[k] = appended[s][j][k]
    <2> DEFINE one == [i \in {n} |-> word]
    <2>1. Overlaid(more, one, appended[s][j])
      BY OverIs
    <2>2. DOMAIN one = {n} /\ one[n] = word
      OBVIOUS
    <2> HIDE DEF more, one
    <2> QED
      BY <2>1, <2>2 DEF Overlaid
  <1>6. DOMAIN Store!Seen(s, j) # {}
    BY <1>1, <1>2, SeenIsRow, NoColumnsIs DEF StoreInv, IsRow
  <1>7. /\ Store!SeenEvents(s, j) = 1 .. n - 1 /\ \A t \in Session : t # s => ~Holds(t, j)
        /\ n \notin DOMAIN events[j] /\ n \notin DOMAIN appended[s][j]
    BY <1>1, <1>2, NextIsFree DEF StoreInv
  <1> HIDE DEF d, new, row, more
  <1>8. /\ Store!Inserted(w) <=> Store!Inserted(written[s][j])
        /\ Store!Inserted(w) => IsRow(j, w)
        /\ ~Store!Inserted(w) => IsUpdate(w) /\ DOMAIN rows[j] # {}
        /\ DOMAIN v # {} /\ \A x \in DOMAIN d : v[x] = d[x]
        /\ \A x \in JobColumns \ DOMAIN d : v[x] = Store!Seen(s, j)[x]
    <2>1. RowsInv /\ w = Store!Over(d, written[s][j]) /\ v = Store!Over(w, rows[j])
      BY DEF StoreInv
    <2> HIDE DEF w, v, j
    <2> QED
      BY <1>2, <1>3, <1>6, <2>1, UpdateIs
  <1> HIDE DEF w, v, old, j, word, n
  <1>9. /\ written'[s][j] = w /\ appended'[s][j] = more
        /\ \A t \in Session, e \in Store!Entity : t # s \/ e # j => written'[t][e] = written[t][e]
        /\ \A t \in Session, i \in Job : t # s \/ i # j => appended'[t][i] = appended[t][i]
        /\ DOMAIN written' = Session /\ \A t \in Session : DOMAIN written'[t] = Store!Entity
        /\ DOMAIN appended' = Session /\ \A t \in Session : DOMAIN appended'[t] = Job
    BY <1>1, <1>2 DEF StoreInv, StoreShapes
  <1>10. \A t \in Session, i \in Job : DOMAIN appended[t][i] \subseteq DOMAIN appended'[t][i]
    BY <1>5, <1>9
  <1>11. StoreShapes'
    <2>1. \A t \in Session : t # s => asked'[t] = asked[t] /\ pc'[t] = pc[t]
      BY <1>1 DEF StoreInv, StoreShapes
    <2>2. /\ pc' \in [Session -> {"open", "insert", "append"}] /\ pc'[s] = "open"
          /\ DOMAIN asked' = Session /\ stale' \subseteq Job
      BY <1>1, <1>2 DEF StoreInv, StoreShapes
    <2>3. /\ DOMAIN loaded' = Session /\ \A t \in Session : DOMAIN loaded'[t] = Job
          /\ \A t \in Session, i \in Job : loaded'[t][i] = loaded[t][i] \/ loaded'[t][i] = row
      BY <1>1 DEF StoreInv, StoreShapes
    <2>4. \A t \in Session, i \in Job : Store!Stands(loaded'[t][i]) => loaded'[t][i]["status"] \in Status
      BY <1>2, <1>4, <2>3 DEF StoreInv, StoreShapes
    <2>5. \A t \in Session :
             /\ pc'[t] = "insert" => asked'[t].id \in Store!Entity /\ asked'[t].value \in Digests
             /\ pc'[t] = "append" =>
                   /\ asked'[t].id \in Job /\ asked'[t].value \in Status
                   /\ asked'[t].sequence \in 1 .. StoredEvents
                   /\ 1 .. asked'[t].sequence - 1 \subseteq
                         (DOMAIN events[asked'[t].id] \cup DOMAIN appended'[t][asked'[t].id])
      BY <1>10, <2>1, <2>2 DEF StoreInv, StoreShapes, Store!SeenEvents
    <2> QED
      BY <1>1, <1>9, <2>2, <2>3, <2>4, <2>5 DEF StoreInv, StoreShapes, Store!SeenEvents
  <1>12. RowsInv'
    <2>1. Store!Inserted(written'[s][j]) <=> Store!Inserted(written[s][j])
      BY <1>8, <1>9
    <2>2. \A t \in Session, e \in Store!Entity :
             Store!Inserted(written'[t][e]) <=> Store!Inserted(written[t][e])
      BY <1>9, <2>1
    <2>3. ASSUME NEW e \in Store!Entity, NEW t \in Session, Store!Inserted(written'[t][e])
          PROVE  IsRow(e, written'[t][e]) /\ DOMAIN rows[e] = {}
      BY <1>8, <1>9, <2>2, <2>3 DEF StoreInv, RowsInv
    <2>4. ASSUME NEW e \in Store!Entity, NEW t \in Session, ~Store!Inserted(written'[t][e])
          PROVE  /\ IsUpdate(written'[t][e])
                 /\ DOMAIN written'[t][e] # {} =>
                       e \in Job /\ DOMAIN rows[e] # {} /\ DOMAIN appended'[t][e] # {}
      <3>1. CASE t = s /\ e = j
        BY <1>2, <1>5, <1>8, <1>9, <2>4, <3>1
      <3>2. CASE t # s \/ e # j
        BY <1>9, <1>10, <2>4, <3>2 DEF StoreInv, RowsInv, Holds
      <3> QED
        BY <3>1, <3>2
    <2> QED
      BY <1>1, <2>2, <2>3, <2>4 DEF StoreInv, RowsInv, Holds
  <1>13. ChecksumsInv'
    <2>1. \A t \in Session, a \in Artifact : written'[t][a] = written[t][a]
      BY <1>2, <1>9 DEF Store!Entity
    <2> QED
      BY <1>1, <2>1 DEF StoreInv, ChecksumsInv
  <1>14. EventsInv'
    <2>1. /\ Upto(DOMAIN events[j] \cup DOMAIN more) /\ DOMAIN events[j] \cap DOMAIN more = {}
          /\ \A k \in DOMAIN more : more[k] \in Status
      <3>1. DOMAIN events[j] \cup DOMAIN more = (1 .. n - 1) \cup {n}
        BY <1>5, <1>7 DEF Store!SeenEvents
      <3>2. n \in 0 .. StoredEvents /\ (1 .. n - 1) \cup {n} = 1 .. n
        BY <1>2, StoreConstants
      <3>3. \A k \in DOMAIN appended[s][j] : appended[s][j][k] \in Status
        BY <1>2 DEF StoreInv, EventsInv
      <3>4. DOMAIN events[j] \cap DOMAIN appended[s][j] = {}
        BY <1>2 DEF StoreInv, EventsInv
      <3> QED
        BY <1>2, <1>5, <1>7, <3>1, <3>2, <3>3, <3>4 DEF Upto
    <2>2. ASSUME NEW i \in Job, NEW t \in Session
          PROVE  /\ Upto(DOMAIN events[i] \cup DOMAIN appended'[t][i])
                 /\ DOMAIN events[i] \cap DOMAIN appended'[t][i] = {}
                 /\ \A k \in DOMAIN appended'[t][i] : appended'[t][i][k] \in Status
                 /\ DOMAIN appended'[t][i] # {} => DOMAIN Store!Over(written'[t][i], rows[i]) # {}
      <3>1. CASE t = s /\ i = j
        BY <1>8, <1>9, <2>1, <3>1 DEF v
      <3>2. CASE t # s \/ i # j
        <4>1. written'[t][i] = written[t][i] /\ appended'[t][i] = appended[t][i]
          BY <1>9, <3>2 DEF Store!Entity
        <4> QED
          BY <4>1 DEF StoreInv, EventsInv, Store!SeenEvents, Store!Seen, Holds
      <3> QED
        BY <3>1, <3>2
    <2>3. ASSUME NEW i \in Job, NEW t \in Session, NEW u \in Session,
                 DOMAIN appended'[t][i] # {}, DOMAIN appended'[u][i] # {}
          PROVE  t = u
      BY <1>7, <1>9, <2>3 DEF StoreInv, EventsInv, Holds
    <2> QED
      BY <1>1, <2>2, <2>3 DEF StoreInv, EventsInv, Store!SeenEvents, Store!Seen, Holds
  <1>15. StatusInv'
    <2>1. ASSUME j \notin stale' PROVE Tells(v, more)
      <3>1. old = Store!Seen(s, j)
        BY <1>1, <2>1
      <3>2. v["status"] = word /\ v["cancelled"] = (word = "cancelled")
        BY <1>3, <1>8, <3>1 DEF JobColumns
      <3>3. \A k \in DOMAIN more : k # n => k \in 1 .. n - 1
        BY <1>5, <1>7 DEF Store!SeenEvents
      <3>4. \A k \in DOMAIN more : (\A i \in DOMAIN more : i <= k) => k = n
        BY <1>2, <1>5, <3>3
      <3> QED
        BY <1>5, <3>2, <3>4 DEF Tells
    <2>2. stale \subseteq stale'
      BY <1>1
    <2>3. ASSUME NEW i \in Job \ stale', NEW t \in Session, DOMAIN appended'[t][i] # {}
          PROVE  Tells(Store!Over(written'[t][i], rows[i]), appended'[t][i])
      <3>1. CASE t = s /\ i = j
        BY <1>9, <2>1, <2>3, <3>1 DEF v
      <3>2. CASE t # s \/ i # j
        <4>1. written'[t][i] = written[t][i] /\ appended'[t][i] = appended[t][i]
          BY <1>9, <3>2 DEF Store!Entity
        <4> QED
          BY <2>2, <2>3, <4>1 DEF StoreInv, StatusInv, Store!Seen, Holds
      <3> QED
        BY <3>1, <3>2
    <2> QED
      BY <1>1, <2>2, <2>3 DEF StoreInv, StatusInv, Holds, Store!Seen
  <1> QED
    BY <1>11, <1>12, <1>13, <1>14, <1>15 DEF StoreInv

LEMMA StoreStep == StoreInv /\ Store!Next => StoreInv'
  <1> SUFFICES ASSUME StoreInv, Store!Next PROVE StoreInv'
    OBVIOUS
  <1>1. PICK s \in Session :
            \/ Store!Rollback(s) \/ Store!Commit(s) \/ Store!Insert(s)
            \/ \E kept \in BOOLEAN : Store!Append_event(s, kept)
            \/ \E e \in Store!Entity, c \in Digests : Store!Find(s, e, c) \/ Store!Found(s, e, c)
            \/ \E j \in Job, word \in Status : Store!Count(s, j, word)
    BY DEF Store!Next
  <1> QED
    BY <1>1, RollbackKeeps, CommitKeeps, InsertKeeps, Append_eventKeeps, FindKeeps, FoundKeeps, CountKeeps

LEMMA StoreRestsStill == StoreInv /\ UNCHANGED <<pc, storeVars>> => StoreInv'
  <1> SUFFICES ASSUME StoreInv, UNCHANGED <<pc, storeVars>> PROVE StoreInv'
    OBVIOUS
  <1>1. UNCHANGED <<pc, calls, asked, loaded, rows, events, stale, written, appended>>
    BY DEF storeVars
  <1>2. StoreShapes'
    BY <1>1 DEF StoreInv, StoreShapes, Store!SeenEvents
  <1> QED
    BY <1>1, <1>2, ReadingKeeps

LEMMA StoreInvariantImplies == StoreInv => Store!RecordsAreDistinct /\ Store!StatusIsLastEvent
  <1> SUFFICES ASSUME StoreInv PROVE Store!RecordsAreDistinct /\ Store!StatusIsLastEvent
    OBVIOUS
  <1>1. ASSUME NEW e \in Store!Entity, Store!Stands(rows[e])
        PROVE  /\ DOMAIN rows[e] # {} /\ Store!Inserted(rows[e]) /\ rows[e]["checksum"] \in Digests
               /\ e \in Job => IsJobRow(rows[e])
    <2>1. IsRow(e, rows[e])
      BY DEF StoreInv, RowsInv
    <2>2. DOMAIN rows[e] # {}
      BY <1>1, <2>1, NoColumnsIs DEF IsRow
    <2> QED
      BY <2>1, <2>2, StoreConstants DEF IsRow, IsJobRow, IsArtifactRow, JobColumns, Store!Inserted
  <1>2. ASSUME NEW j \in Job
        PROVE  /\ Store!EventsOf(j) \in 0 .. StoredEvents
               /\ DOMAIN events[j] = 1 .. Store!EventsOf(j)
               /\ \A n \in DOMAIN events[j] : events[j][n] \in Status
    <2>1. PICK n \in 0 .. StoredEvents : DOMAIN events[j] = 1 .. n
      BY DEF StoreInv, EventsInv, Upto
    <2>2. n \in Int /\ 1 \in Int /\ (1 > n => n = 0)
      BY <2>1, StoreConstants
    <2>4. Cardinality(1 .. n) = IF 1 > n THEN 0 ELSE n - 1 + 1
      BY <2>2, FS_Interval
    <2>5. Cardinality(1 .. n) = n
      BY <2>2, <2>4
    <2>3. Store!EventsOf(j) = n
      BY <2>1, <2>5, CountsAlike DEF Store!EventsOf
    <2> QED
      BY <2>1, <2>3 DEF StoreInv, EventsInv
  <1>3. Store!TypeOK
    <2>1. \A j \in Job : DOMAIN events[j] \subseteq 1 .. StoredEvents
      BY <1>2, StoreConstants
    <2> QED
      BY <1>1, <1>2, <2>1 DEF StoreInv, StoreShapes, Store!TypeOK
  <1>4. ASSUME NEW j \in Job, Store!EventsOf(j) > 0 PROVE Store!Exists(j)
    <2>1. Store!EventsOf(j) \in DOMAIN events[j]
      BY <1>2, <1>4
    <2>2. DOMAIN rows[j] # {}
      BY <2>1 DEF StoreInv, EventsInv
    <2> QED
      BY <2>2, NoColumnsIs DEF Store!Exists, Store!Stands
  <1>5. ASSUME NEW a \in Artifact, NEW b \in Artifact, Store!Exists(a), Store!Exists(b), a # b
        PROVE  rows[a]["checksum"] # rows[b]["checksum"]
    BY <1>1, <1>5 DEF StoreInv, ChecksumsInv, Store!Exists, Store!Entity
  <1>6. ASSUME NEW j \in Job \ stale, Store!EventsOf(j) > 0
        PROVE  /\ rows[j]["status"] = events[j][Store!EventsOf(j)]
               /\ rows[j]["cancelled"] = (rows[j]["status"] = "cancelled")
    <2>1. /\ Store!EventsOf(j) \in DOMAIN events[j]
          /\ \A k \in DOMAIN events[j] : k <= Store!EventsOf(j)
      BY <1>2, <1>6
    <2> QED
      BY <2>1 DEF StoreInv, StatusInv, Tells
  <1> QED
    BY <1>2, <1>3, <1>4, <1>5, <1>6 DEF Store!RecordsAreDistinct, Store!StatusIsLastEvent

\* What is committed of a job, its events and an artifact stays.
LEMMA StoreKeepsHistory == StoreInv /\ Store!Next => Store!KeepsHistory
  <1> SUFFICES ASSUME StoreInv, Store!Next PROVE Store!KeepsHistory
    OBVIOUS
  <1>1. CASE UNCHANGED <<rows, events>>
    BY <1>1 DEF Store!KeepsHistory, Store!Exists
  <1>2. ASSUME NEW s \in Session, Store!Commit(s) PROVE Store!KeepsHistory
    <2>1. /\ rows' = [e \in Store!Entity |-> Store!Seen(s, e)]
          /\ events' = [j \in Job |-> Store!Over(events[j], appended[s][j])]
      BY <1>2 DEF Store!Commit
    <2>2. ASSUME NEW j \in Job PROVE Overlaid(events'[j], events[j], appended[s][j])
      BY <2>1, OverIs
    <2>3. ASSUME NEW e \in Store!Entity, Store!Exists(e)
          PROVE  Store!Stands(rows'[e]) /\ rows'[e]["checksum"] = rows[e]["checksum"]
      <3>1. DOMAIN rows[e] # {}
        BY <2>3, NoColumnsIs DEF Store!Exists, StoreInv, RowsInv, IsRow
      <3>2. DOMAIN rows'[e] # {} /\ rows'[e]["checksum"] = rows[e]["checksum"]
        BY <2>1, <3>1, SeenIsRow DEF StoreInv
      <3> QED
        BY <3>2, NoColumnsIs DEF Store!Stands
    <2> QED
      BY <2>2, <2>3 DEF Overlaid, Store!KeepsHistory
  <1>3. UNCHANGED <<rows, events>> \/ \E s \in Session : Store!Commit(s)
    <2>1. ASSUME NEW s \in Session, Store!Rollback(s) PROVE UNCHANGED <<rows, events>>
      BY <2>1 DEF Store!Rollback, Store!committed
    <2>2. ASSUME NEW s \in Session, Store!Insert(s) PROVE UNCHANGED <<rows, events>>
      BY <2>2 DEF Store!Insert, Store!committed
    <2>3. ASSUME NEW s \in Session, NEW kept \in BOOLEAN, Store!Append_event(s, kept)
          PROVE  UNCHANGED <<rows, events>>
      BY <2>3 DEF Store!Append_event
    <2>4. ASSUME NEW s \in Session, NEW e, NEW c, Store!Find(s, e, c) \/ Store!Found(s, e, c)
          PROVE  UNCHANGED <<rows, events>>
      BY <2>4 DEF Store!Find, Store!Found, Store!committed
    <2>5. ASSUME NEW s \in Session, NEW j, NEW said, Store!Count(s, j, said) PROVE UNCHANGED <<rows, events>>
      BY <2>5 DEF Store!Count, Store!committed
    <2> QED
      BY <2>1, <2>2, <2>3, <2>4, <2>5 DEF Store!Next
  <1> QED
    BY <1>1, <1>2, <1>3

-----------------------------------------------------------------------------
(* The paged downloads                                                       *)

\* An answer under check goes on from where it was asked, or is told by its number; one that
\* stays there is of a provider that may omit the cursor, or not of the first page.
PagedInv ==
    /\ cursor \in Nat /\ page \in Nat /\ completed \in Seq(Nat)
    /\ pc = "check" =>
          /\ response.next \in Nat /\ response.next >= cursor
          /\ response.next = cursor /\ response.number = page
                => cursor > 1 \/ adapter \in OmitsCursor

LEMMA PagedInit == Paged!Init => PagedInv
  BY DEF Paged!Init, PagedInv

LEMMA PagedRestsStill == PagedInv /\ UNCHANGED <<pc, pagedVars>> => PagedInv'
  BY DEF PagedInv, pagedVars

LEMMA PagedStep == PagedInv /\ Paged!Next => PagedInv'
  <1> SUFFICES ASSUME PagedInv, Paged!Next PROVE PagedInv'
    OBVIOUS
  <1>1. CASE Paged!Run
    BY <1>1 DEF PagedInv, Paged!Run
  <1>2. CASE Paged!Cancelled \/ Paged!Refuse
    BY <1>2 DEF PagedInv, Paged!Cancelled, Paged!Refuse, Paged!EndWith
  <1>3. ASSUME NEW number, NEW at, NEW next \in Nat, Paged!Answer(number, at, next), next >= cursor,
               next = cursor /\ number = page => cursor > 1 \/ adapter \in OmitsCursor
        PROVE  PagedInv'
    BY <1>3 DEF PagedInv, Paged!Answer
  <1>4. CASE Paged!Right \/ Paged!Late \/ Paged!Skipped \/ Paged!Stuck
    <2>1. cursor \in Nat /\ page \in Nat
      BY DEF PagedInv
    <2> QED
      BY <1>3, <1>4, <2>1 DEF Paged!Right, Paged!Late, Paged!Skipped, Paged!Stuck
  <1>5. CASE \E retryable \in BOOLEAN : Paged!Error(retryable)
    BY <1>5 DEF PagedInv, Paged!Error, Paged!EndWith
  <1>6. CASE Paged!Accept
    BY <1>6 DEF PagedInv, Paged!Accept, Paged!EndWith, Paged!NextCursor
  <1>7. CASE Paged!Return
    BY <1>7 DEF PagedInv, Paged!Return, Paged!local
  <1> QED
    BY <1>1, <1>2, <1>4, <1>5, <1>6, <1>7 DEF Paged!Next

LEMMA PagesAdvance ==
    ASSUME "orats" \notin OmitsCursor, PagedInv, Paged!Next PROVE Paged!PageAdvances
  <1>0. completed \in Seq(Nat) /\ Len(completed) \in Nat /\ cursor \in Nat
    BY DEF PagedInv
  <1>1. CASE Paged!Accept
    <2>1. SUFFICES ASSUME pc' # "ended" PROVE cursor' > cursor
      BY DEF Paged!PageAdvances
    <2>2. cursor' = response.next /\ ~Paged!Stalled /\ pc = "check" /\ Paged!Code = "none"
      BY <1>1, <2>1 DEF Paged!Accept, Paged!EndWith, Paged!NextCursor
    <2>3. response.number = page
      BY <2>2 DEF Paged!Code, Paged!OutOfOrder
    <2>4. response.next # cursor
      BY <2>2, <2>3 DEF PagedInv, Paged!Stalled
    <2> QED
      BY <2>2, <2>4 DEF PagedInv
  <1>2. CASE UNCHANGED completed
    BY <1>0, <1>2 DEF Paged!PageAdvances
  <1>3. CASE Paged!Run
    BY <1>0, <1>3 DEF Paged!Run, Paged!PageAdvances
  <1> QED
    BY <1>1, <1>2, <1>3
    DEF Paged!Next, Paged!Cancelled, Paged!Refuse, Paged!Right, Paged!Late, Paged!Skipped, Paged!Stuck,
        Paged!Answer, Paged!Error, Paged!Return, Paged!local

-----------------------------------------------------------------------------
(* What the paged downloads hold                                             *)

\* A set of natural numbers that is not empty has a first member.
LEMMA FirstOf ==
    ASSUME NEW T, T \subseteq Nat, T # {}
    PROVE  \E x \in T : \A y \in T : x <= y
  <1> DEFINE Less == {ss \in Nat \X Nat : ss[1] < ss[2]}
  <1>1. IsWellFoundedOn(Less, Nat)
    BY NatLessThanWellFounded DEF OpToRel
  <1>2. \A x, y \in T : (y < x => <<y, x>> \in Less) /\ x \in Int /\ y \in Int
    OBVIOUS
  <1> HIDE DEF Less
  <1>3. \E x \in T : \A y \in T : ~ (<<y, x>> \in Less)
    BY <1>1, WFMin, Zenon
  <1>4. PICK x \in T : \A y \in T : ~ (<<y, x>> \in Less)
    BY <1>3
  <1>5. ASSUME NEW y \in T PROVE x <= y
    <2>1. x \in Int /\ y \in Int /\ ~(y < x)
      BY <1>2, <1>4
    <2> QED
      BY <2>1
  <1> QED
    BY <1>5

LEMMA PagedConstants ==
    /\ PageContent \in Seq(Seq(Paged!Row)) /\ Paged!Pages \in Nat /\ Paged!Pages > 0 /\ Bad \subseteq Paged!Row
    /\ Sequence \in [Paged!Row -> Nat] /\ Attempts \in Nat /\ Attempts > 0 /\ MaxFaults \in Nat /\ MaxRuns \in Nat
  BY StorageConstants DEF StorageConstants, Paged!ConstantsType, Paged!Pages

\* Rows taken and refused, none twice and none that the normalizer rejects.
Takings == [rows : Seq(Paged!Row), refused : SUBSET Paged!Row, last : Nat]
OnceEach(rs) ==
    /\ \A i, j \in 1 .. Len(rs) : rs[i] = rs[j] => i = j
    /\ \A i \in 1 .. Len(rs) : rs[i] \notin Bad
Held(state) == Paged!ToSet(state.rows) \cup state.refused

LEMMA MembersOfOneMore ==
    ASSUME NEW S, NEW s \in Seq(S), NEW x \in S
    PROVE  Paged!ToSet(Append(s, x)) = Paged!ToSet(s) \cup {x}
  <1> DEFINE t == Append(s, x)
  <1>1. /\ Len(s) \in Nat /\ DOMAIN s = 1 .. Len(s) /\ DOMAIN t = 1 .. Len(s) + 1
        /\ \A i \in 1 .. Len(s) : t[i] = s[i]
        /\ t[Len(s) + 1] = x
    OBVIOUS
  <1> HIDE DEF t
  <1>2. \A y \in Paged!ToSet(t) : y \in Paged!ToSet(s) \cup {x}
    BY <1>1 DEF Paged!ToSet
  <1>3. \A y \in Paged!ToSet(s) : y \in Paged!ToSet(t)
    BY <1>1 DEF Paged!ToSet
  <1>4. x \in Paged!ToSet(t)
    <2>1. Len(s) + 1 \in DOMAIN t
      BY <1>1
    <2> QED
      BY <1>1, <2>1 DEF Paged!ToSet
  <1>5. Paged!ToSet(t) = Paged!ToSet(s) \cup {x}
    BY <1>2, <1>3, <1>4
  <1> QED
    BY <1>5 DEF t

LEMMA MembersOfBoth ==
    ASSUME NEW S, NEW s \in Seq(S), NEW t \in Seq(S)
    PROVE  Paged!ToSet(s \o t) = Paged!ToSet(s) \cup Paged!ToSet(t)
  <1> DEFINE u == s \o t
  <1>1. /\ Len(s) \in Nat /\ Len(t) \in Nat /\ DOMAIN s = 1 .. Len(s) /\ DOMAIN t = 1 .. Len(t)
        /\ DOMAIN u = 1 .. Len(s) + Len(t)
        /\ \A i \in 1 .. Len(s) : u[i] = s[i]
        /\ \A i \in 1 .. Len(t) : u[Len(s) + i] = t[i]
    OBVIOUS
  <1> HIDE DEF u
  <1>2. ASSUME NEW i \in DOMAIN u PROVE u[i] \in Paged!ToSet(s) \cup Paged!ToSet(t)
    <2>1. CASE i \in 1 .. Len(s)
      BY <1>1, <2>1 DEF Paged!ToSet
    <2>2. CASE i \notin 1 .. Len(s)
      <3>1. i - Len(s) \in 1 .. Len(t) /\ Len(s) + (i - Len(s)) = i
        BY <1>1, <2>2
      <3> QED
        BY <1>1, <3>1 DEF Paged!ToSet
    <2> QED
      BY <2>1, <2>2
  <1>3. \A i \in DOMAIN s : s[i] \in Paged!ToSet(u)
    BY <1>1 DEF Paged!ToSet
  <1>4. ASSUME NEW i \in DOMAIN t PROVE t[i] \in Paged!ToSet(u)
    <2>1. Len(s) + i \in DOMAIN u /\ u[Len(s) + i] = t[i]
      BY <1>1
    <2> QED
      BY <2>1 DEF Paged!ToSet
  <1>5. Paged!ToSet(u) = Paged!ToSet(s) \cup Paged!ToSet(t)
    BY <1>2, <1>3, <1>4 DEF Paged!ToSet
  <1> QED
    BY <1>5 DEF u

\* A row is taken, refused, or held already.
LEMMA TakeHolds ==
    ASSUME NEW state \in Takings, NEW row \in Paged!Row, OnceEach(state.rows)
    PROVE  /\ Paged!Take(state, row) \in Takings
           /\ OnceEach(Paged!Take(state, row).rows)
           /\ Held(Paged!Take(state, row)) = Held(state) \cup {row}
  <1> DEFINE refused == [state EXCEPT !.refused = @ \cup {row}]
             again == [state EXCEPT !.last = Sequence[row]]
             taken == [state EXCEPT !.rows = Append(@, row), !.last = Sequence[row]]
  <1>1. /\ state.rows \in Seq(Paged!Row) /\ state.refused \subseteq Paged!Row /\ state.last \in Nat
        /\ Sequence[row] \in Nat
    BY PagedConstants DEF Takings
  <1>2. refused \in Takings /\ refused.rows = state.rows /\ refused.refused = state.refused \cup {row}
    BY <1>1 DEF Takings
  <1>3. again \in Takings /\ again.rows = state.rows /\ again.refused = state.refused
    BY <1>1 DEF Takings
  <1>4. taken \in Takings /\ taken.rows = Append(state.rows, row) /\ taken.refused = state.refused
    <2> DEFINE after(t, n) == [state EXCEPT !.rows = t, !.last = n]
    <2>1. ASSUME NEW t \in Seq(Paged!Row), NEW n \in Nat
          PROVE  after(t, n) \in Takings /\ after(t, n).rows = t /\ after(t, n).refused = state.refused
      BY <1>1 DEF Takings
    <2>2. Append(state.rows, row) \in Seq(Paged!Row) /\ taken = after(Append(state.rows, row), Sequence[row])
      BY <1>1
    <2> HIDE DEF after, taken
    <2> QED
      BY <1>1, <2>1, <2>2
  <1>5. \/ Paged!Take(state, row) = refused
        \/ Paged!Take(state, row) = again /\ row \in Paged!ToSet(state.rows)
        \/ Paged!Take(state, row) = taken /\ row \notin Paged!ToSet(state.rows) /\ row \notin Bad
    BY DEF Paged!Take, Paged!IsDuplicate
  <1> HIDE DEF refused, again, taken
  <1>6. CASE Paged!Take(state, row) = refused
    BY <1>2, <1>6 DEF Held
  <1>7. CASE Paged!Take(state, row) = again /\ row \in Paged!ToSet(state.rows)
    BY <1>3, <1>7 DEF Held
  <1>8. CASE Paged!Take(state, row) = taken /\ row \notin Paged!ToSet(state.rows) /\ row \notin Bad
    <2>1. Held(taken) = Held(state) \cup {row}
      BY <1>1, <1>4, MembersOfOneMore DEF Held
    <2>2. OnceEach(Append(state.rows, row))
      <3> DEFINE rs == state.rows
      <3>1. \A i \in 1 .. Len(rs) : rs[i] # row
        BY <1>1, <1>8 DEF Paged!ToSet
      <3>2. rs \in Seq(Paged!Row) /\ OnceEach(rs) /\ row \notin Bad
        BY <1>1, <1>8
      <3> HIDE DEF rs
      <3>3. OnceEach(Append(rs, row))
        BY <3>1, <3>2 DEF OnceEach
      <3> QED
        BY <3>3 DEF rs
    <2> QED
      BY <1>4, <1>8, <2>1, <2>2
  <1> QED
    BY <1>5, <1>6, <1>7, <1>8

\* Every page has the states its rs lead to, one after another.
Takes(f, begin, content, n) ==
    f = [i \in 0 .. n |-> IF i = 0 THEN begin ELSE Paged!Take(f[i - 1], content[i])]

LEMMA TakesAt ==
    ASSUME NEW f, NEW begin, NEW content, NEW n \in Nat, Takes(f, begin, content, n)
    PROVE  f[0] = begin /\ \A i \in 1 .. n : f[i] = Paged!Take(f[i - 1], content[i])
  <1> DEFINE D == 0 .. n
  <1>1. f = [i \in D |-> IF i = 0 THEN begin ELSE Paged!Take(f[i - 1], content[i])]
    BY DEF Takes
  <1>2. 0 \in D /\ \A i \in 1 .. n : i \in D /\ i # 0
    OBVIOUS
  <1> HIDE DEF D
  <1> QED
    BY <1>1, <1>2

LEMMA TakesExist ==
    ASSUME NEW begin, NEW content, NEW n \in Nat
    PROVE  \E f : Takes(f, begin, content, n)
  <1> DEFINE Missed == {m \in Nat : ~\E f : Takes(f, begin, content, m)}
  <1> SUFFICES ASSUME Missed # {} PROVE FALSE
    OBVIOUS
  <1>1. PICK m \in Missed : \A k \in Missed : m <= k
    <2>1. Missed \subseteq Nat /\ Missed # {}
      OBVIOUS
    <2> HIDE DEF Missed
    <2> QED
      BY <2>1, FirstOf
  <1>2. m \in Nat /\ ~\E f : Takes(f, begin, content, m)
    BY <1>1
  <1>3. CASE m = 0
    <2> DEFINE f == [i \in 0 .. 0 |-> begin]
    <2>1. f = [i \in 0 .. 0 |-> IF i = 0 THEN begin ELSE Paged!Take(f[i - 1], content[i])]
      OBVIOUS
    <2> HIDE DEF f
    <2>2. Takes(f, begin, content, m)
      BY <1>3, <2>1 DEF Takes
    <2> QED
      BY <1>2, <2>2
  <1>4. CASE m # 0
    <2>1. m - 1 \in Nat /\ ~(m <= m - 1)
      BY <1>2, <1>4
    <2>2. PICK f : Takes(f, begin, content, m - 1)
      BY <1>1, <2>1
    <2>3. f[0] = begin /\ \A i \in 1 .. m - 1 : f[i] = Paged!Take(f[i - 1], content[i])
      BY <2>1, <2>2, TakesAt
    <2> DEFINE g == [i \in 0 .. m |-> IF i = m THEN Paged!Take(f[m - 1], content[m]) ELSE f[i]]
    <2>4. \A i \in 0 .. m : g[i] = IF i = 0 THEN begin ELSE Paged!Take(g[i - 1], content[i])
      <3>1. TAKE i \in 0 .. m
      <3>2. CASE i = 0
        BY <1>2, <1>4, <2>3, <3>2
      <3>3. CASE i # 0 /\ i # m
        <4>1. i \in 1 .. m - 1 /\ i - 1 \in 0 .. m /\ i - 1 # m
          BY <1>2, <3>3
        <4>2. g[i] = f[i] /\ g[i - 1] = f[i - 1]
          BY <3>3, <4>1
        <4> QED
          BY <2>3, <3>3, <4>1, <4>2
      <3>4. CASE i = m
        <4>1. m - 1 \in 0 .. m /\ m - 1 # m /\ m \in 0 .. m
          BY <1>2, <1>4
        <4>2. g[m] = Paged!Take(f[m - 1], content[m]) /\ g[m - 1] = f[m - 1]
          BY <4>1
        <4> QED
          BY <1>4, <3>4, <4>2
      <3> QED
        BY <3>2, <3>3, <3>4
    <2>5. g = [i \in 0 .. m |-> g[i]]
      OBVIOUS
    <2> HIDE DEF g
    <2>6. Takes(g, begin, content, m)
      BY <2>4, <2>5 DEF Takes
    <2> QED
      BY <1>2, <2>6
  <1> QED
    BY <1>3, <1>4

\* What becomes of the rows of a page: each is held, once.
LEMMA ConsumeHolds ==
    ASSUME NEW rs \in Seq(Paged!Row), NEW refused \in SUBSET Paged!Row, NEW before \in Nat,
           NEW content \in Seq(Paged!Row), adapter # "fixture", OnceEach(rs)
    PROVE  /\ Paged!Consume(rs, refused, before, content) \in Takings
           /\ OnceEach(Paged!Consume(rs, refused, before, content).rows)
           /\ Held(Paged!Consume(rs, refused, before, content))
                = Paged!ToSet(rs) \cup refused \cup Paged!ToSet(content)
  <1> DEFINE begin == [rows |-> rs, refused |-> refused, last |-> before]
             n == Len(content)
             after == CHOOSE f : Takes(f, begin, content, n)
             Rows(k) == {content[i] : i \in 1 .. k}
             Sound(k) == /\ after[k] \in Takings /\ OnceEach(after[k].rows)
                         /\ Held(after[k]) = Paged!ToSet(rs) \cup refused \cup Rows(k)
             Unsound == {k \in 0 .. n : ~Sound(k)}
  <1>1. n \in Nat /\ DOMAIN content = 1 .. n /\ \A i \in 1 .. n : content[i] \in Paged!Row
    OBVIOUS
  <1>2. Paged!Consume(rs, refused, before, content) = after[n]
    BY DEF Paged!Consume, Takes
  <1>3. begin \in Takings /\ begin.rows = rs /\ begin.refused = refused
    BY DEF Takings
  <1> HIDE DEF begin, n
  <1>4. Takes(after, begin, content, n)
    BY <1>1, TakesExist
  <1> HIDE DEF after
  <1>5. after[0] = begin /\ \A i \in 1 .. n : after[i] = Paged!Take(after[i - 1], content[i])
    BY <1>1, <1>4, TakesAt
  <1>6. Unsound = {}
    <2> SUFFICES ASSUME Unsound # {} PROVE FALSE
      OBVIOUS
    <2>1. PICK k \in Unsound : \A j \in Unsound : k <= j
      <3>1. Unsound \subseteq Nat /\ Unsound # {}
        BY <1>1
      <3> HIDE DEF Unsound
      <3> QED
        BY <3>1, FirstOf
    <2>2. k \in 0 .. n /\ ~Sound(k)
      BY <2>1
    <2>3. CASE k = 0
      <3>1. Rows(0) = {}
        OBVIOUS
      <3>2. Sound(0)
        BY <1>3, <1>5, <3>1 DEF Held
      <3> QED
        BY <2>2, <2>3, <3>2
    <2>4. CASE k # 0
      <3>1. k \in 1 .. n /\ k - 1 \in 0 .. n /\ ~(k <= k - 1)
        BY <1>1, <2>2, <2>4
      <3>2. Sound(k - 1)
        BY <2>1, <3>1
      <3>3. after[k] = Paged!Take(after[k - 1], content[k]) /\ content[k] \in Paged!Row
        BY <1>1, <1>5, <3>1
      <3>4. Rows(k) = Rows(k - 1) \cup {content[k]}
        <4>1. \A i : i \in 1 .. k <=> i \in 1 .. k - 1 \/ i = k
          BY <1>1, <3>1
        <4> QED
          BY <4>1
      <3> HIDE DEF Rows
      <3>5. Sound(k)
        <4>1. /\ after[k] \in Takings /\ OnceEach(after[k].rows)
              /\ Held(after[k]) = Held(after[k - 1]) \cup {content[k]}
          BY <3>2, <3>3, TakeHolds
        <4>2. Held(after[k]) = Paged!ToSet(rs) \cup refused \cup Rows(k)
          BY <3>2, <3>4, <4>1
        <4> QED
          BY <4>1, <4>2
      <3> QED
        BY <2>2, <3>5
    <2> QED
      BY <2>3, <2>4
  <1>7. Sound(n) /\ Rows(n) = Paged!ToSet(content)
    BY <1>1, <1>6 DEF Paged!ToSet
  <1> QED
    BY <1>2, <1>7

\* The rows of the pages from one to another.
LEMMA PagesBetween ==
    /\ \A i, j \in Int : j < i => Paged!FromPages(i .. j) = {}
    /\ \A i, j \in Int : i <= j + 1 =>
           Paged!FromPages(i .. j + 1) = Paged!FromPages(i .. j) \cup Paged!ToSet(PageContent[j + 1])
    /\ \A i, j \in Nat : Paged!FromPages(1 .. j) \subseteq Paged!FromPages(1 .. i - 1) \cup Paged!FromPages(i .. j)
    /\ \A i, j, k \in Nat : j <= k => Paged!FromPages(i .. j) \subseteq Paged!FromPages(i .. k)
    /\ Paged!FromPages(1 .. Paged!Pages) = Paged!Row
    /\ \A p \in 1 .. Paged!Pages : PageContent[p] \in Seq(Paged!Row)
  <1>1. \A i, j \in Int : j < i => i .. j = {}
    OBVIOUS
  <1>2. ASSUME NEW i \in Int, NEW j \in Int, i <= j + 1
        PROVE  i .. j + 1 = (i .. j) \cup {j + 1}
    BY <1>2
  <1>3. ASSUME NEW i \in Nat, NEW j \in Nat, NEW p \in 1 .. j
        PROVE  p \in 1 .. i - 1 \/ p \in i .. j
    BY <1>3
  <1>4. \A i, j, k \in Nat : j <= k => i .. j \subseteq i .. k
    OBVIOUS
  <1>5. \A S, T : S \subseteq T => Paged!FromPages(S) \subseteq Paged!FromPages(T)
    BY DEF Paged!FromPages
  <1>6. \A S, p : Paged!FromPages(S \cup {p}) = Paged!FromPages(S) \cup Paged!ToSet(PageContent[p])
    BY DEF Paged!FromPages
  <1>7. \A S, T, U : (\A p \in S : p \in T \/ p \in U)
                        => Paged!FromPages(S) \subseteq Paged!FromPages(T) \cup Paged!FromPages(U)
    BY DEF Paged!FromPages
  <1>8. Paged!FromPages({}) = {}
    BY DEF Paged!FromPages
  <1>9. \A p \in 1 .. Paged!Pages : PageContent[p] \in Seq(Paged!Row)
    <2> DEFINE R == Seq(Paged!Row)
    <2>1. PageContent \in Seq(R) /\ Len(PageContent) = Paged!Pages
      BY PagedConstants DEF Paged!Pages
    <2> HIDE DEF R
    <2>2. \A p \in 1 .. Paged!Pages : PageContent[p] \in R
      BY <2>1
    <2> QED
      BY <2>2 DEF R
  <1>10. Paged!FromPages(1 .. Paged!Pages) = Paged!Row
    BY DEF Paged!FromPages, Paged!Row
  <1>11. \A i, j \in Int : j < i => Paged!FromPages(i .. j) = {}
    BY <1>1, <1>8
  <1>12. \A i, j \in Int : i <= j + 1 =>
             Paged!FromPages(i .. j + 1) = Paged!FromPages(i .. j) \cup Paged!ToSet(PageContent[j + 1])
    BY <1>2, <1>6
  <1>13. \A i, j \in Nat : Paged!FromPages(1 .. j) \subseteq Paged!FromPages(1 .. i - 1) \cup Paged!FromPages(i .. j)
    BY <1>3, <1>7
  <1>14. \A i, j, k \in Nat : j <= k => Paged!FromPages(i .. j) \subseteq Paged!FromPages(i .. k)
    BY <1>4, <1>5
  <1> QED
    BY <1>9, <1>10, <1>11, <1>12, <1>13, <1>14

\* Where a run is: its cursor is the page it asks for, counted from its start; the number of an
\* answer is right only for the page asked for; and it ends without a failure at the last one.
PlaceInv ==
    /\ cursor = start + page - 1 /\ Len(completed) \in {page - 1, page}
    /\ pc \in {"request", "check"} => Len(completed) = page - 1 /\ failures = <<>>
    /\ pc = "ended" \/ (pc = "idle" /\ run > 0) =>
           (failures = <<>> => start + Len(completed) - 1 = Paged!Pages)
    /\ adapter = "fixture" => start = 1
    /\ pc = "check" /\ response.number = page =>
           /\ response.at = cursor
           /\ \/ response.next = cursor + 1
              \/ response.next = cursor /\ (cursor > 1 \/ adapter \in OmitsCursor)
\* What it holds: each row of the pages completed, once; and its caller all before its cursor.
RowsHeldInv ==
    /\ adapter # "fixture" => OnceEach(records)
    /\ Paged!PagesAreWhole
    /\ adapter # "fixture" => Paged!FromPages(1 .. (IF pc = "idle" THEN cursor ELSE start) - 1) \subseteq merged
    /\ pc = "idle" /\ run > 0 /\ failures = <<>> => merged = Paged!Row
ImportInv == Paged!TypeOK /\ adapter \in Adapter /\ PlaceInv /\ RowsHeldInv

LEMMA ImportInvariantImplies ==
    ImportInv => Paged!NoRowTwice /\ Paged!PagesAreWhole /\ Paged!NothingMissing
  <1> SUFFICES ASSUME ImportInv PROVE Paged!NoRowTwice /\ Paged!NothingMissing
    BY DEF ImportInv, RowsHeldInv
  <1>1. records \in Seq(Paged!Row) /\ DOMAIN records = 1 .. Len(records)
    BY DEF ImportInv, Paged!TypeOK
  <1>2. adapter # "fixture" => Paged!IsInjective(records) /\ Paged!ToSet(records) \cap Bad = {}
    BY <1>1 DEF ImportInv, RowsHeldInv, OnceEach, Paged!IsInjective, Paged!ToSet
  <1>3. Paged!NothingMissing
    BY DEF ImportInv, RowsHeldInv, Paged!NothingMissing, Paged!Clean
  <1> QED
    BY <1>2, <1>3 DEF ImportInv, Paged!NoRowTwice

LEMMA ImportInit == Paged!Init => ImportInv
  <1> SUFFICES ASSUME Paged!Init PROVE ImportInv
    OBVIOUS
  <1>1. Paged!TypeOK /\ adapter \in Adapter
    BY PagedConstants DEF Paged!Init, Paged!TypeOK, Paged!NoResponse
  <1>2. PlaceInv
    BY DEF Paged!Init, PlaceInv
  <1>3. RowsHeldInv
    <2>1. Paged!FromPages(1 .. 0) = {}
      BY PagesBetween
    <2>2. Paged!ToSet(<<>>) = {} /\ OnceEach(<<>>)
      BY DEF Paged!ToSet, OnceEach
    <2> QED
      BY <2>1, <2>2 DEF Paged!Init, RowsHeldInv, Paged!PagesAreWhole
  <1> QED
    BY <1>1, <1>2, <1>3 DEF ImportInv

LEMMA ImportRestsStill == ImportInv /\ UNCHANGED <<pc, pagedVars>> => ImportInv'
  BY DEF ImportInv, PlaceInv, RowsHeldInv, Paged!TypeOK, Paged!PagesAreWhole, Paged!FromPages, pagedVars

LEMMA ImportRun == ImportInv /\ Paged!Run => ImportInv'
  <1> SUFFICES ASSUME ImportInv, Paged!Run PROVE ImportInv'
    OBVIOUS
  <1>0. Paged!Pages \in Nat /\ cursor \in 1 .. Paged!Pages /\ 1 \in 1 .. Paged!Pages
    BY PagedConstants DEF ImportInv, Paged!TypeOK
  <1>1. Paged!TypeOK' /\ adapter' \in Adapter
    BY PagedConstants DEF ImportInv, Paged!TypeOK, Paged!Run, Paged!NoResponse
  <1>2. PlaceInv'
    BY <1>0 DEF Paged!Run, PlaceInv
  <1>3. RowsHeldInv'
    <2>1. Paged!FromPages(start' .. start' + 0 - 1) = {}
      BY <1>0, PagesBetween DEF Paged!Run
    <2>2. Paged!ToSet(<<>>) = {} /\ OnceEach(<<>>)
      BY DEF Paged!ToSet, OnceEach
    <2>3. (Paged!PagesAreWhole)'
      BY <2>1, <2>2 DEF Paged!Run, Paged!PagesAreWhole, Paged!FromPages
    <2>4. adapter # "fixture" => Paged!FromPages(1 .. start' - 1) \subseteq merged
      BY DEF ImportInv, RowsHeldInv, Paged!Run
    <2>5. /\ OnceEach(records') /\ pc' = "request" /\ UNCHANGED <<adapter, merged>>
      BY <2>2 DEF Paged!Run
    <2> QED
      BY <2>3, <2>4, <2>5 DEF RowsHeldInv, Paged!FromPages
  <1> QED
    BY <1>1, <1>2, <1>3 DEF ImportInv

\* What a run holds stays while only its answer, its attempts or its failures change.
LEMMA HeldStays ==
    ASSUME ImportInv, pc # "idle", pc' # "idle",
           UNCHANGED <<adapter, run, start, cursor, page, records, quarantine, completed, merged>>
    PROVE  RowsHeldInv'
  BY DEF ImportInv, RowsHeldInv, Paged!PagesAreWhole, Paged!FromPages

\* A run is cut short: cancelled, given up, or with an answer it refuses.
LEMMA ImportCut ==
    ASSUME ImportInv, NEW code \in {"cancelled", "transport_failure", "missing_batch", "duplicate_batch"},
           pc \in {"request", "check"}, Paged!EndWith(code), faults' \in 0 .. MaxFaults,
           UNCHANGED <<adapter, run, start, cursor, page, attempt, response, seen, records, quarantine,
                       completed, merged>>
    PROVE  ImportInv'
  <1>1. failures' = Append(failures, code) /\ pc' = "ended"
    BY DEF Paged!EndWith
  <1>2. Paged!TypeOK' /\ adapter' \in Adapter /\ failures' # <<>>
    <2> DEFINE Codes == {"cancelled", "transport_failure", "missing_batch", "duplicate_batch",
                         "stalled_continuation"}
    <2>1. code \in Codes
      OBVIOUS
    <2>2. failures \in Seq(Codes)
      BY DEF ImportInv, Paged!TypeOK
    <2> HIDE DEF Codes
    <2>3. failures' \in Seq(Codes) /\ failures' # <<>>
      BY <1>1, <2>1, <2>2
    <2> USE DEF Codes
    <2>4. /\ UNCHANGED <<adapter, run, start, cursor, page, attempt, response, records, quarantine, completed,
                         merged>>
          /\ adapter \in Adapter /\ Paged!TypeOK
      BY DEF ImportInv
    <2> QED
      BY <1>1, <2>3, <2>4 DEF Paged!TypeOK
  <1>3. PlaceInv'
    BY <1>1, <1>2 DEF ImportInv, PlaceInv
  <1>4. RowsHeldInv'
    BY <1>1, HeldStays
  <1> QED
    BY <1>2, <1>3, <1>4 DEF ImportInv

LEMMA ImportAnswered ==
    ASSUME ImportInv, NEW number, NEW at, NEW next, Paged!Answer(number, at, next), faults' \in 0 .. MaxFaults,
           number \in 0 .. Paged!Pages + 1, at \in 1 .. Paged!Pages, next \in 1 .. Paged!Pages + 2,
           number = page => /\ at = cursor
                            /\ \/ next = cursor + 1
                               \/ next = cursor /\ (cursor > 1 \/ adapter \in OmitsCursor)
    PROVE  ImportInv'
  <1>1. /\ pc = "request" /\ pc' = "check" /\ response' = [number |-> number, at |-> at, next |-> next]
        /\ UNCHANGED <<adapter, run, start, cursor, page, attempt, seen, records, quarantine, failures,
                       completed, merged>>
    BY DEF Paged!Answer
  <1>2. response'.number = number /\ response'.at = at /\ response'.next = next
        /\ response' \in [number : 0 .. Paged!Pages + 1, at : 1 .. Paged!Pages, next : 1 .. Paged!Pages + 2]
    BY <1>1
  <1>3. Paged!TypeOK' /\ adapter' \in Adapter
    BY <1>1, <1>2 DEF ImportInv, Paged!TypeOK
  <1>4. PlaceInv'
    BY <1>1, <1>2 DEF ImportInv, PlaceInv
  <1>5. RowsHeldInv'
    BY <1>1, HeldStays
  <1> QED
    BY <1>3, <1>4, <1>5 DEF ImportInv

LEMMA ImportTransport ==
    ASSUME ImportInv, Paged!Right \/ Paged!Late \/ Paged!Skipped \/ Paged!Stuck PROVE ImportInv'
  <1>1. /\ Paged!Pages \in Nat /\ start \in 1 .. Paged!Pages /\ page \in 1 .. Paged!Pages
        /\ cursor \in 1 .. Paged!Pages /\ faults \in 0 .. MaxFaults /\ cursor = start + page - 1
        /\ MaxFaults \in Nat
    BY PagedConstants DEF ImportInv, Paged!TypeOK, PlaceInv
  <1>2. Paged!Fault => faults' \in 0 .. MaxFaults
    BY <1>1 DEF Paged!Fault
  <1>3. CASE Paged!Right
    <2>1. Paged!Answer(page, cursor, cursor + 1) /\ faults' \in 0 .. MaxFaults
      BY <1>1, <1>3 DEF Paged!Right
    <2>2. page \in 0 .. Paged!Pages + 1 /\ cursor + 1 \in 1 .. Paged!Pages + 2
      BY <1>1
    <2> QED
      BY <1>1, <2>1, <2>2, ImportAnswered
  <1>4. CASE Paged!Late
    <2>1. Paged!Answer(page - 1, cursor - 1, cursor) /\ faults' \in 0 .. MaxFaults /\ cursor > start
      BY <1>2, <1>4 DEF Paged!Late
    <2>2. /\ page - 1 \in 0 .. Paged!Pages + 1 /\ cursor - 1 \in 1 .. Paged!Pages
          /\ cursor \in 1 .. Paged!Pages + 2 /\ page - 1 # page
      BY <1>1, <2>1
    <2> QED
      BY <2>1, <2>2, ImportAnswered
  <1>5. CASE Paged!Skipped
    <2>1. Paged!Answer(page + 1, cursor + 1, cursor + 2) /\ faults' \in 0 .. MaxFaults /\ cursor < Paged!Pages
      BY <1>2, <1>5 DEF Paged!Skipped
    <2>2. /\ page + 1 \in 0 .. Paged!Pages + 1 /\ cursor + 1 \in 1 .. Paged!Pages
          /\ cursor + 2 \in 1 .. Paged!Pages + 2 /\ page + 1 # page
      BY <1>1, <2>1
    <2> QED
      BY <2>1, <2>2, ImportAnswered
  <1>6. CASE Paged!Stuck
    <2>1. /\ Paged!Answer(page, cursor, cursor) /\ faults' \in 0 .. MaxFaults
          /\ cursor > 1 \/ adapter \in OmitsCursor
      BY <1>2, <1>6 DEF Paged!Stuck
    <2>2. page \in 0 .. Paged!Pages + 1 /\ cursor \in 1 .. Paged!Pages + 2
      BY <1>1
    <2> QED
      BY <1>1, <2>1, <2>2, ImportAnswered
  <1> QED
    BY <1>3, <1>4, <1>5, <1>6

LEMMA ImportErrs ==
    ASSUME ImportInv, NEW retryable \in BOOLEAN, Paged!Error(retryable) PROVE ImportInv'
  <1>1. /\ pc = "request" /\ faults' \in 0 .. MaxFaults
        /\ UNCHANGED <<adapter, run, start, cursor, page, response, seen, records, quarantine, completed, merged>>
    BY PagedConstants DEF Paged!Error, Paged!Fault, ImportInv, Paged!TypeOK
  <1>2. CASE retryable /\ Paged!AttemptsLeft
    <2>1. attempt' = attempt + 1 /\ UNCHANGED <<pc, failures>> /\ attempt + 1 < Attempts
      BY <1>2 DEF Paged!Error, Paged!AttemptsLeft
    <2>2. Paged!TypeOK' /\ adapter' \in Adapter
      BY <1>1, <2>1, PagedConstants DEF ImportInv, Paged!TypeOK
    <2>3. PlaceInv'
      BY <1>1, <2>1 DEF ImportInv, PlaceInv
    <2>4. RowsHeldInv'
      BY <1>1, <2>1, HeldStays
    <2> QED
      BY <2>2, <2>3, <2>4 DEF ImportInv
  <1>3. CASE ~(retryable /\ Paged!AttemptsLeft)
    <2>1. Paged!EndWith("transport_failure") /\ UNCHANGED attempt
      BY <1>3 DEF Paged!Error
    <2> QED
      BY <1>1, <2>1, ImportCut
  <1> QED
    BY <1>2, <1>3

\* A page accepted is the one asked for: its rows are held with those of the pages before it.
LEMMA AcceptedPage ==
    ASSUME ImportInv, Paged!Accept
    PROVE  /\ pc = "check" /\ response.number = page /\ response.at = cursor
           /\ completed' = Append(completed, page) /\ completed' \in Seq(1 .. Paged!Pages)
           /\ Len(completed') = page
           /\ UNCHANGED <<adapter, run, start, response, merged, faults>>
           /\ records' \in Seq(Paged!Row) /\ quarantine' \subseteq Paged!Row
           /\ adapter # "fixture" => OnceEach(records')
           /\ Paged!ToSet(records') \cup quarantine' = Paged!FromPages(start .. start + page - 1)
  <1> DEFINE content == PageContent[cursor]
             c == Paged!Consume(records, quarantine, Paged!LastSequence(records), content)
  <1>1. pc = "check" /\ response.number = page /\ UNCHANGED <<adapter, run, start, response, merged, faults>>
    BY DEF Paged!Accept, Paged!Code, Paged!OutOfOrder
  <1>2. response.at = cursor
    BY <1>1 DEF ImportInv, PlaceInv
  <1>3. records' = c.rows /\ quarantine' = c.refused /\ completed' = Append(completed, page)
    BY <1>2 DEF Paged!Accept
  <1>4. /\ records \in Seq(Paged!Row) /\ quarantine \in SUBSET Paged!Row /\ cursor \in 1 .. Paged!Pages
        /\ completed \in Seq(1 .. Paged!Pages) /\ page \in 1 .. Paged!Pages /\ start \in 1 .. Paged!Pages
        /\ Len(completed) = page - 1 /\ cursor = start + page - 1
        /\ Paged!ToSet(records) \cup quarantine = Paged!FromPages(start .. start + Len(completed) - 1)
        /\ adapter # "fixture" => OnceEach(records)
    BY <1>1 DEF ImportInv, Paged!TypeOK, PlaceInv, RowsHeldInv, Paged!PagesAreWhole
  <1>5. completed' \in Seq(1 .. Paged!Pages) /\ Len(completed') = page
    BY <1>3, <1>4, PagedConstants
  <1>6. content \in Seq(Paged!Row)
    BY <1>4, PagesBetween
  <1>7. Paged!LastSequence(records) \in Nat
    <2>1. records # <<>> => records[Len(records)] \in Paged!Row
      BY <1>4
    <2> QED
      BY <2>1, PagedConstants DEF Paged!LastSequence, Paged!Last
  <1>8. Paged!FromPages(start .. start + page - 1)
          = Paged!FromPages(start .. start + Len(completed) - 1) \cup Paged!ToSet(content)
    <2>1. start \in Int /\ start + page - 2 \in Int /\ start <= start + page - 2 + 1
      BY <1>4, PagedConstants
    <2>2. /\ start + page - 2 + 1 = start + page - 1 /\ start + page - 2 = start + Len(completed) - 1
          /\ cursor = start + page - 1
      BY <1>4, PagedConstants
    <2>3. Paged!FromPages(start .. start + page - 2 + 1)
            = Paged!FromPages(start .. start + page - 2) \cup Paged!ToSet(PageContent[start + page - 2 + 1])
      BY <2>1, PagesBetween
    <2> QED
      BY <2>2, <2>3
  <1> HIDE DEF c, content
  <1>9. CASE adapter = "fixture"
    <2>1. c.rows = records \o content /\ c.refused = quarantine
      BY <1>9 DEF c, Paged!Consume
    <2>2. records \o content \in Seq(Paged!Row)
      BY <1>4, <1>6
    <2>3. Paged!ToSet(records \o content) = Paged!ToSet(records) \cup Paged!ToSet(content)
      BY <1>4, <1>6, MembersOfBoth
    <2>4. c.rows \in Seq(Paged!Row) /\ c.refused \subseteq Paged!Row
      BY <1>4, <2>1, <2>2
    <2>5. Paged!ToSet(c.rows) \cup c.refused = Paged!ToSet(records) \cup quarantine \cup Paged!ToSet(content)
      BY <2>1, <2>3
    <2> QED
      BY <1>1, <1>2, <1>3, <1>4, <1>5, <1>8, <1>9, <2>4, <2>5
  <1>10. CASE adapter # "fixture"
    <2>1. /\ c \in Takings /\ OnceEach(c.rows)
          /\ Held(c) = Paged!ToSet(records) \cup quarantine \cup Paged!ToSet(content)
      <3>1. quarantine \in SUBSET Paged!Row /\ OnceEach(records)
        BY <1>4, <1>10
      <3> DEFINE before == Paged!LastSequence(records)
      <3>2. c = Paged!Consume(records, quarantine, before, content)
        BY DEF c
      <3>3. records \in Seq(Paged!Row) /\ before \in Nat
        BY <1>4, <1>7
      <3> HIDE DEF before
      <3> QED
        <4>1. Paged!Consume(records, quarantine, before, content) \in Takings
          BY <1>6, <1>10, <3>1, <3>3, ConsumeHolds
        <4>2. OnceEach(Paged!Consume(records, quarantine, before, content).rows)
          BY <1>6, <1>10, <3>1, <3>3, ConsumeHolds
        <4>3. Held(Paged!Consume(records, quarantine, before, content))
                = Paged!ToSet(records) \cup quarantine \cup Paged!ToSet(content)
          BY <1>6, <1>10, <3>1, <3>3, ConsumeHolds
        <4> QED
          BY <3>2, <4>1, <4>2, <4>3
    <2>2. c.rows \in Seq(Paged!Row) /\ c.refused \subseteq Paged!Row
      BY <2>1 DEF Takings
    <2> QED
      BY <1>1, <1>2, <1>3, <1>4, <1>5, <1>8, <2>1, <2>2 DEF Held
  <1> QED
    BY <1>9, <1>10

LEMMA ImportAccept ==
    ASSUME ImportInv, Paged!Accept, "orats" \notin OmitsCursor PROVE ImportInv'
  <1>0. /\ Paged!Pages \in Nat /\ Paged!Pages > 0 /\ start \in 1 .. Paged!Pages /\ page \in 1 .. Paged!Pages
        /\ cursor \in 1 .. Paged!Pages /\ cursor = start + page - 1 /\ failures = <<>>
        /\ 0 \in 0 .. Attempts - 1
    <2>1. pc = "check"
      BY AcceptedPage
    <2> QED
      BY <2>1, PagedConstants DEF ImportInv, Paged!TypeOK, PlaceInv
  <1>1. /\ attempt' = 0
        /\ \/ /\ ~Paged!HasMore /\ pc' = "ended" /\ UNCHANGED <<failures, cursor, page>>
           \/ /\ Paged!HasMore /\ pc' = "ended" /\ failures' = Append(failures, "stalled_continuation")
              /\ UNCHANGED <<cursor, page>>
           \/ /\ Paged!HasMore /\ ~Paged!Stalled /\ cursor' = response.next /\ page' = page + 1
              /\ pc' = "request" /\ UNCHANGED failures
    BY DEF Paged!Accept, Paged!EndWith, Paged!NextCursor
  <1>2. Paged!HasMore <=> cursor < Paged!Pages
    BY AcceptedPage DEF Paged!HasMore
  <1>3. Paged!HasMore /\ ~Paged!Stalled => response.next = cursor + 1
    BY AcceptedPage DEF ImportInv, PlaceInv, Paged!Stalled
  <1>4. /\ cursor' \in 1 .. Paged!Pages /\ page' \in 1 .. Paged!Pages /\ cursor' = start + page' - 1
        /\ Len(completed') \in {page' - 1, page'}
    BY <1>0, <1>1, <1>2, <1>3, AcceptedPage
  <1>5. /\ failures' \in Seq({"cancelled", "transport_failure", "missing_batch", "duplicate_batch",
                              "stalled_continuation"})
        /\ pc' = "ended" /\ failures' = <<>> => cursor = Paged!Pages
        /\ pc' = "ended" => page' = page
        /\ pc' = "request" => page' = page + 1 /\ failures' = <<>>
        /\ pc' \in {"request", "ended"}
    <2>1. Append(failures, "stalled_continuation") = <<"stalled_continuation">>
      BY <1>0
    <2>2. \/ failures' = <<>> /\ pc' = "ended" /\ page' = page /\ cursor = Paged!Pages
          \/ failures' = <<"stalled_continuation">> /\ pc' = "ended" /\ page' = page
          \/ failures' = <<>> /\ pc' = "request" /\ page' = page + 1
      <3>1. ~Paged!HasMore => cursor = Paged!Pages
        BY <1>0, <1>2
      <3>2. failures = <<>>
        BY <1>0
      <3> QED
        BY <1>1, <2>1, <3>1, <3>2, Zenon
    <2>3. failures' = <<>> \/ failures' = <<"stalled_continuation">>
      BY <2>2
    <2>4. failures' \in Seq({"cancelled", "transport_failure", "missing_batch", "duplicate_batch",
                             "stalled_continuation"})
      <3> DEFINE Code == {"cancelled", "transport_failure", "missing_batch", "duplicate_batch",
                          "stalled_continuation"}
      <3>1. "stalled_continuation" \in Code
        OBVIOUS
      <3> HIDE DEF Code
      <3>2. \A x \in Code : <<x>> \in Seq(Code)
        OBVIOUS
      <3>3. <<>> \in Seq(Code)
        OBVIOUS
      <3>4. failures' \in Seq(Code)
        BY <2>3, <3>1, <3>2, <3>3
      <3> QED
        BY <3>4 DEF Code
    <2>5. <<"stalled_continuation">> # <<>>
      OBVIOUS
    <2>6. /\ pc' = "ended" /\ failures' = <<>> => cursor = Paged!Pages
          /\ pc' = "ended" => page' = page
          /\ pc' = "request" => page' = page + 1 /\ failures' = <<>>
          /\ pc' \in {"request", "ended"}
      BY <2>2, <2>5
    <2> QED
      BY <2>4, <2>6, Zenon
  <1>6. Paged!TypeOK'
    BY <1>0, <1>1, <1>4, <1>5, AcceptedPage DEF ImportInv, Paged!TypeOK
  <1>7. PlaceInv'
    <2>1. adapter = "fixture" => start = 1
      BY DEF ImportInv, PlaceInv
    <2>2. Len(completed') = page /\ start' = start /\ adapter' = adapter
      BY AcceptedPage
    <2>3. page \in Int /\ start \in Int /\ cursor = start + page - 1
      BY <1>0
    <2>4. pc' = "request" => Len(completed') = page' - 1 /\ failures' = <<>>
      <3>1. pc' = "request" => page' = page + 1 /\ failures' = <<>>
        BY <1>5
      <3> QED
        BY <2>2, <2>3, <3>1
    <2>5. pc' = "ended" => (failures' = <<>> => start' + Len(completed') - 1 = Paged!Pages)
      <3>1. pc' = "ended" /\ failures' = <<>> => cursor = Paged!Pages
        BY <1>5
      <3> QED
        BY <2>2, <2>3, <3>1
    <2> QED
      BY <1>4, <1>5, <2>1, <2>2, <2>4, <2>5 DEF PlaceInv
  <1>8. RowsHeldInv'
    <2>1. (Paged!PagesAreWhole)'
      BY AcceptedPage DEF Paged!PagesAreWhole, Paged!FromPages
    <2>2. adapter # "fixture" => Paged!FromPages(1 .. start - 1) \subseteq merged
      BY AcceptedPage DEF ImportInv, RowsHeldInv
    <2> QED
      BY <1>5, <2>1, <2>2, AcceptedPage DEF RowsHeldInv, Paged!FromPages
  <1> QED
    BY <1>6, <1>7, <1>8, AcceptedPage DEF ImportInv

\* The caller has what the run held, and whatever it had.
LEMMA ImportReturn == ImportInv /\ Paged!Return => ImportInv'
  <1> SUFFICES ASSUME ImportInv, Paged!Return PROVE ImportInv'
    OBVIOUS
  <1> DEFINE n == Len(completed)
             held == Paged!FromPages(start .. start + n - 1)
  <1>1. /\ pc = "ended" /\ pc' = "idle"
        /\ UNCHANGED <<adapter, run, start, page, attempt, response, seen, records, quarantine, failures,
                       completed, cursor, faults>>
        /\ merged' = IF adapter = "fixture" /\ failures # <<>> THEN merged
                     ELSE merged \cup Paged!ToSet(records) \cup quarantine
    BY DEF Paged!Return, Paged!local
  <1>2. /\ Paged!Pages \in Nat /\ Paged!Pages > 0 /\ start \in 1 .. Paged!Pages /\ page \in 1 .. Paged!Pages
        /\ cursor \in 1 .. Paged!Pages /\ cursor = start + page - 1 /\ n \in {page - 1, page} /\ n \in Nat
        /\ failures = <<>> => start + n - 1 = Paged!Pages
        /\ adapter = "fixture" => start = 1
    BY <1>1, PagedConstants DEF ImportInv, Paged!TypeOK, PlaceInv
  <1>3. /\ Paged!ToSet(records) \cup quarantine = held /\ merged \subseteq Paged!Row
        /\ records \in Seq(Paged!Row) /\ quarantine \subseteq Paged!Row
        /\ adapter # "fixture" => Paged!FromPages(1 .. start - 1) \subseteq merged
    BY <1>1 DEF ImportInv, Paged!TypeOK, RowsHeldInv, Paged!PagesAreWhole
  <1>4. Paged!ToSet(records) \subseteq Paged!Row
    BY <1>3 DEF Paged!ToSet
  <1>5. merged' \subseteq Paged!Row
    BY <1>1, <1>3, <1>4
  <1>6. Paged!TypeOK' /\ adapter' \in Adapter
    BY <1>1, <1>5 DEF ImportInv, Paged!TypeOK
  <1>7. PlaceInv'
    BY <1>1 DEF ImportInv, PlaceInv
  <1>8. adapter # "fixture" => Paged!FromPages(1 .. cursor - 1) \subseteq merged'
    <2>1. Paged!FromPages(1 .. cursor - 1)
            \subseteq Paged!FromPages(1 .. start - 1) \cup Paged!FromPages(start .. cursor - 1)
      BY <1>2, PagesBetween
    <2>2. start \in Nat /\ cursor - 1 \in Nat /\ start + n - 1 \in Nat /\ cursor - 1 <= start + n - 1
      BY <1>2
    <2>3. Paged!FromPages(start .. cursor - 1) \subseteq held
      BY <2>2, PagesBetween
    <2> HIDE DEF held
    <2> QED
      BY <1>1, <1>3, <2>1, <2>3
  <1>9. failures = <<>> => merged' = Paged!Row
    <2> SUFFICES ASSUME failures = <<>> PROVE merged' = Paged!Row
      OBVIOUS
    <2>1. merged' = merged \cup held /\ start + n - 1 = Paged!Pages
      BY <1>1, <1>2, <1>3
    <2>2. CASE adapter = "fixture"
      BY <1>2, <1>5, <2>1, <2>2, PagesBetween
    <2>3. CASE adapter # "fixture"
      <3>1. Paged!Row \subseteq Paged!FromPages(1 .. start - 1) \cup Paged!FromPages(start .. Paged!Pages)
        BY <1>2, PagesBetween
      <3> QED
        BY <1>3, <1>5, <2>1, <2>3, <3>1
    <2> QED
      BY <2>2, <2>3
  <1>10. RowsHeldInv'
    BY <1>1, <1>8, <1>9 DEF ImportInv, RowsHeldInv, Paged!PagesAreWhole, Paged!FromPages
  <1> QED
    BY <1>6, <1>7, <1>10 DEF ImportInv

LEMMA ImportStep ==
    ASSUME ImportInv, Paged!Next, "orats" \notin OmitsCursor PROVE ImportInv'
  <1>1. CASE Paged!Cancelled
    <2>1. /\ pc = "request" /\ Paged!EndWith("cancelled")
          /\ UNCHANGED <<adapter, run, start, cursor, page, attempt, response, seen, records, quarantine,
                         completed, merged, faults>>
      BY <1>1 DEF Paged!Cancelled
    <2> QED
      BY <2>1, ImportCut DEF ImportInv, Paged!TypeOK
  <1>2. CASE Paged!Refuse
    <2>1. /\ pc = "check" /\ Paged!EndWith(Paged!Code)
          /\ Paged!Code \in {"missing_batch", "duplicate_batch"}
          /\ UNCHANGED <<adapter, run, start, cursor, page, attempt, response, seen, records, quarantine,
                         completed, merged, faults>>
      BY <1>2 DEF Paged!Refuse, Paged!Code
    <2>2. faults' \in 0 .. MaxFaults
      BY <2>1 DEF ImportInv, Paged!TypeOK
    <2>3. PICK code \in {"missing_batch", "duplicate_batch"} : Paged!EndWith(code)
      BY <2>1
    <2> QED
      BY <2>1, <2>2, <2>3, ImportCut
  <1> QED
    BY <1>1, <1>2, ImportRun, ImportTransport, ImportErrs, ImportAccept, ImportReturn DEF Paged!Next

-----------------------------------------------------------------------------
(* The file cache                                                            *)

CacheLabels == {"idle", "replace", "visit", "read", "judge", "unlink"}
Present == {k \in Key : ~Cache!Missing(k)}
\* The paths a cleanup has settled: gone, or such as would not go.
Settled(c) == {k \in c.listed : Cache!Missing(k) \/ k \in c.refused}

\* A get reads no older entry than the newest there was when it began.
GetSound(c, at) ==
    c.op = "get" =>
        /\ at = "read" => c.since <= last[c.key]
        /\ at = "judge" /\ c.got.state # "none" => c.since <= c.got.write
\* Undisturbed, get and cleanup judge what is at the path, and unlink what is dead.
JudgeSound(c, at) ==
    c.op \in {"get", "cleanup"} /\ c.alone =>
        /\ at = "judge" => /\ c.got.expires = file[c.key].expires
                           /\ c.got.state # "whole" => file[c.key].state # "whole"
        /\ at = "unlink" => file[c.key].state # "whole" \/ clock > file[c.key].expires
\* Undisturbed, a cleanup has listed all there is, and of that it has visited what it has kept
\* or counted.
CleanupSound(c, at) ==
    c.op = "cleanup" /\ c.alone /\ at \notin {"idle", "replace"} =>
        /\ c.todo \subseteq c.listed /\ IsFiniteSet(c.listed) /\ Present \subseteq c.listed
        /\ c.refused \subseteq c.listed \ c.todo /\ c.removed = Cardinality(Settled(c))
        /\ \A k \in c.todo : ~Cache!Missing(k)
        /\ \A k \in c.listed \ c.todo :
              \/ (at # "visit" /\ k = c.key) \/ Cache!Missing(k)
              \/ k \in c.refused \/ file[k].expires >= c.now
        /\ at # "visit" => /\ c.key \in c.listed \ (c.todo \cup c.refused)
                           /\ ~Cache!Missing(c.key)
CallSound(c, at) ==
    /\ c \in Cache!Call /\ c.now <= clock
    /\ at = "visit" => c.op \in {"cleanup", "invalidate"}
    /\ GetSound(c, at) /\ JudgeSound(c, at) /\ CleanupSound(c, at)

FilesInv ==
    /\ clock \in 0 .. MaxTime /\ damages \in 0 .. MaxDamage /\ sweeps \in 0 .. MaxSweeps
    /\ file \in [Key -> Cache!Content] /\ last \in [Key -> 0 .. MaxWrites] /\ IsFiniteSet(Present)
    /\ \A k \in Key : last[k] <= writes /\ (~Cache!Missing(k) => file[k].write = last[k])
\* Every call of set has renamed its file, left it behind, or is about to rename it.
Replacing == {p \in Process : pc[p] = "replace"}
WritesInv ==
    /\ writes \in Nat /\ temps \in Nat /\ begun \in 0 .. MaxWrites
    /\ IsFiniteSet(Replacing) /\ writes + temps + Cardinality(Replacing) = begun
CallsInv ==
    /\ pc \in [Process -> CacheLabels] /\ IsMap(call) /\ DOMAIN call = Process
    /\ \A p \in Process : CallSound(call[p], pc[p])

CacheInv == FilesInv /\ WritesInv /\ CallsInv

LEMMA CacheConstants ==
    /\ Key # {} /\ MaxTime \in Nat /\ MaxWrites \in Nat /\ MaxSweeps \in Nat /\ MaxDamage \in Nat
    /\ Ttl \subseteq Nat
  BY StorageConstants DEF StorageConstants, Cache!ConstantsType

LEMMA NoCallIs ==
    /\ Cache!NoCall \in Cache!Call
    /\ Cache!NoCall.op = "none" /\ Cache!NoCall.now = 0 /\ Cache!NoCall.removed = 0
    /\ Cache!NoCall.refused = {}
    /\ Cache!NoFile \in Cache!Content
  <1>1. Cache!AKey \in Key
    BY CacheConstants DEF Cache!AKey
  <1> QED
    BY <1>1, CacheConstants
    DEF Cache!NoCall, Cache!Call, Cache!Op, Cache!NoFile, Cache!Content, Cache!NoExpiry

LEMMA NoCallIsSound == ASSUME FilesInv PROVE CallSound(Cache!NoCall, "idle")
  BY NoCallIs, CacheConstants DEF FilesInv, CallSound, GetSound, JudgeSound, CleanupSound

LEMMA CacheInit == Cache!Init => CacheInv
  <1> SUFFICES ASSUME Cache!Init PROVE CacheInv
    OBVIOUS
  <1>1. /\ clock = 0 /\ damages = 0 /\ writes = 0 /\ temps = 0 /\ begun = 0 /\ sweeps = 0
        /\ file = [k \in Key |-> Cache!NoFile] /\ last = [k \in Key |-> 0]
        /\ pc = [p \in Process |-> "idle"] /\ call = [p \in Process |-> Cache!NoCall]
    BY DEF Cache!Init
  <1>2. Present = {} /\ Replacing = {}
    BY <1>1 DEF Present, Replacing, Cache!Missing, Cache!NoFile
  <1>3. IsFiniteSet({}) /\ Cardinality({}) = 0
    BY FS_EmptySet
  <1>4. Cache!NoFile \in Cache!Content
    BY CacheConstants DEF Cache!NoFile, Cache!Content, Cache!NoExpiry
  <1>5. FilesInv
    BY <1>1, <1>2, <1>3, <1>4, CacheConstants DEF FilesInv, Cache!Missing, Cache!NoFile
  <1>6. WritesInv
    BY <1>1, <1>2, <1>3, CacheConstants DEF WritesInv
  <1>7. CallsInv
    BY <1>1, <1>5, NoCallIsSound DEF CallsInv, CacheLabels, IsMap
  <1> QED
    BY <1>5, <1>6, <1>7 DEF CacheInv

\* A call is as sound as it was when nothing it depends on has changed.
LEMMA SoundStays ==
    ASSUME NEW c, NEW at, CallSound(c, at), UNCHANGED <<clock, file, last>>
    PROVE  CallSound(c, at)'
  BY DEF CallSound, GetSound, JudgeSound, CleanupSound, Present, Settled, Cache!Missing

LEMMA FilesStay ==
    ASSUME FilesInv, UNCHANGED <<clock, damages, file, last, writes>>, sweeps' \in 0 .. MaxSweeps
    PROVE  FilesInv'
  BY DEF FilesInv, Present, Cache!Missing

\* A step of p that changes no file takes its call to a sound one.
LEMMA GotoKeeps ==
    ASSUME CacheInv, NEW p \in Process, NEW to \in CacheLabels, NEW locals, Cache!Goto(p, to, locals),
           UNCHANGED <<clock, file, last>>, to # "idle" => CallSound(locals, to)
    PROVE  CallsInv'
  <1> DEFINE c == IF to = "idle" THEN Cache!NoCall ELSE locals
  <1>1. pc' = [pc EXCEPT ![p] = to] /\ call' = [call EXCEPT ![p] = c]
    BY DEF Cache!Goto
  <1>2. CallSound(c, to)
    BY NoCallIsSound DEF CacheInv
  <1> HIDE DEF c
  <1>3. pc' \in [Process -> CacheLabels] /\ IsMap(call') /\ DOMAIN call' = Process
    BY <1>1 DEF CacheInv, CallsInv, IsMap
  <1>4. ASSUME NEW q \in Process PROVE CallSound(call[q], pc[q])'
    <2>1. CASE q = p
      <3>1. call'[q] = c /\ pc'[q] = to
        BY <1>1, <2>1 DEF CacheInv, CallsInv
      <3>2. CallSound(c, to)'
        BY <1>2, SoundStays
      <3> QED
        BY <3>1, <3>2 DEF CallSound, GetSound, JudgeSound, CleanupSound
    <2>2. CASE q # p
      <3>1. call'[q] = call[q] /\ pc'[q] = pc[q]
        BY <1>1, <2>2 DEF CacheInv, CallsInv
      <3>2. CallSound(call[q], pc[q])
        BY DEF CacheInv, CallsInv
      <3> QED
        BY <3>1, <3>2 DEF CallSound, GetSound, JudgeSound, CleanupSound, Present, Settled, Cache!Missing
    <2> QED
      BY <2>1, <2>2
  <1> QED
    BY <1>3, <1>4 DEF CallsInv

\* A step that is none of set.
LEMMA GoingKeeps ==
    ASSUME CacheInv, NEW p \in Process, NEW to \in CacheLabels \ {"replace"}, NEW locals,
           pc[p] # "replace", Cache!Goto(p, to, locals),
           UNCHANGED <<clock, damages, begun, writes, temps, file, last>>, sweeps' \in 0 .. MaxSweeps,
           to # "idle" => CallSound(locals, to)
    PROVE  CacheInv'
  <1>1. CallsInv'
    BY GotoKeeps
  <1>2. Replacing' = Replacing
    BY DEF Cache!Goto, CacheInv, CallsInv, Replacing
  <1>3. WritesInv'
    BY <1>2 DEF CacheInv, WritesInv
  <1>4. FilesInv'
    BY FilesStay DEF CacheInv
  <1> QED
    BY <1>1, <1>3, <1>4 DEF CacheInv

LEMMA SetKeeps ==
    ASSUME CacheInv, NEW p \in Process, NEW k \in Key, NEW t \in Ttl \cup {Cache!NoExpiry}, Cache!Set(p, k, t)
    PROVE  CacheInv'
  <1> DEFINE end == IF clock + t > MaxTime THEN Cache!NoExpiry ELSE clock + t
             entry == [state |-> "whole", write |-> 0, expires |-> end]
             c == [Cache!NoCall EXCEPT !.op = "set", !.key = k, !.got = entry]
  <1>1. /\ begun < MaxWrites /\ begun' = begun + 1 /\ pc[p] = "idle"
        /\ UNCHANGED <<clock, damages, writes, sweeps, temps, file, last>>
        /\ Cache!Goto(p, "replace", c)
    BY DEF Cache!Set
  <1>2. entry \in Cache!Content
    BY CacheConstants DEF Cache!Content, Cache!NoExpiry, CacheInv, FilesInv
  <1>3. CallSound(c, "replace")
    <2> HIDE DEF entry
    <2>1. c \in Cache!Call /\ c.op = "set" /\ c.now = 0
      BY <1>2, NoCallIs DEF Cache!Call, Cache!Op
    <2> HIDE DEF c
    <2> QED
      BY <2>1 DEF CallSound, GetSound, JudgeSound, CleanupSound, CacheInv, FilesInv
  <1> HIDE DEF c
  <1>4. CallsInv'
    BY <1>1, <1>3, GotoKeeps DEF CacheLabels
  <1>5. Replacing' = Replacing \cup {p} /\ p \notin Replacing
    BY <1>1 DEF Cache!Goto, CacheInv, CallsInv, Replacing
  <1>6. IsFiniteSet(Replacing') /\ Cardinality(Replacing') = Cardinality(Replacing) + 1
        /\ Cardinality(Replacing) \in Nat
    BY <1>5, FS_AddElement, FS_CardinalityType DEF CacheInv, WritesInv
  <1>7. WritesInv'
    BY <1>1, <1>6, CacheConstants DEF CacheInv, WritesInv
  <1>8. FilesInv'
    BY <1>1, FilesStay DEF CacheInv, FilesInv
  <1> QED
    BY <1>4, <1>7, <1>8 DEF CacheInv

LEMMA DieKeeps == ASSUME CacheInv, NEW p \in Process, Cache!Die(p) PROVE CacheInv'
  <1>1. /\ Cache!Goto(p, "idle", Cache!NoCall)
        /\ temps' = IF pc[p] = "replace" THEN temps + 1 ELSE temps
        /\ UNCHANGED <<clock, damages, begun, writes, sweeps, file, last>>
    BY DEF Cache!Die
  <1>2. CallsInv'
    BY <1>1, GotoKeeps DEF CacheLabels
  <1>3. WritesInv'
    <2>1. CASE pc[p] # "replace"
      <3>1. Replacing' = Replacing
        BY <1>1, <2>1 DEF Cache!Goto, CacheInv, CallsInv, Replacing
      <3> QED
        BY <1>1, <2>1, <3>1 DEF CacheInv, WritesInv
    <2>2. CASE pc[p] = "replace"
      <3>1. Replacing' = Replacing \ {p} /\ p \in Replacing
        BY <1>1, <2>2 DEF Cache!Goto, CacheInv, CallsInv, Replacing
      <3>2. IsFiniteSet(Replacing') /\ Cardinality(Replacing') = Cardinality(Replacing) - 1
            /\ Cardinality(Replacing) \in Nat
        BY <3>1, FS_RemoveElement, FS_CardinalityType DEF CacheInv, WritesInv
      <3> QED
        BY <1>1, <2>2, <3>2 DEF CacheInv, WritesInv
    <2> QED
      BY <2>1, <2>2
  <1>4. FilesInv'
    BY <1>1, FilesStay DEF CacheInv, FilesInv
  <1> QED
    BY <1>2, <1>3, <1>4 DEF CacheInv

LEMMA GetKeeps == ASSUME CacheInv, NEW p \in Process, NEW k \in Key, Cache!Get(p, k) PROVE CacheInv'
  <1> DEFINE c == [Cache!NoCall EXCEPT !.op = "get", !.key = k, !.now = clock, !.since = last[k]]
  <1>1. /\ pc[p] = "idle" /\ UNCHANGED <<clock, damages, begun, writes, sweeps, temps, file, last>>
        /\ Cache!Goto(p, "read", c)
    BY DEF Cache!Get, Cache!counters
  <1>2. CallSound(c, "read")
    <2>0. clock \in 0 .. MaxTime /\ last[k] \in 0 .. MaxWrites
      BY DEF CacheInv, FilesInv
    <2>1. c \in Cache!Call
      BY <2>0, NoCallIs DEF Cache!Call, Cache!Op
    <2>2. c.now = clock /\ c.since = last[c.key] /\ c.op = "get"
      BY NoCallIs DEF Cache!Call
    <2> HIDE DEF c
    <2> QED
      BY <2>1, <2>2 DEF CallSound, GetSound, JudgeSound, CleanupSound, CacheInv, FilesInv, Cache!Call
  <1> HIDE DEF c
  <1> QED
    BY <1>1, <1>2, GoingKeeps DEF CacheInv, FilesInv, CacheLabels

LEMMA DeleteKeeps == ASSUME CacheInv, NEW p \in Process, NEW k \in Key, Cache!Delete(p, k) PROVE CacheInv'
  <1> DEFINE c == [Cache!NoCall EXCEPT !.op = "delete", !.key = k]
  <1>1. /\ pc[p] = "idle" /\ UNCHANGED <<clock, damages, begun, writes, sweeps, temps, file, last>>
        /\ Cache!Goto(p, "unlink", c)
    BY DEF Cache!Delete, Cache!counters
  <1>2. CallSound(c, "unlink")
    <2>1. c \in Cache!Call
      BY NoCallIs DEF Cache!Call, Cache!Op
    <2>2. c.now = 0 /\ c.op = "delete"
      BY NoCallIs DEF Cache!Call
    <2> HIDE DEF c
    <2> QED
      BY <2>1, <2>2 DEF CallSound, GetSound, JudgeSound, CleanupSound, CacheInv, FilesInv
  <1> HIDE DEF c
  <1> QED
    BY <1>1, <1>2, GoingKeeps DEF CacheInv, FilesInv, CacheLabels

LEMMA SweepKeeps ==
    ASSUME CacheInv, NEW p \in Process, NEW op \in {"cleanup", "invalidate"}, Cache!Sweep(p, op)
    PROVE  CacheInv'
  <1> DEFINE c == [Cache!NoCall EXCEPT !.op = op, !.now = clock, !.todo = Present, !.listed = Present]
  <1>1. /\ pc[p] = "idle" /\ sweeps < MaxSweeps /\ sweeps' = sweeps + 1
        /\ UNCHANGED <<clock, damages, begun, writes, temps, file, last>>
        /\ Cache!Goto(p, "visit", c)
    BY DEF Cache!Sweep, Present
  <1>2. CallSound(c, "visit")
    <2>1. Present \subseteq Key /\ clock \in 0 .. MaxTime
      BY DEF Present, CacheInv, FilesInv
    <2>2. c \in Cache!Call
      BY <2>1, NoCallIs DEF Cache!Call, Cache!Op
    <2>3. /\ c.now = clock /\ c.op = op /\ c.todo = Present /\ c.listed = Present /\ c.removed = 0
          /\ c.refused = {}
      BY NoCallIs DEF Cache!Call
    <2> HIDE DEF c
    <2>4. Settled(c) = {} /\ \A k \in Present : ~Cache!Missing(k)
      BY <2>3 DEF Settled, Present
    <2>5. Cardinality(Settled(c)) = 0 /\ IsFiniteSet(Present)
      BY <2>4, FS_EmptySet DEF CacheInv, FilesInv
    <2> QED
      BY <2>2, <2>3, <2>4, <2>5 DEF CallSound, GetSound, JudgeSound, CleanupSound, CacheInv, FilesInv
  <1> HIDE DEF c
  <1>3. sweeps' \in 0 .. MaxSweeps
    BY <1>1, CacheConstants DEF CacheInv, FilesInv
  <1> QED
    BY <1>1, <1>2, <1>3, GoingKeeps DEF CacheLabels

LEMMA VisitKeeps == ASSUME CacheInv, NEW p \in Process, Cache!Visit(p) PROVE CacheInv'
  <1> DEFINE c == call[p]
  <1>1. /\ pc[p] = "visit" /\ UNCHANGED <<clock, damages, begun, writes, sweeps, temps, file, last>>
        /\ \E k \in c.todo : Cache!Goto(p, "read", [c EXCEPT !.key = k, !.todo = c.todo \ {k}])
    BY DEF Cache!Visit, Cache!counters
  <1>2. CallSound(c, "visit")
    BY <1>1 DEF CacheInv, CallsInv
  <1> HIDE DEF c
  <1>3. PICK k \in c.todo : Cache!Goto(p, "read", [c EXCEPT !.key = k, !.todo = c.todo \ {k}])
    BY <1>1
  <1> DEFINE d == [c EXCEPT !.key = k, !.todo = c.todo \ {k}]
  <1>4. c \in Cache!Call /\ k \in Key
    BY <1>2 DEF CallSound, Cache!Call
  <1>5. /\ d \in Cache!Call /\ d.key = k /\ d.todo = c.todo \ {k} /\ d.op = c.op /\ d.alone = c.alone
        /\ d.listed = c.listed /\ d.removed = c.removed /\ d.now = c.now /\ d.refused = c.refused
    BY <1>4 DEF Cache!Call
  <1> HIDE DEF d
  <1>6. CallSound(d, "read")
    <2>1. d.op \in {"cleanup", "invalidate"} /\ d.now <= clock
      BY <1>2, <1>5 DEF CallSound
    <2>2. CleanupSound(d, "read")
      <3>1. Settled(d) = Settled(c)
        BY <1>5 DEF Settled
      <3> QED
        BY <1>2, <1>5, <3>1 DEF CallSound, CleanupSound
    <2> QED
      BY <1>5, <2>1, <2>2 DEF CallSound, GetSound, JudgeSound
  <1> QED
    BY <1>1, <1>3, <1>6, GoingKeeps DEF CacheInv, FilesInv, CacheLabels, d

LEMMA SweptKeeps == ASSUME CacheInv, NEW p \in Process, Cache!Swept(p) PROVE CacheInv'
  BY GoingKeeps DEF Cache!Swept, Cache!counters, CacheInv, FilesInv, CacheLabels

LEMMA ReadKeeps == ASSUME CacheInv, NEW p \in Process, Cache!Read(p) PROVE CacheInv'
  <1> DEFINE c == call[p]
  <1>1. /\ pc[p] = "read" /\ UNCHANGED <<clock, damages, begun, writes, sweeps, temps, file, last>>
        /\ Cache!Goto(p, "judge", [c EXCEPT !.got = file[c.key]])
    BY DEF Cache!Read, Cache!counters
  <1>2. CallSound(c, "read")
    BY <1>1 DEF CacheInv, CallsInv
  <1> HIDE DEF c
  <1> DEFINE d == [c EXCEPT !.got = file[c.key]]
  <1>3. c \in Cache!Call /\ c.key \in Key /\ file[c.key] \in Cache!Content
    BY <1>2 DEF CallSound, Cache!Call, CacheInv, FilesInv
  <1>4. /\ d \in Cache!Call /\ d.key = c.key /\ d.todo = c.todo /\ d.op = c.op /\ d.alone = c.alone
        /\ d.listed = c.listed /\ d.removed = c.removed /\ d.now = c.now /\ d.since = c.since
        /\ d.got = file[c.key] /\ d.refused = c.refused
    BY <1>3 DEF Cache!Call
  <1> HIDE DEF d
  <1>5. CallSound(d, "judge")
    <2>1. CleanupSound(d, "judge")
      <3>1. Settled(d) = Settled(c)
        BY <1>4 DEF Settled
      <3> QED
        BY <1>2, <1>4, <3>1 DEF CallSound, CleanupSound
    <2>2. GetSound(d, "judge")
      BY <1>2, <1>3, <1>4 DEF CallSound, GetSound, CacheInv, FilesInv, Cache!Missing
    <2> QED
      BY <1>2, <1>4, <2>1, <2>2 DEF CallSound, JudgeSound
  <1> QED
    BY <1>1, <1>5, GoingKeeps DEF CacheInv, FilesInv, CacheLabels, d

LEMMA JudgeKeeps == ASSUME CacheInv, NEW p \in Process, Cache!Judge(p) PROVE CacheInv'
  <1> DEFINE c == call[p]
  <1>1. /\ pc[p] = "judge" /\ UNCHANGED <<clock, damages, begun, writes, sweeps, temps, file, last>>
        /\ \/ Cache!Goto(p, "idle", Cache!NoCall)
           \/ (Cache!Condemned(p) \/ c.op = "invalidate") /\ Cache!Goto(p, "unlink", c)
           \/ ~Cache!Condemned(p) /\ Cache!Goto(p, Cache!Away(p), c)
    BY DEF Cache!Judge, Cache!counters
  <1>2. CallSound(c, "judge")
    BY <1>1 DEF CacheInv, CallsInv
  <1>3. /\ Cache!Condemned(p) <=>
              c.got.state # "whole" \/ (c.op # "invalidate" /\ Cache!ClockOf(p) > c.got.expires)
        /\ Cache!ClockOf(p) = IF c.op = "cleanup" THEN c.now ELSE clock
        /\ Cache!Away(p) = IF c.op \in {"cleanup", "invalidate"} THEN "visit" ELSE "idle"
    BY DEF Cache!Condemned, Cache!Corrupt, Cache!Expired, Cache!ClockOf, Cache!Away
  <1> HIDE DEF c
  <1>4. /\ c \in Cache!Call /\ c.now \in Nat /\ c.now <= clock /\ clock \in Nat /\ c.got.expires \in Nat
        /\ c.key \in Key => file[c.key].expires \in Nat
    BY <1>2, CacheConstants DEF CallSound, Cache!Call, Cache!Content, Cache!NoExpiry, CacheInv, FilesInv
  <1>5. ASSUME Cache!Condemned(p) \/ c.op = "invalidate" PROVE CallSound(c, "unlink")
    <2>1. CleanupSound(c, "unlink")
      BY <1>2 DEF CallSound, CleanupSound
    <2>2. JudgeSound(c, "unlink")
      BY <1>2, <1>3, <1>4, <1>5 DEF CallSound, JudgeSound
    <2> QED
      BY <1>2, <2>1, <2>2 DEF CallSound, GetSound
  <1>6. ASSUME ~Cache!Condemned(p), c.op \in {"cleanup", "invalidate"} PROVE CallSound(c, "visit")
    <2>1. CleanupSound(c, "visit")
      <3>1. SUFFICES ASSUME c.op = "cleanup", c.alone PROVE CleanupSound(c, "visit")
        BY DEF CleanupSound
      <3>2. file[c.key].expires >= c.now
        BY <1>2, <1>3, <1>4, <1>6, <3>1 DEF CallSound, JudgeSound
      <3> QED
        BY <1>2, <3>1, <3>2 DEF CallSound, CleanupSound
    <2> QED
      BY <1>2, <1>6, <2>1 DEF CallSound, GetSound, JudgeSound
  <1>7. CASE (Cache!Condemned(p) \/ c.op = "invalidate") /\ Cache!Goto(p, "unlink", c)
    BY <1>1, <1>5, <1>7, GoingKeeps DEF CacheInv, FilesInv, CacheLabels
  <1>8. CASE ~Cache!Condemned(p) /\ Cache!Goto(p, Cache!Away(p), c)
    BY <1>1, <1>3, <1>6, <1>8, GoingKeeps DEF CacheInv, FilesInv, CacheLabels
  <1>9. CASE Cache!Goto(p, "idle", Cache!NoCall)
    BY <1>1, <1>9, GoingKeeps DEF CacheInv, FilesInv, CacheLabels
  <1> QED
    BY <1>1, <1>7, <1>8, <1>9

LEMMA IdleIsSound == ASSUME clock' \in 0 .. MaxTime PROVE CallSound(Cache!NoCall, "idle")'
  BY NoCallIs, CacheConstants DEF CallSound, GetSound, JudgeSound, CleanupSound

\* A step of p that changes a file: the other calls are no longer undisturbed, and what was the
\* newest write of a key stays it or is followed by a newer one.
LEMMA ChangingKeeps ==
    ASSUME CacheInv, NEW p \in Process, NEW to \in CacheLabels, NEW locals, Cache!Changing(p, to, locals),
           clock' = clock, last' \in [Key -> 0 .. MaxWrites], \A k \in Key : last[k] <= last'[k],
           to # "idle" => CallSound(locals, to)'
    PROVE  CallsInv'
  <1> DEFINE c == IF to = "idle" THEN Cache!NoCall ELSE locals
  <1>1. /\ pc' = [pc EXCEPT ![p] = to]
        /\ call' = [q \in Process |->
              IF q = p THEN c
              ELSE IF pc[q] = "idle" THEN Cache!NoCall ELSE [call[q] EXCEPT !.alone = FALSE]]
    BY DEF Cache!Changing
  <1>2. clock' \in 0 .. MaxTime
    BY DEF CacheInv, FilesInv
  <1>3. pc' \in [Process -> CacheLabels] /\ IsMap(call') /\ DOMAIN call' = Process
    BY <1>1 DEF CacheInv, CallsInv, IsMap
  <1>4. ASSUME NEW q \in Process PROVE CallSound(call[q], pc[q])'
    <2>1. CASE q = p /\ to = "idle"
      <3>1. call'[q] = Cache!NoCall /\ pc'[q] = "idle"
        BY <1>1, <2>1 DEF CacheInv, CallsInv
      <3>2. CallSound(Cache!NoCall, "idle")'
        BY <1>2, IdleIsSound
      <3> QED
        BY <3>1, <3>2 DEF CallSound, GetSound, JudgeSound, CleanupSound
    <2>2. CASE q = p /\ to # "idle"
      <3>1. call'[q] = locals /\ pc'[q] = to
        BY <1>1, <2>2 DEF CacheInv, CallsInv
      <3>2. CallSound(locals, to)'
        BY <2>2
      <3> QED
        BY <3>1, <3>2 DEF CallSound, GetSound, JudgeSound, CleanupSound
    <2>3. CASE q # p /\ pc[q] = "idle"
      <3>1. call'[q] = Cache!NoCall /\ pc'[q] = "idle"
        BY <1>1, <2>3 DEF CacheInv, CallsInv
      <3>2. CallSound(Cache!NoCall, "idle")'
        BY <1>2, IdleIsSound
      <3> QED
        BY <3>1, <3>2 DEF CallSound, GetSound, JudgeSound, CleanupSound
    <2>4. CASE q # p /\ pc[q] # "idle"
      <3> DEFINE o == call[q]
      <3>1. call'[q] = [o EXCEPT !.alone = FALSE] /\ pc'[q] = pc[q]
        BY <1>1, <2>4 DEF CacheInv, CallsInv
      <3>2. CallSound(o, pc[q])
        BY DEF CacheInv, CallsInv
      <3> HIDE DEF o
      <3> DEFINE d == [o EXCEPT !.alone = FALSE]
      <3>3. o \in Cache!Call /\ o.now \in Nat /\ o.key \in Key
        BY <3>2, CacheConstants DEF CallSound, Cache!Call
      <3>4. /\ d \in Cache!Call /\ d.alone = FALSE /\ d.op = o.op /\ d.now = o.now /\ d.key = o.key
            /\ d.got = o.got /\ d.since = o.since
        BY <3>3 DEF Cache!Call
      <3>5. d = call'[q]
        BY <3>1
      <3> HIDE DEF d
      <3>6. o.op = "get" /\ pc[q] = "read" => o.since <= last'[o.key]
        <4>1. last[o.key] \in Int /\ last'[o.key] \in Int /\ o.since \in Int
          BY <3>3, CacheConstants DEF CacheInv, FilesInv, Cache!Call
        <4>2. o.op = "get" /\ pc[q] = "read" => o.since <= last[o.key]
          BY <3>2 DEF CallSound, GetSound
        <4> QED
          BY <3>3, <4>1, <4>2
      <3> QED
        BY <3>1, <3>2, <3>4, <3>5, <3>6 DEF CallSound, GetSound, JudgeSound, CleanupSound
    <2> QED
      BY <2>1, <2>2, <2>3, <2>4
  <1> QED
    BY <1>3, <1>4 DEF CallsInv

LEMMA ReplaceKeeps == ASSUME CacheInv, NEW p \in Process, Cache!Replace(p) PROVE CacheInv'
  <1> DEFINE c == call[p]
             entry == [c.got EXCEPT !.write = writes + 1]
  <1>1. /\ pc[p] = "replace" /\ Cache!Changing(p, "idle", Cache!NoCall) /\ writes' = writes + 1
        /\ last' = [last EXCEPT ![c.key] = writes + 1] /\ file' = [file EXCEPT ![c.key] = entry]
        /\ UNCHANGED <<clock, damages, begun, sweeps, temps>>
    BY DEF Cache!Replace
  <1>2. c.key \in Key /\ c.got \in Cache!Content
    BY DEF CacheInv, CallsInv, CallSound, Cache!Call
  <1> HIDE DEF c
  <1>3. Replacing' = Replacing \ {p} /\ p \in Replacing
    BY <1>1 DEF Cache!Changing, CacheInv, CallsInv, Replacing
  <1>4. /\ IsFiniteSet(Replacing') /\ Cardinality(Replacing') = Cardinality(Replacing) - 1
        /\ Cardinality(Replacing) \in Nat /\ Cardinality(Replacing') \in Nat
    BY <1>3, FS_RemoveElement, FS_CardinalityType DEF CacheInv, WritesInv
  <1>5. WritesInv' /\ writes + 1 \in 0 .. MaxWrites
    BY <1>1, <1>4, CacheConstants DEF CacheInv, WritesInv
  <1>6. entry \in Cache!Content /\ entry.write = writes + 1
    BY <1>2, <1>5 DEF Cache!Content
  <1> HIDE DEF entry
  <1>7. /\ file' \in [Key -> Cache!Content] /\ last' \in [Key -> 0 .. MaxWrites]
        /\ \A k \in Key : k # c.key => file'[k] = file[k] /\ last'[k] = last[k]
        /\ file'[c.key] = entry /\ last'[c.key] = writes + 1
    BY <1>1, <1>2, <1>5, <1>6 DEF CacheInv, FilesInv
  <1>8. \A k \in Key : last[k] \in Int /\ last[k] <= writes /\ writes \in Int
    BY CacheConstants DEF CacheInv, FilesInv, WritesInv
  <1>9. CallsInv'
    <2>1. \A k \in Key : last[k] <= last'[k]
      BY <1>7, <1>8
    <2> QED
      BY <1>1, <1>7, <2>1, ChangingKeeps DEF CacheLabels
  <1>10. FilesInv'
    <2>1. Present' \subseteq Present \cup {c.key}
      BY <1>7 DEF Present, Cache!Missing
    <2>2. IsFiniteSet(Present')
      BY <2>1, FS_AddElement, FS_Subset DEF CacheInv, FilesInv
    <2>3. \A k \in Key : last'[k] <= writes' /\ (file'[k].state # "none" => file'[k].write = last'[k])
      BY <1>1, <1>6, <1>7, <1>8 DEF CacheInv, FilesInv, Cache!Missing
    <2> QED
      BY <1>1, <1>7, <2>2, <2>3 DEF CacheInv, FilesInv, Cache!Missing
  <1> QED
    BY <1>5, <1>9, <1>10 DEF CacheInv

\* What an unlink makes of the call: a cleanup counts the path.
Counting(p) == [call[p] EXCEPT !.removed = IF Cache!Counted(p) THEN @ + 1 ELSE @]
Removal(p) ==
    /\ pc[p] = "unlink" /\ file' = [file EXCEPT ![call[p].key] = Cache!NoFile]
    /\ Cache!Changing(p, Cache!Away(p), Counting(p))
    /\ UNCHANGED <<clock, damages, begun, writes, sweeps, temps, last>>
Refusal(p) ==
    /\ pc[p] = "unlink" /\ damages < MaxDamage /\ damages' = damages + 1 /\ ~Cache!Missing(call[p].key)
    /\ Cache!Goto(p, Cache!Away(p), [Counting(p) EXCEPT !.refused = @ \cup {call[p].key}])
    /\ UNCHANGED <<clock, begun, writes, sweeps, temps, file, last>>

LEMMA UnlinkIs == ASSUME NEW p \in Process, Cache!Unlink(p) PROVE Removal(p) \/ Refusal(p)
  BY DEF Cache!Unlink, Removal, Refusal, Counting

LEMMA RemovalKeeps == ASSUME CacheInv, NEW p \in Process, Removal(p) PROVE CacheInv'
  <1> DEFINE c == call[p]
             more == IF Cache!Counted(p) THEN c.removed + 1 ELSE c.removed
             d == [c EXCEPT !.removed = more]
  <1>1. /\ pc[p] = "unlink" /\ file' = [file EXCEPT ![c.key] = Cache!NoFile]
        /\ Cache!Changing(p, Cache!Away(p), d)
        /\ UNCHANGED <<clock, damages, begun, writes, sweeps, temps, last>>
    BY DEF Removal, Counting
  <1>2. CallSound(c, "unlink")
    BY <1>1 DEF CacheInv, CallsInv
  <1>3. /\ Cache!Away(p) = IF c.op \in {"cleanup", "invalidate"} THEN "visit" ELSE "idle"
        /\ c.op = "cleanup" => more = c.removed + 1
    BY DEF Cache!Away, Cache!Counted
  <1>4. c \in Cache!Call /\ c.key \in Key /\ c.removed \in Nat /\ more \in Nat
    BY <1>2 DEF CallSound, Cache!Call
  <1> HIDE DEF more, c
  <1>5. /\ d \in Cache!Call /\ d.key = c.key /\ d.todo = c.todo /\ d.op = c.op /\ d.alone = c.alone
        /\ d.listed = c.listed /\ d.removed = more /\ d.now = c.now /\ d.refused = c.refused
    BY <1>4 DEF Cache!Call
  <1> HIDE DEF d
  <1>6. /\ file' \in [Key -> Cache!Content] /\ file'[c.key] = Cache!NoFile
        /\ \A k \in Key : k # c.key => file'[k] = file[k]
    BY <1>1, <1>4, NoCallIs DEF CacheInv, FilesInv
  <1>7. Present' = Present \ {c.key} /\ \A k \in Key : Cache!Missing(k)' <=> k = c.key \/ Cache!Missing(k)
    BY <1>6 DEF Present, Cache!Missing, Cache!NoFile
  <1>8. FilesInv'
    <2>1. IsFiniteSet(Present')
      BY <1>7, FS_Subset DEF CacheInv, FilesInv
    <2>2. \A k \in Key : Cache!Missing(k)' \/ file'[k].write = last'[k]
      BY <1>1, <1>6, <1>7 DEF CacheInv, FilesInv
    <2> QED
      BY <1>1, <1>6, <2>1, <2>2 DEF CacheInv, FilesInv
  <1>9. Replacing' = Replacing
    BY <1>1, <1>3 DEF Cache!Changing, CacheInv, CallsInv, Replacing
  <1>10. WritesInv'
    BY <1>1, <1>9 DEF CacheInv, WritesInv
  <1>11. ASSUME NEW e, e = d, c.op \in {"cleanup", "invalidate"} PROVE CallSound(e, "visit")'
    <2>1. CleanupSound(e, "visit")'
      <3>1. SUFFICES ASSUME e.op = "cleanup", e.alone PROVE CleanupSound(e, "visit")'
        BY DEF CleanupSound
      <3>2. /\ c.todo \subseteq c.listed /\ IsFiniteSet(c.listed) /\ Present \subseteq c.listed
            /\ c.refused \subseteq c.listed \ c.todo
            /\ c.removed = Cardinality(Settled(c)) /\ \A k \in c.todo : ~Cache!Missing(k)
            /\ \A k \in c.listed \ c.todo :
                  k = c.key \/ Cache!Missing(k) \/ k \in c.refused \/ file[k].expires >= c.now
            /\ c.key \in c.listed \ (c.todo \cup c.refused) /\ ~Cache!Missing(c.key)
            /\ c.listed \subseteq Key
        BY <1>2, <1>5, <1>11, <3>1 DEF CallSound, CleanupSound, Cache!Call
      <3> DEFINE gone == {k \in c.listed : Cache!Missing(k)' \/ k \in c.refused}
      <3>4. gone = Settled(c) \cup {c.key} /\ c.key \notin Settled(c)
        BY <1>7, <3>2 DEF Settled
      <3>5. IsFiniteSet(Settled(c))
        BY <3>2, FS_Subset DEF Settled
      <3>6. Cardinality(gone) = c.removed + 1
        <4>1. Cardinality(Settled(c) \cup {c.key}) = Cardinality(Settled(c)) + 1
          BY <3>4, <3>5, FS_AddElement
        <4> HIDE DEF gone
        <4> QED
          BY <3>2, <3>4, <4>1
      <3>7. e.listed = c.listed /\ e.todo = c.todo /\ e.removed = c.removed + 1 /\ e.now = c.now /\ e.op = c.op
            /\ e.refused = c.refused
        BY <1>3, <1>5, <1>11, <3>1
      <3>8. Settled(e)' = gone
        BY <3>7 DEF Settled
      <3> HIDE DEF gone
      <3>9. \A k \in e.todo : ~(Cache!Missing(k)')
        BY <1>7, <3>2, <3>7
      <3>10. \A k \in e.listed \ e.todo :
                 Cache!Missing(k)' \/ k \in e.refused \/ file'[k].expires >= e.now
        BY <1>6, <1>7, <3>2, <3>7
      <3>11. e.todo \subseteq e.listed /\ IsFiniteSet(e.listed) /\ Present' \subseteq e.listed
             /\ e.refused \subseteq e.listed \ e.todo
        BY <1>7, <3>2, <3>7
      <3> QED
        BY <3>6, <3>7, <3>8, <3>9, <3>10, <3>11 DEF CleanupSound
    <2> QED
      BY <1>1, <1>2, <1>5, <1>11, <2>1 DEF CallSound, GetSound, JudgeSound
  <1>12. CallsInv'
    <2>1. \A k \in Key : last[k] <= last'[k]
      BY <1>1, CacheConstants DEF CacheInv, FilesInv
    <2>2. last' \in [Key -> 0 .. MaxWrites] /\ clock' = clock /\ Cache!Away(p) \in CacheLabels
      BY <1>1, <1>3 DEF CacheInv, FilesInv, CacheLabels
    <2>3. PICK e : e = d
      OBVIOUS
    <2>4. Cache!Changing(p, Cache!Away(p), e)
      BY <1>1, <2>3
    <2>5. PICK to \in CacheLabels : to = Cache!Away(p)
      BY <2>2
    <2>6. to # "idle" => CallSound(e, to)'
      BY <1>3, <1>11, <2>3, <2>5
    <2>7. Cache!Changing(p, to, e)
      BY <2>4, <2>5
    <2> QED
      BY <2>1, <2>2, <2>6, <2>7, ChangingKeeps
  <1> QED
    BY <1>8, <1>10, <1>12 DEF CacheInv

\* An unlink that fails leaves the file where it is, and a cleanup counts the path.
LEMMA RefusalKeeps == ASSUME CacheInv, NEW p \in Process, Refusal(p) PROVE CacheInv'
  <1> DEFINE c == call[p]
             more == IF Cache!Counted(p) THEN c.removed + 1 ELSE c.removed
             d == [[c EXCEPT !.removed = more] EXCEPT !.refused = c.refused \cup {c.key}]
  <1>1. c \in Cache!Call /\ c.key \in Key /\ c.removed \in Nat /\ more \in Nat
    BY DEF Refusal, CacheInv, CallsInv, CallSound, Cache!Call
  <1>2. [c EXCEPT !.removed = more].refused = c.refused
    BY <1>1 DEF Cache!Call
  <1>3. /\ pc[p] = "unlink" /\ damages < MaxDamage /\ damages' = damages + 1 /\ ~Cache!Missing(c.key)
        /\ Cache!Goto(p, Cache!Away(p), d)
        /\ UNCHANGED <<clock, begun, writes, sweeps, temps, file, last>>
    BY <1>2 DEF Refusal, Counting
  <1>4. CallSound(c, "unlink")
    BY <1>3 DEF CacheInv, CallsInv
  <1>5. /\ Cache!Away(p) = IF c.op \in {"cleanup", "invalidate"} THEN "visit" ELSE "idle"
        /\ c.op = "cleanup" => more = c.removed + 1
    BY DEF Cache!Away, Cache!Counted
  <1> HIDE DEF more, c
  <1>6. /\ d \in Cache!Call /\ d.todo = c.todo /\ d.op = c.op /\ d.alone = c.alone
        /\ d.listed = c.listed /\ d.removed = more /\ d.now = c.now
        /\ d.refused = c.refused \cup {c.key}
    BY <1>1 DEF Cache!Call
  <1> HIDE DEF d
  <1>7. ASSUME d.op \in {"cleanup", "invalidate"} PROVE CallSound(d, "visit")
    <2>1. CleanupSound(d, "visit")
      <3>1. SUFFICES ASSUME d.op = "cleanup", d.alone PROVE CleanupSound(d, "visit")
        BY DEF CleanupSound
      <3>2. /\ c.todo \subseteq c.listed /\ IsFiniteSet(c.listed) /\ Present \subseteq c.listed
            /\ c.refused \subseteq c.listed \ c.todo
            /\ c.removed = Cardinality(Settled(c)) /\ \A k \in c.todo : ~Cache!Missing(k)
            /\ \A k \in c.listed \ c.todo :
                  k = c.key \/ Cache!Missing(k) \/ k \in c.refused \/ file[k].expires >= c.now
            /\ c.key \in c.listed \ (c.todo \cup c.refused) /\ ~Cache!Missing(c.key)
        BY <1>4, <1>6, <3>1 DEF CallSound, CleanupSound
      <3>3. Settled(d) = Settled(c) \cup {c.key} /\ c.key \notin Settled(c)
        BY <1>6, <3>2 DEF Settled
      <3>4. IsFiniteSet(Settled(c))
        BY <3>2, FS_Subset DEF Settled
      <3>5. d.removed = Cardinality(Settled(d))
        <4>1. Cardinality(Settled(c) \cup {c.key}) = Cardinality(Settled(c)) + 1
          BY <3>3, <3>4, FS_AddElement
        <4> QED
          BY <1>5, <1>6, <3>1, <3>2, <3>3, <4>1
      <3> QED
        BY <1>6, <3>2, <3>5 DEF CleanupSound
    <2> QED
      BY <1>4, <1>6, <1>7, <2>1 DEF CallSound, GetSound, JudgeSound
  <1>8. CallsInv'
    <2>1. Cache!Away(p) \in CacheLabels /\ (Cache!Away(p) # "idle" => CallSound(d, Cache!Away(p)))
      BY <1>5, <1>6, <1>7 DEF CacheLabels
    <2> QED
      BY <1>3, <2>1, GotoKeeps
  <1>9. Replacing' = Replacing
    BY <1>3, <1>5 DEF Cache!Goto, CacheInv, CallsInv, Replacing
  <1>10. WritesInv'
    BY <1>3, <1>9 DEF CacheInv, WritesInv
  <1>11. damages' \in 0 .. MaxDamage
    BY <1>3, CacheConstants DEF CacheInv, FilesInv
  <1>12. FilesInv'
    BY <1>3, <1>11 DEF CacheInv, FilesInv, Present, Cache!Missing
  <1> QED
    BY <1>8, <1>10, <1>12 DEF CacheInv

LEMMA UnlinkKeeps == ASSUME CacheInv, NEW p \in Process, Cache!Unlink(p) PROVE CacheInv'
  BY UnlinkIs, RemovalKeeps, RefusalKeeps

LEMMA TickKeeps == ASSUME CacheInv, Cache!Tick PROVE CacheInv'
  <1>1. /\ clock < MaxTime /\ clock' = clock + 1
        /\ UNCHANGED <<damages, begun, writes, sweeps, temps, file, last, pc, call>>
    BY DEF Cache!Tick
  <1>2. clock' \in 0 .. MaxTime /\ clock \in Nat /\ clock <= clock'
    BY <1>1, CacheConstants DEF CacheInv, FilesInv
  <1>3. FilesInv' /\ WritesInv'
    BY <1>1, <1>2 DEF CacheInv, FilesInv, WritesInv, Present, Cache!Missing, Replacing
  <1>4. ASSUME NEW p \in Process PROVE CallSound(call[p], pc[p])'
    <2> DEFINE c == call[p]
    <2>1. CallSound(c, pc[p])
      BY DEF CacheInv, CallsInv
    <2>2. c' = c /\ pc'[p] = pc[p]
      BY <1>1
    <2>3. c \in Cache!Call /\ c.now \in Nat /\ c.now <= clock'
      BY <1>2, <2>1, CacheConstants DEF CallSound, Cache!Call
    <2>4. JudgeSound(c, pc[p])'
      <3>1. \A k \in Key : file[k].expires \in Nat
        BY CacheConstants DEF CacheInv, FilesInv, Cache!Content, Cache!NoExpiry
      <3>2. c.key \in Key
        BY <2>3 DEF Cache!Call
      <3> HIDE DEF c
      <3> QED
        BY <1>1, <1>2, <2>1, <2>2, <3>1, <3>2 DEF CallSound, JudgeSound
    <2>5. CleanupSound(c, pc[p])' /\ GetSound(c, pc[p])'
      <3> HIDE DEF c
      <3> QED
        BY <1>1, <2>1, <2>2 DEF CallSound, CleanupSound, GetSound, Present, Settled, Cache!Missing
    <2> QED
      BY <1>1, <2>1, <2>3, <2>4, <2>5 DEF CallSound
  <1> QED
    BY <1>1, <1>3, <1>4 DEF CacheInv, CallsInv

LEMMA DamageKeeps == ASSUME CacheInv, NEW k \in Key, Cache!Damage(k) PROVE CacheInv'
  <1>1. /\ damages' \in 0 .. MaxDamage /\ ~Cache!Missing(k)
        /\ \E bad \in Cache!Damages : file' = [file EXCEPT ![k] = [file[k] EXCEPT !.state = bad]]
        /\ UNCHANGED <<clock, begun, writes, sweeps, temps, last, pc, call>>
    <2>1. /\ damages < MaxDamage /\ damages' = damages + 1 /\ ~Cache!Missing(k)
          /\ \E bad \in Cache!Damages : file' = [file EXCEPT ![k] = [file[k] EXCEPT !.state = bad]]
          /\ UNCHANGED <<clock, begun, writes, sweeps, temps, last, pc, call>>
      BY DEF Cache!Damage
    <2>2. damages' \in 0 .. MaxDamage
      <3>1. damages < MaxDamage /\ damages' = damages + 1
        BY <2>1
      <3> QED
        BY <3>1, CacheConstants DEF CacheInv, FilesInv
    <2> QED
      BY <2>1, <2>2
  <1>2. PICK bad \in Cache!Damages : file' = [file EXCEPT ![k] = [file[k] EXCEPT !.state = bad]]
    BY <1>1
  <1> DEFINE f == file[k]   g == [f EXCEPT !.state = bad]
  <1>3. f \in Cache!Content
    BY DEF CacheInv, FilesInv
  <1>4. g \in Cache!Content /\ g.state = bad /\ g.write = f.write /\ g.expires = f.expires
    BY <1>3 DEF Cache!Content
  <1>13. bad \notin {"none", "whole"}
    BY DEF Cache!Damages
  <1>5. /\ file' \in [Key -> Cache!Content] /\ file'[k] = g /\ f.state # "none"
        /\ \A h \in Key : h # k => file'[h] = file[h]
    BY <1>1, <1>2, <1>4 DEF CacheInv, FilesInv, Cache!Missing
  <1> HIDE DEF g
  <1>6. \A h \in Key : /\ Cache!Missing(h)' <=> Cache!Missing(h)
                       /\ file'[h].write = file[h].write /\ file'[h].expires = file[h].expires
                       /\ file[h].state # "whole" => file'[h].state # "whole"
    BY <1>4, <1>5, <1>13 DEF Cache!Missing
  <1>7. Present' = Present
    BY <1>6 DEF Present
  <1>8. FilesInv'
    BY <1>1, <1>5, <1>6, <1>7 DEF CacheInv, FilesInv
  <1>9. WritesInv'
    BY <1>1 DEF CacheInv, WritesInv, Replacing
  <1>10. ASSUME NEW p \in Process PROVE CallSound(call[p], pc[p])'
    <2> DEFINE c == call[p]
    <2>1. CallSound(c, pc[p])
      BY DEF CacheInv, CallsInv
    <2>2. c' = c /\ pc'[p] = pc[p]
      BY <1>1
    <2>3. c \in Cache!Call /\ c.key \in Key /\ c.listed \subseteq Key /\ c.todo \subseteq Key
      BY <2>1 DEF CallSound, Cache!Call
    <2> HIDE DEF c
    <2>4. JudgeSound(c, pc[p])'
      BY <1>1, <1>6, <2>1, <2>2, <2>3 DEF CallSound, JudgeSound
    <2>5. Settled(c)' = Settled(c)
      <3>1. Settled(c)' = {h \in c.listed : Cache!Missing(h)' \/ h \in c.refused}
        BY <2>2 DEF Settled
      <3> QED
        BY <1>6, <2>3, <3>1 DEF Settled
    <2>6. CleanupSound(c, pc[p])'
      <3>1. SUFFICES ASSUME c.op = "cleanup", c.alone, pc[p] \notin {"idle", "replace"}
                     PROVE  CleanupSound(c, pc[p])'
        BY <1>1, <2>2 DEF CleanupSound
      <3>2. /\ c.todo \subseteq c.listed /\ IsFiniteSet(c.listed) /\ Present \subseteq c.listed
            /\ c.refused \subseteq c.listed \ c.todo
            /\ c.removed = Cardinality(Settled(c)) /\ \A h \in c.todo : ~Cache!Missing(h)
            /\ \A h \in c.listed \ c.todo :
                  \/ (pc[p] # "visit" /\ h = c.key) \/ Cache!Missing(h)
                  \/ h \in c.refused \/ file[h].expires >= c.now
            /\ pc[p] # "visit" => /\ c.key \in c.listed \ (c.todo \cup c.refused)
                                  /\ ~Cache!Missing(c.key)
        BY <2>1, <3>1 DEF CallSound, CleanupSound
      <3>3. \A h \in c.todo : ~(Cache!Missing(h)')
        BY <1>6, <2>3, <3>2
      <3>4. \A h \in c.listed \ c.todo :
               \/ (pc[p] # "visit" /\ h = c.key) \/ Cache!Missing(h)'
               \/ h \in c.refused \/ file'[h].expires >= c.now
        BY <1>6, <2>3, <3>2
      <3>5. pc[p] # "visit" => /\ c.key \in c.listed \ (c.todo \cup c.refused)
                               /\ ~(Cache!Missing(c.key)')
        <4>1. Cache!Missing(c.key)' <=> file'[c.key].state = "none"
          BY <2>2 DEF Cache!Missing
        <4>2. file'[c.key].state = "none" <=> file[c.key].state = "none"
          BY <1>6, <2>3 DEF Cache!Missing
        <4> QED
          BY <3>2, <4>1, <4>2 DEF Cache!Missing
      <3> QED
        BY <1>1, <1>7, <2>2, <2>5, <3>2, <3>3, <3>4, <3>5 DEF CleanupSound
    <2>7. GetSound(c, pc[p])'
      BY <1>1, <2>1, <2>2 DEF CallSound, GetSound
    <2>8. CallSound(c, pc[p])'
      BY <1>1, <2>1, <2>2, <2>3, <2>4, <2>6, <2>7 DEF CallSound
    <2> QED
      BY <2>8 DEF c
  <1> QED
    BY <1>1, <1>8, <1>9, <1>10 DEF CacheInv, CallsInv

LEMMA CacheStep == CacheInv /\ Cache!Next => CacheInv'
  <1> SUFFICES ASSUME CacheInv, Cache!Next PROVE CacheInv'
    OBVIOUS
  <1>1. ASSUME NEW p \in Process,
               \/ \E k \in Key : \/ Cache!Get(p, k) \/ Cache!Delete(p, k)
                                 \/ \E t \in Ttl \cup {Cache!NoExpiry} : Cache!Set(p, k, t)
               \/ \E op \in {"cleanup", "invalidate"} : Cache!Sweep(p, op)
        PROVE  CacheInv'
    BY <1>1, GetKeeps, DeleteKeeps, SetKeeps, SweepKeeps
  <1>2. ASSUME NEW p \in Process, Cache!Step(p) \/ Cache!Die(p) PROVE CacheInv'
    BY <1>2, ReplaceKeeps, VisitKeeps, SweptKeeps, ReadKeeps, JudgeKeeps, UnlinkKeeps, DieKeeps DEF Cache!Step
  <1> QED
    BY <1>1, <1>2, TickKeeps, DamageKeeps DEF Cache!Next

LEMMA CacheRestsStill == CacheInv /\ UNCHANGED <<pc, cacheVars>> => CacheInv'
  <1> SUFFICES ASSUME CacheInv, UNCHANGED <<pc, cacheVars>> PROVE CacheInv'
    OBVIOUS
  <1>1. UNCHANGED <<pc, clock, file, damages, begun, writes, sweeps, last, temps, call>>
    BY DEF cacheVars
  <1>2. FilesInv' /\ WritesInv'
    BY <1>1 DEF CacheInv, FilesInv, WritesInv, Present, Cache!Missing, Replacing
  <1>3. CallsInv'
    <2>1. ASSUME NEW p \in Process PROVE CallSound(call[p], pc[p])'
      <3>1. CallSound(call[p], pc[p])
        BY DEF CacheInv, CallsInv
      <3> QED
        BY <1>1, <3>1 DEF CallSound, GetSound, JudgeSound, CleanupSound, Present, Settled, Cache!Missing
    <2>2. (pc \in [Process -> CacheLabels])' /\ IsMap(call)' /\ (DOMAIN call)' = Process
      BY <1>1 DEF CacheInv, CallsInv, IsMap
    <2> QED
      BY <2>1, <2>2 DEF CallsInv
  <1> QED
    BY <1>2, <1>3 DEF CacheInv

LEMMA CacheInvariantImplies == CacheInv => Cache!TypeOK
  <1> SUFFICES ASSUME CacheInv PROVE Cache!TypeOK
    OBVIOUS
  <1>1. Cardinality(Replacing) \in Nat
    BY FS_CardinalityType DEF CacheInv, WritesInv
  <1>2. {begun, writes, temps} \subseteq 0 .. MaxWrites
    BY <1>1, CacheConstants DEF CacheInv, WritesInv
  <1>3. call \in [Process -> Cache!Call]
    <2>1. IsMap(call) /\ DOMAIN call = Process /\ \A p \in Process : call[p] \in Cache!Call
      BY DEF CacheInv, CallsInv, CallSound
    <2> QED
      BY <2>1 DEF IsMap
  <1> QED
    BY <1>2, <1>3 DEF CacheInv, FilesInv, CallsInv, CacheLabels, Cache!TypeOK

\* What a get hands out, an unlink removes and a cleanup leaves and reports.
LEMMA CacheHandsOut ==
    CacheInv => Cache!GenuineHit /\ Cache!FreshHit /\ Cache!DeadRemoved /\ Cache!CompleteCleanup
  <1> SUFFICES ASSUME CacheInv
               PROVE  Cache!GenuineHit /\ Cache!FreshHit /\ Cache!DeadRemoved /\ Cache!CompleteCleanup
    OBVIOUS
  <1>1. ASSUME NEW p \in Process, Cache!Hit(p)
        PROVE  /\ call[p].got.state = "whole" /\ call[p].got.expires >= call[p].now
               /\ call[p].got.write >= call[p].since
    <2> DEFINE c == call[p]
    <2>1. pc[p] = "judge" /\ c.op = "get" /\ ~Cache!Raises(p) /\ pc'[p] = "idle"
      BY <1>1 DEF Cache!Hit, Cache!Judge
    <2>2. ~Cache!Condemned(p)
      BY <1>1, <2>1 DEF Cache!Hit, Cache!Judge, Cache!Goto, CacheInv, CallsInv
    <2>3. c.got.state = "whole" /\ ~(clock > c.got.expires)
      BY <2>1, <2>2 DEF Cache!Condemned, Cache!Corrupt, Cache!Expired, Cache!ClockOf
    <2>4. CallSound(c, "judge")
      BY <2>1 DEF CacheInv, CallsInv
    <2> HIDE DEF c
    <2>5. /\ c.now \in Nat /\ clock \in Nat /\ c.got.expires \in Nat /\ c.now <= clock
          /\ c.since \in Int /\ c.got.write \in Int
      BY <2>4, CacheConstants DEF CallSound, Cache!Call, Cache!Content, Cache!NoExpiry, CacheInv, FilesInv
    <2>6. c.since <= c.got.write
      BY <2>1, <2>3, <2>4 DEF CallSound, GetSound
    <2> QED
      BY <2>3, <2>5, <2>6 DEF c
  <1>2. ASSUME NEW p \in Process, Cache!Unlink(p), call[p].op \in {"get", "cleanup"}, call[p].alone
        PROVE  file[call[p].key].state # "whole" \/ clock > file[call[p].key].expires
    BY <1>2 DEF Cache!Unlink, CacheInv, CallsInv, CallSound, JudgeSound
  <1>3. ASSUME NEW p \in Process, Cache!Swept(p), call[p].op = "cleanup", call[p].alone
        PROVE  /\ \A k \in Key \ call[p].refused : Cache!Missing(k) \/ file[k].expires >= call[p].now
               /\ call[p].removed = Cardinality(Settled(call[p]))
    <2> DEFINE c == call[p]
    <2>1. CleanupSound(c, "visit") /\ c.todo = {}
      BY <1>3 DEF Cache!Swept, CacheInv, CallsInv, CallSound
    <2> HIDE DEF c
    <2>2. c.op = "cleanup" /\ c.alone
      BY <1>3 DEF c
    <2>3. /\ \A k \in Key \ c.refused : Cache!Missing(k) \/ file[k].expires >= c.now
          /\ c.removed = Cardinality(Settled(c))
      BY <2>1, <2>2 DEF CleanupSound, Present
    <2> QED
      BY <2>3 DEF c
  <1>4. Cache!GenuineHit /\ Cache!FreshHit
    BY <1>1 DEF Cache!GenuineHit, Cache!FreshHit
  <1>5. Cache!DeadRemoved
    BY <1>2 DEF Cache!DeadRemoved
  <1>6. Cache!CompleteCleanup
    BY <1>3, CountsAlike DEF Cache!CompleteCleanup, Settled
  <1> QED
    BY <1>4, <1>5, <1>6

-----------------------------------------------------------------------------
(* Side by side                                                              *)

KeptInv ==
    /\ part = "paged" => PagedInv
    /\ part = "cache" => CacheInv
    /\ part = "store" => StoreInv
    /\ part = "desk" => DeskInv

LEMMA KeptInit == StorageInit => KeptInv
  BY PagedInit, CacheInit, StoreInit, DeskInit DEF StorageInit, KeptInv

\* One part takes a step and the others rest, or all of them do.
LEMMA OnePartSteps ==
    ASSUME [StorageNext]_allVars
    PROVE  /\ part' = part
           /\ part = "paged" => Paged!Next \/ UNCHANGED <<pc, pagedVars>>
           /\ part = "cache" => Cache!Next \/ UNCHANGED <<pc, cacheVars>>
           /\ part = "store" => Store!Next \/ UNCHANGED <<pc, storeVars>>
           /\ part = "desk" => Desk!Next \/ UNCHANGED deskVars
  BY DEF StorageNext, SchemaSteps, PagedSteps, CacheSteps, StoreSteps, DeskSteps, Through, allVars

LEMMA KeptStep == KeptInv /\ [StorageNext]_allVars => KeptInv'
  BY OnePartSteps, PagedStep, PagedRestsStill, CacheStep, CacheRestsStill, StoreStep, StoreRestsStill,
     DeskStep, DeskRestsStill
  DEF KeptInv

LEMMA KeptAlways == StorageSpec => []KeptInv
  BY KeptInit, KeptStep, PTL DEF StorageSpec

\* provider_operations.py:49, 126-137.  However many sessions create jobs and artifacts and
\* append events at once, the events of a job are numbered from one without a gap, no two
\* artifacts share a checksum, and a job says what its last event says unless a session appended
\* to a job it had kept while another one changed it.
THEOREM TablesAreAlwaysConsistent == StorageSpec => []StoreIsConsistent
  <1>1. KeptInv => StoreIsConsistent
    BY StoreInvariantImplies DEF KeptInv, StoreIsConsistent
  <1> QED
    BY <1>1, KeptAlways, PTL

\* provider_runtime.py, provider_operations.py.  Whatever the workers, the callers and the
\* alerts do at once, a schedule due is begun once, a completed job has all its pages, a job that
\* nobody works on can be gone on with, and an alert counts what it was raised with.
THEOREM DeskIsAlwaysSound == StorageSpec => []DeskIsSound
  <1>1. KeptInv => DeskIsSound
    BY DeskInvariantImplies DEF KeptInv, DeskIsSound
  <1> QED
    BY <1>1, KeptAlways, PTL

\* manager.py:92-128, 164-206.  However many processes use a cache directory, what get hands out
\* some set wrote, unexpired and no older than the newest entry there was when it was called;
\* undisturbed, get and cleanup remove only what is dead, and cleanup all of it.
THEOREM CacheIsAlwaysSound == StorageSpec => CacheIsSound
  <1>1. KeptInv => (part = "cache" => Cache!TypeOK)
    BY CacheInvariantImplies DEF KeptInv
  <1>2. KeptInv /\ [StorageNext]_allVars =>
           [part = "cache" => /\ Cache!GenuineHit /\ Cache!FreshHit
                              /\ Cache!DeadRemoved /\ Cache!CompleteCleanup]_allVars
    BY CacheHandsOut DEF KeptInv
  <1> QED
    BY <1>1, <1>2, KeptAlways, PTL DEF StorageSpec, CacheIsSound

\* orats/service.py:98-106, database/repositories/provider_operations.py:108-137 and the checkpoint
\* of data/provider_operations.py:92-97.  A page completed takes its run further or ends it, as
\* long as orats is given a cursor whenever there is more; what is committed of a job, its events
\* and an artifact stays as it was committed, and so does the first response accepted for a page.
THEOREM WhatWasBroughtInStands ==
    ASSUME "orats" \notin OmitsCursor
    PROVE  StorageSpec => BroughtInStands
  <1>1. KeptInv /\ [StorageNext]_allVars => [part = "paged" => Paged!PageAdvances]_<<pc, pagedVars>>
    BY OnePartSteps, PagesAdvance DEF KeptInv
  <1>2. KeptInv /\ [StorageNext]_allVars => [part = "store" => Store!KeepsHistory]_storeVars
    <2>1. KeptInv /\ part = "store" /\ Store!Next => Store!KeepsHistory
      BY StoreKeepsHistory DEF KeptInv
    <2> QED
      BY <2>1, OnePartSteps
  <1>3. KeptInv /\ [StorageNext]_allVars => [part = "desk" => Desk!KeepsResponses]_deskVars
    BY OnePartSteps, DeskKeepsResponses
  <1> QED
    BY <1>1, <1>2, <1>3, KeptAlways, PTL DEF StorageSpec, BroughtInStands

\* orats/service.py:53-106, databento/service.py:77-98, fixture_transport.py:55-81.  Whatever the
\* transport does, and over however many broken and resumed runs: a run of the adapters accepts
\* no row twice and none it refuses, every run holds each page it completed whole and no other,
\* and its caller has every row before the cursor returned, or of the provider once a run ends
\* without a failure; as long as orats is given a cursor whenever there is more.
THEOREM ImportsAreAlwaysWhole ==
    ASSUME "orats" \notin OmitsCursor
    PROVE  StorageSpec => []ImportsAreWhole
  <1> DEFINE Inv == part = "paged" => ImportInv
  <1>1. StorageInit => Inv
    BY ImportInit DEF StorageInit
  <1>2. Inv /\ [StorageNext]_allVars => Inv'
    BY OnePartSteps, ImportStep, ImportRestsStill
  <1>3. Inv => ImportsAreWhole
    BY ImportInvariantImplies DEF ImportsAreWhole
  <1> HIDE DEF Inv
  <1> QED
    BY <1>1, <1>2, <1>3, PTL DEF StorageSpec
=============================================================================
