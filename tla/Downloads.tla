------------------------------ MODULE Downloads -----------------------------
(* The download manager (data/download/manager.py): callers run downloads of  *)
(* one key (provider, resource and destination), each a loop of attempts on a *)
(* transport that is not under src/, and what an attempt says of its progress *)
(* is kept under the key for the attempts and for the downloads after it.     *)
EXTENDS Integers, FiniteSetsExt

CONSTANTS
    Callers,       \* threads that download
    MaxRetries,    \* config.max_retries
    Size,          \* bytes of the resource
    BaseBackoff, MaxBackoff, \* seconds of a pause
    MaxRuns        \* bound: downloads begun

ConstantsType ==
    /\ MaxRetries \in Nat /\ Size \in Nat \ {0}
    /\ BaseBackoff \in Nat /\ MaxBackoff \in Int /\ MaxRuns \in Nat

VARIABLES
    saved,         \* the resume state under the key: bytes, or None
    calls,         \* caller -> the download it runs, or Idle
    runs,          \* downloads begun
    reported       \* the states attempts have reported

vars == <<saved, calls, runs, reported>>

None == -1
Idle == [step |-> "idle", attempt |-> 0, resume |-> None, outcome |-> "none", pause |-> 0]

Init ==
    /\ saved = None /\ calls = [c \in Callers |-> Idle] /\ runs = 0 /\ reported = {}

-----------------------------------------------------------------------------
RunDownload(c) ==
    /\ calls[c].step \in {"idle", "done"} /\ runs < MaxRuns
    /\ calls' = [calls EXCEPT ![c] =
                    [step |-> "attempt", attempt |-> 1, resume |-> saved, outcome |-> "none", pause |-> 0]]
    /\ runs' = runs + 1
    /\ UNCHANGED <<saved, reported>>

\* the hook is asked before every attempt; what was saved stays
Cancel(c) ==
    /\ calls[c].step = "attempt"
    /\ calls' = [calls EXCEPT ![c].step = "done", ![c].outcome = "cancelled"]
    /\ UNCHANGED <<saved, runs, reported>>

Attempt(c) ==
    /\ calls[c].step = "attempt"
    /\ calls' = [calls EXCEPT ![c].step = "waiting"]
    /\ UNCHANGED <<saved, runs, reported>>

BackoffSeconds(attempt) == Min({BaseBackoff * 2 ^ (attempt - 1), MaxBackoff})

ResumedAfresh(call, progress) == progress                           \* mutant
Resumed(call, progress) == IF progress = None THEN call.resume ELSE progress
KeptAlways(succeeded, progress) == IF progress = None THEN saved ELSE progress  \* mutant
Kept(succeeded, progress) == IF succeeded THEN None ELSE IF progress = None THEN saved ELSE progress

\* the transport answers: it may report progress, from what it was offered on
Answer(c, succeeded, progress) ==
    LET call   == calls[c]
        resume == Resumed(call, progress)
        again  == ~succeeded /\ call.attempt < MaxRetries + 1
    IN  /\ call.step = "waiting"
        /\ progress = None \/ progress >= call.resume
        /\ saved' = Kept(succeeded, progress)
        /\ reported' = IF progress = None THEN reported ELSE reported \cup {progress}
        /\ calls' = [calls EXCEPT ![c] =
              [step    |-> IF again THEN "sleeping" ELSE "done",
               attempt |-> call.attempt,
               resume  |-> resume,
               outcome |-> IF succeeded THEN "succeeded" ELSE "failed",
               pause   |-> IF again THEN BackoffSeconds(call.attempt) ELSE 0]]
        /\ UNCHANGED runs

WakeUpUncounted(c) ==                                               \* mutant
    /\ calls[c].step = "sleeping"
    /\ calls' = [calls EXCEPT ![c].step = "attempt", ![c].pause = 0]
    /\ UNCHANGED <<saved, runs, reported>>
WakeUp(c) ==
    /\ calls[c].step = "sleeping"
    /\ calls' = [calls EXCEPT ![c].step = "attempt", ![c].attempt = @ + 1, ![c].pause = 0]
    /\ UNCHANGED <<saved, runs, reported>>

ClearResumeState ==
    /\ saved # None
    /\ saved' = None
    /\ UNCHANGED <<calls, runs, reported>>

Step(c) ==
    \/ Cancel(c) \/ Attempt(c) \/ WakeUp(c)
    \/ \E succeeded \in BOOLEAN, progress \in {None} \cup 0 .. Size : Answer(c, succeeded, progress)

Next == ClearResumeState \/ \E c \in Callers : RunDownload(c) \/ Step(c)

\* the transport answers or times out, and the thread goes on
Fairness == \A c \in Callers : WF_vars(Step(c))

Spec == Init /\ [][Next]_vars /\ Fairness

-----------------------------------------------------------------------------
TypeOK ==
    /\ saved \in {None} \cup 0 .. Size /\ reported \subseteq 0 .. Size
    /\ \A c \in Callers : calls[c].attempt \in 0 .. MaxRetries + 1
                          /\ calls[c].step \in {"idle", "attempt", "waiting", "sleeping", "done"}
    /\ runs \in 0 .. MaxRuns

\* What a request offers to resume from was reported by an attempt of its key,
\* never less than the attempt before reported to the same download, and a
\* failed download has used all its attempts, paused longer each time up to the
\* limit (run_download, _backoff_seconds).
RetriesAreBounded ==
    \A c \in Callers :
        /\ calls[c].resume \in {None} \cup reported
        /\ calls[c].step = "done" /\ calls[c].outcome = "failed" => calls[c].attempt = MaxRetries + 1
        /\ calls[c].step = "sleeping" =>
               calls[c].pause <= MaxBackoff /\ (calls[c].attempt > 1 => calls[c].pause >= Min({2 * BaseBackoff, MaxBackoff}))
ProgressStays ==
    \A c \in Callers : calls[c].step \in {"waiting", "sleeping"} /\ calls'[c].step # "idle"
        => calls'[c].resume >= calls[c].resume
ProgressIsKept == [][ProgressStays]_vars

\* Only one download of a key at a time leaves nothing behind when it succeeds.
\* (Two share the state under the key: one's success drops what the other saved,
\* and the other saves again what the first had done with.)
SuccessLeavesNothing ==
    \A c \in Callers :
        calls[c].step = "done" /\ calls[c].outcome = "succeeded"
        /\ (\A d \in Callers \ {c} : calls[d].step = "idle") => saved = None

\* Every download comes to its end, whatever the transport answers.
DownloadsEnd == \A c \in Callers : calls[c].step = "attempt" ~> calls[c].step = "done"
=============================================================================
