---------------------------- MODULE Optimization ---------------------------
(* One optimisation run (optimization/engine.py, execution.py): the space is  *)
(* expanded into candidates, the candidates are evaluated one after another,  *)
(* in a pool of threads or first in a pool of processes, then scored, ranked  *)
(* and compared by dominance, and a refinement searches around the winners.   *)
(* The evaluator is not under src/: it answers anything or raises.            *)
EXTENDS Integers, SequencesExt, FiniteSetsExt, Functions

CONSTANTS
    Problems,      \* the problems posed
    Payloads,      \* what an evaluator does: [raises, metrics]
    MaxWorkers,    \* workers of a pool
    TopK           \* parents of a refinement

VARIABLES
    problem,
    mode,          \* "serial", "thread_pool", "process_pool"
    lexicographic, \* use_lexicographic
    phase,         \* "new", "pooled", "evaluating", "ranked", "raised"
    parents,       \* the candidates a refinement starts from, <<>> in a run
    candidates,    \* the candidates, in order: [id, parameters]
    started,       \* how many of them a worker has taken
    judged,        \* index -> evaluation, of those finished
    evaluations    \* the evaluations, ranked

vars == <<problem, mode, lexicographic, phase, parents, candidates, started, judged, evaluations>>

Absent  == -1000     \* a value that is not there
NoScore == -1000     \* no score, below every score

Init ==
    /\ problem \in Problems
    /\ mode \in {"serial", "thread_pool", "process_pool"} /\ lexicographic \in BOOLEAN
    /\ phase = "new" /\ parents = <<>> /\ candidates = <<>>
    /\ started = 0 /\ judged = <<>> /\ evaluations = <<>>

-----------------------------------------------------------------------------
(* The parameter space.  A range runs from minimum to maximum in steps; one   *)
(* of floats takes the nearest whole number of them, and may overshoot.       *)
Round(a, b) == \* half to even, a of any sign
    LET q == a \div b   r == a % b
    IN  IF 2 * r < b \/ (2 * r = b /\ q % 2 = 0) THEN q ELSE q + 1

IntegerRange(low, high, step) == [i \in 1 .. Max({0, (high - low) \div step + 1}) |-> low + (i - 1) * step]
FloatRange(low, high, step)   == [i \in 1 .. Max({0, Round(high - low, step) + 1}) |-> low + (i - 1) * step]

DomainOf(p) ==
    CASE p.kind = "integer" -> IntegerRange(p.minimum, p.maximum, p.step)
      [] p.kind = "float"   -> FloatRange(p.minimum, p.maximum, p.step)
      [] p.kind = "boolean" -> <<0, 1>>
      [] OTHER              -> p.choices

LocalDomain(p, value, width) ==
    LET low == Max({p.minimum, value - p.step * width})
        high == Min({p.maximum, value + p.step * width})
    IN  CASE p.kind = "integer" -> IntegerRange(low, high, p.step)
          [] p.kind = "float"   -> FloatRange(low, high, p.step)
          [] p.kind = "ordered" /\ value \in ToSet(p.choices) ->
                 LET at == CHOOSE i \in DOMAIN p.choices :
                               p.choices[i] = value /\ \A j \in 1 .. i - 1 : p.choices[j] # value
                 IN  SubSeq(p.choices, Max({1, at - width}), Min({Len(p.choices), at + width}))
          [] OTHER -> DomainOf(p)

ValidSpace(pb) ==
    \A i \in DOMAIN pb.parameters :
        LET p == pb.parameters[i]
        IN  CASE p.kind \in {"integer", "float"} -> p.step > 0 /\ p.minimum <= p.maximum
              [] p.kind = "boolean" -> TRUE
              [] OTHER -> p.choices # <<>>

\* the product of the domains of the parameters, in the order of their names:
\* the last one runs fastest
Product(parameters, domains) ==
    FoldLeft(LAMBDA rows, n :
        FlattenSeq([r \in DOMAIN rows |->
            [v \in DOMAIN domains[n] |->
                [k \in DOMAIN rows[r] \cup {parameters[n].name} |->
                    IF k = parameters[n].name THEN domains[n][v] ELSE rows[r][k]]]]),
        <<<<>>>>, [n \in DOMAIN parameters |-> n])

Get(parameters, key) == IF key \in DOMAIN parameters THEN parameters[key] ELSE Absent

\* a parameter whose condition does not hold is left out, one condition after another
ApplyConditionals(pb, parameters) ==
    FoldLeft(LAMBDA a, c : IF Get(a, c.dependsOn) \in c.allowed THEN a
                           ELSE Restrict(a, DOMAIN a \ {c.parameter}),
             parameters, pb.conditionals)

PassesDependencies(pb, parameters) ==
    \A rule \in pb.dependencies :
        LET left == Get(parameters, rule.left)   right == Get(parameters, rule.right)
        IN  /\ left # Absent /\ right # Absent
            /\ CASE rule.operator = "<"  -> left < right
                 [] rule.operator = "<=" -> left <= right
                 [] OTHER                -> left = right

Forbidden(pb, parameters) ==
    \E f \in pb.forbidden : \A k \in DOMAIN f : Get(parameters, k) = f[k]

Allowed(pb, parameters) == PassesDependencies(pb, parameters) /\ ~Forbidden(pb, parameters)

Limited(pb, s) == IF pb.limit = 0 THEN s ELSE SubSeq(s, 1, Min({Len(s), pb.limit}))

GenerateExhaustive(pb) ==
    LET rows == Product(pb.parameters, [n \in DOMAIN pb.parameters |-> DomainOf(pb.parameters[n])])
        all == [i \in DOMAIN rows |-> [id |-> i, parameters |-> ApplyConditionals(pb, rows[i])]]
    IN  Limited(pb, SelectSeq(all, LAMBDA c : Allowed(pb, c.parameters)))

\* around each parent in turn; a parent that lacks a parameter has no
\* neighbourhood, and the search raises
Searchable(pb, from) == \A i \in DOMAIN from : \A n \in DOMAIN pb.parameters :
    pb.parameters[n].name \in DOMAIN from[i].parameters

\* the first of each assignment
DedupeNothing(s) == s                                               \* mutant
Dedupe(s) ==
    LET First(i) == \A j \in 1 .. i - 1 : s[j].parameters # s[i].parameters
    IN  [i \in 1 .. Cardinality({k \in DOMAIN s : First(k)}) |->
            s[SetToSortSeq({k \in DOMAIN s : First(k)}, LAMBDA a, b : a < b)[i]]]

CoarseToFine(pb, from, width) ==
    LET around(parent) == Product(pb.parameters,
            [n \in DOMAIN pb.parameters |->
                LET p == pb.parameters[n] IN LocalDomain(p, parent.parameters[p.name], width)])
        rows == FlattenSeq([i \in DOMAIN from |->
            SelectSeq([r \in DOMAIN around(from[i]) |->
                          ApplyConditionals(pb, around(from[i])[r])],
                      LAMBDA a : Allowed(pb, a))])
    IN  Limited(pb, Dedupe([i \in DOMAIN rows |-> [id |-> i, parameters |-> rows[i]]]))

-----------------------------------------------------------------------------
(* The evaluation of one candidate.                                           *)
Compare(observed, c) == IF c.operator = ">=" THEN observed >= c.threshold ELSE observed <= c.threshold

Passed(c, metrics) == Get(metrics, c.metric) # Absent /\ Compare(metrics[c.metric], c)

EvaluateCandidate(pb, candidate, payload) ==
    [candidate |-> candidate,
     metrics   |-> IF payload.raises THEN <<>> ELSE payload.metrics,
     penalty   |-> IF payload.raises THEN 0
                   ELSE MapThenSumSet(LAMBDA c : c.penalty,
                            {c \in pb.constraints : ~c.hard /\ ~Passed(c, payload.metrics)}),
     status    |-> IF payload.raises THEN "failed"
                   ELSE IF \E c \in pb.constraints : c.hard /\ ~Passed(c, payload.metrics)
                        THEN "rejected" ELSE "succeeded"]

-----------------------------------------------------------------------------
(* Scores, in units of 1 / (Scale * the total weight): the metrics are whole  *)
(* and Scale is a multiple of every width they can span.                      *)
Scale == 2
Succeeded(evals) == {i \in DOMAIN evals : evals[i].status = "succeeded"}

Observed(evals, key) == {evals[i].metrics[key] : i \in {k \in Succeeded(evals) :
                                                           Get(evals[k].metrics, key) # Absent}}

\* a refinement always scales
MinMax == parents # <<>> \/ problem.normalization = "min_max"

NormalizeMetric(evals, i, key) ==
    LET seen == Observed(evals, key)
        width == Max(seen) - Min(seen)
    IN  IF ~MinMax THEN Get(evals[i].metrics, key) * Scale
        ELSE IF Get(evals[i].metrics, key) = Absent \/ width <= 0 THEN 0
        ELSE ((evals[i].metrics[key] - Min(seen)) * Scale) \div width

\* what an objective sees of an evaluation: scaled, a metric that is missing is
\* zero, whatever the policy for missing metrics, which decides for those that
\* were not scaled
ResolveMetric(evals, i, objective) ==
    IF i \in Succeeded(evals) /\ (MinMax \/ objective.metric \in DOMAIN evals[i].metrics)
    THEN NormalizeMetric(evals, i, objective.metric)
    ELSE IF objective.missing \in {"zero", "ignore"} THEN 0 ELSE Absent

Unsigned(objective, value) == value                                 \* mutant
Signed(objective, value) == IF objective.maximize THEN value ELSE -value
TotalWeight(pb) == MapThenSumSet(LAMBDA n : pb.objectives[n].weight, DOMAIN pb.objectives)

WeightedScore(pb, evals, i) ==
    LET value(n) == ResolveMetric(evals, i, pb.objectives[n])
    IN  IF TotalWeight(pb) <= 0 \/ \E n \in DOMAIN pb.objectives : value(n) = Absent THEN NoScore
        ELSE MapThenSumSet(LAMBDA n : Signed(pb.objectives[n], value(n)) * pb.objectives[n].weight,
                           DOMAIN pb.objectives)
             - evals[i].penalty * Scale * TotalWeight(pb)

LexicographicTuple(pb, evals, i) ==
    LET value(n) == ResolveMetric(evals, i, pb.objectives[n])
    IN  IF \E n \in DOMAIN pb.objectives : value(n) = Absent THEN <<>>
        ELSE [n \in DOMAIN pb.objectives |-> Signed(pb.objectives[n], value(n))]

\* tuples compare negated, a missing one before any
TupleBefore(a, b) ==
    \/ a = <<>> /\ b # <<>>
    \/ a # <<>> /\ b # <<>> /\ \E n \in DOMAIN a : a[n] > b[n] /\ \A m \in 1 .. n - 1 : a[m] = b[m]

RanksBefore(a, b) ==
    IF a.score # b.score
    THEN b.score = NoScore \/ (a.score # NoScore /\ a.score > b.score)
    ELSE \/ TupleBefore(a.tuple, b.tuple)
         \/ a.tuple = b.tuple /\ a.candidate.id < b.candidate.id

\* the failed ones keep no score and no tuple
AssignScores(pb, evals, useTuple) ==
    LET scored == [i \in DOMAIN evals |->
            [candidate |-> evals[i].candidate, metrics |-> evals[i].metrics,
             status |-> evals[i].status, penalty |-> evals[i].penalty,
             score |-> IF evals[i].status = "failed" THEN NoScore ELSE WeightedScore(pb, evals, i),
             tuple |-> IF evals[i].status = "failed" \/ ~useTuple THEN <<>>
                       ELSE LexicographicTuple(pb, evals, i)]]
    IN  SortSeq(scored, RanksBefore)

\* ranked again by score and identifier: the tuple does not count
SelectWinners(evals, k) ==
    LET able == SelectSeq(evals, LAMBDA e : e.status = "succeeded" /\ e.score # NoScore)
        sorted == SortSeq(able, LAMBDA a, b : a.score > b.score
                              \/ (a.score = b.score /\ a.candidate.id < b.candidate.id))
    IN  SubSeq(sorted, 1, Min({k, Len(sorted)}))

Dominates(pb, a, b) ==
    LET both == {n \in DOMAIN pb.objectives :
                    LET key == pb.objectives[n].metric
                    IN  Get(a.metrics, key) # Absent /\ Get(b.metrics, key) # Absent}
        better(n, x, y) == LET key == pb.objectives[n].metric
                           IN  IF pb.objectives[n].maximize THEN x.metrics[key] > y.metrics[key]
                               ELSE x.metrics[key] < y.metrics[key]
    IN  /\ \A n \in both : ~better(n, b, a)
        /\ \E n \in both : better(n, a, b)

ParetoFront(pb, evals) ==
    {e \in ToSet(evals) : e.status = "succeeded"
        /\ ~\E o \in ToSet(evals) : o.status = "succeeded" /\ Dominates(pb, o, e)}

-----------------------------------------------------------------------------
(* The run.                                                                   *)
EvaluateFrom(ready) ==
    /\ candidates' = ready
    /\ started' = 0 /\ judged' = <<>> /\ evaluations' = <<>>

Generate ==
    /\ phase = "new"
    /\ IF ~ValidSpace(problem)
       THEN phase' = "raised" /\ UNCHANGED <<candidates, started, judged, evaluations>>
       ELSE /\ phase' = IF mode = "process_pool" THEN "pooled" ELSE "evaluating"
            /\ EvaluateFrom(GenerateExhaustive(problem))
    /\ UNCHANGED <<problem, mode, lexicographic, parents>>

Capacity == IF mode = "thread_pool" \/ phase = "pooled" THEN MaxWorkers ELSE 1

Start ==
    /\ phase \in {"pooled", "evaluating"}
    /\ started < Len(candidates)
    /\ started - Cardinality(DOMAIN judged) < Capacity
    /\ started' = started + 1
    /\ UNCHANGED <<problem, mode, lexicographic, phase, parents, candidates, judged, evaluations>>

\* a worker of a thread pool, or the run itself, finishes any candidate begun
Finish(i, payload) ==
    /\ phase = "evaluating"
    /\ i \in 1 .. started \ DOMAIN judged
    /\ judged' = [k \in DOMAIN judged \cup {i} |->
                     IF k = i THEN EvaluateCandidate(problem, candidates[i], payload) ELSE judged[k]]
    /\ UNCHANGED <<problem, mode, lexicographic, phase, parents, candidates, started, evaluations>>

\* a worker process: what raises in it raises in the run, and what it answers
\* is only counted
PoolFinish(i, raises) ==
    /\ phase = "pooled"
    /\ i \in 1 .. started \ DOMAIN judged
    /\ IF raises
       THEN phase' = "raised" /\ UNCHANGED judged
       ELSE judged' = [k \in DOMAIN judged \cup {i} |-> <<>>] /\ UNCHANGED phase
    /\ UNCHANGED <<problem, mode, lexicographic, parents, candidates, started, evaluations>>

\* as_completed gives up while candidates are out
PoolTimeOut ==
    /\ phase = "pooled" /\ DOMAIN judged # DOMAIN candidates
    /\ phase' = "raised"
    /\ UNCHANGED <<problem, mode, lexicographic, parents, candidates, started, judged, evaluations>>

\* then the run begins again, in this process
Rerun ==
    /\ phase = "pooled" /\ DOMAIN judged = DOMAIN candidates
    /\ phase' = "evaluating"
    /\ EvaluateFrom(GenerateExhaustive(problem))
    /\ UNCHANGED <<problem, mode, lexicographic, parents>>

Rank ==
    /\ phase = "evaluating" /\ DOMAIN judged = DOMAIN candidates
    /\ phase' = "ranked"
    /\ evaluations' = AssignScores(problem, [i \in DOMAIN candidates |-> judged[i]], lexicographic)
    /\ UNCHANGED <<problem, mode, lexicographic, parents, candidates, started, judged>>

\* refine_run, in this process or in threads, by score alone
Refine ==
    /\ phase = "ranked" /\ parents = <<>> /\ mode # "process_pool"
    /\ LET from == [i \in DOMAIN SelectWinners(evaluations, TopK) |->
                       SelectWinners(evaluations, TopK)[i].candidate]
       IN  /\ from # <<>>
           /\ parents' = from
           /\ IF Searchable(problem, from)
              THEN phase' = "evaluating" /\ EvaluateFrom(CoarseToFine(problem, from, 1))
              ELSE phase' = "raised" /\ UNCHANGED <<candidates, started, judged, evaluations>>
    /\ lexicographic' = FALSE
    /\ UNCHANGED <<problem, mode>>

Next ==
    \/ Generate \/ Start \/ Rerun \/ Rank \/ Refine \/ PoolTimeOut
    \/ \E i \in DOMAIN candidates : (\E payload \in Payloads : Finish(i, payload))
                                    \/ (\E raises \in BOOLEAN : PoolFinish(i, raises))

Spec == Init /\ [][Next]_vars

-----------------------------------------------------------------------------
Complete == \A i \in Succeeded(evaluations) : \A n \in DOMAIN problem.objectives :
                problem.objectives[n].metric \in DOMAIN evaluations[i].metrics
Weighed == \A n \in DOMAIN problem.objectives : problem.objectives[n].weight > 0

TypeOK ==
    /\ problem \in Problems /\ lexicographic \in BOOLEAN
    /\ phase \in {"new", "pooled", "evaluating", "ranked", "raised"}
    /\ started \in 0 .. Len(candidates)
    /\ DOMAIN judged \subseteq 1 .. started
    /\ Len(parents) <= TopK

\* Rejected and failed candidates are retained: when a run is ranked every
\* candidate has exactly one evaluation, its own, however many workers finished
\* in whatever order (_evaluate_candidates, _assign_scores).
NothingDropped ==
    phase = "ranked" =>
        /\ Len(evaluations) = Len(candidates)
        /\ {e.candidate : e \in ToSet(evaluations)} = ToSet(candidates)

\* Score and dominance agree: with every metric there, positive weights and no
\* penalty, a candidate ranks before all it dominates, so the first winner is on
\* the front; and the front is empty only when nothing succeeded
\* (normalize_metrics, weighted_score, extract_front).
DominanceIsRespected ==
    phase = "ranked" /\ Complete /\ Weighed =>
        /\ \A i, j \in Succeeded(evaluations) :
              /\ Dominates(problem, evaluations[i], evaluations[j])
              /\ evaluations[i].penalty = 0
              => i < j
        /\ ParetoFront(problem, evaluations) = {} <=> Succeeded(evaluations) = {}

\* The neighbourhood of a value half a step past the maximum may end below it: the
\* number of steps left is rounded to even.
HalfPast(p, value) == p.kind = "float" /\ 2 * (value - p.maximum) = p.step

\* A refinement keeps to the rules of the space, tries no assignment twice, and
\* unless it is cut short or overshoots by half a step tries its own parents again
\* (coarse_to_fine, _local_domain).
RefinementKeepsParents ==
    LET again(parent) == \E c \in ToSet(candidates) : c.parameters = parent.parameters
        past(parent) == \E n \in DOMAIN problem.parameters :
            LET p == problem.parameters[n] IN HalfPast(p, parent.parameters[p.name])
    IN  parents # <<>> /\ phase # "raised" =>
            /\ \A i, j \in DOMAIN candidates :
                  /\ Allowed(problem, candidates[i].parameters)
                  /\ i # j => candidates[i].parameters # candidates[j].parameters
            /\ problem.limit = 0 => \A i \in DOMAIN parents : again(parents[i]) \/ past(parents[i])

\* An evaluator that raises costs its own candidate and no other: a run over a
\* valid space raises only in worker processes, or when it is to refine a
\* candidate that a condition robbed of a parameter.
FailureIsContained ==
    phase = "raised" =>
        \/ ~ValidSpace(problem)
        \/ mode = "process_pool"
        \/ parents # <<>> /\ problem.conditionals # <<>>
=============================================================================
