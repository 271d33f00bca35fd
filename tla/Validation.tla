----------------------------- MODULE Validation -----------------------------
(* A validation study (validation/engine.py): the combinatorial splits of     *)
(* generate_cpcv_splits, one after another, with what the leakage controls    *)
(* keep of each; the probability of overfitting, from the ranks of the        *)
(* candidates inside and outside the sample; and the correction of p-values   *)
(* for multiple testing.                                                      *)
EXTENDS Integers, SequencesExt, FiniteSetsExt

CONSTANTS
    Histories,     \* sequences of records in order of time: [time, labelEnd, known, symbol]
    Groups,        \* n_groups
    TestGroups,    \* n_test_groups
    Purges, Embargoes,
    Candidates,    \* candidates, numbers in the order of their identifiers
    Metrics,       \* what a fold measures of one
    Folds,         \* folds of a profile
    PValues,       \* p-values, in units of 1 / Unit
    Tests,         \* how many are corrected together
    Unit,          \* 1 as a p-value: a multiple of 1 .. Tests
    Alpha          \* the level of significance

\* what is not labelled or known at a time of its own says -1 of it
IsHistory(h) ==
    /\ h \in Seq([time : Nat, labelEnd : Nat \cup {-1}, known : Nat \cup {-1}, symbol : STRING])
    /\ \A i, j \in DOMAIN h : i <= j => h[i].time <= h[j].time

ConstantsType ==
    /\ \A h \in Histories : IsHistory(h)
    /\ Groups \in Nat /\ TestGroups \in 1 .. Groups - 1 /\ Purges \cup Embargoes \subseteq Int
    /\ IsFiniteSet(Candidates) /\ Candidates # {} /\ Candidates \cup Metrics \subseteq Int
    /\ {Folds, Tests, Unit} \subseteq Nat /\ Alpha \in 0 .. Unit - 1
    /\ PValues \subseteq 0 .. Unit /\ \A k \in 1 .. Tests : \A p \in PValues : (p * Tests) % k = 0

VARIABLES
    records, purge, embargo, aware,
    todo,          \* the sets of test groups still to come
    splits,        \* the splits made: [test, kept]
    status,        \* "new", "splitting", "done", "raised"
    inside, outside, \* fold -> candidate -> metric in and out of sample
    pbo,           \* folds in which the winner degrades, -1 before
    oosWins,       \* folds in which it wins outside too
    pvalues,       \* the p-values being corrected
    holm, bh       \* their corrections

vars == <<records, purge, embargo, aware, todo, splits, status,
          inside, outside, pbo, oosWins, pvalues, holm, bh>>

None == -1

Init ==
    /\ records = <<>> /\ purge = 0 /\ embargo = 0 /\ aware = FALSE
    /\ todo = {} /\ splits = <<>> /\ status = "new"
    /\ inside = <<>> /\ outside = <<>> /\ pbo = None /\ oosWins = 0
    /\ pvalues = <<>> /\ holm = <<>> /\ bh = <<>>

-----------------------------------------------------------------------------
(* The splits.  The records are dealt to the groups in turn.                  *)
Group(i) == (i - 1) % Groups
Of(groups) == {i \in DOMAIN records : Group(i) \in groups}

Times(s) == {records[i].time : i \in s}

GenerateCpcvSplits(history, purgeDays, embargoDays, symbolAware) ==
    /\ status = "new"
    /\ records' = history /\ purge' = purgeDays /\ embargo' = embargoDays /\ aware' = symbolAware
    /\ todo' = kSubset(TestGroups, 0 .. Groups - 1)
    /\ status' = "splitting"
    /\ UNCHANGED <<splits, inside, outside, pbo, oosWins, pvalues, holm, bh>>

LeaksByTime(i, train, first, last) ==                               \* mutant
    LET t == records[i].time IN purge > 0 /\ first - purge <= t /\ t <= last

\* one record of the training, against the test window: the controls in order
Leaks(i, train, first, last) ==
    LET r == records[i]
        later == {k \in train : records[k].time >= first}
    IN  \/ r.labelEnd # None /\ r.labelEnd >= first
        \/ purge > 0 /\ r.time >= first - purge /\ r.time <= last
        \/ embargo > 0 /\ r.time > last /\ r.time <= last + embargo
        \/ r.known # None /\ r.known > first
        \/ aware /\ \E k \in later : records[k].symbol = r.symbol

\* combinations() yields them in order
NextTest == CHOOSE t \in todo : \A u \in todo : t = u \/ Min(SymDiff(t, u)) \in t

\* min() of an empty list raises, warning or not
Split ==
    /\ status = "splitting"
    /\ LET test  == Of(NextTest)
           train == Of((0 .. Groups - 1) \ NextTest)
           kept  == {i \in train : ~Leaks(i, train, Min(Times(test)), Max(Times(test)))}
       IN  IF test = {} \/ kept = {}
           THEN status' = "raised" /\ UNCHANGED <<todo, splits>>
           ELSE /\ splits' = Append(splits, [test |-> NextTest, kept |-> kept,
                                             leaked |-> kept # train])
                /\ todo' = todo \ {NextTest}
                /\ status' = IF todo' = {} THEN "done" ELSE status
    /\ UNCHANGED <<records, purge, embargo, aware, inside, outside, pbo, oosWins, pvalues, holm, bh>>

-----------------------------------------------------------------------------
(* The probability of backtest overfitting.                                   *)
Rank(fold, c) == 1 + Cardinality({d \in Candidates : fold[d] > fold[c] \/ (fold[d] = fold[c] /\ d < c)})
Winner(fold) == CHOOSE c \in Candidates : Rank(fold, c) = 1

ProbabilityOfOverfitting(ins, outs) ==
    /\ status = "new" /\ status' = "done"
    /\ inside' = ins /\ outside' = outs
    /\ oosWins' = Cardinality({f \in 1 .. Folds : Winner(ins[f]) = Winner(outs[f])})
    /\ pbo' = Cardinality({f \in 1 .. Folds : Rank(outs[f], Winner(ins[f])) - Rank(ins[f], Winner(ins[f])) > 0})
    /\ UNCHANGED <<records, purge, embargo, aware, todo, splits, pvalues, holm, bh>>

-----------------------------------------------------------------------------
(* Multiple testing: the p-values in their order, equal ones in the order     *)
(* given, and the running bound over them.                                    *)
Place(p, i) == 1 + Cardinality({j \in DOMAIN p : p[j] < p[i] \/ (p[j] = p[i] /\ j < i)})

HolmUnbounded(p) == [i \in DOMAIN p |-> Min({Unit, (Len(p) - Place(p, i) + 1) * p[i]})] \* mutant
Holm(p) ==
    [i \in DOMAIN p |->
        Max({Min({Unit, (Len(p) - Place(p, j) + 1) * p[j]}) :
                j \in {k \in DOMAIN p : Place(p, k) <= Place(p, i)}})]

BenjaminiHochberg(p) ==
    [i \in DOMAIN p |->
        Min({Min({Unit, (p[j] * Len(p)) \div Place(p, j)}) :
                j \in {k \in DOMAIN p : Place(p, k) >= Place(p, i)}})]

Correct(p) ==
    /\ status = "new" /\ status' = "done"
    /\ pvalues' = p /\ holm' = Holm(p) /\ bh' = BenjaminiHochberg(p)
    /\ UNCHANGED <<records, purge, embargo, aware, todo, splits, inside, outside, pbo, oosWins>>

Next ==
    \/ \E h \in Histories, p \in Purges, e \in Embargoes, a \in BOOLEAN :
           GenerateCpcvSplits(h, p, e, a)
    \/ Split
    \/ \E ins, outs \in [1 .. Folds -> [Candidates -> Metrics]] : ProbabilityOfOverfitting(ins, outs)
    \/ \E p \in [1 .. Tests -> PValues] : Correct(p)

Spec == Init /\ [][Next]_vars

-----------------------------------------------------------------------------
TypeOK ==
    /\ records \in Histories \cup {<<>>} /\ status \in {"new", "splitting", "done", "raised"}
    /\ \A i \in DOMAIN splits : splits[i].kept \subseteq DOMAIN records
    /\ pbo \in -1 .. Folds /\ oosWins \in 0 .. Folds

\* What a split trains on knows nothing of what it tests: no record of the
\* training is labelled, informed or, purged, taken from the test window on, and
\* a study that minds symbols trains on the time before the test alone
\* (_apply_leakage_filters).
NothingLeaks ==
    \A s \in ToSet(splits) :
        LET first == Min(Times(Of(s.test)))   last == Max(Times(Of(s.test)))
        IN  \A i \in s.kept :
              /\ Group(i) \notin s.test
              /\ records[i].labelEnd < first
              /\ records[i].known <= first
              /\ purge > 0 => records[i].time \notin first - purge .. last
              /\ embargo > 0 => records[i].time \notin last + 1 .. last + embargo
              /\ aware => records[i].time < first

\* A study that minds symbols or regimes, as one does by default, never ends: the
\* group dealt the first record is tested too, all the others begin no earlier,
\* nothing of them is kept, and the bounds of nothing raise before the warning
\* about it is returned (generate_cpcv_splits).
AwareStudiesRaise == aware => status # "done" /\ \A s \in ToSet(splits) : 0 \notin s.test

\* The overfitting probability is the share of the folds whose winner does not
\* win outside the sample, ties and all (probability_of_backtest_overfitting).
OverfittingIsLostWins == pbo # None => pbo + oosWins = Folds

\* The corrected p-values reject what the procedures they stand for reject: the
\* step-down of Holm, the step-up of Benjamini and Hochberg; and Holm, the
\* stricter, never rejects more (_holm, _benjamini_hochberg).
CorrectionsDecide ==
    pvalues # <<>> =>
        LET n == Len(pvalues)
            at(k) == CHOOSE i \in DOMAIN pvalues : Place(pvalues, i) = k
            down == {i \in DOMAIN pvalues : \A k \in 1 .. Place(pvalues, i) :
                        (n - k + 1) * pvalues[at(k)] <= Alpha}
            up == {i \in DOMAIN pvalues : \E k \in Place(pvalues, i) .. n :
                        n * pvalues[at(k)] <= k * Alpha}
        IN  /\ {i \in DOMAIN pvalues : holm[i] <= Alpha} = down
            /\ {i \in DOMAIN pvalues : bh[i] <= Alpha} = up
            /\ down \subseteq up
=============================================================================
