----------------------------- MODULE WalkForward ----------------------------
(* A walk-forward study (optimization/walk_forward.py, orchestration.py,      *)
(* selection.py): the history is cut into splits of a training, a validation  *)
(* and a test window, and on each split the best of the trained candidates is *)
(* tested.  A date is its distance from the start; Python's calendar ends at  *)
(* LastDate, past which a sum of dates raises.                                *)
EXTENDS Integers, SequencesExt, FiniteSetsExt

CONSTANTS
    Configs,       \* [mode, training, validation, test, step, purge, embargo]
    EndDates,      \* historical ends
    LastDate,      \* date.max
    Ids,           \* the trained candidates of a split, numbers in their order
    Scores         \* what the selection policy makes of a candidate

ConstantsType ==
    /\ LastDate \in Nat /\ EndDates \subseteq Int
    /\ \A e \in EndDates : e < LastDate
    /\ \A c \in Configs :
          {c.training, c.validation, c.test, c.step, c.purge, c.embargo} \subseteq Int

VARIABLES
    config, end,
    cursor,        \* where the next split begins
    splits,        \* the splits so far
    phase,         \* "new", "splitting", "folding", "done", "raised", "overflowed"
    at,            \* the split folded next
    folds,         \* the candidate selected in each fold that selected one
    turnover,      \* whether each of them differs from the one before
    failures       \* folds without a candidate

vars == <<config, end, cursor, splits, phase, at, folds, turnover, failures>>

Init ==
    /\ config \in Configs /\ end \in EndDates
    /\ cursor = 0 /\ splits = <<>> /\ phase = "new"
    /\ at = 1 /\ folds = <<>> /\ turnover = <<>> /\ failures = 0

-----------------------------------------------------------------------------
(* generate_splits                                                            *)
Refused ==
    \/ end <= 0
    \/ config.training <= 0 \/ config.validation <= 0 \/ config.test <= 0
    \/ config.step <= 0

\* the shortest history, counted without purge and embargo
TooShort == end + 1 < config.training + config.validation + config.test

Begin ==
    /\ phase = "new"
    /\ phase' = IF Refused THEN "raised" ELSE IF TooShort THEN "folding" ELSE "splitting"
    /\ UNCHANGED <<config, end, cursor, splits, at, folds, turnover, failures>>

\* only a rolling study follows the cursor
TrainStart == IF config.mode = "rolling" THEN cursor ELSE 0

\* the test window minds neither the purge nor the embargo
NextSplitOverlaps ==                                                \* mutant
    [trainStart |-> TrainStart, trainEnd |-> TrainStart + config.training - 1,
     valStart |-> TrainStart + config.training + config.purge,
     valEnd |-> TrainStart + config.training + config.purge + config.validation - 1,
     testStart |-> TrainStart + config.training + config.validation,
     testEnd |-> TrainStart + config.training + config.validation + config.test - 1]
NextSplit ==
    LET trainEnd == TrainStart + config.training - 1
        valStart == trainEnd + 1 + config.purge
        valEnd   == valStart + config.validation - 1
        testStart == valEnd + 1 + config.embargo
    IN  [trainStart |-> TrainStart, trainEnd |-> trainEnd,
         valStart |-> valStart, valEnd |-> valEnd,
         testStart |-> testStart, testEnd |-> testStart + config.test - 1]

\* _validate_no_look_ahead
InOrder(s) ==
    /\ s.trainStart <= s.trainEnd /\ s.trainEnd < s.valStart /\ s.valStart <= s.valEnd
    /\ s.valEnd < s.testStart /\ s.testStart <= s.testEnd

\* one of its dates is a sum past the calendar
Overflows == \E d \in DOMAIN NextSplit : NextSplit[d] > LastDate
Overflow ==
    /\ phase = "splitting" /\ Overflows
    /\ phase' = "overflowed"
    /\ UNCHANGED <<config, end, cursor, splits, at, folds, turnover, failures>>

AddSplit ==
    /\ phase = "splitting" /\ ~Overflows
    /\ NextSplit.testEnd <= end
    /\ \/ /\ ~InOrder(NextSplit)
          /\ phase' = "raised"
          /\ UNCHANGED <<splits, cursor>>
       \/ /\ InOrder(NextSplit)
          /\ splits' = Append(splits, NextSplit)
          /\ IF cursor + config.step > LastDate
             THEN phase' = "overflowed" /\ UNCHANGED cursor
             ELSE cursor' = cursor + config.step /\ UNCHANGED phase
    /\ UNCHANGED <<config, end, at, folds, turnover, failures>>

EndSplits ==
    /\ phase = "splitting" /\ ~Overflows
    /\ NextSplit.testEnd > end
    /\ phase' = "folding"
    /\ UNCHANGED <<config, end, cursor, splits, at, folds, turnover, failures>>

-----------------------------------------------------------------------------
(* The folds.  The candidates of a split are those that succeeded in the      *)
(* validation window, each with its score.                                    *)
Selected(scored) ==
    CHOOSE c \in DOMAIN scored :
        \A d \in DOMAIN scored : scored[c] > scored[d] \/ (scored[c] = scored[d] /\ c <= d)

Fold(scored) ==
    /\ phase = "folding" /\ at <= Len(splits)
    /\ at' = at + 1
    /\ IF DOMAIN scored = {}
       THEN failures' = failures + 1 /\ UNCHANGED <<folds, turnover>>
       ELSE /\ folds' = Append(folds, [split |-> at, candidate |-> Selected(scored)])
            /\ turnover' = Append(turnover, folds # <<>> /\ Last(folds).candidate # Selected(scored))
            /\ UNCHANGED failures
    /\ UNCHANGED <<config, end, cursor, splits, phase>>

\* an optimizer, an evaluator or the selection raises: the study has no result,
\* whatever was folded before
FoldRaises ==
    /\ phase = "folding" /\ at <= Len(splits)
    /\ phase' = "raised"
    /\ UNCHANGED <<config, end, cursor, splits, at, folds, turnover, failures>>

Aggregate ==
    /\ phase = "folding" /\ at > Len(splits)
    /\ phase' = "done"
    /\ UNCHANGED <<config, end, cursor, splits, at, folds, turnover, failures>>

Next ==
    \/ Begin \/ Overflow \/ AddSplit \/ EndSplits \/ FoldRaises \/ Aggregate
    \/ \E able \in SUBSET Ids : \E scored \in [able -> Scores] : Fold(scored)

Spec == Init /\ [][Next]_vars

-----------------------------------------------------------------------------
TypeOK ==
    /\ config \in Configs /\ end \in EndDates
    /\ cursor \in 0 .. LastDate
    /\ phase \in {"new", "splitting", "folding", "done", "raised", "overflowed"}
    /\ at \in 1 .. Len(splits) + 1 /\ failures \in Nat

\* No test day is a day of any training before it, its purge and its embargo
\* apart, no test window reaches past the history, and a rolling study has every
\* split that fits: its count is the one arithmetic gives (generate_splits).
SplitsLookBack ==
    /\ \A i \in DOMAIN splits :
          /\ splits[i].testEnd <= end
          /\ splits[i].trainEnd < splits[i].testStart
          /\ splits[i].valStart - splits[i].trainEnd = 1 + config.purge
    /\ phase \in {"folding", "done"} /\ config.purge >= 0 /\ config.embargo >= 0 =>
          LET span == config.training + config.validation + config.test + config.purge + config.embargo
          IN  Len(splits) = IF end + 1 < span THEN 0 ELSE (end + 1 - span) \div config.step + 1

\* Every split is folded once, with a candidate or as a failure, and the turnover
\* of the study is the number of times its selection changed, folds that failed
\* skipped (WalkForwardOrchestrator.run).
FoldsAreCounted ==
    /\ Len(folds) + failures = at - 1 /\ Len(turnover) = Len(folds)
    /\ Cardinality({i \in DOMAIN turnover : turnover[i]})
       = Cardinality({i \in DOMAIN folds : i > 1 /\ folds[i].candidate # folds[i - 1].candidate})

\* A supported split mode ends with its splits.
SupportedModesReturn == phase # "overflowed"
=============================================================================
