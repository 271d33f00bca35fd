----------------------------- MODULE MCServices -----------------------------
(***************************************************************************)
(* The services a sidecar answers from memory, checked side by side: the   *)
(* strategy library (Structures, extended here), the registries, policy    *)
(* sets, rolls, optimisation, walk-forward and validation studies, and the *)
(* download manager.  Each behaviour runs one of them, the others rest.    *)
(***************************************************************************)
EXTENDS Structures, TLC

CONSTANTS
    Ids, Aliases, Versions, MaxSets, NoId,                          \* Registries
    Composed, Parameters, Contexts, Redirected, MaxAliases,         \* PolicySets
    Estimates, Fees, RollExpirations, Monthly, Limits, MaxRolls, TimeOut, LastDay, Unknown, \* Rolls
    Problems, Payloads, MaxWorkers, TopK,                           \* Optimization
    Configs, EndDates, LastDate, Trained, Scores,                   \* WalkForward
    Histories, Groups, TestGroups, Purges, Embargoes, Candidates, Metrics, Folds,
    PValues, Tests, Unit, Alpha,                                    \* Validation
    Callers, MaxRetries, Size, BaseBackoff, MaxBackoff, MaxRuns     \* Downloads

VARIABLES
    part,
    templates, templateAlias, rolls, rollAlias, policies, policyAlias, policySets, raised,
    parameters, aliases, set, context, signals, winner,
    phase,      \* of the rolls, the optimisation or the walk-forward study
    request, day, plan, plans, debits, credits, partial, elapsed,
    problem, mode, lexicographic, parents, candidates, started, judged, evaluations,
    splits,     \* of the walk-forward or the validation study
    config, end, cursor, at, folds, turnover, failures,
    records, purge, embargo, aware, todo, status, inside, outside, pbo, oosWins, pvalues, holm, bh,
    saved, calls, runs, reported

structureVars == <<template, selected, verdict, summary>>
registryVars == <<templates, templateAlias, rolls, rollAlias, policies, policyAlias, policySets, raised>>
policyVars == <<parameters, aliases, set, context, signals, winner>>
rollVars == <<request, day, plan, plans, debits, credits, partial, elapsed>>
searchVars == <<problem, mode, lexicographic, parents, candidates, started, judged, evaluations>>
walkVars == <<config, end, cursor, at, folds, turnover, failures>>
studyVars == <<records, purge, embargo, aware, todo, status, inside, outside, pbo, oosWins,
               pvalues, holm, bh>>
downloadVars == <<saved, calls, runs, reported>>
allVars == <<part, phase, splits, structureVars, registryVars, policyVars, rollVars, searchVars,
             walkVars, studyVars, downloadVars>>

Registry == INSTANCE Registries
Policy   == INSTANCE PolicySets
Roll     == INSTANCE Rolls WITH Expirations <- RollExpirations
Search   == INSTANCE Optimization
Walk     == INSTANCE WalkForward WITH Ids <- Trained
Study    == INSTANCE Validation
Download == INSTANCE Downloads

ASSUME ServiceConstants ==
    /\ Registry!ConstantsType /\ Policy!ConstantsType
    /\ Roll!ConstantsType /\ Walk!ConstantsType /\ Study!ConstantsType /\ Download!ConstantsType

-----------------------------------------------------------------------------
(* The instances.                                                             *)
AllGrids == {{}, {0, 1, 2, 3, 4}, {1, 3}}
MCComposed ==
    {[policies |-> <<"entry.iv_rank_floor", "exit.profit_target", "exit.stop_loss",
                     "earnings.avoid_near_event", "roll.delta_breach">>, mode |-> "first_match"],
     [policies |-> <<"delta_roll", "earnings_block", "management.roll_dte_window">>,
      mode |-> "all_match_diagnostics"],
     [policies |-> <<"management.roll_dte_window", "dividend.avoid_ex_div_window">>,
      mode |-> "priority_ordering"]}
\* as shipped, and a stop above the target with a window nothing blocks
MCParameters ==
    {[minimum |-> 20, target |-> 40, threshold |-> -25, max_dte |-> 14, min_days |-> 2,
      block_window |-> TRUE, limit |-> 35],
     [minimum |-> 20, target |-> 40, threshold |-> 40, max_dte |-> 14, min_days |-> 0,
      block_window |-> FALSE, limit |-> 35]}
MCContexts == [iv_rank : {20}, pnl_pct : {Unknown, -25, 40}, dte : {14}, earnings : {Unknown, 2, 3},
               delta : {Unknown, 35}, in_dividend_window : BOOLEAN]
MCEstimates == {-2, -1, 1, Unknown}
MCLimits == [minimumCredit : {Unknown, -1, 1}, maximumDebit : {Unknown, 1}, maximumCumulative : {Unknown, 1}]

\* A space of one integer; one of floats that overshoots its maximum by half a step; one that
\* overshoots by a third, with a hard and a soft constraint; one with a condition and a limit; one
\* with a dependency and a forbidden combination; and an empty range.
Parameter(name, kind, minimum, maximum, step, choices) ==
    [name |-> name, kind |-> kind, minimum |-> minimum, maximum |-> maximum, step |-> step,
     choices |-> choices]
Profit   == [metric |-> "ev", maximize |-> TRUE, weight |-> 2, missing |-> "fail"]
Drawdown == [metric |-> "drawdown", maximize |-> FALSE, weight |-> 1, missing |-> "zero"]
Simple == [parameters |-> <<Parameter("a", "integer", 0, 2, 1, <<>>)>>,
   conditionals |-> <<>>, dependencies |-> {}, forbidden |-> {}, limit |-> 0,
   objectives |-> <<Profit, Drawdown>>, constraints |-> {}, normalization |-> "min_max"]
MCProblems == {
  Simple,
  [Simple EXCEPT !.parameters = <<Parameter("a", "float", 0, 3, 2, <<>>)>>],
  [Simple EXCEPT !.parameters = <<Parameter("a", "float", 0, 5, 3, <<>>)>>,
      !.constraints = {[metric |-> "ev", hard |-> TRUE, operator |-> ">=", threshold |-> 1, penalty |-> 0],
                       [metric |-> "drawdown", hard |-> FALSE, operator |-> "<=", threshold |-> 1, penalty |-> 1]}],
  [Simple EXCEPT !.parameters = <<Parameter("a", "boolean", 0, 0, 0, <<>>), Parameter("b", "ordered", 0, 0, 0, <<1, 2>>)>>,
      !.conditionals = <<[parameter |-> "b", dependsOn |-> "a", allowed |-> {1}]>>, !.limit = 3,
      !.normalization = "none"],
  [Simple EXCEPT !.parameters = <<Parameter("a", "integer", 0, 2, 1, <<>>), Parameter("b", "integer", 1, 2, 1, <<>>)>>,
      !.dependencies = {[left |-> "a", operator |-> "<", right |-> "b"]},
      !.forbidden = {("a" :> 0 @@ "b" :> 1)}],
  [Simple EXCEPT !.parameters = <<Parameter("a", "integer", 2, 1, 1, <<>>)>>] }
Answer(metrics) == [raises |-> FALSE, metrics |-> metrics]
MCPayloads == {[raises |-> TRUE, metrics |-> <<>>], Answer([ev |-> 0, drawdown |-> 0]),
   Answer([ev |-> 2, drawdown |-> 0]), Answer([ev |-> 1, drawdown |-> 2]), Answer([drawdown |-> 1])}

MCConfigs == [mode : {"rolling", "anchored", "expanding"}, training : {0, 2}, validation : {1},
              test : {1, 2}, step : {1, 2}, purge : {-1, 0, 1}, embargo : {-1, 0, 1}]

\* Five records at equal, even and growing distances, each labelled or known at once or later.
Record(t, k) ==
    CASE k = 1 -> [time |-> t, labelEnd |-> -1, known |-> -1, symbol |-> "s"]
      [] k = 2 -> [time |-> t, labelEnd |-> t + 1, known |-> -1, symbol |-> "s"]
      [] k = 3 -> [time |-> t, labelEnd |-> -1, known |-> t + 2, symbol |-> "t"]
MCHistories == {[i \in 1 .. 5 |-> Record(t[i], k[i])] :
    t \in {<<0, 0, 1, 1, 2>>, <<0, 1, 2, 3, 4>>, <<0, 2, 4, 6, 7>>}, k \in [1 .. 5 -> 1 .. 3]}

-----------------------------------------------------------------------------
StructureRests == template = "rest" /\ selected = "rest" /\ verdict = "rest" /\ summary = "rest"
RegistryRests ==
    /\ templates = "rest" /\ templateAlias = "rest" /\ rolls = "rest" /\ rollAlias = "rest"
    /\ policies = "rest" /\ policyAlias = "rest" /\ policySets = "rest" /\ raised = "rest"
PolicyRests ==
    /\ parameters = "rest" /\ aliases = "rest" /\ set = "rest"
    /\ context = "rest" /\ signals = "rest" /\ winner = "rest"
RollRests ==
    /\ request = "rest" /\ day = "rest" /\ plan = "rest" /\ plans = "rest"
    /\ debits = "rest" /\ credits = "rest" /\ partial = "rest" /\ elapsed = "rest"
SearchRests ==
    /\ problem = "rest" /\ mode = "rest" /\ lexicographic = "rest" /\ parents = "rest"
    /\ candidates = "rest" /\ started = "rest" /\ judged = "rest" /\ evaluations = "rest"
WalkRests ==
    /\ config = "rest" /\ end = "rest" /\ cursor = "rest" /\ at = "rest"
    /\ folds = "rest" /\ turnover = "rest" /\ failures = "rest"
StudyRests ==
    /\ records = "rest" /\ purge = "rest" /\ embargo = "rest" /\ aware = "rest" /\ todo = "rest"
    /\ status = "rest" /\ inside = "rest" /\ outside = "rest" /\ pbo = "rest" /\ oosWins = "rest"
    /\ pvalues = "rest" /\ holm = "rest" /\ bh = "rest"
DownloadRests == saved = "rest" /\ calls = "rest" /\ runs = "rest" /\ reported = "rest"

OthersRest(p) ==
    /\ p # "structure" => StructureRests
    /\ p # "registry" => RegistryRests
    /\ p # "policy" => PolicyRests
    /\ p # "roll" => RollRests
    /\ p # "search" => SearchRests
    /\ p # "walk" => WalkRests
    /\ p # "study" => StudyRests
    /\ p # "download" => DownloadRests
    /\ p \notin {"roll", "search", "walk"} => phase = "rest"
    /\ p \notin {"walk", "study"} => splits = "rest"

ServicesInit ==
    \/ part = "structure" /\ Init /\ OthersRest("structure")
    \/ part = "registry" /\ Registry!Init /\ OthersRest("registry")
    \/ part = "policy" /\ Policy!Init /\ OthersRest("policy")
    \/ part = "roll" /\ Roll!Init /\ OthersRest("roll")
    \/ part = "search" /\ Search!Init /\ OthersRest("search")
    \/ part = "walk" /\ Walk!Init /\ OthersRest("walk")
    \/ part = "study" /\ Study!Init /\ OthersRest("study")
    \/ part = "download" /\ Download!Init /\ OthersRest("download")

OthersStay(p) ==
    /\ UNCHANGED part
    /\ p # "structure" => UNCHANGED structureVars
    /\ p # "registry" => UNCHANGED registryVars
    /\ p # "policy" => UNCHANGED policyVars
    /\ p # "roll" => UNCHANGED rollVars
    /\ p # "search" => UNCHANGED searchVars
    /\ p # "walk" => UNCHANGED walkVars
    /\ p # "study" => UNCHANGED studyVars
    /\ p # "download" => UNCHANGED downloadVars
    /\ p \notin {"roll", "search", "walk"} => UNCHANGED phase
    /\ p \notin {"walk", "study"} => UNCHANGED splits

StructureSteps == part = "structure" /\ Next /\ OthersStay("structure")
RegistrySteps == part = "registry" /\ Registry!Next /\ OthersStay("registry")
PolicySteps == part = "policy" /\ Policy!Next /\ OthersStay("policy")
RollSteps == part = "roll" /\ Roll!Next /\ OthersStay("roll")
SearchSteps == part = "search" /\ Search!Next /\ OthersStay("search")
WalkSteps == part = "walk" /\ Walk!Next /\ OthersStay("walk")
StudySteps == part = "study" /\ Study!Next /\ OthersStay("study")
DownloadSteps == part = "download" /\ Download!Next /\ OthersStay("download")

\* Where a service may come to rest: a search and the studies when they have answered or
\* raised, downloads when their callers are through; a registry never refuses another call.
Through ==
    /\ \/ part \in {"structure", "roll"}
       \/ part = "search" /\ phase \in {"ranked", "raised"}
       \/ part = "walk" /\ phase \in {"done", "raised", "overflowed"}
       \/ part = "study" /\ status \in {"done", "raised"}
       \/ part = "download" /\ \A c \in Callers : calls[c].step \in {"idle", "done"}
    /\ UNCHANGED allVars

ServicesNext ==
    \/ StructureSteps \/ RegistrySteps \/ PolicySteps \/ RollSteps
    \/ SearchSteps \/ WalkSteps \/ StudySteps \/ DownloadSteps \/ Through

\* The clock of a partial roll runs and a caller who would retry goes on asking; a transport answers or
\* times out, and a downloading thread goes on.
RollClock == part = "roll" /\ phase = "partial" /\ Roll!Wait /\ OthersStay("roll")
RollAsked == part = "roll" /\ Roll!Reconcile(TRUE) /\ OthersStay("roll")
DownloadOf(c) == part = "download" /\ Download!Step(c) /\ OthersStay("download")
ServicesSpec ==
    /\ ServicesInit /\ [][ServicesNext]_allVars
    /\ WF_allVars(RollClock) /\ WF_allVars(RollAsked)
    /\ \A c \in Callers : WF_allVars(DownloadOf(c))

-----------------------------------------------------------------------------
\* strategy_library.py.  For every template of the catalogue: the capital at risk of an accepted
\* structure is the worst that can happen to it at any price, profit and loss are separated by a
\* breakeven, and the payoff keeps the view the template is named for.
StructuresTellTheirRisk ==
    part = "structure" => TypeOK /\ CapitalAtRiskIsWorst /\ BreakevensSeparate /\ ViewIsKept

\* The registries of strategy_library.py, strategy_management.py, strategy_policy_library.py.
\* Every alias leads to a definition and every policy of a stored set resolves, whichever
\* registration raised half-way.
NamesLeadSomewhere == part = "registry" => Registry!TypeOK /\ Registry!SetsResolve /\ Registry!AliasesLead

\* strategy_policy_library.py, policies.py.  A stored set that lists the earnings policy lets no
\* signal that passed win near earnings, but where an alias leads it past the policy.
EarningsBlock == part = "policy" => Policy!TypeOK /\ Policy!EarningsBlock

\* strategy_management.py.  A position is rolled within its count, its debits pass the cap on
\* their sum by at most one roll, and the analytics over the plans tell the caller's own sums.
RollsAreAccounted == part = "roll" => Roll!TypeOK /\ Roll!RollsAreCapped /\ Roll!AnalyticsAgree

\* optimization/engine.py, execution.py.  Every candidate keeps one evaluation however many
\* workers finished in whatever order, ranking respects dominance, a refinement keeps the rules
\* and its parents, and a raising evaluator costs its own candidate alone.
SearchIsSound ==
    part = "search" =>
        /\ Search!TypeOK /\ Search!NothingDropped /\ Search!DominanceIsRespected
        /\ Search!RefinementKeepsParents /\ Search!FailureIsContained

\* optimization/walk_forward.py.  No split tests what it trained on, a study has every split
\* that fits, and each is folded once, as a selection or as a failure.
WalksLookBack == part = "walk" => Walk!TypeOK /\ Walk!SplitsLookBack /\ Walk!FoldsAreCounted

\* validation/engine.py.  What a split trains on knows nothing of what it tests, overfitting is
\* the share of lost wins, the corrections decide as the procedures they stand for; and a study
\* that minds symbols never ends.
StudiesAreSound ==
    part = "study" =>
        /\ Study!TypeOK /\ Study!NothingLeaks /\ Study!AwareStudiesRaise
        /\ Study!OverfittingIsLostWins /\ Study!CorrectionsDecide

\* data/download/manager.py.  A download resumes from what its key reported, fails only when
\* its attempts are used up, and alone leaves nothing behind when it succeeds.
RetriesAreBounded ==
    part = "download" => Download!TypeOK /\ Download!RetriesAreBounded /\ Download!SuccessLeavesNothing

\* What was settled stays: a name that resolves goes on resolving and moves at most once, to or
\* from the definition of that very name, and no answer or pause throws a download's progress away.
SettledStays ==
    /\ [][part = "registry" => Registry!NamesMoveOnce]_registryVars
    /\ [][part = "download" => Download!ProgressStays]_downloadVars

\* strategy_management.py, manager.py.  A position half a roll left naked does not stay naked,
\* and every download comes to its end whatever the transport answers.
BegunEnds ==
    LET naked == part = "roll" /\ phase = "partial" /\ partial.naked
    IN  /\ naked ~> ~naked
        /\ \A c \in Callers : (part = "download" /\ calls[c].step = "attempt")
                                  ~> (part = "download" /\ calls[c].step = "done")
=============================================================================
