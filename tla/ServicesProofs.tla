--------------------------- MODULE ServicesProofs ---------------------------
(***************************************************************************)
(* Proofs about the services a sidecar answers from memory: the names they *)
(* register, the policies they evaluate, the studies they split and the    *)
(* downloads they retry, for every registry, calendar and transport.       *)
(***************************************************************************)
EXTENDS MCServices, FiniteSetTheorems, WellFoundedInduction, TLAPS

-----------------------------------------------------------------------------
(* The part that moves                                                       *)

\* A step of the services is one of the part that runs, which goes on running.
LEMMA OnePartMoves ==
  ASSUME ServicesNext \/ UNCHANGED allVars
  PROVE  /\ UNCHANGED part
         /\ part = "registry" => Registry!Next \/ UNCHANGED registryVars
         /\ part = "policy" => Policy!Next \/ UNCHANGED policyVars
         /\ part = "roll" => Roll!Next \/ UNCHANGED <<phase, rollVars>>
         /\ part = "walk" => Walk!Next \/ UNCHANGED <<phase, splits, walkVars>>
         /\ part = "study" => Study!Next \/ UNCHANGED <<splits, studyVars>>
         /\ part = "download" => Download!Next \/ UNCHANGED downloadVars
  <1>1. CASE UNCHANGED allVars
    BY <1>1 DEF allVars
  <1>2. CASE Through
    BY <1>2 DEF Through, allVars
  <1>3. CASE StructureSteps
    BY <1>3 DEF StructureSteps, OthersStay
  <1>4. CASE RegistrySteps
    BY <1>4 DEF RegistrySteps, OthersStay
  <1>5. CASE PolicySteps
    BY <1>5 DEF PolicySteps, OthersStay
  <1>6. CASE RollSteps
    BY <1>6 DEF RollSteps, OthersStay
  <1>7. CASE SearchSteps
    BY <1>7 DEF SearchSteps, OthersStay
  <1>8. CASE WalkSteps
    BY <1>8 DEF WalkSteps, OthersStay
  <1>9. CASE StudySteps
    BY <1>9 DEF StudySteps, OthersStay
  <1>10. CASE DownloadSteps
    BY <1>10 DEF DownloadSteps, OthersStay
  <1> QED
    BY <1>1, <1>2, <1>3, <1>4, <1>5, <1>6, <1>7, <1>8, <1>9, <1>10 DEF ServicesNext

LEMMA OnePartBegins ==
  ASSUME ServicesInit
  PROVE  /\ part = "registry" => Registry!Init
         /\ part = "policy" => Policy!Init
         /\ part = "roll" => Roll!Init
         /\ part = "walk" => Walk!Init
         /\ part = "study" => Study!Init
         /\ part = "download" => Download!Init
  BY DEF ServicesInit

-----------------------------------------------------------------------------
(* The registries                                                            *)

\* An alias is entered for a definition that is there, and a set for names that resolve.
AliasesInv ==
    /\ \A a \in DOMAIN templateAlias : templateAlias[a] \in DOMAIN templates
    /\ \A a \in DOMAIN rollAlias : rollAlias[a] \in DOMAIN rolls
    /\ \A a \in DOMAIN policyAlias : policyAlias[a] \in DOMAIN policies
RegistryInv == Registry!TypeOK /\ AliasesInv /\ Registry!SetsResolve

\* What stays of a registry: its definitions, and whom an alias leads to.
Grows(registry, names, registryAfter, namesAfter) ==
    /\ DOMAIN registry \subseteq DOMAIN registryAfter
    /\ DOMAIN names \subseteq DOMAIN namesAfter
    /\ \A a \in DOMAIN names : namesAfter[a] = names[a]

\* What becomes of a registry, by a registration whole or half-way.
Sound(registry, names) ==
    /\ DOMAIN registry \subseteq Ids /\ \A i \in DOMAIN registry : registry[i] \in Versions
    /\ DOMAIN names \subseteq Aliases /\ \A a \in DOMAIN names : names[a] \in DOMAIN registry

\* A definition is added or replaced.
LEMMA WithSound ==
  ASSUME NEW registry, NEW names, Sound(registry, names), NEW id \in Ids, NEW v \in Versions
  PROVE  LET after == Registry!With(registry, id, v)
         IN  Sound(after, names) /\ Grows(registry, names, after, names) /\ id \in DOMAIN after
  BY DEF Sound, Grows, Registry!With

\* Aliases are entered, those that are another definition's excepted.
LEMMA EnteredSound ==
  ASSUME NEW registry, NEW names, Sound(registry, names), NEW id \in DOMAIN registry,
         NEW wanted \in SUBSET Aliases, NEW done \in Registry!Entered(names, id, wanted)
  PROVE  LET after == Registry!EnterAliases(names, id, wanted, done)
         IN  Sound(registry, after) /\ Grows(registry, names, registry, after)
  <1>1. done \subseteq wanted \ Registry!Taken(names, id, wanted)
    BY DEF Registry!Entered
  <1>2. \A a \in done : a \in Aliases /\ (a \in DOMAIN names => names[a] = id)
    BY <1>1 DEF Registry!Taken
  <1> QED
    BY <1>2 DEF Sound, Grows, Registry!EnterAliases

RegistryMoves ==
    /\ Sound(templates', templateAlias') /\ Grows(templates, templateAlias, templates', templateAlias')
    /\ Sound(rolls', rollAlias') /\ Grows(rolls, rollAlias, rolls', rollAlias')
    /\ Sound(policies', policyAlias') /\ Grows(policies, policyAlias, policies', policyAlias')

LEMMA Registered ==
  ASSUME NEW registry, NEW names, Sound(registry, names), NEW id \in Ids, NEW v \in Versions,
         NEW wanted \in SUBSET Aliases, NEW done \in Registry!Entered(names, id, wanted)
  PROVE  LET after == Registry!With(registry, id, v)
             entered == Registry!EnterAliases(names, id, wanted, done)
         IN  Sound(after, entered) /\ Grows(registry, names, after, entered)
  <1> DEFINE after == Registry!With(registry, id, v)
             entered == Registry!EnterAliases(names, id, wanted, done)
  <1>1. Sound(after, names) /\ Grows(registry, names, after, names) /\ id \in DOMAIN after
    BY WithSound
  <1> HIDE DEF after
  <1>2. Sound(after, entered) /\ Grows(after, names, after, entered)
    BY <1>1, EnteredSound
  <1> QED
    BY <1>1, <1>2 DEF Grows, after

LEMMA TemplatesStep ==
  ASSUME RegistryInv, Registry!TemplateStep
  PROVE  RegistryMoves
  <1>0. /\ Sound(templates, templateAlias) /\ Sound(rolls, rollAlias) /\ Sound(policies, policyAlias)
        /\ UNCHANGED <<rolls, rollAlias, policies, policyAlias>>
    BY DEF RegistryInv, Registry!TypeOK, AliasesInv, Sound, Registry!TemplateStep, Registry!Register,
           Registry!RegisterPluginTemplate, Registry!others
  <1>1. Sound(templates', templateAlias') /\ Grows(templates, templateAlias, templates', templateAlias')
    <2>1. PICK id \in Ids, v \in Versions, wanted \in SUBSET Aliases :
              \/ Registry!Register(id, v, wanted)
              \/ templates' = Registry!With(templates, id, v) /\ UNCHANGED templateAlias
      BY DEF Registry!TemplateStep, Registry!RegisterPluginTemplate
    <2>2. CASE UNCHANGED <<templates, templateAlias>>
      BY <1>0, <2>2 DEF Grows
    <2>3. CASE templates' = Registry!With(templates, id, v) /\ UNCHANGED templateAlias
      BY <1>0, <2>3, WithSound
    <2>4. CASE /\ templates' = Registry!With(templates, id, v)
               /\ \E done \in Registry!Entered(templateAlias, id, wanted) :
                      templateAlias' = Registry!EnterAliases(templateAlias, id, wanted, done)
      BY <1>0, <2>4, Registered
    <2> QED
      BY <2>1, <2>2, <2>3, <2>4 DEF Registry!Register
  <1> QED
    BY <1>0, <1>1 DEF RegistryMoves, Grows

LEMMA RollPoliciesStep ==
  ASSUME RegistryInv, Registry!RollStep
  PROVE  RegistryMoves
  <1>0. /\ Sound(templates, templateAlias) /\ Sound(rolls, rollAlias) /\ Sound(policies, policyAlias)
        /\ UNCHANGED <<templates, templateAlias, policies, policyAlias>>
    BY DEF RegistryInv, Registry!TypeOK, AliasesInv, Sound, Registry!RollStep,
           Registry!RegisterRollPolicy, Registry!others
  <1>1. Sound(rolls', rollAlias') /\ Grows(rolls, rollAlias, rolls', rollAlias')
    <2>1. PICK id \in Ids, v \in Versions, wanted \in SUBSET Aliases :
              Registry!RegisterRollPolicy(id, v, wanted)
      BY DEF Registry!RollStep
    <2>2. CASE UNCHANGED <<rolls, rollAlias>>
      BY <1>0, <2>2 DEF Grows
    <2>3. CASE /\ rolls' = Registry!With(rolls, id, v)
               /\ \E done \in Registry!Entered(rollAlias, id, wanted) :
                      rollAlias' = Registry!EnterAliases(rollAlias, id, wanted, done)
      BY <1>0, <2>3, Registered
    <2> QED
      BY <2>1, <2>2, <2>3 DEF Registry!RegisterRollPolicy
  <1> QED
    BY <1>0, <1>1 DEF RegistryMoves, Grows

LEMMA PoliciesStep ==
  ASSUME RegistryInv, Registry!PolicyStep
  PROVE  RegistryMoves
  <1>0. /\ Sound(templates, templateAlias) /\ Sound(rolls, rollAlias) /\ Sound(policies, policyAlias)
        /\ UNCHANGED <<templates, templateAlias, rolls, rollAlias>>
    BY DEF RegistryInv, Registry!TypeOK, AliasesInv, Sound, Registry!PolicyStep, Registry!RegisterPolicy,
           Registry!RegisterAlias, Registry!RegisterPolicySet, Registry!others
  <1>1. Sound(policies', policyAlias') /\ Grows(policies, policyAlias, policies', policyAlias')
    <2>1. CASE UNCHANGED <<policies, policyAlias>>
      BY <1>0, <2>1 DEF Grows
    <2>2. CASE \E id \in Ids, v \in Versions : policies' = Registry!With(policies, id, v) /\ UNCHANGED policyAlias
      BY <1>0, <2>2, WithSound
    <2>3. CASE \E id \in Ids, a \in Aliases :
                   /\ id \in DOMAIN policies /\ (a \in DOMAIN policyAlias => policyAlias[a] = id)
                   /\ policyAlias' = Registry!With(policyAlias, a, id) /\ UNCHANGED policies
      BY <1>0, <2>3 DEF Sound, Grows, Registry!With
    <2> QED
      BY <2>1, <2>2, <2>3 DEF Registry!PolicyStep, Registry!RegisterPolicy, Registry!RegisterAlias,
         Registry!RegisterPolicySet
  <1> QED
    BY <1>0, <1>1 DEF RegistryMoves, Grows

LEMMA RegistryStep ==
  ASSUME RegistryInv, Registry!Next \/ UNCHANGED registryVars
  PROVE  RegistryMoves
  <1>1. CASE UNCHANGED registryVars
    BY <1>1 DEF registryVars, RegistryMoves, RegistryInv, Registry!TypeOK, AliasesInv, Sound, Grows
  <1> QED
    BY <1>1, TemplatesStep, RollPoliciesStep, PoliciesStep DEF Registry!Next

LEMMA RegistryConstants == NoId \notin Ids \cup Aliases
  BY ServiceConstants DEF ServiceConstants, Registry!ConstantsType

\* What a registry resolves it goes on resolving, and it moves at most once.
LEMMA NamesMoveStep ==
  ASSUME RegistryInv, RegistryMoves
  PROVE  Registry!NamesMoveOnce
  <1>0. Registry!TypeOK /\ AliasesInv
    BY DEF RegistryInv
  <1>1. ASSUME NEW n \in Ids \cup Aliases, Registry!ResolveTemplate(n) # NoId
        PROVE  Registry!ResolveTemplate(n)' \in {Registry!ResolveTemplate(n), n}
    BY <1>0, <1>1, RegistryConstants DEF RegistryMoves, Sound, Grows, Registry!TypeOK, AliasesInv,
       Registry!ResolveTemplate
  <1>2. ASSUME NEW n \in Ids \cup Aliases
        PROVE  /\ Registry!ResolveRollPolicy(n) \notin {NoId, n} =>
                      Registry!ResolveRollPolicy(n)' = Registry!ResolveRollPolicy(n)
               /\ Registry!ResolveRollPolicy(n) = n => Registry!ResolveRollPolicy(n)' # NoId
    BY <1>0, RegistryConstants DEF RegistryMoves, Sound, Grows, Registry!TypeOK, AliasesInv,
       Registry!ResolveRollPolicy
  <1>3. ASSUME NEW n \in Ids \cup Aliases
        PROVE  /\ Registry!ResolvePolicy(n) \notin {NoId, n} =>
                      Registry!ResolvePolicy(n)' = Registry!ResolvePolicy(n)
               /\ Registry!ResolvePolicy(n) = n => Registry!ResolvePolicy(n)' # NoId
    BY <1>0, RegistryConstants DEF RegistryMoves, Sound, Grows, Registry!TypeOK, AliasesInv,
       Registry!ResolvePolicy
  <1> QED
    BY <1>1, <1>2, <1>3 DEF Registry!NamesMoveOnce

\* The sets stored are those there were, and one whose names resolve.
SetsInv ==
    \A s \in DOMAIN policySets : s \in Ids \X Versions /\ policySets[s] \subseteq Ids \cup Aliases

LEMMA SetsStep ==
  ASSUME RegistryInv, RegistryMoves, Registry!Next \/ UNCHANGED registryVars
  PROVE  SetsInv' /\ Registry!SetsResolve'
  <1>0. SetsInv /\ Registry!SetsResolve /\ Registry!NamesMoveOnce
    BY NamesMoveStep DEF RegistryInv, Registry!TypeOK, SetsInv
  <1>1. \A n \in Ids \cup Aliases : Registry!ResolvePolicy(n) # NoId => Registry!ResolvePolicy(n)' # NoId
    BY <1>0 DEF Registry!NamesMoveOnce
  <1>2. CASE UNCHANGED policySets
    <2>1. SetsInv'
      BY <1>0, <1>2 DEF SetsInv
    <2>2. Registry!SetsResolve'
      BY <1>0, <1>1, <1>2 DEF SetsInv, Registry!SetsResolve
    <2> QED
      BY <2>1, <2>2
  <1>3. CASE \E set_ \in Ids, v \in Versions, names \in SUBSET (Ids \cup Aliases) :
                 /\ \A n \in names : Registry!ResolvePolicy(n) # NoId
                 /\ policySets' = Registry!With(policySets, <<set_, v>>, names)
    <2>1. PICK set_ \in Ids, v \in Versions, names \in SUBSET (Ids \cup Aliases) :
                 /\ \A n \in names : Registry!ResolvePolicy(n) # NoId
                 /\ policySets' = Registry!With(policySets, <<set_, v>>, names)
      BY <1>3
    <2>2. /\ DOMAIN policySets' = DOMAIN policySets \cup {<<set_, v>>}
          /\ \A s \in DOMAIN policySets' :
                policySets'[s] = IF s = <<set_, v>> THEN names ELSE policySets[s]
      BY <2>1 DEF Registry!With
    <2>3. SetsInv'
      BY <1>0, <2>1, <2>2 DEF SetsInv
    <2>4. Registry!SetsResolve'
      BY <1>0, <1>1, <2>1, <2>2 DEF SetsInv, Registry!SetsResolve
    <2> QED
      BY <2>3, <2>4
  <1>4. UNCHANGED policySets \/
            \E set_ \in Ids, v \in Versions, names \in SUBSET (Ids \cup Aliases) :
                 /\ \A n \in names : Registry!ResolvePolicy(n) # NoId
                 /\ policySets' = Registry!With(policySets, <<set_, v>>, names)
    <2>1. CASE Registry!TemplateStep
      BY <2>1 DEF Registry!TemplateStep, Registry!Register, Registry!RegisterPluginTemplate, Registry!others
    <2>2. CASE Registry!RollStep
      BY <2>2 DEF Registry!RollStep, Registry!RegisterRollPolicy, Registry!others
    <2>3. CASE Registry!PolicyStep
      BY <2>3 DEF Registry!PolicyStep, Registry!RegisterPolicy, Registry!RegisterAlias, Registry!RegisterPolicySet
    <2> QED
      BY <2>1, <2>2, <2>3 DEF Registry!Next, registryVars
  <1> QED
    BY <1>2, <1>3, <1>4

LEMMA RegistryKept ==
  ASSUME RegistryInv, Registry!Next \/ UNCHANGED registryVars
  PROVE  RegistryInv' /\ Registry!NamesMoveOnce
  <1>1. RegistryMoves
    BY RegistryStep
  <1>2. SetsInv' /\ Registry!SetsResolve' /\ Registry!NamesMoveOnce
    BY <1>1, SetsStep, NamesMoveStep
  <1>3. raised' \in BOOLEAN
    BY DEF RegistryInv, Registry!TypeOK, Registry!Next, Registry!TemplateStep, Registry!RollStep,
       Registry!PolicyStep, Registry!Register, Registry!RegisterPluginTemplate, Registry!RegisterRollPolicy,
       Registry!RegisterPolicy, Registry!RegisterAlias, Registry!RegisterPolicySet, registryVars
  <1>4. Registry!TypeOK'
    BY <1>1, <1>2, <1>3 DEF RegistryMoves, Sound, SetsInv, Registry!TypeOK
  <1>5. AliasesInv'
    BY <1>1 DEF RegistryMoves, Sound, AliasesInv
  <1> QED
    BY <1>2, <1>4, <1>5 DEF RegistryInv

LEMMA RegistryBegins == Registry!Init => RegistryInv
  <1> SUFFICES ASSUME Registry!Init PROVE RegistryInv
    OBVIOUS
  <1>1. /\ templates = <<>> /\ templateAlias = <<>> /\ rolls = <<>> /\ rollAlias = <<>>
        /\ policies = <<>> /\ policyAlias = <<>> /\ policySets = <<>> /\ raised = FALSE
    BY DEF Registry!Init
  <1>2. DOMAIN <<>> = {}
    OBVIOUS
  <1>3. Registry!TypeOK
    BY <1>1, <1>2 DEF Registry!TypeOK
  <1>4. AliasesInv /\ Registry!SetsResolve
    BY <1>1, <1>2 DEF AliasesInv, Registry!SetsResolve
  <1> QED
    BY <1>3, <1>4 DEF RegistryInv

LEMMA RegistryLeads == RegistryInv => Registry!AliasesLead
  BY RegistryConstants DEF RegistryInv, Registry!TypeOK, AliasesInv, Registry!AliasesLead,
     Registry!ResolveTemplate, Registry!ResolveRollPolicy, Registry!ResolvePolicy

\* StrategyTemplateRegistry, RollPolicyRegistry, StrategyPolicyRegistry: whatever is registered, in
\* whatever order and whichever call raises half-way, every alias leads to a definition and every
\* policy a stored set lists can be resolved.
THEOREM NamesAlwaysLead == ServicesSpec => []NamesLeadSomewhere
  <1> DEFINE Kept == part = "registry" => RegistryInv
  <1>1. ServicesInit => Kept
    BY OnePartBegins, RegistryBegins
  <1>2. Kept /\ [ServicesNext]_allVars => Kept'
    BY OnePartMoves, RegistryKept
  <1>3. Kept => NamesLeadSomewhere
    BY RegistryLeads DEF NamesLeadSomewhere, RegistryInv
  <1> QED
    BY <1>1, <1>2, <1>3, PTL DEF ServicesSpec

-----------------------------------------------------------------------------
(* Numbers                                                                   *)

\* A set of natural numbers that is not empty has a first member.
LEMMA FirstOf ==
    ASSUME NEW T, T \subseteq Nat, T # {}
    PROVE  \E x \in T : \A y \in T : x <= y
  <1> DEFINE Less == {ss \in Nat \X Nat : ss[1] < ss[2]}
  <1>1. IsWellFoundedOn(Less, Nat)
    BY NatLessThanWellFounded DEF OpToRel
  <1>2. \A x, y \in T : (y < x => <<y, x>> \in Less) /\ x \in Int /\ y \in Int
    OBVIOUS
  <1> HIDE DEF Less
  <1>3. \E x \in T : \A y \in T : ~ (<<y, x>> \in Less)
    BY <1>1, WFMin, Zenon
  <1>4. PICK x \in T : \A y \in T : ~ (<<y, x>> \in Less)
    BY <1>3
  <1>5. ASSUME NEW y \in T PROVE x <= y
    <2>1. x \in Int /\ y \in Int /\ ~(y < x)
      BY <1>2, <1>4
    <2> QED
      BY <2>1
  <1> QED
    BY <1>5

-----------------------------------------------------------------------------
(* The policy sets                                                           *)

PolicyNames == Policy!Policies \cup DOMAIN Policy!Shipped
Earnings == "earnings.avoid_near_event"

LEMMA SetsOfPolicies ==
  ASSUME NEW s \in Policy!Sets
  PROVE  s.policies \in Seq(PolicyNames)
  <1>1. CASE s = Policy!PmccCore
    BY <1>1 DEF Policy!PmccCore, PolicyNames, Policy!Policies, Policy!Evaluated
  <1>2. CASE s = Policy!WheelCore
    BY <1>2 DEF Policy!WheelCore, PolicyNames, Policy!Policies, Policy!Evaluated
  <1>3. CASE s \in Composed
    BY <1>3, ServiceConstants DEF ServiceConstants, Policy!ConstantsType, PolicyNames
  <1> QED
    BY <1>1, <1>2, <1>3 DEF Policy!Sets

\* The earnings policy goes ahead of every other.
LEMMA EarningsLead ==
  /\ \A p \in Policy!Policies : Policy!Priority[p] \in Nat
  /\ Earnings \in Policy!Policies /\ Policy!Mandatory(Earnings)
  /\ \A p \in Policy!Policies : Policy!Priority[p] <= Policy!Priority[Earnings] => p = Earnings
  <1>1. \A p \in Policy!Policies :
            p \in {"entry.iv_rank_floor", "exit.profit_target", "exit.stop_loss",
                   "management.roll_dte_window", "earnings.avoid_near_event",
                   "dividend.avoid_ex_div_window", "roll.delta_breach", "custom"}
    BY DEF Policy!Policies, Policy!Evaluated
  <1>2. /\ Policy!Priority["entry.iv_rank_floor"] = 40
        /\ Policy!Priority["management.roll_dte_window"] = 30
        /\ Policy!Priority["custom"] = 20
        /\ Policy!Priority["dividend.avoid_ex_div_window"] = 15
        /\ Policy!Priority["exit.profit_target"] = 10
        /\ Policy!Priority["exit.stop_loss"] = 5
        /\ Policy!Priority["roll.delta_breach"] = 3
        /\ Policy!Priority["earnings.avoid_near_event"] = 1
    BY DEF Policy!Priority, Policy!Policies, Policy!Evaluated
  <1>3. Earnings \in Policy!Policies /\ Policy!Mandatory(Earnings)
    BY DEF Earnings, Policy!Policies, Policy!Evaluated, Policy!Mandatory
  <1> QED
    BY <1>1, <1>2, <1>3 DEF Earnings

\* Of the signals that count one goes ahead of all.
LEMMA OneGoesAhead ==
  ASSUME NEW said, NEW n \in Nat, DOMAIN said = 1 .. n, n # 0,
         \A i \in 1 .. n : said[i].priority \in Nat
  PROVE  \E i \in Policy!Pool(said) : \A j \in Policy!Pool(said) : Policy!Ahead(said, i, j)
  <1> DEFINE pool == Policy!Pool(said)
             least == {said[i].priority : i \in pool}
  <1>1. pool \subseteq 1 .. n /\ pool # {}
    BY DEF Policy!Pool
  <1> HIDE DEF pool
  <1>2. PICK m \in least : \A k \in least : m <= k
    <2>1. least \subseteq Nat /\ least # {}
      BY <1>1
    <2> QED
      BY <2>1, FirstOf
  <1> DEFINE first == {i \in pool : said[i].priority = m}
  <1>3. PICK i \in first : \A j \in first : i <= j
    <2>1. PICK k \in pool : said[k].priority = m
      BY <1>2
    <2>2. first \subseteq pool /\ pool \subseteq Nat
      BY <1>1
    <2>3. first # {}
      BY <2>1
    <2> HIDE DEF first
    <2> QED
      BY <2>2, <2>3, FirstOf
  <1>4. ASSUME NEW j \in pool PROVE Policy!Ahead(said, i, j)
    <2>1. said[j].priority \in Nat /\ m \in Nat /\ m <= said[j].priority /\ said[i].priority = m
      BY <1>1, <1>2, <1>3
    <2>2. said[j].priority = m => i <= j
      BY <1>3
    <2> QED
      BY <2>1, <2>2 DEF Policy!Ahead
  <1> QED
    BY <1>3, <1>4 DEF pool

LEMMA ResolvesAhead ==
  ASSUME NEW said, NEW n \in Nat, DOMAIN said = 1 .. n, NEW m,
         \A i \in 1 .. n : said[i].priority \in Nat
  PROVE  /\ Policy!Resolve(said, m) \in DOMAIN said \cup {0}
         /\ Policy!Resolve(said, m) # 0 /\ m # "first_match" =>
                \A j \in Policy!Pool(said) : Policy!Ahead(said, Policy!Resolve(said, m), j)
  <1>1. CASE said = <<>>
    BY <1>1 DEF Policy!Resolve
  <1>2. CASE said # <<>>
    <2>1. n # 0
      <3>1. CASE n = 0
        <4>1. said = [i \in {} |-> 0] /\ <<>> = [i \in {} |-> 0]
          BY <3>1
        <4> QED
          BY <1>2, <4>1
      <3> QED
        BY <3>1
    <2>2. PICK i \in Policy!Pool(said) : \A j \in Policy!Pool(said) : Policy!Ahead(said, i, j)
      BY <2>1, OneGoesAhead
    <2>3. Policy!Pool(said) \subseteq DOMAIN said
      BY DEF Policy!Pool
    <2>4. Policy!Resolve(said, m) =
              IF m = "first_match" THEN 1
              ELSE CHOOSE k \in Policy!Pool(said) : \A j \in Policy!Pool(said) : Policy!Ahead(said, k, j)
      BY <1>2 DEF Policy!Resolve
    <2> QED
      BY <2>1, <2>2, <2>3, <2>4
  <1> QED
    BY <1>1, <1>2

\* An alias shipped leads where it did.
ShippedInv == \A a \in DOMAIN Policy!Shipped : a \in DOMAIN aliases /\ aliases[a] = Policy!Shipped[a]
PolicyInv == Policy!TypeOK /\ ShippedInv /\ Policy!EarningsBlock

LEMMA PolicyBegins == Policy!Init => PolicyInv
  <1> SUFFICES ASSUME Policy!Init PROVE PolicyInv
    OBVIOUS
  <1>1. context \in Contexts
    BY ServiceConstants DEF ServiceConstants, Policy!ConstantsType, Policy!Init
  <1>2. \A a \in DOMAIN Policy!Shipped : Policy!Shipped[a] \in Policy!Policies
    BY DEF Policy!Shipped, Policy!Policies, Policy!Evaluated
  <1>3. Policy!TypeOK /\ ShippedInv
    BY <1>1, <1>2 DEF Policy!Init, Policy!TypeOK, ShippedInv
  <1>4. Policy!EarningsBlock
    BY DEF Policy!Init, Policy!EarningsBlock
  <1> QED
    BY <1>3, <1>4 DEF PolicyInv

\* What a set is looked up by: the names it lists, and what they lead to.
LEMMA NamesLead ==
  ASSUME Policy!TypeOK, ShippedInv
  PROVE  /\ set.policies \in Seq(PolicyNames)
         /\ \A name \in PolicyNames : Policy!ResolvePolicy(name) \in Policy!Policies
  BY SetsOfPolicies DEF Policy!TypeOK, ShippedInv, PolicyNames, Policy!ResolvePolicy

LEMMA AliasStep ==
  ASSUME PolicyInv, NEW alias \in Redirected, NEW p \in Policy!Policies, Policy!RegisterAlias(alias, p)
  PROVE  PolicyInv'
  <1>1. /\ alias \notin DOMAIN aliases
        /\ aliases' = [a \in DOMAIN aliases \cup {alias} |-> IF a = alias THEN p ELSE aliases[a]]
        /\ UNCHANGED <<parameters, set, context, signals, winner>>
    BY DEF Policy!RegisterAlias
  <1>2. Policy!TypeOK' /\ ShippedInv'
    BY <1>1 DEF PolicyInv, Policy!TypeOK, ShippedInv
  <1>3. /\ DOMAIN aliases \subseteq DOMAIN aliases'
        /\ \A a \in DOMAIN aliases : aliases'[a] = aliases[a]
    BY <1>1
  <1>4. \A n : Policy!ResolvePolicy(Policy!ResolvePolicy(n))' = Policy!ResolvePolicy(n)' =>
                   Policy!ResolvePolicy(Policy!ResolvePolicy(n)) = Policy!ResolvePolicy(n)
    BY <1>3 DEF Policy!ResolvePolicy
  <1>5. Policy!EarningsBlock'
    BY <1>1, <1>3, <1>4 DEF PolicyInv, Policy!EarningsBlock
  <1> QED
    BY <1>2, <1>5 DEF PolicyInv

LEMMA EvaluateStep ==
  ASSUME PolicyInv, NEW c \in Contexts, Policy!EvaluatePolicySet(c)
  PROVE  PolicyInv'
  <1> DEFINE n == Len(set.policies)
             name(i) == set.policies[i]
  <1>0. Policy!TypeOK /\ ShippedInv
    BY DEF PolicyInv
  <1>1. context' = c /\ UNCHANGED <<parameters, aliases, set>>
    BY DEF Policy!EvaluatePolicySet
  <1>2. /\ n \in Nat /\ DOMAIN set.policies = 1 .. n
        /\ \A i \in 1 .. n : name(i) \in PolicyNames /\ Policy!ResolvePolicy(name(i)) \in Policy!Policies
    BY <1>0, NamesLead
  <1>3. CASE signals' = <<>> /\ winner' = 0
    BY <1>0, <1>1, <1>3 DEF PolicyInv, Policy!TypeOK, ShippedInv, Policy!EarningsBlock
  <1>4. CASE /\ signals' = [i \in DOMAIN set.policies |-> Policy!Signal(name(i), c)]
             /\ winner' = Policy!Resolve(signals', set.mode)
    <2>1. /\ DOMAIN signals' = 1 .. n
          /\ \A i \in 1 .. n :
                LET p == Policy!ResolvePolicy(name(i))
                IN  /\ signals'[i].policy = p /\ signals'[i].passed = Policy!EvaluatePolicy(p, c)
                    /\ signals'[i].priority = Policy!Priority[Policy!ResolvePolicy(p)]
      BY <1>2, <1>4 DEF Policy!Signal
    <2>2. \A i \in 1 .. n : signals'[i].priority \in Nat
      BY <1>0, <1>2, <2>1, EarningsLead, NamesLead DEF PolicyNames
    <2>3. /\ winner' \in DOMAIN signals' \cup {0}
          /\ winner' # 0 /\ set.mode # "first_match" =>
                 \A j \in Policy!Pool(signals') : Policy!Ahead(signals', winner', j)
      BY <1>2, <1>4, <2>1, <2>2, ResolvesAhead
    <2>4. Policy!TypeOK' /\ ShippedInv'
      BY <1>0, <1>1, <1>2, <2>1, <2>3 DEF Policy!TypeOK, ShippedInv
    <2>5. ASSUME winner' # 0, signals'[winner'].passed, set.mode # "first_match",
                 NEW e \in 1 .. n, name(e) \in {Earnings, "earnings_block"} /\
                                   (name(e) = Earnings => Earnings \notin DOMAIN aliases),
                 \A i \in 1 .. n : Policy!ResolvePolicy(Policy!ResolvePolicy(name(i)))
                                       = Policy!ResolvePolicy(name(i))
          PROVE  c.earnings # Unknown /\ c.earnings > parameters.min_days
      <3>1. "earnings_block" \in DOMAIN Policy!Shipped /\ Policy!Shipped["earnings_block"] = Earnings
        BY DEF Policy!Shipped, Earnings
      <3>2. Policy!ResolvePolicy(name(e)) = Earnings
        BY <1>0, <2>5, <3>1 DEF ShippedInv, Policy!ResolvePolicy
      <3>3. \A i \in 1 .. n : signals'[i].priority = Policy!Priority[signals'[i].policy]
        BY <2>1, <2>5
      <3>4. e \in Policy!Pool(signals')
        BY <2>1, <3>2, EarningsLead DEF Policy!Pool
      <3>5. Policy!Ahead(signals', winner', e) /\ winner' \in 1 .. n
        BY <2>1, <2>3, <2>5, <3>4
      <3>6. signals'[winner'].priority <= signals'[e].priority
        BY <2>2, <3>5 DEF Policy!Ahead
      <3>7. signals'[winner'].policy \in Policy!Policies /\ signals'[e].policy = Earnings
        BY <1>2, <2>1, <3>2, <3>5
      <3>8. signals'[winner'].policy = Earnings
        BY <3>3, <3>5, <3>6, <3>7, EarningsLead
      <3>9. Policy!EvaluatePolicy(Earnings, c)
        BY <2>1, <2>5, <3>5, <3>8
      <3> QED
        BY <3>9 DEF Policy!EvaluatePolicy, Earnings
    <2>6. Policy!EarningsBlock'
      BY <1>1, <1>2, <2>5 DEF Policy!EarningsBlock, Earnings, Policy!ResolvePolicy
    <2> QED
      BY <2>4, <2>6 DEF PolicyInv
  <1> QED
    BY <1>3, <1>4 DEF Policy!EvaluatePolicySet

LEMMA PolicyKept ==
  ASSUME PolicyInv, Policy!Next \/ UNCHANGED policyVars
  PROVE  PolicyInv'
  <1>1. CASE UNCHANGED policyVars
    BY <1>1 DEF policyVars, PolicyInv, Policy!TypeOK, ShippedInv, Policy!EarningsBlock, Policy!ResolvePolicy
  <1> QED
    BY <1>1, AliasStep, EvaluateStep DEF Policy!Next

\* evaluate_policy_set, register_alias: for every set composed of policies and their aliases, every
\* registered parameter and observation, and whatever aliases are registered between evaluations, a
\* set that lists the earnings policy lets no signal that passed win near earnings, but where an
\* alias leads it past the policy.
THEOREM EarningsAlwaysBlock == ServicesSpec => []EarningsBlock
  <1> DEFINE Kept == part = "policy" => PolicyInv
  <1>1. ServicesInit => Kept
    BY OnePartBegins, PolicyBegins
  <1>2. Kept /\ [ServicesNext]_allVars => Kept'
    BY OnePartMoves, PolicyKept
  <1>3. Kept => EarningsBlock
    BY DEF EarningsBlock, PolicyInv
  <1> QED
    BY <1>1, <1>2, <1>3, PTL DEF ServicesSpec

-----------------------------------------------------------------------------
(* The downloads                                                             *)

DownloadSteps_of_a_call == {"idle", "attempt", "waiting", "sleeping", "done"}
DownloadAttempts == 0 .. MaxRetries + 1
DownloadCall ==
    [step : DownloadSteps_of_a_call, attempt : DownloadAttempts, resume : {Download!None} \cup 0 .. Size,
     outcome : {"none", "cancelled", "succeeded", "failed"}, pause : Int]

\* What is offered to resume from was reported, a call that has begun counts its attempts from
\* one, leaves one over while it sleeps, and has used them up when it has failed.
DownloadCallSound(call, heard) ==
    /\ call.resume \in {Download!None} \cup heard
    /\ call.step # "idle" => call.attempt >= 1
    /\ call.step = "sleeping" => /\ call.attempt <= MaxRetries
                                 /\ call.pause = Download!BackoffSeconds(call.attempt)
    /\ call.step = "done" /\ call.outcome = "failed" => call.attempt = MaxRetries + 1
DownloadCallsInv ==
    /\ calls \in [Callers -> DownloadCall]
    /\ \A c \in Callers : DownloadCallSound(calls[c], reported)

DownloadInv ==
    /\ saved \in {Download!None} \cup reported /\ reported \subseteq 0 .. Size /\ runs \in 0 .. MaxRuns
    /\ DownloadCallsInv /\ Download!SuccessLeavesNothing

LEMMA DownloadConstants ==
  /\ MaxRetries \in Nat /\ Size \in Nat /\ BaseBackoff \in Nat /\ MaxBackoff \in Int /\ MaxRuns \in Nat
  BY ServiceConstants DEF ServiceConstants, Download!ConstantsType

\* Two to the n counts the subsets of 1 .. n, so it is two at least from the first on.
LEMMA PowerOfTwo ==
  ASSUME NEW n \in Nat
  PROVE  2 ^ n \in Nat /\ (n >= 1 => 2 ^ n >= 2)
  <1>1. IsFiniteSet(1 .. n) /\ Cardinality(1 .. n) = n
    BY FS_Interval
  <1>2. IsFiniteSet(SUBSET (1 .. n)) /\ Cardinality(SUBSET (1 .. n)) = 2 ^ n
    BY <1>1, FS_SUBSET
  <1>3. 2 ^ n \in Nat
    BY <1>2, FS_CardinalityType
  <1>4. ASSUME n >= 1 PROVE 2 ^ n >= 2
    <2>1. {{}, {1}} \subseteq SUBSET (1 .. n)
      BY <1>4
    <2>2. IsFiniteSet({{}}) /\ Cardinality({{}}) = 1
      BY FS_Singleton
    <2>3. Cardinality({{}} \cup {{1}}) = 2
      <3> DEFINE none == {{}}
                 one == {1}
      <3>1. one \notin none
        OBVIOUS
      <3>2. IsFiniteSet(none) /\ Cardinality(none) = 1
        BY <2>2
      <3> HIDE DEF none, one
      <3>3. Cardinality(none \cup {one}) = 2
        BY <3>1, <3>2, FS_AddElement
      <3> QED
        BY <3>3 DEF none, one
    <2>4. {{}} \cup {{1}} = {{}, {1}}
      OBVIOUS
    <2> QED
      BY <1>2, <1>3, <2>1, <2>3, <2>4, FS_Subset
  <1> QED
    BY <1>3, <1>4

\* A pause is the doubled base or the limit, whichever is less.
LEMMA MinOfTwo ==
  ASSUME NEW a \in Int, NEW b \in Int
  PROVE  Download!Min({a, b}) = IF a <= b THEN a ELSE b
  BY DEF Download!Min

LEMMA Backoff ==
  ASSUME NEW a \in 1 .. MaxRetries + 1
  PROVE  LET pause == Download!BackoffSeconds(a)
         IN  /\ pause \in Int /\ pause <= MaxBackoff
             /\ a > 1 => pause >= Download!Min({2 * BaseBackoff, MaxBackoff})
  <1> DEFINE p == 2 ^ (a - 1)
  <1>1. a \in Int /\ a - 1 \in Nat
    BY DownloadConstants
  <1>2. p \in Nat /\ (a > 1 => p >= 2)
    BY <1>1, PowerOfTwo
  <1>3. Download!BackoffSeconds(a) = Download!Min({BaseBackoff * p, MaxBackoff})
    BY DEF Download!BackoffSeconds
  <1> HIDE DEF p
  <1>4. BaseBackoff * p \in Int /\ 2 * BaseBackoff \in Int
    BY <1>2, DownloadConstants
  <1>5. a > 1 => BaseBackoff * p >= 2 * BaseBackoff
    BY <1>2, DownloadConstants
  <1> HIDE DEF p
  <1>6. Download!BackoffSeconds(a) = IF BaseBackoff * p <= MaxBackoff THEN BaseBackoff * p ELSE MaxBackoff
    BY <1>3, <1>4, MinOfTwo, DownloadConstants
  <1>7. Download!Min({2 * BaseBackoff, MaxBackoff}) =
            IF 2 * BaseBackoff <= MaxBackoff THEN 2 * BaseBackoff ELSE MaxBackoff
    BY <1>4, MinOfTwo, DownloadConstants
  <1> DEFINE q == BaseBackoff * p
  <1>8. q \in Int /\ (a > 1 => q >= 2 * BaseBackoff)
    BY <1>4, <1>5
  <1>9. Download!BackoffSeconds(a) = IF q <= MaxBackoff THEN q ELSE MaxBackoff
    BY <1>6
  <1> HIDE DEF q
  <1> QED
    BY <1>4, <1>7, <1>8, <1>9, DownloadConstants

\* One call moves on, to a sound one; a state more may have been reported.
LEMMA CallMoves ==
  ASSUME DownloadCallsInv, NEW c \in Callers, NEW call \in DownloadCall,
         reported \subseteq reported', DownloadCallSound(call, reported'),
         calls' = [calls EXCEPT ![c] = call]
  PROVE  DownloadCallsInv' /\ calls'[c] = call /\ \A d \in Callers \ {c} : calls'[d] = calls[d]
  <1>1. calls' \in [Callers -> DownloadCall]
    BY DEF DownloadCallsInv
  <1>2. calls'[c] = call /\ \A d \in Callers \ {c} : calls'[d] = calls[d]
    BY DEF DownloadCallsInv
  <1>3. \A d \in Callers : DownloadCallSound(calls'[d], reported')
    BY <1>2 DEF DownloadCallsInv, DownloadCallSound
  <1> QED
    BY <1>1, <1>2, <1>3 DEF DownloadCallsInv

\* A call that does not end in success, and does not become idle, leaves the others alone.
LEMMA OthersNotAlone ==
  ASSUME DownloadCallsInv, Download!SuccessLeavesNothing, NEW c \in Callers, calls'[c].step # "idle",
         \A d \in Callers \ {c} : calls'[d] = calls[d],
         calls'[c].step = "done" /\ calls'[c].outcome = "succeeded" => saved' = Download!None
  PROVE  Download!SuccessLeavesNothing'
  BY DEF Download!SuccessLeavesNothing

\* What one call does to the downloads, in its own words.
LEMMA DownloadMoves ==
  ASSUME DownloadInv, NEW c \in Callers, NEW call \in DownloadCall,
         reported \subseteq reported', reported' \subseteq 0 .. Size, DownloadCallSound(call, reported'),
         calls' = [calls EXCEPT ![c] = call],
         saved' \in {Download!None} \cup reported', runs' \in 0 .. MaxRuns, call.step # "idle",
         call.step = "done" /\ call.outcome = "succeeded" => saved' = Download!None,
         calls[c].step \in {"waiting", "sleeping"} => call.resume >= calls[c].resume
  PROVE  DownloadInv' /\ Download!ProgressStays
  <1>0. DownloadCallsInv /\ Download!SuccessLeavesNothing
    BY DEF DownloadInv
  <1>1. DownloadCallsInv' /\ calls'[c] = call /\ \A d \in Callers \ {c} : calls'[d] = calls[d]
    BY <1>0, CallMoves
  <1>2. Download!SuccessLeavesNothing'
    BY <1>0, <1>1, OthersNotAlone
  <1>3. \A d \in Callers : calls[d].resume \in Int
    BY <1>0, DownloadConstants DEF DownloadCallsInv, DownloadCall, DownloadAttempts, Download!None
  <1>4. Download!ProgressStays
    BY <1>1, <1>3 DEF Download!ProgressStays
  <1> QED
    BY <1>1, <1>2, <1>4 DEF DownloadInv

LEMMA RunDownloadStep ==
  ASSUME DownloadInv, NEW c \in Callers, Download!RunDownload(c)
  PROVE  DownloadInv' /\ Download!ProgressStays
  <1> DEFINE call == [step |-> "attempt", attempt |-> 1, resume |-> saved, outcome |-> "none", pause |-> 0]
  <1>1. /\ calls' = [calls EXCEPT ![c] = call] /\ saved' = saved /\ reported' = reported
        /\ calls[c].step \in {"idle", "done"} /\ runs' = runs + 1 /\ runs < MaxRuns
    BY DEF Download!RunDownload
  <1>2. /\ saved \in {Download!None} \cup reported /\ reported \subseteq 0 .. Size
        /\ runs \in 0 .. MaxRuns
    BY DEF DownloadInv
  <1>6. saved \in {Download!None} \cup 0 .. Size
    BY <1>2
  <1>9. 1 \in 0 .. MaxRetries + 1
    BY DownloadConstants
  <1>7. call \in DownloadCall
    BY <1>6, <1>9 DEF DownloadCall, DownloadAttempts, DownloadSteps_of_a_call
  <1>8. /\ call.step = "attempt" /\ call.attempt = 1 /\ call.resume = saved
    OBVIOUS
  <1>3. call \in DownloadCall /\ DownloadCallSound(call, reported)
    <2> HIDE DEF call
    <2> QED
      BY <1>2, <1>7, <1>8 DEF DownloadCallSound
  <1>4. runs' \in 0 .. MaxRuns
    BY <1>1, <1>2, DownloadConstants
  <1>5. call.step = "attempt"
    OBVIOUS
  <1> HIDE DEF call
  <1> QED
    BY <1>1, <1>2, <1>3, <1>4, <1>5, DownloadMoves

\* What a step of one call finds.
LEMMA DownloadCallKnown ==
  ASSUME DownloadInv, NEW c \in Callers
  PROVE  /\ calls[c] \in DownloadCall /\ DownloadCallSound(calls[c], reported)
         /\ saved \in {Download!None} \cup reported /\ reported \subseteq 0 .. Size
         /\ runs \in 0 .. MaxRuns /\ calls[c].resume \in Int /\ calls[c].attempt \in Nat
  BY DownloadConstants DEF DownloadInv, DownloadCallsInv, DownloadCall, DownloadAttempts, Download!None

LEMMA CancelStep ==
  ASSUME DownloadInv, NEW c \in Callers, Download!Cancel(c)
  PROVE  DownloadInv' /\ Download!ProgressStays
  <1> DEFINE call == [calls[c] EXCEPT !.step = "done", !.outcome = "cancelled"]
  <1>1. /\ calls' = [calls EXCEPT ![c] = call] /\ UNCHANGED <<saved, reported, runs>>
        /\ calls[c].step = "attempt"
    BY DEF Download!Cancel
  <1>2. /\ call \in DownloadCall /\ call.step = "done" /\ call.outcome = "cancelled"
        /\ call.resume = calls[c].resume /\ call.attempt = calls[c].attempt
    BY DownloadCallKnown DEF DownloadCall, DownloadAttempts, DownloadSteps_of_a_call
  <1> HIDE DEF call
  <1>3. DownloadCallSound(call, reported)
    BY <1>1, <1>2, DownloadCallKnown DEF DownloadCallSound
  <1> QED
    BY <1>1, <1>2, <1>3, DownloadCallKnown, DownloadMoves

LEMMA AttemptStep ==
  ASSUME DownloadInv, NEW c \in Callers, Download!Attempt(c)
  PROVE  DownloadInv' /\ Download!ProgressStays
  <1> DEFINE call == [calls[c] EXCEPT !.step = "waiting"]
  <1>1. /\ calls' = [calls EXCEPT ![c] = call] /\ UNCHANGED <<saved, reported, runs>>
        /\ calls[c].step = "attempt"
    BY DEF Download!Attempt
  <1>2. /\ call \in DownloadCall /\ call.step = "waiting"
        /\ call.resume = calls[c].resume /\ call.attempt = calls[c].attempt
    BY DownloadCallKnown DEF DownloadCall, DownloadAttempts, DownloadSteps_of_a_call
  <1> HIDE DEF call
  <1>3. DownloadCallSound(call, reported)
    BY <1>1, <1>2, DownloadCallKnown DEF DownloadCallSound
  <1> QED
    BY <1>1, <1>2, <1>3, DownloadCallKnown, DownloadMoves

LEMMA WakeUpStep ==
  ASSUME DownloadInv, NEW c \in Callers, Download!WakeUp(c)
  PROVE  DownloadInv' /\ Download!ProgressStays
  <1> DEFINE call == [calls[c] EXCEPT !.step = "attempt", !.attempt = @ + 1, !.pause = 0]
  <1>1. /\ calls' = [calls EXCEPT ![c] = call] /\ UNCHANGED <<saved, reported, runs>>
        /\ calls[c].step = "sleeping"
    BY DEF Download!WakeUp
  <1>2. calls[c].attempt <= MaxRetries /\ calls[c].attempt >= 1
    BY <1>1, DownloadCallKnown DEF DownloadCallSound
  <1>3. calls[c].attempt + 1 \in 0 .. MaxRetries + 1
    BY <1>2, DownloadCallKnown, DownloadConstants
  <1>6. calls[c] \in DownloadCall
    BY DownloadCallKnown
  <1>4. /\ call \in DownloadCall /\ call.step = "attempt"
        /\ call.resume = calls[c].resume /\ call.attempt = calls[c].attempt + 1
    <2> DEFINE After(e, n, z) == [e EXCEPT !.step = "attempt", !.attempt = n, !.pause = z]
    <2>1. \A e \in DownloadCall, n \in DownloadAttempts, z \in Int :
              /\ After(e, n, z) \in DownloadCall /\ After(e, n, z).step = "attempt"
              /\ After(e, n, z).resume = e.resume /\ After(e, n, z).attempt = n
      BY DEF DownloadCall, DownloadSteps_of_a_call
    <2>3. call = After(calls[c], calls[c].attempt + 1, 0)
      OBVIOUS
    <2> HIDE DEF After, call
    <2>2. calls[c].attempt + 1 \in DownloadAttempts
      BY <1>3 DEF DownloadAttempts
    <2> QED
      BY <1>6, <2>1, <2>2, <2>3
  <1> HIDE DEF call
  <1>5. DownloadCallSound(call, reported)
    <2>1. calls[c].resume \in {Download!None} \cup reported /\ calls[c].attempt \in Nat
      BY DownloadCallKnown DEF DownloadCallSound
    <2> QED
      BY <1>2, <1>4, <2>1 DEF DownloadCallSound
  <1>7. call.step # "idle" /\ call.step # "done" /\ call.resume >= calls[c].resume
    BY <1>4, DownloadCallKnown
  <1> QED
    BY <1>1, <1>4, <1>5, <1>7, DownloadCallKnown, DownloadMoves

\* The transport answers: the last attempt fails, one before it sleeps.
LEMMA AnswerStep ==
  ASSUME DownloadInv, NEW c \in Callers, NEW succeeded \in BOOLEAN,
         NEW progress \in {Download!None} \cup 0 .. Size, Download!Answer(c, succeeded, progress)
  PROVE  DownloadInv' /\ Download!ProgressStays
  <1> DEFINE resume == Download!Resumed(calls[c], progress)
             again == ~succeeded /\ calls[c].attempt < MaxRetries + 1
             pause == IF again THEN Download!BackoffSeconds(calls[c].attempt) ELSE 0
             call == [step |-> IF again THEN "sleeping" ELSE "done", attempt |-> calls[c].attempt,
                      resume |-> resume, outcome |-> IF succeeded THEN "succeeded" ELSE "failed",
                      pause |-> pause]
  <1>1. /\ calls' = [calls EXCEPT ![c] = call] /\ runs' = runs /\ calls[c].step = "waiting"
        /\ saved' = Download!Kept(succeeded, progress)
        /\ reported' = IF progress = Download!None THEN reported ELSE reported \cup {progress}
        /\ progress = Download!None \/ progress >= calls[c].resume
    BY DEF Download!Answer
  <1>2. /\ reported \subseteq reported' /\ reported' \subseteq 0 .. Size
        /\ saved' \in {Download!None} \cup reported' /\ (succeeded => saved' = Download!None)
    BY <1>1, DownloadCallKnown DEF Download!Kept
  <1>3. resume \in {Download!None} \cup reported' /\ resume >= calls[c].resume
    BY <1>1, DownloadCallKnown DEF Download!Resumed, DownloadCallSound
  <1>4. calls[c].attempt \in 1 .. MaxRetries + 1
    BY <1>1, DownloadCallKnown DEF DownloadCallSound, DownloadCall, DownloadAttempts
  <1>5. pause \in Int
    BY <1>4, Backoff
  <1>10. resume \in {Download!None} \cup 0 .. Size /\ calls[c].attempt \in 0 .. MaxRetries + 1
    <2>1. calls[c].attempt \in 0 .. MaxRetries + 1
      BY <1>4, DownloadConstants
    <2>2. resume \in {Download!None} \cup reported'
      BY <1>3
    <2> HIDE DEF resume
    <2> QED
      BY <1>2, <2>1, <2>2
  <1>6. /\ call.step = IF again THEN "sleeping" ELSE "done"
        /\ call.attempt = calls[c].attempt /\ call.resume = resume /\ call.pause = pause
        /\ call.outcome = IF succeeded THEN "succeeded" ELSE "failed"
    OBVIOUS
  <1>11. again => ~succeeded /\ calls[c].attempt <= MaxRetries /\ pause = Download!BackoffSeconds(calls[c].attempt)
    BY <1>4, DownloadConstants
  <1>12. ~again /\ ~succeeded => calls[c].attempt = MaxRetries + 1
    BY <1>4, DownloadConstants
  <1> HIDE DEF resume, pause, again
  <1>7. call \in DownloadCall
    BY <1>5, <1>10 DEF DownloadCall, DownloadAttempts, DownloadSteps_of_a_call
  <1> HIDE DEF call
  <1>8. DownloadCallSound(call, reported')
    <2>1. call.resume \in {Download!None} \cup reported' /\ call.attempt >= 1
      BY <1>3, <1>4, <1>6
    <2>2. call.step = "sleeping" => call.attempt <= MaxRetries /\ call.pause = Download!BackoffSeconds(call.attempt)
      BY <1>6, <1>11
    <2>3. call.step = "done" /\ call.outcome = "failed" => call.attempt = MaxRetries + 1
      BY <1>6, <1>12
    <2> QED
      BY <2>1, <2>2, <2>3 DEF DownloadCallSound
  <1>9. call.step # "idle" /\ (call.step = "done" /\ call.outcome = "succeeded" => saved' = Download!None)
    BY <1>2, <1>6, <1>11
  <1> QED
    BY <1>1, <1>2, <1>3, <1>6, <1>7, <1>8, <1>9, DownloadCallKnown, DownloadMoves

LEMMA DownloadKept ==
  ASSUME DownloadInv, Download!Next \/ UNCHANGED downloadVars
  PROVE  DownloadInv' /\ Download!ProgressStays
  <1>1. CASE UNCHANGED calls /\ saved' \in {saved, Download!None} /\ UNCHANGED <<runs, reported>>
    <2>1. DownloadInv'
      BY <1>1 DEF DownloadInv, DownloadCallsInv, DownloadCallSound, Download!SuccessLeavesNothing
    <2>2. Download!ProgressStays
      BY <1>1, DownloadCallKnown DEF Download!ProgressStays
    <2> QED
      BY <2>1, <2>2
  <1>2. CASE \E c \in Callers : Download!RunDownload(c) \/ Download!Step(c)
    BY <1>2, RunDownloadStep, CancelStep, AttemptStep, WakeUpStep, AnswerStep DEF Download!Step
  <1> QED
    BY <1>1, <1>2 DEF Download!Next, Download!ClearResumeState, downloadVars

LEMMA DownloadBegins == Download!Init => DownloadInv
  <1> SUFFICES ASSUME Download!Init PROVE DownloadInv
    OBVIOUS
  <1>1. Download!Idle \in DownloadCall /\ DownloadCallSound(Download!Idle, {})
    BY DownloadConstants DEF Download!Idle, DownloadCall, DownloadAttempts, DownloadSteps_of_a_call, DownloadCallSound
  <1>2. Download!Idle.step = "idle"
    BY DEF Download!Idle
  <1> QED
    BY <1>1, <1>2, DownloadConstants DEF Download!Init, DownloadInv, DownloadCallsInv,
       Download!SuccessLeavesNothing

LEMMA DownloadSound ==
  DownloadInv => Download!TypeOK /\ Download!RetriesAreBounded /\ Download!SuccessLeavesNothing
  <1> SUFFICES ASSUME DownloadInv
               PROVE  Download!TypeOK /\ Download!RetriesAreBounded /\ Download!SuccessLeavesNothing
    OBVIOUS
  <1>1. Download!TypeOK
    BY DEF DownloadInv, DownloadCallsInv, DownloadCall, DownloadAttempts, DownloadSteps_of_a_call, Download!TypeOK
  <1>2. Download!RetriesAreBounded
    <2> SUFFICES ASSUME NEW c \in Callers
                 PROVE  /\ calls[c].resume \in {Download!None} \cup reported
                        /\ calls[c].step = "done" /\ calls[c].outcome = "failed" =>
                               calls[c].attempt = MaxRetries + 1
                        /\ calls[c].step = "sleeping" =>
                               /\ calls[c].pause <= MaxBackoff
                               /\ (calls[c].attempt > 1 =>
                                      calls[c].pause >= Download!Min({2 * BaseBackoff, MaxBackoff}))
      BY DEF Download!RetriesAreBounded
    <2>1. DownloadCallSound(calls[c], reported) /\ calls[c].attempt \in Nat
      BY DownloadCallKnown
    <2>2. calls[c].step = "sleeping" => calls[c].attempt \in 1 .. MaxRetries + 1
      BY <2>1, DownloadConstants DEF DownloadCallSound
    <2> QED
      BY <2>1, <2>2, Backoff DEF DownloadCallSound
  <1> QED
    BY <1>1, <1>2 DEF DownloadInv

\* run_download, _backoff_seconds: whatever the transport answers and whoever else downloads the key,
\* a request resumes from what was reported, a failure has used its attempts up, the pauses are
\* within the limit and no shorter than the doubled base, and a lone success leaves nothing behind.
THEOREM RetriesAreAlwaysBounded == ServicesSpec => []RetriesAreBounded
  <1> DEFINE Kept == part = "download" => DownloadInv
  <1>1. ServicesInit => Kept
    BY OnePartBegins, DownloadBegins
  <1>2. Kept /\ [ServicesNext]_allVars => Kept'
    BY OnePartMoves, DownloadKept
  <1>3. Kept => RetriesAreBounded
    BY DownloadSound DEF RetriesAreBounded
  <1> QED
    BY <1>1, <1>2, <1>3, PTL DEF ServicesSpec

-----------------------------------------------------------------------------
(* The walk-forward studies                                                  *)

WalkSplit == [trainStart : Int, trainEnd : Int, valStart : Int, valEnd : Int, testStart : Int, testEnd : Int]
Span == config.training + config.validation + config.test + config.purge + config.embargo

LEMMA WalkConstants ==
  /\ LastDate \in Nat /\ EndDates \subseteq Int /\ \A e \in EndDates : e < LastDate
  /\ config \in Configs => /\ config.training \in Int /\ config.validation \in Int /\ config.test \in Int
                           /\ config.step \in Int /\ config.purge \in Int /\ config.embargo \in Int
  BY ServiceConstants DEF ServiceConstants, Walk!ConstantsType

\* Of the study as a whole.
WalkTypes ==
    /\ config \in Configs /\ end \in EndDates /\ cursor \in 0 .. LastDate
    /\ phase \in {"new", "splitting", "folding", "done", "raised", "overflowed"}
    /\ splits \in Seq(WalkSplit)

\* The cursor has gone a step for every split, and the last of them fitted.
SplitsInv ==
    /\ \A i \in DOMAIN splits :
          /\ splits[i].testEnd <= end /\ splits[i].trainEnd < splits[i].testStart
          /\ splits[i].valStart - splits[i].trainEnd = 1 + config.purge
    /\ phase = "new" => splits = <<>>
    /\ phase \in {"new", "splitting"} => cursor = Len(splits) * config.step
    /\ phase = "splitting" =>
          /\ config.step > 0
          /\ splits # <<>> =>
                IF config.mode = "rolling" THEN (Len(splits) - 1) * config.step + Span <= end + 1
                ELSE Span <= end + 1

\* A study that was split has the splits that fit.
FittingSplits == IF end + 1 < Span THEN 0 ELSE (end + 1 - Span) \div config.step + 1
CountInv ==
    phase \in {"folding", "done"} /\ config.purge >= 0 /\ config.embargo >= 0 => Len(splits) = FittingSplits

\* A fold has been made of every split before the next, and tells whether its selection is new.
FoldsInv ==
    /\ at \in 1 .. Len(splits) + 1 /\ failures \in Nat /\ turnover \in Seq(BOOLEAN)
    /\ \E S : folds \in Seq(S)
    /\ Len(folds) + failures = at - 1 /\ Len(turnover) = Len(folds)
    /\ \A i \in 1 .. Len(folds) : turnover[i] = (i > 1 /\ folds[i].candidate # folds[i - 1].candidate)

WalkInv == WalkTypes /\ SplitsInv /\ CountInv /\ FoldsInv

LEMMA WalkBegins == Walk!Init => WalkInv
  <1> SUFFICES ASSUME Walk!Init PROVE WalkInv
    OBVIOUS
  <1>1. /\ config \in Configs /\ end \in EndDates /\ cursor = 0 /\ splits = <<>> /\ phase = "new"
        /\ at = 1 /\ folds = <<>> /\ turnover = <<>> /\ failures = 0
    BY DEF Walk!Init
  <1>2. config.step \in Int
    BY <1>1, WalkConstants
  <1>3. WalkTypes
    BY <1>1, WalkConstants DEF WalkTypes
  <1>4. SplitsInv
    BY <1>1, <1>2 DEF SplitsInv
  <1>5. CountInv
    BY <1>1 DEF CountInv
  <1>6. FoldsInv
    <2>1. folds \in Seq({})
      BY <1>1
    <2> QED
      BY <1>1, <2>1 DEF FoldsInv
  <1> QED
    BY <1>3, <1>4, <1>5, <1>6 DEF WalkInv

\* The dates of the next split.
LEMMA NextSplitDates ==
  ASSUME WalkTypes
  PROVE  LET s == Walk!NextSplit
         IN  /\ s \in WalkSplit
             /\ s.trainStart = IF config.mode = "rolling" THEN cursor ELSE 0
             /\ s.trainEnd = s.trainStart + config.training - 1
             /\ s.valStart = s.trainEnd + 1 + config.purge
             /\ s.valEnd = s.valStart + config.validation - 1
             /\ s.testStart = s.valEnd + 1 + config.embargo
             /\ s.testEnd = s.testStart + config.test - 1
  <1>1. /\ config.training \in Int /\ config.validation \in Int /\ config.test \in Int
        /\ config.purge \in Int /\ config.embargo \in Int /\ cursor \in Int
    BY WalkConstants DEF WalkTypes
  <1>2. Walk!TrainStart \in Int /\ Walk!TrainStart = IF config.mode = "rolling" THEN cursor ELSE 0
    BY <1>1 DEF Walk!TrainStart
  <1> DEFINE start == Walk!TrainStart
             trainEnd == start + config.training - 1
             valStart == trainEnd + 1 + config.purge
             valEnd == valStart + config.validation - 1
             testStart == valEnd + 1 + config.embargo
             testEnd == testStart + config.test - 1
  <1>3. Walk!NextSplit = [trainStart |-> start, trainEnd |-> trainEnd, valStart |-> valStart,
                          valEnd |-> valEnd, testStart |-> testStart, testEnd |-> testEnd]
    BY DEF Walk!NextSplit
  <1>4. /\ start \in Int /\ trainEnd \in Int /\ valStart \in Int /\ valEnd \in Int
        /\ testStart \in Int /\ testEnd \in Int
    BY <1>1, <1>2
  <1>5. /\ start = IF config.mode = "rolling" THEN cursor ELSE 0
        /\ trainEnd = start + config.training - 1 /\ valStart = trainEnd + 1 + config.purge
        /\ valEnd = valStart + config.validation - 1 /\ testStart = valEnd + 1 + config.embargo
        /\ testEnd = testStart + config.test - 1
    BY <1>2
  <1> HIDE DEF start, trainEnd, valStart, valEnd, testStart, testEnd
  <1> QED
    BY <1>3, <1>4, <1>5 DEF WalkSplit

\* It ends where its span does.
LEMMA NextSplitEnds ==
  ASSUME WalkTypes
  PROVE  /\ Span \in Int
         /\ Walk!NextSplit.testEnd = Walk!NextSplit.trainStart + Span - 1
         /\ Walk!InOrder(Walk!NextSplit) => config.purge >= 0 /\ config.embargo >= 0
  <1>1. /\ config.training \in Int /\ config.validation \in Int /\ config.test \in Int
        /\ config.purge \in Int /\ config.embargo \in Int /\ cursor \in Int
    BY WalkConstants DEF WalkTypes
  <1> DEFINE s == Walk!NextSplit
  <1>2. /\ s \in WalkSplit
        /\ s.trainEnd = s.trainStart + config.training - 1
        /\ s.valStart = s.trainEnd + 1 + config.purge
        /\ s.valEnd = s.valStart + config.validation - 1
        /\ s.testStart = s.valEnd + 1 + config.embargo
        /\ s.testEnd = s.testStart + config.test - 1
    BY NextSplitDates
  <1> HIDE DEF s
  <1>3. /\ s.trainStart \in Int /\ s.trainEnd \in Int /\ s.valStart \in Int
        /\ s.valEnd \in Int /\ s.testStart \in Int /\ s.testEnd \in Int
    <2>1. s \in WalkSplit
      BY <1>2
    <2> QED
      BY <2>1 DEF WalkSplit
  <1>4. Span \in Int /\ s.testEnd = s.trainStart + Span - 1
    <2> DEFINE training == config.training
               validation == config.validation
               test == config.test
               gap == config.purge
               ban == config.embargo
    <2>1. training \in Int /\ validation \in Int /\ test \in Int /\ gap \in Int /\ ban \in Int
      BY <1>1
    <2>2. Span = training + validation + test + gap + ban
      BY DEF Span
    <2>3. /\ s.trainEnd = s.trainStart + training - 1 /\ s.valStart = s.trainEnd + 1 + gap
          /\ s.valEnd = s.valStart + validation - 1 /\ s.testStart = s.valEnd + 1 + ban
          /\ s.testEnd = s.testStart + test - 1
      BY <1>2
    <2> HIDE DEF training, validation, test, gap, ban
    <2>4. s.valStart = s.trainStart + training + gap
      <3>1. s.trainStart \in Int /\ s.trainEnd \in Int /\ s.valStart \in Int /\ training \in Int /\ gap \in Int
        BY <1>3, <2>1
      <3>2. s.trainEnd = s.trainStart + training - 1 /\ s.valStart = s.trainEnd + 1 + gap
        BY <2>3
      <3> QED
        BY <3>1, <3>2
    <2>5. s.testStart = s.valStart + validation + ban
      <3>1. s.valStart \in Int /\ s.valEnd \in Int /\ s.testStart \in Int /\ validation \in Int /\ ban \in Int
        BY <1>3, <2>1
      <3>2. s.valEnd = s.valStart + validation - 1 /\ s.testStart = s.valEnd + 1 + ban
        BY <2>3
      <3> QED
        BY <3>1, <3>2
    <2>6. s.testEnd = s.testStart + test - 1
      BY <2>3
    <2> QED
      BY <1>3, <2>1, <2>2, <2>4, <2>5, <2>6
  <1>5. Walk!InOrder(s) => config.purge >= 0 /\ config.embargo >= 0
    BY <1>1, <1>2, <1>3 DEF Walk!InOrder
  <1> QED
    BY <1>4, <1>5 DEF s

LEMMA OneMore ==
  ASSUME NEW n \in Int, NEW b \in Int
  PROVE  (n + 1) * b = n * b + b
  OBVIOUS

\* A quotient is known by the multiples it lies between.
LEMMA Quotient ==
  ASSUME NEW a \in Int, NEW b \in Int, b > 0, NEW q \in Int, q * b <= a, a < (q + 1) * b
  PROVE  a \div b = q
  <1>1. (q + 1) * b = q * b + b
    OBVIOUS
  <1> QED
    BY <1>1

LEMMA BeginStep ==
  ASSUME WalkInv, Walk!Begin
  PROVE  WalkInv'
  <1>0. WalkTypes /\ SplitsInv /\ FoldsInv
    BY DEF WalkInv
  <1>1. /\ phase = "new" /\ UNCHANGED <<config, end, cursor, splits, at, folds, turnover, failures>>
        /\ phase' = IF Walk!Refused THEN "raised" ELSE IF Walk!TooShort THEN "folding" ELSE "splitting"
    BY DEF Walk!Begin
  <1>2. splits = <<>> /\ Len(splits) = 0
    BY <1>0, <1>1 DEF SplitsInv
  <1>3. /\ config.training \in Int /\ config.validation \in Int /\ config.test \in Int
        /\ config.purge \in Int /\ config.embargo \in Int /\ config.step \in Int /\ end \in Int
    BY <1>0, WalkConstants DEF WalkTypes
  <1>4. WalkTypes'
    BY <1>0, <1>1 DEF WalkTypes
  <1>5. SplitsInv'
    <2>1. phase' = "splitting" => config.step > 0
      BY <1>1, <1>3 DEF Walk!Refused
    <2>2. cursor = Len(splits) * config.step
      BY <1>0, <1>1 DEF SplitsInv
    <2> QED
      BY <1>0, <1>1, <1>2, <2>1, <2>2 DEF SplitsInv, Span
  <1>6. CountInv'
    <2> SUFFICES ASSUME phase' \in {"folding", "done"}, config.purge >= 0, config.embargo >= 0
                 PROVE  Len(splits) = FittingSplits
      BY <1>1 DEF CountInv, FittingSplits, Span
    <2>1. end + 1 < config.training + config.validation + config.test
      BY <1>1 DEF Walk!TooShort
    <2>2. end + 1 < Span
      BY <1>3, <2>1 DEF Span
    <2> QED
      BY <1>2, <2>2 DEF FittingSplits
  <1>7. FoldsInv'
    BY <1>0, <1>1 DEF FoldsInv
  <1> QED
    BY <1>4, <1>5, <1>6, <1>7 DEF WalkInv

\* A study that raises, or runs past the calendar, keeps the splits it has.
LEMMA SplitsEnd ==
  ASSUME WalkInv, UNCHANGED <<config, end, cursor, splits, at, folds, turnover, failures>>,
         phase' \in {"raised", "overflowed"}
  PROVE  WalkInv'
  <1>1. WalkTypes'
    BY DEF WalkInv, WalkTypes
  <1>2. SplitsInv' /\ CountInv'
    BY DEF WalkInv, SplitsInv, CountInv
  <1>3. FoldsInv'
    BY DEF WalkInv, FoldsInv
  <1> QED
    BY <1>1, <1>2, <1>3 DEF WalkInv

\* The split that fits is added, and the cursor goes a step unless the calendar ends.
LEMMA AddSplitStep ==
  ASSUME WalkInv, Walk!AddSplit
  PROVE  WalkInv'
  <1>0. WalkTypes /\ SplitsInv /\ FoldsInv
    BY DEF WalkInv
  <1> DEFINE s == Walk!NextSplit
  <1>1. /\ phase = "splitting" /\ s.testEnd <= end
        /\ UNCHANGED <<config, end, at, folds, turnover, failures>>
    BY DEF Walk!AddSplit
  <1>2. CASE phase' = "raised" /\ UNCHANGED <<splits, cursor>>
    BY <1>1, <1>2, SplitsEnd
  <1>3. CASE /\ Walk!InOrder(s) /\ splits' = Append(splits, s)
             /\ IF cursor + config.step > LastDate THEN phase' = "overflowed" /\ UNCHANGED cursor
                ELSE cursor' = cursor + config.step /\ UNCHANGED phase
    <2> DEFINE n == Len(splits)
    <2>1. /\ s \in WalkSplit
          /\ s.trainStart = IF config.mode = "rolling" THEN cursor ELSE 0
          /\ s.trainEnd = s.trainStart + config.training - 1
          /\ s.valStart = s.trainEnd + 1 + config.purge
      BY <1>0, NextSplitDates
    <2>2. Span \in Int /\ s.testEnd = s.trainStart + Span - 1
      BY <1>0, NextSplitEnds
    <2>3. /\ config.step \in Int /\ end \in Int /\ cursor \in Int /\ config.purge \in Int
          /\ config.training \in Int
      BY <1>0, WalkConstants DEF WalkTypes
    <2>4. n \in Nat /\ cursor = n * config.step /\ config.step > 0
      BY <1>0, <1>1 DEF WalkTypes, SplitsInv
    <2>5. s.trainEnd < s.testStart
      <3>1. s.trainEnd < s.valStart /\ s.valStart <= s.valEnd /\ s.valEnd < s.testStart
        BY <1>3 DEF Walk!InOrder
      <3> HIDE DEF s
      <3>2. s.trainEnd \in Int /\ s.valStart \in Int /\ s.valEnd \in Int /\ s.testStart \in Int
        BY <2>1 DEF WalkSplit
      <3> QED
        BY <3>1, <3>2
    <2>6. s.valStart - s.trainEnd = 1 + config.purge
      <3> HIDE DEF s
      <3>1. s.trainEnd \in Int /\ s.valStart \in Int
        BY <2>1 DEF WalkSplit
      <3> QED
        BY <2>1, <2>3, <3>1
    <2>7. s.trainStart \in Int /\ s.testEnd \in Int
      <3> HIDE DEF s
      <3> QED
        BY <2>1 DEF WalkSplit
    <2> HIDE DEF s
    <2>8. /\ splits' \in Seq(WalkSplit) /\ Len(splits') = n + 1
          /\ \A i \in DOMAIN splits' : splits'[i] = IF i = n + 1 THEN s ELSE splits[i]
          /\ \A i \in DOMAIN splits' : i # n + 1 => i \in DOMAIN splits
      BY <1>0, <1>3, <2>1 DEF WalkTypes
    <2> HIDE DEF n
    <2>9. WalkTypes'
      <3>1. cursor' \in 0 .. LastDate
        BY <1>0, <1>3, <2>3, <2>4, WalkConstants DEF WalkTypes
      <3> QED
        BY <1>0, <1>1, <1>3, <2>8, <3>1 DEF WalkTypes
    <2>10. SplitsInv'
      <3>1. \A i \in DOMAIN splits' :
               /\ splits'[i].testEnd <= end' /\ splits'[i].trainEnd < splits'[i].testStart
               /\ splits'[i].valStart - splits'[i].trainEnd = 1 + config'.purge
        BY <1>0, <1>1, <2>5, <2>6, <2>8 DEF SplitsInv
      <3>2. phase' # "new" /\ (phase' = "splitting" => cursor' = cursor + config.step)
        BY <1>1, <1>3
      <3>3. phase' = "splitting" => cursor' = Len(splits') * config.step
        <4>1. (n + 1) * config.step = n * config.step + config.step
          <5>1. n \in Int /\ config.step \in Int
            BY <2>3, <2>4
          <5> QED
            BY <5>1, OneMore
        <4> QED
          BY <2>4, <2>8, <3>2, <4>1
      <3>4. IF config.mode = "rolling" THEN n * config.step + Span <= end + 1 ELSE Span <= end + 1
        BY <1>1, <2>1, <2>2, <2>3, <2>4, <2>7
      <3>5. Len(splits') - 1 = n
        BY <2>4, <2>8
      <3> QED
        BY <1>1, <2>4, <3>1, <3>2, <3>3, <3>4, <3>5 DEF SplitsInv, Span
    <2>11. CountInv'
      BY <1>1, <1>3 DEF CountInv
    <2>12. FoldsInv'
      BY <1>0, <1>1, <2>4, <2>8 DEF FoldsInv, n
    <2> QED
      BY <2>9, <2>10, <2>11, <2>12 DEF WalkInv
  <1> QED
    BY <1>2, <1>3 DEF Walk!AddSplit

\* The next split no longer fits: there are as many as do.
LEMMA EndSplitsStep ==
  ASSUME WalkInv, Walk!EndSplits
  PROVE  WalkInv'
  <1>0. WalkTypes /\ SplitsInv /\ FoldsInv
    BY DEF WalkInv
  <1> DEFINE s == Walk!NextSplit
             n == Len(splits)
  <1>1. /\ phase = "splitting" /\ s.testEnd > end /\ phase' = "folding"
        /\ UNCHANGED <<config, end, cursor, splits, at, folds, turnover, failures>>
    BY DEF Walk!EndSplits
  <1>2. WalkTypes' /\ FoldsInv'
    BY <1>0, <1>1 DEF WalkTypes, FoldsInv
  <1>3. SplitsInv'
    BY <1>0, <1>1 DEF SplitsInv
  <1>4. n = FittingSplits
    <2>1. s \in WalkSplit /\ s.trainStart = IF config.mode = "rolling" THEN cursor ELSE 0
      BY <1>0, NextSplitDates
    <2>2. Span \in Int /\ s.testEnd = s.trainStart + Span - 1
      BY <1>0, NextSplitEnds
    <2>3. config.step \in Int /\ end \in Int /\ cursor \in Int
      BY <1>0, WalkConstants DEF WalkTypes
    <2>4. n \in Nat /\ cursor = n * config.step /\ config.step > 0
      BY <1>0, <1>1 DEF WalkTypes, SplitsInv
    <2>5. n = 0 <=> splits = <<>>
      BY <1>0 DEF WalkTypes
    <2>6. n # 0 => IF config.mode = "rolling" THEN (n - 1) * config.step + Span <= end + 1
                   ELSE Span <= end + 1
      BY <1>0, <1>1, <2>5 DEF SplitsInv
    <2> HIDE DEF s, n
    <2>7. s.trainStart \in Int
      BY <2>1 DEF WalkSplit
    <2>8. s.trainStart + Span > end + 1
      BY <1>1, <2>2, <2>3, <2>7
    <2>9. CASE n = 0
      <3>1. s.trainStart = 0
        BY <2>1, <2>3, <2>4, <2>9
      <3> QED
        BY <2>2, <2>3, <2>8, <2>9, <3>1 DEF FittingSplits
    <2>10. CASE n # 0
      <3>1. config.mode = "rolling" /\ s.trainStart = n * config.step
        BY <2>1, <2>2, <2>3, <2>4, <2>6, <2>8, <2>10
      <3> DEFINE a == end + 1 - Span
                 q == n - 1
                 b == config.step
      <3>2. a \in Int /\ q \in Int /\ b \in Int /\ b > 0 /\ q * b <= a /\ a < (q + 1) * b
        <4>1. q * b + Span <= end + 1 /\ n * b + Span > end + 1
          BY <2>6, <2>8, <2>10, <3>1
        <4>2. q * b \in Int /\ n * b \in Int /\ q + 1 = n
          BY <2>3, <2>4
        <4> QED
          BY <2>2, <2>3, <2>4, <4>1, <4>2
      <3>3. a \div b = q
        BY <3>2, Quotient
      <3>4. q * b >= 0
        BY <2>3, <2>4, <2>10
      <3>5. end + 1 >= Span
        BY <2>2, <2>3, <3>2, <3>4
      <3> QED
        BY <2>2, <2>3, <2>4, <3>3, <3>5 DEF FittingSplits
    <2> QED
      BY <2>9, <2>10
  <1>5. CountInv'
    BY <1>1, <1>4 DEF CountInv, FittingSplits, Span
  <1> QED
    BY <1>2, <1>3, <1>5 DEF WalkInv

LEMMA FoldStep ==
  ASSUME WalkInv, NEW able \in SUBSET Trained, NEW scored \in [able -> Scores], Walk!Fold(scored)
  PROVE  WalkInv'
  <1>0. WalkTypes /\ SplitsInv /\ CountInv /\ FoldsInv
    BY DEF WalkInv
  <1>1. /\ phase = "folding" /\ at <= Len(splits) /\ at' = at + 1
        /\ UNCHANGED <<config, end, cursor, splits, phase>>
    BY DEF Walk!Fold
  <1>2. WalkTypes' /\ SplitsInv' /\ CountInv'
    BY <1>0, <1>1 DEF WalkTypes, SplitsInv, CountInv, FittingSplits, Span
  <1>3. FoldsInv'
    <2>0. Len(splits) \in Nat /\ at \in 1 .. Len(splits) + 1 /\ failures \in Nat
      BY <1>0 DEF WalkTypes, FoldsInv
    <2>1. at' \in 1 .. Len(splits') + 1
      BY <1>1, <2>0
    <2>2. CASE failures' = failures + 1 /\ UNCHANGED <<folds, turnover>>
      <3>1. Len(folds) \in Nat
        BY <1>0 DEF FoldsInv
      <3>2. Len(folds) + failures' = at' - 1 /\ failures' \in Nat
        BY <1>0, <1>1, <2>0, <2>2, <3>1 DEF FoldsInv
      <3> QED
        BY <1>0, <2>1, <2>2, <3>2 DEF FoldsInv
    <2>3. CASE /\ folds' = Append(folds, [split |-> at, candidate |-> Walk!Selected(scored)])
               /\ turnover' = Append(turnover, folds # <<>> /\
                                               Walk!Last(folds).candidate # Walk!Selected(scored))
               /\ UNCHANGED failures
      <3> DEFINE fold == [split |-> at, candidate |-> Walk!Selected(scored)]
                 changed == folds # <<>> /\ Walk!Last(folds).candidate # Walk!Selected(scored)
                 n == Len(folds)
      <3>1. PICK S : folds \in Seq(S)
        BY <1>0 DEF FoldsInv
      <3>2. /\ n \in Nat /\ n = Len(turnover) /\ n + failures = at - 1 /\ turnover \in Seq(BOOLEAN)
            /\ \A i \in 1 .. n : turnover[i] = (i > 1 /\ folds[i].candidate # folds[i - 1].candidate)
        BY <1>0, <3>1 DEF FoldsInv
      <3>3. changed \in BOOLEAN /\ fold.candidate = Walk!Selected(scored)
        OBVIOUS
      <3>4. changed = (n + 1 > 1 /\ Walk!Selected(scored) # folds[n].candidate)
        BY <3>1, <3>2 DEF Walk!Last
      <3> HIDE DEF fold, changed
      <3>5. folds \in Seq(S \cup {fold})
        BY <3>1
      <3>6. /\ folds' \in Seq(S \cup {fold}) /\ Len(folds') = n + 1 /\ folds'[n + 1] = fold
            /\ \A i \in 1 .. n : folds'[i] = folds[i]
        BY <2>3, <3>2, <3>5 DEF fold
      <3>7. /\ turnover' \in Seq(BOOLEAN) /\ Len(turnover') = n + 1 /\ turnover'[n + 1] = changed
            /\ \A i \in 1 .. n : turnover'[i] = turnover[i]
        BY <2>3, <3>2, <3>3 DEF changed
      <3> HIDE DEF n
      <3>8. ASSUME NEW i \in 1 .. n + 1
            PROVE  turnover'[i] = (i > 1 /\ folds'[i].candidate # folds'[i - 1].candidate)
        <4>1. CASE i \in 1 .. n
          <5>1. i > 1 => i - 1 \in 1 .. n
            BY <3>2, <4>1
          <5> QED
            BY <3>2, <3>6, <3>7, <4>1, <5>1
        <4>2. CASE i = n + 1
          <5>1. i > 1 => n \in 1 .. n /\ i - 1 = n
            BY <3>2, <4>2
          <5> QED
            BY <3>3, <3>4, <3>6, <3>7, <4>2, <5>1
        <4> QED
          BY <3>2, <4>1, <4>2
      <3>9. Len(folds') + failures' = at' - 1
        <4>1. Len(folds') = n + 1 /\ failures' = failures /\ at' = at + 1
          BY <1>1, <2>3, <3>6
        <4>2. n + failures = at - 1 /\ n \in Int /\ failures \in Int /\ at \in Int
          BY <2>0, <3>2
        <4> QED
          BY <4>1, <4>2
      <3> QED
        BY <2>0, <2>1, <2>3, <3>6, <3>7, <3>8, <3>9 DEF FoldsInv
    <2> QED
      BY <2>2, <2>3 DEF Walk!Fold
  <1> QED
    BY <1>2, <1>3 DEF WalkInv

LEMMA AggregateStep ==
  ASSUME WalkInv, Walk!Aggregate \/ Walk!FoldRaises \/ UNCHANGED <<phase, splits, walkVars>>
  PROVE  WalkInv'
  <1>1. /\ UNCHANGED <<config, end, cursor, splits, at, folds, turnover, failures>>
        /\ phase' = phase \/ (phase = "folding" /\ phase' \in {"done", "raised"})
    BY DEF Walk!Aggregate, Walk!FoldRaises, walkVars
  <1>2. WalkTypes'
    BY <1>1 DEF WalkInv, WalkTypes
  <1>3. SplitsInv' /\ CountInv'
    BY <1>1 DEF WalkInv, SplitsInv, CountInv, FittingSplits, Span
  <1>4. FoldsInv'
    BY <1>1 DEF WalkInv, FoldsInv
  <1> QED
    BY <1>2, <1>3, <1>4 DEF WalkInv

LEMMA WalkKept ==
  ASSUME WalkInv, Walk!Next \/ UNCHANGED <<phase, splits, walkVars>>
  PROVE  WalkInv'
  <1>1. CASE Walk!Overflow
    BY <1>1, SplitsEnd DEF Walk!Overflow
  <1> QED
    BY <1>1, BeginStep, AddSplitStep, EndSplitsStep, AggregateStep, FoldStep DEF Walk!Next

LEMMA WalkSound == WalkInv => Walk!TypeOK /\ Walk!SplitsLookBack /\ Walk!FoldsAreCounted
  <1> SUFFICES ASSUME WalkInv
               PROVE  Walk!TypeOK /\ Walk!SplitsLookBack /\ Walk!FoldsAreCounted
    OBVIOUS
  <1>0. WalkTypes /\ SplitsInv /\ CountInv /\ FoldsInv
    BY DEF WalkInv
  <1>1. Walk!TypeOK
    BY <1>0 DEF WalkTypes, FoldsInv, Walk!TypeOK
  <1>2. Walk!SplitsLookBack
    BY <1>0 DEF SplitsInv, CountInv, FittingSplits, Span, Walk!SplitsLookBack
  <1>3. Walk!FoldsAreCounted
    <2>1. /\ DOMAIN folds = 1 .. Len(folds) /\ DOMAIN turnover = DOMAIN folds
          /\ \A i \in DOMAIN folds : turnover[i] = (i > 1 /\ folds[i].candidate # folds[i - 1].candidate)
      BY <1>0 DEF FoldsInv
    <2>2. {i \in DOMAIN turnover : turnover[i]}
              = {i \in DOMAIN folds : i > 1 /\ folds[i].candidate # folds[i - 1].candidate}
      BY <2>1
    <2> QED
      BY <1>0, <2>2 DEF FoldsInv, Walk!FoldsAreCounted
  <1> QED
    BY <1>1, <1>2, <1>3

\* generate_splits, WalkForwardOrchestrator.run: for every calendar, window and candidate, no split
\* tests a day it trained on or one past the history, a study that was split has exactly the splits
\* that fit, and every split is folded once, its turnover the number of changed selections.
THEOREM WalksAlwaysLookBack == ServicesSpec => []WalksLookBack
  <1> DEFINE Kept == part = "walk" => WalkInv
  <1>1. ServicesInit => Kept
    BY OnePartBegins, WalkBegins
  <1>2. Kept /\ [ServicesNext]_allVars => Kept'
    BY OnePartMoves, WalkKept
  <1>3. Kept => WalksLookBack
    BY WalkSound DEF WalksLookBack
  <1> QED
    BY <1>1, <1>2, <1>3, PTL DEF ServicesSpec

-----------------------------------------------------------------------------
(* Sums                                                                      *)

\* The sums of a tuple, up to each place of it.
Sums(f, s) == f = [n \in 0 .. Len(s) |-> IF n = 0 THEN 0 ELSE f[n - 1] + s[n]]

\* Every tuple has its sums.
LEMMA SumsExist ==
  ASSUME NEW s \in Seq(Int)
  PROVE  \E f \in [0 .. Len(s) -> Int] : Sums(f, s)
  <1> DEFINE Reached(n) == \E f \in [0 .. n -> Int] : f[0] = 0 /\ \A i \in 1 .. n : f[i] = f[i - 1] + s[i]
             Missed == {n \in 0 .. Len(s) : ~Reached(n)}
  <1>0. Len(s) \in Nat /\ \A i \in 1 .. Len(s) : s[i] \in Int
    OBVIOUS
  <1>1. Missed = {}
    <2> SUFFICES ASSUME Missed # {} PROVE FALSE
      OBVIOUS
    <2>1. PICK n \in Missed : \A m \in Missed : n <= m
      <3>1. Missed \subseteq Nat
        BY <1>0
      <3>2. Missed # {}
        OBVIOUS
      <3> HIDE DEF Missed
      <3> QED
        BY <3>1, <3>2, FirstOf
    <2>2. n \in 0 .. Len(s) /\ ~Reached(n)
      BY <2>1
    <2>3. Reached(0)
      <3> DEFINE none == [i \in 0 .. 0 |-> 0]
      <3>1. none \in [0 .. 0 -> Int] /\ none[0] = 0 /\ 1 .. 0 = {}
        OBVIOUS
      <3> HIDE DEF none
      <3> QED
        BY <3>1
    <2>4. n # 0
      BY <2>2, <2>3
    <2>5. n \in Nat /\ n - 1 \in 0 .. Len(s) /\ ~(n <= n - 1)
      BY <1>0, <2>2, <2>4
    <2>6. Reached(n - 1)
      <3> HIDE DEF Reached
      <3> QED
        BY <2>1, <2>5
    <2>7. PICK f \in [0 .. n - 1 -> Int] : f[0] = 0 /\ \A i \in 1 .. n - 1 : f[i] = f[i - 1] + s[i]
      BY <2>6
    <2> DEFINE g == [i \in 0 .. n |-> IF i = n THEN f[n - 1] + s[n] ELSE f[i]]
    <2>8. f[n - 1] + s[n] \in Int
      BY <1>0, <2>2, <2>4, <2>7
    <2>9. g \in [0 .. n -> Int]
      BY <1>0, <2>2, <2>7, <2>8
    <2>10. g[0] = 0
      BY <2>2, <2>4, <2>7, <1>0
    <2>11. \A i \in 1 .. n : g[i] = g[i - 1] + s[i]
      BY <2>2, <2>4, <2>7, <1>0
    <2> HIDE DEF g
    <2>12. Reached(n)
      BY <2>9, <2>10, <2>11
    <2> QED
      BY <2>2, <2>12
  <1>2. Reached(Len(s))
    <2>1. Len(s) \in 0 .. Len(s)
      BY <1>0
    <2> HIDE DEF Reached
    <2> QED
      BY <2>1, <1>1
  <1>3. PICK f \in [0 .. Len(s) -> Int] : f[0] = 0 /\ \A i \in 1 .. Len(s) : f[i] = f[i - 1] + s[i]
    BY <1>2
  <1>4. Sums(f, s)
    BY <1>0, <1>3 DEF Sums
  <1> QED
    BY <1>4

\* The sums of a tuple are its own, also those of one it begins with.
LEMMA SumsAgree ==
  ASSUME NEW s \in Seq(Int), NEW t \in Seq(Int), NEW f, NEW g, Sums(f, s), Sums(g, t), Len(s) <= Len(t),
         \A i \in 1 .. Len(s) : s[i] = t[i]
  PROVE  \A n \in 0 .. Len(s) : f[n] = g[n]
  <1> DEFINE Differ == {n \in 0 .. Len(s) : f[n] # g[n]}
  <1>0. Len(s) \in Nat /\ Len(t) \in Nat
    OBVIOUS
  <1>7. \A n \in 0 .. Len(s) : f[n] = IF n = 0 THEN 0 ELSE f[n - 1] + s[n]
    <2> DEFINE D == 0 .. Len(s)
    <2>1. f = [n \in D |-> IF n = 0 THEN 0 ELSE f[n - 1] + s[n]]
      BY DEF Sums
    <2> HIDE DEF D
    <2>2. \A n \in D : f[n] = IF n = 0 THEN 0 ELSE f[n - 1] + s[n]
      BY <2>1
    <2> QED
      BY <2>2 DEF D
  <1>8. \A n \in 0 .. Len(t) : g[n] = IF n = 0 THEN 0 ELSE g[n - 1] + t[n]
    <2> DEFINE D == 0 .. Len(t)
    <2>1. g = [n \in D |-> IF n = 0 THEN 0 ELSE g[n - 1] + t[n]]
      BY DEF Sums
    <2> HIDE DEF D
    <2>2. \A n \in D : g[n] = IF n = 0 THEN 0 ELSE g[n - 1] + t[n]
      BY <2>1
    <2> QED
      BY <2>2 DEF D
  <1>1. \A n \in 0 .. Len(s) : /\ f[n] = IF n = 0 THEN 0 ELSE f[n - 1] + s[n]
                               /\ g[n] = IF n = 0 THEN 0 ELSE g[n - 1] + t[n]
    BY <1>0, <1>7, <1>8
  <1> SUFFICES ASSUME Differ # {} PROVE FALSE
    OBVIOUS
  <1>2. PICK n \in Differ : \A m \in Differ : n <= m
    <2>1. Differ \subseteq Nat
      BY <1>0
    <2>2. Differ # {}
      OBVIOUS
    <2> HIDE DEF Differ
    <2> QED
      BY <2>1, <2>2, FirstOf
  <1>3. n \in 0 .. Len(s) /\ f[n] # g[n]
    BY <1>2
  <1>4. n # 0
    BY <1>1, <1>3
  <1>5. n - 1 \in 0 .. Len(s) /\ n - 1 \notin Differ
    BY <1>0, <1>2, <1>3, <1>4
  <1>6. f[n - 1] = g[n - 1] /\ s[n] = t[n]
    BY <1>0, <1>3, <1>4, <1>5
  <1> QED
    BY <1>1, <1>3, <1>4, <1>6

LEMMA TotalSums ==
  ASSUME NEW s \in Seq(Int)
  PROVE  \E f \in [0 .. Len(s) -> Int] : Sums(f, s) /\ Roll!Total(s) = f[Len(s)]
  <1> DEFINE upTo == CHOOSE f : Sums(f, s)
  <1>1. PICK f \in [0 .. Len(s) -> Int] : Sums(f, s)
    BY SumsExist
  <1>2. Sums(upTo, s)
    BY <1>1
  <1>3. Roll!Total(s) = upTo[Len(s)]
    BY DEF Roll!Total, Sums
  <1> HIDE DEF upTo
  <1>4. upTo[Len(s)] = f[Len(s)]
    BY <1>1, <1>2, SumsAgree
  <1> QED
    BY <1>1, <1>3, <1>4

LEMMA TotalIsNumber ==
  ASSUME NEW s \in Seq(Int)
  PROVE  Roll!Total(s) \in Int
  <1>1. PICK f \in [0 .. Len(s) -> Int] : Roll!Total(s) = f[Len(s)]
    BY TotalSums
  <1> QED
    BY <1>1

\* A total begins with nothing, and one amount more adds itself.
LEMMA TotalOfNone == Roll!Total(<<>>) = 0
  <1>1. <<>> \in Seq(Int) /\ Len(<<>>) = 0
    OBVIOUS
  <1>2. PICK f \in [0 .. Len(<<>>) -> Int] : Sums(f, <<>>) /\ Roll!Total(<<>>) = f[Len(<<>>)]
    BY <1>1, TotalSums
  <1> QED
    BY <1>1, <1>2 DEF Sums

LEMMA TotalOfMore ==
  ASSUME NEW s \in Seq(Int), NEW a \in Int
  PROVE  Roll!Total(Append(s, a)) = Roll!Total(s) + a
  <1> DEFINE t == Append(s, a)
             n == Len(s)
  <1>1. t \in Seq(Int) /\ Len(t) = n + 1 /\ t[n + 1] = a /\ n \in Nat /\ \A i \in 1 .. n : s[i] = t[i]
    OBVIOUS
  <1> HIDE DEF t
  <1>2. PICK f \in [0 .. Len(s) -> Int] : Sums(f, s) /\ Roll!Total(s) = f[Len(s)]
    BY TotalSums
  <1>3. PICK g : Sums(g, t) /\ Roll!Total(t) = g[Len(t)]
    BY <1>1, TotalSums
  <1>4. f[n] = g[n]
    <2>1. Len(s) <= Len(t) /\ \A i \in 1 .. Len(s) : s[i] = t[i]
      BY <1>1
    <2>2. Sums(f, s) /\ Sums(g, t) /\ t \in Seq(Int)
      BY <1>1, <1>2, <1>3
    <2> HIDE DEF n
    <2>3. \A m \in 0 .. Len(s) : f[m] = g[m]
      BY <2>1, <2>2, SumsAgree
    <2> USE DEF n
    <2> QED
      BY <1>1, <2>3
  <1>5. g[n + 1] = g[n] + a
    BY <1>1, <1>3 DEF Sums
  <1> QED
    BY <1>1, <1>2, <1>3, <1>4, <1>5 DEF t

-----------------------------------------------------------------------------
(* The rolls                                                                 *)

\* Of two numbers the greater.
LEMMA MaxOfTwo ==
  ASSUME NEW a \in Int, NEW b \in Int
  PROVE  Roll!Max({a, b}) = IF a >= b THEN a ELSE b
  BY DEF Roll!Max

RollPlans == [eligible : BOOLEAN, estimate : Estimates, fees : {Fees}, warned : BOOLEAN]
PlanSound(p) == p \in RollPlans /\ p.warned = (p.estimate = Unknown)

RollTypes ==
    /\ request \in Limits /\ day \in 1 .. LastDay
    /\ phase \in {"open", "planned", "partial", "closed"}
    /\ plans \in Seq(RollPlans) /\ \A i \in DOMAIN plans : PlanSound(plans[i])
    /\ debits \in Nat /\ credits \in Nat
    /\ partial.naked \in BOOLEAN /\ partial.filled \subseteq {"close", "target"}
    /\ elapsed \in 0 .. TimeOut

\* The plan about to be executed was judged against the rolls and debits there are.
PlanInv == phase \in {"planned", "partial"} => PlanSound(plan) /\ Roll!LimitRejections(plan.estimate) = {}

RollInv == RollTypes /\ PlanInv /\ Roll!RollsAreCapped /\ Roll!AnalyticsAgree

LEMMA RollConstants ==
  /\ Unknown \notin Int /\ Estimates \subseteq Int \cup {Unknown}
  /\ Fees \in Int /\ MaxRolls \in Nat /\ TimeOut \in Nat /\ LastDay \in Nat /\ LastDay >= 1
  /\ \A l \in Limits : /\ l.minimumCredit \in Int \cup {Unknown}
                        /\ l.maximumDebit \in Int \cup {Unknown}
                        /\ l.maximumCumulative \in Int \cup {Unknown}
  BY ServiceConstants DEF ServiceConstants, Roll!ConstantsType

LEMMA RollBegins == Roll!Init => RollInv
  <1> SUFFICES ASSUME Roll!Init PROVE RollInv
    OBVIOUS
  <1>1. /\ request \in Limits /\ day = 1 /\ phase = "open" /\ plans = <<>> /\ debits = 0 /\ credits = 0
        /\ partial = Roll!Whole /\ elapsed = 0
    BY DEF Roll!Init
  <1>2. DOMAIN <<>> = {} /\ Len(<<>>) = 0
    OBVIOUS
  <1>3. RollTypes
    BY <1>1, <1>2, RollConstants DEF RollTypes, Roll!Whole
  <1>4. PlanInv
    BY <1>1 DEF PlanInv
  <1>5. Roll!RollsAreCapped
    <2>1. /\ request.maximumDebit \in Int \cup {Unknown} /\ request.maximumCumulative \in Int \cup {Unknown}
      BY <1>1, RollConstants
    <2> QED
      BY <1>1, <1>2, <2>1, RollConstants DEF Roll!RollsAreCapped, Roll!Asked
  <1>6. Roll!AnalyticsAgree
    <2>1. Roll!CumulativeDebit = 0 /\ Roll!CumulativeCredit = 0 /\ Roll!CumulativeFees = 0
      <3>2. /\ [i \in DOMAIN plans |-> Roll!DebitOf(plans[i])] = <<>>
            /\ [i \in DOMAIN plans |-> Roll!CreditOf(plans[i])] = <<>>
            /\ [i \in DOMAIN plans |-> plans[i].fees] = <<>>
        BY <1>1, <1>2
      <3> QED
        BY <3>2, TotalOfNone DEF Roll!CumulativeDebit, Roll!CumulativeCredit, Roll!CumulativeFees
    <2> QED
      BY <1>1, <1>2, <2>1, RollConstants DEF Roll!AnalyticsAgree, Roll!CumulativeRollCost
  <1> QED
    BY <1>3, <1>4, <1>5, <1>6 DEF RollInv

\* Nothing is booked: the sums stay, and the plan in hand stays or is dropped.
LEMMA NothingBooked ==
  ASSUME RollInv, UNCHANGED <<request, plans, debits, credits>>, day' \in 1 .. LastDay,
         phase' \in {"open", "planned", "partial", "closed"},
         partial'.naked \in BOOLEAN, partial'.filled \subseteq {"close", "target"}, elapsed' \in 0 .. TimeOut,
         phase' \in {"planned", "partial"} => PlanSound(plan') /\ Roll!LimitRejections(plan'.estimate) = {}
  PROVE  RollInv'
  <1>1. RollTypes'
    BY DEF RollInv, RollTypes
  <1>2. PlanInv'
    BY DEF PlanInv, Roll!LimitRejections
  <1>3. Roll!RollsAreCapped'
    BY DEF RollInv, Roll!RollsAreCapped, Roll!Priced
  <1>4. Roll!AnalyticsAgree'
    BY DEF RollInv, Roll!AnalyticsAgree, Roll!Priced, Roll!CumulativeDebit, Roll!CumulativeCredit,
       Roll!CumulativeFees, Roll!CumulativeRollCost
  <1> QED
    BY <1>1, <1>2, <1>3, <1>4 DEF RollInv

\* A candidate no limit speaks against.
LEMMA LimitsMean ==
  ASSUME NEW e, Roll!LimitRejections(e) = {}
  PROVE  /\ ~(Len(plans) >= MaxRolls)
         /\ request.maximumCumulative # Unknown => ~(debits > request.maximumCumulative)
         /\ request.minimumCredit # Unknown => e # Unknown /\ ~(e < request.minimumCredit)
         /\ request.maximumDebit # Unknown /\ e # Unknown /\ e < 0 => ~(-e > request.maximumDebit)
  <1>1. /\ "maximum_roll_count_reached" \notin Roll!LimitRejections(e)
        /\ "maximum_cumulative_debit_exceeded" \notin Roll!LimitRejections(e)
        /\ "minimum_credit_not_met" \notin Roll!LimitRejections(e)
        /\ "maximum_debit_exceeded" \notin Roll!LimitRejections(e)
    OBVIOUS
  <1>2. ~(Len(plans) >= MaxRolls)
    BY <1>1 DEF Roll!LimitRejections
  <1>3. request.maximumCumulative # Unknown => ~(debits > request.maximumCumulative)
    BY <1>1 DEF Roll!LimitRejections
  <1>4. request.minimumCredit # Unknown => e # Unknown /\ ~(e < request.minimumCredit)
    BY <1>1 DEF Roll!LimitRejections
  <1>5. request.maximumDebit # Unknown /\ e # Unknown /\ e < 0 => ~(-e > request.maximumDebit)
    BY <1>1 DEF Roll!LimitRejections
  <1> QED
    BY <1>2, <1>3, <1>4, <1>5

\* A tuple that is another and one entry more.
LEMMA IsAppended ==
  ASSUME NEW f \in Seq(Int), NEW g \in Seq(Int), NEW a, Len(g) = Len(f) + 1, g[Len(f) + 1] = a,
         \A i \in 1 .. Len(f) : g[i] = f[i]
  PROVE  g = Append(f, a) /\ a \in Int
  <1>1. a \in Int
    BY Len(f) + 1 \in DOMAIN g
  <1>2. Append(f, a) \in Seq(Int)
    BY <1>1
  <1>3. Len(Append(f, a)) = Len(g) /\ \A i \in 1 .. Len(g) : Append(f, a)[i] = g[i]
    BY <1>1
  <1> QED
    BY <1>1, <1>2, <1>3

\* The amounts of the plans when one more was executed.
LEMMA TotalOfPlans ==
  ASSUME NEW ps \in Seq(RollPlans), NEW p \in RollPlans, NEW A \in [RollPlans -> Int]
  PROVE  Roll!Total([i \in DOMAIN Append(ps, p) |-> A[Append(ps, p)[i]]])
             = Roll!Total([i \in DOMAIN ps |-> A[ps[i]]]) + A[p]
  <1> DEFINE f == [i \in DOMAIN ps |-> A[ps[i]]]
             qs == Append(ps, p)
             g == [i \in DOMAIN qs |-> A[qs[i]]]
  <1>1. /\ qs \in Seq(RollPlans) /\ Len(qs) = Len(ps) + 1 /\ qs[Len(ps) + 1] = p
        /\ \A i \in 1 .. Len(ps) : qs[i] = ps[i]
        /\ DOMAIN qs = 1 .. Len(qs) /\ DOMAIN ps = 1 .. Len(ps) /\ Len(ps) \in Nat
    OBVIOUS
  <1> HIDE DEF qs
  <1>2. f \in Seq(Int) /\ Len(f) = Len(ps) /\ \A i \in 1 .. Len(ps) : f[i] = A[ps[i]]
    BY <1>1
  <1>3. g \in Seq(Int) /\ Len(g) = Len(qs) /\ \A i \in 1 .. Len(qs) : g[i] = A[qs[i]]
    BY <1>1
  <1>4. Len(qs) \in 1 .. Len(qs) /\ \A i \in 1 .. Len(ps) : i \in 1 .. Len(qs)
    BY <1>1
  <1> HIDE DEF f, g
  <1>5. g = Append(f, A[p])
    <2>1. Len(g) = Len(f) + 1 /\ g[Len(f) + 1] = A[p] /\ \A i \in 1 .. Len(f) : g[i] = f[i]
      BY <1>1, <1>2, <1>3, <1>4
    <2> QED
      BY <1>2, <1>3, <2>1, IsAppended
  <1>6. A[p] \in Int
    OBVIOUS
  <1>7. Roll!Total(g) = Roll!Total(f) + A[p]
    BY <1>2, <1>5, <1>6, TotalOfMore
  <1> QED
    BY <1>7 DEF f, g, qs

\* What the analytics say when one more plan was executed.
LEMMA AnalyticsOfMore ==
  ASSUME RollTypes, PlanSound(plan), plans' = Append(plans, plan)
  PROVE  /\ Roll!CumulativeDebit' = Roll!CumulativeDebit + Roll!DebitOf(plan)
         /\ Roll!CumulativeCredit' = Roll!CumulativeCredit + Roll!CreditOf(plan)
         /\ Roll!CumulativeFees' = Roll!CumulativeFees + Fees
         /\ Roll!CumulativeDebit \in Int /\ Roll!CumulativeCredit \in Int /\ Roll!CumulativeFees \in Int
  <1> DEFINE DebitsOf == [p \in RollPlans |-> Roll!DebitOf(p)]
             CreditsOf == [p \in RollPlans |-> Roll!CreditOf(p)]
             FeesOf == [p \in RollPlans |-> p.fees]
  <1>0. /\ plans \in Seq(RollPlans) /\ plan \in RollPlans /\ plan.fees = Fees
        /\ plans' \in Seq(RollPlans)
    BY DEF RollTypes, PlanSound, RollPlans
  <1>1. ASSUME NEW p \in RollPlans
        PROVE  Roll!DebitOf(p) \in Int /\ Roll!CreditOf(p) \in Int /\ p.fees \in Int
    <2>1. p.estimate \in Estimates /\ p.fees \in Int
      BY RollConstants DEF RollPlans
    <2>2. CASE p.estimate = Unknown
      BY <2>1, <2>2 DEF Roll!DebitOf, Roll!CreditOf
    <2>3. CASE p.estimate # Unknown
      <3>1. p.estimate \in Int
        BY <2>1, <2>3, RollConstants
      <3>3. -p.estimate \in Int
        BY <3>1
      <3>2. Roll!Max({0, p.estimate}) \in Int /\ Roll!Max({0, -p.estimate}) \in Int
        BY <3>1, <3>3, MaxOfTwo
      <3> QED
        BY <2>1, <2>3, <3>2 DEF Roll!DebitOf, Roll!CreditOf
    <2> QED
      BY <2>2, <2>3
  <1>2. DebitsOf \in [RollPlans -> Int] /\ CreditsOf \in [RollPlans -> Int] /\ FeesOf \in [RollPlans -> Int]
    BY <1>1
  <1>3. /\ \A i \in DOMAIN plans : plans[i] \in RollPlans
        /\ \A i \in DOMAIN plans' : plans'[i] \in RollPlans
    BY <1>0
  <1>4. /\ Roll!CumulativeDebit = Roll!Total([i \in DOMAIN plans |-> DebitsOf[plans[i]]])
        /\ Roll!CumulativeCredit = Roll!Total([i \in DOMAIN plans |-> CreditsOf[plans[i]]])
        /\ Roll!CumulativeFees = Roll!Total([i \in DOMAIN plans |-> FeesOf[plans[i]]])
    BY <1>3 DEF Roll!CumulativeDebit, Roll!CumulativeCredit, Roll!CumulativeFees
  <1>5. /\ Roll!CumulativeDebit' = Roll!Total([i \in DOMAIN plans' |-> DebitsOf[plans'[i]]])
        /\ Roll!CumulativeCredit' = Roll!Total([i \in DOMAIN plans' |-> CreditsOf[plans'[i]]])
        /\ Roll!CumulativeFees' = Roll!Total([i \in DOMAIN plans' |-> FeesOf[plans'[i]]])
    <2>1. /\ [i \in DOMAIN plans' |-> Roll!DebitOf(plans'[i])] = [i \in DOMAIN plans' |-> DebitsOf[plans'[i]]]
          /\ [i \in DOMAIN plans' |-> Roll!CreditOf(plans'[i])] = [i \in DOMAIN plans' |-> CreditsOf[plans'[i]]]
          /\ [i \in DOMAIN plans' |-> plans'[i].fees] = [i \in DOMAIN plans' |-> FeesOf[plans'[i]]]
      BY <1>3
    <2> HIDE DEF DebitsOf, CreditsOf, FeesOf
    <2>2. Roll!CumulativeDebit' = Roll!Total([i \in DOMAIN plans' |-> Roll!DebitOf(plans'[i])])
      BY DEF Roll!CumulativeDebit, Roll!Total, Roll!DebitOf
    <2>3. Roll!CumulativeCredit' = Roll!Total([i \in DOMAIN plans' |-> Roll!CreditOf(plans'[i])])
      BY DEF Roll!CumulativeCredit, Roll!Total, Roll!CreditOf
    <2>4. Roll!CumulativeFees' = Roll!Total([i \in DOMAIN plans' |-> plans'[i].fees])
      BY DEF Roll!CumulativeFees, Roll!Total
    <2> QED
      BY <2>1, <2>2, <2>3, <2>4
  <1>6. DebitsOf[plan] = Roll!DebitOf(plan) /\ CreditsOf[plan] = Roll!CreditOf(plan) /\ FeesOf[plan] = Fees
    BY <1>0
  <1> HIDE DEF DebitsOf, CreditsOf, FeesOf
  <1>7. ASSUME NEW A \in [RollPlans -> Int]
        PROVE  /\ Roll!Total([i \in DOMAIN plans' |-> A[plans'[i]]])
                      = Roll!Total([i \in DOMAIN plans |-> A[plans[i]]]) + A[plan]
               /\ Roll!Total([i \in DOMAIN plans |-> A[plans[i]]]) \in Int
    <2>1. Roll!Total([i \in DOMAIN plans' |-> A[plans'[i]]])
              = Roll!Total([i \in DOMAIN plans |-> A[plans[i]]]) + A[plan]
      BY <1>0, TotalOfPlans
    <2>2. [i \in DOMAIN plans |-> A[plans[i]]] \in Seq(Int)
      BY <1>0
    <2> QED
      BY <2>1, <2>2, TotalIsNumber
  <1> QED
    BY <1>2, <1>4, <1>5, <1>6, <1>7

\* What a roll costs is a number, its estimate when there is one.
LEMMA CostIsNumber ==
  ASSUME PlanSound(plan), NEW net \in Roll!Cost(plan.estimate)
  PROVE  /\ net \in Int /\ (plan.estimate # Unknown => net = plan.estimate /\ plan.estimate \in Int)
         /\ plan.estimate \in Estimates
  <1>1. plan.estimate \in Estimates
    BY DEF PlanSound, RollPlans
  <1>2. CASE plan.estimate = Unknown
    BY <1>1, <1>2, RollConstants DEF Roll!Cost
  <1>3. CASE plan.estimate # Unknown
    BY <1>1, <1>3, RollConstants DEF Roll!Cost
  <1> QED
    BY <1>1, <1>2, <1>3

\* A roll is booked: the count and the caps it was judged by still hold, and so do the sums.
LEMMA RollBooked ==
  ASSUME RollInv, phase \in {"planned", "partial"}, NEW net \in Roll!Cost(plan.estimate), Roll!Booked(net),
         phase' = "open", UNCHANGED <<request, day>>,
         partial'.naked \in BOOLEAN, partial'.filled \subseteq {"close", "target"}, elapsed' \in 0 .. TimeOut
  PROVE  RollInv'
  <1> DEFINE d == Roll!Max({0, -net})
             c == Roll!Max({0, net})
  <1>0. RollTypes /\ PlanSound(plan) /\ Roll!LimitRejections(plan.estimate) = {}
    BY DEF RollInv, PlanInv
  <1>1. /\ net \in Int /\ (plan.estimate # Unknown => net = plan.estimate /\ plan.estimate \in Int)
        /\ plan.estimate \in Estimates
    BY <1>0, CostIsNumber
  <1>2. debits' = debits + d /\ credits' = credits + c /\ plans' = Append(plans, plan)
    BY DEF Roll!Booked
  <1>3. -net \in Int
    BY <1>1
  <1>4. d = (IF net < 0 THEN -net ELSE 0) /\ c = IF net > 0 THEN net ELSE 0
    BY <1>1, <1>3, MaxOfTwo
  <1> HIDE DEF d, c
  <1>5. d \in Nat /\ c \in Nat
    BY <1>1, <1>4
  <1>6. /\ plans \in Seq(RollPlans) /\ plan \in RollPlans /\ debits \in Nat /\ credits \in Nat
        /\ \A i \in DOMAIN plans : PlanSound(plans[i])
    BY <1>0 DEF RollTypes, PlanSound
  <1>7. /\ plans' \in Seq(RollPlans) /\ Len(plans') = Len(plans) + 1 /\ Len(plans) \in Nat
        /\ \A i \in DOMAIN plans' : plans'[i] = IF i = Len(plans) + 1 THEN plan ELSE plans[i]
        /\ \A i \in DOMAIN plans' : i # Len(plans) + 1 => i \in DOMAIN plans
        /\ DOMAIN plans \subseteq DOMAIN plans' /\ Len(plans) + 1 \in DOMAIN plans'
        /\ Len(plans) + 1 \notin DOMAIN plans
    BY <1>2, <1>6
  <1>8. RollTypes'
    <2>1. \A i \in DOMAIN plans' : PlanSound(plans'[i])
      BY <1>0, <1>6, <1>7
    <2>2. \A i \in DOMAIN plans' : PlanSound(plans[i])'
      BY <2>1 DEF PlanSound
    <2>3. debits' \in Nat /\ credits' \in Nat
      BY <1>2, <1>5, <1>6
    <2> QED
      BY <1>0, <1>7, <2>2, <2>3 DEF RollTypes
  <1>9. Roll!Priced' => Roll!Priced /\ plan.estimate # Unknown
    <2> SUFFICES ASSUME Roll!Priced' PROVE Roll!Priced /\ plan.estimate # Unknown
      OBVIOUS
    <2>1. \A i \in DOMAIN plans' : ~plans'[i].warned
      BY DEF Roll!Priced
    <2>2. plans'[Len(plans) + 1] = plan /\ \A i \in DOMAIN plans : plans'[i] = plans[i]
      BY <1>7
    <2>3. ~plan.warned /\ \A i \in DOMAIN plans : ~plans[i].warned
      BY <1>7, <2>1, <2>2
    <2> QED
      BY <1>0, <2>3 DEF Roll!Priced, PlanSound
  <1>10. /\ Len(plans) < MaxRolls
         /\ request.maximumCumulative # Unknown => ~(debits > request.maximumCumulative)
         /\ request.minimumCredit # Unknown =>
                plan.estimate # Unknown /\ ~(plan.estimate < request.minimumCredit)
         /\ request.maximumDebit # Unknown /\ plan.estimate # Unknown /\ plan.estimate < 0 =>
                ~(-plan.estimate > request.maximumDebit)
    BY <1>0, <1>7, LimitsMean, RollConstants
  <1>11. Roll!RollsAreCapped'
    <2>0. /\ request.minimumCredit \in Int \cup {Unknown} /\ request.maximumDebit \in Int \cup {Unknown}
          /\ request.maximumCumulative \in Int \cup {Unknown}
      BY <1>0, RollConstants DEF RollTypes
    <2>1. Len(plans') <= MaxRolls
      BY <1>7, <1>10, RollConstants
    <2>2. ASSUME Roll!Priced', Roll!Asked(request.maximumCumulative), Roll!Asked(request.maximumDebit)
          PROVE  debits' <= request.maximumCumulative + request.maximumDebit
      <3>1. net = plan.estimate
        BY <1>1, <1>9, <2>2
      <3>2. /\ request.maximumCumulative \in Int /\ request.maximumDebit \in Int /\ request.maximumDebit >= 0
            /\ debits <= request.maximumCumulative
        BY <1>6, <1>10, <2>0, <2>2 DEF Roll!Asked
      <3>3. d <= request.maximumDebit
        BY <1>1, <1>4, <1>9, <1>10, <2>2, <3>1, <3>2 DEF Roll!Asked
      <3> QED
        BY <1>2, <1>5, <1>6, <3>2, <3>3
    <2>3. ASSUME Roll!Asked(request.minimumCredit) PROVE debits' = 0
      <3>1. request.minimumCredit \in Int /\ request.minimumCredit >= 0 /\ request.minimumCredit # Unknown
        BY <2>0, <2>3 DEF Roll!Asked
      <3>2. net \in Int /\ net >= 0
        BY <1>1, <1>10, <3>1
      <3>3. debits = 0
        BY <2>3 DEF RollInv, Roll!RollsAreCapped
      <3> QED
        BY <1>2, <1>4, <3>2, <3>3
    <2> QED
      BY <2>1, <2>2, <2>3 DEF Roll!RollsAreCapped, Roll!Asked
  <1>12. Roll!AnalyticsAgree'
    <2> SUFFICES ASSUME Roll!Priced'
                 PROVE  /\ Roll!CumulativeDebit' = debits' /\ Roll!CumulativeCredit' = credits'
                        /\ Roll!CumulativeRollCost' = debits' - credits' + Fees * Len(plans')
      BY DEF Roll!AnalyticsAgree
    <2>1. /\ Roll!CumulativeDebit = debits /\ Roll!CumulativeCredit = credits
          /\ Roll!CumulativeRollCost = debits - credits + Fees * Len(plans)
      BY <1>9 DEF RollInv, Roll!AnalyticsAgree
    <2>2. /\ Roll!CumulativeDebit' = Roll!CumulativeDebit + Roll!DebitOf(plan)
          /\ Roll!CumulativeCredit' = Roll!CumulativeCredit + Roll!CreditOf(plan)
          /\ Roll!CumulativeFees' = Roll!CumulativeFees + Fees
          /\ Roll!CumulativeDebit \in Int /\ Roll!CumulativeCredit \in Int /\ Roll!CumulativeFees \in Int
      BY <1>0, <1>2, AnalyticsOfMore
    <2>3. net = plan.estimate /\ plan.estimate # Unknown
      BY <1>1, <1>9
    <2>4. Roll!DebitOf(plan) = d /\ Roll!CreditOf(plan) = c
      BY <2>3 DEF Roll!DebitOf, Roll!CreditOf, d, c
    <2>5. Roll!CumulativeDebit' = debits' /\ Roll!CumulativeCredit' = credits'
      BY <1>2, <2>1, <2>2, <2>4
    <2>6. Roll!CumulativeFees = Fees * Len(plans)
      <3>1. Roll!CumulativeRollCost = Roll!CumulativeDebit - Roll!CumulativeCredit + Roll!CumulativeFees
        BY DEF Roll!CumulativeRollCost
      <3>2. Fees * Len(plans) \in Int
        BY <1>7, RollConstants
      <3> QED
        BY <1>6, <2>1, <2>2, <3>1, <3>2
    <2>7. Roll!CumulativeFees' = Fees * Len(plans')
      <3>1. Fees \in Int /\ Len(plans) \in Int
        BY <1>7, RollConstants
      <3>2. (Len(plans) + 1) * Fees = Len(plans) * Fees + Fees
        BY <3>1, OneMore
      <3>3. Fees * (Len(plans) + 1) = (Len(plans) + 1) * Fees /\ Fees * Len(plans) = Len(plans) * Fees
        BY <3>1
      <3> QED
        BY <1>7, <2>2, <2>6, <3>2, <3>3
    <2>8. Roll!CumulativeRollCost' = Roll!CumulativeDebit' - Roll!CumulativeCredit' + Roll!CumulativeFees'
      BY DEF Roll!CumulativeRollCost
    <2> QED
      BY <2>5, <2>7, <2>8
  <1>13. PlanInv'
    BY DEF PlanInv
  <1> QED
    BY <1>8, <1>11, <1>12, <1>13 DEF RollInv

\* What holds of a roll's state whatever its phase.
LEMMA RollKnown ==
  ASSUME RollInv
  PROVE  /\ day \in 1 .. LastDay /\ elapsed \in 0 .. TimeOut
         /\ phase \in {"open", "planned", "partial", "closed"}
         /\ partial.naked \in BOOLEAN /\ partial.filled \subseteq {"close", "target"}
         /\ phase \in {"planned", "partial"} => PlanSound(plan) /\ Roll!LimitRejections(plan.estimate) = {}
         /\ Roll!Whole.naked \in BOOLEAN /\ Roll!Whole.filled \subseteq {"close", "target"}
  BY DEF RollInv, RollTypes, PlanInv, Roll!Whole

LEMMA BuildRollPlanStep ==
  ASSUME RollInv, NEW target, NEW given \in BOOLEAN, NEW byDelta \in BOOLEAN, NEW estimate \in Estimates,
         NEW against, NEW quantity,
         Roll!BuildRollPlan(target, given, byDelta, estimate, against, quantity)
  PROVE  RollInv'
  <1> DEFINE fits == Roll!Rejections(target, given, byDelta, estimate, against) = {}
  <1>1. /\ plan' = [eligible |-> fits, estimate |-> estimate, fees |-> Fees, warned |-> estimate = Unknown]
        /\ phase' = IF plan'.eligible THEN "planned" ELSE "open"
        /\ UNCHANGED <<request, day, plans, debits, credits, partial, elapsed>>
    BY DEF Roll!BuildRollPlan
  <1>2. fits => Roll!LimitRejections(estimate) = {}
    BY DEF Roll!Rejections
  <1>3. fits \in BOOLEAN
    OBVIOUS
  <1> HIDE DEF fits
  <1>4. PlanSound(plan') /\ plan'.eligible = fits /\ plan'.estimate = estimate
    BY <1>1, <1>3 DEF PlanSound, RollPlans
  <1>5. phase' \in {"open", "planned"} /\ (phase' = "planned" => fits)
    BY <1>1, <1>4
  <1>6. phase' \in {"planned", "partial"} => PlanSound(plan') /\ Roll!LimitRejections(plan'.estimate) = {}
    BY <1>2, <1>4, <1>5
  <1> QED
    BY <1>1, <1>5, <1>6, RollKnown, NothingBooked

LEMMA ExecuteRollStep ==
  ASSUME RollInv, Roll!ExecuteRoll
  PROVE  RollInv'
  <1>1. PICK net \in Roll!Cost(plan.estimate) : Roll!Booked(net)
    BY DEF Roll!ExecuteRoll
  <1>2. phase = "planned" /\ phase' = "open" /\ UNCHANGED <<request, day, partial, elapsed>>
    BY DEF Roll!ExecuteRoll
  <1> QED
    BY <1>1, <1>2, RollKnown, RollBooked

LEMMA FillPartlyStep ==
  ASSUME RollInv, NEW filled \in SUBSET {"close", "target"}, NEW naked \in BOOLEAN,
         Roll!FillPartly(filled, naked)
  PROVE  RollInv'
  <1>1. /\ phase = "planned" /\ phase' = "partial" /\ elapsed' = 0
        /\ partial' = [naked |-> naked, filled |-> filled]
        /\ UNCHANGED <<request, day, plan, plans, debits, credits>>
    BY DEF Roll!FillPartly
  <1>2. partial'.naked \in BOOLEAN /\ partial'.filled \subseteq {"close", "target"}
    BY <1>1
  <1>3. elapsed' \in 0 .. TimeOut
    BY <1>1, RollConstants
  <1> QED
    BY <1>1, <1>2, <1>3, RollKnown, NothingBooked

LEMMA WaitStep ==
  ASSUME RollInv, Roll!Wait
  PROVE  RollInv'
  <1>1. /\ UNCHANGED <<request, phase, plan, plans, debits, credits, partial>>
        /\ elapsed' \in 0 .. TimeOut /\ day' \in 1 .. LastDay
    BY RollKnown, RollConstants DEF Roll!Wait
  <1> QED
    BY <1>1, RollKnown, NothingBooked

LEMMA ReconcileStep ==
  ASSUME RollInv, NEW allowed \in BOOLEAN, Roll!Reconcile(allowed)
  PROVE  RollInv'
  <1>1. phase = "partial" /\ UNCHANGED <<request, day, elapsed>>
    BY DEF Roll!Reconcile
  <1>2. CASE /\ phase' \in {"closed", "open"} /\ partial' = Roll!Whole
             /\ UNCHANGED <<plans, debits, credits>>
    <2>1. partial'.naked \in BOOLEAN /\ partial'.filled \subseteq {"close", "target"}
      BY <1>2, RollKnown
    <2> QED
      BY <1>1, <1>2, <2>1, RollKnown, NothingBooked
  <1>3. CASE /\ \E net \in Roll!Cost(plan.estimate) : Roll!Booked(net)
             /\ phase' = "open" /\ partial' = Roll!Whole
    <2>1. PICK net \in Roll!Cost(plan.estimate) : Roll!Booked(net)
      BY <1>3
    <2>2. partial'.naked \in BOOLEAN /\ partial'.filled \subseteq {"close", "target"}
      BY <1>3, RollKnown
    <2> QED
      BY <1>1, <1>3, <2>1, <2>2, RollKnown, RollBooked
  <1>4. CASE /\ partial' \in [naked : BOOLEAN, filled : SUBSET {"close", "target"}] \/ partial' = partial
             /\ UNCHANGED <<phase, plan, plans, debits, credits>>
    <2>1. partial'.naked \in BOOLEAN /\ partial'.filled \subseteq {"close", "target"}
      BY <1>4, RollKnown
    <2> QED
      BY <1>1, <1>4, <2>1, RollKnown, NothingBooked
  <1> QED
    BY <1>2, <1>3, <1>4 DEF Roll!Reconcile

LEMMA RollKept ==
  ASSUME RollInv, Roll!Next \/ UNCHANGED <<phase, rollVars>>
  PROVE  RollInv'
  <1>1. CASE UNCHANGED <<phase, rollVars>>
    BY <1>1, RollKnown, NothingBooked DEF rollVars
  <1> QED
    BY <1>1, BuildRollPlanStep, ExecuteRollStep, FillPartlyStep, WaitStep, ReconcileStep DEF Roll!Next

\* RollEligibilityGuard, build_roll_plan, reconcile_partial_roll, summarize_rolls: whatever is estimated,
\* filled in part, retried or cancelled, a position is rolled within its count, its debits pass the cap
\* on their sum by at most one roll, and the analytics over its plans tell the caller's own sums.
THEOREM RollsAreAlwaysAccounted == ServicesSpec => []RollsAreAccounted
  <1> DEFINE Kept == part = "roll" => RollInv
  <1>1. ServicesInit => Kept
    BY OnePartBegins, RollBegins
  <1>2. Kept /\ [ServicesNext]_allVars => Kept'
    BY OnePartMoves, RollKept
  <1>3. Kept => RollsAreAccounted
    <2>1. RollInv => Roll!TypeOK
      BY DEF RollInv, RollTypes, PlanSound, RollPlans, Roll!TypeOK
    <2> QED
      BY <2>1 DEF RollInv, RollsAreAccounted
  <1> QED
    BY <1>1, <1>2, <1>3, PTL DEF ServicesSpec

-----------------------------------------------------------------------------
(* Studies                                                                   *)

\* The instance counts and bounds sets as this module does.
LEMMA StudyCounts == \A s : Study!Cardinality(s) = Cardinality(s)
  BY DEF Study!Cardinality, Cardinality

LEMMA StudyConstants ==
  /\ Study!ConstantsType
  /\ Groups \in Nat /\ Groups > 1 /\ TestGroups \in 1 .. Groups - 1
  /\ Unit \in Nat /\ Alpha \in 0 .. Unit - 1 /\ Tests \in Nat /\ Folds \in Nat
  /\ Purges \subseteq Int /\ Embargoes \subseteq Int
  BY ServiceConstants DEF ServiceConstants, Study!ConstantsType

\* What a study is of: records in the order of their moments.
StudyRecord == [time : Nat, labelEnd : Nat \cup {-1}, known : Nat \cup {-1}, symbol : STRING]
StudyRecords ==
    /\ records \in Seq(StudyRecord)
    /\ \A i, j \in DOMAIN records : i <= j => records[i].time <= records[j].time
    /\ purge \in Int /\ embargo \in Int /\ aware \in BOOLEAN

LEMMA RecordAt ==
  ASSUME StudyRecords, NEW i \in DOMAIN records
  PROVE  /\ records[i].time \in Nat /\ records[i].labelEnd \in Nat \cup {-1}
         /\ records[i].known \in Nat \cup {-1} /\ i \in Nat /\ 1 <= i
  <1>1. records \in Seq(StudyRecord)
    BY DEF StudyRecords
  <1>2. records[i] \in StudyRecord /\ i \in 1 .. Len(records) /\ Len(records) \in Nat
    BY <1>1
  <1> QED
    BY <1>2 DEF StudyRecord

LEMMA GroupOf ==
  ASSUME NEW i \in Nat \ {0}
  PROVE  Study!Group(i) \in 0 .. Groups - 1
  <1>1. Groups \in Nat /\ Groups > 0 /\ i - 1 \in Nat
    BY StudyConstants
  <1> QED
    BY <1>1 DEF Study!Group

\* Some records that are not none have a first and a last moment.
LEMMA WindowBounds ==
  ASSUME StudyRecords, NEW s \in SUBSET DOMAIN records, s # {}
  PROVE  /\ Study!Min(Study!Times(s)) \in Nat /\ Study!Max(Study!Times(s)) \in Nat
         /\ \A i \in s : /\ Study!Min(Study!Times(s)) <= records[i].time
                         /\ records[i].time <= Study!Max(Study!Times(s))
  <1> DEFINE n == Len(records)
             back == {n - i : i \in s}
             times == Study!Times(s)
  <1>1. n \in Nat /\ s \subseteq 1 .. n /\ \A i \in s : records[i].time \in Nat
    BY RecordAt DEF StudyRecords
  <1>2. PICK i \in s : \A k \in s : i <= k
    BY <1>1, FirstOf
  <1>3. \A k \in s : records[i].time <= records[k].time
    BY <1>2 DEF StudyRecords
  <1>4. back \subseteq Nat /\ back # {}
    BY <1>1
  <1>5. PICK b \in back : \A x \in back : b <= x
    <2> HIDE DEF back
    <2> QED  BY <1>4, FirstOf
  <1>6. PICK j \in s : b = n - j
    BY <1>5
  <1>7. \A k \in s : k <= j
    <2> SUFFICES ASSUME NEW k \in s PROVE k <= j
      OBVIOUS
    <2>1. n - j <= n - k
      BY <1>5, <1>6
    <2>2. n \in Int /\ j \in Int /\ k \in Int
      BY <1>1
    <2> QED
      BY <2>1, <2>2
  <1>8. \A k \in s : records[k].time <= records[j].time
    BY <1>7 DEF StudyRecords
  <1>9. /\ records[i].time \in times /\ records[j].time \in times
        /\ \A t \in times : t \in Nat /\ records[i].time <= t /\ t <= records[j].time
        /\ \A k \in s : records[k].time \in times
    BY <1>1, <1>3, <1>8 DEF Study!Times
  <1> HIDE DEF times
  <1>10. Study!Min(times) \in times /\ \A t \in times : Study!Min(times) <= t
    BY <1>9 DEF Study!Min
  <1>11. Study!Max(times) \in times /\ \A t \in times : Study!Max(times) >= t
    BY <1>9 DEF Study!Max
  <1> QED
    BY <1>9, <1>10, <1>11 DEF times

\* The promise about one split.
StudySplitSound(s) ==
    LET first == Study!Min(Study!Times(Study!Of(s.test)))
        last == Study!Max(Study!Times(Study!Of(s.test)))
    IN  \A i \in s.kept :
          /\ Study!Group(i) \notin s.test
          /\ records[i].labelEnd < first
          /\ records[i].known <= first
          /\ purge > 0 => records[i].time \notin first - purge .. last
          /\ embargo > 0 => records[i].time \notin last + 1 .. last + embargo
          /\ aware => records[i].time < first

StudySplit == [test : SUBSET Int, kept : SUBSET Int, leaked : BOOLEAN]

LEMMA SplitLooksClean ==
  ASSUME StudyRecords, NEW test, Study!Of(test) # {},
         NEW train, train = Study!Of((0 .. Groups - 1) \ test),
         NEW kept,
         kept = {i \in train : ~ Study!Leaks(i, train, Study!Min(Study!Times(Study!Of(test))),
                                             Study!Max(Study!Times(Study!Of(test))))}
  PROVE  /\ kept \subseteq DOMAIN records
         /\ \A leaked : StudySplitSound([test |-> test, kept |-> kept, leaked |-> leaked])
  <1> DEFINE first == Study!Min(Study!Times(Study!Of(test)))
             last == Study!Max(Study!Times(Study!Of(test)))
  <1>1. Study!Of(test) \in SUBSET DOMAIN records
    BY DEF Study!Of
  <1>2. first \in Nat /\ last \in Nat
    BY <1>1, WindowBounds
  <1>3. train \subseteq DOMAIN records
    BY DEF Study!Of
  <1>4. ASSUME NEW i \in kept
        PROVE  /\ Study!Group(i) \notin test
               /\ records[i].labelEnd < first
               /\ records[i].known <= first
               /\ purge > 0 => records[i].time \notin first - purge .. last
               /\ embargo > 0 => records[i].time \notin last + 1 .. last + embargo
               /\ aware => records[i].time < first
    <2>1. i \in train /\ i \in DOMAIN records /\ ~ Study!Leaks(i, train, first, last)
      BY <1>3
    <2>2. Study!Group(i) \notin test
      BY <2>1 DEF Study!Of
    <2>3. /\ records[i].time \in Nat /\ records[i].labelEnd \in Nat \cup {-1}
          /\ records[i].known \in Nat \cup {-1} /\ purge \in Int /\ embargo \in Int
      BY <2>1, RecordAt DEF StudyRecords
    <2> HIDE DEF first, last
    <2>4. records[i].labelEnd < first /\ records[i].known <= first
      BY <1>2, <2>1, <2>3 DEF Study!Leaks, Study!None
    <2>5. purge > 0 => records[i].time \notin first - purge .. last
      BY <1>2, <2>1, <2>3 DEF Study!Leaks
    <2>6. embargo > 0 => records[i].time \notin last + 1 .. last + embargo
      BY <1>2, <2>1, <2>3 DEF Study!Leaks
    <2>7. aware => records[i].time < first
      <3>1. aware => ~ (records[i].time >= first)
        BY <2>1 DEF Study!Leaks
      <3> QED
        BY <1>2, <2>3, <3>1
    <2> QED
      BY <2>2, <2>4, <2>5, <2>6, <2>7
  <1> QED
    BY <1>3, <1>4 DEF StudySplitSound

\* Where the group of the first record is tested, a study that minds symbols keeps nothing.
LEMMA NothingBefore ==
  ASSUME StudyRecords, aware, NEW test, 0 \in test,
         NEW train, train \subseteq DOMAIN records,
         NEW i \in train
  PROVE  Study!Leaks(i, train, Study!Min(Study!Times(Study!Of(test))),
                     Study!Max(Study!Times(Study!Of(test))))
  <1>1. DOMAIN records = 1 .. Len(records) /\ Len(records) \in Nat
    BY DEF StudyRecords
  <1>2. 1 \in DOMAIN records /\ i \in DOMAIN records /\ 1 <= i
    BY <1>1
  <1>3. Study!Group(1) = 0
    BY StudyConstants DEF Study!Group
  <1>4. 1 \in Study!Of(test) /\ Study!Of(test) \in SUBSET DOMAIN records
    BY <1>2, <1>3 DEF Study!Of
  <1>5. Study!Min(Study!Times(Study!Of(test))) <= records[1].time
        /\ Study!Min(Study!Times(Study!Of(test))) \in Nat
    BY <1>4, WindowBounds
  <1>6. records[1].time <= records[i].time /\ records[1].time \in Nat /\ records[i].time \in Nat
    BY <1>2, RecordAt DEF StudyRecords
  <1>7. records[i].time >= Study!Min(Study!Times(Study!Of(test)))
    BY <1>5, <1>6
  <1> QED
    BY <1>7 DEF Study!Leaks

-----------------------------------------------------------------------------
(* The winners of a fold                                                     *)

\* Whom a candidate is ranked behind.
Ahead(fold, c) == {d \in Candidates : fold[d] > fold[c] \/ (fold[d] = fold[c] /\ d < c)}
IsFold(fold) == fold \in [Candidates -> Metrics]

LEMMA CandidateConstants ==
  /\ IsFiniteSet(Candidates) /\ Candidates # {} /\ Candidates \subseteq Int /\ Metrics \subseteq Int
  BY StudyConstants DEF Study!ConstantsType, Study!IsFiniteSet, IsFiniteSet

LEMMA RankIs ==
  ASSUME NEW fold, NEW c
  PROVE  Study!Rank(fold, c) = 1 + Cardinality(Ahead(fold, c))
  BY StudyCounts DEF Study!Rank, Ahead

LEMMA AheadCounts ==
  ASSUME NEW fold, NEW c
  PROVE  /\ IsFiniteSet(Ahead(fold, c)) /\ Cardinality(Ahead(fold, c)) \in Nat
         /\ Cardinality(Ahead(fold, c)) = 0 <=> Ahead(fold, c) = {}
  <1>1. Ahead(fold, c) \subseteq Candidates
    BY DEF Ahead
  <1>2. IsFiniteSet(Ahead(fold, c))
    BY <1>1, CandidateConstants, FS_Subset
  <1> QED
    BY <1>2, FS_CardinalityType, FS_EmptySet

\* Who is ahead of another has fewer ahead of him.
LEMMA AheadShrinks ==
  ASSUME NEW fold, IsFold(fold), NEW c \in Candidates, NEW d \in Ahead(fold, c)
  PROVE  Cardinality(Ahead(fold, d)) < Cardinality(Ahead(fold, c))
  <1>1. d \in Candidates /\ \A x \in Candidates : fold[x] \in Int /\ x \in Int
    BY CandidateConstants DEF IsFold, Ahead
  <1>2. Ahead(fold, d) \subseteq Ahead(fold, c) /\ d \notin Ahead(fold, d)
    BY <1>1 DEF Ahead
  <1>3. /\ Cardinality(Ahead(fold, d)) <= Cardinality(Ahead(fold, c))
        /\ Cardinality(Ahead(fold, d)) # Cardinality(Ahead(fold, c))
    BY <1>2, AheadCounts, FS_Subset
  <1> QED
    BY <1>3, AheadCounts

\* A fold has one winner: the candidate that nobody is ahead of.
LEMMA WinnerLeads ==
  ASSUME NEW fold, IsFold(fold)
  PROVE  /\ Study!Winner(fold) \in Candidates
         /\ \A c \in Candidates : Study!Rank(fold, c) = 1 <=> c = Study!Winner(fold)
         /\ \A c \in Candidates : Study!Rank(fold, c) \in Nat /\ Study!Rank(fold, c) >= 1
  <1> DEFINE counts == {Cardinality(Ahead(fold, c)) : c \in Candidates}
  <1>1. counts \subseteq Nat /\ counts # {}
    BY AheadCounts, CandidateConstants
  <1>2. PICK least \in counts : \A x \in counts : least <= x
    <2> HIDE DEF counts
    <2> QED  BY <1>1, FirstOf
  <1>3. PICK first \in Candidates : least = Cardinality(Ahead(fold, first))
    BY <1>2
  <1>4. Ahead(fold, first) = {}
    <2> SUFFICES ASSUME NEW d \in Ahead(fold, first) PROVE FALSE
      OBVIOUS
    <2>1. d \in Candidates
      BY DEF Ahead
    <2>2. Cardinality(Ahead(fold, d)) < least
      BY <1>3, AheadShrinks
    <2>3. least <= Cardinality(Ahead(fold, d))
      BY <1>2, <2>1
    <2>4. least \in Nat /\ Cardinality(Ahead(fold, d)) \in Nat
      BY <1>3, AheadCounts
    <2> QED
      BY <2>2, <2>3, <2>4
  <1> HIDE DEF counts
  <1>5. \A c \in Candidates : Study!Rank(fold, c) = 1 <=> Ahead(fold, c) = {}
    <2> TAKE c \in Candidates
    <2>1. Study!Rank(fold, c) = 1 <=> Cardinality(Ahead(fold, c)) = 0
      BY RankIs, AheadCounts
    <2> QED
      BY <2>1, AheadCounts
  <1>6. \A c, d \in Candidates : Ahead(fold, c) = {} /\ Ahead(fold, d) = {} => c = d
    <2> TAKE c, d \in Candidates
    <2>1. fold[c] \in Int /\ fold[d] \in Int /\ c \in Int /\ d \in Int
      BY CandidateConstants DEF IsFold
    <2> QED
      BY <2>1 DEF Ahead
  <1>7. Study!Winner(fold) \in Candidates /\ Study!Rank(fold, Study!Winner(fold)) = 1
    BY <1>4, <1>5 DEF Study!Winner
  <1>8. \A c \in Candidates : Study!Rank(fold, c) \in Nat /\ Study!Rank(fold, c) >= 1
    BY RankIs, AheadCounts
  <1> QED
    BY <1>5, <1>6, <1>7, <1>8

\* What divides the folds in two.
LEMMA Halves ==
  ASSUME NEW kept, NEW lost, kept \cup lost = 1 .. Folds, kept \cap lost = {}
  PROVE  /\ Study!Cardinality(lost) + Study!Cardinality(kept) = Folds
         /\ Study!Cardinality(lost) \in Nat /\ Study!Cardinality(kept) \in Nat
  <1>1. IsFiniteSet(1 .. Folds) /\ Cardinality(1 .. Folds) = Folds /\ Folds \in Nat
    BY FS_Interval, StudyConstants
  <1>2. IsFiniteSet(kept) /\ IsFiniteSet(lost)
    <2>1. kept \subseteq 1 .. Folds /\ lost \subseteq 1 .. Folds
      OBVIOUS
    <2> QED
      BY <1>1, <2>1, FS_Subset
  <1>3. Cardinality(kept) \in Nat /\ Cardinality(lost) \in Nat /\ Cardinality({}) = 0
    BY <1>2, FS_CardinalityType, FS_EmptySet
  <1>4. Cardinality(kept \cup lost) = Cardinality(kept) + Cardinality(lost) - Cardinality(kept \cap lost)
    BY <1>2, FS_Union
  <1>5. Folds = Cardinality(kept) + Cardinality(lost) - 0
    BY <1>1, <1>3, <1>4
  <1>6. Study!Cardinality(lost) = Cardinality(lost) /\ Study!Cardinality(kept) = Cardinality(kept)
    BY StudyCounts
  <1> QED
    BY <1>1, <1>3, <1>5, <1>6

\* The winner of a fold wins outside as well, or it degrades.
LEMMA LostWins ==
  ASSUME NEW ins \in [1 .. Folds -> [Candidates -> Metrics]],
         NEW outs \in [1 .. Folds -> [Candidates -> Metrics]],
         NEW kept, kept = {f \in 1 .. Folds : Study!Winner(ins[f]) = Study!Winner(outs[f])},
         NEW lost, lost = {f \in 1 .. Folds : Study!Rank(outs[f], Study!Winner(ins[f]))
                                                 - Study!Rank(ins[f], Study!Winner(ins[f])) > 0}
  PROVE  /\ Study!Cardinality(lost) + Study!Cardinality(kept) = Folds
         /\ Study!Cardinality(lost) \in Nat /\ Study!Cardinality(kept) \in Nat
  <1>1. \A f \in 1 .. Folds : f \in lost <=> f \notin kept
    <2> TAKE f \in 1 .. Folds
    <2>1. IsFold(ins[f]) /\ IsFold(outs[f])
      BY DEF IsFold
    <2> DEFINE w == Study!Winner(ins[f])
               rank == Study!Rank(outs[f], w)
    <2>2. w \in Candidates /\ Study!Rank(ins[f], w) = 1
      BY <2>1, WinnerLeads
    <2>3. /\ rank = 1 <=> w = Study!Winner(outs[f])
          /\ rank \in Nat /\ rank >= 1
      BY <2>1, <2>2, WinnerLeads
    <2>4. f \in kept <=> w = Study!Winner(outs[f])
      OBVIOUS
    <2>5. f \in lost <=> rank - 1 > 0
      BY <2>2
    <2> HIDE DEF rank, w
    <2> QED
      BY <2>3, <2>4, <2>5
  <1>2. kept \subseteq 1 .. Folds /\ lost \subseteq 1 .. Folds
    OBVIOUS
  <1>3. kept \cup lost = 1 .. Folds /\ kept \cap lost = {}
    BY <1>1, <1>2
  <1> QED
    BY <1>3, Halves

-----------------------------------------------------------------------------
(* Corrections                                                               *)

IsPValues(p) == p \in [1 .. Tests -> PValues]
Before(p, i) == {j \in DOMAIN p : p[j] < p[i] \/ (p[j] = p[i] /\ j < i)}

LEMMA PValueTypes ==
  ASSUME NEW p, IsPValues(p)
  PROVE  /\ DOMAIN p = 1 .. Tests /\ Len(p) = Tests /\ p \in Seq(PValues)
         /\ \A i \in 1 .. Tests : p[i] \in 0 .. Unit /\ p[i] \in Int
         /\ \A i, k \in 1 .. Tests : (p[i] * Tests) % k = 0
  <1>1. Tests \in Nat /\ PValues \subseteq 0 .. Unit /\ Unit \in Nat
        /\ \A k \in 1 .. Tests : \A q \in PValues : (q * Tests) % k = 0
    BY StudyConstants DEF Study!ConstantsType
  <1>2. p \in [1 .. Tests -> PValues]
    BY DEF IsPValues
  <1>3. p \in Seq(PValues) /\ Len(p) = Tests
    BY <1>1, <1>2
  <1>4. DOMAIN p = 1 .. Tests /\ \A i \in 1 .. Tests : p[i] \in PValues
    BY <1>2
  <1>5. \A i \in 1 .. Tests : p[i] \in 0 .. Unit /\ p[i] \in Int
    <2>1. PValues \subseteq 0 .. Unit /\ Unit \in Nat
      BY <1>1
    <2>2. \A i \in 1 .. Tests : p[i] \in 0 .. Unit
      BY <1>4, <2>1
    <2> QED
      BY <2>1, <2>2
  <1>6. \A i, k \in 1 .. Tests : (p[i] * Tests) % k = 0
    BY <1>1, <1>4, Zenon
  <1> QED
    BY <1>3, <1>4, <1>5, <1>6

LEMMA PlaceIs ==
  ASSUME NEW p, NEW i
  PROVE  Study!Place(p, i) = 1 + Cardinality(Before(p, i))
  BY StudyCounts DEF Study!Place, Before

\* Of two p-values the one before has the earlier place, and a place is one of 1 .. Tests.
LEMMA PlacesInOrder ==
  ASSUME NEW p, IsPValues(p)
  PROVE  /\ \A i \in 1 .. Tests : Study!Place(p, i) \in 1 .. Tests
         /\ \A i, j \in 1 .. Tests : j \in Before(p, i) => Study!Place(p, j) < Study!Place(p, i)
  <1>1. DOMAIN p = 1 .. Tests /\ \A i \in 1 .. Tests : p[i] \in Int
    BY PValueTypes
  <1>2. IsFiniteSet(1 .. Tests) /\ Cardinality(1 .. Tests) = Tests /\ Tests \in Nat
    BY FS_Interval, StudyConstants
  <1>3. \A i \in 1 .. Tests : Before(p, i) \subseteq 1 .. Tests /\ i \notin Before(p, i)
    BY <1>1 DEF Before
  <1>4. \A i \in 1 .. Tests : IsFiniteSet(Before(p, i)) /\ Cardinality(Before(p, i)) \in Nat
    BY <1>2, <1>3, FS_Subset, FS_CardinalityType
  <1>5. \A i \in 1 .. Tests : Cardinality(Before(p, i)) < Tests
    <2> TAKE i \in 1 .. Tests
    <2>1. /\ Cardinality(Before(p, i)) <= Tests
          /\ Cardinality(Before(p, i)) = Tests => Before(p, i) = 1 .. Tests
      BY <1>2, <1>3, FS_Subset
    <2>2. Cardinality(Before(p, i)) # Tests
      BY <1>3, <2>1
    <2> QED
      BY <1>2, <1>4, <2>1, <2>2
  <1>6. \A i \in 1 .. Tests : Study!Place(p, i) \in 1 .. Tests
    <2> TAKE i \in 1 .. Tests
    <2>1. Study!Place(p, i) = 1 + Cardinality(Before(p, i))
      BY PlaceIs
    <2>2. Cardinality(Before(p, i)) \in Nat /\ Cardinality(Before(p, i)) < Tests /\ Tests \in Nat
      BY <1>2, <1>4, <1>5
    <2> QED
      BY <2>1, <2>2
  <1>7. ASSUME NEW i \in 1 .. Tests, NEW j \in 1 .. Tests, j \in Before(p, i)
        PROVE  Study!Place(p, j) < Study!Place(p, i)
    <2>1. Before(p, j) \subseteq Before(p, i)
      BY <1>1, <1>7 DEF Before
    <2>2. /\ Cardinality(Before(p, j)) <= Cardinality(Before(p, i))
          /\ Cardinality(Before(p, j)) = Cardinality(Before(p, i)) => Before(p, i) = Before(p, j)
      BY <1>4, <2>1, FS_Subset
    <2>3. Cardinality(Before(p, j)) # Cardinality(Before(p, i))
      BY <1>3, <1>7, <2>2
    <2>4. Cardinality(Before(p, j)) < Cardinality(Before(p, i))
      BY <1>4, <2>2, <2>3
    <2> QED
      BY <1>4, <2>4, PlaceIs
  <1> QED
    BY <1>6, <1>7

\* Two p-values never share a place, and an earlier place has no larger p-value.
LEMMA PlacesDiffer ==
  ASSUME NEW p, IsPValues(p), NEW i \in 1 .. Tests, NEW j \in 1 .. Tests
  PROVE  Study!Place(p, i) = Study!Place(p, j) => i = j
  <1>1. DOMAIN p = 1 .. Tests /\ p[i] \in Int /\ p[j] \in Int
    BY PValueTypes
  <1>2. i = j \/ j \in Before(p, i) \/ i \in Before(p, j)
    BY <1>1 DEF Before
  <1>3. Study!Place(p, i) \in Int /\ Study!Place(p, j) \in Int
    BY PlacesInOrder
  <1> QED
    BY <1>2, <1>3, PlacesInOrder

\* Every place is one p-value's.
LEMMA PlacesTaken ==
  ASSUME NEW p, IsPValues(p), NEW k \in 1 .. Tests
  PROVE  \E i \in 1 .. Tests : Study!Place(p, i) = k
  <1> DEFINE f == [i \in 1 .. Tests |-> Study!Place(p, i)]
  <1>1. f \in Injection(1 .. Tests, 1 .. Tests)
    BY PlacesInOrder, PlacesDiffer DEF Injection, IsInjective
  <1>2. IsFiniteSet(1 .. Tests)
    BY FS_Interval, StudyConstants
  <1> HIDE DEF f
  <1>3. f \in Surjection(1 .. Tests, 1 .. Tests)
    BY <1>1, <1>2, FS_Injection
  <1>4. \E i \in 1 .. Tests : f[i] = k
    BY <1>3 DEF Surjection
  <1> QED
    BY <1>4 DEF f

AtPlace(p, k) == CHOOSE i \in DOMAIN p : Study!Place(p, i) = k

LEMMA AtPlaceIs ==
  ASSUME NEW p, IsPValues(p)
  PROVE  /\ \A k \in 1 .. Tests : AtPlace(p, k) \in 1 .. Tests /\ Study!Place(p, AtPlace(p, k)) = k
         /\ \A i \in 1 .. Tests : AtPlace(p, Study!Place(p, i)) = i
  <1>1. DOMAIN p = 1 .. Tests
    BY PValueTypes
  <1>2. \A k \in 1 .. Tests : AtPlace(p, k) \in 1 .. Tests /\ Study!Place(p, AtPlace(p, k)) = k
    BY <1>1, PlacesTaken DEF AtPlace
  <1>3. \A i \in 1 .. Tests : AtPlace(p, Study!Place(p, i)) = i
    <2> TAKE i \in 1 .. Tests
    <2>1. Study!Place(p, i) \in 1 .. Tests
      BY PlacesInOrder
    <2> QED
      BY <1>2, <2>1, PlacesDiffer
  <1> QED
    BY <1>2, <1>3

\* Numbers within Unit that are not none have a largest and a smallest.
LEMMA Bounded ==
  ASSUME NEW T, T \subseteq 0 .. Unit, T # {}, NEW a \in Nat
  PROVE  /\ Study!Max(T) <= a <=> \A x \in T : x <= a
         /\ Study!Min(T) <= a <=> \E x \in T : x <= a
  <1> DEFINE back == {Unit - x : x \in T}
  <1>1. Unit \in Nat /\ T \subseteq Nat
    BY StudyConstants
  <1>2. back \subseteq Nat /\ back # {}
    BY <1>1
  <1>3. PICK b \in back : \A y \in back : b <= y
    <2> HIDE DEF back
    <2> QED  BY <1>2, FirstOf
  <1>4. PICK top \in T : b = Unit - top
    BY <1>3
  <1>5. \A x \in T : top >= x
    <2> TAKE x \in T
    <2>1. Unit - top <= Unit - x
      BY <1>3, <1>4
    <2>2. Unit \in Int /\ top \in Int /\ x \in Int
      BY <1>1
    <2> QED
      BY <2>1, <2>2
  <1>6. Study!Max(T) \in T /\ \A x \in T : Study!Max(T) >= x
    BY <1>5 DEF Study!Max
  <1>7. \E low \in T : \A x \in T : low <= x
    BY <1>1, FirstOf
  <1>8. Study!Min(T) \in T /\ \A x \in T : Study!Min(T) <= x
    BY <1>7 DEF Study!Min
  <1>9. Study!Max(T) \in Nat /\ Study!Min(T) \in Nat /\ \A x \in T : x \in Nat
    BY <1>1, <1>6, <1>8
  <1> HIDE DEF back
  <1> QED
    BY <1>6, <1>8, <1>9

\* A correction is bounded by one.
LEMMA AtMostOne ==
  ASSUME NEW x \in Nat
  PROVE  /\ Study!Min({Unit, x}) \in 0 .. Unit
         /\ Study!Min({Unit, x}) <= Alpha <=> x <= Alpha
  <1>1. Unit \in Nat /\ Alpha \in Int /\ Alpha < Unit
    BY StudyConstants
  <1>2. Study!Min({Unit, x}) = IF Unit <= x THEN Unit ELSE x
    BY <1>1 DEF Study!Min
  <1> QED
    BY <1>1, <1>2

\* What the two corrections compute of one p-value, before the running bound.
HolmOf(p, j) == (Tests - Study!Place(p, j) + 1) * p[j]
BhOf(p, j) == (p[j] * Tests) \div Study!Place(p, j)

LEMMA HolmOfType ==
  ASSUME NEW p, IsPValues(p), NEW j \in 1 .. Tests
  PROVE  HolmOf(p, j) \in Nat
  <1>1. Study!Place(p, j) \in 1 .. Tests /\ p[j] \in Nat /\ Tests \in Nat
    BY PlacesInOrder, PValueTypes, StudyConstants
  <1>2. Tests - Study!Place(p, j) + 1 \in Nat
    BY <1>1
  <1> QED
    BY <1>1, <1>2 DEF HolmOf

\* A quotient that is exact compares as the product does.
LEMMA ExactQuotient ==
  ASSUME NEW x \in Nat, NEW k \in Nat, k > 0, x % k = 0, NEW a \in Nat
  PROVE  x \div k \in Nat /\ (x \div k <= a <=> x <= k * a)
  <1> DEFINE q == x \div k
  <1>1. q \in Nat /\ x = k * q
    BY SMT
  <1> HIDE DEF q
  <1>2. ASSUME q <= a PROVE k * q <= k * a
    BY <1>1, <1>2, SMT
  <1>3. ASSUME q > a PROVE k * q > k * a
    <2>1. PICK d \in Nat : q = a + d /\ d > 0
      <3>1. q - a \in Nat /\ q = a + (q - a) /\ q - a > 0
        BY <1>1, <1>3
      <3> QED  BY <3>1
    <2>2. k * q = k * a + k * d
      BY <2>1, SMT
    <2>3. k * d > 0
      BY <2>1, SMT
    <2>4. k * a \in Nat /\ k * d \in Nat
      BY <2>1
    <2> QED
      BY <2>2, <2>3, <2>4
  <1>4. k * a \in Nat /\ k * q \in Nat
    BY <1>1
  <1> QED
    BY <1>1, <1>2, <1>3, <1>4 DEF q

LEMMA BhOfMeans ==
  ASSUME NEW p, IsPValues(p), NEW j \in 1 .. Tests
  PROVE  /\ BhOf(p, j) \in Nat
         /\ BhOf(p, j) <= Alpha <=> Tests * p[j] <= Study!Place(p, j) * Alpha
  <1>1. Study!Place(p, j) \in 1 .. Tests /\ p[j] \in Nat /\ Tests \in Nat /\ Alpha \in Nat
    BY PlacesInOrder, PValueTypes, StudyConstants
  <1>2. (p[j] * Tests) % Study!Place(p, j) = 0
    BY <1>1, PValueTypes
  <1>3. p[j] * Tests \in Nat /\ p[j] * Tests = Tests * p[j]
    BY <1>1
  <1>4. Study!Place(p, j) \in Nat /\ Study!Place(p, j) > 0
    BY <1>1
  <1> QED
    BY <1>1, <1>2, <1>3, <1>4, ExactQuotient DEF BhOf

\* Holm rejects down to the first that is not small enough.
LEMMA HolmDecides ==
  ASSUME NEW p, IsPValues(p), NEW i \in 1 .. Tests
  PROVE  Study!Holm(p)[i] <= Alpha <=>
            \A k \in 1 .. Study!Place(p, i) : (Tests - k + 1) * p[AtPlace(p, k)] <= Alpha
  <1> DEFINE upTo == {j \in 1 .. Tests : Study!Place(p, j) <= Study!Place(p, i)}
             bounds == {Study!Min({Unit, HolmOf(p, j)}) : j \in upTo}
  <1>1. DOMAIN p = 1 .. Tests /\ Len(p) = Tests /\ Alpha \in Nat
    BY PValueTypes, StudyConstants
  <1>2. Study!Holm(p)[i] = Study!Max(bounds)
    BY <1>1 DEF Study!Holm, HolmOf
  <1>3. Study!Place(p, i) \in 1 .. Tests
    BY PlacesInOrder
  <1>4. i \in upTo
    BY <1>3
  <1>5. upTo \subseteq 1 .. Tests
    OBVIOUS
  <1>6. bounds \subseteq 0 .. Unit /\ bounds # {}
    <2> HIDE DEF upTo
    <2>1. \A j \in upTo : Study!Min({Unit, HolmOf(p, j)}) \in 0 .. Unit
      BY <1>5, HolmOfType, AtMostOne
    <2> QED
      BY <1>4, <2>1
  <1>7. Study!Max(bounds) <= Alpha <=> \A x \in bounds : x <= Alpha
    <2> HIDE DEF bounds
    <2> QED
      BY <1>1, <1>6, Bounded
  <1>8. (\A x \in bounds : x <= Alpha) <=> \A j \in upTo : HolmOf(p, j) <= Alpha
    <2> HIDE DEF upTo
    <2>1. \A j \in upTo : Study!Min({Unit, HolmOf(p, j)}) <= Alpha <=> HolmOf(p, j) <= Alpha
      BY <1>5, HolmOfType, AtMostOne
    <2> QED
      BY <2>1
  <1>9. ASSUME \A j \in upTo : HolmOf(p, j) <= Alpha, NEW k \in 1 .. Study!Place(p, i)
        PROVE  (Tests - k + 1) * p[AtPlace(p, k)] <= Alpha
    <2>1. k \in 1 .. Tests
      BY <1>3, StudyConstants
    <2>2. AtPlace(p, k) \in 1 .. Tests /\ Study!Place(p, AtPlace(p, k)) = k
      BY <2>1, AtPlaceIs
    <2>3. AtPlace(p, k) \in upTo
      BY <2>2
    <2> QED
      BY <1>9, <2>2, <2>3 DEF HolmOf
  <1>10. ASSUME \A k \in 1 .. Study!Place(p, i) : (Tests - k + 1) * p[AtPlace(p, k)] <= Alpha,
                NEW j \in upTo
         PROVE  HolmOf(p, j) <= Alpha
    <2>1. Study!Place(p, j) \in 1 .. Tests /\ AtPlace(p, Study!Place(p, j)) = j
      BY <1>5, AtPlaceIs, PlacesInOrder
    <2>2. Study!Place(p, j) \in 1 .. Study!Place(p, i)
      BY <1>3, <2>1
    <2> QED
      BY <1>10, <2>1, <2>2 DEF HolmOf
  <1> HIDE DEF bounds, upTo
  <1> QED
    BY <1>2, <1>7, <1>8, <1>9, <1>10

\* Benjamini and Hochberg reject up to the last that is small enough.
LEMMA BhDecides ==
  ASSUME NEW p, IsPValues(p), NEW i \in 1 .. Tests
  PROVE  Study!BenjaminiHochberg(p)[i] <= Alpha <=>
            \E k \in Study!Place(p, i) .. Tests : Tests * p[AtPlace(p, k)] <= k * Alpha
  <1> DEFINE from == {j \in 1 .. Tests : Study!Place(p, j) >= Study!Place(p, i)}
             bounds == {Study!Min({Unit, BhOf(p, j)}) : j \in from}
  <1>1. DOMAIN p = 1 .. Tests /\ Len(p) = Tests /\ Alpha \in Nat
    BY PValueTypes, StudyConstants
  <1>2. Study!BenjaminiHochberg(p)[i] = Study!Min(bounds)
    BY <1>1 DEF Study!BenjaminiHochberg, BhOf
  <1>3. Study!Place(p, i) \in 1 .. Tests
    BY PlacesInOrder
  <1>4. i \in from
    BY <1>3
  <1>5. from \subseteq 1 .. Tests
    OBVIOUS
  <1>6. bounds \subseteq 0 .. Unit /\ bounds # {}
    <2> HIDE DEF from
    <2>1. \A j \in from : Study!Min({Unit, BhOf(p, j)}) \in 0 .. Unit
      BY <1>5, BhOfMeans, AtMostOne
    <2> QED
      BY <1>4, <2>1
  <1>7. Study!Min(bounds) <= Alpha <=> \E x \in bounds : x <= Alpha
    <2> HIDE DEF bounds
    <2> QED
      BY <1>1, <1>6, Bounded
  <1>8. (\E x \in bounds : x <= Alpha)
            <=> \E j \in from : Tests * p[j] <= Study!Place(p, j) * Alpha
    <2> HIDE DEF from
    <2>1. \A j \in from : Study!Min({Unit, BhOf(p, j)}) <= Alpha
                              <=> Tests * p[j] <= Study!Place(p, j) * Alpha
      BY <1>5, BhOfMeans, AtMostOne
    <2> QED
      BY <2>1
  <1>9. ASSUME NEW j \in from, Tests * p[j] <= Study!Place(p, j) * Alpha
        PROVE  \E k \in Study!Place(p, i) .. Tests : Tests * p[AtPlace(p, k)] <= k * Alpha
    <2>1. Study!Place(p, j) \in 1 .. Tests /\ AtPlace(p, Study!Place(p, j)) = j
      BY <1>5, AtPlaceIs, PlacesInOrder
    <2>2. Study!Place(p, j) \in Study!Place(p, i) .. Tests
      BY <1>3, <2>1
    <2> QED
      BY <1>9, <2>1, <2>2
  <1>10. ASSUME NEW k \in Study!Place(p, i) .. Tests, Tests * p[AtPlace(p, k)] <= k * Alpha
         PROVE  \E j \in from : Tests * p[j] <= Study!Place(p, j) * Alpha
    <2>1. k \in 1 .. Tests
      BY <1>3, StudyConstants
    <2>2. AtPlace(p, k) \in 1 .. Tests /\ Study!Place(p, AtPlace(p, k)) = k
      BY <2>1, AtPlaceIs
    <2>3. AtPlace(p, k) \in from
      BY <2>2
    <2> QED
      BY <1>10, <2>2, <2>3
  <1> HIDE DEF bounds, from
  <1> QED
    BY <1>2, <1>7, <1>8, <1>9, <1>10

LEMMA Scaled ==
  ASSUME NEW x \in Nat, NEW y \in Nat, x <= y, NEW k \in Nat
  PROVE  x * k <= y * k
  <1>1. PICK d \in Nat : y = x + d
    <2>1. y - x \in Nat /\ y = x + (y - x)
      OBVIOUS
    <2> QED  BY <2>1
  <1>2. y * k = x * k + d * k /\ x * k \in Nat /\ d * k \in Nat
    BY <1>1, SMT
  <1> QED
    BY <1>2

\* What Holm rejects, Benjamini and Hochberg reject.
LEMMA HolmIsStricter ==
  ASSUME NEW p, IsPValues(p), NEW i \in 1 .. Tests,
         \A k \in 1 .. Study!Place(p, i) : (Tests - k + 1) * p[AtPlace(p, k)] <= Alpha
  PROVE  \E k \in Study!Place(p, i) .. Tests : Tests * p[AtPlace(p, k)] <= k * Alpha
  <1> DEFINE k == Study!Place(p, i)
             q == p[AtPlace(p, k)]
             rest == Tests - k
  <1>1. k \in 1 .. Tests /\ Tests \in Nat /\ Alpha \in Nat
    BY PlacesInOrder, StudyConstants
  <1>2. q \in Nat
    BY <1>1, AtPlaceIs, PValueTypes
  <1>3. (Tests - k + 1) * q <= Alpha
    BY <1>1
  <1> HIDE DEF k, q
  <1>4. rest \in Nat /\ k - 1 \in Nat /\ k \in Nat /\ Tests = rest + k
    BY <1>1
  <1> HIDE DEF rest
  <1>5. ((rest + 1) * q) * k <= Alpha * k
    <2>1. (rest + 1) * q <= Alpha
      BY <1>1, <1>2, <1>3, <1>4
    <2> QED
      BY <1>1, <1>2, <1>4, <2>1, Scaled
  <1>6. Tests * q <= ((rest + 1) * q) * k
    <2>1. ((rest + 1) * q) * k = (rest + k) * q + (rest * (k - 1)) * q
      BY <1>2, <1>4, SMT
    <2>2. (rest * (k - 1)) * q \in Nat /\ (rest + k) * q \in Nat
      BY <1>2, <1>4
    <2> QED
      BY <1>4, <2>1, <2>2
  <1>7. Tests * q \in Int /\ ((rest + 1) * q) * k \in Int /\ Alpha * k \in Int /\ Alpha * k = k * Alpha
    BY <1>1, <1>2, <1>4
  <1>8. Tests * q <= k * Alpha /\ k \in k .. Tests
    BY <1>1, <1>5, <1>6, <1>7
  <1> QED
    BY <1>8 DEF k, q

-----------------------------------------------------------------------------
(* The life of a study                                                       *)

\* A study that minds symbols still has every split that tests the first group before it,
\* and a profile and a correction are made once.
StudyNews == status = "new" => records = <<>> /\ aware = FALSE /\ splits = <<>> /\ pbo = -1
                               /\ oosWins = 0 /\ pvalues = <<>>
SplitsSound ==
    /\ \E made : splits \in Seq(made)
    /\ \A n \in DOMAIN splits : /\ splits[n].kept \subseteq DOMAIN records /\ StudySplitSound(splits[n])
                                /\ aware => 0 \notin splits[n].test
FirstGroupLeft ==
    aware => /\ status # "done"
             /\ \A t \in Study!kSubset(TestGroups, 0 .. Groups - 1) : 0 \in t => t \in todo
ProfileInv ==
    /\ pbo \in -1 .. Folds /\ oosWins \in 0 .. Folds /\ (pbo # -1 => pbo + oosWins = Folds)
CorrectionInv ==
    pvalues # <<>> => /\ IsPValues(pvalues) /\ holm = Study!Holm(pvalues)
                      /\ bh = Study!BenjaminiHochberg(pvalues)
StudyTypes ==
    /\ StudyRecords /\ records \in Histories \cup {<<>>}
    /\ status \in {"new", "splitting", "done", "raised"}
    /\ todo \subseteq Study!kSubset(TestGroups, 0 .. Groups - 1)
StudyInv ==
    StudyTypes /\ StudyNews /\ SplitsSound /\ FirstGroupLeft /\ ProfileInv /\ CorrectionInv

LEMMA StudyBegins == Study!Init => StudyInv
  <1> SUFFICES ASSUME Study!Init PROVE StudyInv
    OBVIOUS
  <1> USE DEF Study!Init, Study!None
  <1>1. StudyTypes
    <2>1. /\ records \in Seq(StudyRecord) /\ DOMAIN records = {}
          /\ purge = 0 /\ embargo = 0 /\ aware = FALSE
      OBVIOUS
    <2> HIDE DEF Study!Init
    <2>2. StudyRecords
      <3>1. aware \in BOOLEAN
        BY <2>1, Zenon
      <3>2. \A i, j \in DOMAIN records : i <= j => records[i].time <= records[j].time
        BY <2>1
      <3> QED
        BY <2>1, <3>1, <3>2 DEF StudyRecords
    <2> QED
      BY <2>2 DEF StudyTypes, Study!Init
  <1>2. StudyNews /\ SplitsSound /\ FirstGroupLeft
    BY DEF StudyNews, SplitsSound, FirstGroupLeft
  <1>3. ProfileInv /\ CorrectionInv
    BY StudyConstants DEF ProfileInv, CorrectionInv
  <1> QED
    BY <1>1, <1>2, <1>3 DEF StudyInv

\* The first set of a test group is one that tests the first group of records.
LEMMA FirstGroupTested ==
  \E t \in Study!kSubset(TestGroups, 0 .. Groups - 1) : 0 \in t
  <1> DEFINE t == 0 .. TestGroups - 1
  <1>1. TestGroups \in Nat /\ TestGroups >= 1 /\ TestGroups <= Groups - 1 /\ Groups \in Nat
    BY StudyConstants
  <1>2. t \in SUBSET (0 .. Groups - 1) /\ 0 \in t
    BY <1>1
  <1>3. Cardinality(t) = TestGroups
    BY <1>1, FS_Interval
  <1>4. Study!Cardinality(t) = TestGroups
    BY <1>3, StudyCounts
  <1> HIDE DEF t
  <1> QED
    BY <1>2, <1>4 DEF Study!kSubset

LEMMA GenerateStep ==
  ASSUME StudyInv, NEW h \in Histories, NEW p \in Purges, NEW e \in Embargoes, NEW a \in BOOLEAN,
         Study!GenerateCpcvSplits(h, p, e, a)
  PROVE  StudyInv'
  <1> USE DEF Study!GenerateCpcvSplits
  <1>1. splits = <<>> /\ pbo = -1 /\ oosWins = 0 /\ pvalues = <<>>
    BY DEF StudyInv, StudyNews
  <1>2. Study!IsHistory(h) /\ p \in Int /\ e \in Int
    BY StudyConstants DEF Study!ConstantsType
  <1>3. StudyTypes'
    BY <1>2 DEF StudyTypes, StudyRecords, StudyRecord, Study!IsHistory
  <1>4. StudyNews'
    BY DEF StudyNews
  <1>5. SplitsSound'
    BY <1>1 DEF SplitsSound
  <1>6. FirstGroupLeft'
    BY DEF FirstGroupLeft
  <1>7. ProfileInv' /\ CorrectionInv'
    BY <1>1 DEF StudyInv, ProfileInv, CorrectionInv
  <1> QED
    BY <1>3, <1>4, <1>5, <1>6, <1>7 DEF StudyInv

\* A split is about records that do not change.
LEMMA SplitsStaySound ==
  ASSUME UNCHANGED <<records, purge, embargo, aware>>, NEW s, StudySplitSound(s)
  PROVE  StudySplitSound(s)'
  BY DEF StudySplitSound, Study!Times, Study!Of, Study!Group

LEMMA SplitStep ==
  ASSUME StudyInv, Study!Split
  PROVE  StudyInv'
  <1> DEFINE test == Study!Of(Study!NextTest)
             train == Study!Of((0 .. Groups - 1) \ Study!NextTest)
             kept == {i \in train : ~ Study!Leaks(i, train, Study!Min(Study!Times(test)),
                                                  Study!Max(Study!Times(test)))}
             made == [test |-> Study!NextTest, kept |-> kept, leaked |-> kept # train]
  <1>0. /\ UNCHANGED <<records, purge, embargo, aware, inside, outside, pbo, oosWins, pvalues, holm, bh>>
        /\ status = "splitting"
    BY DEF Study!Split
  <1>1. StudyRecords
    BY DEF StudyInv, StudyTypes
  <1>2. ProfileInv' /\ CorrectionInv'
    BY <1>0 DEF StudyInv, ProfileInv, CorrectionInv
  <1>3. CASE status' = "raised" /\ UNCHANGED <<todo, splits>>
    <2>1. StudyTypes' /\ StudyNews'
      BY <1>0, <1>3 DEF StudyInv, StudyTypes, StudyNews, StudyRecords
    <2>2. SplitsSound'
      BY <1>0, <1>3, SplitsStaySound DEF StudyInv, SplitsSound
    <2>3. FirstGroupLeft'
      BY <1>0, <1>3 DEF StudyInv, FirstGroupLeft
    <2> QED
      BY <1>2, <2>1, <2>2, <2>3 DEF StudyInv
  <1>4. CASE /\ test # {} /\ kept # {} /\ splits' = Append(splits, made)
             /\ todo' = todo \ {Study!NextTest}
             /\ status' = IF todo' = {} THEN "done" ELSE status
    <2>1. aware => 0 \notin Study!NextTest
      <3> SUFFICES ASSUME aware, 0 \in Study!NextTest PROVE FALSE
        OBVIOUS
      <3>1. train \subseteq DOMAIN records
        BY DEF Study!Of
      <3>2. \A i \in train : Study!Leaks(i, train, Study!Min(Study!Times(test)), Study!Max(Study!Times(test)))
        <4> HIDE DEF train
        <4> QED  BY <1>1, <3>1, NothingBefore
      <3> QED
        BY <1>4, <3>2
    <2>2. kept \subseteq DOMAIN records /\ \A leaked : StudySplitSound([test |-> Study!NextTest, kept |-> kept, leaked |-> leaked])
      BY <1>1, <1>4, SplitLooksClean
    <2>3. ASSUME TRUE PROVE made.kept \subseteq DOMAIN records /\ StudySplitSound(made)
      <3> HIDE DEF kept
      <3> QED  BY <2>2
    <2>4. todo' # {} => status' = "splitting"
      BY <1>0, <1>4
    <2>5. StudyTypes' /\ StudyNews'
      BY <1>0, <1>4 DEF StudyInv, StudyTypes, StudyNews, StudyRecords
    <2>6. FirstGroupLeft'
      <3> SUFFICES ASSUME aware
                   PROVE /\ status' # "done"
                         /\ \A t \in Study!kSubset(TestGroups, 0 .. Groups - 1) : 0 \in t => t \in todo'
        BY <1>0 DEF FirstGroupLeft
      <3>1. \A t \in Study!kSubset(TestGroups, 0 .. Groups - 1) : 0 \in t => t \in todo'
        BY <1>4, <2>1 DEF StudyInv, FirstGroupLeft
      <3>2. todo' # {}
        BY <3>1, FirstGroupTested
      <3> QED
        BY <2>4, <3>1, <3>2
    <2>7. SplitsSound'
      <3>1. PICK all : splits \in Seq(all)
        BY DEF StudyInv, SplitsSound
      <3>2. splits' = Append(splits, made) /\ Append(splits, made) \in Seq(all \cup {made})
        <4> HIDE DEF made
        <4>1. splits \in Seq(all \cup {made})
          BY <3>1
        <4> QED  BY <1>4, <4>1
      <3>3. ASSUME NEW n \in DOMAIN splits'
            PROVE  (n \in DOMAIN splits /\ splits'[n] = splits[n]) \/ splits'[n] = made
        <4> HIDE DEF made
        <4> QED  BY <1>4, <3>1
      <3>5. made.kept \subseteq DOMAIN records /\ StudySplitSound(made) /\ (aware => 0 \notin made.test)
        BY <2>1, <2>3
      <3>6. ASSUME NEW n \in DOMAIN splits'
            PROVE  (/\ splits[n].kept \subseteq DOMAIN records /\ StudySplitSound(splits[n])
                    /\ aware => 0 \notin splits[n].test)'
        <4>1. \A m \in DOMAIN splits : /\ splits[m].kept \subseteq DOMAIN records
                                       /\ StudySplitSound(splits[m]) /\ (aware => 0 \notin splits[m].test)
          BY DEF StudyInv, SplitsSound
        <4>2. PICK s : s = splits'[n]
          OBVIOUS
        <4>3. s.kept \subseteq DOMAIN records /\ StudySplitSound(s) /\ (aware => 0 \notin s.test)
          <5> HIDE DEF made
          <5>1. CASE n \in DOMAIN splits /\ s = splits[n]
            BY <4>1, <5>1
          <5>2. CASE s = made
            BY <3>5, <5>2
          <5> QED  BY <3>3, <4>2, <5>1, <5>2
        <4> HIDE DEF made
        <4>4. StudySplitSound(splits[n])'
          BY <1>0, <4>2, <4>3 DEF StudySplitSound, Study!Times, Study!Of, Study!Group
        <4> QED
          BY <1>0, <4>2, <4>3, <4>4
      <3> QED
        BY <3>2, <3>6 DEF SplitsSound
    <2> QED
      BY <1>2, <2>5, <2>6, <2>7 DEF StudyInv
  <1> QED
    BY <1>3, <1>4 DEF Study!Split

LEMMA ProfileStep ==
  ASSUME StudyInv, NEW ins \in [1 .. Folds -> [Candidates -> Metrics]],
         NEW outs \in [1 .. Folds -> [Candidates -> Metrics]],
         Study!ProbabilityOfOverfitting(ins, outs)
  PROVE  StudyInv'
  <1> DEFINE won == {f \in 1 .. Folds : Study!Winner(ins[f]) = Study!Winner(outs[f])}
             lost == {f \in 1 .. Folds : Study!Rank(outs[f], Study!Winner(ins[f]))
                                            - Study!Rank(ins[f], Study!Winner(ins[f])) > 0}
  <1>1. /\ status = "new" /\ status' = "done"
        /\ oosWins' = Study!Cardinality(won) /\ pbo' = Study!Cardinality(lost)
        /\ UNCHANGED <<records, purge, embargo, aware, todo, splits, pvalues, holm, bh>>
    BY DEF Study!ProbabilityOfOverfitting
  <1>2. /\ Study!Cardinality(lost) + Study!Cardinality(won) = Folds
        /\ Study!Cardinality(lost) \in Nat /\ Study!Cardinality(won) \in Nat
    BY LostWins
  <1> HIDE DEF won, lost
  <1>3. ProfileInv'
    BY <1>1, <1>2, StudyConstants DEF ProfileInv
  <1>4. aware = FALSE /\ splits = <<>>
    BY <1>1 DEF StudyInv, StudyNews
  <1>5. StudyTypes' /\ StudyNews' /\ FirstGroupLeft'
    BY <1>1, <1>4 DEF StudyInv, StudyTypes, StudyNews, FirstGroupLeft, StudyRecords
  <1>6. SplitsSound' /\ CorrectionInv'
    BY <1>1, <1>4 DEF StudyInv, SplitsSound, CorrectionInv
  <1> QED
    BY <1>3, <1>5, <1>6 DEF StudyInv

LEMMA CorrectStep ==
  ASSUME StudyInv, NEW p \in [1 .. Tests -> PValues], Study!Correct(p)
  PROVE  StudyInv'
  <1>1. /\ status = "new" /\ status' = "done"
        /\ pvalues' = p /\ holm' = Study!Holm(p) /\ bh' = Study!BenjaminiHochberg(p)
        /\ UNCHANGED <<records, purge, embargo, aware, todo, splits, pbo, oosWins>>
    BY DEF Study!Correct
  <1>2. IsPValues(p)
    BY DEF IsPValues
  <1>3. CorrectionInv'
    BY <1>1, <1>2 DEF CorrectionInv, Study!Holm, Study!BenjaminiHochberg, Study!Place, IsPValues
  <1>4. aware = FALSE /\ splits = <<>>
    BY <1>1 DEF StudyInv, StudyNews
  <1>5. StudyTypes' /\ StudyNews' /\ FirstGroupLeft'
    BY <1>1, <1>4 DEF StudyInv, StudyTypes, StudyNews, FirstGroupLeft, StudyRecords
  <1>6. SplitsSound' /\ ProfileInv'
    BY <1>1, <1>4 DEF StudyInv, SplitsSound, ProfileInv
  <1> QED
    BY <1>3, <1>5, <1>6 DEF StudyInv

LEMMA StudyRestsKept ==
  ASSUME StudyInv, UNCHANGED <<splits, studyVars>>
  PROVE  StudyInv'
  <1> USE DEF studyVars
  <1>1. StudyTypes' /\ StudyNews' /\ FirstGroupLeft'
    BY DEF StudyInv, StudyTypes, StudyNews, FirstGroupLeft, StudyRecords
  <1>2. SplitsSound'
    BY SplitsStaySound DEF StudyInv, SplitsSound
  <1>3. ProfileInv' /\ CorrectionInv'
    BY DEF StudyInv, ProfileInv, CorrectionInv
  <1> QED
    BY <1>1, <1>2, <1>3 DEF StudyInv

LEMMA StudyKept == StudyInv /\ (Study!Next \/ UNCHANGED <<splits, studyVars>>) => StudyInv'
  BY GenerateStep, SplitStep, ProfileStep, CorrectStep, StudyRestsKept DEF Study!Next

LEMMA CorrectionsHold == CorrectionInv => Study!CorrectionsDecide
  <1> SUFFICES ASSUME CorrectionInv, pvalues # <<>> PROVE Study!CorrectionsDecide
    BY DEF Study!CorrectionsDecide
  <1> DEFINE p == pvalues
             down == {i \in 1 .. Tests : \A k \in 1 .. Study!Place(p, i) :
                         (Tests - k + 1) * p[AtPlace(p, k)] <= Alpha}
             up == {i \in 1 .. Tests : \E k \in Study!Place(p, i) .. Tests :
                       Tests * p[AtPlace(p, k)] <= k * Alpha}
  <1>1. IsPValues(p) /\ holm = Study!Holm(p) /\ bh = Study!BenjaminiHochberg(p)
    BY DEF CorrectionInv
  <1>2. DOMAIN p = 1 .. Tests /\ Len(p) = Tests
    BY <1>1, PValueTypes
  <1>3. {i \in 1 .. Tests : holm[i] <= Alpha} = down
    <2> HIDE DEF p
    <2> QED  BY <1>1, HolmDecides
  <1>4. {i \in 1 .. Tests : bh[i] <= Alpha} = up
    <2> HIDE DEF p
    <2> QED  BY <1>1, BhDecides
  <1>5. down \subseteq up
    <2> HIDE DEF p
    <2> QED  BY <1>1, HolmIsStricter
  <1> DEFINE rejected == {i \in DOMAIN p : \A k \in 1 .. Study!Place(p, i) :
                              (Len(p) - k + 1) * p[AtPlace(p, k)] <= Alpha}
             found == {i \in DOMAIN p : \E k \in Study!Place(p, i) .. Len(p) :
                           Len(p) * p[AtPlace(p, k)] <= k * Alpha}
  <1>6. rejected = down /\ found = up
    <2> HIDE DEF p
    <2> QED  BY <1>2
  <1>7. /\ {i \in DOMAIN p : holm[i] <= Alpha} = rejected
        /\ {i \in DOMAIN p : bh[i] <= Alpha} = found
        /\ rejected \subseteq found
    <2> HIDE DEF p, down, up, rejected, found
    <2> QED  BY <1>2, <1>3, <1>4, <1>5, <1>6
  <1> QED
    BY <1>7, Zenon DEF Study!CorrectionsDecide, AtPlace

LEMMA StudySound ==
  StudyInv => /\ Study!TypeOK /\ Study!NothingLeaks /\ Study!AwareStudiesRaise
              /\ Study!OverfittingIsLostWins /\ Study!CorrectionsDecide
  <1> SUFFICES ASSUME StudyInv
               PROVE  /\ Study!TypeOK /\ Study!NothingLeaks /\ Study!AwareStudiesRaise
                      /\ Study!OverfittingIsLostWins /\ Study!CorrectionsDecide
    OBVIOUS
  <1>1. Study!TypeOK
    BY DEF StudyInv, StudyTypes, SplitsSound, ProfileInv, Study!TypeOK
  <1>2. Study!NothingLeaks
    BY DEF StudyInv, SplitsSound, StudySplitSound, Study!NothingLeaks, Study!ToSet
  <1>3. Study!AwareStudiesRaise
    BY DEF StudyInv, FirstGroupLeft, SplitsSound, Study!AwareStudiesRaise, Study!ToSet
  <1>4. Study!OverfittingIsLostWins
    BY DEF StudyInv, ProfileInv, Study!OverfittingIsLostWins, Study!None
  <1>5. Study!CorrectionsDecide
    BY CorrectionsHold DEF StudyInv
  <1> QED
    BY <1>1, <1>2, <1>3, <1>4, <1>5

\* validation/engine.py.  Whatever the records, controls, candidates and p-values: no split trains on
\* what its test knows, a study that minds symbols never ends, overfitting is the share of lost wins,
\* and the corrections decide as the procedures they stand for.
THEOREM StudiesAreAlwaysSound == ServicesSpec => []StudiesAreSound
  <1> DEFINE Kept == part = "study" => StudyInv
  <1>1. ServicesInit => Kept
    BY OnePartBegins, StudyBegins
  <1>2. Kept /\ [ServicesNext]_allVars => Kept'
    BY OnePartMoves, StudyKept
  <1>3. Kept => StudiesAreSound
    BY StudySound DEF StudiesAreSound
  <1> QED
    BY <1>1, <1>2, <1>3, PTL DEF ServicesSpec

-----------------------------------------------------------------------------
(* What was settled                                                          *)

\* The registries, manager.py: a name that resolves goes on resolving and moves at most once, and no
\* answer or pause of a download throws its progress away.
THEOREM SettledAlwaysStays == ServicesSpec => SettledStays
  <1> DEFINE Kept == /\ part = "registry" => RegistryInv
                     /\ part = "download" => DownloadInv
  <1>1. ServicesInit => Kept
    BY OnePartBegins, RegistryBegins, DownloadBegins
  <1>2. Kept /\ [ServicesNext]_allVars => Kept'
    BY OnePartMoves, RegistryKept, DownloadKept
  <1>3. Kept /\ [ServicesNext]_allVars =>
            /\ [part = "registry" => Registry!NamesMoveOnce]_registryVars
            /\ [part = "download" => Download!ProgressStays]_downloadVars
    BY OnePartMoves, RegistryKept, DownloadKept
  <1> QED
    BY <1>1, <1>2, <1>3, PTL DEF ServicesSpec, SettledStays

=============================================================================
