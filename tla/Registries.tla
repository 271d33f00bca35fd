------------------------------ MODULE Registries -----------------------------
(* The three registries a strategy is looked up in by name: of templates      *)
(* (backtesting/strategy_library.py, StrategyTemplateRegistry), of roll       *)
(* policies (strategy_management.py, RollPolicyRegistry) and of policies and  *)
(* policy sets (strategy_policy_library.py, StrategyPolicyRegistry).  A       *)
(* registration that raises may leave the part it did behind.                 *)
EXTENDS Integers, FiniteSets, Functions

CONSTANTS
    Ids,           \* canonical identifiers
    Aliases,       \* other names
    Versions,      \* versions of a definition
    MaxSets,       \* bound: policy sets registered
    NoId           \* the name that resolves to nothing

\* an alias may be the identifier of a definition, registered before it or after
ConstantsType == NoId \notin Ids \cup Aliases

VARIABLES
    templates,     \* identifier -> the version registered
    templateAlias, \* alias -> identifier
    rolls,         \* the same of the roll policies
    rollAlias,
    policies,      \* the same of the policies
    policyAlias,
    policySets,    \* <<set, version>> -> the names it lists
    raised         \* the last call raised

vars == <<templates, templateAlias, rolls, rollAlias, policies, policyAlias, policySets, raised>>

With(f, k, v) == [x \in DOMAIN f \cup {k} |-> IF x = k THEN v ELSE f[x]]

TypeOK ==
    /\ \A registry \in {templates, rolls, policies} :
          DOMAIN registry \subseteq Ids /\ \A i \in DOMAIN registry : registry[i] \in Versions
    /\ \A names \in {templateAlias, rollAlias, policyAlias} :
          DOMAIN names \subseteq Aliases /\ \A a \in DOMAIN names : names[a] \in Ids
    /\ \A s \in DOMAIN policySets : s \in Ids \X Versions /\ policySets[s] \subseteq Ids \cup Aliases
    /\ raised \in BOOLEAN

Init ==
    /\ templates = <<>> /\ templateAlias = <<>>
    /\ rolls = <<>> /\ rollAlias = <<>>
    /\ policies = <<>> /\ policyAlias = <<>> /\ policySets = <<>>
    /\ raised = FALSE

others(registry) ==
    /\ registry # "templates" => UNCHANGED <<templates, templateAlias>>
    /\ registry # "rolls" => UNCHANGED <<rolls, rollAlias>>
    /\ registry # "policies" => UNCHANGED <<policies, policyAlias, policySets>>

\* the aliases are entered one by one, in the order listed, until one of them is
\* another definition's: `done` of them before it
EnterAliases(names, id, wanted, done) ==
    [a \in DOMAIN names \cup done |-> IF a \in done THEN id ELSE names[a]]
TakenNever(names, id, wanted) == {}                                 \* mutant
Taken(names, id, wanted) == {a \in wanted : a \in DOMAIN names /\ names[a] # id}
Entered(names, id, wanted) ==
    IF Taken(names, id, wanted) = {} THEN {wanted} ELSE SUBSET (wanted \ Taken(names, id, wanted))

-----------------------------------------------------------------------------
(* StrategyTemplateRegistry                                                   *)
Register(id, version, wanted) ==
    /\ IF id \in DOMAIN templates
       THEN raised' = TRUE /\ UNCHANGED <<templates, templateAlias>>
       ELSE /\ templates' = With(templates, id, version)
            /\ \E done \in Entered(templateAlias, id, wanted) :
                   templateAlias' = EnterAliases(templateAlias, id, wanted, done)
            /\ raised' = (Taken(templateAlias, id, wanted) # {})
    /\ others("templates")

\* one template of a plugin: an override replaces the definition and leaves the
\* aliases of the one it replaces in place
RegisterPluginTemplate(id, version, wanted, overrides) ==
    \/ /\ id \in DOMAIN templates /\ overrides
       /\ templates' = With(templates, id, version)
       /\ raised' = FALSE
       /\ UNCHANGED templateAlias
       /\ others("templates")
    \/ /\ ~(id \in DOMAIN templates /\ overrides)
       /\ Register(id, version, wanted)

ResolveTemplate(name) ==
    IF name \in DOMAIN templates THEN name
    ELSE IF name \in DOMAIN templateAlias THEN templateAlias[name] ELSE NoId

-----------------------------------------------------------------------------
(* RollPolicyRegistry                                                         *)
RegisterRollPolicy(id, version, wanted) ==
    /\ IF id \in DOMAIN rolls /\ rolls[id] # version
       THEN raised' = TRUE /\ UNCHANGED <<rolls, rollAlias>>
       ELSE /\ rolls' = With(rolls, id, version)
            /\ \E done \in Entered(rollAlias, id, wanted) :
                   rollAlias' = EnterAliases(rollAlias, id, wanted, done)
            /\ raised' = (Taken(rollAlias, id, wanted) # {})
    /\ others("rolls")

ResolveRollPolicy(name) ==
    LET key == IF name \in DOMAIN rollAlias THEN rollAlias[name] ELSE name
    IN  IF key \in DOMAIN rolls THEN key ELSE NoId

-----------------------------------------------------------------------------
(* StrategyPolicyRegistry                                                     *)
RegisterPolicy(id, version) ==
    /\ IF id \in DOMAIN policies /\ policies[id] # version
       THEN raised' = TRUE /\ UNCHANGED policies
       ELSE policies' = With(policies, id, version) /\ raised' = FALSE
    /\ UNCHANGED <<policyAlias, policySets>> /\ others("policies")

RegisterAliasAhead(alias, id) ==                                    \* mutant
    /\ IF alias \in DOMAIN policyAlias /\ policyAlias[alias] # id
       THEN raised' = TRUE /\ UNCHANGED policyAlias
       ELSE policyAlias' = With(policyAlias, alias, id) /\ raised' = FALSE
    /\ UNCHANGED <<policies, policySets>> /\ others("policies")
RegisterAlias(alias, id) ==
    /\ IF \/ alias \in DOMAIN policyAlias /\ policyAlias[alias] # id
          \/ id \notin DOMAIN policies
       THEN raised' = TRUE /\ UNCHANGED policyAlias
       ELSE policyAlias' = With(policyAlias, alias, id) /\ raised' = FALSE
    /\ UNCHANGED <<policies, policySets>> /\ others("policies")

ResolvePolicy(name) ==
    LET key == IF name \in DOMAIN policyAlias THEN policyAlias[name] ELSE name
    IN  IF key \in DOMAIN policies THEN key ELSE NoId

RegisterPolicySet(set, version, names) ==
    /\ IF \/ <<set, version>> \in DOMAIN policySets
          \/ \E n \in names : ResolvePolicy(n) = NoId
       THEN raised' = TRUE /\ UNCHANGED policySets
       ELSE policySets' = With(policySets, <<set, version>>, names) /\ raised' = FALSE
    /\ UNCHANGED <<policies, policyAlias>> /\ others("policies")

-----------------------------------------------------------------------------
TemplateStep == \E id \in Ids, v \in Versions, wanted \in SUBSET Aliases :
    Register(id, v, wanted) \/ \E o \in BOOLEAN : RegisterPluginTemplate(id, v, wanted, o)
RollStep == \E id \in Ids, v \in Versions, wanted \in SUBSET Aliases :
    RegisterRollPolicy(id, v, wanted)
PolicyStep ==
    \/ \E id \in Ids, v \in Versions : RegisterPolicy(id, v)
    \/ \E id \in Ids, a \in Aliases : RegisterAlias(a, id)
    \/ \E set \in Ids, v \in Versions, names \in SUBSET (Ids \cup Aliases) :
           /\ Cardinality(DOMAIN policySets) < MaxSets \/ <<set, v>> \in DOMAIN policySets
           /\ RegisterPolicySet(set, v, names)

\* the registries share nothing: each is exercised from a state in which the
\* others are empty
Next ==
    \/ rolls = <<>> /\ policies = <<>> /\ TemplateStep
    \/ templates = <<>> /\ policies = <<>> /\ RollStep
    \/ templates = <<>> /\ rolls = <<>> /\ PolicyStep

Spec == Init /\ [][Next]_vars

-----------------------------------------------------------------------------
\* A name that resolves goes on resolving whatever is registered after it and
\* whichever registration raises half-way, and moves to another item at most
\* once: the alias of a template when a template of that very name is registered
\* (a template goes ahead of an alias); the own name of a policy or roll policy
\* when an alias of that name is (there the alias goes ahead).  No alias is ever
\* taken to another definition by an alias, an override or a plugin (register,
\* register_plugin_templates, register_policy, register_alias, resolve of the
\* three registries).
NamesMoveOnce ==
    LET aliasFirst(n, r, next) ==
            /\ r \notin {NoId, n} => next = r
            /\ r = n => next # NoId
    IN  \A n \in Ids \cup Aliases :
            /\ ResolveTemplate(n) # NoId => ResolveTemplate(n)' \in {ResolveTemplate(n), n}
            /\ aliasFirst(n, ResolveRollPolicy(n), ResolveRollPolicy(n)')
            /\ aliasFirst(n, ResolvePolicy(n), ResolvePolicy(n)')

\* Every name a stored set lists can be resolved at any later time, though not
\* always to the policy it led to when the set was registered
\* (register_policy_set, evaluate_policy_set).
SetsResolve ==
    \A s \in DOMAIN policySets : \A n \in policySets[s] : ResolvePolicy(n) # NoId

\* Every alias of every registry leads to a definition.
AliasesLead ==
    /\ \A a \in DOMAIN templateAlias : ResolveTemplate(a) # NoId
    /\ \A a \in DOMAIN rollAlias : ResolveRollPolicy(a) # NoId
    /\ \A a \in DOMAIN policyAlias : ResolvePolicy(a) # NoId
=============================================================================
