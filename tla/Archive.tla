------------------------------- MODULE Archive -------------------------------
(* What a persistence service promises: a call is stored whole or not at all. *)
(* The rows of a kind of store are kept by their key, and the kind says which *)
(* of two stores of one key is read afterwards.                               *)
EXTENDS Naturals, FiniteSets

CONSTANTS Runs, Items, Versions

VARIABLES
    kind,    \* "latest", "first", "once" or "each"
    headed,  \* a store writes a row for its run
    header,  \* for each run the version its row was stored from, or 0
    stored   \* the version each stored row comes from, by its key

vars == <<kind, headed, header, stored>>

Copies(owner, item) == {key \in DOMAIN stored : key.owner = owner /\ key.item = item}

\* a store of the kind "each" adds to the rows there are, the others name theirs
Key(owner, item) ==
    [ owner |-> owner, item |-> item,
      copy |-> IF kind = "each" THEN 1 + Cardinality(Copies(owner, item)) ELSE 1 ]

Init == header \in [Runs -> Versions \cup {0}] /\ stored = <<>>

\* the rows of a store over those there are
After(given) ==
    LET kept == DOMAIN stored \ (IF kind = "latest" THEN DOMAIN given ELSE {})
    IN  [key \in DOMAIN stored \cup DOMAIN given |->
            IF key \in kept THEN stored[key] ELSE given[key]]

Store(run, version, items) ==
    \E owner \in {run, "none"} :
        LET given == [key \in {Key(owner, item) : item \in items} |-> version]
        IN  /\ kind = "once" => header[run] = 0 /\ DOMAIN given \cap DOMAIN stored = {}
            /\ header' = IF headed THEN [header EXCEPT ![run] = version] ELSE header
            /\ stored' = After(given)
            /\ UNCHANGED <<kind, headed>>

Next == \E run \in Runs, version \in Versions, items \in (SUBSET Items) \ {{}} :
            Store(run, version, items)

Spec == Init /\ [][Next]_vars
=============================================================================
