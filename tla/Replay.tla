------------------------------- MODULE Replay -------------------------------
(***************************************************************************)
(* BacktestReplayEngine (backend/backtesting/replay.py): a cursor over the *)
(* events of a run, snapshots of it, and branches that inherit the past of *)
(* their parent up to a snapshot and go on by themselves.                  *)
(***************************************************************************)
EXTENDS Integers, Sequences, FiniteSets, SequencesExt

CONSTANTS
    Events,         \* number of events of the run
    Branches, Main, \* branch ids; the base branch
    SnapshotIds,
    Payloads,       \* what a branch event may say
    Unknown,        \* a branch id: no branch, a snapshot id: no snapshot
    MaxAppends, MaxSnapshots    \* bounds: events of a branch, snapshots taken

ConstantsType ==
    /\ {Events, MaxAppends, MaxSnapshots} \subseteq Nat
    /\ Main \in Branches /\ Unknown \notin Branches \cup SnapshotIds

VARIABLES
    cursor,
    shown,      \* index of the event the last step returned, 0 if none
    snapshots,  \* [id, cursor], in the order taken
    parent,     \* branches: the parent of each registered branch
    root,       \* the snapshot it was created from
    timeline    \* branch_events

vars == <<cursor, shown, snapshots, parent, root, timeline>>

ChecksumOfPlace(branch, sequence, payload) == <<Main, sequence, sequence>>    \* mutant
\* sha256 over branch, sequence, time, type and payload: equal only for equal arguments.
\* Time and type are part of the payload here.
Checksum(branch, sequence, payload) == <<branch, sequence, payload>>
Entry == [sequence : 0 .. MaxAppends, payload : Payloads,
          checksum : Branches \X (0 .. MaxAppends) \X Payloads]

Init ==
    /\ cursor = 0 /\ shown = 0 /\ snapshots = <<>>
    /\ parent = [b \in {} |-> Unknown] /\ root = [b \in {} |-> Unknown]
    /\ timeline = [b \in {} |-> <<>>]
Registered == DOMAIN parent

-----------------------------------------------------------------------------
(* The cursor.  events[i] of the code is event i + 1 here. *)

StepForward ==
    /\ IF cursor >= Events THEN UNCHANGED cursor /\ shown' = 0
       ELSE cursor' = cursor + 1 /\ shown' = cursor + 1
    /\ UNCHANGED <<snapshots, parent, root, timeline>>
StepBackward ==
    /\ IF cursor <= 1 THEN cursor' = 0 /\ shown' = 0
       ELSE cursor' = cursor - 1 /\ shown' = cursor - 1
    /\ UNCHANGED <<snapshots, parent, root, timeline>>
\* jump_to_timestamp, _reason and _event_type: to any event, or, by timestamp, past the end.
Jump ==
    /\ \/ \E i \in 1 .. Events : cursor' = i - 1 /\ shown' = i
       \/ cursor' = Events /\ shown' = 0
    /\ UNCHANGED <<snapshots, parent, root, timeline>>

-----------------------------------------------------------------------------
LowerOf(a, b) == IF a <= b THEN a ELSE b
SnapshotCursor == LowerOf(cursor, Events - 1)

CreateSnapshot(id) ==
    /\ Events > 0 /\ Len(snapshots) < MaxSnapshots
    /\ snapshots' = Append(snapshots, [id |-> id, cursor |-> SnapshotCursor])
    /\ UNCHANGED <<cursor, shown, parent, root, timeline>>

\* The first snapshot of that id.
Known(id) == \E i \in DOMAIN snapshots : snapshots[i].id = id
Snapshot(id) == snapshots[CHOOSE i \in DOMAIN snapshots :
                    snapshots[i].id = id /\ \A j \in 1 .. i - 1 : snapshots[j].id # id]
RestoreSnapshot(id) ==
    /\ Known(id)
    /\ cursor' = Snapshot(id).cursor
    /\ UNCHANGED <<shown, snapshots, parent, root, timeline>>

-----------------------------------------------------------------------------
With(f, b, v) == [x \in DOMAIN f \cup {b} |-> IF x = b THEN v ELSE f[x]]
Events_of(b) == IF b \in DOMAIN timeline THEN timeline[b] ELSE <<>>
StartedAgain(b) == <<>>                                             \* mutant
Started(b) == Events_of(b)

InitializeSession(base) ==
    /\ parent' = IF base \in Registered THEN parent ELSE With(parent, base, Unknown)
    /\ root' = IF base \in Registered THEN root ELSE With(root, base, Unknown)
    /\ timeline' = With(timeline, base, Started(base))
    /\ UNCHANGED <<cursor, shown, snapshots>>

InheritsNotTheLast(e, id) == e.sequence < Snapshot(id).cursor       \* mutant
Inherits(e, id) == e.sequence <= Snapshot(id).cursor
\* A list comprehension: the entries of s at the places K, in their order.
Nth(K, n) == CHOOSE i \in K : Cardinality({k \in K : k <= i}) = n
Chosen(s, K) == [n \in 1 .. Cardinality(K) |-> s[Nth(K, n)]]
MayCreateTwice(b, p) == p \in Registered                            \* mutant
MayCreate(b, p) == p \in Registered /\ b \notin Registered

\* An unknown snapshot inherits everything.
CreateBranch(b, p, id) ==
    /\ MayCreate(b, p)
    /\ parent' = With(parent, b, p) /\ root' = With(root, b, id)
    /\ timeline' = With(timeline, b, IF Known(id)
                            THEN Chosen(Events_of(p), {i \in DOMAIN Events_of(p) : Inherits(Events_of(p)[i], id)})
                            ELSE Events_of(p))
    /\ UNCHANGED <<cursor, shown, snapshots>>

SequenceFromOne(b) == Len(Events_of(b)) + 1                         \* mutant
NextSequence(b) == Len(Events_of(b))
\* The branch need not be registered.
AppendBranchEvent(b, payload) ==
    /\ Len(Events_of(b)) < MaxAppends
    /\ LET s == NextSequence(b)
       IN  timeline' = With(timeline, b, Append(Events_of(b),
               [sequence |-> s, payload |-> payload, checksum |-> Checksum(b, s, payload)]))
    /\ UNCHANGED <<cursor, shown, snapshots, parent, root>>

Next ==
    \/ StepForward \/ StepBackward \/ Jump
    \/ \E id \in SnapshotIds : CreateSnapshot(id) \/ RestoreSnapshot(id)
    \/ InitializeSession(Main)
    \/ \E b, p \in Branches, id \in SnapshotIds \cup {Unknown} : CreateBranch(b, p, id)
    \/ \E b \in Branches, x \in Payloads : AppendBranchEvent(b, x)
Spec == Init /\ [][Next]_vars

-----------------------------------------------------------------------------
\* compare_branches: the indices (from 1) at which two timelines differ.
Differing(l, r) ==
    LET a == Events_of(l)  b == Events_of(r)
    IN  {i \in DOMAIN a \cup DOMAIN b :
            i \notin DOMAIN a \cap DOMAIN b \/ a[i].checksum # b[i].checksum}

TypeOK ==
    /\ cursor \in 0 .. Events /\ shown \in 0 .. Events
    /\ snapshots \in Seq([id : SnapshotIds, cursor : 0 .. Events - 1])
    /\ \A b \in Registered : parent[b] \in Branches \cup {Unknown}
    /\ DOMAIN root = Registered /\ Registered \subseteq DOMAIN timeline
    /\ \A b \in DOMAIN timeline : timeline[b] \in Seq(Entry)

\* replay.py:361-390.  However a timeline came about, its events are numbered from 0 without
\* a gap: an inherited past is a prefix of the parent's, and appending goes on from there.
SequencesAreContiguous ==
    TypeOK /\ \A b \in DOMAIN timeline : \A i \in DOMAIN timeline[b] : timeline[b][i].sequence = i - 1

\* replay.py:332-375.  Registered branches only grow: nothing done to a session, a snapshot
\* or another branch rewrites what a branch already holds.
KeepsHistory == \A b \in Registered : IsPrefix(timeline[b], timeline'[b])
HistoryIsKept == [][KeepsHistory]_timeline

\* replay.py:361-365.  A branch created from a snapshot starts with none of the parent's
\* events behind the snapshot, and with every one up to it.
BranchesAtSnapshot ==
    \A b \in DOMAIN parent' \ Registered :
        LET p == parent'[b] IN p \in Registered =>
            LET inherited == timeline'[b]
                limit == IF Known(root'[b]) THEN Snapshot(root'[b]).cursor + 1 ELSE MaxAppends
            IN  /\ IsPrefix(inherited, Events_of(p))
                /\ Len(inherited) = LowerOf(limit, Len(Events_of(p)))
BranchStartsAtSnapshot == [][BranchesAtSnapshot]_<<parent, timeline>>

\* replay.py:472-495.  Branches that are reported as matching hold the same events, and the
\* past two branches share is never reported as a difference.
ComparisonIsSound ==
    \A l, r \in DOMAIN timeline :
        /\ Differing(l, r) = {} => timeline[l] = timeline[r]
        /\ \A i \in DOMAIN timeline[l] \cap DOMAIN timeline[r] :
              timeline[l][i] = timeline[r][i] => i \notin Differing(l, r)

=============================================================================
