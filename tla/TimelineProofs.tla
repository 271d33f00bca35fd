--------------------------- MODULE TimelineProofs ---------------------------
(***************************************************************************)
(* Proofs about what a backtest reads and what it leaves to be looked at   *)
(* again: the stream of a clock, the branches of a replay and the records  *)
(* of a strategy's states.                                                 *)
(***************************************************************************)
EXTENDS BacktestProofs

-----------------------------------------------------------------------------
(* Prefixes                                                                  *)

\* An instance counts as everyone does.
LEMMA CountsAlike ==
    \A S : /\ Tape!Cardinality(S) = Cardinality(S) /\ Lifecycle!Cardinality(S) = Cardinality(S)
           /\ Lifecycle!IsFiniteSet(S) <=> IsFiniteSet(S)
  <1>1. \A S : Tape!Cardinality(S) = Cardinality(S)
    BY DEF Tape!Cardinality, Cardinality
  <1>2. \A S : Lifecycle!Cardinality(S) = Cardinality(S)
    BY DEF Lifecycle!Cardinality, Cardinality
  <1>3. \A S : Lifecycle!IsFiniteSet(S) <=> IsFiniteSet(S)
    BY DEF Lifecycle!IsFiniteSet, IsFiniteSet
  <1> QED
    BY <1>1, <1>2, <1>3

\* The n-th place is the one with n places up to it.
LEMMA NthIs ==
    ASSUME NEW K, NEW n, NEW i \in K,
           \A j \in K : Cardinality({k \in K : k <= j}) = n <=> j = i
    PROVE  Tape!Nth(K, n) = i
  <1> DEFINE P(j) == Tape!Cardinality({k \in K : k <= j}) = n
  <1>1. Tape!Nth(K, n) = CHOOSE j \in K : P(j)
    BY DEF Tape!Nth
  <1>2. \A j \in K : P(j) <=> j = i
    BY CountsAlike
  <1> HIDE DEF P
  <1> QED
    BY <1>1, <1>2

\* A list comprehension that takes the first m entries takes a prefix.
LEMMA ChosenIsPrefix ==
    ASSUME NEW S, NEW s \in Seq(S), NEW m \in 0 .. Len(s)
    PROVE  /\ Tape!Chosen(s, 1 .. m) \in Seq(S) /\ Len(Tape!Chosen(s, 1 .. m)) = m
           /\ \A i \in 1 .. m : Tape!Chosen(s, 1 .. m)[i] = s[i]
  <1> DEFINE K == 1 .. m
  <1>1. Cardinality(K) = m
    BY FS_Interval
  <1>2. ASSUME NEW i \in K PROVE Cardinality({k \in K : k <= i}) = i
    <2>1. {k \in K : k <= i} = 1 .. i
      OBVIOUS
    <2>2. i \in Int /\ 1 <= i
      OBVIOUS
    <2>3. Cardinality(1 .. i) = i
      BY <2>2, FS_Interval
    <2> QED
      BY <2>1, <2>3
  <1>3. ASSUME NEW n \in K PROVE Tape!Nth(K, n) = n
    <2>1. \A j \in K : Cardinality({k \in K : k <= j}) = n <=> j = n
      BY <1>2
    <2> HIDE DEF K
    <2> QED
      BY <2>1, NthIs
  <1>4. Tape!Chosen(s, K) = [n \in K |-> s[n]]
    <2>1. 1 .. Tape!Cardinality(K) = K
      BY <1>1, CountsAlike
    <2>2. Tape!Chosen(s, K) = [n \in 1 .. Tape!Cardinality(K) |-> s[Tape!Nth(K, n)]]
      BY DEF Tape!Chosen
    <2> HIDE DEF K
    <2> QED
      BY <1>3, <2>1, <2>2
  <1>5. \A n \in K : s[n] \in S
    OBVIOUS
  <1> QED
    BY <1>4, <1>5

LEMMA PrefixIs ==
    ASSUME NEW S, NEW s \in Seq(S), NEW t \in Seq(S),
           Len(s) <= Len(t), \A i \in 1 .. Len(s) : s[i] = t[i]
    PROVE  Tape!IsPrefix(s, t)
  <1>1. /\ Len(s) \in Nat
        /\ SubSeq(s, 1, Len(s)) = [i \in 1 .. Len(s) |-> s[i]]
        /\ SubSeq(t, 1, Len(s)) = [i \in 1 .. Len(s) |-> t[i]]
    OBVIOUS
  <1> QED
    BY <1>1 DEF Tape!IsPrefix

-----------------------------------------------------------------------------
(* The replay                                                                *)

Snapshots == [id : SnapshotIds, cursor : 0 .. Events - 1]

\* An event is numbered by its place, and its checksum covers what it says.
Numbered(s) ==
    /\ s \in Seq(Tape!Entry) /\ Len(s) <= MaxAppends
    /\ \A i \in 1 .. Len(s) :
        /\ s[i].sequence = i - 1
        /\ s[i].checksum = <<s[i].checksum[1], s[i].sequence, s[i].payload>>

TapeInv ==
    /\ cursor \in 0 .. Events /\ shown \in 0 .. Events /\ snapshots \in Seq(Snapshots)
    /\ DOMAIN parent \subseteq Branches /\ DOMAIN root = DOMAIN parent
    /\ DOMAIN parent \subseteq DOMAIN timeline
    /\ \A b \in DOMAIN parent : parent[b] \in Branches \cup {Unknown}
    /\ \A b \in DOMAIN timeline : Numbered(timeline[b])

LEMMA TapeConstants ==
    /\ Events \in Nat /\ MaxAppends \in Nat /\ MaxSnapshots \in Nat
    /\ Main \in Branches /\ Unknown \notin Branches /\ Unknown \notin SnapshotIds
  BY BacktestConstants DEF BacktestConstants, Tape!ConstantsType

LEMMA EmptyIsNumbered == Numbered(<<>>)
  BY TapeConstants DEF Numbered

\* branch_timeline: what a branch holds, registered or not.
LEMMA EventsAreNumbered ==
    ASSUME TapeInv, NEW b
    PROVE  Numbered(Tape!Events_of(b))
  BY EmptyIsNumbered DEF TapeInv, Tape!Events_of

LEMMA TapeInit == Tape!Init => TapeInv
  BY TapeConstants DEF Tape!Init, TapeInv

\* The cursor and the snapshots: no branch is touched.
LEMMA CursorKeeps ==
    ASSUME TapeInv, cursor' \in 0 .. Events, shown' \in 0 .. Events, snapshots' \in Seq(Snapshots),
           UNCHANGED <<parent, root, timeline>>
    PROVE  TapeInv'
  BY DEF TapeInv

\* next(...): of the snapshots with that id, the first one.
LEMMA SnapshotIsKnown ==
    ASSUME TapeInv, NEW id, Tape!Known(id)
    PROVE  Tape!Snapshot(id) \in Snapshots
  <1> DEFINE T == {i \in DOMAIN snapshots : snapshots[i].id = id}
             P(i) == snapshots[i].id = id /\ \A j \in 1 .. i - 1 : snapshots[j].id # id
  <1>1. DOMAIN snapshots = 1 .. Len(snapshots) /\ Len(snapshots) \in Nat
    BY DEF TapeInv
  <1>2. T \subseteq Nat /\ T # {}
    BY <1>1 DEF Tape!Known
  <1>3. PICK i \in T : \A j \in T : i <= j
    BY <1>2, FirstOf
  <1>4. i \in DOMAIN snapshots /\ P(i)
    <2>1. ASSUME NEW j \in 1 .. i - 1 PROVE snapshots[j].id # id
      <3>1. j \in DOMAIN snapshots /\ ~(i <= j)
        BY <1>1, <1>3
      <3> QED
        BY <1>3, <3>1
    <2> QED
      BY <1>3, <2>1
  <1> HIDE DEF P
  <1>5. (CHOOSE k \in DOMAIN snapshots : P(k)) \in DOMAIN snapshots
    BY <1>4
  <1>6. Tape!Snapshot(id) = snapshots[CHOOSE k \in DOMAIN snapshots : P(k)]
    BY DEF Tape!Snapshot, P
  <1> HIDE DEF T
  <1> QED
    BY <1>1, <1>5, <1>6 DEF TapeInv

LEMMA StepForwardKeeps == ASSUME TapeInv, Tape!StepForward PROVE TapeInv'
  BY CursorKeeps, TapeConstants DEF TapeInv, Tape!StepForward

LEMMA StepBackwardKeeps == ASSUME TapeInv, Tape!StepBackward PROVE TapeInv'
  BY CursorKeeps, TapeConstants DEF TapeInv, Tape!StepBackward

LEMMA JumpKeeps == ASSUME TapeInv, Tape!Jump PROVE TapeInv'
  BY CursorKeeps, TapeConstants DEF TapeInv, Tape!Jump

LEMMA CreateSnapshotKeeps ==
    ASSUME TapeInv, NEW id \in SnapshotIds, Tape!CreateSnapshot(id) PROVE TapeInv'
  <1>1. Tape!SnapshotCursor \in 0 .. Events - 1
    BY TapeConstants DEF TapeInv, Tape!CreateSnapshot, Tape!SnapshotCursor, Tape!LowerOf
  <1>2. [id |-> id, cursor |-> Tape!SnapshotCursor] \in Snapshots
    BY <1>1 DEF Snapshots
  <1> QED
    BY <1>2, CursorKeeps DEF TapeInv, Tape!CreateSnapshot

LEMMA RestoreSnapshotKeeps ==
    ASSUME TapeInv, NEW id \in SnapshotIds, Tape!RestoreSnapshot(id) PROVE TapeInv'
  <1>1. Tape!Snapshot(id).cursor \in 0 .. Events
    BY SnapshotIsKnown, TapeConstants DEF Tape!RestoreSnapshot, Snapshots
  <1> QED
    BY <1>1, CursorKeeps DEF TapeInv, Tape!RestoreSnapshot

\* setdefault, and the base branch registered when it is not.
LEMMA InitializeSessionKeeps ==
    ASSUME TapeInv, NEW b \in Branches, Tape!InitializeSession(b) PROVE TapeInv'
  <1>1. Numbered(Tape!Started(b))
    BY EventsAreNumbered DEF Tape!Started
  <1>2. \A x \in DOMAIN timeline' : Numbered(timeline'[x])
    BY <1>1 DEF TapeInv, Tape!InitializeSession, Tape!With
  <1>3. /\ DOMAIN timeline' = DOMAIN timeline \cup {b} /\ DOMAIN parent' = DOMAIN parent \cup {b}
        /\ DOMAIN root' = DOMAIN root \cup {b}
        /\ \A x \in DOMAIN parent' : parent'[x] \in Branches \cup {Unknown}
    BY DEF TapeInv, Tape!InitializeSession, Tape!With, Tape!Registered
  <1>4. UNCHANGED <<cursor, shown, snapshots>>
    BY DEF Tape!InitializeSession
  <1> QED
    BY <1>2, <1>3, <1>4 DEF TapeInv

\* replay.py:361-365: with a known snapshot, the events up to its cursor; else all of them.
Inherited(p, id) ==
    IF Tape!Known(id)
    THEN Tape!Chosen(Tape!Events_of(p),
                     {i \in DOMAIN Tape!Events_of(p) : Tape!Inherits(Tape!Events_of(p)[i], id)})
    ELSE Tape!Events_of(p)
Limit(id) == IF Tape!Known(id) THEN Tape!Snapshot(id).cursor + 1 ELSE MaxAppends

LEMMA InheritedIsPrefix ==
    ASSUME TapeInv, NEW p, NEW id
    PROVE  /\ Numbered(Inherited(p, id))
           /\ Tape!IsPrefix(Inherited(p, id), Tape!Events_of(p))
           /\ Len(Inherited(p, id)) = Tape!LowerOf(Limit(id), Len(Tape!Events_of(p)))
  <1> DEFINE s == Tape!Events_of(p)
             t == Inherited(p, id)
             m == Tape!LowerOf(Limit(id), Len(s))
  <1>1. Numbered(s) /\ s \in Seq(Tape!Entry) /\ Len(s) \in Nat /\ Len(s) <= MaxAppends
    BY EventsAreNumbered DEF Numbered
  <1> HIDE DEF s
  <1>2. Limit(id) \in Nat
    BY SnapshotIsKnown, TapeConstants DEF Limit, Snapshots
  <1>3. m \in 0 .. Len(s)
    BY <1>1, <1>2 DEF Tape!LowerOf
  <1>4. t \in Seq(Tape!Entry) /\ Len(t) = m /\ \A i \in 1 .. m : t[i] = s[i]
    <2>1. CASE Tape!Known(id)
      <3>1. Limit(id) = Tape!Snapshot(id).cursor + 1 /\ Tape!Snapshot(id).cursor \in Int
        BY <2>1, SnapshotIsKnown DEF Limit, Snapshots
      <3>2. {i \in DOMAIN s : Tape!Inherits(s[i], id)} = 1 .. m
        <4>1. DOMAIN s = 1 .. Len(s)
          BY <1>1
        <4>2. ASSUME NEW i \in 1 .. Len(s) PROVE Tape!Inherits(s[i], id) <=> i <= Limit(id)
          BY <1>1, <3>1 DEF Tape!Inherits, Numbered
        <4> QED
          BY <1>1, <1>2, <4>1, <4>2 DEF Tape!LowerOf
      <3>3. t = Tape!Chosen(s, 1 .. m)
        BY <2>1, <3>2 DEF Inherited, s
      <3> QED
        BY <1>1, <1>3, <3>3, ChosenIsPrefix
    <2>2. CASE ~Tape!Known(id)
      BY <1>1, <2>2, TapeConstants DEF Inherited, Limit, Tape!LowerOf, s
    <2> QED
      BY <2>1, <2>2
  <1>5. Tape!IsPrefix(t, s)
    BY <1>1, <1>3, <1>4, PrefixIs
  <1>6. Numbered(t)
    <2>1. Len(t) <= MaxAppends
      BY <1>1, <1>3, <1>4, TapeConstants
    <2>2. ASSUME NEW i \in 1 .. Len(t)
          PROVE  /\ t[i].sequence = i - 1
                 /\ t[i].checksum = <<t[i].checksum[1], t[i].sequence, t[i].payload>>
      <3>1. i \in 1 .. Len(s) /\ t[i] = s[i]
        BY <1>1, <1>3, <1>4
      <3> HIDE DEF t
      <3> QED
        BY <1>1, <3>1 DEF Numbered
    <2> HIDE DEF t
    <2> QED
      BY <1>4, <2>1, <2>2 DEF Numbered
  <1> QED
    BY <1>4, <1>5, <1>6 DEF s

LEMMA CreateBranchKeeps ==
    ASSUME TapeInv, NEW b \in Branches, NEW p \in Branches, NEW id \in SnapshotIds \cup {Unknown},
           Tape!CreateBranch(b, p, id)
    PROVE  TapeInv'
  <1>1. /\ timeline' = Tape!With(timeline, b, Inherited(p, id))
        /\ parent' = Tape!With(parent, b, p) /\ root' = Tape!With(root, b, id)
        /\ UNCHANGED <<cursor, shown, snapshots>>
    BY DEF Tape!CreateBranch, Inherited
  <1>2. Numbered(Inherited(p, id))
    BY InheritedIsPrefix
  <1>3. \A x \in DOMAIN timeline' : Numbered(timeline'[x])
    BY <1>1, <1>2 DEF TapeInv, Tape!With
  <1>4. /\ DOMAIN timeline' = DOMAIN timeline \cup {b} /\ DOMAIN parent' = DOMAIN parent \cup {b}
        /\ DOMAIN root' = DOMAIN root \cup {b}
        /\ \A x \in DOMAIN parent' : parent'[x] \in Branches \cup {Unknown}
    BY <1>1 DEF TapeInv, Tape!With
  <1> QED
    BY <1>1, <1>3, <1>4 DEF TapeInv

LEMMA AppendBranchEventKeeps ==
    ASSUME TapeInv, NEW b \in Branches, NEW x \in Payloads, Tape!AppendBranchEvent(b, x)
    PROVE  TapeInv'
  <1> DEFINE s == Tape!Events_of(b)
             e == [sequence |-> Len(s), payload |-> x, checksum |-> <<b, Len(s), x>>]
             t == Append(s, e)
  <1>1. Numbered(s) /\ s \in Seq(Tape!Entry) /\ Len(s) \in Nat /\ Len(s) < MaxAppends
    BY EventsAreNumbered DEF Numbered, Tape!AppendBranchEvent
  <1>2. /\ timeline' = Tape!With(timeline, b, t)
        /\ UNCHANGED <<cursor, shown, snapshots, parent, root>>
    BY DEF Tape!AppendBranchEvent, Tape!NextSequence, Tape!Checksum
  <1> HIDE DEF s
  <1>3. e \in Tape!Entry
    BY <1>1, TapeConstants DEF Tape!Entry
  <1>4. Numbered(t)
    <2>1. t \in Seq(Tape!Entry) /\ Len(t) = Len(s) + 1 /\ t[Len(s) + 1] = e
          /\ \A i \in 1 .. Len(s) : t[i] = s[i]
      BY <1>1, <1>3
    <2>2. \A i \in 1 .. Len(t) : i \in 1 .. Len(s) \/ i = Len(s) + 1
      BY <1>1, <2>1
    <2>3. e.sequence = Len(s) /\ e.checksum = <<e.checksum[1], e.sequence, e.payload>>
      OBVIOUS
    <2>4. Len(t) <= MaxAppends
      BY <1>1, <2>1, TapeConstants
    <2> HIDE DEF t, e
    <2> QED
      BY <1>1, <2>1, <2>2, <2>3, <2>4 DEF Numbered
  <1> HIDE DEF t
  <1>5. \A y \in DOMAIN timeline' : Numbered(timeline'[y])
    BY <1>2, <1>4 DEF TapeInv, Tape!With
  <1>6. DOMAIN timeline' = DOMAIN timeline \cup {b}
    BY <1>2 DEF Tape!With
  <1> QED
    BY <1>2, <1>5, <1>6 DEF TapeInv

LEMMA TapeStep == TapeInv /\ Tape!Next => TapeInv'
  BY StepForwardKeeps, StepBackwardKeeps, JumpKeeps, CreateSnapshotKeeps, RestoreSnapshotKeeps,
     InitializeSessionKeeps, CreateBranchKeeps, AppendBranchEventKeeps, TapeConstants DEF Tape!Next

LEMMA TapeRestsStill == TapeInv /\ UNCHANGED replayVars => TapeInv'
  BY DEF TapeInv, replayVars

LEMMA TapeInvariantImplies == TapeInv => Tape!SequencesAreContiguous /\ Tape!ComparisonIsSound
  <1> SUFFICES ASSUME TapeInv PROVE Tape!SequencesAreContiguous /\ Tape!ComparisonIsSound
    OBVIOUS
  <1>1. ASSUME NEW b \in DOMAIN timeline
        PROVE  /\ timeline[b] \in Seq(Tape!Entry) /\ DOMAIN timeline[b] = 1 .. Len(timeline[b])
               /\ Tape!Events_of(b) = timeline[b]
               /\ \A i \in DOMAIN timeline[b] :
                    /\ timeline[b][i].sequence = i - 1
                    /\ timeline[b][i].checksum[2] = timeline[b][i].sequence
                    /\ timeline[b][i].checksum[3] = timeline[b][i].payload
    <2>1. Numbered(timeline[b])
      BY DEF TapeInv
    <2>2. timeline[b] \in Seq(Tape!Entry) /\ DOMAIN timeline[b] = 1 .. Len(timeline[b])
      BY <2>1 DEF Numbered
    <2>3. ASSUME NEW i \in DOMAIN timeline[b]
          PROVE  /\ timeline[b][i].sequence = i - 1
                 /\ timeline[b][i].checksum[2] = timeline[b][i].sequence
                 /\ timeline[b][i].checksum[3] = timeline[b][i].payload
      BY <2>1, <2>2 DEF Numbered
    <2> QED
      BY <2>2, <2>3 DEF Tape!Events_of
  <1>2. Tape!SequencesAreContiguous
    BY <1>1 DEF TapeInv, Snapshots, Tape!SequencesAreContiguous, Tape!TypeOK, Tape!Registered
  <1>3. ASSUME NEW l \in DOMAIN timeline, NEW r \in DOMAIN timeline, Tape!Differing(l, r) = {}
        PROVE  timeline[l] = timeline[r]
    <2>1. /\ \A i \in DOMAIN timeline[l] \cup DOMAIN timeline[r] :
               /\ i \in DOMAIN timeline[l] /\ i \in DOMAIN timeline[r]
               /\ timeline[l][i].checksum = timeline[r][i].checksum
      BY <1>1, <1>3 DEF Tape!Differing
    <2>2. DOMAIN timeline[l] = DOMAIN timeline[r]
      BY <2>1
    <2>3. ASSUME NEW i \in DOMAIN timeline[l] PROVE timeline[l][i] = timeline[r][i]
      <3>1. timeline[l][i] \in Tape!Entry /\ timeline[r][i] \in Tape!Entry
        BY <1>1, <2>2
      <3>2. /\ timeline[l][i].sequence = timeline[r][i].sequence
            /\ timeline[l][i].payload = timeline[r][i].payload
            /\ timeline[l][i].checksum = timeline[r][i].checksum
        BY <1>1, <2>1, <2>2
      <3> QED
        BY <3>1, <3>2 DEF Tape!Entry
    <2> QED
      BY <1>1, <2>2, <2>3
  <1>4. ASSUME NEW l \in DOMAIN timeline, NEW r \in DOMAIN timeline,
               NEW i \in DOMAIN timeline[l] \cap DOMAIN timeline[r], timeline[l][i] = timeline[r][i]
        PROVE  i \notin Tape!Differing(l, r)
    BY <1>1, <1>4 DEF Tape!Differing
  <1> QED
    BY <1>2, <1>3, <1>4 DEF Tape!ComparisonIsSound

\* What a step leaves of the past: every registered branch keeps the events it holds.
LEMMA StepKeepsHistory == TapeInv /\ Tape!Next => Tape!KeepsHistory
  <1> SUFFICES ASSUME TapeInv, Tape!Next, NEW b \in DOMAIN parent
               PROVE  Tape!IsPrefix(timeline[b], timeline'[b])
    BY DEF Tape!KeepsHistory, Tape!Registered
  <1>1. timeline[b] \in Seq(Tape!Entry) /\ b \in DOMAIN timeline /\ Tape!Events_of(b) = timeline[b]
    BY DEF TapeInv, Numbered, Tape!Events_of
  <1>2. timeline'[b] = timeline[b] => Tape!IsPrefix(timeline[b], timeline'[b])
    BY <1>1, PrefixIs
  <1>3. CASE UNCHANGED timeline
    BY <1>2, <1>3
  <1>4. ASSUME NEW c \in Branches, Tape!InitializeSession(c) PROVE timeline'[b] = timeline[b]
    BY <1>1, <1>4 DEF Tape!InitializeSession, Tape!With, Tape!Started, Tape!Events_of
  <1>5. ASSUME NEW c \in Branches, NEW p \in Branches, NEW id \in SnapshotIds \cup {Unknown},
               Tape!CreateBranch(c, p, id)
        PROVE  timeline'[b] = timeline[b]
    BY <1>1, <1>5 DEF Tape!CreateBranch, Tape!MayCreate, Tape!Registered, Tape!With
  <1>6. ASSUME NEW c \in Branches, NEW x \in Payloads, Tape!AppendBranchEvent(c, x)
        PROVE  Tape!IsPrefix(timeline[b], timeline'[b])
    <2> DEFINE e == [sequence |-> Tape!NextSequence(c), payload |-> x,
                     checksum |-> Tape!Checksum(c, Tape!NextSequence(c), x)]
    <2>1. timeline' = Tape!With(timeline, c, Append(Tape!Events_of(c), e))
      BY <1>6 DEF Tape!AppendBranchEvent
    <2>2. e \in Tape!Entry
      <3>1. Numbered(Tape!Events_of(c)) /\ Len(Tape!Events_of(c)) < MaxAppends
        BY <1>6, EventsAreNumbered DEF Tape!AppendBranchEvent
      <3>2. Len(Tape!Events_of(c)) \in 0 .. MaxAppends
        BY <3>1, TapeConstants DEF Numbered
      <3> QED
        BY <3>2 DEF Tape!Entry, Tape!NextSequence, Tape!Checksum
    <2> HIDE DEF e
    <2>3. CASE b # c
      BY <1>1, <1>2, <2>1, <2>3 DEF Tape!With
    <2>4. CASE b = c
      <3>1. timeline'[b] = Append(timeline[b], e)
        BY <1>1, <2>1, <2>4 DEF Tape!With
      <3>2. /\ Append(timeline[b], e) \in Seq(Tape!Entry)
            /\ Len(timeline[b]) <= Len(Append(timeline[b], e))
            /\ \A i \in 1 .. Len(timeline[b]) : timeline[b][i] = Append(timeline[b], e)[i]
        BY <1>1, <2>2
      <3> QED
        BY <1>1, <3>1, <3>2, PrefixIs
    <2> QED
      BY <2>3, <2>4
  <1> QED
    BY <1>2, <1>3, <1>4, <1>5, <1>6, TapeConstants
    DEF Tape!Next, Tape!StepForward, Tape!StepBackward, Tape!Jump, Tape!CreateSnapshot, Tape!RestoreSnapshot

\* What a new branch starts with: the past of its parent up to the snapshot.
LEMMA StepBranchesAtSnapshot == TapeInv /\ Tape!Next => Tape!BranchesAtSnapshot
  <1> SUFFICES ASSUME TapeInv, Tape!Next,
                      NEW b \in DOMAIN parent' \ DOMAIN parent, parent'[b] \in DOMAIN parent
               PROVE  /\ Tape!IsPrefix(timeline'[b], Tape!Events_of(parent'[b]))
                      /\ Len(timeline'[b]) =
                           Tape!LowerOf(Limit(root'[b]), Len(Tape!Events_of(parent'[b])))
    BY DEF Tape!BranchesAtSnapshot, Tape!Registered, Limit
  <1>1. ~ UNCHANGED parent
    OBVIOUS
  <1>2. ~ \E c \in Branches : Tape!InitializeSession(c)
    <2> SUFFICES ASSUME NEW c \in Branches, Tape!InitializeSession(c) PROVE FALSE
      OBVIOUS
    <2>1. parent'[b] = Unknown
      BY DEF Tape!InitializeSession, Tape!With
    <2> QED
      BY <2>1, TapeConstants DEF TapeInv
  <1>3. PICK c \in Branches, p \in Branches, id \in SnapshotIds \cup {Unknown} :
             Tape!CreateBranch(c, p, id)
    BY <1>1, <1>2, TapeConstants
    DEF Tape!Next, Tape!StepForward, Tape!StepBackward, Tape!Jump, Tape!CreateSnapshot,
        Tape!RestoreSnapshot, Tape!AppendBranchEvent
  <1>4. /\ timeline' = Tape!With(timeline, c, Inherited(p, id))
        /\ parent' = Tape!With(parent, c, p) /\ root' = Tape!With(root, c, id)
    BY <1>3 DEF Tape!CreateBranch, Inherited
  <1>5. b = c /\ parent'[b] = p /\ root'[b] = id /\ timeline'[b] = Inherited(p, id)
    BY <1>4 DEF Tape!With
  <1> QED
    BY <1>5, InheritedIsPrefix

-----------------------------------------------------------------------------
(* The states of a strategy                                                  *)

Ended == {"closed", "cancelled", "failed"}
\* Where a strategy is only after its position was open.
Entered == {"open", "management_pending", "exit_signaled", "exit_pending", "partially_closed",
            "roll_signaled", "roll_pending", "expired", "pending_exercise", "closed"}

\* _ALLOWED_TRANSITIONS, read row by row.
LEMMA TableOfStates ==
    /\ Lifecycle!State = Entered \cup Ended
          \cup {"configured", "waiting", "entry_signaled", "entry_pending", "partially_open"}
    /\ \A s \in Lifecycle!State : Lifecycle!Allowed[s] \subseteq Lifecycle!State
    /\ \A s \in Ended : Lifecycle!Allowed[s] = {}
    /\ \A s \in Lifecycle!State \ Ended : \E t \in Ended : t \in Lifecycle!Allowed[s]
    /\ \A s \in Lifecycle!State \ Entered : \A t \in Lifecycle!Allowed[s] : t \in Entered => t = "open"
    /\ Lifecycle!Allowed["exit_pending"] = {"partially_closed", "closed", "failed"}
    /\ Lifecycle!Allowed["partially_closed"] = {"closed", "failed"}
  BY DEF Entered, Ended, Lifecycle!State, Lifecycle!Allowed, Lifecycle!AfterPartialOpen,
         Lifecycle!AfterPendingExercise, Lifecycle!AfterPartialClose

\* What only leads into itself is where the table leads from it.
LEMMA ReachStays ==
    ASSUME NEW C \in SUBSET Lifecycle!State, \A s \in C : Lifecycle!Allowed[s] \subseteq C, NEW s \in C
    PROVE  Lifecycle!Reach(s) \subseteq C /\ s \in Lifecycle!Reach(s)
                /\ Lifecycle!Allowed[s] \subseteq Lifecycle!Reach(s)
  <1>1. \A S \in SUBSET C : Lifecycle!Further(S) \subseteq C /\ S \subseteq Lifecycle!Further(S)
    BY DEF Lifecycle!Further
  <1> DEFINE one == Lifecycle!Further({s})       two == Lifecycle!Further(one)
             three == Lifecycle!Further(two)     four == Lifecycle!Further(three)
             five == Lifecycle!Further(four)     six == Lifecycle!Further(five)
  <1>2. s \in one /\ Lifecycle!Allowed[s] \subseteq one /\ one \subseteq C
    BY <1>1 DEF Lifecycle!Further
  <1>3. Lifecycle!Reach(s) = six
    BY DEF Lifecycle!Reach
  <1> HIDE DEF one
  <1>4. one \subseteq two /\ two \subseteq C
    BY <1>1, <1>2
  <1> HIDE DEF two
  <1>5. two \subseteq three /\ three \subseteq C
    BY <1>1, <1>4
  <1> HIDE DEF three
  <1>6. three \subseteq four /\ four \subseteq C
    BY <1>1, <1>5
  <1> HIDE DEF four
  <1>7. four \subseteq five /\ five \subseteq C
    BY <1>1, <1>6
  <1> HIDE DEF five
  <1>8. five \subseteq six /\ six \subseteq C
    BY <1>1, <1>7
  <1> HIDE DEF six
  <1> QED
    BY <1>2, <1>3, <1>4, <1>5, <1>6, <1>7, <1>8

Records == [number : 1 .. MaxTransitions, prior : Lifecycle!State \ Ended, next : Lifecycle!State, time : Now]
Verdicts == [ratio : 0 .. Lifecycle!Total, residual : SUBSET Legs, retry : BOOLEAN, timed_out : BOOLEAN,
             cancelled : BOOLEAN, escalated : BOOLEAN, at : Now \cup {0}]

\* The records, one after the other, from the first state to the present one.
PastInv ==
    /\ state \in Lifecycle!State /\ sequence = Len(transitions) /\ sequence <= MaxTransitions
    /\ transitions \in Seq(Records)
    /\ \A i \in 1 .. Len(transitions) :
          /\ transitions[i].number = i
          /\ transitions[i].prior = IF i = 1 THEN "configured" ELSE transitions[i - 1].next
          /\ i > 1 => transitions[i - 1].time <= transitions[i].time
    /\ state = IF transitions = <<>> THEN "configured" ELSE transitions[Len(transitions)].next
    /\ state \in Entered => \E i \in 1 .. Len(transitions) : transitions[i].next = "open"

FillsInv ==
    /\ filled \in [Legs -> 0 .. OrderSize] /\ elapsed \in Now \cup {0}
    /\ event \subseteq Verdicts /\ Lifecycle!VerdictIsSafe

LifeInv == PastInv /\ FillsInv

LEMMA LifeConstants ==
    /\ IsFiniteSet(Legs) /\ OrderSize \in Nat \ {0} /\ MaxTransitions \in Nat /\ Timeout \in Nat
    /\ Now \subseteq Nat /\ CancelOnIncomplete \in BOOLEAN
    /\ Lifecycle!Total \in Nat /\ MinFill \in 0 .. Lifecycle!Total
    /\ Lifecycle!Total = Cardinality(Legs \X (1 .. OrderSize))
  <1>1. /\ IsFiniteSet(Legs) /\ OrderSize \in Nat \ {0} /\ MaxTransitions \in Nat /\ Timeout \in Nat
        /\ Now \subseteq Nat /\ CancelOnIncomplete \in BOOLEAN
        /\ MinFill \in 0 .. OrderSize * Cardinality(Legs)
    BY BacktestConstants, CountsAlike DEF BacktestConstants, Lifecycle!ConstantsType
  <1>2. Cardinality(Legs) \in Nat
    BY <1>1, FS_CardinalityType
  <1>3. OrderSize * Cardinality(Legs) \in Nat /\ Lifecycle!Total = OrderSize * Cardinality(Legs)
    BY <1>1, <1>2, CountsAlike DEF Lifecycle!Total
  <1>4. IsFiniteSet(1 .. OrderSize) /\ Cardinality(1 .. OrderSize) = OrderSize
    BY <1>1, FS_Interval
  <1>5. Cardinality(Legs \X (1 .. OrderSize)) = Cardinality(Legs) * OrderSize
    BY <1>1, <1>4, FS_Product
  <1>6. Cardinality(Legs) * OrderSize = OrderSize * Cardinality(Legs)
    BY <1>1, <1>2
  <1> QED
    BY <1>1, <1>3, <1>5, <1>6

\* An order is filled to the last contract exactly when no leg has a residual.
LEMMA FullIsWithoutResidual ==
    ASSUME filled \in [Legs -> 0 .. OrderSize]
    PROVE  /\ Lifecycle!Filled \in 0 .. Lifecycle!Total
           /\ Lifecycle!Filled = Lifecycle!Total <=> {l \in Legs : filled[l] < OrderSize} = {}
  <1> DEFINE T == Legs \X (1 .. OrderSize)
             F == {c \in T : c[2] <= filled[c[1]]}
  <1>1. IsFiniteSet(T)
    <2>1. IsFiniteSet(1 .. OrderSize)
      BY LifeConstants, FS_Interval
    <2> QED
      BY <2>1, LifeConstants, FS_Product
  <1>2. /\ F \in SUBSET T /\ IsFiniteSet(F) /\ Cardinality(F) <= Cardinality(T)
        /\ Cardinality(T) = Cardinality(F) => T = F
    <2>1. F \in SUBSET T
      OBVIOUS
    <2> HIDE DEF F, T
    <2> QED
      BY <1>1, <2>1, FS_Subset
  <1>3. Lifecycle!Filled = Cardinality(F) /\ Lifecycle!Total = Cardinality(T)
    BY LifeConstants, CountsAlike DEF Lifecycle!Filled
  <1>4. Cardinality(F) \in Nat /\ Cardinality(T) \in Nat
    BY <1>1, <1>2, FS_CardinalityType
  <1>5. ASSUME F = T PROVE {l \in Legs : filled[l] < OrderSize} = {}
    <2>1. ASSUME NEW l \in Legs PROVE ~(filled[l] < OrderSize)
      <3>1. <<l, OrderSize>> \in F
        BY <1>5, LifeConstants
      <3> QED
        BY <3>1, LifeConstants
    <2> QED
      BY <2>1
  <1>6. ASSUME {l \in Legs : filled[l] < OrderSize} = {} PROVE F = T
    <2>1. ASSUME NEW c \in T PROVE c[2] <= filled[c[1]]
      <3>1. c[1] \in Legs /\ c[2] \in 1 .. OrderSize
        OBVIOUS
      <3>2. filled[c[1]] = OrderSize
        BY <1>6, <3>1, LifeConstants
      <3> QED
        BY <3>1, <3>2, LifeConstants
    <2> QED
      BY <2>1
  <1>7. Lifecycle!Filled = Lifecycle!Total <=> F = T
    BY <1>2, <1>3
  <1> QED
    BY <1>2, <1>3, <1>4, <1>5, <1>6, <1>7

LEMMA LifeInit == Lifecycle!Init => LifeInv
  <1> SUFFICES ASSUME Lifecycle!Init PROVE LifeInv
    OBVIOUS
  <1>1. state \in Lifecycle!State /\ state \notin Entered
    BY TableOfStates DEF Lifecycle!Init, Entered
  <1>2. PastInv
    BY <1>1, LifeConstants DEF Lifecycle!Init, PastInv
  <1>3. FillsInv
    BY LifeConstants DEF Lifecycle!Init, FillsInv, Lifecycle!VerdictIsSafe
  <1> QED
    BY <1>2, <1>3 DEF LifeInv

LEMMA TransitionKeeps ==
    ASSUME LifeInv, NEW next \in Lifecycle!State, NEW time \in Now, NEW guards \in BOOLEAN,
           Lifecycle!Transition(next, time, guards)
    PROVE  LifeInv'
  <1> DEFINE r == [number |-> sequence + 1, prior |-> state, next |-> next, time |-> time]
  <1>1. /\ next \in Lifecycle!Allowed[state] /\ Len(transitions) < MaxTransitions
        /\ sequence' = sequence + 1 /\ state' = next /\ transitions' = Append(transitions, r)
        /\ time >= Lifecycle!LastTime /\ UNCHANGED <<filled, elapsed, event>>
    BY DEF Lifecycle!Transition, Lifecycle!Accepts, Lifecycle!InOrder, Lifecycle!NextNumber, Lifecycle!order
  <1>2. state \in Lifecycle!State \ Ended
    BY <1>1, TableOfStates DEF LifeInv, PastInv
  <1>3. r \in Records
    BY <1>1, <1>2, LifeConstants DEF LifeInv, PastInv, Records
  <1> HIDE DEF r
  <1>4. /\ transitions \in Seq(Records) /\ Len(transitions) \in Nat
        /\ transitions' \in Seq(Records) /\ Len(transitions') = Len(transitions) + 1
        /\ transitions'[Len(transitions) + 1] = r /\ transitions' # <<>>
        /\ \A i \in 1 .. Len(transitions) : transitions'[i] = transitions[i]
    BY <1>1, <1>3 DEF LifeInv, PastInv
  <1>5. r.number = Len(transitions) + 1 /\ r.prior = state /\ r.next = next /\ r.time = time
    BY DEF r, LifeInv, PastInv
  <1>6. transitions # <<>> => transitions[Len(transitions)].time <= time
    <2>1. SUFFICES ASSUME transitions # <<>> PROVE transitions[Len(transitions)].time <= time
      OBVIOUS
    <2>2. transitions[Len(transitions)] \in Records
      BY <1>4, <2>1
    <2>3. transitions[Len(transitions)].time \in Nat /\ time \in Nat
      BY <2>2, LifeConstants DEF Records
    <2>4. Lifecycle!LastTime = transitions[Len(transitions)].time
      BY <2>1 DEF Lifecycle!LastTime, Lifecycle!Last
    <2> QED
      BY <1>1, <2>3, <2>4
  <1>7. ASSUME NEW i \in 1 .. Len(transitions')
        PROVE  /\ transitions'[i].number = i
               /\ transitions'[i].prior = IF i = 1 THEN "configured" ELSE transitions'[i - 1].next
               /\ i > 1 => transitions'[i - 1].time <= transitions'[i].time
    <2>1. CASE i \in 1 .. Len(transitions)
      <3>1. i > 1 => i - 1 \in 1 .. Len(transitions)
        BY <2>1, <1>4
      <3> QED
        BY <1>4, <2>1, <3>1 DEF LifeInv, PastInv
    <2>2. CASE i = Len(transitions) + 1 /\ transitions = <<>>
      BY <1>4, <1>5, <2>2 DEF LifeInv, PastInv
    <2>3. CASE i = Len(transitions) + 1 /\ transitions # <<>>
      <3>1. Len(transitions) \in 1 .. Len(transitions)
        BY <1>4, <2>3
      <3> QED
        BY <1>4, <1>5, <1>6, <2>3, <3>1 DEF LifeInv, PastInv
    <2> QED
      BY <1>4, <2>1, <2>2, <2>3
  <1>8. state' \in Entered => \E i \in 1 .. Len(transitions') : transitions'[i].next = "open"
    <2>1. SUFFICES ASSUME next \in Entered
                   PROVE  \E i \in 1 .. Len(transitions') : transitions'[i].next = "open"
      BY <1>1
    <2>2. CASE next = "open"
      BY <1>4, <1>5, <2>2
    <2>3. CASE state \in Entered
      BY <1>4, <2>3 DEF LifeInv, PastInv
    <2> QED
      BY <1>1, <1>2, <2>1, <2>2, <2>3, TableOfStates
  <1>9. PastInv'
    BY <1>1, <1>4, <1>5, <1>7, <1>8, LifeConstants DEF LifeInv, PastInv
  <1>10. FillsInv'
    BY <1>1 DEF LifeInv, FillsInv, Lifecycle!VerdictIsSafe
  <1> QED
    BY <1>9, <1>10 DEF LifeInv

\* The machine rests while the order is filled, waits or is looked at.
LEMMA PastRests == ASSUME PastInv, UNCHANGED Lifecycle!machine PROVE PastInv'
  BY DEF PastInv, Lifecycle!machine

LEMMA FillKeeps == ASSUME LifeInv, NEW l \in Legs, Lifecycle!Fill(l) PROVE LifeInv'
  <1>1. filled' \in [Legs -> 0 .. OrderSize]
    BY LifeConstants DEF LifeInv, FillsInv, Lifecycle!Fill
  <1> QED
    BY <1>1, PastRests DEF LifeInv, FillsInv, Lifecycle!Fill, Lifecycle!VerdictIsSafe

LEMMA WaitKeeps == ASSUME LifeInv, NEW t \in Now, Lifecycle!Wait(t) PROVE LifeInv'
  BY PastRests DEF LifeInv, FillsInv, Lifecycle!Wait, Lifecycle!VerdictIsSafe

LEMMA ReconcileKeeps == ASSUME LifeInv, Lifecycle!Reconcile PROVE LifeInv'
  <1> DEFINE cancels == CancelOnIncomplete /\ Lifecycle!Filled < MinFill /\ Lifecycle!TimedOut
             residue == {l \in Legs : filled[l] < OrderSize}
             e == [ratio |-> Lifecycle!Filled, residual |-> residue,
                   retry |-> Lifecycle!Filled < Lifecycle!Total /\ ~cancels /\ ~Lifecycle!TimedOut,
                   timed_out |-> Lifecycle!TimedOut, cancelled |-> cancels,
                   escalated |-> Lifecycle!TimedOut /\ Lifecycle!Filled < MinFill, at |-> elapsed]
  <1>1. event' = {e} /\ UNCHANGED <<state, sequence, transitions, filled, elapsed>>
    BY DEF Lifecycle!Reconcile, Lifecycle!machine
  <1>2. /\ e.ratio = Lifecycle!Filled /\ e.residual = residue /\ e.at = elapsed
        /\ e.retry <=> Lifecycle!Filled < Lifecycle!Total /\ ~cancels /\ ~Lifecycle!TimedOut
        /\ e.cancelled <=> cancels
        /\ e.escalated <=> Lifecycle!TimedOut /\ Lifecycle!Filled < MinFill
    OBVIOUS
  <1>3. /\ Lifecycle!Filled \in 0 .. Lifecycle!Total
        /\ Lifecycle!Filled = Lifecycle!Total <=> residue = {}
    BY FullIsWithoutResidual DEF LifeInv, FillsInv
  <1>4. e \in Verdicts
    BY <1>3, LifeConstants DEF LifeInv, FillsInv, Verdicts, Lifecycle!TimedOut
  <1>5. elapsed \in Nat /\ Timeout \in Nat /\ (Lifecycle!TimedOut <=> elapsed >= Timeout)
        /\ Lifecycle!Total \in Nat /\ MinFill \in 0 .. Lifecycle!Total
    BY LifeConstants DEF LifeInv, FillsInv, Lifecycle!TimedOut
  <1> HIDE DEF e, residue
  <1>6. /\ e.ratio = Lifecycle!Total => ~e.retry /\ ~e.cancelled /\ e.residual = {}
        /\ e.at >= Timeout => ~e.retry /\ (e.ratio < MinFill => e.escalated)
        /\ e.cancelled => e.escalated /\ e.residual # {}
        /\ e.at < Timeout /\ e.ratio < Lifecycle!Total => e.retry
    BY <1>2, <1>3, <1>5
  <1>7. Lifecycle!VerdictIsSafe'
    BY <1>1, <1>6 DEF Lifecycle!VerdictIsSafe
  <1>8. PastInv'
    BY <1>1, PastRests DEF LifeInv, Lifecycle!machine
  <1> QED
    BY <1>1, <1>4, <1>7, <1>8 DEF LifeInv, FillsInv, Verdicts

LEMMA LifeRestsStill == LifeInv /\ UNCHANGED lifecycleVars => LifeInv'
  BY DEF LifeInv, PastInv, FillsInv, lifecycleVars, Lifecycle!VerdictIsSafe, Verdicts

LEMMA LifeStep == LifeInv /\ Lifecycle!Next => LifeInv'
  <1>1. ASSUME LifeInv, NEW next, NEW time, NEW guards, Lifecycle!Refuse(next, time, guards)
        PROVE  LifeInv'
    BY <1>1, LifeRestsStill
    DEF Lifecycle!Refuse, Lifecycle!vars, Lifecycle!machine, Lifecycle!order, lifecycleVars
  <1> QED
    BY <1>1, TransitionKeeps, FillKeeps, WaitKeeps, ReconcileKeeps DEF Lifecycle!Next

LEMMA LifeInvariantImplies ==
    LifeInv => Lifecycle!RecordsTellThePast /\ Lifecycle!CanStillEnd /\ Lifecycle!VerdictIsSafe
  <1> SUFFICES ASSUME LifeInv
               PROVE  Lifecycle!RecordsTellThePast /\ Lifecycle!CanStillEnd /\ Lifecycle!VerdictIsSafe
    OBVIOUS
  <1>1. DOMAIN transitions = 1 .. Len(transitions) /\ Lifecycle!Live = Lifecycle!State \ Ended
    BY DEF LifeInv, PastInv, Lifecycle!Live, Lifecycle!Terminal, Ended
  <1>2. sequence \in 0 .. MaxTransitions
    BY LifeConstants DEF LifeInv, PastInv
  <1>3. Lifecycle!TypeOK
    BY <1>1, <1>2 DEF LifeInv, PastInv, FillsInv, Records, Verdicts, Lifecycle!TypeOK
  <1>4. state = "closed" => \E i \in DOMAIN transitions : transitions[i].next = "open"
    BY <1>1 DEF LifeInv, PastInv, Entered
  <1>5. Lifecycle!RecordsTellThePast
    BY <1>1, <1>3, <1>4 DEF LifeInv, PastInv, Lifecycle!RecordsTellThePast, Lifecycle!Last
  <1>6. /\ state \in Lifecycle!State /\ state \in Lifecycle!Reach(state)
        /\ Lifecycle!Allowed[state] \subseteq Lifecycle!Reach(state)
    BY ReachStays, TableOfStates DEF LifeInv, PastInv
  <1>7. Lifecycle!CanStillEnd
    <2>1. CASE state \in Ended
      BY <1>6, <2>1 DEF Lifecycle!CanStillEnd, Lifecycle!Terminal, Ended
    <2>2. CASE state \notin Ended
      <3>1. PICK t \in Ended : t \in Lifecycle!Allowed[state]
        BY <1>6, <2>2, TableOfStates
      <3> QED
        BY <1>6, <3>1 DEF Lifecycle!CanStillEnd, Lifecycle!Terminal, Ended
    <2> QED
      BY <2>1, <2>2
  <1> QED
    BY <1>5, <1>7 DEF LifeInv, FillsInv

\* On its way out, a strategy goes on or ends, and is not led back to where it was.
LEMMA StepStaysOut == LifeInv /\ Lifecycle!Next /\ state' # state => Lifecycle!StaysOut
  <1> SUFFICES ASSUME LifeInv, Lifecycle!Next, state' # state, state \in Lifecycle!Exiting
               PROVE  /\ state' \in Lifecycle!Exiting \cup {"closed", "failed"}
                      /\ state \notin Lifecycle!Reach(state')
    BY DEF Lifecycle!StaysOut
  <1>1. state' \in Lifecycle!Allowed[state]
    BY DEF Lifecycle!Next, Lifecycle!Transition, Lifecycle!Accepts, Lifecycle!Refuse, Lifecycle!Fill,
           Lifecycle!Wait, Lifecycle!Reconcile, Lifecycle!vars, Lifecycle!machine
  <1>2. /\ {"closed", "failed"} \subseteq Lifecycle!State /\ "partially_closed" \in Lifecycle!State
        /\ Lifecycle!Allowed["closed"] = {} /\ Lifecycle!Allowed["failed"] = {}
    BY TableOfStates DEF Ended, Entered
  <1>3. CASE state = "partially_closed"
    <2>1. state' \in {"closed", "failed"}
      BY <1>1, <1>3, TableOfStates
    <2>2. \A s \in {"closed", "failed"} : Lifecycle!Allowed[s] \subseteq {"closed", "failed"}
      BY <1>2
    <2>3. {"closed", "failed"} \in SUBSET Lifecycle!State
      BY <1>2
    <2>4. Lifecycle!Reach(state') \subseteq {"closed", "failed"}
      BY <2>1, <2>2, <2>3, ReachStays
    <2> QED
      BY <1>3, <2>1, <2>4
  <1>4. CASE state = "exit_pending"
    <2>1. state' \in {"partially_closed", "closed", "failed"}
      BY <1>1, <1>4, TableOfStates
    <2>2. \A s \in {"partially_closed", "closed", "failed"} :
              Lifecycle!Allowed[s] \subseteq {"partially_closed", "closed", "failed"}
      BY <1>2, TableOfStates
    <2>3. {"partially_closed", "closed", "failed"} \in SUBSET Lifecycle!State
      BY <1>2
    <2>4. Lifecycle!Reach(state') \subseteq {"partially_closed", "closed", "failed"}
      BY <2>1, <2>2, <2>3, ReachStays
    <2> QED
      BY <1>4, <2>1, <2>4 DEF Lifecycle!Exiting
  <1> QED
    BY <1>3, <1>4 DEF Lifecycle!Exiting

-----------------------------------------------------------------------------
(* What the runs check, of every strategy and every replay                   *)

RecordsInv == (part = "replay" => TapeInv) /\ (part = "lifecycle" => LifeInv)

LEMMA RecordsInvariant == BacktestSpec => []RecordsInv
  <1>1. BacktestInit => RecordsInv
    BY TapeInit, LifeInit DEF BacktestInit, RecordsInv
  <1>2. RecordsInv /\ [BacktestNext]_allVars => RecordsInv'
    BY OnePartRuns, TapeStep, TapeRestsStill, LifeStep, LifeRestsStill DEF RecordsInv
  <1> QED
    BY <1>1, <1>2, PTL DEF BacktestSpec

\* replay.py:361-390, 472-495.  However a timeline came about, its events are numbered from 0
\* without a gap; and two timelines that compare_branches finds no difference in are the same.
THEOREM TimelinesAreAlwaysSound == BacktestSpec => []TimelinesAreSound
  <1>1. RecordsInv => TimelinesAreSound
    BY TapeInvariantImplies DEF RecordsInv, TimelinesAreSound
  <1> QED
    BY <1>1, RecordsInvariant, PTL

\* state_machine.py:234-278, orchestration.py:175-210.  The records of a strategy of any number
\* of legs tell its whole past, it can always still end, and the verdict on a partly filled order
\* neither retries what timed out nor cancels what it does not escalate.
THEOREM LifecycleIsAlwaysSound == BacktestSpec => []LifecycleIsSound
  <1>1. RecordsInv => LifecycleIsSound
    BY LifeInvariantImplies DEF RecordsInv, LifecycleIsSound
  <1> QED
    BY <1>1, RecordsInvariant, PTL

\* state_machine.py:121-222, replay.py:332-375.  A position on its way out never returns to the
\* market; a branch starts with exactly the past its snapshot had and keeps every event it holds.
THEOREM NothingIsEverUndone == BacktestSpec => NothingIsUndone
  <1>1. RecordsInv /\ [BacktestNext]_allVars => [part = "lifecycle" => Lifecycle!StaysOut]_state
    BY OnePartRuns, StepStaysOut DEF RecordsInv, lifecycleVars
  <1>2. RecordsInv /\ [BacktestNext]_allVars
           => [part = "replay" => Tape!KeepsHistory /\ Tape!BranchesAtSnapshot]_<<parent, timeline>>
    BY OnePartRuns, StepKeepsHistory, StepBranchesAtSnapshot DEF RecordsInv, replayVars
  <1> QED
    BY <1>1, <1>2, RecordsInvariant, PTL DEF BacktestSpec, NothingIsUndone

-----------------------------------------------------------------------------
(* The sort                                                                  *)

Key == Int \X Int \X Int \X Int

LEMMA LexIs ==
  ASSUME NEW a \in Key, NEW b \in Key
  PROVE  Clock!LexLess(a, b) <=> \/ a[1] < b[1]
                                 \/ a[1] = b[1] /\ a[2] < b[2]
                                 \/ a[1] = b[1] /\ a[2] = b[2] /\ a[3] < b[3]
                                 \/ a[1] = b[1] /\ a[2] = b[2] /\ a[3] = b[3] /\ a[4] < b[4]
  <1>1. 1 .. 4 = {1, 2, 3, 4}
    OBVIOUS
  <1>2. 1 .. 1 - 1 = {} /\ 1 .. 2 - 1 = {1} /\ 1 .. 3 - 1 = {1, 2} /\ 1 .. 4 - 1 = {1, 2, 3}
    OBVIOUS
  <1>3. Clock!LexLess(a, b) <=> \E i \in {1, 2, 3, 4} : a[i] < b[i] /\ \A j \in 1 .. i - 1 : a[j] = b[j]
    BY <1>1 DEF Clock!LexLess
  <1> QED
    BY <1>2, <1>3

LEMMA LexOrders ==
  ASSUME NEW a \in Key, NEW b \in Key, NEW c \in Key
  PROVE  /\ ~Clock!LexLess(a, a)
         /\ Clock!LexLess(a, b) /\ Clock!LexLess(b, c) => Clock!LexLess(a, c)
         /\ Clock!LexLess(a, b) \/ a = b \/ Clock!LexLess(b, a)
  <1>1. /\ a[1] \in Int /\ a[2] \in Int /\ a[3] \in Int /\ a[4] \in Int
        /\ b[1] \in Int /\ b[2] \in Int /\ b[3] \in Int /\ b[4] \in Int
        /\ c[1] \in Int /\ c[2] \in Int /\ c[3] \in Int /\ c[4] \in Int
    BY DEF Key
  <1>2. a[1] = b[1] /\ a[2] = b[2] /\ a[3] = b[3] /\ a[4] = b[4] => a = b
    BY DEF Key
  <1>3. ~Clock!LexLess(a, a)
    BY <1>1, LexIs
  <1>4. Clock!LexLess(a, b) /\ Clock!LexLess(b, c) => Clock!LexLess(a, c)
    BY <1>1, LexIs
  <1>5. Clock!LexLess(a, b) \/ a = b \/ Clock!LexLess(b, a)
    BY <1>1, <1>2, LexIs
  <1> QED
    BY <1>3, <1>4, <1>5

ClockConstants == Clock!ConstantsType

LEMMA ClockConstantsHold == ClockConstants
  BY BacktestConstants DEF ClockConstants

LEMMA ClockCounts ==
    \A S : Clock!Cardinality(S) = Cardinality(S)
  BY DEF Clock!Cardinality, Cardinality

\* A member of a list of clock events, field by field.
LEMMA ListedIs ==
  ASSUME NEW ev \in Seq(Clock!ClockEvent), NEW i \in DOMAIN ev
  PROVE  /\ ev[i] \in Clock!ClockEvent
         /\ ev[i].time \in Times /\ ev[i].type \in Types /\ ev[i].priority \in Priorities
         /\ ev[i].hint \in Hints /\ ev[i].origin \in 0 .. ClockEvents
         /\ ev[i].time \in Int /\ ev[i].type \in Int /\ ev[i].priority \in Int /\ ev[i].hint \in Int
  <1>1. ev[i] \in Clock!ClockEvent
    OBVIOUS
  <1>2. /\ ev[i].time \in Times /\ ev[i].type \in Types /\ ev[i].priority \in Priorities
        /\ ev[i].hint \in Hints /\ ev[i].origin \in 0 .. ClockEvents
    BY <1>1 DEF Clock!ClockEvent
  <1>3. Times \subseteq Int /\ Types \subseteq Int /\ Priorities \subseteq Int /\ Hints \subseteq Int
    BY ClockConstantsHold DEF ClockConstants, Clock!ConstantsType
  <1> QED
    BY <1>1, <1>2, <1>3

\* i is before j in the stream of ev.
Before(ev, i, j) ==
    \/ Clock!LexLess(Clock!SortKey(ev[i]), Clock!SortKey(ev[j]))
    \/ i < j /\ Clock!SortKey(ev[i]) = Clock!SortKey(ev[j])
InOrder(ev) == {p \in (DOMAIN ev) \X (DOMAIN ev) : Before(ev, p[1], p[2])}

LEMMA InOrderIs ==
  ASSUME NEW ev, NEW i, NEW j
  PROVE  <<i, j>> \in InOrder(ev) <=> i \in DOMAIN ev /\ j \in DOMAIN ev /\ Before(ev, i, j)
  <1> DEFINE p == <<i, j>>
  <1>1. p[1] = i /\ p[2] = j /\ (p \in (DOMAIN ev) \X (DOMAIN ev) <=> i \in DOMAIN ev /\ j \in DOMAIN ev)
    OBVIOUS
  <1> HIDE DEF p
  <1>2. p \in InOrder(ev) <=> p \in (DOMAIN ev) \X (DOMAIN ev) /\ Before(ev, p[1], p[2])
    BY DEF InOrder
  <1>3. p \in InOrder(ev) <=> i \in DOMAIN ev /\ j \in DOMAIN ev /\ Before(ev, i, j)
    BY <1>1, <1>2
  <1> QED
    BY <1>3 DEF p

LEMMA KeyIs ==
  ASSUME NEW ev \in Seq(Clock!ClockEvent), NEW i \in DOMAIN ev
  PROVE  Clock!SortKey(ev[i]) \in Key
  BY ListedIs DEF Clock!SortKey, Key

LEMMA StreamOrders ==
  ASSUME NEW ev \in Seq(Clock!ClockEvent)
  PROVE  Orders(DOMAIN ev, InOrder(ev))
  <1> DEFINE key(i) == Clock!SortKey(ev[i])
  <1>1. \A i \in DOMAIN ev : key(i) \in Key /\ i \in Int
    BY KeyIs
  <1>2. \A i, j \in DOMAIN ev :
            <<i, j>> \in InOrder(ev) <=> Clock!LexLess(key(i), key(j)) \/ (i < j /\ key(i) = key(j))
    BY InOrderIs, Zenon DEF Before
  <1> HIDE DEF key
  <1>3. \A i \in DOMAIN ev : <<i, i>> \notin InOrder(ev)
    BY <1>1, <1>2, LexOrders
  <1>4. ASSUME NEW i \in DOMAIN ev, NEW j \in DOMAIN ev, NEW k \in DOMAIN ev,
               <<i, j>> \in InOrder(ev), <<j, k>> \in InOrder(ev)
        PROVE  <<i, k>> \in InOrder(ev)
    <2>1. /\ Clock!LexLess(key(i), key(j)) \/ (i < j /\ key(i) = key(j))
          /\ Clock!LexLess(key(j), key(k)) \/ (j < k /\ key(j) = key(k))
      BY <1>2, <1>4
    <2>2. Clock!LexLess(key(i), key(j)) /\ Clock!LexLess(key(j), key(k)) => Clock!LexLess(key(i), key(k))
      BY <1>1, LexOrders
    <2>3. Clock!LexLess(key(i), key(k)) \/ (i < k /\ key(i) = key(k))
      BY <1>1, <2>1, <2>2
    <2> QED
      BY <1>2, <2>3
  <1>5. ASSUME NEW i \in DOMAIN ev, NEW j \in DOMAIN ev
        PROVE  i = j \/ <<i, j>> \in InOrder(ev) \/ <<j, i>> \in InOrder(ev)
    <2>1. Clock!LexLess(key(i), key(j)) \/ key(i) = key(j) \/ Clock!LexLess(key(j), key(i))
      BY <1>1, LexOrders
    <2>2. i < j \/ i = j \/ j < i
      BY <1>1
    <2>3. <<i, j>> \in InOrder(ev) <=> (Clock!LexLess(key(i), key(j)) \/ (i < j /\ key(i) = key(j)))
      BY <1>2, Zenon
    <2>4. <<j, i>> \in InOrder(ev) <=> (Clock!LexLess(key(j), key(i)) \/ (j < i /\ key(j) = key(i)))
      BY <1>2, Zenon
    <2> QED
      BY <2>1, <2>2, <2>3, <2>4, Zenon
  <1> QED
    BY <1>3, <1>4, <1>5 DEF Orders

LEMMA RankIs ==
  ASSUME NEW ev \in Seq(Clock!ClockEvent), NEW i \in DOMAIN ev
  PROVE  Clock!Rank(ev, i) = Cardinality(UpTo(DOMAIN ev, InOrder(ev), i))
  <1> DEFINE upto == {j \in DOMAIN ev :
                         \/ Clock!LexLess(Clock!SortKey(ev[j]), Clock!SortKey(ev[i]))
                         \/ j <= i /\ Clock!SortKey(ev[j]) = Clock!SortKey(ev[i])}
  <1>1. \A j \in DOMAIN ev : j \in Int /\ (j <= i <=> j = i \/ j < i)
    OBVIOUS
  <1>2. \A j \in DOMAIN ev : <<j, i>> \in InOrder(ev) <=> Before(ev, j, i)
    BY InOrderIs
  <1>3. upto = UpTo(DOMAIN ev, InOrder(ev), i)
    BY <1>1, <1>2 DEF UpTo, Before
  <1>4. Clock!Rank(ev, i) = Clock!Cardinality(upto)
    BY DEF Clock!Rank
  <1> HIDE DEF upto
  <1> QED
    BY <1>3, <1>4, ClockCounts

\* The ranks number the events, one each, and an event before another has the smaller rank.
LEMMA RanksNumber ==
  ASSUME NEW ev \in Seq(Clock!ClockEvent)
  PROVE  /\ \A i \in DOMAIN ev : Clock!Rank(ev, i) \in DOMAIN ev
         /\ \A i, j \in DOMAIN ev : Before(ev, j, i) => Clock!Rank(ev, j) < Clock!Rank(ev, i)
         /\ \A i, j \in DOMAIN ev : Clock!Rank(ev, i) = Clock!Rank(ev, j) => i = j
         /\ \A r \in DOMAIN ev : \E i \in DOMAIN ev : Clock!Rank(ev, i) = r
  <1>1. DOMAIN ev = 1 .. Len(ev) /\ Len(ev) \in Nat
    OBVIOUS
  <1>2. IsFiniteSet(DOMAIN ev) /\ Cardinality(DOMAIN ev) = Len(ev)
    <2>1. IsFiniteSet(1 .. Len(ev)) /\ Cardinality(1 .. Len(ev)) = IF 1 > Len(ev) THEN 0 ELSE Len(ev) - 1 + 1
      BY <1>1, FS_Interval
    <2> QED
      BY <1>1, <2>1
  <1>3. 1 .. Cardinality(DOMAIN ev) = DOMAIN ev
    BY <1>1, <1>2
  <1>4. \A i, j \in DOMAIN ev : Before(ev, j, i) => <<j, i>> \in InOrder(ev)
    BY InOrderIs
  <1>5. Orders(DOMAIN ev, InOrder(ev))
    BY StreamOrders
  <1>6. /\ \A i \in DOMAIN ev : Cardinality(UpTo(DOMAIN ev, InOrder(ev), i)) \in DOMAIN ev
        /\ \A i, j \in DOMAIN ev : <<j, i>> \in InOrder(ev) =>
               Cardinality(UpTo(DOMAIN ev, InOrder(ev), j)) < Cardinality(UpTo(DOMAIN ev, InOrder(ev), i))
        /\ \A i, j \in DOMAIN ev : Cardinality(UpTo(DOMAIN ev, InOrder(ev), i))
                                       = Cardinality(UpTo(DOMAIN ev, InOrder(ev), j)) => i = j
        /\ \A r \in DOMAIN ev : \E i \in DOMAIN ev : Cardinality(UpTo(DOMAIN ev, InOrder(ev), i)) = r
    <2>1. \A i \in DOMAIN ev : Cardinality(UpTo(DOMAIN ev, InOrder(ev), i)) \in 1 .. Cardinality(DOMAIN ev)
      BY <1>2, <1>5, PlacesByOrder
    <2>2. \A i, j \in DOMAIN ev : <<j, i>> \in InOrder(ev) =>
              Cardinality(UpTo(DOMAIN ev, InOrder(ev), j)) < Cardinality(UpTo(DOMAIN ev, InOrder(ev), i))
      BY <1>2, <1>5, PlacesByOrder
    <2>3. \A i, j \in DOMAIN ev : Cardinality(UpTo(DOMAIN ev, InOrder(ev), i))
                                      = Cardinality(UpTo(DOMAIN ev, InOrder(ev), j)) => i = j
      BY <1>2, <1>5, PlacesByOrder
    <2>4. \A r \in 1 .. Cardinality(DOMAIN ev) :
              \E i \in DOMAIN ev : Cardinality(UpTo(DOMAIN ev, InOrder(ev), i)) = r
      BY <1>2, <1>5, PlacesByOrder
    <2> QED
      BY <1>3, <2>1, <2>2, <2>3, <2>4
  <1>7. \A i \in DOMAIN ev : Clock!Rank(ev, i) = Cardinality(UpTo(DOMAIN ev, InOrder(ev), i))
    BY RankIs
  <1>8. \A i \in DOMAIN ev : Clock!Rank(ev, i) \in DOMAIN ev
    BY <1>6, <1>7
  <1>9. ASSUME NEW i \in DOMAIN ev, NEW j \in DOMAIN ev, Before(ev, j, i)
        PROVE  Clock!Rank(ev, j) < Clock!Rank(ev, i)
    <2>1. <<j, i>> \in InOrder(ev)
      BY <1>4, <1>9
    <2>2. Cardinality(UpTo(DOMAIN ev, InOrder(ev), j)) < Cardinality(UpTo(DOMAIN ev, InOrder(ev), i))
      BY <1>6, <2>1
    <2>3. /\ Clock!Rank(ev, i) = Cardinality(UpTo(DOMAIN ev, InOrder(ev), i))
          /\ Clock!Rank(ev, j) = Cardinality(UpTo(DOMAIN ev, InOrder(ev), j))
      BY <1>7
    <2> QED
      BY <2>2, <2>3
  <1>10. ASSUME NEW i \in DOMAIN ev, NEW j \in DOMAIN ev, Clock!Rank(ev, i) = Clock!Rank(ev, j)
         PROVE  i = j
    <2>1. Cardinality(UpTo(DOMAIN ev, InOrder(ev), i)) = Cardinality(UpTo(DOMAIN ev, InOrder(ev), j))
      BY <1>7, <1>10
    <2> QED
      BY <1>6, <2>1
  <1>11. \A r \in DOMAIN ev : \E i \in DOMAIN ev : Clock!Rank(ev, i) = r
    BY <1>6, <1>7
  <1> QED
    BY <1>8, <1>9, <1>10, <1>11

\* The event at a rank.
At(ev, r) == CHOOSE i \in DOMAIN ev : Clock!Rank(ev, i) = r

\* The sorted stream is the events, each once, none after one it is before.
LEMMA SortedIs ==
  ASSUME NEW ev \in Seq(Clock!ClockEvent)
  PROVE  /\ Clock!Sorted(ev) = [r \in DOMAIN ev |-> ev[At(ev, r)]]
         /\ \A r \in DOMAIN ev : At(ev, r) \in DOMAIN ev /\ Clock!Rank(ev, At(ev, r)) = r
         /\ \A i \in DOMAIN ev : Clock!Rank(ev, i) \in DOMAIN ev /\ At(ev, Clock!Rank(ev, i)) = i
         /\ \A q, r \in DOMAIN ev : q < r => Before(ev, At(ev, q), At(ev, r))
         /\ Clock!Sorted(ev) \in Seq(Clock!ClockEvent)
  <1>1. Clock!Sorted(ev) = [r \in DOMAIN ev |-> ev[At(ev, r)]]
    BY DEF Clock!Sorted, At
  <1>2. \A r \in DOMAIN ev : At(ev, r) \in DOMAIN ev /\ Clock!Rank(ev, At(ev, r)) = r
    BY RanksNumber DEF At
  <1>3. \A i \in DOMAIN ev : Clock!Rank(ev, i) \in DOMAIN ev /\ At(ev, Clock!Rank(ev, i)) = i
    BY <1>2, RanksNumber
  <1>4. ASSUME NEW q \in DOMAIN ev, NEW r \in DOMAIN ev, q < r
        PROVE  Before(ev, At(ev, q), At(ev, r))
    <2>1. q \in Int /\ r \in Int
      OBVIOUS
    <2>2. At(ev, q) # At(ev, r)
      BY <1>2, <1>4, <2>1
    <2>3. Before(ev, At(ev, q), At(ev, r)) \/ Before(ev, At(ev, r), At(ev, q))
      BY <1>2, <2>2, StreamOrders, InOrderIs DEF Orders
    <2>4. ~Before(ev, At(ev, r), At(ev, q))
      BY <1>2, <1>4, <2>1, RanksNumber
    <2> QED
      BY <2>3, <2>4
  <1>5. Clock!Sorted(ev) \in Seq(Clock!ClockEvent)
    <2>1. DOMAIN ev = 1 .. Len(ev) /\ Len(ev) \in Nat
      OBVIOUS
    <2>2. \A r \in 1 .. Len(ev) : ev[At(ev, r)] \in Clock!ClockEvent
      BY <1>2, <2>1
    <2>3. Clock!Sorted(ev) = [r \in 1 .. Len(ev) |-> ev[At(ev, r)]]
      BY <1>1, <2>1
    <2> QED
      BY <2>1, <2>2, <2>3
  <1> QED
    BY <1>1, <1>2, <1>3, <1>4, <1>5

-----------------------------------------------------------------------------
(* Deduplication                                                             *)

\* The n-th of a set of places, for the clock's Nth: each of them once.
LEMMA NthPlaces ==
  ASSUME NEW K, NEW m \in Nat, K \subseteq 1 .. m
  PROVE  /\ Clock!Cardinality(K) \in Nat
         /\ \A n \in 1 .. Clock!Cardinality(K) : Clock!Nth(K, n) \in K
         /\ \A i \in K : \E n \in 1 .. Clock!Cardinality(K) : Clock!Nth(K, n) = i
         /\ \A n, o \in 1 .. Clock!Cardinality(K) : Clock!Nth(K, n) = Clock!Nth(K, o) => n = o
  <1> DEFINE earlier == {p \in K \X K : p[1] < p[2]}
             upto(i) == {j \in K : j <= i}
  <1>1. K \subseteq Int
    OBVIOUS
  <1>2. IsFiniteSet(K)
    <2>1. IsFiniteSet(1 .. m) /\ K \in SUBSET (1 .. m)
      BY FS_Interval
    <2> QED
      BY <2>1, FS_Subset
  <1>3. \A i, j \in K : <<i, j>> \in earlier <=> i < j
    OBVIOUS
  <1> HIDE DEF earlier
  <1>4. Orders(K, earlier)
    BY <1>1, <1>3 DEF Orders
  <1>5. \A i \in K : upto(i) = UpTo(K, earlier, i)
    <2> TAKE i \in K
    <2>1. \A j \in K : j <= i <=> j = i \/ <<j, i>> \in earlier
      BY <1>1, <1>3
    <2> QED
      BY <2>1 DEF UpTo
  <1>6. \A n : Clock!Nth(K, n) = CHOOSE i \in K : Cardinality(upto(i)) = n
    BY ClockCounts DEF Clock!Nth
  <1> HIDE DEF upto
  <1>7. /\ \A i \in K : Cardinality(upto(i)) \in 1 .. Cardinality(K)
        /\ \A i, j \in K : Cardinality(upto(i)) = Cardinality(upto(j)) => i = j
        /\ \A k \in 1 .. Cardinality(K) : \E i \in K : Cardinality(upto(i)) = k
    <2>1. /\ \A i \in K : Cardinality(UpTo(K, earlier, i)) \in 1 .. Cardinality(K)
          /\ \A i, j \in K : Cardinality(UpTo(K, earlier, i)) = Cardinality(UpTo(K, earlier, j)) => i = j
          /\ \A k \in 1 .. Cardinality(K) : \E i \in K : Cardinality(UpTo(K, earlier, i)) = k
      <3>1. IsFiniteSet(K) /\ Orders(K, earlier)
        BY <1>2, <1>4
      <3>2. \A i \in K : Cardinality(UpTo(K, earlier, i)) \in 1 .. Cardinality(K)
        BY <3>1, PlacesByOrder
      <3>3. \A i, j \in K : Cardinality(UpTo(K, earlier, i)) = Cardinality(UpTo(K, earlier, j)) => i = j
        BY <3>1, PlacesByOrder
      <3>4. \A k \in 1 .. Cardinality(K) : \E i \in K : Cardinality(UpTo(K, earlier, i)) = k
        BY <3>1, PlacesByOrder
      <3> QED
        BY <3>2, <3>3, <3>4
    <2>2. \A i, j \in K : Cardinality(upto(i)) = Cardinality(upto(j)) => i = j
      <3> TAKE i, j \in K
      <3>1. upto(i) = UpTo(K, earlier, i) /\ upto(j) = UpTo(K, earlier, j)
        BY <1>5
      <3> QED
        BY <2>1, <3>1
    <2>3. \A i \in K : Cardinality(upto(i)) = Cardinality(UpTo(K, earlier, i))
      BY <1>5
    <2> QED
      BY <2>1, <2>2, <2>3
  <1>8. Clock!Cardinality(K) = Cardinality(K) /\ Cardinality(K) \in Nat
    BY <1>2, ClockCounts, FS_CardinalityType
  <1>9. \A n \in 1 .. Cardinality(K) : Clock!Nth(K, n) \in K /\ Cardinality(upto(Clock!Nth(K, n))) = n
    <2> TAKE n \in 1 .. Cardinality(K)
    <2>1. \E i \in K : Cardinality(upto(i)) = n
      BY <1>7
    <2>2. Clock!Nth(K, n) = CHOOSE i \in K : Cardinality(upto(i)) = n
      BY <1>6
    <2> QED
      BY <2>1, <2>2
  <1>10. \A i \in K : Clock!Nth(K, Cardinality(upto(i))) = i
    <2> TAKE i \in K
    <2> DEFINE n == Cardinality(upto(i))
    <2>1. n \in 1 .. Cardinality(K)
      BY <1>7
    <2>2. Clock!Nth(K, n) \in K /\ Cardinality(upto(Clock!Nth(K, n))) = Cardinality(upto(i))
      BY <1>9, <2>1
    <2> QED
      BY <1>7, <2>2
  <1>11. \A i \in K : \E n \in 1 .. Cardinality(K) : Clock!Nth(K, n) = i
    BY <1>7, <1>10
  <1>12. \A n, o \in 1 .. Cardinality(K) : Clock!Nth(K, n) = Clock!Nth(K, o) => n = o
    BY <1>9
  <1> QED
    BY <1>8, <1>9, <1>11, <1>12

\* Of all places the n-th is n.
LEMMA NthOfAll ==
  ASSUME NEW m \in Nat, NEW n \in 1 .. m
  PROVE  Clock!Nth(1 .. m, n) = n
  <1> DEFINE P(i) == Clock!Cardinality({j \in 1 .. m : j <= i}) = n
  <1>1. Clock!Nth(1 .. m, n) = CHOOSE i \in 1 .. m : P(i)
    BY DEF Clock!Nth
  <1>2. ASSUME NEW i \in 1 .. m PROVE P(i) <=> i = n
    <2>1. {j \in 1 .. m : j <= i} = 1 .. i
      OBVIOUS
    <2>2. Cardinality(1 .. i) = i
      <3>1. Cardinality(1 .. i) = IF 1 > i THEN 0 ELSE i - 1 + 1
        BY FS_Interval
      <3> QED
        BY <3>1
    <2>3. Clock!Cardinality({j \in 1 .. m : j <= i}) = i
      BY <2>1, <2>2, ClockCounts
    <2> QED
      BY <2>3
  <1> HIDE DEF P
  <1> QED
    BY <1>1, <1>2

\* i and j have the same moment: time, type and hint.
Alike(ev, i, j) == Clock!DedupeKey(ev[i]) = Clock!DedupeKey(ev[j])

\* Of the events alike to one there is a first, and a last: the one LastAlike takes.
LEMMA FirstAlike ==
  ASSUME NEW ev, NEW m \in Nat, DOMAIN ev = 1 .. m, NEW i \in 1 .. m
  PROVE  \E j \in 1 .. m : Alike(ev, i, j) /\ j \in Clock!Firsts(ev)
                           /\ \A k \in 1 .. m : Alike(ev, i, k) => j <= k
  <1> DEFINE T == {j \in 1 .. m : Alike(ev, i, j)}
  <1>1. T \subseteq Nat /\ i \in T
    BY DEF Alike
  <1>2. \A j : j \in T <=> j \in 1 .. m /\ Alike(ev, i, j)
    OBVIOUS
  <1> HIDE DEF T
  <1>3. PICK j \in T : \A k \in T : j <= k
    BY <1>1, FirstOf
  <1>4. j \in 1 .. m /\ Alike(ev, i, j) /\ \A k \in 1 .. m : Alike(ev, i, k) => j <= k
    BY <1>2, <1>3
  <1>5. \A k \in 1 .. j - 1 : Clock!DedupeKey(ev[k]) # Clock!DedupeKey(ev[j])
    <2> TAKE k \in 1 .. j - 1
    <2>1. k \in 1 .. m /\ ~(j <= k)
      BY <1>4
    <2>2. ~Alike(ev, i, k)
      BY <1>4, <2>1
    <2> QED
      BY <1>4, <2>2 DEF Alike
  <1>6. j \in Clock!Firsts(ev)
    BY <1>4, <1>5 DEF Clock!Firsts, Clock!First
  <1> QED
    BY <1>4, <1>6

LEMMA FirstsAre ==
  ASSUME NEW ev, NEW m \in Nat, DOMAIN ev = 1 .. m,
         NEW i \in 1 .. m, NEW j \in 1 .. m, j \in Clock!Firsts(ev), Alike(ev, i, j)
  PROVE  j <= i
  <1>1. \A k \in 1 .. j - 1 : Clock!DedupeKey(ev[k]) # Clock!DedupeKey(ev[j])
    BY DEF Clock!Firsts, Clock!First
  <1>2. i \notin 1 .. j - 1
    BY <1>1 DEF Alike
  <1> QED
    BY <1>2

LEMMA LastAlikeIs ==
  ASSUME NEW ev, NEW m \in Nat, DOMAIN ev = 1 .. m, Len(ev) = m,
         NEW i \in 1 .. m, i \in Clock!Firsts(ev)
  PROVE  /\ Clock!LastAlike(ev, i) \in 1 .. m
         /\ Alike(ev, Clock!LastAlike(ev, i), i)
         /\ \A k \in 1 .. m : Alike(ev, i, k) => k <= Clock!LastAlike(ev, i)
  <1> DEFINE T == {m - j : j \in {k \in 1 .. m : Alike(ev, i, k)}}
             P(j) == /\ Clock!DedupeKey(ev[j]) = Clock!DedupeKey(ev[i])
                     /\ \A k \in j + 1 .. m : Clock!DedupeKey(ev[k]) # Clock!DedupeKey(ev[i])
  <1>1. T \subseteq Nat /\ m - i \in T
    BY DEF Alike
  <1>2. \A x : x \in T <=> \E j \in 1 .. m : Alike(ev, i, j) /\ x = m - j
    OBVIOUS
  <1> HIDE DEF T
  <1>3. PICK x \in T : \A y \in T : x <= y
    BY <1>1, FirstOf
  <1>4. PICK j \in 1 .. m : Alike(ev, i, j) /\ x = m - j
    BY <1>2
  <1>5. ASSUME NEW k \in 1 .. m, Alike(ev, i, k) PROVE k <= j
    <2>1. m - k \in T
      BY <1>2, <1>5
    <2>2. m - j <= m - k
      BY <1>3, <1>4, <2>1
    <2> QED
      BY <2>2
  <1>6. i <= j
    BY <1>5 DEF Alike
  <1>7. \A k \in j + 1 .. m : ~Alike(ev, i, k)
    <2> TAKE k \in j + 1 .. m
    <2>1. k \in 1 .. m /\ ~(k <= j)
      OBVIOUS
    <2> QED
      BY <1>5, <2>1
  <1>8. P(j)
    BY <1>4, <1>7 DEF Alike
  <1>9. Clock!LastAlike(ev, i) = CHOOSE l \in i .. m : P(l)
    BY DEF Clock!LastAlike
  <1>10. j \in i .. m
    BY <1>6
  <1> DEFINE last == CHOOSE l \in i .. m : P(l)
  <1> HIDE DEF P
  <1>11. last \in i .. m /\ P(last)
    BY <1>8, <1>10
  <1> HIDE DEF last
  <1>12. /\ Clock!DedupeKey(ev[last]) = Clock!DedupeKey(ev[i])
         /\ \A k \in last + 1 .. m : Clock!DedupeKey(ev[k]) # Clock!DedupeKey(ev[i])
    BY <1>11 DEF P
  <1>13. ASSUME NEW k \in 1 .. m, Alike(ev, i, k) PROVE k <= last
    <2>1. k \notin last + 1 .. m
      BY <1>12, <1>13 DEF Alike
    <2> QED
      BY <1>11, <2>1
  <1>14. last \in 1 .. m
    BY <1>11
  <1>15. Clock!LastAlike(ev, i) = last
    BY <1>9 DEF last
  <1> QED
    BY <1>12, <1>13, <1>14, <1>15 DEF Alike

\* The stream s takes its events from ev, at the places src: all of them, or of those alike the
\* one its policy names.
All == {"keep_all", "raise"}
Picks(p, ev, s, src) ==
    /\ DOMAIN s = 1 .. Len(s) /\ Len(s) \in Nat
    /\ src \in [DOMAIN s -> DOMAIN ev]
    /\ \A r \in DOMAIN s : s[r] = ev[src[r]]
    /\ \A q, r \in DOMAIN s : src[q] = src[r] => q = r
    /\ p \in All => \A i \in DOMAIN ev : \E r \in DOMAIN s : src[r] = i
    /\ p \notin All =>
           /\ \A i \in DOMAIN ev : \E r \in DOMAIN s : Alike(ev, i, src[r])
           /\ \A q, r \in DOMAIN s : Alike(ev, src[q], src[r]) => q = r
    /\ p = "keep_first" => \A r \in DOMAIN s, i \in DOMAIN ev : Alike(ev, i, src[r]) => src[r] <= i
    /\ p = "keep_last"  => \A r \in DOMAIN s, i \in DOMAIN ev : Alike(ev, i, src[r]) => i <= src[r]

LEMMA AlikeIs ==
  ASSUME NEW ev
  PROVE  /\ \A i : Alike(ev, i, i)
         /\ \A i, j : Alike(ev, i, j) => Alike(ev, j, i)
         /\ \A i, j, k : Alike(ev, i, j) /\ Alike(ev, j, k) => Alike(ev, i, k)
  BY DEF Alike

\* Two first places that are alike are one.
LEMMA FirstsDiffer ==
  ASSUME NEW ev, NEW m \in Nat, DOMAIN ev = 1 .. m,
         NEW i \in Clock!Firsts(ev), NEW j \in Clock!Firsts(ev), Alike(ev, i, j)
  PROVE  i = j
  <1>1. i \in 1 .. m /\ j \in 1 .. m
    BY DEF Clock!Firsts
  <1>2. j <= i /\ i <= j
    BY <1>1, FirstsAre, AlikeIs
  <1> QED
    BY <1>1, <1>2

\* What _dedupe returns under each policy, and that it is a list of picks.
LEMMA DedupeIs ==
  ASSUME NEW ev
  PROVE  /\ \A p \in All : Clock!Dedupe(p, ev) = ev
         /\ Clock!Dedupe("keep_first", ev) =
                [n \in 1 .. Clock!Cardinality(Clock!Firsts(ev)) |-> ev[Clock!Nth(Clock!Firsts(ev), n)]]
         /\ Clock!Dedupe("keep_last", ev) =
                [n \in 1 .. Clock!Cardinality(Clock!Firsts(ev)) |->
                    ev[Clock!LastAlike(ev, Clock!Nth(Clock!Firsts(ev), n))]]
  BY DEF Clock!Dedupe, All

LEMMA AllArePicked ==
  ASSUME NEW ev \in Seq(Clock!ClockEvent), NEW p \in All
  PROVE  Picks(p, ev, Clock!Dedupe(p, ev), [i \in DOMAIN ev |-> i])
  <1>1. Clock!Dedupe(p, ev) = ev
    BY DedupeIs
  <1>2. DOMAIN ev = 1 .. Len(ev) /\ Len(ev) \in Nat
    OBVIOUS
  <1>3. p # "keep_first" /\ p # "keep_last"
    BY DEF All
  <1> QED
    BY <1>1, <1>2, <1>3 DEF Picks

LEMMA FirstsArePicked ==
  ASSUME NEW ev \in Seq(Clock!ClockEvent)
  PROVE  \E src : Picks("keep_first", ev, Clock!Dedupe("keep_first", ev), src)
  <1> DEFINE m == Len(ev)
             firsts == Clock!Firsts(ev)
             c == Clock!Cardinality(firsts)
             d == Clock!Dedupe("keep_first", ev)
             src == [n \in 1 .. c |-> Clock!Nth(firsts, n)]
  <1>1. DOMAIN ev = 1 .. m /\ m \in Nat /\ firsts \subseteq 1 .. m
    BY DEF Clock!Firsts
  <1>2. /\ c \in Nat
        /\ \A n \in 1 .. c : Clock!Nth(firsts, n) \in firsts
        /\ \A i \in firsts : \E n \in 1 .. c : Clock!Nth(firsts, n) = i
        /\ \A n, o \in 1 .. c : Clock!Nth(firsts, n) = Clock!Nth(firsts, o) => n = o
    BY <1>1, NthPlaces
  <1>3. d = [n \in 1 .. c |-> ev[Clock!Nth(firsts, n)]]
    BY DedupeIs
  <1>4. \A i, j \in firsts : Alike(ev, i, j) => i = j
    BY <1>1, FirstsDiffer
  <1>5. \A i \in 1 .. m : \E j \in firsts : Alike(ev, i, j)
    BY <1>1, FirstAlike
  <1>6. \A i \in 1 .. m, j \in firsts : Alike(ev, i, j) => j <= i
    BY <1>1, FirstsAre
  <1> HIDE DEF m, firsts, d
  <1>7. DOMAIN d = 1 .. c /\ Len(d) = c
    <2> HIDE DEF c
    <2> QED
      BY <1>2, <1>3
  <1> HIDE DEF c
  <1>8. src \in [DOMAIN d -> DOMAIN ev] /\ \A r \in DOMAIN d : src[r] \in firsts /\ d[r] = ev[src[r]]
    BY <1>1, <1>2, <1>3, <1>7
  <1>9. \A q, r \in DOMAIN d : src[q] = src[r] => q = r
    BY <1>2, <1>7
  <1>10. \A i \in firsts : \E r \in DOMAIN d : src[r] = i
    BY <1>2, <1>7
  <1> HIDE DEF src
  <1>11. \A i \in DOMAIN ev : \E r \in DOMAIN d : Alike(ev, i, src[r])
    BY <1>1, <1>5, <1>10
  <1>12. \A q, r \in DOMAIN d : Alike(ev, src[q], src[r]) => q = r
    BY <1>4, <1>8, <1>9
  <1>13. \A r \in DOMAIN d, i \in DOMAIN ev : Alike(ev, i, src[r]) => src[r] <= i
    BY <1>1, <1>6, <1>8
  <1>14. "keep_first" \notin All
    BY DEF All
  <1>15. Picks("keep_first", ev, d, src)
    BY <1>2, <1>7, <1>8, <1>9, <1>11, <1>12, <1>13, <1>14 DEF Picks
  <1> QED
    BY <1>15 DEF d

LEMMA LastsArePicked ==
  ASSUME NEW ev \in Seq(Clock!ClockEvent)
  PROVE  \E src : Picks("keep_last", ev, Clock!Dedupe("keep_last", ev), src)
  <1> DEFINE m == Len(ev)
             firsts == Clock!Firsts(ev)
             c == Clock!Cardinality(firsts)
             d == Clock!Dedupe("keep_last", ev)
             nth(n) == Clock!Nth(firsts, n)
             src == [n \in 1 .. c |-> Clock!LastAlike(ev, nth(n))]
  <1>1. DOMAIN ev = 1 .. m /\ m \in Nat /\ firsts \subseteq 1 .. m
    BY DEF Clock!Firsts
  <1>2. /\ c \in Nat
        /\ \A n \in 1 .. c : nth(n) \in firsts
        /\ \A i \in firsts : \E n \in 1 .. c : nth(n) = i
        /\ \A n, o \in 1 .. c : nth(n) = nth(o) => n = o
    BY <1>1, NthPlaces
  <1>3. d = [n \in 1 .. c |-> ev[Clock!LastAlike(ev, nth(n))]]
    BY DedupeIs
  <1>4. \A i, j \in firsts : Alike(ev, i, j) => i = j
    BY <1>1, FirstsDiffer
  <1>5. \A i \in 1 .. m : \E j \in firsts : Alike(ev, i, j)
    BY <1>1, FirstAlike
  <1>6. \A i \in firsts : /\ Clock!LastAlike(ev, i) \in 1 .. m
                          /\ Alike(ev, Clock!LastAlike(ev, i), i)
                          /\ \A k \in 1 .. m : Alike(ev, i, k) => k <= Clock!LastAlike(ev, i)
    BY <1>1, LastAlikeIs
  <1> HIDE DEF m, firsts, d, nth
  <1>7. DOMAIN d = 1 .. c /\ Len(d) = c
    <2> HIDE DEF c
    <2> QED
      BY <1>2, <1>3
  <1> HIDE DEF c
  <1>8. src \in [DOMAIN d -> DOMAIN ev] /\ \A r \in DOMAIN d : d[r] = ev[src[r]]
    BY <1>1, <1>2, <1>3, <1>6, <1>7
  <1>9. \A r \in DOMAIN d : /\ nth(r) \in firsts /\ Alike(ev, src[r], nth(r))
                            /\ \A k \in 1 .. m : Alike(ev, nth(r), k) => k <= src[r]
    BY <1>2, <1>6, <1>7
  <1> HIDE DEF src
  <1>10. \A q, r \in DOMAIN d : Alike(ev, src[q], src[r]) => q = r
    <2> TAKE q, r \in DOMAIN d
    <2> HAVE Alike(ev, src[q], src[r])
    <2>1. Alike(ev, nth(q), nth(r))
      BY <1>9, AlikeIs
    <2>2. nth(q) = nth(r)
      BY <1>4, <1>9, <2>1
    <2> QED
      BY <1>2, <1>7, <2>2
  <1>11. \A q, r \in DOMAIN d : src[q] = src[r] => q = r
    BY <1>10, AlikeIs
  <1>12. \A i \in DOMAIN ev : \E r \in DOMAIN d : Alike(ev, i, src[r])
    <2> TAKE i \in DOMAIN ev
    <2>1. PICK j \in firsts : Alike(ev, i, j)
      BY <1>1, <1>5
    <2>2. PICK r \in DOMAIN d : nth(r) = j
      BY <1>2, <1>7
    <2> QED
      BY <1>9, <2>1, <2>2, AlikeIs
  <1>13. \A r \in DOMAIN d, i \in DOMAIN ev : Alike(ev, i, src[r]) => i <= src[r]
    <2> TAKE r \in DOMAIN d, i \in DOMAIN ev
    <2> HAVE Alike(ev, i, src[r])
    <2>1. Alike(ev, nth(r), i)
      BY <1>9, AlikeIs
    <2> QED
      BY <1>1, <1>9, <2>1
  <1>14. "keep_last" \notin All /\ "keep_last" # "keep_first"
    BY DEF All
  <1>15. Picks("keep_last", ev, d, src)
    BY <1>2, <1>7, <1>8, <1>10, <1>11, <1>12, <1>13, <1>14 DEF Picks
  <1> QED
    BY <1>15 DEF d

\* Whatever the policy, the list without duplicates is a list of picks.
LEMMA DedupePicks ==
  ASSUME NEW ev \in Seq(Clock!ClockEvent), NEW p \in Clock!Policies
  PROVE  \E src : Picks(p, ev, Clock!Dedupe(p, ev), src)
  <1>1. p \in All \/ p = "keep_first" \/ p = "keep_last"
    BY DEF Clock!Policies, All
  <1> QED
    BY <1>1, AllArePicked, FirstsArePicked, LastsArePicked

\* Picks of clock events are clock events, and sorting picks leaves picks.
LEMMA PicksAreEvents ==
  ASSUME NEW ev \in Seq(Clock!ClockEvent), NEW p, NEW s, NEW src, Picks(p, ev, s, src),
         s = [r \in DOMAIN s |-> s[r]]
  PROVE  s \in Seq(Clock!ClockEvent)
  <1>1. DOMAIN s = 1 .. Len(s) /\ Len(s) \in Nat
    BY DEF Picks
  <1>2. \A r \in DOMAIN s : s[r] \in Clock!ClockEvent
    BY ListedIs DEF Picks
  <1>3. s = [r \in 1 .. Len(s) |-> s[r]]
    BY <1>1
  <1> QED
    BY <1>1, <1>2, <1>3

LEMMA SortPicks ==
  ASSUME NEW ev \in Seq(Clock!ClockEvent), NEW p, NEW d \in Seq(Clock!ClockEvent),
         NEW src, Picks(p, ev, d, src)
  PROVE  \E to : Picks(p, ev, Clock!Sorted(d), to)
  <1> DEFINE s == Clock!Sorted(d)
             to == [r \in DOMAIN d |-> src[At(d, r)]]
  <1>1. /\ s = [r \in DOMAIN d |-> d[At(d, r)]]
        /\ \A r \in DOMAIN d : At(d, r) \in DOMAIN d /\ Clock!Rank(d, At(d, r)) = r
        /\ \A i \in DOMAIN d : Clock!Rank(d, i) \in DOMAIN d /\ At(d, Clock!Rank(d, i)) = i
        /\ s \in Seq(Clock!ClockEvent)
    BY SortedIs
  <1> HIDE DEF s
  <1>2. DOMAIN s = DOMAIN d /\ DOMAIN s = 1 .. Len(s) /\ Len(s) \in Nat
    BY <1>1
  <1>3. src \in [DOMAIN d -> DOMAIN ev] /\ \A r \in DOMAIN d : d[r] = ev[src[r]]
    BY DEF Picks
  <1>4. \A r \in DOMAIN s : to[r] = src[At(d, r)] /\ At(d, r) \in DOMAIN d
    BY <1>1, <1>2
  <1>5. to \in [DOMAIN s -> DOMAIN ev]
    BY <1>1, <1>2, <1>3
  <1>6. \A r \in DOMAIN s : s[r] = ev[to[r]]
    BY <1>1, <1>2, <1>3
  <1> HIDE DEF to
  <1>7. \A q, r \in DOMAIN s : At(d, q) = At(d, r) => q = r
    BY <1>1, <1>2
  <1>8. \A q, r \in DOMAIN s : to[q] = to[r] => q = r
    BY <1>4, <1>7 DEF Picks
  <1>9. \A n \in DOMAIN d : \E r \in DOMAIN s : At(d, r) = n /\ to[r] = src[n]
    BY <1>1, <1>2, <1>4
  <1>10. p \in All => \A i \in DOMAIN ev : \E r \in DOMAIN s : to[r] = i
    BY <1>9 DEF Picks
  <1>11. p \notin All => \A i \in DOMAIN ev : \E r \in DOMAIN s : Alike(ev, i, to[r])
    BY <1>9 DEF Picks
  <1>12. p \notin All => \A q, r \in DOMAIN s : Alike(ev, to[q], to[r]) => q = r
    BY <1>4, <1>7 DEF Picks
  <1>13. p = "keep_first" => \A r \in DOMAIN s, i \in DOMAIN ev : Alike(ev, i, to[r]) => to[r] <= i
    BY <1>4 DEF Picks
  <1>14. p = "keep_last" => \A r \in DOMAIN s, i \in DOMAIN ev : Alike(ev, i, to[r]) => i <= to[r]
    BY <1>4 DEF Picks
  <1>15. Picks(p, ev, s, to)
    BY <1>2, <1>5, <1>6, <1>8, <1>10, <1>11, <1>12, <1>13, <1>14 DEF Picks
  <1> QED
    BY <1>15 DEF s

-----------------------------------------------------------------------------
(* What is submitted                                                         *)

\* The first n lists, one after the other.
Joined(f, s) == f = [n \in 1 .. Len(s) |-> IF n = 1 THEN s[n] ELSE f[n - 1] \o s[n]]

LEMMA JoinedExists ==
  ASSUME NEW X, NEW s \in Seq(Seq(X)), s # <<>>
  PROVE  \E f \in [1 .. Len(s) -> Seq(X)] : Joined(f, s)
  <1> DEFINE Reached(n) == \E f \in [1 .. n -> Seq(X)] :
                               f[1] = s[1] /\ \A i \in 2 .. n : f[i] = f[i - 1] \o s[i]
             Missed == {n \in 1 .. Len(s) : ~Reached(n)}
  <1>0. Len(s) \in Nat /\ Len(s) > 0 /\ \A i \in 1 .. Len(s) : s[i] \in Seq(X)
    BY Zenon, SMT
  <1>1. Reached(1)
    <2> DEFINE one == [i \in 1 .. 1 |-> s[1]]
    <2>1. s[1] \in Seq(X)
      BY <1>0
    <2>2. one \in [1 .. 1 -> Seq(X)] /\ one[1] = s[1] /\ 2 .. 1 = {}
      BY <2>1
    <2> HIDE DEF one
    <2> QED
      BY <2>2
  <1>2. ASSUME NEW n \in 2 .. Len(s), Reached(n - 1) PROVE Reached(n)
    <2>1. PICK f \in [1 .. n - 1 -> Seq(X)] :
              f[1] = s[1] /\ \A i \in 2 .. n - 1 : f[i] = f[i - 1] \o s[i]
      BY <1>2
    <2> DEFINE longer == f[n - 1] \o s[n]
               g == [i \in 1 .. n |-> IF i = n THEN longer ELSE f[i]]
    <2>2. n \in Int /\ n >= 2 /\ n - 1 \in 1 .. n - 1 /\ n \in 1 .. Len(s)
      BY <1>0
    <2>3. f[n - 1] \in Seq(X) /\ s[n] \in Seq(X)
      BY <1>0, <2>1, <2>2
    <2>4. longer \in Seq(X)
      BY <2>3
    <2>5. \A i \in 1 .. n : i # n => i \in 1 .. n - 1
      BY <2>2
    <2>6. \A i \in 2 .. n : i \in 1 .. n /\ i - 1 \in 1 .. n - 1 /\ i - 1 \in 1 .. n /\ i - 1 # n
                            /\ (i # n => i \in 2 .. n - 1)
      BY <2>2
    <2>7. longer = f[n - 1] \o s[n]
      OBVIOUS
    <2> HIDE DEF longer
    <2>8. g \in [1 .. n -> Seq(X)]
      BY <2>1, <2>4, <2>5
    <2>9. g[1] = s[1]
      BY <2>1, <2>2
    <2>10. ASSUME NEW i \in 2 .. n PROVE g[i] = g[i - 1] \o s[i]
      <3>1. g[i - 1] = f[i - 1]
        BY <2>6
      <3>2. g[i] = IF i = n THEN longer ELSE f[i]
        BY <2>6
      <3> HIDE DEF g
      <3> QED
        BY <2>1, <2>6, <2>7, <3>1, <3>2
    <2> HIDE DEF g
    <2> QED
      BY <2>8, <2>9, <2>10
  <1>3. Missed = {}
    <2> SUFFICES ASSUME Missed # {} PROVE FALSE
      OBVIOUS
    <2>1. PICK n \in Missed : \A m \in Missed : n <= m
      <3>1. Missed \subseteq Nat
        <4> HIDE DEF Reached
        <4> QED
          BY <1>0
      <3>2. Missed # {}
        OBVIOUS
      <3> HIDE DEF Missed
      <3> QED
        BY <3>1, <3>2, FirstOf
    <2>2. n \in 1 .. Len(s) /\ ~Reached(n)
      BY <2>1
    <2> HIDE DEF Reached
    <2>3. n # 1
      BY <1>1, <2>2
    <2>4. n \in 2 .. Len(s) /\ n - 1 \in 1 .. Len(s) /\ ~(n <= n - 1)
      BY <1>0, <2>2, <2>3
    <2>5. Reached(n - 1)
      BY <2>1, <2>4
    <2> QED
      BY <1>2, <2>2, <2>4, <2>5
  <1>4. Reached(Len(s))
    <2>1. Len(s) \in 1 .. Len(s)
      BY <1>0
    <2> HIDE DEF Reached
    <2> QED
      BY <1>3, <2>1
  <1>5. PICK f \in [1 .. Len(s) -> Seq(X)] :
            f[1] = s[1] /\ \A i \in 2 .. Len(s) : f[i] = f[i - 1] \o s[i]
    BY <1>4
  <1>6. \A n \in 1 .. Len(s) : f[n] = IF n = 1 THEN s[n] ELSE f[n - 1] \o s[n]
    <2> TAKE n \in 1 .. Len(s)
    <2>1. n # 1 => n \in 2 .. Len(s)
      BY <1>0
    <2> QED
      BY <1>5, <2>1
  <1>7. f = [n \in 1 .. Len(s) |-> IF n = 1 THEN s[n] ELSE f[n - 1] \o s[n]]
    <2> DEFINE body(n) == IF n = 1 THEN s[n] ELSE f[n - 1] \o s[n]
    <2>1. \A n \in 1 .. Len(s) : f[n] = body(n)
      BY <1>6
    <2> HIDE DEF body
    <2>2. f = [n \in 1 .. Len(s) |-> body(n)]
      BY <2>1
    <2> QED
      BY <2>2 DEF body
  <1> QED
    BY <1>7 DEF Joined

LEMMA JoinedIs ==
  ASSUME NEW X, NEW s \in Seq(Seq(X)), NEW f, Joined(f, s)
  PROVE  \A n \in 1 .. Len(s) : f[n] \in Seq(X)
  <1> DEFINE Amiss == {n \in 1 .. Len(s) : f[n] \notin Seq(X)}
  <1>0. Len(s) \in Nat /\ \A i \in 1 .. Len(s) : s[i] \in Seq(X)
    BY Zenon, SMT
  <1>1. \A n \in 1 .. Len(s) : f[n] = IF n = 1 THEN s[n] ELSE f[n - 1] \o s[n]
    BY DEF Joined
  <1>2. Amiss = {}
    <2> SUFFICES ASSUME Amiss # {} PROVE FALSE
      OBVIOUS
    <2>1. Amiss \subseteq Nat
      BY <1>0
    <2>2. \A n : n \in Amiss <=> n \in 1 .. Len(s) /\ f[n] \notin Seq(X)
      OBVIOUS
    <2>3. Amiss # {}
      OBVIOUS
    <2> HIDE DEF Amiss
    <2>4. PICK n \in Amiss : \A o \in Amiss : n <= o
      BY <2>1, <2>3, FirstOf
    <2>5. n \in 1 .. Len(s) /\ f[n] \notin Seq(X)
      BY <2>2
    <2>6. s[n] \in Seq(X)
      BY <1>0, <2>5
    <2>7. n # 1
      BY <1>1, <2>5, <2>6
    <2>8. n - 1 \in 1 .. Len(s) /\ ~(n <= n - 1)
      BY <1>0, <2>5, <2>7
    <2>9. f[n - 1] \in Seq(X)
      BY <2>2, <2>4, <2>8
    <2>10. f[n] = f[n - 1] \o s[n]
      BY <1>1, <2>5, <2>7
    <2> QED
      BY <2>5, <2>6, <2>9, <2>10
  <1> QED
    BY <1>2

\* Lists of members of X, one after the other, are a list of members of X.
LEMMA FlattenIs ==
  ASSUME NEW X, NEW s \in Seq(Seq(X))
  PROVE  Clock!FlattenSeq(s) \in Seq(X)
  <1>1. CASE s = <<>>
    <2>1. Len(s) = 0
      BY <1>1
    <2>2. Clock!FlattenSeq(s) = <<>>
      BY <1>1, <2>1 DEF Clock!FlattenSeq
    <2>3. <<>> \in Seq(X)
      OBVIOUS
    <2> QED
      BY <2>2, <2>3
  <1>2. CASE s # <<>>
    <2> DEFINE flat == CHOOSE f : Joined(f, s)
    <2>1. Len(s) \in Nat /\ Len(s) # 0
      BY <1>2
    <2>2. PICK f \in [1 .. Len(s) -> Seq(X)] : Joined(f, s)
      BY <1>2, JoinedExists
    <2>3. Clock!FlattenSeq(s) = flat[Len(s)]
      BY <2>1 DEF Clock!FlattenSeq, Joined
    <2>4. Joined(flat, s)
      BY <2>2
    <2> HIDE DEF flat
    <2>5. Len(s) \in 1 .. Len(s)
      BY <2>1
    <2> QED
      BY <2>3, <2>4, <2>5, JoinedIs
  <1> QED
    BY <1>1, <1>2

\* What a clock has been handed.
ClockInv ==
    /\ sessions \in Seq(Clock!Session)
    /\ timed \in Seq(Clock!ClockEvent) /\ Len(timed) <= ClockEvents
    /\ \A i \in DOMAIN timed : timed[i].origin = i

LEMMA ClockBegins == Clock!Init => ClockInv
  <1> SUFFICES ASSUME Clock!Init PROVE ClockInv
    OBVIOUS
  <1>1. Calendars \subseteq Seq(Clock!Session) /\ ClockEvents \in Nat
    BY ClockConstantsHold DEF ClockConstants, Clock!ConstantsType
  <1>2. sessions \in Seq(Clock!Session) /\ timed = <<>>
    BY <1>1 DEF Clock!Init
  <1> QED
    BY <1>1, <1>2 DEF ClockInv

LEMMA ClockKept ==
  ASSUME ClockInv, Clock!Next \/ UNCHANGED clockVars
  PROVE  ClockInv'
  <1>1. CASE UNCHANGED clockVars
    BY <1>1 DEF ClockInv, clockVars
  <1>2. CASE Clock!Next
    <2>1. PICK e \in Clock!ClockEvent : Clock!Submit(e)
      BY <1>2 DEF Clock!Next
    <2>2. /\ Len(timed) < ClockEvents /\ e.origin = Len(timed) + 1
          /\ timed' = Append(timed, e) /\ sessions' = sessions
      BY <2>1 DEF Clock!Submit
    <2>3. ClockEvents \in Nat
      BY ClockConstantsHold DEF ClockConstants, Clock!ConstantsType
    <2>4. timed' \in Seq(Clock!ClockEvent) /\ Len(timed') = Len(timed) + 1 /\ Len(timed) \in Nat
      BY <2>2 DEF ClockInv
    <2>5. ASSUME NEW i \in DOMAIN timed' PROVE timed'[i].origin = i
      <3>1. i \in DOMAIN timed \/ i = Len(timed) + 1
        BY <2>2 DEF ClockInv
      <3>2. i \in DOMAIN timed => timed'[i] = timed[i]
        BY <2>2 DEF ClockInv
      <3>3. i = Len(timed) + 1 => timed'[i] = e
        BY <2>2 DEF ClockInv
      <3> QED
        BY <2>2, <3>1, <3>2, <3>3 DEF ClockInv
    <2> QED
      BY <2>2, <2>3, <2>4, <2>5 DEF ClockInv
  <1> QED
    BY <1>1, <1>2

\* A session's own events are clock events, of no caller.
OwnEvents == {e \in Clock!ClockEvent : e.origin = 0}

LEMMA SessionEventIs ==
  ASSUME NEW t \in Times
  PROVE  Clock!SessionEvent(t, SessionOpen, 1) \in OwnEvents /\ Clock!SessionEvent(t, SessionClose, 2) \in OwnEvents
  <1>1. /\ SessionOpen \in Types /\ SessionClose \in Types /\ 1 \in Priorities /\ 2 \in Priorities
        /\ 0 \in Hints /\ ClockEvents \in Nat
    BY ClockConstantsHold DEF ClockConstants, Clock!ConstantsType
  <1>2. 0 \in 0 .. ClockEvents
    BY <1>1
  <1> QED
    BY <1>1, <1>2 DEF Clock!SessionEvent, OwnEvents, Clock!ClockEvent

LEMMA SessionEventsAre ==
  ASSUME ClockInv
  PROVE  Clock!SessionEvents \in Seq(OwnEvents)
  <1> DEFINE listed(i) ==
          IF sessions[i].trading
          THEN <<Clock!SessionEvent(sessions[i].open, SessionOpen, 1),
                 Clock!SessionEvent(sessions[i].close, SessionClose, 2)>>
          ELSE <<>>
  <1>1. DOMAIN sessions = 1 .. Len(sessions) /\ Len(sessions) \in Nat
    BY DEF ClockInv
  <1>2. ASSUME NEW i \in 1 .. Len(sessions) PROVE listed(i) \in Seq(OwnEvents)
    <2>1. sessions[i] \in Clock!Session
      BY <1>1 DEF ClockInv
    <2>2. sessions[i].open \in Times /\ sessions[i].close \in Times
      BY <2>1 DEF Clock!Session
    <2> DEFINE a == Clock!SessionEvent(sessions[i].open, SessionOpen, 1)
               b == Clock!SessionEvent(sessions[i].close, SessionClose, 2)
    <2>3. a \in OwnEvents /\ b \in OwnEvents
      BY <2>2, SessionEventIs
    <2>4. listed(i) = IF sessions[i].trading THEN <<a, b>> ELSE <<>>
      OBVIOUS
    <2> HIDE DEF a, b, listed
    <2>5. <<a, b>> \in Seq(OwnEvents) /\ <<>> \in Seq(OwnEvents)
      BY <2>3
    <2> QED
      BY <2>4, <2>5
  <1>3. Clock!SessionEvents = Clock!FlattenSeq([i \in DOMAIN sessions |-> listed(i)])
    BY DEF Clock!SessionEvents
  <1> HIDE DEF listed
  <1>4. [i \in DOMAIN sessions |-> listed(i)] \in Seq(Seq(OwnEvents))
    BY <1>1, <1>2
  <1> QED
    BY <1>3, <1>4, FlattenIs

\* What was submitted: the sessions' events, then the caller's, each of them where it came from.
LEMMA SubmittedIs ==
  ASSUME ClockInv
  PROVE  /\ Clock!Submitted \in Seq(Clock!ClockEvent)
         /\ \A i \in DOMAIN timed :
                /\ Len(Clock!SessionEvents) + i \in DOMAIN Clock!Submitted
                /\ \A k \in DOMAIN Clock!Submitted :
                       Clock!Submitted[k].origin = i <=> k = Len(Clock!SessionEvents) + i
  <1> DEFINE own == Clock!SessionEvents
             all == Clock!Submitted
  <1>1. own \in Seq(OwnEvents) /\ all = own \o timed
    BY SessionEventsAre DEF Clock!Submitted
  <1>2. timed \in Seq(Clock!ClockEvent) /\ \A i \in DOMAIN timed : timed[i].origin = i
    BY DEF ClockInv
  <1> HIDE DEF own, all
  <1>3. OwnEvents \subseteq Clock!ClockEvent /\ \A e \in OwnEvents : e.origin = 0
    BY DEF OwnEvents
  <1>4. own \in Seq(Clock!ClockEvent)
    BY <1>1, <1>3
  <1>5. all \in Seq(Clock!ClockEvent)
    BY <1>1, <1>2, <1>4
  <1>6. /\ Len(own) \in Nat /\ Len(timed) \in Nat
        /\ DOMAIN all = 1 .. Len(own) + Len(timed) /\ DOMAIN timed = 1 .. Len(timed)
        /\ \A k \in DOMAIN all : all[k] = IF k <= Len(own) THEN own[k] ELSE timed[k - Len(own)]
    BY <1>1, <1>2, <1>4
  <1>7. \A k \in 1 .. Len(own) : own[k].origin = 0
    <2>1. \A k \in 1 .. Len(own) : own[k] \in OwnEvents
      BY <1>1
    <2> QED
      BY <1>3, <2>1
  <1>8. ASSUME NEW k \in DOMAIN all, NEW i \in DOMAIN timed
        PROVE  all[k].origin = i <=> k = Len(own) + i
    <2>1. CASE k <= Len(own)
      <3>1. k \in 1 .. Len(own) /\ all[k] = own[k]
        BY <1>6, <2>1
      <3>2. all[k].origin = 0
        BY <1>7, <3>1
      <3> QED
        BY <1>6, <2>1, <3>2
    <2>2. CASE ~(k <= Len(own))
      <3>1. k - Len(own) \in DOMAIN timed /\ all[k] = timed[k - Len(own)]
        BY <1>6, <2>2
      <3>2. all[k].origin = k - Len(own)
        BY <1>2, <3>1
      <3> QED
        BY <1>6, <3>2
    <2> QED
      BY <2>1, <2>2
  <1>9. \A i \in DOMAIN timed : Len(own) + i \in DOMAIN all
    BY <1>6
  <1> QED
    BY <1>5, <1>8, <1>9 DEF own, all

-----------------------------------------------------------------------------
(* The stream                                                                *)

\* Normalization gives an event its configured priority and leaves the rest of it.
LEMMA NormalizedIs ==
  ASSUME NEW ev \in Seq(Clock!ClockEvent)
  PROVE  /\ Clock!Normalized(ev) \in Seq(Clock!ClockEvent)
         /\ DOMAIN Clock!Normalized(ev) = DOMAIN ev
         /\ \A i \in DOMAIN ev :
                LET e == Clock!Normalized(ev)[i]
                IN  /\ e.time = ev[i].time /\ e.type = ev[i].type /\ e.hint = ev[i].hint
                    /\ e.origin = ev[i].origin /\ Clock!Priority(e) = e.priority
  <1> DEFINE N == Clock!Normalized(ev)
  <1>1. DOMAIN ev = 1 .. Len(ev) /\ Len(ev) \in Nat
    OBVIOUS
  <1>2. N = [i \in DOMAIN ev |-> [ev[i] EXCEPT !.priority = Clock!Priority(ev[i])]]
    BY DEF Clock!Normalized
  <1> HIDE DEF N
  <1>3. ASSUME NEW i \in DOMAIN ev
        PROVE  /\ N[i] \in Clock!ClockEvent
               /\ N[i].time = ev[i].time /\ N[i].type = ev[i].type /\ N[i].hint = ev[i].hint
               /\ N[i].origin = ev[i].origin /\ Clock!Priority(N[i]) = N[i].priority
    <2> DEFINE q == Clock!Priority(ev[i])
    <2>1. ev[i] \in Clock!ClockEvent
      BY ListedIs
    <2>2. q \in Priorities
      <3>1. ev[i].priority \in Priorities
        BY ListedIs
      <3>2. {Configured[t] : t \in DOMAIN Configured} \subseteq Priorities
        BY ClockConstantsHold DEF ClockConstants, Clock!ConstantsType
      <3> QED
        BY <3>1, <3>2 DEF Clock!Priority
    <2>3. N[i] = [ev[i] EXCEPT !.priority = q]
      BY <1>2
    <2>4. q = IF ev[i].type \in DOMAIN Configured THEN Configured[ev[i].type] ELSE ev[i].priority
      BY DEF Clock!Priority
    <2> HIDE DEF q
    <2>5. N[i] = [time |-> ev[i].time, type |-> ev[i].type, priority |-> q, hint |-> ev[i].hint,
                  origin |-> ev[i].origin]
      BY <2>1, <2>3 DEF Clock!ClockEvent
    <2>6. N[i] \in Clock!ClockEvent
      <3>1. /\ ev[i].time \in Times /\ ev[i].type \in Types /\ ev[i].hint \in Hints
            /\ ev[i].origin \in 0 .. ClockEvents
        BY ListedIs
      <3> QED
        BY <2>2, <2>5, <3>1 DEF Clock!ClockEvent
    <2>7. /\ N[i].time = ev[i].time /\ N[i].type = ev[i].type /\ N[i].hint = ev[i].hint
          /\ N[i].origin = ev[i].origin /\ N[i].priority = q
      BY <2>5
    <2>8. Clock!Priority(N[i]) = IF N[i].type \in DOMAIN Configured THEN Configured[N[i].type] ELSE N[i].priority
      BY DEF Clock!Priority
    <2>9. Clock!Priority(N[i]) = q
      BY <2>4, <2>7, <2>8
    <2> QED
      BY <2>6, <2>7, <2>9
  <1>4. DOMAIN N = DOMAIN ev
    BY <1>2
  <1>5. N \in Seq(Clock!ClockEvent)
    <2>1. N = [i \in 1 .. Len(ev) |-> N[i]]
      BY <1>1, <1>2
    <2> QED
      BY <1>1, <1>3, <2>1
  <1> QED
    BY <1>3, <1>4, <1>5 DEF N

\* Alike before normalization, alike after.
LEMMA NormalizedAlike ==
  ASSUME NEW ev \in Seq(Clock!ClockEvent), NEW i \in DOMAIN ev, NEW j \in DOMAIN ev
  PROVE  Alike(Clock!Normalized(ev), i, j) <=> Alike(ev, i, j)
  BY NormalizedIs DEF Alike, Clock!DedupeKey

\* A stream takes its events from what was submitted, and a later event is no earlier in time
\* nor, at one time, of a smaller priority.
LEMMA BuildIs ==
  ASSUME NEW ev \in Seq(Clock!ClockEvent), NEW p \in Clock!Policies
  PROVE  /\ Clock!Build(p, ev) \in Seq(Clock!ClockEvent)
         /\ \E src : Picks(p, Clock!Normalized(ev), Clock!Build(p, ev), src)
         /\ \A i, j \in DOMAIN Clock!Build(p, ev) : i < j =>
                LET a == Clock!Build(p, ev)[i]
                    b == Clock!Build(p, ev)[j]
                IN  a.time < b.time \/ (a.time = b.time /\ a.priority <= b.priority)
  <1> DEFINE N == Clock!Normalized(ev)
             d == Clock!Dedupe(p, N)
             s == Clock!Sorted(d)
  <1>1. N \in Seq(Clock!ClockEvent)
    BY NormalizedIs
  <1>2. Clock!Build(p, ev) = s
    BY DEF Clock!Build
  <1> HIDE DEF N
  <1>3. PICK first : Picks(p, N, d, first)
    BY <1>1, DedupePicks
  <1>4. d = [r \in DOMAIN d |-> d[r]]
    <2>1. p \in All \/ p = "keep_first" \/ p = "keep_last"
      BY DEF Clock!Policies, All
    <2>2. N = [r \in DOMAIN N |-> N[r]]
      BY <1>1
    <2>3. CASE p \in All
      BY <2>2, <2>3, DedupeIs
    <2>4. CASE p = "keep_first"
      BY <2>4, DedupeIs
    <2>5. CASE p = "keep_last"
      BY <2>5, DedupeIs
    <2> QED
      BY <2>1, <2>3, <2>4, <2>5
  <1> HIDE DEF d
  <1>5. d \in Seq(Clock!ClockEvent)
    BY <1>1, <1>3, <1>4, PicksAreEvents
  <1>6. /\ s = [r \in DOMAIN d |-> d[At(d, r)]]
        /\ \A r \in DOMAIN d : At(d, r) \in DOMAIN d
        /\ \A q, r \in DOMAIN d : q < r => Before(d, At(d, q), At(d, r))
        /\ s \in Seq(Clock!ClockEvent)
    BY <1>5, SortedIs
  <1>7. \E src : Picks(p, N, s, src)
    <2> HIDE DEF s
    <2> QED
      BY <1>1, <1>3, <1>5, SortPicks DEF s
  <1> HIDE DEF s
  <1>8. ASSUME NEW i \in DOMAIN s, NEW j \in DOMAIN s, i < j
        PROVE  s[i].time < s[j].time \/ (s[i].time = s[j].time /\ s[i].priority <= s[j].priority)
    <2> DEFINE a == Clock!SortKey(d[At(d, i)])
               b == Clock!SortKey(d[At(d, j)])
    <2>1. At(d, i) \in DOMAIN d /\ At(d, j) \in DOMAIN d /\ s[i] = d[At(d, i)] /\ s[j] = d[At(d, j)]
      BY <1>6
    <2>2. Before(d, At(d, i), At(d, j))
      BY <1>6, <1>8
    <2>3. a \in Key /\ b \in Key
      BY <1>5, <2>1, KeyIs
    <2>4. Clock!LexLess(a, b) \/ a = b
      BY <2>2 DEF Before
    <2>5. a[1] = s[i].time /\ a[2] = s[i].priority /\ b[1] = s[j].time /\ b[2] = s[j].priority
      BY <2>1 DEF Clock!SortKey
    <2> HIDE DEF a, b
    <2>6. a[1] < b[1] \/ (a[1] = b[1] /\ a[2] < b[2]) \/ (a[1] = b[1] /\ a[2] = b[2])
      BY <2>3, <2>4, LexIs
    <2>7. a[2] \in Int /\ b[2] \in Int
      BY <2>3 DEF Key
    <2> QED
      BY <2>5, <2>6, <2>7
  <1>9. Clock!Build(p, ev) \in Seq(Clock!ClockEvent)
    BY <1>2, <1>6
  <1>10. \E src : Picks(p, N, Clock!Build(p, ev), src)
    BY <1>2, <1>7
  <1>11. \A i, j \in DOMAIN Clock!Build(p, ev) : i < j =>
             LET a == Clock!Build(p, ev)[i]
                 b == Clock!Build(p, ev)[j]
             IN  a.time < b.time \/ (a.time = b.time /\ a.priority <= b.priority)
    BY <1>2, <1>8
  <1> QED
    BY <1>9, <1>10, <1>11 DEF N

\* What a policy accepts: all events, or those without duplicates.
LEMMA AcceptingIs ==
  ASSUME NEW p \in Clock!Accepting
  PROVE  p \in Clock!Policies /\ (p \in All /\ p # "keep_all" => ~Clock!HasDuplicates(Clock!Submitted))
  BY DEF Clock!Accepting, Clock!Raises, All

LEMMA StreamGoesForward ==
  ASSUME ClockInv
  PROVE  Clock!TypeOK /\ Clock!StreamIsOrdered
  <1> DEFINE ev == Clock!Submitted
  <1>1. ev \in Seq(Clock!ClockEvent)
    BY SubmittedIs
  <1>2. Clock!TypeOK
    BY <1>1, AcceptingIs, BuildIs DEF ClockInv, Clock!TypeOK
  <1>3. ASSUME NEW p \in Clock!Accepting, NEW i \in DOMAIN Clock!Build(p, ev),
               NEW j \in DOMAIN Clock!Build(p, ev), i < j
        PROVE  LET s == Clock!Build(p, ev)
               IN  \/ s[i].time < s[j].time
                   \/ s[i].time = s[j].time /\ Clock!Priority(s[i]) <= Clock!Priority(s[j])
    <2> DEFINE s == Clock!Build(p, ev)
               N == Clock!Normalized(ev)
    <2>1. p \in Clock!Policies
      BY AcceptingIs
    <2>2. s[i].time < s[j].time \/ (s[i].time = s[j].time /\ s[i].priority <= s[j].priority)
      BY <1>1, <1>3, <2>1, BuildIs
    <2>3. PICK src : Picks(p, N, s, src)
      BY <1>1, <2>1, BuildIs
    <2>4. DOMAIN N = DOMAIN ev /\ \A k \in DOMAIN ev : Clock!Priority(N[k]) = N[k].priority
      BY <1>1, NormalizedIs
    <2> HIDE DEF ev, s, N
    <2>5. i \in DOMAIN s /\ j \in DOMAIN s
      BY <1>3 DEF s, ev
    <2>6. Clock!Priority(s[i]) = s[i].priority /\ Clock!Priority(s[j]) = s[j].priority
      BY <2>3, <2>4, <2>5 DEF Picks
    <2> QED
      BY <2>2, <2>6 DEF s, ev
  <1> QED
    BY <1>2, <1>3 DEF Clock!StreamIsOrdered

\* A stream has a representative of every event handed over, one unless all are kept.
LEMMA NoMomentIsLost ==
  ASSUME ClockInv, NEW p \in Clock!Accepting, NEW i \in DOMAIN Clock!Submitted
  PROVE  LET s == Clock!Build(p, Clock!Submitted)
             e == Clock!Submitted[i]
             alike == {j \in DOMAIN s : /\ s[j].time = e.time /\ s[j].type = e.type
                                        /\ s[j].hint = e.hint}
         IN  IF p = "keep_all" THEN \E j \in alike : s[j].origin = e.origin
             ELSE Clock!Cardinality(alike) = 1
  <1> DEFINE ev == Clock!Submitted
             N == Clock!Normalized(ev)
             s == Clock!Build(p, ev)
             alike == {j \in DOMAIN s : /\ s[j].time = ev[i].time /\ s[j].type = ev[i].type
                                        /\ s[j].hint = ev[i].hint}
  <1>1. ev \in Seq(Clock!ClockEvent) /\ i \in DOMAIN ev
    BY SubmittedIs
  <1>2. p \in Clock!Policies /\ (p \in All /\ p # "keep_all" => ~Clock!HasDuplicates(ev))
    BY AcceptingIs
  <1>3. PICK src : Picks(p, N, s, src)
    BY <1>1, <1>2, BuildIs
  <1>4. /\ DOMAIN N = DOMAIN ev
        /\ \A k \in DOMAIN ev : /\ N[k].time = ev[k].time /\ N[k].type = ev[k].type
                                /\ N[k].hint = ev[k].hint /\ N[k].origin = ev[k].origin
    BY <1>1, NormalizedIs
  <1>5. \A j, k \in DOMAIN ev : Alike(N, j, k) <=>
            /\ ev[j].time = ev[k].time /\ ev[j].type = ev[k].type /\ ev[j].hint = ev[k].hint
    BY <1>4 DEF Alike, Clock!DedupeKey
  <1> HIDE DEF ev, N, s
  <1>6. \A j \in DOMAIN s : src[j] \in DOMAIN ev /\ s[j] = N[src[j]]
    BY <1>3, <1>4 DEF Picks
  <1>7. \A j \in DOMAIN s : j \in alike <=> Alike(N, i, src[j])
    BY <1>1, <1>4, <1>5, <1>6
  <1>8. ASSUME p = "keep_all" PROVE \E j \in alike : s[j].origin = ev[i].origin
    <2>1. PICK j \in DOMAIN s : src[j] = i
      BY <1>1, <1>3, <1>4, <1>8 DEF Picks, All
    <2>2. j \in alike /\ s[j].origin = ev[i].origin
      BY <1>1, <1>4, <1>6, <2>1
    <2> QED
      BY <2>2
  <1>9. ASSUME p # "keep_all" PROVE Clock!Cardinality(alike) = 1
    <2>1. \E j \in DOMAIN s : Alike(N, i, src[j])
      <3>1. CASE p \in All
        <4>1. PICK j \in DOMAIN s : src[j] = i
          BY <1>1, <1>3, <1>4, <3>1 DEF Picks
        <4> QED
          BY <4>1, AlikeIs
      <3>2. CASE p \notin All
        BY <1>1, <1>3, <1>4, <3>2 DEF Picks
      <3> QED
        BY <3>1, <3>2
    <2>2. ASSUME NEW j \in DOMAIN s, NEW k \in DOMAIN s, Alike(N, i, src[j]), Alike(N, i, src[k])
          PROVE  j = k
      <3>1. Alike(N, src[j], src[k])
        BY <2>2, AlikeIs
      <3>2. CASE p \in All
        <4>1. ~Clock!HasDuplicates(ev)
          BY <1>2, <1>9, <3>2
        <4>2. Clock!DedupeKey(ev[src[j]]) = Clock!DedupeKey(ev[src[k]])
          BY <1>5, <1>6, <3>1 DEF Clock!DedupeKey
        <4>3. src[j] = src[k]
          BY <1>6, <4>1, <4>2 DEF Clock!HasDuplicates
        <4> QED
          BY <1>3, <4>3 DEF Picks
      <3>3. CASE p \notin All
        BY <1>3, <3>1, <3>3 DEF Picks
      <3> QED
        BY <3>2, <3>3
    <2>3. PICK j \in DOMAIN s : Alike(N, i, src[j])
      BY <2>1
    <2>4. alike = {j}
      <3>1. \A k \in alike : k \in DOMAIN s
        OBVIOUS
      <3> HIDE DEF alike
      <3> QED
        BY <1>7, <2>2, <2>3, <3>1
    <2>5. Cardinality({j}) = 1
      BY FS_Singleton
    <2> HIDE DEF alike
    <2> QED
      BY <2>4, <2>5, ClockCounts
  <1> QED
    BY <1>8, <1>9 DEF s, ev

\* Of the events alike keep_first keeps the first, keep_last the last.
LEMMA SurvivorsAre ==
  ASSUME ClockInv, NEW i \in DOMAIN timed, NEW p \in {"keep_first", "keep_last"}
  PROVE  LET me == Len(Clock!SessionEvents) + i
             ev == Clock!Submitted
             s == Clock!Build(p, ev)
             alike == {j \in DOMAIN ev : Clock!DedupeKey(ev[j]) = Clock!DedupeKey(ev[me])}
         IN  (\E j \in DOMAIN s : s[j].origin = i)
             <=> \A j \in alike : IF p = "keep_first" THEN me <= j ELSE j <= me
  <1> DEFINE me == Len(Clock!SessionEvents) + i
             ev == Clock!Submitted
             N == Clock!Normalized(ev)
             s == Clock!Build(p, ev)
             alike == {j \in DOMAIN ev : Clock!DedupeKey(ev[j]) = Clock!DedupeKey(ev[me])}
             best(j) == IF p = "keep_first" THEN me <= j ELSE j <= me
  <1>1. /\ ev \in Seq(Clock!ClockEvent) /\ me \in DOMAIN ev
        /\ \A k \in DOMAIN ev : ev[k].origin = i <=> k = me
    BY SubmittedIs
  <1>2. p \in Clock!Policies /\ p \notin All
    BY DEF Clock!Policies, All
  <1>3. PICK src : Picks(p, N, s, src)
    BY <1>1, <1>2, BuildIs
  <1>4. DOMAIN N = DOMAIN ev /\ \A k \in DOMAIN ev : N[k].origin = ev[k].origin
    BY <1>1, NormalizedIs
  <1>5. \A j \in DOMAIN ev : j \in alike <=> Alike(N, j, me)
    BY <1>1, NormalizedAlike DEF Alike
  <1>6. DOMAIN ev \subseteq Int
    BY <1>1
  <1> HIDE DEF ev, N, s, me
  <1>7. \A j \in DOMAIN s : src[j] \in DOMAIN ev /\ s[j] = N[src[j]]
    BY <1>3, <1>4 DEF Picks
  <1>8. \A j \in DOMAIN s : s[j].origin = i <=> src[j] = me
    BY <1>1, <1>4, <1>7
  <1>9. \A j \in DOMAIN s, k \in DOMAIN ev :
            Alike(N, k, src[j]) => IF p = "keep_first" THEN src[j] <= k ELSE k <= src[j]
    BY <1>3, <1>4 DEF Picks
  <1>10. ASSUME NEW j \in DOMAIN s, src[j] = me PROVE \A k \in alike : best(k)
    <2> TAKE k \in alike
    <2>1. k \in DOMAIN ev /\ Alike(N, k, src[j])
      BY <1>5, <1>10
    <2> QED
      BY <1>9, <1>10, <2>1
  <1>11. ASSUME \A k \in alike : best(k) PROVE \E j \in DOMAIN s : src[j] = me
    <2>1. PICK j \in DOMAIN s : Alike(N, me, src[j])
      BY <1>1, <1>2, <1>3, <1>4 DEF Picks
    <2>2. src[j] \in alike
      BY <1>5, <1>7, <2>1, AlikeIs
    <2>3. best(src[j])
      BY <1>11, <2>2
    <2>4. IF p = "keep_first" THEN src[j] <= me ELSE me <= src[j]
      BY <1>1, <1>9, <2>1
    <2>5. src[j] \in Int /\ me \in Int
      BY <1>1, <1>6, <1>7
    <2> QED
      BY <2>3, <2>4, <2>5
  <1>12. (\E j \in DOMAIN s : s[j].origin = i) <=> \A j \in alike : best(j)
    <2> HIDE DEF alike, best
    <2> QED
      BY <1>8, <1>10, <1>11
  <1> QED
    BY <1>12 DEF s, ev, me

LEMMA DuplicatesResolved == ClockInv => Clock!DuplicatesAreResolved
  <1> SUFFICES ASSUME ClockInv PROVE Clock!DuplicatesAreResolved
    OBVIOUS
  <1> DEFINE ev == Clock!Submitted
             me(i) == Len(Clock!SessionEvents) + i
             alike(i) == {j \in DOMAIN ev : Clock!DedupeKey(ev[j]) = Clock!DedupeKey(ev[me(i)])}
             survives(p, i) == \E j \in DOMAIN Clock!Build(p, ev) : Clock!Build(p, ev)[j].origin = i
  <1>1. ASSUME NEW i \in DOMAIN timed
        PROVE  survives("keep_first", i) <=> \A j \in alike(i) : me(i) <= j
    BY SurvivorsAre
  <1>2. ASSUME NEW i \in DOMAIN timed
        PROVE  survives("keep_last", i) <=> \A j \in alike(i) : j <= me(i)
    BY SurvivorsAre
  <1> QED
    BY <1>1, <1>2, NoMomentIsLost DEF Clock!DuplicatesAreResolved

\* Without duplicates there is nothing to drop.
LEMMA NothingToDrop ==
  ASSUME NEW ev \in Seq(Clock!ClockEvent), NEW p \in Clock!Policies,
         \A i, j \in DOMAIN ev : Alike(ev, i, j) => i = j
  PROVE  Clock!Dedupe(p, ev) = ev
  <1> DEFINE m == Len(ev)
  <1>1. DOMAIN ev = 1 .. m /\ m \in Nat /\ ev = [n \in 1 .. m |-> ev[n]]
    OBVIOUS
  <1> HIDE DEF m
  <1>2. Clock!Firsts(ev) = 1 .. m
    <2>1. \A i \in 1 .. m : \A j \in 1 .. i - 1 : j \in 1 .. m /\ j # i
      BY <1>1
    <2>2. \A i \in 1 .. m : Clock!First(ev, i)
      BY <1>1, <2>1 DEF Alike, Clock!First
    <2> QED
      BY <1>1, <2>2 DEF Clock!Firsts
  <1>3. Clock!Cardinality(1 .. m) = m
    <2>1. m \in Int /\ m >= 0
      BY <1>1
    <2>2. Cardinality(1 .. m) = IF 1 > m THEN 0 ELSE m - 1 + 1
      BY <2>1, FS_Interval
    <2>3. Cardinality(1 .. m) = m
      BY <2>1, <2>2
    <2> QED
      BY <2>3, ClockCounts
  <1>4. \A n \in 1 .. m : Clock!Nth(1 .. m, n) = n
    BY <1>1, NthOfAll
  <1>5. \A n \in 1 .. m : Clock!LastAlike(ev, n) = n
    <2> TAKE n \in 1 .. m
    <2>1. Len(ev) = m
      BY DEF m
    <2>2. Clock!LastAlike(ev, n) \in 1 .. m /\ Alike(ev, Clock!LastAlike(ev, n), n)
      BY <1>1, <1>2, <2>1, LastAlikeIs
    <2> QED
      BY <1>1, <2>2
  <1>6. p \in All \/ p = "keep_first" \/ p = "keep_last"
    BY DEF Clock!Policies, All
  <1>7. CASE p \in All
    BY <1>7, DedupeIs
  <1>8. CASE p = "keep_first"
    <2>1. Clock!Dedupe(p, ev) = [n \in 1 .. m |-> ev[Clock!Nth(1 .. m, n)]]
      BY <1>2, <1>3, <1>8, DedupeIs
    <2> QED
      BY <1>1, <1>4, <2>1
  <1>9. CASE p = "keep_last"
    <2>1. Clock!Dedupe(p, ev) = [n \in 1 .. m |-> ev[Clock!LastAlike(ev, Clock!Nth(1 .. m, n))]]
      BY <1>2, <1>3, <1>9, DedupeIs
    <2> QED
      BY <1>1, <1>4, <1>5, <2>1
  <1> QED
    BY <1>6, <1>7, <1>8, <1>9

\* Two events of one key have one moment.
LEMMA KeysTellMoments ==
  ASSUME NEW ev, NEW i, NEW j, Clock!SortKey(ev[i]) = Clock!SortKey(ev[j])
  PROVE  Alike(ev, i, j)
  <1>1. ev[i].time = ev[j].time /\ ev[i].type = ev[j].type /\ ev[i].hint = ev[j].hint
    BY DEF Clock!SortKey
  <1> QED
    BY <1>1 DEF Alike, Clock!DedupeKey

\* The list fv is the distinct events of ev in the order o.
Relists(fv, ev, o) ==
    /\ ev \in Seq(Clock!ClockEvent) /\ fv \in Seq(Clock!ClockEvent)
    /\ \A i, j \in DOMAIN ev : Alike(ev, i, j) => i = j
    /\ o \in [DOMAIN ev -> DOMAIN ev] /\ \A i, j \in DOMAIN ev : o[i] = o[j] => i = j
    /\ DOMAIN fv = DOMAIN ev /\ \A i \in DOMAIN ev : fv[i] = ev[o[i]]

\* Listing distinct events in another order changes no rank.
LEMMA RanksTravel ==
  ASSUME NEW ev, NEW fv, NEW o, Relists(fv, ev, o)
  PROVE  \A i \in DOMAIN ev : Clock!Rank(fv, i) = Clock!Rank(ev, o[i])
  <1> DEFINE D == DOMAIN ev
             E == InOrder(ev)
             F == InOrder(fv)
  <1>a. /\ ev \in Seq(Clock!ClockEvent) /\ fv \in Seq(Clock!ClockEvent)
        /\ \A i, j \in DOMAIN ev : Alike(ev, i, j) => i = j
        /\ o \in [DOMAIN ev -> DOMAIN ev] /\ \A i, j \in DOMAIN ev : o[i] = o[j] => i = j
        /\ DOMAIN fv = DOMAIN ev /\ \A i \in DOMAIN ev : fv[i] = ev[o[i]]
    BY DEF Relists
  <1> USE <1>a
  <1>0. IsFiniteSet(D)
    <2>1. D = 1 .. Len(ev) /\ Len(ev) \in Nat
      OBVIOUS
    <2> QED
      BY <2>1, FS_Interval
  <1>1. \A i, j \in D : Clock!SortKey(ev[i]) = Clock!SortKey(ev[j]) => i = j
    BY KeysTellMoments
  <1>2. \A k \in D : \E i \in D : o[i] = k
    <2>1. o \in Injection(D, D)
      BY DEF Injection, IsInjective
    <2> HIDE DEF D
    <2>2. o \in Surjection(D, D)
      BY <1>0, <2>1, FS_Injection
    <2> QED
      BY <2>2 DEF Surjection
  <1>3. \A i, j \in D : <<i, j>> \in E <=> Clock!LexLess(Clock!SortKey(ev[i]), Clock!SortKey(ev[j]))
    <2> TAKE i, j \in D
    <2>1. <<i, j>> \in E <=> Before(ev, i, j)
      BY InOrderIs
    <2>2. i < j => Clock!SortKey(ev[i]) # Clock!SortKey(ev[j])
      <3>1. i \in Int /\ j \in Int
        OBVIOUS
      <3> QED
        BY <1>1, <3>1
    <2> QED
      BY <2>1, <2>2 DEF Before
  <1>4. \A i, j \in D : <<i, j>> \in F <=> <<o[i], o[j]>> \in E
    <2> TAKE i, j \in D
    <2>1. fv[i] = ev[o[i]] /\ fv[j] = ev[o[j]] /\ o[i] \in D /\ o[j] \in D
      OBVIOUS
    <2>2. <<i, j>> \in F <=> Before(fv, i, j)
      BY InOrderIs
    <2>3. i < j => Clock!SortKey(fv[i]) # Clock!SortKey(fv[j])
      <3>1. i \in Int /\ j \in Int
        OBVIOUS
      <3>2. Clock!SortKey(fv[i]) = Clock!SortKey(fv[j]) => o[i] = o[j]
        BY <1>1, <2>1
      <3> QED
        BY <3>1, <3>2
    <2>4. Before(fv, i, j) <=> Clock!LexLess(Clock!SortKey(fv[i]), Clock!SortKey(fv[j]))
      BY <2>3 DEF Before
    <2> QED
      BY <1>3, <2>1, <2>2, <2>4
  <1>5. \A i \in D : Clock!Rank(fv, i) = Cardinality(UpTo(D, F, i)) /\ Clock!Rank(ev, o[i]) = Cardinality(UpTo(D, E, o[i]))
    BY RankIs
  <1> HIDE DEF D, E, F
  <1>6. ASSUME NEW i \in D PROVE Cardinality(UpTo(D, F, i)) = Cardinality(UpTo(D, E, o[i]))
    <2> DEFINE A == UpTo(D, F, i)
               B == UpTo(D, E, o[i])
               g == [k \in A |-> o[k]]
    <2>0. o \in [D -> D] /\ \A k, l \in D : o[k] = o[l] => k = l
      BY DEF D
    <2>1. A \subseteq D /\ B \subseteq D
      BY DEF UpTo
    <2>2. \A k \in D : k \in A <=> o[k] \in B
      BY <1>4, <1>6, <2>0 DEF UpTo
    <2> HIDE DEF A, B
    <2>3. IsFiniteSet(A)
      BY <1>0, <2>1, FS_Subset
    <2>4. g \in [A -> B] /\ \A k \in A : g[k] = o[k]
      BY <2>1, <2>2
    <2>5. \A k, l \in A : g[k] = g[l] => k = l
      BY <2>0, <2>1, <2>4
    <2>6. \A b \in B : \E k \in A : g[k] = b
      BY <1>2, <2>1, <2>2, <2>4
    <2> HIDE DEF g
    <2>7. g \in Bijection(A, B)
      BY <2>4, <2>5, <2>6 DEF Bijection, Injection, Surjection, IsInjective
    <2>8. ExistsBijection(A, B)
      BY <2>7 DEF ExistsBijection
    <2>9. Cardinality(B) = Cardinality(A)
      BY <2>3, <2>8, FS_Bijection
    <2> QED
      BY <2>9 DEF A, B
  <1> QED
    BY <1>5, <1>6 DEF D

\* So the sorted stream is the same.
LEMMA SortForgetsOrder ==
  ASSUME NEW ev, NEW fv, NEW o, Relists(fv, ev, o)
  PROVE  Clock!Sorted(fv) = Clock!Sorted(ev)
  <1>a. /\ ev \in Seq(Clock!ClockEvent) /\ fv \in Seq(Clock!ClockEvent)
        /\ \A i, j \in DOMAIN ev : Alike(ev, i, j) => i = j
        /\ o \in [DOMAIN ev -> DOMAIN ev] /\ \A i, j \in DOMAIN ev : o[i] = o[j] => i = j
        /\ DOMAIN fv = DOMAIN ev /\ \A i \in DOMAIN ev : fv[i] = ev[o[i]]
    BY DEF Relists
  <1>1. \A i \in DOMAIN ev : Clock!Rank(fv, i) = Clock!Rank(ev, o[i])
    BY RanksTravel
  <1>2. /\ Clock!Sorted(fv) = [r \in DOMAIN ev |-> fv[At(fv, r)]]
        /\ \A r \in DOMAIN ev : At(fv, r) \in DOMAIN ev /\ Clock!Rank(fv, At(fv, r)) = r
    BY <1>a, SortedIs
  <1>3. /\ Clock!Sorted(ev) = [r \in DOMAIN ev |-> ev[At(ev, r)]]
        /\ \A i \in DOMAIN ev : At(ev, Clock!Rank(ev, i)) = i
    BY <1>a, SortedIs
  <1>4. ASSUME NEW r \in DOMAIN ev PROVE fv[At(fv, r)] = ev[At(ev, r)]
    <2> DEFINE i == At(fv, r)
    <2>1. i \in DOMAIN ev /\ Clock!Rank(fv, i) = r
      BY <1>2
    <2>2. o[i] \in DOMAIN ev /\ Clock!Rank(ev, o[i]) = r
      BY <1>1, <1>a, <2>1
    <2>3. At(ev, r) = o[i]
      BY <1>3, <2>2
    <2> QED
      BY <1>a, <2>1, <2>3
  <1> QED
    BY <1>2, <1>3, <1>4

LEMMA OrderIsForgotten == ClockInv => Clock!OrderLeavesNoTrace
  <1> DEFINE ev == Clock!Submitted
  <1> SUFFICES ASSUME ClockInv, ~Clock!HasDuplicates(ev), NEW p \in Clock!Accepting, NEW o \in Clock!Orders(ev)
               PROVE  Clock!Build(p, [i \in DOMAIN ev |-> ev[o[i]]]) = Clock!Build(p, ev)
    BY DEF Clock!OrderLeavesNoTrace
  <1> DEFINE fv == [i \in DOMAIN ev |-> ev[o[i]]]
             M == Clock!Normalized(fv)
             N == Clock!Normalized(ev)
  <1>1. ev \in Seq(Clock!ClockEvent) /\ p \in Clock!Policies
    BY SubmittedIs, AcceptingIs
  <1>2. o \in [DOMAIN ev -> DOMAIN ev] /\ \A i, j \in DOMAIN ev : o[i] = o[j] => i = j
    BY DEF Clock!Orders, Clock!IsInjective
  <1>3. \A i, j \in DOMAIN ev : Alike(ev, i, j) => i = j
    BY DEF Clock!HasDuplicates, Alike
  <1>4. DOMAIN fv = DOMAIN ev /\ \A i \in DOMAIN ev : fv[i] = ev[o[i]]
    OBVIOUS
  <1> HIDE DEF ev
  <1>5. fv \in Seq(Clock!ClockEvent)
    <2>1. DOMAIN ev = 1 .. Len(ev) /\ Len(ev) \in Nat
      BY <1>1
    <2>2. \A i \in 1 .. Len(ev) : ev[o[i]] \in Clock!ClockEvent
      BY <1>1, <1>2, <2>1
    <2> QED
      BY <2>1, <2>2
  <1> HIDE DEF fv
  <1>6. /\ M \in Seq(Clock!ClockEvent) /\ N \in Seq(Clock!ClockEvent)
        /\ DOMAIN M = DOMAIN ev /\ DOMAIN N = DOMAIN ev
    BY <1>1, <1>4, <1>5, NormalizedIs
  <1>7. \A i \in DOMAIN ev : M[i] = N[o[i]]
    <2> TAKE i \in DOMAIN ev
    <2>1. M[i] = [fv[i] EXCEPT !.priority = Clock!Priority(fv[i])]
      BY <1>4 DEF Clock!Normalized
    <2>2. o[i] \in DOMAIN ev
      BY <1>2
    <2>3. N[o[i]] = [ev[o[i]] EXCEPT !.priority = Clock!Priority(ev[o[i]])]
      BY <2>2 DEF Clock!Normalized
    <2>4. fv[i] = ev[o[i]]
      BY <1>4
    <2> QED
      BY <2>1, <2>3, <2>4
  <1>8. \A i, j \in DOMAIN ev : Alike(N, i, j) => i = j
    BY <1>1, <1>3, NormalizedAlike
  <1> HIDE DEF M, N
  <1>9. \A i, j \in DOMAIN ev : Alike(M, i, j) => i = j
    <2> TAKE i, j \in DOMAIN ev
    <2> HAVE Alike(M, i, j)
    <2>1. Alike(N, o[i], o[j]) /\ o[i] \in DOMAIN ev /\ o[j] \in DOMAIN ev
      BY <1>2, <1>7 DEF Alike
    <2> QED
      BY <1>2, <1>8, <2>1
  <1>10. Clock!Dedupe(p, N) = N
    BY <1>1, <1>6, <1>8, NothingToDrop
  <1>11. Clock!Dedupe(p, M) = M
    BY <1>1, <1>6, <1>9, NothingToDrop
  <1>12. Clock!Sorted(M) = Clock!Sorted(N)
    <2>1. Relists(M, N, o)
      BY <1>2, <1>6, <1>7, <1>8 DEF Relists
    <2> QED
      BY <2>1, SortForgetsOrder
  <1> QED
    BY <1>10, <1>11, <1>12 DEF Clock!Build, M, N, fv

\* clock.py:25-57.  Of every range of sessions and every list of events: the stream goes forward in
\* time and by the configured priority; the order in which distinct events were handed over leaves
\* no trace in it; and deduplication loses no moment and keeps the event its policy names.
THEOREM StreamsAreAlwaysSound == BacktestSpec => []StreamIsSound
  <1> DEFINE Handed == part = "clock" => ClockInv
  <1>1. BacktestInit => Handed
    BY ClockBegins DEF BacktestInit
  <1>2. Handed /\ [BacktestNext]_allVars => Handed'
    BY OnePartRuns, ClockKept
  <1>3. Handed => StreamIsSound
    BY StreamGoesForward, OrderIsForgotten, DuplicatesResolved DEF StreamIsSound
  <1> QED
    BY <1>1, <1>2, <1>3, PTL DEF BacktestSpec
=============================================================================
