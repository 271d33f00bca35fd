--------------------------- MODULE BacktestProofs ---------------------------
(***************************************************************************)
(* Proofs about the parts of a backtest, over the composition MCBacktest   *)
(* and for every value of its constants: the engine's books, the orders    *)
(* and the portfolios.  Each part has an inductive invariant, proved       *)
(* action by action; the behaviours of the composition run one part and    *)
(* leave the others at rest.                                               *)
(***************************************************************************)
EXTENDS MCBacktest, SequenceTheorems, FiniteSetTheorems, WellFoundedInduction, TLAPS

-----------------------------------------------------------------------------
(* Sequences                                                                 *)

Members(s) == Engine!ToSet(s)
Increasing(s) == \A i, j \in DOMAIN s : i < j => s[i] < s[j]
\* No two entries of a list of closings are about one position.
OncePerPosition(s) == \A i, j \in DOMAIN s : s[i].position = s[j].position => i = j

LEMMA MembersOfEmpty == Members(<<>>) = {}
  BY DEF Members, Engine!ToSet

\* A list whose members are known is typed and indexed by them.
LEMMA MembersOfSequence ==
    ASSUME NEW S, NEW s \in Seq(S)
    PROVE  /\ Members(s) \subseteq S
           /\ \A i \in 1 .. Len(s) : s[i] \in Members(s)
           /\ \A x \in Members(s) : \E i \in 1 .. Len(s) : x = s[i]
           /\ DOMAIN s = 1 .. Len(s)
  BY DEF Members, Engine!ToSet

\* list.append
LEMMA MembersOfAppend ==
    ASSUME NEW S, NEW s \in Seq(S), NEW e \in S
    PROVE  Members(Append(s, e)) = Members(s) \cup {e}
  <1> DEFINE t == Append(s, e)
  <1>1. DOMAIN s = 1 .. Len(s) /\ DOMAIN t = 1 .. Len(s) + 1 /\ Len(s) \in Nat
    OBVIOUS
  <1>2. \A i \in 1 .. Len(s) : t[i] = s[i]
    OBVIOUS
  <1>3. t[Len(s) + 1] = e
    OBVIOUS
  <1> HIDE DEF t
  <1>4. Members(t) = Members(s) \cup {e}
    BY <1>1, <1>2, <1>3 DEF Members, Engine!ToSet
  <1> QED
    BY <1>4 DEF t

\* list concatenation
LEMMA MembersOfConcat ==
    ASSUME NEW S, NEW s \in Seq(S), NEW t \in Seq(S)
    PROVE  Members(s \o t) = Members(s) \cup Members(t)
  <1> DEFINE u == s \o t
  <1>1. /\ DOMAIN s = 1 .. Len(s) /\ DOMAIN t = 1 .. Len(t) /\ DOMAIN u = 1 .. Len(s) + Len(t)
        /\ Len(s) \in Nat /\ Len(t) \in Nat
    OBVIOUS
  <1>2. \A i \in 1 .. Len(s) : u[i] = s[i]
    OBVIOUS
  <1>3. \A i \in 1 .. Len(t) : u[Len(s) + i] = t[i]
    OBVIOUS
  <1> HIDE DEF u
  <1>4. \A i \in DOMAIN u : i \in DOMAIN s \/ \E j \in DOMAIN t : i = Len(s) + j
    <2> SUFFICES ASSUME NEW i \in DOMAIN u, i \notin DOMAIN s PROVE \E j \in DOMAIN t : i = Len(s) + j
      OBVIOUS
    <2>1. i - Len(s) \in DOMAIN t /\ i = Len(s) + (i - Len(s))
      BY <1>1
    <2> QED
      BY <2>1
  <1>5. Members(u) = Members(s) \cup Members(t)
    <2>1. ASSUME NEW x \in Members(u) PROVE x \in Members(s) \cup Members(t)
      BY <1>1, <1>2, <1>3, <1>4 DEF Members, Engine!ToSet
    <2>2. ASSUME NEW x \in Members(s) PROVE x \in Members(u)
      BY <1>1, <1>2 DEF Members, Engine!ToSet
    <2>3. ASSUME NEW x \in Members(t) PROVE x \in Members(u)
      <3>1. PICK j \in DOMAIN t : x = t[j]
        BY DEF Members, Engine!ToSet
      <3>2. Len(s) + j \in DOMAIN u /\ u[Len(s) + j] = x
        BY <1>1, <1>3, <3>1
      <3> QED
        BY <3>2 DEF Members, Engine!ToSet
    <2> QED
      BY <2>1, <2>2, <2>3
  <1> QED
    BY <1>5 DEF u

\* A for loop takes the first element and goes on with the others.
LEMMA MembersOfTail ==
    ASSUME NEW S, NEW s \in Seq(S), s # <<>>
    PROVE  /\ Members(s) = {Head(s)} \cup Members(Tail(s))
           /\ Head(s) \in S /\ Tail(s) \in Seq(S)
  <1> DEFINE t == Tail(s)
  <1>1. Len(s) \in Nat \ {0} /\ Head(s) = s[1] /\ Head(s) \in S /\ t \in Seq(S)
    OBVIOUS
  <1>2. DOMAIN s = 1 .. Len(s) /\ DOMAIN t = 1 .. Len(s) - 1
    OBVIOUS
  <1>3. \A i \in 1 .. Len(s) - 1 : t[i] = s[i + 1]
    OBVIOUS
  <1> HIDE DEF t
  <1>4. ASSUME NEW i \in DOMAIN s, i # 1 PROVE s[i] \in Members(t)
    <2>1. i - 1 \in DOMAIN t /\ t[i - 1] = s[i]
      BY <1>1, <1>2, <1>3, <1>4
    <2> QED
      BY <2>1 DEF Members, Engine!ToSet
  <1>5. ASSUME NEW i \in DOMAIN t PROVE t[i] \in Members(s)
    <2>1. i + 1 \in DOMAIN s /\ s[i + 1] = t[i]
      BY <1>1, <1>2, <1>3, <1>5
    <2> QED
      BY <2>1 DEF Members, Engine!ToSet
  <1>6. Members(s) = {Head(s)} \cup Members(t)
    BY <1>1, <1>2, <1>4, <1>5 DEF Members, Engine!ToSet
  <1> QED
    BY <1>1, <1>6 DEF t

LEMMA IncreasingAppend ==
    ASSUME NEW s \in Seq(Nat), NEW e \in Nat, Increasing(s), \A x \in Members(s) : x < e
    PROVE  Increasing(Append(s, e))
  <1>1. \A i \in 1 .. Len(s) : s[i] < e
    BY DEF Members, Engine!ToSet
  <1> QED
    BY <1>1 DEF Increasing

LEMMA IncreasingTail ==
    ASSUME NEW s \in Seq(Nat), s # <<>>, Increasing(s)
    PROVE  Increasing(Tail(s)) /\ \A x \in Members(Tail(s)) : Head(s) < x
  <1>1. /\ Len(s) \in Nat \ {0} /\ Head(s) = s[1] /\ DOMAIN s = 1 .. Len(s)
        /\ DOMAIN Tail(s) = 1 .. Len(s) - 1
        /\ \A i \in 1 .. Len(s) - 1 : Tail(s)[i] = s[i + 1]
    OBVIOUS
  <1> DEFINE t == Tail(s)
  <1> HIDE DEF t
  <1>2. Increasing(t)
    <2> SUFFICES ASSUME NEW i \in DOMAIN t, NEW j \in DOMAIN t, i < j PROVE t[i] < t[j]
      BY DEF Increasing
    <2>1. i + 1 \in DOMAIN s /\ j + 1 \in DOMAIN s /\ i + 1 < j + 1 /\ t[i] = s[i + 1] /\ t[j] = s[j + 1]
      BY <1>1 DEF t
    <2> QED
      BY <2>1 DEF Increasing
  <1>3. ASSUME NEW x \in Members(t) PROVE Head(s) < x
    <2>1. PICK i \in DOMAIN t : x = t[i]
      BY <1>3 DEF Members, Engine!ToSet
    <2>2. i + 1 \in DOMAIN s /\ 1 \in DOMAIN s /\ 1 < i + 1 /\ x = s[i + 1]
      BY <1>1, <2>1 DEF t
    <2> QED
      BY <1>1, <2>2 DEF Increasing
  <1> QED
    BY <1>2, <1>3 DEF t

\* The close of one more position, when it is not among those already closed.
LEMMA OnceAppend ==
    ASSUME NEW S, NEW s \in Seq(S), NEW e \in S, OncePerPosition(s),
           \A x \in Members(s) : x.position # e.position
    PROVE  OncePerPosition(Append(s, e))
  <1>1. \A i \in 1 .. Len(s) : s[i].position # e.position
    BY DEF Members, Engine!ToSet
  <1> QED
    BY <1>1 DEF OncePerPosition

LEMMA OnceConcat ==
    ASSUME NEW S, NEW s \in Seq(S), NEW t \in Seq(S), OncePerPosition(s), OncePerPosition(t),
           \A x \in Members(s), y \in Members(t) : x.position # y.position
    PROVE  OncePerPosition(s \o t)
  <1> DEFINE u == s \o t
  <1>1. /\ DOMAIN s = 1 .. Len(s) /\ DOMAIN t = 1 .. Len(t) /\ DOMAIN u = 1 .. Len(s) + Len(t)
        /\ Len(s) \in Nat /\ Len(t) \in Nat
    OBVIOUS
  <1>2. \A i \in 1 .. Len(s) : u[i] = s[i]
    OBVIOUS
  <1>3. \A i \in Len(s) + 1 .. Len(s) + Len(t) : u[i] = t[i - Len(s)] /\ i - Len(s) \in DOMAIN t
    OBVIOUS
  <1>4. \A i \in DOMAIN s, j \in DOMAIN t : s[i].position # t[j].position
    BY DEF Members, Engine!ToSet
  <1> HIDE DEF u
  <1>5. OncePerPosition(u)
    <2> SUFFICES ASSUME NEW i \in DOMAIN u, NEW j \in DOMAIN u, u[i].position = u[j].position
                 PROVE  i = j
      BY DEF OncePerPosition
    <2>1. CASE i \in DOMAIN s /\ j \in DOMAIN s
      BY <1>2, <1>1, <2>1 DEF OncePerPosition
    <2>2. CASE i \notin DOMAIN s /\ j \notin DOMAIN s
      <3>1. i - Len(s) = j - Len(s)
        BY <1>3, <1>1, <2>2 DEF OncePerPosition
      <3> QED
        BY <1>1, <3>1
    <2>3. \A k \in DOMAIN s, l \in DOMAIN u \ DOMAIN s : u[k].position # u[l].position
      <3> SUFFICES ASSUME NEW k \in DOMAIN s, NEW l \in DOMAIN u \ DOMAIN s
                   PROVE  u[k].position # u[l].position
        OBVIOUS
      <3>1. u[k] = s[k]
        BY <1>1, <1>2
      <3>2. l \in Len(s) + 1 .. Len(s) + Len(t)
        BY <1>1
      <3>3. l - Len(s) \in DOMAIN t /\ u[l] = t[l - Len(s)]
        BY <1>3, <3>2
      <3> QED
        BY <1>4, <3>1, <3>3
    <2> QED
      BY <2>1, <2>2, <2>3
  <1> QED
    BY <1>5 DEF u

-----------------------------------------------------------------------------
(* The engine: where the loop is, and what that says of its books            *)

Step == 1 .. StreamLength
Closing == [position : Step, event : Step]
Busy == pc \notin {"next", "done"}
Walking == pc \in {"evaluate", "expire"}
PositionsOf(s) == {c.position : c \in Members(s)}

\* Engine!TypeOK, variable by variable.
EngineTypes ==
    /\ events \in Seq(Engine!Event) /\ Len(events) <= StreamLength
    /\ at \in 1 .. StreamLength + 1
    /\ pc \in {"next", "enter", "evaluate", "expire", "record", "done"}
    /\ open \in Seq(Step) /\ todo \in Seq(Step) /\ kept \in Seq(Step) /\ history \in Seq(Step)
    /\ closed \in Seq(Closing) /\ closing \in Seq(Closing)
    /\ trades \in Seq(Engine!Row) /\ ledger \in Seq(Engine!Row)
    /\ failures \in Seq(Step)
    /\ valued \in Seq([event : Step, of : SUBSET Step])
    /\ seen \in Seq(Times \cup {0})

\* The locals of a handler live while it walks over the positions.
LoopInv ==
    /\ Busy => at <= Len(events)
    /\ ~Walking => todo = <<>> /\ kept = <<>> /\ closing = <<>>
    /\ pc = "expire" => closing = <<>>

\* Positions are held in the order they were opened, each once, and one of the event under way
\* has been opened only when its entry is behind the loop.
HeldInv ==
    /\ Increasing(open) /\ OncePerPosition(closed)
    /\ Members(open) \cap PositionsOf(closed) = {}
    /\ Members(open) \cup PositionsOf(closed) = Engine!Opened
    /\ \A p \in Engine!Opened : p <= at /\ (p = at => pc \in {"evaluate", "record"})

\* While the loop walks, every open position is still to come, kept or about to be closed.
WalkInv ==
    Walking =>
      /\ Increasing(kept) /\ Increasing(todo) /\ OncePerPosition(closing)
      /\ \A k \in Members(kept), t \in Members(todo) : k < t
      /\ \A c \in Members(closing) :
            c.event = at /\ c.position \notin Members(kept) /\ c.position \notin Members(todo)
      /\ Members(open) = Members(kept) \cup Members(todo) \cup PositionsOf(closing)

\* A close row is in the books, or its event failed, or its position is about to be closed.
RowsInv ==
    /\ \A r \in Engine!CloseRows :
          \/ [position |-> r.position, event |-> r.event] \in Members(closed)
          \/ r.event \in Members(failures)
          \/ /\ pc = "evaluate" /\ r.event = at
             /\ [position |-> r.position, event |-> r.event] \in Members(closing)
    /\ \A c \in Members(closed) \cup Members(closing) :
          \E r \in Engine!CloseRows : r.position = c.position /\ r.event = c.event

LedgerInv ==
    /\ \A i \in DOMAIN events : i < at =>
          \/ \E r \in Members(ledger) : r.kind = "event" /\ r.event = i
          \/ i \in Members(failures)
    /\ Busy => \E r \in Members(ledger) : r.kind = "event" /\ r.event = at
    /\ \A r \in Members(ledger) : r.kind = "failure" => r.event \in Members(failures)

\* The strategy has been shown something at each event up to the one under way.
SeenInv ==
    /\ Engine!Ordered(events)
    /\ Len(seen) = IF Busy THEN at ELSE at - 1
    /\ Strict => \A i \in DOMAIN seen : \A j \in i .. Len(events) : seen[i] <= events[j].time

ValuedInv ==
    \A i \in DOMAIN valued :
        /\ valued[i].event <= at /\ (valued[i].event = at => pc = "record")
        /\ \A p \in valued[i].of :
              /\ p < valued[i].event
              /\ \A c \in Members(closed) : c.position = p => valued[i].event < c.event

EngineInv ==
    /\ EngineTypes /\ LoopInv /\ HeldInv /\ WalkInv
    /\ RowsInv /\ LedgerInv /\ SeenInv /\ ValuedInv

\* What the engine's proofs use of the constants' types.
LEMMA EngineConstants == StreamLength \in Nat /\ Times \subseteq Nat
  BY BacktestConstants DEF BacktestConstants, Engine!ConstantsType

LEMMA StepsAreNat == Step \subseteq Nat /\ Seq(Step) \subseteq Seq(Nat)
  <1>1. Step \subseteq Nat
    BY DEF Step
  <1> QED
    BY <1>1, SeqMonotonic

LEMMA EngineTyping == Engine!TypeOK <=> EngineTypes
  <1>1. \A a, b, c, d : {a, b, c, d} \subseteq Seq(Step)
                           <=> a \in Seq(Step) /\ b \in Seq(Step) /\ c \in Seq(Step) /\ d \in Seq(Step)
    OBVIOUS
  <1>2. \A T : \A a, b : {a, b} \subseteq Seq(T) <=> a \in Seq(T) /\ b \in Seq(T)
    OBVIOUS
  <1> QED
    BY <1>1, <1>2 DEF Engine!TypeOK, EngineTypes, Engine!Position, Step, Closing

\* The invariant says what the two properties of the run say.
LEMMA EngineInvariantImplies ==
    ASSUME EngineInv
    PROVE  /\ Engine!NoPositionLost /\ Engine!ClosesAreExplained /\ Engine!EveryEventAccounted
           /\ Engine!NoLookAhead /\ Engine!ValuedWhileHeld
  <1>1. Engine!NoPositionLost
    <2>1. \A i, j \in DOMAIN open : open[i] = open[j] => i = j
      <3>1. open \in Seq(Int)
        <4>1. Step \subseteq Int
          BY DEF Step
        <4> QED
          BY <4>1, SeqMonotonic DEF EngineInv, EngineTypes
      <3> QED
        BY <3>1 DEF EngineInv, HeldInv, Increasing
    <2>2. OncePerPosition(closed)
      BY DEF EngineInv, HeldInv
    <2>3. Engine!ClosedPositions = PositionsOf(closed)
      BY DEF Engine!ClosedPositions, PositionsOf, Members
    <2>4. Engine!TypeOK
      BY EngineTyping DEF EngineInv
    <2> QED
      BY <2>1, <2>2, <2>3, <2>4
      DEF Engine!NoPositionLost, Engine!IsInjective, EngineInv, HeldInv, OncePerPosition, Members
  <1>2. Engine!ClosesAreExplained
    BY DEF EngineInv, RowsInv, Engine!ClosesAreExplained, Members
  <1>3. Engine!EveryEventAccounted
    <2>1. (\E r \in Members(ledger) : r.kind = "failure") => failures # <<>>
      BY MembersOfEmpty DEF EngineInv, LedgerInv
    <2> QED
      BY <2>1 DEF EngineInv, LedgerInv, Engine!EveryEventAccounted, Engine!Finished, Engine!Status, Members
  <1>4. Engine!NoLookAhead
    BY DEF EngineInv, SeenInv, Engine!NoLookAhead
  <1>5. Engine!ValuedWhileHeld
    BY DEF EngineInv, ValuedInv, Engine!ValuedWhileHeld, Members
  <1> QED
    BY <1>1, <1>2, <1>3, <1>4, <1>5

LEMMA EngineInit == Engine!Init => EngineInv
  <1> SUFFICES ASSUME Engine!Init PROVE EngineInv
    OBVIOUS
  <1>1. StreamLength \in Nat
    BY EngineConstants
  <1>2. events \in Seq(Engine!Event) /\ Len(events) <= StreamLength /\ Engine!Ordered(events)
    <2>1. PICK n \in 0 .. StreamLength : events \in [1 .. n -> Engine!Event]
      BY DEF Engine!Init
    <2>2. events \in Seq(Engine!Event) /\ Len(events) = n
      BY <1>1, <2>1
    <2> QED
      BY <1>1, <2>1, <2>2 DEF Engine!Init
  <1>3. EngineTypes
    BY <1>1, <1>2 DEF Engine!Init, EngineTypes
  <1>4. \A s : s = <<>> => Members(s) = {}
    BY MembersOfEmpty
  <1>5. LoopInv /\ HeldInv /\ WalkInv
    BY <1>4 DEF Engine!Init, LoopInv, HeldInv, WalkInv, Busy, Walking, Increasing, OncePerPosition,
             PositionsOf, Engine!Opened, Members
  <1>6. RowsInv /\ LedgerInv /\ SeenInv /\ ValuedInv
    BY <1>2, <1>4 DEF Engine!Init, RowsInv, LedgerInv, SeenInv, ValuedInv, Busy, Engine!CloseRows, Members
  <1> QED
    BY <1>3, <1>5, <1>6 DEF EngineInv

\* What the types say of the places the loop is at.
LEMMA BusyAt ==
    ASSUME EngineTypes, at <= Len(events)
    PROVE  at \in Step /\ at \in DOMAIN events /\ Len(events) \in Nat /\ at + 1 \in 1 .. StreamLength + 1
  BY EngineConstants DEF EngineTypes, Step

\* What the types and the invariant say of the entries of each list.
EntriesTyped ==
    /\ Members(open) \subseteq Step /\ Members(kept) \subseteq Step /\ Members(todo) \subseteq Step
    /\ Members(closed) \subseteq Closing /\ Members(closing) \subseteq Closing
    /\ PositionsOf(closed) \subseteq Step /\ PositionsOf(closing) \subseteq Step
    /\ Engine!Opened \subseteq Step
    /\ \A i \in DOMAIN valued : valued[i].event \in Step /\ valued[i].of \subseteq Step
    /\ \A i \in DOMAIN events : i \in Int /\ events[i].time \in Nat
    /\ at \in Int /\ Step \subseteq Int

LEMMA EntriesOf == EngineInv => EntriesTyped
  <1> SUFFICES ASSUME EngineInv PROVE EntriesTyped
    OBVIOUS
  <1>1. /\ Members(open) \subseteq Step /\ Members(kept) \subseteq Step /\ Members(todo) \subseteq Step
        /\ Members(closed) \subseteq Closing /\ Members(closing) \subseteq Closing
    BY MembersOfSequence DEF EngineInv, EngineTypes
  <1>2. PositionsOf(closed) \subseteq Step /\ PositionsOf(closing) \subseteq Step
    BY <1>1 DEF PositionsOf, Closing
  <1>3. Engine!Opened \subseteq Step
    BY <1>1, <1>2 DEF EngineInv, HeldInv
  <1>4. ASSUME NEW i \in DOMAIN valued PROVE valued[i].event \in Step /\ valued[i].of \subseteq Step
    <2> DEFINE Valuation == [event : Step, of : SUBSET Step]
    <2>1. valued \in Seq(Valuation)
      BY DEF EngineInv, EngineTypes
    <2> HIDE DEF Valuation
    <2>2. valued[i] \in Valuation
      BY <1>4, <2>1
    <2> QED
      BY <2>2 DEF Valuation
  <1>5. ASSUME NEW i \in DOMAIN events PROVE i \in Int /\ events[i].time \in Nat
    <2>1. events[i] \in Engine!Event /\ i \in Int
      BY <1>5 DEF EngineInv, EngineTypes
    <2> QED
      BY <2>1, EngineConstants DEF Engine!Event
  <1>6. at \in Int
    BY DEF EngineInv, EngineTypes
  <1> QED
    BY <1>1, <1>2, <1>3, <1>4, <1>5, <1>6 DEF EntriesTyped, Step

\* engine.py:79-89, the except clause: the event is failed, what was stored stays stored.
LEMMA FailKeeps ==
    ASSUME EngineInv, pc # "record", at <= Len(events), Engine!Fail, ledger' = Engine!FailureRow,
           UNCHANGED <<events, open, closed, trades, history, valued>>
    PROVE  LoopInv' /\ HeldInv' /\ WalkInv' /\ RowsInv' /\ LedgerInv' /\ ValuedInv'
           /\ (seen' \in Seq(Times \cup {0}) => EngineTypes')
  <1>0. EntriesTyped /\ HeldInv /\ ValuedInv
    BY EntriesOf DEF EngineInv
  <1>1. /\ pc' = "next" /\ at' = at + 1 /\ at \in Step /\ at \in Int
        /\ todo' = <<>> /\ kept' = <<>> /\ closing' = <<>>
        /\ failures' = Append(failures, at)
        /\ ledger' = Append(ledger, [kind |-> "failure", event |-> at, position |-> 0])
    BY BusyAt DEF Engine!Fail, Engine!NextEvent, Engine!NoLocals, Engine!FailureRow, Engine!RowOf,
                  EngineInv, Step
  <1>2. [kind |-> "failure", event |-> at, position |-> 0] \in Engine!Row
    BY <1>1, EngineConstants DEF Engine!Row, Step
  <1>3. /\ Members(failures') = Members(failures) \cup {at}
        /\ Members(ledger') = Members(ledger) \cup {[kind |-> "failure", event |-> at, position |-> 0]}
    <2>1. failures \in Seq(Step) /\ at \in Step
      BY <1>1 DEF EngineInv, EngineTypes
    <2>2. ledger \in Seq(Engine!Row)
      BY DEF EngineInv, EngineTypes
    <2>3. Members(failures') = Members(failures) \cup {at}
      BY <1>1, <2>1, MembersOfAppend
    <2> QED
      BY <1>1, <1>2, <2>2, <2>3, MembersOfAppend
  <1>4. seen' \in Seq(Times \cup {0}) => EngineTypes'
    BY <1>1, <1>2, BusyAt DEF EngineInv, EngineTypes
  <1>5. LoopInv' /\ WalkInv'
    BY <1>1 DEF LoopInv, WalkInv, Busy, Walking
  <1>6. HeldInv'
    <2>1. Engine!Opened' = Engine!Opened
      BY DEF Engine!Opened
    <2>2. \A p \in Engine!Opened : p <= at + 1 /\ p # at + 1
      BY <1>0 DEF HeldInv, EntriesTyped
    <2>3. HeldInv /\ at' = at + 1
      BY <1>1 DEF EngineInv
    <2> QED
      BY <2>1, <2>2, <2>3 DEF HeldInv
  <1>7. RowsInv'
    BY <1>1, <1>3, MembersOfEmpty DEF EngineInv, RowsInv, Engine!CloseRows
  <1>8. LedgerInv'
    <2>1. DOMAIN events \subseteq Int
      BY DEF EngineInv, EngineTypes
    <2> QED
      BY <1>1, <1>3, <2>1 DEF EngineInv, LedgerInv, Busy
  <1>9. ValuedInv'
    <2>1. \A i \in DOMAIN valued : valued[i].event <= at + 1 /\ valued[i].event # at + 1
      <3> SUFFICES ASSUME NEW i \in DOMAIN valued
                   PROVE  valued[i].event <= at + 1 /\ valued[i].event # at + 1
        OBVIOUS
      <3>1. valued[i].event \in Int /\ at \in Int
        BY <1>0 DEF EntriesTyped
      <3>2. valued[i].event <= at
        BY <1>0 DEF ValuedInv
      <3> QED
        BY <3>1, <3>2
    <2>2. ValuedInv /\ at' = at + 1
      BY <1>1 DEF EngineInv
    <2> QED
      BY <2>1, <2>2 DEF ValuedInv
  <1> QED
    BY <1>4, <1>5, <1>6, <1>7, <1>8, <1>9

LEMMA LookupRaisesKeeps == ASSUME EngineInv, Engine!LookupRaises PROVE EngineInv'
  <1>1. /\ pc = "next" /\ at <= Len(events) /\ Engine!Fail /\ ledger' = Engine!FailureRow
        /\ seen' = Append(seen, 0) /\ UNCHANGED <<events, open, closed, trades, history, valued>>
    BY DEF Engine!LookupRaises, Engine!At
  <1>2. seen' \in Seq(Times \cup {0})
    BY <1>1 DEF EngineInv, EngineTypes
  <1>3. SeenInv'
    <2>1. pc' = "next" /\ at' = at + 1 /\ at \in Nat
      BY <1>1 DEF Engine!Fail, Engine!NextEvent, EngineInv, EngineTypes
    <2>2. Len(seen) = at - 1 /\ seen \in Seq(Times \cup {0})
      BY <1>1 DEF EngineInv, EngineTypes, SeenInv, Busy
    <2>3. /\ Len(seen') = at /\ DOMAIN seen' = 1 .. at /\ DOMAIN seen = 1 .. at - 1
          /\ \A i \in 1 .. at - 1 : seen'[i] = seen[i]
          /\ seen'[at] = 0
      BY <1>1, <2>1, <2>2
    <2>4. \A j \in 1 .. Len(events) : 0 <= events[j].time
      BY EntriesOf DEF EngineInv, EngineTypes, EntriesTyped
    <2>5. Engine!Ordered(events)' = Engine!Ordered(events)
      BY <1>1 DEF Engine!Ordered
    <2>6. ASSUME Strict, NEW i \in DOMAIN seen', NEW j \in i .. Len(events)
          PROVE  seen'[i] <= events[j].time
      <3>1. CASE i = at
        BY <2>1, <2>3, <2>4, <2>6, <3>1
      <3>2. CASE i # at
        BY <2>1, <2>3, <2>6, <3>2 DEF EngineInv, SeenInv
      <3> QED
        BY <3>1, <3>2
    <2> QED
      BY <1>1, <2>1, <2>3, <2>5, <2>6 DEF SeenInv, Busy, EngineInv
  <1> QED
    BY <1>1, <1>2, <1>3, FailKeeps DEF EngineInv

LEMMA StrategyRaisesKeeps == ASSUME EngineInv, Engine!StrategyRaises PROVE EngineInv'
  <1>1. /\ Busy /\ pc # "record" /\ at <= Len(events) /\ Engine!Fail /\ ledger' = Engine!FailureRow
        /\ UNCHANGED <<events, open, closed, trades, history, valued, seen>>
    BY DEF Engine!StrategyRaises, Engine!At, Busy, EngineInv, LoopInv
  <1>2. SeenInv'
    BY <1>1 DEF EngineInv, EngineTypes, SeenInv, Busy, Engine!Fail, Engine!NextEvent, Engine!Ordered
  <1> QED
    BY <1>1, <1>2, FailKeeps DEF EngineInv, EngineTypes

\* engine.py:131-162: the event is looked up, its row written and its handler entered.
LEMMA ProcessKeeps == ASSUME EngineInv, Engine!Process PROVE EngineInv'
  <1> DEFINE row == [kind |-> "event", event |-> at, position |-> 0]
  <1>0. EntriesTyped /\ EngineTypes /\ HeldInv /\ ValuedInv /\ RowsInv /\ LedgerInv /\ SeenInv /\ LoopInv
    BY EntriesOf DEF EngineInv
  <1>1. /\ pc = "next" /\ at <= Len(events) /\ ledger' = Append(ledger, row)
        /\ UNCHANGED <<events, open, closed, kept, closing, trades, failures, history>>
        /\ kept = <<>> /\ closing = <<>> /\ todo = <<>>
    BY <1>0 DEF Engine!Process, Engine!At, Engine!RowOf, LoopInv, Walking
  <1>2. at \in DOMAIN events /\ events[at].type \in {"lifecycle", "valuation", "expiration", "other"}
    <2>1. at \in DOMAIN events /\ events[at] \in Engine!Event
      BY <1>0, <1>1, BusyAt DEF EngineTypes
    <2> QED
      BY <2>1 DEF Engine!Event, Engine!EventTypes
  <1>3. /\ at' = at /\ pc' \in {"enter", "expire", "record"}
        /\ (todo' = todo /\ pc' # "expire") \/ (todo' = open /\ pc' = "expire")
        /\ \/ valued' = valued
           \/ valued' = Append(valued, [event |-> at, of |-> Members(open)]) /\ pc' = "record"
    <2>1. CASE events[at].type = "lifecycle"
      BY <2>1 DEF Engine!Process, Engine!Goto
    <2>2. CASE events[at].type = "expiration"
      BY <2>2 DEF Engine!Process, Engine!Goto
    <2>3. CASE events[at].type = "valuation"
      BY <2>3 DEF Engine!Process, Engine!Goto, Members
    <2>4. CASE events[at].type = "other"
      BY <2>4 DEF Engine!Process, Engine!Goto
    <2> QED
      BY <1>2, <2>1, <2>2, <2>3, <2>4
  <1>4. PICK record \in Times \cup {0} :
            (Strict => record <= events[at].time) /\ seen' = Append(seen, record)
    BY DEF Engine!Process, Engine!Visible
  <1>5. at \in Step /\ at \in Nat /\ at \in DOMAIN events /\ DOMAIN events = 1 .. Len(events) /\ Len(events) \in Nat
    BY <1>0, <1>1, BusyAt DEF EngineTypes, Step
  <1>6. row \in Engine!Row
    BY <1>5, EngineConstants DEF Engine!Row, Step
  <1>7. Members(ledger') = Members(ledger) \cup {row}
    BY <1>0, <1>1, <1>6, MembersOfAppend DEF EngineTypes
  <1>8. EngineTypes'
    <2>1. valued' \in Seq([event : Step, of : SUBSET Step])
      <3> DEFINE Valuation == [event : Step, of : SUBSET Step]
      <3>1. [event |-> at, of |-> Members(open)] \in Valuation /\ valued \in Seq(Valuation)
        BY <1>0, <1>5 DEF EngineTypes, EntriesTyped
      <3> HIDE DEF Valuation
      <3>2. valued' \in Seq(Valuation)
        BY <1>3, <3>1
      <3> QED
        BY <3>2 DEF Valuation
    <2>2. seen' \in Seq(Times \cup {0})
      BY <1>0, <1>4 DEF EngineTypes
    <2>3. ledger' \in Seq(Engine!Row)
      BY <1>0, <1>1, <1>6 DEF EngineTypes
    <2>4. todo' \in Seq(Step)
      BY <1>0, <1>3 DEF EngineTypes
    <2> QED
      BY <1>0, <1>1, <1>3, <2>1, <2>2, <2>3, <2>4 DEF EngineTypes
  <1>9. LoopInv'
    BY <1>1, <1>3 DEF LoopInv, Busy, Walking
  <1>10. HeldInv'
    <2>1. Engine!Opened' = Engine!Opened
      BY <1>1 DEF Engine!Opened
    <2> QED
      BY <1>0, <1>1, <1>3, <2>1 DEF HeldInv
  <1>11. WalkInv'
    <2>1. Members(kept') = {} /\ Members(closing') = {} /\ PositionsOf(closing') = {}
      BY <1>1, MembersOfEmpty DEF PositionsOf
    <2>2. Increasing(kept') /\ OncePerPosition(closing')
      BY <1>1 DEF Increasing, OncePerPosition
    <2> QED
      BY <1>0, <1>1, <1>3, <2>1, <2>2 DEF WalkInv, HeldInv, Walking
  <1>12. RowsInv'
    BY <1>0, <1>1, <1>3 DEF RowsInv, Engine!CloseRows
  <1>13. LedgerInv'
    BY <1>0, <1>1, <1>3, <1>7 DEF LedgerInv
  <1>14. SeenInv'
    <2>1. /\ Len(seen) = at - 1 /\ Len(seen') = at /\ seen'[at] = record
          /\ DOMAIN seen' = 1 .. at /\ DOMAIN seen = 1 .. at - 1
          /\ \A i \in 1 .. at - 1 : seen'[i] = seen[i]
      BY <1>0, <1>1, <1>4, <1>5 DEF EngineTypes, SeenInv, Busy
    <2>2. ASSUME Strict, NEW i \in DOMAIN seen', NEW j \in i .. Len(events)
          PROVE  seen'[i] <= events[j].time
      <3>1. CASE i = at
        <4>1. j \in DOMAIN events /\ at <= j
          BY <1>5, <3>1
        <4>2. events[at].time <= events[j].time
          BY <1>0, <1>5, <4>1 DEF SeenInv, Engine!Ordered, EntriesTyped
        <4>3. record \in Nat /\ events[at].time \in Nat /\ events[j].time \in Nat
          BY <1>0, <1>5, <4>1, EngineConstants DEF EntriesTyped
        <4> QED
          BY <1>4, <2>1, <2>2, <3>1, <4>2, <4>3
      <3>2. CASE i # at
        BY <1>0, <1>5, <2>1, <2>2, <3>2 DEF SeenInv
      <3> QED
        BY <3>1, <3>2
    <2>3. Engine!Ordered(events') /\ Busy' /\ events' = events
      BY <1>0, <1>1, <1>3 DEF SeenInv, Busy
    <2> QED
      BY <1>1, <1>3, <2>1, <2>2, <2>3 DEF SeenInv
  <1>15. ValuedInv'
    <2>1. CASE valued' = valued
      BY <1>0, <1>1, <1>3, <2>1 DEF ValuedInv
    <2>2. CASE valued' # valued
      <3> DEFINE now_ == [event |-> at, of |-> Members(open)]
      <3>1. valued' = Append(valued, now_) /\ pc' = "record"
        BY <1>3, <2>2
      <3>2. /\ DOMAIN valued' = 1 .. Len(valued) + 1 /\ Len(valued) \in Nat
            /\ DOMAIN valued = 1 .. Len(valued)
            /\ \A i \in DOMAIN valued : valued'[i] = valued[i]
            /\ valued'[Len(valued) + 1] = now_
        BY <1>0, <3>1 DEF EngineTypes
      <3>3. \A i \in DOMAIN valued' : i \in DOMAIN valued \/ valued'[i] = now_
        BY <3>2
      <3>4. \A p \in Members(open) : p < at /\ \A c \in Members(closed) : c.position # p
        <4>1. \A p \in Members(open) : p \in Engine!Opened /\ p \in Int /\ p \notin PositionsOf(closed)
          BY <1>0 DEF HeldInv, EntriesTyped
        <4> QED
          BY <1>0, <1>1, <1>5, <4>1 DEF HeldInv, PositionsOf
      <3> HIDE DEF now_
      <3>5. now_.event = at /\ now_.of = Members(open)
        BY DEF now_
      <3>6. ASSUME NEW i \in DOMAIN valued'
            PROVE  /\ valued'[i].event <= at /\ (valued'[i].event = at => pc' = "record")
                   /\ \A p \in valued'[i].of :
                        p < valued'[i].event
                        /\ \A c \in Members(closed) : c.position = p => valued'[i].event < c.event
        <4>1. CASE i \in DOMAIN valued
          <5>1. valued'[i] = valued[i]
            BY <3>2, <4>1
          <5> QED
            BY <1>0, <3>1, <4>1, <5>1 DEF ValuedInv
        <4>2. CASE valued'[i] = now_
          BY <1>5, <3>1, <3>4, <3>5, <4>2
        <4> QED
          BY <3>3, <4>1, <4>2
      <3> QED
        BY <1>1, <1>3, <3>6 DEF ValuedInv
    <2> QED
      BY <2>1, <2>2
  <1> QED
    BY <1>8, <1>9, <1>10, <1>11, <1>12, <1>13, <1>14, <1>15 DEF EngineInv

\* Within one event, what was shown and what the ledger says of the past stands.
LEMMA StillBusy ==
    ASSUME EngineInv, Busy, Busy', UNCHANGED <<events, at, failures, seen>>,
           Members(ledger) \subseteq Members(ledger'),
           \A r \in Members(ledger') : r \in Members(ledger) \/ r.kind # "failure"
    PROVE  LedgerInv' /\ SeenInv'
  <1>1. LedgerInv /\ SeenInv
    BY DEF EngineInv
  <1>2. LedgerInv'
    BY <1>1 DEF LedgerInv
  <1>3. SeenInv'
    BY <1>1 DEF SeenInv, Engine!Ordered
  <1> QED
    BY <1>2, <1>3

LEMMA StillValued ==
    ASSUME EngineInv, pc # "record", UNCHANGED <<at, valued, closed>>
    PROVE  ValuedInv'
  BY DEF EngineInv, ValuedInv

\* engine.py:183-184: the loop starts over all the positions held.
LEMMA WalkStarts ==
    ASSUME Increasing(open'), todo' = open', kept' = <<>>, closing' = <<>>
    PROVE  WalkInv'
  <1>1. Members(kept') = {} /\ Members(closing') = {} /\ PositionsOf(closing') = {}
    BY MembersOfEmpty DEF PositionsOf
  <1>2. Increasing(kept') /\ OncePerPosition(closing')
    BY DEF Increasing, OncePerPosition
  <1> QED
    BY <1>1, <1>2 DEF WalkInv

LEMMA NoEntryKeeps == ASSUME EngineInv, Engine!NoEntry PROVE EngineInv'
  <1>0. EngineTypes /\ HeldInv /\ RowsInv /\ LoopInv
    BY DEF EngineInv
  <1>1. /\ pc = "enter" /\ pc' = "evaluate" /\ at' = at /\ todo' = open /\ kept' = <<>> /\ closing' = <<>>
        /\ kept = <<>> /\ closing = <<>>
        /\ UNCHANGED <<events, open, closed, trades, ledger, failures, history, valued, seen>>
    BY <1>0 DEF Engine!NoEntry, Engine!At, Engine!Goto, Engine!books, LoopInv, Walking
  <1>2. EngineTypes'
    BY <1>0, <1>1 DEF EngineTypes
  <1>3. LoopInv'
    BY <1>0, <1>1 DEF LoopInv, Busy, Walking
  <1>4. HeldInv'
    <2>1. Engine!Opened' = Engine!Opened
      BY <1>1 DEF Engine!Opened
    <2> QED
      BY <1>0, <1>1, <2>1 DEF HeldInv
  <1>5. WalkInv'
    BY <1>0, <1>1, WalkStarts DEF HeldInv
  <1>6. RowsInv'
    BY <1>0, <1>1 DEF RowsInv, Engine!CloseRows
  <1>7. LedgerInv' /\ SeenInv' /\ ValuedInv'
    BY <1>1, StillBusy, StillValued DEF Busy
  <1> QED
    BY <1>2, <1>3, <1>4, <1>5, <1>6, <1>7 DEF EngineInv

\* The rows that open and that close a position, when the trade ledger grows by one.
LEMMA RowsOfAppend ==
    ASSUME trades \in Seq(Engine!Row), NEW row \in Engine!Row, trades' = Append(trades, row)
    PROVE  /\ Engine!Opened' = Engine!Opened \cup (IF row.kind = "open" THEN {row.position} ELSE {})
           /\ Engine!CloseRows' = Engine!CloseRows \cup (IF row.kind = "close" THEN {row} ELSE {})
  <1>1. Engine!ToSet(trades') = Engine!ToSet(trades) \cup {row}
    BY MembersOfAppend DEF Members
  <1> QED
    BY <1>1 DEF Engine!Opened, Engine!CloseRows

\* engine.py:190-197: evaluate_entry and create_position.
LEMMA EnterKeeps == ASSUME EngineInv, Engine!Enter PROVE EngineInv'
  <1> DEFINE row == [kind |-> "open", event |-> at, position |-> at]
  <1>0. EngineTypes /\ HeldInv /\ RowsInv /\ LoopInv /\ EntriesTyped
    BY EntriesOf DEF EngineInv
  <1>1. /\ pc = "enter" /\ pc' = "evaluate" /\ at' = at /\ todo' = open' /\ kept' = <<>> /\ closing' = <<>>
        /\ kept = <<>> /\ closing = <<>>
        /\ open' = Append(open, at) /\ trades' = Append(trades, row)
        /\ UNCHANGED <<events, closed, ledger, failures, history, valued, seen>>
    BY <1>0 DEF Engine!Enter, Engine!At, Engine!Goto, Engine!RowOf, LoopInv, Walking
  <1>2. at \in Step /\ at \in Nat /\ row \in Engine!Row
    BY <1>0, <1>1, BusyAt, EngineConstants DEF LoopInv, Busy, Engine!Row, Step
  <1>3. Engine!Opened' = Engine!Opened \cup {at} /\ Engine!CloseRows' = Engine!CloseRows
    BY <1>0, <1>1, <1>2, RowsOfAppend DEF EngineTypes
  <1>4. Members(open') = Members(open) \cup {at}
    BY <1>0, <1>1, <1>2, MembersOfAppend DEF EngineTypes
  <1>5. \A p \in Engine!Opened : p \in Int /\ p < at
    BY <1>0, <1>1, <1>2 DEF HeldInv, EntriesTyped
  <1>6. Increasing(open')
    <2>1. open \in Seq(Nat)
      BY <1>0, StepsAreNat DEF EngineTypes
    <2>2. \A p \in Members(open) : p < at
      BY <1>0, <1>5 DEF HeldInv
    <2> QED
      BY <1>0, <1>1, <1>2, <2>1, <2>2, IncreasingAppend DEF HeldInv
  <1>7. EngineTypes'
    BY <1>0, <1>1, <1>2 DEF EngineTypes
  <1>8. LoopInv'
    BY <1>0, <1>1 DEF LoopInv, Busy, Walking
  <1>9. HeldInv'
    <2>1. at \notin PositionsOf(closed)
      BY <1>0, <1>2, <1>5 DEF HeldInv
    <2>2. \A p \in Engine!Opened' : p <= at
      BY <1>2, <1>3, <1>5
    <2> QED
      BY <1>0, <1>1, <1>3, <1>4, <1>6, <2>1, <2>2 DEF HeldInv
  <1>10. WalkInv'
    BY <1>1, <1>6, WalkStarts
  <1>11. RowsInv'
    BY <1>0, <1>1, <1>3 DEF RowsInv
  <1>12. LedgerInv' /\ SeenInv' /\ ValuedInv'
    BY <1>1, StillBusy, StillValued DEF Busy
  <1> QED
    BY <1>7, <1>8, <1>9, <1>10, <1>11, <1>12 DEF EngineInv

\* One more position of the walk is kept.
LEMMA WalkKeeps ==
    ASSUME EngineInv, Walking, todo # <<>>, kept' = Append(kept, Head(todo)), todo' = Tail(todo),
           UNCHANGED <<at, pc, open, closing>>
    PROVE  WalkInv' /\ kept' \in Seq(Step) /\ todo' \in Seq(Step)
  <1>0. /\ EngineTypes /\ EntriesTyped /\ WalkInv
        /\ kept \in Seq(Step) /\ todo \in Seq(Step) /\ kept \in Seq(Nat) /\ todo \in Seq(Nat)
    BY EntriesOf, StepsAreNat DEF EngineInv, EngineTypes
  <1>1. /\ Members(todo) = {Head(todo)} \cup Members(Tail(todo))
        /\ Head(todo) \in Step /\ Head(todo) \in Nat /\ Tail(todo) \in Seq(Step)
    BY <1>0, MembersOfTail, StepsAreNat
  <1>2. Members(kept') = Members(kept) \cup {Head(todo)}
    BY <1>0, <1>1, MembersOfAppend
  <1>3. Increasing(todo') /\ \A t \in Members(todo') : Head(todo) < t
    BY <1>0, IncreasingTail DEF WalkInv
  <1>4. Increasing(kept')
    BY <1>0, <1>1, IncreasingAppend DEF WalkInv
  <1>5. \A k \in Members(kept'), t \in Members(todo') : k < t
    BY <1>0, <1>1, <1>2, <1>3 DEF WalkInv
  <1>6. WalkInv'
    BY <1>0, <1>1, <1>2, <1>3, <1>4, <1>5 DEF WalkInv
  <1> QED
    BY <1>0, <1>1, <1>6

LEMMA HoldKeeps == ASSUME EngineInv, Engine!Hold PROVE EngineInv'
  <1>0. EngineTypes /\ HeldInv /\ RowsInv /\ LoopInv
    BY DEF EngineInv
  <1>1. /\ pc = "evaluate" /\ pc' = pc /\ at' = at /\ todo # <<>>
        /\ kept' = Append(kept, Head(todo)) /\ todo' = Tail(todo)
        /\ UNCHANGED <<events, open, closed, closing, trades, ledger, failures, history, valued, seen>>
    BY DEF Engine!Hold, Engine!At, Engine!Goto, Engine!books
  <1>2. WalkInv' /\ kept' \in Seq(Step) /\ todo' \in Seq(Step)
    BY <1>1, WalkKeeps DEF Walking
  <1>3. EngineTypes' /\ LoopInv'
    BY <1>0, <1>1, <1>2 DEF EngineTypes, LoopInv, Busy, Walking
  <1>4. HeldInv'
    BY <1>0, <1>1 DEF HeldInv, Engine!Opened
  <1>5. RowsInv'
    BY <1>0, <1>1 DEF RowsInv, Engine!CloseRows
  <1>6. LedgerInv' /\ SeenInv' /\ ValuedInv'
    BY <1>1, StillBusy, StillValued DEF Busy
  <1> QED
    BY <1>2, <1>3, <1>4, <1>5, <1>6 DEF EngineInv

\* engine.py:222-236: the close is in the trade ledger at once, in the books with the commit.
LEMMA CloseKeeps == ASSUME EngineInv, Engine!Close PROVE EngineInv'
  <1> DEFINE p == Head(todo)
             c == [position |-> p, event |-> at]
             row == [kind |-> "close", event |-> at, position |-> p]
  <1>0. EngineTypes /\ HeldInv /\ RowsInv /\ LoopInv /\ WalkInv /\ EntriesTyped
    BY EntriesOf DEF EngineInv
  <1>1. /\ pc = "evaluate" /\ pc' = pc /\ at' = at /\ todo # <<>>
        /\ closing' = Append(closing, c) /\ trades' = Append(trades, row) /\ todo' = Tail(todo)
        /\ UNCHANGED <<events, open, closed, kept, ledger, failures, history, valued, seen>>
    BY DEF Engine!Close, Engine!At, Engine!Goto, Engine!RowOf, Engine!CloseRecorded
  <1>2. /\ Members(todo) = {p} \cup Members(Tail(todo)) /\ p \in Step /\ Tail(todo) \in Seq(Step)
        /\ todo \in Seq(Nat)
    BY <1>0, <1>1, MembersOfTail, StepsAreNat DEF EngineTypes
  <1>3. at \in Step /\ c \in Closing /\ row \in Engine!Row
    <2>1. at \in Step
      BY <1>0, <1>1, BusyAt DEF LoopInv, Busy
    <2> QED
      BY <1>2, <2>1, EngineConstants DEF Closing, Engine!Row, Step
  <1>4. Engine!Opened' = Engine!Opened /\ Engine!CloseRows' = Engine!CloseRows \cup {row}
    BY <1>0, <1>1, <1>3, RowsOfAppend DEF EngineTypes
  <1>5. Members(closing') = Members(closing) \cup {c}
    BY <1>0, <1>1, <1>3, MembersOfAppend DEF EngineTypes
  <1>6. PositionsOf(closing') = PositionsOf(closing) \cup {p}
    <2>1. c.position = p
      OBVIOUS
    <2> HIDE DEF c
    <2> QED
      BY <1>5, <2>1 DEF PositionsOf
  <1>7. Increasing(todo') /\ \A t \in Members(todo') : p < t /\ t \in Int
    BY <1>0, <1>1, <1>2, IncreasingTail DEF WalkInv, Walking, EntriesTyped
  <1>8. p \notin Members(kept) /\ p \notin Members(todo') /\ p \in Int
    <2>1. p \in Members(todo) /\ p \in Int /\ Members(kept) \subseteq Int
      BY <1>0, <1>2 DEF EntriesTyped
    <2> QED
      BY <1>0, <1>1, <1>7, <2>1 DEF WalkInv, Walking
  <1>9. OncePerPosition(closing')
    <2>1. \A x \in Members(closing) : x.position # c.position
      BY <1>0, <1>1, <1>2 DEF WalkInv, Walking
    <2> QED
      BY <1>0, <1>1, <1>3, <2>1, OnceAppend DEF WalkInv, Walking, EngineTypes
  <1>10. EngineTypes' /\ LoopInv'
    BY <1>0, <1>1, <1>2, <1>3 DEF EngineTypes, LoopInv, Busy, Walking
  <1>11. HeldInv'
    BY <1>0, <1>1, <1>4 DEF HeldInv
  <1>12. WalkInv'
    BY <1>0, <1>1, <1>2, <1>5, <1>6, <1>7, <1>8, <1>9 DEF WalkInv, Walking
  <1>13. RowsInv'
    <2>1. [position |-> row.position, event |-> row.event] = c /\ row.position = c.position
          /\ row.event = c.event /\ row.event = at
      OBVIOUS
    <2> HIDE DEF row, c
    <2> QED
      BY <1>0, <1>1, <1>4, <1>5, <2>1 DEF RowsInv
  <1>14. LedgerInv' /\ SeenInv' /\ ValuedInv'
    BY <1>1, StillBusy, StillValued DEF Busy
  <1> QED
    BY <1>10, <1>11, <1>12, <1>13, <1>14 DEF EngineInv

\* engine.py:238-248: what was kept is what is open, what was closed is history.
LEMMA CommitKeeps == ASSUME EngineInv, Engine!Commit PROVE EngineInv'
  <1>0. EngineTypes /\ HeldInv /\ RowsInv /\ LoopInv /\ WalkInv /\ ValuedInv /\ EntriesTyped
    BY EntriesOf DEF EngineInv
  <1>1. /\ pc = "evaluate" /\ pc' = "record" /\ at' = at /\ todo = <<>>
        /\ open' = kept /\ closed' = closed \o closing
        /\ todo' = <<>> /\ kept' = <<>> /\ closing' = <<>>
        /\ UNCHANGED <<events, trades, ledger, failures, history, valued, seen>>
    BY DEF Engine!Commit, Engine!At, Engine!Goto, Engine!NoLocals, Engine!Keep, Engine!Retired
  <1>2. Members(closed') = Members(closed) \cup Members(closing)
    BY <1>0, <1>1, MembersOfConcat DEF EngineTypes
  <1>3. PositionsOf(closed') = PositionsOf(closed) \cup PositionsOf(closing)
    BY <1>2 DEF PositionsOf
  <1>4. /\ Members(open) = Members(kept) \cup PositionsOf(closing)
        /\ Members(kept) \cap PositionsOf(closing) = {}
    BY <1>0, <1>1, MembersOfEmpty DEF WalkInv, Walking, PositionsOf
  <1>5. EngineTypes' /\ LoopInv'
    BY <1>0, <1>1 DEF EngineTypes, LoopInv, Busy, Walking
  <1>6. HeldInv'
    <2>1. OncePerPosition(closed')
      <3>1. \A x \in Members(closed), y \in Members(closing) : x.position # y.position
        <4>1. PositionsOf(closed) \cap PositionsOf(closing) = {}
          BY <1>0, <1>4 DEF HeldInv
        <4> QED
          BY <4>1 DEF PositionsOf
      <3> QED
        BY <1>0, <1>1, <3>1, OnceConcat DEF HeldInv, WalkInv, Walking, EngineTypes
    <2>2. Engine!Opened' = Engine!Opened
      BY <1>1 DEF Engine!Opened
    <2>3. /\ Members(open') \cap PositionsOf(closed') = {}
          /\ Members(open') \cup PositionsOf(closed') = Engine!Opened
      BY <1>0, <1>1, <1>3, <1>4 DEF HeldInv
    <2> QED
      BY <1>0, <1>1, <2>1, <2>2, <2>3 DEF HeldInv, WalkInv, Walking
  <1>7. WalkInv'
    BY <1>1 DEF WalkInv, Walking
  <1>8. RowsInv'
    BY <1>0, <1>1, <1>2, MembersOfEmpty DEF RowsInv, Engine!CloseRows
  <1>9. LedgerInv' /\ SeenInv'
    BY <1>1, StillBusy DEF Busy
  <1>10. ValuedInv'
    <2>1. ASSUME NEW i \in DOMAIN valued, NEW p \in valued[i].of, NEW c \in Members(closed'),
                 c.position = p
          PROVE  valued[i].event < c.event
      <3>1. CASE c \in Members(closed)
        BY <1>0, <2>1, <3>1 DEF ValuedInv
      <3>2. CASE c \in Members(closing)
        <4>1. c.event = at
          BY <1>0, <1>1, <3>2 DEF WalkInv, Walking
        <4>2. valued[i].event <= at /\ valued[i].event # at /\ valued[i].event \in Int /\ at \in Int
          BY <1>0, <1>1 DEF ValuedInv, EntriesTyped
        <4> QED
          BY <4>1, <4>2
      <3> QED
        BY <1>2, <3>1, <3>2
    <2> QED
      BY <1>0, <1>1, <2>1 DEF ValuedInv
  <1> QED
    BY <1>5, <1>6, <1>7, <1>8, <1>9, <1>10 DEF EngineInv

\* engine.py:250-276, _handle_expiration: each position is kept, with a row of its own.
LEMMA ExpireKeeps == ASSUME EngineInv, Engine!Expire PROVE EngineInv'
  <1> DEFINE row == [kind |-> "expiration", event |-> at, position |-> Head(todo)]
  <1>0. EngineTypes /\ HeldInv /\ RowsInv /\ LoopInv
    BY DEF EngineInv
  <1>1. /\ pc = "expire" /\ pc' = pc /\ at' = at /\ todo # <<>>
        /\ kept' = Append(kept, Head(todo)) /\ todo' = Tail(todo) /\ ledger' = Append(ledger, row)
        /\ UNCHANGED <<events, open, closed, closing, trades, failures, history, valued, seen>>
    BY DEF Engine!Expire, Engine!At, Engine!Goto, Engine!RowOf
  <1>2. WalkInv' /\ kept' \in Seq(Step) /\ todo' \in Seq(Step)
    BY <1>1, WalkKeeps DEF Walking
  <1>3. row \in Engine!Row
    <2>1. at \in Step /\ Head(todo) \in Step
      BY <1>0, <1>1, BusyAt, MembersOfTail DEF LoopInv, Busy, EngineTypes
    <2> QED
      BY <2>1, EngineConstants DEF Engine!Row, Step
  <1>4. Members(ledger') = Members(ledger) \cup {row} /\ row.kind # "failure"
    BY <1>0, <1>1, <1>3, MembersOfAppend DEF EngineTypes
  <1>5. EngineTypes' /\ LoopInv'
    BY <1>0, <1>1, <1>2, <1>3 DEF EngineTypes, LoopInv, Busy, Walking
  <1>6. HeldInv'
    BY <1>0, <1>1 DEF HeldInv, Engine!Opened
  <1>7. RowsInv'
    BY <1>0, <1>1 DEF RowsInv, Engine!CloseRows
  <1>8. LedgerInv' /\ SeenInv' /\ ValuedInv'
    BY <1>1, <1>4, StillBusy, StillValued DEF Busy
  <1> QED
    BY <1>2, <1>5, <1>6, <1>7, <1>8 DEF EngineInv

LEMMA RefreshKeeps == ASSUME EngineInv, Engine!Refresh PROVE EngineInv'
  <1>0. EngineTypes /\ HeldInv /\ RowsInv /\ LoopInv /\ WalkInv
    BY DEF EngineInv
  <1>1. /\ pc = "expire" /\ pc' = "record" /\ at' = at /\ todo = <<>> /\ closing = <<>>
        /\ open' = kept /\ todo' = <<>> /\ kept' = <<>> /\ closing' = <<>>
        /\ UNCHANGED <<events, closed, trades, ledger, failures, history, valued, seen>>
    BY <1>0 DEF Engine!Refresh, Engine!At, Engine!Goto, Engine!NoLocals, LoopInv
  <1>2. Members(open') = Members(open) /\ Increasing(open')
    BY <1>0, <1>1, MembersOfEmpty DEF WalkInv, Walking, PositionsOf
  <1>3. EngineTypes' /\ LoopInv'
    BY <1>0, <1>1 DEF EngineTypes, LoopInv, Busy, Walking
  <1>4. HeldInv'
    <2>1. Engine!Opened' = Engine!Opened
      BY <1>1 DEF Engine!Opened
    <2> QED
      BY <1>0, <1>1, <1>2, <2>1 DEF HeldInv
  <1>5. WalkInv'
    BY <1>1 DEF WalkInv, Walking
  <1>6. RowsInv'
    BY <1>0, <1>1 DEF RowsInv, Engine!CloseRows
  <1>7. LedgerInv' /\ SeenInv' /\ ValuedInv'
    BY <1>1, StillBusy, StillValued DEF Busy
  <1> QED
    BY <1>3, <1>4, <1>5, <1>6, <1>7 DEF EngineInv

\* The last line of _process_event: the positions go to the history, the next event is taken.
LEMMA RecordKeeps == ASSUME EngineInv, Engine!Record PROVE EngineInv'
  <1>0. EngineTypes /\ HeldInv /\ RowsInv /\ LoopInv /\ LedgerInv /\ SeenInv /\ ValuedInv /\ EntriesTyped
    BY EntriesOf DEF EngineInv
  <1>1. /\ pc = "record" /\ pc' = "next" /\ at' = at + 1 /\ history' = history \o open
        /\ UNCHANGED <<events, todo, kept, closing, open, closed, trades, ledger, failures, valued, seen>>
    BY DEF Engine!Record, Engine!At, Engine!NextEvent, Engine!loop
  <1>2. at \in Int /\ at + 1 \in 1 .. StreamLength + 1
    BY <1>0, <1>1, BusyAt DEF LoopInv, Busy, Step
  <1>3. EngineTypes'
    BY <1>0, <1>1, <1>2 DEF EngineTypes
  <1>4. LoopInv' /\ WalkInv'
    BY <1>0, <1>1 DEF LoopInv, WalkInv, Busy, Walking
  <1>5. HeldInv'
    <2>1. Engine!Opened' = Engine!Opened
      BY <1>1 DEF Engine!Opened
    <2>2. ASSUME NEW p \in Engine!Opened PROVE p <= at + 1 /\ p # at + 1
      <3>1. p \in Int /\ p <= at
        BY <1>0 DEF HeldInv, EntriesTyped
      <3> QED
        BY <1>2, <3>1
    <2> QED
      BY <1>0, <1>1, <2>1, <2>2 DEF HeldInv
  <1>6. RowsInv'
    BY <1>0, <1>1 DEF RowsInv, Engine!CloseRows
  <1>7. LedgerInv'
    <2>1. \A i \in DOMAIN events : i < at + 1 => i < at \/ i = at
      BY <1>0, <1>2 DEF EntriesTyped
    <2> QED
      BY <1>0, <1>1, <2>1 DEF LedgerInv, Busy
  <1>8. SeenInv'
    BY <1>0, <1>1, <1>2 DEF SeenInv, Busy, Engine!Ordered
  <1>9. ValuedInv'
    <2>1. ASSUME NEW i \in DOMAIN valued PROVE valued[i].event <= at + 1 /\ valued[i].event # at + 1
      <3>1. valued[i].event \in Int /\ valued[i].event <= at
        BY <1>0 DEF ValuedInv, EntriesTyped
      <3> QED
        BY <1>2, <3>1
    <2> QED
      BY <1>0, <1>1, <2>1 DEF ValuedInv
  <1> QED
    BY <1>3, <1>4, <1>5, <1>6, <1>7, <1>8, <1>9 DEF EngineInv

LEMMA BuildResultKeeps == ASSUME EngineInv, Engine!BuildResult PROVE EngineInv'
  <1>0. EngineTypes /\ HeldInv /\ RowsInv /\ LoopInv /\ LedgerInv /\ SeenInv /\ ValuedInv
    BY DEF EngineInv
  <1>1. /\ pc = "next" /\ pc' = "done" /\ at' = at
        /\ UNCHANGED <<events, todo, kept, closing, open, closed, trades, ledger, failures, history,
                       valued, seen>>
    BY DEF Engine!BuildResult, Engine!At, Engine!loop, Engine!books
  <1>2. EngineTypes' /\ LoopInv' /\ WalkInv'
    BY <1>0, <1>1 DEF EngineTypes, LoopInv, WalkInv, Busy, Walking
  <1>3. HeldInv' /\ RowsInv'
    BY <1>0, <1>1 DEF HeldInv, RowsInv, Engine!Opened, Engine!CloseRows
  <1>4. LedgerInv' /\ SeenInv' /\ ValuedInv'
    BY <1>0, <1>1 DEF LedgerInv, SeenInv, ValuedInv, Busy, Engine!Ordered
  <1> QED
    BY <1>2, <1>3, <1>4 DEF EngineInv

\* Every step of the loop keeps the invariant.
LEMMA EngineStep == EngineInv /\ Engine!Next => EngineInv'
  <1> SUFFICES ASSUME EngineInv, Engine!Next PROVE EngineInv'
    OBVIOUS
  <1>1. CASE Engine!LookupRaises
    BY <1>1, LookupRaisesKeeps
  <1>2. CASE Engine!Process
    BY <1>2, ProcessKeeps
  <1>3. CASE Engine!NoEntry
    BY <1>3, NoEntryKeeps
  <1>4. CASE Engine!Enter
    BY <1>4, EnterKeeps
  <1>5. CASE Engine!Hold
    BY <1>5, HoldKeeps
  <1>6. CASE Engine!Close
    BY <1>6, CloseKeeps
  <1>7. CASE Engine!Commit
    BY <1>7, CommitKeeps
  <1>8. CASE Engine!Expire
    BY <1>8, ExpireKeeps
  <1>9. CASE Engine!Refresh
    BY <1>9, RefreshKeeps
  <1>10. CASE Engine!StrategyRaises
    BY <1>10, StrategyRaisesKeeps
  <1>11. CASE Engine!Record
    BY <1>11, RecordKeeps
  <1>12. CASE Engine!BuildResult
    BY <1>12, BuildResultKeeps
  <1> QED
    BY <1>1, <1>2, <1>3, <1>4, <1>5, <1>6, <1>7, <1>8, <1>9, <1>10, <1>11, <1>12 DEF Engine!Next

\* Nothing else writes the engine's variables.
LEMMA EngineRestsStill == EngineInv /\ UNCHANGED engineVars => EngineInv'
  BY DEF EngineInv, EngineTypes, LoopInv, HeldInv, WalkInv, RowsInv, LedgerInv, SeenInv, ValuedInv,
         Busy, Walking, engineVars, Engine!Opened, Engine!CloseRows, Engine!Ordered

-----------------------------------------------------------------------------
(* Numbers and sums                                                          *)

\* A set of natural numbers that is not empty has a first member.
LEMMA FirstOf ==
    ASSUME NEW T, T \subseteq Nat, T # {}
    PROVE  \E x \in T : \A y \in T : x <= y
  <1> DEFINE Less == {ss \in Nat \X Nat : ss[1] < ss[2]}
  <1>1. IsWellFoundedOn(Less, Nat)
    BY NatLessThanWellFounded DEF OpToRel
  <1>2. \A x, y \in T : (y < x => <<y, x>> \in Less) /\ x \in Int /\ y \in Int
    OBVIOUS
  <1> HIDE DEF Less
  <1>3. \E x \in T : \A y \in T : ~ (<<y, x>> \in Less)
    BY <1>1, WFMin, Zenon
  <1>4. PICK x \in T : \A y \in T : ~ (<<y, x>> \in Less)
    BY <1>3
  <1>5. ASSUME NEW y \in T PROVE x <= y
    <2>1. x \in Int /\ y \in Int /\ ~(y < x)
      BY <1>2, <1>4
    <2> QED
      BY <2>1
  <1> QED
    BY <1>5

\* A sum over a function's domain, as the folds of the community modules compute it: one member
\* after another, whichever CHOOSE takes.
Adds(f, it) ==
    it = [s \in SUBSET DOMAIN f |->
             IF s = {} THEN 0 ELSE f[CHOOSE x \in s : TRUE] + it[s \ {CHOOSE x \in s : TRUE}]]
Sum(f) == (CHOOSE it : Adds(f, it))[DOMAIN f]

\* The member taken first.
Picked(s) == CHOOSE x \in s : TRUE

\* The folds of Allocation and Execution add up as CHOOSE takes the members.
LEMMA SumOfIsSum == ASSUME NEW f PROVE Portfolio!SumOf(f) = Sum(f)
  BY Zenon DEF Portfolio!SumOf, Portfolio!FoldFunction, Portfolio!FoldFunctionOnSet,
               Portfolio!MapThenFoldSet, Sum, Adds

LEMMA TotalIsSum == ASSUME NEW f PROVE Order!Total(f) = Sum(f)
  BY Zenon DEF Order!Total, Order!FoldFunction, Order!FoldFunctionOnSet, Order!MapThenFoldSet, Sum, Adds

\* Finitely many natural numbers.
Counted(f) == IsFiniteSet(DOMAIN f) /\ \A x \in DOMAIN f : f[x] \in Nat

\* A part of a finite set has a size, and one less without the member CHOOSE takes.
LEMMA PartsShrink ==
  ASSUME NEW D, IsFiniteSet(D), NEW s \in SUBSET D
  PROVE  /\ IsFiniteSet(s) /\ Cardinality(s) \in Nat
         /\ Cardinality(s) = 0 <=> s = {}
         /\ \A x \in s : Cardinality(s \ {x}) = Cardinality(s) - 1 /\ s \ {x} \in SUBSET D
         /\ s # {} => Picked(s) \in s
  <1>1. IsFiniteSet(s)
    BY FS_Subset
  <1>2. Cardinality(s) \in Nat
    BY <1>1, FS_CardinalityType
  <1>3. Cardinality(s) = 0 <=> s = {}
    BY <1>1, FS_EmptySet
  <1>4. \A x \in s : Cardinality(s \ {x}) = Cardinality(s) - 1
    BY <1>1, FS_RemoveElement
  <1>5. s # {} => Picked(s) \in s
    BY DEF Picked
  <1> QED
    BY <1>1, <1>2, <1>3, <1>4, <1>5

\* Every part of a finite function has a sum: by the least size that had none.
LEMMA SumsUpTo ==
  ASSUME NEW f, Counted(f)
  PROVE  \E it \in [SUBSET DOMAIN f -> Nat] : Adds(f, it)
  <1> DEFINE D == DOMAIN f
             Up(k) == {s \in SUBSET D : Cardinality(s) <= k}
             Next(it, s) == IF s = {} THEN 0 ELSE f[Picked(s)] + it[s \ {Picked(s)}]
             Reached(k) == \E it \in [Up(k) -> Nat] : \A s \in Up(k) : it[s] = Next(it, s)
             Missed == {k \in Nat : ~Reached(k)}
  <1>1. \A s \in SUBSET D : /\ Cardinality(s) \in Nat /\ (Cardinality(s) = 0 <=> s = {})
                            /\ s # {} => /\ Picked(s) \in s /\ s \ {Picked(s)} \in SUBSET D
                                         /\ Cardinality(s \ {Picked(s)}) = Cardinality(s) - 1
    BY PartsShrink DEF Counted
  <1>2. \A x \in D : f[x] \in Nat
    BY DEF Counted
  <1>3. Reached(0)
    <2> DEFINE it == [s \in Up(0) |-> 0]
    <2>1. ASSUME NEW s \in Up(0) PROVE s = {}
      <3>1. s \in SUBSET D /\ Cardinality(s) <= 0
        OBVIOUS
      <3>2. Cardinality(s) \in Nat
        BY <1>1, <3>1
      <3>3. Cardinality(s) = 0
        BY <3>1, <3>2
      <3> QED
        BY <1>1, <3>1, <3>3
    <2>2. it \in [Up(0) -> Nat] /\ \A s \in Up(0) : it[s] = 0
      OBVIOUS
    <2> HIDE DEF it, Up
    <2> QED
      BY <2>1, <2>2
  <1>4. ASSUME NEW n \in Nat, Reached(n) PROVE Reached(n + 1)
    <2>1. PICK it \in [Up(n) -> Nat] : \A s \in Up(n) : it[s] = Next(it, s)
      BY <1>4
    <2> DEFINE more == [s \in Up(n + 1) |-> Next(it, s)]
    <2>2. ASSUME NEW s \in Up(n + 1), s # {}
          PROVE  s \ {Picked(s)} \in Up(n) /\ Picked(s) \in D
      <3>1. s \in SUBSET D /\ Cardinality(s) <= n + 1
        OBVIOUS
      <3>2. Picked(s) \in s /\ s \ {Picked(s)} \in SUBSET D /\ Cardinality(s \ {Picked(s)}) = Cardinality(s) - 1
            /\ Cardinality(s) \in Nat
        BY <1>1, <2>2, <3>1
      <3>3. Cardinality(s \ {Picked(s)}) <= n
        BY <3>1, <3>2
      <3> QED
        BY <3>1, <3>2, <3>3
    <2>3. Up(n) \subseteq Up(n + 1)
      <3>1. ASSUME NEW s \in Up(n) PROVE s \in Up(n + 1)
        <4>1. s \in SUBSET D /\ Cardinality(s) <= n /\ Cardinality(s) \in Nat
          BY <1>1
        <4>2. Cardinality(s) <= n + 1
          BY <4>1
        <4> QED
          BY <4>1, <4>2
      <3> QED
        BY <3>1
    <2> HIDE DEF Up, D
    <2>4. more \in [Up(n + 1) -> Nat]
      <3>1. ASSUME NEW s \in Up(n + 1) PROVE Next(it, s) \in Nat
        <4>1. CASE s = {}
          BY <4>1
        <4>2. CASE s # {}
          <5>1. it[s \ {Picked(s)}] \in Nat /\ f[Picked(s)] \in Nat
            BY <1>2, <2>1, <2>2, <4>2
          <5> QED
            BY <4>2, <5>1
        <4> QED
          BY <4>1, <4>2
      <3> HIDE DEF Next
      <3> QED
        BY <3>1
    <2>5. ASSUME NEW s \in Up(n) PROVE more[s] = it[s]
      BY <2>1, <2>3
    <2>6. ASSUME NEW s \in Up(n + 1) PROVE more[s] = Next(more, s)
      <3>1. more[s] = Next(it, s)
        OBVIOUS
      <3>2. s # {} => more[s \ {Picked(s)}] = it[s \ {Picked(s)}]
        BY <2>2, <2>5
      <3> HIDE DEF more
      <3> QED
        BY <3>1, <3>2
    <2> HIDE DEF more, Next
    <2> QED
      BY <2>4, <2>6
  <1>5. Missed = {}
    <2> SUFFICES ASSUME Missed # {} PROVE FALSE
      OBVIOUS
    <2> HIDE DEF Reached
    <2>1. PICK n \in Missed : \A m \in Missed : n <= m
      <3>1. Missed \subseteq Nat /\ Missed # {}
        OBVIOUS
      <3> HIDE DEF Missed
      <3> QED
        BY <3>1, FirstOf
    <2>2. n \in Nat /\ n # 0 /\ ~Reached(n)
      BY <1>3, <2>1
    <2>3. n - 1 \in Nat /\ ~(n <= n - 1) /\ n = (n - 1) + 1
      BY <2>2
    <2>4. Reached(n - 1)
      BY <2>1, <2>3
    <2>5. Reached((n - 1) + 1)
      BY <1>4, <2>3, <2>4
    <2> QED
      BY <2>2, <2>3, <2>5
  <1>6. Cardinality(D) \in Nat /\ Up(Cardinality(D)) = SUBSET D
    <2>1. IsFiniteSet(D) /\ Cardinality(D) \in Nat
      BY FS_CardinalityType DEF Counted
    <2>2. \A s \in SUBSET D : Cardinality(s) <= Cardinality(D)
      BY <2>1, FS_Subset
    <2> QED
      BY <2>1, <2>2
  <1>7. PICK it \in [SUBSET D -> Nat] : \A s \in SUBSET D : it[s] = Next(it, s)
    <2>1. Reached(Cardinality(D))
      <3> HIDE DEF Reached
      <3> QED
        BY <1>5, <1>6
    <2> HIDE DEF D, Next
    <2> QED
      BY <1>6, <2>1
  <1>8. it = [s \in SUBSET D |-> Next(it, s)]
    <2> HIDE DEF D, Next
    <2> QED
      BY <1>7
  <1>9. Adds(f, it)
    BY <1>8, Zenon DEF Adds, Picked
  <1> QED
    BY <1>7, <1>9

\* What the sums of the parts are, member by member as CHOOSE takes them.
LEMMA AddsIs ==
  ASSUME NEW f, NEW it, Adds(f, it)
  PROVE  \A s \in SUBSET DOMAIN f :
            it[s] = IF s = {} THEN 0 ELSE f[Picked(s)] + it[s \ {Picked(s)}]
  BY Zenon DEF Adds, Picked

\* Where two functions agree their sums do.
LEMMA SumsAgreeOn ==
  ASSUME NEW f, NEW g, NEW i, NEW j, Counted(g), DOMAIN f \subseteq DOMAIN g,
         \A x \in DOMAIN f : f[x] = g[x], Adds(f, i), Adds(g, j)
  PROVE  \A s \in SUBSET DOMAIN f : i[s] = j[s]
  <1> DEFINE D == DOMAIN f
             Differ == {k \in Nat : \E s \in SUBSET D : Cardinality(s) = k /\ i[s] # j[s]}
  <1>1. IsFiniteSet(D)
    BY FS_Subset DEF Counted
  <1>2. \A s \in SUBSET D : /\ Cardinality(s) \in Nat
                            /\ s # {} => /\ Picked(s) \in s /\ s \ {Picked(s)} \in SUBSET D
                                         /\ Cardinality(s \ {Picked(s)}) = Cardinality(s) - 1
    BY <1>1, PartsShrink
  <1>3. \A s \in SUBSET D : /\ i[s] = IF s = {} THEN 0 ELSE f[Picked(s)] + i[s \ {Picked(s)}]
                            /\ j[s] = IF s = {} THEN 0 ELSE g[Picked(s)] + j[s \ {Picked(s)}]
    BY AddsIs
  <1> SUFFICES ASSUME NEW r \in SUBSET D, i[r] # j[r] PROVE FALSE
    OBVIOUS
  <1>4. PICK k \in Differ : \A m \in Differ : k <= m
    <2>1. Differ \subseteq Nat /\ Differ # {}
      BY <1>2
    <2> HIDE DEF Differ
    <2> QED
      BY <2>1, FirstOf
  <1>5. PICK s \in SUBSET D : Cardinality(s) = k /\ i[s] # j[s]
    BY <1>4
  <1>6. s # {}
    BY <1>3, <1>5
  <1>7. Picked(s) \in D /\ s \ {Picked(s)} \in SUBSET D /\ Cardinality(s \ {Picked(s)}) = k - 1 /\ k \in Nat
        /\ k - 1 \in Nat
    <2>1. Picked(s) \in s /\ s \ {Picked(s)} \in SUBSET D /\ Cardinality(s \ {Picked(s)}) = k - 1
      BY <1>2, <1>5, <1>6
    <2>2. k \in Nat /\ k - 1 \in Nat
      <3>1. Cardinality(s \ {Picked(s)}) \in Nat
        BY <1>2, <2>1
      <3> QED
        BY <1>4, <2>1, <3>1
    <2> QED
      BY <2>1, <2>2
  <1>8. k - 1 \notin Differ
    BY <1>4, <1>7
  <1>9. i[s \ {Picked(s)}] = j[s \ {Picked(s)}]
    BY <1>7, <1>8
  <1>10. f[Picked(s)] = g[Picked(s)]
    BY <1>7
  <1> QED
    BY <1>3, <1>5, <1>6, <1>9, <1>10

\* The sum, member by member in any order.
LEMMA SumIs ==
  ASSUME NEW f, Counted(f)
  PROVE  \E it \in [SUBSET DOMAIN f -> Nat] : Adds(f, it) /\ Sum(f) = it[DOMAIN f]
  <1>1. PICK it \in [SUBSET DOMAIN f -> Nat] : Adds(f, it)
    BY SumsUpTo
  <1> DEFINE chosen == CHOOSE i : Adds(f, i)
  <1>2. Adds(f, chosen)
    BY <1>1
  <1>3. Sum(f) = chosen[DOMAIN f]
    BY DEF Sum
  <1> HIDE DEF chosen
  <1>4. \A s \in SUBSET DOMAIN f : chosen[s] = it[s]
    BY <1>1, <1>2, SumsAgreeOn
  <1> QED
    BY <1>1, <1>3, <1>4

Totals(f, it) == it \in [SUBSET DOMAIN f -> Nat] /\ Adds(f, it)

\* Any member may be the one that is taken first.
Takes(f, it) == \A s \in SUBSET DOMAIN f : \A x \in s : it[s] = f[x] + it[s \ {x}]

\* Any member may be taken first: by the least size at which one may not.
LEMMA AnyOrder ==
  ASSUME NEW f, Counted(f), NEW it, Totals(f, it)
  PROVE  Takes(f, it)
  <1> DEFINE D == DOMAIN f
             Wrong(s) == \E x \in s : it[s] # f[x] + it[s \ {x}]
             Bad == {k \in Nat : \E s \in SUBSET D : Cardinality(s) = k /\ Wrong(s)}
  <1>1. IsFiniteSet(D) /\ \A x \in D : f[x] \in Nat
    BY DEF Counted
  <1>2. \A s \in SUBSET D : /\ Cardinality(s) \in Nat
                            /\ s # {} => Picked(s) \in s
                            /\ \A x \in s : s \ {x} \in SUBSET D /\ Cardinality(s \ {x}) = Cardinality(s) - 1
    BY <1>1, PartsShrink
  <1>0. it \in [SUBSET D -> Nat] /\ Adds(f, it)
    BY DEF Totals
  <1>3. \A s \in SUBSET D : s # {} => it[s] = f[Picked(s)] + it[s \ {Picked(s)}]
    BY <1>0, AddsIs
  <1> SUFFICES ASSUME NEW r \in SUBSET D, Wrong(r) PROVE FALSE
    BY DEF Takes
  <1>4. PICK k \in Bad : \A m \in Bad : k <= m
    <2>1. Bad \subseteq Nat /\ Bad # {}
      <3> HIDE DEF Wrong
      <3> QED
        BY <1>2
    <2> HIDE DEF Bad
    <2> QED
      BY <2>1, FirstOf
  <1>5. PICK s \in SUBSET D : Cardinality(s) = k /\ Wrong(s)
    BY <1>4
  <1>6. PICK x \in s : it[s] # f[x] + it[s \ {x}]
    BY <1>5
  <1> DEFINE y == Picked(s)
             s1 == s \ {x}
             s2 == s \ {y}
             s3 == s \ {x, y}
  <1>7. y \in s /\ it[s] = f[y] + it[s2] /\ x # y
    <2>1. s # {}
      BY <1>6
    <2> QED
      BY <1>2, <1>3, <1>6, <2>1
  <1>8. /\ s1 \in SUBSET D /\ s2 \in SUBSET D /\ s3 \in SUBSET D
        /\ y \in s1 /\ x \in s2 /\ s1 \ {y} = s3 /\ s2 \ {x} = s3
    BY <1>6, <1>7
  <1>9. k - 1 \in Nat /\ Cardinality(s1) = k - 1 /\ Cardinality(s2) = k - 1
    <2>1. Cardinality(s1) = k - 1 /\ Cardinality(s2) = k - 1
      BY <1>2, <1>5, <1>6, <1>7
    <2>2. Cardinality(s1) \in Nat
      BY <1>2, <1>8
    <2> QED
      BY <2>1, <2>2
  <1>10. k - 1 \notin Bad
    BY <1>4, <1>9
  <1> HIDE DEF y, s1, s2, s3
  <1>11. ~Wrong(s1) /\ ~Wrong(s2)
    BY <1>8, <1>9, <1>10
  <1>12. it[s1] = f[y] + it[s3] /\ it[s2] = f[x] + it[s3]
    BY <1>8, <1>11
  <1>13. f[x] \in Nat /\ f[y] \in Nat /\ it[s3] \in Nat
    BY <1>0, <1>1, <1>6, <1>7, <1>8
  <1>14. it[s] = f[x] + it[s1]
    BY <1>7, <1>12, <1>13
  <1> QED
    BY <1>6, <1>14 DEF s1

\* What a sum is: nothing of nothing, and each member adds itself to the sum of the others.
Without(f, x) == [y \in DOMAIN f \ {x} |-> f[y]]

\* What is left without one member is counted too.
LEMMA CountedWithout ==
  ASSUME NEW f, Counted(f), NEW x
  PROVE  Counted(Without(f, x)) /\ DOMAIN Without(f, x) = DOMAIN f \ {x}
  <1>1. DOMAIN Without(f, x) = DOMAIN f \ {x} /\ \A y \in DOMAIN f \ {x} : Without(f, x)[y] = f[y]
    BY DEF Without
  <1>2. IsFiniteSet(DOMAIN f \ {x})
    BY FS_RemoveElement DEF Counted
  <1> QED
    BY <1>1, <1>2 DEF Counted

\* The sum of natural numbers is one.
LEMMA SumIsNat == ASSUME NEW f, Counted(f) PROVE Sum(f) \in Nat
  <1>1. PICK it \in [SUBSET DOMAIN f -> Nat] : Sum(f) = it[DOMAIN f]
    BY SumIs
  <1>2. DOMAIN f \in SUBSET DOMAIN f
    OBVIOUS
  <1> QED
    BY <1>1, <1>2

\* Nothing adds up to nothing.
LEMMA SumOfNone == ASSUME NEW f, DOMAIN f = {} PROVE Sum(f) = 0
  <1>1. Counted(f)
    BY FS_EmptySet DEF Counted
  <1>2. PICK it \in [SUBSET DOMAIN f -> Nat] : Adds(f, it) /\ Sum(f) = it[DOMAIN f]
    BY <1>1, SumIs
  <1>3. DOMAIN f \in SUBSET DOMAIN f
    OBVIOUS
  <1>4. it[DOMAIN f] = IF DOMAIN f = {} THEN 0
                       ELSE f[Picked(DOMAIN f)] + it[DOMAIN f \ {Picked(DOMAIN f)}]
    BY <1>2, <1>3, AddsIs
  <1> QED
    BY <1>2, <1>4

\* Two functions alike have one sum.
LEMMA SumAlike ==
  ASSUME NEW f, NEW g, Counted(g), DOMAIN f = DOMAIN g, \A x \in DOMAIN f : f[x] = g[x]
  PROVE  Sum(f) = Sum(g)
  <1>1. Counted(f)
    BY DEF Counted
  <1>2. PICK i \in [SUBSET DOMAIN f -> Nat] : Adds(f, i) /\ Sum(f) = i[DOMAIN f]
    BY <1>1, SumIs
  <1>3. PICK j \in [SUBSET DOMAIN g -> Nat] : Adds(g, j) /\ Sum(g) = j[DOMAIN g]
    BY SumIs
  <1>4. \A s \in SUBSET DOMAIN f : i[s] = j[s]
    BY <1>2, <1>3, SumsAgreeOn
  <1>5. i[DOMAIN f] = j[DOMAIN f]
    BY <1>4
  <1> QED
    BY <1>2, <1>3, <1>5

\* A sum is any of its members and the sum of the rest.
LEMMA SumOfMore ==
  ASSUME NEW f, Counted(f), NEW x \in DOMAIN f
  PROVE  Sum(f) = f[x] + Sum(Without(f, x))
  <1> DEFINE g == Without(f, x)
  <1>1. Counted(g) /\ DOMAIN g = DOMAIN f \ {x} /\ \A y \in DOMAIN g : g[y] = f[y]
    BY CountedWithout DEF Without
  <1> HIDE DEF g
  <1>2. PICK i \in [SUBSET DOMAIN g -> Nat] : Adds(g, i) /\ Sum(g) = i[DOMAIN g]
    BY <1>1, SumIs
  <1>3. PICK j \in [SUBSET DOMAIN f -> Nat] : Adds(f, j) /\ Sum(f) = j[DOMAIN f]
    BY SumIs
  <1>4. j[DOMAIN f] = f[x] + j[DOMAIN f \ {x}]
    <2>1. Takes(f, j)
      <3>1. Totals(f, j)
        BY <1>3 DEF Totals
      <3> QED
        BY <3>1, AnyOrder
    <2>2. DOMAIN f \in SUBSET DOMAIN f
      OBVIOUS
    <2> QED
      BY <2>1, <2>2 DEF Takes
  <1>5. \A s \in SUBSET DOMAIN g : i[s] = j[s]
    BY <1>1, <1>2, <1>3, SumsAgreeOn
  <1>6. i[DOMAIN g] = j[DOMAIN f \ {x}]
    BY <1>1, <1>5
  <1> QED
    BY <1>2, <1>3, <1>4, <1>6 DEF g

\* Smaller members, or fewer, have a smaller sum.
LEMMA SumAtMost ==
  ASSUME NEW f, NEW g, Counted(f), Counted(g), DOMAIN f \subseteq DOMAIN g,
         \A x \in DOMAIN f : f[x] <= g[x]
  PROVE  /\ Sum(f) <= Sum(g)
         /\ (\E x \in DOMAIN f : f[x] < g[x]) => Sum(f) < Sum(g)
  <1> DEFINE Under(h, k) == /\ Counted(h) /\ Counted(k) /\ DOMAIN h \subseteq DOMAIN k
                            /\ \A x \in DOMAIN h : h[x] <= k[x]
             Less(h, k) == /\ Sum(h) <= Sum(k)
                           /\ (\E x \in DOMAIN h : h[x] < k[x]) => Sum(h) < Sum(k)
             Bad == {n \in Nat : \E h, k : Under(h, k) /\ Cardinality(DOMAIN k) = n /\ ~Less(h, k)}
  <1> SUFFICES ASSUME ~Less(f, g) PROVE FALSE
    OBVIOUS
  <1>1. \A k : Counted(k) => Cardinality(DOMAIN k) \in Nat
    BY FS_CardinalityType DEF Counted
  <1>2. PICK n \in Bad : \A m \in Bad : n <= m
    <2>1. Bad \subseteq Nat
      OBVIOUS
    <2>2. Under(f, g)
      OBVIOUS
    <2> HIDE DEF Less, Under
    <2>3. Cardinality(DOMAIN g) \in Bad
      BY <1>1, <2>2
    <2> HIDE DEF Bad
    <2> QED
      BY <2>1, <2>3, FirstOf
  <1>3. PICK h, k : Under(h, k) /\ Cardinality(DOMAIN k) = n /\ ~Less(h, k)
    <2> HIDE DEF Less, Under
    <2> QED
      BY <1>2
  <1>4. DOMAIN k # {}
    <2> SUFFICES ASSUME DOMAIN k = {} PROVE FALSE
      OBVIOUS
    <2>1. DOMAIN h = {}
      BY <1>3
    <2>2. Sum(h) = 0 /\ Sum(k) = 0
      BY <2>1, SumOfNone
    <2> QED
      BY <1>3, <2>1, <2>2
  <1>5. PICK x \in DOMAIN k : TRUE
    BY <1>4
  <1> DEFINE h1 == Without(h, x)
             k1 == Without(k, x)
  <1>6. /\ Counted(h1) /\ DOMAIN h1 = DOMAIN h \ {x} /\ \A y \in DOMAIN h1 : h1[y] = h[y]
        /\ Counted(k1) /\ DOMAIN k1 = DOMAIN k \ {x} /\ \A y \in DOMAIN k1 : k1[y] = k[y]
    BY <1>3, CountedWithout DEF Without
  <1>7. Sum(k) = k[x] + Sum(k1) /\ Sum(k) \in Nat /\ Sum(k1) \in Nat /\ Sum(h) \in Nat /\ Sum(h1) \in Nat
    BY <1>3, <1>6, SumOfMore, SumIsNat
  <1>8. Sum(h) = (IF x \in DOMAIN h THEN h[x] ELSE 0) + Sum(h1)
    <2>1. CASE x \in DOMAIN h
      BY <1>3, <2>1, SumOfMore
    <2>2. CASE x \notin DOMAIN h
      <3>1. Sum(h1) = Sum(h)
        BY <1>3, <1>6, <2>2, SumAlike
      <3> QED
        BY <1>7, <2>2, <3>1
    <2> QED
      BY <2>1, <2>2
  <1> HIDE DEF h1, k1
  <1>9. Under(h1, k1)
    BY <1>3, <1>6
  <1>10. Cardinality(DOMAIN k1) = n - 1 /\ n - 1 \in Nat /\ ~(n <= n - 1)
    <2>1. Cardinality(DOMAIN k1) = n - 1
      BY <1>3, <1>5, <1>6, FS_RemoveElement DEF Counted
    <2>2. Cardinality(DOMAIN k1) \in Nat /\ n \in Nat
      BY <1>1, <1>2, <1>6
    <2> QED
      BY <2>1, <2>2
  <1>11. Less(h1, k1)
    <2> HIDE DEF Less, Under
    <2> QED
      BY <1>2, <1>9, <1>10
  <1>12. k[x] \in Nat /\ (x \in DOMAIN h => h[x] \in Nat /\ h[x] <= k[x])
    BY <1>3, <1>5 DEF Counted
  <1>13. Sum(h) <= Sum(k)
    BY <1>7, <1>8, <1>11, <1>12
  <1>14. ASSUME NEW y \in DOMAIN h, h[y] < k[y] PROVE Sum(h) < Sum(k)
    <2>1. CASE y = x
      BY <1>7, <1>8, <1>11, <1>12, <1>14, <2>1
    <2>2. CASE y # x
      <3>1. y \in DOMAIN h1 /\ h1[y] < k1[y]
        BY <1>3, <1>6, <1>14, <2>2
      <3>2. Sum(h1) < Sum(k1)
        BY <1>11, <3>1
      <3> QED
        BY <1>7, <1>8, <1>12, <3>2
    <2> QED
      BY <2>1, <2>2
  <1> QED
    BY <1>3, <1>13, <1>14

-----------------------------------------------------------------------------
(* Running along an order                                                    *)

\* What is computed from place to place, from a and by g, exists.
Runs(N, V, a, g, u) == u \in [0 .. N -> V] /\ u[0] = a /\ \A n \in 1 .. N : u[n] = g[n][u[n - 1]]

\* A run of N steps exists, whatever each step does: by the first place not reached.
LEMMA RunExists ==
  ASSUME NEW N \in Nat, NEW V, NEW a \in V, NEW g \in [1 .. N -> [V -> V]]
  PROVE  \E u : Runs(N, V, a, g, u)
  <1> DEFINE Reached(n) == \E u \in [0 .. n -> V] : u[0] = a /\ \A k \in 1 .. n : u[k] = g[k][u[k - 1]]
             Missed == {n \in 0 .. N : ~Reached(n)}
  <1>1. Reached(0)
    <2> DEFINE none == [k \in 0 .. 0 |-> a]
    <2>1. none \in [0 .. 0 -> V] /\ none[0] = a /\ 1 .. 0 = {}
      OBVIOUS
    <2> HIDE DEF none
    <2> QED
      BY <2>1
  <1>2. ASSUME NEW n \in 1 .. N, Reached(n - 1) PROVE Reached(n)
    <2>1. PICK u \in [0 .. n - 1 -> V] : u[0] = a /\ \A k \in 1 .. n - 1 : u[k] = g[k][u[k - 1]]
      BY <1>2
    <2> DEFINE w == [k \in 0 .. n |-> IF k = n THEN g[n][u[n - 1]] ELSE u[k]]
    <2>2. n \in Nat /\ n # 0 /\ n - 1 \in 0 .. n - 1
      OBVIOUS
    <2>3. g[n][u[n - 1]] \in V
      BY <2>1, <2>2
    <2>4. w \in [0 .. n -> V] /\ w[0] = a
      BY <2>1, <2>2, <2>3
    <2>5. \A k \in 0 .. n - 1 : w[k] = u[k]
      BY <2>2
    <2>6. w[n] = g[n][u[n - 1]]
      BY <2>2
    <2> HIDE DEF w
    <2>7. ASSUME NEW k \in 1 .. n PROVE w[k] = g[k][w[k - 1]]
      <3>1. CASE k = n
        BY <2>2, <2>5, <2>6, <3>1
      <3>2. CASE k # n
        <4>1. k \in 1 .. n - 1 /\ k \in 0 .. n - 1 /\ k - 1 \in 0 .. n - 1
          BY <2>2, <3>2
        <4> QED
          BY <2>1, <2>5, <4>1
      <3> QED
        BY <3>1, <3>2
    <2> QED
      BY <2>4, <2>7
  <1> HIDE DEF Reached
  <1>3. Missed = {}
    <2> SUFFICES ASSUME Missed # {} PROVE FALSE
      OBVIOUS
    <2>1. PICK n \in Missed : \A m \in Missed : n <= m
      <3>1. Missed \subseteq Nat /\ Missed # {}
        OBVIOUS
      <3> HIDE DEF Missed
      <3> QED
        BY <3>1, FirstOf
    <2>2. n \in 1 .. N /\ n - 1 \in 0 .. N /\ ~(n <= n - 1) /\ ~Reached(n)
      BY <1>1, <2>1
    <2> QED
      BY <1>2, <2>1, <2>2
  <1>4. Reached(N)
    BY <1>3
  <1> QED
    BY <1>4 DEF Reached, Runs

\* What never falls from one place to the next never falls.
LEMMA Grows ==
  ASSUME NEW N \in Nat, NEW u \in [0 .. N -> Int], \A n \in 1 .. N : u[n - 1] <= u[n],
         NEW m \in 0 .. N, NEW n \in 0 .. N, m <= n
  PROVE  u[m] <= u[n]
  <1> DEFINE Fallen == {k \in m .. N : ~(u[m] <= u[k])}
  <1> SUFFICES ASSUME ~(u[m] <= u[n]) PROVE FALSE
    OBVIOUS
  <1>1. PICK k \in Fallen : \A j \in Fallen : k <= j
    <2>1. Fallen \subseteq Nat
      OBVIOUS
    <2>2. n \in Fallen
      OBVIOUS
    <2> HIDE DEF Fallen
    <2> QED
      BY <2>1, <2>2, FirstOf
  <1>2. k \in m .. N /\ ~(u[m] <= u[k]) /\ k # m
    BY <1>1
  <1>3. k - 1 \in m .. N /\ k \in 1 .. N /\ ~(k <= k - 1)
    BY <1>2
  <1>4. u[m] <= u[k - 1]
    BY <1>1, <1>3
  <1>5. u[k - 1] <= u[k] /\ u[m] \in Int /\ u[k - 1] \in Int /\ u[k] \in Int
    BY <1>2, <1>3
  <1> QED
    BY <1>2, <1>4, <1>5

\* The part of f on the first n places of h.
Part(f, h, n) == [x \in {y \in DOMAIN f : \E k \in 1 .. n : h[k] = y} |-> f[x]]

\* The running sum along h is the sum of that part.
AddsAlong(N, h, f, u) ==
    /\ \A j, k \in 1 .. N : h[j] = h[k] => j = k
    /\ u \in [0 .. N -> Int] /\ u[0] = 0
    /\ \A n \in 1 .. N : u[n] = u[n - 1] + (IF h[n] \in DOMAIN f THEN f[h[n]] ELSE 0)

\* A running total over distinct members is the sum of those met so far.
LEMMA SumAlong ==
  ASSUME NEW N \in Nat, NEW h, NEW f, Counted(f), NEW u, AddsAlong(N, h, f, u)
  PROVE  \A n \in 0 .. N : Sum(Part(f, h, n)) = u[n]
  <1> DEFINE Dom(n) == {y \in DOMAIN f : \E k \in 1 .. n : h[k] = y}
             Missed == {n \in 0 .. N : Sum(Part(f, h, n)) # u[n]}
  <1>0. /\ \A j, k \in 1 .. N : h[j] = h[k] => j = k
        /\ u \in [0 .. N -> Int] /\ u[0] = 0
        /\ \A n \in 1 .. N : u[n] = u[n - 1] + (IF h[n] \in DOMAIN f THEN f[h[n]] ELSE 0)
    BY DEF AddsAlong
  <1>1. ASSUME NEW n \in 0 .. N
        PROVE  /\ Counted(Part(f, h, n)) /\ DOMAIN Part(f, h, n) = Dom(n)
               /\ \A x \in Dom(n) : Part(f, h, n)[x] = f[x]
    <2>1. DOMAIN Part(f, h, n) = Dom(n) /\ \A x \in Dom(n) : Part(f, h, n)[x] = f[x]
      BY DEF Part
    <2>2. Dom(n) \in SUBSET DOMAIN f
      OBVIOUS
    <2> HIDE DEF Dom
    <2>3. IsFiniteSet(Dom(n))
      BY <2>2, FS_Subset DEF Counted
    <2> QED
      BY <2>1, <2>2, <2>3 DEF Counted
  <1>2. Sum(Part(f, h, 0)) = u[0]
    <2>1. Dom(0) = {}
      OBVIOUS
    <2>2. 0 \in 0 .. N
      OBVIOUS
    <2> QED
      BY <1>0, <1>1, <2>1, <2>2, SumOfNone
  <1>3. ASSUME NEW n \in 1 .. N, Sum(Part(f, h, n - 1)) = u[n - 1] PROVE Sum(Part(f, h, n)) = u[n]
    <2>1. n \in 0 .. N /\ n - 1 \in 0 .. N
      OBVIOUS
    <2>2. Dom(n) = IF h[n] \in DOMAIN f THEN Dom(n - 1) \cup {h[n]} ELSE Dom(n - 1)
      <3>1. \A k \in 1 .. n : k = n \/ k \in 1 .. n - 1
        OBVIOUS
      <3>2. 1 .. n - 1 \subseteq 1 .. n /\ n \in 1 .. n
        OBVIOUS
      <3> QED
        BY <3>1, <3>2
    <2>3. h[n] \notin Dom(n - 1)
      <3>1. \A k \in 1 .. n - 1 : k \in 1 .. N /\ k # n
        OBVIOUS
      <3> QED
        BY <1>0, <3>1
    <2>4. /\ Counted(Part(f, h, n)) /\ DOMAIN Part(f, h, n) = Dom(n)
          /\ \A x \in Dom(n) : Part(f, h, n)[x] = f[x]
      BY <1>1, <2>1
    <2>5. /\ Counted(Part(f, h, n - 1)) /\ DOMAIN Part(f, h, n - 1) = Dom(n - 1)
          /\ \A x \in Dom(n - 1) : Part(f, h, n - 1)[x] = f[x]
      BY <1>1, <2>1
    <2> DEFINE p == Part(f, h, n)
               q == Part(f, h, n - 1)
    <2> HIDE DEF Dom, p, q
    <2>6. CASE h[n] \in DOMAIN f
      <3>1. h[n] \in DOMAIN p /\ p[h[n]] = f[h[n]]
        BY <2>2, <2>4, <2>6 DEF p
      <3>2. Sum(p) = p[h[n]] + Sum(Without(p, h[n]))
        BY <2>4, <3>1, SumOfMore DEF p
      <3>3. DOMAIN Without(p, h[n]) = DOMAIN q
        BY <2>2, <2>3, <2>4, <2>5, <2>6 DEF p, q, Without
      <3>4. \A x \in DOMAIN q : Without(p, h[n])[x] = q[x]
        BY <2>2, <2>3, <2>4, <2>5, <2>6 DEF p, q, Without
      <3>5. Sum(Without(p, h[n])) = Sum(q)
        BY <2>5, <3>3, <3>4, SumAlike DEF q
      <3>6. u[n] = u[n - 1] + f[h[n]] /\ u[n - 1] \in Int /\ f[h[n]] \in Nat
        BY <1>0, <2>1, <2>6 DEF Counted
      <3> QED
        BY <1>3, <3>1, <3>2, <3>5, <3>6 DEF p, q
    <2>7. CASE h[n] \notin DOMAIN f
      <3>1. DOMAIN p = DOMAIN q /\ \A x \in DOMAIN p : p[x] = q[x]
        BY <2>2, <2>4, <2>5, <2>7 DEF p, q
      <3>2. Sum(p) = Sum(q)
        BY <2>5, <3>1, SumAlike DEF q
      <3>3. u[n] = u[n - 1]
        BY <1>0, <2>1, <2>7
      <3> QED
        BY <1>3, <3>2, <3>3 DEF p, q
    <2> QED
      BY <2>6, <2>7
  <1>4. Missed = {}
    <2> SUFFICES ASSUME Missed # {} PROVE FALSE
      OBVIOUS
    <2>1. PICK n \in Missed : \A m \in Missed : n <= m
      <3>1. Missed \subseteq Nat
        OBVIOUS
      <3>2. Missed # {}
        OBVIOUS
      <3> HIDE DEF Missed
      <3> QED
        BY <3>1, <3>2, FirstOf
    <2>2. n \in 1 .. N /\ n - 1 \in 0 .. N /\ ~(n <= n - 1) /\ Sum(Part(f, h, n)) # u[n]
      BY <1>2, <2>1
    <2>3. Sum(Part(f, h, n - 1)) = u[n - 1]
      BY <2>1, <2>2
    <2> QED
      BY <1>3, <2>2, <2>3
  <1> QED
    BY <1>4

-----------------------------------------------------------------------------
(* Places in an order                                                        *)

\* The members of D up to i, by the strict order R.
UpTo(D, R, i) == {j \in D : j = i \/ <<j, i>> \in R}
\* R orders D: no member is before itself, and of two one is before the other.
Orders(D, R) ==
    /\ \A i \in D : <<i, i>> \notin R
    /\ \A i, j, k \in D : <<i, j>> \in R /\ <<j, k>> \in R => <<i, k>> \in R
    /\ \A i, j \in D : i = j \/ <<i, j>> \in R \/ <<j, i>> \in R

\* A finite set in order has one member on each place, and an earlier member has an earlier place.
LEMMA PlacesByOrder ==
  ASSUME NEW D, NEW R, IsFiniteSet(D), Orders(D, R)
  PROVE  /\ \A i \in D : Cardinality(UpTo(D, R, i)) \in 1 .. Cardinality(D)
         /\ \A i, j \in D : <<j, i>> \in R => Cardinality(UpTo(D, R, j)) < Cardinality(UpTo(D, R, i))
         /\ \A i, j \in D : Cardinality(UpTo(D, R, i)) = Cardinality(UpTo(D, R, j)) => i = j
         /\ \A k \in 1 .. Cardinality(D) : \E i \in D : Cardinality(UpTo(D, R, i)) = k
  <1> DEFINE n == Cardinality(D)
             place(i) == Cardinality(UpTo(D, R, i))
  <1>1. n \in Nat
    BY FS_CardinalityType
  <1>2. \A i \in D : i \in UpTo(D, R, i) /\ UpTo(D, R, i) \subseteq D
    BY DEF UpTo
  <1>3. \A i \in D : IsFiniteSet(UpTo(D, R, i)) /\ place(i) \in Nat /\ place(i) <= n
    BY <1>2, FS_Subset, FS_CardinalityType
  <1>4. \A i \in D : place(i) # 0
    BY <1>2, <1>3, FS_EmptySet
  <1>5. \A i \in D : place(i) \in 1 .. n
    <2> TAKE i \in D
    <2>1. place(i) \in Nat /\ place(i) <= n /\ place(i) # 0
      BY <1>3, <1>4
    <2> HIDE DEF place, n
    <2> QED
      BY <1>1, <2>1
  <1>6. ASSUME NEW i \in D, NEW j \in D, <<j, i>> \in R PROVE place(j) < place(i)
    <2>1. UpTo(D, R, j) \subseteq UpTo(D, R, i)
      BY <1>6 DEF UpTo, Orders
    <2>2. i \notin UpTo(D, R, j)
      BY <1>6 DEF UpTo, Orders
    <2>3. UpTo(D, R, i) # UpTo(D, R, j)
      BY <1>2, <2>2
    <2>4. place(j) <= place(i) /\ place(j) # place(i)
      BY <1>3, <2>1, <2>3, FS_Subset
    <2>5. place(i) \in Nat /\ place(j) \in Nat
      BY <1>3
    <2> HIDE DEF place
    <2> QED
      BY <2>4, <2>5
  <1>7. \A i, j \in D : place(i) = place(j) => i = j
    <2> TAKE i, j \in D
    <2>1. i = j \/ <<i, j>> \in R \/ <<j, i>> \in R
      BY DEF Orders
    <2>2. place(i) \in Nat /\ place(j) \in Nat
      BY <1>3
    <2>3. (<<i, j>> \in R => place(i) < place(j)) /\ (<<j, i>> \in R => place(j) < place(i))
      BY <1>6
    <2> HIDE DEF place
    <2> QED
      BY <2>1, <2>2, <2>3
  <1>8. \A k \in 1 .. n : \E i \in D : place(i) = k
    <2> DEFINE f == [i \in D |-> place(i)]
    <2>1. f \in Injection(D, 1 .. n)
      <3> HIDE DEF place, n
      <3> QED
        BY <1>5, <1>7 DEF Injection, IsInjective
    <2>2. IsFiniteSet(1 .. n) /\ Cardinality(1 .. n) = n
      <3>1. /\ IsFiniteSet(1 .. n)
            /\ Cardinality(1 .. n) = IF 1 > n THEN 0 ELSE n - 1 + 1
        <4> HIDE DEF n
        <4> QED
          BY <1>1, FS_Interval
      <3> HIDE DEF n
      <3> QED
        BY <1>1, <3>1
    <2>3. f \in Surjection(D, 1 .. n)
      <3> HIDE DEF f
      <3> QED
        BY <2>1, <2>2, FS_Injection
    <2>4. \A k \in 1 .. n : \E i \in D : f[i] = k
      <3> HIDE DEF f, n
      <3> QED
        BY <2>3 DEF Surjection
    <2> HIDE DEF place, n
    <2> QED
      BY <2>4
  <1> QED
    BY <1>5, <1>6, <1>7, <1>8

-----------------------------------------------------------------------------
(* The orders: however often one is retried, its legs are filled once        *)

\* What is asked for is what is not had, and no more than the order; all or none of a leg that
\* says so; no attempt fills less than a leg takes.
OrderInv ==
    /\ order \in Requests
    /\ DOMAIN asked = DOMAIN order /\ DOMAIN got = DOMAIN order /\ DOMAIN result.legs \subseteq DOMAIN order
    /\ \A l \in DOMAIN order :
        /\ asked[l] \in Nat /\ got[l] \in Nat /\ got[l] + asked[l] = order[l].quantity
        /\ order[l].allOrNone => got[l] = 0 \/ asked[l] = 0
    /\ \A l \in DOMAIN result.legs :
          result.legs[l].filled \in {0} \cup order[l].minimum .. order[l].quantity

\* What the orders' proofs use of the constants' types.
LEMMA OrderConstants ==
    /\ \A request \in Requests : \A l \in DOMAIN request : request[l] \in Order!LegType
    /\ Ratios \subseteq Int
  BY BacktestConstants DEF BacktestConstants, Order!ConstantsType

\* The largest and the smallest of two.
LEMMA MaxOfTwo ==
    ASSUME NEW a \in Int, NEW b \in Int
    PROVE  Order!Max({a, b}) = IF a >= b THEN a ELSE b
  <1> DEFINE m == IF a >= b THEN a ELSE b
  <1>1. m \in {a, b} /\ \A y \in {a, b} : m >= y
    OBVIOUS
  <1>2. \A x \in {a, b} : (\A y \in {a, b} : x >= y) => x = m
    OBVIOUS
  <1> HIDE DEF m
  <1>3. Order!Max({a, b}) = m
    BY <1>1, <1>2 DEF Order!Max
  <1> QED
    BY <1>3 DEF m

LEMMA MinOfTwo ==
    ASSUME NEW a \in Int, NEW b \in Int
    PROVE  Order!Min({a, b}) = IF a <= b THEN a ELSE b
  <1> DEFINE m == IF a <= b THEN a ELSE b
  <1>1. m \in {a, b} /\ \A y \in {a, b} : m <= y
    OBVIOUS
  <1>2. \A x \in {a, b} : (\A y \in {a, b} : x <= y) => x = m
    OBVIOUS
  <1> HIDE DEF m
  <1>3. Order!Min({a, b}) = m
    BY <1>1, <1>2 DEF Order!Min
  <1> QED
    BY <1>3 DEF m

\* A fraction is clamped to none, a half or the whole.
LEMMA ClampIs == ASSUME NEW r \in Int PROVE Order!Clamp(r, 0, 2) \in {0, 1, 2}
  <1>1. Order!Min({2, r}) = IF 2 <= r THEN 2 ELSE r
    BY MinOfTwo
  <1>2. Order!Min({2, r}) \in Int
    BY <1>1
  <1>3. Order!Max({0, Order!Min({2, r})}) = IF 0 >= Order!Min({2, r}) THEN 0 ELSE Order!Min({2, r})
    BY <1>2, MaxOfTwo
  <1> QED
    BY <1>1, <1>3 DEF Order!Clamp

\* fill_models.py:106-109: a share of what is asked for, at most all of it.
LEMMA ShareIsPart ==
    ASSUME NEW quantity \in Nat, NEW r \in Int
    PROVE  Order!Share(quantity, r) \in 0 .. quantity
  <1>1. Order!Clamp(r, 0, 2) \in {0, 1, 2}
    BY ClampIs
  <1>2. ASSUME NEW k \in {0, 1, 2} PROVE (quantity * k) \div 2 \in 0 .. quantity
    OBVIOUS
  <1> QED
    BY <1>1, <1>2 DEF Order!Share

\* fill_models.py:106-121: what a leg is filled of what it asks for.
LEMMA FillIsPart ==
    ASSUME NEW leg \in Order!LegType, NEW quantity \in Nat, NEW r \in Int, NEW q
    PROVE  LET f == Order!Fill(leg, quantity, q, r)
           IN  /\ f.filled \in 0 .. quantity /\ f.remaining = quantity - f.filled
               /\ f.filled # 0 => f.filled >= leg.minimum /\ (leg.allOrNone => f.filled = quantity)
  <1>1. /\ Order!FilledQuantity(leg, quantity, r) \in 0 .. quantity
        /\ Order!FilledQuantity(leg, quantity, r) # 0 =>
              /\ Order!FilledQuantity(leg, quantity, r) >= leg.minimum
              /\ leg.allOrNone => Order!FilledQuantity(leg, quantity, r) = quantity
    <2>1. Order!Share(quantity, r) \in 0 .. quantity
      BY ShareIsPart
    <2>2. leg.minimum \in Nat
      BY DEF Order!LegType
    <2> QED
      BY <2>1, <2>2 DEF Order!FilledQuantity
  <1>2. CASE q = Absent \/ Order!PriceOf(q) = Absent
    <2>1. Order!Fill(leg, quantity, q, r) =
              [quote |-> q, filled |-> 0, remaining |-> quantity, price |-> Absent]
      BY <1>2 DEF Order!Fill
    <2> QED
      BY <2>1
  <1>3. CASE ~(q = Absent \/ Order!PriceOf(q) = Absent)
    <2> DEFINE n == Order!FilledQuantity(leg, quantity, r)
    <2>1. Order!Fill(leg, quantity, q, r) =
              [quote |-> q, filled |-> n, remaining |-> quantity - n,
               price |-> IF n > 0 THEN Order!FillPrice(leg, q) ELSE Absent]
      BY <1>3 DEF Order!Fill
    <2> HIDE DEF n
    <2>2. Order!Fill(leg, quantity, q, r).filled = n /\ Order!Fill(leg, quantity, q, r).remaining = quantity - n
      BY <2>1
    <2> USE DEF n
    <2> QED
      BY <1>1, <2>2
  <1> QED
    BY <1>2, <1>3

LEMMA OrderInit == Order!Init => OrderInv
  <1> SUFFICES ASSUME Order!Init PROVE OrderInv
    OBVIOUS
  <1>1. \A l \in DOMAIN order : order[l] \in Order!LegType
    BY OrderConstants DEF Order!Init
  <1>2. \A l \in DOMAIN order : order[l].quantity \in Nat
    BY <1>1 DEF Order!LegType
  <1>3. DOMAIN result.legs = {}
    BY DEF Order!Init, Order!None
  <1> QED
    BY <1>2, <1>3 DEF Order!Init, OrderInv

\* execute: a leg that is asked for gets a part of it, the next attempt asks for the rest.
LEMMA ExecuteKeeps ==
    ASSUME OrderInv, NEW t, NEW tapes, NEW ratios \in [DOMAIN order -> Ratios],
           Order!Execute(t, tapes, ratios)
    PROVE  OrderInv'
  <1> DEFINE wanted == {l \in DOMAIN order : asked[l] > 0}
             fill(l) == Order!Fill(order[l], asked[l], Order!Select(tapes[l], t), ratios[l])
  <1>1. /\ order' = order
        /\ result'.legs = [l \in wanted |-> fill(l)]
        /\ got' = [l \in DOMAIN order |-> got[l] + IF l \in wanted THEN fill(l).filled ELSE 0]
        /\ asked' = [l \in DOMAIN order |-> IF l \in wanted THEN fill(l).remaining ELSE 0]
    BY DEF Order!Execute, Order!NextAsked
  <1>2. ASSUME NEW l \in DOMAIN order
        PROVE  /\ order[l] \in Order!LegType /\ asked[l] \in Nat /\ ratios[l] \in Int
               /\ order[l].quantity \in Nat /\ order[l].minimum \in Nat /\ got[l] \in Nat
               /\ got[l] + asked[l] = order[l].quantity
    <2>1. order[l] \in Order!LegType /\ ratios[l] \in Int
      BY OrderConstants DEF OrderInv
    <2> QED
      BY <2>1 DEF OrderInv, Order!LegType
  <1>3. ASSUME NEW l \in wanted
        PROVE  /\ fill(l).filled \in 0 .. asked[l] /\ fill(l).remaining = asked[l] - fill(l).filled
               /\ fill(l).filled # 0 =>
                    fill(l).filled >= order[l].minimum /\ (order[l].allOrNone => fill(l).filled = asked[l])
    BY <1>2, FillIsPart
  <1> HIDE DEF fill
  <1>4. ASSUME NEW l \in DOMAIN order
        PROVE  /\ asked'[l] \in Nat /\ got'[l] \in Nat /\ got'[l] + asked'[l] = order[l].quantity
               /\ order[l].allOrNone => got'[l] = 0 \/ asked'[l] = 0
    <2>1. CASE l \in wanted
      <3>1. got'[l] = got[l] + fill(l).filled /\ asked'[l] = fill(l).remaining
        BY <1>1, <2>1
      <3>2. order[l].allOrNone => got[l] = 0
        BY <2>1 DEF OrderInv
      <3> QED
        BY <1>2, <1>3, <2>1, <3>1, <3>2
    <2>2. CASE l \notin wanted
      <3>1. got'[l] = got[l] + 0 /\ asked'[l] = 0 /\ asked[l] = 0
        BY <1>1, <1>2, <2>2
      <3> QED
        BY <1>2, <3>1
    <2> QED
      BY <2>1, <2>2
  <1>5. ASSUME NEW l \in wanted
        PROVE  result'.legs[l].filled \in {0} \cup order[l].minimum .. order[l].quantity
    <2>1. result'.legs[l] = fill(l) /\ l \in DOMAIN order
      BY <1>1
    <2> QED
      BY <1>2, <1>3, <2>1
  <1>6. DOMAIN result'.legs = wanted
    BY <1>1
  <1>7. DOMAIN asked' = DOMAIN order /\ DOMAIN got' = DOMAIN order /\ order' \in Requests
    BY <1>1 DEF OrderInv
  <1> HIDE DEF wanted
  <1> QED
    BY <1>1, <1>4, <1>5, <1>6, <1>7 DEF OrderInv, wanted

LEMMA OrderStep == OrderInv /\ Order!Next => OrderInv'
  BY ExecuteKeeps DEF Order!Next

LEMMA OrderRestsStill == OrderInv /\ UNCHANGED orderVars => OrderInv'
  BY DEF OrderInv, orderVars

LEMMA OrderInvariantImplies == OrderInv => Order!OrdersAddUp
  <1> SUFFICES ASSUME OrderInv PROVE Order!OrdersAddUp
    OBVIOUS
  <1>1. ASSUME NEW l \in DOMAIN order, order[l].allOrNone
        PROVE  got[l] \in {0, order[l].quantity}
    BY <1>1 DEF OrderInv
  <1> QED
    BY <1>1 DEF OrderInv, Order!OrdersAddUp

-----------------------------------------------------------------------------
(* The orders: what each is filled at, and when it is given up               *)

\* What an order remembers of its terms, its time and its tape.
OrderTypes ==
    /\ terms \in Terms /\ now \in 0 .. LastMoment /\ tries \in 0 .. MaxTries
    /\ DOMAIN tape = DOMAIN order /\ \A l \in DOMAIN order : tape[l] \in Tapes \cup {{}}
\* The inductive invariant: a result answers the attempt it was made at.
FairInv ==
    /\ OrderInv /\ OrderTypes
    /\ Order!VerdictsAgree /\ Order!QuotesAreOfTheirTime /\ Order!SlippageIsAdverse

\* What the proofs of the fills use of the constants' types.
LEMMA TradingConstants ==
    /\ \A request \in Requests : /\ IsFiniteSet(DOMAIN request)
                                 /\ \E l \in DOMAIN request : request[l].quantity > 0
    /\ Terms \subseteq Order!TermsType /\ \A quotes \in Tapes : quotes \subseteq Order!QuoteType
    /\ Slippage \in Nat /\ LastMoment \in Nat /\ MaxTries \in Nat /\ Absent \notin Int
  <1>1. \A S : Order!IsFiniteSet(S) <=> IsFiniteSet(S)
    BY DEF Order!IsFiniteSet, IsFiniteSet
  <1> QED
    BY <1>1, BacktestConstants DEF BacktestConstants, Order!ConstantsType

\* The fields of an execution's terms.
LEMMA TermsAre ==
  ASSUME terms \in Terms
  PROVE  /\ terms.mode \in {"exact", "next_after_delay", "nearest_prior"}
         /\ terms.price \in {"bid", "ask", "last", "midpoint", "through_spread"}
         /\ terms.through \in Int /\ terms.delay \in Int /\ terms.least \in 0 .. 2
         /\ terms.timeout \in Int /\ terms.exposure \in Int
  <1>1. terms \in Order!TermsType
    BY TradingConstants
  <1> QED
    BY <1>1 DEF Order!TermsType

\* An order begins with all of it to be filled.
LEMMA FairInit == Order!Init => FairInv
  <1> SUFFICES ASSUME Order!Init PROVE FairInv
    OBVIOUS
  <1>1. OrderInv
    BY OrderInit
  <1>2. OrderTypes
    BY TradingConstants DEF Order!Init, OrderTypes
  <1>3. DOMAIN result.legs = {} /\ result.retry = TRUE /\ result.cancelled = FALSE
    BY DEF Order!Init, Order!None
  <1>4. \E l \in DOMAIN order : asked[l] > 0
    BY TradingConstants DEF Order!Init
  <1>5. Order!VerdictsAgree
    BY <1>3, <1>4 DEF Order!VerdictsAgree
  <1>6. Order!QuotesAreOfTheirTime /\ Order!SlippageIsAdverse
    BY <1>3 DEF Order!QuotesAreOfTheirTime, Order!SlippageIsAdverse
  <1> QED
    BY <1>1, <1>2, <1>5, <1>6 DEF FairInv

\* execution.py:120, 166-171.  An attempt that asks for something is retried or given up exactly
\* when it leaves something.
LEMMA VerdictIs ==
  ASSUME FairInv, NEW t \in Int, NEW legs, legs = [l \in {k \in DOMAIN order : asked[k] > 0} |-> legs[l]],
         \A l \in DOMAIN legs : legs[l].filled \in 0 .. asked[l],
         \E l \in DOMAIN order : asked[l] > 0
  PROVE  /\ Order!Retries(legs, t) \/ Order!Cancels(legs, t)
                <=> \E l \in DOMAIN legs : legs[l].filled < asked[l]
         /\ Order!Cancels(legs, t) => ~Order!Retries(legs, t) /\ t >= terms.timeout
  <1> DEFINE W == {k \in DOMAIN order : asked[k] > 0}
             F == [l \in DOMAIN legs |-> legs[l].filled]
             A == [l \in DOMAIN legs |-> asked[l]]
  <1>1. DOMAIN legs = W
    OBVIOUS
  <1>2. IsFiniteSet(DOMAIN legs)
    <2>1. order \in Requests
      BY DEF FairInv, OrderInv
    <2>2. W \in SUBSET DOMAIN order
      OBVIOUS
    <2> HIDE DEF W
    <2> QED
      BY <1>1, <2>1, <2>2, TradingConstants, FS_Subset
  <1>3. \A l \in DOMAIN legs : asked[l] \in Nat /\ asked[l] > 0 /\ legs[l].filled \in Nat /\ legs[l].filled <= asked[l]
    BY <1>1 DEF FairInv, OrderInv
  <1>4. DOMAIN F = DOMAIN legs /\ DOMAIN A = DOMAIN legs /\ \A l \in DOMAIN legs : F[l] = legs[l].filled /\ A[l] = asked[l]
    OBVIOUS
  <1> HIDE DEF W, F, A
  <1>5. Counted(F) /\ Counted(A)
    BY <1>2, <1>3, <1>4 DEF Counted
  <1>6. Sum(F) \in Nat /\ Sum(A) \in Nat
    BY <1>5, SumIsNat
  <1>7. Sum(A) >= 1
    <2>1. PICK l \in DOMAIN legs : TRUE
      BY <1>1 DEF W
    <2>2. Sum(A) = A[l] + Sum(Without(A, l))
      BY <1>4, <1>5, SumOfMore
    <2>3. Sum(Without(A, l)) \in Nat
      BY <1>5, CountedWithout, SumIsNat
    <2>4. A[l] \in Nat /\ A[l] >= 1
      BY <1>3, <1>4
    <2> QED
      BY <2>2, <2>3, <2>4
  <1>8. Sum(F) < Sum(A) <=> \E l \in DOMAIN legs : legs[l].filled < asked[l]
    <2>1. /\ Sum(F) <= Sum(A)
          /\ (\E l \in DOMAIN F : F[l] < A[l]) => Sum(F) < Sum(A)
      BY <1>3, <1>4, <1>5, SumAtMost
    <2>2. CASE \E l \in DOMAIN legs : legs[l].filled < asked[l]
      BY <1>4, <2>1, <2>2
    <2>3. CASE ~\E l \in DOMAIN legs : legs[l].filled < asked[l]
      <3>1. ASSUME NEW l \in DOMAIN F PROVE F[l] = A[l]
        <4>1. l \in DOMAIN legs
          BY <1>4
        <4>2. /\ asked[l] \in Nat /\ legs[l].filled \in Nat /\ legs[l].filled <= asked[l]
              /\ ~(legs[l].filled < asked[l])
          BY <1>3, <2>3, <4>1
        <4>3. legs[l].filled = asked[l]
          BY <4>2
        <4> QED
          BY <1>4, <4>1, <4>3
      <3>2. Sum(F) = Sum(A)
        BY <1>4, <1>5, <3>1, SumAlike
      <3> QED
        BY <1>6, <2>3, <3>2
    <2> QED
      BY <2>2, <2>3
  <1>9. Order!Max({1, Sum(A)}) = Sum(A)
    BY <1>6, <1>7, MaxOfTwo
  <1>10. Order!Total(F) = Sum(F) /\ Order!Total(A) = Sum(A)
    BY TotalIsSum
  <1>11. Order!Cancels(legs, t) <=> t >= terms.timeout /\ 2 * Sum(F) < terms.least * Sum(A)
    BY <1>9, <1>10 DEF Order!Cancels, F, A
  <1>12. Order!Retries(legs, t) <=> Sum(F) < Sum(A) /\ ~Order!Cancels(legs, t)
    BY <1>9, <1>10 DEF Order!Retries, F, A
  <1>13. 2 * Sum(F) < terms.least * Sum(A) => Sum(F) < Sum(A)
    <2>1. terms.least \in {0, 1, 2}
      <3>1. terms.least \in 0 .. 2
        BY TermsAre DEF FairInv, OrderTypes
      <3> QED
        BY <3>1
    <2>2. \A k \in {0, 1, 2} : 2 * Sum(F) < k * Sum(A) => Sum(F) < Sum(A)
      BY <1>6
    <2> QED
      BY <2>1, <2>2
  <1> QED
    BY <1>8, <1>11, <1>12, <1>13

\* quote_selection.py:55-70.  What is selected is a quote the policy may choose, or none; of the
\* prior ones none is later, of the later ones none is earlier.
LEMMA SelectIs ==
  ASSUME terms \in Terms, NEW quotes, quotes \subseteq Order!QuoteType, NEW t \in Int
  PROVE  LET q == Order!Select(quotes, t)
             able == Order!Selectable(quotes, t)
         IN  \/ q = Absent \/ q = Order!Fallback(t)
             \/ /\ q \in able /\ q \in Order!QuoteType
                /\ \A r \in able : IF terms.mode = "nearest_prior" THEN q.time >= r.time ELSE q.time <= r.time
  <1> DEFINE able == Order!Selectable(quotes, t)
             past == terms.mode = "nearest_prior"
  <1>1. Order!Delayed(t) \in Int
    <2>1. terms.delay \in Int
      BY TermsAre
    <2>2. Order!Max({0, terms.delay}) = IF 0 >= terms.delay THEN 0 ELSE terms.delay
      BY <2>1, MaxOfTwo
    <2> QED
      BY <2>1, <2>2 DEF Order!Delayed
  <1>2. able \subseteq quotes /\ \A q \in able : IF past THEN q.time <= t ELSE q.time >= t \/ q.time >= Order!Delayed(t)
    <2>1. terms.mode \in {"exact", "next_after_delay", "nearest_prior"}
      BY TermsAre
    <2>2. \A q \in quotes : q.time \in Nat
      BY DEF Order!QuoteType
    <2>3. CASE terms.mode = "exact"
      BY <2>2, <2>3 DEF Order!Selectable
    <2>4. CASE terms.mode = "next_after_delay"
      BY <2>2, <2>4 DEF Order!Selectable
    <2>5. CASE terms.mode = "nearest_prior"
      BY <2>2, <2>5 DEF Order!Selectable, Order!Prior
    <2> QED
      BY <2>1, <2>3, <2>4, <2>5
  <1>3. \A q \in able : q \in Order!QuoteType /\ q.time \in Nat
    BY <1>2 DEF Order!QuoteType
  <1> HIDE DEF able
  <1>4. ASSUME able # {} PROVE \E q \in able : \A r \in able : IF past THEN q.time >= r.time ELSE q.time <= r.time
    <2>1. CASE past
      <3> DEFINE Ages == {t - q.time : q \in able}
      <3>1. Ages \subseteq Nat
        <4>1. \A q \in able : q.time \in Nat /\ q.time <= t
          BY <1>2, <1>3, <2>1
        <4> QED
          BY <4>1
      <3>2. Ages # {}
        BY <1>4
      <3>3. PICK a \in Ages : \A b \in Ages : a <= b
        <4> HIDE DEF Ages
        <4> QED
          BY <3>1, <3>2, FirstOf
      <3>4. PICK q \in able : a = t - q.time
        BY <3>3
      <3>5. ASSUME NEW r \in able PROVE q.time >= r.time
        <4>1. t - q.time <= t - r.time
          BY <3>3, <3>4
        <4>2. q.time \in Nat /\ r.time \in Nat
          BY <1>3
        <4> QED
          BY <4>1, <4>2
      <3> QED
        BY <2>1, <3>5
    <2>2. CASE ~past
      <3> DEFINE Times1 == {q.time : q \in able}
      <3>1. Times1 \subseteq Nat /\ Times1 # {}
        BY <1>3, <1>4
      <3>2. PICK a \in Times1 : \A b \in Times1 : a <= b
        <4> HIDE DEF Times1
        <4> QED
          BY <3>1, FirstOf
      <3> QED
        BY <2>2, <3>2
    <2> QED
      BY <2>1, <2>2
  <1>5. CASE able = {}
    BY <1>5 DEF Order!Select, able
  <1>6. CASE able # {} /\ past
    <2>1. Order!Select(quotes, t) = Order!Latest(able)
      BY <1>6 DEF Order!Select, able
    <2>2. \E q \in able : \A r \in able : q.time >= r.time
      BY <1>4, <1>6
    <2>3. Order!Latest(able) \in able /\ \A r \in able : Order!Latest(able).time >= r.time
      BY <2>2 DEF Order!Latest
    <2> QED
      BY <1>3, <1>6, <2>1, <2>3 DEF able
  <1>7. CASE able # {} /\ ~past
    <2>1. Order!Select(quotes, t) = Order!Earliest(able)
      BY <1>7 DEF Order!Select, able
    <2>2. \E q \in able : \A r \in able : q.time <= r.time
      BY <1>4, <1>7
    <2>3. Order!Earliest(able) \in able /\ \A r \in able : Order!Earliest(able).time <= r.time
      BY <2>2 DEF Order!Earliest
    <2> QED
      BY <1>3, <1>7, <2>1, <2>3 DEF able
  <1> QED
    BY <1>5, <1>6, <1>7

\* quote_selection.py:85-108.  The price of a quote is not negative.
LEMMA PriceIs ==
  ASSUME terms \in Terms, NEW q \in Order!QuoteType, q # Absent, Order!PriceOf(q) # Absent
  PROVE  Order!PriceOf(q) \in Nat
  <1>1. q.bid \in Order!PriceType /\ q.ask \in Order!PriceType /\ q.last \in Order!PriceType
    BY DEF Order!QuoteType
  <1>2. \A p \in Order!PriceType : p # Absent => p \in Nat
    BY DEF Order!PriceType
  <1>3. terms.price \in {"bid", "ask", "last", "midpoint", "through_spread"}
    BY TermsAre
  <1>4. Order!Clamp(terms.through, 0, 2) \in {0, 1, 2}
    BY TermsAre, ClampIs
  <1>5. CASE terms.price = "bid"
    BY <1>1, <1>2, <1>5 DEF Order!PriceOf
  <1>6. CASE terms.price = "ask"
    BY <1>1, <1>2, <1>6 DEF Order!PriceOf
  <1>7. CASE terms.price = "last"
    BY <1>1, <1>2, <1>7 DEF Order!PriceOf
  <1>8. CASE terms.price = "midpoint"
    <2>1. Order!TwoSided(q) /\ Order!PriceOf(q) = (q.bid + q.ask) \div 2
      BY <1>8 DEF Order!PriceOf
    <2>2. q.bid \in Nat /\ q.ask \in Nat
      BY <1>1, <1>2, <2>1 DEF Order!TwoSided
    <2> QED
      BY <2>1, <2>2
  <1>9. CASE terms.price = "through_spread"
    <2> DEFINE c == Order!Clamp(terms.through, 0, 2)
    <2>1. Order!TwoSided(q) /\ Order!PriceOf(q) = q.bid + (c * (q.ask - q.bid)) \div 2
      BY <1>9 DEF Order!PriceOf
    <2>2. q.bid \in Nat /\ q.ask \in Nat
      BY <1>1, <1>2, <2>1 DEF Order!TwoSided
    <2>3. \A k \in {0, 1, 2} : \A x, y \in Nat : x + (k * (y - x)) \div 2 \in Nat
      OBVIOUS
    <2> HIDE DEF c
    <2>4. c \in {0, 1, 2}
      BY <1>4 DEF c
    <2> QED
      BY <2>1, <2>2, <2>3, <2>4
  <1> QED
    BY <1>3, <1>5, <1>6, <1>7, <1>8, <1>9

\* The fallback has no price in any selection.
LEMMA FallbackHasNone ==
  ASSUME terms \in Terms, NEW t
  PROVE  Order!PriceOf(Order!Fallback(t)) = Absent
  <1> DEFINE q == Order!Fallback(t)
  <1>1. q.bid = Absent /\ q.ask = Absent /\ q.last = Absent /\ ~Order!TwoSided(q)
    BY DEF Order!Fallback, Order!TwoSided
  <1>2. terms.price \in {"bid", "ask", "last", "midpoint", "through_spread"}
    BY TermsAre
  <1> HIDE DEF q
  <1>3. Order!PriceOf(q) = Absent
    BY <1>1, <1>2 DEF Order!PriceOf
  <1> QED
    BY <1>3 DEF q

\* fill_models.py:87-103.  Slippage goes against the order.
LEMMA FillPriceIs ==
  ASSUME terms \in Terms, NEW leg \in Order!LegType, NEW q \in Order!QuoteType,
         q # Absent, Order!PriceOf(q) # Absent
  PROVE  IF leg.buys THEN Order!FillPrice(leg, q) >= Order!PriceOf(q)
         ELSE Order!FillPrice(leg, q) <= Order!PriceOf(q)
  <1> DEFINE p == Order!PriceOf(q)
             slip == Slippage + Order!Spread(q)
             paid == p + (IF leg.buys THEN slip ELSE -slip)
  <1>1. p \in Nat
    BY PriceIs
  <1>2. Order!Spread(q) \in Nat
    <2>1. CASE Order!TwoSided(q)
      <3>1. q.bid \in Nat /\ q.ask \in Nat
        BY <2>1 DEF Order!QuoteType, Order!PriceType, Order!TwoSided
      <3>2. Order!Max({0, q.ask - q.bid}) = IF 0 >= q.ask - q.bid THEN 0 ELSE q.ask - q.bid
        BY <3>1, MaxOfTwo
      <3> QED
        BY <2>1, <3>1, <3>2 DEF Order!Spread
    <2>2. CASE ~Order!TwoSided(q)
      BY <2>2 DEF Order!Spread
    <2> QED
      BY <2>1, <2>2
  <1>3. slip \in Nat
    BY <1>2, TradingConstants
  <1> HIDE DEF p, slip
  <1>4. paid \in Int /\ leg.buys \in BOOLEAN
    BY <1>1, <1>3 DEF Order!LegType
  <1>5. Order!Max({0, paid}) = IF 0 >= paid THEN 0 ELSE paid
    <2> HIDE DEF paid
    <2> QED
      BY <1>4, MaxOfTwo
  <1>6. Order!FillPrice(leg, q) = Order!Max({0, paid})
    BY DEF Order!FillPrice, p, slip
  <1>7. IF leg.buys THEN Order!FillPrice(leg, q) >= p ELSE Order!FillPrice(leg, q) <= p
    BY <1>1, <1>3, <1>4, <1>5, <1>6
  <1> QED
    BY <1>7 DEF p

\* What is filled of a leg is filled at a quote the policy may choose, at a price that slippage
\* makes worse.
LEMMA FillIsFair ==
  ASSUME terms \in Terms, NEW leg \in Order!LegType, NEW quantity \in Nat, NEW r \in Int,
         NEW quotes, quotes \subseteq Order!QuoteType, NEW t \in Int,
         Order!Fill(leg, quantity, Order!Select(quotes, t), r).filled > 0
  PROVE  LET q == Order!Select(quotes, t)
             f == Order!Fill(leg, quantity, q, r)
         IN  /\ f.quote = q /\ Order!PriceOf(q) # Absent /\ q \in Order!Selectable(quotes, t)
             /\ \A e \in Order!Selectable(quotes, t) :
                   IF terms.mode = "nearest_prior" THEN q.time >= e.time ELSE q.time <= e.time
             /\ IF leg.buys THEN f.price >= Order!PriceOf(q) ELSE f.price <= Order!PriceOf(q)
  <1> DEFINE q == Order!Select(quotes, t)
             n == Order!FilledQuantity(leg, quantity, r)
             f == Order!Fill(leg, quantity, q, r)
  <1>1. f.filled > 0
    OBVIOUS
  <1>2. \/ q = Absent \/ q = Order!Fallback(t)
        \/ /\ q \in Order!Selectable(quotes, t) /\ q \in Order!QuoteType
           /\ \A e \in Order!Selectable(quotes, t) :
                 IF terms.mode = "nearest_prior" THEN q.time >= e.time ELSE q.time <= e.time
    BY SelectIs
  <1> HIDE DEF q
  <1>3. ~(q = Absent \/ Order!PriceOf(q) = Absent)
    <2> SUFFICES ASSUME q = Absent \/ Order!PriceOf(q) = Absent PROVE FALSE
      OBVIOUS
    <2>1. f = [quote |-> q, filled |-> 0, remaining |-> quantity, price |-> Absent]
      BY DEF Order!Fill
    <2> QED
      BY <1>1, <2>1
  <1>4. /\ q \in Order!Selectable(quotes, t) /\ q \in Order!QuoteType
        /\ \A e \in Order!Selectable(quotes, t) :
              IF terms.mode = "nearest_prior" THEN q.time >= e.time ELSE q.time <= e.time
    BY <1>2, <1>3, FallbackHasNone
  <1>5. f = [quote |-> q, filled |-> n, remaining |-> quantity - n,
             price |-> IF n > 0 THEN Order!FillPrice(leg, q) ELSE Absent]
    BY <1>3 DEF Order!Fill
  <1> HIDE DEF f, n
  <1>6. f.filled = n /\ f.quote = q /\ f.price = IF n > 0 THEN Order!FillPrice(leg, q) ELSE Absent
    BY <1>5
  <1>7. f.price = Order!FillPrice(leg, q)
    BY <1>1, <1>6
  <1>8. IF leg.buys THEN f.price >= Order!PriceOf(q) ELSE f.price <= Order!PriceOf(q)
    BY <1>3, <1>4, <1>7, FillPriceIs
  <1> QED
    BY <1>3, <1>4, <1>6, <1>8 DEF q, f

\* execute: the verdict is on what it leaves, and every fill is fair.
LEMMA ExecuteIsFair ==
  ASSUME FairInv, NEW t \in now .. LastMoment, NEW tapes \in [DOMAIN order -> Tapes],
         NEW ratios \in [DOMAIN order -> Ratios], Order!Execute(t, tapes, ratios)
  PROVE  FairInv'
  <1> DEFINE wanted == {l \in DOMAIN order : asked[l] > 0}
             fill(l) == Order!Fill(order[l], asked[l], Order!Select(tapes[l], t), ratios[l])
             legs == [l \in wanted |-> fill(l)]
  <1>1. /\ order' = order /\ terms' = terms /\ now' = t /\ tape' = tapes /\ tries' = tries + 1
        /\ tries < MaxTries /\ result.retry
        /\ result'.legs = legs /\ result'.timedOut = (t >= terms.timeout)
        /\ result'.cancelled = Order!Cancels(legs, t) /\ result'.retry = Order!Retries(legs, t)
        /\ asked' = [l \in DOMAIN order |-> IF l \in wanted THEN fill(l).remaining ELSE 0]
    BY DEF Order!Execute, Order!NextAsked
  <1>2. OrderInv'
    BY ExecuteKeeps DEF FairInv
  <1>3. t \in Int /\ t \in 0 .. LastMoment
    BY TradingConstants DEF FairInv, OrderTypes
  <1>4. OrderTypes'
    <2>1. tries + 1 \in 0 .. MaxTries
      BY <1>1, TradingConstants DEF FairInv, OrderTypes
    <2> QED
      BY <1>1, <1>3, <2>1 DEF FairInv, OrderTypes
  <1>5. ASSUME NEW l \in DOMAIN order
        PROVE  /\ order[l] \in Order!LegType /\ asked[l] \in Nat /\ ratios[l] \in Int
               /\ tapes[l] \in Tapes /\ tapes[l] \subseteq Order!QuoteType
    BY OrderConstants, TradingConstants DEF FairInv, OrderInv
  <1>6. \A l \in wanted : fill(l).filled \in 0 .. asked[l] /\ fill(l).remaining = asked[l] - fill(l).filled
    BY <1>5, FillIsPart
  <1>7. ASSUME NEW l \in wanted, fill(l).filled > 0
        PROVE  /\ fill(l).quote = Order!Select(tapes[l], t) /\ Order!PriceOf(fill(l).quote) # Absent
               /\ fill(l).quote \in Order!Selectable(tapes[l], t)
               /\ \A e \in Order!Selectable(tapes[l], t) : IF terms.mode = "nearest_prior"
                      THEN fill(l).quote.time >= e.time ELSE fill(l).quote.time <= e.time
               /\ IF order[l].buys THEN fill(l).price >= Order!PriceOf(fill(l).quote)
                  ELSE fill(l).price <= Order!PriceOf(fill(l).quote)
    <2> DEFINE q == Order!Select(tapes[l], t)
               f == Order!Fill(order[l], asked[l], q, ratios[l])
    <2>1. terms \in Terms
      BY DEF FairInv, OrderTypes
    <2>2. /\ order[l] \in Order!LegType /\ asked[l] \in Nat /\ ratios[l] \in Int
          /\ tapes[l] \subseteq Order!QuoteType
      BY <1>5
    <2>3. f.filled > 0
      BY <1>7
    <2>4. /\ f.quote = q /\ Order!PriceOf(q) # Absent /\ q \in Order!Selectable(tapes[l], t)
          /\ \A e \in Order!Selectable(tapes[l], t) :
                IF terms.mode = "nearest_prior" THEN q.time >= e.time ELSE q.time <= e.time
          /\ IF order[l].buys THEN f.price >= Order!PriceOf(q) ELSE f.price <= Order!PriceOf(q)
      BY <1>3, <2>1, <2>2, <2>3, FillIsFair
    <2>5. fill(l) = f
      OBVIOUS
    <2> HIDE DEF fill, f, q
    <2>6. fill(l).quote = q
      BY <2>4, <2>5
    <2>7. /\ Order!PriceOf(fill(l).quote) # Absent /\ fill(l).quote \in Order!Selectable(tapes[l], t)
          /\ \A e \in Order!Selectable(tapes[l], t) : IF terms.mode = "nearest_prior"
                 THEN fill(l).quote.time >= e.time ELSE fill(l).quote.time <= e.time
          /\ IF order[l].buys THEN fill(l).price >= Order!PriceOf(fill(l).quote)
             ELSE fill(l).price <= Order!PriceOf(fill(l).quote)
      BY <2>4, <2>5, <2>6
    <2>8. fill(l).quote = Order!Select(tapes[l], t)
      BY <2>6 DEF q
    <2> QED
      BY <2>7, <2>8
  <1> HIDE DEF fill
  <1>8. DOMAIN legs = wanted /\ \A l \in wanted : legs[l] = fill(l)
    OBVIOUS
  <1>9. Order!VerdictsAgree'
    <2>1. \E l \in DOMAIN order : asked[l] > 0
      BY <1>1 DEF FairInv, Order!VerdictsAgree
    <2> HIDE DEF legs
    <2>2. \A l \in DOMAIN legs : legs[l].filled \in 0 .. asked[l]
      BY <1>6, <1>8
    <2>3. legs = [l \in {k \in DOMAIN order : asked[k] > 0} |-> legs[l]]
      BY DEF legs
    <2>4. /\ Order!Retries(legs, t) \/ Order!Cancels(legs, t)
                 <=> \E l \in DOMAIN legs : legs[l].filled < asked[l]
          /\ Order!Cancels(legs, t) => ~Order!Retries(legs, t) /\ t >= terms.timeout
      BY <1>3, <2>1, <2>2, <2>3, VerdictIs
    <2>5. (\E l \in DOMAIN legs : legs[l].filled < asked[l]) <=> \E l \in DOMAIN order : asked'[l] > 0
      <3>1. ASSUME NEW l \in wanted PROVE legs[l].filled < asked[l] <=> asked'[l] > 0
        <4>1. asked'[l] = fill(l).remaining /\ fill(l).remaining = asked[l] - fill(l).filled
              /\ fill(l).filled \in 0 .. asked[l] /\ asked[l] \in Nat /\ legs[l] = fill(l)
          BY <1>1, <1>5, <1>6, <1>8
        <4> QED
          BY <4>1
      <3>2. \A l \in DOMAIN order : l \notin wanted => ~(asked'[l] > 0)
        BY <1>1
      <3> QED
        BY <1>8, <3>1, <3>2
    <2>6. /\ result'.cancelled => result'.timedOut /\ ~result'.retry /\ \E l \in DOMAIN order : asked'[l] > 0
          /\ result'.retry \/ result'.cancelled <=> \E l \in DOMAIN order : asked'[l] > 0
      BY <1>1, <2>4, <2>5
    <2> QED
      BY <1>1, <2>6 DEF Order!VerdictsAgree
  <1>10. Order!SlippageIsAdverse'
    <2> HIDE DEF legs
    <2>1. ASSUME NEW l \in wanted, legs[l].filled > 0
          PROVE  /\ Order!PriceOf(legs[l].quote) # Absent
                 /\ IF order[l].buys THEN legs[l].price >= Order!PriceOf(legs[l].quote)
                    ELSE legs[l].price <= Order!PriceOf(legs[l].quote)
      BY <1>7, <1>8, <2>1
    <2>2. result'.legs = legs /\ DOMAIN legs = wanted /\ order' = order
      BY <1>1, <1>8
    <2> HIDE DEF wanted
    <2> QED
      BY <2>1, <2>2, <1>1 DEF Order!SlippageIsAdverse, Order!PriceOf, Order!TwoSided, Order!Clamp
  <1>11. Order!QuotesAreOfTheirTime'
    <2> HIDE DEF legs
    <2>1. ASSUME NEW l \in wanted, legs[l].filled > 0
          PROVE  /\ legs[l].quote \in Order!Selectable(tapes[l], t)
                 /\ \A e \in Order!Selectable(tapes[l], t) : IF terms.mode = "nearest_prior"
                        THEN legs[l].quote.time >= e.time ELSE legs[l].quote.time <= e.time
                 /\ tapes[l] \subseteq Order!QuoteType
      BY <1>5, <1>7, <1>8, <2>1
    <2>2. result'.legs = legs /\ DOMAIN legs = wanted /\ now' = t /\ tape' = tapes /\ terms' = terms
      BY <1>1, <1>8
    <2>3. terms.mode \in {"exact", "next_after_delay", "nearest_prior"} /\ terms.delay \in Int
      <3>1. terms \in Terms
        BY DEF FairInv, OrderTypes
      <3> QED
        BY <3>1, TermsAre
    <2>4. Order!Delayed(t) \in Int
      BY <1>3, <2>3, MaxOfTwo DEF Order!Delayed
    <2>5. Order!Delayed(now)' = Order!Delayed(t)
      BY <2>2 DEF Order!Delayed
    <2> HIDE DEF wanted
    <2>6. ASSUME NEW l \in DOMAIN result'.legs, result'.legs[l].filled > 0
          PROVE  LET q == result'.legs[l].quote
                     between(a, b) == {r \in tape'[l] : a <= r.time /\ r.time <= b}
                 IN  CASE terms'.mode = "exact" -> q.time = now'
                       [] terms'.mode = "nearest_prior" -> q.time <= now' /\ between(q.time + 1, now') = {}
                       [] terms'.mode = "next_after_delay" ->
                            q.time >= Order!Delayed(now)' /\ between(Order!Delayed(now)', q.time - 1) = {}
      <3> DEFINE q == legs[l].quote
      <3>1. /\ l \in wanted /\ q \in Order!Selectable(tapes[l], t) /\ tapes[l] \subseteq Order!QuoteType
            /\ \A e \in Order!Selectable(tapes[l], t) : IF terms.mode = "nearest_prior"
                   THEN q.time >= e.time ELSE q.time <= e.time
        BY <2>1, <2>2, <2>6
      <3> HIDE DEF q
      <3>2. \A e \in tapes[l] : e.time \in Nat
        BY <3>1 DEF Order!QuoteType
      <3>3. result'.legs[l].quote = q
        BY <2>2 DEF q
      <3>4. CASE terms.mode = "exact"
        BY <2>2, <3>1, <3>3, <3>4 DEF Order!Selectable
      <3>5. CASE terms.mode = "nearest_prior"
        <4>1. q \in tapes[l] /\ q.time <= t /\ \A e \in tapes[l] : e.time <= t => q.time >= e.time
          BY <3>1, <3>5 DEF Order!Selectable, Order!Prior
        <4>2. {r \in tapes[l] : q.time + 1 <= r.time /\ r.time <= t} = {}
          BY <3>2, <4>1
        <4> QED
          BY <2>2, <3>3, <3>5, <4>1, <4>2
      <3>6. CASE terms.mode = "next_after_delay"
        <4> DEFINE d == Order!Delayed(t)
        <4> HIDE DEF d
        <4>0. d \in Int
          BY <2>4 DEF d
        <4>1. q \in tapes[l] /\ q.time >= d /\ \A e \in tapes[l] : e.time >= d => q.time <= e.time
          BY <3>1, <3>6 DEF Order!Selectable, d
        <4>2. {r \in tapes[l] : d <= r.time /\ r.time <= q.time - 1} = {}
          BY <3>2, <4>0, <4>1
        <4>3. Order!Delayed(now)' = d
          BY <2>5 DEF d
        <4> QED
          BY <2>2, <3>3, <3>6, <4>1, <4>2, <4>3
      <3> QED
        BY <2>3, <3>4, <3>5, <3>6
    <2> QED
      BY <2>6 DEF Order!QuotesAreOfTheirTime
  <1> QED
    BY <1>2, <1>4, <1>9, <1>10, <1>11 DEF FairInv

\* The only step of an order is an attempt at it.
LEMMA FairStep == FairInv /\ Order!Next => FairInv'
  BY ExecuteIsFair DEF Order!Next

\* An order at rest stays as it is.
LEMMA FairRestsStill == FairInv /\ UNCHANGED orderVars => FairInv'
  <1> SUFFICES ASSUME FairInv, UNCHANGED orderVars PROVE FairInv'
    OBVIOUS
  <1>1. OrderInv'
    BY OrderRestsStill DEF FairInv
  <1>2. /\ order' = order /\ terms' = terms /\ now' = now /\ tape' = tape
        /\ asked' = asked /\ result' = result /\ tries' = tries
    BY DEF orderVars
  <1>3. OrderTypes'
    BY <1>2 DEF FairInv, OrderTypes
  <1>4. Order!VerdictsAgree'
    BY <1>2 DEF FairInv, Order!VerdictsAgree
  <1>5. Order!Delayed(now)' = Order!Delayed(now)
    BY <1>2 DEF Order!Delayed
  <1>6. Order!QuotesAreOfTheirTime'
    BY <1>2, <1>5 DEF FairInv, Order!QuotesAreOfTheirTime
  <1>7. ASSUME NEW l PROVE Order!PriceOf(result.legs[l].quote)' = Order!PriceOf(result.legs[l].quote)
    BY <1>2 DEF Order!PriceOf
  <1>8. Order!SlippageIsAdverse'
    BY <1>2, <1>7 DEF FairInv, Order!SlippageIsAdverse
  <1> QED
    BY <1>1, <1>3, <1>4, <1>6, <1>8 DEF FairInv

LEMMA FairInvariantImplies ==
  FairInv => /\ Order!TypeOK /\ Order!VerdictsAgree
             /\ Order!QuotesAreOfTheirTime /\ Order!SlippageIsAdverse
  BY DEF FairInv, OrderInv, OrderTypes, Order!TypeOK

\* What holds from place to place holds at each.
LEMMA Carried ==
  ASSUME NEW N \in Nat, NEW u, NEW V, u[0] \in V, \A n \in 1 .. N : u[n - 1] \in V => u[n] \in V
  PROVE  \A n \in 0 .. N : u[n] \in V
  <1> DEFINE Missed == {n \in 0 .. N : u[n] \notin V}
  <1> SUFFICES ASSUME Missed # {} PROVE FALSE
    OBVIOUS
  <1>1. PICK n \in Missed : \A m \in Missed : n <= m
    <2>1. Missed \subseteq Nat
      OBVIOUS
    <2> HIDE DEF Missed
    <2> QED
      BY <2>1, FirstOf
  <1>2. n \in 1 .. N /\ n - 1 \in 0 .. N /\ ~(n <= n - 1) /\ u[n] \notin V
    BY <1>1
  <1>3. u[n - 1] \in V
    BY <1>1, <1>2
  <1> QED
    BY <1>2, <1>3

\* A share of what is not negative is not negative.
LEMMA QuotientIsNat ==
  ASSUME NEW a \in Nat, NEW b \in Nat \ {0} PROVE a \div b \in Nat
  OBVIOUS

-----------------------------------------------------------------------------
(* Portfolios                                                                *)
\* What the portfolio's proofs use of the constants' types.
LEMMA PortfolioConstants ==
    /\ Ids \subseteq Nat /\ IsFiniteSet(Ids) /\ Profiles \subseteq Portfolio!ProfileType
    /\ "equal_weight" \in Sizings /\ Sizings \subseteq Portfolio!Sizing
    /\ Rankings \subseteq Portfolio!Ranking
    /\ Settings \subseteq [maximum : Nat, minimum : Nat, reserve : Nat, asOf : Int]
    /\ Capital \in Nat /\ Unit \in Nat /\ KellyCap \in Nat /\ MaxRuns \in Nat /\ Drift \in Int
    /\ Actions \subseteq Seq(Portfolio!ActionType)
    /\ \A list \in Actions : \A i, j \in DOMAIN list : list[i].id = list[j].id => i = j
  <1>1. \A S : Portfolio!IsFiniteSet(S) <=> IsFiniteSet(S)
    BY DEF Portfolio!IsFiniteSet, IsFiniteSet
  <1> QED
    BY <1>1, BacktestConstants DEF BacktestConstants, Portfolio!ConstantsType

\* The larger and the smaller of two, as the portfolio's instance takes them.
LEMMA LargerIs ==
  ASSUME NEW a \in Int, NEW b \in Int
  PROVE  /\ Portfolio!Max({a, b}) = IF a >= b THEN a ELSE b
         /\ Portfolio!Min({a, b}) = IF a <= b THEN a ELSE b
  <1>1. Portfolio!Max({a, b}) = Order!Max({a, b})
    BY DEF Portfolio!Max, Order!Max
  <1>2. Portfolio!Min({a, b}) = Order!Min({a, b})
    BY DEF Portfolio!Min, Order!Min
  <1> QED
    BY <1>1, <1>2, MaxOfTwo, MinOfTwo

\* A construction's problem.
Problems == [candidates : [Ids -> Profiles], sizing : Sizings, settings : Settings]

\* Who is eligible, and what the sizing is given of each.
LEMMA CandidatesAre ==
  ASSUME NEW p \in Problems
  PROVE  /\ Portfolio!Eligible(p) \subseteq Ids /\ IsFiniteSet(Portfolio!Eligible(p))
         /\ Cardinality(Portfolio!Eligible(p)) \in Nat
         /\ \A i \in Ids : /\ p.candidates[i].robustness \in Int /\ p.candidates[i].value \in Int
                           /\ p.candidates[i].volatility \in Nat \ {0}
         /\ p.sizing \in Portfolio!Sizing
         /\ p.settings.maximum \in Nat /\ p.settings.minimum \in Nat /\ p.settings.reserve \in Nat
  <1>1. p.candidates \in [Ids -> Profiles] /\ p.sizing \in Sizings /\ p.settings \in Settings
    BY DEF Problems
  <1>2. Portfolio!Eligible(p) \subseteq Ids
    BY <1>1 DEF Portfolio!Eligible
  <1>3. IsFiniteSet(Portfolio!Eligible(p))
    BY <1>2, PortfolioConstants, FS_Subset
  <1>4. Cardinality(Portfolio!Eligible(p)) \in Nat
    BY <1>3, FS_CardinalityType
  <1>5. ASSUME NEW i \in Ids
        PROVE  /\ p.candidates[i].robustness \in Int /\ p.candidates[i].value \in Int
               /\ p.candidates[i].volatility \in Nat \ {0}
    <2>1. p.candidates[i] \in Portfolio!ProfileType
      BY <1>1, PortfolioConstants
    <2> QED
      BY <2>1 DEF Portfolio!ProfileType
  <1>6. p.settings \in [maximum : Nat, minimum : Nat, reserve : Nat, asOf : Int]
    BY <1>1, PortfolioConstants
  <1> QED
    BY <1>1, <1>2, <1>3, <1>4, <1>5, <1>6, PortfolioConstants

\* sizing.py.  No share is negative.
LEMMA RawIsNat ==
  ASSUME NEW p \in Problems, NEW i \in Ids
  PROVE  Portfolio!Raw(p.sizing, p.candidates[i]) \in Nat
  <1> DEFINE c == p.candidates[i]
  <1>1. c.robustness \in Int /\ c.value \in Int /\ c.volatility \in Nat \ {0}
    BY CandidatesAre
  <1>2. Portfolio!Max({c.value, 0}) \in Nat /\ Portfolio!Max({c.robustness, 0}) \in Nat
    <2> HIDE DEF c
    <2>1. \A x \in Int : Portfolio!Max({x, 0}) = IF x >= 0 THEN x ELSE 0
      BY LargerIs
    <2> QED
      BY <1>1, <2>1
  <1> HIDE DEF c
  <1>3. c.volatility * c.volatility \in Nat \ {0}
    BY <1>1
  <1>4. /\ Portfolio!Max({c.value, 0}) \div (c.volatility * c.volatility) \in Nat
        /\ Unit \div c.volatility \in Nat
    BY <1>1, <1>2, <1>3, QuotientIsNat, PortfolioConstants
  <1>5. Portfolio!Min({KellyCap, Portfolio!Max({c.value, 0}) \div (c.volatility * c.volatility)}) \in Nat
    <2>1. \A x, y \in Nat : Portfolio!Min({x, y}) \in Nat
      <3> TAKE x, y \in Nat
      <3>1. x \in Int /\ y \in Int
        OBVIOUS
      <3>2. Portfolio!Min({x, y}) = IF x <= y THEN x ELSE y
        BY ONLY <3>1, LargerIs
      <3> QED
        BY <3>2
    <2> QED
      BY <1>4, <2>1, PortfolioConstants
  <1>6. Portfolio!Raw(p.sizing, c) \in Nat
    <2>1. CASE p.sizing = "expected_value_weighted"
      BY <1>2, <2>1 DEF Portfolio!Raw
    <2>2. CASE p.sizing = "robustness_weighted"
      BY <1>2, <2>2 DEF Portfolio!Raw
    <2>3. CASE p.sizing = "kelly_fractional"
      BY <1>5, <2>3 DEF Portfolio!Raw
    <2>4. CASE p.sizing = "inverse_volatility"
      BY <1>4, <2>4 DEF Portfolio!Raw
    <2>5. CASE p.sizing = "equal_weight"
      BY <2>5 DEF Portfolio!Raw
    <2>6. p.sizing \in Portfolio!Sizing
      BY CandidatesAre
    <2> QED
      BY <2>1, <2>2, <2>3, <2>4, <2>5, <2>6 DEF Portfolio!Sizing
  <1> QED
    BY <1>6 DEF c

\* A weight is a natural number of units, whatever the sizing.
LEMMA WeightIsNat ==
  ASSUME NEW p \in Problems, NEW i \in Portfolio!Eligible(p)
  PROVE  Portfolio!Weight(p, i) \in Nat
  <1> DEFINE raw == [j \in Portfolio!Eligible(p) |-> Portfolio!Raw(p.sizing, p.candidates[j])]
  <1>1. Counted(raw)
    BY CandidatesAre, RawIsNat DEF Counted
  <1>2. Portfolio!SumOf(raw) \in Nat
    BY <1>1, SumOfIsSum, SumIsNat
  <1>3. raw[i] \in Nat
    BY <1>1 DEF Counted
  <1>4. Portfolio!Weight(p, i) = IF Portfolio!SumOf(raw) = 0 THEN 0
                                ELSE (Unit * raw[i]) \div Portfolio!SumOf(raw)
    BY DEF Portfolio!Weight
  <1> HIDE DEF raw
  <1>5. Unit * raw[i] \in Nat
    BY <1>3, PortfolioConstants
  <1>6. CASE Portfolio!SumOf(raw) # 0
    <2>1. Portfolio!SumOf(raw) \in Nat \ {0}
      BY <1>2, <1>6
    <2>2. (Unit * raw[i]) \div Portfolio!SumOf(raw) \in Nat
      BY <1>5, <2>1, QuotientIsNat
    <2> QED
      BY <1>4, <1>6, <2>2
  <1> QED
    BY <1>4, <1>6

\* allocation.py:182-189.  What is available is within the whole, a target within the limits.
LEMMA AvailableIs ==
  ASSUME NEW p \in Problems
  PROVE  Portfolio!Available(p) \in Nat /\ Portfolio!Available(p) <= Unit
  <1>1. Unit \in Nat /\ p.settings.reserve \in Nat /\ Unit - p.settings.reserve \in Int
    BY CandidatesAre, PortfolioConstants
  <1>2. Portfolio!Available(p) = IF 0 >= Unit - p.settings.reserve THEN 0 ELSE Unit - p.settings.reserve
    BY <1>1, LargerIs DEF Portfolio!Available
  <1> QED
    BY <1>1, <1>2

\* allocation.py:240-242.  A target is within the larger of its two limits.
LEMMA TargetIs ==
  ASSUME NEW p \in Problems
  PROVE  \A i \in Portfolio!Eligible(p) :
            /\ Portfolio!Target(p, i) \in Nat
            /\ Portfolio!Target(p, i) <= Portfolio!Max({p.settings.minimum, p.settings.maximum})
  <1>1. /\ p.settings.maximum \in Nat /\ p.settings.minimum \in Nat /\ p.settings.reserve \in Nat
    BY CandidatesAre
  <1>2. ASSUME NEW i \in Portfolio!Eligible(p)
        PROVE  /\ Portfolio!Target(p, i) \in Nat
               /\ Portfolio!Target(p, i) <= Portfolio!Max({p.settings.minimum, p.settings.maximum})
    <2> DEFINE w == Portfolio!Weight(p, i)
               least == p.settings.minimum
               most == p.settings.maximum
               m == Portfolio!Min({most, w})
    <2>1. w \in Nat
      BY WeightIsNat
    <2>2. Portfolio!Target(p, i) = Portfolio!Max({least, m})
      BY DEF Portfolio!Target
    <2> HIDE DEF w, least, most
    <2>3. least \in Nat /\ most \in Nat
      BY <1>1 DEF least, most
    <2>4. m = IF most <= w THEN most ELSE w
      BY <2>1, <2>3, LargerIs
    <2>5. m \in Nat /\ m <= most
      BY <2>1, <2>3, <2>4
    <2> HIDE DEF m
    <2>6. Portfolio!Max({least, m}) = IF least >= m THEN least ELSE m
      BY <2>3, <2>5, LargerIs
    <2>7. Portfolio!Max({least, most}) = IF least >= most THEN least ELSE most
      BY <2>3, LargerIs
    <2>8. Portfolio!Target(p, i) \in Nat /\ Portfolio!Target(p, i) <= Portfolio!Max({least, most})
      BY <2>2, <2>3, <2>5, <2>6, <2>7
    <2> QED
      BY <2>8 DEF least, most
  <1> QED
    BY <1>2

\* allocation.py:226-233.  Every eligible candidate has a place of its own, the better one before.
LEMMA PlacesAre ==
  ASSUME NEW p \in Problems
  PROVE  LET E == Portfolio!Eligible(p)
             N == Cardinality(E)
             ranked == Portfolio!Rank(p)
         IN  /\ \A i \in E : Portfolio!Place(p, i) \in 1 .. N /\ ranked[Portfolio!Place(p, i)] = i
             /\ \A n \in 1 .. N : ranked[n] \in E /\ Portfolio!Place(p, ranked[n]) = n
             /\ \A i, j \in E : p.candidates[j].robustness > p.candidates[i].robustness =>
                                   Portfolio!Place(p, j) < Portfolio!Place(p, i)
  <1> DEFINE E == Portfolio!Eligible(p)
             N == Cardinality(E)
             ranked == Portfolio!Rank(p)
             R == {x \in E \X E : Portfolio!Ahead(p, x[1], x[2])}
  <1>1. IsFiniteSet(E) /\ E \subseteq Nat /\ N \in Nat
        /\ \A i \in E : p.candidates[i].robustness \in Int /\ p.candidates[i].value \in Int
    BY CandidatesAre, PortfolioConstants
  <1>2. \A i, j \in E : <<i, j>> \in R <=> Portfolio!Ahead(p, i, j)
    OBVIOUS
  <1> HIDE DEF R, E
  <1>3. Orders(E, R)
    <2>1. \A i \in E : <<i, i>> \notin R
      BY <1>1, <1>2 DEF Portfolio!Ahead
    <2>2. ASSUME NEW i \in E, NEW j \in E, NEW k \in E, <<i, j>> \in R, <<j, k>> \in R PROVE <<i, k>> \in R
      <3>1. Portfolio!Ahead(p, i, j) /\ Portfolio!Ahead(p, j, k)
        BY <1>2, <2>2
      <3>2. Portfolio!Ahead(p, i, k)
        BY <1>1, <3>1 DEF Portfolio!Ahead
      <3> QED
        BY <1>2, <3>2
    <2>3. \A i, j \in E : i = j \/ <<i, j>> \in R \/ <<j, i>> \in R
      <3> TAKE i, j \in E
      <3> DEFINE c == p.candidates
      <3> HIDE DEF c
      <3>1. /\ c[i].robustness \in Int /\ c[i].value \in Int /\ i \in Int
            /\ c[j].robustness \in Int /\ c[j].value \in Int /\ j \in Int
        BY <1>1 DEF c
      <3>2. i = j \/ Portfolio!Ahead(p, i, j) \/ Portfolio!Ahead(p, j, i)
        BY <3>1 DEF Portfolio!Ahead, c
      <3> QED
        BY <1>2, <3>2
    <2> QED
      BY <2>1, <2>2, <2>3 DEF Orders
  <1>4. \A i \in E : Portfolio!Place(p, i) = Cardinality(UpTo(E, R, i))
    <2> TAKE i \in E
    <2>1. UpTo(E, R, i) = {j \in E : j = i \/ Portfolio!Ahead(p, j, i)}
      BY <1>2 DEF UpTo
    <2>2. \A S : Portfolio!Cardinality(S) = Cardinality(S)
      BY DEF Portfolio!Cardinality, Cardinality
    <2> QED
      BY <2>1, <2>2 DEF Portfolio!Place, E
  <1>5. /\ \A i \in E : Portfolio!Place(p, i) \in 1 .. N
        /\ \A i, j \in E : <<j, i>> \in R => Portfolio!Place(p, j) < Portfolio!Place(p, i)
        /\ \A i, j \in E : Portfolio!Place(p, i) = Portfolio!Place(p, j) => i = j
        /\ \A k \in 1 .. N : \E i \in E : Portfolio!Place(p, i) = k
    <2>1. /\ \A i \in E : Cardinality(UpTo(E, R, i)) \in 1 .. N
          /\ \A i, j \in E : <<j, i>> \in R => Cardinality(UpTo(E, R, j)) < Cardinality(UpTo(E, R, i))
          /\ \A i, j \in E : Cardinality(UpTo(E, R, i)) = Cardinality(UpTo(E, R, j)) => i = j
          /\ \A k \in 1 .. N : \E i \in E : Cardinality(UpTo(E, R, i)) = k
      <3>1. IsFiniteSet(E) /\ Orders(E, R)
        BY <1>1, <1>3
      <3>2. \A i \in E : Cardinality(UpTo(E, R, i)) \in 1 .. N
        BY <3>1, PlacesByOrder
      <3>3. \A i, j \in E : <<j, i>> \in R => Cardinality(UpTo(E, R, j)) < Cardinality(UpTo(E, R, i))
        BY <3>1, PlacesByOrder
      <3>4. \A i, j \in E : Cardinality(UpTo(E, R, i)) = Cardinality(UpTo(E, R, j)) => i = j
        BY <3>1, PlacesByOrder
      <3>5. \A k \in 1 .. N : \E i \in E : Cardinality(UpTo(E, R, i)) = k
        BY <3>1, PlacesByOrder
      <3> QED
        BY <3>2, <3>3, <3>4, <3>5
    <2> HIDE DEF N
    <2> QED
      BY <1>4, <2>1
  <1>6. \A n \in 1 .. N : ranked[n] = CHOOSE i \in E : Portfolio!Place(p, i) = n
    <2>1. \A S : Portfolio!Cardinality(S) = Cardinality(S)
      BY DEF Portfolio!Cardinality, Cardinality
    <2> QED
      BY <2>1 DEF Portfolio!Rank, E
  <1> HIDE DEF ranked, N
  <1>7. \A n \in 1 .. N : ranked[n] \in E /\ Portfolio!Place(p, ranked[n]) = n
    BY <1>5, <1>6
  <1>8. \A i \in E : ranked[Portfolio!Place(p, i)] = i
    BY <1>5, <1>7
  <1>9. \A i, j \in E : p.candidates[j].robustness > p.candidates[i].robustness => <<j, i>> \in R
    BY <1>2 DEF Portfolio!Ahead
  <1> QED
    BY <1>5, <1>7, <1>8, <1>9 DEF E, N, ranked

\* allocation.py:226-259.  What a selection leads to: the running use of capital along the ranking.
Share(p, used, i) == Portfolio!Min({Portfolio!Target(p, i), Portfolio!Left(p, used)})
Given(p, u, i) == Share(p, u[Portfolio!Place(p, i) - 1], i)
Uses(p, u) ==
    /\ u \in [0 .. Cardinality(Portfolio!Eligible(p)) -> 0 .. Portfolio!Available(p)]
    /\ u[0] = 0
    /\ \A n \in 1 .. Cardinality(Portfolio!Eligible(p)) :
          u[n] = u[n - 1] + Share(p, u[n - 1], Portfolio!Rank(p)[n])

\* A candidate takes its target or what is left, and leaves the rest within what is available.
LEMMA ShareIs ==
  ASSUME NEW p \in Problems, NEW used \in 0 .. Portfolio!Available(p), NEW i \in Portfolio!Eligible(p)
  PROVE  /\ Share(p, used, i) = IF Portfolio!Target(p, i) <= Portfolio!Available(p) - used
                                THEN Portfolio!Target(p, i) ELSE Portfolio!Available(p) - used
         /\ Share(p, used, i) \in Nat /\ used + Share(p, used, i) \in 0 .. Portfolio!Available(p)
  <1> DEFINE t == Portfolio!Target(p, i)
             a == Portfolio!Available(p)
  <1>1. t \in Nat /\ a \in Nat
    BY TargetIs, AvailableIs
  <1>2. Share(p, used, i) = Portfolio!Min({t, a - used})
    BY DEF Share, Portfolio!Left
  <1> HIDE DEF t
  <1>3. a \in Int /\ used \in Nat /\ used <= a /\ a - used \in Int
    BY <1>1
  <1> HIDE DEF a
  <1>4. Portfolio!Min({t, a - used}) = IF t <= a - used THEN t ELSE a - used
    <2>1. \A x, y \in Int : Portfolio!Min({x, y}) = IF x <= y THEN x ELSE y
      BY LargerIs
    <2> QED
      BY <1>1, <1>3, <2>1
  <1>5. /\ Share(p, used, i) = IF t <= a - used THEN t ELSE a - used
        /\ Share(p, used, i) \in Nat /\ used + Share(p, used, i) \in 0 .. a
    BY <1>1, <1>2, <1>3, <1>4
  <1> QED
    BY <1>5 DEF t, a

\* The recursive function of the allocation, unfolded along the ranking.
LEMMA GreedyIs ==
  ASSUME NEW p \in Problems
  PROVE  \E u : /\ Uses(p, u)
                /\ Portfolio!Greedy(p) = [i \in {j \in Portfolio!Eligible(p) : Given(p, u, j) > 0} |-> Given(p, u, i)]
  <1> DEFINE E == Portfolio!Eligible(p)
             N == Cardinality(E)
             ranked == Portfolio!Rank(p)
             V == 0 .. Portfolio!Available(p)
             Along(f) == f = [n \in 0 .. N |-> IF n = 0 THEN 0
                                ELSE f[n - 1] + Share(p, f[n - 1], ranked[n])]
             u == CHOOSE f : Along(f)
  <1>1. N \in Nat /\ \A n \in 1 .. N : ranked[n] \in E
    BY CandidatesAre, PlacesAre
  <1>2. 0 \in V
    <2>1. Portfolio!Available(p) \in Nat
      BY AvailableIs
    <2> QED
      BY <2>1
  <1>3. \A n \in 1 .. N : \A v \in V : v + Share(p, v, ranked[n]) \in V
    BY <1>1, ShareIs
  <1> HIDE DEF N, ranked, V, E
  <1>4. \E f : Along(f)
    <2> DEFINE g == [n \in 1 .. N |-> [v \in V |-> v + Share(p, v, ranked[n])]]
    <2>1. g \in [1 .. N -> [V -> V]]
      BY <1>3
    <2>2. \A n \in 1 .. N : \A v \in V : g[n][v] = v + Share(p, v, ranked[n])
      OBVIOUS
    <2> HIDE DEF g
    <2>3. PICK f : Runs(N, V, 0, g, f)
      BY <1>1, <1>2, <2>1, RunExists
    <2>4. f \in [0 .. N -> V] /\ f[0] = 0 /\ \A n \in 1 .. N : f[n] = g[n][f[n - 1]]
      BY <2>3 DEF Runs
    <2>5. \A n \in 0 .. N : f[n] = IF n = 0 THEN 0 ELSE f[n - 1] + Share(p, f[n - 1], ranked[n])
      <3> TAKE n \in 0 .. N
      <3>1. CASE n = 0
        BY <2>4, <3>1
      <3>2. CASE n # 0
        <4>1. n \in 1 .. N /\ n - 1 \in 0 .. N
          BY <1>1, <3>2
        <4>2. f[n] = g[n][f[n - 1]] /\ f[n - 1] \in V
          BY <2>4, <4>1
        <4> QED
          BY <2>2, <3>2, <4>1, <4>2
      <3> QED
        BY <3>1, <3>2
    <2>6. Along(f)
      BY <2>4, <2>5
    <2> QED
      BY <2>6
  <1>5. Along(u)
    BY <1>4
  <1>6. /\ DOMAIN u = 0 .. N /\ u[0] = 0
        /\ \A n \in 1 .. N : u[n] = u[n - 1] + Share(p, u[n - 1], ranked[n])
    <2> HIDE DEF u
    <2>1. 0 \in 0 .. N /\ \A n \in 1 .. N : n \in 0 .. N /\ n # 0
      BY <1>1
    <2> QED
      BY <1>5, <2>1
  <1> HIDE DEF Along
  <1>7. \A n \in 0 .. N : u[n] \in V
    <2> HIDE DEF u
    <2>1. u[0] \in V /\ \A n \in 1 .. N : u[n - 1] \in V => u[n] \in V
      BY <1>2, <1>3, <1>6
    <2> QED
      BY <1>1, <2>1, Carried
  <1>8. u \in [0 .. N -> V]
    <2>1. u = [n \in 0 .. N |-> u[n]]
      <3> HIDE DEF u
      <3> QED
        BY <1>5, <1>6 DEF Along
    <2> HIDE DEF u
    <2> QED
      BY <1>7, <2>1
  <1>9. Uses(p, u)
    <2> HIDE DEF u
    <2> QED
      BY <1>6, <1>8 DEF Uses, N, ranked, V, E
  <1>10. Portfolio!Greedy(p) = [i \in {j \in Portfolio!Eligible(p) : Given(p, u, j) > 0} |-> Given(p, u, i)]
    <2>1. Portfolio!Cardinality(Portfolio!Eligible(p)) = Cardinality(Portfolio!Eligible(p))
      BY DEF Portfolio!Cardinality, Cardinality
    <2> QED
      BY <2>1, Zenon DEF Portfolio!Greedy, Given, Share, Along, N, ranked, E, Portfolio!Cardinality, Cardinality
  <1> QED
    BY <1>9, <1>10

\* What the property asks of the allocations a to a problem.
FundedBy(p, a) ==
    LET more(j, i) == p.candidates[j].robustness > p.candidates[i].robustness
        limit == Portfolio!Max({p.settings.minimum, p.settings.maximum})
    IN  /\ Portfolio!SumOf(a) <= Portfolio!Available(p)
        /\ DOMAIN a \subseteq Portfolio!Eligible(p)
        /\ \A i \in DOMAIN a :
            /\ a[i] <= limit
            /\ \A j \in Portfolio!Eligible(p) :
                  more(j, i) => Portfolio!WeightIn(a, j) = Portfolio!Target(p, j)
        /\ \A i \in Portfolio!Eligible(p) :
            Portfolio!WeightIn(a, i) < Portfolio!Target(p, i) =>
               Portfolio!SumOf(a) = Portfolio!Available(p)

\* allocation.py:182-259.  What an allocation gives is funded, and the best are given first.
LEMMA GreedyIsFunded ==
  ASSUME NEW p \in Problems
  PROVE  LET a == Portfolio!Greedy(p)
         IN  /\ FundedBy(p, a)
             /\ DOMAIN a \subseteq Ids /\ \A i \in DOMAIN a : a[i] \in 1 .. Unit
  <1>1. PICK u : /\ Uses(p, u)
                 /\ Portfolio!Greedy(p) = [i \in {j \in Portfolio!Eligible(p) : Given(p, u, j) > 0} |-> Given(p, u, i)]
    BY GreedyIs
  <1> DEFINE E == Portfolio!Eligible(p)
             N == Cardinality(E)
             ranked == Portfolio!Rank(p)
             most == Portfolio!Available(p)
             a == Portfolio!Greedy(p)
             seat(i) == Portfolio!Place(p, i)
             goal(i) == Portfolio!Target(p, i)
             given(i) == Given(p, u, i)
             limit == Portfolio!Max({p.settings.minimum, p.settings.maximum})
  <1>2. /\ N \in Nat /\ E \subseteq Ids /\ IsFiniteSet(E)
        /\ most \in Nat /\ most <= Unit /\ Unit \in Nat
        /\ \A i \in E : goal(i) \in Nat /\ goal(i) <= limit
    BY CandidatesAre, AvailableIs, TargetIs, PortfolioConstants
  <1>3. /\ \A i \in E : seat(i) \in 1 .. N /\ ranked[seat(i)] = i
        /\ \A n \in 1 .. N : ranked[n] \in E /\ seat(ranked[n]) = n
        /\ \A i, j \in E : p.candidates[j].robustness > p.candidates[i].robustness => seat(j) < seat(i)
    BY PlacesAre
  <1>4. /\ u \in [0 .. N -> 0 .. most] /\ u[0] = 0
        /\ \A n \in 1 .. N : u[n] = u[n - 1] + Share(p, u[n - 1], ranked[n])
    BY <1>1 DEF Uses
  <1>5. ASSUME NEW i \in E
        PROVE  /\ seat(i) \in 1 .. N /\ seat(i) \in 0 .. N /\ seat(i) - 1 \in 0 .. N
               /\ u[seat(i)] \in 0 .. most /\ u[seat(i) - 1] \in 0 .. most
               /\ given(i) \in Nat /\ u[seat(i)] = u[seat(i) - 1] + given(i)
               /\ given(i) = IF goal(i) <= most - u[seat(i) - 1] THEN goal(i) ELSE most - u[seat(i) - 1]
    <2>1. seat(i) \in 1 .. N /\ ranked[seat(i)] = i
      BY <1>3
    <2> HIDE DEF N, seat
    <2>2. seat(i) \in 0 .. N /\ seat(i) - 1 \in 0 .. N
      BY <1>2, <2>1
    <2>3. u[seat(i)] \in 0 .. most /\ u[seat(i) - 1] \in 0 .. most
      BY <1>4, <2>2
    <2>4. given(i) = Share(p, u[seat(i) - 1], i)
      BY DEF Given, seat
    <2>5. u[seat(i)] = u[seat(i) - 1] + given(i)
      BY <1>4, <2>1, <2>4
    <2>6. /\ given(i) \in Nat
          /\ given(i) = IF goal(i) <= most - u[seat(i) - 1] THEN goal(i) ELSE most - u[seat(i) - 1]
      BY <2>3, <2>4, ShareIs
    <2> QED
      BY <2>1, <2>2, <2>3, <2>5, <2>6
  <1>6. /\ DOMAIN a = {j \in E : given(j) > 0}
        /\ \A i \in DOMAIN a : a[i] = given(i)
    BY <1>1
  <1>7. \A i \in E : Portfolio!WeightIn(a, i) = given(i)
    <2> TAKE i \in E
    <2>1. given(i) \in Nat
      BY <1>5
    <2> HIDE DEF a, given
    <2>2. CASE given(i) > 0
      BY <1>6, <2>2 DEF Portfolio!WeightIn
    <2>3. CASE ~(given(i) > 0)
      BY <1>6, <2>1, <2>3 DEF Portfolio!WeightIn
    <2> QED
      BY <2>2, <2>3
  <1> HIDE DEF E, N, ranked, most, a, seat, goal, given, limit
  <1>8. \A m, n \in 0 .. N : m <= n => u[m] <= u[n]
    <2>1. u \in [0 .. N -> Int]
      BY <1>2, <1>4
    <2>2. ASSUME NEW n \in 1 .. N PROVE u[n - 1] <= u[n]
      <3>1. ranked[n] \in E /\ seat(ranked[n]) = n
        BY <1>3
      <3>2. u[n] = u[n - 1] + given(ranked[n]) /\ given(ranked[n]) \in Nat /\ u[n - 1] \in 0 .. most
        BY <1>5, <3>1
      <3> QED
        BY <1>2, <3>2
    <2> QED
      BY <1>2, <2>1, <2>2, Grows
  <1>9. Counted(a)
    <2>1. DOMAIN a \subseteq E /\ \A i \in DOMAIN a : a[i] \in Nat
      BY <1>5, <1>6
    <2> QED
      BY <1>2, <2>1, FS_Subset DEF Counted
  <1>10. Sum(a) = u[N]
    <2>1. \A j, k \in 1 .. N : ranked[j] = ranked[k] => j = k
      BY <1>3
    <2>2. u \in [0 .. N -> Int] /\ u[0] = 0
      BY <1>2, <1>4
    <2>3. \A n \in 1 .. N : u[n] = u[n - 1] + (IF ranked[n] \in DOMAIN a THEN a[ranked[n]] ELSE 0)
      <3> TAKE n \in 1 .. N
      <3> DEFINE r == ranked[n]
      <3> HIDE DEF r
      <3>1. r \in E /\ seat(r) = n
        BY <1>3 DEF r
      <3>2. u[n] = u[n - 1] + given(r) /\ given(r) \in Nat
        BY <1>5, <3>1
      <3>3. given(r) = IF r \in DOMAIN a THEN a[r] ELSE 0
        <4>1. CASE given(r) > 0
          BY <1>6, <3>1, <4>1
        <4>2. CASE ~(given(r) > 0)
          <5>1. r \notin DOMAIN a /\ given(r) = 0
            BY <1>6, <3>2, <4>2
          <5> QED
            BY <5>1
        <4> QED
          BY <4>1, <4>2
      <3> QED
        BY <3>2, <3>3 DEF r
    <2>4. \A n \in 0 .. N : Sum(Part(a, ranked, n)) = u[n]
      <3>1. AddsAlong(N, ranked, a, u)
        BY <2>1, <2>2, <2>3 DEF AddsAlong
      <3> QED
        BY <1>2, <1>9, <3>1, SumAlong
    <2>5. N \in 0 .. N
      BY <1>2
    <2>6. DOMAIN Part(a, ranked, N) = DOMAIN a /\ \A x \in DOMAIN a : Part(a, ranked, N)[x] = a[x]
      <3>1. \A y \in DOMAIN a : \E k \in 1 .. N : ranked[k] = y
        BY <1>3, <1>6
      <3> QED
        BY <3>1 DEF Part
    <2>7. Sum(Part(a, ranked, N)) = Sum(a)
      BY <1>9, <2>6, SumAlike
    <2> QED
      BY <2>4, <2>5, <2>7
  <1>11. Portfolio!SumOf(a) = u[N] /\ u[N] \in 0 .. most /\ N \in 0 .. N
    BY <1>2, <1>4, <1>10, SumOfIsSum
  <1>12. ASSUME NEW i \in DOMAIN a
         PROVE  i \in E /\ a[i] = given(i) /\ given(i) > 0 /\ a[i] <= limit /\ a[i] \in 1 .. Unit
    <2>1. i \in E /\ a[i] = given(i) /\ given(i) > 0
      BY <1>6
    <2>2. /\ u[seat(i) - 1] \in 0 .. most /\ given(i) \in Nat
          /\ given(i) = IF goal(i) <= most - u[seat(i) - 1] THEN goal(i) ELSE most - u[seat(i) - 1]
      BY <1>5, <2>1
    <2>3. goal(i) \in Nat /\ goal(i) <= limit /\ most \in Nat /\ most <= Unit /\ Unit \in Nat
      BY <1>2, <2>1
    <2>4. limit \in Int
      BY CandidatesAre, LargerIs DEF limit
    <2>5. a[i] <= goal(i) /\ a[i] <= most /\ a[i] \in Nat /\ a[i] > 0
      BY <2>1, <2>2, <2>3
    <2> QED
      BY <2>1, <2>3, <2>4, <2>5
  <1>13. ASSUME NEW i \in DOMAIN a, NEW j \in E, p.candidates[j].robustness > p.candidates[i].robustness
         PROVE  Portfolio!WeightIn(a, j) = goal(j)
    <2>1. i \in E /\ given(i) > 0 /\ seat(j) < seat(i)
      BY <1>3, <1>12, <1>13
    <2>2. /\ seat(i) \in 1 .. N /\ seat(i) - 1 \in 0 .. N /\ u[seat(i) - 1] \in 0 .. most
          /\ given(i) = IF goal(i) <= most - u[seat(i) - 1] THEN goal(i) ELSE most - u[seat(i) - 1]
      BY <1>5, <2>1
    <2>3. /\ seat(j) \in 1 .. N /\ seat(j) \in 0 .. N /\ u[seat(j)] \in 0 .. most /\ u[seat(j) - 1] \in 0 .. most
          /\ u[seat(j)] = u[seat(j) - 1] + given(j)
          /\ given(j) = IF goal(j) <= most - u[seat(j) - 1] THEN goal(j) ELSE most - u[seat(j) - 1]
      BY <1>5
    <2>4. seat(j) <= seat(i) - 1
      BY <1>2, <2>1, <2>2, <2>3
    <2>5. u[seat(j)] <= u[seat(i) - 1]
      BY <1>8, <2>2, <2>3, <2>4
    <2>6. goal(i) \in Nat /\ goal(j) \in Nat /\ most \in Nat
      BY <1>2, <2>1
    <2>7. u[seat(i) - 1] < most
      BY <2>1, <2>2, <2>6
    <2>8. given(j) = goal(j)
      BY <2>3, <2>5, <2>6, <2>7, <2>2
    <2> QED
      BY <1>7, <2>8
  <1>14. ASSUME NEW i \in E, Portfolio!WeightIn(a, i) < goal(i) PROVE Portfolio!SumOf(a) = most
    <2>1. given(i) < goal(i) /\ goal(i) \in Nat /\ most \in Nat
      BY <1>2, <1>7, <1>14
    <2>2. /\ seat(i) \in 1 .. N /\ seat(i) \in 0 .. N /\ u[seat(i)] \in 0 .. most /\ u[seat(i) - 1] \in 0 .. most
          /\ u[seat(i)] = u[seat(i) - 1] + given(i)
          /\ given(i) = IF goal(i) <= most - u[seat(i) - 1] THEN goal(i) ELSE most - u[seat(i) - 1]
      BY <1>5
    <2>3. u[seat(i)] = most
      BY <2>1, <2>2
    <2>4. seat(i) <= N
      BY <1>2, <2>2
    <2>5. u[seat(i)] <= u[N]
      BY <1>8, <1>11, <2>2, <2>4
    <2> QED
      BY <1>11, <2>1, <2>3, <2>5
  <1>15. Portfolio!SumOf(a) <= most /\ DOMAIN a \subseteq E /\ DOMAIN a \subseteq Ids
    <2>1. DOMAIN a \subseteq E
      BY <1>12
    <2>2. Portfolio!SumOf(a) <= most
      BY <1>2, <1>11
    <2> QED
      BY <1>2, <2>1, <2>2
  <1>16. FundedBy(p, a)
    BY <1>12, <1>13, <1>14, <1>15 DEF FundedBy, E, most, goal, limit
  <1>17. DOMAIN a \subseteq Ids /\ \A i \in DOMAIN a : a[i] \in 1 .. Unit
    BY <1>12, <1>15
  <1> QED
    BY <1>16, <1>17 DEF a

\* rebalancing.py:23-45.  Between any two lists of positive weights the plan is the difference.
Weights(a) == DOMAIN a \subseteq Ids /\ \A i \in DOMAIN a : a[i] \in 1 .. Unit

\* rebalancing.py:23-45.  The plan leads from any allocation to any other.
LEMMA PlanIs ==
  ASSUME NEW before, NEW after, Weights(before), Weights(after)
  PROVE  LET plan2 == Portfolio!Plan(before, after)
         IN  /\ \A i \in Ids : Portfolio!WeightIn(before, i)
                                  + (IF i \in DOMAIN plan2 THEN plan2[i].delta ELSE 0)
                                  = Portfolio!WeightIn(after, i)
             /\ \A i \in DOMAIN before \ DOMAIN after : i \in DOMAIN plan2 /\ plan2[i].completed
  <1> DEFINE change == Portfolio!Plan(before, after)
             b(i) == Portfolio!WeightIn(before, i)
             a(i) == Portfolio!WeightIn(after, i)
  <1>1. \A i : b(i) \in Int /\ a(i) \in Int
    <2> TAKE i
    <2>1. Unit \in Nat
      BY PortfolioConstants
    <2>2. b(i) \in Int
      BY <2>1 DEF Portfolio!WeightIn, Weights
    <2>3. a(i) \in Int
      BY <2>1 DEF Portfolio!WeightIn, Weights
    <2> QED
      BY <2>2, <2>3
  <1>2. /\ DOMAIN change = DOMAIN before \cup DOMAIN after
        /\ \A i \in DOMAIN change : /\ change[i].delta = a(i) - b(i)
                                    /\ change[i].completed = (b(i) > 0 /\ a(i) = 0)
    BY DEF Portfolio!Plan, Portfolio!Held
  <1>3. /\ \A i \in DOMAIN before : b(i) > 0
        /\ \A i : i \notin DOMAIN before => b(i) = 0
        /\ \A i : i \notin DOMAIN after => a(i) = 0
    <2>1. \A i \in DOMAIN before : before[i] > 0
      BY PortfolioConstants DEF Weights
    <2> QED
      BY <2>1 DEF Portfolio!WeightIn
  <1> HIDE DEF change, a, b
  <1>4. ASSUME NEW i \in Ids PROVE b(i) + (IF i \in DOMAIN change THEN change[i].delta ELSE 0) = a(i)
    <2>1. CASE i \in DOMAIN change
      <3>1. change[i].delta = a(i) - b(i) /\ a(i) \in Int /\ b(i) \in Int
        BY <1>1, <1>2, <2>1
      <3> QED
        BY <2>1, <3>1
    <2>2. CASE i \notin DOMAIN change
      <3>1. b(i) = 0 /\ a(i) = 0
        BY <1>2, <1>3, <2>2
      <3> QED
        BY <2>2, <3>1
    <2> QED
      BY <2>1, <2>2
  <1>5. ASSUME NEW i \in DOMAIN before \ DOMAIN after PROVE i \in DOMAIN change /\ change[i].completed
    BY <1>2, <1>3
  <1> QED
    BY <1>4, <1>5 DEF change, a, b

-----------------------------------------------------------------------------
(* The arbiter                                                               *)

\* Of two lists of equally many numbers the one with the smaller first difference is before.
LEMMA Lexicographic ==
  ASSUME NEW L \in Nat
  PROVE  /\ \A k \in [1 .. L -> Int] : ~Portfolio!Before(k, k)
         /\ \A k, m, o \in [1 .. L -> Int] :
               Portfolio!Before(k, m) /\ Portfolio!Before(m, o) => Portfolio!Before(k, o)
         /\ \A k, m \in [1 .. L -> Int] : k = m \/ Portfolio!Before(k, m) \/ Portfolio!Before(m, k)
  <1>0. \A k \in [1 .. L -> Int] : DOMAIN k = 1 .. L /\ \A n \in 1 .. L : k[n] \in Int
    OBVIOUS
  <1>1. ASSUME NEW k \in [1 .. L -> Int], Portfolio!Before(k, k) PROVE FALSE
    <2>1. PICK n \in 1 .. L : k[n] < k[n]
      BY <1>0, <1>1 DEF Portfolio!Before
    <2>2. k[n] \in Int
      BY <1>0
    <2> QED
      BY <2>1, <2>2
  <1>2. ASSUME NEW k \in [1 .. L -> Int], NEW m \in [1 .. L -> Int], NEW o \in [1 .. L -> Int],
               Portfolio!Before(k, m), Portfolio!Before(m, o)
        PROVE  Portfolio!Before(k, o)
    <2>1. PICK a \in 1 .. L : k[a] < m[a] /\ \A j \in 1 .. a - 1 : k[j] = m[j]
      BY <1>0, <1>2 DEF Portfolio!Before
    <2>2. PICK b \in 1 .. L : m[b] < o[b] /\ \A j \in 1 .. b - 1 : m[j] = o[j]
      BY <1>0, <1>2 DEF Portfolio!Before
    <2>3. /\ a \in Int /\ b \in Int /\ a >= 1 /\ b >= 1
          /\ k[a] \in Int /\ m[a] \in Int /\ o[a] \in Int /\ k[b] \in Int /\ m[b] \in Int /\ o[b] \in Int
      BY <1>0
    <2>4. CASE a <= b
      <3>1. m[a] <= o[a]
        <4>1. CASE a = b
          BY <2>2, <2>3, <4>1
        <4>2. CASE a # b
          <5>1. a \in 1 .. b - 1
            BY <2>3, <2>4, <4>2
          <5> QED
            BY <2>2, <2>3, <5>1
        <4> QED
          BY <4>1, <4>2
      <3>2. k[a] < o[a]
        BY <2>1, <2>3, <3>1
      <3>3. \A j \in 1 .. a - 1 : k[j] = o[j]
        <4>1. \A j \in 1 .. a - 1 : j \in 1 .. b - 1
          BY <2>3, <2>4
        <4> QED
          BY <2>1, <2>2, <4>1
      <3> QED
        BY <1>0, <3>2, <3>3 DEF Portfolio!Before
    <2>5. CASE ~(a <= b)
      <3>1. b \in 1 .. a - 1
        BY <2>3, <2>5
      <3>2. k[b] < o[b]
        BY <2>1, <2>2, <3>1
      <3>3. \A j \in 1 .. b - 1 : k[j] = o[j]
        <4>1. \A j \in 1 .. b - 1 : j \in 1 .. a - 1
          BY <2>3, <2>5
        <4> QED
          BY <2>1, <2>2, <4>1
      <3> QED
        BY <1>0, <3>2, <3>3 DEF Portfolio!Before
    <2> QED
      BY <2>4, <2>5
  <1>3. ASSUME NEW k \in [1 .. L -> Int], NEW m \in [1 .. L -> Int], k # m
        PROVE  Portfolio!Before(k, m) \/ Portfolio!Before(m, k)
    <2> DEFINE Differ == {n \in 1 .. L : k[n] # m[n]}
    <2>1. Differ # {}
      BY <1>3
    <2>2. PICK n \in Differ : \A j \in Differ : n <= j
      <3>1. Differ \subseteq Nat
        OBVIOUS
      <3> HIDE DEF Differ
      <3> QED
        BY <2>1, <3>1, FirstOf
    <2>3. n \in 1 .. L /\ k[n] # m[n] /\ k[n] \in Int /\ m[n] \in Int
      BY <1>0, <2>2
    <2>4. \A j \in 1 .. n - 1 : k[j] = m[j]
      <3> TAKE j \in 1 .. n - 1
      <3>1. j \in 1 .. L /\ ~(n <= j)
        BY <2>3
      <3> QED
        BY <2>2, <3>1
    <2>5. k[n] < m[n] \/ m[n] < k[n]
      BY <2>3
    <2> QED
      BY <1>0, <2>3, <2>4, <2>5 DEF Portfolio!Before
  <1> QED
    BY <1>1, <1>2, <1>3

\* arbitration.py:25-54.  The keys of a policy are as long as each other, mandatory first where it
\* asks for that.
LEMMA KeysAre ==
  ASSUME NEW by \in Rankings
  PROVE  /\ \E L \in Nat : \A a \in Portfolio!ActionType : Portfolio!Key(by, a) \in [1 .. L -> Int]
         /\ by \in {"risk_first", "composite_score"} =>
              \A a \in Portfolio!ActionType : /\ 1 \in DOMAIN Portfolio!Key(by, a)
                                              /\ Portfolio!Key(by, a)[1] = IF a.mandatory THEN 0 ELSE 1
  <1>1. by \in Portfolio!Ranking
    BY PortfolioConstants
  <1>2. \A a \in Portfolio!ActionType :
           /\ a.mandatory \in BOOLEAN /\ a.capital \in Int /\ a.value \in Int /\ a.risk \in Int
           /\ a.marginal \in Int /\ a.score \in Int /\ a.age \in Int /\ a.submitted \in Int
    BY DEF Portfolio!ActionType
  <1>3. \A x \in Int : <<x>> \in [1 .. 1 -> Int]
    OBVIOUS
  <1>4. \A x, y \in Int : <<x, y>> \in [1 .. 2 -> Int]
    OBVIOUS
  <1>5. \A v, w, x, y, z \in Int : <<v, w, x, y, z>> \in [1 .. 5 -> Int]
    OBVIOUS
  <1>6. \E L \in Nat : \A a \in Portfolio!ActionType : Portfolio!Key(by, a) \in [1 .. L -> Int]
    <2>1. CASE by \in {"capital_efficiency", "first_in_first_out"}
      <3>1. ASSUME NEW a \in Portfolio!ActionType PROVE Portfolio!Key(by, a) \in [1 .. 1 -> Int]
        BY <1>2, <1>3, <2>1 DEF Portfolio!Key
      <3> QED
        BY <3>1
    <2>2. CASE by = "composite_score"
      <3>1. ASSUME NEW a \in Portfolio!ActionType PROVE Portfolio!Key(by, a) \in [1 .. 5 -> Int]
        <4> DEFINE f == IF a.mandatory THEN 0 ELSE 1
        <4>1. Portfolio!Key(by, a) = <<f, -a.value, a.capital, -a.score, a.marginal>>
          BY <2>2 DEF Portfolio!Key
        <4>2. f \in Int /\ -a.value \in Int /\ a.capital \in Int /\ -a.score \in Int /\ a.marginal \in Int
          BY <1>2
        <4> HIDE DEF f
        <4>3. <<f, -a.value, a.capital, -a.score, a.marginal>> \in [1 .. 5 -> Int]
          BY Zenon, <1>5, <4>2
        <4> QED
          BY Zenon, <4>1, <4>3
      <3> QED
        BY <3>1
    <2>3. CASE by \in {"fixed_priority", "risk_first", "highest_robustness_score",
                       "highest_expected_value", "lowest_marginal_risk", "strategy_age_priority"}
      <3>1. ASSUME NEW a \in Portfolio!ActionType
            PROVE  \E x, y \in Int : Portfolio!Key(by, a) = <<x, y>>
        <4>1. CASE by = "fixed_priority"
          BY <1>2, <4>1 DEF Portfolio!Key
        <4>2. CASE by = "risk_first"
          BY <1>2, <4>2 DEF Portfolio!Key
        <4>3. CASE by = "highest_robustness_score"
          <5>1. Portfolio!Key(by, a) = <<-a.score, a.submitted>> /\ -a.score \in Int
            BY <1>2, <4>3 DEF Portfolio!Key
          <5> QED
            BY <1>2, <5>1
        <4>4. CASE by = "highest_expected_value"
          <5>1. Portfolio!Key(by, a) = <<-a.value, a.submitted>> /\ -a.value \in Int
            BY <1>2, <4>4 DEF Portfolio!Key
          <5> QED
            BY <1>2, <5>1
        <4>5. CASE by = "lowest_marginal_risk"
          BY <1>2, <4>5 DEF Portfolio!Key
        <4>6. CASE by = "strategy_age_priority"
          <5>1. Portfolio!Key(by, a) = <<-a.age, a.submitted>> /\ -a.age \in Int
            BY <1>2, <4>6 DEF Portfolio!Key
          <5> QED
            BY <1>2, <5>1
        <4> QED
          BY <2>3, <4>1, <4>2, <4>3, <4>4, <4>5, <4>6
      <3>2. \A a \in Portfolio!ActionType : Portfolio!Key(by, a) \in [1 .. 2 -> Int]
        BY <1>4, <3>1
      <3> QED
        BY <3>2
    <2> QED
      BY <1>1, <2>1, <2>2, <2>3 DEF Portfolio!Ranking
  <1>7. ASSUME by \in {"risk_first", "composite_score"}, NEW a \in Portfolio!ActionType
        PROVE  1 \in DOMAIN Portfolio!Key(by, a) /\ Portfolio!Key(by, a)[1] = IF a.mandatory THEN 0 ELSE 1
    <2>1. CASE by = "risk_first"
      BY <2>1 DEF Portfolio!Key
    <2>2. CASE by = "composite_score"
      BY <2>2 DEF Portfolio!Key
    <2> QED
      BY <1>7, <2>1, <2>2
  <1> QED
    BY <1>6, <1>7

\* arbitration.py:25-54.  The ranking holds every action of the list once; where mandatory ones come
\* first, none but mandatory ones are ranked before one.
LEMMA RankedIs ==
  ASSUME NEW by \in Rankings, NEW list \in Actions
  PROVE  LET ranked == Portfolio!Ranked(by, list)
         IN  /\ Len(list) \in Nat /\ DOMAIN ranked = 1 .. Len(list)
             /\ \A n \in 1 .. Len(list) : ranked[n] \in Portfolio!ActionType
             /\ \A j, k \in 1 .. Len(list) : ranked[j] = ranked[k] => j = k
             /\ by \in {"risk_first", "composite_score"} =>
                  \A j, k \in 1 .. Len(list) : j < k /\ ranked[k].mandatory => ranked[j].mandatory
  <1> DEFINE D == DOMAIN list
             N == Len(list)
             K(i) == Portfolio!Key(by, list[i])
             R == {x \in D \X D : Portfolio!Before(K(x[1]), K(x[2])) \/ (K(x[1]) = K(x[2]) /\ x[1] < x[2])}
             ranked == Portfolio!Ranked(by, list)
             turn(i) == Portfolio!Turn(by, list, i)
  <1>1. /\ list \in Seq(Portfolio!ActionType) /\ N \in Nat /\ D = 1 .. N
        /\ \A i, j \in D : list[i].id = list[j].id => i = j
        /\ \A i \in D : list[i] \in Portfolio!ActionType
    BY PortfolioConstants
  <1>2. IsFiniteSet(D) /\ Cardinality(D) = N
    <2>1. IsFiniteSet(1 .. N) /\ Cardinality(1 .. N) = IF 1 > N THEN 0 ELSE N - 1 + 1
      BY <1>1, FS_Interval
    <2> HIDE DEF N, D
    <2> QED
      BY <1>1, <2>1
  <1>3. PICK L \in Nat : \A a \in Portfolio!ActionType : Portfolio!Key(by, a) \in [1 .. L -> Int]
    BY KeysAre
  <1>4. \A i \in D : K(i) \in [1 .. L -> Int] /\ i \in Int
    BY <1>1, <1>3
  <1>5. /\ \A k \in [1 .. L -> Int] : ~Portfolio!Before(k, k)
        /\ \A k, m, o \in [1 .. L -> Int] :
              Portfolio!Before(k, m) /\ Portfolio!Before(m, o) => Portfolio!Before(k, o)
        /\ \A k, m \in [1 .. L -> Int] : k = m \/ Portfolio!Before(k, m) \/ Portfolio!Before(m, k)
    BY Lexicographic
  <1>6. \A i, j \in D : <<i, j>> \in R <=> Portfolio!Before(K(i), K(j)) \/ (K(i) = K(j) /\ i < j)
    OBVIOUS
  <1> HIDE DEF R, D, K, N
  <1>7. Orders(D, R)
    <2>1. \A i \in D : <<i, i>> \notin R
      BY <1>4, <1>5, <1>6
    <2>2. ASSUME NEW i \in D, NEW j \in D, NEW k \in D, <<i, j>> \in R, <<j, k>> \in R PROVE <<i, k>> \in R
      <3>1. /\ K(i) \in [1 .. L -> Int] /\ K(j) \in [1 .. L -> Int] /\ K(k) \in [1 .. L -> Int]
            /\ i \in Int /\ j \in Int /\ k \in Int
        BY <1>4
      <3>2. /\ Portfolio!Before(K(i), K(j)) \/ (K(i) = K(j) /\ i < j)
            /\ Portfolio!Before(K(j), K(k)) \/ (K(j) = K(k) /\ j < k)
        BY <1>6, <2>2
      <3>3. Portfolio!Before(K(i), K(j)) /\ Portfolio!Before(K(j), K(k)) => Portfolio!Before(K(i), K(k))
        BY <1>5, <3>1
      <3>4. Portfolio!Before(K(i), K(k)) \/ (K(i) = K(k) /\ i < k)
        BY <3>1, <3>2, <3>3
      <3> QED
        BY <1>6, <3>4
    <2>3. ASSUME NEW i \in D, NEW j \in D PROVE i = j \/ <<i, j>> \in R \/ <<j, i>> \in R
      <3>1. K(i) \in [1 .. L -> Int] /\ K(j) \in [1 .. L -> Int] /\ i \in Int /\ j \in Int
        BY <1>4
      <3>2. K(i) = K(j) \/ Portfolio!Before(K(i), K(j)) \/ Portfolio!Before(K(j), K(i))
        BY <1>5, <3>1
      <3> QED
        BY <1>6, <3>1, <3>2
    <2> QED
      BY <2>1, <2>2, <2>3 DEF Orders
  <1>8. \A i \in D : turn(i) = Cardinality(UpTo(D, R, i))
    <2> TAKE i \in D
    <2> DEFINE T == {j \in D : Portfolio!Before(K(j), K(i)) \/ (K(j) = K(i) /\ j <= i)}
    <2>1. UpTo(D, R, i) = T
      <3>1. \A j \in D : j = i \/ <<j, i>> \in R <=> Portfolio!Before(K(j), K(i)) \/ (K(j) = K(i) /\ j <= i)
        BY <1>4, <1>6
      <3> QED
        BY <3>1 DEF UpTo
    <2>2. Portfolio!Cardinality(T) = Cardinality(T)
      BY DEF Portfolio!Cardinality, Cardinality
    <2>3. turn(i) = Portfolio!Cardinality(T)
      BY DEF Portfolio!Turn, D, K
    <2> QED
      BY <2>1, <2>2, <2>3
  <1>9. /\ \A i, j \in D : <<j, i>> \in R => turn(j) < turn(i)
        /\ \A i \in D : turn(i) \in 1 .. N
        /\ \A k \in 1 .. N : \E i \in D : turn(i) = k
    <2>1. IsFiniteSet(D) /\ Orders(D, R)
      BY <1>2, <1>7
    <2>2. \A i, j \in D : <<j, i>> \in R => Cardinality(UpTo(D, R, j)) < Cardinality(UpTo(D, R, i))
      BY <2>1, PlacesByOrder
    <2>3. \A k \in 1 .. Cardinality(D) : \E i \in D : Cardinality(UpTo(D, R, i)) = k
      BY <2>1, PlacesByOrder
    <2>4. \A i \in D : Cardinality(UpTo(D, R, i)) \in 1 .. Cardinality(D)
      BY <2>1, PlacesByOrder
    <2> QED
      BY <1>2, <1>8, <2>2, <2>3, <2>4
  <1> DEFINE seat(n) == CHOOSE i \in D : turn(i) = n
  <1>10. \A n \in 1 .. N : seat(n) \in D /\ turn(seat(n)) = n
    <2> HIDE DEF turn
    <2> QED
      BY <1>9
  <1>11. DOMAIN ranked = 1 .. N /\ \A n \in 1 .. N : ranked[n] = list[seat(n)]
    BY <1>1 DEF Portfolio!Ranked, D
  <1> HIDE DEF ranked, seat, turn
  <1>12. \A n \in 1 .. N : ranked[n] \in Portfolio!ActionType
    BY <1>1, <1>10, <1>11
  <1>13. \A j, k \in 1 .. N : ranked[j] = ranked[k] => j = k
    <2> TAKE j, k \in 1 .. N
    <2> HAVE ranked[j] = ranked[k]
    <2>1. /\ seat(j) \in D /\ seat(k) \in D /\ turn(seat(j)) = j /\ turn(seat(k)) = k
          /\ list[seat(j)].id = list[seat(k)].id
      BY <1>10, <1>11
    <2>2. seat(j) = seat(k)
      BY <1>1, <2>1
    <2> QED
      BY <2>1, <2>2
  <1>14. ASSUME by \in {"risk_first", "composite_score"}, NEW j \in 1 .. N, NEW k \in 1 .. N, j < k,
                ranked[k].mandatory, ~ranked[j].mandatory
         PROVE  FALSE
    <2>1. seat(j) \in D /\ seat(k) \in D /\ turn(seat(j)) = j /\ turn(seat(k)) = k /\ j \in Int /\ k \in Int
      BY <1>10
    <2>2. <<seat(j), seat(k)>> \in R
      <3>1. seat(j) # seat(k)
        BY <1>14, <2>1
      <3>2. <<seat(k), seat(j)>> \notin R
        <4> SUFFICES ASSUME <<seat(k), seat(j)>> \in R PROVE FALSE
          OBVIOUS
        <4>1. turn(seat(k)) < turn(seat(j))
          BY <1>9, <2>1
        <4> QED
          BY <1>14, <2>1, <4>1
      <3> QED
        BY <1>7, <2>1, <3>1, <3>2 DEF Orders
    <2>3. /\ 1 \in DOMAIN K(seat(j)) /\ K(seat(j))[1] = 1
          /\ 1 \in DOMAIN K(seat(k)) /\ K(seat(k))[1] = 0
      <3>1. /\ list[seat(j)] \in Portfolio!ActionType /\ ~list[seat(j)].mandatory
            /\ list[seat(k)] \in Portfolio!ActionType /\ list[seat(k)].mandatory
        BY <1>1, <1>11, <1>14, <2>1
      <3> QED
        BY <1>14, <3>1, KeysAre DEF K
    <2>4. Portfolio!Before(K(seat(j)), K(seat(k)))
      BY <1>6, <2>1, <2>2, <2>3
    <2>5. PICK n \in DOMAIN K(seat(j)) : /\ K(seat(j))[n] < K(seat(k))[n]
                                       /\ \A i \in 1 .. n - 1 : K(seat(j))[i] = K(seat(k))[i]
      BY <2>4 DEF Portfolio!Before
    <2>6. n \in 1 .. L
      BY <1>4, <2>1, <2>5
    <2>7. CASE n = 1
      BY <2>3, <2>5, <2>7
    <2>8. CASE n # 1
      <3>1. 1 \in 1 .. n - 1
        BY <2>6, <2>8
      <3> QED
        BY <2>3, <2>5, <3>1
    <2> QED
      BY <2>7, <2>8
  <1>15. \A j, k \in 1 .. N : by \in {"risk_first", "composite_score"} /\ j < k /\ ranked[k].mandatory
                                 => ranked[j].mandatory
    BY <1>14
  <1> QED
    BY <1>1, <1>11, <1>12, <1>13, <1>15 DEF N, ranked

\* What is left along a ranking, of the capital there was.
Leaves(ranked, capital, left) ==
    /\ left \in [0 .. Len(ranked) -> 0 .. capital] /\ left[0] = capital
    /\ \A n \in 1 .. Len(ranked) :
          left[n] = left[n - 1] - IF ranked[n].capital <= left[n - 1] THEN ranked[n].capital ELSE 0

\* The recursive function of the capital left, unfolded along the ranking.
LEMMA LeftIs ==
  ASSUME NEW ranked, Len(ranked) \in Nat, NEW capital \in Nat,
         \A n \in 1 .. Len(ranked) : ranked[n] \in Portfolio!ActionType
  PROVE  Leaves(ranked, capital, Portfolio!LeftAfter(ranked, capital))
  <1> DEFINE N == Len(ranked)
             V == 0 .. capital
             Next2(n, v) == v - IF ranked[n].capital <= v THEN ranked[n].capital ELSE 0
             Along(f) == f = [n \in 0 .. N |-> IF n = 0 THEN capital ELSE Next2(n, f[n - 1])]
             u == CHOOSE f : Along(f)
  <1>1. N \in Nat /\ capital \in V
    OBVIOUS
  <1>2. \A n \in 1 .. N : \A v \in V : Next2(n, v) \in V
    <2> TAKE n \in 1 .. N
    <2> TAKE v \in V
    <2>1. ranked[n].capital \in Nat
      BY DEF Portfolio!ActionType
    <2> QED
      BY <2>1
  <1>3. Portfolio!LeftAfter(ranked, capital) = u
    BY Zenon DEF Portfolio!LeftAfter, Portfolio!Spends
  <1> HIDE DEF N, V, Next2
  <1>4. \E f : Along(f)
    <2> DEFINE g == [n \in 1 .. N |-> [v \in V |-> Next2(n, v)]]
    <2>1. g \in [1 .. N -> [V -> V]]
      BY <1>2
    <2>2. \A n \in 1 .. N : \A v \in V : g[n][v] = Next2(n, v)
      OBVIOUS
    <2> HIDE DEF g
    <2>3. PICK f : Runs(N, V, capital, g, f)
      BY <1>1, <2>1, RunExists
    <2>4. f \in [0 .. N -> V] /\ f[0] = capital /\ \A n \in 1 .. N : f[n] = g[n][f[n - 1]]
      BY <2>3 DEF Runs
    <2>5. \A n \in 0 .. N : f[n] = IF n = 0 THEN capital ELSE Next2(n, f[n - 1])
      <3> TAKE n \in 0 .. N
      <3>1. CASE n = 0
        BY <2>4, <3>1
      <3>2. CASE n # 0
        <4>1. n \in 1 .. N /\ n - 1 \in 0 .. N
          BY <1>1, <3>2
        <4>2. f[n] = g[n][f[n - 1]] /\ f[n - 1] \in V
          BY <2>4, <4>1
        <4> QED
          BY <2>2, <3>2, <4>1, <4>2
      <3> QED
        BY <3>1, <3>2
    <2>6. Along(f)
      BY <2>4, <2>5
    <2> QED
      BY <2>6
  <1>5. Along(u)
    BY <1>4
  <1> HIDE DEF u
  <1>6. /\ DOMAIN u = 0 .. N /\ u[0] = capital
        /\ \A n \in 1 .. N : u[n] = Next2(n, u[n - 1])
    <2>1. 0 \in 0 .. N /\ \A n \in 1 .. N : n \in 0 .. N /\ n # 0
      BY <1>1
    <2> QED
      BY <1>5, <2>1
  <1>7. \A n \in 0 .. N : u[n] \in V
    <2>1. u[0] \in V /\ \A n \in 1 .. N : u[n - 1] \in V => u[n] \in V
      BY <1>1, <1>2, <1>6
    <2> QED
      BY <1>1, <2>1, Carried
  <1>8. u = [n \in 0 .. N |-> u[n]]
    BY <1>5, <1>6
  <1> HIDE DEF Along
  <1>9. u \in [0 .. N -> V]
    BY <1>7, <1>8
  <1> QED
    BY <1>3, <1>6, <1>9 DEF Leaves, N, V, Next2

\* What the property asks of a decision d.
FairTo(d) ==
    LET sum(actions) == Portfolio!SumOf([a \in actions |-> a.capital])
    IN  /\ sum(d.accepted) + d.remaining = d.capital /\ d.remaining >= 0
        /\ \A a \in d.rejected :
            /\ a.capital > d.remaining
            /\ d.by \in {"risk_first", "composite_score"} /\ a.mandatory =>
                 a.capital > d.capital - sum({b \in d.accepted : b.mandatory})

\* arbitration.py:25-79.  A decision is fair to everything that competed.
LEMMA DecisionIsFair ==
  ASSUME NEW by \in Rankings, NEW list \in Actions, NEW capital \in 0 .. Capital,
         Portfolio!Decide(by, list, capital)
  PROVE  FairTo(decision')
  <1> DEFINE ranked == Portfolio!Ranked(by, list)
             N == Len(list)
             left == Portfolio!LeftAfter(ranked, capital)
             fits(n) == ranked[n].capital <= left[n - 1]
             taken == {ranked[n] : n \in {k \in DOMAIN ranked : fits(k)}}
             turned == {ranked[n] : n \in {k \in DOMAIN ranked : ~fits(k)}}
             d == [by |-> by, capital |-> capital, remaining |-> left[Len(ranked)],
                   accepted |-> taken, rejected |-> turned]
  <1>1. /\ N \in Nat /\ DOMAIN ranked = 1 .. N
        /\ \A n \in 1 .. N : ranked[n] \in Portfolio!ActionType
        /\ \A j, k \in 1 .. N : ranked[j] = ranked[k] => j = k
        /\ by \in {"risk_first", "composite_score"} =>
             \A j, k \in 1 .. N : j < k /\ ranked[k].mandatory => ranked[j].mandatory
    BY RankedIs
  <1>2. Len(ranked) = N /\ capital \in Nat
    <2>1. capital \in Nat
      BY PortfolioConstants
    <2>2. ranked \in Seq(Portfolio!ActionType)
      <3> HIDE DEF N
      <3> QED
        BY <1>1 DEF Portfolio!Ranked
    <2>3. Len(ranked) \in Nat /\ DOMAIN ranked = 1 .. Len(ranked)
      <3> HIDE DEF ranked
      <3> QED
        BY <2>2
    <2> HIDE DEF N, ranked
    <2> QED
      BY <1>1, <2>1, <2>3
  <1>3. decision' = d
    BY DEF Portfolio!Decide
  <1>4. Leaves(ranked, capital, left)
    <2> HIDE DEF ranked
    <2> QED
      BY <1>1, <1>2, LeftIs
  <1> HIDE DEF ranked, N, left
  <1>5. /\ left \in [0 .. N -> 0 .. capital] /\ left[0] = capital
        /\ \A n \in 1 .. N : left[n] = left[n - 1] - IF ranked[n].capital <= left[n - 1] THEN ranked[n].capital ELSE 0
    BY <1>2, <1>4 DEF Leaves
  <1>6. ASSUME NEW n \in 1 .. N
        PROVE  /\ ranked[n].capital \in Nat /\ n \in 0 .. N /\ n - 1 \in 0 .. N
               /\ left[n] \in 0 .. capital /\ left[n - 1] \in 0 .. capital /\ left[n] <= left[n - 1]
    <2>1. ranked[n].capital \in Nat
      BY <1>1 DEF Portfolio!ActionType
    <2>2. n \in 0 .. N /\ n - 1 \in 0 .. N
      BY <1>1
    <2>3. left[n] \in 0 .. capital /\ left[n - 1] \in 0 .. capital
      BY <1>5, <2>2
    <2>4. left[n] <= left[n - 1]
      BY <1>2, <1>5, <2>1, <2>3
    <2> QED
      BY <2>1, <2>2, <2>3, <2>4
  <1>7. \A n \in 1 .. N : ranked[n] \in taken <=> fits(n)
    BY <1>1
  <1>8. \A a \in taken : \E n \in 1 .. N : a = ranked[n]
    BY <1>1
  <1>9. \A a \in turned : \E n \in 1 .. N : a = ranked[n] /\ ~fits(n)
    BY <1>1
  <1> DEFINE f == [a \in taken |-> a.capital]
             u == [n \in 0 .. N |-> capital - left[n]]
  <1> HIDE DEF taken, turned
  <1>10. Counted(f)
    <2> DEFINE places == {k \in 1 .. N : fits(k)}
    <2>1. IsFiniteSet(taken)
      <3>1. IsFiniteSet(1 .. N)
        BY <1>1, FS_Interval
      <3>2. places \subseteq 1 .. N
        OBVIOUS
      <3>3. taken = {ranked[n] : n \in places}
        BY <1>1 DEF taken
      <3> DEFINE choice == [n \in places |-> ranked[n]]
      <3> HIDE DEF places
      <3>4. choice \in Surjection(places, taken)
        BY <3>3 DEF Surjection
      <3>5. IsFiniteSet(places)
        BY <3>1, <3>2, FS_Subset
      <3> HIDE DEF choice
      <3> QED
        BY <3>4, <3>5, FS_Surjection
    <2>2. \A a \in taken : a.capital \in Nat
      BY <1>6, <1>8
    <2> QED
      BY <2>1, <2>2 DEF Counted
  <1>11. DOMAIN f = taken /\ \A a \in taken : f[a] = a.capital
    OBVIOUS
  <1>12. \A n \in 0 .. N : u[n] = capital - left[n] /\ u[n] \in Int /\ left[n] \in 0 .. capital
    BY <1>2, <1>5
  <1> HIDE DEF f
  <1>13. AddsAlong(N, ranked, f, u)
    <2>1. u \in [0 .. N -> Int] /\ u[0] = 0
      <3>1. 0 \in 0 .. N
        BY <1>1
      <3>2. u[0] = 0
        BY <1>2, <1>5, <1>12, <3>1
      <3> QED
        BY <1>12, <3>2
    <2>2. \A n \in 1 .. N : u[n] = u[n - 1] + (IF ranked[n] \in DOMAIN f THEN f[ranked[n]] ELSE 0)
      <3> TAKE n \in 1 .. N
      <3> DEFINE c == ranked[n].capital
                 before == left[n - 1]
      <3>1. /\ c \in Nat /\ before \in 0 .. capital /\ left[n] \in 0 .. capital
            /\ u[n] = capital - left[n] /\ u[n - 1] = capital - before
        BY <1>6, <1>12
      <3>2. left[n] = before - IF c <= before THEN c ELSE 0
        BY <1>5
      <3>3. IF ranked[n] \in DOMAIN f THEN f[ranked[n]] = c /\ c <= before ELSE ~(c <= before)
        BY <1>7, <1>11
      <3> HIDE DEF c, before, u
      <3>4. CASE ranked[n] \in DOMAIN f
        BY <1>2, <3>1, <3>2, <3>3, <3>4
      <3>5. CASE ranked[n] \notin DOMAIN f
        BY <1>2, <3>1, <3>2, <3>3, <3>5
      <3> QED
        BY <3>4, <3>5
    <2> HIDE DEF u
    <2> QED
      BY <1>1, <2>1, <2>2 DEF AddsAlong
  <1> HIDE DEF u
  <1>14. \A n \in 0 .. N : Sum(Part(f, ranked, n)) = u[n]
    BY <1>1, <1>10, <1>13, SumAlong
  <1>15. N \in 0 .. N
    BY <1>1
  <1>16. Sum(f) = u[N]
    <2>1. DOMAIN Part(f, ranked, N) = DOMAIN f /\ \A x \in DOMAIN f : Part(f, ranked, N)[x] = f[x]
      <3>1. \A y \in DOMAIN f : \E k \in 1 .. N : ranked[k] = y
        BY <1>8, <1>11
      <3> QED
        BY <3>1 DEF Part
    <2>2. Sum(Part(f, ranked, N)) = Sum(f)
      BY <1>10, <2>1, SumAlike
    <2> QED
      BY <1>14, <1>15, <2>2
  <1>17. \A m, n \in 0 .. N : m <= n => left[n] <= left[m]
    <2>1. u \in [0 .. N -> Int]
      BY <1>13 DEF AddsAlong
    <2>2. \A n \in 1 .. N : u[n - 1] <= u[n]
      <3> TAKE n \in 1 .. N
      <3>1. n \in 0 .. N /\ n - 1 \in 0 .. N /\ left[n] <= left[n - 1]
        BY <1>6
      <3>2. /\ u[n] = capital - left[n] /\ u[n - 1] = capital - left[n - 1]
            /\ left[n] \in 0 .. capital /\ left[n - 1] \in 0 .. capital
        BY <1>12, <3>1
      <3> QED
        BY <1>2, <3>1, <3>2
    <2>3. \A m, n \in 0 .. N : m <= n => u[m] <= u[n]
      BY <1>1, <2>1, <2>2, Grows
    <2> QED
      BY <1>2, <1>12, <2>3
  <1>18. Portfolio!SumOf([a \in taken |-> a.capital]) + left[N] = capital /\ left[N] >= 0 /\ left[N] \in Nat
    <2>1. Portfolio!SumOf([a \in taken |-> a.capital]) = Sum(f)
      BY SumOfIsSum DEF f
    <2>2. u[N] = capital - left[N] /\ left[N] \in 0 .. capital
      BY <1>12, <1>15
    <2> QED
      BY <1>2, <1>16, <2>1, <2>2
  <1> DEFINE firm == {b \in taken : b.mandatory}
             g == [a \in firm |-> a.capital]
  <1>19. ASSUME NEW a \in turned
         PROVE  /\ a.capital > left[N]
                /\ by \in {"risk_first", "composite_score"} /\ a.mandatory =>
                     a.capital > capital - Portfolio!SumOf(g)
    <2>1. PICK n \in 1 .. N : a = ranked[n] /\ ~fits(n)
      BY <1>9
    <2>2. /\ a.capital \in Nat /\ n - 1 \in 0 .. N /\ left[n - 1] \in 0 .. capital
          /\ a.capital > left[n - 1]
      BY <1>2, <1>6, <2>1
    <2>3. left[N] <= left[n - 1]
      <3>1. n - 1 <= N
        BY <1>1
      <3> QED
        BY <1>15, <1>17, <2>2, <3>1
    <2>4. a.capital > left[N]
      BY <1>2, <1>18, <2>2, <2>3
    <2>5. ASSUME by \in {"risk_first", "composite_score"}, a.mandatory
          PROVE  a.capital > capital - Portfolio!SumOf(g)
      <3> DEFINE p == Part(f, ranked, n - 1)
      <3>1. Counted(g) /\ DOMAIN g = firm /\ \A x \in firm : g[x] = f[x]
        <4>1. firm \in SUBSET taken
          OBVIOUS
        <4>2. IsFiniteSet(firm)
          <5> HIDE DEF firm
          <5> QED
            BY <1>10, <1>11, <4>1, FS_Subset DEF Counted
        <4>3. DOMAIN g = firm /\ \A x \in firm : g[x] = f[x]
          BY <1>11
        <4>4. \A x \in firm : f[x] \in Nat
          BY <1>10, <1>11 DEF Counted
        <4> HIDE DEF g, firm
        <4> QED
          BY <4>2, <4>3, <4>4 DEF Counted
      <3>2. DOMAIN p = {y \in DOMAIN f : \E k \in 1 .. n - 1 : ranked[k] = y}
            /\ \A x \in DOMAIN p : p[x] = f[x]
        BY DEF Part
      <3>3. DOMAIN p \subseteq firm
        <4> SUFFICES ASSUME NEW y \in DOMAIN p PROVE y \in firm
          OBVIOUS
        <4>1. PICK k \in 1 .. n - 1 : ranked[k] = y
          BY <3>2
        <4>2. k \in 1 .. N /\ k < n
          BY <1>1, <4>1
        <4>3. ranked[k].mandatory
          BY <1>1, <2>1, <2>5, <4>2
        <4>4. y \in taken
          BY <1>11, <3>2
        <4> QED
          BY <4>1, <4>3, <4>4
      <3> HIDE DEF p, g, firm
      <3>4. Counted(p)
        <4>1. IsFiniteSet(DOMAIN p)
          BY <1>10, <3>2, FS_Subset DEF Counted
        <4> QED
          BY <1>10, <3>2, <4>1 DEF Counted
      <3>5. Sum(p) <= Sum(g) /\ Sum(p) \in Nat /\ Sum(g) \in Nat
        <4>1. \A x \in DOMAIN p : p[x] <= g[x]
          <5> TAKE x \in DOMAIN p
          <5>1. p[x] = g[x] /\ p[x] \in Nat
            BY <3>1, <3>2, <3>3, <3>4 DEF Counted
          <5> QED
            BY <5>1
        <4>2. DOMAIN p \subseteq DOMAIN g
          BY <3>1, <3>3
        <4> QED
          BY <3>1, <3>4, <4>1, <4>2, SumAtMost, SumIsNat
      <3>6. Sum(p) = capital - left[n - 1]
        BY <1>12, <1>14, <2>2 DEF p
      <3>7. Portfolio!SumOf(g) = Sum(g)
        BY SumOfIsSum
      <3> QED
        BY <1>2, <2>2, <3>5, <3>6, <3>7
    <2> QED
      BY <2>4, <2>5
  <1>20. /\ decision'.by = by /\ decision'.capital = capital /\ decision'.remaining = left[N]
         /\ decision'.accepted = taken /\ decision'.rejected = turned
    BY <1>2, <1>3
  <1> HIDE DEF d
  <1> QED
    BY <1>18, <1>19, <1>20 DEF FairTo

-----------------------------------------------------------------------------
(* The portfolio and its plan, from run to run                               *)
\* What a portfolio was asked, and the weights it has and had.
PortfolioTypes ==
    /\ problem.sizing \in Sizings /\ runs \in 0 .. MaxRuns
    /\ Weights(allocations) /\ Weights(previous)

\* The inductive invariant: the allocation is funded for the problem it was made for.
PortfolioInv ==
    /\ PortfolioTypes /\ FundedBy(problem, allocations)
    /\ Portfolio!PlanLeadsThere /\ (decision # Portfolio!None => FairTo(decision))

\* A portfolio begins with nothing held and nothing decided.
LEMMA PortfolioBegins == Portfolio!Init => PortfolioInv
  <1> SUFFICES ASSUME Portfolio!Init PROVE PortfolioInv
    OBVIOUS
  <1>1. /\ problem = [candidates |-> Portfolio!Nothing, sizing |-> "equal_weight", settings |-> Portfolio!Free]
        /\ allocations = Portfolio!Nothing /\ previous = Portfolio!Nothing /\ changes = Portfolio!Nothing
        /\ runs = 0 /\ decision = Portfolio!None
    BY DEF Portfolio!Init
  <1>2. DOMAIN Portfolio!Nothing = {}
    BY DEF Portfolio!Nothing
  <1>3. PortfolioTypes
    BY <1>1, <1>2, PortfolioConstants DEF PortfolioTypes, Weights
  <1>4. Portfolio!Eligible(problem) = {}
    BY <1>1, <1>2 DEF Portfolio!Eligible
  <1>5. Portfolio!SumOf(allocations) = 0 /\ Portfolio!Available(problem) = Unit /\ Unit \in Nat
    <2>1. Sum(allocations) = 0
      BY <1>1, <1>2, SumOfNone
    <2>2. problem.settings.reserve = 0
      BY <1>1 DEF Portfolio!Free
    <2>3. Portfolio!Max({0, Unit - 0}) = Unit /\ Unit \in Nat
      BY PortfolioConstants, LargerIs
    <2> QED
      BY <2>1, <2>2, <2>3, SumOfIsSum DEF Portfolio!Available
  <1>6. FundedBy(problem, allocations)
    BY <1>1, <1>2, <1>4, <1>5 DEF FundedBy
  <1>7. Portfolio!PlanLeadsThere
    <2>1. \A i : Portfolio!WeightIn(previous, i) = 0 /\ Portfolio!WeightIn(allocations, i) = 0
      BY <1>1, <1>2 DEF Portfolio!WeightIn
    <2> QED
      BY <1>1, <1>2, <2>1 DEF Portfolio!PlanLeadsThere
  <1> QED
    BY <1>1, <1>3, <1>6, <1>7 DEF PortfolioInv

\* A portfolio constructed anew.
LEMMA ConstructKeeps ==
  ASSUME PortfolioInv, NEW p \in Problems, Portfolio!Construct(p)
  PROVE  PortfolioInv'
  <1>1. /\ problem' = p /\ previous' = allocations /\ allocations' = Portfolio!Greedy(p)
        /\ changes' = Portfolio!Plan(allocations, Portfolio!Greedy(p)) /\ runs' = runs + 1
        /\ decision' = decision /\ runs < MaxRuns
    BY DEF Portfolio!Construct
  <1>2. FundedBy(p, Portfolio!Greedy(p)) /\ Weights(Portfolio!Greedy(p))
    BY GreedyIsFunded DEF Weights
  <1>3. Weights(allocations)
    BY DEF PortfolioInv, PortfolioTypes
  <1>4. PortfolioTypes'
    <2>1. p.sizing \in Sizings
      BY DEF Problems
    <2>2. runs + 1 \in 0 .. MaxRuns
      BY <1>1, PortfolioConstants DEF PortfolioInv, PortfolioTypes
    <2>3. Weights(allocations') /\ Weights(previous')
      BY <1>1, <1>2, <1>3
    <2> QED
      BY <1>1, <2>1, <2>2, <2>3 DEF PortfolioTypes, Weights
  <1>5. FundedBy(problem, allocations)'
    BY <1>1, <1>2 DEF FundedBy
  <1>6. Portfolio!PlanLeadsThere'
    <2> DEFINE before == allocations
               after == Portfolio!Greedy(p)
               change == Portfolio!Plan(before, after)
    <2>1. /\ \A i \in Ids : Portfolio!WeightIn(before, i)
                               + (IF i \in DOMAIN change THEN change[i].delta ELSE 0)
                               = Portfolio!WeightIn(after, i)
          /\ \A i \in DOMAIN before \ DOMAIN after : i \in DOMAIN change /\ change[i].completed
      BY <1>2, <1>3, PlanIs
    <2>2. DOMAIN after \subseteq Portfolio!Eligible(p)
      BY <1>2 DEF FundedBy
    <2> HIDE DEF before, after, change
    <2>3. previous' = before /\ allocations' = after /\ changes' = change
      BY <1>1 DEF before, after, change
    <2>4. \A i \in DOMAIN previous' \ Portfolio!Eligible(problem') : i \in DOMAIN changes' /\ changes'[i].completed
      BY <1>1, <2>1, <2>2, <2>3
    <2>5. \A i \in Ids : Portfolio!WeightIn(previous', i)
                             + (IF i \in DOMAIN changes' THEN changes'[i].delta ELSE 0)
                             = Portfolio!WeightIn(allocations', i)
      BY <2>1, <2>3
    <2> QED
      BY <2>4, <2>5 DEF Portfolio!PlanLeadsThere
  <1>7. (decision # Portfolio!None => FairTo(decision))'
    BY <1>1 DEF PortfolioInv, FairTo
  <1> QED
    BY <1>4, <1>5, <1>6, <1>7 DEF PortfolioInv

\* A competition decided.
LEMMA DecideKeeps ==
  ASSUME PortfolioInv, NEW by \in Rankings, NEW list \in Actions, NEW capital \in 0 .. Capital,
         Portfolio!Decide(by, list, capital)
  PROVE  PortfolioInv'
  <1>1. /\ problem' = problem /\ allocations' = allocations /\ previous' = previous
        /\ changes' = changes /\ runs' = runs
    BY DEF Portfolio!Decide
  <1>2. FairTo(decision)'
    BY DecisionIsFair DEF FairTo
  <1>3. PortfolioTypes' /\ FundedBy(problem, allocations)' /\ Portfolio!PlanLeadsThere'
    BY <1>1 DEF PortfolioInv, PortfolioTypes, Weights, FundedBy, Portfolio!PlanLeadsThere
  <1> QED
    BY <1>2, <1>3 DEF PortfolioInv

\* Either is constructed or decided.
LEMMA PortfolioStep == PortfolioInv /\ Portfolio!Next => PortfolioInv'
  <1> SUFFICES ASSUME PortfolioInv, Portfolio!Next PROVE PortfolioInv'
    OBVIOUS
  <1>1. CASE \E c \in [Ids -> Profiles], sizing \in Sizings, settings \in Settings :
                Portfolio!Construct([candidates |-> c, sizing |-> sizing, settings |-> settings])
    <2>1. PICK c \in [Ids -> Profiles], sizing \in Sizings, settings \in Settings :
             Portfolio!Construct([candidates |-> c, sizing |-> sizing, settings |-> settings])
      BY <1>1
    <2>2. [candidates |-> c, sizing |-> sizing, settings |-> settings] \in Problems
      BY DEF Problems
    <2> QED
      BY <2>1, <2>2, ConstructKeeps
  <1>2. CASE \E by \in Rankings, list \in Actions, capital \in 0 .. Capital : Portfolio!Decide(by, list, capital)
    BY <1>2, DecideKeeps
  <1> QED
    BY <1>1, <1>2 DEF Portfolio!Next

LEMMA PortfolioRestsStill == PortfolioInv /\ UNCHANGED allocationVars => PortfolioInv'
  <1> SUFFICES ASSUME PortfolioInv, UNCHANGED allocationVars PROVE PortfolioInv'
    OBVIOUS
  <1> QED
    BY DEF PortfolioInv, PortfolioTypes, Weights, FundedBy, FairTo, Portfolio!PlanLeadsThere, allocationVars

LEMMA PortfolioInvariantImplies ==
  PortfolioInv => /\ Portfolio!TypeOK /\ Portfolio!PortfolioIsFunded
                  /\ Portfolio!PlanLeadsThere /\ Portfolio!ArbitrationIsFair
  BY DEF PortfolioInv, PortfolioTypes, Weights, FundedBy, FairTo, Portfolio!TypeOK,
         Portfolio!PortfolioIsFunded, Portfolio!ArbitrationIsFair

-----------------------------------------------------------------------------
(* The composition: one part runs, the others rest                           *)

\* A step of the part p is a step of its own, or leaves its variables alone.
LEMMA OnePartRuns ==
    ASSUME [BacktestNext]_allVars
    PROVE  /\ part' = part
           /\ part = "clock" => Clock!Next \/ UNCHANGED clockVars
           /\ part = "engine" => Engine!Next \/ UNCHANGED engineVars
           /\ part = "orders" => Order!Next \/ UNCHANGED orderVars
           /\ part = "portfolio" => Portfolio!Next \/ UNCHANGED allocationVars
           /\ part = "replay" => Tape!Next \/ UNCHANGED replayVars
           /\ part = "lifecycle" => Lifecycle!Next \/ UNCHANGED lifecycleVars
  <1>1. CASE UNCHANGED allVars \/ Through
    BY <1>1 DEF Through, allVars
  <1>2. CASE SettlementSteps \/ ClockSteps \/ AccountSteps \/ PortfolioSteps
    BY <1>2 DEF SettlementSteps, ClockSteps, AccountSteps, PortfolioSteps
  <1>3. CASE EngineSteps \/ LifecycleSteps \/ TapeSteps \/ OrderSteps
    BY <1>3 DEF EngineSteps, LifecycleSteps, TapeSteps, OrderSteps
  <1> QED
    BY <1>1, <1>2, <1>3 DEF BacktestNext

BooksInv == (part = "engine" => EngineInv) /\ (part = "orders" => OrderInv)

\* The engine's and the orders' invariants, of whichever part runs.
LEMMA BooksInvariant == BacktestSpec => []BooksInv
  <1>1. BacktestInit => BooksInv
    BY EngineInit, OrderInit DEF BacktestInit, BooksInv
  <1>2. BooksInv /\ [BacktestNext]_allVars => BooksInv'
    BY OnePartRuns, EngineStep, EngineRestsStill, OrderStep, OrderRestsStill DEF BooksInv
  <1> QED
    BY <1>1, <1>2, PTL DEF BacktestSpec

\* engine.py:76-103, 182-248; execution.py:122-194.  Of every run of every strategy, however
\* long its stream and whatever it raises: no position is lost, the trade ledger is ahead of the
\* books only by closes of an event that failed or is under way, every event is accounted for;
\* and every order, however its legs are filled and retried, adds up.
THEOREM BooksAlwaysExplainThemselves == BacktestSpec => []BooksExplainThemselves
  <1>1. BooksInv => BooksExplainThemselves
    BY EngineInvariantImplies, OrderInvariantImplies DEF BooksInv, BooksExplainThemselves
  <1> QED
    BY <1>1, BooksInvariant, PTL

\* guards.py:19-26, engine.py:148-151.  The strategy never sees later than an event to come, and
\* a valuation counts exactly what is held.
THEOREM OnlyThePresentIsSeen == BacktestSpec => []PresentOnly
  <1>1. BooksInv => PresentOnly
    BY EngineInvariantImplies DEF BooksInv, PresentOnly
  <1> QED
    BY <1>1, BooksInvariant, PTL

\* The orders' and the portfolio's invariants, of whichever part runs.
TradesInv == (part = "orders" => FairInv) /\ (part = "portfolio" => PortfolioInv)

\* quote_selection.py:55-108, fill_models.py:87-122, execution.py:120-178; allocation.py:182-259,
\* rebalancing.py:23-45, arbitration.py:25-79.  Of every order and every tape: it is filled at the
\* quote its policy asks for at the time, slippage goes against it, and it is retried exactly
\* while something remains.  Of every list of candidates and every competition for capital: a
\* portfolio is within what is free and goes to the best first, the plan leads to it from whatever
\* was held, and nothing is rejected that what remains would pay.
THEOREM TradesAreAlwaysFair == BacktestSpec => []TradesAreFair
  <1>1. BacktestInit => TradesInv
    BY FairInit, PortfolioBegins DEF BacktestInit, TradesInv
  <1>2. TradesInv /\ [BacktestNext]_allVars => TradesInv'
    BY OnePartRuns, FairStep, FairRestsStill, PortfolioStep, PortfolioRestsStill DEF TradesInv
  <1>3. TradesInv => TradesAreFair
    BY FairInvariantImplies, PortfolioInvariantImplies DEF TradesInv, TradesAreFair
  <1> QED
    BY <1>1, <1>2, <1>3, PTL DEF BacktestSpec
=============================================================================
