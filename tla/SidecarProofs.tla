---------------------------- MODULE SidecarProofs ----------------------------
(***************************************************************************)
(* Calls of the persistence services are stored whole, for any number of   *)
(* clients, runs, rows and versions, whatever fails and however they       *)
(* interleave: Persistence implements Archive.                             *)
(***************************************************************************)
EXTENDS MCSidecar, FiniteSetTheorems, TLAPS

-----------------------------------------------------------------------------
\* What one statement does to a table, whatever transaction it is part of.

Rows == [owner : Runs \cup {"none"}, item : Items, content : Versions, rest : Versions,
         copy : Nat]

OwnerOf(run) == IF focus.owned THEN run ELSE "none"

Same(table, owner, item) == {other \in table : other.owner = owner /\ other.item = item}

Keys(table) == {KeyOf(row) : row \in table}

StoredIn(table) == [key \in Keys(table) |-> (CHOOSE row \in table : KeyOf(row) = key).content]

\* The key the archive gives the row of an item.
NextKey(table, owner, item) ==
    [ owner |-> owner, item |-> item,
      copy |-> IF service.kind = "each" THEN 1 + Cardinality(Same(table, owner, item)) ELSE 1 ]

Given(table, call) == {NextKey(table, OwnerOf(call.run), item) : item \in call.items}

New(call) == {Row(call, item) : item \in call.items}

IsCall(call) ==
    /\ call.run \in Runs /\ call.version \in Versions
    /\ call.items \subseteq Items /\ call.items # {}

\* Two rows never have one key, and the rows that have no key are numbered.
Sound(table) ==
    /\ table \subseteq Rows
    /\ \A row \in table : focus.owned => row.owner \in Runs
    /\ \A row \in table : ~ focus.owned => row.owner = "none"
    /\ \A row, other \in table : KeyOf(row) = KeyOf(other) => row = other
    /\ service.kind # "each" => \A row \in table : row.copy = 1
    /\ service.kind = "each" =>
        /\ IsFiniteSet(table)
        /\ \A row \in table : row.copy \in 1 .. Cardinality(Same(table, row.owner, row.item))

\* What the service issues: the statement watched, or what it became after a SELECT.
IsStatement(w) ==
    /\ w.key = focus.key
    /\ service.kind \in {"latest", "each"} => w.mode # "keep"
    /\ service.kind = "first" => w.mode = "keep"

\* The rows a row of the call would replace.
Hits(table, call, item) ==
    IF focus.key = {} THEN {} ELSE Same(table, OwnerOf(call.run), item)

NewRow(table, call, item) == NextCopy(table, Row(call, item))

\* A row is taken by those of its owner and item, whether or not the key names the owner.
LEMMA TakenAreHits ==
    ASSUME NEW table, NEW call, NEW item, Fits(service, focus), Sound(table), IsCall(call),
           item \in call.items
    PROVE  (IF focus.key = {} THEN {} ELSE Taken(focus.key, table, Row(call, item)))
               = Hits(table, call, item)
<1>1. CASE focus.key = {}  BY <1>1 DEF Hits
<1>2. CASE focus.key # {}
  <2>1. Row(call, item).owner = OwnerOf(call.run) /\ Row(call, item).item = item
    BY DEF Row, OwnerOf
  <2>2. item # "null"  BY StoreConstants DEF IsCall
  <2>3. \A other \in table : Clash(focus.key, Row(call, item), other)
            <=> other.owner = OwnerOf(call.run) /\ other.item = item
    <3>1. CASE Parent(focus.key) # {}  BY <2>1, <2>2, <3>1 DEF Clash
    <3>2. CASE Parent(focus.key) = {}
      <4>1. ~ focus.owned  BY <1>2, <3>2 DEF Fits
      <4>2. OwnerOf(call.run) = "none"  BY <4>1 DEF OwnerOf
      <4>3. \A other \in table : other.owner = "none"  BY <4>1 DEF Sound
      <4>. QED  BY <2>1, <2>2, <3>2, <4>2, <4>3 DEF Clash
    <3>. QED  BY <3>1, <3>2
  <2>4. Taken(focus.key, table, Row(call, item)) = Same(table, OwnerOf(call.run), item)
    BY <2>3 DEF Taken, Same
  <2>. QED  BY <1>2, <2>4 DEF Hits
<1>. QED  BY <1>1, <1>2

\* A statement adds the rows whose key is free, and the others find theirs.
LEMMA InsertedAre ==
    ASSUME NEW w, NEW table, NEW call, Fits(service, focus), Sound(table), IsCall(call),
           w.key = focus.key
    PROVE  \A x : x \in InsertAll(w, table, New(call)) <=>
               \/ \E item \in call.items : Hits(table, call, item) = {} /\ x = NewRow(table, call, item)
               \/ x \in table /\ (w.mode = "keep" \/ \A item \in call.items : x \notin Hits(table, call, item))
               \/ /\ w.mode # "keep"
                  /\ \E item \in call.items : \E old \in Hits(table, call, item) :
                        x = Updated(w, old, Row(call, item))
<1> DEFINE taken(row) == IF w.key = {} THEN {} ELSE Taken(w.key, table, row)
           added == {NextCopy(table, row) : row \in {row \in New(call) : taken(row) = {}}}
           found == UNION {taken(row) : row \in New(call)}
           updated == UNION {{Updated(w, old, row) : old \in taken(row)} : row \in New(call)}
<1>1. \A item \in call.items : taken(Row(call, item)) = Hits(table, call, item)
  BY TakenAreHits
<1>2. InsertAll(w, table, New(call))
          = added \cup (IF w.mode = "keep" THEN table ELSE (table \ found) \cup updated)
  BY DEF InsertAll
<1>3. \A x : x \in added <=>
          \E item \in call.items : Hits(table, call, item) = {} /\ x = NewRow(table, call, item)
  BY <1>1 DEF New, NewRow
<1>4. \A x : x \in found <=> \E item \in call.items : x \in Hits(table, call, item)
  BY <1>1 DEF New
<1>5. \A x : x \in updated <=>
          \E item \in call.items : \E old \in Hits(table, call, item) :
              x = Updated(w, old, Row(call, item))
  BY <1>1 DEF New
<1> HIDE DEF added, found, updated
<1>. QED  BY <1>2, <1>3, <1>4, <1>5

LEMMA CopiesAreCounted ==
    ASSUME NEW table, NEW owner, NEW item, Sound(table), service.kind = "each"
    PROVE  Cardinality(Same(table, owner, item)) \in Nat
<1>1. Same(table, owner, item) \in SUBSET table  BY DEF Same
<1>2. IsFiniteSet(Same(table, owner, item))  BY <1>1, FS_Subset DEF Sound
<1>. QED  BY <1>2, FS_CardinalityType

\* The row that is added has the key the archive gives it, and nobody else has it.
LEMMA AddedRowsAre ==
    ASSUME NEW table, NEW call, NEW item, Fits(service, focus), Sound(table), IsCall(call),
           item \in call.items, Hits(table, call, item) = {}
    PROVE  /\ NewRow(table, call, item) \in Rows
           /\ NewRow(table, call, item).owner = OwnerOf(call.run)
           /\ NewRow(table, call, item).content = call.version
           /\ KeyOf(NewRow(table, call, item)) = NextKey(table, OwnerOf(call.run), item)
           /\ NextKey(table, OwnerOf(call.run), item) \notin Keys(table)
<1> DEFINE same == Same(table, OwnerOf(call.run), item)
           row == Row(call, item)
<1>1. /\ row.owner = OwnerOf(call.run) /\ row.item = item
      /\ row.content = call.version /\ row.rest = call.version
  BY DEF Row, OwnerOf
<1>2. NewRow(table, call, item)
          = [ owner |-> OwnerOf(call.run), item |-> item, content |-> call.version,
              rest |-> call.version, copy |-> 1 + Cardinality(same) ]
  BY DEF NewRow, NextCopy, Row, OwnerOf, Same
<1>3. OwnerOf(call.run) \in Runs \cup {"none"}  BY DEF OwnerOf, IsCall
<1>4. service.kind # "each" => same = {}  BY DEF Hits, Fits
<1>5. service.kind # "each" => 1 + Cardinality(same) = 1  BY <1>4, FS_EmptySet
<1>6. Cardinality(same) \in Nat  BY <1>4, CopiesAreCounted, FS_EmptySet
<1>7. NextKey(table, OwnerOf(call.run), item)
          = [owner |-> OwnerOf(call.run), item |-> item, copy |-> 1 + Cardinality(same)]
  BY <1>5 DEF NextKey
<1> HIDE DEF same, row
<1>8. NewRow(table, call, item) \in Rows  BY <1>2, <1>3, <1>6 DEF Rows, IsCall
<1>9. KeyOf(NewRow(table, call, item)) = NextKey(table, OwnerOf(call.run), item)
  BY <1>2, <1>7 DEF KeyOf
<1>10. NextKey(table, OwnerOf(call.run), item) \notin Keys(table)
  <2> SUFFICES ASSUME NEW other \in table,
                      KeyOf(other) = NextKey(table, OwnerOf(call.run), item)
               PROVE  FALSE
    BY DEF Keys
  <2>1. other.owner = OwnerOf(call.run) /\ other.item = item /\ other.copy = 1 + Cardinality(same)
    BY <1>7 DEF KeyOf
  <2>2. other \in same  BY <2>1 DEF same, Same
  <2>3. service.kind = "each"  BY <1>4, <2>2
  <2>4. other.copy \in 1 .. Cardinality(same)  BY <2>1, <2>3 DEF Sound, same
  <2>. QED  BY <1>6, <2>1, <2>4
<1>. QED  BY <1>2, <1>8, <1>9, <1>10

\* The row that is replaced keeps its key.
LEMMA UpdatedRowsAre ==
    ASSUME NEW w, NEW table, NEW call, NEW item, NEW old, Fits(service, focus), Sound(table),
           IsCall(call), item \in call.items, old \in Hits(table, call, item)
    PROVE  /\ Updated(w, old, Row(call, item)) \in Rows
           /\ Updated(w, old, Row(call, item)).owner = OwnerOf(call.run)
           /\ Updated(w, old, Row(call, item)).content = call.version
           /\ Updated(w, old, Row(call, item)).copy = 1
           /\ KeyOf(Updated(w, old, Row(call, item))) = KeyOf(old)
           /\ KeyOf(old) = NextKey(table, OwnerOf(call.run), item)
           /\ old \in table /\ service.kind # "each"
<1>1. /\ focus.key # {} /\ old \in table /\ old.owner = OwnerOf(call.run) /\ old.item = item
  BY DEF Hits, Same
<1>2. service.kind # "each"  BY <1>1 DEF Fits
<1>3. old \in Rows /\ old.copy = 1  BY <1>1, <1>2 DEF Sound
<1>4. Row(call, item).content = call.version /\ Row(call, item).rest = call.version
  BY DEF Row
<1>5. \E rest \in Versions : Updated(w, old, Row(call, item))
          = [ owner |-> OwnerOf(call.run), item |-> item, content |-> call.version,
              rest |-> rest, copy |-> 1 ]
  <2>1. old.rest \in Versions /\ call.version \in Versions  BY <1>3 DEF Rows, IsCall
  <2>2. (IF w.mode = "replace_some" THEN old.rest ELSE call.version) \in Versions  BY <2>1
  <2>. QED  BY <1>1, <1>3, <1>4, <2>2 DEF Updated
<1>6. KeyOf(old) = NextKey(table, OwnerOf(call.run), item)
  BY <1>1, <1>2, <1>3 DEF KeyOf, NextKey
<1>7. PICK rest \in Versions : Updated(w, old, Row(call, item))
          = [ owner |-> OwnerOf(call.run), item |-> item, content |-> call.version,
              rest |-> rest, copy |-> 1 ]
  BY <1>5
<1>8. OwnerOf(call.run) \in Runs \cup {"none"}  BY DEF OwnerOf, IsCall
<1>9. Updated(w, old, Row(call, item)) \in Rows
  BY <1>7, <1>8 DEF Rows, IsCall
<1>10. KeyOf(Updated(w, old, Row(call, item))) = KeyOf(old)
  BY <1>1, <1>3, <1>7 DEF KeyOf
<1>. QED  BY <1>1, <1>2, <1>6, <1>7, <1>9, <1>10

\* Two items of one call never have one key.
LEMMA NextKeysDiffer ==
    ASSUME NEW table, NEW owner, NEW item, NEW other,
           NextKey(table, owner, item) = NextKey(table, owner, other)
    PROVE  item = other
BY DEF NextKey

\* Where a row of the table comes from that a statement leaves behind.
LEMMA InsertedRowsAre ==
    ASSUME NEW w, NEW table, NEW call, Fits(service, focus), Sound(table), IsCall(call),
           w.key = focus.key, NEW x \in InsertAll(w, table, New(call))
    PROVE  \/ \E item \in call.items :
                /\ Hits(table, call, item) = {} /\ x = NewRow(table, call, item)
                /\ KeyOf(x) = NextKey(table, OwnerOf(call.run), item)
                /\ KeyOf(x) \notin Keys(table)
                /\ x \in Rows /\ x.owner = OwnerOf(call.run) /\ x.content = call.version
           \/ /\ x \in table
              /\ w.mode = "keep" \/ \A item \in call.items : x \notin Hits(table, call, item)
           \/ /\ w.mode # "keep" /\ service.kind # "each"
              /\ \E item \in call.items : \E old \in table :
                    /\ old \in Hits(table, call, item) /\ x = Updated(w, old, Row(call, item))
                    /\ KeyOf(x) = KeyOf(old)
                    /\ KeyOf(x) = NextKey(table, OwnerOf(call.run), item)
                    /\ x \in Rows /\ x.owner = OwnerOf(call.run) /\ x.content = call.version
                    /\ x.copy = 1
<1>1. CASE \E item \in call.items :
              Hits(table, call, item) = {} /\ x = NewRow(table, call, item)
  <2>1. PICK item \in call.items : Hits(table, call, item) = {} /\ x = NewRow(table, call, item)
    BY <1>1
  <2>. QED  BY <2>1, AddedRowsAre
<1>2. CASE x \in table
           /\ (w.mode = "keep" \/ \A item \in call.items : x \notin Hits(table, call, item))
  BY <1>2
<1>3. CASE /\ w.mode # "keep"
           /\ \E item \in call.items : \E old \in Hits(table, call, item) :
                 x = Updated(w, old, Row(call, item))
  <2>1. PICK item \in call.items : \E old \in Hits(table, call, item) :
            x = Updated(w, old, Row(call, item))
    BY <1>3
  <2>2. PICK old \in Hits(table, call, item) : x = Updated(w, old, Row(call, item))
    BY <2>1
  <2>3. old \in table /\ service.kind # "each"  BY UpdatedRowsAre
  <2>. QED  BY <1>3, <2>2, <2>3, UpdatedRowsAre
<1>. QED  BY <1>1, <1>2, <1>3, InsertedAre

\* The keys stay apart.
LEMMA InsertKeepsKeys ==
    ASSUME NEW w, NEW table, NEW call, Fits(service, focus), Sound(table), IsCall(call),
           w.key = focus.key,
           NEW x \in InsertAll(w, table, New(call)), NEW y \in InsertAll(w, table, New(call)),
           KeyOf(x) = KeyOf(y)
    PROVE  x = y
<1> DEFINE key(item) == NextKey(table, OwnerOf(call.run), item)
           isNew(z) == \E item \in call.items : /\ z = NewRow(table, call, item)
                                                /\ KeyOf(z) = key(item)
                                                /\ KeyOf(z) \notin Keys(table)
           isKept(z) == /\ z \in table
                        /\ w.mode = "keep" \/ \A item \in call.items : z \notin Hits(table, call, item)
           isUpdated(z) == /\ w.mode # "keep"
                           /\ \E item \in call.items : \E old \in table :
                                /\ old \in Hits(table, call, item)
                                /\ z = Updated(w, old, Row(call, item))
                                /\ KeyOf(z) = KeyOf(old) /\ KeyOf(z) = key(item)
<1>1. isNew(x) \/ isKept(x) \/ isUpdated(x)  BY InsertedRowsAre
<1>2. isNew(y) \/ isKept(y) \/ isUpdated(y)  BY InsertedRowsAre
<1>3. \A z : isKept(z) \/ isUpdated(z) => KeyOf(z) \in Keys(table)  BY DEF Keys
<1>4. \A one, other \in table : KeyOf(one) = KeyOf(other) => one = other  BY DEF Sound
<1>5. \A item, other \in call.items : key(item) = key(other) => item = other
  BY NextKeysDiffer
<1> HIDE DEF key
<1>6. CASE isNew(x) /\ isNew(y)  BY <1>5, <1>6
<1>7. CASE isKept(x) /\ isKept(y)  BY <1>4, <1>7
<1>8. CASE isUpdated(x) /\ isUpdated(y)  BY <1>4, <1>5, <1>8
<1>9. CASE isKept(x) /\ isUpdated(y)  BY <1>4, <1>9
<1>10. CASE isUpdated(x) /\ isKept(y)  BY <1>4, <1>10
<1>11. isNew(x) => ~ isKept(y) /\ ~ isUpdated(y)  BY <1>3
<1>12. isNew(y) => ~ isKept(x) /\ ~ isUpdated(x)  BY <1>3
<1>. QED  BY <1>1, <1>2, <1>6, <1>7, <1>8, <1>9, <1>10, <1>11, <1>12

\* The image of a finite set is finite.
LEMMA ImageIsFinite ==
    ASSUME NEW S, NEW T, NEW f, IsFiniteSet(S), f \in Surjection(S, T)
    PROVE  IsFiniteSet(T)
BY FS_Surjection

\* Where no key tells rows apart every row of the call is added, with the next number.
LEMMA AppendKeepsCopies ==
    ASSUME NEW w, NEW table, NEW call, Fits(service, focus), Sound(table), IsCall(call),
           w.key = focus.key, service.kind = "each", w.mode # "keep"
    PROVE  LET left == InsertAll(w, table, New(call))
           IN  /\ IsFiniteSet(left)
               /\ \A x \in left : x.copy \in 1 .. Cardinality(Same(left, x.owner, x.item))
<1> DEFINE left == InsertAll(w, table, New(call))
           row(item) == NewRow(table, call, item)
           added == {row(item) : item \in call.items}
           rowOf == [item \in call.items |-> row(item)]
           owner == OwnerOf(call.run)
<1>1. \A item \in call.items : Hits(table, call, item) = {}  BY DEF Fits, Hits
<1>2. left = added \cup table
  <2>1. \A x : x \in left <=> x \in added \/ x \in table  BY <1>1, InsertedAre
  <2>. QED  BY <2>1
<1>3. IsFiniteSet(call.items)  BY StoreConstants, FS_Subset DEF IsCall
<1>4. IsFiniteSet(added)
  <2>1. rowOf \in Surjection(call.items, added)  BY DEF Surjection
  <2> HIDE DEF rowOf, added
  <2>. QED  BY <1>3, <2>1, ImageIsFinite
<1>5. IsFiniteSet(left)
  <2>1. IsFiniteSet(table)  BY DEF Sound
  <2> HIDE DEF left, added
  <2>. QED  BY <1>2, <1>4, <2>1, FS_Union
<1>6. \A o, item : /\ IsFiniteSet(Same(left, o, item)) /\ IsFiniteSet(Same(table, o, item))
                   /\ Cardinality(Same(left, o, item)) \in Nat
                   /\ Cardinality(Same(table, o, item)) \in Nat
                   /\ Cardinality(Same(table, o, item)) <= Cardinality(Same(left, o, item))
  <2> TAKE o, item
  <2>1. Same(left, o, item) \in SUBSET left  BY DEF Same
  <2>2. IsFiniteSet(Same(left, o, item))  BY <1>5, <2>1, FS_Subset
  <2>3. Same(table, o, item) \in SUBSET Same(left, o, item)  BY <1>2 DEF Same
  <2>4. /\ IsFiniteSet(Same(table, o, item))
        /\ Cardinality(Same(table, o, item)) <= Cardinality(Same(left, o, item))
    BY <2>2, <2>3, FS_Subset
  <2>. QED  BY <2>2, <2>4, FS_CardinalityType
<1>7. ASSUME NEW x \in table
      PROVE  x.copy \in 1 .. Cardinality(Same(left, x.owner, x.item))
  <2>1. x.copy \in 1 .. Cardinality(Same(table, x.owner, x.item))  BY DEF Sound
  <2>. QED  BY <1>6, <2>1
<1>8. ASSUME NEW item \in call.items
      PROVE  row(item).copy \in 1 .. Cardinality(Same(left, row(item).owner, row(item).item))
  <2> DEFINE same == Same(table, owner, item)
             now == Same(left, owner, item)
             x == row(item)
  <2>1. x.owner = owner /\ x.item = item /\ x.copy = 1 + Cardinality(same)
    BY DEF NewRow, NextCopy, Row, OwnerOf, Same
  <2>2. KeyOf(x) \notin Keys(table)  BY <1>1, AddedRowsAre
  <2>3. x \notin same  BY <2>2 DEF Same, Keys
  <2>4. x \in left  BY <1>2
  <2>5. same \cup {x} \in SUBSET now  BY <1>2, <2>1, <2>4 DEF Same
  <2>6. Cardinality(same \cup {x}) = Cardinality(same) + 1
    BY <1>6, <2>3, FS_AddElement
  <2>7. Cardinality(same \cup {x}) <= Cardinality(now)  BY <1>6, <2>5, FS_Subset
  <2>8. Cardinality(same) \in Nat /\ Cardinality(now) \in Nat  BY <1>6
  <2> HIDE DEF same, now, x
  <2>9. 1 + Cardinality(same) \in 1 .. Cardinality(now)  BY <2>6, <2>7, <2>8
  <2>. QED  BY <2>1, <2>9 DEF x, now
<1> HIDE DEF left, row
<1>9. \A x \in left : x.copy \in 1 .. Cardinality(Same(left, x.owner, x.item))
  BY <1>2, <1>7, <1>8
<1>. QED  BY <1>5, <1>9 DEF left

\* A statement leaves a sound table behind.
LEMMA InsertKeepsSound ==
    ASSUME NEW w, NEW table, NEW call, Fits(service, focus), Sound(table), IsCall(call),
           IsStatement(w)
    PROVE  Sound(InsertAll(w, table, New(call)))
<1> DEFINE left == InsertAll(w, table, New(call))
<1>1. w.key = focus.key  BY DEF IsStatement
<1>2. ASSUME NEW x \in left
      PROVE  /\ x \in Rows
             /\ focus.owned => x.owner \in Runs
             /\ ~ focus.owned => x.owner = "none"
  <2>1. CASE x \in table  BY <2>1 DEF Sound
  <2>2. CASE x \in Rows /\ x.owner = OwnerOf(call.run)  BY <2>2 DEF OwnerOf, IsCall
  <2>. QED  BY <1>1, <2>1, <2>2, InsertedRowsAre
<1>3. \A x, y \in left : KeyOf(x) = KeyOf(y) => x = y  BY <1>1, InsertKeepsKeys
<1>4. ASSUME service.kind # "each", NEW x \in left PROVE x.copy = 1
  <2>1. CASE x \in table  BY <1>4, <2>1 DEF Sound
  <2>2. ASSUME NEW item, KeyOf(x) = NextKey(table, OwnerOf(call.run), item) PROVE x.copy = 1
    BY <1>4, <2>2 DEF KeyOf, NextKey
  <2>. QED  BY <1>1, <2>1, <2>2, InsertedRowsAre
<1>5. service.kind = "each" =>
          /\ IsFiniteSet(left)
          /\ \A x \in left : x.copy \in 1 .. Cardinality(Same(left, x.owner, x.item))
  BY <1>1, AppendKeepsCopies DEF IsStatement
<1> HIDE DEF left
<1>6. Sound(left)  BY <1>2, <1>3, <1>4, <1>5 DEF Sound
<1>. QED  BY <1>6 DEF left

-----------------------------------------------------------------------------
\* What one statement does, seen as a store of the archive.

LEMMA CountsAgree == \A S : TheArchive!Cardinality(S) = Cardinality(S)
BY DEF TheArchive!Cardinality, Cardinality

LEMMA StoredAt ==
    ASSUME NEW table, Sound(table), NEW x \in table
    PROVE  KeyOf(x) \in Keys(table) /\ StoredIn(table)[KeyOf(x)] = x.content
<1>1. KeyOf(x) \in Keys(table)  BY DEF Keys
<1>2. (CHOOSE row \in table : KeyOf(row) = KeyOf(x)) = x  BY DEF Sound
<1>. QED  BY <1>1, <1>2 DEF StoredIn

\* The archive counts the keys of an owner and an item, the table its rows.
LEMMA KeysAgree ==
    ASSUME NEW owner, NEW item, Sound(rows)
    PROVE  TheArchive!Key(owner, item) = NextKey(rows, owner, item)
<1>1. CASE service.kind # "each"  BY <1>1 DEF TheArchive!Key, NextKey
<1>2. CASE service.kind = "each"
  <2> DEFINE same == Same(rows, owner, item)
             copies == TheArchive!Copies(owner, item)
             keyOf == [row \in same |-> KeyOf(row)]
  <2>1. IsFiniteSet(same)
    <3>1. same \in SUBSET rows  BY DEF Same
    <3>. QED  BY <1>2, <3>1, FS_Subset DEF Sound
  <2>2. copies = {key \in Keys(rows) : key.owner = owner /\ key.item = item}
    BY DEF TheArchive!Copies, Stored, Keys
  <2>3. \A row \in same : KeyOf(row) \in copies  BY <2>2 DEF Same, Keys, KeyOf
  <2>4. \A key \in copies : \E row \in same : KeyOf(row) = key
    BY <2>2 DEF Same, Keys, KeyOf
  <2>5. \A row, other \in same : KeyOf(row) = KeyOf(other) => row = other
    BY DEF Same, Sound
  <2> HIDE DEF same, copies
  <2>6. keyOf \in Bijection(same, copies)
    BY <2>3, <2>4, <2>5 DEF Bijection, Injection, Surjection, IsInjective
  <2>7. ExistsBijection(same, copies)  BY <2>6 DEF ExistsBijection
  <2>8. Cardinality(copies) = Cardinality(same)  BY <2>1, <2>7, FS_Bijection
  <2>. QED  BY <1>2, <2>8, CountsAgree DEF TheArchive!Key, NextKey, same, copies
<1>. QED  BY <1>1, <1>2

\* The keys there are afterwards: those there were and those of the call.
LEMMA InsertedKeysAre ==
    ASSUME NEW w, Fits(service, focus), Sound(rows), NEW call, IsCall(call), w.key = focus.key
    PROVE  Keys(InsertAll(w, rows, New(call))) = Keys(rows) \cup Given(rows, call)
<1> DEFINE left == InsertAll(w, rows, New(call))
           owner == OwnerOf(call.run)
<1>1. ASSUME NEW x \in left PROVE KeyOf(x) \in Keys(rows) \cup Given(rows, call)
  <2>1. CASE x \in rows  BY <2>1 DEF Keys
  <2>2. CASE \E item \in call.items : KeyOf(x) = NextKey(rows, owner, item)
    BY <2>2 DEF Given
  <2>. QED  BY <2>1, <2>2, InsertedRowsAre
<1>2. ASSUME NEW item \in call.items, NEW old \in Hits(rows, call, item)
      PROVE  KeyOf(old) \in Keys(left)
  <2>1. old \in rows /\ KeyOf(Updated(w, old, Row(call, item))) = KeyOf(old)
    BY UpdatedRowsAre
  <2>2. CASE w.mode = "keep"
    <3>1. old \in left  BY <2>1, <2>2, InsertedAre
    <3>. QED  BY <3>1 DEF Keys
  <2>3. CASE w.mode # "keep"
    <3>1. Updated(w, old, Row(call, item)) \in left  BY <2>3, InsertedAre
    <3>. QED  BY <2>1, <3>1 DEF Keys
  <2>. QED  BY <2>2, <2>3
<1>3. ASSUME NEW item \in call.items PROVE NextKey(rows, owner, item) \in Keys(left)
  <2>1. CASE Hits(rows, call, item) = {}
    <3>1. NewRow(rows, call, item) \in left  BY <2>1, InsertedAre
    <3>2. KeyOf(NewRow(rows, call, item)) = NextKey(rows, owner, item)
      BY <2>1, AddedRowsAre
    <3>. QED  BY <3>1, <3>2 DEF Keys
  <2>2. ASSUME NEW old \in Hits(rows, call, item) PROVE KeyOf(old) = NextKey(rows, owner, item)
    BY UpdatedRowsAre
  <2>. QED  BY <1>2, <2>1, <2>2
<1>4. ASSUME NEW x \in rows PROVE KeyOf(x) \in Keys(left)
  <2>1. CASE \E item \in call.items : x \in Hits(rows, call, item)  BY <1>2, <2>1
  <2>2. CASE \A item \in call.items : x \notin Hits(rows, call, item)
    <3>1. x \in left  BY <2>2, InsertedAre
    <3>. QED  BY <3>1 DEF Keys
  <2>. QED  BY <2>1, <2>2
<1> HIDE DEF left, owner
<1>5. Keys(left) \subseteq Keys(rows) \cup Given(rows, call)  BY <1>1 DEF Keys
<1>6. Keys(rows) \subseteq Keys(left)  BY <1>4 DEF Keys
<1>7. Given(rows, call) \subseteq Keys(left)  BY <1>3 DEF Given, owner
<1>. QED  BY <1>5, <1>6, <1>7 DEF left

\* A row the statement leaves alone is not one of the call, unless the first is kept.
LEMMA KeptRowsAreNotGiven ==
    ASSUME NEW w, Fits(service, focus), Sound(rows), NEW call, IsCall(call),
           service.kind # "each", NEW x \in rows,
           \A item \in call.items : x \notin Hits(rows, call, item)
    PROVE  KeyOf(x) \notin Given(rows, call)
<1> SUFFICES ASSUME NEW item \in call.items,
                    KeyOf(x) = NextKey(rows, OwnerOf(call.run), item)
             PROVE  FALSE
  BY DEF Given
<1>1. x.owner = OwnerOf(call.run) /\ x.item = item  BY DEF KeyOf, NextKey
<1>2. focus.key # {}  BY DEF Fits
<1>. QED  BY <1>1, <1>2 DEF Hits, Same

\* The rows committed are the rows the archive has after a store of the call.
LEMMA InsertIsAfter ==
    ASSUME NEW w, Fits(service, focus), Sound(rows), NEW call, IsCall(call), IsStatement(w),
           service.kind = "once" => Given(rows, call) \cap Keys(rows) = {}
    PROVE  StoredIn(InsertAll(w, rows, New(call)))
               = TheArchive!After([key \in Given(rows, call) |-> call.version])
<1> DEFINE left == InsertAll(w, rows, New(call))
           given == [key \in Given(rows, call) |-> call.version]
           after == TheArchive!After(given)
           kept == Keys(rows) \ (IF service.kind = "latest" THEN Given(rows, call) ELSE {})
<1>1. w.key = focus.key  BY DEF IsStatement
<1>2. Keys(left) = Keys(rows) \cup Given(rows, call)  BY <1>1, InsertedKeysAre
<1>3. Sound(left)  BY InsertKeepsSound
<1>4. Stored = StoredIn(rows)  BY DEF Stored, StoredIn, Keys
<1>5. DOMAIN Stored = Keys(rows) /\ DOMAIN given = Given(rows, call)
  BY <1>4 DEF StoredIn
<1>6. after = [key \in Keys(rows) \cup Given(rows, call) |->
                  IF key \in kept THEN Stored[key] ELSE given[key]]
  BY <1>5 DEF TheArchive!After
<1>7. ASSUME NEW x \in left PROVE after[KeyOf(x)] = x.content
  <2>1. KeyOf(x) \in Keys(rows) \cup Given(rows, call)  BY <1>2 DEF Keys
  <2>2. after[KeyOf(x)] = IF KeyOf(x) \in kept THEN Stored[KeyOf(x)] ELSE given[KeyOf(x)]
    BY <1>6, <2>1
  <2>3. CASE KeyOf(x) \notin Keys(rows) /\ x.content = call.version
    <3>1. KeyOf(x) \in Given(rows, call) /\ KeyOf(x) \notin kept  BY <2>1, <2>3
    <3>. QED  BY <2>2, <2>3, <3>1
  <2>4. CASE x \in rows
             /\ (w.mode = "keep" \/ \A item \in call.items : x \notin Hits(rows, call, item))
    <3>1. KeyOf(x) \in Keys(rows) /\ Stored[KeyOf(x)] = x.content
      BY <1>4, <2>4, StoredAt
    <3>2. service.kind = "latest" => KeyOf(x) \notin Given(rows, call)
      BY <2>4, KeptRowsAreNotGiven DEF IsStatement
    <3>3. KeyOf(x) \in kept  BY <3>1, <3>2
    <3>. QED  BY <2>2, <3>1, <3>3
  <2>5. CASE /\ w.mode # "keep" /\ service.kind # "each" /\ x.content = call.version
             /\ \E item \in call.items : KeyOf(x) = NextKey(rows, OwnerOf(call.run), item)
             /\ \E old \in rows : KeyOf(x) = KeyOf(old)
    <3>1. KeyOf(x) \in Given(rows, call) /\ KeyOf(x) \in Keys(rows)
      BY <2>5 DEF Given, Keys
    <3>2. service.kind = "latest"  BY <2>5, <3>1 DEF Fits, IsStatement
    <3>3. KeyOf(x) \notin kept /\ given[KeyOf(x)] = call.version  BY <3>1, <3>2
    <3>. QED  BY <2>2, <2>5, <3>3
  <2>. QED  BY <1>1, <2>3, <2>4, <2>5, InsertedRowsAre
<1>8. ASSUME NEW key \in Keys(left) PROVE StoredIn(left)[key] = after[key]
  <2>1. PICK x \in left : key = KeyOf(x)  BY DEF Keys
  <2>. QED  BY <1>3, <1>7, <2>1, StoredAt
<1>9. DOMAIN StoredIn(left) = Keys(left) /\ DOMAIN after = Keys(left)
  BY <1>2, <1>6 DEF StoredIn
<1>10. /\ StoredIn(left) = [key \in DOMAIN StoredIn(left) |-> StoredIn(left)[key]]
       /\ after = [key \in DOMAIN after |-> after[key]]
  BY <1>6 DEF StoredIn
<1> HIDE DEF left, after
<1>11. StoredIn(left) = after  BY <1>8, <1>9, <1>10
<1>. QED  BY <1>11 DEF left, after, given

LEMMA ItemsAreGiven ==
    ASSUME NEW S, NEW T, NEW e, S \subseteq T, S # {}
    PROVE  S \in (SUBSET (T \cup {e})) \ {{}}
OBVIOUS

\* A call that is committed is one store of the archive.
LEMMA CommittedIsStored ==
    ASSUME NEW w, Fits(service, focus), Sound(rows), NEW call, IsCall(call), IsStatement(w),
           service.kind = "once" => Given(rows, call) \cap Keys(rows) = {},
           service.kind = "once" => header[call.run] = NoRow,
           rows' = InsertAll(w, rows, New(call)), service' = service,
           [run \in Runs |-> header'[run].content]
               = IF service.header # {}
                 THEN [[run \in Runs |-> header[run].content] EXCEPT ![call.run] = call.version]
                 ELSE [run \in Runs |-> header[run].content]
    PROVE  TheArchive!Next
<1> DEFINE owner == OwnerOf(call.run)
           given == [key \in {TheArchive!Key(owner, item) : item \in call.items} |-> call.version]
           contents == [run \in Runs |-> header[run].content]
<1>1. {TheArchive!Key(owner, item) : item \in call.items} = Given(rows, call)
  BY KeysAgree DEF Given
<1>2. given = [key \in Given(rows, call) |-> call.version]  BY <1>1
<1>3. Stored' = TheArchive!After(given)
  <2>1. Stored' = StoredIn(InsertAll(w, rows, New(call)))  BY DEF Stored, StoredIn, Keys
  <2>2. StoredIn(InsertAll(w, rows, New(call)))
            = TheArchive!After([key \in Given(rows, call) |-> call.version])
    BY InsertIsAfter
  <2>. QED  BY <1>2, <2>1, <2>2
<1>4. DOMAIN given = Given(rows, call) /\ DOMAIN Stored = Keys(rows)
  BY <1>2 DEF Stored, Keys
<1>5. service.kind = "once" =>
          contents[call.run] = 0 /\ DOMAIN given \cap DOMAIN Stored = {}
  BY <1>4 DEF NoRow, IsCall
<1>6. owner \in {call.run, "none"}  BY DEF OwnerOf
<1>7. UNCHANGED <<service.kind, service.header # {}>>  OBVIOUS
<1>8. TheArchive!Store(call.run, call.version, call.items)
  BY <1>3, <1>5, <1>6, <1>7 DEF TheArchive!Store
<1>9. call.items \in (SUBSET (Items \cup {"null"})) \ {{}}
  BY ItemsAreGiven DEF IsCall
<1>. QED  BY <1>8, <1>9 DEF TheArchive!Next, IsCall
-----------------------------------------------------------------------------
\* The inductive invariant.

\* What a transaction issues, given what its call found.
Statement(found) ==
    IF focus.mode # "select_first" THEN focus
    ELSE [focus EXCEPT !.mode = IF found THEN "replace" ELSE "create"]

\* The row of the run a transaction has written, over what is committed.
HeaderRight(r) ==
    /\ service.header = {} => r.header = header
    /\ service.header # {} => \E rest \in Versions \cup {0} :
          r.header = [header EXCEPT ![r.call.run] = [content |-> r.call.version, rest |-> rest]]
    /\ service.kind = "once" => header[r.call.run] = NoRow

\* A transaction sees what is committed and what its own call wrote over it, nothing else.
RecordRight(r) ==
    /\ r.at # "idle" => IsCall(r.call)
    /\ r.at \in {"headed", "written"} => HeaderRight(r)
    /\ r.at = "headed" => r.rows = rows
    /\ r.at = "written" => r.rows = InsertAll(Statement(r.found), rows, New(r.call))

\* One client at a time holds the lock of the file.
OneWrites == \A c, d \in Clients : Writing(c) /\ Writing(d) => c = d

TransactionsInv ==
    DOMAIN tx = Clients /\ (\A c \in Clients : RecordRight(tx[c])) /\ OneWrites

HeaderInv ==
    /\ header \in [Runs -> [content : Versions \cup {0}, rest : Versions \cup {0}]]
    /\ service.kind = "once" => \A row \in rows : header[row.owner] # NoRow

FocusInv == Fits(service, focus) /\ {"key", "mode"} \subseteq DOMAIN focus

\* That a commit is a whole call takes the lock (OneWrites, and RecordRight: what a
\* transaction read is still what is committed); that it is a store of the archive takes
\* the rows by their keys (Sound) and that a run without a row has none under it (HeaderInv).
IInv == FocusInv /\ HeaderInv /\ Sound(rows) /\ TransactionsInv

LEMMA StatementIs ==
    ASSUME FocusInv, NEW found
    PROVE  IsStatement(Statement(found))
<1>1. CASE focus.mode # "select_first"
  BY <1>1 DEF FocusInv, IsStatement, Statement, Fits, Modes
<1>2. CASE focus.mode = "select_first"
  <2>1. service.kind = "latest"  BY <1>2 DEF FocusInv, Fits, Modes
  <2>2. Statement(found).key = focus.key /\ Statement(found).mode \in {"replace", "create"}
    BY <1>2 DEF FocusInv, Statement
  <2>. QED  BY <2>1, <2>2 DEF IsStatement
<1>. QED  BY <1>1, <1>2

\* A step of one client that commits nothing.
LEMMA MoveKeeps ==
    ASSUME IInv, NEW c \in Clients, NEW r, Move(c, r), RecordRight(r),
           UNCHANGED <<service, focus, header, rows>>,
           r.at \in {"headed", "written"} => \A d \in Clients \ {c} : ~ Writing(d)
    PROVE  IInv'
<1>1. DOMAIN tx' = Clients /\ \A d \in Clients : tx'[d] = IF d = c THEN r ELSE tx[d]
  BY DEF IInv, TransactionsInv, Move
<1>2. \A q : RecordRight(q)' <=> RecordRight(q)
  <2>1. \A call : New(call)' = New(call)  BY DEF New, Row
  <2>2. \A found : Statement(found)' = Statement(found)  BY DEF Statement
  <2>. QED  BY <2>1, <2>2 DEF RecordRight, HeaderRight
<1>3. ASSUME NEW d \in Clients PROVE RecordRight(tx[d])'
  <2>1. RecordRight(IF d = c THEN r ELSE tx[d])  BY DEF IInv, TransactionsInv
  <2>. QED  BY <1>1, <1>2, <2>1
<1>4. OneWrites'
  BY <1>1 DEF IInv, TransactionsInv, OneWrites, Writing
<1>5. TransactionsInv'  BY <1>1, <1>3, <1>4 DEF TransactionsInv
<1>6. Sound(rows)'  BY DEF IInv, Sound, Rows, Same
<1>7. HeaderInv' /\ FocusInv'  BY DEF IInv, HeaderInv, FocusInv, Fits
<1>. QED  BY <1>5, <1>6, <1>7 DEF IInv

LEMMA InitKeeps == Init => IInv
<1> SUFFICES ASSUME Init PROVE IInv  OBVIOUS
<1>1. PICK name \in DOMAIN Services : \E w \in Services[name].rows :
          /\ IsWatched(w)
          /\ service = [field \in {"needs", "header", "kind"} |-> Services[name][field]]
          /\ focus = OnTable(w)
  BY DEF Init
<1>2. PICK w \in Services[name].rows :
          /\ IsWatched(w)
          /\ service = [field \in {"needs", "header", "kind"} |-> Services[name][field]]
          /\ focus = OnTable(w)
  BY <1>1
<1>3. Fits(Services[name], OnTable(w))  BY <1>2, StatementsFit
<1>4. service.kind = Services[name].kind /\ service.header = Services[name].header  BY <1>2
<1>5. Fits(service, focus)  BY <1>2, <1>3, <1>4 DEF Fits
<1>6. {"key", "mode"} \subseteq DOMAIN focus  BY <1>2 DEF OnTable
<1>7. rows = {} /\ tx = [c \in Clients |-> Idle]  BY DEF Init
<1>8. Sound(rows)  BY <1>7, FS_EmptySet DEF Sound
<1>9. HeaderInv
  <2>1. header \in [Runs -> {NoRow, [content |-> 1, rest |-> 1]}]  BY DEF Init
  <2>2. {NoRow, [content |-> 1, rest |-> 1]}
            \subseteq [content : Versions \cup {0}, rest : Versions \cup {0}]
    BY StoreConstants DEF NoRow
  <2>. QED  BY <1>7, <2>1, <2>2 DEF HeaderInv
<1>10. TransactionsInv  BY <1>7 DEF TransactionsInv, RecordRight, OneWrites, Writing, Idle
<1>. QED  BY <1>5, <1>6, <1>8, <1>9, <1>10 DEF IInv, FocusInv

LEMMA OpenKeeps == ASSUME IInv, NEW c \in Clients, NEW call \in Calls, Open(c, call) PROVE IInv'
<1>1. IsCall(call)
  <2>1. focus.blanks = {}  BY DEF IInv, FocusInv, Fits
  <2>. QED  BY <2>1 DEF Calls, IsCall
<1>2. RecordRight([at |-> "open", call |-> call])  BY <1>1 DEF RecordRight
<1>. QED  BY <1>2, MoveKeeps DEF Open

LEMMA CheckKeeps == ASSUME IInv, NEW c \in Clients, Check(c) PROVE IInv'
<1>1. RecordRight(tx[c]) /\ tx[c].at = "open"  BY DEF IInv, TransactionsInv, Check
<1>2. RecordRight([at |-> "checked", call |-> tx[c].call, found |-> Found(tx[c].call)])
  BY <1>1 DEF RecordRight
<1>. QED  BY <1>2, MoveKeeps DEF Check

LEMMA IdleIsRight == RecordRight(Idle) /\ Idle.at \notin {"headed", "written"}
BY DEF RecordRight, Idle

LEMMA RefuseKeeps == ASSUME IInv, NEW c \in Clients, Refuse(c) PROVE IInv'
BY IdleIsRight, MoveKeeps DEF Refuse

LEMMA AgainKeeps ==
    ASSUME IInv, NEW c \in Clients, tx[c].at # "idle", Again(c),
           UNCHANGED <<service, focus, header, rows>>
    PROVE  IInv'
<1>1. RecordRight([at |-> "open", call |-> tx[c].call])
  BY DEF IInv, TransactionsInv, RecordRight
<1>. QED  BY <1>1, MoveKeeps DEF Again

LEMMA FailKeeps == ASSUME IInv, NEW c \in Clients, Fail(c) PROVE IInv'
BY AgainKeeps DEF Fail

LEMMA RejectKeeps == ASSUME IInv, NEW c \in Clients, Reject(c) PROVE IInv'
<1>1. tx[c].at # "idle" /\ UNCHANGED <<service, focus, header, rows>>  BY DEF Reject
<1>2. Move(c, Idle) \/ Again(c)  BY DEF Reject
<1>3. CASE Move(c, Idle)  BY <1>1, <1>3, IdleIsRight, MoveKeeps
<1>4. CASE Again(c)  BY <1>1, <1>4, AgainKeeps
<1>. QED  BY <1>2, <1>3, <1>4

\* The first write waits for the lock, and reads what is committed under it.
LEMMA WriteHeaderKeeps == ASSUME IInv, NEW c \in Clients, WriteHeader(c) PROVE IInv'
<1> DEFINE call == tx[c].call
           w == CHOOSE w \in service.header : TRUE
           old == header[call.run]
           rest == IF w.mode = "replace_some" /\ old # NoRow THEN old.rest ELSE call.version
           given == [content |-> call.version, rest |-> rest]
           next == IF service.header = {} THEN header ELSE [header EXCEPT ![call.run] = given]
           r == [at |-> "headed", call |-> call, found |-> tx[c].found, rows |-> rows,
                 header |-> next]
<1>1. /\ tx[c].at = "checked" /\ \A d \in Clients : ~ Writing(d)
      /\ \A v \in service.header : v.mode = "create" => old = NoRow
      /\ Move(c, r) /\ UNCHANGED <<service, focus, header, rows>>
  BY DEF WriteHeader
<1>2. IsCall(call)  BY <1>1 DEF IInv, TransactionsInv, RecordRight
<1>3. rest \in Versions \cup {0}
  <2>1. old \in [content : Versions \cup {0}, rest : Versions \cup {0}]
    BY <1>2 DEF IInv, HeaderInv, IsCall
  <2>2. old.rest \in Versions \cup {0}  BY <2>1
  <2>. QED  BY <1>2, <2>2 DEF IsCall
<1>4. service.kind = "once" => old = NoRow
  <2>1. service.kind = "once" => \E v \in service.header : v.mode = "create"
    BY DEF IInv, FocusInv, Fits
  <2>. QED  BY <1>1, <2>1
<1> HIDE DEF rest, call
<1>5. HeaderRight(r)  BY <1>3, <1>4 DEF HeaderRight
<1>6. RecordRight(r)  BY <1>2, <1>5 DEF RecordRight
<1> HIDE DEF r
<1>. QED  BY <1>1, <1>6, MoveKeeps

LEMMA WriteRowsKeeps == ASSUME IInv, NEW c \in Clients, WriteRows(c) PROVE IInv'
<1> DEFINE left == InsertAll(Chosen(c), tx[c].rows, New(tx[c].call))
           r == [at |-> "written", call |-> tx[c].call, found |-> tx[c].found,
                 rows |-> left, header |-> tx[c].header]
<1>1. /\ tx[c].at = "headed" /\ Move(c, r) /\ UNCHANGED <<service, focus, header, rows>>
  BY DEF WriteRows, New
<1>2. RecordRight(tx[c]) /\ OneWrites  BY DEF IInv, TransactionsInv
<1>3. Chosen(c) = Statement(tx[c].found)  BY DEF Chosen, Statement
<1>4. tx[c].rows = rows /\ HeaderRight(tx[c]) /\ IsCall(tx[c].call)
  BY <1>1, <1>2 DEF RecordRight
<1>5. HeaderRight(r)  BY <1>4 DEF HeaderRight
<1>6. RecordRight(r)  BY <1>3, <1>4, <1>5 DEF RecordRight
<1>7. \A d \in Clients \ {c} : ~ Writing(d)  BY <1>1, <1>2 DEF OneWrites, Writing
<1> HIDE DEF r
<1>. QED  BY <1>1, <1>6, <1>7, MoveKeeps

\* What a commit makes of what was committed before.
LEMMA CommitIs ==
    ASSUME IInv, NEW c \in Clients, Commit(c)
    PROVE  /\ IsCall(tx[c].call) /\ HeaderRight(tx[c])
           /\ rows' = InsertAll(Statement(tx[c].found), rows, New(tx[c].call))
           /\ header' = tx[c].header /\ UNCHANGED <<service, focus>> /\ Move(c, Idle)
           /\ \A d \in Clients \ {c} : ~ Writing(d)
<1>1. tx[c].at = "written" /\ rows' = tx[c].rows /\ header' = tx[c].header
      /\ UNCHANGED <<service, focus>> /\ Move(c, Idle)
  BY DEF Commit
<1>2. RecordRight(tx[c]) /\ OneWrites  BY DEF IInv, TransactionsInv
<1>3. \A d \in Clients \ {c} : ~ Writing(d)  BY <1>1, <1>2 DEF OneWrites, Writing
<1>. QED  BY <1>1, <1>2, <1>3 DEF RecordRight

LEMMA CommitKeeps == ASSUME IInv, NEW c \in Clients, Commit(c) PROVE IInv'
<1> DEFINE call == tx[c].call
           w == Statement(tx[c].found)
           left == InsertAll(w, rows, New(call))
<1>1. /\ IsCall(call) /\ HeaderRight(tx[c]) /\ rows' = left /\ header' = tx[c].header
      /\ service' = service /\ focus' = focus /\ Move(c, Idle)
      /\ \A d \in Clients \ {c} : ~ Writing(d)
  BY CommitIs
<1>2. Fits(service, focus) /\ Sound(rows) /\ IsStatement(w)
  BY StatementIs DEF IInv, FocusInv
<1>3. w.key = focus.key  BY <1>2 DEF IsStatement
<1>4. Sound(left)  BY <1>1, <1>2, InsertKeepsSound
<1>5. Sound(rows)'
  <2> HIDE DEF left
  <2>. QED  BY <1>1, <1>4 DEF Sound
<1>6. FocusInv'  BY <1>1 DEF IInv, FocusInv
<1>7. HeaderInv'
  <2>1. header \in [Runs -> [content : Versions \cup {0}, rest : Versions \cup {0}]]
    BY DEF IInv, HeaderInv
  <2>2. CASE service.header = {}
    <3>1. header' = header  BY <1>1, <2>2 DEF HeaderRight
    <3>2. service.kind # "once"  BY <1>2, <2>2 DEF Fits
    <3>. QED  BY <1>1, <2>1, <3>1, <3>2 DEF HeaderInv
  <2>3. CASE service.header # {}
    <3>1. PICK rest \in Versions \cup {0} : header'
              = [header EXCEPT ![call.run] = [content |-> call.version, rest |-> rest]]
      BY <1>1, <2>3 DEF HeaderRight
    <3>2. [content |-> call.version, rest |-> rest]
              \in [content : Versions \cup {0}, rest : Versions \cup {0}]
      BY <1>1 DEF IsCall
    <3>3. header' \in [Runs -> [content : Versions \cup {0}, rest : Versions \cup {0}]]
      BY <2>1, <3>1, <3>2
    <3>4. ASSUME service.kind = "once", NEW row \in left PROVE header'[row.owner] # NoRow
      <4>1. focus.owned  BY <1>2, <3>4 DEF Fits
      <4>2. row.owner \in Runs  BY <1>4, <4>1 DEF Sound
      <4>3. CASE row.owner = call.run
        <5>1. header'[row.owner] = [content |-> call.version, rest |-> rest]
          BY <2>1, <3>1, <4>2, <4>3
        <5>2. call.version # 0  BY <1>1, StoreConstants DEF IsCall
        <5>. QED  BY <5>1, <5>2 DEF NoRow
      <4>4. CASE row.owner # call.run
        <5>1. row \in rows  BY <1>1, <1>2, <1>3, <4>1, <4>4, InsertedRowsAre DEF OwnerOf
        <5>2. header[row.owner] # NoRow  BY <3>4, <5>1 DEF IInv, HeaderInv
        <5>. QED  BY <2>1, <3>1, <4>2, <4>4, <5>2
      <4>. QED  BY <4>3, <4>4
    <3> HIDE DEF left
    <3>. QED  BY <1>1, <3>3, <3>4 DEF HeaderInv
  <2>. QED  BY <2>2, <2>3
<1>8. TransactionsInv'
  <2>1. DOMAIN tx' = Clients /\ \A d \in Clients : tx'[d] = IF d = c THEN Idle ELSE tx[d]
    BY <1>1 DEF IInv, TransactionsInv, Move
  <2>2. \A d \in Clients : ~ Writing(d)'  BY <1>1, <2>1, IdleIsRight DEF Writing
  <2>3. ASSUME NEW d \in Clients PROVE RecordRight(tx[d])'
    <3>1. RecordRight(IF d = c THEN Idle ELSE tx[d])
      BY IdleIsRight DEF IInv, TransactionsInv
    <3>2. tx'[d].at # "idle" => IsCall(tx'[d].call)  BY <2>1, <3>1 DEF RecordRight
    <3>3. tx'[d].at \notin {"headed", "written"}  BY <2>2 DEF Writing
    <3>. QED  BY <3>2, <3>3 DEF RecordRight, IsCall
  <2>. QED  BY <2>1, <2>2, <2>3 DEF TransactionsInv, OneWrites
<1>. QED  BY <1>5, <1>6, <1>7, <1>8 DEF IInv

\* The commit is the store, and every other step leaves the archive as it is.
LEMMA CommitStores == ASSUME IInv, NEW c \in Clients, Commit(c) PROVE TheArchive!Next
<1> DEFINE call == tx[c].call
           w == Statement(tx[c].found)
<1>1. /\ IsCall(call) /\ HeaderRight(tx[c]) /\ rows' = InsertAll(w, rows, New(call))
      /\ header' = tx[c].header /\ service' = service
  BY CommitIs
<1>2. Fits(service, focus) /\ Sound(rows) /\ IsStatement(w)
  BY StatementIs DEF IInv, FocusInv
<1>3. service.kind = "once" => header[call.run] = NoRow  BY <1>1 DEF HeaderRight
<1>4. service.kind = "once" => Given(rows, call) \cap Keys(rows) = {}
  <2> SUFFICES ASSUME service.kind = "once", NEW item \in call.items, NEW row \in rows,
                      KeyOf(row) = NextKey(rows, OwnerOf(call.run), item)
               PROVE  FALSE
    BY DEF Given, Keys
  <2>1. row.owner = call.run  BY <1>2 DEF Fits, OwnerOf, KeyOf, NextKey
  <2>. QED  BY <1>3, <2>1 DEF IInv, HeaderInv
<1>5. [run \in Runs |-> header'[run].content]
          = IF service.header # {}
            THEN [[run \in Runs |-> header[run].content] EXCEPT ![call.run] = call.version]
            ELSE [run \in Runs |-> header[run].content]
  <2>1. CASE service.header = {}  BY <1>1, <2>1 DEF HeaderRight
  <2>2. CASE service.header # {}
    <3>1. PICK rest \in Versions \cup {0} : header'
              = [header EXCEPT ![call.run] = [content |-> call.version, rest |-> rest]]
      BY <1>1, <2>2 DEF HeaderRight
    <3>2. DOMAIN header = Runs  BY DEF IInv, HeaderInv
    <3>3. \A run \in Runs : header'[run].content
              = IF run = call.run THEN call.version ELSE header[run].content
      BY <3>1, <3>2
    <3>. QED  BY <2>2, <3>3
  <2>. QED  BY <2>1, <2>2
<1>. QED  BY <1>1, <1>2, <1>3, <1>4, <1>5, CommittedIsStored

LEMMA StepKeeps ==
    ASSUME IInv, [Next]_vars
    PROVE  IInv' /\ [TheArchive!Next]_(TheArchive!vars)
<1>1. ASSUME UNCHANGED <<service, header, rows>> PROVE UNCHANGED TheArchive!vars
  BY <1>1 DEF TheArchive!vars, Stored
<1>2. ASSUME NEW c \in Clients, Step(c) \/ Fail(c) \/ \E call \in Calls : Open(c, call)
      PROVE  IInv' /\ [TheArchive!Next]_(TheArchive!vars)
  <2>1. CASE Check(c)  BY <1>1, <2>1, CheckKeeps DEF Check
  <2>2. CASE Refuse(c)  BY <1>1, <2>2, RefuseKeeps DEF Refuse
  <2>3. CASE WriteHeader(c)  BY <1>1, <2>3, WriteHeaderKeeps DEF WriteHeader
  <2>4. CASE WriteRows(c)  BY <1>1, <2>4, WriteRowsKeeps DEF WriteRows
  <2>5. CASE Commit(c)  BY <2>5, CommitKeeps, CommitStores
  <2>6. CASE Reject(c)  BY <1>1, <2>6, RejectKeeps DEF Reject
  <2>7. CASE Fail(c)  BY <1>1, <2>7, FailKeeps DEF Fail
  <2>8. CASE \E call \in Calls : Open(c, call)
    <3>1. PICK call \in Calls : Open(c, call)  BY <2>8
    <3>. QED  BY <1>1, <3>1, OpenKeeps DEF Open
  <2>. QED  BY <1>2, <2>1, <2>2, <2>3, <2>4, <2>5, <2>6, <2>7, <2>8 DEF Step
<1>3. CASE UNCHANGED vars
  <2>1. UNCHANGED <<service, focus, header, rows, tx>>  BY <1>3 DEF vars
  <2>2. FocusInv' /\ HeaderInv' /\ Sound(rows)'
    BY <2>1 DEF IInv, FocusInv, HeaderInv, Fits, Sound, Rows, Same
  <2>3. TransactionsInv'
    <3>1. \A q : RecordRight(q)' <=> RecordRight(q)
      <4>1. \A call : New(call)' = New(call)  BY <2>1 DEF New, Row
      <4>2. \A found : Statement(found)' = Statement(found)  BY <2>1 DEF Statement
      <4>. QED  BY <2>1, <4>1, <4>2 DEF RecordRight, HeaderRight
    <3>2. \A c \in Clients : RecordRight(tx[c])'
      BY <2>1, <3>1 DEF IInv, TransactionsInv
    <3>3. OneWrites'  BY <2>1 DEF IInv, TransactionsInv, OneWrites, Writing
    <3>. QED  BY <2>1, <3>2, <3>3 DEF IInv, TransactionsInv
  <2>4. IInv'  BY <2>2, <2>3 DEF IInv
  <2>. QED  BY <1>1, <2>1, <2>4
<1>. QED  BY <1>2, <1>3 DEF Next

\* Nothing is stored at first, neither where clients call nor where they rest.
LEMMA InitIsEmpty == Init \/ StoresRest => TheArchive!Init
<1> SUFFICES ASSUME Init \/ StoresRest PROVE TheArchive!Init  OBVIOUS
<1>1. rows = {}  BY DEF Init, StoresRest
<1>2. Stored = <<>>
  <2>1. Stored = [key \in {} |-> (CHOOSE row \in rows : KeyOf(row) = key).content]
    BY <1>1 DEF Stored
  <2>. QED  BY <2>1
<1>3. header \in [Runs -> {NoRow, [content |-> 1, rest |-> 1]}]
  BY DEF Init, StoresRest
<1>4. \A run \in Runs : header[run].content \in Versions \cup {0}
  <2>1. \A row \in {NoRow, [content |-> 1, rest |-> 1]} : row.content \in {0, 1}
    BY DEF NoRow
  <2>. QED  BY <1>3, <2>1, StoreConstants
<1>5. [run \in Runs |-> header[run].content] \in [Runs -> Versions \cup {0}]  BY <1>4
<1>. QED  BY <1>2, <1>5 DEF TheArchive!Init

\* Whatever fails and however the calls of any number of clients interleave, what is
\* committed are whole calls one after another: the row of the run and every row under it,
\* replaced or kept or added as the service promises (session.py, session_scope).
THEOREM CallsAreAlwaysWhole == SidecarSpec => StoresWholeCalls
<1> DEFINE Both == part = "process" \/ (part = "stores" /\ IInv)
<1>1. SidecarInit => Both /\ TheArchive!Init
  BY InitKeeps, InitIsEmpty DEF SidecarInit
<1>2. Both /\ [StoreSteps \/ ProcessSteps]_allVars
          => Both' /\ [TheArchive!Next]_(TheArchive!vars)
  <2> SUFFICES ASSUME Both, [StoreSteps \/ ProcessSteps]_allVars
               PROVE  Both' /\ [TheArchive!Next]_(TheArchive!vars)
    OBVIOUS
  <2>1. UNCHANGED vars => UNCHANGED TheArchive!vars
    BY DEF vars, TheArchive!vars, Stored
  <2>2. CASE part = "process"
    <3>1. part' = "process" /\ UNCHANGED vars
      BY <2>2 DEF StoreSteps, ProcessSteps, Stores, Lives, allVars
    <3>. QED  BY <2>1, <3>1
  <2>3. CASE part = "stores" /\ IInv
    <3>1. part' = "stores" /\ [Next]_vars
      BY <2>3 DEF StoreSteps, ProcessSteps, Stores, Lives, allVars
    <3>. QED  BY <2>3, <3>1, StepKeeps
  <2>. QED  BY <2>2, <2>3
<1> HIDE DEF Both
<1>. QED  BY <1>1, <1>2, PTL DEF SidecarSpec, StoresWholeCalls, TheArchive!Spec
=============================================================================
