----------------------------- MODULE DataCache -----------------------------
(***************************************************************************)
(* CacheManager (backend/data/cache/manager.py): one file per key in a     *)
(* directory that several processes may use at once.  set writes a         *)
(* temporary file and renames it; get, delete, invalidate and cleanup read *)
(* a file, judge what they read and unlink the path, three separate steps  *)
(* between which a process may die and the other ones run.                 *)
(***************************************************************************)
EXTENDS Integers, FiniteSets

CONSTANTS
    Process,    \* the processes that use the directory
    Key,
    Ttl,        \* ttl_seconds a caller may give; every entry may also have none
    MaxTime,    \* bound: the clock
    MaxWrites,  \* bound: calls of set
    MaxSweeps,  \* bound: calls of cleanup and invalidate
    MaxDamage   \* bound: files damaged, or kept from an unlink, by the machine

ConstantsType == Key # {} /\ Ttl \cup {MaxTime, MaxWrites, MaxSweeps, MaxDamage} \subseteq Nat

NoExpiry == MaxTime + 1
\* What is at a path: nothing, an entry, one whose payload no longer has its hash, what
\* json.loads refuses, JSON without the fields of an entry, or bytes that are no UTF-8.
\* write tells the entries apart and dates them: the number of the rename that put them there.
Damages == {"rotten", "torn", "misfit", "garbled"}
Content == [state : {"none", "whole"} \cup Damages, write : 0 .. MaxWrites, expires : 0 .. NoExpiry]
NoFile == [state |-> "none", write |-> 0, expires |-> 0]

VARIABLES
    clock, file, damages,
    begun,      \* calls of set so far
    writes,     \* renames so far
    sweeps,     \* calls of cleanup and invalidate so far
    last,       \* the newest write of each key
    temps,      \* .tmp files nobody renames any more
    pc,         \* the next step of each process, and the call it is in:
    call        \* op; key and got, the path it is at and what it read there (or is about
                \* to write); now and since, the clock and last[key] when it began; todo
                \* and listed, the paths a sweep has still to visit and those it listed;
                \* refused, those it could not unlink; removed, the total of its
                \* CacheCleanupReport; alone, that no other process has changed a file
                \* since it began

counters == <<clock, damages, begun, writes, sweeps, temps>>
vars == <<counters, file, last, pc, call>>

Op == {"none", "set", "get", "delete", "cleanup", "invalidate"}
Call == [op : Op, key : Key, got : Content, now : 0 .. MaxTime, since : 0 .. MaxWrites,
         todo : SUBSET Key, listed : SUBSET Key, refused : SUBSET Key,
         removed : Nat, alone : BOOLEAN]
AKey == CHOOSE k \in Key : TRUE
NoCall == [op |-> "none", key |-> AKey, got |-> NoFile, now |-> 0, since |-> 0,
           todo |-> {}, listed |-> {}, refused |-> {}, removed |-> 0, alone |-> TRUE]

Init ==
    /\ clock = 0 /\ damages = 0 /\ writes = 0 /\ temps = 0 /\ begun = 0 /\ sweeps = 0
    /\ file = [k \in Key |-> NoFile] /\ last = [k \in Key |-> 0]
    /\ pc = [p \in Process |-> "idle"] /\ call = [p \in Process |-> NoCall]

Missing(k) == file[k].state = "none"
Goto(p, to, locals) ==
    /\ pc' = [pc EXCEPT ![p] = to]
    /\ call' = [call EXCEPT ![p] = IF to = "idle" THEN NoCall ELSE locals]
\* The same, when the step changes a file.
Changing(p, to, locals) ==
    /\ pc' = [pc EXCEPT ![p] = to]
    /\ call' = [q \in Process |->
           IF q = p THEN IF to = "idle" THEN NoCall ELSE locals
           ELSE IF pc[q] = "idle" THEN NoCall ELSE [call[q] EXCEPT !.alone = FALSE]]

-----------------------------------------------------------------------------
(* set *)

\* The entry, its expiry included, is made first and written to the temporary file.
Set(p, k, ttl) ==
    /\ begun < MaxWrites /\ begun' = begun + 1
    /\ pc[p] = "idle"
    /\ Goto(p, "replace", [NoCall EXCEPT !.op = "set", !.key = k, !.got =
            [state |-> "whole", write |-> 0,
             expires |-> IF clock + ttl > MaxTime THEN NoExpiry ELSE clock + ttl]])
    /\ UNCHANGED <<clock, damages, writes, sweeps, temps, file, last>>
ReplaceUnlessPresent(p) ==      \* mutant: the entry that is there stays
    /\ pc[p] = "replace" /\ Changing(p, "idle", NoCall)
    /\ writes' = writes + 1
    /\ last' = [last EXCEPT ![call[p].key] = writes + 1]
    /\ file' = [file EXCEPT ![call[p].key] =
                    IF Missing(call[p].key) THEN [call[p].got EXCEPT !.write = writes + 1] ELSE @]
    /\ UNCHANGED <<clock, damages, begun, sweeps, temps>>
\* os.replace
Replace(p) ==
    /\ pc[p] = "replace" /\ Changing(p, "idle", NoCall)
    /\ writes' = writes + 1
    /\ last' = [last EXCEPT ![call[p].key] = writes + 1]
    /\ file' = [file EXCEPT ![call[p].key] = [call[p].got EXCEPT !.write = writes + 1]]
    /\ UNCHANGED <<clock, damages, begun, sweeps, temps>>

-----------------------------------------------------------------------------
(* get, get_metadata, contains, verify_integrity; delete *)

\* A path that does not exist is a miss at once.
Get(p, k) ==
    /\ ~Missing(k) /\ pc[p] = "idle"
    /\ Goto(p, "read", [NoCall EXCEPT !.op = "get", !.key = k, !.now = clock, !.since = last[k]])
    /\ UNCHANGED <<counters, file, last>>
Delete(p, k) ==
    /\ ~Missing(k) /\ pc[p] = "idle"
    /\ Goto(p, "unlink", [NoCall EXCEPT !.op = "delete", !.key = k])
    /\ UNCHANGED <<counters, file, last>>

\* invalidate and cleanup list the directory when they begin.
Sweep(p, op) ==
    /\ sweeps < MaxSweeps /\ sweeps' = sweeps + 1
    /\ pc[p] = "idle"
    /\ LET present == {k \in Key : ~Missing(k)}
       IN  Goto(p, "visit", [NoCall EXCEPT !.op = op, !.now = clock, !.todo = present, !.listed = present])
    /\ UNCHANGED <<clock, damages, begun, writes, temps, file, last>>
Visit(p) ==
    /\ pc[p] = "visit"
    /\ \E k \in call[p].todo :
          Goto(p, "read", [call[p] EXCEPT !.key = k, !.todo = @ \ {k}])
    /\ UNCHANGED <<counters, file, last>>
Swept(p) ==
    /\ pc[p] = "visit" /\ call[p].todo = {} /\ Goto(p, "idle", NoCall)
    /\ UNCHANGED <<counters, file, last>>

Away(p) == IF call[p].op \in {"cleanup", "invalidate"} THEN "visit" ELSE "idle"
\* A path that has gone since it was found is an OSError.
Read(p) ==
    /\ pc[p] = "read"
    /\ Goto(p, "judge", [call[p] EXCEPT !.got = file[call[p].key]])
    /\ UNCHANGED <<counters, file, last>>

ExpiredAtOnce(entry, at) == at >= entry.expires                     \* mutant
Expired(entry, at) == at > entry.expires
NotTorn(entry) == entry.state \in {"none", "torn"}                  \* mutant
Corrupt(entry) == entry.state # "whole"
\* get asks the clock after it has read the file, cleanup before it lists the directory.
ClockOf(p) == IF call[p].op = "cleanup" THEN call[p].now ELSE clock
Condemned(p) ==
    \/ Corrupt(call[p].got)
    \/ call[p].op # "invalidate" /\ Expired(call[p].got, ClockOf(p))
\* invalidate does not count the corrupt entries it unlinks on the way.
CountedExpired(p) == call[p].op = "cleanup" /\ ~Corrupt(call[p].got)    \* mutant
Counted(p) == call[p].op = "cleanup" \/ (call[p].op = "invalidate" /\ ~Corrupt(call[p].got))

\* UnicodeDecodeError is no JSONDecodeError: it ends whatever call reads the file, a whole
\* sweep with it.  What lacks the fields of an entry is corrupt to a sweep and raises in get.
Raises(p) ==
    \/ call[p].got.state = "garbled"
    \/ call[p].got.state = "misfit" /\ call[p].op = "get"

\* The predicate of invalidate may be any.
Judge(p) ==
    /\ pc[p] = "judge"
    /\ \/ Raises(p) /\ Goto(p, "idle", NoCall)
       \/ ~Raises(p) /\ (Condemned(p) \/ call[p].op = "invalidate") /\ Goto(p, "unlink", call[p])
       \/ ~Raises(p) /\ ~Condemned(p) /\ Goto(p, Away(p), call[p])
    /\ UNCHANGED <<counters, file, last>>
\* path.unlink(missing_ok=True): whatever the path holds by now.  An OSError is swallowed, the
\* file stays and is counted all the same.
Unlink(p) ==
    LET k == call[p].key
        counting == [call[p] EXCEPT !.removed = IF Counted(p) THEN @ + 1 ELSE @]
    IN  /\ pc[p] = "unlink"
        /\ \/ /\ file' = [file EXCEPT ![k] = NoFile]
              /\ Changing(p, Away(p), counting)
              /\ UNCHANGED damages
           \/ /\ damages < MaxDamage /\ damages' = damages + 1
              /\ ~Missing(k)
              /\ Goto(p, Away(p), [counting EXCEPT !.refused = @ \cup {k}])
              /\ UNCHANGED file
        /\ UNCHANGED <<clock, begun, writes, sweeps, temps, last>>

-----------------------------------------------------------------------------
(* The machine *)

Tick ==
    /\ clock < MaxTime /\ clock' = clock + 1
    /\ UNCHANGED <<damages, begun, writes, sweeps, temps, file, last, pc, call>>
\* A bad block, a rename that reached the disk before the data, or a file of another's making.
Damage(k) ==
    /\ damages < MaxDamage /\ damages' = damages + 1
    /\ ~Missing(k)
    /\ \E bad \in Damages : file' = [file EXCEPT ![k].state = bad]
    /\ UNCHANGED <<clock, begun, writes, sweeps, temps, last, pc, call>>
Die(p) ==
    /\ pc[p] # "idle" /\ Goto(p, "idle", NoCall)
    /\ temps' = IF pc[p] = "replace" THEN temps + 1 ELSE temps
    /\ UNCHANGED <<clock, damages, begun, writes, sweeps, file, last>>

Step(p) == Replace(p) \/ Visit(p) \/ Swept(p) \/ Read(p) \/ Judge(p) \/ Unlink(p)
Next ==
    \/ \E p \in Process :
          \/ \E k \in Key : Get(p, k) \/ Delete(p, k) \/ \E t \in Ttl \cup {NoExpiry} : Set(p, k, t)
          \/ \E op \in {"cleanup", "invalidate"} : Sweep(p, op)
          \/ Step(p) \/ Die(p)
    \/ Tick \/ \E k \in Key : Damage(k)
Spec == Init /\ [][Next]_vars

-----------------------------------------------------------------------------
TypeOK ==
    /\ clock \in 0 .. MaxTime /\ damages \in 0 .. MaxDamage
    /\ {begun, writes, temps} \subseteq 0 .. MaxWrites /\ sweeps \in 0 .. MaxSweeps
    /\ file \in [Key -> Content] /\ last \in [Key -> 0 .. MaxWrites]
    /\ pc \in [Process -> {"idle", "replace", "visit", "read", "judge", "unlink"}]
    /\ call \in [Process -> Call]

\* get hands out what it read: the call ends without an unlink.
Hit(p) == Judge(p) /\ call[p].op = "get" /\ ~Raises(p) /\ pc'[p] = "idle"

\* manager.py:92-128.  What get hands out is an entry as some set wrote it, never a damaged
\* one, and it had not expired when get was called.
GenuineHit ==
    \A p \in Process :
        Hit(p) => call[p].got.state = "whole" /\ call[p].got.expires >= call[p].now
HitIsGenuine == []TypeOK /\ [][GenuineHit]_vars

\* manager.py:185-206.  A write that was complete when get was called is never followed by
\* an older value, however many processes write.
FreshHit == \A p \in Process : Hit(p) => call[p].got.write >= call[p].since
HitIsNotStale == [][FreshHit]_vars

\* manager.py:97-128, 169-177.  Unless another process has come between, what get and cleanup
\* unlink is expired or corrupt when it goes.  (If one has, it may be a fresh entry: README.)
DeadRemoved ==
    \A p \in Process : LET f == file[call[p].key] IN
        Unlink(p) /\ call[p].op \in {"get", "cleanup"} /\ call[p].alone
          => f.state # "whole" \/ clock > f.expires
OnlyDeadRemoved == [][DeadRemoved]_vars

\* manager.py:164-179, 243-247.  When a cleanup that was alone comes to its report, no entry is
\* left that had expired when it began but those that would not be unlinked, and the report
\* counts the paths it listed that are gone or would not go.
CompleteCleanup ==
    \A p \in Process : LET refused == call[p].refused IN
        Swept(p) /\ call[p].op = "cleanup" /\ call[p].alone
          => /\ \A k \in Key \ refused : Missing(k) \/ file[k].expires >= call[p].now
             /\ call[p].removed = Cardinality({k \in call[p].listed : Missing(k) \/ k \in refused})
CleanupIsComplete == [][CompleteCleanup]_vars
=============================================================================
