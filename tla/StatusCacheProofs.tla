------------------------- MODULE StatusCacheProofs -------------------------
(***************************************************************************)
(* Theorems about the status cache, for any callers, keys, TTL and delays: *)
(* no two callers fetch one key unless its lock was dropped, no cached     *)
(* answer is stale, and a slow answer does not replace a newer entry.      *)
(***************************************************************************)
EXTENDS StatusCacheInv, SequenceTheorems, TLAPS

Among(q, c) == \E i \in 1..Len(q) : q[i] = c

(* A caller that joins a queue stands last in it.                          *)
LEMMA JoinQueue ==
    ASSUME NEW q \in Seq(Callers), NEW c \in Callers
    PROVE  /\ Append(q, c) \in Seq(Callers) /\ Append(q, c) # <<>>
           /\ Among(Append(q, c), c)
           /\ \A d : Among(q, d) => Among(Append(q, c), d)
           /\ Head(Append(q, c)) = IF q = <<>> THEN c ELSE Head(q)
<1>1. /\ Append(q, c) \in Seq(Callers) /\ Append(q, c) # <<>>
      /\ Len(Append(q, c)) = Len(q) + 1 /\ Len(q) \in Nat
      /\ \A i \in 1..Len(q) : Append(q, c)[i] = q[i]
      /\ Append(q, c)[Len(q) + 1] = c
  BY AppendProperties
<1>2. Head(Append(q, c)) = IF q = <<>> THEN c ELSE Head(q)
  BY HeadTailAppend
<1>3. QED
  BY <1>1, <1>2 DEF Among

(* The holder that releases the lock leaves everyone else in the queue.    *)
LEMMA PassOn ==
    ASSUME NEW q \in Seq(Callers), q # <<>>
    PROVE  /\ Tail(q) \in Seq(Callers)
           /\ \A d : Among(q, d) /\ d # Head(q) => Among(Tail(q), d)
<1>1. /\ Tail(q) \in Seq(Callers) /\ Len(Tail(q)) = Len(q) - 1 /\ Len(q) \in Nat
      /\ \A i \in 1..Len(Tail(q)) : Tail(q)[i] = q[i + 1]
  BY HeadTailProperties
<1>2. ASSUME NEW d, Among(q, d), d # Head(q) PROVE Among(Tail(q), d)
  <2>1. PICK i \in 1..Len(q) : q[i] = d
    BY <1>2 DEF Among
  <2>2. i - 1 \in 1..Len(Tail(q)) /\ (i - 1) + 1 = i
    BY <1>1, <1>2, <2>1
  <2>3. Tail(q)[i - 1] = d
    BY <1>1, <2>1, <2>2
  <2>4. QED
    BY <2>2, <2>3 DEF Among
<1>3. QED
  BY <1>1, <1>2

(* So does a waiter that leaves, who does not move the holder either.      *)
LEMMA LeaveQueue ==
    ASSUME NEW q \in Seq(Callers), NEW i \in 1..Len(q)
    PROVE  /\ RemoveAt(q, i) \in Seq(Callers)
           /\ \A d : Among(q, d) /\ d # q[i] => Among(RemoveAt(q, i), d)
           /\ Head(q) # q[i] => RemoveAt(q, i) # <<>> /\ Head(RemoveAt(q, i)) = Head(q)
<1> DEFINE a == SubSeq(q, 1, i - 1)
           b == SubSeq(q, i + 1, Len(q))
<1>1. Len(q) \in Nat /\ i \in Nat /\ \A j \in 1..Len(q) : q[j] \in Callers
  BY ElementOfSeq
<1>2. /\ a \in Seq(Callers) /\ Len(a) = i - 1
      /\ \A j \in 1..(i - 1) : a[j] = q[j]
  <2>1. /\ a \in Seq(Callers) /\ Len(a) = IF 1 <= i - 1 THEN (i - 1) - 1 + 1 ELSE 0
        /\ \A j \in 1..((i - 1) - 1 + 1) : a[j] = q[1 + j - 1]
    BY <1>1, SubSeqProperties
  <2>2. QED
    BY <1>1, <2>1
<1>3. /\ b \in Seq(Callers) /\ Len(b) = Len(q) - i
      /\ \A j \in 1..(Len(q) - i) : b[j] = q[i + j]
  <2>1. /\ b \in Seq(Callers)
        /\ Len(b) = IF i + 1 <= Len(q) THEN Len(q) - (i + 1) + 1 ELSE 0
        /\ \A j \in 1..(Len(q) - (i + 1) + 1) : b[j] = q[(i + 1) + j - 1]
    BY <1>1, SubSeqProperties
  <2>2. QED
    BY <1>1, <2>1
<1> HIDE DEF a, b
<1>4. /\ a \o b \in Seq(Callers) /\ Len(a \o b) = Len(q) - 1
      /\ \A j \in 1..(i - 1) : (a \o b)[j] = q[j]
      /\ \A j \in 1..(Len(q) - i) : (a \o b)[(i - 1) + j] = q[i + j]
  <2>1. /\ a \o b \in Seq(Callers) /\ Len(a \o b) = Len(a) + Len(b)
        /\ \A j \in 1..Len(a) + Len(b) :
               (a \o b)[j] = IF j <= Len(a) THEN a[j] ELSE b[j - Len(a)]
    BY <1>2, <1>3, ConcatProperties
  <2>2. ASSUME NEW j \in 1..(i - 1) PROVE (a \o b)[j] = q[j]
    BY <1>1, <1>2, <1>3, <2>1
  <2>3. ASSUME NEW j \in 1..(Len(q) - i) PROVE (a \o b)[(i - 1) + j] = q[i + j]
    <3>1. /\ Len(a) = i - 1 /\ Len(b) = Len(q) - i
          /\ Len(q) \in Nat /\ i \in Nat /\ i <= Len(q)
      BY <1>1, <1>2, <1>3
    <3>2. j \in Nat /\ 1 <= j /\ j <= Len(q) - i
      BY <3>1
    <3> HIDE DEF a, b
    <3>3. /\ (i - 1) + j \in 1..Len(a) + Len(b) /\ ~((i - 1) + j <= Len(a))
          /\ ((i - 1) + j) - Len(a) = j
      BY <3>1, <3>2
    <3>4. (a \o b)[(i - 1) + j] = b[j]
      BY <2>1, <3>3
    <3>5. QED
      BY <1>3, <3>4
  <2>4. QED
    BY <1>1, <1>2, <1>3, <2>1, <2>2, <2>3
<1>5. RemoveAt(q, i) = a \o b
  BY DEF RemoveAt, a, b
<1>6. ASSUME NEW d, Among(q, d), d # q[i] PROVE Among(a \o b, d)
  <2>1. PICK j \in 1..Len(q) : q[j] = d
    BY <1>6 DEF Among
  <2>2. CASE j < i
    BY <1>1, <1>4, <2>1, <2>2 DEF Among
  <2>3. CASE j > i
    <3>1. /\ j - i \in 1..(Len(q) - i) /\ i + (j - i) = j
          /\ (i - 1) + (j - i) \in 1..(Len(q) - 1)
      BY <1>1, <2>3
    <3>2. (a \o b)[(i - 1) + (j - i)] = d
      BY <1>4, <2>1, <3>1
    <3>3. QED
      BY <1>4, <3>1, <3>2 DEF Among
  <2>4. QED
    BY <1>1, <1>6, <2>1, <2>2, <2>3
<1>7. ASSUME Head(q) # q[i] PROVE a \o b # <<>> /\ Head(a \o b) = Head(q)
  <2>1. Head(q) = q[1]
    OBVIOUS
  <2>2. i > 1
    BY <1>1, <1>7, <2>1
  <2>3. (a \o b)[1] = q[1] /\ Len(a \o b) > 0
    BY <1>1, <1>4, <2>2
  <2>4. QED
    BY <1>4, <2>1, <2>3
<1>8. QED
  BY <1>4, <1>5, <1>6, <1>7

----------------------------------------------------------------------------
(* Types.                                                                  *)
LEMMA StoredType ==
    ASSUME TypeOK, NEW c \in DOMAIN calls, NEW asOf \in calls[c].now..time, NEW keys
    PROVE  LET entries == Without(Stored(calls[c], asOf), keys)
           IN  /\ DOMAIN entries \subseteq Keys
               /\ entries \in [DOMAIN entries -> Entry]
               /\ \A k \in DOMAIN entries :
                    IF k = calls[c].key
                    THEN entries[k].as_of = asOf /\ entries[k].fetched_at = calls[c].now
                    ELSE k \in DOMAIN store /\ entries[k] = store[k]
<1> DEFINE e == [as_of |-> asOf, fetched_at |-> calls[c].now]
           stored == Stored(calls[c], asOf)
           entries == Without(stored, keys)
<1>1. calls[c].key \in Keys /\ e \in Entry
  BY DEF TypeOK, CallLocals, Entry
<1>2. stored = With(store, calls[c].key, e)
  BY DEF Stored
<1>3. store \in [DOMAIN store -> Entry] /\ DOMAIN store \subseteq Keys
  BY DEF TypeOK
<1> HIDE DEF e, stored
<1>4. /\ DOMAIN stored = DOMAIN store \cup {calls[c].key}
      /\ stored \in [DOMAIN stored -> Entry]
      /\ stored[calls[c].key] = e
      /\ \A k \in DOMAIN store : k # calls[c].key => stored[k] = store[k]
  BY <1>1, <1>2, <1>3 DEF With
<1>5. /\ DOMAIN entries = DOMAIN stored \ keys
      /\ entries \in [DOMAIN entries -> Entry]
      /\ \A k \in DOMAIN entries : entries[k] = stored[k]
  BY <1>4 DEF Without
<1>6. e.as_of = asOf /\ e.fetched_at = calls[c].now
  BY DEF e
<1> HIDE DEF entries
<1>7. /\ DOMAIN entries \subseteq Keys
      /\ \A k \in DOMAIN entries :
           IF k = calls[c].key
           THEN entries[k].as_of = asOf /\ entries[k].fetched_at = calls[c].now
           ELSE k \in DOMAIN store /\ entries[k] = store[k]
  BY <1>1, <1>3, <1>4, <1>5, <1>6
<1>8. QED
  BY <1>5, <1>7 DEF entries, stored

LEMMA ReturnType ==
    ASSUME TypeOK, NEW c, Return(c)
    PROVE  /\ DOMAIN calls' = DOMAIN calls \ {c}
           /\ calls' \in [DOMAIN calls' -> CallLocals]
           /\ \A d \in DOMAIN calls' : calls'[d] = calls[d]
BY DEF TypeOK, Return, Without

LEMMA DropLocksType ==
    ASSUME TypeOK, NEW keys, DropLocks(keys)
    PROVE  /\ DOMAIN locks' = DOMAIN locks \ keys
           /\ locks' \in [DOMAIN locks' -> Locks]
           /\ \A k \in DOMAIN locks' : locks'[k] = locks[k]
           /\ dropped' \subseteq Keys
           /\ dropped \subseteq dropped'
           /\ \A k \in keys \cap DOMAIN locks : InUse(locks[k]) => k \in dropped'
BY DEF TypeOK, DropLocks, Without

(* The new state of the variables that a miss writes.                      *)
LEMMA MissState ==
    ASSUME TypeOK, NEW c \in Callers, NEW key \in Keys, Miss(c, key)
    PROVE  \E l \in Locks :
             /\ key \in DOMAIN locks => l = locks[key]
             /\ DOMAIN locks' = DOMAIN locks \cup {key}
             /\ locks' \in [DOMAIN locks' -> Locks]
             /\ locks'[key] = l
             /\ \A k \in DOMAIN locks : k # key => locks'[k] = locks[k]
             /\ queue' \in [Locks -> Seq(Callers)]
             /\ queue' = [queue EXCEPT ![l] = Append(@, c)]
             /\ DOMAIN calls' = DOMAIN calls \cup {c}
             /\ calls' \in [DOMAIN calls' -> CallLocals]
             /\ \A d \in DOMAIN calls : d # c => calls'[d] = calls[d]
             /\ calls'[c].key = key /\ calls'[c].lock = l /\ calls'[c].now <= time
             /\ calls'[c].at = IF queue[l] = <<>> THEN "fetching" ELSE "waiting"
             /\ calls'[c].at = "fetching" => calls'[c].now = time
<1>1. PICK l \in LockFor(key) :
          /\ locks' = With(locks, key, l)
          /\ queue' = [queue EXCEPT ![l] = Append(@, c)]
          /\ calls' = With(calls, c,
                          IF InUse(l)
                          THEN [at |-> "waiting", key |-> key, lock |-> l, now |-> 0]
                          ELSE [at |-> "fetching", key |-> key, lock |-> l, now |-> time])
  BY DEF Miss
<1>2. l \in Locks /\ (key \in DOMAIN locks => l = locks[key])
  BY DEF LockFor, NewLock, Garbage, TypeOK
<1> DEFINE call == IF InUse(l)
                   THEN [at |-> "waiting", key |-> key, lock |-> l, now |-> 0]
                   ELSE [at |-> "fetching", key |-> key, lock |-> l, now |-> time]
<1>3. /\ call \in CallLocals /\ call.key = key /\ call.lock = l /\ call.now <= time
      /\ call.at = IF queue[l] = <<>> THEN "fetching" ELSE "waiting"
      /\ call.at = "fetching" => call.now = time
  BY <1>2 DEF CallLocals, TypeOK, InUse
<1>4. /\ locks \in [DOMAIN locks -> Locks] /\ calls \in [DOMAIN calls -> CallLocals]
      /\ queue \in [Locks -> Seq(Callers)]
  BY DEF TypeOK
<1> HIDE DEF call
<1>5. /\ DOMAIN locks' = DOMAIN locks \cup {key}
      /\ locks' \in [DOMAIN locks' -> Locks]
      /\ locks'[key] = l
      /\ \A k \in DOMAIN locks : k # key => locks'[k] = locks[k]
  BY <1>1, <1>2, <1>4 DEF With
<1>6. calls' = With(calls, c, call)
  BY <1>1 DEF call
<1>7. /\ DOMAIN calls' = DOMAIN calls \cup {c}
      /\ calls' \in [DOMAIN calls' -> CallLocals]
      /\ calls'[c] = call
      /\ \A d \in DOMAIN calls : d # c => calls'[d] = calls[d]
  BY <1>3, <1>4, <1>6 DEF With
<1>8. queue' \in [Locks -> Seq(Callers)]
  BY <1>1, <1>4, JoinQueue
<1>9. QED
  BY <1>1, <1>2, <1>3, <1>5, <1>7, <1>8

LEMMA ReleaseType ==
    ASSUME TypeOK, NEW c \in DOMAIN calls, HasLock(c), Release(calls[c].lock)
    PROVE  queue' \in [Locks -> Seq(Callers)]
<1>1. queue[calls[c].lock] \in Seq(Callers) /\ queue[calls[c].lock] # <<>>
  BY DEF TypeOK, CallLocals, HasLock, InUse
<1>2. QED
  BY <1>1, PassOn DEF Release, TypeOK

LEMMA CancelState ==
    ASSUME TypeOK, NEW c \in Callers, Cancel(c)
    PROVE  \E i \in 1..Len(queue[calls[c].lock]) :
             /\ queue[calls[c].lock][i] = c
             /\ queue' = [queue EXCEPT ![calls[c].lock] = RemoveAt(@, i)]
             /\ queue' \in [Locks -> Seq(Callers)]
<1>1. PICK i \in 1..Len(queue[calls[c].lock]) :
          /\ queue[calls[c].lock][i] = c
          /\ queue' = [queue EXCEPT ![calls[c].lock] = RemoveAt(@, i)]
  BY DEF Cancel
<1>2. queue[calls[c].lock] \in Seq(Callers)
  BY DEF Cancel, Waiting, TypeOK, CallLocals
<1>3. RemoveAt(queue[calls[c].lock], i) \in Seq(Callers)
  BY <1>2, LeaveQueue
<1>4. QED
  BY <1>1, <1>3 DEF TypeOK

----------------------------------------------------------------------------
(* The invariant, one step at a time.                                      *)
LEMMA HolderFetches ==
    ASSUME IInv, NEW c \in DOMAIN calls, Fetching(c)
    PROVE  HasLock(c)
BY DEF IInv, CallsQueue

LEMMA OneFetcher == IInv => SingleFlight
<1> SUFFICES ASSUME IInv, NEW c \in DOMAIN calls, NEW d \in DOMAIN calls,
                    Fetching(c), Fetching(d), calls[c].key = calls[d].key,
                    calls[c].key \notin dropped
             PROVE  c = d
  BY DEF SingleFlight
<1>1. calls[c].lock = calls[d].lock
  BY DEF IInv, CallsShareLock
<1>2. QED
  BY <1>1, HolderFetches DEF HasLock

LEMMA TypeStep == IInv /\ [Next]_vars => TypeOK'
<1> SUFFICES ASSUME IInv, [Next]_vars PROVE TypeOK'
  OBVIOUS
<1>1. TypeOK
  BY DEF IInv
<1>2. ASSUME NEW c \in Callers, NEW key \in Keys, Hit(c, key) PROVE TypeOK'
  <2>1. store[key].as_of \in Nat /\ time \in Nat
    BY <1>1, <1>2 DEF Hit, IsFresh, TypeOK, Entry
  <2>2. QED
    BY <1>1, <1>2, <2>1 DEF Hit, TypeOK
<1>3. ASSUME NEW c \in Callers, NEW key \in Keys, Miss(c, key) PROVE TypeOK'
  <2>1. /\ DOMAIN locks' = DOMAIN locks \cup {key} /\ locks' \in [DOMAIN locks' -> Locks]
        /\ queue' \in [Locks -> Seq(Callers)]
        /\ DOMAIN calls' = DOMAIN calls \cup {c} /\ calls' \in [DOMAIN calls' -> CallLocals]
    BY <1>1, <1>3, MissState
  <2>2. UNCHANGED <<time, store, hitAge, dropped, invalidations>>
    BY <1>3 DEF Miss
  <2>3. QED
    BY <1>1, <2>1, <2>2 DEF TypeOK
<1>4. ASSUME NEW c \in Callers, RecheckHit(c) PROVE TypeOK'
  <2>1. c \in DOMAIN calls /\ store[calls[c].key].as_of \in Nat /\ time \in Nat
    BY <1>1, <1>4 DEF RecheckHit, Waiting, IsFresh, TypeOK, Entry
  <2>2. queue' \in [Locks -> Seq(Callers)]
    BY <1>1, <1>4, <2>1, ReleaseType DEF RecheckHit
  <2>3. DOMAIN calls' \subseteq Callers /\ calls' \in [DOMAIN calls' -> CallLocals]
    BY <1>1, <1>4, ReturnType DEF RecheckHit, TypeOK
  <2>4. QED
    BY <1>1, <1>4, <2>1, <2>2, <2>3 DEF RecheckHit, TypeOK
<1>5. ASSUME NEW c \in Callers, RecheckMiss(c) PROVE TypeOK'
  <2>1. c \in DOMAIN calls /\ calls[c] \in CallLocals /\ time \in Nat
    BY <1>1, <1>5 DEF RecheckMiss, Waiting, TypeOK
  <2>2. [calls[c] EXCEPT !.at = "fetching", !.now = time] \in CallLocals
    BY <2>1 DEF CallLocals
  <2>3. calls' = [calls EXCEPT ![c] = [calls[c] EXCEPT !.at = "fetching", !.now = time]]
    BY <1>5, <2>1 DEF RecheckMiss
  <2>4. DOMAIN calls' \subseteq Callers /\ calls' \in [DOMAIN calls' -> CallLocals]
    BY <1>1, <2>2, <2>3 DEF TypeOK
  <2>5. QED
    BY <1>1, <1>5, <2>4 DEF RecheckMiss, TypeOK
<1>6. ASSUME NEW c \in Callers, FetchDone(c) PROVE TypeOK'
  <2>1. PICK asOf \in calls[c].now..time :
            LET entries == Stored(calls[c], asOf)
                expired == Expired(entries, calls[c].now)
            IN  store' = Without(entries, expired) /\ DropLocks(expired)
    BY <1>6 DEF FetchDone
  <2>2. c \in DOMAIN calls /\ HasLock(c)
    BY <1>6, HolderFetches DEF FetchDone, Fetching
  <2>3. DOMAIN store' \subseteq Keys /\ store' \in [DOMAIN store' -> Entry]
    BY <1>1, <2>1, <2>2, StoredType
  <2>4. /\ DOMAIN locks' \subseteq Keys /\ locks' \in [DOMAIN locks' -> Locks]
        /\ dropped' \subseteq Keys
    BY <1>1, <2>1, DropLocksType DEF TypeOK
  <2>5. queue' \in [Locks -> Seq(Callers)]
    BY <1>1, <1>6, <2>2, ReleaseType DEF FetchDone
  <2>6. DOMAIN calls' \subseteq Callers /\ calls' \in [DOMAIN calls' -> CallLocals]
    BY <1>1, <1>6, ReturnType DEF FetchDone, TypeOK
  <2>7. QED
    BY <1>1, <1>6, <2>3, <2>4, <2>5, <2>6 DEF FetchDone, TypeOK
<1>7. ASSUME NEW c \in Callers, FetchFails(c) \/ Cancel(c) PROVE TypeOK'
  <2>1. queue' \in [Locks -> Seq(Callers)]
    BY <1>1, <1>7, ReleaseType, HolderFetches, CancelState DEF FetchFails, Fetching
  <2>2. DOMAIN calls' \subseteq Callers /\ calls' \in [DOMAIN calls' -> CallLocals]
    BY <1>1, <1>7, ReturnType DEF FetchFails, Cancel, TypeOK
  <2>3. QED
    BY <1>1, <1>7, <2>1, <2>2 DEF FetchFails, Cancel, TypeOK
<1>8. CASE Invalidate
  <2>1. /\ DOMAIN locks' \subseteq Keys /\ locks' \in [DOMAIN locks' -> Locks]
        /\ dropped' \subseteq Keys
    BY <1>1, <1>8, DropLocksType DEF Invalidate, TypeOK
  <2>2. DOMAIN store' \subseteq Keys /\ store' \in [DOMAIN store' -> Entry]
    BY <1>8 DEF Invalidate
  <2>3. QED
    BY <1>1, <1>8, <2>1, <2>2 DEF Invalidate, TypeOK
<1>9. CASE UNCHANGED vars \/ \E d \in Delays : Elapse(d)
  BY <1>1, <1>9, CacheAssumption DEF vars, Elapse, TypeOK
<1>10. QED
  BY <1>2, <1>3, <1>4, <1>5, <1>6, <1>7, <1>8, <1>9 DEF Next, Resume, Answer

(* A caller that leaves keeps the others in their queues, and the holders  *)
(* that fetch in place.                                                    *)
LEMMA LeaveStep ==
    ASSUME IInv, NEW c \in DOMAIN calls, Return(c),
           \/ HasLock(c) /\ Release(calls[c].lock)
           \/ c \in Callers /\ Cancel(c)
    PROVE  CallsQueue'
<1> DEFINE l == calls[c].lock
<1>1. /\ TypeOK /\ c \in Callers /\ l \in Locks /\ queue[l] \in Seq(Callers)
      /\ queue \in [Locks -> Seq(Callers)]
  BY DEF IInv, TypeOK, CallLocals
<1>2. PICK q \in Seq(Callers) :
          /\ queue' = [queue EXCEPT ![l] = q]
          /\ \A d : Among(queue[l], d) /\ d # c => Among(q, d)
          /\ queue[l] # <<>> /\ Head(queue[l]) # c => q # <<>> /\ Head(q) = Head(queue[l])
  <2>1. CASE HasLock(c) /\ Release(l)
    <3>1. queue[l] # <<>> /\ Head(queue[l]) = c
      BY <2>1 DEF HasLock, InUse
    <3>2. /\ Tail(queue[l]) \in Seq(Callers)
          /\ \A d : Among(queue[l], d) /\ d # c => Among(Tail(queue[l]), d)
      BY <1>1, <3>1, PassOn
    <3>3. QED
      BY <2>1, <3>1, <3>2 DEF Release
  <2>2. CASE c \in Callers /\ Cancel(c)
    <3>1. PICK i \in 1..Len(queue[l]) :
              queue[l][i] = c /\ queue' = [queue EXCEPT ![l] = RemoveAt(@, i)]
      BY <1>1, <2>2, CancelState
    <3>2. /\ RemoveAt(queue[l], i) \in Seq(Callers)
          /\ \A d : Among(queue[l], d) /\ d # c => Among(RemoveAt(queue[l], i), d)
          /\ Head(queue[l]) # c =>
               RemoveAt(queue[l], i) # <<>> /\ Head(RemoveAt(queue[l], i)) = Head(queue[l])
      BY <1>1, <3>1, LeaveQueue
    <3>3. QED
      BY <3>1, <3>2
  <2>3. QED
    BY <2>1, <2>2
<1>3. DOMAIN calls' = DOMAIN calls \ {c} /\ \A d \in DOMAIN calls' : calls'[d] = calls[d]
  BY <1>1, ReturnType
<1>4. SUFFICES ASSUME NEW d \in DOMAIN calls'
               PROVE  InQueue(d, calls[d].lock)' /\ (Fetching(d)' => HasLock(d)')
  BY DEF CallsQueue
<1>5. /\ d \in DOMAIN calls /\ d # c /\ calls'[d] = calls[d] /\ calls[d].lock \in Locks
      /\ Among(queue[calls[d].lock], d)
      /\ Fetching(d) => queue[calls[d].lock] # <<>> /\ Head(queue[calls[d].lock]) = d
  BY <1>1, <1>3 DEF IInv, CallsQueue, InQueue, Among, HasLock, InUse, TypeOK, CallLocals
<1>6. /\ Among(queue'[calls[d].lock], d)
      /\ Fetching(d) => queue'[calls[d].lock] # <<>> /\ Head(queue'[calls[d].lock]) = d
  <2>1. CASE calls[d].lock = l
    BY <1>1, <1>2, <1>5, <2>1
  <2>2. CASE calls[d].lock # l
    BY <1>1, <1>2, <1>5, <2>2
  <2>3. QED
    BY <2>1, <2>2
<1>7. QED
  BY <1>5, <1>6 DEF InQueue, Among, Fetching, HasLock, InUse

(* Locks are only dropped on record.                                       *)
LEMMA DropStep ==
    ASSUME IInv, NEW keys, DropLocks(keys), DOMAIN calls' \subseteq DOMAIN calls,
           \A d \in DOMAIN calls' : calls'[d] = calls[d]
    PROVE  CallsShareLock'
<1>1. SUFFICES ASSUME NEW d \in DOMAIN calls', calls[d].key \notin dropped'
               PROVE  calls[d].key \in DOMAIN locks' /\ locks'[calls[d].key] = calls[d].lock
  BY DEF CallsShareLock
<1>2. /\ TypeOK /\ d \in DOMAIN calls
      /\ queue[calls[d].lock] \in Seq(Callers)
  BY DEF IInv, TypeOK, CallLocals
<1>3. /\ DOMAIN locks' = DOMAIN locks \ keys
      /\ \A k \in DOMAIN locks' : locks'[k] = locks[k]
      /\ dropped \subseteq dropped'
      /\ \A k \in keys \cap DOMAIN locks : InUse(locks[k]) => k \in dropped'
  BY <1>2, DropLocksType
<1>4. calls[d].key \in DOMAIN locks /\ locks[calls[d].key] = calls[d].lock
  BY <1>1, <1>2, <1>3 DEF IInv, CallsShareLock
<1>5. InUse(calls[d].lock)
  <2>1. PICK i \in 1..Len(queue[calls[d].lock]) : queue[calls[d].lock][i] = d
    BY <1>2 DEF IInv, CallsQueue, InQueue
  <2>2. Len(queue[calls[d].lock]) # 0
    BY <1>2, <2>1
  <2>3. QED
    BY <1>2, <2>2, EmptySeq DEF InUse
<1>6. QED
  BY <1>1, <1>3, <1>4, <1>5

Rest == CallsQueue /\ CallsShareLock /\ StampsInOrder /\ FetchIsNewest /\ NoStaleHit

LEMMA MissStep ==
    ASSUME IInv, NEW c \in Callers, NEW key \in Keys, Miss(c, key)
    PROVE  Rest'
<1>1. TypeOK /\ UNCHANGED <<time, store, hitAge, dropped>> /\ c \notin DOMAIN calls
  BY DEF IInv, Miss
<1>2. PICK l \in Locks :
          /\ key \in DOMAIN locks => l = locks[key]
          /\ DOMAIN locks' = DOMAIN locks \cup {key}
          /\ locks' \in [DOMAIN locks' -> Locks]
          /\ locks'[key] = l
          /\ \A k \in DOMAIN locks : k # key => locks'[k] = locks[k]
          /\ queue' \in [Locks -> Seq(Callers)]
          /\ queue' = [queue EXCEPT ![l] = Append(@, c)]
          /\ DOMAIN calls' = DOMAIN calls \cup {c}
          /\ calls' \in [DOMAIN calls' -> CallLocals]
          /\ \A d \in DOMAIN calls : d # c => calls'[d] = calls[d]
          /\ calls'[c].key = key /\ calls'[c].lock = l /\ calls'[c].now <= time
          /\ calls'[c].at = IF queue[l] = <<>> THEN "fetching" ELSE "waiting"
          /\ calls'[c].at = "fetching" => calls'[c].now = time
  BY <1>1, MissState
<1>3. ASSUME NEW d \in DOMAIN calls
      PROVE  /\ d # c /\ calls'[d] = calls[d] /\ calls[d].lock \in Locks
             /\ Among(queue[calls[d].lock], d)
             /\ Fetching(d) => queue[calls[d].lock] # <<>> /\ Head(queue[calls[d].lock]) = d
  BY <1>1, <1>2 DEF IInv, CallsQueue, InQueue, Among, HasLock, InUse, TypeOK, CallLocals
<1>4. /\ queue \in [Locks -> Seq(Callers)]
      /\ Append(queue[l], c) # <<>> /\ Among(Append(queue[l], c), c)
      /\ \A d : Among(queue[l], d) => Among(Append(queue[l], c), d)
      /\ Head(Append(queue[l], c)) = IF queue[l] = <<>> THEN c ELSE Head(queue[l])
  BY <1>1, JoinQueue DEF TypeOK
<1>5. CallsQueue'
  <2>1. ASSUME NEW d \in DOMAIN calls
        PROVE  /\ Among(queue'[calls[d].lock], d)
               /\ Fetching(d) => queue'[calls[d].lock] # <<>> /\ Head(queue'[calls[d].lock]) = d
    <3>1. CASE calls[d].lock = l
      BY <1>2, <1>3, <1>4, <3>1
    <3>2. CASE calls[d].lock # l
      BY <1>2, <1>3, <1>4, <3>2
    <3>3. QED
      BY <3>1, <3>2
  <2>2. /\ Among(queue'[l], c) /\ queue'[l] # <<>>
        /\ calls'[c].at = "fetching" => Head(queue'[l]) = c
    BY <1>2, <1>4
  <2>3. QED
    BY <1>2, <1>3, <2>1, <2>2 DEF CallsQueue, InQueue, Among, Fetching, HasLock, InUse
<1>6. CallsShareLock'
  BY <1>1, <1>2, <1>3 DEF IInv, CallsShareLock
<1>7. StampsInOrder' /\ NoStaleHit'
  BY <1>1, <1>2, <1>3 DEF IInv, StampsInOrder, NoStaleHit
<1>8. FetchIsNewest'
  <2>1. ASSUME key \in DOMAIN store PROVE store[key].fetched_at <= time
    BY <1>1, <2>1 DEF IInv, StampsInOrder, TypeOK, Entry
  <2>2. QED
    BY <1>1, <1>2, <1>3, <2>1 DEF IInv, FetchIsNewest, Fetching
<1>9. QED
  BY <1>5, <1>6, <1>7, <1>8 DEF Rest

(* An entry that is fresh by its stamp is as young by its value.           *)
LEMMA FreshAge ==
    ASSUME IInv, NEW key, IsFresh(key, time)
    PROVE  time - store[key].as_of < Ttl
<1>1. /\ store[key].fetched_at \in Nat /\ store[key].as_of \in Nat /\ time \in Nat
      /\ store[key].fetched_at <= store[key].as_of
  BY DEF IInv, TypeOK, Entry, StampsInOrder, IsFresh
<1>2. QED
  BY <1>1, CacheAssumption DEF IsFresh

LEMMA RecheckHitStep ==
    ASSUME IInv, NEW c \in Callers, RecheckHit(c)
    PROVE  Rest'
<1>1. /\ c \in DOMAIN calls /\ TypeOK /\ Return(c) /\ HasLock(c)
      /\ UNCHANGED <<time, store, locks, dropped>>
  BY DEF RecheckHit, Waiting, IInv
<1>2. /\ DOMAIN calls' = DOMAIN calls \ {c}
      /\ \A d \in DOMAIN calls' : calls'[d] = calls[d]
  BY <1>1, ReturnType
<1>3. CallsQueue'
  BY <1>1, LeaveStep DEF RecheckHit
<1>4. CallsShareLock' /\ StampsInOrder' /\ FetchIsNewest'
  BY <1>1, <1>2 DEF IInv, CallsShareLock, StampsInOrder, FetchIsNewest, Fetching
<1>5. NoStaleHit'
  BY FreshAge DEF RecheckHit, NoStaleHit
<1>6. QED
  BY <1>3, <1>4, <1>5 DEF Rest

LEMMA RecheckMissStep ==
    ASSUME IInv, NEW c \in Callers, RecheckMiss(c)
    PROVE  Rest'
<1>1. /\ c \in DOMAIN calls /\ TypeOK /\ HasLock(c) /\ calls[c] \in CallLocals
      /\ UNCHANGED <<time, store, locks, queue, hitAge, dropped>>
  BY DEF RecheckMiss, Waiting, IInv, TypeOK
<1>2. calls' = [calls EXCEPT ![c] = [calls[c] EXCEPT !.at = "fetching", !.now = time]]
  BY <1>1 DEF RecheckMiss
<1>3. /\ DOMAIN calls' = DOMAIN calls
      /\ \A d \in DOMAIN calls : d # c => calls'[d] = calls[d]
      /\ calls'[c].key = calls[c].key /\ calls'[c].lock = calls[c].lock
      /\ calls'[c].now = time
  BY <1>1, <1>2 DEF CallLocals, TypeOK
<1>4. CallsQueue'
  BY <1>1, <1>3 DEF IInv, CallsQueue, InQueue, Fetching, HasLock, InUse
<1>5. CallsShareLock'
  BY <1>1, <1>3 DEF IInv, CallsShareLock
<1>6. StampsInOrder' /\ NoStaleHit'
  BY <1>1, <1>3 DEF IInv, StampsInOrder, NoStaleHit, TypeOK
<1>7. FetchIsNewest'
  <2>1. ASSUME NEW k \in DOMAIN store PROVE store[k].fetched_at <= time
    BY <1>1, <2>1 DEF IInv, StampsInOrder, TypeOK, Entry
  <2>2. QED
    BY <1>1, <1>3, <2>1 DEF IInv, FetchIsNewest, Fetching
<1>8. QED
  BY <1>4, <1>5, <1>6, <1>7 DEF Rest

LEMMA FetchDoneStep ==
    ASSUME IInv, NEW c \in Callers, FetchDone(c)
    PROVE  Rest'
<1>1. /\ c \in DOMAIN calls /\ TypeOK /\ Fetching(c) /\ Return(c) /\ HasLock(c)
      /\ UNCHANGED <<time, hitAge>> /\ Release(calls[c].lock)
  BY HolderFetches DEF FetchDone, Fetching, IInv
<1>2. PICK asOf \in calls[c].now..time :
          LET entries == Stored(calls[c], asOf)
              expired == Expired(entries, calls[c].now)
          IN  store' = Without(entries, expired) /\ DropLocks(expired)
  BY DEF FetchDone
<1>3. \A k \in DOMAIN store' :
          IF k = calls[c].key
          THEN store'[k].as_of = asOf /\ store'[k].fetched_at = calls[c].now
          ELSE k \in DOMAIN store /\ store'[k] = store[k]
  BY <1>1, <1>2, StoredType
<1>4. /\ DOMAIN calls' = DOMAIN calls \ {c}
      /\ \A d \in DOMAIN calls' : calls'[d] = calls[d]
  BY <1>1, ReturnType
<1>5. CallsQueue'
  BY <1>1, LeaveStep
<1>6. CallsShareLock' /\ dropped \subseteq dropped'
  BY <1>1, <1>2, <1>4, DropStep, DropLocksType
<1>7. StampsInOrder' /\ NoStaleHit'
  <2>1. calls[c].now \in Nat /\ time \in Nat /\ calls[c].now <= asOf /\ asOf <= time
    BY <1>1 DEF TypeOK, CallLocals
  <2>2. QED
    BY <1>1, <1>3, <1>4, <2>1 DEF IInv, StampsInOrder, NoStaleHit
<1>8. FetchIsNewest'
  <2>1. SUFFICES ASSUME NEW d \in DOMAIN calls', Fetching(d)', calls[d].key \notin dropped',
                        calls[d].key \in DOMAIN store'
                 PROVE  store'[calls[d].key].fetched_at <= calls[d].now
    BY <1>4 DEF FetchIsNewest
  <2>2. d \in DOMAIN calls /\ d # c /\ Fetching(d) /\ calls[d].key \notin dropped
    BY <1>4, <1>6, <2>1 DEF Fetching
  <2>3. calls[d].key # calls[c].key
    BY <1>1, <2>2, OneFetcher DEF SingleFlight
  <2>4. QED
    BY <1>3, <2>1, <2>2, <2>3 DEF IInv, FetchIsNewest
<1>9. QED
  BY <1>5, <1>6, <1>7, <1>8 DEF Rest

LEMMA GiveUpStep ==
    ASSUME IInv, NEW c \in Callers, FetchFails(c) \/ Cancel(c)
    PROVE  Rest'
<1>1. /\ c \in DOMAIN calls /\ TypeOK /\ Return(c)
      /\ UNCHANGED <<time, store, locks, hitAge, dropped>>
  BY DEF FetchFails, Cancel, Fetching, Waiting, IInv
<1>2. /\ DOMAIN calls' = DOMAIN calls \ {c}
      /\ \A d \in DOMAIN calls' : calls'[d] = calls[d]
  BY <1>1, ReturnType
<1>3. CallsQueue'
  BY <1>1, LeaveStep, HolderFetches DEF FetchFails
<1>4. CallsShareLock' /\ StampsInOrder' /\ FetchIsNewest' /\ NoStaleHit'
  BY <1>1, <1>2 DEF IInv, CallsShareLock, StampsInOrder, FetchIsNewest, Fetching, NoStaleHit
<1>5. QED
  BY <1>3, <1>4 DEF Rest

LEMMA OtherSteps ==
    ASSUME IInv,
           \/ \E c \in Callers, key \in Keys : Hit(c, key)
           \/ Invalidate
           \/ \E d \in Delays : Elapse(d)
           \/ UNCHANGED vars
    PROVE  Rest'
<1>1. TypeOK /\ UNCHANGED <<queue, calls>> /\ CallsQueue'
  BY DEF IInv, Hit, Invalidate, Elapse, vars, CallsQueue, InQueue, Fetching, HasLock, InUse
<1>2. CASE \E c \in Callers, key \in Keys : Hit(c, key)
  BY <1>1, <1>2, FreshAge DEF IInv, Rest, Hit, CallsShareLock, StampsInOrder, FetchIsNewest,
     Fetching, NoStaleHit
<1>3. CASE Invalidate
  <2>1. CallsShareLock'
    BY <1>1, <1>3, DropStep DEF Invalidate
  <2>2. StampsInOrder' /\ FetchIsNewest' /\ NoStaleHit'
    BY <1>1, <1>3 DEF IInv, Invalidate, StampsInOrder, FetchIsNewest, NoStaleHit
  <2>3. QED
    BY <1>1, <2>1, <2>2 DEF Rest
<1>4. CASE \E d \in Delays : Elapse(d)
  <2>1. time \in Nat /\ time' \in Nat /\ time' >= time
    BY <1>1, <1>4, CacheAssumption DEF Elapse, TypeOK
  <2>2. UNCHANGED <<store, locks, hitAge, dropped>>
    BY <1>4 DEF Elapse
  <2>3. StampsInOrder'
    BY <1>1, <2>1, <2>2 DEF IInv, StampsInOrder, TypeOK, Entry, CallLocals
  <2>4. CallsShareLock' /\ FetchIsNewest' /\ NoStaleHit'
    BY <1>1, <2>2 DEF IInv, CallsShareLock, FetchIsNewest, Fetching, NoStaleHit
  <2>5. QED
    BY <1>1, <2>3, <2>4 DEF Rest
<1>5. CASE UNCHANGED vars
  BY <1>1, <1>5 DEF vars, IInv, Rest, CallsShareLock, StampsInOrder, FetchIsNewest, Fetching,
     NoStaleHit
<1>6. QED
  BY <1>2, <1>3, <1>4, <1>5

LEMMA InvStep == IInv /\ [Next]_vars => IInv'
<1> SUFFICES ASSUME IInv, [Next]_vars PROVE IInv'
  OBVIOUS
<1>1. TypeOK'
  BY TypeStep
<1>2. Rest'
  BY MissStep, RecheckHitStep, RecheckMissStep, FetchDoneStep, GiveUpStep, OtherSteps
     DEF Next, Resume, Answer
<1>3. QED
  BY <1>1, <1>2 DEF IInv, Rest

LEMMA InvInit == Init => IInv
<1> SUFFICES ASSUME Init PROVE IInv
  OBVIOUS
<1>1. DOMAIN store = {} /\ DOMAIN locks = {} /\ DOMAIN calls = {}
  BY DEF Init
<1>2. /\ store \in [DOMAIN store -> Entry] /\ locks \in [DOMAIN locks -> Locks]
      /\ calls \in [DOMAIN calls -> CallLocals]
  BY <1>1 DEF Init
<1>3. queue \in [Locks -> Seq(Callers)]
  BY EmptySeq DEF Init
<1>4. TypeOK
  BY <1>1, <1>2, <1>3 DEF Init, TypeOK
<1>5. CallsQueue /\ CallsShareLock /\ StampsInOrder /\ FetchIsNewest /\ NoStaleHit
  BY <1>1 DEF Init, CallsQueue, CallsShareLock, StampsInOrder, FetchIsNewest, NoStaleHit
<1>6. QED
  BY <1>4, <1>5 DEF IInv

(* IInv holds of every behaviour of the cache (get_or_fetch, _gc,          *)
(* invalidate), with cancelled calls and failed fetches.                   *)
THEOREM InvCorrect == Spec => []IInv
BY InvInit, InvStep, PTL DEF Spec

(* The tables, queues and calls keep their types (StatusCache).            *)
THEOREM TypeCorrect == Spec => []TypeOK
<1>1. IInv => TypeOK
  BY DEF IInv
<1>2. QED
  BY <1>1, InvCorrect, PTL

(* Two callers are in one key's fetch at once only after the key's lock    *)
(* was dropped in use: the only two ways into a second upstream call are   *)
(* _gc and invalidate (get_or_fetch, per-key lock).                        *)
THEOREM SingleFlightCorrect == Spec => []SingleFlight
BY OneFetcher, InvCorrect, PTL

(* An answer from the cache was current at the upstream less than a TTL    *)
(* ago, whatever happened to locks and entries (get_or_fetch).             *)
THEOREM NoStaleHitCorrect == Spec => []NoStaleHit
<1>1. IInv => NoStaleHit
  BY DEF IInv
<1>2. QED
  BY <1>1, InvCorrect, PTL

(* A late answer never replaces a newer entry of a key whose lock was not  *)
(* dropped in use (get_or_fetch stores under the lock).                    *)
THEOREM NoOlderEntryCorrect == Spec => NoOlderEntry
<1>1. IInv /\ [Next]_vars => [EntriesAdvance]_vars
  <2> SUFFICES ASSUME IInv, [Next]_vars,
                      NEW k \in DOMAIN store, k \in DOMAIN store', k \notin dropped
               PROVE  store'[k].fetched_at >= store[k].fetched_at
    BY DEF EntriesAdvance
  <2>1. store[k].fetched_at \in Nat
    BY DEF IInv, TypeOK, Entry
  <2>2. CASE UNCHANGED store
    BY <2>1, <2>2
  <2>3. ASSUME NEW c \in Callers, FetchDone(c)
        PROVE  store'[k].fetched_at >= store[k].fetched_at
    <3>1. c \in DOMAIN calls /\ TypeOK /\ Fetching(c)
      BY <2>3 DEF FetchDone, Fetching, IInv
    <3>2. PICK asOf \in calls[c].now..time :
              LET entries == Stored(calls[c], asOf)
                  expired == Expired(entries, calls[c].now)
              IN  store' = Without(entries, expired) /\ DropLocks(expired)
      BY <2>3 DEF FetchDone
    <3>3. IF k = calls[c].key THEN store'[k].fetched_at = calls[c].now
          ELSE store'[k] = store[k]
      BY <3>1, <3>2, StoredType
    <3>4. k = calls[c].key => store[k].fetched_at <= calls[c].now
      BY <3>1 DEF IInv, FetchIsNewest
    <3>5. calls[c].now \in Nat
      BY <3>1 DEF TypeOK, CallLocals
    <3>6. QED
      BY <2>1, <3>3, <3>4, <3>5
  <2>4. CASE Invalidate
    BY <2>4 DEF Invalidate
  <2>5. QED
    BY <2>2, <2>3, <2>4 DEF Next, Hit, Miss, Resume, RecheckHit, RecheckMiss, Answer,
       FetchFails, Cancel, Elapse, vars
<1>2. QED
  BY <1>1, InvCorrect, PTL DEF Spec, NoOlderEntry

(* No fetch starts for a key whose entry is fresh: a caller that waited    *)
(* while another fetched takes that answer (get_or_fetch, second look).    *)
THEOREM NoRedundantFetchCorrect == Spec => NoRedundantFetch
<1>1. IInv /\ [Next]_vars => [StartsStale]_vars
  <2> SUFFICES ASSUME IInv, [Next]_vars, NEW c \in Callers, Fetching(c)', ~Fetching(c)
               PROVE  ~IsFresh(calls'[c].key, time)
    BY DEF StartsStale
  <2>1. TypeOK
    BY DEF IInv
  <2>2. ~UNCHANGED calls
    BY DEF Fetching
  <2>3. ASSUME NEW d \in Callers, Return(d) PROVE FALSE
    BY <2>1, <2>3, ReturnType DEF Fetching
  <2>4. ASSUME NEW d \in Callers, NEW key \in Keys, Miss(d, key)
        PROVE  ~IsFresh(calls'[c].key, time)
    <3>1. /\ DOMAIN calls' = DOMAIN calls \cup {d} /\ calls'[d].key = key
          /\ \A q \in DOMAIN calls : q # d => calls'[q] = calls[q]
      BY <2>1, <2>4, MissState
    <3>2. c = d
      BY <3>1 DEF Fetching
    <3>3. QED
      BY <2>4, <3>1, <3>2 DEF Miss
  <2>5. ASSUME NEW d \in Callers, RecheckMiss(d)
        PROVE  ~IsFresh(calls'[c].key, time)
    <3>1. d \in DOMAIN calls /\ calls[d] \in CallLocals
      BY <2>1, <2>5 DEF RecheckMiss, Waiting, TypeOK
    <3>2. calls' = [calls EXCEPT ![d] = [calls[d] EXCEPT !.at = "fetching", !.now = time]]
      BY <2>5, <3>1 DEF RecheckMiss
    <3>3. c = d
      BY <3>2 DEF Fetching
    <3>4. calls'[c].key = calls[c].key
      BY <3>1, <3>2, <3>3 DEF CallLocals
    <3>5. QED
      BY <2>5, <3>3, <3>4 DEF RecheckMiss
  <2>6. QED
    BY <2>2, <2>3, <2>4, <2>5 DEF Next, Hit, Resume, RecheckHit, Answer, FetchDone,
       FetchFails, Cancel, Invalidate, Elapse, vars
<1>2. QED
  BY <1>1, InvCorrect, PTL DEF Spec, NoRedundantFetch
============================================================================
