---------------------------- MODULE StatusCache ----------------------------
(***************************************************************************)
(* The short-lived cache of live charger status, src/ev_mcp/cache.py:      *)
(* StatusCache.get_or_fetch as run by concurrent MCP requests (callers) in *)
(* one asyncio event loop.  A caller runs without interruption up to an    *)
(* `await`: on the key's lock ("waiting") or on the upstream ("fetching"). *)
(* Both may be abandoned: an upstream error, or a request cancelled by its *)
(* client, is an exception out of the await.                               *)
(*                                                                         *)
(* A lock is an object of its own: the table `_locks` names it, and it     *)
(* lives on in the callers that wait for it after the table drops it.  An  *)
(* asyncio.Lock is fair, so it is the queue of its callers, the first of   *)
(* which holds it.                                                         *)
(*                                                                         *)
(* A cached value is the time at which the upstream gave it (`as_of`).     *)
(*                                                                         *)
(* Definitions named X_slip... are X with a slip a maintainer could make;  *)
(* Spec does not use them.  Each shows that some property can fail.        *)
(***************************************************************************)
EXTENDS Integers, Sequences, SequencesExt

CONSTANTS
    Callers,             \* concurrent requests
    Keys,                \* cache keys: the query a request asks
    Locks,               \* lock objects, reused once garbage
    Ttl,                 \* ttl_s
    Delays,              \* the steps in which time passes
    MaxTime,             \* bound: the time
    MaxInvalidations     \* bound: calls of invalidate()

ASSUME CacheAssumption ==
    /\ Ttl \in Nat
    /\ Delays \subseteq Nat
    /\ MaxTime \in Nat
    /\ MaxInvalidations \in Nat

VARIABLES
    time,                \* time.monotonic()
    store,               \* _store: key -> entry
    locks,               \* _locks: key -> lock object
    queue,               \* the callers of each lock object, its holder first
    calls,               \* the calls under way: caller -> locals
    hitAge,              \* history: age of the last answer given from the cache
    dropped,             \* history: keys whose lock left `_locks` in use
    invalidations        \* how many there have been

vars == <<time, store, locks, queue, calls, hitAge, dropped, invalidations>>

(* dict updates                                                            *)
With(f, x, v) == [y \in DOMAIN f \cup {x} |-> IF y = x THEN v ELSE f[y]]
Without(f, S) == [y \in DOMAIN f \ S |-> f[y]]

IsFresh(key, now) == key \in DOMAIN store /\ now - store[key].fetched_at < Ttl

InUse(lock) == queue[lock] # <<>>

(* asyncio.Lock(): a new object is one that nothing refers to.             *)
Garbage == {l \in Locks : ~InUse(l) /\ \A k \in DOMAIN locks : locks[k] # l}
NewLock == {l \in Garbage : l = CHOOSE m \in Garbage : TRUE}

LockFor_slipAlwaysNew(key) == NewLock
LockFor(key) == IF key \in DOMAIN locks THEN {locks[key]} ELSE NewLock

Waiting(c) == c \in DOMAIN calls /\ calls[c].at = "waiting"
Fetching(c) == c \in DOMAIN calls /\ calls[c].at = "fetching"
HasLock(c) == InUse(calls[c].lock) /\ Head(queue[calls[c].lock]) = c

Release(lock) == queue' = [queue EXCEPT ![lock] = Tail(@)]
Return(c) == calls' = Without(calls, {c})

----------------------------------------------------------------------------
Init ==
    /\ time = 0
    /\ store = <<>>
    /\ locks = <<>>
    /\ queue = [l \in Locks |-> <<>>]
    /\ calls = <<>>
    /\ hitAge = 0
    /\ dropped = {}
    /\ invalidations = 0

(* get_or_fetch answers from the cache without waiting.                    *)
Hit(c, key) ==
    /\ c \notin DOMAIN calls
    /\ IsFresh(key, time)
    /\ hitAge' = time - store[key].as_of
    /\ UNCHANGED <<time, store, locks, queue, calls, dropped, invalidations>>

(* It misses, and queues on the key's lock.  If that is free the second    *)
(* look at the cache comes at the same instant, misses too, and the fetch  *)
(* starts; else `now` is taken again once the lock is had.                 *)
Miss(c, key) ==
    /\ c \notin DOMAIN calls
    /\ ~IsFresh(key, time)
    /\ \E l \in LockFor(key) :
         /\ locks' = With(locks, key, l)
         /\ queue' = [queue EXCEPT ![l] = Append(@, c)]
         /\ calls' = With(calls, c,
                          IF InUse(l)
                          THEN [at |-> "waiting", key |-> key, lock |-> l, now |-> 0]
                          ELSE [at |-> "fetching", key |-> key, lock |-> l, now |-> time])
    /\ UNCHANGED <<time, store, hitAge, dropped, invalidations>>

(* The lock is the caller's: the second look.                              *)
RecheckHit(c) ==
    /\ Waiting(c) /\ HasLock(c)
    /\ IsFresh(calls[c].key, time)
    /\ hitAge' = time - store[calls[c].key].as_of
    /\ Release(calls[c].lock)
    /\ Return(c)
    /\ UNCHANGED <<time, store, locks, dropped, invalidations>>

RecheckMiss_slipNoSecondLook(c) ==
    /\ Waiting(c) /\ HasLock(c)
    /\ calls' = [calls EXCEPT ![c].at = "fetching", ![c].now = time]
    /\ UNCHANGED <<time, store, locks, queue, hitAge, dropped, invalidations>>

RecheckMiss(c) ==
    /\ Waiting(c) /\ HasLock(c)
    /\ ~IsFresh(calls[c].key, time)
    /\ calls' = [calls EXCEPT ![c].at = "fetching", ![c].now = time]
    /\ UNCHANGED <<time, store, locks, queue, hitAge, dropped, invalidations>>

(* _gc: entries older than ten times the TTL go, and so do the locks of    *)
(* their keys, free or not.                                                *)
Expired(entries, now) == {k \in DOMAIN entries : now - entries[k].fetched_at > 10 * Ttl}
DropLocks(keys) ==
    /\ locks' = Without(locks, keys)
    /\ dropped' = dropped \cup {k \in keys \cap DOMAIN locks : InUse(locks[k])}

Stored_slipStampAfter(call, asOf) ==
    With(store, call.key, [as_of |-> asOf, fetched_at |-> time])

Stored_slipBackdated(call, asOf) ==
    With(store, call.key, [as_of |-> asOf, fetched_at |-> call.now - Ttl])

(* The entry is stamped with the time taken before the fetch.              *)
Stored(call, asOf) ==
    With(store, call.key, [as_of |-> asOf, fetched_at |-> call.now])

(* The upstream answered, with the status as of some moment in between.    *)
FetchDone(c) ==
    /\ Fetching(c)
    /\ \E asOf \in calls[c].now..time :
         LET entries == Stored(calls[c], asOf)
             expired == Expired(entries, calls[c].now)
         IN  /\ store' = Without(entries, expired)
             /\ DropLocks(expired)
    /\ Release(calls[c].lock)
    /\ Return(c)
    /\ UNCHANGED <<time, hitAge, invalidations>>

FetchFails_slipKeepsLock(c) ==
    /\ Fetching(c)
    /\ Return(c)
    /\ UNCHANGED <<time, store, locks, queue, hitAge, dropped, invalidations>>

(* The fetch raised, or the request was cancelled: nothing is stored.      *)
FetchFails(c) ==
    /\ Fetching(c)
    /\ Release(calls[c].lock)
    /\ Return(c)
    /\ UNCHANGED <<time, store, locks, hitAge, dropped, invalidations>>

(* A request cancelled while it waits leaves the queue.                    *)
Cancel(c) ==
    /\ Waiting(c)
    /\ LET l == calls[c].lock
       IN  \E i \in 1..Len(queue[l]) :
             /\ queue[l][i] = c
             /\ queue' = [queue EXCEPT ![l] = RemoveAt(@, i)]
    /\ Return(c)
    /\ UNCHANGED <<time, store, locks, hitAge, dropped, invalidations>>

Invalidate ==
    /\ invalidations < MaxInvalidations
    /\ invalidations' = invalidations + 1
    /\ store' = <<>>
    /\ DropLocks(DOMAIN locks)
    /\ UNCHANGED <<time, queue, calls, hitAge>>

Elapse(d) ==
    /\ time + d <= MaxTime
    /\ time' = time + d
    /\ UNCHANGED <<store, locks, queue, calls, hitAge, dropped, invalidations>>

Resume(c) == RecheckHit(c) \/ RecheckMiss(c)
Answer(c) == FetchDone(c) \/ FetchFails(c)

Next ==
    \/ \E c \in Callers :
         \/ \E key \in Keys : Hit(c, key) \/ Miss(c, key)
         \/ Resume(c) \/ Answer(c) \/ Cancel(c)
    \/ Invalidate
    \/ \E d \in Delays : Elapse(d)

Spec == Init /\ [][Next]_vars

(* The event loop runs every caller that can run, and a fetch ends: the    *)
(* HTTP client has a timeout.                                              *)
FairSpec == Spec /\ \A c \in Callers : WF_vars(Resume(c)) /\ WF_vars(Answer(c))

----------------------------------------------------------------------------
Entry == [as_of : Nat, fetched_at : Nat]
CallLocals == [at : {"waiting", "fetching"}, key : Keys, lock : Locks, now : Nat]

(* The tables, the queues and the calls are well formed.                   *)
TypeOK ==
    /\ time \in Nat
    /\ DOMAIN store \subseteq Keys /\ store \in [DOMAIN store -> Entry]
    /\ DOMAIN locks \subseteq Keys /\ locks \in [DOMAIN locks -> Locks]
    /\ queue \in [Locks -> Seq(Callers)]
    /\ DOMAIN calls \subseteq Callers /\ calls \in [DOMAIN calls -> CallLocals]
    /\ hitAge \in Int
    /\ dropped \subseteq Keys
    /\ invalidations \in Nat

(* "A 60-second cache ... without serving stale data": an answer from the  *)
(* cache was current at the upstream less than a TTL before the caller got *)
(* it, however long the fetch that brought it took.                        *)
NoStaleHit == hitAge # 0 => hitAge < Ttl

(* Two callers fetch the same key at once only if _gc or invalidate has    *)
(* dropped the key's lock while it was in use.                             *)
SingleFlight ==
    \A c, d \in DOMAIN calls :
        Fetching(c) /\ Fetching(d) /\ calls[c].key = calls[d].key =>
            c = d \/ calls[c].key \in dropped

(* A caller that waited while another fetched takes that answer: no fetch  *)
(* starts for a key whose entry is fresh.                                  *)
StartsStale ==
    \A c \in Callers :
        Fetching(c)' /\ ~Fetching(c) => ~IsFresh(calls'[c].key, time)
NoRedundantFetch == [][StartsStale]_vars

(* A slow answer does not overwrite a later one, unless the key's lock was *)
(* dropped in use.                                                         *)
EntriesAdvance ==
    \A k \in DOMAIN store :
        k \in DOMAIN store' /\ k \notin dropped =>
            store'[k].fetched_at >= store[k].fetched_at
NoOlderEntry == [][EntriesAdvance]_vars

(* No call is left behind: a caller that waits or fetches gets an answer   *)
(* or an error, also when its lock has been dropped from the table.        *)
EveryCallReturns == \A c \in Callers : (c \in DOMAIN calls) ~> (c \notin DOMAIN calls)
============================================================================
