-------------------------- MODULE StatusCacheInv ---------------------------
(***************************************************************************)
(* The inductive invariant behind StatusCache: who is in the queue of      *)
(* which lock, which lock the table names, and which of the times kept in  *)
(* an entry and in a call comes first.                                     *)
(***************************************************************************)
EXTENDS StatusCache

InQueue(c, lock) == \E i \in 1..Len(queue[lock]) : queue[lock][i] = c

(* A call under way stands in its lock's queue; at the head if it fetches. *)
CallsQueue ==
    \A c \in DOMAIN calls :
        /\ InQueue(c, calls[c].lock)
        /\ Fetching(c) => HasLock(c)

(* It is the lock the table has for its key, unless that was dropped.      *)
CallsShareLock ==
    \A c \in DOMAIN calls :
        calls[c].key \notin dropped =>
            calls[c].key \in DOMAIN locks /\ locks[calls[c].key] = calls[c].lock

(* An entry's stamp is not later than its value, and neither is ahead of   *)
(* the time.                                                               *)
StampsInOrder ==
    /\ \A k \in DOMAIN store :
           store[k].fetched_at <= store[k].as_of /\ store[k].as_of <= time
    /\ \A c \in DOMAIN calls : calls[c].now <= time

(* What is in the cache is not newer than what is on its way.              *)
FetchIsNewest ==
    \A c \in DOMAIN calls :
        Fetching(c) /\ calls[c].key \notin dropped /\ calls[c].key \in DOMAIN store =>
            store[calls[c].key].fetched_at <= calls[c].now

(* The inductive invariant: the named parts above together.                *)
IInv ==
    /\ TypeOK
    /\ CallsQueue
    /\ CallsShareLock
    /\ StampsInOrder
    /\ FetchIsNewest
    /\ NoStaleHit
============================================================================
