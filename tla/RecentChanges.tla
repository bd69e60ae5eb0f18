--------------------------- MODULE RecentChanges ---------------------------
(***************************************************************************)
(* The live status tools of the Worker, workers/src/tools/status.ts:       *)
(* recentStatusChanges with its RecentChangesCache, and getChargerStatus,  *)
(* which has no cache.  Tool calls (callers) of one agent interleave at    *)
(* the awaits of the client's request(); between them they run alone.      *)
(*                                                                         *)
(* Unlike the StatusCache of the Python server this cache has no locks,    *)
(* and an entry's lifetime counts from when its rows arrived.              *)
(*                                                                         *)
(* Rows are the time at which the upstream gave them (`as_of`).  The note  *)
(* of a request is the cache key, or Live for getChargerStatus.            *)
(***************************************************************************)
EXTENDS UpstreamClient

CONSTANTS
    Keys,                \* cache keys: period, zcode and limit
    Live,                \* the note of a getChargerStatus
    Ttl,                 \* RECENT_CACHE_TTL_MS
    MaxTime              \* bound: a call starts only if it can end by then

ASSUME RecentAssumption ==
    /\ Ttl \in Nat
    /\ MaxTime \in Nat
    /\ Live \notin Keys

VARIABLES
    entries,             \* RecentChangesCache.entries
    hitAge               \* history: age of the last answer given from the cache

vars == <<time, requests, entries, hitAge>>

Init ==
    /\ time = 0
    /\ requests = <<>>
    /\ entries = <<>>
    /\ hitAge = 0

Asks(c) == c \in Callers \ DOMAIN requests /\ time + Budget <= MaxTime

IsLive_slipOneLate(key) == key \in DOMAIN entries /\ time <= entries[key].expiresAt
(* get() answers until the entry expires, and then deletes it.             *)
IsLive(key) == key \in DOMAIN entries /\ time < entries[key].expiresAt

Hit(c, key) ==
    /\ Asks(c)
    /\ IsLive(key)
    /\ hitAge' = time - entries[key].as_of
    /\ UNCHANGED <<time, requests, entries>>

Miss(c, key) ==
    /\ Asks(c)
    /\ ~IsLive(key)
    /\ entries' = Without(entries, {key})
    /\ Send(c, key)
    /\ UNCHANGED <<time, hitAge>>

AskLive(c) ==
    /\ Asks(c)
    /\ Send(c, Live)
    /\ UNCHANGED <<time, entries, hitAge>>

(* The rows were current at some moment of the attempt that brought them.  *)
Stored(key, asOf) == With(entries, key, [expiresAt |-> time + Ttl, as_of |-> asOf])

Answered(c) ==
    /\ Return(c)
    /\ IF requests[c].note = Live THEN UNCHANGED entries
       ELSE \E asOf \in requests[c].since..time : entries' = Stored(requests[c].note, asOf)
    /\ UNCHANGED <<time, hitAge>>

(* An error goes to the caller; nothing is stored.                         *)
Failed(c) ==
    /\ Return(c)
    /\ \E reply \in Final \cup Retried : Throws(c, reply)
    /\ UNCHANGED <<time, entries, hitAge>>

Retry(c) ==
    /\ \/ \E reply \in Retried : BackOff(c, reply)
       \/ Resend(c)
    /\ UNCHANGED <<time, entries, hitAge>>

(* The agent's object is put to sleep or moved: the cache is gone, and so  *)
(* are its calls.                                                          *)
Wake ==
    /\ entries' = <<>>
    /\ requests' = <<>>
    /\ UNCHANGED <<time, hitAge>>

TimePasses ==
    /\ time < MaxTime
    /\ Elapse
    /\ UNCHANGED <<entries, hitAge>>

Proceed(c) == Answered(c) \/ Failed(c) \/ Retry(c)

Next ==
    \/ \E c \in Callers :
         \/ \E key \in Keys : Hit(c, key) \/ Miss(c, key)
         \/ AskLive(c)
         \/ Proceed(c)
    \/ Wake
    \/ TimePasses

Spec == Init /\ [][Next]_vars

(* Time passes, and timers fire: an attempt ends, and a delay too.         *)
FairSpec == Spec /\ WF_vars(TimePasses) /\ \A c \in Callers : WF_vars(Proceed(c))

----------------------------------------------------------------------------
Entry == [expiresAt : Nat, as_of : Nat]
RequestLocals == [at : {"sent", "delayed"}, attempt : 1..MaxRetries, since : Nat,
                  until : Nat, started : Nat, note : Keys \cup {Live}]

(* The cache and the calls are well formed; no call makes more attempts    *)
(* than it may, and no timer is overdue.                                   *)
TypeOK ==
    /\ time \in Nat
    /\ DOMAIN entries \subseteq Keys /\ entries \in [DOMAIN entries -> Entry]
    /\ DOMAIN requests \subseteq Callers /\ requests \in [DOMAIN requests -> RequestLocals]
    /\ \A c \in DOMAIN requests : time <= requests[c].until
    /\ hitAge \in Nat

(* An answer from the cache was current less than a TTL and one attempt    *)
(* ago, however many attempts it took and however the calls that brought   *)
(* the answers overlap.  That is what the code gives, and less than its    *)
(* header asks for (HitsAreSubMinute).                                     *)
HitsAreRecent == hitAge < Ttl + Timeout

(* "These tools answer 'what is happening right now?' questions that       *)
(* demand sub-minute freshness" (workers/src/tools/status.ts:4-5).  The    *)
(* TTL is a minute, but counted from the arrival of the rows: false, and   *)
(* in no run.                                                              *)
HitsAreSubMinute == hitAge < Ttl

(* The inductive invariant behind it: an attempt that is out was sent no   *)
(* more than a timeout ago, and an entry expires no later than a TTL and a *)
(* timeout after what it holds was current.                                *)
RequestInv(r, now) ==
    /\ {"at", "since", "until"} \subseteq DOMAIN r
    /\ r.at = "sent" => /\ r.since \in Nat /\ r.since <= now
                        /\ r.until = r.since + Timeout /\ now <= r.until
EntryInv(e, now) ==
    /\ e.as_of \in Nat /\ e.expiresAt \in Nat
    /\ e.as_of <= now /\ e.expiresAt <= e.as_of + Timeout + Ttl

TimesInOrder ==
    /\ time \in Nat
    /\ \A c \in DOMAIN requests : RequestInv(requests[c], time)
    /\ \A k \in DOMAIN entries : EntryInv(entries[k], time)
    /\ hitAge \in Nat /\ HitsAreRecent

(* The inductive invariant behind TypeOK and CallEndsInTime: what a call   *)
(* has used up by its current timer, in tenths of a unit, is bounded by    *)
(* the timeouts of its attempts and the longest delays between them; only  *)
(* a call with an attempt left waits out a delay.                          *)
LongestDelays(n) == 13 * BackoffBase * (2 ^ n - 1)

WithinBudget(r) ==
    /\ r.at = "sent" =>
         /\ r.until = r.since + Timeout
         /\ 10 * (r.since - r.started) <=
              10 * ((r.attempt - 1) * Timeout) + LongestDelays(r.attempt - 1)
    /\ r.at = "delayed" =>
         /\ r.attempt < MaxRetries
         /\ 10 * (r.until - r.started) <=
              10 * (r.attempt * Timeout) + LongestDelays(r.attempt)

BudgetInv ==
    /\ TypeOK
    /\ TimesInOrder
    /\ \A c \in DOMAIN requests : WithinBudget(requests[c])

(* No call is left behind: it gets rows or an error.                       *)
EveryCallReturns == \A c \in Callers : (c \in DOMAIN requests) ~> (c \notin DOMAIN requests)
============================================================================
