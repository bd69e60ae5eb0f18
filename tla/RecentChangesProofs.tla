------------------------ MODULE RecentChangesProofs ------------------------
(***************************************************************************)
(* An answer from the cache of recent changes is never older than a TTL    *)
(* and a timeout, and no call of the upstream outlasts its timeouts and    *)
(* delays, for any callers, keys, TTL, timeout, number of attempts and     *)
(* first delay.                                                            *)
(***************************************************************************)
EXTENDS RecentChanges, FunctionTheorems, FiniteSetTheorems, TLAPS

LEMMA InitHolds == Init => TimesInOrder
BY ClientAssumption, RecentAssumption DEF Init, TimesInOrder, HitsAreRecent

(* What With and Without make of a function.                               *)
LEMMA Updates ==
    ASSUME NEW f, NEW x, NEW v, NEW S
    PROVE  /\ \A y \in DOMAIN With(f, x, v) :
                  With(f, x, v)[y] = v \/ (y \in DOMAIN f /\ With(f, x, v)[y] = f[y])
           /\ \A y \in DOMAIN Without(f, S) : y \in DOMAIN f /\ Without(f, S)[y] = f[y]
BY DEF With, Without

(* A request just sent has its timeout before it.                          *)
LEMMA SendKeeps ==
    ASSUME TimesInOrder, NEW c, NEW note, Send(c, note), UNCHANGED time
    PROVE  \A d \in DOMAIN requests' : RequestInv(requests'[d], time')
<1> DEFINE new == [at |-> "sent", attempt |-> 1, since |-> time,
                   until |-> time + Timeout, started |-> time, note |-> note]
<1>1. \A d \in DOMAIN requests' : requests'[d] = new \/ (d \in DOMAIN requests /\ requests'[d] = requests[d])
  BY Updates DEF Send
<1>2. RequestInv(new, time')
  BY ClientAssumption DEF TimesInOrder, RequestInv
<1>3. \A d \in DOMAIN requests : RequestInv(requests[d], time')
  BY DEF TimesInOrder
<1> HIDE DEF new
<1>4. QED
  BY <1>1, <1>2, <1>3

LEMMA EndKeeps ==
    ASSUME TimesInOrder, NEW c, Return(c), UNCHANGED time
    PROVE  \A d \in DOMAIN requests' : RequestInv(requests'[d], time')
<1>1. \A d \in DOMAIN requests' : d \in DOMAIN requests /\ requests'[d] = requests[d]
  BY Updates DEF Return
<1>2. QED
  BY <1>1 DEF TimesInOrder

(* What is left to show of a step that changes only the requests.          *)
LEMMA OtherPartsKeep ==
    ASSUME TimesInOrder, UNCHANGED <<time, hitAge>>,
           \A d \in DOMAIN requests' : RequestInv(requests'[d], time'),
           \A k \in DOMAIN entries' : EntryInv(entries'[k], time)
    PROVE  TimesInOrder'
BY DEF TimesInOrder, HitsAreRecent

LEMMA MissKeeps ==
    ASSUME TimesInOrder, NEW c, NEW key, Miss(c, key)
    PROVE  TimesInOrder'
<1>1. \A d \in DOMAIN requests' : RequestInv(requests'[d], time')
  BY SendKeeps DEF Miss
<1>2. \A k \in DOMAIN entries' : k \in DOMAIN entries /\ entries'[k] = entries[k]
  BY Updates DEF Miss
<1>3. \A k \in DOMAIN entries' : EntryInv(entries'[k], time)
  BY <1>2 DEF TimesInOrder
<1>4. QED
  BY <1>1, <1>3, OtherPartsKeep DEF Miss

(* What an attempt brings was current after the attempt was sent, and the  *)
(* attempt was not aborted: its entry expires in time.                     *)
LEMMA AnsweredKeeps ==
    ASSUME TimesInOrder, NEW c, Answered(c)
    PROVE  TimesInOrder'
<1>1. \A d \in DOMAIN requests' : RequestInv(requests'[d], time')
  BY EndKeeps DEF Answered
<1>2. /\ requests[c].since \in Nat /\ requests[c].since <= time
      /\ time <= requests[c].since + Timeout
  BY DEF Answered, Return, Sent, TimesInOrder, RequestInv
<1>3. ASSUME NEW asOf \in requests[c].since..time,
             entries' = Stored(requests[c].note, asOf)
      PROVE  \A k \in DOMAIN entries' : EntryInv(entries'[k], time)
  <2> DEFINE new == [expiresAt |-> time + Ttl, as_of |-> asOf]
  <2>1. \A k \in DOMAIN entries' : entries'[k] = new \/ (k \in DOMAIN entries /\ entries'[k] = entries[k])
    <3>1. entries' = With(entries, requests[c].note, new)
      BY <1>3 DEF Stored
    <3> HIDE DEF new
    <3>2. QED
      BY <3>1 DEF With
  <2>2. EntryInv(new, time)
    BY <1>2, ClientAssumption, RecentAssumption DEF TimesInOrder, EntryInv
  <2> HIDE DEF new
  <2>3. QED
    BY <2>1, <2>2 DEF TimesInOrder
<1>4. \A k \in DOMAIN entries' : EntryInv(entries'[k], time)
  <2>1. CASE UNCHANGED entries
    BY <2>1 DEF TimesInOrder
  <2>2. CASE ~UNCHANGED entries
    BY <1>3, <2>2 DEF Answered
  <2>3. QED
    BY <2>1, <2>2
<1>5. QED
  BY <1>1, <1>4, OtherPartsKeep DEF Answered

LEMMA FailedKeeps ==
    ASSUME TimesInOrder, NEW c, Failed(c)
    PROVE  TimesInOrder'
<1>1. \A d \in DOMAIN requests' : RequestInv(requests'[d], time')
  BY EndKeeps DEF Failed
<1>2. \A k \in DOMAIN entries' : EntryInv(entries'[k], time)
  BY DEF Failed, TimesInOrder
<1>3. QED
  BY <1>1, <1>2, OtherPartsKeep DEF Failed

(* A delay says nothing of when the rows will come; an attempt after it is *)
(* dated anew.                                                             *)
LEMMA RetryKeeps ==
    ASSUME TimesInOrder, NEW c, Retry(c)
    PROVE  TimesInOrder'
<1>0. UNCHANGED <<time, entries, hitAge>>
  BY DEF Retry
<1>1. ASSUME NEW reply, BackOff(c, reply)
      PROVE  \A d \in DOMAIN requests' : RequestInv(requests'[d], time')
  <2>1. PICK until : requests' = [requests EXCEPT ![c].at = "delayed", ![c].until = until]
    BY <1>1 DEF BackOff
  <2>2. c \in DOMAIN requests /\ {"at", "since", "until"} \subseteq DOMAIN requests[c]
    BY <1>1 DEF BackOff, Sent, TimesInOrder, RequestInv
  <2>3. requests'[c].at = "delayed" /\ DOMAIN requests'[c] = DOMAIN requests[c]
    BY <2>1, <2>2
  <2>4. \A d \in DOMAIN requests' : d \in DOMAIN requests /\ (d # c => requests'[d] = requests[d])
    BY <2>1
  <2>5. RequestInv(requests'[c], time')
    BY <2>2, <2>3 DEF RequestInv
  <2>6. QED
    BY <1>0, <2>4, <2>5 DEF TimesInOrder
<1>2. ASSUME Resend(c)
      PROVE  \A d \in DOMAIN requests' : RequestInv(requests'[d], time')
  <2>1. c \in DOMAIN requests /\ {"at", "since", "until"} \subseteq DOMAIN requests[c]
    BY <1>2 DEF Resend, Delayed, TimesInOrder, RequestInv
  <2>2. /\ requests'[c].since = time /\ requests'[c].until = time + Timeout
        /\ DOMAIN requests'[c] = DOMAIN requests[c]
    BY <1>2, <2>1 DEF Resend
  <2>3. \A d \in DOMAIN requests' : d \in DOMAIN requests /\ (d # c => requests'[d] = requests[d])
    BY <1>2 DEF Resend
  <2>4. RequestInv(requests'[c], time')
    BY <1>0, <2>1, <2>2, ClientAssumption DEF RequestInv, TimesInOrder
  <2>5. QED
    BY <1>0, <2>3, <2>4 DEF TimesInOrder
<1>3. \A k \in DOMAIN entries' : EntryInv(entries'[k], time)
  BY <1>0 DEF TimesInOrder
<1>4. QED
  BY <1>0, <1>1, <1>2, <1>3, OtherPartsKeep DEF Retry

(* Time does not pass the timeout of an attempt.                           *)
LEMMA TimePassesKeeps ==
    ASSUME TimesInOrder, TimePasses
    PROVE  TimesInOrder'
<1>1. time' = time + 1 /\ UNCHANGED <<requests, entries, hitAge>> /\ time \in Nat
  BY DEF TimePasses, Elapse, TimesInOrder
<1>2. ASSUME NEW d \in DOMAIN requests
      PROVE  RequestInv(requests[d], time + 1)
  <2>1. time < requests[d].until /\ RequestInv(requests[d], time)
    BY DEF TimePasses, Elapse, TimesInOrder
  <2>2. QED
    BY <2>1, <1>1, ClientAssumption DEF RequestInv
<1>3. ASSUME NEW k \in DOMAIN entries
      PROVE  EntryInv(entries[k], time + 1)
  BY <1>1 DEF TimesInOrder, EntryInv
<1>4. QED
  BY <1>1, <1>2, <1>3 DEF TimesInOrder, HitsAreRecent

LEMMA StepKeeps == TimesInOrder /\ [Next]_vars => TimesInOrder'
<1> SUFFICES ASSUME TimesInOrder, [Next]_vars PROVE TimesInOrder'
  OBVIOUS
<1>1. ASSUME NEW c \in Callers, NEW key \in Keys, Hit(c, key)
      PROVE  TimesInOrder'
  <2>1. /\ time \in Nat /\ hitAge' = time - entries[key].as_of
        /\ EntryInv(entries[key], time) /\ time < entries[key].expiresAt
    BY <1>1 DEF Hit, IsLive, TimesInOrder
  <2>2. hitAge' \in Nat /\ hitAge' < Ttl + Timeout
    BY <2>1, ClientAssumption, RecentAssumption DEF EntryInv
  <2>3. QED
    BY <1>1, <2>2 DEF Hit, TimesInOrder, HitsAreRecent
<1>2. ASSUME NEW c \in Callers, AskLive(c)
      PROVE  TimesInOrder'
  <2>1. \A d \in DOMAIN requests' : RequestInv(requests'[d], time')
    BY <1>2, SendKeeps DEF AskLive
  <2>2. \A k \in DOMAIN entries' : EntryInv(entries'[k], time)
    BY <1>2 DEF AskLive, TimesInOrder
  <2>3. QED
    BY <1>2, <2>1, <2>2, OtherPartsKeep DEF AskLive
<1>3. CASE Wake
  BY <1>3 DEF Wake, TimesInOrder, HitsAreRecent
<1>4. CASE UNCHANGED vars
  BY <1>4 DEF vars, TimesInOrder, HitsAreRecent
<1>5. QED
  BY <1>1, <1>2, <1>3, <1>4, MissKeeps, AnsweredKeeps, FailedKeeps, RetryKeeps,
     TimePassesKeeps DEF Next, Proceed

(* Attempts are dated and entries expire as they should.                   *)
THEOREM TimesStayInOrder == Spec => []TimesInOrder
<1>1. Init => TimesInOrder
  BY InitHolds
<1>2. QED
  BY <1>1, StepKeeps, PTL DEF Spec

(* No answer from the cache is older than a TTL and a timeout.             *)
THEOREM AnswersAreRecent == Spec => []HitsAreRecent
<1>1. TimesInOrder => HitsAreRecent
  BY DEF TimesInOrder
<1>2. QED
  BY <1>1, TimesStayInOrder, PTL

----------------------------------------------------------------------------
(* Powers of two, by what they count: the delays double.                   *)
LEMMA PowerCounts ==
    ASSUME NEW n \in Nat
    PROVE  /\ IsFiniteSet(SUBSET (1..n))
           /\ 2 ^ n = Cardinality(SUBSET (1..n))
           /\ 2 ^ n \in Nat \ {0}
<1>1. IsFiniteSet(1..n) /\ Cardinality(1..n) = n
  BY FS_Interval
<1>2. IsFiniteSet(SUBSET (1..n)) /\ Cardinality(SUBSET (1..n)) = 2 ^ n
  BY <1>1, FS_SUBSET
<1>3. SUBSET (1..n) # {}
  OBVIOUS
<1>4. Cardinality(SUBSET (1..n)) \in Nat /\ Cardinality(SUBSET (1..n)) # 0
  BY <1>2, <1>3, FS_CardinalityType, FS_EmptySet
<1>5. QED
  BY <1>2, <1>4

LEMMA PowerDoubles ==
    ASSUME NEW n \in Nat
    PROVE  2 ^ (n + 1) = 2 ^ n + 2 ^ n
<1> DEFINE S == SUBSET (1..n)
           T == {X \cup {n + 1} : X \in S}
           extend == [X \in S |-> X \cup {n + 1}]
<1>1. IsFiniteSet(S) /\ 2 ^ n = Cardinality(S) /\ Cardinality(S) \in Nat
  BY PowerCounts
<1>2. extend \in Bijection(S, T)
  <2>1. \A X \in S : n + 1 \notin X
    OBVIOUS
  <2>2. \A X, Y \in S : X \cup {n + 1} = Y \cup {n + 1} => X = Y
    BY <2>1
  <2>3. extend \in [S -> T]
    OBVIOUS
  <2>4. \A X, Y \in S : extend[X] = extend[Y] => X = Y
    BY <2>2
  <2>5. \A Z \in T : \E X \in S : extend[X] = Z
    OBVIOUS
  <2> HIDE DEF S, T, extend
  <2>6. QED
    BY <2>3, <2>4, <2>5 DEF Bijection, Injection, IsInjective, Surjection
<1>3. IsFiniteSet(T) /\ Cardinality(T) = Cardinality(S)
  BY <1>1, <1>2, FS_Bijection DEF ExistsBijection
<1>4. S \cap T = {}
  OBVIOUS
<1>5. S \cup T = SUBSET (1..(n + 1))
  <2>1. ASSUME NEW Z \in SUBSET (1..(n + 1)) PROVE Z \in S \cup T
    <3>1. CASE n + 1 \in Z
      <4>1. Z \ {n + 1} \in S
        OBVIOUS
      <4>2. Z = (Z \ {n + 1}) \cup {n + 1}
        BY <3>1
      <4>3. QED
        BY <4>1, <4>2
    <3>2. CASE n + 1 \notin Z
      <4>1. Z \in S
        BY <3>2
      <4>2. QED
        BY <4>1
    <3>3. QED
      BY <3>1, <3>2
  <2>2. ASSUME NEW X \in S PROVE X \subseteq 1..(n + 1) /\ X \cup {n + 1} \subseteq 1..(n + 1)
    OBVIOUS
  <2>3. S \cup T \subseteq SUBSET (1..(n + 1))
    BY <2>2
  <2> HIDE DEF S, T
  <2>4. QED
    BY <2>1, <2>3
<1>6. 2 ^ (n + 1) = Cardinality(S \cup T)
  <2>1. n + 1 \in Nat
    OBVIOUS
  <2>2. 2 ^ (n + 1) = Cardinality(SUBSET (1..(n + 1)))
    BY ONLY <2>1, PowerCounts
  <2> HIDE DEF S, T
  <2>3. QED
    BY <1>5, <2>2
<1> HIDE DEF S, T
<1>7. Cardinality(S \cup T) = Cardinality(S) + Cardinality(T) - Cardinality({})
  BY <1>1, <1>3, <1>4, FS_Union
<1>8. QED
  BY <1>1, <1>3, <1>6, <1>7, FS_EmptySet

LEMMA PowerGrows ==
    ASSUME NEW m \in Nat, NEW n \in Nat, m <= n
    PROVE  2 ^ m <= 2 ^ n
<1>1. SUBSET (1..m) \in SUBSET SUBSET (1..n)
  OBVIOUS
<1>2. Cardinality(SUBSET (1..m)) <= Cardinality(SUBSET (1..n))
  BY <1>1, PowerCounts, FS_Subset
<1>3. QED
  BY <1>2, PowerCounts

(* The delays before an attempt add up to less than one more would take.   *)
LEMMA DelaysAddUp ==
    ASSUME NEW n \in Nat
    PROVE  /\ LongestDelays(n) \in Nat
           /\ LongestDelays(0) = 0
           /\ LongestDelays(n + 1) = LongestDelays(n) + 13 * (BackoffBase * 2 ^ n)
           /\ \A m \in Nat : m <= n => LongestDelays(m) <= LongestDelays(n)
<1>0. 2 ^ 0 = 1
  OBVIOUS
<1>1. BackoffBase \in Nat /\ 2 ^ n \in Nat \ {0}
  BY PowerCounts, ClientAssumption
<1>2. LongestDelays(n) \in Nat /\ LongestDelays(0) = 0
  BY <1>0, <1>1 DEF LongestDelays
<1>3. LongestDelays(n + 1) = LongestDelays(n) + 13 * (BackoffBase * 2 ^ n)
  <2> DEFINE p == 2 ^ n
             q == 2 ^ (n + 1)
  <2>1. q = p + p /\ p \in Nat
    BY <1>1, PowerDoubles
  <2>2. /\ LongestDelays(n) = 13 * BackoffBase * (p - 1)
        /\ LongestDelays(n + 1) = 13 * BackoffBase * (q - 1)
    BY DEF LongestDelays
  <2> HIDE DEF p, q
  <2>3. 13 * BackoffBase * (q - 1) = 13 * BackoffBase * (p - 1) + 13 * (BackoffBase * p)
    BY <1>1, <2>1
  <2>4. QED
    BY <2>2, <2>3 DEF p
<1>4. ASSUME NEW m \in Nat, m <= n PROVE LongestDelays(m) <= LongestDelays(n)
  <2> DEFINE p == 2 ^ n
             q == 2 ^ m
  <2>1. p \in Nat \ {0} /\ q \in Nat \ {0} /\ q <= p
    BY <1>4, PowerGrows, PowerCounts
  <2>2. /\ LongestDelays(n) = 13 * BackoffBase * (p - 1)
        /\ LongestDelays(m) = 13 * BackoffBase * (q - 1)
    BY DEF LongestDelays
  <2> HIDE DEF p, q
  <2>3. 13 * BackoffBase * (q - 1) <= 13 * BackoffBase * (p - 1)
    BY <1>1, <2>1
  <2>4. QED
    BY <2>2, <2>3
<1>5. QED
  BY <1>2, <1>3, <1>4

LEMMA DelayBounds ==
    ASSUME NEW a \in Nat \ {0}, NEW delay \in Delays(a)
    PROVE  delay \in Nat /\ 10 * delay <= 13 * (BackoffBase * 2 ^ (a - 1))
<1> DEFINE base == BackoffBase * 2 ^ (a - 1)
<1>1. a - 1 \in Nat
  OBVIOUS
<1>2. 2 ^ (a - 1) \in Nat
  BY <1>1, PowerCounts
<1>3. base \in Nat
  BY <1>2, ClientAssumption
<1>4. delay \in base..(base + (3 * base) \div 10)
  BY DEF Delays
<1> HIDE DEF base
<1>5. delay \in Nat /\ 10 * delay <= 13 * base
  BY <1>3, <1>4
<1>6. QED
  BY <1>5 DEF base

----------------------------------------------------------------------------
(* A call by itself, at a time: well formed, its timer not overdue, and    *)
(* within the budget of its attempts.                                      *)
CallInv(r, now) == r \in RequestLocals /\ now <= r.until /\ WithinBudget(r)

EntriesTyped == DOMAIN entries \subseteq Keys /\ entries \in [DOMAIN entries -> Entry]
CallsInv == DOMAIN requests \subseteq Callers /\ \A c \in DOMAIN requests : CallInv(requests[c], time)
IsTable(f) == f = [x \in DOMAIN f |-> f[x]]

LEMMA InvParts ==
    BudgetInv <=> TimesInOrder /\ EntriesTyped /\ CallsInv /\ IsTable(requests)
<1>1. BudgetInv => TimesInOrder /\ EntriesTyped /\ CallsInv /\ IsTable(requests)
  BY DEF BudgetInv, TypeOK, EntriesTyped, CallsInv, CallInv, IsTable
<1>2. TimesInOrder /\ EntriesTyped /\ CallsInv /\ IsTable(requests) => BudgetInv
  BY DEF BudgetInv, TypeOK, EntriesTyped, CallsInv, CallInv, IsTable, TimesInOrder
<1>3. QED
  BY <1>1, <1>2

(* A call just made has used up nothing.                                   *)
LEMMA SentIsWithin ==
    ASSUME BudgetInv, NEW c \in Callers, NEW note \in Keys \cup {Live},
           Send(c, note), UNCHANGED time
    PROVE  CallsInv' /\ IsTable(requests)'
<1> DEFINE new == [at |-> "sent", attempt |-> 1, since |-> time,
                   until |-> time + Timeout, started |-> time, note |-> note]
<1>1. requests' = With(requests, c, new)
  BY DEF Send
<1>2. /\ IsTable(requests)' /\ DOMAIN requests' \subseteq Callers
      /\ \A d \in DOMAIN requests' :
           requests'[d] = new \/ (d \in DOMAIN requests /\ requests'[d] = requests[d])
  <2> HIDE DEF new
  <2>1. QED
    BY <1>1, InvParts DEF With, IsTable, CallsInv
<1>3. time \in Nat
  BY DEF BudgetInv, TypeOK
<1>4. new \in RequestLocals /\ time <= new.until
  BY <1>3, ClientAssumption DEF RequestLocals
<1>5. WithinBudget(new)
  <2>1. LongestDelays(1 - 1) = 0
    BY DelaysAddUp
  <2>2. 10 * ((1 - 1) * Timeout) = 0
    BY ClientAssumption
  <2>3. QED
    BY <1>3, <2>1, <2>2 DEF WithinBudget
<1>6. CallInv(new, time)
  BY <1>4, <1>5 DEF CallInv
<1>7. \A d \in DOMAIN requests : CallInv(requests[d], time)
  BY InvParts DEF CallsInv
<1> HIDE DEF new
<1>8. QED
  BY <1>2, <1>6, <1>7 DEF CallsInv

LEMMA ReturnedIsGone ==
    ASSUME BudgetInv, NEW c, Return(c), UNCHANGED time
    PROVE  CallsInv' /\ IsTable(requests)'
<1>1. requests' = Without(requests, {c})
  BY DEF Return
<1>2. QED
  BY <1>1, InvParts DEF Without, IsTable, CallsInv

LEMMA DelayedLocals ==
    ASSUME NEW r \in RequestLocals, NEW until \in Nat
    PROVE  /\ [r EXCEPT !.at = "delayed", !.until = until] \in RequestLocals
           /\ [r EXCEPT !.at = "delayed", !.until = until].until = until
BY DEF RequestLocals

LEMMA ResentLocals ==
    ASSUME NEW r \in RequestLocals, NEW until \in Nat, NEW since \in Nat,
           NEW attempt \in 1..MaxRetries
    PROVE  /\ [r EXCEPT !.at = "sent", !.attempt = attempt, !.since = since, !.until = until]
                \in RequestLocals
           /\ [r EXCEPT !.at = "sent", !.attempt = attempt, !.since = since,
                        !.until = until].until = until
<1>1. [r EXCEPT !.at = "sent", !.attempt = attempt] \in RequestLocals
  BY DEF RequestLocals
<1>2. \A s \in RequestLocals :
         /\ [s EXCEPT !.since = since, !.until = until] \in RequestLocals
         /\ [s EXCEPT !.since = since, !.until = until].until = until
  BY DEF RequestLocals
<1>3. [r EXCEPT !.at = "sent", !.attempt = attempt, !.since = since, !.until = until]
        = [[r EXCEPT !.at = "sent", !.attempt = attempt] EXCEPT !.since = since, !.until = until]
  OBVIOUS
<1>4. QED
  BY <1>1, <1>2, <1>3

(* A delay comes after an attempt that had its timeout, and only when      *)
(* another attempt is left.                                                *)
LEMMA DelayIsWithin ==
    ASSUME BudgetInv, NEW c, NEW reply \in Retried, BackOff(c, reply), UNCHANGED time
    PROVE  CallsInv' /\ IsTable(requests)'
<1>1. PICK delay \in Delays(requests[c].attempt) :
        requests' = [requests EXCEPT ![c].at = "delayed", ![c].until = time + delay]
  BY DEF BackOff
<1> DEFINE old == requests[c]
           new == [old EXCEPT !.at = "delayed", !.until = time + delay]
           a == old.attempt
<1>2. c \in DOMAIN requests /\ old.at = "sent" /\ ~(a >= MaxRetries)
  BY DEF BackOff, Sent, Throws, IsLastAttempt
<1>3. CallInv(old, time)
  BY <1>2, InvParts DEF CallsInv
<1>4. requests' = [requests EXCEPT ![c] = new]
  BY <1>1
<1>5. /\ time \in Nat /\ old \in RequestLocals /\ a \in Nat \ {0} /\ a < MaxRetries
      /\ old.since \in Nat /\ old.started \in Nat /\ old.until \in Nat
  BY <1>2, <1>3, ClientAssumption DEF CallInv, RequestLocals, BudgetInv, TypeOK
<1>6. delay \in Nat /\ 10 * delay <= 13 * (BackoffBase * 2 ^ (a - 1))
  BY <1>1, <1>5, DelayBounds
<1>7. new \in RequestLocals /\ time <= new.until
  <2>1. time + delay \in Nat /\ time <= time + delay
    BY <1>5, <1>6
  <2> HIDE DEF old
  <2>2. QED
    BY <1>5, <2>1, DelayedLocals
<1>8. WithinBudget(new)
  <2>1. a - 1 \in Nat /\ (a - 1) + 1 = a
    BY <1>5
  <2>2. /\ LongestDelays(a - 1) \in Nat /\ LongestDelays(a) \in Nat
        /\ LongestDelays(a) = LongestDelays(a - 1) + 13 * (BackoffBase * 2 ^ (a - 1))
    BY <1>5, <2>1, DelaysAddUp
  <2>3. /\ old.until = old.since + Timeout
        /\ 10 * (old.since - old.started) <= 10 * ((a - 1) * Timeout) + LongestDelays(a - 1)
    BY <1>2, <1>3 DEF CallInv, WithinBudget
  <2>4. time <= old.until
    BY <1>3 DEF CallInv
  <2>5. 13 * (BackoffBase * 2 ^ (a - 1)) = LongestDelays(a) - LongestDelays(a - 1)
    <3>1. 13 * (BackoffBase * 2 ^ (a - 1)) \in Nat
      <4>1. 2 ^ (a - 1) \in Nat
        BY <2>1, PowerCounts
      <4>2. QED
        BY <4>1, ClientAssumption
    <3>2. QED
      BY <2>2, <3>1
  <2>6. (a - 1) * Timeout + Timeout = a * Timeout /\ (a - 1) * Timeout \in Int /\ a * Timeout \in Int
    BY <1>5, ClientAssumption
  <2>7. 10 * ((time + delay) - old.started) <= 10 * (a * Timeout) + LongestDelays(a)
    BY <1>5, <1>6, <2>2, <2>3, <2>4, <2>5, <2>6, ClientAssumption
  <2>8. new.at = "delayed" /\ new.until = time + delay /\ new.started = old.started /\ new.attempt = a
    BY <1>5 DEF RequestLocals
  <2>9. QED
    BY <1>5, <2>7, <2>8 DEF WithinBudget
<1>9. CallInv(new, time)
  BY <1>7, <1>8 DEF CallInv
<1> HIDE DEF old, new, a
<1>10. QED
  BY <1>2, <1>4, <1>9, InvParts DEF CallsInv, IsTable

(* An attempt after a delay is sent when the delay ends.                   *)
LEMMA ResentIsWithin ==
    ASSUME BudgetInv, NEW c, Resend(c), UNCHANGED time
    PROVE  CallsInv' /\ IsTable(requests)'
<1> DEFINE old == requests[c]
           a == old.attempt
           new == [old EXCEPT !.at = "sent", !.attempt = a + 1,
                              !.since = time, !.until = time + Timeout]
<1>1. c \in DOMAIN requests /\ old.at = "delayed" /\ time = old.until
  BY DEF Resend, Delayed
<1>2. CallInv(old, time)
  BY <1>1, InvParts DEF CallsInv
<1>3. requests' = [requests EXCEPT ![c] = new]
  BY DEF Resend
<1>4. /\ time \in Nat /\ old \in RequestLocals /\ a \in Nat \ {0}
      /\ old.started \in Nat /\ a < MaxRetries
  BY <1>1, <1>2, ClientAssumption DEF CallInv, WithinBudget, RequestLocals, BudgetInv, TypeOK
<1>5. new \in RequestLocals /\ time <= new.until
  <2>1. /\ time + Timeout \in Nat /\ time <= time + Timeout
        /\ a + 1 \in 1..MaxRetries
    BY <1>4, ClientAssumption
  <2> HIDE DEF old, a
  <2>2. QED
    BY <1>4, <2>1, ResentLocals
<1>6. /\ new.at = "sent" /\ new.since = time /\ new.until = time + Timeout
      /\ new.started = old.started /\ new.attempt = a + 1
  BY <1>4 DEF RequestLocals
<1>7. 10 * (time - old.started) <= 10 * (a * Timeout) + LongestDelays(a)
  BY <1>1, <1>2 DEF CallInv, WithinBudget
<1>8. (a + 1) - 1 = a
  BY <1>4
<1>9. CallInv(new, time)
  BY <1>5, <1>6, <1>7, <1>8 DEF CallInv, WithinBudget
<1> HIDE DEF old, new, a
<1>10. QED
  BY <1>1, <1>3, <1>9, InvParts DEF CallsInv, IsTable

LEMMA BudgetStep == BudgetInv /\ [Next]_vars => BudgetInv'
<1> SUFFICES ASSUME BudgetInv, [Next]_vars PROVE BudgetInv'
  OBVIOUS
<1>1. TimesInOrder'
  BY StepKeeps DEF BudgetInv
<1> DEFINE Calls == CallsInv' /\ IsTable(requests)'
<1>0. EntriesTyped /\ CallsInv /\ IsTable(requests)
  BY InvParts
<1>2. ASSUME NEW c \in Callers, NEW key \in Keys, Hit(c, key)
      PROVE  EntriesTyped' /\ Calls
  BY <1>0, <1>2 DEF Hit, EntriesTyped, CallsInv, IsTable
<1>3. ASSUME NEW c \in Callers, NEW key \in Keys, Miss(c, key)
      PROVE  EntriesTyped' /\ Calls
  <2>1. Calls
    BY <1>3, SentIsWithin DEF Miss
  <2>2. EntriesTyped'
    BY <1>0, <1>3 DEF Miss, Without, EntriesTyped
  <2>3. QED
    BY <2>1, <2>2
<1>4. ASSUME NEW c \in Callers, AskLive(c)
      PROVE  EntriesTyped' /\ Calls
  <2>1. Calls
    BY <1>4, SentIsWithin DEF AskLive
  <2>2. QED
    BY <1>0, <1>4, <2>1 DEF AskLive, EntriesTyped
<1>5. ASSUME NEW c \in Callers, Answered(c)
      PROVE  EntriesTyped' /\ Calls
  <2>1. Calls
    BY <1>5, ReturnedIsGone DEF Answered
  <2>2. c \in DOMAIN requests /\ requests[c].note \in Keys \cup {Live} /\ requests[c].since \in Nat
    BY <1>0, <1>5 DEF Answered, Return, Sent, CallsInv, CallInv, RequestLocals
  <2>3. ASSUME requests[c].note # Live, NEW asOf \in requests[c].since..time,
               entries' = Stored(requests[c].note, asOf)
        PROVE  EntriesTyped'
    <3>1. [expiresAt |-> time + Ttl, as_of |-> asOf] \in Entry
      BY <2>2, RecentAssumption DEF Entry, BudgetInv, TypeOK
    <3>2. QED
      BY <1>0, <2>2, <2>3, <3>1 DEF EntriesTyped, Stored, With
  <2>4. QED
    BY <1>0, <1>5, <2>1, <2>3 DEF Answered, EntriesTyped
<1>6. ASSUME NEW c \in Callers, Failed(c)
      PROVE  EntriesTyped' /\ Calls
  <2>1. Calls
    BY <1>6, ReturnedIsGone DEF Failed
  <2>2. QED
    BY <1>0, <1>6, <2>1 DEF Failed, EntriesTyped
<1>7. ASSUME NEW c \in Callers, Retry(c)
      PROVE  EntriesTyped' /\ Calls
  <2>1. Calls
    BY <1>7, DelayIsWithin, ResentIsWithin DEF Retry
  <2>2. QED
    BY <1>0, <1>7, <2>1 DEF Retry, EntriesTyped
<1>8. ASSUME Wake
      PROVE  EntriesTyped' /\ Calls
  BY <1>8 DEF Wake, EntriesTyped, CallsInv, IsTable
<1>9. ASSUME TimePasses
      PROVE  EntriesTyped' /\ Calls
  <2>1. /\ time' = time + 1 /\ UNCHANGED <<requests, entries>> /\ time \in Nat
        /\ \A c \in DOMAIN requests : time < requests[c].until
    BY <1>9 DEF TimePasses, Elapse, BudgetInv, TypeOK
  <2>2. ASSUME NEW c \in DOMAIN requests
        PROVE  CallInv(requests[c], time + 1)
    BY <1>0, <2>1 DEF CallsInv, CallInv, RequestLocals
  <2>3. QED
    BY <1>0, <2>1, <2>2 DEF EntriesTyped, CallsInv, IsTable
<1>10. ASSUME UNCHANGED vars
      PROVE  EntriesTyped' /\ Calls
  BY <1>0, <1>10 DEF vars, EntriesTyped, CallsInv, IsTable
<1>11. EntriesTyped' /\ Calls
  BY <1>2, <1>3, <1>4, <1>5, <1>6, <1>7, <1>8, <1>9, <1>10 DEF Next, Proceed
<1>12. QED
  <2>1. (TimesInOrder /\ EntriesTyped /\ CallsInv /\ IsTable(requests))' => BudgetInv'
    BY InvParts, PTL
  <2>2. QED
    BY <1>1, <1>11, <2>1

LEMMA BudgetInit == Init => BudgetInv
<1> SUFFICES ASSUME Init PROVE BudgetInv
  OBVIOUS
<1>1. TimesInOrder
  BY InitHolds
<1>2. TypeOK
  BY DEF Init, TypeOK
<1>3. \A c \in DOMAIN requests : WithinBudget(requests[c])
  BY DEF Init
<1>4. QED
  BY <1>1, <1>2, <1>3 DEF BudgetInv

(* A call with a bounded past: its current attempt or delay is the last    *)
(* thing its time was spent on, and there are at most MaxRetries of them.  *)
LEMMA WithinIsInTime ==
    ASSUME NEW now \in Nat, NEW r, CallInv(r, now)
    PROVE  now - r.started <= Budget
<1> DEFINE a == r.attempt
           m == MaxRetries - 1
           spent == now - r.started
<1>1. /\ a \in Nat \ {0} /\ a <= MaxRetries /\ r.started \in Nat /\ r.since \in Nat
      /\ r.until \in Nat /\ r.at \in {"sent", "delayed"} /\ now <= r.until
  BY ClientAssumption DEF CallInv, RequestLocals
<1>2. m \in Nat /\ spent \in Int /\ MaxRetries \in Nat /\ Timeout \in Nat
  BY <1>1, ClientAssumption
<1>3. LongestDelays(m) \in Nat /\ \A n \in Nat : n <= m => LongestDelays(n) <= LongestDelays(m)
  BY <1>2, DelaysAddUp
<1>4. /\ a * Timeout \in Nat /\ MaxRetries * Timeout \in Nat
      /\ (a - 1) * Timeout \in Int /\ (a - 1) * Timeout + Timeout = a * Timeout
      /\ a * Timeout <= MaxRetries * Timeout
  BY <1>1, <1>2
<1>5. 10 * spent <= 10 * (MaxRetries * Timeout) + LongestDelays(m)
  <2>1. CASE r.at = "sent"
    <3>1. /\ r.until = r.since + Timeout
          /\ 10 * (r.since - r.started) <= 10 * ((a - 1) * Timeout) + LongestDelays(a - 1)
      BY <2>1 DEF CallInv, WithinBudget
    <3>2. LongestDelays(a - 1) <= LongestDelays(m) /\ LongestDelays(a - 1) \in Nat
      <4>1. a - 1 \in Nat /\ a - 1 <= m
        BY <1>1, <1>2
      <4>2. QED
        BY <4>1, <1>3, DelaysAddUp
    <3> HIDE DEF a, m
    <3>3. QED
      BY <1>1, <1>2, <1>3, <1>4, <3>1, <3>2
  <2>2. CASE r.at = "delayed"
    <3>1. a < MaxRetries /\ 10 * (r.until - r.started) <= 10 * (a * Timeout) + LongestDelays(a)
      BY <2>2 DEF CallInv, WithinBudget
    <3>2. LongestDelays(a) <= LongestDelays(m) /\ LongestDelays(a) \in Nat
      <4>1. a \in Nat /\ a <= m
        BY <1>1, <1>2, <3>1
      <4>2. QED
        BY <4>1, <1>3, DelaysAddUp
    <3> HIDE DEF a, m
    <3>3. QED
      BY <1>1, <1>2, <1>3, <1>4, <3>1, <3>2
  <2>3. QED
    BY <1>1, <2>1, <2>2
<1>6. Budget = MaxRetries * Timeout + LongestDelays(m) \div 10
  BY DEF Budget, LongestDelays
<1> HIDE DEF m, spent
<1>7. spent <= MaxRetries * Timeout + LongestDelays(m) \div 10
  <2> DEFINE x == MaxRetries * Timeout
             y == LongestDelays(m)
  <2>1. x \in Nat /\ y \in Nat /\ 10 * spent <= 10 * x + y
    BY <1>3, <1>4, <1>5
  <2> HIDE DEF x, y
  <2>2. spent <= x + y \div 10
    BY <1>2, <2>1
  <2>3. QED
    BY <2>2 DEF x, y
<1>8. QED
  BY <1>6, <1>7 DEF spent

(* What a call has used up by its current timer is bounded.               *)
THEOREM BudgetCorrect == Spec => []BudgetInv
<1>1. QED
  BY BudgetInit, BudgetStep, PTL DEF Spec

(* The cache and the calls are well formed, and no call makes more         *)
(* attempts than it may.                                                   *)
THEOREM TypeCorrect == Spec => []TypeOK
<1>1. BudgetInv => TypeOK
  BY DEF BudgetInv
<1>2. QED
  BY <1>1, BudgetCorrect, PTL

(* No call of the upstream outlasts its timeouts and its delays together,  *)
(* for any number of attempts, timeout and first delay.                    *)
THEOREM CallsEndInTime == Spec => []CallEndsInTime
<1>1. BudgetInv => CallEndsInTime
  <2> SUFFICES ASSUME BudgetInv, NEW c \in DOMAIN requests
               PROVE  time - requests[c].started <= Budget
    BY DEF CallEndsInTime
  <2>1. time \in Nat /\ CallInv(requests[c], time)
    BY InvParts DEF CallsInv, BudgetInv, TypeOK
  <2>2. QED
    BY <2>1, WithinIsInTime
<1>2. QED
  BY <1>1, BudgetCorrect, PTL
============================================================================
