-------------------------- MODULE UpstreamClient ---------------------------
(***************************************************************************)
(* A call of the upstream as the Worker's client makes it: request() of    *)
(* workers/src/client.ts.  A call is an attempt that is sent and answered, *)
(* or a delay before the next attempt.  The abort timer of an attempt and  *)
(* the timer of a delay fire on time: time does not pass an `until`.       *)
(*                                                                         *)
(* Whoever calls keeps what it wants to know of the call in `note`.        *)
(***************************************************************************)
EXTENDS Integers

CONSTANTS
    Callers,             \* concurrent calls of the client
    MaxRetries,          \* maxRetries: attempts of a call
    Timeout,             \* timeoutMs
    BackoffBase          \* the first delay, half a second in the code

ASSUME ClientAssumption ==
    /\ MaxRetries \in Nat \ {0}
    /\ Timeout \in Nat \ {0}
    /\ BackoffBase \in Nat \ {0}

VARIABLES
    time,                \* the clock
    requests             \* the calls under way: caller -> locals of request()

With(f, x, v) == [y \in DOMAIN f \cup {x} |-> IF y = x THEN v ELSE f[y]]
Without(f, S) == [y \in DOMAIN f \ S |-> f[y]]

(* What comes of an attempt: rows; an end of the call (another resultCode, *)
(* or a status that is not retryable); or one more attempt (a retryable    *)
(* status, a body that is not JSON, no answer because the network failed   *)
(* or the timer aborted it).  The catch rethrows only errors that carry a  *)
(* resultCode, and that of a body that is not JSON does not.               *)
Final == {"refused", "rejected"}
Retried == {"busy", "garbled", "lost"}

(* `base + random * base * 0.3`                                            *)
Delays_slipDoubled(attempt) ==
    LET base == BackoffBase * 2 ^ attempt IN base..(base + (3 * base) \div 10)
Delays(attempt) ==
    LET base == BackoffBase * 2 ^ (attempt - 1) IN base..(base + (3 * base) \div 10)

(* The longest a call can take: every attempt times out, and every delay   *)
(* is the longest of its kind.                                             *)
Budget == MaxRetries * Timeout + (13 * BackoffBase * (2 ^ (MaxRetries - 1) - 1)) \div 10

Sent(c) == c \in DOMAIN requests /\ requests[c].at = "sent"
Delayed(c) == c \in DOMAIN requests /\ requests[c].at = "delayed"

Send(c, note) ==
    requests' = With(requests, c, [at |-> "sent", attempt |-> 1, since |-> time,
                                   until |-> time + Timeout, started |-> time, note |-> note])

IsLastAttempt_slipOneMore(c) == requests[c].attempt > MaxRetries
IsLastAttempt(c) == requests[c].attempt >= MaxRetries

(* The call ends, in rows or in an error.                                  *)
Return(c) == Sent(c) /\ requests' = Without(requests, {c})
Throws(c, reply) == reply \in Retried => IsLastAttempt(c)

BackOff(c, reply) ==
    /\ Sent(c)
    /\ ~Throws(c, reply)
    /\ \E delay \in Delays(requests[c].attempt) :
         requests' = [requests EXCEPT ![c].at = "delayed", ![c].until = time + delay]

Resend_slipCountsAgain(c) ==
    /\ Delayed(c) /\ time = requests[c].until
    /\ requests' = [requests EXCEPT ![c].at = "sent", ![c].attempt = 1,
                                    ![c].since = time, ![c].until = time + Timeout]
Resend(c) ==
    /\ Delayed(c) /\ time = requests[c].until
    /\ requests' = [requests EXCEPT ![c].at = "sent", ![c].attempt = @ + 1,
                                    ![c].since = time, ![c].until = time + Timeout]

(* Time passes, up to the next timer.                                      *)
Elapse ==
    /\ \A c \in DOMAIN requests : time < requests[c].until
    /\ time' = time + 1
    /\ UNCHANGED requests

----------------------------------------------------------------------------
(* The longest call has an end in sight: however its attempts fail, it has *)
(* not lasted longer than its timeouts and its delays together.            *)
CallEndsInTime == \A c \in DOMAIN requests : time - requests[c].started <= Budget
============================================================================
