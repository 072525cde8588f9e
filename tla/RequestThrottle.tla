-------------------------- MODULE RequestThrottle --------------------------
(***************************************************************************)
(* Minimum-interval throttling under bounded retries.  One process calls   *)
(* the clients of several providers one after the other; clients of one    *)
(* account share a budget, which spaces every attempt of every call.  The  *)
(* throttle records the instant it computed, not the one it woke up at, so *)
(* each request may leave up to Slack later than recorded.                 *)
(***************************************************************************)
EXTENDS Integers, Sequences

CONSTANTS
    Clients,
    BudgetOf,       \* the account each client's throttle counts against
    MinInterval,    \* per budget, the spacing of its requests
    Delays,         \* RETRY_DELAYS_SECONDS
    RetryAfter,     \* what a 429 may ask for; 0: nothing usable
    BlockDuration,  \* SEC's own wait when it asks for nothing usable
    Edgar,          \* the clients with EDGAR's retry policy
    Slack,          \* bound on oversleep and on time lost before a request
    MaxNow, MaxRequests \* bounds on the clock and on the requests of a budget

Budgets == {BudgetOf[c] : c \in Clients}

ASSUME ThrottleAssumption ==
    /\ MinInterval \in [Budgets -> Nat]
    /\ Delays \in Seq(Nat) /\ RetryAfter \subseteq Nat
    /\ {BlockDuration, Slack, MaxNow, MaxRequests} \subseteq Nat
    /\ Edgar \subseteq Clients

VARIABLES
    now,            \* the monotonic clock
    lastRequestAt,  \* per budget, the recorded instant; Unset before the first
    call,           \* the call in progress: client, attempt, what it waits for,
                    \* and until when its last 429 asked it to wait (history)
    issued,         \* per budget, when its requests really left (history)
    blockedUntil    \* per client, until when the last 429 asked it to wait (history)

throttleVars == <<now, lastRequestAt, call, issued, blockedUntil>>

Unset == -1
NoCall == [pc |-> "idle", client |-> Unset, attempt |-> 0, until |-> 0]

ThrottleInit ==
    /\ now = 0
    /\ lastRequestAt = [b \in Budgets |-> Unset]
    /\ call = NoCall
    /\ issued = [b \in Budgets |-> <<>>]
    /\ blockedUntil = [c \in Clients |-> 0]

(* MinIntervalThrottle.before_request at instant `now`.                    *)
Wait(b) ==
    IF lastRequestAt[b] = Unset \/ now - lastRequestAt[b] >= MinInterval[b]
    THEN 0 ELSE MinInterval[b] - (now - lastRequestAt[b])

(* A bug: the reading from before the sleep is recorded.                   *)
IssuedAtUnslept(b) == now

IssuedAt(b) == now + Wait(b)

(* The call's clients: one call at a time.                                 *)
Call(c) ==
    /\ call.pc = "idle"
    /\ call' = [pc |-> "attempt", client |-> c, attempt |-> 1, until |-> 0]
    /\ UNCHANGED <<now, lastRequestAt, issued, blockedUntil>>

(* One attempt of retry_external_call: wait out the interval, record the   *)
(* instant, and send the request, a little later than recorded.            *)
Attempt ==
    /\ call.pc = "attempt"
    /\ LET b == BudgetOf[call.client] IN
       /\ Len(issued[b]) < MaxRequests
       /\ \E late \in 0..Slack :
             /\ now' = now + Wait(b) + late
             /\ now' <= MaxNow
             /\ issued' = [issued EXCEPT ![b] = Append(@, now')]
       /\ lastRequestAt' = [lastRequestAt EXCEPT ![b] = IssuedAt(b)]
    /\ call' = [call EXCEPT !.pc = "answer"]
    /\ UNCHANGED blockedUntil

(* The answer, or an error that is not retried or was the last attempt's.  *)
Return ==
    /\ call.pc = "answer"
    /\ call' = NoCall
    /\ UNCHANGED <<now, lastRequestAt, issued, blockedUntil>>

(* How long a 429 blocks: what it asks for, or the provider's own duration. *)
Block(retryAfter) == IF retryAfter > 0 THEN retryAfter ELSE BlockDuration

(* A bug: a 429 without a usable Retry-After is retried like the others.   *)
EdgarRetryDelayOrDefault(retryAfter, default) ==
    IF retryAfter > 0 THEN retryAfter ELSE default

EdgarRetryDelay(retryAfter, default) == Block(retryAfter)

(* Back off before the next attempt, unless this was the last.             *)
BackOff(delay, until) ==
    IF call.attempt <= Len(Delays)
    THEN /\ now' = now + delay
         /\ now' <= MaxNow
         /\ call' = [call EXCEPT !.pc = "attempt", !.attempt = @ + 1,
                                !.until = until]
    ELSE /\ call' = NoCall
         /\ UNCHANGED now

DefaultDelay ==
    IF call.attempt \in DOMAIN Delays THEN Delays[call.attempt] ELSE 0

(* A transport error, a 408, a 5xx, or another provider's 429.             *)
RetryableError ==
    /\ call.pc = "answer"
    /\ BackOff(DefaultDelay, call.until)
    /\ UNCHANGED <<lastRequestAt, issued, blockedUntil>>

TooManyRequests ==
    /\ call.pc = "answer" /\ call.client \in Edgar
    /\ \E r \in RetryAfter :
          /\ BackOff(EdgarRetryDelay(r, DefaultDelay), now + Block(r))
          /\ blockedUntil' = [blockedUntil EXCEPT ![call.client] = now + Block(r)]
    /\ UNCHANGED <<lastRequestAt, issued>>

(* Time passes between and during calls.                                   *)
Pass ==
    /\ call.pc # "attempt"
    /\ now < MaxNow
    /\ now' = now + 1
    /\ UNCHANGED <<lastRequestAt, call, issued, blockedUntil>>

ThrottleNext ==
    \/ Attempt \/ Return \/ RetryableError \/ TooManyRequests \/ Pass
    \/ \E c \in Clients : Call(c)

ThrottleSpec == ThrottleInit /\ [][ThrottleNext]_throttleVars

-----------------------------------------------------------------------------
ThrottleTypeOK ==
    /\ now \in Nat
    /\ lastRequestAt \in [Budgets -> Nat \cup {Unset}]
    /\ call \in [pc : {"idle", "attempt", "answer"}, client : Clients \cup {Unset},
                attempt : Nat, until : Nat]
    /\ call.pc # "idle" => call.client \in Clients
    /\ issued \in [Budgets -> Seq(Nat)]
    /\ blockedUntil \in [Clients -> Nat]

(* Any n+1 requests of one account span n intervals, but for one Slack:    *)
(* what the throttle leaves uncounted does not add up over retries, waits  *)
(* and the clients that share it.                                          *)
RateIsKept ==
    \A b \in Budgets : \A i, j \in DOMAIN issued[b] :
        i < j => issued[b][j] - issued[b][i] >= (j - i) * MinInterval[b] - Slack

(* EDGAR's docstring: while SEC blocks the client, a request extends the   *)
(* block.  A call's later attempts wait out every block it has met.        *)
RetriesWaitOutTheBlock ==
    [][Attempt => now >= call.until]_throttleVars

(* The same, for the blocks that ended earlier calls too.                  *)
NoRequestWhileBlocked ==
    [][Attempt => now >= blockedUntil[call.client]]_throttleVars
=============================================================================
