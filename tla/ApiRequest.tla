----------------------------- MODULE ApiRequest -----------------------------
(***************************************************************************)
(* One call of ExoscaleClient.request (client.py): the retry loop, the     *)
(* wire under it and the server behind it.                                 *)
(*                                                                         *)
(* The loop sends attempt 0, 1, ... of the same request.  An attempt that  *)
(* has been sent is out of the client's hands: the server may execute it,  *)
(* refuse it, or execute it only after the client has lost the connection, *)
(* slept, and sent the next one.  The client sees a status or a transport  *)
(* exception, and decides from that, the verb and the budget alone.        *)
(***************************************************************************)
EXTENDS Integers

CONSTANTS
    MaxRetries,           \* ClientConfig.max_retries
    RetryableIdempotent,  \* ClientConfig.retryable_statuses_idempotent
    RetryableMutating,    \* ClientConfig.retryable_statuses_mutating
    Statuses,             \* the HTTP statuses the server may answer
    Refusals,             \* the statuses that exclude execution (429, 404, ...)
    RetryAfter,           \* the Retry-After values, in seconds, it may send
    Backoff,              \* ClientConfig.retry_backoff
    MaxRetryAfter         \* _MAX_RETRY_AFTER

SuccessStatuses == {200, 201, 202, 204}

ASSUME BudgetAssumption == MaxRetries \in Nat
ASSUME StatusAssumption ==
    /\ Statuses \subseteq Nat \ {0}
    /\ Refusals \subseteq Statuses \ SuccessStatuses
\* The default {429}: only a status that excludes execution is retried for POST.
ASSUME MutatingAssumption == RetryableMutating \subseteq Refusals
ASSUME DelayAssumption ==
    /\ RetryAfter \subseteq Nat
    /\ Backoff \in Nat
    /\ MaxRetryAfter \in Nat

VARIABLES
    verb,      \* the method, upper-cased
    budget,    \* the retries this call may make
    attempt,   \* the loop's counter
    pc,        \* where the client is
    answer,    \* the status that is on its way to the client, or None
    outcome,   \* how the call ended
    slept,     \* seconds slept between attempts so far
    fate       \* what has become of each attempt on the server's side

vars == <<verb, budget, attempt, pc, answer, outcome, slept, fate>>

-----------------------------------------------------------------------------
IdempotentMethods == {"GET", "HEAD", "OPTIONS", "DELETE", "PUT"}
Methods == IdempotentMethods \cup {"POST"}

Attempts == 0 .. MaxRetries
None == 0                              \* no status

\* Slip: every verb is taken for idempotent.
IdempotentSlip(v) == v \in Methods

Idempotent(v) == v \in IdempotentMethods

\* Slip: any answer below 500 is taken for a success.
SucceedsSlip(s) == s # None /\ s < 500

Succeeds(s) == s \in SuccessStatuses

Retryable(v) == IF Idempotent(v) THEN RetryableIdempotent ELSE RetryableMutating

\* Slips: POST is retried too; one retry too few; one too many.
RetriesAnyTransport == attempt < budget
RetriesTransportEarly == Idempotent(verb) /\ attempt + 1 < budget
RetriesTransportLate == Idempotent(verb) /\ attempt <= budget

\* After a transport exception only an idempotent verb is sent again.
RetriesTransport == Idempotent(verb) /\ attempt < budget

AtMost(a, b) == IF a <= b THEN a ELSE b

\* backoff * 2^attempt.
BackoffCap[n \in Attempts] == IF n = 0 THEN Backoff ELSE 2 * BackoffCap[n - 1]

\* _backoff_delay: full jitter, anything up to the cap.
BackoffDelays(n) == 0 .. BackoffCap[n]

\* Slip: the header is obeyed without the cap.
RetryDelaysSlip(n) == RetryAfter \cup BackoffDelays(n)

\* _retry_delay: a Retry-After in seconds wins, capped; without one, jitter.
RetryDelays(n) ==
    {AtMost(h, MaxRetryAfter) : h \in RetryAfter} \cup BackoffDelays(n)

Outcomes == {"pending", "body", "not_found", "api_error",
             "transport_error", "other_error"}
Fates == {"unsent", "flying", "landed", "dropped"}

\* The attempts the server has executed.
Landed == {a \in Attempts : fate[a] = "landed"}

Init ==
    /\ verb \in Methods
    /\ budget \in {MaxRetries, 0}      \* max_retries=None, or the polls' 0
    /\ attempt = 0
    /\ pc = "send"
    /\ answer = None
    /\ outcome = "pending"
    /\ slept = 0
    /\ fate = [a \in Attempts |-> "unsent"]

-----------------------------------------------------------------------------
(* The client. *)

Send ==
    /\ pc = "send"
    /\ pc' = "wait"
    /\ fate' = [fate EXCEPT ![attempt] = "flying"]
    /\ UNCHANGED <<verb, budget, attempt, answer, outcome, slept>>

Finish(o) ==
    /\ pc' = "done"
    /\ outcome' = o
    /\ UNCHANGED <<verb, budget, attempt, answer, slept, fate>>

\* Slip: the retry is not counted.
RetryUncounted(delays) ==
    /\ 0 \in delays
    /\ answer' = None
    /\ pc' = "send"
    /\ UNCHANGED <<verb, budget, attempt, outcome, slept, fate>>

Retry(delays) ==
    /\ \E d \in delays : slept' = slept + d
    /\ attempt' = attempt + 1
    /\ answer' = None
    /\ pc' = "send"
    /\ UNCHANGED <<verb, budget, outcome, fate>>

\* session.request raised one of _TRANSIENT_EXCEPTIONS: the connection could
\* not be made, or it broke or timed out before the answer was read.  Nothing
\* is known of the attempt.
TransportFails ==
    /\ pc \in {"send", "wait"}
    /\ IF RetriesTransport
       THEN Retry(BackoffDelays(attempt))
       ELSE Finish("transport_error")

\* Any other exception of the session (a bad URL, too many redirects).
OtherException ==
    /\ pc \in {"send", "wait"}
    /\ Finish("other_error")

ReceiveSuccess ==
    /\ pc = "wait" /\ Succeeds(answer)
    /\ Finish("body")

ReceiveRetryable ==
    /\ pc = "wait" /\ answer # None /\ ~Succeeds(answer)
    /\ answer \in Retryable(verb) /\ attempt < budget
    /\ Retry(RetryDelays(attempt))

\* _raise_for_response.
ReceiveError ==
    /\ pc = "wait" /\ answer # None /\ ~Succeeds(answer)
    /\ ~(answer \in Retryable(verb) /\ attempt < budget)
    /\ Finish(IF answer = 404 THEN "not_found" ELSE "api_error")

Client ==
    \/ Send
    \/ TransportFails
    \/ OtherException
    \/ ReceiveSuccess
    \/ ReceiveRetryable
    \/ ReceiveError

-----------------------------------------------------------------------------
(* The server and the wire (external).  An attempt nobody waits for any     *)
(* more may still be executed.                                             *)

Land(a) ==
    /\ fate[a] = "flying"
    /\ fate' = [fate EXCEPT ![a] = "landed"]
    /\ UNCHANGED <<verb, budget, attempt, pc, answer, outcome, slept>>

Drop(a) ==
    /\ fate[a] = "flying"
    /\ fate' = [fate EXCEPT ![a] = "dropped"]
    /\ UNCHANGED <<verb, budget, attempt, pc, answer, outcome, slept>>

\* The server answers the attempt the client waits for: a success once the
\* request is executed, a refusal once it is certain that it is not, anything
\* else (a gateway's 502 or 504, a 500 halfway) at any point.
Answer(s) ==
    /\ pc = "wait" /\ answer = None
    /\ s \in SuccessStatuses => fate[attempt] = "landed"
    /\ s \in Refusals => fate[attempt] = "dropped"
    /\ answer' = s
    /\ UNCHANGED <<verb, budget, attempt, pc, outcome, slept, fate>>

Server ==
    \/ \E a \in Attempts : Land(a) \/ Drop(a)
    \/ \E s \in Statuses : Answer(s)

Next == Client \/ Server

\* Every HTTP call has a timeout, so a client that waits is always woken; the
\* server owes nothing.
Fairness == WF_vars(Client)

Spec == Init /\ [][Next]_vars
FairSpec == Spec /\ Fairness

-----------------------------------------------------------------------------
(* Properties. *)

\* The variables stay in their types; the counter stays within the budget.
TypeOK ==
    /\ verb \in Methods
    /\ budget \in {MaxRetries, 0}
    /\ attempt \in 0 .. budget
    /\ pc \in {"send", "wait", "done"}
    /\ answer \in Statuses \cup {None}
    /\ outcome \in Outcomes
    /\ slept \in Nat
    /\ fate \in [Attempts -> Fates]

\* The no-duplicate-mutation guarantee of the method split in request(): a POST
\* is executed at most once, however its attempts are delayed and whatever the
\* client is told.
NoDuplicateMutation ==
    verb = "POST" => \A a, b \in Landed : a = b

\* A body is returned for a request the server has executed, and a POST's body
\* is that of its only execution (request() returns on a success status only).
BodyMeansLanded ==
    outcome = "body" =>
        /\ attempt \in Landed
        /\ verb = "POST" => Landed = {attempt}

\* A POST that raises on a refusal (a 4xx) leaves nothing behind: no attempt of
\* it was executed, and none is still on the wire to be executed later.  This is
\* what lets a caller treat such an error as "nothing happened".
RefusedMeansNothingLeft ==
    /\ verb = "POST"
    /\ outcome \in {"not_found", "api_error"}
    /\ answer \in Refusals
    => \A a \in Attempts : fate[a] \in {"unsent", "dropped"}

\* An idempotent call surfaces a transient failure only when its whole budget is
\* spent: one hiccup does not abort a call that may be retried.
BudgetIsSpent ==
    Idempotent(verb) =>
        /\ outcome = "transport_error" => attempt = budget
        /\ outcome \in {"not_found", "api_error"} /\ answer \in Retryable(verb)
           => attempt = budget

\* The sleeps of a call are bounded by its retries, whatever Retry-After says
\* (the cap of _retry_delay).
BoundedStall ==
    slept <= attempt * (MaxRetryAfter + BackoffCap[attempt])

\* Every call ends: in a body or in an exception.
Terminates == <>(pc = "done")

\* What the outcome tells the caller about the mutation.
Told ==
    CASE outcome = "pending" -> "open"
      [] outcome = "body" -> "done"
      [] outcome \in {"not_found", "api_error"} /\ answer \in Refusals -> "refused"
      [] OTHER -> "unknown"

Contract == INSTANCE CallContract WITH
    Tags <- Attempts,
    once <- verb = "POST",
    effects <- Landed,
    verdict <- Told

\* Whatever the wire does, the call keeps the promise of CallContract to its
\* caller: executed at most once if it is a POST, and reported accordingly.
ImplementsCallContract == Contract!Spec

-----------------------------------------------------------------------------
(* What the documentation says of retried idempotent verbs. *)

\* "Idempotent verbs (GET, HEAD, OPTIONS, PUT, DELETE) retry ...  re-issuing
\* them is safe": one call of an action endpoint (PUT instance/<id>:reboot)
\* has one effect.
ReissuedActionRunsOnce ==
    verb = "PUT" => \A a, b \in Landed : a = b

\* "A single transient hiccup must not abort a script": a DELETE that the server
\* has carried out for this call is not raised as NotFoundError.
ReissuedDeleteIsNotMissing ==
    verb = "DELETE" /\ outcome = "not_found" => Landed = {}
=============================================================================
