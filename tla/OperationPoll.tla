--------------------------- MODULE OperationPoll ---------------------------
(***************************************************************************)
(* ExoscaleClient.wait_operation (client.py): wait for an asynchronous      *)
(* operation of the server to settle.                                      *)
(*                                                                         *)
(* Time is discrete and starts at 0 when the loop computes its deadline.   *)
(* A poll takes up to RequestTimeout, a sleep exactly PollInterval, and    *)
(* the deadline is looked at only between them.  The operation settles     *)
(* whenever it likes, the client learns of it only through a poll.         *)
(***************************************************************************)
EXTENDS Integers, Sequences

CONSTANTS
    Timeout,           \* timeout=, or ClientConfig.operation_timeout
    PollInterval,      \* poll_interval=
    RequestTimeout,    \* ClientConfig.timeout, the longest a poll lasts
    MaxPollFailures,   \* ClientConfig.max_poll_failures
    Horizon            \* a bound: the last instant of a behaviour

ASSUME TimeAssumption ==
    /\ Timeout \in Nat
    /\ PollInterval \in Nat \ {0}
    /\ RequestTimeout \in Nat
ASSUME ToleranceAssumption == MaxPollFailures \in Nat
\* The clock stops only after every call that keeps to its deadline is over.
ASSUME HorizonAssumption ==
    Horizon \in Nat /\ Horizon >= Timeout + RequestTimeout + PollInterval

VARIABLES
    pc,         \* where wait_operation is
    hasId,      \* TRUE when the operation handed in carries an id
    last,       \* the state of the last Operation seen (first: the given one)
    failures,   \* consecutive_failures
    outcome,    \* how the call ended
    now,        \* the clock
    since,      \* when the current poll or sleep began
    op,         \* the operation's state on the server
    settledAt,  \* when it settled, or Never
    polls       \* what each poll brought, oldest first

vars == <<pc, hasId, last, failures, outcome, now, since, op, settledAt, polls>>

-----------------------------------------------------------------------------
Settled == {"success", "failure", "timeout", "interrupted"}
Blank == "blank"             \* an answer without a state
Transient == "transient"     \* a poll that failed in a tolerated way
Never == -1

Bodies == Settled \cup {"pending", Blank}
Outcomes == {"none", "operation", "as_given", "operation_error",
             "operation_timeout", "poll_error", "fatal_error"}

\* The operation handed in shows the server's state at that moment, or none.
Init ==
    /\ pc = "start"
    /\ hasId \in BOOLEAN
    /\ op \in Settled \cup {"pending"}
    /\ settledAt = IF op = "pending" THEN Never ELSE 0
    /\ last \in {op, Blank}
    /\ failures = 0
    /\ outcome = "none"
    /\ now = 0
    /\ since = 0
    /\ polls = <<>>

\* Slip: whatever is not pending is taken for a success.
SucceededSlip(state) == state # "pending"

Succeeded(state) == state = "success"

\* Slip: "interrupted" is forgotten among the failures.
FailedSlip(state) == state \in {"failure", "timeout"}

\* _raise_if_failed.
Failed(state) == state \in {"failure", "timeout", "interrupted"}

\* Slip: one failure too few is tolerated.
TooManyEarly(n) == n >= MaxPollFailures

TooMany(n) == n > MaxPollFailures

\* Slips: the deadline moves on with the clock; it takes the sleep that would
\* follow into account, twice.
BeforeMovingDeadline == TRUE
BeforeEarlyDeadline == now + 2 * PollInterval < Timeout

BeforeDeadline == now < Timeout

Finish(o) ==
    /\ pc' = "done"
    /\ outcome' = o

-----------------------------------------------------------------------------
(* The client. *)

\* _raise_if_failed(given): the states that are a failure.
GivenFailed ==
    /\ pc = "start" /\ Failed(last)
    /\ Finish("operation_error")
    /\ UNCHANGED <<hasId, last, failures, now, since, op, settledAt, polls>>

GivenSucceeded ==
    /\ pc = "start" /\ Succeeded(last)
    /\ Finish("operation")
    /\ UNCHANGED <<hasId, last, failures, now, since, op, settledAt, polls>>

\* Nothing to wait on: what was given is returned as it is.
GivenWithoutId ==
    /\ pc = "start" /\ ~Failed(last) /\ ~Succeeded(last) /\ ~hasId
    /\ Finish("as_given")
    /\ UNCHANGED <<hasId, last, failures, now, since, op, settledAt, polls>>

StartPolling ==
    /\ pc = "start" /\ ~Failed(last) /\ ~Succeeded(last) /\ hasId
    /\ pc' = "check"
    /\ UNCHANGED <<hasId, last, failures, outcome, now, since, op, settledAt,
                   polls>>

\* The loop condition, and the exception after the loop.
CheckDeadline ==
    /\ pc = "check"
    /\ \/ /\ BeforeDeadline
          /\ pc' = "poll"
          /\ since' = now
          /\ UNCHANGED outcome
       \/ /\ ~BeforeDeadline
          /\ Finish("operation_timeout")
          /\ UNCHANGED since
    /\ UNCHANGED <<hasId, last, failures, now, op, settledAt, polls>>

Sleep ==
    /\ pc' = "sleep"
    /\ since' = now
    /\ UNCHANGED outcome

\* What a poll that began at since may report now: the state the operation has,
\* or had when the server looked, or a body without one.
Reported ==
    {op, Blank} \cup (IF settledAt >= since THEN {"pending"} ELSE {})

\* A poll brings a body: the failure count starts again, and a settled state
\* ends the wait.
PollBody ==
    /\ pc = "poll"
    /\ \E state \in Reported :
          /\ last' = state
          /\ polls' = Append(polls, state)
          /\ CASE Succeeded(state) -> Finish("operation") /\ UNCHANGED since
               [] Failed(state) ->
                     Finish("operation_error") /\ UNCHANGED since
               [] OTHER -> Sleep
    /\ failures' = 0
    /\ UNCHANGED <<hasId, now, op, settledAt>>

\* A dropped connection, a timeout, a retryable status or a 404: tolerated up to
\* MaxPollFailures times in a row.
PollFails ==
    /\ pc = "poll"
    /\ polls' = Append(polls, Transient)
    /\ failures' = failures + 1
    /\ IF TooMany(failures + 1)
       THEN Finish("poll_error") /\ UNCHANGED since
       ELSE Sleep
    /\ UNCHANGED <<hasId, last, now, op, settledAt>>

\* Any other APIError (a 403), or a body that is no Operation.
PollRefused ==
    /\ pc = "poll"
    /\ Finish("fatal_error")
    /\ UNCHANGED <<hasId, last, failures, now, since, op, settledAt, polls>>

Wake ==
    /\ pc = "sleep" /\ now = since + PollInterval
    /\ pc' = "check"
    /\ UNCHANGED <<hasId, last, failures, outcome, now, since, op, settledAt,
                   polls>>

Client ==
    \/ GivenFailed
    \/ GivenSucceeded
    \/ GivenWithoutId
    \/ StartPolling
    \/ CheckDeadline
    \/ PollBody
    \/ PollFails
    \/ PollRefused
    \/ Wake

-----------------------------------------------------------------------------
(* Time passes in polls and sleeps; the operation settles on the server     *)
(* (external).                                                             *)

Tick ==
    /\ now < Horizon
    /\ \/ pc = "poll" /\ now < since + RequestTimeout
       \/ pc = "sleep" /\ now < since + PollInterval
    /\ now' = now + 1
    /\ UNCHANGED <<pc, hasId, last, failures, outcome, since, op, settledAt,
                   polls>>

Settle ==
    /\ op = "pending"
    /\ op' \in Settled
    /\ settledAt' = now
    /\ UNCHANGED <<pc, hasId, last, failures, outcome, now, since, polls>>

Next == Client \/ Tick \/ Settle

\* The client runs and the clock does not stop; the operation need not settle.
Fairness == WF_vars(Client) /\ WF_vars(Tick)

Spec == Init /\ [][Next]_vars
FairSpec == Spec /\ Fairness

-----------------------------------------------------------------------------
(* Properties. *)

\* The variables stay in their types.
TypeOK ==
    /\ pc \in {"start", "check", "poll", "sleep", "done"}
    /\ hasId \in BOOLEAN
    /\ last \in Bodies
    /\ failures \in 0 .. MaxPollFailures + 1
    /\ outcome \in Outcomes
    /\ now \in Nat
    /\ since \in Nat
    /\ op \in Settled \cup {"pending"}
    /\ settledAt \in Nat \cup {Never}
    /\ polls \in Seq(Bodies \cup {Transient})

\* wait_operation returns an operation only if it has succeeded on the server,
\* and raises OperationError only with the failure the server has settled on.
VerdictIsTheServers ==
    /\ outcome = "operation" => op = "success"
    /\ outcome = "operation_error" => op # "success" /\ last = op

\* A poll failure is surfaced only after more than MaxPollFailures failures with
\* no successful poll among them (consecutive_failures is reset by each).
HiccupsAreTolerated ==
    outcome = "poll_error" =>
        /\ Len(polls) > MaxPollFailures
        /\ \A i \in Len(polls) - MaxPollFailures .. Len(polls) :
               polls[i] = Transient

\* A settled state that a poll has brought is never passed over: it ends the
\* wait there and then, with the matching result.
VerdictIsActedOn ==
    \A i \in 1 .. Len(polls) : polls[i] \in Settled =>
        /\ i = Len(polls)
        /\ outcome = IF polls[i] = "success"
                     THEN "operation" ELSE "operation_error"

\* The call outlives its deadline by one poll and one sleep at most.
BoundedOvershoot ==
    now = 0 \/ now < Timeout + RequestTimeout + PollInterval

\* OperationTimeoutError after an undisturbed last poll misses a verdict only if
\* it fell in the last poll and sleep before the deadline.
OnlyLateVerdictsAreMissed ==
    outcome = "operation_timeout" /\ failures = 0 /\ last = "pending" =>
        \/ settledAt = Never
        \/ settledAt + RequestTimeout + PollInterval >= Timeout

\* The wait ends, whether or not the operation ever settles.
Terminates == <>(pc = "done")

-----------------------------------------------------------------------------
\* "Raises OperationTimeoutError if it does not complete within timeout": an
\* operation that had settled before the deadline is not reported as one that
\* "did not complete in time", if no poll failed and the last one saw it pending.
TimeoutMeansIncomplete ==
    outcome = "operation_timeout" /\ failures = 0 /\ last = "pending" =>
        settledAt = Never \/ settledAt >= Timeout
=============================================================================
