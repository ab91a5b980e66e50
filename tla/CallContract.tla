---------------------------- MODULE CallContract ----------------------------
(***************************************************************************)
(* What one call of the connector promises about the server, whatever      *)
(* happens on the wire: an abstract specification that ApiRequest (the     *)
(* retry loop of ExoscaleClient.request) is shown to implement.            *)
(*                                                                         *)
(* A call has a single mutation if its verb is not idempotent, and any     *)
(* number of equal ones otherwise.  Its effects are the tags of the        *)
(* executions the server made for it; an execution may land long after     *)
(* the caller has its answer, unless that answer was a clean refusal.      *)
(***************************************************************************)
CONSTANT Tags          \* names of the executions one call may cause

VARIABLES
    once,              \* TRUE when the call must be executed at most once
    effects,           \* the executions that have landed on the server
    verdict            \* what the caller has been told so far

Verdicts == {"open",       \* the call has not returned
             "done",       \* returned a body: the mutation is on the server
             "refused",    \* raised on an answer that excludes execution
             "unknown"}    \* raised without knowing: it may land, even later

vars == <<once, effects, verdict>>

Init ==
    /\ once \in BOOLEAN
    /\ effects = {}
    /\ verdict = "open"

\* One more execution lands: the first one, or a repetition of an idempotent
\* call.  A refused call that must run at most once does not land any more.
Land(t) ==
    /\ t \notin effects
    /\ once => effects = {} /\ verdict # "refused"
    /\ effects' = effects \cup {t}
    /\ UNCHANGED <<once, verdict>>

\* The caller is told that it worked only if it did.
ReturnDone ==
    /\ verdict = "open"
    /\ effects # {}
    /\ verdict' = "done"
    /\ UNCHANGED <<once, effects>>

\* A call that must run at most once is reported refused only if it never ran.
ReturnRefused ==
    /\ verdict = "open"
    /\ once => effects = {}
    /\ verdict' = "refused"
    /\ UNCHANGED <<once, effects>>

ReturnUnknown ==
    /\ verdict = "open"
    /\ verdict' = "unknown"
    /\ UNCHANGED <<once, effects>>

Next ==
    \/ \E t \in Tags : Land(t)
    \/ ReturnDone
    \/ ReturnRefused
    \/ ReturnUnknown

Spec == Init /\ [][Next]_vars
=============================================================================
