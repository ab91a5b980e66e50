--------------------------- MODULE ResourceTracker ---------------------------
(***************************************************************************)
(* The tracker of the live tests (tests/integration/_fixtures.py): a test  *)
(* provisions resources, registers a deleter for each, deletes some of     *)
(* them itself, and may fail anywhere; then the fixture sweeps the rest.   *)
(*                                                                         *)
(* Each resource lives in the one provisioned before it (a VPC, its        *)
(* subnet, its route): it cannot be deleted while a later one lives.       *)
(***************************************************************************)
EXTENDS Integers, Sequences, SequencesExt

CONSTANT MaxResources      \* a bound: resources a test provisions

ASSUME ResourcesAssumption == MaxResources \in Nat

VARIABLES
    phase,      \* the test runs, the sweep runs, or it is over
    made,       \* the resources provisioned so far are 1 .. made
    alive,      \* those that exist
    items,      \* the registered ones, in order
    results,    \* the sweep's: whose, and whether it was swept
    faults      \* those whose deletion the server has refused in the sweep

trackerVars == <<phase, made, alive, items, results, faults>>
Registered == ToSet(items)

TrackerInit ==
    /\ phase = "test"
    /\ made = 0 /\ alive = {} /\ items = <<>>
    /\ results = <<>> /\ faults = {}

Deletable(r) == r \in alive /\ \A s \in alive : s <= r

\* One is provisioned in the last, which is registered by then.
Provision ==
    /\ phase = "test" /\ made < MaxResources
    /\ alive = 1 .. made /\ alive \subseteq Registered
    /\ made' = made + 1 /\ alive' = alive \cup {made + 1}
    /\ UNCHANGED <<phase, items, results, faults>>

\* What has been provisioned is registered next, unless the test fails first.
Register ==
    /\ phase = "test" /\ made \in alive /\ made \notin Registered
    /\ items' = Append(items, made)
    /\ UNCHANGED <<phase, made, alive, results, faults>>

\* The test deletes one itself and, once that has worked, unregisters it; each
\* is registered once.
Delete(r) ==
    /\ phase = "test" /\ r \in Registered /\ Deletable(r)
    /\ alive' = alive \ {r}
    /\ UNCHANGED <<phase, made, items, results, faults>>

Unregister(r) ==
    /\ phase = "test" /\ r \notin alive
    /\ \E i \in DOMAIN items : items[i] = r /\ items' = RemoveAt(items, i)
    /\ UNCHANGED <<phase, made, alive, results, faults>>

\* Slip: in the order of the registrations.
SweepOrderSlip(s) == s

SweepOrder(s) == Reverse(s)

\* The test passes, or fails at any point: the fixture goes on to the sweep.
TestEnds ==
    /\ phase = "test"
    /\ phase' = "sweep"
    /\ items' = SweepOrder(items)
    /\ UNCHANGED <<made, alive, results, faults>>

Swept(ok) ==
    /\ items' = Tail(items)
    /\ results' = Append(results, [item |-> Head(items), ok |-> ok])

\* A deleter works; or raises, because the resource is gone, holds another one,
\* or for any other reason, and the sweep goes on.
SweepDeletes ==
    /\ phase = "sweep" /\ items # <<>>
    /\ Deletable(Head(items))
    /\ alive' = alive \ {Head(items)}
    /\ Swept(TRUE)
    /\ UNCHANGED <<phase, made, faults>>

SweepFails ==
    /\ phase = "sweep" /\ items # <<>>
    /\ \/ ~Deletable(Head(items)) /\ UNCHANGED faults
       \/ Deletable(Head(items)) /\ faults' = faults \cup {Head(items)}
    /\ Swept(FALSE)
    /\ UNCHANGED <<phase, made, alive>>

SweepEnds ==
    /\ phase = "sweep" /\ items = <<>>
    /\ phase' = "over"
    /\ UNCHANGED <<made, alive, items, results, faults>>

\* Ctrl-C in a deleter is no Exception: the sweep ends there.
Interrupted ==
    /\ phase = "sweep" /\ items # <<>>
    /\ phase' = "interrupted"
    /\ UNCHANGED <<made, alive, items, results, faults>>

TrackerNext ==
    \/ Provision
    \/ Register
    \/ \E r \in 1 .. MaxResources : Delete(r) \/ Unregister(r)
    \/ TestEnds
    \/ SweepDeletes
    \/ SweepFails
    \/ SweepEnds
    \/ Interrupted

-----------------------------------------------------------------------------
(* Properties.                                                             *)

\* After a sweep a registered resource is left only if the server refused to
\* delete it, or one that lives in it was left (itself refused, or lost before
\* it was registered); and each that is left is reported as failed.
SweepIsThorough ==
    phase = "over" =>
        \A i \in DOMAIN results :
            LET r == results[i].item
            IN  r \in alive =>
                    /\ ~results[i].ok
                    /\ \/ r \in faults
                       \/ \E s \in alive : s > r
                             /\ (s \in faults \/ \A j \in DOMAIN results : results[j].item # s)
=============================================================================
