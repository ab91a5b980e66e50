--------------------------- MODULE ResourceClient ---------------------------
(***************************************************************************)
(* ResourceClient (resources/_base.py) used by provisioning scripts: each   *)
(* script makes calls of ensure, create, update and delete, one after the  *)
(* other; the scripts share the server's collection.                       *)
(*                                                                         *)
(* A request is one step here, with the three ends CallContract leaves it: *)
(* answered, refused, or unknown, when it may still land later.  Awaiting  *)
(* an operation ends as in OperationPoll: with the server's verdict, or    *)
(* without one.  Resources are known by an id the server draws, and have a *)
(* name, in one of several spellings, that the server does not keep unique.*)
(***************************************************************************)
EXTENDS Integers, FiniteSets

CONSTANTS
    Scripts,      \* the callers
    Spellings,    \* the names as payloads spell them
    Canon,        \* the name each spelling stands for: strip() and lower()
    Kinds,        \* the calls the scripts make
    Waits,        \* the wait= they pass: TRUE is the default
    MaxCalls,     \* a bound: calls in a behaviour
    MaxMixed,     \* a bound: calls in a behaviour of several scripts
    MaxId         \* a bound: resources ever created

ASSUME NameAssumption == Spellings # {} /\ Canon \in [Spellings -> Spellings]
ASSUME KindAssumption == Kinds \subseteq {"ensure", "create", "update", "delete"}
ASSUME WaitAssumption == Waits \subseteq BOOLEAN
ASSUME BoundAssumption ==
    MaxMixed \in Nat /\ MaxCalls \in Nat /\ MaxMixed <= MaxCalls /\ MaxId \in Nat

Ids == 1 .. MaxId
NoId == 0

VARIABLES
    life,       \* the life of each resource on the server
    name,       \* its name, as spelled at its creation
    origin,     \* the call that created it
    late,       \* requests with an unknown end, still on the wire
    undone,     \* the callers whose awaited deletion has failed
    pc,         \* where each script is in its call
    call,       \* the arguments of that call
    ref,        \* the resource its request or operation refers to
    outcome,    \* how its last call ended
    calls,      \* the calls begun so far
    doubt,      \* TRUE once a call has ended before its effect was settled
    overlap     \* TRUE once two calls have run at the same time

server == <<life, name, origin, late, undone>>
vars == <<life, name, origin, late, undone, pc, call, ref, outcome, calls,
          doubt, overlap>>

-----------------------------------------------------------------------------
(* The server (external).                                                  *)
(*   unused    -> building   a POST is accepted, its operation is pending  *)
(*   building  -> listed     the resource shows up before it is settled    *)
(*   listed    -> ready      the operation succeeds                        *)
(*   ...       -> failed     it fails, and takes the resource with it      *)
(*   ready     -> deleting   a DELETE is accepted, its operation pending   *)
(*   deleting  -> gone       the operation succeeds                        *)
(*   deleting  -> ready      it fails, and leaves the resource             *)

Lives == {"unused", "building", "listed", "ready", "failed", "deleting", "gone"}
Visible(i) == life[i] \in {"listed", "ready", "deleting"}
Unused == {i \in Ids : life[i] = "unused"}

Build == \E i \in Ids :
    /\ \/ life[i] = "building" /\ life' = [life EXCEPT ![i] = "listed"]
       \/ life[i] = "listed" /\ life' = [life EXCEPT ![i] = "ready"]
       \/ life[i] \in {"building", "listed"} /\ life' = [life EXCEPT ![i] = "failed"]
       \/ life[i] = "deleting" /\ life' = [life EXCEPT ![i] = "gone"]
    /\ UNCHANGED <<name, origin, late, undone, pc, call, ref, outcome, calls,
                   doubt, overlap>>

\* The calls that await the deletion of i now.
Deleters(i) == {s \in Scripts : pc[s] = "await_delete" /\ ref[s] = i}

\* A deletion fails, which is what those who wait for it will be told, though the
\* resource may be deleted again.
DeletionFails == \E i \in Ids :
    /\ life[i] = "deleting" /\ life' = [life EXCEPT ![i] = "ready"]
    /\ undone' = undone \cup Deleters(i)
    /\ UNCHANGED <<name, origin, late, pc, call, ref, outcome, calls, doubt,
                   overlap>>

\* A POST takes effect: a resource of that name is under way, whether or not
\* there is one already.  Some collections create at once.
Accept(kind, n, i, l) ==
    /\ i \in Unused /\ \A j \in Unused : i <= j
    /\ life' = [life EXCEPT ![i] = l]
    /\ name' = [name EXCEPT ![i] = n]
    /\ origin' = [origin EXCEPT ![i] = kind]
    /\ UNCHANGED undone

\* A DELETE takes effect; some collections delete at once.
Remove(i, l) ==
    /\ Visible(i)
    /\ life' = [life EXCEPT ![i] = l]
    /\ UNCHANGED <<name, origin, undone>>

\* A request whose caller has given up lands, or is lost for good.
LandLate == \E r \in late :
    /\ late' = late \ {r}
    /\ \/ /\ r.kind # "delete"
          /\ \E i \in Ids : Accept(r.kind, r.name, i, "building")
       \/ /\ r.kind = "delete"
          /\ Remove(r.id, "deleting")
       \/ UNCHANGED <<life, name, origin, undone>>
    /\ UNCHANGED <<pc, call, ref, outcome, calls, doubt, overlap>>

Server == Build \/ DeletionFails \/ LandLate

-----------------------------------------------------------------------------
Outcomes == {"none", "resource", "operation", "not_found", "error",
             "unknown", "operation_error", "gave_up"}
Calls == [kind : Kinds, name : Spellings, id : Ids \cup {NoId},
          wait : Waits, update : BOOLEAN]
AnyName == CHOOSE n \in Spellings : TRUE
NoCall == [kind |-> "none", name |-> AnyName, id |-> NoId, wait |-> TRUE,
           update |-> FALSE]

Init ==
    /\ life = [i \in Ids |-> "unused"]
    /\ name = [i \in Ids |-> AnyName]
    /\ origin = [i \in Ids |-> "none"]
    /\ late = {}
    /\ undone = {}
    /\ pc = [s \in Scripts |-> "idle"]
    /\ call = [s \in Scripts |-> NoCall]
    /\ ref = [s \in Scripts |-> NoId]
    /\ outcome = [s \in Scripts |-> "none"]
    /\ calls = 0
    /\ doubt = FALSE
    /\ overlap = FALSE

\* The request with which each call begins.
FirstStep ==
    [ensure |-> "find", create |-> "post", update |-> "put", delete |-> "delete"]

Begin(s) ==
    /\ pc[s] = "idle"
    /\ calls < IF \A t \in Scripts \ {s} : call[t] = NoCall
               THEN MaxCalls ELSE MaxMixed
    /\ \E c \in Calls :
          /\ c.update => c.kind = "ensure"
          /\ IF c.kind \in {"update", "delete"}
             THEN c.id # NoId /\ Visible(c.id) /\ c.name = AnyName
             ELSE c.id = NoId
          /\ call' = [call EXCEPT ![s] = c]
          /\ pc' = [pc EXCEPT ![s] = FirstStep[c.kind]]
          /\ ref' = [ref EXCEPT ![s] = c.id]
    /\ outcome' = [outcome EXCEPT ![s] = "none"]
    /\ calls' = calls + 1
    /\ overlap' = (overlap \/ \E t \in Scripts : pc[t] # "idle")
    /\ undone' = undone \ {s}
    /\ UNCHANGED <<life, name, origin, late, doubt>>

\* The call returns a resource; or it returns an operation or raises.  `unsure`
\* tells that its effect is not settled yet.
Return(s, i, unsure) ==
    /\ pc' = [pc EXCEPT ![s] = "idle"]
    /\ ref' = [ref EXCEPT ![s] = i]
    /\ outcome' = [outcome EXCEPT ![s] = "resource"]
    /\ doubt' = (doubt \/ unsure)
    /\ UNCHANGED <<call, calls, overlap>>

End(s, o, unsure) ==
    /\ pc' = [pc EXCEPT ![s] = "idle"]
    /\ outcome' = [outcome EXCEPT ![s] = o]
    /\ doubt' = (doubt \/ unsure)
    /\ UNCHANGED <<call, ref, calls, overlap>>

GoTo(s, step, i) ==
    /\ pc' = [pc EXCEPT ![s] = step]
    /\ ref' = [ref EXCEPT ![s] = i]
    /\ UNCHANGED <<call, outcome, calls, doubt, overlap>>

-----------------------------------------------------------------------------
(* ensure: the lookup. *)

\* Slip: names are compared as they are spelled.
SameNameSlip(m, n) == m = n

\* find_by_name compares stripped, lower-cased names.
SameName(m, n) == Canon[m] = Canon[n]

Matches(s) == {i \in Ids : Visible(i) /\ SameName(name[i], call[s].name)}

\* The list has a match: the first one is adopted, and updated if asked.
FindAdopts(s) ==
    /\ pc[s] = "find"
    /\ \E i \in Matches(s) :
          IF call[s].update THEN GoTo(s, "put", i) ELSE Return(s, i, FALSE)
    /\ UNCHANGED server

FindMisses(s) ==
    /\ pc[s] = "find" /\ Matches(s) = {}
    /\ GoTo(s, "post", NoId)
    /\ UNCHANGED server

-----------------------------------------------------------------------------
(* The requests of create, update and delete.                              *)

\* A request raises without having had an effect, or none that matters.
RequestFails(s) ==
    /\ pc[s] \in {"find", "post", "put", "delete", "fetch"}
    /\ End(s, "error", pc[s] = "fetch" /\ ~call[s].wait)
    /\ UNCHANGED server

\* NotFoundError, from the PUT, the DELETE or the final GET.
Missing(s) ==
    /\ pc[s] \in {"put", "delete", "fetch"} /\ ~Visible(ref[s])
    /\ End(s, "not_found", pc[s] = "fetch" /\ ~call[s].wait)
    /\ UNCHANGED server

\* Slip of _resolve_mutation: the operation is never awaited.
AfterMutationUnawaited(s, step, i) == GoTo(s, "fetch", i)

\* _resolve_mutation on an operation: it is awaited unless wait=False, then the
\* resource it refers to is fetched.
AfterMutation(s, step, i) ==
    IF call[s].wait THEN GoTo(s, step, i) ELSE GoTo(s, "fetch", i)

\* The answer to a POST is an operation with a reference, or the resource.
PostAnswered(s) ==
    /\ pc[s] = "post"
    /\ \E i \in Ids :
          \/ /\ Accept(call[s].kind, call[s].name, i, "building")
             /\ AfterMutation(s, "await_create", i)
          \/ /\ Accept(call[s].kind, call[s].name, i, "ready")
             /\ Return(s, i, FALSE)
    /\ UNCHANGED late

\* The request raises, and may land for all the caller knows.
LeaveLate(s) ==
    /\ late' = late \cup {[kind |-> call[s].kind, name |-> call[s].name,
                           id |-> ref[s]]}
    /\ End(s, "unknown", TRUE)
    /\ UNCHANGED <<life, name, origin, undone>>

PostUnknown(s) == pc[s] = "post" /\ LeaveLate(s)

PutAnswered(s) ==
    /\ pc[s] = "put" /\ Visible(ref[s])
    /\ AfterMutation(s, "await_update", ref[s]) \/ Return(s, ref[s], FALSE)
    /\ UNCHANGED server

\* delete(): an empty body ends the call, an operation is awaited if asked.
DeleteAnswered(s) ==
    /\ pc[s] = "delete"
    /\ \/ Remove(ref[s], "gone") /\ End(s, "operation", FALSE)
       \/ /\ Remove(ref[s], "deleting")
          /\ IF call[s].wait THEN GoTo(s, "await_delete", ref[s])
             ELSE End(s, "operation", TRUE)
    /\ UNCHANGED late

DeleteUnknown(s) == pc[s] = "delete" /\ LeaveLate(s)

\* A DELETE that was executed, lost its answer, and was retried: the retry finds
\* nothing and NotFoundError is raised.
DeleteRetried(s) ==
    /\ pc[s] = "delete" /\ Remove(ref[s], "gone")
    /\ End(s, "not_found", FALSE)
    /\ UNCHANGED late

-----------------------------------------------------------------------------
(* Awaiting the operation, and the final GET. *)

\* Slip: an operation that is still pending counts as done.
SucceededSlip(s) ==
    pc[s] = "await_create" => life[ref[s]] # "failed"

\* The server's verdict on a creation shows in the resource's life, that on a
\* deletion too unless it has failed; an update is done at any time.
Succeeded(s) ==
    /\ pc[s] = "await_create" => life[ref[s]] \in {"ready", "deleting", "gone"}
    /\ pc[s] = "await_delete" => life[ref[s]] = "gone" /\ s \notin undone

Awaiting == {"await_create", "await_update", "await_delete"}

AwaitSucceeds(s) ==
    /\ pc[s] \in Awaiting /\ Succeeded(s)
    /\ IF pc[s] = "await_delete" THEN End(s, "operation", FALSE)
       ELSE GoTo(s, "fetch", ref[s])
    /\ UNCHANGED server

\* OperationError.
AwaitFails(s) ==
    /\ \/ pc[s] = "await_create" /\ life[ref[s]] = "failed"
       \/ pc[s] = "await_update"
       \/ pc[s] = "await_delete" /\ s \in undone
    /\ End(s, "operation_error", FALSE)
    /\ UNCHANGED server

\* Slip: the wait has no deadline of its own.
AwaitGivesUpSlip(s) ==
    /\ pc[s] \in Awaiting /\ Succeeded(s)
    /\ End(s, "gave_up", TRUE)
    /\ UNCHANGED server

\* OperationTimeoutError, or the error of one failed poll too many.
AwaitGivesUp(s) ==
    /\ pc[s] \in Awaiting
    /\ End(s, "gave_up", TRUE)
    /\ UNCHANGED server

FetchReturns(s) ==
    /\ pc[s] = "fetch" /\ Visible(ref[s])
    /\ Return(s, ref[s], ~call[s].wait)
    /\ UNCHANGED server

Script(s) ==
    \/ FindAdopts(s)
    \/ FindMisses(s)
    \/ RequestFails(s)
    \/ PostAnswered(s)
    \/ PostUnknown(s)
    \/ PutAnswered(s)
    \/ Missing(s)
    \/ DeleteAnswered(s)
    \/ DeleteUnknown(s)
    \/ DeleteRetried(s)
    \/ AwaitSucceeds(s)
    \/ AwaitFails(s)
    \/ AwaitGivesUp(s)
    \/ FetchReturns(s)

Next == Server \/ \E s \in Scripts : Begin(s) \/ Script(s)

\* A script that is in a call goes on; the server owes nothing.
Fairness == \A s \in Scripts : WF_vars(Script(s))

Spec == Init /\ [][Next]_vars
FairSpec == Spec /\ Fairness

-----------------------------------------------------------------------------
(* Properties. *)

\* The variables stay in their types; what acts on a resource knows its id.
TypeOK ==
    /\ life \in [Ids -> Lives]
    /\ name \in [Ids -> Spellings]
    /\ origin \in [Ids -> Kinds \cup {"none"}]
    /\ late \subseteq [kind : Kinds, name : Spellings, id : Ids \cup {NoId}]
    /\ undone \subseteq Scripts
    /\ pc \in [Scripts -> {"idle", "find", "post", "put", "delete", "fetch"}
                          \cup Awaiting]
    /\ call \in [Scripts -> Calls \cup {NoCall}]
    /\ ref \in [Scripts -> Ids \cup {NoId}]
    /\ \A s \in Scripts :
          pc[s] \in {"put", "delete", "fetch"} \cup Awaiting => ref[s] \in Ids
    /\ outcome \in [Scripts -> Outcomes]
    /\ calls \in 0 .. MaxCalls
    /\ doubt \in BOOLEAN /\ overlap \in BOOLEAN

\* Resource j was made by an ensure() although there was one of its name.
Duplicate(i, j) ==
    /\ i < j /\ origin[j] = "ensure" /\ Canon[name[i]] = Canon[name[j]]
    /\ life[i] \in {"building", "listed", "ready"}
    /\ life[j] \in {"building", "listed", "ready"}

\* ensure() never duplicates a resource, by whatever calls and scripts and under
\* whatever spelling it came to be, as long as the calls run one after the other
\* and none has ended before its effect was settled.
EnsureAdopts ==
    ~doubt /\ ~overlap => \A i, j \in Ids : ~Duplicate(i, j)

\* Script t is creating or deleting resource i, and its call has not ended.
Working(t, i) ==
    /\ ref[t] = i
    /\ \/ pc[t] \in {"await_create", "await_delete"}
       \/ pc[t] = "fetch" /\ ~call[t].wait

\* As long as no call has ended before its effect was settled, whatever calls
\* run at the same time: ensure(), create() and update() return a resource that is
\* ready, or one that another call is creating or deleting at that very moment.
ReturnsReady ==
    [][\A s \in Scripts :
          pc[s] # "idle" /\ pc'[s] = "idle" /\ outcome'[s] = "resource" /\ ~doubt'
          => \/ life'[ref'[s]] = "ready"
             \/ \E t \in Scripts : Working(t, ref[s])']_vars

\* create() with the default wait returns only what has been built, however the
\* other scripts interfere: the operation is awaited before the fetch.
CreateReturnsSettled ==
    \A s \in Scripts :
        /\ pc[s] = "idle" /\ call[s].kind = "create" /\ call[s].wait
        /\ outcome[s] = "resource"
        => life[ref[s]] \in {"ready", "deleting", "gone"}

\* A call that awaits its operations raises NotFoundError only for a resource
\* that has been there and has been removed, never for one still being built.
NotFoundMeansRemoved ==
    \A s \in Scripts :
        pc[s] = "idle" /\ call[s].wait /\ outcome[s] = "not_found"
        => life[ref[s]] \in {"gone", "failed"}

\* When delete() has awaited its operation, the resource is gone for good: an
\* operation that fails, or a wait that ends without a verdict, is raised, also
\* when another call deletes the resource meanwhile.
DeleteIsFinal ==
    \A s \in Scripts :
        /\ pc[s] = "idle" /\ call[s].kind = "delete" /\ call[s].wait
        /\ outcome[s] = "operation"
        => life[ref[s]] = "gone"

\* Every call comes back to its script, though the server never finishes anything.
CallsReturn == \A s \in Scripts : pc[s] # "idle" ~> pc[s] = "idle"

-----------------------------------------------------------------------------
(* What the documentation says. *)

\* "ensure() makes scripts re-runnable by construction -- the first run creates,
\* every later run adopts the existing resource."
LaterRunsAdopt == ~overlap => \A i, j \in Ids : ~Duplicate(i, j)

\* "pass wait=False to return the operation object without polling": a create
\* that the server has accepted is not raised as NotFoundError.
UnawaitedCreateReturns ==
    \A s \in Scripts :
        /\ pc[s] = "idle" /\ call[s].kind = "create" /\ ~call[s].wait
        /\ outcome[s] = "not_found"
        => life[ref[s]] \in {"gone", "failed"}
=============================================================================
