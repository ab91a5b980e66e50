------------------------------- MODULE DBaaS -------------------------------
(***************************************************************************)
(* DBaaSServiceClient (resources/dbaas.py) with wait_for_state (wait.py):   *)
(* a script creates, reads, updates and awaits a managed database that      *)
(* other callers may delete and replace.                                   *)
(*                                                                         *)
(* A service is known by its name; one name is enough here, since every    *)
(* request is about one.  There is no GET of a service by its name alone:  *)
(* get() reads the type from the list and then the detail at the URL of    *)
(* that type.  Time is discrete and runs in the two loops with a deadline. *)
(***************************************************************************)
EXTENDS Integers

CONSTANTS
    Types,         \* the types, as the list names them
    Forms,         \* the forms in which callers pass a type
    Window,        \* the seconds create() goes on re-fetching: 30
    Pauses,        \* its sleeps between two fetches: 1 to 3
    Timeout,       \* timeout= of wait_for_state
    Interval,      \* interval= of wait_for_state
    RequestTime,   \* the longest a request lasts
    MaxCalls,      \* a bound: calls of the script
    MaxChanges     \* a bound: deletions, replacements, maintenance

ASSUME TimeAssumption ==
    /\ Window \in Nat /\ Timeout \in Nat /\ RequestTime \in Nat
    /\ Interval \in Nat \ {0}
    /\ Pauses \subseteq Nat \ {0} /\ Pauses # {}
ASSUME BoundAssumption == MaxCalls \in Nat /\ MaxChanges \in Nat

VARIABLES
    life,       \* the service on the server: absent, hidden or visible
    type,       \* its type
    state,      \* "rebuilding" or "running"
    op,         \* the operation of the script's last mutation
    changes,    \* changes made by others so far
    pc,         \* where the script is in its call
    call,       \* the arguments of that call
    calls,      \* the calls begun so far
    seen,       \* the body the last request brought
    outcome,    \* how the last call ended
    clock,      \* the time since the call computed its deadline
    until,      \* when the current request or sleep ends at the latest
    absence,    \* TRUE when the service was out of sight during the call
    visibleAt,  \* since when it is visible, or Never
    runningAt   \* since when it is visible and running, or Never

service == <<life, type, state>>
history == <<absence, visibleAt, runningAt>>
vars == <<life, type, state, op, changes, pc, call, calls, seen, outcome, clock,
          until, absence, visibleAt, runningAt>>

Never == -1
Nothing == [type |-> "none", state |-> "none"]
Untyped == "untyped"   \* an entry of the list without a type
Kinds == {"create", "get", "update", "change", "await"}
Calls == [kind : Kinds, form : Forms, wait : BOOLEAN]
NoCall == [kind |-> "none", form |-> "none", wait |-> TRUE]

-----------------------------------------------------------------------------
(* The server (external).                                                  *)

\* The URL under which the server has the services of a type.
ServerUrl(t) == IF t = "pg" THEN "postgres" ELSE t

\* The histories follow the service: they start again when it goes out of sight.
Observe(l, s) ==
    /\ absence' = (absence \/ l # "visible")
    /\ visibleAt' = IF l # "visible" THEN Never
                    ELSE IF visibleAt = Never THEN clock ELSE visibleAt
    /\ runningAt' = IF l # "visible" \/ s # "running" THEN Never
                    ELSE IF runningAt = Never THEN clock ELSE runningAt

Become(l, t, s) ==
    /\ life' = l /\ type' = t /\ state' = s
    /\ Observe(l, s)

\* A new service shows up, and it starts running.
Progress ==
    /\ \/ life = "hidden" /\ Become("visible", type, state)
       \/ life = "visible" /\ state = "rebuilding" /\ Become(life, type, "running")
    /\ UNCHANGED <<op, changes, pc, call, calls, seen, outcome, clock, until>>

\* An operation settles; the failure of a creation takes the service away.
Settle ==
    /\ op = "pending"
    /\ \/ op' = "success" /\ UNCHANGED <<service, history>>
       \/ /\ op' = "failure"
          /\ IF call.kind = "create" THEN Become("absent", type, "rebuilding")
             ELSE UNCHANGED <<service, history>>
    /\ UNCHANGED <<changes, pc, call, calls, seen, outcome, clock, until>>

\* Others delete the service, create it anew, or it undergoes maintenance.
Change ==
    /\ changes < MaxChanges
    /\ changes' = changes + 1
    /\ \/ life # "absent" /\ Become("absent", type, "rebuilding")
       \/ life = "absent" /\ \E t \in Types : Become("visible", t, "rebuilding")
       \/ life = "visible" /\ state = "running" /\ Become(life, type, "rebuilding")
    /\ UNCHANGED <<op, pc, call, calls, seen, outcome, clock, until>>

Server == Progress \/ Settle \/ Change

Init ==
    /\ life \in {"absent", "visible"}
    /\ type \in Types
    /\ state = "rebuilding"
    /\ op = "none"
    /\ changes = 0
    /\ pc = "idle"
    /\ call = NoCall
    /\ calls = 0
    /\ seen = Nothing
    /\ outcome = "none"
    /\ clock = 0
    /\ until = 0
    /\ absence = FALSE
    /\ visibleAt = IF life = "visible" THEN 0 ELSE Never
    /\ runningAt = Never

-----------------------------------------------------------------------------
\* Slip: the URL has the type as the list names it.
UrlTypeSlip(form) == form

\* _url_type: the only alias is pg.
UrlType(form) == IF form = "pg" THEN "postgres" ELSE form

Served(form) == life = "visible" /\ ServerUrl(type) = UrlType(form)

\* A request begins: it ends RequestTime from now at the latest.
Request(step) ==
    /\ pc' = step
    /\ until' = clock + RequestTime

Sleep(pause) ==
    /\ pc' = "sleep"
    /\ until' = clock + pause

End(o) ==
    /\ pc' = "idle"
    /\ outcome' = o
    /\ UNCHANGED until

FirstStep(kind) ==
    CASE kind \in {"create", "update", "change"} -> "mutate"
      [] kind = "get" -> "list"
      [] kind = "await" -> "check"

\* The histories begin with the call.
Begin ==
    /\ pc = "idle" /\ calls < MaxCalls
    /\ \E c \in Calls :
          /\ call' = c
          /\ pc' = FirstStep(c.kind)
    /\ calls' = calls + 1
    /\ op' = "none"
    /\ seen' = Nothing
    /\ outcome' = "none"
    /\ clock' = 0 /\ until' = 0
    /\ absence' = (life # "visible")
    /\ visibleAt' = IF life = "visible" THEN 0 ELSE Never
    /\ runningAt' = IF life = "visible" /\ state = "running" THEN 0 ELSE Never
    /\ UNCHANGED <<life, type, state, changes>>

-----------------------------------------------------------------------------
(* The POST of create, the PUT of update, the changes to users, databases   *)
(* and maintenance of a service, and _settle.                              *)

\* create and update fetch the service, the others return the operation.
AfterSettle ==
    IF call.kind = "change" THEN End("operation")
    ELSE Request("fetch") /\ UNCHANGED outcome

\* Slip: _settle hands the operation back without awaiting it.
AfterMutationSlip == AfterSettle

AfterMutation ==
    IF call.wait /\ op' # "none" THEN pc' = "settle" /\ UNCHANGED <<until, outcome>>
    ELSE AfterSettle

\* The answer is an operation, or a body that is none.
Accepted ==
    /\ pc = "mutate"
    /\ \/ /\ call.kind = "create" /\ life = "absent"
          /\ \E t \in Types :
                ServerUrl(t) = UrlType(call.form) /\ Become("hidden", t, "rebuilding")
       \/ /\ call.kind \in {"update", "change"} /\ Served(call.form)
          /\ UNCHANGED <<service, history>>
    /\ op' \in {"pending", "none"}
    /\ AfterMutation
    /\ UNCHANGED <<changes, call, calls, seen, clock>>

\* The PUT of a service that is not there, or not at the URL of the type that the
\* caller has passed, is answered 404: NotFoundError.
MutationMissing ==
    /\ pc = "mutate" /\ call.kind \in {"update", "change"} /\ ~Served(call.form)
    /\ End("not_found")
    /\ UNCHANGED <<service, op, changes, call, calls, seen, clock, history>>

\* Any request may fail in other ways; a POST may have been executed nonetheless.
RequestFails ==
    /\ pc \in {"mutate", "list", "fetch"}
    /\ \/ UNCHANGED <<service, history>>
       \/ /\ pc = "mutate" /\ call.kind = "create" /\ life = "absent"
          /\ \E t \in Types :
                ServerUrl(t) = UrlType(call.form) /\ Become("hidden", t, "rebuilding")
    /\ End("error")
    /\ UNCHANGED <<op, changes, call, calls, seen, clock>>

\* wait_operation: the server's verdict, or none.
Settled ==
    /\ pc = "settle" /\ op = "success"
    /\ AfterSettle
    /\ UNCHANGED <<service, op, changes, call, calls, seen, clock, history>>

SettleFails ==
    /\ pc = "settle" /\ op = "failure"
    /\ End("operation_error")
    /\ UNCHANGED <<service, op, changes, call, calls, seen, clock, history>>

\* Slip: the wait for an operation has no deadline.
SettleGivesUpSlip ==
    /\ pc = "settle" /\ op = "success"
    /\ End("gave_up")
    /\ UNCHANGED <<service, op, changes, call, calls, seen, clock, history>>

SettleGivesUp ==
    /\ pc = "settle"
    /\ End("gave_up")
    /\ UNCHANGED <<service, op, changes, call, calls, seen, clock, history>>

-----------------------------------------------------------------------------
(* The reads: the list, then the detail.  What a body says is true of the   *)
(* moment the server looked, and may be read later.                        *)

LookAtList ==
    /\ pc = "list"
    /\ pc' = "listed"
    /\ seen' \in IF life = "visible"
                 THEN {[type |-> type, state |-> state],
                       [type |-> Untyped, state |-> state]}
                 ELSE {Nothing}
    /\ UNCHANGED <<service, op, changes, call, calls, outcome, clock, until,
                   history>>

\* create and update fetch at the URL they have written to, get at that of the
\* type it has listed.
FetchForm == IF call.kind \in {"create", "update"} THEN call.form ELSE seen.type

LookAtDetail ==
    /\ pc = "fetch"
    /\ pc' = "fetched"
    /\ seen' = IF Served(FetchForm) THEN [type |-> type, state |-> state]
               ELSE Nothing
    /\ UNCHANGED <<service, op, changes, call, calls, outcome, clock, until,
                   history>>

ListLacks == seen = Nothing

\* get() has a body: it returns it, or wait_for_state looks at its state.
Got ==
    IF call.kind = "await" /\ seen.state # "running"
    THEN Sleep(Interval) /\ UNCHANGED outcome
    ELSE End("resource")

ListArrives ==
    /\ pc = "listed"
    /\ CASE ListLacks -> End("not_found")
         [] ~ListLacks /\ seen.type = Untyped -> Got
         [] OTHER -> Request("fetch") /\ UNCHANGED outcome
    /\ UNCHANGED <<service, op, changes, call, calls, seen, clock, history>>

\* Slip: create gives up when the sleep to come would end behind the window.
WindowOverEarly == \E p \in Pauses : clock + p >= Window

WindowOver == clock >= Window

\* A 404: create tries again while its window lasts, the others raise.
DetailMissing ==
    /\ seen = Nothing
    /\ IF call.kind = "create" /\ ~WindowOver
       THEN (\E p \in Pauses : Sleep(p)) /\ UNCHANGED outcome
       ELSE End("not_found")

DetailArrives ==
    /\ pc = "fetched"
    /\ DetailMissing \/ (seen # Nothing /\ Got)
    /\ UNCHANGED <<service, op, changes, call, calls, seen, clock, history>>

Wake ==
    /\ pc = "sleep" /\ clock = until
    /\ IF call.kind = "create" THEN Request("fetch")
       ELSE pc' = "check" /\ UNCHANGED until
    /\ UNCHANGED <<service, op, changes, call, calls, seen, outcome, clock, history>>

\* Slips: the deadline moves on with the clock; it counts the sleep to come.
BeforeMovingDeadline == TRUE
BeforeEarlyDeadline == clock + Interval + RequestTime < Timeout

BeforeDeadline == clock < Timeout

\* The loop condition of wait_for_state, and the exception after the loop.
CheckDeadline ==
    /\ pc = "check"
    /\ IF BeforeDeadline THEN Request("list") /\ UNCHANGED outcome
       ELSE End("wait_timeout")
    /\ UNCHANGED <<service, op, changes, call, calls, seen, clock, history>>

Client ==
    \/ Accepted
    \/ MutationMissing
    \/ RequestFails
    \/ Settled
    \/ SettleFails
    \/ SettleGivesUp
    \/ LookAtList
    \/ LookAtDetail
    \/ ListArrives
    \/ DetailArrives
    \/ Wake
    \/ CheckDeadline

\* Time passes in the requests and sleeps of the two loops.
Tick ==
    /\ \/ call.kind = "create" /\ pc \in {"fetch", "fetched", "sleep"}
       \/ call.kind = "await" /\ pc \in {"list", "listed", "fetch", "fetched", "sleep"}
    /\ clock < until
    /\ clock' = clock + 1
    /\ UNCHANGED <<service, op, changes, pc, call, calls, seen, outcome, until,
                   history>>

Next == Server \/ Begin \/ Client \/ Tick

\* A call that is under way goes on and time passes; the server owes nothing.
Fairness == WF_vars(Client) /\ WF_vars(Tick)

Spec == Init /\ [][Next]_vars
FairSpec == Spec /\ Fairness

-----------------------------------------------------------------------------
(* Properties. *)

Ended(kinds, o) == pc = "idle" /\ call.kind \in kinds /\ outcome = o

\* The variables stay in their types; a detail is asked for by a type that has
\* been passed or listed.
TypeOK ==
    /\ life \in {"absent", "hidden", "visible"}
    /\ type \in Types /\ state \in {"rebuilding", "running"}
    /\ op \in {"none", "pending", "success", "failure"}
    /\ changes \in 0 .. MaxChanges
    /\ pc \in {"idle", "mutate", "settle", "list", "listed", "fetch", "fetched",
               "sleep", "check"}
    /\ call \in Calls \cup {NoCall}
    /\ calls \in 0 .. MaxCalls
    /\ seen \in [type : Types \cup {Untyped}, state : {"rebuilding", "running"}]
                \cup {Nothing}
    /\ pc = "fetch" => FetchForm \in Forms \cup Types
    /\ outcome \in {"none", "resource", "operation", "error", "operation_error",
                    "gave_up", "not_found", "wait_timeout"}
    /\ clock \in Nat /\ until \in Nat
    /\ absence \in BOOLEAN
    /\ visibleAt \in Nat \cup {Never} /\ runningAt \in Nat \cup {Never}

\* The caller of a mutation has named a type that is not that of the service.
Misnamed == call.kind \in {"update", "change"} /\ ~Served(call.form)

\* get() and wait_for_state raise NotFoundError only when the service was out of
\* sight at some moment of the call, whatever it is replaced by between the list
\* and the detail; update() and the other changes also when their caller has named
\* another type than the service has.
NotFoundIsHonest ==
    Ended({"get", "update", "change", "await"}, "not_found") => absence \/ Misnamed

\* create() raises NotFoundError only when the service it created has not come
\* into sight in time for the last fetch, or is gone or replaced.
PropagationIsTolerated ==
    Ended({"create"}, "not_found") /\ Served(call.form) =>
        visibleAt + RequestTime >= Window

\* A mutation that awaits its operation returns, the service or the operation,
\* only when the server has settled it as a success.
ReturnsSettled ==
    \A o \in {"resource", "operation"} :
        Ended({"create", "update", "change"}, o) /\ call.wait
        => op \in {"success", "none"}

\* wait_for_state times out on a service that runs only when it has come to run
\* in the last sleep and request before the deadline.
LastingStateIsSeen ==
    Ended({"await"}, "wait_timeout") /\ runningAt # Never =>
        runningAt + RequestTime + Interval >= Timeout

\* create() outlives its window, and wait_for_state its deadline, by a sleep and
\* the requests of one turn at most.
BoundedWait ==
    /\ call.kind = "create" => \E p \in Pauses : clock < Window + p + RequestTime
    /\ call.kind = "await" => clock < Timeout + Interval + 2 * RequestTime

\* Every call ends, whatever the server does.
CallsReturn == pc # "idle" ~> pc = "idle"
=============================================================================
