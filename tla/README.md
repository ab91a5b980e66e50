# Verification of the Exoscale Python connector

The repository is a Python client for the Exoscale APIv2: signed HTTP requests
with retries, asynchronous operations that are polled until they settle, and one
typed client per kind of resource on top. This directory holds TLA+ models of
its core logic, the TLC configurations that check them on small instances, and
TLAPS proofs of the main results for all values of the constants. `PROJECT.json`
is the machine-readable index: components, runs, the map from definitions to
source lines, mutants, findings, hazards and theorems.

Paths below are relative to `src/src/exoscale_connector/` unless they start with
`src/`.

Contents: the system; its modules and how they correspond to the code; the runs,
their bounds and fairness; the proofs; what the violation runs found; what is not
modelled; the plan.

## The system

The library is synchronous and keeps almost no state of its own. What makes it
hard is the other side: a server that executes requests whose answers are lost,
settles operations when it likes, and is shared with other callers.

| Component | State it keeps | Operations | What makes it correct |
|---|---|---|---|
| Request core, `client.py` 81-175, 265-314 | `attempt` of one call; a `requests.Session` | `request`, `get`, `post`, `put`, `delete` | a POST runs at most once; an answer is the truth about the server; the budget is neither overrun nor given up early; the stall is bounded |
| Operation polling, `client.py` 180-262 | deadline, consecutive failures, last operation seen | `wait_operation` | the verdict is the server's; hiccups are tolerated; the deadline holds up to one poll and one sleep |
| Resource base, `resources/_base.py` | none (zone default) | `list`, `get`, `find_by_name`, `create`, `ensure`, `update`, `delete` | `ensure` adopts what exists; a `create` returns what is built; an awaited `delete` is final; `NotFoundError` is honest |
| Object storage, `resources/object_storage.py` | none | bucket CRUD, `list_objects`, object IO, CORS, presigned URLs | a listing is ordered, without repetition, complete up to its cut |
| State waiting, `wait.py` | deadline, last object | `wait_for_state` | a state that persists is seen; the deadline holds |
| Managed databases, `resources/dbaas.py` | none | two-step `get`, `create` with re-fetch loop, users, databases, logs | a re-fetch tolerates propagation; a two-step read does not invent an absence |
| Block storage, networking, compute, DNS | none | sub-resources and `:action` endpoints | an answer is awaited exactly when it is an operation; a success has happened |
| Identity, `resources/iam_*.py`, `api_key.py`, `iam_expr.py` | none | policies, replaced as a whole; quoting of policy expressions | quoted text cannot end its literal; a policy arrives whole |
| Key management, `resources/kms.py` | none | synchronous sub-actions | no wait; one argument rule |
| Configuration, signing, models, errors | the values of one client | `ClientConfig`, `from_env`, `ExoscaleV2Auth` | validation; signing each attempt |
| Command line, `cli/` | none | parse, build the client, load a payload, call, print | exit code 0 says the mutation is done; every command ends |
| Documents and skill, `src/scripts/generate_llms_txt.py`, `cli/skill.py` | six files on disk, one of them also a source | check, write, install | `--check` tells the truth; one run puts all in order |
| Drift tools, `src/scripts/model_schema_drift.py`, `src/scripts/drift_operations.py` | none | compare fields, attribute changed paths | a difference is neither missed nor invented; a changed path reaches its module |
| Integration-test tracker, `src/tests/integration/_fixtures.py` | list of provisioned resources | `register`, `unregister`, `sweep` | a sweep leaves nothing it could have deleted |

How they interact: a resource client makes `request` calls, hands an operation
answer to `wait_operation`, which makes further `request` calls (with a retry
budget of its own, `operation/<id>` being a GET), and re-fetches the resource by
the operation's reference. A command builds one client, makes one call and turns
its end into an exit code. Nothing is shared between two clients in a process;
two scripts meet only on the server. There are no threads and no callbacks.

The behaviours that are hard to test: a lost answer to a request that was
executed; a retry overtaking its predecessor; an operation that settles between
the last poll and the deadline; two scripts that look a name up before either
has created it; a deletion between an operation and its re-fetch; a key added or
deleted between two pages; an answer that is taken for an operation and is none;
a generator that is killed between two writes. `PROJECT.json` lists them under `hazards`, each at the
line where it bites with the properties that watch it.

## Modules

| Module | Models | |
|---|---|---|
| `CallContract` | what one call of a mutating verb promises its caller | abstract |
| `ApiRequest` | `ExoscaleClient.request`, the wire and the server's execution of attempts | implements `CallContract` |
| `OperationPoll` | `wait_operation`, with a clock and an operation on the server | |
| `ResourceClient` | `_base.py` used by several scripts on one collection | uses the two contracts above as the ends of a step |
| `ObjectListing` | `BucketClient.list_objects` over a bucket that changes | |
| `DBaaS` | `DBaaSServiceClient` and `wait_for_state` on a service that others replace | |
| `Mutations` | every mutating method of every client: how it settles its answer | a request and a wait are its steps |
| `CommandLine` | the commands, on top of `Mutations` | extends `Mutations` |
| `Documents` | the generator of the documents and the installation of the skill | |
| `SpecDrift` | the two drift tools | pure |
| `ResourceTracker` | the tracker of the live tests | |
| `Upkeep` | one of the last three at a time, for one run | extends them |
| `ApiRequest_proofs`, `OperationPoll_proofs`, `ResourceClient_proofs`, `ObjectListing_proofs`, `DBaaS_proofs`, `Mutations_proofs`, `Upkeep_proofs` | theorems about the modules they extend | TLAPS |
| `CommandLine_proofs` | theorems about the commands and the calls below them | TLAPS; extends `Mutations_proofs` |
| `MC_*` | instances for TLC | |

### ApiRequest and CallContract

`pc`, `attempt`, `outcome` are the retry loop of `request` (client.py 122-156).
Every attempt has a fate on the wire: unsent, in flight, landed (executed), or
dropped. An attempt that is in flight may land at any time, also after the client
has timed out on it and gone on to the next one or given up. The answer to
the current attempt is a status: a success only after it has landed; one of
`Refusals` only without having run; any other status (502, 503, ...) says
nothing. `Retry` is the `continue` with its delay; `TransportFails` is the
`except` clause with its test on the exception class and on the method.

Data left out: the URL, headers and body of the request, and the parsing of the
answer's body. `Retry-After` is one of a set of values; `BackoffDelays` is the whole
interval the jitter is drawn from, its end doubling with each attempt (`BackoffCap`).

One assumption about the server carries the result: the statuses on which a POST
is retried (429 by default, `retryable_statuses_mutating`) are answered without
executing it (`MutatingAssumption`). The client depends on it at client.py
116-120; without it a retried POST could run twice.

`CallContract` has four actions, `Land`, `ReturnDone`, `ReturnRefused` and
`ReturnUnknown`: a call returns a body when its request has run, raises a refusal
when it never will, and may raise anything else at any time, in which case the
request may still land. `ApiRequest` is shown to implement it for a POST.

### OperationPoll

The clock is discrete and starts when the deadline is computed. A poll takes up
to `RequestTimeout`, a sleep exactly `PollInterval`; the deadline is looked at
between them only (client.py 217). `Init` covers every operation that can be handed
in: settled or pending, with or without an id, with or without a state.
`GivenFailed`, `GivenSucceeded` and `GivenWithoutId` are the returns before the
loop. `PollBody`, `PollFails` and `PollRefused` are the three ends of a poll: a
body (the streak of failures starts again), a tolerated failure, an error that
is raised at once. Retries inside a poll belong to `request`; here they are part
of its duration.

### ResourceClient

Each script makes calls of `ensure`, `create`, `update` and `delete`. A request
is one step, with the three ends `CallContract` leaves: answered, refused, or
unknown, when it goes to `late` and may land later. A wait ends as in
`OperationPoll`: with the verdict, or without one (`AwaitGivesUp`). A
resource lives on the server as unused, building, listed (visible but not
settled), ready, failed, deleting or gone. A deletion may fail on the server and leave
the resource (`DeletionFails`), also while another caller asks for it again; `undone`
holds the callers whose wait has this failure to report. Names are spelled in several ways and
compared by their canonical form, as `find_by_name` does. `origin`, `doubt` and
`overlap` are history variables: who created a resource, whether a call has ended
before its effect was settled, whether two calls ever overlapped.

`ReturnsReady` says what `ensure`, `create` and `update` return while other calls run:
a resource that is ready, or one that another call is creating or deleting just then
(`Working`), which is all that a lookup by name can promise.

Left out: the contents of payloads (an update changes nothing the properties
look at, so a PUT that lands late is not recorded), label filters, and answers
whose shape is misread; the last are the subject of `Mutations`.

### ObjectListing

Keys are numbers in the server's order. The server scans `PageSize` positions for
each page, so that a page may be empty and truncated; `Change` is another client
adding or deleting a key between two pages. `Page` is one turn of the loop of
`list_objects`: it appends up to the limit, returns when the limit is reached,
ends on an untruncated page, else takes the next token. The limit is compared after an
object is appended (object_storage.py 234), so `limit=0` returns one object;
`CutAtTheEnd` speaks of positive limits.

### DBaaS

One service, known by its name, that is absent, hidden (created, not propagated)
or visible, of one of several types, rebuilding or running. The server makes it
visible, starts it, and settles operations when it likes; `Change` is another
caller deleting it, creating it anew with another type, or a maintenance.
`Begin` picks one of five calls: `create`, `get`, `update`, `change` (the methods
for users, databases and maintenance, which are one mutation and `_settle`), and
`await` (`wait_for_state` with `get` as its getter).

A read is two steps, `LookAt...` when the server looks and `...Arrives` when the
client has the answer, so the service may change in between; `get` is two reads,
of the list and then of the URL of the type it has listed (dbaas.py 161-187).
`UrlType` is `_url_type`; callers pass either form of a type. `AfterMutation`,
`Settled`, `SettleFails` and `SettleGivesUp` are `_settle`; a wait ends as in
`OperationPoll`. `WindowOver` is the test of `create`'s re-fetch loop (dbaas.py
253), `BeforeDeadline` that of `wait_for_state` (wait.py 44).

A mutation of a service that is not there, or not at the URL of the type its caller
has passed, is answered 404 (`MutationMissing`). So `update` raises `NotFoundError` of a
visible service when its `service_type` is wrong; `Misnamed` names that case, and
`NotFoundIsHonest` says there is no other.

`create` looks at its clock after a fetch has failed, so its last fetch always
falls behind the window; `wait_for_state`, like `wait_operation`, looks before,
and a state that comes in the last sleep is missed. `PropagationIsTolerated`
and `LastingStateIsSeen` say how long a service must have been in sight, or
running, for the loops to see it.

`absence`, `visibleAt` and `runningAt` are history variables: whether the service
was out of sight during the call, and since when it has been visible and running.

Left out: the bodies, all fields but type and state, the zone, the reads without
state (logs, metrics, settings, connection data), and `attr=`/`expected=` other than
`state` and `running`.

### Mutations

A caller makes calls one after the other, each of any method of `Methods`: the
mutating methods of all clients, each with its family (how its answer is settled),
its effect, and the answers its documentation or its tests say the endpoint gives. The
base class with and without its fetch, VPCs, block volumes, DNS records, managed
databases and what belongs to them, the methods that just await what comes and those
that return the body as it is are nine families; `IsResource` is what each of them does
not take for an operation, and `LooksLikeOperation` the test that most of them share.

An answer is an operation in one of three states, with a reference to the resource or
bare; the resource, which may carry a state of its own (`"stateful"`); a managed database
(`"service"`), with a state and no id; or empty. `reference` says whether the operation in
hand refers to the resource: the last poll may bring a reference that the answer lacked,
or lose it. `Proceed` is the end of `_resolve_mutation` and its variants: fetch what the
operation, or else the caller, has named; return the operation; or, with nothing named,
the answer in the resource's place.

A body is abstracted to what the helpers look at: whose id it carries (`IdOf`),
which state (`StateOf`), whether a reference (`HasReference`). `TakeResource`,
`TakeUnawaited`, `TakeSettled` and `TakePending` are the ways through a helper up to
the first poll, `PollSettles` and `PollEnds` the ends of the wait, `Fetch` and
`FetchFails` the re-fetch (`Refetch`) by reference, or by the id the caller gave: of an
update, or of the create of a resource keyed by its name (`Fallback`, `NamedCreates`),
whose operation may come without a reference; a managed database is re-fetched by its
own URL in any case.
`asked` is the id in `operation/<id>`; a poll of anything but an operation is a 404.

Two of the properties name an exception that the code has. `PolledIsOperation`: the
base's `create` and `update`, answered with a resource that carries a state, poll
`operation/<id of the resource>` (`_base.py` 257), which ends in `NotFoundError` or at
the deadline. `ReturnsTarget`: a create answered with a bare operation, of which neither
the answer nor the last poll names the resource, returns the operation's id and state as
the resource (`_base.py` 232); `src/tests/unit/test_block_volume_snapshot.py:141-153`
does so. Elsewhere neither happens.

The server settles a pending mutation when it likes and answers 409 while one is
under way; `mutation` is its truth about the last one it accepted. `excused` is a
history variable: some call has not waited to the end, so that a conflict is the
caller's own doing.

Left out: the bodies' contents, other callers (they are `ResourceClient`'s), the
reads.

### CommandLine

`Invoke`, `BuildClient`, `LoadPayload`, `Call`, `Report`, `PrintResult` are the stages
of `execute_cli`; any of them may end the command with a code. `Interrupt` is
Ctrl-C during the call. `Commands` takes the methods that have a command from
`Mutations`, with the payload and the `--no-wait` flag of each; the commands that
only read are one (`ReadCommand`). A behaviour is one of a Python script, which calls
any method with any `wait=`, or of a shell, which runs commands; so the properties of
`Mutations` are checked for both.

### Documents

The contents of a file are the versions of what it was made from: the code, the
hand-written text and the block of the SKS page. `ReadBundle` and `ReadPage` are
`artifacts()`, which reads that page twice; `Compare` and `Write` handle one file at a
time, in the order of the dictionary, so that a kill falls between two of them.
`Edit` is a person or git. `Install` and `Copy` are `cli/skill.py`.

`CheckIsTruthful` and `RunsSettle` speak of jobs during which nothing was edited
(`steady`): an edit of the page between its read and its write is lost, and the
generator promises nothing else.

### SpecDrift

One step per input. `ResolveSchema` is `resolve_schema`: a recursive function of the
names that are being followed, none of which is followed again, as there. It is a
function and not a RECURSIVE operator, so that it can be reasoned about. `DriftIsAccounted`
compares the verdict with a definition by reachability (`Reached`, the least set closed
under the references) that has no recursion. A schema's node is one of
`Nodes`: a reference, or a composition with properties of its own; `Composed` are the
sets of schemas a composition may name. `required` is
looked at beside `properties` only, as in the code (lines 216-222): a schema that
requires, without properties of its own, what `allOf` brings in is read as requiring
nothing, though the tool's documentation (line 11) makes no such exception.
`DriftIsAccounted` defines the real difference from all required lists and says what is
overlooked of it. The committed specification has no such schema.

Paths are sequences of segments, and segments sequences of literals and holes. What
the code's templates and the specification's paths have in common is a call; `Template`
and `SpecPath` write it the two ways, `"hole"` standing for the `{}` of a path and `"any"`
for the `*` that ends a declared one. `PathVerdict` joins the check for undeclared
operations and the attribution of a change. Where a call is made decides whether it is
looked at (`Places`, `Discovered`): in a client's module; in a module without a client,
to which no change is attributed; in a private module, which discovery skips; or in a
form that cannot be rendered. `CallsAreAttributed` speaks of the first;
`EveryCallIsAttributed` is what the module's documentation says of all of them, and is
violated.

### ResourceTracker

Each resource lives in the one before it, so the order of deletion matters. A test
provisions, registers, deletes and unregisters, and ends anywhere (`TestEnds`), also
between a provision and its registration. A deleter may fail for any reason
(`faults`), and fails when the resource holds another one.

## Runs

| Run | Configuration | Shows |
|---|---|---|
| `request` | `ApiRequest.cfg` | safety and termination of one call; `CallContract` is implemented |
| `operation_poll` | `OperationPoll.cfg` | the verdict, the tolerance, the bound on the wait, termination |
| `resources` | `ResourceClient.cfg` | two scripts, all interleavings of their calls, and several calls of one script; two spellings |
| `object_listing` | `ObjectListing.cfg` | every listing of a small bucket with two changes |
| `commands` | `CommandLine.cfg` | two calls in a row, of any methods, from Python or the shell |
| `upkeep` | `Upkeep.cfg` | the generator with edits and kills, the drift tools on all small inputs, the sweep |
| `databases` | `DBaaS.cfg` | two calls of any kind against two changes by others: honest absences, both deadlines, what a lasting state guarantees, every call ends |
| `reissued_action` (violation) | `ApiRequest_reboot.cfg` | a PUT on an action endpoint runs twice |
| `late_verdict` (violation) | `OperationPoll_timeout.cfg` | an operation that settled in time is reported as a timeout |
| `rerun_after_timeout` (violation) | `ResourceClient_rerun.cfg` | a re-run of `ensure` duplicates the resource of a run that gave up |
| `unawaited_create` (violation) | `ResourceClient_nowait.cfg` | `create(wait=False)` raises `NotFoundError` |
| `undiscovered_calls` (violation) | `Upkeep_discovery.cfg` | the path tool passes though a call in a private module, or one that cannot be rendered, is attributed to no module |

Every property of a passing run has a mutant in `PROJECT.json`: a plausible slip
in one definition (the `...Slip`, `...Early`, `...Late` operators beside it) under
which TLC finds the property violated.

### Bounds

- `ApiRequest`: `max_retries` 2, so a retry of a retry happens and the budget is
  met; one status of each class (success, refusal, 404, 429, retryable, not
  retryable); `Retry-After` 1 and 90, on either side of the cap of 60.
- `OperationPoll`: timeout 7, interval 2, poll up to 1, tolerance 2: up to four
  polls, so a full streak, a streak that is interrupted, and the deadline falling
  in a sleep all occur. `Horizon` 12 stops the clock; `HorizonAssumption` says it
  is beyond every call that keeps to its deadline, so it hides none that does not.
- `ResourceClient`: two scripts; two calls in a behaviour of both
  (`MaxMixed`), three of one alone (`MaxCalls`); three resources. A duplicate takes two resources of one name; an interference
  takes two calls; a re-run after an update or delete takes three.
- `ObjectListing`: five positions and two per page give three pages, one of which
  may be empty; limits none, 0, 1, 2, 3 fall before, inside and at the end of a
  page; two changes can hit two different gaps.
- `DBaaS`: two types, one of which has another form in URLs, and callers that pass
  either form; two calls and two changes, so that a service is deleted and replaced
  by one of the other type within one call; a window of 3 with pauses of 1 and 2
  and a timeout of 6 with an interval of 2 give several turns of each loop and a
  limit inside a sleep as well as between two.
- `CommandLine`: two calls. One leaves a mutation under way, the second meets it. The
  proofs have no bound on them.
- `Upkeep`: two disturbances (`MaxEdits`), so that a kill can follow an edit; three
  resources (`MaxResources`), so that one is in the middle; two schemas and two property
  names, of which one may have any family: every composition of the two by `$ref`,
  `allOf` and `anyOf`, cycles included; paths of one or two segments (`MaxSegments`), so that a declared path
  may end before the called one. `Composed` leaves out the composition of both names at
  once, to keep the inputs few; the proofs are for any finite set of names, any
  `Composed` and any bounds. `Upkeep_discovery.cfg` needs a path of one segment only.

### Fairness

`WF(Client)` in `ApiRequest`: every HTTP call has a timeout (`ClientConfig.timeout`),
so an attempt ends whatever the wire does; nothing is assumed of landing or
answering. `WF(Client)` and `WF(Tick)` in `OperationPoll`: the loop runs and time
passes; the operation need not settle. `WF(Script(s))` in `ResourceClient`: a
script in a call goes on; the server owes it nothing, and a wait that the server
never ends is left through its deadline. `WF(Client)` and `WF(Tick)` in
`DBaaS`: requests end and time passes; nothing is assumed of the server, which may
never show, start or settle anything. `WF(Command)` in `CommandLine`: a command that
runs goes on, each request and wait having its timeout; reading a payload from standard
input is taken to end. Nothing is assumed of the server's settling.

Deadlock checking is off where the modelled call ends and nothing is left to do.

## Proofs

`ApiRequest_proofs` (all values of the budget, the status sets, the delays; from
the named assumptions of `ApiRequest`):

- `TypeCorrect`, `AtMostOnce` (`NoDuplicateMutation`), `SuccessIsTrue`
  (`BodyMeansLanded`), `RefusalIsFinal` (`RefusedMeansNothingLeft`), `NoEarlyGiveUp`
  (`BudgetIsSpent`), `StallIsBounded` (`BoundedStall`), and `Implements`
  (`ImplementsCallContract`).
- The inductive invariant is
  `IInv == TypeOK /\ OnlyTheCurrentAttemptIsLive /\ AnswerIsTrue /\ OutcomeIsTrue`.
  `NoDuplicateMutation` alone is not inductive: two attempts in flight satisfy it
  and may both land. What excludes them is that a POST goes on to another attempt
  only when the previous one was refused, hence dropped:
  `OnlyTheCurrentAttemptIsLive`. That in turn needs the answer being looked at to be
  true of the server (`AnswerIsTrue`), and the outcome to keep that truth
  (`OutcomeIsTrue`).
- `StallIsBounded` bounds the sum of the delays slept by the number of retries so far,
  each with the cap of `Retry-After` and the jitter's own. It needs that
  `BackoffCap` is well defined and grows, since the bound is taken at the last attempt.
  The library's induction theorems cannot be instantiated by the installed provers, so
  that induction goes through the least number at which the claim fails (`LeastNumber`,
  from `WFMin`).
- `Implements` maps each step to a step of `CallContract` or a stutter: the call's
  request is landed there when some attempt has landed here.

`OperationPoll_proofs` (all timeouts, intervals, tolerances):

- `TypeCorrect`, `VerdictIsTrue`, `VerdictEndsTheWait`, `Tolerance`, `Overshoot`,
  `MissedVerdictsAreLate`.
- The inductive invariant is `TypeOK /\ ClockInv /\ VerdictInv /\ StreakInv /\
  VerdictIsActedOn /\ LateInv`. `ClockInv` ties the clock to the step under way (a poll
  begins before the deadline, a sleep within one poll of it), which gives the
  overshoot. `StreakInv` says `failures` counts exactly the trailing failures of
  `polls`. `LateInv` says that after an undisturbed pending poll the operation had not
  settled before that poll began, which gives the window in which a verdict
  can be missed.

`DBaaS_proofs` (all windows, pauses, timeouts, intervals, any number of calls and
changes, any set of types):

- `TypeCorrect`, `AbsenceIsReal` (`NotFoundIsHonest`), `PropagationTolerated`
  (`PropagationIsTolerated`), `SettledOnly` (`ReturnsSettled`), `LastingSeen`
  (`LastingStateIsSeen`), `Bounded` (`BoundedWait`).
- The inductive invariant has one part per question. `SightInv`: while the service
  has been in sight, what was listed is its type and the detail is at the URL the
  client asks, which is why a 404 proves an absence. `WindowInv` and `LastingInv`:
  a request that missed the service, or missed it running, is still on its way or
  its loop has gone on, and the service came after that request had begun; without
  them the properties, which speak of ended calls, say nothing of the
  step before. `ClockInv`: how far the clock and the end of the current step
  may have come, which turns those into seconds. `LifeInv` ties the histories to the
  service, `StepInv` says which calls reach which step, `OpInv` that an awaited mutation
  goes on only after a success.
- The lemmas are one per action; `ServerFacts` covers the three actions of the server.

`ResourceClient_proofs` (any number of callers, resources, names and calls):

- `TypeCorrect`, `CreatesAreSettled` (`CreateReturnsSettled`), `AbsenceIsReal`
  (`NotFoundMeansRemoved`), `DeletionsAreFinal` (`DeleteIsFinal`), `EnsuresAdopt`
  (`EnsureAdopts`), and the action property `ResourcesAreReady` (`ReturnsReady`).
- `IInv` is `TypeOK`, `ServerOK` and, per script, `ScriptInv` and `Promise`. What makes
  it inductive is that a resource's life goes one way (`Onward`; a deletion that fails
  leaves it as finished as it was): what a script has
  seen, or a wait has settled, cannot be undone by the others, so that what it relies on
  between two requests (`ScriptInv`) and what an ended call has promised (`Promise`)
  outlive their steps.
- `ResourcesAreReady` speaks of calls that overlap, and needs `OwnedInv` (`OwnedInvariance`):
  while no call has ended in doubt, no request is left on the wire, and a resource under
  way is that of a call that is still running and will see it settled. So what a lookup
  finds is ready, or somebody's work; what a wait has settled can only be undone by
  somebody's deletion (`ReadyOrWorked`).
- `EnsureAdopts` speaks of behaviours in which no two calls overlapped and none ended in
  doubt. That no two resources share a name is not inductive there: an `ensure` that has
  looked its name up goes on to create it. `AdoptInv` adds what a call that is alone can
  rely on: nothing of an earlier call is late or unsettled, what is unsettled is its own
  and it waits for it, and the name an `ensure` is about to post is still free
  (`AloneInv`); and that ids are drawn in their order, so that what a create draws is new
  (`DrawnInOrder`).

`ObjectListing_proofs` (all buckets, page sizes, limits and changes):

- `TypeCorrect`, `OrderedOnce` (`InOrderOnce`), `NoneIsMissed` (`KeptAreListed`),
  `LimitCutsTheEnd` (`CutAtTheEnd`).
- `PageInv` adds to the three: before a page, what is listed lies at or before the token,
  and is all that was kept there, and the limit is still to be reached. Without it the
  properties, which speak of ended listings, say nothing of the token.

`Mutations_proofs` (behaviours of any length over all methods):

- `TypeCorrect`, `PollsOperations` (`PolledIsOperation`), `SuccessesAreSettled`
  (`SuccessIsSettled`), `TargetsAreReturned` (`ReturnsTarget`), `NoOwnConflict`
  (`OwnStepsDoNotConflict`). The proof goes through the table of the methods once, for
  the facts that tie a method's family to the answers it is given; the rest is one lemma
  per action.
- `CallInv` ties the answer in hand to what the server has made of the mutation;
  `QuietInv` says that between two calls a mutation is under way only after a call that
  did not wait. `SuccessIsSettled` speaks of ended calls and needs the first,
  `OwnStepsDoNotConflict` the second. The exceptions that `PolledIsOperation` and
  `ReturnsTarget` name are two places of that table: the base's create and update with a
  resource that carries a state, and a create that nobody has named.

`CommandLine_proofs` (any number of calls, from Python or the shell):

- `ExitsAreHonest` (`ExitIsHonest`); and `CommandsPollOperations`, `CommandsSucceed`,
  `CommandsReturnTargets` and `CommandsDoNotConflict`, the four properties of `Mutations`
  under the specification of the commands, in which a call can also be cut off.
- `ShellInv` adds to the invariant of `Mutations` what ties a command to its call.
  `ExitIsHonest` speaks of an exit code, which is given one step after the output and two
  after the call: so `StageInv` says which stages have a call under way and
  that it waits as the command was told to, `WaitedOperation` that a call which waited
  returns no operation that has not succeeded, and `ExitInv` that what is printed after
  a waited mutation is done.

`Upkeep_proofs` (any number of edits and resources, any finite set of schemas, any
properties and families, paths of any length):

- `ChecksAreTruthful` (`CheckIsTruthful`), `OneRunSettles` (`RunsSettle`), from
  `DocumentsInv`. The two speak of ended jobs; its parts say, for a job
  that nothing has disturbed, what holds of the files it has come past (`Past`): written,
  copied, or compared and found stale exactly if they differ (`WriteInv`, `CopyInv`,
  `CheckInv`). They need that the plan agrees with the page as it was read (`PageInv`),
  and that writing the page itself does not change what it was made from.
- `DriftIsFound` (`DriftIsAccounted`). `resolve_schema` ends and computes a reachability:
  by induction over how many names are not being followed yet (`Left`), the recursive
  function is well defined (`ResolveSchemaDef`), and what it gives for a name is what lies
  below that name without passing through those being followed
  (`Below`, `Meaning`, `ResolvesToMeaning`). That cutting the references at the names
  being followed loses nothing at the root is the point of the proof: a path that comes
  back to a name can be shortened (`BelowSteps`). The difference is defined from all
  required lists, so the proof also finds what the tool overlooks of it: `required` beside no
  `properties`.
- `CallsAreFound` (`CallsAreAttributed`), of calls in a client's module: a segment that a
  declared path matches in the code's spelling it matches in the specification's
  (`SegmentsAgree`), because a word fills a hole, and a hole that is declared matches every
  word.
- `SweepsAreThorough` (`SweepIsThorough`). The invariant is that the registered
  resources are in the order of their creation, the sweep goes through them from the
  last to the first, and each it has come past and left has an excuse (`Excused`).
  Excuses are kept because what the sweep deletes is smaller than all it has come past;
  were the order the other one, a resource would be tried before those it holds.

Every safety property and every action property of the passing runs is thereby a theorem.
Model-checked only: that calls, waits and commands end (`Terminates`, `CallsReturn`,
`CommandsEnd`), which is liveness under fairness and out of the prover's reach, and the
violation runs, which are counterexamples.

## What the violation runs found

1. `client.py:137`: all PUTs are re-sent after a lost answer, although the action
   endpoints (`instance/{id}:reboot`, password reset, maintenance start) are PUTs;
   `src/docs/developer-guide.md:88-89` calls re-issuing them safe.
2. `client.py:217`: no poll follows the last sleep, so an operation that completes
   in time can be raised as one that did not.
3. `_base.py:163`: `ensure` re-run after a run that gave up creates a duplicate when
   the first resource is not listed yet; `src/docs/user-guide.md:104-105` says every
   later run adopts.
4. `_base.py:230`: `wait=False` does not return the operation; it fetches the
   resource while it is built and can raise `NotFoundError`;
   `src/docs/asset-types/README.md:71-72` says the operation is returned.
5. `src/scripts/drift_operations.py:225`: discovery skips the modules whose names begin
   with `_` (and, at line 186, a path that it cannot render), so the `reverse-dns/...`
   calls of instances and elastic IPs (`resources/_reverse_dns.py` 31, 57, 73) are neither
   undeclared nor attributed to a module; `src/scripts/drift_operations.py:10-12`,
   `src/tests/unit/test_drift_operations.py:5-7` and
   `src/docs/developer-guide.md:306-309` say that a call the map cannot attribute fails
   the tests.

## Not modelled

`PROJECT.json` lists each component with its status. Signing (`auth.py`) is a pure
function of a request and the clock: each attempt is signed when it is sent, and no
signature outlives it. Data models, presigned URLs and read-only listings (events,
zones, types, templates) have no behaviour over time. `iam_expr.py` quotes strings
character by character. `src/scripts/upstream_drift_map.py` and the rendering of reports,
tables and JSON are layout; the workflows under `src/.github` are not code of the
package.

The wall clock that the deadlines use is taken not to step: the bounds on the waits
would not hold under a step, and the deadlines do not promise more. An interrupted
sweep leaves what it has not come to; nothing is stated of it. A server that executes
a request and answers 429 is excluded by assumption (above). How an instance, a node
pool or a key changes on the server is not followed beyond the end of its operation.

## Plan

Done: `CallContract`, `ApiRequest`, `OperationPoll`, `ResourceClient`, `ObjectListing`,
`DBaaS`, `Mutations`, `CommandLine`, `Documents`, `SpecDrift`, `ResourceTracker`, and the
proofs about all of them.

Left: a refinement of `ResourceClient` and `Mutations` by a common contract of a call, with
its proof; policies of roles that two callers replace as a whole; an instance's states
under the lifecycle actions.
