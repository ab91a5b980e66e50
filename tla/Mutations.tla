------------------------------ MODULE Mutations ------------------------------
(***************************************************************************)
(* The mutating methods of the resource clients: one request, whose answer *)
(* is an operation, the resource, or empty, and must be told apart.        *)
(*                                                                         *)
(* Every client settles its answers in one of the ways below (families).   *)
(* A caller makes calls one after the other on one resource; the server    *)
(* accepts no mutation of a resource whose last one is still under way.    *)
(* A request is one step, as CallContract leaves it, and a wait ends as in *)
(* OperationPoll.                                                          *)
(***************************************************************************)
EXTENDS Integers

CONSTANT MaxCalls      \* a bound: calls in a behaviour

ASSUME CallsAssumption == MaxCalls \in Nat

-----------------------------------------------------------------------------
(* The methods.                                                            *)
(*   resource   _resolve_mutation of the base: await, then get             *)
(*   service    the managed databases themselves: settle, then always get  *)
(*   record     the same for DNS records                                   *)
(*   delete     delete of the base                                         *)
(*   sub        _wait_sub_operation of the VPCs                            *)
(*   block      _settle_operation of the block volumes                     *)
(*   envelope   _settle of the managed databases, for what belongs to them *)
(*   plain      whatever comes is an operation                             *)
(*   direct     the body is returned as it is                              *)

Families == {"resource", "service", "record", "delete", "sub", "block", "envelope",
             "plain", "direct"}

\* The answers: an operation that is pending or has settled, with a reference to
\* the resource or bare; the resource, which may have a state of its own; a managed
\* database, which has one and no id; or an empty body.
Referring == {"operation", "settled", "failed"}
Async == Referring \cup {"bare", "bare_settled", "bare_failed"}
AsyncOrRecord == Async \cup {"resource"}
AsyncOrResource == AsyncOrRecord \cup {"stateful"}
AsyncOrService == Async \cup {"service", "empty"}
AsyncOrEmpty == Async \cup {"empty"}
Answers == AsyncOrResource \cup AsyncOrService

\* A method by its client, its name, its family, what it does to the resource
\* and what it is answered; Checked methods may raise before any request.
M(client, name, family, effect, answers) ==
    [client |-> client, name |-> name, family |-> family, effect |-> effect,
     answers |-> answers, raises |-> "never"]
Checked(m, when) ==
    [client |-> m.client, name |-> m.name, family |-> m.family, effect |-> m.effect,
     answers |-> m.answers, raises |-> when]

BaseCreates == {M("base", "create", "resource", "create", AsyncOrResource)}

\* Keyed by name: its create knows the id.
NamedCreates == {M("ssh_key", "create", "resource", "create", AsyncOrRecord)}
BaseUpdates == {M("base", "update", "resource", "change", AsyncOrResource)}
BaseDeletes == {M("base", "delete", "delete", "remove", AsyncOrEmpty)}

SubnetMethods ==
    {M("vpc", "create_subnet", "sub", "create", AsyncOrRecord),
     M("vpc", "update_subnet", "sub", "change", AsyncOrRecord),
     M("vpc", "delete_subnet", "sub", "remove", AsyncOrEmpty)}
    \cup {M("vpc", n, "sub", "change", Async) :
          n \in {"attach_subnet", "detach_subnet"}}
RouteMethods ==
    {M("vpc", "create_route", "sub", "create", AsyncOrRecord),
     M("vpc", "delete_route", "sub", "remove", AsyncOrEmpty)}

\* resize answers with the volume, whose state is its own.
VolumeMethods ==
    {M("block_volume", n, "block", "change", Async) : n \in {"attach", "detach"}}
    \cup {M("block_volume", "resize", "block", "change", {"stateful"}),
          M("block_volume", "create_snapshot", "block", "create", Async)}
VolumeSnapshotMethods ==
    {M("block_volume_snapshot", "create_from_volume", "resource", "create",
       AsyncOrResource)}
SnapshotMethods ==
    {M("snapshot", "create_from_instance", "resource", "create", AsyncOrResource),
     M("snapshot", "export", "plain", "change", Async)}

RecordMethods ==
    {M("dns", "create_record", "record", "create", AsyncOrRecord),
     M("dns", "update_record", "record", "change", AsyncOrRecord),
     M("dns", "delete_record", "plain", "remove", Async)}

NodepoolMethods ==
    {M("sks", "create_nodepool", "plain", "create", Async),
     M("sks", "update_nodepool", "plain", "change", Async),
     M("sks", "delete_nodepool", "plain", "remove", Async)}
KubeconfigMethods ==
    {M("sks", "generate_kubeconfig", "direct", "change", {"resource"})}
MembershipMethods ==
    {M("private_network", n, "plain", "change", Async) :
     n \in {"attach_instance", "detach_instance"}}
RuleMethods ==
    {M("security_group", "add_rule", "plain", "create", Async),
     M("security_group", "delete_rule", "plain", "remove", Async)}
ServiceMethods ==
    {M("load_balancer", "add_service", "plain", "create", Async),
     M("load_balancer", "update_service", "plain", "change", Async),
     M("load_balancer", "delete_service", "plain", "remove", Async)}
InstanceMethods ==
    {M("instance", n, "plain", "change", Async) :
     n \in {"start", "stop", "reboot", "scale"}}
PoolMethods == {M("instance_pool", "scale", "plain", "change", Async)}
ReverseDNSMethods ==
    {M("reverse_dns", "set_reverse_dns", "plain", "change", Async),
     M("reverse_dns", "delete_reverse_dns", "plain", "remove", Async)}

PolicyMethods ==
    {M("iam_role", n, "plain", "change", Async) :
     n \in {"set_policy", "set_assume_role_policy", "set_organization_policy"}}
    \cup {Checked(M("iam_role", "reset_organization_policy", "plain", "change",
                    Async), "on_bad_arguments")}

\* The services themselves: create and update read them at their own URLs.
DatabaseServiceMethods ==
    {M("dbaas", "create", "service", "create", AsyncOrService),
     M("dbaas", "update", "service", "change", AsyncOrService)}

\* Only pg and mysql have databases of their own.
DatabaseMethods ==
    {Checked(M("dbaas", "create_database", "envelope", "create", Async),
             "on_bad_arguments"),
     Checked(M("dbaas", "delete_database", "envelope", "remove", Async),
             "on_bad_arguments"),
     M("dbaas", "start_maintenance", "envelope", "change", Async)}
UserMethods ==
    {M("dbaas", "create_user", "envelope", "create", Async),
     M("dbaas", "delete_user", "envelope", "remove", Async),
     M("dbaas", "reset_user_password", "envelope", "change", Async)}

\* Keys are changed at once and answered with themselves; they are never
\* deleted, only scheduled for it.
KeyMethods ==
    {M("kms", n, "direct", "change", {"resource"}) :
     n \in {"enable", "disable", "enable_rotation", "disable_rotation", "rotate"}}
    \cup {Checked(M("kms", "delete", "delete", "remove", {"empty"}), "always")}
CipherMethods ==
    {M("kms", n, "direct", "change", {"resource"}) :
     n \in {"encrypt", "decrypt", "re_encrypt"}}
    \cup {Checked(M("kms", "generate_data_key", "direct", "change", {"resource"}),
                  "on_bad_arguments")}
KeyEndMethods ==
    {M("kms", n, "direct", "change", {"resource"}) :
     n \in {"schedule_deletion", "cancel_deletion", "replicate"}}
KeyCreates == {M("kms", "create", "resource", "create", {"resource"})}

\* Object storage does all it does at once.
BucketMethods ==
    {M("bucket", n, "direct", "change", {"resource"}) : n \in {"create", "delete"}}
ObjectMethods ==
    {M("bucket", n, "direct", "change", {"resource"}) :
     n \in {"put_object", "delete_object", "upload_file"}}
RuleSetMethods ==
    {M("bucket", n, "direct", "change", {"resource"}) :
     n \in {"set_lifecycle", "set_cors"}}

Methods ==
    BaseCreates \cup NamedCreates \cup BaseUpdates \cup BaseDeletes
    \cup SubnetMethods \cup RouteMethods
    \cup VolumeMethods \cup VolumeSnapshotMethods \cup SnapshotMethods
    \cup RecordMethods \cup NodepoolMethods \cup KubeconfigMethods
    \cup MembershipMethods \cup RuleMethods \cup ServiceMethods
    \cup InstanceMethods \cup PoolMethods \cup ReverseDNSMethods
    \cup PolicyMethods \cup DatabaseServiceMethods \cup DatabaseMethods \cup UserMethods
    \cup KeyMethods \cup CipherMethods \cup KeyEndMethods \cup KeyCreates
    \cup BucketMethods \cup ObjectMethods \cup RuleSetMethods

-----------------------------------------------------------------------------
(* The bodies: whose id they carry, which state, and whether a reference.  *)

OperationStates == {"pending", "success", "failure"}
States == OperationStates \cup {"attached", "none"}

IdOf(b) == IF b \in Async THEN "operation"
           ELSE IF b \in {"resource", "stateful"} THEN "resource" ELSE "none"
StateOf(b) == IF b \in {"operation", "bare"} THEN "pending"
              ELSE IF b \in {"settled", "bare_settled"} THEN "success"
              ELSE IF b \in {"failed", "bare_failed"} THEN "failure"
              ELSE IF b \in {"stateful", "service"} THEN "attached" ELSE "none"
HasReference(b) == b \in Referring

\* _looks_like_operation.
LooksLikeOperation(b) == HasReference(b) \/ StateOf(b) # "none"

\* Slips: a volume that shows its state is taken for an operation; so is a
\* VPC's pending operation for the subnet.
IsResourceSlip(f, b) ==
    \/ f \in {"resource", "service", "record", "envelope", "block"} /\ ~LooksLikeOperation(b)
    \/ f = "sub" /\ b # "settled"
    \/ f = "delete" /\ b = "empty"
    \/ f = "direct"
IsResourceByShape(f, b) ==
    \/ f \in {"resource", "service", "record", "envelope", "block"} /\ ~LooksLikeOperation(b)
    \/ f = "sub" /\ (b = "empty" \/ ~LooksLikeOperation(b))
    \/ f = "delete" /\ b = "empty"
    \/ f = "direct"

\* The answers that each family does not take for an operation.
IsResource(f, b) ==
    \/ f \in {"resource", "service", "record", "envelope"} /\ ~LooksLikeOperation(b)
    \/ f = "sub" /\ (b = "empty" \/ ~LooksLikeOperation(b))
    \/ /\ f = "block" /\ b # "empty"
       /\ ~HasReference(b) /\ StateOf(b) \notin OperationStates
    \/ f = "delete" /\ b = "empty"
    \/ f = "direct"

WaitArguments == {"default", "yes", "no"}

\* Slip: wait=None means do not wait.
ShouldWaitSlip(m, w) == w = "yes"

\* _should_wait: wait=None leaves it to the class; KMS has nothing to wait for.
ShouldWait(m, w) == IF w = "default" THEN m.client # "kms" ELSE w = "yes"

\* Slip: the caller's own id is not passed on.
FallbackSlip(m) == FALSE

\* fallback_id: an update knows which resource it is about, and so does the
\* create of a resource that is keyed by its name.
Fallback(m) ==
    /\ m.family \in {"resource", "record"}
    /\ m.effect = "change" \/ m.client = "ssh_key"

-----------------------------------------------------------------------------
VARIABLES
    pc,         \* where the call is
    method,     \* the method called
    wait,       \* the wait= argument; "default" for None
    answer,     \* the body the request was answered with
    reference,  \* TRUE when the operation in hand refers to the resource
    asked,      \* whose id is polled as operation/<id>
    outcome,    \* how the call ended: what kind of value, its state, its id
    mutation,   \* the last mutation the server has accepted
    excused,    \* TRUE once a call has ended that did not wait to the end
    calls       \* the calls begun so far

vars == <<pc, method, wait, answer, reference, asked, outcome, mutation, excused,
          calls>>

None == [kind |-> "none", state |-> "none", id |-> "none"]
Raised(kind) == [kind |-> kind, state |-> "none", id |-> "none"]
Errors == {"bad_call", "refused", "conflict", "unknown", "operation_error",
           "gave_up", "not_found", "interrupted"}
\* The errors that leave open what becomes of the mutation.
Unfinished == {"unknown", "gave_up", "interrupted"}

Init ==
    /\ pc = "idle"
    /\ method \in BaseCreates
    /\ wait = "default"
    /\ answer = "empty"
    /\ reference = FALSE
    /\ asked = "none"
    /\ outcome = None
    /\ mutation = "none"
    /\ excused = FALSE
    /\ calls = 0

\* Argument checks come before the request, which is sent next.
Begin(m, w) ==
    /\ pc = "idle" /\ calls < MaxCalls
    /\ method' = m
    /\ wait' = w
    /\ calls' = calls + 1
    /\ asked' = "none"
    /\ \/ /\ m.raises # "always"
          /\ pc' = "request" /\ outcome' = None
       \/ /\ m.raises # "never"
          /\ pc' = "idle" /\ outcome' = Raised("bad_call")
    /\ UNCHANGED <<answer, reference, mutation, excused>>

End(o) ==
    /\ pc' = "idle"
    /\ outcome' = o
    /\ excused' = (excused \/ wait = "no" \/ o.kind \in Unfinished)
    /\ UNCHANGED <<method, wait, calls>>

-----------------------------------------------------------------------------
(* The request.                                                            *)

\* What the server does with a mutation it answers in this way (external).
Fate(b) == IF StateOf(b) = "pending" THEN "pending"
           ELSE IF StateOf(b) = "failure" THEN "failed" ELSE "done"

Answered ==
    /\ pc = "request" /\ mutation # "pending"
    /\ answer' \in method.answers
    /\ reference' = HasReference(answer')
    /\ mutation' = Fate(answer')
    /\ pc' = "settle"
    /\ UNCHANGED <<method, wait, asked, outcome, excused, calls>>

\* 409: the last mutation is still under way.
Conflict ==
    /\ pc = "request" /\ mutation = "pending"
    /\ End(Raised("conflict"))
    /\ UNCHANGED <<answer, reference, asked, mutation>>

\* Any other error answer.
Refused ==
    /\ pc = "request"
    /\ End(Raised("refused"))
    /\ UNCHANGED <<answer, reference, asked, mutation>>

\* The answer is lost, the mutation may have been accepted.
Unknown ==
    /\ pc = "request"
    /\ End(Raised("unknown"))
    /\ mutation' \in {mutation} \cup
           (IF mutation = "pending" THEN {}
            ELSE {Fate(b) : b \in method.answers})
    /\ UNCHANGED <<answer, reference, asked>>

-----------------------------------------------------------------------------
(* Settling the answer.                                                    *)

Waits == ShouldWait(method, wait)

Settling(b) == pc = "settle" /\ answer = b

\* The resource is fetched.
Refetch ==
    /\ pc' = "fetch"
    /\ UNCHANGED <<method, wait, outcome, excused, calls>>

\* A settled operation stands for the body; or the body is the result, which a
\* managed database is fetched for all the same.
TakeResource(b) ==
    /\ Settling(b) /\ IsResource(method.family, b)
    /\ IF method.family = "service" THEN Refetch
       ELSE End(IF method.family \in {"sub", "block", "delete"}
                THEN [kind |-> "operation", state |-> "success", id |-> IdOf(b)]
                ELSE [kind |-> "resource", state |-> StateOf(b), id |-> IdOf(b)])
    /\ UNCHANGED <<answer, reference, asked, mutation>>

\* The call has an operation in this state, which may refer to the resource, and
\* waits no more: the resource it is about is fetched; or the operation is returned;
\* or, with nothing to fetch, what was answered is, in the place of the resource.
Proceed(state, refers) ==
    LET about == refers \/ Fallback(method)
        direct == method.family \in {"resource", "record"}
    IN \/ /\ method.family = "service" \/ (direct /\ about)
          /\ Refetch
       \/ /\ direct /\ ~about
          /\ End([kind |-> "resource", state |-> StateOf(answer), id |-> IdOf(answer)])
       \/ /\ method.family # "service" /\ ~direct
          /\ End([kind |-> "operation", state |-> state,
                  id |-> IF about THEN "resource" ELSE "none"])

TakeUnawaited(b) ==
    /\ Settling(b) /\ ~IsResource(method.family, b)
    /\ ~Waits \/ IdOf(b) = "none"
    /\ Proceed(StateOf(b), reference)
    /\ UNCHANGED <<answer, reference, asked, mutation>>

\* wait_operation on an operation that has settled already, or has not.
TakeSettled(b) ==
    /\ Settling(b) /\ ~IsResource(method.family, b)
    /\ Waits /\ IdOf(b) # "none"
    /\ \/ StateOf(b) = "success" /\ Proceed("success", reference)
       \/ StateOf(b) = "failure" /\ End(Raised("operation_error"))
    /\ UNCHANGED <<answer, reference, asked, mutation>>

TakePending(b) ==
    /\ Settling(b) /\ ~IsResource(method.family, b)
    /\ Waits /\ IdOf(b) # "none"
    /\ StateOf(b) \notin {"success", "failure"}
    /\ pc' = "poll" /\ asked' = IdOf(b)
    /\ UNCHANGED <<method, wait, answer, reference, outcome, mutation, excused, calls>>

\* The operation that the last poll brought goes on for the answer: it may have a
\* reference that the answer did not, or lack it.
PollSettles ==
    /\ pc = "poll" /\ asked = "operation"
    /\ reference' \in BOOLEAN
    /\ \/ mutation = "done" /\ Proceed("success", reference')
       \/ mutation = "failed" /\ End(Raised("operation_error"))
    /\ UNCHANGED <<answer, asked, mutation>>

\* Slip: there is no deadline.
PollEndsSlip ==
    /\ pc = "poll" /\ asked # "operation"
    /\ End(Raised("not_found"))
    /\ UNCHANGED <<answer, reference, asked, mutation>>

\* The deadline, or a poll that cannot be had; and there is no operation of a
\* resource's id: every poll of it is a 404.
PollEnds ==
    /\ pc = "poll"
    /\ \E e \in IF asked = "operation" THEN {"gave_up"} ELSE {"gave_up", "not_found"} :
          End(Raised(e))
    /\ UNCHANGED <<answer, reference, asked, mutation>>

Fetch ==
    /\ pc = "fetch"
    /\ End([kind |-> "resource", state |-> "fetched", id |-> "resource"])
    /\ UNCHANGED <<answer, reference, asked, mutation>>

\* The new resource does not show yet; or the GET fails.
FetchFails ==
    /\ pc = "fetch"
    /\ \/ /\ method.effect = "create" /\ mutation # "done"
          /\ End(Raised("not_found"))
       \/ End(Raised("refused"))
    /\ UNCHANGED <<answer, reference, asked, mutation>>

Client ==
    \/ Answered
    \/ Conflict
    \/ Refused
    \/ Unknown
    \/ \E b \in Answers :
          TakeResource(b) \/ TakeUnawaited(b) \/ TakeSettled(b) \/ TakePending(b)
    \/ PollSettles
    \/ PollEnds
    \/ Fetch
    \/ FetchFails

\* An operation settles on the server (external).
OperationSettles ==
    /\ mutation = "pending"
    /\ mutation' \in {"done", "failed"}
    /\ UNCHANGED <<pc, method, wait, answer, reference, asked, outcome, excused, calls>>

Next ==
    \/ \E m \in Methods, w \in WaitArguments : Begin(m, w)
    \/ Client
    \/ OperationSettles

Spec == Init /\ [][Next]_vars

-----------------------------------------------------------------------------
(* Properties. *)

\* The variables stay in their types.
TypeOK ==
    /\ pc \in {"idle", "request", "settle", "poll", "fetch"}
    /\ method \in Methods
    /\ wait \in WaitArguments
    /\ answer \in Answers /\ reference \in BOOLEAN
    /\ asked \in {"none", "operation", "resource"}
    /\ outcome \in [kind : {"none", "operation", "resource"} \cup Errors,
                    state : States \cup {"fetched"}, id : {"none", "operation", "resource"}]
    /\ mutation \in {"none", "pending", "done", "failed"}
    /\ excused \in BOOLEAN
    /\ calls \in 0 .. MaxCalls

\* What is polled is an operation, however each client tells it from the resource
\* (_looks_like_operation and the five places that use it or do without); but for the
\* base's create and update, where a resource that is answered with a state of its
\* own is taken for an operation, and its id for an operation's.
PolledIsOperation ==
    pc = "poll" => \/ asked = "operation"
                   \/ answer = "stateful" /\ method.family = "resource"

\* A success is a fact: an operation is returned as succeeded, and a call that
\* waits returns a resource, only once the server has done it; a subnet's or a
\* volume's body counts as done only where the server answers with it when it is.
SuccessIsSettled ==
    (\/ outcome.kind = "operation" /\ outcome.state = "success"
     \/ outcome.kind = "resource" /\ wait # "no")
    => mutation = "done"

\* What a create or update returns is the resource, not its operation in the
\* resource's clothes; but where nobody has named the resource: neither the caller
\* of a create nor the operation, as it was answered or as the last poll brought it
\* (the end of _resolve_mutation, where the answer is surfaced).
ReturnsTarget ==
    outcome.kind = "resource" /\ outcome.id # "resource"
    => ~reference /\ method.effect = "create" /\ method.client # "ssh_key"

\* A caller that waits for each of its calls to end is never told by the server
\* that its own last mutation is still under way, whichever clients it mixes.
OwnStepsDoNotConflict == outcome.kind = "conflict" => excused
=============================================================================
