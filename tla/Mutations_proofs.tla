--------------------------- MODULE Mutations_proofs ---------------------------
(***************************************************************************)
(* Proofs about Mutations, for every number of calls: its types and its    *)
(* four safety invariants.  What the invariants need of the table of       *)
(* methods is one predicate of a method (Good), shown of each client's.    *)
(***************************************************************************)
EXTENDS Mutations, TLAPS

\* What a family may be answered: a body that is taken for the result belongs to
\* a mutation that is done; one that is taken for an operation is one, or the
\* resource or the service with a state of its own.
Good(m) ==
    /\ m.family \in Families /\ m.answers \subseteq Answers
    /\ m.family \in {"resource", "record"} => m.effect \in {"create", "change"}
    /\ m.client = "kms" => m.answers \subseteq {"resource", "empty"}
    /\ \A b \in m.answers :
          /\ IsResource(m.family, b) => /\ b \in {"resource", "stateful", "empty"}
                                        /\ m.family \in {"resource", "record", "envelope", "direct"}
                                              => b = "resource"
          /\ ~IsResource(m.family, b) => \/ b \in Async
                                         \/ b = "stateful" /\ m.family = "resource"
                                         \/ b = "service" /\ m.family = "service"

-----------------------------------------------------------------------------
(* The table. *)

\* Each way of settling suits the answers that its methods get.
LEMMA TableFacts == \A m \in Methods : Good(m)
<1> USE DEF Good, M, Checked, Families, Answers, Async, Referring, AsyncOrRecord,
            AsyncOrResource, AsyncOrService, AsyncOrEmpty, IsResource, LooksLikeOperation, HasReference, StateOf,
            OperationStates
<1>1. \A m \in BaseCreates \cup NamedCreates \cup BaseUpdates \cup BaseDeletes :
       Good(m)
  BY DEF BaseCreates, NamedCreates, BaseUpdates, BaseDeletes
<1>2. \A m \in SubnetMethods \cup RouteMethods : Good(m)
  BY DEF SubnetMethods, RouteMethods
<1>3. \A m \in VolumeMethods \cup VolumeSnapshotMethods \cup SnapshotMethods : Good(m)
  BY DEF VolumeMethods, VolumeSnapshotMethods, SnapshotMethods
<1>4. \A m \in RecordMethods : Good(m)
  BY DEF RecordMethods
<1>5. \A m \in NodepoolMethods \cup KubeconfigMethods \cup MembershipMethods : Good(m)
  BY DEF NodepoolMethods, KubeconfigMethods, MembershipMethods
<1>6. \A m \in RuleMethods \cup ServiceMethods \cup InstanceMethods : Good(m)
  BY DEF RuleMethods, ServiceMethods, InstanceMethods
<1>7. \A m \in PoolMethods \cup ReverseDNSMethods \cup PolicyMethods : Good(m)
  BY DEF PoolMethods, ReverseDNSMethods, PolicyMethods
<1>8. \A m \in DatabaseServiceMethods \cup DatabaseMethods \cup UserMethods : Good(m)
  BY DEF DatabaseServiceMethods, DatabaseMethods, UserMethods
<1>9. \A m \in KeyMethods \cup CipherMethods : Good(m)
  BY DEF KeyMethods, CipherMethods
<1>10. \A m \in KeyEndMethods \cup KeyCreates : Good(m)
  BY DEF KeyEndMethods, KeyCreates
<1>11. \A m \in BucketMethods \cup ObjectMethods \cup RuleSetMethods : Good(m)
  BY DEF BucketMethods, ObjectMethods, RuleSetMethods
<1> HIDE DEF Good, M, Checked, Families, Answers, Async, Referring, AsyncOrRecord,
             AsyncOrResource, AsyncOrService, AsyncOrEmpty, IsResource, LooksLikeOperation, HasReference, StateOf,
             OperationStates
<1> SUFFICES ASSUME NEW m \in Methods PROVE Good(m)
  OBVIOUS
<1>12. CASE \/ m \in BaseCreates \cup NamedCreates \cup BaseUpdates \cup BaseDeletes
            \/ m \in SubnetMethods \cup RouteMethods
            \/ m \in VolumeMethods \cup VolumeSnapshotMethods \cup SnapshotMethods
            \/ m \in RecordMethods
  BY <1>1, <1>2, <1>3, <1>4, <1>12, Zenon
<1>13. CASE \/ m \in NodepoolMethods \cup KubeconfigMethods \cup MembershipMethods
            \/ m \in RuleMethods \cup ServiceMethods \cup InstanceMethods
            \/ m \in PoolMethods \cup ReverseDNSMethods \cup PolicyMethods
            \/ m \in DatabaseServiceMethods \cup DatabaseMethods \cup UserMethods
  BY <1>5, <1>6, <1>7, <1>8, <1>13, Zenon
<1>14. CASE \/ m \in KeyMethods \cup CipherMethods
            \/ m \in KeyEndMethods \cup KeyCreates
            \/ m \in BucketMethods \cup ObjectMethods \cup RuleSetMethods
  BY <1>9, <1>10, <1>11, <1>14, Zenon
<1> QED
  BY <1>12, <1>13, <1>14 DEF Methods

\* What becomes of a body of the method called.
LEMMA BodyFacts ==
    ASSUME TypeOK, NEW b \in method.answers
    PROVE  /\ b \in Answers
           /\ IsResource(method.family, b) =>
                 /\ Fate(b) = "done"
                 /\ method.family \notin {"sub", "block", "delete", "service"} =>
                       IdOf(b) = "resource"
           /\ ~IsResource(method.family, b) =>
                 /\ \/ IdOf(b) = "operation"
                    \/ b = "stateful" /\ method.family = "resource"
                    \/ b = "service" /\ method.family = "service"
                 /\ IdOf(b) = "none" => Fate(b) = "done"
                 /\ ~Waits => wait = "no"
                 /\ wait # "no" => Waits
           /\ StateOf(b) \in States
           /\ StateOf(b) = "success" => Fate(b) = "done"
           /\ StateOf(b) = "failure" => Fate(b) = "failed"
           /\ IdOf(b) \in {"none", "operation", "resource"}
           /\ Fate(b) \in {"pending", "done", "failed"}
<1>1. Good(method)
  BY TableFacts DEF TypeOK
<1>2. b \in Answers /\ method.family \in Families
  BY <1>1 DEF Good
<1>3. ~IsResource(method.family, b) =>
         /\ method.client # "kms"
         /\ \/ b \in Async
            \/ b = "stateful" /\ method.family = "resource"
            \/ b = "service" /\ method.family = "service"
  BY <1>1 DEF Good, Async, Referring
<1>4. IsResource(method.family, b) =>
         /\ b \in {"resource", "stateful", "empty"}
         /\ method.family \notin {"sub", "block", "delete", "service"} => b = "resource"
  <2>1. method.family = "plain" => ~IsResource(method.family, b)
    BY DEF IsResource
  <2> QED
    BY <1>1, <1>2, <2>1 DEF Good, Families
<1>5. b \in Async \cup {"resource", "stateful", "service", "empty"}
  BY <1>2 DEF Answers, AsyncOrResource, AsyncOrRecord, AsyncOrService
<1>6. /\ ~IsResource(method.family, b) => /\ \/ IdOf(b) = "operation"
                                             \/ b = "stateful" /\ method.family = "resource"
                                             \/ b = "service" /\ method.family = "service"
                                          /\ IdOf(b) = "none" => Fate(b) = "done"
      /\ IsResource(method.family, b) => Fate(b) = "done"
      /\ b = "resource" => IdOf(b) = "resource"
      /\ StateOf(b) = "success" => Fate(b) = "done"
      /\ StateOf(b) = "failure" => Fate(b) = "failed"
      /\ StateOf(b) \in States
      /\ IdOf(b) \in {"none", "operation", "resource"}
      /\ Fate(b) \in {"pending", "done", "failed"}
  BY <1>3, <1>4, <1>5 DEF IdOf, StateOf, Fate, Async, Referring, States, OperationStates
<1>7. wait \in WaitArguments /\ (~IsResource(method.family, b) => (Waits <=> wait # "no"))
  BY <1>3 DEF Waits, ShouldWait, TypeOK, WaitArguments
<1> QED
  BY <1>2, <1>3, <1>4, <1>6, <1>7

-----------------------------------------------------------------------------
(* The inductive invariant. *)

\* A call has no outcome before its end; what it was answered tells what the
\* server makes of its mutation, and that is under way no longer when a call that
\* waits goes on to fetch.
CallInv ==
    /\ pc # "idle" => outcome = None
    /\ pc \in {"settle", "poll", "fetch"} =>
          /\ answer \in method.answers
          /\ Fate(answer) # "pending" => mutation = Fate(answer)
          /\ mutation # "none"
    /\ pc = "poll" => Waits /\ ~IsResource(method.family, answer)
    /\ pc = "fetch" => wait = "no" \/ mutation = "done"

\* Between two calls a mutation is under way only if its call did not wait.
QuietInv == pc \in {"idle", "request"} /\ mutation = "pending" => excused

IInv == TypeOK /\ CallInv /\ QuietInv /\ PolledIsOperation /\ SuccessIsSettled
        /\ ReturnsTarget /\ OwnStepsDoNotConflict

Outcomes == [kind : {"none", "operation", "resource"} \cup Errors,
             state : States \cup {"fetched"}, id : {"none", "operation", "resource"}]

\* Nothing has been called yet.
LEMMA InitKeeps ==
    ASSUME Init
    PROVE  IInv
<1>1. TypeOK
  <2>1. method \in Methods
    BY Zenon DEF Init, Methods
  <2>2. outcome \in Outcomes
    BY DEF Init, None, Outcomes, States, OperationStates
  <2>3. /\ pc = "idle" /\ wait = "default" /\ answer = "empty" /\ asked = "none"
        /\ reference = FALSE /\ mutation = "none" /\ excused = FALSE /\ calls \in 0 .. MaxCalls
    BY CallsAssumption DEF Init
  <2>4. answer \in Answers /\ wait \in WaitArguments
    BY <2>3 DEF Answers, AsyncOrService, WaitArguments
  <2> QED
    BY <2>1, <2>2, <2>3, <2>4 DEF TypeOK, Outcomes
<1> QED
  BY <1>1 DEF Init, IInv, CallInv, QuietInv, PolledIsOperation, SuccessIsSettled,
     ReturnsTarget, OwnStepsDoNotConflict, None

\* A call may end with an outcome that is true of the mutation.
LEMMA EndKeeps ==
    ASSUME IInv, NEW o \in Outcomes, End(o), pc # "idle",
           asked' = asked, answer' = answer, reference' \in BOOLEAN,
           mutation' \in {"none", "pending", "done", "failed"},
           o.kind = "operation" /\ o.state = "success" => mutation' = "done",
           o.kind = "resource" /\ wait # "no" => mutation' = "done",
           o.kind = "resource" /\ o.id # "resource" =>
              ~reference' /\ method.effect = "create" /\ method.client # "ssh_key",
           o.kind = "conflict" => excused,
           mutation' = "pending" => excused \/ wait = "no" \/ o.kind \in Unfinished
    PROVE  IInv'
<1>1. /\ pc' = "idle" /\ outcome' = o /\ method' = method /\ wait' = wait
      /\ calls' = calls
      /\ excused' = (excused \/ wait = "no" \/ o.kind \in Unfinished)
  BY DEF End
<1>2. TypeOK'
  BY <1>1 DEF IInv, TypeOK, Outcomes
<1>3. CallInv' /\ QuietInv' /\ PolledIsOperation'
  BY <1>1 DEF CallInv, QuietInv, PolledIsOperation
<1>4. SuccessIsSettled' /\ ReturnsTarget' /\ OwnStepsDoNotConflict'
  BY <1>1 DEF SuccessIsSettled, ReturnsTarget, OwnStepsDoNotConflict
<1> QED
  BY <1>2, <1>3, <1>4 DEF IInv

\* Each way of raising is an outcome, and claims nothing of the mutation.
LEMMA RaisedFacts ==
    ASSUME NEW k \in Errors
    PROVE  /\ Raised(k) \in Outcomes /\ Raised(k).kind = k
           /\ k \notin {"none", "operation", "resource"}
  BY DEF Raised, Outcomes, Errors, States, OperationStates

\* The steps of a call that leave it under way.
LEMMA GoesOn ==
    ASSUME IInv, pc \notin {"idle"}, pc' \in {"settle", "poll", "fetch"},
           UNCHANGED <<method, wait, outcome, excused, calls>>,
           answer' \in Answers, asked' \in {"none", "operation", "resource"},
           reference' \in BOOLEAN,
           mutation' \in {"none", "pending", "done", "failed"},
           CallInv', PolledIsOperation'
    PROVE  IInv'
<1>1. TypeOK'
  BY DEF IInv, TypeOK
<1>2. outcome' = None /\ None.kind = "none"
  BY DEF IInv, CallInv, None
<1> QED
  BY <1>1, <1>2 DEF IInv, QuietInv, PolledIsOperation, SuccessIsSettled, ReturnsTarget,
     OwnStepsDoNotConflict

\* A call may begin, or be refused before any request.
LEMMA BeginKeeps ==
    ASSUME IInv, NEW m \in Methods, NEW w \in WaitArguments, Begin(m, w)
    PROVE  IInv'
<1>1. /\ pc = "idle" /\ pc' \in {"request", "idle"} /\ method' = m /\ wait' = w
      /\ calls' = calls + 1 /\ calls < MaxCalls /\ asked' = "none"
      /\ UNCHANGED <<answer, reference, mutation, excused>>
      /\ outcome' \in {None, Raised("bad_call")} /\ (pc' # "idle" => outcome' = None)
  BY DEF Begin
<1>2. outcome' \in Outcomes /\ outcome'.kind \in {"none", "bad_call"}
  BY <1>1, RaisedFacts DEF None, Outcomes, Errors, Raised, States, OperationStates
<1>3. TypeOK'
  BY <1>1, <1>2, CallsAssumption DEF IInv, TypeOK, Outcomes
<1> QED
  BY <1>1, <1>2, <1>3 DEF IInv, CallInv, QuietInv, PolledIsOperation, SuccessIsSettled,
     ReturnsTarget, OwnStepsDoNotConflict

\* The request may be answered, refused or lost.
LEMMA RequestKeeps ==
    ASSUME IInv, Answered \/ Conflict \/ Refused \/ Unknown
    PROVE  IInv'
<1>1. ASSUME Answered PROVE IInv'
  <2>1. answer' \in method.answers /\ mutation' = Fate(answer')
        /\ pc = "request" /\ pc' = "settle" /\ asked' = asked
        /\ reference' \in BOOLEAN /\ UNCHANGED <<method, wait, outcome, excused, calls>>
    BY <1>1 DEF Answered, HasReference
  <2>2. answer' \in Answers /\ Fate(answer') \in {"pending", "done", "failed"}
    BY <2>1, BodyFacts DEF IInv
  <2>3. CallInv'
    BY <2>1, <2>2 DEF IInv, CallInv
  <2>4. PolledIsOperation'
    BY <2>1 DEF PolledIsOperation
  <2> QED
    BY <2>1, <2>2, <2>3, <2>4, GoesOn DEF IInv, TypeOK
<1>2. ASSUME Conflict PROVE IInv'
  BY <1>2, RaisedFacts, EndKeeps DEF Conflict, IInv, TypeOK, QuietInv, Errors
<1>3. ASSUME Refused PROVE IInv'
  BY <1>3, RaisedFacts, EndKeeps DEF Refused, IInv, TypeOK, QuietInv, Errors
<1>4. ASSUME Unknown PROVE IInv'
  <2>1. mutation' \in {"none", "pending", "done", "failed"}
    BY <1>4, BodyFacts DEF Unknown, IInv, TypeOK
  <2> QED
    BY <1>4, <2>1, RaisedFacts, EndKeeps DEF Unknown, IInv, TypeOK, Errors, Unfinished
<1> QED
  BY <1>1, <1>2, <1>3, <1>4

\* A call that waits no more may go on to fetch the resource.
LEMMA RefetchKeeps ==
    ASSUME IInv, pc \in {"settle", "poll"}, Refetch, reference' \in BOOLEAN,
           UNCHANGED <<answer, asked, mutation>>, wait = "no" \/ mutation = "done"
    PROVE  IInv'
<1>1. pc' = "fetch" /\ UNCHANGED <<method, wait, outcome, excused, calls>>
  BY DEF Refetch
<1>2. CallInv' /\ PolledIsOperation'
  BY <1>1 DEF IInv, CallInv, PolledIsOperation
<1> QED
  BY <1>1, <1>2, GoesOn DEF IInv, TypeOK

\* The body may be the result.
LEMMA ResourceKeeps ==
    ASSUME IInv, NEW b \in Answers, TakeResource(b)
    PROVE  IInv'
<1>1. pc = "settle" /\ answer = b /\ IsResource(method.family, b)
      /\ UNCHANGED <<answer, reference, asked, mutation>>
  BY DEF TakeResource, Settling
<1>2. b \in method.answers /\ mutation = "done" /\ TypeOK
  BY <1>1, BodyFacts DEF IInv, CallInv
<1>3. CASE method.family \in {"sub", "block", "delete"}
  <2> DEFINE o == [kind |-> "operation", state |-> "success", id |-> IdOf(b)]
  <2>1. o \in Outcomes /\ End(o) /\ o.kind = "operation"
    BY <1>2, <1>3, BodyFacts DEF TakeResource, Outcomes, States, OperationStates
  <2> QED
    BY <1>1, <1>2, <2>1, EndKeeps DEF TypeOK
<1>4. CASE method.family \notin {"sub", "block", "delete", "service"}
  <2> DEFINE o == [kind |-> "resource", state |-> StateOf(b), id |-> IdOf(b)]
  <2>1. o \in Outcomes /\ End(o) /\ o.kind = "resource" /\ o.id = "resource"
    BY <1>1, <1>2, <1>4, BodyFacts DEF TakeResource, Outcomes
  <2> QED
    BY <1>1, <1>2, <2>1, EndKeeps DEF TypeOK
<1>5. CASE method.family = "service"
  <2>1. Refetch
    BY <1>5 DEF TakeResource
  <2> QED
    BY <1>1, <1>2, <2>1, RefetchKeeps DEF TypeOK
<1> QED
  BY <1>3, <1>4, <1>5

\* A call that has its operation and waits no more may go on.
LEMMA ProceedKeeps ==
    ASSUME IInv, NEW state \in States, NEW refers \in BOOLEAN, pc \in {"settle", "poll"},
           ~IsResource(method.family, answer), Proceed(state, refers),
           reference' = refers, UNCHANGED <<answer, asked, mutation>>,
           wait = "no" \/ mutation = "done", state = "success" => mutation = "done"
    PROVE  IInv'
<1> DEFINE about == refers \/ Fallback(method)
           direct == method.family \in {"resource", "record"}
<1>1. TypeOK /\ answer \in method.answers /\ mutation # "none"
  BY DEF IInv, CallInv
<1>2. CASE method.family = "service" \/ (direct /\ about)
  <2>1. Refetch
    BY <1>2 DEF Proceed
  <2> QED
    BY <1>1, <2>1, RefetchKeeps
<1>3. CASE direct /\ ~about
  <2> DEFINE o == [kind |-> "resource", state |-> StateOf(answer), id |-> IdOf(answer)]
  <2>1. End(o)
    BY <1>3 DEF Proceed
  <2>2. o \in Outcomes /\ o.kind = "resource"
    BY <1>1, BodyFacts DEF Outcomes
  <2>3. ~refers /\ method.effect = "create" /\ method.client # "ssh_key"
    <3>1. Good(method)
      BY <1>1, TableFacts DEF TypeOK
    <3> QED
      BY <1>3, <3>1 DEF Good, Fallback
  <2> HIDE DEF o
  <2> QED
    BY <1>1, <2>1, <2>2, <2>3, EndKeeps DEF TypeOK
<1>4. CASE method.family # "service" /\ ~direct
  <2> DEFINE o == [kind |-> "operation", state |-> state,
                   id |-> IF about THEN "resource" ELSE "none"]
  <2>1. End(o)
    BY <1>4 DEF Proceed
  <2>2. o \in Outcomes /\ o.kind = "operation" /\ o.state = state
    BY DEF Outcomes
  <2> HIDE DEF o
  <2> QED
    BY <1>1, <2>1, <2>2, EndKeeps DEF TypeOK
<1> QED
  BY <1>2, <1>3, <1>4

\* An operation may be returned, or followed, without a wait.
LEMMA UnawaitedKeeps ==
    ASSUME IInv, NEW b \in Answers, TakeUnawaited(b)
    PROVE  IInv'
<1>1. /\ pc = "settle" /\ answer = b /\ ~IsResource(method.family, b)
      /\ ~Waits \/ IdOf(b) = "none"
      /\ Proceed(StateOf(b), reference) /\ UNCHANGED <<answer, reference, asked, mutation>>
  BY DEF TakeUnawaited, Settling
<1>2. b \in method.answers /\ TypeOK
      /\ (Fate(b) # "pending" => mutation = Fate(b))
  BY <1>1 DEF IInv, CallInv
<1>3. /\ wait = "no" \/ mutation = "done"
      /\ StateOf(b) \in States /\ (StateOf(b) = "success" => mutation = "done")
  BY <1>1, <1>2, BodyFacts
<1> QED
  BY <1>1, <1>2, <1>3, ProceedKeeps DEF TypeOK

\* An operation may have settled by the time it is answered.
LEMMA SettledKeeps ==
    ASSUME IInv, NEW b \in Answers, TakeSettled(b)
    PROVE  IInv'
<1>1. /\ pc = "settle" /\ answer = b /\ ~IsResource(method.family, b)
      /\ UNCHANGED <<answer, reference, asked, mutation>>
      /\ \/ StateOf(b) = "success" /\ Proceed("success", reference)
         \/ StateOf(b) = "failure" /\ End(Raised("operation_error"))
  BY DEF TakeSettled, Settling
<1>2. b \in method.answers /\ TypeOK
      /\ (Fate(b) # "pending" => mutation = Fate(b))
  BY <1>1 DEF IInv, CallInv
<1>3. CASE StateOf(b) = "success" /\ Proceed("success", reference)
  <2>1. "success" \in States /\ mutation = "done"
    BY <1>2, <1>3, BodyFacts DEF States, OperationStates
  <2> QED
    BY <1>1, <1>2, <1>3, <2>1, ProceedKeeps DEF TypeOK
<1>4. CASE StateOf(b) = "failure" /\ End(Raised("operation_error"))
  <2>1. mutation = "failed"
    BY <1>2, <1>4, BodyFacts
  <2> QED
    BY <1>1, <1>2, <1>4, <2>1, RaisedFacts, EndKeeps DEF Errors, TypeOK
<1> QED
  BY <1>1, <1>3, <1>4

\* A wait may begin, and asks after an operation but in the base's create and update.
LEMMA PendingKeeps ==
    ASSUME IInv, NEW b \in Answers, TakePending(b)
    PROVE  IInv'
<1>1. /\ pc = "settle" /\ answer = b /\ ~IsResource(method.family, b) /\ Waits
      /\ pc' = "poll" /\ asked' = IdOf(b) /\ IdOf(b) # "none"
      /\ UNCHANGED <<method, wait, answer, reference, outcome, mutation, excused, calls>>
  BY DEF TakePending, Settling
<1>2. b \in method.answers /\ TypeOK
  BY <1>1 DEF IInv, CallInv
<1>3. PolledIsOperation' /\ asked' \in {"operation", "resource"}
  BY <1>1, <1>2, BodyFacts DEF PolledIsOperation, IdOf
<1>4. CallInv'
  BY <1>1 DEF IInv, CallInv, Waits
<1> QED
  BY <1>1, <1>2, <1>3, <1>4, GoesOn DEF TypeOK

\* A wait may end, with the operation or without.
LEMMA PollKeeps ==
    ASSUME IInv, PollSettles \/ PollEnds
    PROVE  IInv'
<1>1. /\ pc = "poll" /\ ~IsResource(method.family, answer) /\ Waits
      /\ UNCHANGED <<answer, asked, mutation>> /\ reference' \in BOOLEAN
      /\ TypeOK
  BY DEF PollSettles, PollEnds, IInv, CallInv, TypeOK
<1>2. CASE mutation = "done" /\ Proceed("success", reference')
  <2>1. PICK refers \in BOOLEAN : refers = reference'
    BY <1>1
  <2>2. "success" \in States /\ Proceed("success", refers)
    BY <1>2, <2>1 DEF States, OperationStates
  <2> QED
    BY <1>1, <1>2, <2>1, <2>2, ProceedKeeps
<1>3. CASE mutation = "failed" /\ End(Raised("operation_error"))
  BY <1>1, <1>3, RaisedFacts, EndKeeps DEF Errors
<1>4. CASE End(Raised("gave_up"))
  BY <1>1, <1>4, RaisedFacts, EndKeeps DEF Errors, Unfinished, TypeOK
<1>5. CASE asked # "operation" /\ End(Raised("not_found"))
  <2>1. mutation = "done"
    BY <1>1, <1>5 DEF IInv, PolledIsOperation, CallInv, Fate, StateOf
  <2> QED
    BY <1>1, <1>5, <2>1, RaisedFacts, EndKeeps DEF Errors
<1> QED
  BY <1>1, <1>2, <1>3, <1>4, <1>5 DEF PollSettles, PollEnds

\* The resource may be fetched, or not be there.
LEMMA FetchKeeps ==
    ASSUME IInv, Fetch \/ FetchFails
    PROVE  IInv'
<1>1. /\ pc = "fetch" /\ UNCHANGED <<answer, reference, asked, mutation>> /\ TypeOK
      /\ wait = "no" \/ mutation = "done"
  BY DEF Fetch, FetchFails, IInv, CallInv
<1>3. CASE Fetch
  <2> DEFINE o == [kind |-> "resource", state |-> "fetched", id |-> "resource"]
  <2>1. o \in Outcomes /\ End(o) /\ o.kind = "resource" /\ o.id = "resource"
    BY <1>3 DEF Fetch, Outcomes
  <2> HIDE DEF o
  <2> QED
    BY <1>1, <2>1, EndKeeps DEF TypeOK
<1>4. CASE FetchFails
  <2>1. PICK k \in {"not_found", "refused"} : End(Raised(k))
    BY <1>4 DEF FetchFails
  <2> QED
    BY <1>1, <2>1, RaisedFacts, EndKeeps DEF Errors, TypeOK
<1> QED
  BY <1>3, <1>4

\* The server may settle the operation at any time.
LEMMA ServerKeeps ==
    ASSUME IInv, OperationSettles
    PROVE  IInv'
<1>1. mutation = "pending" /\ mutation' \in {"done", "failed"}
      /\ UNCHANGED <<pc, method, wait, answer, reference, asked, outcome, excused,
                     calls>>
  BY DEF OperationSettles
<1>2. TypeOK'
  BY <1>1 DEF IInv, TypeOK
<1>3. CallInv'
  BY <1>1 DEF IInv, CallInv, Waits
<1> QED
  BY <1>1, <1>2, <1>3 DEF IInv, QuietInv, PolledIsOperation, SuccessIsSettled,
     ReturnsTarget, OwnStepsDoNotConflict

-----------------------------------------------------------------------------
(* The theorems. *)

\* The invariant holds of every behaviour of the clients.
THEOREM Invariance == Spec => []IInv
<1>1. Init => IInv
  BY InitKeeps
<1>2. IInv /\ [Next]_vars => IInv'
  <2> SUFFICES ASSUME IInv, [Next]_vars PROVE IInv'
    OBVIOUS
  <2>1. CASE \E m \in Methods, w \in WaitArguments : Begin(m, w)
    BY <2>1, BeginKeeps
  <2>2. CASE Answered \/ Conflict \/ Refused \/ Unknown
    BY <2>2, RequestKeeps
  <2>3. CASE \E b \in Answers :
                TakeResource(b) \/ TakeUnawaited(b) \/ TakeSettled(b) \/ TakePending(b)
    BY <2>3, ResourceKeeps, UnawaitedKeeps, SettledKeeps, PendingKeeps
  <2>4. CASE PollSettles \/ PollEnds
    BY <2>4, PollKeeps
  <2>5. CASE Fetch \/ FetchFails
    BY <2>5, FetchKeeps
  <2>6. CASE OperationSettles
    BY <2>6, ServerKeeps
  <2>7. CASE UNCHANGED vars
    BY <2>7 DEF vars, IInv, TypeOK, CallInv, QuietInv, PolledIsOperation,
       SuccessIsSettled, ReturnsTarget, OwnStepsDoNotConflict, Waits
  <2> QED
    BY <2>1, <2>2, <2>3, <2>4, <2>5, <2>6, <2>7 DEF Next, Client
<1> QED
  BY <1>1, <1>2, PTL DEF Spec

\* The variables stay in their types, whatever the calls.
THEOREM TypeCorrect == Spec => []TypeOK
  BY Invariance, PTL DEF IInv

\* No client polls the id of a resource as that of an operation, but the base's
\* create and update where a resource is answered with a state of its own.
THEOREM PollsOperations == Spec => []PolledIsOperation
  BY Invariance, PTL DEF IInv

\* What a method returns as done, the server has done.
THEOREM SuccessesAreSettled == Spec => []SuccessIsSettled
  BY Invariance, PTL DEF IInv

\* What a method returns as the resource is the resource, but where a create is
\* given no name of it: by no reference of its operation, and by no caller.
THEOREM TargetsAreReturned == Spec => []ReturnsTarget
  BY Invariance, PTL DEF IInv

\* A caller that waits for each of its calls does not run into its own operations.
THEOREM NoOwnConflict == Spec => []OwnStepsDoNotConflict
  BY Invariance, PTL DEF IInv
=============================================================================
