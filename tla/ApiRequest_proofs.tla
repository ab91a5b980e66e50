-------------------------- MODULE ApiRequest_proofs --------------------------
(***************************************************************************)
(* Proofs about ApiRequest, for every budget, every set of statuses and    *)
(* every Retry-After: its types, the no-duplicate-mutation guarantee, what *)
(* an answer says of the server, and that it implements CallContract.      *)
(***************************************************************************)
EXTENDS ApiRequest, WellFoundedInduction, TLAPS

\* The attempts before the current one of a POST were all refused (that is why
\* there is a current one), and those after it were never sent.
OnlyTheCurrentAttemptIsLive ==
    /\ \A a \in Attempts : a > attempt => fate[a] = "unsent"
    /\ verb = "POST" => \A a \in Attempts : a < attempt => fate[a] = "dropped"

\* An answer tells the truth about the current attempt.
AnswerIsTrue ==
    /\ pc = "send" => answer = None /\ fate[attempt] = "unsent"
    /\ answer \in SuccessStatuses => fate[attempt] = "landed"
    /\ answer \in Refusals => fate[attempt] = "dropped"

\* An outcome is what the last answer calls for.
OutcomeIsTrue ==
    /\ outcome = "pending" <=> pc # "done"
    /\ outcome = "body" => answer \in SuccessStatuses

IInv == TypeOK /\ OnlyTheCurrentAttemptIsLive /\ AnswerIsTrue /\ OutcomeIsTrue

-----------------------------------------------------------------------------
(* Lemmas on the operators of the retry policy. *)

\* Induction: a set of natural numbers that is not empty has a least one.
LEMMA LeastNumber ==
    ASSUME NEW T \in SUBSET Nat, T # {}
    PROVE  \E x \in T : \A y \in T : x <= y
<1> DEFINE R == {p \in Nat \X Nat : p[1] < p[2]}
<1>1. OpToRel(<, Nat) = R
  BY DEF OpToRel
<1>2. IsWellFoundedOn(R, Nat)
  BY <1>1, NatLessThanWellFounded
<1> HIDE DEF R
<1>3. PICK x \in T : \A y \in T : <<y, x>> \notin R
  BY <1>2, WFMin
<1>4. \A y \in T : ~(y < x)
  BY <1>3 DEF R
<1> QED
  BY <1>4

\* A number that doubles from attempt 0 to attempt k.
Doubles(f, k) == f[0] = Backoff /\ \A n \in 1 .. k : f[n] = 2 * f[n - 1]

Doubling(k) == \E f \in [Attempts -> Nat] : Doubles(f, k)

\* There is such a number up to every attempt.
LEMMA DoublingExists == \A k \in Attempts : Doubling(k)
<1> DEFINE T == {k \in Attempts : ~Doubling(k)}
<1>1. ASSUME T # {} PROVE FALSE
  <2>1. T \subseteq Nat
    BY DEF Attempts
  <2>2. PICK k \in T : \A j \in T : k <= j
    BY <1>1, <2>1, LeastNumber
  <2>3. k \in Attempts /\ ~Doubling(k)
    BY <2>2
  <2>4. \A j \in Attempts : j < k => Doubling(j)
    BY <2>1, <2>2 DEF Attempts
  <2> HIDE DEF T
  <2>5. CASE k = 0
    <3>1. [n \in Attempts |-> Backoff] \in [Attempts -> Nat] /\ 0 \in Attempts
      BY DelayAssumption, BudgetAssumption DEF Attempts
    <3>2. Doubles([n \in Attempts |-> Backoff], 0)
      BY <3>1 DEF Doubles
    <3> QED
      BY <2>3, <2>5, <3>1, <3>2 DEF Doubling
  <2>6. CASE k # 0
    <3>1. k \in Nat /\ k - 1 \in Attempts /\ k - 1 < k
      BY <2>3, <2>6, BudgetAssumption DEF Attempts
    <3>2. PICK f \in [Attempts -> Nat] : Doubles(f, k - 1)
      BY <2>4, <3>1 DEF Doubling
    <3> DEFINE g == [f EXCEPT ![k] = 2 * f[k - 1]]
    <3>3. f[k - 1] \in Nat /\ 2 * f[k - 1] \in Nat
      BY <3>1, <3>2
    <3>4. g \in [Attempts -> Nat] /\ g[k] = 2 * f[k - 1]
          /\ \A n \in Attempts \ {k} : g[n] = f[n]
      BY <2>3, <3>2, <3>3
    <3> HIDE DEF g
    <3>5. \A n \in 1 .. k : n \in Attempts /\ n - 1 \in Attempts \ {k}
      BY <2>3, <3>1, BudgetAssumption DEF Attempts
    <3>6. \A n \in 1 .. k - 1 : n \in Attempts \ {k}
      BY <2>3, <3>1, BudgetAssumption DEF Attempts
    <3>7. 0 \in Attempts \ {k}
      BY <2>6, BudgetAssumption DEF Attempts
    <3>8. \A n \in 1 .. k : n = k \/ n \in 1 .. k - 1
      BY <3>1
    <3>9. Doubles(g, k)
      BY <3>2, <3>4, <3>5, <3>6, <3>7, <3>8 DEF Doubles
    <3> QED
      BY <2>3, <3>4, <3>9 DEF Doubling
  <2> QED
    BY <2>5, <2>6
<1> QED
  BY <1>1

\* The cap of the backoff is what its definition says, ...
LEMMA BackoffCapDef ==
    BackoffCap = [n \in Attempts |-> IF n = 0 THEN Backoff ELSE 2 * BackoffCap[n - 1]]
<1>1. MaxRetries \in Attempts
  BY BudgetAssumption DEF Attempts
<1>2. PICK f \in [Attempts -> Nat] : Doubles(f, MaxRetries)
  BY <1>1, DoublingExists DEF Doubling
<1>3. f = [n \in Attempts |-> IF n = 0 THEN Backoff ELSE 2 * f[n - 1]]
  BY <1>2, BudgetAssumption DEF Doubles, Attempts
<1> QED
  BY <1>3 DEF BackoffCap

\* ... a natural number of seconds, and more with each attempt.
LEMMA BackoffGrows ==
    /\ BackoffCap \in [Attempts -> Nat]
    /\ \A n \in Attempts : n + 1 \in Attempts => BackoffCap[n] <= BackoffCap[n + 1]
<1> DEFINE T == {n \in Attempts : BackoffCap[n] \notin Nat}
<1>1. T = {}
  <2> SUFFICES ASSUME T # {} PROVE FALSE
    OBVIOUS
  <2>1. T \subseteq Nat
    BY DEF Attempts
  <2>2. PICK k \in T : \A j \in T : k <= j
    BY <2>1, LeastNumber
  <2>3. k \in Attempts /\ BackoffCap[k] \notin Nat
    BY <2>2
  <2>4. \A j \in Attempts : j < k => BackoffCap[j] \in Nat
    BY <2>1, <2>2 DEF Attempts
  <2> HIDE DEF T
  <2>5. BackoffCap[k] = IF k = 0 THEN Backoff ELSE 2 * BackoffCap[k - 1]
    BY <2>3, BackoffCapDef
  <2>6. k # 0
    BY <2>3, <2>5, DelayAssumption
  <2>7. k - 1 \in Attempts /\ k - 1 < k
    BY <2>3, <2>6, BudgetAssumption DEF Attempts
  <2>8. BackoffCap[k - 1] \in Nat
    BY <2>4, <2>7
  <2> QED
    BY <2>3, <2>5, <2>6, <2>8
<1>2. BackoffCap \in [Attempts -> Nat]
  BY <1>1, BackoffCapDef
<1>3. ASSUME NEW n \in Attempts, n + 1 \in Attempts PROVE BackoffCap[n] <= BackoffCap[n + 1]
  <2>1. BackoffCap[n + 1] = 2 * BackoffCap[n]
    BY <1>3, BackoffCapDef DEF Attempts
  <2> QED
    BY <1>2, <2>1
<1> QED
  BY <1>2, <1>3

\* Every delay before a retry is a natural number of seconds within its bound.
LEMMA DelaysAreNatural ==
    ASSUME NEW n \in Attempts
    PROVE  /\ RetryDelays(n) \subseteq 0 .. MaxRetryAfter + BackoffCap[n]
           /\ BackoffDelays(n) \subseteq 0 .. MaxRetryAfter + BackoffCap[n]
           /\ RetryDelays(n) \subseteq Nat /\ BackoffDelays(n) \subseteq Nat
BY DelayAssumption, BackoffGrows DEF RetryDelays, BackoffDelays, AtMost

\* A POST is retried only on a status that excludes execution.
LEMMA PostIsRetriedOnRefusalOnly ==
    /\ Retryable("POST") \subseteq Refusals
    /\ ~Idempotent("POST")
BY MutatingAssumption DEF Retryable, Idempotent, IdempotentMethods

\* A status that excludes execution is a proper status and no success.
LEMMA RefusalsAreNoSuccess ==
    /\ \A s \in Refusals : s # None /\ s \notin SuccessStatuses
    /\ None \notin SuccessStatuses
    /\ None \notin Statuses
BY StatusAssumption DEF None, SuccessStatuses

-----------------------------------------------------------------------------
LEMMA InitInv == Init => IInv
BY BudgetAssumption, RefusalsAreNoSuccess
   DEF Init, IInv, TypeOK, OnlyTheCurrentAttemptIsLive, AnswerIsTrue,
       OutcomeIsTrue, Attempts, Fates, Outcomes, Methods

\* The loop goes round once more: the current attempt is not live any more if
\* the verb is POST.
LEMMA RetryInv ==
    ASSUME IInv, NEW delays \in SUBSET Nat, Retry(delays),
           attempt < budget, pc # "done",
           verb = "POST" => fate[attempt] = "dropped"
    PROVE  IInv'
<1> USE DEF IInv, Retry
<1>1. attempt' \in 0 .. budget' /\ attempt' \in Attempts /\ budget \in Nat
  BY BudgetAssumption DEF TypeOK, Attempts
<1>2. TypeOK'
  BY <1>1 DEF TypeOK
<1>3. OnlyTheCurrentAttemptIsLive'
  BY <1>1 DEF TypeOK, OnlyTheCurrentAttemptIsLive, Attempts
<1>4. AnswerIsTrue'
  BY <1>1, RefusalsAreNoSuccess
     DEF TypeOK, AnswerIsTrue, OnlyTheCurrentAttemptIsLive, Attempts
<1>5. OutcomeIsTrue'
  BY DEF TypeOK, OutcomeIsTrue
<1> QED
  BY <1>2, <1>3, <1>4, <1>5

LEMMA FinishInv ==
    ASSUME IInv, NEW o \in Outcomes \ {"pending"}, Finish(o), pc # "done",
           o = "body" => answer \in SuccessStatuses
    PROVE  IInv'
BY DEF IInv, Finish, TypeOK, OnlyTheCurrentAttemptIsLive, AnswerIsTrue,
       OutcomeIsTrue

LEMMA NextInv == IInv /\ [Next]_vars => IInv'
<1> SUFFICES ASSUME IInv, [Next]_vars
             PROVE  IInv'
  OBVIOUS
<1> USE DEF IInv
<1>0. /\ attempt \in Nat /\ attempt \in Attempts /\ budget \in Nat
      /\ attempt <= budget
  BY BudgetAssumption DEF TypeOK, Attempts
<1>1. CASE Send
  BY <1>0, <1>1 DEF Send, TypeOK, OnlyTheCurrentAttemptIsLive, AnswerIsTrue,
                    OutcomeIsTrue, Attempts, Fates
<1>2. CASE TransportFails
  <2>1. CASE RetriesTransport
    BY <1>0, <1>2, <2>1, RetryInv, DelaysAreNatural, PostIsRetriedOnRefusalOnly
       DEF TransportFails, RetriesTransport
  <2>2. CASE ~RetriesTransport
    BY <1>2, <2>2, FinishInv DEF TransportFails, Outcomes
  <2> QED
    BY <2>1, <2>2
<1>3. CASE OtherException
  BY <1>3, FinishInv DEF OtherException, Outcomes
<1>4. CASE ReceiveSuccess
  BY <1>4, FinishInv DEF ReceiveSuccess, Succeeds, Outcomes
<1>5. CASE ReceiveRetryable
  <2>1. verb = "POST" => fate[attempt] = "dropped"
    BY <1>5, PostIsRetriedOnRefusalOnly DEF ReceiveRetryable, AnswerIsTrue
  <2> QED
    BY <1>0, <1>5, <2>1, RetryInv, DelaysAreNatural DEF ReceiveRetryable
<1>6. CASE ReceiveError
  BY <1>6, FinishInv DEF ReceiveError, Outcomes
<1>7. ASSUME NEW a \in Attempts, Land(a) \/ Drop(a)
      PROVE  IInv'
  <2>1. TypeOK'
    BY <1>7 DEF Land, Drop, TypeOK, Fates
  <2>2. OnlyTheCurrentAttemptIsLive'
    BY <1>7 DEF Land, Drop, TypeOK, OnlyTheCurrentAttemptIsLive
  <2>3. AnswerIsTrue' /\ OutcomeIsTrue'
    BY <1>0, <1>7 DEF Land, Drop, TypeOK, AnswerIsTrue, OutcomeIsTrue
  <2> QED
    BY <2>1, <2>2, <2>3
<1>8. ASSUME NEW s \in Statuses, Answer(s)
      PROVE  IInv'
  BY <1>0, <1>8, RefusalsAreNoSuccess
     DEF Answer, TypeOK, OnlyTheCurrentAttemptIsLive, AnswerIsTrue,
         OutcomeIsTrue
<1>9. CASE UNCHANGED vars
  BY <1>9 DEF vars, TypeOK, OnlyTheCurrentAttemptIsLive, AnswerIsTrue,
              OutcomeIsTrue
<1> QED
  BY <1>1, <1>2, <1>3, <1>4, <1>5, <1>6, <1>7, <1>8, <1>9
     DEF Next, Client, Server

\* The invariant the other theorems follow from holds throughout every call.
THEOREM Invariance == Spec => []IInv
BY InitInv, NextInv, PTL DEF Spec

\* Type correctness: in particular the attempt counter of request() never runs
\* past the budget of the call.
THEOREM TypeCorrect == Spec => []TypeOK
BY Invariance, PTL DEF IInv

-----------------------------------------------------------------------------
(* Safety. *)

LEMMA PostLandsOnce == IInv => NoDuplicateMutation
BY DEF IInv, TypeOK, OnlyTheCurrentAttemptIsLive, NoDuplicateMutation, Landed,
       Attempts

\* The no-duplicate-mutation guarantee of request(): whatever the retry budget,
\* the losses and the delays, a POST is executed at most once.
THEOREM AtMostOnce == Spec => []NoDuplicateMutation
BY Invariance, PostLandsOnce, PTL

LEMMA BodyTellsTheTruth == IInv => BodyMeansLanded
<1> SUFFICES ASSUME IInv, outcome = "body"
             PROVE  /\ attempt \in Landed
                    /\ verb = "POST" => Landed = {attempt}
  BY DEF BodyMeansLanded
<1>1. attempt \in Attempts /\ fate[attempt] = "landed"
  BY BudgetAssumption
     DEF IInv, TypeOK, AnswerIsTrue, OutcomeIsTrue, Attempts
<1>2. attempt \in Landed
  BY <1>1 DEF Landed
<1>3. verb = "POST" => \A a, b \in Landed : a = b
  BY PostLandsOnce DEF NoDuplicateMutation
<1> QED
  BY <1>2, <1>3

\* A returned body is proof of execution, and of a POST's only execution.
THEOREM SuccessIsTrue == Spec => []BodyMeansLanded
BY Invariance, BodyTellsTheTruth, PTL

LEMMA RefusalTellsTheTruth == IInv => RefusedMeansNothingLeft
BY DEF IInv, TypeOK, OnlyTheCurrentAttemptIsLive, AnswerIsTrue, OutcomeIsTrue,
       RefusedMeansNothingLeft, Landed, Attempts

\* A POST that raises on a refusal has not run and will not run.
THEOREM RefusalIsFinal == Spec => []RefusedMeansNothingLeft
BY Invariance, RefusalTellsTheTruth, PTL

\* A step that leaves an idempotent call unfinished, or finishes it with its
\* budget spent, keeps BudgetIsSpent.
LEMMA BudgetNext == IInv /\ BudgetIsSpent /\ [Next]_vars => BudgetIsSpent'
<1> SUFFICES ASSUME IInv, BudgetIsSpent, [Next]_vars
             PROVE  BudgetIsSpent'
  OBVIOUS
<1> USE DEF IInv
<1>0. attempt \in Nat /\ budget \in Nat /\ attempt <= budget
  BY BudgetAssumption DEF TypeOK
<1>1. ASSUME outcome' = "pending"
      PROVE  BudgetIsSpent'
  BY <1>1 DEF BudgetIsSpent
<1>2. CASE Send
  BY <1>1, <1>2 DEF Send, OutcomeIsTrue
<1>3. ASSUME NEW delays, Retry(delays), pc # "done"
      PROVE  BudgetIsSpent'
  BY <1>1, <1>3 DEF Retry, OutcomeIsTrue
<1>4. CASE TransportFails
  <2>1. CASE RetriesTransport
    BY <1>3, <1>4, <2>1 DEF TransportFails
  <2>2. CASE ~RetriesTransport
    BY <1>0, <1>4, <2>2 DEF TransportFails, RetriesTransport, Finish,
       BudgetIsSpent
  <2> QED
    BY <2>1, <2>2
<1>5. CASE OtherException
  BY <1>5 DEF OtherException, Finish, BudgetIsSpent
<1>6. CASE ReceiveSuccess
  BY <1>6 DEF ReceiveSuccess, Finish, BudgetIsSpent
<1>7. CASE ReceiveRetryable
  BY <1>3, <1>7 DEF ReceiveRetryable
<1>8. CASE ReceiveError
  BY <1>0, <1>8 DEF ReceiveError, Finish, BudgetIsSpent
<1>9. ASSUME NEW a \in Attempts, Land(a) \/ Drop(a)
      PROVE  BudgetIsSpent'
  BY <1>9 DEF Land, Drop, BudgetIsSpent
<1>10. ASSUME NEW s \in Statuses, Answer(s)
       PROVE  BudgetIsSpent'
  BY <1>1, <1>10 DEF Answer, OutcomeIsTrue
<1>11. CASE UNCHANGED vars
  BY <1>11 DEF vars, BudgetIsSpent
<1> QED
  BY <1>2, <1>4, <1>5, <1>6, <1>7, <1>8, <1>9, <1>10, <1>11
     DEF Next, Client, Server

\* A transient failure of an idempotent call is surfaced only once the whole
\* budget is spent.
THEOREM NoEarlyGiveUp == Spec => []BudgetIsSpent
<1>1. Init => BudgetIsSpent
  BY DEF Init, BudgetIsSpent
<1> QED
  BY <1>1, BudgetNext, Invariance, PTL DEF Spec

\* One more sleep of at most b2 seconds keeps the total under its bound.
LEMMA OneMoreSleep ==
    ASSUME NEW total \in Nat, NEW n \in Nat, NEW b1 \in Nat, NEW b2 \in Nat, NEW d \in Nat,
           total <= n * b1, b1 <= b2, d <= b2
    PROVE  total + d <= (n + 1) * b2
<1>1. n * b1 \in Nat /\ n * b2 \in Nat /\ (n + 1) * b2 = n * b2 + b2
  OBVIOUS
<1>2. n * b2 = n * b1 + n * (b2 - b1) /\ n * (b2 - b1) \in Nat
  OBVIOUS
<1> QED
  BY <1>1, <1>2

\* A retry sleeps no longer than its bound, which grows with the attempts.
LEMMA StallRetry ==
    ASSUME IInv, BoundedStall, attempt < budget, NEW delays,
           delays \subseteq 0 .. MaxRetryAfter + BackoffCap[attempt], Retry(delays)
    PROVE  BoundedStall'
<1>1. attempt \in Attempts /\ attempt + 1 \in Attempts /\ attempt \in Nat /\ slept \in Nat
  BY BudgetAssumption DEF IInv, TypeOK, Attempts
<1> DEFINE b1 == MaxRetryAfter + BackoffCap[attempt]
           b2 == MaxRetryAfter + BackoffCap[attempt + 1]
<1>2. b1 \in Nat /\ b2 \in Nat /\ b1 <= b2
  BY <1>1, BackoffGrows, DelayAssumption
<1>3. PICK d \in delays : slept' = slept + d
  BY DEF Retry
<1>4. d \in Nat /\ d <= b2
  BY <1>2, <1>3
<1>5. slept <= attempt * b1 /\ attempt' = attempt + 1
  BY DEF BoundedStall, Retry
<1>6. BoundedStall' <=> slept' <= attempt' * (MaxRetryAfter + BackoffCap[attempt'])
  BY DEF BoundedStall
<1> HIDE DEF b1
<1>7. slept + d <= (attempt + 1) * b2
  BY <1>1, <1>2, <1>4, <1>5, OneMoreSleep
<1> QED
  BY <1>3, <1>5, <1>6, <1>7

\* The total of the sleeps of a call is bounded, whatever Retry-After says.
THEOREM StallIsBounded == Spec => []BoundedStall
<1>1. Init => BoundedStall
  <2>1. MaxRetryAfter + BackoffCap[0] \in Nat
    BY BackoffGrows, DelayAssumption, BudgetAssumption DEF Attempts
  <2> QED
    BY <2>1 DEF Init, BoundedStall
<1>2. IInv /\ BoundedStall /\ [Next]_vars => BoundedStall'
  <2> SUFFICES ASSUME IInv, BoundedStall, [Next]_vars PROVE BoundedStall'
    OBVIOUS
  <2>1. attempt \in Attempts
    BY BudgetAssumption DEF IInv, TypeOK, Attempts
  <2>2. CASE UNCHANGED <<attempt, slept>>
    BY <2>2 DEF BoundedStall
  <2>3. ASSUME NEW delays \in {RetryDelays(attempt), BackoffDelays(attempt)},
               attempt < budget, Retry(delays)
        PROVE  BoundedStall'
    BY <2>1, <2>3, DelaysAreNatural, StallRetry
  <2>4. CASE TransportFails
    BY <2>2, <2>3, <2>4 DEF TransportFails, RetriesTransport, Finish
  <2>5. CASE ReceiveRetryable
    BY <2>3, <2>5 DEF ReceiveRetryable
  <2>6. CASE Send \/ OtherException \/ ReceiveSuccess \/ ReceiveError
    BY <2>2, <2>6 DEF Send, OtherException, ReceiveSuccess, ReceiveError, Finish
  <2>7. CASE Server \/ UNCHANGED vars
    BY <2>2, <2>7 DEF Server, Land, Drop, Answer, vars
  <2> QED
    BY <2>4, <2>5, <2>6, <2>7 DEF Next, Client
<1> QED
  BY <1>1, <1>2, Invariance, PTL DEF Spec

-----------------------------------------------------------------------------
(* Refinement: every step of the retry loop, of the wire and of the server is *)
(* a step of CallContract or leaves its state alone.                        *)

LEMMA ContractInit == Init => Contract!Init
BY DEF Init, Contract!Init, Landed, Told

LEMMA RefusedIsFinalInContract ==
    ASSUME IInv, verb = "POST", answer \in Refusals
    PROVE  Landed = {}
BY BudgetAssumption DEF IInv, TypeOK, OnlyTheCurrentAttemptIsLive, AnswerIsTrue,
   Landed, Attempts

\* An attempt that lands: of a POST, it is the only one that can.
LEMMA LandIsContractLand ==
    ASSUME IInv, NEW a \in Attempts, Land(a)
    PROVE  Contract!Land(a)
<1>1. a \notin Landed /\ Landed' = Landed \cup {a}
  BY DEF IInv, TypeOK, Land, Landed
<1>2. ASSUME verb = "POST"
      PROVE  a = attempt /\ Landed = {} /\ answer \notin Refusals
  BY <1>2, BudgetAssumption
     DEF IInv, TypeOK, OnlyTheCurrentAttemptIsLive, AnswerIsTrue, Land, Landed,
         Attempts
<1> QED
  BY <1>1, <1>2 DEF Contract!Land, Land, Told

LEMMA ContractNext == IInv /\ [Next]_vars => [Contract!Next]_(Contract!vars)
<1> SUFFICES ASSUME IInv, [Next]_vars
             PROVE  [Contract!Next]_(Contract!vars)
  OBVIOUS
<1> USE DEF IInv
<1>0. attempt \in Attempts
  BY BudgetAssumption DEF TypeOK, Attempts
<1>1. CASE Send
  <2>1. Landed' = Landed
    BY <1>0, <1>1 DEF Send, Landed, TypeOK, AnswerIsTrue
  <2> QED
    BY <1>1, <2>1 DEF Send, Contract!vars, OutcomeIsTrue, Told
<1>2. ASSUME NEW delays, Retry(delays), pc # "done"
      PROVE  UNCHANGED Contract!vars
  BY <1>2 DEF Retry, Contract!vars, OutcomeIsTrue, Told, Landed
<1>3. ASSUME NEW o \in {"transport_error", "other_error"}, Finish(o), pc # "done"
      PROVE  Contract!ReturnUnknown
  BY <1>3 DEF Finish, Contract!ReturnUnknown, OutcomeIsTrue, Told, Landed
<1>4. CASE TransportFails
  BY <1>2, <1>3, <1>4 DEF TransportFails, Contract!Next
<1>5. CASE OtherException
  BY <1>3, <1>5 DEF OtherException, Contract!Next
<1>6. CASE ReceiveSuccess
  BY <1>0, <1>6 DEF ReceiveSuccess, Succeeds, Finish, AnswerIsTrue,
     OutcomeIsTrue, Told, Landed, Contract!Next, Contract!ReturnDone
<1>7. CASE ReceiveRetryable
  BY <1>2, <1>7 DEF ReceiveRetryable
<1>8. CASE ReceiveError
  <2>1. CASE answer \in Refusals
    BY <1>8, <2>1, RefusedIsFinalInContract
       DEF ReceiveError, Finish, OutcomeIsTrue, Told, Landed, Contract!Next,
           Contract!ReturnRefused
  <2>2. CASE answer \notin Refusals
    BY <1>8, <2>2
       DEF ReceiveError, Finish, OutcomeIsTrue, Told, Landed, Contract!Next,
           Contract!ReturnUnknown
  <2> QED
    BY <2>1, <2>2
<1>9. ASSUME NEW a \in Attempts, Land(a)
      PROVE  Contract!Next
  BY <1>9, LandIsContractLand DEF Contract!Next
<1>10. ASSUME NEW a \in Attempts, Drop(a)
       PROVE  UNCHANGED Contract!vars
  BY <1>10 DEF Drop, Contract!vars, Landed, Told, TypeOK
<1>11. ASSUME NEW s \in Statuses, Answer(s)
       PROVE  UNCHANGED Contract!vars
  BY <1>11 DEF Answer, Contract!vars, Landed, OutcomeIsTrue, Told
<1>12. CASE UNCHANGED vars
  BY <1>12 DEF vars, Contract!vars, Landed, Told
<1> QED
  BY <1>1, <1>4, <1>5, <1>6, <1>7, <1>8, <1>9, <1>10, <1>11, <1>12
     DEF Next, Client, Server

\* The retry loop of request() implements the contract of a call, for every
\* budget and every configuration that retries POST on refusals only.
THEOREM Implements == Spec => ImplementsCallContract
<1>1. Init => Contract!Init
  BY ContractInit
<1>2. IInv /\ [Next]_vars => [Contract!Next]_(Contract!vars)
  BY ContractNext
<1> QED
  BY <1>1, <1>2, Invariance, PTL DEF Spec, ImplementsCallContract, Contract!Spec
=============================================================================
