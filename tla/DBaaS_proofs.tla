---------------------------- MODULE DBaaS_proofs ----------------------------
(***************************************************************************)
(* Proofs about DBaaS, for every window, pause, deadline, interval and     *)
(* request time, and every sequence of calls and changes: its types and    *)
(* its five safety invariants.                                             *)
(***************************************************************************)
EXTENDS DBaaS, TLAPS

Mutations == {"create", "update", "change"}
Readers == {"get", "update", "await"}

\* Which calls reach which step.
StepInv ==
    /\ pc \in {"mutate", "settle"} => call.kind \in Mutations
    /\ pc \in {"list", "listed"} => call.kind \in {"get", "await"}
    /\ pc \in {"fetch", "fetched"} => call.kind \in {"create", "get", "update", "await"}
    /\ pc = "sleep" => call.kind \in {"create", "await"}
    /\ pc = "check" => call.kind = "await"
    /\ pc # "idle" => outcome = "none"

\* The histories say since when the service is visible, and running.
LifeInv ==
    /\ visibleAt # Never <=> life = "visible"
    /\ runningAt # Never <=> life = "visible" /\ state = "running"

\* As long as the service has been in sight, what was listed is its type, and
\* the detail is at the URL that a reader asks.
SightInv ==
    /\ pc # "idle" /\ ~absence =>
          /\ life = "visible"
          /\ pc = "listed" => seen # Nothing /\ seen.type \in {type, Untyped}
          /\ pc = "settle" /\ call.kind = "update" => Served(call.form)
          /\ pc = "fetch" /\ call.kind \in Readers => Served(FetchForm)
          /\ pc = "fetched" /\ call.kind \in Readers => seen # Nothing
    /\ call.kind \in Kinds /\ ~absence => life = "visible"
    /\ NotFoundIsHonest

\* A service that the last fetch of create() has missed came after it had begun.
WindowInv ==
    call.kind = "create" /\ Served(call.form) =>
        /\ pc = "fetched" /\ seen = Nothing => visibleAt + RequestTime >= until
        /\ pc = "idle" /\ outcome = "not_found" => visibleAt + RequestTime >= Window

\* A service that was not running when wait_for_state looked last has come to
\* run after that request had begun.
LastingInv ==
    call.kind = "await" /\ runningAt # Never =>
        /\ pc \in {"listed", "fetched"} /\ seen # Nothing /\ seen.state # "running"
              => runningAt + RequestTime >= until
        /\ pc = "sleep" => runningAt + RequestTime + Interval >= until
        /\ pc = "check" => runningAt + RequestTime + Interval >= clock
        /\ pc = "idle" /\ outcome = "wait_timeout"
              => runningAt + RequestTime + Interval >= Timeout

\* How far the clock has come in each step of the two loops.
ClockInv ==
    /\ pc \in {"list", "listed", "fetch", "fetched", "sleep"} => clock <= until
    /\ pc \in {"list", "listed", "fetch", "fetched"} => until <= clock + RequestTime
    /\ pc \in {"mutate", "settle"} => clock = 0
    /\ call.kind = "create" =>
          /\ pc \in {"fetch", "fetched"} =>
                \E p \in Pauses : until < Window + p + RequestTime
          /\ pc = "sleep" => \E p \in Pauses : until < Window + p
    /\ call.kind = "await" =>
          /\ pc \in {"list", "listed"} => until < Timeout + RequestTime
          /\ pc \in {"fetch", "fetched"} => until < Timeout + 2 * RequestTime
          /\ pc = "sleep" => /\ until <= clock + Interval
                             /\ until < Timeout + Interval + 2 * RequestTime
    /\ BoundedWait
    /\ Ended({"create"}, "not_found") => clock >= Window
    /\ Ended({"await"}, "wait_timeout") => clock >= Timeout

\* An awaited mutation goes on only after a success.
OpInv ==
    /\ call.kind \in Mutations /\ call.wait /\ pc \in {"fetch", "fetched", "sleep"}
          => op \in {"success", "none"}
    /\ ReturnsSettled

IInv == TypeOK /\ StepInv /\ LifeInv /\ SightInv /\ WindowInv /\ LastingInv
        /\ ClockInv /\ OpInv

-----------------------------------------------------------------------------
(* What the server may do, as the script sees it. *)

\* The histories of the service follow any change of it.
LEMMA BecomeFacts ==
    ASSUME TypeOK, LifeInv, NEW l \in {"absent", "hidden", "visible"},
           NEW t \in Types, NEW s \in {"rebuilding", "running"}, Become(l, t, s),
           l = "visible" /\ life = "visible" => t = type
    PROVE  /\ life' \in {"absent", "hidden", "visible"} /\ type' \in Types
           /\ state' \in {"rebuilding", "running"}
           /\ absence' \in BOOLEAN
           /\ visibleAt' \in Nat \cup {Never} /\ runningAt' \in Nat \cup {Never}
           /\ LifeInv'
           /\ visibleAt' \in {visibleAt, clock, Never}
           /\ runningAt' \in {runningAt, clock, Never}
           /\ visibleAt' = visibleAt /\ visibleAt # Never => type' = type
           /\ life = "visible" /\ life' = "visible" => type' = type
           /\ absence' = (absence \/ life' # "visible")
<1>1. /\ life' = l /\ type' = t /\ state' = s
      /\ absence' = (absence \/ l # "visible")
      /\ visibleAt' = IF l # "visible" THEN Never
                      ELSE IF visibleAt = Never THEN clock ELSE visibleAt
      /\ runningAt' = IF l # "visible" \/ s # "running" THEN Never
                      ELSE IF runningAt = Never THEN clock ELSE runningAt
  BY DEF Become, Observe
<1>2. clock \in Nat /\ clock # Never
  BY DEF TypeOK, Never
<1> QED
  BY <1>1, <1>2 DEF TypeOK, LifeInv

LEMMA ServerFacts ==
    ASSUME TypeOK, LifeInv, Server
    PROVE  /\ TypeOK' /\ LifeInv'
           /\ UNCHANGED <<pc, call, calls, seen, outcome, clock, until>>
           /\ op = "pending" \/ op' = op
           /\ visibleAt' \in {visibleAt, clock, Never}
           /\ runningAt' \in {runningAt, clock, Never}
           /\ visibleAt' = visibleAt /\ visibleAt # Never => type' = type
           /\ absence => absence'
           /\ ~absence' /\ life = "visible" => life' = "visible" /\ type' = type
<1>1. CASE Progress
  BY <1>1, BecomeFacts DEF Progress, TypeOK, FetchForm
<1>2. CASE Settle
  <2>1. CASE UNCHANGED <<service, history>>
    BY <1>2, <2>1 DEF Settle, TypeOK, LifeInv, FetchForm, service, history
  <2>2. CASE Become("absent", type, "rebuilding")
    BY <1>2, <2>2, BecomeFacts DEF Settle, TypeOK, FetchForm
  <2> QED
    BY <1>2, <2>1, <2>2 DEF Settle
<1>3. CASE Change
  <2>1. changes' \in 0 .. MaxChanges
    BY <1>3, BoundAssumption DEF Change, TypeOK
  <2>2. CASE Become("absent", type, "rebuilding")
    BY <1>3, <2>1, <2>2, BecomeFacts DEF Change, TypeOK, FetchForm
  <2>3. CASE life = "absent" /\ \E t \in Types : Become("visible", t, "rebuilding")
    BY <1>3, <2>1, <2>3, BecomeFacts DEF Change, TypeOK, FetchForm
  <2>4. CASE life = "visible" /\ Become(life, type, "rebuilding")
    BY <1>3, <2>1, <2>4, BecomeFacts DEF Change, TypeOK, FetchForm
  <2> QED
    BY <1>3, <2>2, <2>3, <2>4 DEF Change
<1> QED
  BY <1>1, <1>2, <1>3 DEF Server

-----------------------------------------------------------------------------
(* Every step preserves the invariant. *)

LEMMA InitInv == Init => IInv
<1> SUFFICES ASSUME Init
             PROVE  IInv
  OBVIOUS
<1>1. TypeOK
  <2>1. absence \in BOOLEAN
    BY DEF Init
  <2>2. /\ visibleAt \in Nat \cup {Never} /\ runningAt \in Nat \cup {Never}
        /\ clock \in Nat /\ until \in Nat
        /\ changes \in 0 .. MaxChanges /\ calls \in 0 .. MaxCalls
    BY BoundAssumption DEF Init
  <2> QED
    BY <2>1, <2>2 DEF Init, TypeOK
<1>3. StepInv /\ LifeInv
  BY DEF Init, StepInv, LifeInv, Never
<1>2. SightInv /\ WindowInv /\ LastingInv /\ ClockInv /\ OpInv
  BY DEF Init, SightInv, NotFoundIsHonest, Misnamed, WindowInv, LastingInv, ClockInv,
         BoundedWait, OpInv, ReturnsSettled, Ended, NoCall, Mutations, Kinds
<1> QED
  BY <1>1, <1>2, <1>3 DEF IInv

LEMMA ServerInv ==
    ASSUME IInv, Server
    PROVE  IInv'
<1>1. /\ TypeOK' /\ LifeInv'
      /\ UNCHANGED <<pc, call, calls, seen, outcome, clock, until>>
      /\ op = "pending" \/ op' = op
      /\ visibleAt' \in {visibleAt, clock, Never}
      /\ runningAt' \in {runningAt, clock, Never}
      /\ visibleAt' = visibleAt /\ visibleAt # Never => type' = type
      /\ absence => absence'
      /\ ~absence' /\ life = "visible" => life' = "visible" /\ type' = type
  BY ServerFacts DEF IInv
<1>2. StepInv'
  BY <1>1 DEF IInv, StepInv, Mutations
<1>3. SightInv'
  <2>1. FetchForm' = FetchForm
    BY <1>1 DEF FetchForm
  <2>2. ~absence' /\ life = "visible" /\ Served(FetchForm) => Served(FetchForm)'
    BY <1>1, <2>1 DEF Served
  <2>3. ~absence' /\ life = "visible" /\ Served(call.form) => Served(call.form)'
    BY <1>1 DEF Served
  <2>4. ~absence' /\ life = "visible" /\ ~Served(call.form) => ~Served(call.form)'
    BY <1>1 DEF Served
  <2>5. NotFoundIsHonest'
    <3>1. Ended({"get", "update", "change", "await"}, "not_found") /\ ~absence
          => Misnamed /\ life = "visible"
      BY DEF IInv, SightInv, NotFoundIsHonest, Ended, Kinds
    <3> QED
      BY <1>1, <2>4, <3>1 DEF NotFoundIsHonest, Misnamed, Ended
  <2>6. call.kind \in Kinds /\ ~absence' => life' = "visible"
    BY <1>1 DEF IInv, SightInv
  <2> QED
    BY <1>1, <2>1, <2>2, <2>3, <2>5, <2>6 DEF IInv, SightInv
<1>4. /\ Window \in Nat /\ Timeout \in Nat /\ RequestTime \in Nat /\ Interval \in Nat
      /\ clock \in Nat /\ until \in Nat
  BY TimeAssumption DEF IInv, TypeOK
<1>5. WindowInv'
  <2>1. Served(call.form)' => Served(call.form) \/ visibleAt' = clock
    BY <1>1 DEF IInv, LifeInv, Served
  <2>2. Served(call.form)' => visibleAt' \in {visibleAt, clock}
    BY <1>1 DEF LifeInv, Served
  <2>3. CASE Served(call.form)' /\ Served(call.form) /\ visibleAt' = visibleAt
    BY <1>1, <2>3 DEF IInv, WindowInv
  <2>4. CASE Served(call.form)' /\ visibleAt' = clock
    BY <1>1, <1>4, <2>4 DEF IInv, WindowInv, ClockInv, Ended
  <2> QED
    BY <1>1, <2>1, <2>2, <2>3, <2>4 DEF WindowInv
<1>6. LastingInv'
  <2>1. CASE runningAt' \in {runningAt, Never}
    BY <1>1, <2>1 DEF IInv, LastingInv
  <2>2. CASE runningAt' = clock
    BY <1>1, <1>4, <2>2 DEF IInv, LastingInv, ClockInv, Ended
  <2> QED
    BY <1>1, <2>1, <2>2
<1>7. ClockInv' /\ OpInv'
  BY <1>1 DEF IInv, ClockInv, BoundedWait, OpInv, ReturnsSettled, Ended, Mutations
<1> QED
  BY <1>1, <1>2, <1>3, <1>5, <1>6, <1>7 DEF IInv

LEMMA Numbers ==
    ASSUME TypeOK
    PROVE  /\ Window \in Nat /\ Timeout \in Nat /\ RequestTime \in Nat
           /\ Interval \in Nat /\ Interval > 0
           /\ clock \in Nat /\ until \in Nat
           /\ \E p \in Pauses : p \in Nat /\ p > 0
           /\ \A p \in Pauses : p \in Nat /\ p > 0
<1>1. \A p \in Pauses : p \in Nat /\ p > 0
  BY TimeAssumption
<1>2. \E p \in Pauses : TRUE
  BY TimeAssumption
<1>3. /\ Window \in Nat /\ Timeout \in Nat /\ RequestTime \in Nat
      /\ Interval \in Nat /\ Interval > 0
  BY TimeAssumption
<1> QED
  BY <1>1, <1>2, <1>3 DEF TypeOK

LEMMA BeginInv ==
    ASSUME IInv, Begin
    PROVE  IInv'
<1>1. PICK c \in Calls : call' = c /\ pc' = FirstStep(c.kind)
  BY DEF Begin
<1>2. c.kind \in Kinds
  BY DEF Calls
<1>3. TypeOK'
  <2>1. absence' \in BOOLEAN
    BY DEF Begin
  <2>2. /\ clock' \in Nat /\ until' \in Nat /\ calls' \in 0 .. MaxCalls
        /\ visibleAt' \in Nat \cup {Never} /\ runningAt' \in Nat \cup {Never}
    BY BoundAssumption DEF Begin, IInv, TypeOK
  <2>3. pc' \in {"mutate", "list", "check"}
    BY <1>1, <1>2 DEF Kinds, FirstStep
  <2> QED
    BY <1>1, <2>1, <2>2, <2>3 DEF Begin, IInv, TypeOK
<1>4. StepInv'
  BY <1>1, <1>2 DEF Begin, StepInv, Kinds, FirstStep, Mutations
<1>5. LifeInv'
  BY DEF Begin, LifeInv, Never
<1>6. pc' \in {"mutate", "list", "check"} /\ (pc' = "list" => call'.kind = "get")
  BY <1>1, <1>2 DEF Kinds, FirstStep
<1>7. SightInv'
  BY <1>6 DEF Begin, SightInv, NotFoundIsHonest, Misnamed, Ended
<1>8. WindowInv'
  BY <1>6 DEF Begin, WindowInv
<1>9. LastingInv' /\ ClockInv'
  BY <1>6, Numbers
     DEF IInv, Begin, LastingInv, ClockInv, BoundedWait, Ended, Never
<1>10. OpInv'
  BY <1>6 DEF Begin, OpInv, ReturnsSettled, Ended
<1> QED
  BY <1>3, <1>4, <1>5, <1>7, <1>8, <1>9, <1>10 DEF IInv

\* The mutation of create() begins a service that is not in sight yet; those of
\* the other calls leave the histories alone.
LEMMA CreationFacts ==
    ASSUME IInv, life = "absent",
           \E t \in Types : Become("hidden", t, "rebuilding")
    PROVE  /\ LifeInv' /\ absence' = TRUE /\ life' = "hidden"
           /\ type' \in Types /\ state' = "rebuilding"
           /\ visibleAt' = Never /\ runningAt' = Never
BY DEF IInv, LifeInv, Become, Observe

LEMMA AcceptedInv ==
    ASSUME IInv, Accepted
    PROVE  IInv'
<1>1. /\ pc = "mutate" /\ op' \in {"pending", "none"}
      /\ UNCHANGED <<changes, call, calls, seen, clock>>
      /\ call.kind \in Mutations /\ outcome = "none"
  BY DEF Accepted, IInv, StepInv
<1>2. \/ pc' = "settle" /\ UNCHANGED <<until, outcome>> /\ call.wait
      \/ /\ pc' = "idle" /\ outcome' = "operation" /\ UNCHANGED until
         /\ call.kind = "change" /\ (call.wait => op' = "none")
      \/ /\ pc' = "fetch" /\ until' = clock + RequestTime /\ UNCHANGED outcome
         /\ call.kind # "change" /\ (call.wait => op' = "none")
  BY DEF Accepted, AfterMutation, AfterSettle, Request, End, IInv, TypeOK, Calls
<1>3. \/ /\ call.kind = "create" /\ LifeInv' /\ absence' = TRUE /\ life' = "hidden"
         /\ type' \in Types /\ state' = "rebuilding"
         /\ visibleAt' = Never /\ runningAt' = Never
      \/ /\ call.kind \in {"update", "change"} /\ Served(call.form)
         /\ UNCHANGED <<service, history>>
  BY CreationFacts DEF Accepted
<1>4. TypeOK'
  <2>1. until' \in Nat
    BY <1>2, Numbers DEF IInv
  <2>2. pc' = "fetch" => FetchForm' \in Forms
    BY <1>1, <1>2 DEF IInv, TypeOK, FetchForm, Mutations, Calls, NoCall
  <2>3. /\ life' \in {"absent", "hidden", "visible"} /\ type' \in Types
        /\ state' \in {"rebuilding", "running"} /\ absence' \in BOOLEAN
        /\ visibleAt' \in Nat \cup {Never} /\ runningAt' \in Nat \cup {Never}
    BY <1>3 DEF IInv, TypeOK, service, history
  <2> QED
    BY <1>1, <1>2, <2>1, <2>2, <2>3 DEF IInv, TypeOK
<1>5. StepInv'
  BY <1>1, <1>2 DEF StepInv, Mutations
<1>6. LifeInv'
  BY <1>3 DEF IInv, LifeInv, service, history
<1>7. SightInv'
  <2>1. CASE absence' = TRUE
    BY <2>1, <1>1, <1>2 DEF SightInv, NotFoundIsHonest, Misnamed, Ended
  <2>2. CASE call.kind \in {"update", "change"} /\ Served(call.form)
             /\ UNCHANGED <<service, history>>
    BY <2>2, <1>1, <1>2
       DEF SightInv, NotFoundIsHonest, Misnamed, Ended, Served, FetchForm, service, history
  <2> QED
    BY <1>3, <2>1, <2>2
<1>8. WindowInv'
  BY <1>1, <1>2, <1>3 DEF WindowInv, Served
<1>9. LastingInv'
  BY <1>1 DEF LastingInv, Mutations
<1>10. ClockInv'
  BY <1>1, <1>2, Numbers DEF IInv, ClockInv, BoundedWait, Ended, Mutations
<1>11. OpInv'
  BY <1>1, <1>2 DEF OpInv, ReturnsSettled, Ended
<1> QED
  BY <1>4, <1>5, <1>6, <1>7, <1>8, <1>9, <1>10, <1>11 DEF IInv

LEMMA RequestFailsInv ==
    ASSUME IInv, RequestFails
    PROVE  IInv'
<1>1. /\ pc' = "idle" /\ outcome' = "error"
      /\ UNCHANGED <<op, changes, call, calls, seen, clock, until>>
  BY DEF RequestFails, End
<1>2. \/ UNCHANGED <<service, history>>
      \/ /\ LifeInv' /\ absence' = TRUE /\ life' = "hidden"
         /\ type' \in Types /\ state' = "rebuilding"
         /\ visibleAt' = Never /\ runningAt' = Never
  BY CreationFacts DEF RequestFails
<1>3. TypeOK' /\ StepInv' /\ LifeInv'
  <2>1. CASE UNCHANGED <<service, history>>
    BY <1>1, <2>1 DEF IInv, TypeOK, StepInv, LifeInv, service, history
  <2>2. CASE ~UNCHANGED <<service, history>>
    BY <1>1, <1>2, <2>2 DEF IInv, TypeOK, StepInv
  <2> QED
    BY <2>1, <2>2
<1>4. SightInv'
  BY <1>1, <1>2 DEF IInv, SightInv, NotFoundIsHonest, Ended, service, history
<1>5. WindowInv' /\ LastingInv' /\ OpInv'
  BY <1>1 DEF WindowInv, LastingInv, OpInv, ReturnsSettled, Ended
<1>6. ClockInv'
  BY <1>1 DEF IInv, ClockInv, BoundedWait, Ended
<1> QED
  BY <1>3, <1>4, <1>5, <1>6 DEF IInv

\* A 404 of a mutation tells that the service is not where the caller has named it.
LEMMA MutationMissingInv ==
    ASSUME IInv, MutationMissing
    PROVE  IInv'
<1>1. /\ pc' = "idle" /\ outcome' = "not_found" /\ ~Served(call.form)
      /\ call.kind \in {"update", "change"}
      /\ UNCHANGED <<service, op, changes, call, calls, seen, clock, until, history>>
  BY DEF MutationMissing, End
<1>2. TypeOK' /\ StepInv' /\ LifeInv'
  BY <1>1 DEF IInv, TypeOK, StepInv, LifeInv, service, history
<1>3. SightInv'
  BY <1>1 DEF IInv, SightInv, NotFoundIsHonest, Misnamed, Served, Ended, service, history
<1>4. WindowInv' /\ LastingInv' /\ OpInv'
  BY <1>1 DEF WindowInv, LastingInv, OpInv, ReturnsSettled, Ended
<1>5. ClockInv'
  BY <1>1 DEF IInv, ClockInv, BoundedWait, Ended
<1> QED
  BY <1>2, <1>3, <1>4, <1>5 DEF IInv

\* The steps that leave the service alone leave its histories true.
LEMMA QuietLife ==
    ASSUME LifeInv, UNCHANGED <<service, history>>
    PROVE  LifeInv'
BY DEF LifeInv, service, history

LEMMA SettleStepsInv ==
    ASSUME IInv, Settled \/ SettleFails \/ SettleGivesUp
    PROVE  IInv'
<1>1. /\ pc = "settle" /\ call.kind \in Mutations
      /\ UNCHANGED <<service, op, changes, call, calls, seen, clock, history>>
  BY DEF Settled, SettleFails, SettleGivesUp, IInv, StepInv
<1>2. \/ /\ pc' = "idle" /\ outcome' \in {"operation_error", "gave_up"}
         /\ UNCHANGED until
      \/ /\ pc' = "idle" /\ outcome' = "operation" /\ UNCHANGED until
         /\ call.kind = "change" /\ op = "success"
      \/ /\ pc' = "fetch" /\ until' = clock + RequestTime /\ UNCHANGED outcome
         /\ call.kind # "change" /\ op = "success"
  BY DEF Settled, SettleFails, SettleGivesUp, AfterSettle, Request, End
<1>3. TypeOK'
  <2>1. until' \in Nat
    BY <1>2, Numbers DEF IInv, TypeOK
  <2>2. pc' = "fetch" => FetchForm' \in Forms
    BY <1>1, <1>2 DEF IInv, TypeOK, FetchForm, Mutations, Calls, NoCall
  <2> QED
    BY <1>1, <1>2, <2>1, <2>2 DEF IInv, TypeOK, service, history
<1>4. StepInv' /\ LifeInv'
  BY <1>1, <1>2, QuietLife DEF IInv, StepInv, Mutations
<1>5. SightInv'
  BY <1>1, <1>2 DEF IInv, SightInv, NotFoundIsHonest, Misnamed, Ended, Served, FetchForm,
                    Mutations, Readers, service, history
<1>6. WindowInv' /\ LastingInv' /\ OpInv'
  BY <1>1, <1>2 DEF WindowInv, LastingInv, OpInv, ReturnsSettled, Ended, Mutations
<1>7. ClockInv'
  BY <1>1, <1>2, Numbers DEF IInv, ClockInv, BoundedWait, Ended, Mutations
<1> QED
  BY <1>3, <1>4, <1>5, <1>6, <1>7 DEF IInv

LEMMA LookAtListInv ==
    ASSUME IInv, LookAtList
    PROVE  IInv'
<1>1. /\ pc = "list" /\ pc' = "listed" /\ call.kind \in {"get", "await"}
      /\ UNCHANGED <<service, op, changes, call, calls, outcome, clock, until, history>>
  BY DEF LookAtList, IInv, StepInv
<1>2. \/ /\ life = "visible" /\ seen'.state = state
         /\ seen'.type \in {type, Untyped}
         /\ seen' \in [type : {type, Untyped}, state : {state}]
         /\ seen' # Nothing
      \/ life # "visible" /\ seen' = Nothing
  BY DEF LookAtList, IInv, TypeOK, Nothing
<1>3. TypeOK' /\ StepInv' /\ LifeInv'
  BY <1>1, <1>2, QuietLife DEF IInv, TypeOK, StepInv, service, history
<1>4. SightInv' /\ WindowInv'
  BY <1>1, <1>2 DEF IInv, SightInv, NotFoundIsHonest, Misnamed, WindowInv, Ended, Served,
                    service, history
<1>5. LastingInv'
  BY <1>1, <1>2, Numbers DEF IInv, LastingInv, LifeInv, ClockInv, TypeOK, history
<1>6. ClockInv' /\ OpInv'
  BY <1>1 DEF IInv, ClockInv, BoundedWait, OpInv, ReturnsSettled, Ended, Mutations
<1> QED
  BY <1>3, <1>4, <1>5, <1>6 DEF IInv

LEMMA LookAtDetailInv ==
    ASSUME IInv, LookAtDetail
    PROVE  IInv'
<1>1. /\ pc = "fetch" /\ pc' = "fetched"
      /\ call.kind \in {"create", "get", "update", "await"}
      /\ UNCHANGED <<service, op, changes, call, calls, outcome, clock, until, history>>
  BY DEF LookAtDetail, IInv, StepInv
<1>2. \/ /\ Served(FetchForm) /\ seen' = [type |-> type, state |-> state]
         /\ seen' # Nothing /\ life = "visible"
      \/ ~Served(FetchForm) /\ seen' = Nothing
  BY DEF LookAtDetail, IInv, TypeOK, Nothing, Served
<1>3. TypeOK' /\ StepInv' /\ LifeInv'
  BY <1>1, <1>2, QuietLife DEF IInv, TypeOK, StepInv, service, history
<1>4. SightInv'
  BY <1>1, <1>2 DEF IInv, SightInv, NotFoundIsHonest, Misnamed, Ended, history, service
<1>5. WindowInv'
  BY <1>1, <1>2 DEF WindowInv, Served, FetchForm, service
<1>6. LastingInv'
  BY <1>1, <1>2, Numbers DEF IInv, LastingInv, LifeInv, ClockInv, TypeOK, history
<1>7. ClockInv' /\ OpInv'
  BY <1>1 DEF IInv, ClockInv, BoundedWait, OpInv, ReturnsSettled, Ended, Mutations
<1> QED
  BY <1>3, <1>4, <1>5, <1>6, <1>7 DEF IInv

LEMMA ListArrivesInv ==
    ASSUME IInv, ListArrives
    PROVE  IInv'
<1>1. /\ pc = "listed" /\ call.kind \in {"get", "await"} /\ outcome = "none"
      /\ UNCHANGED <<service, op, changes, call, calls, seen, clock, history>>
  BY DEF ListArrives, IInv, StepInv
<1>2. \/ /\ seen = Nothing
         /\ pc' = "idle" /\ outcome' = "not_found" /\ UNCHANGED until
      \/ /\ seen # Nothing /\ pc' = "idle" /\ outcome' = "resource" /\ UNCHANGED until
      \/ /\ seen # Nothing /\ seen.state # "running" /\ call.kind = "await"
         /\ pc' = "sleep" /\ until' = clock + Interval /\ UNCHANGED outcome
      \/ /\ seen # Nothing /\ seen.type # Untyped
         /\ pc' = "fetch" /\ until' = clock + RequestTime /\ UNCHANGED outcome
  BY DEF ListArrives, ListLacks, Got, Request, Sleep, End
<1>3. TypeOK'
  <2>1. until' \in Nat
    BY <1>2, Numbers DEF IInv
  <2>2. pc' = "fetch" => FetchForm' \in Types
    BY <1>1, <1>2 DEF IInv, TypeOK, FetchForm
  <2> QED
    BY <1>1, <1>2, <2>1, <2>2 DEF IInv, TypeOK, service, history
<1>4. StepInv' /\ LifeInv'
  BY <1>1, <1>2, QuietLife DEF IInv, StepInv, Mutations
<1>5. SightInv'
  BY <1>1, <1>2 DEF IInv, SightInv, NotFoundIsHonest, Misnamed, Ended, Served, FetchForm,
                    ServerUrl, UrlType, Readers, service, history
<1>6. WindowInv' /\ OpInv'
  BY <1>1 DEF WindowInv, OpInv, ReturnsSettled, Ended, Mutations
<1>7. LastingInv'
  BY <1>1, <1>2, Numbers DEF IInv, LastingInv, ClockInv, TypeOK, history
<1>8. ClockInv'
  BY <1>1, <1>2, Numbers DEF IInv, ClockInv, BoundedWait, Ended
<1> QED
  BY <1>3, <1>4, <1>5, <1>6, <1>7, <1>8 DEF IInv

LEMMA DetailArrivesInv ==
    ASSUME IInv, DetailArrives
    PROVE  IInv'
<1>1. /\ pc = "fetched" /\ call.kind \in {"create", "get", "update", "await"}
      /\ outcome = "none"
      /\ UNCHANGED <<service, op, changes, call, calls, seen, clock, history>>
  BY DEF DetailArrives, IInv, StepInv
<1>2. \/ /\ seen = Nothing /\ call.kind = "create" /\ ~(clock >= Window)
         /\ pc' = "sleep" /\ UNCHANGED outcome
         /\ \E p \in Pauses : until' = clock + p
      \/ /\ seen = Nothing /\ (call.kind = "create" => clock >= Window)
         /\ pc' = "idle" /\ outcome' = "not_found" /\ UNCHANGED until
      \/ /\ seen # Nothing /\ pc' = "idle" /\ outcome' = "resource" /\ UNCHANGED until
      \/ /\ seen # Nothing /\ seen.state # "running" /\ call.kind = "await"
         /\ pc' = "sleep" /\ until' = clock + Interval /\ UNCHANGED outcome
  BY DEF DetailArrives, DetailMissing, WindowOver, Got, Sleep, End
<1>3. TypeOK'
  <2>1. until' \in Nat
    BY <1>2, Numbers DEF IInv
  <2> QED
    BY <1>1, <1>2, <2>1 DEF IInv, TypeOK, service, history
<1>4. StepInv' /\ LifeInv'
  BY <1>1, <1>2, QuietLife DEF IInv, StepInv, Mutations
<1>5. SightInv'
  BY <1>1, <1>2 DEF IInv, SightInv, NotFoundIsHonest, Misnamed, Ended, Readers, history, service
<1>6. WindowInv'
  <2>1. Served(call.form)' = Served(call.form)
    BY <1>1 DEF Served, service
  <2>2. Served(call.form) => visibleAt \in Nat
    BY DEF IInv, TypeOK, LifeInv, Served
  <2> QED
    BY <1>1, <1>2, <2>1, <2>2, Numbers DEF IInv, WindowInv, ClockInv, history
<1>7. LastingInv'
  BY <1>1, <1>2, Numbers DEF IInv, LastingInv, ClockInv, TypeOK, history
<1>8. ClockInv'
  BY <1>1, <1>2, Numbers DEF IInv, ClockInv, BoundedWait, Ended
<1>9. OpInv'
  BY <1>1, <1>2 DEF IInv, OpInv, ReturnsSettled, Ended, Mutations
<1> QED
  BY <1>3, <1>4, <1>5, <1>6, <1>7, <1>8, <1>9 DEF IInv

LEMMA WakeInv ==
    ASSUME IInv, Wake
    PROVE  IInv'
<1>1. /\ pc = "sleep" /\ clock = until /\ call.kind \in {"create", "await"}
      /\ outcome = "none"
      /\ UNCHANGED <<service, op, changes, call, calls, seen, outcome, clock, history>>
  BY DEF Wake, IInv, StepInv
<1>2. \/ /\ call.kind = "create" /\ pc' = "fetch" /\ until' = clock + RequestTime
      \/ call.kind = "await" /\ pc' = "check" /\ UNCHANGED until
  BY <1>1 DEF Wake, Request
<1>3. TypeOK'
  <2>1. until' \in Nat
    BY <1>2, Numbers DEF IInv
  <2>2. pc' = "fetch" => FetchForm' \in Forms
    BY <1>1, <1>2 DEF IInv, TypeOK, FetchForm, Calls, NoCall
  <2> QED
    BY <1>1, <1>2, <2>1, <2>2 DEF IInv, TypeOK, service, history
<1>4. StepInv' /\ LifeInv'
  BY <1>1, <1>2, QuietLife DEF IInv, StepInv, Mutations
<1>5. SightInv' /\ WindowInv'
  BY <1>1, <1>2 DEF IInv, SightInv, NotFoundIsHonest, Misnamed, WindowInv, Ended, Readers,
                    service, history
<1>6. LastingInv' /\ OpInv'
  BY <1>1, <1>2 DEF IInv, LastingInv, OpInv, ReturnsSettled, Ended, Mutations, history
<1>7. ClockInv'
  BY <1>1, <1>2, Numbers DEF IInv, ClockInv, BoundedWait, Ended
<1> QED
  BY <1>3, <1>4, <1>5, <1>6, <1>7 DEF IInv

LEMMA CheckDeadlineInv ==
    ASSUME IInv, CheckDeadline
    PROVE  IInv'
<1>1. /\ pc = "check" /\ call.kind = "await" /\ outcome = "none"
      /\ UNCHANGED <<service, op, changes, call, calls, seen, clock, history>>
  BY DEF CheckDeadline, IInv, StepInv
<1>2. \/ /\ clock < Timeout /\ pc' = "list" /\ until' = clock + RequestTime
         /\ UNCHANGED outcome
      \/ /\ ~(clock < Timeout) /\ pc' = "idle" /\ outcome' = "wait_timeout"
         /\ UNCHANGED until
  BY DEF CheckDeadline, BeforeDeadline, Request, End
<1>3. TypeOK'
  <2>1. until' \in Nat
    BY <1>2, Numbers DEF IInv
  <2> QED
    BY <1>1, <1>2, <2>1 DEF IInv, TypeOK, service, history
<1>4. StepInv' /\ LifeInv'
  BY <1>1, <1>2, QuietLife DEF IInv, StepInv
<1>5. SightInv' /\ WindowInv' /\ OpInv'
  BY <1>1, <1>2 DEF IInv, SightInv, NotFoundIsHonest, Misnamed, WindowInv, OpInv,
                    ReturnsSettled, Ended, Mutations, service, history
<1>6. LastingInv'
  BY <1>1, <1>2, Numbers DEF IInv, LastingInv, TypeOK, history
<1>7. ClockInv'
  BY <1>1, <1>2, Numbers DEF IInv, ClockInv, BoundedWait, Ended
<1> QED
  BY <1>3, <1>4, <1>5, <1>6, <1>7 DEF IInv

LEMMA TickInv ==
    ASSUME IInv, Tick
    PROVE  IInv'
<1>1. /\ clock < until /\ clock' = clock + 1
      /\ UNCHANGED <<service, op, changes, pc, call, calls, seen, outcome, until,
                     history>>
      /\ \/ call.kind = "create" /\ pc \in {"fetch", "fetched", "sleep"}
         \/ /\ call.kind = "await"
            /\ pc \in {"list", "listed", "fetch", "fetched", "sleep"}
  BY DEF Tick
<1>2. clock' \in Nat /\ clock' <= until
  BY <1>1, Numbers DEF IInv
<1>3. TypeOK' /\ StepInv' /\ LifeInv'
  BY <1>1, <1>2, QuietLife DEF IInv, TypeOK, StepInv, FetchForm, service, history
<1>4. SightInv' /\ WindowInv' /\ OpInv'
  BY <1>1 DEF IInv, SightInv, NotFoundIsHonest, Misnamed, WindowInv, OpInv, ReturnsSettled,
              Ended, Served, FetchForm, service, history
<1>5. LastingInv'
  BY <1>1 DEF IInv, LastingInv, history
<1>6. ClockInv'
  BY <1>1, <1>2, Numbers DEF IInv, ClockInv, BoundedWait, Ended
<1> QED
  BY <1>3, <1>4, <1>5, <1>6 DEF IInv

LEMMA StutterInv ==
    ASSUME IInv, UNCHANGED vars
    PROVE  IInv'
BY DEF vars, IInv, TypeOK, StepInv, LifeInv, SightInv, WindowInv, LastingInv,
       ClockInv, OpInv, FetchForm, Served, NotFoundIsHonest, Misnamed, BoundedWait,
       ReturnsSettled, Ended

-----------------------------------------------------------------------------
(* The theorems. *)

LEMMA Invariance == Spec => []IInv
<1>1. Init => IInv
  BY InitInv
<1>2. IInv /\ [Next]_vars => IInv'
  BY ServerInv, BeginInv, AcceptedInv, MutationMissingInv, RequestFailsInv, SettleStepsInv,
     LookAtListInv, LookAtDetailInv, ListArrivesInv, DetailArrivesInv, WakeInv,
     CheckDeadlineInv, TickInv, StutterInv
     DEF Next, Client
<1> QED
  BY <1>1, <1>2, PTL DEF Spec

\* The state of a script's calls, and of the service, stays in its types.
THEOREM TypeCorrect == Spec => []TypeOK
<1>1. IInv => TypeOK
  BY DEF IInv
<1> QED
  BY <1>1, Invariance, PTL

\* A NotFoundError is true of some moment of the call, or is the caller's own doing,
\* who has asked for a change of a service under another type.
THEOREM AbsenceIsReal == Spec => []NotFoundIsHonest
<1>1. IInv => NotFoundIsHonest
  BY DEF IInv, SightInv
<1> QED
  BY <1>1, Invariance, PTL

\* create() does not raise for a service that has been in sight long enough.
THEOREM PropagationTolerated == Spec => []PropagationIsTolerated
<1>1. IInv => PropagationIsTolerated
  BY DEF IInv, WindowInv, PropagationIsTolerated, Ended
<1> QED
  BY <1>1, Invariance, PTL

\* An awaited mutation returns only what the server has settled as a success.
THEOREM SettledOnly == Spec => []ReturnsSettled
<1>1. IInv => ReturnsSettled
  BY DEF IInv, OpInv
<1> QED
  BY <1>1, Invariance, PTL

\* wait_for_state does not time out on a service that has run for a turn.
THEOREM LastingSeen == Spec => []LastingStateIsSeen
<1>1. IInv => LastingStateIsSeen
  BY DEF IInv, LastingInv, LastingStateIsSeen, Ended
<1> QED
  BY <1>1, Invariance, PTL

\* Both loops keep to their deadlines within one sleep and one turn of requests.
THEOREM Bounded == Spec => []BoundedWait
<1>1. IInv => BoundedWait
  BY DEF IInv, ClockInv
<1> QED
  BY <1>1, Invariance, PTL
=============================================================================
