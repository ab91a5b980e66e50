------------------------- MODULE OperationPoll_proofs -------------------------
(***************************************************************************)
(* Proofs about OperationPoll, for every deadline, poll interval, request  *)
(* timeout and tolerance: its types and its five safety invariants.        *)
(***************************************************************************)
EXTENDS OperationPoll, TLAPS

\* The clock in each phase of the loop.
ClockInv ==
    /\ pc = "start" => now = 0
    /\ pc = "check" => BoundedOvershoot
    /\ pc = "poll" => since < Timeout /\ since <= now /\ now <= since + RequestTimeout
    /\ pc = "sleep" => /\ since < Timeout + RequestTimeout
                       /\ since <= now /\ now <= since + PollInterval
    /\ pc = "done" => BoundedOvershoot
    /\ outcome = "operation_timeout" => now >= Timeout

\* What the client has seen of the operation is still true of it.
VerdictInv ==
    /\ op = "pending" <=> settledAt = Never
    /\ last \in Settled => last = op
    /\ outcome = "none" <=> pc # "done"
    /\ outcome = "operation" => Succeeded(last)
    /\ outcome = "operation_error" => Failed(last)

\* consecutive_failures counts the failed polls at the end of the list.
StreakInv ==
    /\ failures <= Len(polls)
    /\ \A i \in Len(polls) - failures + 1 .. Len(polls) : polls[i] = Transient
    /\ pc # "done" => failures <= MaxPollFailures
    /\ outcome = "poll_error" => failures = MaxPollFailures + 1

\* A verdict the last undisturbed poll did not bring fell after it had begun.
LateInv ==
    failures = 0 /\ last = "pending" /\ settledAt # Never =>
        /\ pc = "sleep" => settledAt + RequestTimeout >= since
        /\ pc = "check" => settledAt + RequestTimeout + PollInterval >= now
        /\ outcome = "operation_timeout" =>
              settledAt + RequestTimeout + PollInterval >= Timeout

IInv == TypeOK /\ ClockInv /\ VerdictInv /\ StreakInv /\ VerdictIsActedOn /\ LateInv

-----------------------------------------------------------------------------
\* The two settled kinds exclude each other and "pending".
LEMMA States ==
    /\ \A s : s \in Settled <=> Succeeded(s) \/ Failed(s)
    /\ \A s : ~(Succeeded(s) /\ Failed(s))
    /\ "pending" \notin Settled
    /\ Blank \notin Settled
    /\ Transient \notin Settled
    /\ \A s : Succeeded(s) <=> s = "success"
BY DEF Settled, Succeeded, Failed, Blank, Transient

LEMMA ReportedIsTrue ==
    ASSUME TypeOK, VerdictInv, NEW s \in Reported
    PROVE  /\ s \in Bodies
           /\ s \in Settled => s = op
           /\ s = "pending" => settledAt = Never \/ settledAt >= since
BY States DEF TypeOK, VerdictInv, Reported, Bodies, Settled, Blank

LEMMA InitInv == Init => IInv
<1> SUFFICES ASSUME Init
             PROVE  IInv
  OBVIOUS
<1>1. TypeOK
  BY ToleranceAssumption DEF Init, TypeOK, Bodies, Outcomes, Settled, Never
<1>2. VerdictInv
  BY States DEF Init, VerdictInv, Never, Settled, Blank
<1>3. ClockInv /\ StreakInv /\ VerdictIsActedOn /\ LateInv
  BY TimeAssumption, ToleranceAssumption
     DEF Init, ClockInv, StreakInv, VerdictIsActedOn, LateInv, BoundedOvershoot
<1> QED
  BY <1>1, <1>2, <1>3 DEF IInv

-----------------------------------------------------------------------------
(* The steps that do not poll. *)

LEMMA GivenInv ==
    ASSUME IInv, GivenFailed \/ GivenSucceeded \/ GivenWithoutId \/ StartPolling
    PROVE  IInv'
<1>1. TypeOK'
  BY DEF IInv, TypeOK, GivenFailed, GivenSucceeded, GivenWithoutId, StartPolling,
         Finish, Outcomes
<1>2. ClockInv'
  BY DEF IInv, TypeOK, ClockInv, BoundedOvershoot, GivenFailed, GivenSucceeded,
         GivenWithoutId, StartPolling, Finish
<1>3. VerdictInv' /\ StreakInv'
  BY States DEF IInv, VerdictInv, StreakInv, GivenFailed, GivenSucceeded,
         GivenWithoutId, StartPolling, Finish, Failed, Succeeded
<1>4. VerdictIsActedOn'
  BY DEF IInv, VerdictInv, VerdictIsActedOn, GivenFailed, GivenSucceeded,
         GivenWithoutId, StartPolling, Finish
<1>5. LateInv'
  BY TimeAssumption
     DEF IInv, TypeOK, ClockInv, LateInv, GivenFailed, GivenSucceeded,
         GivenWithoutId, StartPolling, Finish, Never
<1> QED
  BY <1>1, <1>2, <1>3, <1>4, <1>5 DEF IInv

LEMMA CheckInv ==
    ASSUME IInv, CheckDeadline
    PROVE  IInv'
<1>1. TypeOK' /\ VerdictInv' /\ StreakInv'
  BY DEF IInv, TypeOK, VerdictInv, StreakInv, CheckDeadline, Finish, Outcomes,
         Failed, Succeeded
<1>2. ClockInv'
  BY TimeAssumption
     DEF IInv, TypeOK, ClockInv, VerdictInv, BoundedOvershoot, CheckDeadline,
         BeforeDeadline, Finish
<1>3. VerdictIsActedOn'
  BY DEF IInv, VerdictInv, VerdictIsActedOn, CheckDeadline, Finish
<1>4. LateInv'
  BY TimeAssumption
     DEF IInv, TypeOK, VerdictInv, LateInv, CheckDeadline, BeforeDeadline,
         Finish, Never
<1> QED
  BY <1>1, <1>2, <1>3, <1>4 DEF IInv

LEMMA WakeInv ==
    ASSUME IInv, Wake
    PROVE  IInv'
<1>1. TypeOK' /\ VerdictInv' /\ StreakInv' /\ VerdictIsActedOn'
  BY DEF IInv, TypeOK, VerdictInv, StreakInv, VerdictIsActedOn, Wake,
         Failed, Succeeded
<1>2. ClockInv' /\ LateInv'
  BY TimeAssumption
     DEF IInv, TypeOK, VerdictInv, ClockInv, LateInv, BoundedOvershoot, Wake,
         Never
<1> QED
  BY <1>1, <1>2 DEF IInv

LEMMA TickInv ==
    ASSUME IInv, Tick
    PROVE  IInv'
<1>1. TypeOK' /\ VerdictInv' /\ StreakInv' /\ VerdictIsActedOn'
  BY DEF IInv, TypeOK, VerdictInv, StreakInv, VerdictIsActedOn, Tick,
         Failed, Succeeded
<1>2. ClockInv' /\ LateInv'
  BY TimeAssumption
     DEF IInv, TypeOK, VerdictInv, ClockInv, LateInv, BoundedOvershoot, Tick
<1> QED
  BY <1>1, <1>2 DEF IInv

LEMMA SettleInv ==
    ASSUME IInv, Settle
    PROVE  IInv'
<1>1. TypeOK' /\ StreakInv' /\ VerdictIsActedOn'
  BY DEF IInv, TypeOK, StreakInv, VerdictIsActedOn, Settle
<1>2. VerdictInv'
  BY States DEF IInv, TypeOK, VerdictInv, Settle, Failed, Succeeded, Never
<1>3. ClockInv'
  BY DEF IInv, ClockInv, BoundedOvershoot, Settle
<1>4. LateInv'
  BY TimeAssumption DEF IInv, TypeOK, ClockInv, LateInv, Settle
<1> QED
  BY <1>1, <1>2, <1>3, <1>4 DEF IInv

-----------------------------------------------------------------------------
(* The steps that poll. *)

\* The list of polls grows by one poll.
LEMMA PollsGrow ==
    ASSUME TypeOK, NEW p \in Bodies \cup {Transient}, polls' = Append(polls, p)
    PROVE  /\ polls' \in Seq(Bodies \cup {Transient})
           /\ Len(polls') = Len(polls) + 1 /\ Len(polls) \in Nat
           /\ polls'[Len(polls')] = p
           /\ \A i \in 1 .. Len(polls) : polls'[i] = polls[i]
BY DEF TypeOK

\* Before the wait is over no poll has brought a verdict.
LEMMA NoVerdictYet ==
    ASSUME IInv, pc # "done", NEW i \in 1 .. Len(polls)
    PROVE  polls[i] \notin Settled
BY DEF IInv, VerdictInv, VerdictIsActedOn

LEMMA PollBodyInv ==
    ASSUME IInv, PollBody
    PROVE  IInv'
<1>0. PICK s \in Reported :
          /\ last' = s
          /\ polls' = Append(polls, s)
          /\ CASE Succeeded(s) -> Finish("operation") /\ UNCHANGED since
               [] Failed(s) -> Finish("operation_error") /\ UNCHANGED since
               [] OTHER -> Sleep
  BY DEF PollBody
<1> USE DEF IInv
<1>1. /\ s \in Bodies
      /\ s \in Settled => s = op
      /\ s = "pending" => settledAt = Never \/ settledAt >= since
  BY ReportedIsTrue
<1>2. /\ pc = "poll" /\ failures' = 0
      /\ UNCHANGED <<hasId, now, op, settledAt>>
  BY DEF PollBody
<1>3. \/ Succeeded(s) /\ Finish("operation") /\ UNCHANGED since
      \/ Failed(s) /\ Finish("operation_error") /\ UNCHANGED since
      \/ s \notin Settled /\ Sleep
  BY <1>0, States
<1>4. /\ polls' \in Seq(Bodies \cup {Transient})
      /\ Len(polls') = Len(polls) + 1 /\ Len(polls) \in Nat
      /\ polls'[Len(polls')] = s
      /\ \A i \in 1 .. Len(polls) : polls'[i] = polls[i]
  BY <1>0, <1>1, PollsGrow
<1>5. TypeOK'
  BY <1>0, <1>1, <1>2, <1>3, <1>4, ToleranceAssumption
     DEF TypeOK, Finish, Sleep, Outcomes
<1>6. ClockInv'
  BY <1>2, <1>3, TimeAssumption
     DEF TypeOK, VerdictInv, ClockInv, BoundedOvershoot, Finish, Sleep
<1>7. VerdictInv'
  BY <1>0, <1>1, <1>2, <1>3, States
     DEF VerdictInv, Finish, Sleep, Succeeded, Failed
<1>8. StreakInv'
  BY <1>2, <1>3, <1>4, ToleranceAssumption
     DEF TypeOK, VerdictInv, StreakInv, Finish, Sleep
<1>9. VerdictIsActedOn'
  <2> SUFFICES ASSUME NEW i \in 1 .. Len(polls'), polls'[i] \in Settled
               PROVE  /\ i = Len(polls')
                      /\ outcome' = IF polls'[i] = "success"
                                    THEN "operation" ELSE "operation_error"
    BY DEF VerdictIsActedOn
  <2>1. i = Len(polls')
    BY <1>2, <1>4, NoVerdictYet
  <2> QED
    BY <1>3, <1>4, <2>1, States DEF Finish
<1>10. LateInv'
  BY <1>0, <1>1, <1>2, <1>3, TimeAssumption
     DEF TypeOK, VerdictInv, ClockInv, LateInv, Finish, Sleep, Never
<1> QED
  BY <1>5, <1>6, <1>7, <1>8, <1>9, <1>10

LEMMA PollFailsInv ==
    ASSUME IInv, PollFails
    PROVE  IInv'
<1> USE DEF IInv
<1>1. /\ pc = "poll" /\ failures' = failures + 1 /\ failures \in Nat
      /\ UNCHANGED <<hasId, last, now, op, settledAt>>
  BY ToleranceAssumption DEF PollFails, TypeOK
<1>2. \/ TooMany(failures + 1) /\ Finish("poll_error") /\ UNCHANGED since
      \/ ~TooMany(failures + 1) /\ Sleep
  BY DEF PollFails
<1>3. /\ polls' \in Seq(Bodies \cup {Transient})
      /\ Len(polls') = Len(polls) + 1 /\ Len(polls) \in Nat
      /\ polls'[Len(polls')] = Transient
      /\ \A i \in 1 .. Len(polls) : polls'[i] = polls[i]
  BY PollsGrow DEF PollFails
<1>4. failures <= MaxPollFailures
  BY <1>1 DEF StreakInv
<1>5. TypeOK'
  BY <1>1, <1>2, <1>3, <1>4, ToleranceAssumption
     DEF TypeOK, Finish, Sleep, Outcomes
<1>6. ClockInv'
  BY <1>1, <1>2, TimeAssumption
     DEF TypeOK, VerdictInv, ClockInv, BoundedOvershoot, Finish, Sleep
<1>7. VerdictInv'
  BY <1>1, <1>2, States DEF VerdictInv, Finish, Sleep, Succeeded, Failed
<1>8. StreakInv'
  <2>1. failures' <= Len(polls')
    BY <1>1, <1>3 DEF StreakInv
  <2>2. ASSUME NEW i \in Len(polls') - failures' + 1 .. Len(polls')
        PROVE  polls'[i] = Transient
    <3>1. CASE i = Len(polls')
      BY <1>3, <3>1
    <3>2. CASE i # Len(polls')
      BY <1>1, <1>3, <3>2 DEF StreakInv
    <3> QED
      BY <3>1, <3>2
  <2>3. /\ pc' # "done" => failures' <= MaxPollFailures
        /\ outcome' = "poll_error" => failures' = MaxPollFailures + 1
    BY <1>1, <1>2, <1>4, ToleranceAssumption
       DEF VerdictInv, TooMany, Finish, Sleep
  <2> QED
    BY <2>1, <2>2, <2>3 DEF StreakInv
<1>9. VerdictIsActedOn'
  BY <1>1, <1>3, NoVerdictYet, States DEF VerdictIsActedOn
<1>10. LateInv'
  BY <1>1 DEF LateInv
<1> QED
  BY <1>5, <1>6, <1>7, <1>8, <1>9, <1>10

LEMMA PollRefusedInv ==
    ASSUME IInv, PollRefused
    PROVE  IInv'
<1>1. TypeOK' /\ VerdictInv' /\ VerdictIsActedOn'
  BY DEF IInv, TypeOK, VerdictInv, VerdictIsActedOn, PollRefused, Finish,
         Outcomes, Succeeded, Failed
<1>2. ClockInv' /\ LateInv' /\ StreakInv'
  BY TimeAssumption
     DEF IInv, TypeOK, ClockInv, VerdictInv, LateInv, StreakInv,
         BoundedOvershoot, PollRefused, Finish
<1> QED
  BY <1>1, <1>2 DEF IInv

LEMMA NextInv == IInv /\ [Next]_vars => IInv'
<1> SUFFICES ASSUME IInv, [Next]_vars
             PROVE  IInv'
  OBVIOUS
<1>1. CASE UNCHANGED vars
  BY <1>1 DEF vars, IInv, TypeOK, ClockInv, VerdictInv, StreakInv,
              VerdictIsActedOn, LateInv, BoundedOvershoot, Failed, Succeeded
<1> QED
  BY <1>1, GivenInv, CheckInv, WakeInv, TickInv, SettleInv, PollBodyInv,
     PollFailsInv, PollRefusedInv DEF Next, Client

-----------------------------------------------------------------------------
\* The invariant the theorems below follow from.
THEOREM Invariance == Spec => []IInv
BY InitInv, NextInv, PTL DEF Spec

\* Type correctness: consecutive_failures never exceeds the tolerance by more
\* than the failure that is surfaced.
THEOREM TypeCorrect == Spec => []TypeOK
BY Invariance, PTL DEF IInv

\* wait_operation reports the verdict the server has settled on.
THEOREM VerdictIsTrue == Spec => []VerdictIsTheServers
<1>1. IInv => VerdictIsTheServers
  BY States DEF IInv, VerdictInv, VerdictIsTheServers
<1> QED
  BY <1>1, Invariance, PTL

\* A verdict that a poll has brought ends the wait with the matching result.
THEOREM VerdictEndsTheWait == Spec => []VerdictIsActedOn
BY Invariance, PTL DEF IInv

\* Up to max_poll_failures consecutive failures are tolerated, for any tolerance.
THEOREM Tolerance == Spec => []HiccupsAreTolerated
<1>1. IInv => HiccupsAreTolerated
  BY ToleranceAssumption DEF IInv, TypeOK, StreakInv, HiccupsAreTolerated
<1> QED
  BY <1>1, Invariance, PTL

\* The wait outlives its deadline by less than one poll and one sleep.
THEOREM Overshoot == Spec => []BoundedOvershoot
<1>1. IInv => BoundedOvershoot
  BY TimeAssumption DEF IInv, TypeOK, ClockInv, BoundedOvershoot
<1> QED
  BY <1>1, Invariance, PTL

\* How late a verdict must fall for an undisturbed wait to miss it.
THEOREM MissedVerdictsAreLate == Spec => []OnlyLateVerdictsAreMissed
<1>1. IInv => OnlyLateVerdictsAreMissed
  BY TimeAssumption DEF IInv, TypeOK, LateInv, OnlyLateVerdictsAreMissed
<1> QED
  BY <1>1, Invariance, PTL
=============================================================================
