-------------------------- MODULE CommandLine_proofs --------------------------
(***************************************************************************)
(* Proofs about CommandLine, for every number of calls: what Mutations     *)
(* promises holds below the commands too, also when they are interrupted,  *)
(* and the exit codes are honest.                                          *)
(***************************************************************************)
EXTENDS CommandLine, Mutations_proofs

Stages == {"python", "shell", "client", "payload", "call", "called", "print"}

\* The operation that a call which waits returns has succeeded.
WaitedOperation ==
    outcome.kind = "operation" /\ wait # "no" => outcome.state = "success"

\* Only a script and a command that has been sent have a call under way; and the
\* call is the command's, with its wait argument.
StageInv ==
    /\ stage \in Stages
    /\ stage \notin {"python", "called"} => pc = "idle"
    /\ stage = "called" => wait = WaitArgument(command, noWait) /\ ~command.reads

CommandInv ==
    /\ command.method \in Methods
    /\ noWait \in BOOLEAN

\* A command has no exit code before its end, and prints only what is true.
ExitInv ==
    /\ stage # "shell" => exit = Running
    /\ stage = "print" /\ ~command.reads /\ ~noWait => mutation = "done"

ShellInv == IInv /\ WaitedOperation /\ StageInv /\ CommandInv /\ ExitInv /\ ExitIsHonest

-----------------------------------------------------------------------------
(* The commands. *)

\* A command calls a method of a client.
LEMMA CommandMethods == \A c \in Commands : c.method \in Methods
<1>1. /\ \A methods, effect, payload :
             \A c \in OfEffect(methods, effect, payload) : c.method \in methods
      /\ \A m, payload, flag : C(m, payload, flag).method = m
  BY DEF OfEffect, C
<1>2. \A c \in PrimaryCommands \cup SubnetCommands : c.method \in Methods
  BY <1>1, Zenon DEF PrimaryCommands, SubnetCommands, Methods
<1>3. \A c \in RecordCommands \cup NodepoolCommands : c.method \in Methods
  BY <1>1, Zenon DEF RecordCommands, NodepoolCommands, Methods
<1>4. \A c \in KeyCommands \cup BucketCommands \cup DatabaseCommands : c.method \in Methods
  <2>1. \A c \in KeyCommands : c.method \in KeyEndMethods \cup KeyMethods \cup KeyCreates
    BY DEF KeyCommands, C
  <2>2. \A c \in BucketCommands : c.method \in BucketMethods \cup ObjectMethods
    BY DEF BucketCommands, C
  <2>3. \A c \in DatabaseCommands : c.method \in DatabaseServiceMethods \cup BaseDeletes
    BY DEF DatabaseCommands, C
  <2>4. \A m \in KeyEndMethods \cup KeyMethods \cup KeyCreates : m \in Methods
    BY Zenon DEF Methods
  <2>5. \A m \in BucketMethods \cup ObjectMethods : m \in Methods
    BY Zenon DEF Methods
  <2>6. \A m \in DatabaseServiceMethods \cup BaseDeletes : m \in Methods
    BY Zenon DEF Methods
  <2> QED
    BY <2>1, <2>2, <2>3, <2>4, <2>5, <2>6, Zenon
<1>5. ReadCommand.method \in Methods
  <2>1. \E m \in BaseCreates : TRUE
    BY DEF BaseCreates
  <2>2. (CHOOSE m \in BaseCreates : TRUE) \in BaseCreates
    BY <2>1, Zenon
  <2>3. ReadCommand.method = (CHOOSE m \in BaseCreates : TRUE)
    BY DEF ReadCommand, C
  <2> QED
    BY <2>2, <2>3, Zenon DEF Methods
<1> QED
  BY <1>2, <1>3, <1>4, <1>5, Zenon DEF Commands

\* What a command without a command line stands for changes nothing.
LEMMA ReadCommandReads == ReadCommand.reads
  BY DEF ReadCommand, C

-----------------------------------------------------------------------------
(* The calls below the commands. *)

\* The steps of a call.
LEMMA ClientKeeps ==
    ASSUME IInv, Client
    PROVE  IInv'
<1>1. CASE Answered \/ Conflict \/ Refused \/ Unknown
  BY <1>1, RequestKeeps
<1>2. CASE \E b \in Answers :
              TakeResource(b) \/ TakeUnawaited(b) \/ TakeSettled(b) \/ TakePending(b)
  BY <1>2, ResourceKeeps, UnawaitedKeeps, SettledKeeps, PendingKeeps
<1>3. CASE PollSettles \/ PollEnds
  BY <1>3, PollKeeps
<1>4. CASE Fetch \/ FetchFails
  BY <1>4, FetchKeeps
<1> QED
  BY <1>1, <1>2, <1>3, <1>4 DEF Client

\* A call that ends by raising returns no operation.
LEMMA RaisedIsNoOperation ==
    ASSUME NEW k \in Errors, outcome' = Raised(k)
    PROVE  WaitedOperation'
  BY RaisedFacts DEF WaitedOperation

\* A call that goes on after its wait has succeeded, or is about a managed database,
\* which is fetched in any case.
LEMMA ProceedWaited ==
    ASSUME NEW state, NEW refers, Proceed(state, refers), WaitedOperation,
           wait # "no" /\ method.family # "service" => state = "success"
    PROVE  WaitedOperation'
<1>1. CASE Refetch
  BY <1>1 DEF Refetch, WaitedOperation
<1>2. CASE \E s, i : End([kind |-> "resource", state |-> s, id |-> i])
  BY <1>2 DEF WaitedOperation, End
<1>3. CASE method.family # "service"
           /\ \E i : End([kind |-> "operation", state |-> state, id |-> i])
  BY <1>3 DEF WaitedOperation, End
<1> QED
  BY <1>1, <1>2, <1>3 DEF Proceed

\* A call that waits returns no operation that is still under way.
LEMMA ClientWaited ==
    ASSUME IInv, WaitedOperation, Client
    PROVE  WaitedOperation'
<1>1. CASE Answered \/ Conflict \/ Refused \/ Unknown
  BY <1>1, RaisedIsNoOperation DEF Answered, Conflict, Refused, Unknown, End, Errors,
     WaitedOperation
<1>2. CASE \E b \in Answers : TakeResource(b)
  BY <1>2 DEF TakeResource, Refetch, End, WaitedOperation
<1>3. CASE \E b \in Answers : TakeUnawaited(b)
  <2>1. PICK b \in Answers : TakeUnawaited(b)
    BY <1>3
  <2>2. b \in method.answers /\ TypeOK /\ ~IsResource(method.family, b)
        /\ (~Waits \/ IdOf(b) = "none") 
        /\ Proceed(StateOf(b), reference)
    BY <2>1 DEF TakeUnawaited, Settling, IInv, CallInv
  <2>3. wait = "no" \/ method.family = "service"
    <3>1. IdOf("stateful") # "none"
      BY DEF IdOf, Async, Referring
    <3> QED
      BY <2>2, <3>1, BodyFacts
  <2> QED
    BY <2>2, <2>3, ProceedWaited
<1>4. CASE \E b \in Answers : TakeSettled(b)
  <2>1. Proceed("success", reference) \/ End(Raised("operation_error"))
    BY <1>4 DEF TakeSettled
  <2> QED
    BY <2>1, ProceedWaited, RaisedIsNoOperation DEF End, Errors
<1>5. CASE \E b \in Answers : TakePending(b)
  BY <1>5 DEF TakePending, WaitedOperation
<1>6. CASE PollSettles
  <2>1. PICK refers \in BOOLEAN :
              Proceed("success", refers) \/ End(Raised("operation_error"))
    BY <1>6 DEF PollSettles
  <2> QED
    BY <2>1, ProceedWaited, RaisedIsNoOperation DEF End, Errors
<1>7. CASE PollEnds \/ FetchFails
  <2>1. PICK k \in {"gave_up", "not_found", "refused"} : End(Raised(k))
    BY <1>7 DEF PollEnds, FetchFails
  <2> QED
    BY <2>1, RaisedIsNoOperation DEF End, Errors
<1>8. CASE Fetch
  BY <1>8 DEF Fetch, End, WaitedOperation
<1> QED
  BY <1>1, <1>2, <1>3, <1>4, <1>5, <1>6, <1>7, <1>8 DEF Client

\* A call that begins has no outcome, or was refused.
LEMMA BeginWaited ==
    ASSUME NEW m, NEW w, Begin(m, w)
    PROVE  WaitedOperation'
  BY RaisedFacts DEF Begin, None, Errors, WaitedOperation

-----------------------------------------------------------------------------
(* The steps of the shell. *)

\* A step that leaves the calls alone leaves what is true of them.
LEMMA CallsKept ==
    ASSUME IInv, WaitedOperation, UNCHANGED vars
    PROVE  IInv' /\ WaitedOperation'
  BY DEF vars, IInv, TypeOK, CallInv, QuietInv, PolledIsOperation, SuccessIsSettled,
     ReturnsTarget, OwnStepsDoNotConflict, Waits, WaitedOperation

\* A command may start, or the shell may fail to start one.
LEMMA InvokeKeeps ==
    ASSUME ShellInv,
           Usage \/ \E c \in Commands, flag \in BOOLEAN : Invoke(c, flag)
    PROVE  ShellInv'
<1>1. UNCHANGED vars /\ stage = "shell" /\ pc' = pc /\ sent' = FALSE
  BY DEF Usage, Invoke, vars
<1>2. CASE Usage
  <2>1. command' = ReadCommand /\ noWait' = FALSE /\ stage' = stage
    BY <1>2 DEF Usage
  <2>2. command'.method \in Methods /\ command'.reads
    BY <2>1, CommandMethods, ReadCommandReads, Zenon DEF Commands
  <2> QED
    BY <1>1, <2>1, <2>2, CallsKept
    DEF ShellInv, StageInv, CommandInv, ExitInv, ExitIsHonest
<1>3. CASE \E c \in Commands, flag \in BOOLEAN : Invoke(c, flag)
  <2>1. command' \in Commands /\ noWait' \in BOOLEAN /\ stage' = "client"
        /\ exit' = Running
    BY <1>3 DEF Invoke
  <2> QED
    BY <1>1, <2>1, CallsKept, CommandMethods
    DEF ShellInv, StageInv, CommandInv, ExitInv, ExitIsHonest, Stages, Running
<1> QED
  BY <1>2, <1>3

\* A command may make its client, read its payload, or read.
LEMMA PrepareKeeps ==
    ASSUME ShellInv, BuildClient \/ LoadPayload \/ Read
    PROVE  ShellInv'
<1>1. UNCHANGED <<vars, command, noWait, sent>> /\ stage \in {"client", "payload", "call"}
  BY DEF BuildClient, LoadPayload, Read, GoTo, Exit
<1>2. \/ exit' = 1 /\ stage' = "shell"
      \/ exit' = exit /\ stage' \in {"payload", "call"}
      \/ exit' = exit /\ stage' = "print" /\ command.reads
  BY DEF BuildClient, LoadPayload, Read, GoTo, Exit
<1>3. pc' = pc /\ mutation' = mutation
  BY <1>1 DEF vars
<1> QED
  BY <1>1, <1>2, <1>3, CallsKept
  DEF ShellInv, StageInv, CommandInv, ExitInv, ExitIsHonest, Stages, Running

\* A command may make its call.
LEMMA CallKeeps ==
    ASSUME ShellInv, Call
    PROVE  ShellInv'
<1>1. /\ stage = "call" /\ ~command.reads /\ stage' = "called"
      /\ Begin(command.method, WaitArgument(command, noWait))
      /\ UNCHANGED <<command, noWait, exit>>
  BY DEF Call
<1>2. WaitArgument(command, noWait) \in WaitArguments
  BY DEF WaitArgument, WaitArguments
<1>3. IInv' /\ WaitedOperation' /\ wait' = WaitArgument(command, noWait)
  BY <1>1, <1>2, BeginKeeps, BeginWaited DEF ShellInv, CommandInv, Begin
<1> QED
  BY <1>1, <1>3
  DEF ShellInv, StageInv, CommandInv, ExitInv, ExitIsHonest, Stages, Running

\* A call below may go on, begin in a script, or be interrupted.
LEMMA BelowKeeps ==
    ASSUME ShellInv, CallGoesOn \/ Interrupt \/ ScriptCalls
    PROVE  ShellInv'
<1>1. stage \in {"called", "python"} /\ UNCHANGED shell
  BY DEF CallGoesOn, Interrupt, ScriptCalls
<1>2. IInv' /\ WaitedOperation' /\ (stage = "called" => wait' = wait)
  <2>1. CASE CallGoesOn
    <3>1. wait' = wait
      BY <2>1 DEF CallGoesOn, Client, Answered, Conflict, Refused, Unknown,
         TakeResource, TakeUnawaited, TakeSettled, TakePending, PollSettles, PollEnds,
         Fetch, FetchFails, Proceed, Refetch, End
    <3> QED
      BY <2>1, <3>1, ClientKeeps, ClientWaited DEF CallGoesOn, ShellInv
  <2>2. CASE Interrupt
    <3>1. End(Raised("interrupted")) /\ pc # "idle"
          /\ UNCHANGED <<answer, reference, asked>>
      BY <2>2 DEF Interrupt
    <3>2. mutation' \in {"none", "pending", "done", "failed"}
      <4>1. mutation' = mutation \/ \E b \in method.answers : mutation' = Fate(b)
        BY <2>2 DEF Interrupt
      <4> QED
        BY <4>1, BodyFacts DEF ShellInv, IInv, TypeOK, Fate
    <3>3. "interrupted" \in Errors /\ "interrupted" \in Unfinished
      BY DEF Errors, Unfinished
    <3>4. IInv'
      BY <3>1, <3>2, <3>3, RaisedFacts, EndKeeps DEF ShellInv, IInv, TypeOK
    <3> QED
      BY <3>1, <3>3, <3>4, RaisedIsNoOperation DEF End
  <2>3. CASE ScriptCalls
    BY <2>3, BeginKeeps, BeginWaited DEF ScriptCalls, ShellInv
  <2> QED
    BY <1>1, <2>1, <2>2, <2>3
<1> QED
  BY <1>1, <1>2
  DEF shell, ShellInv, StageInv, CommandInv, ExitInv, ExitIsHonest, Stages, Running

\* A call may have ended, and the command prints what it returned or exits.
LEMMA ReportKeeps ==
    ASSUME ShellInv, Report
    PROVE  ShellInv'
<1>1. /\ stage = "called" /\ pc = "idle" /\ UNCHANGED <<vars, command, noWait, sent>>
      /\ \/ /\ outcome.kind \in {"operation", "resource"}
            /\ stage' = "print" /\ exit' = exit
         \/ stage' = "shell" /\ exit' \in {1, 130}
  BY DEF Report, GoTo, Exit, ExitCode
<1>2. stage' = "print" /\ ~noWait => mutation = "done"
  <2>1. ~noWait => wait # "no"
    BY <1>1 DEF ShellInv, StageInv, WaitArgument
  <2> QED
    BY <1>1, <2>1 DEF ShellInv, IInv, WaitedOperation, SuccessIsSettled
<1>3. pc' = pc /\ mutation' = mutation
  BY <1>1 DEF vars
<1> QED
  BY <1>1, <1>2, <1>3, CallsKept
  DEF ShellInv, StageInv, CommandInv, ExitInv, ExitIsHonest, Stages, Running

\* A command may print, or fail to.
LEMMA PrintKeeps ==
    ASSUME ShellInv, PrintResult
    PROVE  ShellInv'
<1>1. /\ stage = "print" /\ stage' = "shell" /\ exit' \in {0, 1}
      /\ UNCHANGED <<vars, command, noWait, sent>>
  BY DEF PrintResult, Exit
<1>2. pc' = pc /\ mutation' = mutation
  BY <1>1 DEF vars
<1> QED
  BY <1>1, <1>2, CallsKept
  DEF ShellInv, StageInv, CommandInv, ExitInv, ExitIsHonest, Stages, Running

\* The server may settle the operation of a command that is over; what is done
\* stays done.
LEMMA SettlesKeeps ==
    ASSUME ShellInv, OperationSettles, UNCHANGED shell
    PROVE  ShellInv'
<1>1. mutation = "pending" /\ UNCHANGED <<pc, wait, outcome>>
  BY DEF OperationSettles
<1>2. IInv' /\ WaitedOperation'
  BY <1>1, ServerKeeps DEF ShellInv, WaitedOperation
<1> QED
  BY <1>1, <1>2 DEF shell, ShellInv, StageInv, CommandInv, ExitInv, ExitIsHonest

-----------------------------------------------------------------------------
(* The theorems. *)

\* The invariant holds of every sequence of commands, and of every script.
THEOREM ShellInvariance == CommandSpec => []ShellInv
<1>1. CommandInit => ShellInv
  <2> SUFFICES ASSUME CommandInit PROVE ShellInv
    OBVIOUS
  <2>1. IInv
    BY InitKeeps DEF CommandInit
  <2>2. command.method \in Methods /\ command.reads
    BY CommandMethods, ReadCommandReads, Zenon DEF CommandInit, Commands
  <2>3. pc = "idle" /\ outcome.kind = "none" /\ noWait = FALSE /\ exit = Running
        /\ stage \in {"python", "shell"}
    BY DEF CommandInit, Init, None
  <2>4. WaitedOperation /\ StageInv /\ CommandInv
    BY <2>2, <2>3 DEF WaitedOperation, StageInv, CommandInv, Stages
  <2>5. ExitInv /\ ExitIsHonest
    BY <2>3 DEF ExitInv, ExitIsHonest, Running
  <2> QED
    BY <2>1, <2>4, <2>5 DEF ShellInv
<1>2. ShellInv /\ [CommandNext]_allVars => ShellInv'
  <2> SUFFICES ASSUME ShellInv, [CommandNext]_allVars PROVE ShellInv'
    OBVIOUS
  <2>1. CASE Usage \/ \E c \in Commands, flag \in BOOLEAN : Invoke(c, flag)
    BY <2>1, InvokeKeeps
  <2>2. CASE BuildClient \/ LoadPayload \/ Read
    BY <2>2, PrepareKeeps
  <2>3. CASE Call
    BY <2>3, CallKeeps
  <2>4. CASE CallGoesOn \/ Interrupt \/ ScriptCalls
    BY <2>4, BelowKeeps
  <2>5. CASE Report
    BY <2>5, ReportKeeps
  <2>6. CASE PrintResult
    BY <2>6, PrintKeeps
  <2>7. CASE OperationSettles /\ UNCHANGED shell
    BY <2>7, SettlesKeeps
  <2>8. CASE UNCHANGED allVars
    <3>1. UNCHANGED vars /\ UNCHANGED shell /\ pc' = pc /\ wait' = wait
          /\ mutation' = mutation
      BY <2>8 DEF allVars, vars
    <3> QED
      BY <3>1, CallsKept DEF shell, ShellInv, StageInv, CommandInv, ExitInv, ExitIsHonest
  <2> QED
    BY <2>1, <2>2, <2>3, <2>4, <2>5, <2>6, <2>7, <2>8 DEF CommandNext, Command
<1> QED
  BY <1>1, <1>2, PTL DEF CommandSpec

\* A script may rely on the exit codes: 0 after a command that waits says that the
\* server has done it, and after 2 nothing has been sent.
THEOREM ExitsAreHonest == CommandSpec => []ExitIsHonest
  BY ShellInvariance, PTL DEF ShellInv

\* Below the commands too, no client polls the id of a resource, but the base's
\* create and update where it is answered with a state of its own.
THEOREM CommandsPollOperations == CommandSpec => []PolledIsOperation
  BY ShellInvariance, PTL DEF ShellInv, IInv

\* Below the commands too, what is returned as done the server has done.
THEOREM CommandsSucceed == CommandSpec => []SuccessIsSettled
  BY ShellInvariance, PTL DEF ShellInv, IInv

\* Below the commands too, what is returned as the resource is the resource, but
\* where a create is given no name of it.
THEOREM CommandsReturnTargets == CommandSpec => []ReturnsTarget
  BY ShellInvariance, PTL DEF ShellInv, IInv

\* Commands that wait, and are not interrupted, do not run into each other.
THEOREM CommandsDoNotConflict == CommandSpec => []OwnStepsDoNotConflict
  BY ShellInvariance, PTL DEF ShellInv, IInv
=============================================================================
