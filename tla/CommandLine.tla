----------------------------- MODULE CommandLine -----------------------------
(***************************************************************************)
(* The commands (cli/) on top of Mutations: a shell runs them one after    *)
(* the other on one resource.  A command parses its arguments, builds its  *)
(* client from the environment, reads its payload, makes its call, and     *)
(* prints; whatever ends it early becomes an exit code.                    *)
(*                                                                         *)
(* Or a Python script makes calls of any method; then there is no command. *)
(***************************************************************************)
EXTENDS Mutations

VARIABLES
    stage,      \* where the command is; "python" for a script
    command,    \* the command
    noWait,     \* --no-wait
    sent,       \* TRUE once the command has sent its request
    exit        \* the exit code of the last command, or Running

shell == <<stage, command, noWait, sent, exit>>
allVars == <<vars, shell>>

Running == -1

-----------------------------------------------------------------------------
(* The commands: the method each calls, whether it reads a payload, and    *)
(* whether it has --no-wait.                                               *)

C(m, payload, flag) ==
    [method |-> m, payload |-> payload, flag |-> flag, reads |-> FALSE]

OfEffect(methods, effect, payload) ==
    {C(m, payload, TRUE) : m \in {n \in methods : n.effect = effect}}

PrimaryCommands ==
    OfEffect(BaseCreates \cup NamedCreates, "create", TRUE)
    \cup OfEffect(BaseDeletes, "remove", FALSE)

\* The sub-resources with commands of their own.
SubnetCommands ==
    OfEffect(SubnetMethods, "create", TRUE) \cup OfEffect(SubnetMethods, "remove", FALSE)
RecordCommands ==
    OfEffect(RecordMethods, "create", TRUE) \cup OfEffect(RecordMethods, "remove", FALSE)
NodepoolCommands ==
    OfEffect(NodepoolMethods, "create", TRUE)
    \cup OfEffect(NodepoolMethods, "remove", FALSE)

KeyCommands ==
    {C(m, FALSE, FALSE) : m \in KeyEndMethods \cup {n \in KeyMethods : n.raises = "never"}}
    \cup {C(m, TRUE, FALSE) : m \in KeyCreates}
BucketCommands ==
    {C(m, FALSE, FALSE) : m \in BucketMethods
                \cup {n \in ObjectMethods : n.name \in {"upload_file", "delete_object"}}}

DatabaseCommands ==
    {C(m, TRUE, FALSE) : m \in {n \in DatabaseServiceMethods : n.effect = "create"}}
    \cup {C(m, FALSE, FALSE) : m \in BaseDeletes}

\* list, get and find of every asset, and the like.
ReadCommand == [C(CHOOSE m \in BaseCreates : TRUE, FALSE, FALSE) EXCEPT !.reads = TRUE]

Commands ==
    PrimaryCommands \cup SubnetCommands \cup RecordCommands
    \cup NodepoolCommands \cup KeyCommands \cup BucketCommands
    \cup DatabaseCommands \cup {ReadCommand}

\* Slip: the flag is passed on as it is.
WaitArgumentSlip(c, flag) ==
    IF ~c.flag THEN "default" ELSE IF flag THEN "yes" ELSE "no"

\* wait=not args.no_wait, where there is the flag.
WaitArgument(c, flag) ==
    IF ~c.flag THEN "default" ELSE IF flag THEN "no" ELSE "yes"

-----------------------------------------------------------------------------
CommandInit ==
    /\ Init
    /\ stage \in {"python", "shell"}
    /\ command = ReadCommand
    /\ noWait = FALSE
    /\ sent = FALSE
    /\ exit = Running

Exit(code) ==
    /\ stage' = "shell"
    /\ exit' = code
    /\ UNCHANGED <<vars, command, noWait, sent>>

GoTo(s) ==
    /\ stage' = s
    /\ UNCHANGED <<vars, command, noWait, sent, exit>>

\* argparse accepts the command line.
Invoke(c, flag) ==
    /\ stage = "shell" /\ calls < MaxCalls
    /\ flag => c.flag
    /\ stage' = "client"
    /\ command' = c /\ noWait' = flag
    /\ sent' = FALSE /\ exit' = Running
    /\ UNCHANGED vars

\* No asset, an unknown one, no command, or arguments argparse rejects (2);
\* --help and --version (0).
Usage ==
    /\ stage = "shell"
    /\ command' = ReadCommand /\ noWait' = FALSE /\ sent' = FALSE
    /\ exit' \in {0, 2}
    /\ UNCHANGED <<vars, stage>>

\* from_env; without credentials it is an error, as is a timeout that is no
\* number, which nothing catches.
BuildClient ==
    /\ stage = "client"
    /\ GoTo(IF command.payload THEN "payload" ELSE "call") \/ Exit(1)

\* The payload is a JSON object; or unreadable, not JSON, or not an object.
LoadPayload ==
    /\ stage = "payload"
    /\ GoTo("call") \/ Exit(1)

Call ==
    /\ stage = "call" /\ ~command.reads
    /\ Begin(command.method, WaitArgument(command, noWait))
    /\ stage' = "called" /\ sent' = TRUE
    /\ UNCHANGED <<command, noWait, exit>>

Read ==
    /\ stage = "call" /\ command.reads
    /\ GoTo("print") \/ Exit(1)

CallGoesOn ==
    /\ stage \in {"called", "python"}
    /\ Client
    /\ UNCHANGED shell

\* Ctrl-C; the request may have been accepted.
Interrupt ==
    /\ stage = "called" /\ pc # "idle"
    /\ End(Raised("interrupted"))
    /\ mutation' \in {mutation} \cup
           (IF pc # "request" \/ mutation = "pending" THEN {}
            ELSE {Fate(b) : b \in method.answers})
    /\ UNCHANGED <<answer, reference, asked, shell>>

\* run_guarded: Ctrl-C, or any of the errors.
ExitCode(kind) == IF kind = "interrupted" THEN 130 ELSE 1

Report ==
    /\ stage = "called" /\ pc = "idle"
    /\ IF outcome.kind \in {"operation", "resource"} THEN GoTo("print")
       ELSE Exit(ExitCode(outcome.kind))

\* The result is printed; or standard output is gone.
PrintResult ==
    /\ stage = "print"
    /\ Exit(0) \/ Exit(1)

ScriptCalls ==
    /\ stage = "python"
    /\ \E m \in Methods, w \in WaitArguments : Begin(m, w)
    /\ UNCHANGED shell

Command ==
    \/ BuildClient
    \/ LoadPayload
    \/ Call
    \/ Read
    \/ CallGoesOn
    \/ Report
    \/ PrintResult

CommandNext ==
    \/ \E c \in Commands, flag \in BOOLEAN : Invoke(c, flag)
    \/ Usage
    \/ Command
    \/ Interrupt
    \/ ScriptCalls
    \/ OperationSettles /\ UNCHANGED shell

\* A command that runs goes on, and each step of its call ends (a payload read
\* from standard input is taken to end); the server need not settle anything.
CommandSpec == CommandInit /\ [][CommandNext]_allVars /\ WF_allVars(Command)

-----------------------------------------------------------------------------
(* Properties. *)

\* The exit code can be relied on in a shell script: 0 after a mutating command
\* without --no-wait says that the server has done it, also for the commands
\* that have no such flag; and after 2 nothing has been sent.
ExitIsHonest ==
    /\ exit = 0 /\ ~command.reads /\ ~noWait => mutation = "done"
    /\ exit = 2 => ~sent

\* Every command comes to its exit, though the server settles nothing.
CommandsEnd == stage \notin {"shell", "python"} ~> stage = "shell"
=============================================================================
