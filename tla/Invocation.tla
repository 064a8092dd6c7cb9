-------------------------------- MODULE Invocation --------------------------------
(***************************************************************************)
(* One run of `opp`, from the words of its command line to its exit        *)
(* status: the parser (src/src/cli.rs), the choice of the account          *)
(* (account.rs), the requests (client.rs), what the broker takes them for  *)
(* (protocol.rs) and what it starts for them (broker.rs, environment.rs).  *)
(*                                                                         *)
(* Whether an account is authorized is BrokerActor's subject and left open *)
(* here, as is everything that several clients do to each other.  Brokers  *)
(* come and go, and may be of another version of the protocol.             *)
(***************************************************************************)
EXTENDS Naturals, Sequences

CONSTANTS
    Words,         \* what an argument or a value of a variable can be
    Text,          \* the words that are valid UTF-8
    Size,          \* bytes of a word
    Nanos,         \* what parse_duration sums a word up to, 0 if it is none
    Canonical,     \* the executable that a path names, or Missing
    InPath,        \* the first `op` in PATH, or Missing
    Missing,
    CommandLines,  \* the words that `opp` may be called with
    Keys,          \* names of environment variables
    Removed,       \* ... that is_removed names
    Odd,           \* ... that begin with "="
    Environments,  \* the variables it may be called with
    Own,           \* the variables that a broker has for its own checks
    None,          \* an option, a variable or a selector that is not there
    Versions,      \* of the protocol
    Mine,          \* PROTOCOL_VERSION
    MaxArguments, MaxBytes, Shortest, Longest, \* the parser's limits of an exec
    WireArguments, WireBytes, WireShortest, WireLongest, \* the codec's
    Usual,         \* its timeout if none is given
    MaxChanges     \* bound: how often the broker changes

Commands == {"start", "status", "stop", "exec"}
Programs == {Canonical[w] : w \in Words} \cup {InPath}

ASSUME InvocationAssumption ==
    /\ Commands \cup {"--account", "--account=", "--op", "--timeout", "--help", "--version",
                      "--", "", "true"} \subseteq Text
    /\ Text \subseteq Words /\ None \notin Words
    /\ Size \in [Words -> Nat] /\ Nanos \in [Words -> Nat]
    /\ CommandLines \subseteq Seq(Words)
    /\ {"OP_ACCOUNT", "OP_BIOMETRIC_UNLOCK_ENABLED"} \subseteq Keys
    /\ Removed \subseteq Keys /\ Odd \subseteq Keys
    /\ {"OP_ACCOUNT", "OP_BIOMETRIC_UNLOCK_ENABLED"} \cap (Removed \cup Odd) = {}
    /\ Environments \subseteq [Keys -> Words \cup {None}]
    /\ Own \in [Keys -> Words \cup {None}]
    /\ Mine \in Versions
    /\ {MaxArguments, MaxBytes, Shortest, Longest, Usual, MaxChanges} \subseteq Nat
    /\ 0 < Shortest /\ Usual \in Shortest..Longest

\* protocol.rs has limits of its own, which are not narrower than those of cli.rs (the
\* numbers are the same); how each of the two compares is modelled.
ASSUME WireAssumption ==
    /\ {WireArguments, WireBytes, WireShortest, WireLongest} \subseteq Nat
    /\ MaxArguments <= WireArguments /\ MaxBytes = WireBytes
    /\ WireShortest <= Shortest /\ Longest <= WireLongest

VARIABLES
    argv, environment,  \* what this `opp` was called with
    at,        \* the place in the client
    index,     \* of the option that is read next
    explicit,  \* the value of --account
    second,    \* the value of --op or --timeout
    account,   \* the selector
    op,        \* op_path
    warned,    \* the warning was written
    peer,      \* the broker it reached
    alive,     \* ... which has not ended
    exit,      \* how it ended
    broker,    \* the broker that listens
    changes,   \* of it
    wire,      \* what the client sent
    request,   \* what the broker decoded
    child,     \* the last `op` it started for that
    answer     \* the response, or the end of the connection

words == <<argv, environment>>
parser == <<index, explicit, second, account, op>>
link == <<peer, alive>>
world == <<broker, changes>>
served == <<request, child, answer>>
vars == <<words, parser, at, warned, exit, link, world, wire, served>>

-----------------------------------------------------------------------------
Nobody == [version |-> None, op |-> Missing]
Brokers == [version : Versions, op : Programs]
Silence == [kind |-> "silence"]
NoChild == [purpose |-> "none"]

Init ==
    /\ argv \in CommandLines /\ environment \in Environments
    /\ at = "parse" /\ index = 2 /\ exit = "none"
    /\ explicit = None /\ second = None /\ account = None /\ op = Missing
    /\ warned = FALSE
    /\ peer = Nobody /\ alive = FALSE
    /\ broker \in Brokers \cup {Nobody} /\ changes = 0
    /\ wire = Silence /\ request = Silence /\ child = NoChild /\ answer = "none"

-----------------------------------------------------------------------------
(* The command line.                                                       *)

Command == IF argv = <<>> THEN "" ELSE argv[1]

\* The place of the first "--".
Separators == {i \in 2..Len(argv) : argv[i] = "--"}
First(places) == CHOOSE i \in places : \A j \in places : i <= j

\* Options are the words before it, and for the other commands all words.
Limit == IF Command = "exec" /\ Separators # {} THEN First(Separators)
         ELSE Len(argv) + 1

Helped == \/ argv \in {<<"--help">>, <<"--version">>}
          \/ Command \in Commands /\ \E i \in 2..(Limit - 1) : argv[i] = "--help"

Known == Command \in Commands /\ (Command = "exec" => Separators # {})

Ends(how) == at' = "exit" /\ exit' = how
Goes(place) == at' = place /\ UNCHANGED exit
Apart == UNCHANGED <<words, warned, link, world, wire, served>>

\* Help wherever an option or its value may be, and before any error.
Parse ==
    /\ at = "parse"
    /\ \/ Helped /\ Ends("help")
       \/ ~Helped /\ ~Known /\ Ends("usage")
       \/ ~Helped /\ Known /\ Goes("options")
    /\ UNCHANGED parser /\ Apart

InRange(time) == time \in Shortest..Longest

\* The turns of the loops of parse_start and parse_exec; parse_status and
\* parse_stop come to the same with fewer options.
Taken(name, value) == argv[index] = name /\ value = None /\ index + 1 < Limit

TakeAccount ==
    /\ at = "options" /\ index < Limit /\ Command # "stop"
    /\ Taken("--account", explicit)
    /\ explicit' = argv[index + 1] /\ index' = index + 2
    /\ UNCHANGED <<second, account, op, at, exit>> /\ Apart

TakeSecond ==
    /\ at = "options" /\ index < Limit
    /\ \/ Command = "start" /\ Taken("--op", second)
       \/ Command = "exec" /\ Taken("--timeout", second) /\ InRange(Nanos[argv[index + 1]])
    /\ second' = argv[index + 1] /\ index' = index + 2
    /\ UNCHANGED <<explicit, account, op, at, exit>> /\ Apart

RefuseOption ==
    /\ at = "options" /\ index < Limit
    /\ ~(Command # "stop" /\ Taken("--account", explicit))
    /\ ~(Command = "start" /\ Taken("--op", second))
    /\ ~(/\ Command = "exec" /\ Taken("--timeout", second)
         /\ InRange(Nanos[argv[index + 1]]))
    /\ Ends("usage") /\ UNCHANGED parser /\ Apart

\* The words for `op`, and the limits of all of them.
Arguments == IF Command = "exec" THEN SubSeq(argv, Limit + 1, Len(argv)) ELSE <<>>

Bytes(s) == LET sum[i \in 0..Len(s)] == IF i = 0 THEN 0 ELSE sum[i - 1] + Size[s[i]]
            IN sum[Len(s)]

Fits(s) == Len(s) <= MaxArguments /\ Bytes(s) <= MaxBytes

\* reject_account_override; "--account=" stands for all words that begin so.
Overrides(s) ==
    \E i \in 1..Len(s) : s[i] \in {"--account", "--account="} /\ \A j \in 1..i : s[j] # "--"

\* Account::select.
Select == IF explicit \notin {None, ""} THEN explicit
          ELSE IF environment["OP_ACCOUNT"] # "" THEN environment["OP_ACCOUNT"]
          ELSE None

Accept ==
    /\ at = "options" /\ index >= Limit
    /\ IF Command = "stop" THEN Goes("connect") /\ UNCHANGED account
       ELSE IF Fits(Arguments) /\ ~Overrides(Arguments) /\ Select \in Text \cup {None}
       THEN Goes(IF Command = "start" THEN "resolve" ELSE "connect") /\ account' = Select
       ELSE Ends("usage") /\ UNCHANGED account
    /\ UNCHANGED <<index, explicit, second, op>> /\ Apart

\* resolve_op.
Resolve ==
    /\ at = "resolve"
    /\ op' = IF second = None THEN InPath ELSE Canonical[second]
    /\ IF op' = Missing THEN Ends("failed") ELSE Goes("connect")
    /\ UNCHANGED <<index, explicit, second, account>> /\ Apart

-----------------------------------------------------------------------------
(* The connection.                                                         *)

Kept == UNCHANGED <<words, parser, world, wire, served>>

\* Nobody is there; a start that spawned a broker waits for it.
Absent ==
    /\ at = "connect" /\ broker = Nobody
    /\ CASE Command = "start"  -> Goes("spawn") /\ warned' = TRUE
         [] Command = "status" -> Ends("stopped") /\ UNCHANGED warned
         [] Command = "stop"   -> Ends("ok") /\ UNCHANGED warned
         [] Command = "exec"   -> Ends("required") /\ UNCHANGED warned
    /\ Kept /\ UNCHANGED link

\* The broker that was spawned serves, or gave way to one that came first,
\* whose version is looked at.
Spawn ==
    /\ at = "spawn"
    /\ \/ /\ broker = Nobody /\ broker' = [version |-> Mine, op |-> op]
          /\ Goes("reconnect")
       \/ /\ broker # Nobody /\ UNCHANGED broker
          /\ IF broker.version = Mine THEN Goes("reconnect") ELSE Ends("incompatible")
    /\ UNCHANGED <<words, parser, warned, link, changes, wire, served>>

Reach ==
    /\ at \in {"connect", "reconnect"} /\ broker # Nobody
    /\ peer' = broker /\ alive' = TRUE
    /\ Goes(IF Command = "stop" THEN "ask" ELSE "negotiate")
    /\ Kept /\ UNCHANGED warned

\* Both preambles.  Behind a spawn the error does not tell why.
Negotiate ==
    /\ at = "negotiate" /\ alive
    /\ IF peer.version = Mine THEN Goes("ask")
       ELSE Ends(IF Command = "start" /\ warned THEN "failed" ELSE "incompatible")
    /\ Kept /\ UNCHANGED <<warned, link>>

Request ==
    [kind |-> Command, warned |-> warned, account |-> account, op |-> op,
     timeout |-> IF Command = "exec" /\ second # None THEN Nanos[second] ELSE Usual,
     arguments |-> Arguments, environment |-> environment]

Ask ==
    /\ at = "ask" /\ alive
    /\ wire' = Request /\ Goes("await")
    /\ UNCHANGED <<words, parser, warned, link, world, served>>

\* Mutant: whatever ends the first round of a start is success.
OutcomeOfAny ==
    IF Command = "start" THEN "ok"
    ELSE CASE Command = "exec" /\ answer = "exited"      -> "command"
           [] Command = "exec" /\ answer = "required"    -> "required"
           [] Command = "status" /\ answer = "status"    -> "status"
           [] Command = "stop" /\ answer = "stopped"     -> "ok"
           [] OTHER                                      -> "failed"

\* lifecycle_response, status, stop and the end of execute, where "exited" is
\* an exit of the command, its signal or its time-out, and "failed" is 1 or 125,
\* an output that cannot be written among it; the number of a signal that
\* cancelled a request is ExecClient's.
Outcome ==
    CASE Command = "start" /\ answer = "ok"          -> "ok"
      [] Command = "exec" /\ answer = "exited"       -> "command"
      [] Command = "exec" /\ answer = "required"     -> "required"
      [] Command = "status" /\ answer = "status"     -> "status"
      [] Command = "stop" /\ answer = "stopped"      -> "ok"
      [] OTHER                                       -> "failed"

\* start_existing goes on to its second round; the others end.
Receive ==
    /\ at = "await" /\ answer # "none"
    /\ IF answer = "needWarning" /\ ~warned
       THEN /\ Goes("ask") /\ warned' = TRUE
            /\ wire' = Silence /\ answer' = "none"
       ELSE Ends(Outcome) /\ UNCHANGED <<warned, wire, answer>>
    /\ UNCHANGED <<words, parser, link, world, request, child>>

\* No runtime path, context, pipe or broker, a request that is too large, an
\* error of a system call, or the end of a connection.
Fail ==
    /\ \/ at \in {"connect", "spawn", "reconnect", "negotiate", "ask"}
       \/ at = "await" /\ ~alive /\ answer = "none"
    /\ Ends("failed") /\ Kept /\ UNCHANGED <<warned, link>>

\* A signal, which may leave a piece of a request on the wire.
Killed ==
    /\ at # "exit" /\ Ends("killed")
    /\ wire' \in {wire} \cup (IF at = "ask" THEN {[kind |-> "piece"]} ELSE {})
    /\ UNCHANGED <<words, parser, warned, link, world, served>>

-----------------------------------------------------------------------------
(* The broker.                                                             *)

Client == UNCHANGED <<words, parser, at, warned, exit, wire>>

Changes == changes < MaxChanges /\ changes' = changes + 1

\* Whoever starts it, of whatever version.
BrokerStarts ==
    /\ broker = Nobody /\ Changes /\ broker' \in Brokers
    /\ Client /\ UNCHANGED <<link, served>>

BrokerEnds ==
    /\ broker # Nobody /\ Changes /\ broker' = Nobody
    /\ alive' = FALSE
    /\ Client /\ UNCHANGED <<peer, served>>

Handler == Client /\ UNCHANGED <<link, world>>

\* Decoder::context: a variable's name holds no "=".
ValidContext(env) == \A k \in Odd : env[k] = None

\* Mutant: the codec's limit of the arguments is one too small.
ValidBelow(r) ==
    /\ r.kind = "exec" => /\ r.timeout \in WireShortest..WireLongest
                          /\ Len(r.arguments) < WireArguments
                          /\ Bytes(r.arguments) <= WireBytes
    /\ r.kind \in {"start", "exec"} => ValidContext(r.environment)

\* receive_request.
Valid(r) ==
    /\ r.kind = "exec" => /\ r.timeout \in WireShortest..WireLongest
                          /\ Len(r.arguments) <= WireArguments
                          /\ Bytes(r.arguments) <= WireBytes
    /\ r.kind \in {"start", "exec"} => ValidContext(r.environment)

\* A piece of a request is none.
Decode ==
    /\ alive /\ wire.kind \in Commands \ {"stop"} /\ answer = "none" /\ request # wire
    /\ IF Valid(wire) THEN request' = wire /\ UNCHANGED answer
       ELSE answer' = "closed" /\ UNCHANGED request
    /\ UNCHANGED child /\ Handler

\* A stop needs no version, and what follows is Lifecycle's.
Stopped ==
    /\ alive /\ wire.kind = "stop" /\ answer = "none"
    /\ answer' = "stopped" /\ broker' = Nobody /\ alive' = FALSE
    /\ Client /\ UNCHANGED <<peer, changes, request, child>>

\* set, and remove for None.
Put(env, key, value) == [env EXCEPT ![key] = value]

\* Mutant: the variables that choose another way to sign in are kept.
SanitizedSelectorOnly(env, selector) ==
    Put(Put(env, "OP_BIOMETRIC_UNLOCK_ENABLED", "true"), "OP_ACCOUNT", selector)

\* ClientContext::sanitized.
Sanitized(env, selector) ==
    LET kept == [k \in Keys |-> IF k \in Removed THEN None ELSE env[k]]
    IN Put(Put(kept, "OP_BIOMETRIC_UNLOCK_ENABLED", "true"), "OP_ACCOUNT", selector)

Starts(purpose, arguments) ==
    child' = [purpose |-> purpose, program |-> peer.op, arguments |-> arguments,
              environment |-> Sanitized(request.environment, request.account)]

Working == alive /\ request # Silence /\ request = wire /\ answer = "none"
Answers(r) == answer' = r /\ UNCHANGED child

\* An account may be authorized already, and an unwarned start prompts for none.
ServeStart ==
    /\ Working /\ request.kind = "start" /\ child.purpose = "none"
    /\ IF request.op # peer.op THEN Answers("mismatch")
       ELSE \/ Answers("ok")
            \/ ~request.warned /\ Answers("needWarning")
            \/ request.warned /\ Starts("prompt", <<>>) /\ UNCHANGED answer
    /\ UNCHANGED request /\ Handler

ServeStatus ==
    /\ Working /\ request.kind = "status"
    /\ Answers("status") /\ UNCHANGED request /\ Handler

\* Cancelled in the queue, or drained from it.
Refuse ==
    /\ Working /\ child = NoChild
    /\ Answers("error") /\ UNCHANGED request /\ Handler

\* The automatic check, for an account that is authorized.
ServeExec ==
    /\ Working /\ request.kind = "exec" /\ child.purpose = "none"
    /\ Answers("required") \/ (Starts("check", <<>>) /\ UNCHANGED answer)
    /\ UNCHANGED request /\ Handler

ServeCommand ==
    /\ Working /\ child.purpose = "check"
    /\ \/ Answers("required") \/ Answers("error")
       \/ Starts("command", request.arguments) /\ UNCHANGED answer
    /\ UNCHANGED request /\ Handler

ChildEnds ==
    /\ Working
    /\ \/ child.purpose = "prompt" /\ (Answers("ok") \/ Answers("error"))
       \/ child.purpose = "command" /\ (Answers("exited") \/ Answers("error"))
    /\ UNCHANGED request /\ Handler

\* ClientContext::maintenance.
Maintenance(selector) ==
    [k \in Keys |-> CASE k = "OP_BIOMETRIC_UNLOCK_ENABLED" -> "true"
                      [] k = "OP_ACCOUNT"                  -> selector
                      [] OTHER                             -> Own[k]]

\* A check of the account that was added, whether or not its client still runs.
Maintain ==
    /\ alive /\ request.kind = "start" /\ answer = "ok"
    /\ child' = [purpose |-> "maintenance", program |-> peer.op, arguments |-> <<>>,
                 environment |-> Sanitized(Maintenance(request.account), request.account)]
    /\ UNCHANGED <<request, answer>> /\ Handler

-----------------------------------------------------------------------------
Reading == Parse \/ TakeAccount \/ TakeSecond \/ RefuseOption \/ Accept \/ Resolve
Talking == Absent \/ Spawn \/ Reach \/ Negotiate \/ Ask \/ Receive \/ Fail \/ Killed
Serving == \/ Decode \/ Stopped \/ Refuse \/ ServeStart \/ ServeStatus \/ ServeExec
           \/ ServeCommand \/ ChildEnds \/ Maintain

Next == Reading \/ Talking \/ BrokerStarts \/ BrokerEnds \/ Serving

Spec == Init /\ [][Next]_vars

-----------------------------------------------------------------------------
(* Properties.                                                             *)

Selectors == (Text \ {""}) \cup {None}
Values == Words \cup {None}
Requests == [kind : Commands, warned : BOOLEAN, account : Selectors,
             op : Programs \cup {Missing}, timeout : Nat, arguments : Seq(Words),
             environment : [Keys -> Values]]
Children == [purpose : {"prompt", "check", "command", "maintenance"}, program : Programs \cup {Missing},
             arguments : Seq(Words), environment : [Keys -> Values]]

TypeOK ==
    /\ argv \in Seq(Words) /\ environment \in [Keys -> Values]
    /\ at \in {"parse", "options", "resolve", "connect", "spawn", "reconnect",
               "negotiate", "ask", "await", "exit"}
    /\ index \in Nat /\ explicit \in Values /\ second \in Values
    /\ account \in Selectors /\ op \in Programs \cup {Missing}
    /\ warned \in BOOLEAN /\ alive \in BOOLEAN
    /\ peer \in Brokers \cup {Nobody} /\ broker \in Brokers \cup {Nobody}
    /\ exit \in {"none", "help", "usage", "ok", "stopped", "status", "required",
                 "command", "incompatible", "failed", "killed"}
    /\ changes \in 0..MaxChanges
    /\ wire \in Requests \cup {Silence, [kind |-> "piece"]}
    /\ request \in Requests \cup {Silence} /\ child \in Children \cup {NoChild}
    /\ answer \in {"none", "ok", "needWarning", "mismatch", "required", "status",
                   "exited", "error", "closed", "stopped"}

\* The documented form of a command line: every second word in front of the
\* limit is an option, none is there twice, and its value follows it.
Places == {i \in 2..(Limit - 1) : i % 2 = 0}
Given(name, value) ==
    /\ \A i, j \in Places : argv[i] = name /\ argv[j] = name => i = j
    /\ IF value = None THEN \A i \in Places : argv[i] # name
       ELSE \E i \in Places : argv[i] = name /\ argv[i + 1] = value
Form(names) == Limit % 2 = 0 /\ \A i \in Places : argv[i] \in names

\* What a broker takes for a request comes from a client of its own version and
\* is what the documented form of the command line and OP_ACCOUNT mean: the
\* loops of the parser and the selection agree with it.  Of what `opp` accepted
\* the codec refuses nothing, at no boundary of its own limits, but for a variable
\* whose name begins with "=".
HandledAsGiven ==
    /\ request # Silence =>
         /\ peer.version = Mine /\ request.kind = Command
         /\ \E e, s \in Values :
              /\ Given("--account", e)
              /\ request.account = IF e \notin {None, ""} THEN e
                                   ELSE IF environment["OP_ACCOUNT"] = "" THEN None
                                   ELSE environment["OP_ACCOUNT"]
              /\ CASE Command = "status" -> Form({"--account"})
                   [] Command = "start" ->
                        /\ Form({"--account", "--op"}) /\ Given("--op", s)
                        /\ request.op = (IF s = None THEN InPath ELSE Canonical[s])
                        /\ request.op # Missing
                   [] Command = "exec" ->
                        /\ Form({"--account", "--timeout"}) /\ Given("--timeout", s)
                        /\ request.timeout = (IF s = None THEN Usual ELSE Nanos[s])
                        /\ request.timeout \in Shortest..Longest
                        /\ argv[Limit] = "--"
                        /\ request.arguments = SubSeq(argv, Limit + 1, Len(argv))
    /\ answer = "closed" => \E k \in Odd : environment[k] # None

\* Every `op` that is started for this client is about the account that it
\* selected, and about no other: not by a variable, not by an option among the
\* words for `op`, up to the words that `op` itself passes on.  All other
\* variables are the client's own, or the broker's for a check of its own.
ChildIsOfSelection ==
    child # NoChild =>
        /\ child.environment["OP_ACCOUNT"] = account
        /\ child.environment["OP_BIOMETRIC_UNLOCK_ENABLED"] = "true"
        /\ \A k \in Keys \ {"OP_ACCOUNT", "OP_BIOMETRIC_UNLOCK_ENABLED"} :
              child.environment[k] = IF k \in Removed THEN None
                                     ELSE IF child.purpose = "maintenance" THEN Own[k]
                                     ELSE environment[k]
        /\ child.purpose \in {"prompt", "maintenance"} => child.program = op
        /\ \A i \in 1..Len(child.arguments) :
              child.arguments[i] \in {"--account", "--account="} =>
                  \E j \in 1..(i - 1) : child.arguments[j] = "--"

\* An exit status tells what happened: nothing reached a broker behind a usage
\* error, or a broker of another version; no command ran behind "authorization
\* required"; op's own status is that of the words given to it; and a start that
\* succeeded was served by a broker of this version that uses the chosen
\* executable, which may have ended since.
ExitTellsTheTruth ==
    /\ exit \in {"usage", "help", "incompatible", "stopped"} => request = Silence
    /\ exit \in {"usage", "help"} => peer = Nobody
    /\ exit = "required" => child = NoChild \/ child.purpose = "check"
    /\ exit = "command" => child # NoChild /\ child.purpose = "command"
                           /\ child.arguments = Arguments
    /\ exit = "ok" /\ Command = "start" => peer.version = Mine /\ peer.op = op
=============================================================================
