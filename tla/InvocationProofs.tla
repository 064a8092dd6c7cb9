---------------------------- MODULE InvocationProofs ----------------------------
(***************************************************************************)
(* Proofs of the safety properties of Invocation, for every command line,  *)
(* every environment, every set of versions and executables, and whatever  *)
(* brokers come and go.                                                    *)
(***************************************************************************)
EXTENDS Invocation, WellFoundedInduction, TLAPS

Early == at \in {"parse", "options", "resolve"}
Connecting == at \in {"connect", "spawn", "reconnect", "negotiate"}
Asking == at \in {"ask", "await"}
Asked == Asking \/ wire # Silence \/ request # Silence

\* The request of this command line in either round.
RequestOf(w) ==
    [kind |-> Command, warned |-> w, account |-> account, op |-> op,
     timeout |-> IF Command = "exec" /\ second # None THEN Nanos[second] ELSE Usual,
     arguments |-> Arguments, environment |-> environment]

\* The loops of the parser: the words that were read are options and values, and
\* the variables hold what stood behind an option that was there once.
Options == CASE Command = "start"  -> {"--account", "--op"}
             [] Command = "exec"   -> {"--account", "--timeout"}
             [] Command = "status" -> {"--account"}
             [] OTHER              -> {}
HasRead == {i \in 2..(index - 1) : i % 2 = 0}
ReadIn(places, name, value) ==
    /\ \A i, j \in places : argv[i] = name /\ argv[j] = name => i = j
    /\ IF value = None THEN \A i \in places : argv[i] # name
       ELSE \E i \in places : argv[i] = name /\ argv[i + 1] = value
Turns ==
    /\ index % 2 = 0 /\ index \in 2..Limit
    /\ \A i \in HasRead : argv[i] \in Options
    /\ ReadIn(HasRead, "--account", explicit)
    /\ Command = "start" => ReadIn(HasRead, "--op", second)
    /\ Command = "exec" => /\ ReadIn(HasRead, "--timeout", second)
                           /\ second # None => InRange(Nanos[second])

Accepted ==
    /\ index = Limit
    /\ Command # "stop" => account = Select /\ Fits(Arguments) /\ ~Overrides(Arguments)

Resolved ==
    Command = "start" => op = (IF second = None THEN InPath ELSE Canonical[second])
                         /\ op # Missing

Parsed ==
    /\ at = "parse" => index = 2 /\ explicit = None /\ second = None
    /\ at \in {"options", "resolve"} \/ Connecting \/ Asked => Known /\ Turns
    /\ at = "resolve" \/ Connecting \/ Asked => Accepted
    /\ Connecting \/ Asked => Resolved

\* What was sent, and to whom.
Linked ==
    /\ at = "exit" <=> exit # "none"
    /\ at \in {"resolve", "spawn", "reconnect"} => Command = "start"
    /\ Early => peer = Nobody
    /\ Early \/ Connecting => ~Asked /\ child = NoChild /\ answer = "none"
    /\ Asked /\ Command # "stop" => peer.version = Mine

Carried ==
    /\ wire \in {Silence, [kind |-> "piece"]} \/ \E w \in BOOLEAN : wire = RequestOf(w)
    /\ request = Silence \/ (Command # "stop" /\ \E w \in BOOLEAN : request = RequestOf(w))
    /\ answer # "none" => wire # Silence
    /\ answer = "closed" => \E k \in Odd : environment[k] # None

\* The children of the request, and the answers that they let through.
Born ==
    /\ child # NoChild => request # Silence /\ child.program = peer.op
    /\ child # NoChild =>
          /\ child.environment =
                Sanitized(IF child.purpose = "maintenance" THEN Maintenance(account)
                          ELSE environment, account)
          /\ child.arguments = IF child.purpose = "command" THEN Arguments ELSE <<>>
          /\ IF child.purpose \in {"prompt", "maintenance"}
             THEN Command = "start" /\ peer.op = op ELSE Command = "exec"
    /\ answer = "ok" => Command = "start" /\ peer.op = op /\ request # Silence
    /\ answer = "required" => child = NoChild \/ child.purpose = "check"
    /\ answer = "exited" => child # NoChild /\ child.purpose = "command"

Ended ==
    /\ exit \in {"usage", "help"} => peer = Nobody
    /\ exit \in {"usage", "help", "incompatible", "stopped"} =>
          ~Asked /\ child = NoChild /\ answer = "none"
    /\ exit = "required" => (~Asked /\ child = NoChild) \/ answer = "required"
    /\ exit = "command" => answer = "exited"
    /\ exit = "ok" /\ Command = "start" => answer = "ok"

IInv == TypeOK /\ Parsed /\ Linked /\ Carried /\ Born /\ Ended

-----------------------------------------------------------------------------
(* The command line stays as it is.                                        *)

LEMMA SameWords ==
    ASSUME [Next]_vars
    PROVE  argv' = argv /\ environment' = environment
<1> USE DEF words
<1>1. CASE UNCHANGED vars
  BY <1>1 DEF vars
<1>2. CASE Reading
  BY <1>2 DEF Reading, Parse, TakeAccount, TakeSecond, RefuseOption, Accept, Resolve, Apart
<1>3. CASE Talking
  BY <1>3 DEF Talking, Absent, Spawn, Reach, Negotiate, Ask, Receive, Fail, Killed, Kept
<1>4. CASE BrokerStarts \/ BrokerEnds \/ Serving
  BY <1>4 DEF BrokerStarts, BrokerEnds, Serving, Decode, Stopped, Refuse, ServeStart,
              ServeStatus, ServeExec, ServeCommand, ChildEnds, Maintain, Handler, Client
<1> QED
  BY <1>1, <1>2, <1>3, <1>4 DEF Next

LEMMA SameReading ==
    ASSUME argv' = argv, environment' = environment
    PROVE  /\ Command' = Command /\ Limit' = Limit /\ Arguments' = Arguments
           /\ Known' = Known /\ Helped' = Helped /\ Options' = Options
<1>1. Command' = Command /\ Separators' = Separators
  BY DEF Command, Separators
<1>2. Limit' = Limit
  BY <1>1 DEF Limit
<1> QED
  BY <1>1, <1>2 DEF Arguments, Known, Helped, Options

LEMMA FirstIsThere ==
    ASSUME NEW S \in SUBSET Nat, S # {}
    PROVE  First(S) \in S
<1>1. IsWellFoundedOn(OpToRel(<, Nat), Nat)
  BY NatLessThanWellFounded
<1>2. PICK x \in S : \A y \in S : ~ (<<y, x>> \in OpToRel(<, Nat))
  BY <1>1, WFMin
<1>3. \A y \in S : x <= y
  <2>1. ASSUME NEW y \in S, y < x
        PROVE  <<y, x>> \in OpToRel(<, Nat)
    BY <2>1 DEF OpToRel
  <2>2. \A y \in S : ~(y < x)
    BY <1>2, <2>1
  <2>3. x \in Nat /\ \A y \in S : y \in Nat
    OBVIOUS
  <2> QED
    BY <2>2, <2>3
<1> QED
  BY <1>3 DEF First

\* The options end within the words, and those of exec at a "--".
LEMMA LimitIsThere ==
    ASSUME argv \in Seq(Words), Known
    PROVE  /\ Limit \in Nat /\ 2 <= Limit /\ Limit <= Len(argv) + 1 /\ Len(argv) \in Nat
           /\ Command = "exec" => Limit <= Len(argv) /\ argv[Limit] = "--"
<1>1. Len(argv) \in Nat /\ 1 <= Len(argv)
  <2>1. argv # <<>>
    BY DEF Known, Command, Commands
  <2> QED
    BY <2>1
<1>2. CASE Command = "exec"
  <2>1. Separators \in SUBSET Nat /\ Separators # {}
    BY <1>1, <1>2 DEF Separators, Known
  <2>2. First(Separators) \in Separators
    BY <2>1, FirstIsThere
  <2> QED
    BY <1>1, <1>2, <2>1, <2>2 DEF Limit, Separators
<1>3. CASE Command # "exec"
  BY <1>1, <1>3 DEF Limit
<1> QED
  BY <1>2, <1>3

LEMMA ArgumentsType ==
    ASSUME argv \in Seq(Words), Known
    PROVE  Arguments \in Seq(Words)
<1>1. CASE Command = "exec"
  BY <1>1, LimitIsThere DEF Arguments
<1>2. CASE Command # "exec"
  BY <1>2 DEF Arguments
<1> QED
  BY <1>1, <1>2

-----------------------------------------------------------------------------
(* Types.                                                                  *)

LEMMA TypeInit == Init => TypeOK
<1> SUFFICES ASSUME Init PROVE TypeOK
  OBVIOUS
<1>1. argv \in Seq(Words) /\ environment \in [Keys -> Values]
  BY InvocationAssumption DEF Init, Values
<1>2. at = "parse" /\ exit = "none" /\ answer = "none" /\ index \in Nat
  BY DEF Init
<1>6. warned = FALSE /\ alive = FALSE
  BY DEF Init
<1>7. changes \in 0..MaxChanges
  <2>1. MaxChanges \in Nat /\ changes = 0
    BY InvocationAssumption DEF Init
  <2> QED
    BY <2>1
<1>3. explicit \in Values /\ second \in Values /\ account \in Selectors
  BY DEF Init, Values, Selectors
<1>4. broker \in Brokers \cup {Nobody} /\ peer \in Brokers \cup {Nobody}
      /\ op \in Programs \cup {Missing}
  BY DEF Init
<1>5. wire = Silence /\ request = Silence /\ child = NoChild
  BY DEF Init
<1> QED
  BY <1>1, <1>2, <1>3, <1>4, <1>5, <1>6, <1>7 DEF TypeOK

LEMMA TypeReading ==
    ASSUME IInv, Reading
    PROVE  TypeOK'
<1> USE DEF IInv, TypeOK, Apart, words, link, world, served, Ends, Goes
<1>0. argv \in Seq(Words)
  OBVIOUS
<1>1. CASE Parse
  BY <1>1 DEF Parse, parser
<1>2. ASSUME at = "options", index < Limit, index + 1 < Limit
      PROVE  argv[index + 1] \in Words
  BY <1>2, LimitIsThere DEF Parsed
<1>3. CASE TakeAccount
  BY <1>2, <1>3 DEF TakeAccount, Taken, Values
<1>4. CASE TakeSecond
  BY <1>2, <1>4 DEF TakeSecond, Taken, Values
<1>5. CASE RefuseOption
  BY <1>5 DEF RefuseOption, parser
<1>6. CASE Accept
  <2>1. account' \in Selectors
    BY <1>6, InvocationAssumption DEF Accept, Select, Selectors, Values
  <2> QED
    BY <1>6, <2>1 DEF Accept
<1>7. CASE Resolve
  <2>1. op' \in Programs \cup {Missing}
    BY <1>7 DEF Resolve, Programs, Values
  <2> QED
    BY <1>7, <2>1 DEF Resolve
<1> QED
  BY <1>1, <1>3, <1>4, <1>5, <1>6, <1>7 DEF Reading

LEMMA RequestType ==
    ASSUME IInv, Asking
    PROVE  Request \in Requests
<1>1. Known /\ Arguments \in Seq(Words)
  BY ArgumentsType DEF IInv, Parsed, Asked, TypeOK
<1>2. Command \in Commands
  BY <1>1 DEF Known
<1>3. (IF Command = "exec" /\ second # None THEN Nanos[second] ELSE Usual) \in Nat
  BY InvocationAssumption DEF IInv, TypeOK, Values
<1> QED
  BY <1>1, <1>2, <1>3 DEF IInv, TypeOK, Request, Requests

LEMMA ChildType ==
    ASSUME IInv, NEW env \in [Keys -> Values], NEW purpose \in {"prompt", "check", "command", "maintenance"},
           NEW arguments \in Seq(Words), NEW selector \in Selectors
    PROVE  [purpose |-> purpose, program |-> peer.op, arguments |-> arguments,
            environment |-> Sanitized(env, selector)] \in Children
<1>1. Sanitized(env, selector) \in [Keys -> Values]
  BY InvocationAssumption DEF Sanitized, Put, Values, Selectors
<1>2. peer.op \in Programs \cup {Missing}
  BY DEF IInv, TypeOK, Brokers, Nobody
<1> QED
  BY <1>1, <1>2 DEF Children

LEMMA TypeTalking ==
    ASSUME IInv, Talking
    PROVE  TypeOK'
<1> USE DEF IInv, TypeOK, Kept, words, parser, link, world, served, Ends, Goes
<1>1. CASE Absent
  <2>1. Command \in Commands
    BY <1>1 DEF Absent, Parsed, Connecting, Known
  <2>2. at' \in {"spawn", "exit"} /\ exit' \in {"none", "stopped", "ok", "required"}
        /\ warned' \in BOOLEAN
    BY <1>1, <2>1 DEF Absent, Commands, Linked
  <2> QED
    BY <1>1, <2>2 DEF Absent
<1>2. CASE Spawn
  <2>1. broker' \in Brokers \cup {Nobody}
    <3>1. op = IF second = None THEN InPath ELSE Canonical[second]
      BY <1>2 DEF Spawn, Linked, Parsed, Connecting, Resolved
    <3>2. op \in Programs
      BY <3>1 DEF Values, Programs
    <3>3. [version |-> Mine, op |-> op] \in Brokers
      BY <3>2, InvocationAssumption DEF Brokers
    <3> QED
      BY <1>2, <3>3 DEF Spawn
  <2> QED
    BY <1>2, <2>1 DEF Spawn
<1>3. CASE Reach
  BY <1>3 DEF Reach
<1>4. CASE Negotiate
  BY <1>4 DEF Negotiate
<1>5. CASE Ask
  <2>1. Request \in Requests
    BY <1>5, RequestType DEF Ask, Asking
  <2> QED
    BY <1>5, <2>1 DEF Ask
<1>6. CASE Receive
  <2>1. Outcome \in {"ok", "command", "required", "status", "failed"}
    BY DEF Outcome
  <2>2. CASE answer = "needWarning" /\ ~warned
    BY <1>6, <2>2 DEF Receive
  <2>3. CASE ~(answer = "needWarning" /\ ~warned)
    BY <1>6, <2>1, <2>3 DEF Receive
  <2> QED
    BY <2>2, <2>3
<1>7. CASE Fail
  BY <1>7 DEF Fail
<1>8. CASE Killed
  BY <1>8 DEF Killed
<1> QED
  BY <1>1, <1>2, <1>3, <1>4, <1>5, <1>6, <1>7, <1>8 DEF Talking

LEMMA TypeServing ==
    ASSUME IInv, BrokerStarts \/ BrokerEnds \/ Serving
    PROVE  TypeOK'
<1> USE DEF IInv, TypeOK, Handler, Client, words, parser, link, world, served, Answers
<1>0. <<>> \in Seq(Words)
  OBVIOUS
<1>1. CASE BrokerStarts \/ BrokerEnds
  <2>1. MaxChanges \in Nat
    BY InvocationAssumption
  <2>2. changes' \in 0..MaxChanges
    BY <1>1, <2>1 DEF BrokerStarts, BrokerEnds, Changes
  <2>3. broker' \in Brokers \cup {Nobody} /\ alive' \in BOOLEAN
    BY <1>1 DEF BrokerStarts, BrokerEnds
  <2>4. UNCHANGED <<argv, environment, at, index, explicit, second, account, op, warned,
                    peer, exit, wire, request, child, answer>>
    BY <1>1 DEF BrokerStarts, BrokerEnds
  <2> QED
    BY <2>2, <2>3, <2>4
<1>2. CASE Decode
  <2>1. wire \in Requests
    BY <1>2 DEF Decode, Silence, Commands
  <2> QED
    BY <1>2, <2>1 DEF Decode
<1>3. CASE Stopped
  <2>1. broker' \in Brokers \cup {Nobody} /\ alive' \in BOOLEAN /\ answer' = "stopped"
    BY <1>3 DEF Stopped
  <2>2. UNCHANGED <<argv, environment, at, index, explicit, second, account, op, warned,
                    peer, exit, changes, wire, request, child>>
    BY <1>3 DEF Stopped
  <2> QED
    BY <2>1, <2>2
<1>4. CASE Refuse \/ ServeStatus
  BY <1>4 DEF Refuse, ServeStatus
<1>5. ASSUME Working
      PROVE  request \in Requests /\ request.environment \in [Keys -> Values]
             /\ request.arguments \in Seq(Words) /\ request.account \in Selectors
  BY <1>5 DEF Working, Requests
<1>a. ASSUME Working, NEW purpose \in {"prompt", "check", "command"},
             NEW arguments \in Seq(Words), Starts(purpose, arguments)
      PROVE  child' \in Children
  <2>1. [purpose |-> purpose, program |-> peer.op, arguments |-> arguments,
         environment |-> Sanitized(request.environment, request.account)] \in Children
    BY <1>5, <1>a, ChildType
  <2> QED
    BY <1>a, <2>1 DEF Starts
<1>6. CASE ServeStart
  <2>1. Starts("prompt", <<>>) => child' \in Children
    BY <1>0, <1>a, <1>6 DEF ServeStart
  <2>2. child' \in Children \cup {NoChild}
    BY <1>6, <2>1 DEF ServeStart
  <2>3. answer' \in {"none", "ok", "needWarning", "mismatch"}
    BY <1>6 DEF ServeStart, Working
  <2> QED
    BY <1>6, <2>2, <2>3 DEF ServeStart
<1>7. CASE ServeExec
  <2>1. Starts("check", <<>>) => child' \in Children
    BY <1>0, <1>a, <1>7 DEF ServeExec
  <2> QED
    BY <1>7, <2>1 DEF ServeExec
<1>8. CASE ServeCommand
  <2>1. Starts("command", request.arguments) => child' \in Children
    BY <1>5, <1>a, <1>8 DEF ServeCommand
  <2> QED
    BY <1>8, <2>1 DEF ServeCommand
<1>9. CASE ChildEnds
  BY <1>9 DEF ChildEnds
<1>10. CASE Maintain
  <2>1. request \in Requests
    BY <1>10 DEF Maintain, Silence
  <2>2. request.account \in Selectors
    BY <2>1 DEF Requests
  <2>3. Maintenance(request.account) \in [Keys -> Values]
    BY <2>2, InvocationAssumption DEF Maintenance, Values, Selectors
  <2>4. child' \in Children
    BY <1>0, <1>10, <2>2, <2>3, ChildType DEF Maintain
  <2> QED
    BY <1>10, <2>4 DEF Maintain
<1> QED
  BY <1>1, <1>2, <1>3, <1>4, <1>6, <1>7, <1>8, <1>9, <1>10 DEF Serving

LEMMA TypeNext ==
    ASSUME IInv, [Next]_vars
    PROVE  TypeOK'
<1>1. CASE UNCHANGED vars
  BY <1>1 DEF vars, words, parser, link, world, served, IInv, TypeOK
<1> QED
  BY <1>1, TypeReading, TypeTalking, TypeServing DEF Next

-----------------------------------------------------------------------------
(* The parser.                                                             *)

LEMMA Outside ==
    ASSUME IInv, Talking \/ BrokerStarts \/ BrokerEnds \/ Serving
    PROVE  /\ UNCHANGED parser
           /\ at' \in {"parse", "options", "resolve"} => at' = at
           /\ Connecting' \/ Asked' => Connecting \/ Asked
<1> USE DEF Connecting, Asked, Asking, Kept, Ends, Goes, parser
<1>1. CASE Absent \/ Spawn
  <2>1. at \in {"connect", "spawn"} /\ UNCHANGED parser
    BY <1>1 DEF Absent, Spawn
  <2>2. at' \notin {"parse", "options", "resolve"}
    <3>1. Command \in Commands
      BY <2>1 DEF IInv, Parsed, Known
    <3> QED
      BY <1>1, <3>1 DEF Absent, Spawn, Commands
  <2> QED
    BY <2>1, <2>2
<1>4. CASE Reach \/ Negotiate
  BY <1>4 DEF Reach, Negotiate
<1>5. CASE Fail
  BY <1>5 DEF Fail, served
<1>2. CASE Ask \/ Receive \/ Killed
  BY <1>2 DEF Ask, Receive, Killed, served
<1>3. CASE BrokerStarts \/ BrokerEnds \/ Serving
  BY <1>3 DEF BrokerStarts, BrokerEnds, Serving, Decode, Stopped, Refuse, ServeStart,
              ServeStatus, ServeExec, ServeCommand, ChildEnds, Maintain, Working, Handler,
              Client, served, Commands, Silence, words
<1> QED
  BY <1>1, <1>2, <1>3, <1>4, <1>5 DEF Talking

LEMMA SameTurns ==
    ASSUME argv' = argv, environment' = environment, UNCHANGED parser
    PROVE  /\ Known' = Known /\ Turns' = Turns /\ Accepted' = Accepted
           /\ Resolved' = Resolved
<1>1. HasRead' = HasRead
  BY DEF parser, HasRead
<1>2. Fits(Arguments)' = Fits(Arguments) /\ Overrides(Arguments)' = Overrides(Arguments)
      /\ Select' = Select
  BY SameReading DEF Fits, Bytes, Overrides, Select, parser
<1> QED
  BY <1>1, <1>2, SameReading DEF parser, Turns, ReadIn, InRange, Accepted, Resolved

LEMMA ReadNothing == ASSUME index = 2, NEW name PROVE ReadIn(HasRead, name, None)
<1>1. HasRead = {}
  BY DEF HasRead
<1> QED
  BY <1>1 DEF ReadIn

LEMMA ReadMore ==
    ASSUME index \in Nat, 2 <= index, index % 2 = 0, index' = index + 2
    PROVE  HasRead' = HasRead \cup {index} /\ index' % 2 = 0
<1>1. (index + 1) % 2 # 0 /\ (index + 2) % 2 = 0
  OBVIOUS
<1>2. ASSUME NEW i \in 2..(index' - 1), i % 2 = 0
      PROVE  i = index \/ i \in 2..(index - 1)
  <2>1. i # index + 1
    BY <1>1, <1>2
  <2> QED
    BY <1>2, <2>1
<1> QED
  BY <1>1, <1>2 DEF HasRead

LEMMA ReadOption ==
    ASSUME NEW places, NEW name, ReadIn(places, name, None),
           NEW i, argv[i] = name, argv[i + 1] # None
    PROVE  ReadIn(places \cup {i}, name, argv[i + 1])
BY DEF ReadIn

LEMMA ReadOther ==
    ASSUME NEW places, NEW name, NEW value, ReadIn(places, name, value),
           NEW i, argv[i] # name
    PROVE  ReadIn(places \cup {i}, name, value)
BY DEF ReadIn

LEMMA ParsedReading ==
    ASSUME IInv, Reading, argv' = argv, environment' = environment
    PROVE  Parsed'
<1>0. Known' = Known /\ Command' = Command /\ Limit' = Limit /\ Options' = Options
      /\ Arguments' = Arguments
  BY SameReading
<1>1. at \in {"parse", "options", "resolve"} /\ ~Asked /\ wire = Silence /\ request = Silence
  BY DEF Reading, Parse, TakeAccount, TakeSecond, RefuseOption, Accept, Resolve, IInv,
         Linked, Early, Asked
<1>2. wire' = wire /\ request' = request
  BY DEF Reading, Parse, TakeAccount, TakeSecond, RefuseOption, Accept, Resolve, Apart, served
<1>3. ~Asked' \/ at' \in {"ask", "await"}
  BY <1>1, <1>2 DEF Asked, Asking, Silence
<1>t. at \in {"options", "resolve"} =>
         /\ argv \in Seq(Words) /\ Known /\ Turns /\ Command \in Commands
         /\ index \in Nat /\ 2 <= index /\ index <= Limit /\ Limit \in Nat
         /\ Limit <= Len(argv) + 1 /\ Len(argv) \in Nat
  BY LimitIsThere DEF IInv, Parsed, TypeOK, Turns, Known
<1>4. CASE Parse
  <2>1. CASE at' = "exit"
    BY <1>3, <2>1 DEF Parsed, Connecting
  <2>2. CASE at' = "options"
    <3>1. Known /\ index' = 2 /\ explicit' = None /\ second' = None
      BY <1>4, <2>2 DEF Parse, Ends, Goes, IInv, Parsed, parser
    <3>2. HasRead' = {}
      BY <3>1 DEF HasRead
    <3>3. 2 \in 2..Limit
      BY <3>1, LimitIsThere DEF IInv, TypeOK
    <3>4. Turns'
      BY <1>0, <3>1, <3>2, <3>3 DEF Turns, ReadIn
    <3> QED
      BY <1>0, <1>3, <2>2, <3>1, <3>4 DEF Parsed, Connecting
  <2> QED
    BY <1>4, <2>1, <2>2 DEF Parse, Ends, Goes
<1>5. CASE TakeAccount
  <2>1. /\ Turns /\ Known /\ index + 1 < Limit /\ argv[index] = "--account"
        /\ Command \in Commands \ {"stop"} /\ at' = "options" /\ explicit = None
        /\ explicit' = argv[index + 1] /\ index' = index + 2 /\ second' = second
    BY <1>t, <1>5 DEF TakeAccount, Taken
  <2>2. HasRead' = HasRead \cup {index} /\ index' % 2 = 0
    BY <1>t, <1>5, <2>1, ReadMore DEF Turns, TakeAccount
  <2>3. index' \in 2..Limit
    BY <1>t, <1>5, <2>1 DEF TakeAccount
  <2>4. argv[index + 1] # None
    <3>1. index + 1 \in 1..Len(argv)
      BY <1>t, <1>5, <2>1 DEF TakeAccount
    <3>2. argv[index + 1] \in Words
      BY <1>t, <1>5, <3>1 DEF TakeAccount
    <3> QED
      BY <3>2, InvocationAssumption
  <2>5. ReadIn(HasRead', "--account", explicit')
    BY <2>1, <2>2, <2>4, ReadOption DEF Turns
  <2>6. /\ Command = "start" => ReadIn(HasRead', "--op", second')
        /\ Command = "exec"  => ReadIn(HasRead', "--timeout", second')
    BY <2>1, <2>2, ReadOther DEF Turns
  <2>7. "--account" \in Options
    BY <2>1 DEF Options, Commands
  <2>8. \A i \in HasRead' : argv[i] \in Options
    BY <2>1, <2>2, <2>7 DEF Turns
  <2>9. Turns'
    BY <1>0, <2>1, <2>2, <2>3, <2>5, <2>6, <2>8 DEF Turns, ReadIn, InRange
  <2> QED
    BY <1>0, <1>3, <2>1, <2>9 DEF Parsed, Connecting
<1>6. CASE TakeSecond
  <2> DEFINE name == IF Command = "start" THEN "--op" ELSE "--timeout"
  <2>1. /\ Turns /\ Known /\ index + 1 < Limit /\ argv[index] = name
        /\ Command \in {"start", "exec"} /\ at' = "options" /\ second = None
        /\ second' = argv[index + 1] /\ index' = index + 2 /\ explicit' = explicit
        /\ Command = "exec" => InRange(Nanos[argv[index + 1]])
    BY <1>t, <1>6 DEF TakeSecond, Taken
  <2>2. HasRead' = HasRead \cup {index} /\ index' % 2 = 0
    BY <1>t, <1>6, <2>1, ReadMore DEF Turns, TakeSecond
  <2>3. index' \in 2..Limit
    BY <1>t, <1>6, <2>1 DEF TakeSecond
  <2>4. argv[index + 1] # None
    <3>1. index + 1 \in 1..Len(argv)
      BY <1>t, <1>6, <2>1 DEF TakeSecond
    <3>2. argv[index + 1] \in Words
      BY <1>t, <1>6, <3>1 DEF TakeSecond
    <3> QED
      BY <3>2, InvocationAssumption
  <2>5. ReadIn(HasRead', name, second')
    BY <2>1, <2>2, <2>4, ReadOption DEF Turns
  <2>6. ReadIn(HasRead', "--account", explicit')
    BY <2>1, <2>2, ReadOther DEF Turns
  <2>7. name \in Options
    BY <2>1 DEF Options
  <2>8. \A i \in HasRead' : argv[i] \in Options
    BY <2>1, <2>2, <2>7 DEF Turns
  <2>9. Turns'
    BY <1>0, <2>1, <2>2, <2>3, <2>5, <2>6, <2>8 DEF Turns, ReadIn, InRange
  <2> QED
    BY <1>0, <1>3, <2>1, <2>9 DEF Parsed, Connecting
<1>7. CASE RefuseOption
  BY <1>3, <1>7 DEF RefuseOption, Ends, Parsed, Connecting
<1>8. CASE Accept
  <2>1. /\ Turns /\ Known /\ index = Limit
        /\ UNCHANGED <<index, explicit, second, op>>
        /\ at' \in {"resolve", "connect", "exit"}
    BY <1>t, <1>8 DEF Accept, Goes, Ends
  <2>2. Turns'
    BY <1>0, <2>1 DEF Turns, ReadIn, HasRead, InRange
  <2>3. at' # "exit" =>
           /\ Command = "start" => at' = "resolve"
           /\ Command # "stop" => account' = Select /\ Fits(Arguments) /\ ~Overrides(Arguments)
    BY <1>8 DEF Accept, Goes, Ends
  <2>4. Select' = Select
    BY <2>1 DEF Select
  <2>5. at' # "exit" => Accepted'
    BY <1>0, <2>1, <2>3, <2>4 DEF Accepted, Fits, Bytes, Overrides
  <2>6. at' = "connect" => Resolved'
    BY <1>0, <2>3 DEF Resolved
  <2> QED
    BY <1>0, <1>3, <2>1, <2>2, <2>5, <2>6 DEF Parsed, Connecting
<1>9. CASE Resolve
  <2>1. /\ Turns /\ Known /\ Accepted /\ at' \in {"connect", "exit"}
        /\ UNCHANGED <<index, explicit, second, account>>
        /\ op' = IF second = None THEN InPath ELSE Canonical[second]
        /\ at' = "connect" => op' # Missing
    BY <1>t, <1>9 DEF Resolve, Goes, Ends, IInv, Parsed
  <2>2. Turns'
    BY <1>0, <2>1 DEF Turns, ReadIn, HasRead, InRange
  <2>3. Accepted'
    BY <1>0, <2>1 DEF Accepted, Select, Fits, Bytes, Overrides
  <2>4. at' = "connect" => Resolved'
    BY <2>1 DEF Resolved
  <2> QED
    BY <1>0, <1>3, <2>1, <2>2, <2>3, <2>4 DEF Parsed, Connecting
<1> QED
  BY <1>4, <1>5, <1>6, <1>7, <1>8, <1>9 DEF Reading

LEMMA ParsedNext ==
    ASSUME IInv, [Next]_vars
    PROVE  Parsed'
<1>0. argv' = argv /\ environment' = environment
  BY SameWords
<1>1. CASE Reading
  BY <1>0, <1>1, ParsedReading
<1>2. CASE Talking \/ BrokerStarts \/ BrokerEnds \/ Serving \/ UNCHANGED vars
  <2>1. /\ UNCHANGED parser
        /\ at' \in {"parse", "options", "resolve"} => at' = at
        /\ Connecting' \/ Asked' => Connecting \/ Asked
    <3>1. CASE UNCHANGED vars
      BY <3>1 DEF vars, parser, Connecting, Asked, Asking, served
    <3> QED
      BY <1>2, <3>1, Outside
  <2>2. Known' = Known /\ Turns' = Turns /\ Accepted' = Accepted /\ Resolved' = Resolved
    BY <1>0, <2>1, SameTurns
  <2>3. index' = index /\ explicit' = explicit /\ second' = second
    BY <2>1 DEF parser
  <2> QED
    BY <2>1, <2>2, <2>3 DEF IInv, Parsed
<1> QED
  BY <1>1, <1>2 DEF Next

-----------------------------------------------------------------------------
(* The connection and what is sent on it.                                  *)

\* The broker serves a client that sent something, and answers it once.
LEMMA ServingWhat ==
    ASSUME IInv, Serving
    PROVE  /\ Asked /\ UNCHANGED <<at, exit, peer, wire, warned, parser>>
           /\ answer # "none" => answer' = answer
           /\ request # Silence => request' # Silence
           /\ wire # Silence
<1> USE DEF Handler, Client, link, world, Asked, parser
<1>1. CASE Decode
  <2>1. wire # Silence
    BY <1>1 DEF Decode, Silence, Commands
  <2> QED
    BY <1>1, <2>1 DEF Decode
<1>2. CASE Stopped
  <2>1. wire # Silence
    BY <1>2 DEF Stopped, Silence
  <2> QED
    BY <1>2, <2>1 DEF Stopped
<1>3. CASE Maintain
  <2>1. request # Silence /\ wire # Silence
    BY <1>3 DEF Maintain, Silence, IInv, Carried
  <2> QED
    BY <1>3, <2>1 DEF Maintain
<1>4. CASE Refuse \/ ServeStart \/ ServeStatus \/ ServeExec \/ ServeCommand \/ ChildEnds
  <2>1. Working /\ UNCHANGED <<request, at, exit, peer, wire, warned, parser>>
    BY <1>4 DEF Refuse, ServeStart, ServeStatus, ServeExec, ServeCommand, ChildEnds
  <2> QED
    BY <2>1 DEF Working
<1> QED
  BY <1>1, <1>2, <1>3, <1>4 DEF Serving

\* Reading touches nothing but the parser and its own end.
LEMMA ReadingWhat ==
    ASSUME IInv, Reading
    PROVE  /\ Early /\ UNCHANGED <<peer, wire, request, child, answer, warned>>
           /\ exit = "none" /\ peer = Nobody /\ ~Asked /\ child = NoChild /\ answer = "none"
           /\ \/ at' = "exit" /\ exit' \in {"help", "usage", "failed"}
              \/ at' \in {"options", "resolve", "connect"} /\ exit' = "none"
<1>1. Early /\ UNCHANGED <<peer, wire, request, child, answer, warned>>
  BY DEF Reading, Parse, TakeAccount, TakeSecond, RefuseOption, Accept, Resolve, Early,
         Apart, link, served
<1>2. exit = "none" /\ peer = Nobody /\ ~Asked /\ child = NoChild /\ answer = "none"
  BY <1>1 DEF IInv, Linked, Early
<1>3. \/ at' = "exit" /\ exit' \in {"help", "usage", "failed"}
      \/ at' \in {"options", "resolve", "connect"} /\ exit' = exit
  <2>1. CASE Parse \/ RefuseOption \/ Resolve
    BY <2>1 DEF Parse, RefuseOption, Resolve, Ends, Goes
  <2>2. CASE TakeAccount \/ TakeSecond
    BY <2>2 DEF TakeAccount, TakeSecond
  <2>3. CASE Accept
    BY <2>3 DEF Accept, Ends, Goes
  <2> QED
    BY <2>1, <2>2, <2>3 DEF Reading
<1> QED
  BY <1>1, <1>2, <1>3

\* The steps of the client before it asks.
LEMMA ConnectingWhat ==
    ASSUME IInv, Absent \/ Spawn \/ Reach \/ Negotiate
    PROVE  /\ Connecting /\ UNCHANGED <<wire, request, child, answer, parser>>
           /\ exit = "none" /\ ~Asked /\ child = NoChild /\ answer = "none"
           /\ wire = Silence /\ request = Silence
           /\ \/ at' = "exit" /\ exit' \in {"ok", "stopped", "required", "incompatible", "failed"}
              \/ at' \in {"spawn", "reconnect", "negotiate", "ask"} /\ exit' = "none"
           /\ at' \in {"spawn", "reconnect"} => Command = "start"
           /\ at' = "ask" /\ Command # "stop" => peer'.version = Mine
           /\ exit' = "ok" => Command = "stop"
<1>1. Connecting /\ UNCHANGED <<wire, request, child, answer, parser>>
  BY DEF Absent, Spawn, Reach, Negotiate, Connecting, Kept, served
<1>2. exit = "none" /\ ~Asked /\ child = NoChild /\ answer = "none"
      /\ wire = Silence /\ request = Silence
  BY <1>1 DEF IInv, Linked, Connecting, Asked
<1>3. Command \in Commands
  BY <1>1 DEF IInv, Parsed, Known
<1> USE DEF Ends, Goes
<1>4. CASE Absent
  BY <1>1, <1>2, <1>3, <1>4 DEF Absent, Commands
<1>5. CASE Spawn
  <2>1. Command = "start"
    BY <1>5 DEF Spawn, IInv, Linked
  <2> QED
    BY <1>1, <1>2, <1>5, <2>1 DEF Spawn
<1>6. CASE Reach
  BY <1>1, <1>2, <1>6 DEF Reach
<1>7. CASE Negotiate
  <2>1. peer' = peer
    BY <1>7 DEF Negotiate, link
  <2> QED
    BY <1>1, <1>2, <1>7, <2>1 DEF Negotiate
<1> QED
  BY <1>4, <1>5, <1>6, <1>7

\* The steps of the client that leave its broker, and what it knows, as they are.
LEMMA AskingWhat ==
    ASSUME IInv, Ask \/ Receive \/ Fail \/ Killed
    PROVE  /\ UNCHANGED <<peer, request, child, parser>>
           /\ exit = "none" /\ at # "exit"
           /\ \/ at = "ask" /\ at' = "await" /\ exit' = "none" /\ wire' = Request
                 /\ answer' = answer
              \/ at = "await" /\ at' = "ask" /\ exit' = "none" /\ wire' = Silence
                 /\ answer' = "none"
              \/ /\ at' = "exit" /\ answer' = answer
                 /\ wire' \in {wire, [kind |-> "piece"]}
                 /\ wire' # wire => at = "ask"
                 /\ exit' \in {"killed", "failed"} \/ (at = "await" /\ exit' = Outcome)
<1> USE DEF Kept, served, link, Ends, Goes
<1>1. at # "exit" /\ exit = "none"
  BY DEF Ask, Receive, Fail, Killed, IInv, Linked
<1>2. CASE Ask
  BY <1>1, <1>2 DEF Ask
<1>3. CASE Receive
  <2>1. CASE answer = "needWarning" /\ ~warned
    BY <1>1, <1>3, <2>1 DEF Receive
  <2>2. CASE ~(answer = "needWarning" /\ ~warned)
    BY <1>1, <1>3, <2>2 DEF Receive
  <2> QED
    BY <2>1, <2>2
<1>4. CASE Fail
  BY <1>1, <1>4 DEF Fail
<1>5. CASE Killed
  BY <1>1, <1>5 DEF Killed
<1> QED
  BY <1>2, <1>3, <1>4, <1>5

\* Brokers that come and go, and nothing at all.
LEMMA WorldWhat ==
    ASSUME BrokerStarts \/ BrokerEnds \/ UNCHANGED vars
    PROVE  UNCHANGED <<at, exit, peer, wire, warned, parser, request, child, answer>>
BY DEF BrokerStarts, BrokerEnds, vars, Client, link, served, words, parser

LEMMA LinkedNext ==
    ASSUME IInv, [Next]_vars
    PROVE  Linked'
<1>0. Command' = Command
  BY SameWords, SameReading
<1>1. CASE Reading
  <2>1. at' = "resolve" => Command = "start"
    BY <1>1 DEF Reading, Parse, TakeAccount, TakeSecond, RefuseOption, Accept, Resolve,
                Ends, Goes
  <2>2. ~Asked'
    BY <1>1, ReadingWhat DEF Asked, Asking
  <2> QED
    BY <1>0, <1>1, <2>1, <2>2, ReadingWhat DEF Linked, Early, Connecting
<1>2. CASE Absent \/ Spawn \/ Reach \/ Negotiate
  <2>1. Asked' => at' = "ask"
    BY <1>2, ConnectingWhat DEF Asked, Asking
  <2> QED
    BY <1>0, <1>2, <2>1, ConnectingWhat DEF Linked, Early, Connecting
<1>3. CASE Ask \/ Receive \/ Fail \/ Killed
  <2>1. at' \in {"ask", "await", "exit"} /\ peer' = peer
        /\ (at' = "exit" <=> exit' # "none")
    BY <1>3, AskingWhat DEF Outcome
  <2>2. Asked' => Asked
    BY <1>3, AskingWhat DEF Asked, Asking
  <2> QED
    BY <1>0, <2>1, <2>2 DEF Linked, Early, Connecting, IInv
<1>4. CASE Serving
  <2>1. Asked /\ UNCHANGED <<at, exit, peer>>
    BY <1>4, ServingWhat
  <2> QED
    BY <1>0, <2>1 DEF Linked, Early, Connecting, IInv
<1>5. CASE BrokerStarts \/ BrokerEnds \/ UNCHANGED vars
  BY <1>0, <1>5, WorldWhat DEF Linked, Early, Connecting, Asked, Asking, IInv
<1> QED
  BY <1>1, <1>2, <1>3, <1>4, <1>5 DEF Next, Talking

LEMMA SameRequest ==
    ASSUME [Next]_vars, UNCHANGED parser
    PROVE  \A w \in BOOLEAN : RequestOf(w)' = RequestOf(w)
BY SameWords, SameReading DEF RequestOf, parser

\* The limits of the codec are not narrower than those of the parser.
LEMMA Limits ==
    /\ MaxArguments \in Nat /\ WireArguments \in Nat /\ MaxArguments <= WireArguments
    /\ Shortest \in Nat /\ WireShortest \in Nat /\ WireShortest <= Shortest
    /\ Longest \in Nat /\ WireLongest \in Nat /\ Longest <= WireLongest
    /\ MaxBytes = WireBytes
<1>1. {MaxArguments, MaxBytes, Shortest, Longest, Usual, MaxChanges} \subseteq Nat
  BY InvocationAssumption
<1> QED
  BY <1>1, WireAssumption

\* What opp accepts the broker accepts, but for a name that begins with "=".
LEMMA ValidRequest ==
    ASSUME IInv, Asked, Command # "stop", NEW w \in BOOLEAN, ~Valid(RequestOf(w))
    PROVE  \E k \in Odd : environment[k] # None
<1>1. Turns /\ Accepted
  BY DEF IInv, Parsed
<1>2. Command = "exec" => InRange(RequestOf(w).timeout)
  BY <1>1, InvocationAssumption DEF Turns, RequestOf, InRange
<1>3. Command = "exec" => RequestOf(w).timeout \in WireShortest..WireLongest
  BY <1>2, Limits DEF InRange
<1>4. RequestOf(w).arguments = Arguments
  BY DEF RequestOf
<1>5. Len(Arguments) <= MaxArguments /\ Bytes(Arguments) <= MaxBytes
  BY <1>1 DEF Accepted, Fits
<1>6. Len(Arguments) \in Nat
  <2>1. Arguments \in Seq(Words)
    BY ArgumentsType DEF IInv, Parsed, Asked, TypeOK
  <2> QED
    BY <2>1
<1>7. Len(Arguments) <= WireArguments
  BY <1>5, <1>6, Limits
<1>8. Bytes(Arguments) <= WireBytes
  BY <1>5, Limits
<1>9. RequestOf(w).kind = Command /\ RequestOf(w).environment = environment
  BY DEF RequestOf
<1>10. ~ValidContext(environment)
  BY <1>3, <1>4, <1>7, <1>8, <1>9 DEF Valid
<1> QED
  BY <1>10 DEF ValidContext

LEMMA CarriedNext ==
    ASSUME IInv, [Next]_vars
    PROVE  Carried'
<1>0. Command' = Command /\ environment' = environment
  BY SameWords, SameReading
<1>1. CASE Reading
  BY <1>1, ReadingWhat DEF Carried, Asked
<1>2. CASE Absent \/ Spawn \/ Reach \/ Negotiate
  BY <1>2, ConnectingWhat DEF Carried
<1>3. CASE Ask \/ Receive \/ Fail \/ Killed
  <2>1. \A w \in BOOLEAN : RequestOf(w)' = RequestOf(w)
    BY <1>3, SameRequest, AskingWhat
  <2>2. Request = RequestOf(warned) /\ warned \in BOOLEAN
    BY DEF Request, RequestOf, IInv, TypeOK
  <2>3. wire' \in {wire, Silence, [kind |-> "piece"]} \/ wire' = RequestOf(warned)
    BY <1>3, <2>2, AskingWhat
  <2>4. wire' \in {Silence, [kind |-> "piece"]} \/ \E w \in BOOLEAN : wire' = RequestOf(w)
    BY <2>2, <2>3 DEF IInv, Carried
  <2>5. [kind |-> "piece"] # Silence /\ (at = "ask" => Request # Silence)
    <3>1. Request.kind = Command /\ (at = "ask" => Command \in Commands)
      BY DEF Request, IInv, Parsed, Asked, Asking, Known
    <3>2. at = "ask" => Request.kind # Silence.kind
      BY <3>1 DEF Silence, Commands
    <3> QED
      BY <3>2 DEF Silence
  <2>6. answer' # "none" => wire' # Silence
    BY <1>3, <2>5, AskingWhat DEF IInv, Carried
  <2>7. request' = request /\ answer' \in {answer, "none"}
    BY <1>3, AskingWhat
  <2> QED
    BY <1>0, <2>1, <2>4, <2>6, <2>7 DEF IInv, Carried
<1>4. CASE Serving
  <2>1. Asked /\ UNCHANGED wire /\ wire # Silence /\ UNCHANGED parser
    BY <1>4, ServingWhat
  <2>2. \A w \in BOOLEAN : RequestOf(w)' = RequestOf(w)
    BY <2>1, SameRequest
  <2>3. CASE Decode
    <3>1. PICK w \in BOOLEAN : wire = RequestOf(w)
      BY <2>3 DEF Decode, Silence, Commands, IInv, Carried
    <3>2. Command # "stop"
      BY <2>3, <3>1 DEF Decode, RequestOf
    <3>3. answer' = "closed" => \E k \in Odd : environment[k] # None
      BY <2>1, <2>3, <3>1, <3>2, ValidRequest DEF Decode
    <3>4. request' = wire \/ request' = request
      BY <2>3 DEF Decode
    <3> QED
      BY <1>0, <2>1, <2>2, <3>1, <3>2, <3>3, <3>4 DEF IInv, Carried
  <2>4. CASE ~Decode
    <3>1. request' = request /\ (answer' # "closed" \/ answer' = answer)
      BY <1>4, <2>4 DEF Serving, Stopped, Refuse, ServeStart, ServeStatus, ServeExec,
         ServeCommand, ChildEnds, Maintain, Answers
    <3> QED
      BY <1>0, <2>1, <2>2, <3>1 DEF IInv, Carried
  <2> QED
    BY <2>3, <2>4
<1>5. CASE BrokerStarts \/ BrokerEnds \/ UNCHANGED vars
  <2>1. \A w \in BOOLEAN : RequestOf(w)' = RequestOf(w)
    BY <1>5, SameRequest, WorldWhat
  <2> QED
    BY <1>0, <1>5, <2>1, WorldWhat DEF IInv, Carried
<1> QED
  BY <1>1, <1>2, <1>3, <1>4, <1>5 DEF Next, Talking

-----------------------------------------------------------------------------
(* The children of the request, its answer and the end.                    *)

LEMMA BornServing ==
    ASSUME IInv, Serving, [Next]_vars
    PROVE  Born'
<1>0. /\ Command' = Command /\ Arguments' = Arguments /\ environment' = environment
      /\ account' = account /\ op' = op /\ peer' = peer
      /\ request # Silence => request' # Silence
  BY SameWords, SameReading, ServingWhat DEF parser
<1>m. Maintenance(account)' = Maintenance(account)
  BY <1>0 DEF Maintenance
<1>s. \A env : Sanitized(env, account)' = Sanitized(env, account)
  BY <1>0 DEF Sanitized, Put
<1>r. ASSUME request # Silence
      PROVE  /\ request.kind = Command /\ request.environment = environment
             /\ request.account = account /\ request.op = op
             /\ request.arguments = Arguments
  BY <1>r DEF IInv, Carried, RequestOf
<1>n. NoChild.purpose = "none" /\ (child.purpose = "none" <=> child = NoChild)
  <2>1. NoChild.purpose = "none"
    BY DEF NoChild
  <2>2. child \in Children => child.purpose \in {"prompt", "check", "command", "maintenance"}
    BY DEF Children
  <2> QED
    BY <2>1, <2>2 DEF IInv, TypeOK
<1>w. Working => request # Silence /\ answer = "none"
  BY DEF Working
<1>b. ASSUME NEW purpose \in {"prompt", "check", "command"}, NEW arguments,
             Starts(purpose, arguments), request # Silence,
             arguments = IF purpose = "command" THEN Arguments ELSE <<>>,
             IF purpose = "prompt" THEN Command = "start" /\ peer.op = op
             ELSE Command = "exec"
      PROVE  /\ child'.purpose = purpose /\ child' # NoChild
             /\ child'.program = peer.op
             /\ child'.environment = Sanitized(environment, account)
             /\ child'.arguments = arguments
  <2>1. child'.purpose = purpose /\ child'.program = peer.op /\ child'.arguments = arguments
        /\ child'.environment = Sanitized(environment, account)
    BY <1>b, <1>r DEF Starts
  <2>2. child'.purpose # NoChild.purpose
    BY <1>n, <2>1
  <2> QED
    BY <2>1, <2>2
<1>1. CASE Decode \/ Stopped \/ Refuse \/ ServeStatus
  <2>1. child' = child /\ (answer' = answer \/ answer' \notin {"ok", "required", "exited"})
    BY <1>1 DEF Decode, Stopped, Refuse, ServeStatus, Answers
  <2> QED
    BY <1>0, <1>m, <1>s, <2>1 DEF IInv, Born
<1>2. CASE ServeStart
  <2>1. request # Silence /\ Command = "start" /\ child = NoChild /\ answer = "none"
    BY <1>2, <1>r, <1>w, <1>n DEF ServeStart
  <2>2. CASE child' = child
    <3>1. answer' \notin {"required", "exited"} /\ (answer' = "ok" => peer.op = op)
      BY <1>2, <1>r, <2>1, <2>2 DEF ServeStart, Answers
    <3> QED
      BY <1>0, <2>1, <2>2, <3>1 DEF Born
  <2>3. CASE child' # child
    <3>1. Starts("prompt", <<>>) /\ peer.op = op /\ answer' = "none"
      BY <1>2, <1>r, <2>1, <2>3 DEF ServeStart, Answers
    <3>2. /\ child'.purpose = "prompt" /\ child'.program = peer.op
          /\ child'.environment = Sanitized(environment, account)
          /\ child'.arguments = <<>>
      BY <1>b, <2>1, <3>1
    <3> QED
      BY <1>0, <1>s, <2>1, <3>1, <3>2 DEF Born
  <2> QED
    BY <2>2, <2>3
<1>3. CASE ServeExec
  <2>1. request # Silence /\ Command = "exec" /\ child = NoChild /\ answer = "none"
    BY <1>3, <1>r, <1>w, <1>n DEF ServeExec
  <2>2. CASE child' = child
    <3>1. answer' \notin {"ok", "exited"}
      BY <1>3, <2>1, <2>2 DEF ServeExec, Answers
    <3> QED
      BY <1>0, <2>1, <2>2, <3>1 DEF Born
  <2>3. CASE child' # child
    <3>1. Starts("check", <<>>) /\ answer' = "none"
      BY <1>3, <2>1, <2>3 DEF ServeExec, Answers
    <3>2. /\ child'.purpose = "check" /\ child'.program = peer.op
          /\ child'.environment = Sanitized(environment, account)
          /\ child'.arguments = <<>>
      BY <1>b, <2>1, <3>1
    <3> QED
      BY <1>0, <1>s, <2>1, <3>1, <3>2 DEF Born
  <2> QED
    BY <2>2, <2>3
<1>4. CASE ServeCommand
  <2>1. request # Silence /\ child # NoChild /\ child.purpose = "check" /\ answer = "none"
    BY <1>4, <1>w, <1>n DEF ServeCommand
  <2>2. Command = "exec"
    BY <2>1 DEF IInv, Born
  <2>3. CASE answer' # "none"
    <3>1. child' = child /\ answer' \in {"required", "error"}
      BY <1>4, <2>1, <2>3 DEF ServeCommand, Answers
    <3> QED
      BY <1>0, <1>s, <2>1, <3>1 DEF IInv, Born
  <2>4. CASE answer' = "none"
    <3>1. Starts("command", request.arguments)
      BY <1>4, <2>4 DEF ServeCommand, Answers
    <3>2. /\ child'.purpose = "command" /\ child'.program = peer.op
          /\ child'.environment = Sanitized(environment, account)
          /\ child'.arguments = Arguments
      BY <1>b, <1>r, <2>1, <2>2, <3>1
    <3> QED
      BY <1>0, <1>s, <2>1, <2>2, <2>4, <3>2 DEF Born
  <2> QED
    BY <2>3, <2>4
<1>5. CASE ChildEnds
  <2>1. /\ request # Silence /\ child' = child /\ child # NoChild
        /\ \/ child.purpose = "prompt" /\ answer' \in {"ok", "error"}
           \/ child.purpose = "command" /\ answer' \in {"exited", "error"}
    BY <1>5, <1>w, <1>n DEF ChildEnds, Answers
  <2>2. child.purpose = "prompt" => Command = "start" /\ peer.op = op
    BY <2>1 DEF IInv, Born
  <2> QED
    BY <1>0, <1>m, <1>s, <2>1, <2>2 DEF IInv, Born
<1>6. CASE Maintain
  <2>1. request # Silence /\ answer = "ok" /\ answer' = "ok"
    BY <1>6 DEF Maintain, Silence
  <2>2. Command = "start" /\ peer.op = op
    BY <2>1 DEF IInv, Born
  <2>3. /\ child'.purpose = "maintenance" /\ child'.program = peer.op
        /\ child'.environment = Sanitized(Maintenance(account), account)
        /\ child'.arguments = <<>>
    BY <1>6, <1>r, <2>1 DEF Maintain
  <2> QED
    BY <1>0, <1>m, <1>s, <2>1, <2>2, <2>3 DEF Born
<1> QED
  BY <1>1, <1>2, <1>3, <1>4, <1>5, <1>6 DEF Serving

LEMMA BornNext ==
    ASSUME IInv, [Next]_vars
    PROVE  Born'
<1>1. CASE Reading
  BY <1>1, ReadingWhat DEF Born
<1>2. CASE Absent \/ Spawn \/ Reach \/ Negotiate
  BY <1>2, ConnectingWhat DEF Born
<1>3. CASE Serving
  BY <1>3, BornServing
<1>4. CASE Ask \/ Receive \/ Fail \/ Killed \/ BrokerStarts \/ BrokerEnds \/ UNCHANGED vars
  <2>1. UNCHANGED <<peer, request, child, parser>> /\ answer' \in {answer, "none"}
    BY <1>4, AskingWhat, WorldWhat
  <2>2. /\ Command' = Command /\ Arguments' = Arguments /\ environment' = environment
        /\ account' = account /\ op' = op
    BY <2>1, SameWords, SameReading DEF parser
  <2>3. Maintenance(account)' = Maintenance(account)
    BY <2>2 DEF Maintenance
  <2>4. \A env : Sanitized(env, account)' = Sanitized(env, account)
    BY <2>2 DEF Sanitized, Put
  <2> QED
    BY <2>1, <2>2, <2>3, <2>4 DEF IInv, Born
<1> QED
  BY <1>1, <1>2, <1>3, <1>4 DEF Next, Talking

LEMMA EndedNext ==
    ASSUME IInv, [Next]_vars
    PROVE  Ended'
<1>0. Command' = Command
  BY SameWords, SameReading
<1>1. CASE Reading
  <2>1. at' = "exit" => ~Asked'
    BY <1>1, ReadingWhat DEF Asked, Asking
  <2> QED
    BY <1>1, <2>1, ReadingWhat DEF Ended
<1>2. CASE Absent \/ Spawn \/ Reach \/ Negotiate
  <2>1. at' = "exit" => ~Asked'
    BY <1>2, ConnectingWhat DEF Asked, Asking
  <2> QED
    BY <1>0, <1>2, <2>1, ConnectingWhat DEF Ended
<1>3. CASE Ask \/ Receive \/ Fail \/ Killed
  <2>1. CASE exit' \in {"none", "killed", "failed"}
    BY <2>1 DEF Ended
  <2>2. CASE exit' = Outcome /\ answer' = answer
    BY <1>0, <2>2 DEF Ended, Outcome
  <2> QED
    BY <1>3, <2>1, <2>2, AskingWhat
<1>4. CASE Serving
  <2>1. /\ Asked /\ exit' = exit /\ peer' = peer /\ (answer # "none" => answer' = answer)
    BY <1>4, ServingWhat
  <2> QED
    BY <1>0, <2>1 DEF IInv, Ended
<1>5. CASE BrokerStarts \/ BrokerEnds \/ UNCHANGED vars
  BY <1>0, <1>5, WorldWhat DEF IInv, Ended, Asked, Asking
<1> QED
  BY <1>1, <1>2, <1>3, <1>4, <1>5 DEF Next, Talking

LEMMA InvInit == Init => IInv
<1> SUFFICES ASSUME Init PROVE IInv
  OBVIOUS
<1>1. TypeOK
  BY TypeInit
<1>2. Parsed
  BY DEF Init, Parsed, Connecting, Asked, Asking
<1>3. Linked
  BY DEF Init, Linked, Early, Connecting, Asked, Asking
<1>4. Carried
  BY DEF Init, Carried
<1>5. Born
  BY DEF Init, Born
<1>6. Ended
  BY DEF Init, Ended
<1> QED
  BY <1>1, <1>2, <1>3, <1>4, <1>5, <1>6 DEF IInv

LEMMA Always == Spec => []IInv
<1>1. IInv /\ [Next]_vars => IInv'
  BY TypeNext, ParsedNext, LinkedNext, CarriedNext, BornNext, EndedNext DEF IInv
<1> QED
  BY InvInit, <1>1, PTL DEF Spec

-----------------------------------------------------------------------------
\* Every variable keeps its type, in particular what was sent is a request of
\* one of the four commands and every child has an executable.
THEOREM InvocationTypes == Spec => []TypeOK
<1>1. IInv => TypeOK
  BY DEF IInv
<1> QED
  BY Always, <1>1, PTL


\* What a broker works on is what the documented form of the command line and
\* OP_ACCOUNT mean, for every command line and all limits: HandledAsGiven.
THEOREM Handled == Spec => []HandledAsGiven
<1>1. ASSUME IInv, request # Silence
      PROVE  /\ peer.version = Mine /\ request.kind = Command /\ Known /\ Turns /\ Accepted
             /\ Resolved /\ Command \in {"status", "start", "exec"} /\ Places = HasRead
             /\ explicit \in Values /\ second \in Values
             /\ request.account = Select /\ request.op = op /\ request.arguments = Arguments
             /\ request.timeout = IF Command = "exec" /\ second # None THEN Nanos[second]
                                  ELSE Usual
  <2>1. Asked /\ Known /\ Turns /\ Accepted /\ Resolved
    BY <1>1 DEF IInv, Parsed, Asked
  <2>2. Command # "stop" /\ \E w \in BOOLEAN : request = RequestOf(w)
    BY <1>1 DEF IInv, Carried
  <2>3. peer.version = Mine
    BY <1>1, <2>1, <2>2 DEF IInv, Linked
  <2>4. Command \in {"status", "start", "exec"}
    BY <2>1, <2>2 DEF Known, Commands
  <2>5. Places = HasRead
    BY <2>1 DEF Accepted, Places, HasRead
  <2>6. /\ request.kind = Command /\ request.account = account /\ request.op = op
        /\ request.arguments = Arguments
        /\ request.timeout = IF Command = "exec" /\ second # None THEN Nanos[second]
                             ELSE Usual
    BY <2>2 DEF RequestOf
  <2>7. account = Select
    BY <2>1, <2>2 DEF Accepted
  <2> QED
    BY <1>1, <2>1, <2>3, <2>4, <2>5, <2>6, <2>7 DEF IInv, TypeOK
<1>2. ASSUME IInv, request # Silence
      PROVE  /\ Given("--account", explicit)
             /\ request.account = IF explicit \notin {None, ""} THEN explicit
                                  ELSE IF environment["OP_ACCOUNT"] = "" THEN None
                                  ELSE environment["OP_ACCOUNT"]
             /\ CASE Command = "status" -> Form({"--account"})
                  [] Command = "start" ->
                       /\ Form({"--account", "--op"}) /\ Given("--op", second)
                       /\ request.op = (IF second = None THEN InPath ELSE Canonical[second])
                       /\ request.op # Missing
                  [] Command = "exec" ->
                       /\ Form({"--account", "--timeout"}) /\ Given("--timeout", second)
                       /\ request.timeout = (IF second = None THEN Usual ELSE Nanos[second])
                       /\ request.timeout \in Shortest..Longest
                       /\ argv[Limit] = "--"
                       /\ request.arguments = SubSeq(argv, Limit + 1, Len(argv))
  <2>1. \A name, value : Given(name, value) <=> ReadIn(HasRead, name, value)
    BY <1>1, <1>2 DEF Given, ReadIn
  <2>2. Given("--account", explicit)
    BY <1>1, <1>2, <2>1 DEF Turns
  <2>3. request.account = IF explicit \notin {None, ""} THEN explicit
                          ELSE IF environment["OP_ACCOUNT"] = "" THEN None
                          ELSE environment["OP_ACCOUNT"]
    BY <1>1, <1>2 DEF Select
  <2>4. Form(Options)
    BY <1>1, <1>2 DEF Form, Turns, Accepted
  <2>5. CASE Command = "status"
    BY <2>2, <2>3, <2>4, <2>5 DEF Options
  <2>6. CASE Command = "start"
    <3>1. Given("--op", second)
      BY <1>1, <1>2, <2>1, <2>6 DEF Turns
    <3>2. request.op = (IF second = None THEN InPath ELSE Canonical[second])
          /\ request.op # Missing
      BY <1>1, <1>2, <2>6 DEF Resolved
    <3> QED
      BY <2>2, <2>3, <2>4, <2>6, <3>1, <3>2 DEF Options
  <2>7. CASE Command = "exec"
    <3>1. Given("--timeout", second)
      BY <1>1, <1>2, <2>1, <2>7 DEF Turns
    <3>2. request.timeout = (IF second = None THEN Usual ELSE Nanos[second])
      BY <1>1, <1>2, <2>7
    <3>3. request.timeout \in Shortest..Longest
      BY <1>1, <1>2, <2>7, <3>2, InvocationAssumption DEF Turns, InRange
    <3>4. argv[Limit] = "--"
      BY <1>1, <1>2, <2>7, LimitIsThere DEF IInv, TypeOK
    <3>5. request.arguments = SubSeq(argv, Limit + 1, Len(argv))
      BY <1>1, <1>2, <2>7 DEF Arguments
    <3> QED
      BY <2>2, <2>3, <2>4, <2>7, <3>1, <3>2, <3>3, <3>4, <3>5 DEF Options
  <2> QED
    BY <1>1, <1>2, <2>5, <2>6, <2>7
<1>3. IInv => HandledAsGiven
  <2> SUFFICES ASSUME IInv PROVE HandledAsGiven
    OBVIOUS
  <2>1. answer = "closed" => \E k \in Odd : environment[k] # None
    BY DEF IInv, Carried
  <2>2. CASE request = Silence
    BY <2>1, <2>2 DEF HandledAsGiven
  <2>3. CASE request # Silence
    BY <1>1, <1>2, <2>1, <2>3 DEF HandledAsGiven
  <2> QED
    BY <2>2, <2>3
<1> QED
  BY Always, <1>3, PTL

\* Every `op` that is started for a client, for a check or for the broker's own
\* check is about the account that this client selected: ChildIsOfSelection.
THEOREM Selection == Spec => []ChildIsOfSelection
<1>1. ASSUME IInv, child # NoChild
      PROVE  /\ child.environment["OP_ACCOUNT"] = account
             /\ child.environment["OP_BIOMETRIC_UNLOCK_ENABLED"] = "true"
             /\ \A k \in Keys \ {"OP_ACCOUNT", "OP_BIOMETRIC_UNLOCK_ENABLED"} :
                   child.environment[k] = IF k \in Removed THEN None
                                          ELSE IF child.purpose = "maintenance" THEN Own[k]
                                          ELSE environment[k]
  <2> DEFINE given == IF child.purpose = "maintenance" THEN Maintenance(account)
                      ELSE environment
  <2>1. child.environment = Sanitized(given, account)
    BY <1>1 DEF IInv, Born
  <2>2. {"OP_ACCOUNT", "OP_BIOMETRIC_UNLOCK_ENABLED"} \subseteq Keys
    BY InvocationAssumption
  <2>3. /\ child.environment["OP_ACCOUNT"] = account
        /\ child.environment["OP_BIOMETRIC_UNLOCK_ENABLED"] = "true"
        /\ \A k \in Keys \ {"OP_ACCOUNT", "OP_BIOMETRIC_UNLOCK_ENABLED"} :
              child.environment[k] = IF k \in Removed THEN None ELSE given[k]
    <3> HIDE DEF given
    <3> QED
      BY <2>1, <2>2 DEF Sanitized, Put
  <2>4. \A k \in Keys \ {"OP_ACCOUNT", "OP_BIOMETRIC_UNLOCK_ENABLED"} :
           given[k] = IF child.purpose = "maintenance" THEN Own[k] ELSE environment[k]
    BY DEF Maintenance
  <2> HIDE DEF given
  <2> QED
    BY <2>3, <2>4
<1>2. ASSUME IInv, child # NoChild
      PROVE  child.purpose \in {"prompt", "maintenance"} => child.program = op
  BY <1>2 DEF IInv, Born
<1>3. ASSUME IInv, child # NoChild,
             NEW i \in 1..Len(child.arguments),
             child.arguments[i] \in {"--account", "--account="}
      PROVE  \E j \in 1..(i - 1) : child.arguments[j] = "--"
  <2>1. child.arguments = Arguments
    <3>1. child.arguments \in {Arguments, <<>>}
      BY <1>3 DEF IInv, Born
    <3>2. Len(<<>>) = 0
      OBVIOUS
    <3>3. child.arguments # <<>>
      BY <1>3, <3>2
    <3> QED
      BY <3>1, <3>3
  <2>2. request # Silence /\ Command # "stop"
    BY <1>3 DEF IInv, Born, Carried
  <2>3. ~Overrides(Arguments)
    BY <1>3, <2>2 DEF IInv, Parsed, Asked, Accepted
  <2>4. PICK j \in 1..i : Arguments[j] = "--"
    BY <1>3, <2>1, <2>3 DEF Overrides
  <2>5. j # i
    BY <1>3, <2>1, <2>4
  <2> QED
    BY <2>1, <2>4, <2>5
<1>4. IInv => ChildIsOfSelection
  BY <1>1, <1>2, <1>3 DEF ChildIsOfSelection
<1> QED
  BY Always, <1>4, PTL

\* What each exit status says of what reached a broker, of what ran and of the
\* broker that served a start holds: ExitTellsTheTruth.
THEOREM Exits == Spec => []ExitTellsTheTruth
<1>1. ASSUME IInv, exit = "command"
      PROVE  child # NoChild /\ child.purpose = "command" /\ child.arguments = Arguments
  BY <1>1 DEF IInv, Ended, Born
<1>2. ASSUME IInv, exit = "ok", Command = "start"
      PROVE  peer.version = Mine /\ peer.op = op
  <2>1. request # Silence /\ peer.op = op
    BY <1>2 DEF IInv, Ended, Born
  <2>2. peer.version = Mine
    BY <1>2, <2>1 DEF IInv, Linked, Asked
  <2> QED
    BY <2>1, <2>2
<1>3. ASSUME IInv, exit = "required"
      PROVE  child = NoChild \/ child.purpose = "check"
  BY <1>3 DEF IInv, Ended, Born
<1>4. ASSUME IInv
      PROVE  /\ exit \in {"usage", "help", "incompatible", "stopped"} => request = Silence
             /\ exit \in {"usage", "help"} => peer = Nobody
  BY <1>4 DEF IInv, Ended, Asked
<1>5. IInv => ExitTellsTheTruth
  BY <1>1, <1>2, <1>3, <1>4 DEF ExitTellsTheTruth
<1> QED
  BY Always, <1>5, PTL
=============================================================================
