# Formal model of opp

`opp` runs the 1Password command line tool `op` for callers that cannot show a
prompt. `opp start` asks the user once, `opp exec` then runs `op` with that
authorization, `opp status` reports it and `opp stop` ends it. A detached
*broker* process keeps the authorization, because 1Password ties it to a
terminal session: every `op` must be a child on the broker's own PTY.

This directory holds TLA+ modules of the parts of `opp` that are hard to test,
TLC configurations that check them, and proofs that TLAPS checks. Paths such as
`broker.rs:474` are relative to `src/src/`.

    tlc -workers 2 -config Runner.cfg MCRunner.tla     # a run
    tlapm RunnerProofs.tla                             # a module of proofs

`PROJECT.json` lists every run with its module and configuration, the lines each
definition stands for, the hazards with the properties that cover them, and, for
every property, a mutation of the model that violates it.

## 1. Inventory

| Part | State | Operations | Modelled in |
|---|---|---|---|
| Executor thread (`BrokerActor`, broker.rs) | authorization records, PTY, lock, channel's receiver | run, start, status, execute, automatic check, maintenance, expiry, invalidation, drain | `BrokerActor` |
| Child runner (process.rs) | one child's group, its deadline, latched reason, foreground group | probe, run, wait loop, restore | `Runner` |
| Broker startup, accept loop, stop (broker.rs, runtime.rs) | lock, socket path, flags `shutdown`, `stop_requested`, `complete`, `socket_removed`, `stop_acknowledged`, connection counter | run_internal, accept, wind down | `Lifecycle`; the counter in `Connections` |
| start and stop clients (client.rs) | connection, startup socket | connect, spawn, connect_until, start_existing, stop | `Lifecycle`, `Connections`, `Invocation` |
| exec client (client.rs) | mask, `signal_received`, pipes, three threads | execute | `ExecClient`; before the request `Invocation` |
| status client (client.rs, status.rs) | connection | status | `Invocation` |
| Connection handler and monitor threads (broker.rs) | a slot, `RequestControl` | handle_connection, submit, submit_with_monitor, stop handshake | `Connections`; `BrokerActor`, `ExecClient`, `Lifecycle` |
| Control protocol (protocol.rs) | none | frames, preambles, requests and their limits | `ExecClient` (frames), `Invocation` (versions, limits) |
| Command line (cli.rs) | the parser's loops | parse_start, parse_status, parse_stop, parse_exec, exit statuses | `Invocation` |
| Environment and account selector (environment.rs, account.rs) | none | select, sanitized, maintenance | `Invocation` |
| Terminal, spawn, peer check (darwin.rs) | PTY | openpty, tcsetpgrp, posix_spawn | through their use in `Runner` |
| Runtime paths (runtime.rs) | directory, lock file, socket | acquire_lock, remove_stale_socket | `Lifecycle` (without owner and mode checks) |
| Clock (clock.rs) | none | now, saturating sums | as `now` with `Tick` |
| entry points; scripts; tests | none or sequential | | not modelled, see section 7 |

How they interact:

- Clients talk to handler threads over a Unix socket: a preamble, one request
  and one response; `start` may need a second round (`NeedWarning`), and an
  `exec` sends event frames (`Cancel`, `StreamsClosed`) beside its request.
- A handler submits a request through a bounded channel and waits for the
  answer; a monitor thread of the same connection writes the request's
  `RequestControl` (cancelled, signal, streams closed), which the executor and
  the runner read.
- The executor takes one request at a time and runs, for each, a check
  (`whoami`, `vault list`) and the command through the runner, one child at a
  time, which is the foreground group of the PTY.
- The main thread, the executor and the handler of a stop wait for each other
  through three flags at the end of a broker.
- Brokers meet in the lock file and at the path of the socket.
- A client and a broker may come from different releases: they compare protocol
  versions before a request, and a start also compares the executable of `op`.

What is hard: every piece of state above is read by one thread while another may
change it, and several are read again later in the same turn (the clock,
`shutdown`, `cancelled`). Children ignore signals, leave their group and keep
pipes open. Brokers and clients can die anywhere. PROJECT.json names the line of
each hazard. What makes each part correct:

- **Executor.** No request lost or run twice; nothing follows a child that was
  cancelled or overtaken by shutdown; a command only after a check that passed
  and a look at the grant behind it, and next to nothing behind its hard limit;
  one failed check revokes all; a hard limit that nothing moves; stop completes;
  requests are answered.
- **Runner.** A terminated child leaves nothing of its group; an exit is
  reported in time and behind the output; the terminal comes back behind a run
  without an error; shutdown always ends a run.
- **Lifecycle.** One executor at a time; a stop that exits 0 left nothing
  serving; startup removes only stale sockets; nobody waits for ever.
- **Connections.** The counter of slots is that of the handlers, on every early
  return; slots come back when clients go; the channel has room; `op` prompts only
  behind a warning; a stop needs no client.
- **Invocation.** What a broker works on is what the command line means; every child
  is about the account that was selected; the exit status tells what happened.
- **exec client.** Frames reach the monitor whole; `StreamsClosed` and the exit
  status come behind the last byte; `128 + n` names the right signal; the client
  ends.

## 2. Modules

    AuthorizationContract    what is promised about authorization
    RunContract              what a run promises the executor
    RequestContract          what the executor promises a connection
    ChannelContract          what becomes of the messages to the executor

    BrokerActor              executor thread; BrokerActorProofs
    BrokerActorRefinement    its mappings to all four contracts;
                             BrokerActorRefinementProofs, BrokerActorRequestProofs
    Runner                   one child and its wait loop
    RunnerRefinement         its mapping to RunContract; RunnerProofs for both
    ExecClient               one exec, both ends of its connection
    ExecClientRefinement     its mapping to RequestContract; ExecClientProofs for both
    Lifecycle                brokers, start, stop, lock, socket; LifecycleProofs
    Connections              slots, handlers, monitors, channel
    ConnectionsRefinement    its mapping to ChannelContract; ConnectionsProofs for both
    Invocation               one `opp`, from words to exit status; InvocationProofs

A `...Refinement` module extends the detailed module and instantiates the contracts.

`MC...` modules declare the model values of small instances. The models overlap
at their seams, and each says at the seam what another one shows:

| Where | What is taken for granted | Shown as |
|---|---|---|
| BrokerActor | a child does what RunContract says of it, no less and no more | Runner's `RunKeepsContract`; `ChildrenKeepContract` and the theorem ChildrenAreContract |
| BrokerActor | the channel is never full | Connections' `RoomInChannel` |
| Lifecycle | the executor answers or stops | BrokerActor's `StopCompletes` |
| Connections | the executor does to its messages what ChannelContract says, no less and no more | BrokerActor's `QueueKeepsContract`; `ChannelKeepsContract` and the theorem ServesAllMessages |
| Connections | the executor comes to an end with each request | BrokerActor's `EveryRequestSettles` |
| ExecClient | the executor does to its request what RequestContract says, no less and no more | BrokerActor's `RequestsKeepContract`; `RequestKeepsContract` and the theorem ServesAllRequests |
| ExecClient | a command with a reason ends | Runner's `OnlyOutputDelays` |
| ExecClient | the request that was sent is the one that is served | Invocation's `HandledAsGiven` |

### BrokerActor

`pc` is the place of the executor thread; `frame` holds the locals of `handle` or
`maintain`; `queue` is the channel; `request` and `control` belong to a
connection; `records` is the map of `AuthorizationRecord`s; `late` and
`frame.stale` count children started although shutdown was requested, or the
request cancelled; `frame.under` and `frame.clear` are histories of the child in
progress: the reasons to terminate it that held as it started, and whether it ended
by itself while none held.

| Code | Actions |
|---|---|
| `run`'s loop (467-503) | LeaveLoop, EnterLoop (with `expire_records`), TakeRequest, TakeStop, AwaitMessage, WaitTimesOut, Maintain, Drain, SetComplete, DropReceiver |
| `handle`, `start` | HandleCancelled, HandleStart, BeginExplicit, AfterExplicit |
| `status` | HandleStatus |
| `execute`, `automatic_check`, `classify_check`, `maintain` | HandleExec, AfterWhoami, AfterVault, CheckFails, CheckEnds, Recheck (the look behind the check, 655-662), AfterCommand |
| the clock for a child's deadline (569, 665, 710) | SetDeadline, reached by GoOn with the child that is next |
| `Runner::probe` / `run` as seen by them | Launch or LaunchFails, Latch, ChildExits, ChildEnds, ChildTerminated |
| accept, handlers, monitors | Connect, HangUp, Submit, CancelBySignal, Disconnect, RequestStop, SendStop |

Each reading of the clock in the code is a step of its own, and `Tick` may come
between any two: the look at the records (EnterLoop, HandleExec, Recheck), the choice
of a due account (Maintain), the reading for a deadline (SetDeadline) and the start of
the child (Launch) are four steps at the places `deadline`, `spawn` and `recheck`. The
one exception is in the code, too: the hard limit of a new grant and the deadline of
its probe come from one reading (568). `behind` counts, per account, the children that
were started for its grant once the hard limit had passed. `answer` holds, per connection,
the answer that its last request got in this turn of the thread, for properties about
answers; a dropped response sender is the answer `dropped`.

Abstractions: the channel is never full (Connections); a disconnected channel is not
reachable while the accept loop holds a sender; only exec clients send `Cancel`.

### Runner

One child, `Leader`, and the processes it may start. `wait_inner` is taken apart into
single looks: Reap (`waitpid`), LookAtShutdown, LookAtControl, LookAtDeadline, Terminate
(`SIGTERM`), Escalate (`SIGKILL` after the grace), Streams, Group (`kill(-pid, 0)`,
which may fail), then Restore; Abort and Await are the way out after an error. Spawn,
Foreground and Continue start the child suspended, make it the foreground group and let
it go. Around it processes fork, leave the group, close their output and exit; the
client cancels, disconnects or fails to copy; shutdown may be requested between any two
looks. `startedUnder` and `endedUnder` are histories: the reasons to terminate the child
that held at its spawn and at its end. `use` tells a probe (drained by threads of its
own) from a run (copied by the client).

Abstractions: both output pipes are one; `op` itself stays in its group; a
descendant that exits is gone at once; group numbers are not reused; a failing
system call is a free choice of the step that makes it.

### RunContract

The seam between the two: one run after another, each with the reasons that are
`due`, those it started `under`, whether the child ended while all was `clear`, the
`latch`ed reason and the `outcome`. Reasons stay once they came. One is latched for
good, unless a reason that a poll looks at before it was there from the start; a
reason that comes *between two looks of one poll* may be overtaken by a lower one.
A run reports an exit of the child only if it happened while there was no reason at
all. Runner refines the contract with one run; BrokerActor refines it with the
sequence of its children, whose steps (Exit, Latch, Return) are exactly those of the
contract, so that it reckons with all that a run of Runner can do, and with nothing
that it cannot.

### RequestContract

The seam between the executor and a connection: one request after another, with its
`control`, how far it got (`stage`) and its `reply`. A request in the queue may be
refused, drained or dropped; one that has `begun` may run its command; a run is `clear`
(the command ended while nobody had asked for that), `expired`, `doomed` or `failed`, and
each of these has its answers. A cancelled request does not begin. An exit status
is the answer of a `clear` run only, a cancellation that of a cancelled request, a
dropped one that of a broker under shutdown. BrokerActor refines the contract once for
each connection, and ExecClient with its one request.

### ChannelContract

The seam between the executor and all of its senders: the `channel`, the requests that
are `open` (sent and not answered), the one that is `taken`, and where the `executor`
is. A request is sent once until it is answered, and Stop is sent behind the flag
only. The executor looks at the flag once per turn; a look that finds it, or a Stop,
leads to the drain, and nothing is taken any more. What arrives behind the drain is
settled when the receiver goes. BrokerActor refines it with its queue (a check for
maintenance is a rest of the loop), Connections with its channel and the executor in
short. `needWarning`, prompts and answers are not the contract's: OnlyChannelSteps says
which of them go with which step.

### Lifecycle

Any number of `start` and `stop` processes, and a broker for each start that spawns one.
Main thread: Lock, StatStale, RemoveStale, Bind, SpawnActor, Ready, Check, Accept (or
refuse: all slots are held), Unlink, AwaitComplete, AwaitAcknowledged, Join. Executor:
Drain, SetComplete, DropLock. Handler: PeerGone, Negotiate, Respond, RequestStop,
RequestShutdown, ReplyStop. Clients: Start, SpawnBroker, ReadStartup, ConnectUntil,
TimeOut, Proceed, Finish; Stop. `Die` ends a broker anywhere, and stands for a kill and
for errors of system calls; `Leave` ends a client. A process that ends releases its
lock, listener and threads at once; the socket's path stays. `conn` is the broker whose
*listener* a client reached, so that removing a path does not cut connections that
exist.

Abstractions: a request is one submission that is answered ok or error; all brokers are
of one version (Invocation has others); whether a connection finds a slot is open, and
how slots are counted is Connections' matter; connect_until gives up only when nobody
can be reached (whether five seconds are enough is not a question of this model).

### Connections

One serving broker and the connections to it. `slots` is `active_connections`,
`hand` the place of each handler thread, `monitor` says which monitor threads run,
`channel` holds messages named by their senders.

| Code | Actions |
|---|---|
| accept loop and end of run_internal_result (200-252) | Check, Accept, Reject (the loop counts first and looks then), AcceptNothing, AcceptFails, Fail, Unlink, AwaitComplete, AwaitAcknowledged, Join |
| `handle_connection` (288-334) | ReadPreamble, ReadRequest, ReadWarned, ReplyStop; Release is the end of the thread's closure, behind every return |
| `submit_without_monitor`, `submit_with_monitor`, `submit` | Submit, Reply, SendStop, MonitorEnds |
| `BrokerActor::run` in short | Look, Receive, Execute, Drain, DropReceiver |
| clients | Connect, ShowWarning, Leave |

A rejected connection is counted between Accept and Reject, so that the counter is
more than the handlers there; a handler and the accept loop may interleave at that
point. `prompted` remembers for which starts `op` may have prompted, `shown` which
clients wrote the warning.

Abstractions: each client connects once; a client with no thread that could notice
does not leave (nothing depends on it); another reason to end a handler early (a
peer of another user, a preamble of another version, an invalid request) is a free
choice of the step that reads.

### ExecClient

One `opp exec` from the moment its request was sent. Client: Block (where the stream
cannot be cloned, or any thread not be started), Copy, CopyFails, CloseStreams, Receive,
Restore; signal thread: TakeSignal, SendHeader, SendPayload under the writer's mutex.
Monitor: MonitorStreams, MonitorCancel, MonitorEnds. Executor in short, as
RequestContract has it: PickUp, Drain, Refuse, StartCommand, CommandEnds, Latch,
RunFails, Answer. A command is `running`, `ended` by itself before anybody asked for its
end, or `cut` behind that. The pipes' write ends are in two places: `kept` by the
broker's request and `held` by the command's family. Signals arrive one by one and are
blocked or deadly, SIGKILL is always deadly, the broker may die.

Abstractions: standard input (a detached thread) and failures before the request are
left out (the latter are Invocation's); a write is one piece; the request that gets no
answer leaves the connection open until the broker's process ends, as its monitor holds
a clone.

### Invocation

One `opp` process and the brokers it may meet. `at` is the place in the client;
`index`, `explicit`, `second`, `account` and `op` are the locals of the parser;
`wire` is what was sent and `request` what the broker decoded; `child` is the last
`op` that it started for this client.

| Code | Actions |
|---|---|
| cli.rs: run_command, parse_start, parse_status, parse_stop, parse_exec | Parse, then TakeAccount, TakeSecond or RefuseOption for each turn of a loop, Accept |
| client.rs: resolve_op | Resolve |
| client.rs: connect, spawn_broker, connect_until, start, start_existing, status, stop, execute | Absent, Spawn, Reach, Negotiate, Ask, Receive, Fail; Killed |
| protocol.rs: receive_request, Decoder::context | Decode |
| broker.rs: start, status, execute, maintain, as far as a request's data goes | ServeStart, ServeStatus, ServeExec, ServeCommand, ChildEnds, Maintain, Refuse, Stopped |
| environment.rs: sanitized, maintenance; account.rs: select | Sanitized, Maintenance, Select |

Words are members of a set, with a size, a duration and a canonical path each; the
set of command lines is a constant. A broker may end and another one, of another
version or with another executable, take its place between any two steps.

Abstractions: the options of a command are read by one pair of actions, as the
loops of cli.rs differ only in names; `"--account="` stands for all words that begin
so; whether an account is authorized is open; a variable is there at most once. The
codec compares with limits of its own, `WireArguments`, `WireBytes`, `WireShortest` and
`WireLongest`, so that a slip in one of the two copies shows (`ValidBelow`). Exit 1 and
125 are both `failed`, and an exit, a signal and a time-out of the command are
`command`; which number a cancelled request ends with is ExecClient's.

### AuthorizationContract

The promise of SPEC.md about authorization, without channels, connections,
replies, shutdown or processes: `grant` per account and one `activity` at a time.
The refinement maps an active record to its grant and the place of the thread to
the activity. It is where *one at a time*, *a command only after both checks and a look
at the grant behind them*, *revoke all* and *a check that was asked to end revokes
nothing* are stated together. It does not say that the grant still lasts as a child
starts, as the code does not keep that (section 4).

## 3. Runs

Deadlock is not checked in any run: these systems stop by design (after
shutdown, when every client is done, or at the bound of the clock).

| Run | Shows | States |
|---|---|---|
| actor_safety | two connections, two accounts, clock: PendingInOnePlace, AtMostOneLateChild (of shutdown and of a cancelled request), FailedCheckRevokesAll, HardLimitNeverMoves, and the refinement ContractHolds | 1.28 million (symmetry) |
| actor_ends | two connections, one account: FewChildrenBehindLimit, ActiveAnswersAreCurrent, the refinements ChildrenKeepContract, RequestsKeepContract and QueueKeepsContract, StopCompletes with a clock, children and clients that owe nothing, EveryRequestSettles when the clock runs | 0.43 million |
| actor_hard_limit | *violated*: NothingStartsAfterHardLimit | |
| runner | GroupEnds, NaturalExitIsTrue (an exit that is reported happened while nothing asked for the end of the child, and lies behind the output), ForegroundReturned, the refinement RunKeepsContract, ShutdownEndsRun, OnlyOutputDelays | 0.98 million |
| runner_output | *violated*: NaturalExitAfterStreams | |
| runner_limit | *violated*: ProbeEnds | |
| lifecycle | OneExecutor, StoppedIsDown, LoneStopSucceeds, OnlyStaleRemoved with two starts, two stops and a fault | 2.7 million (symmetry) |
| lifecycle_ends | BrokerStops, ClientsFinish with two starts, a stop and a fault | 0.32 million |
| lifecycle_socket | *violated*: ServingBrokerIsReachable | |
| exec_client | FramesWhole, StreamsClosedIsTrue, OutputBeforeStatus, StatusNamesSignal, SignalEndsClient, EndOfCommandEndsClient, and the refinement RequestKeepsContract | 0.74 million |
| connections | SlotsAreHandlers, RoomInChannel, WarnedBeforePrompt, the refinement ChannelKeepsContract, SlotsComeBack, StopNeedsNoClient with a start, an exec and a stop on two slots | 0.85 million |
| invocation | HandledAsGiven, ChildIsOfSelection, ExitTellsTheTruth for all orders of up to four words, five environments, brokers of two versions and two executables | 1.35 million |

Each run takes about a minute or less on two cores. The type invariants are in no
run: they are proved.

Liveness is stated as `[]<>(P => Q)`, or as a fairness that implies it: a moment
without an unmet duty comes again and again. TLC checks that form much faster than
`P ~> Q`. P is never undone in these systems (a flag that is set, a signal that was
taken, a client that left), so that it says the same. That is proved, too: StopLasts
(BrokerActorProofs, ConnectionsProofs, LifecycleProofs), BeginningLasts, ReasonsLast
and EndsLast are equivalences, LeavingLasts derives the leads-to formula of each
connection. For EveryRequestSettles both forms are the same by temporal logic alone.

### Bounds and why they are enough

- *Two connections, two accounts* (actor_safety): a request in progress, one behind
  it and maintenance of the other account already give every interleaving of two
  actors; revoke-all and AuthorizationContract need a second account. actor_ends
  has one account: none of its properties relates accounts.
- *HardLimit = 2, other times = 1, MaxTime = 1* (actor_safety): a check or command
  may start before the hard limit and end behind it, a check falls due inside a grant,
  and every timeout can expire. MaxTime bounds the waiting only: the clock goes on for
  a child up to its deadline, also past MaxTime, so that a grant runs out while
  children run, and the bound never keeps a deadline from passing. actor_ends has
  *HardLimit = 1*, so that the limit can also pass between two steps with no child,
  which ActiveAnswersAreCurrent and FewChildrenBehindLimit are about.
- *One descendant* (Runner): one process that leaves the group, or ignores
  SIGTERM inside it, or holds the pipe, is what distinguishes the outcomes. Proofs
  cover any number.
- *Two starts, two stops, one fault* (Lifecycle): two brokers compete for lock and
  path while one of them winds down; two stops race on one broker. A fault is a
  broker's death, a client that leaves or a connection that finds every slot held.
  Liveness has one stop, for its cost.
- *Two signals, two pipes, one write to each* (ExecClient): a second signal behind
  the first, one output that ends before the other or fails.

- *Three connections on two slots* (Connections): one more than there is room for, so
  that a connection is rejected, the slots are all held while a stop comes, and a slot
  is used again while the monitor of its first handler lives. One of each kind is
  enough for every path of a handler; the proofs cover any number of both.
- *Up to four words behind start and exec, three behind status* (Invocation): two
  options with their values in both orders, an option twice, one without a value, and
  a fifth word in chosen lines. Words that `op` sees are enumerated up to three, with
  two arguments and three bytes as limits, so that each limit is met, kept and passed.
  One change of the broker is one restart between any two steps of one client.

Symmetry is used only in safety runs.

### Fairness

- StopCompletes (under `StopFairness`) assumes the executor thread runs, a poll of the
  wait loop comes, a stop that began sends its message, and under shutdown a terminated
  child ends (SIGKILL; its streams are not waited for). Nothing is assumed of deadlines,
  clients, or children by themselves. EveryRequestSettles (under `Fairness`) adds a
  running clock and that a terminated child ends, which Runner shows to hold unless
  somebody outside the group keeps a pipe open.
- Runner assumes its thread, the probe's drain threads and the clock, and that SIGKILL
  kills.
- Lifecycle assumes every thread of a living process goes on and every client that began
  goes on; nobody has to begin, to leave or to die.
- Connections assumes that the accept loop, the executor and the handlers go on, and
  that a read ends when the client is gone; a client need not send anything or leave.
- ExecClient assumes the threads of both processes, a reader of the client's own output,
  that a command with a latched reason ends, and that a broker under shutdown goes away
  (BrokerStops).

All are weak fairness of actions that a thread does unconditionally when it can.

## 4. Where code and documents disagree

- **actor_hard_limit.** SPEC.md:217 says no later check or command starts for an
  account whose hard limit has passed. The loop expires records once per turn (474); the
  clock may pass the limit before `due_maintenance` (799) picks the account, between
  `whoami` and `vault list` (723), and between any look of `execute` (630, 655) and the
  start it is for (713, 672), with the reading for the deadline (710, 665) in between. So
  a check may start behind the limit, and so may a command. What the code keeps of
  the sentence is FewChildrenBehindLimit, which is proved: the two commands of one check,
  or one command, and then nothing until the account is authorized again.
- **runner_output.** SPEC.md:233 says a natural exit is reported only after the
  output pipes close. `wait_inner` reads `shutdown` at process.rs:217 and again at
  234; set in between, the run returns a natural exit with open pipes.
- **runner_limit.** SPEC.md:206 gives a check one five-second limit. A process that
  left the group and keeps an output pipe open holds a terminated probe, and the
  executor with it, for as long as it lives (process.rs:234).
- **lifecycle_socket.** The executor drops the lock at its end (by value, behind
  broker.rs:502), the main thread removes the socket by name at 244. A broker that
  takes over in between loses its socket to the old one: it serves where nobody
  finds it and keeps the lock. `OnlyStaleRemoved` shows that startup does not have
  this problem.

Seen while modelling and not a run: of two stops at once the second may exit 1,
since main waits for one acknowledgement only; `LoneStopSucceeds` states what is
true. A stop may be acknowledged an instant before the lock is dropped. A stop is a
connection like any other: while all 64 slots are held it is dropped (broker.rs:205-209),
and exits 1; LoneStopSucceeds names this reason, and StopNeedsNoClient is about a stop
that was accepted. A variable whose name begins with
`=` is captured by the client and refused by `Decoder::context`, so that start and exec
fail with a communication error in such an environment; HandledAsGiven states that this
is the only case in which the broker refuses what the parser accepted. And SPEC.md:66
wants a client that meets an incompatible broker to say so; behind a spawn, start says
that the broker failed to become ready instead (client.rs:54-57).

## 5. Proofs

| Module | Theorems |
|---|---|
| BrokerActorProofs | TypeCorrect, LateChildren, NoRequestLost, FewBehindLimit, HardLimitIsFixed, FailureRevokesAll, AnswersAreCurrent; StopLasts |
| BrokerActorRefinementProofs | Implements: `Spec => ContractHolds`; KeepsRunContract: `Spec => ChildrenKeepContract`; ChildrenAreContract |
| BrokerActorRequestProofs | KeepsRequestContract: `Spec => RequestsKeepContract`; KeepsChannelContract: `Spec => QueueKeepsContract` |
| RunnerProofs | RunnerTypes, GroupsEnd, NaturalExits, ForegroundIsReturned; RunsKeepContract: `Spec => RunKeepsContract`; ReasonsLast |
| LifecycleProofs | LifecycleTypes, OneExecutorAtATime, StaleRemoved, StopsTakeDown, LoneStops; StopLasts, BeginningLasts |
| ConnectionsProofs | ConnectionTypes, Slots, Room, Warned; ChannelContractKept: `Spec => ChannelKeepsContract`; ServesAllMessages; LeavingLasts, StopLasts |
| ExecClientProofs | ExecTypes, WholeFrames, StreamsClosed, OutputFirst, SignalNamed; RequestIsServed: `Spec => RequestKeepsContract`; ServesAllRequests; EndsLast |
| InvocationProofs | InvocationTypes, Handled, Selection, Exits |

They hold for any sets of connections, accounts, descendants, starts and stops, any
times, any number of slots and of faults, any command lines, environments and limits.
Together they state every safety property that the passing runs check. The assumptions
are the named ASSUMEs of the modules: names that are not connections
(`NamesAssumption`), positive times, which the code's constants and `test_duration`
ensure (`TimingAssumption`, `RunnerAssumption`), and starts that are no stops
(`LifecycleAssumption`), finitely many connections and at least one slot
(`ConnectionsAssumption`), and the words and variables that the code names among those
of the constants, with a usual time-out inside its limits (`InvocationAssumption`), and
limits of the codec that are not narrower than the parser's (`WireAssumption`; the
code's are equal).

**Executor.** *At most one late child* is not inductive: nothing in it says that the
late child ends the loop. `Inductive` adds it: a child started under shutdown is
`Doomed`: `shutdown` is among the reasons it started `under`, so that it can only end as
`shutdown` or with an error, and after that the thread is at the top of its loop and
leaves it. The same with `cancelled` for a stale child. It rests on what RunContract
says a poll looks at before it reports an exit. *PendingInOnePlace* needs types,
`Inductive` (a frame is idle unless a request is in progress) and `FrameMatchesRequest`;
the work is in the lemmas about the queue, that an append of a connection that is not
queued, and a tail, keep every connection queued at most once. *HardLimitIsFixed* needs
`ExplicitProbe`: while the explicit probe runs its account has no grant and the deadline
of the frame is `ExplicitTimeout` behind the start. *FewBehindLimit* needs
`LimitInductive`: while a check or a command is prepared or runs its account's record is
active (`Admitted`), and an active record with something started behind its limit
belongs to the frame in progress, or the thread is at the top of its loop, about to look
or to leave (`BehindLimit`): a second look finds the limit passed, as the clock does not
go back. `FailedCheckRevokesAll` follows from the few actions that can do it. All
inductive invariants were checked by TLC on the instances of the runs first.

**Refinement of AuthorizationContract.** `Grounded` says that a hard limit of an active
record, and of the one to come, is not 0, since 0 stands for *no grant* in the contract.
Then every action maps to one action of the contract or to a stutter, one lemma per part
of Next.

**The seam between executor and runner.** `RunContract` is refined from both sides.
*RunsKeepContract* is Runner's half: the reasons of the contract are read off flags that
others write, so the proof is that each of them stays, that a poll looks at the reasons
in the order of the contract, and that an exit the loop reports late was an exit while
nothing was due. *KeepsRunContract* is the executor's: children come one at a time, a
child's deadline is fixed by its start, and neither the flag nor the controls take a
reason back while the child runs, which needs that a cancelled control stays cancelled
(`CancelStays`) and that only a connection that is closed and has no request in progress
gets a new one. *ChildrenAreContract* says, for every state that meets the types, that a
step of the child in BrokerActor is a step of the contract's child and the other way
round. The second direction matters most: were the executor's picture of its children
narrower than the contract, all that is proved of it would be about a kinder runner. It
was narrower once: `Latch` took the highest reason at one instant, while a wait loop
that has passed `shutdown` may still latch `cancelled` (process.rs:221 and below).

**The seam between executor and connections.** `RequestContract` is refined from both
sides, too. *KeepsRequestContract* is the executor's half, for every connection at once:
most actions serve one connection and leave the others where they are, so each part of
Next has a lemma for the served one and shares one for those aside. It needs three facts
beside the earlier invariants: a control says something only of a request that is
waiting, and `Cancel` comes from an exec (`Controlled`); the places of the thread belong
to kinds of requests (`Kinded`); and a latched reason, or the drain, has its cause
(`Caused`). *RequestIsServed* is the client's half and needs `Reasoned`, the same about
`reason`. *ServesAllRequests* is the other direction: whatever the contract lets the
executor do, ExecClient reckons with; only the wait for the end of command and output,
Runner's matter, is more than the contract asks. It did not hold at first. The exec
client had no error behind the start of a command (process.rs:98), no refusal by a
loop that looked at the flag before it was set, and reported the exit of a command
although the request was cancelled before that exit, which BrokerActor and Runner rule
out.

**The seam between executor and channel.** `ChannelContract` is the third that is
refined from both sides. *KeepsChannelContract* is the executor's half. The contract
lets a Stop into the channel behind the flag only, since it takes a Stop for a reason to
drain; `Told` says so of whoever sends it. The rest is the earlier invariants of queue
and frame (a request that is taken is open and in the channel no more), once per part of
Next. *ChannelContractKept* is the half of Connections, where open requests are handlers
that wait without an answer. It needs `Flagged`: before the flag is set nobody has said
Stop or is about to, and the executor has not left its loop. *ServesAllMessages* is the
converse, as for the other two seams: each step of an executor that the contract allows,
with answers that fit it, is a step of the executor of Connections, in every state of
the invariant. So the bound of the channel, the slots and the prompts are proved for all
that the executor may do, not for a kinder one.

**Runner.** The invariant `IInv` has one conjunct per question: `Unborn` (before
the spawn there is nobody), `Places` (what holds where, about the group and
`termination`), `Looked` (past each look, a reason that held at the start has been
latched: reasons never go away again), `Ended` (past each look, a reason that held when
the child *ended* has been latched, if its status is known), `Output` and
`ForegroundReturned`. `Ended` is the subtle part: it holds because the loop reaps *before*
it looks at shutdown, control and clock, so that each of these looks is younger than
the end of the child.

**Lifecycle.** `Locked` says where a broker holds the lock and that its executor
ends before its main thread only behind the flag; OneExecutor and OnlyStaleRemoved
follow. `Bound` says which brokers the path and a connection can stand for: only
ones that got past bind, and behind remove_file the path is not the broker's own.
`Waited` says, per stop, that `ok` means its broker is `Down`, which is stable.
`Asked` keeps the reason for an end: every flag of a broker goes back to a stop that
got at least as far as the flag, and a broker that is gone has failed, lost the race
for the lock, or acknowledged. So a stop that finds its connection closed was refused,
or finds another stop, or a failure (LoneStops).

**Connections.** That the counter is the number of handlers is inductive by itself;
that the channel has room is not. `Queue` says who has a message there: a connection at
most once, a request only while its handler waits, a stop only while its handler has not
replied, as long as anybody can connect. So every message belongs to a handler or to a
stop whose place nobody takes any more, and `Crowd` bounds handlers and senders together
by the slots: a handler that is about to send is itself not among the senders. `Warnings`
carries a warning from the client through `warned` to the prompt.

**exec client.** `Frames` describes the queue of events: a header is followed by its
payload, or it is the last one and the signal thread is about to send the payload. It
holds because CloseStreams and the signal thread exclude each other. `Named` says that
queue, control, reason and answer all carry the one signal that was taken, and that the
monitor of a living client has not ended; `Joined` that StreamsClosed is only behind the
ends of both copying threads; `Replied` that an answer comes from a command that is over.

**Invocation.** `Parsed` is the invariant of the parser's loop: the words in front of
`index` are options of the command with their values, and a local holds what stood behind
an option that was there once; with `index = Limit` it becomes the documented form of
HandledAsGiven. `Carried` says that wire and request are the request of this command line
in one of the two rounds; `Born` ties each child to that request and each answer to the
children it lets through; `Ended` an exit to its answer.

What is only model-checked: that the liveness properties hold, as liveness under fairness
is out of the prover's reach; what is proved of them is their form (section 3).

## 6. Plan

Order: by how much of the system's behaviour rests on the part.

1. BrokerActor, its contract and proofs; Runner and proofs; Lifecycle and proofs;
   ExecClient. *Done.*
2. Connections and its proofs, with the bound of the channel that BrokerActor takes for
   granted; Invocation and its proofs, with the limits, the scan for `--account` and the
   child's environment; the proofs of ExecClient. *Done.*

3. RunContract, refined by Runner and by the executor's picture of its children. *Done.*
4. RequestContract, the same for the next seam: one request from its submission to its
   answer, kept by BrokerActor for each connection, and by ExecClient. *Done.*
5. ChannelContract, the rest of that seam: the executor half of Connections, which says
   less of a request (it comes to an end) and more of the channel. *Done.*

What could follow beyond that needs a change of the abstractions of section 2: the two
output pipes of Runner apart, and a Lifecycle whose brokers are of several versions.

## 7. Not modelled

- **Entry points**: a call.
- **Encoding of fields, NUL checks, SCM_RIGHTS** (protocol.rs): pure conversions and one
  system call; what they refuse is a free reason of a handler to end.
- **parse_duration's arithmetic, help texts, JSON, a standard output that cannot be
  written** (cli.rs, status.rs): a duration is a constant function of its word; the rest
  is formatting.
- **A variable that is there twice** (environment.rs): `set` and `remove` treat all
  copies of a name alike.
- **Peer credentials, owner and mode checks, posix_spawn attributes, the PTY's drain
  thread** (darwin.rs, runtime.rs): system calls without protocol state.
- **Standard input of an exec**: copied by a detached thread that nobody waits for.
- **When maintenance comes under steady load** (broker.rs:479): neither code nor SPEC.md
  promises a time other than the hard limit.
- **Reuse of process and group numbers**: the kernel's; a model with identities cannot
  state it.
- **Saturation of the clock at 2^64 ns** (584 years) and its fallback 0.
- **Installer and packaging scripts, tests**: sequential, or not part of the program.
