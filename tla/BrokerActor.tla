------------------------------ MODULE BrokerActor ------------------------------
(***************************************************************************)
(* The executor thread of the broker (src/src/broker.rs, BrokerActor::run  *)
(* and everything it calls) with the connections that submit requests to   *)
(* it.  One thread takes requests from a FIFO channel and runs, for each,  *)
(* the authorization checks and the requested command as child processes.  *)
(*                                                                         *)
(* A child is seen through what RunContract says of Runner::probe and      *)
(* Runner::run: a reason to terminate it is latched, or it ended by itself *)
(* while there was none.  The clock may advance between any two steps, and *)
(* no step reads it for two purposes that the code reads it twice for: the *)
(* expiry of the records, the deadline of a child and the child's start    *)
(* are steps of their own.                                                 *)
(***************************************************************************)
EXTENDS Naturals, Sequences

CONSTANTS
    Accounts,            \* account selectors, the absent one included
    Clients,             \* connections that may have a request outstanding
    Stop,                \* ActorMessage::Stop
    NoClient,            \* a maintenance check serves no connection
    HardLimit,           \* 12 h
    MaintenanceInterval, \* 5 min
    CheckTimeout,        \* 5 s, shared by whoami and vault list
    ExplicitTimeout,     \* 120 s
    CommandTimeout,      \* --timeout of exec
    MaxTime              \* bound: no connection is accepted from this time on

ASSUME NamesAssumption == Stop \notin Clients /\ NoClient \notin Clients

\* A test-support override must be positive as well (test_duration).
ASSUME TimingAssumption ==
    /\ HardLimit \in Nat \ {0}
    /\ MaintenanceInterval \in Nat \ {0}
    /\ CheckTimeout \in Nat \ {0}
    /\ ExplicitTimeout \in Nat \ {0}
    /\ CommandTimeout \in Nat \ {0}
    /\ MaxTime \in Nat

VARIABLES
    now,       \* the monotonic clock
    queue,     \* the bounded channel: clients' requests and Stop messages
    request,   \* per connection, the request it has submitted
    control,   \* per connection, its RequestControl
    answer,    \* per connection, the response that the last step to answer
               \* any sent to it in this turn of the loop ("dropped": its
               \* channel was closed), history only
    records,   \* per account, the AuthorizationRecord
    shutdown,  \* the flag shared with the accept loop and the runner
    stopper,   \* the connection that serves `opp stop`
    pc,        \* where the actor thread is
    frame,     \* the locals of the request or maintenance check in progress
    late,      \* history: children started although shutdown was already set
    behind     \* history, per account: children started for its grant once
               \* that grant's hard limit had passed

vars == <<now, queue, request, control, answer, records, shutdown, stopper,
          pc, frame, late, behind>>

-----------------------------------------------------------------------------
Required == [active |-> FALSE, hard |-> 0, probe |-> 0]
Active(hard, probe) == [active |-> TRUE, hard |-> hard, probe |-> probe]
Record == [active: BOOLEAN, hard: Nat, probe: Nat]

\* "start" has warning_shown = false, "warnedStart" has it true.
Kinds == {"start", "warnedStart", "status", "exec"}
NoRequest == [kind |-> "none", account |-> "none", op |-> "pinned"]
Connected == [NoRequest EXCEPT !.kind = "awaited"]
Request == [kind: Kinds, account: Accounts, op: {"pinned", "other"}]

Replies == {"ok", "needWarning", "opPathMismatch", "authorizationFailed",
            "active", "reauthorizationRequired", "authorizationRequired",
            "exited", "signaled", "timedOut", "cancelledBySignal",
            "cancelled", "processStart", "operational", "dropped"}

Natural == {"success", "failure", "signaled"}
Outcomes == Natural \cup {"timedOut", "cancelled", "shutdown", "error"}
Running == {"explicit", "whoami", "vault", "command"}
Reasons == {"shutdown", "cancelled", "timedOut"}

\* Where the thread is before and between the child processes of a frame: it has
\* to read the clock for the next child's deadline, to start that child, or to
\* look at the account's record again.
Between == {"deadline", "spawn", "recheck"}
InUse == Running \cup Between \cup {"handle"}

\* The account "none" stands for no account: nothing is in progress.
Frame == [client: Clients \cup {NoClient}, account: Accounts \cup {"none"},
          next: Running \cup {"none"},   \* the child that is to be started
          authorized: Nat, deadline: Nat,
          under: SUBSET Reasons,   \* history: as the child started
          clear: BOOLEAN,          \* history: it ended while no reason held
          latch: Reasons \cup {"none"},
          outcome: Outcomes \cup {"pending"},
          stale: Nat]   \* history: children started for it once cancelled
Idle == [client |-> NoClient, account |-> "none", next |-> "none",
         authorized |-> 0, deadline |-> 0, under |-> {}, clear |-> FALSE, latch |-> "none",
         outcome |-> "pending", stale |-> 0]

\* The control of the request in progress says it is cancelled; a
\* maintenance check has a control of its own that nobody cancels.
Cancelled(c) == c # NoClient /\ control[c] # "live"
ChildAlive == pc \in Running /\ frame.outcome = "pending"
Complete == pc \in {"complete", "closed"}
Pending(c) == request[c].kind \in Kinds

\* expire_records: one reading of the clock for every record.
Unexpired ==
    [a \in Accounts |-> IF records[a].active /\ now >= records[a].hard
                        THEN Required ELSE records[a]]
\* invalidate_all, and records.clear() at the end.
Invalidated == [a \in Accounts |-> Required]

Due(a) == records[a].active /\ now >= records[a].probe
Current(a) == records[a].active /\ now < records[a].hard

\* The requests of the connections cs are answered (or their response
\* senders dropped) with r, and the connections end, except that a start is
\* repeated after needWarning.  Nobody looks at their controls any more.
Answer(cs, r) ==
    /\ answer' = IF cs \cap Clients = {} THEN answer
                 ELSE [c \in Clients |-> IF c \in cs THEN r ELSE "none"]
    /\ request' = [c \in Clients |->
                     IF c \notin cs THEN request[c]
                     ELSE IF r = "needWarning" THEN Connected ELSE NoRequest]
    /\ control' = [c \in Clients |-> IF c \in cs THEN "live" ELSE control[c]]

\* The answer to the request in progress, if it is one, and the end of its
\* frame: back to the loop.
Finish(r) ==
    /\ Answer({frame.client}, r)
    /\ frame' = Idle
    /\ pc' = "top"

NoAnswers == [c \in Clients |-> "none"]
Unanswered == UNCHANGED <<request, control, answer>>

CancelReply(c) ==
    IF control[c] = "signal" THEN "cancelledBySignal" ELSE "cancelled"

\* Mutants: the poll leaves one of its three looks out.
ReasonsWithoutShutdown(client, deadline) ==
    (IF Cancelled(client) THEN {"cancelled"} ELSE {})
      \cup (IF now >= deadline THEN {"timedOut"} ELSE {})

ReasonsWithoutDeadline(client, deadline) ==
    (IF shutdown THEN {"shutdown"} ELSE {})
      \cup (IF Cancelled(client) THEN {"cancelled"} ELSE {})

\* The reasons to terminate a child of this client with this deadline.
ReasonsFor(client, deadline) ==
    (IF shutdown THEN {"shutdown"} ELSE {})
      \cup (IF Cancelled(client) THEN {"cancelled"} ELSE {})
      \cup (IF now >= deadline THEN {"timedOut"} ELSE {})

\* The thread goes on to a place from which a child of this kind is next.
GoOn(place, kind) ==
    /\ pc' = place
    /\ frame' = [frame EXCEPT !.next = kind, !.outcome = "pending"]

Init ==
    /\ now = 0
    /\ queue = <<>>
    /\ request = [c \in Clients |-> NoRequest]
    /\ control = [c \in Clients |-> "live"]
    /\ answer = NoAnswers
    /\ records = Invalidated
    /\ shutdown = FALSE
    /\ stopper = "idle"
    /\ pc = "top"
    /\ frame = Idle
    /\ late = 0
    /\ behind = [a \in Accounts |-> 0]
-----------------------------------------------------------------------------
(* Connection threads and the clock.                                       *)

\* The accept loop takes a connection.  It looks at the flag before each
\* accept; what it accepts in the turn that found the flag clear counts as
\* accepted before the flag was set.
Connect(c) ==
    /\ now < MaxTime /\ ~shutdown
    /\ request[c] = NoRequest
    /\ request' = [request EXCEPT ![c] = Connected]
    /\ UNCHANGED <<now, queue, control, answer, records, shutdown, stopper, pc,
                   frame, late, behind>>

\* The client is gone or spoke another protocol before it sent a request.
HangUp(c) ==
    /\ request[c] = Connected
    /\ request' = [request EXCEPT ![c] = NoRequest]
    /\ UNCHANGED <<now, queue, control, answer, records, shutdown, stopper, pc,
                   frame, late, behind>>

\* A connection submits its request (handle_connection and submit): it
\* reaches the channel unless the receiver is dropped.  The channel is never
\* full: it has 64 slots, and so have the connections.  After NeedWarning the
\* same connection submits the same start as warned, which is one of the
\* requests chosen here.
Submit(c) ==
    /\ request[c] = Connected
    /\ \E r \in Request :
          /\ r.kind \in {"status", "exec"} => r.op = "pinned"
          /\ IF pc = "closed"
             THEN /\ request' = [request EXCEPT ![c] = NoRequest]
                  /\ UNCHANGED queue
             ELSE /\ request' = [request EXCEPT ![c] = r]
                  /\ queue' = Append(queue, c)
    /\ UNCHANGED <<now, control, answer, records, shutdown, stopper, pc, frame,
                   late, behind>>

\* The monitor thread: a caller's signal, sent by exec clients only.
CancelBySignal(c) ==
    /\ Pending(c) /\ request[c].kind = "exec" /\ control[c] = "live"
    /\ control' = [control EXCEPT ![c] = "signal"]
    /\ UNCHANGED <<now, queue, request, answer, records, shutdown, stopper, pc,
                   frame, late, behind>>

\* The monitor thread: the client is gone.  An unwarned start has no monitor.
Disconnect(c) ==
    /\ Pending(c) /\ request[c].kind # "start" /\ control[c] = "live"
    /\ control' = [control EXCEPT ![c] = "gone"]
    /\ UNCHANGED <<now, queue, request, answer, records, shutdown, stopper, pc,
                   frame, late, behind>>

\* The connection of `opp stop`, or a failed accept, sets the flag and then
\* sends Stop.
RequestStop ==
    /\ stopper = "idle"
    /\ stopper' = "flagged"
    /\ shutdown' = TRUE
    /\ UNCHANGED <<now, queue, request, control, answer, records, pc, frame,
                   late, behind>>

SendStop ==
    /\ stopper = "flagged"
    /\ stopper' = "sent"
    /\ queue' = IF pc = "closed" THEN queue ELSE Append(queue, Stop)
    /\ UNCHANGED <<now, request, control, answer, records, shutdown, pc, frame,
                   late, behind>>

\* Past MaxTime the clock still runs for a child that waits for its
\* deadline, so that the bound never keeps a deadline from passing.
Tick ==
    /\ now < MaxTime \/ (ChildAlive /\ now < frame.deadline)
    /\ now' = now + 1
    /\ UNCHANGED <<queue, request, control, answer, records, shutdown, stopper,
                   pc, frame, late, behind>>

-----------------------------------------------------------------------------
(* The loop of the actor thread.                                           *)

LeaveLoop ==
    /\ pc = "top" /\ shutdown
    /\ pc' = "drain"
    /\ answer' = NoAnswers
    /\ UNCHANGED <<now, queue, request, control, records, shutdown, stopper,
                   frame, late, behind>>

\* Mutant: the flag is looked at only when nothing is queued.
EnterLoopBusy ==
    /\ pc = "top" /\ (~shutdown \/ queue # <<>>)
    /\ pc' = "receive"
    /\ records' = Unexpired
    /\ answer' = NoAnswers
    /\ UNCHANGED <<now, queue, request, control, shutdown, stopper, frame,
                   late, behind>>

EnterLoop ==
    /\ pc = "top" /\ ~shutdown
    /\ pc' = "receive"
    /\ records' = Unexpired
    /\ answer' = NoAnswers
    /\ UNCHANGED <<now, queue, request, control, shutdown, stopper, frame,
                   late, behind>>

\* try_recv or recv_timeout returns a request.
TakeRequest ==
    /\ pc \in {"receive", "wait"}
    /\ queue # <<>> /\ Head(queue) # Stop
    /\ frame' = [Idle EXCEPT !.client = Head(queue),
                             !.account = request[Head(queue)].account]
    /\ queue' = Tail(queue)
    /\ pc' = "handle"
    /\ UNCHANGED <<now, request, control, answer, records, shutdown, stopper,
                   late, behind>>

\* It returns Stop: break, and the flag is set again.
TakeStop ==
    /\ pc \in {"receive", "wait"}
    /\ queue # <<>> /\ Head(queue) = Stop
    /\ queue' = Tail(queue)
    /\ pc' = "drain"
    /\ shutdown' = TRUE
    /\ UNCHANGED <<now, request, control, answer, records, stopper, frame, late, behind>>

\* The channel is empty and no account is due: recv_timeout.
AwaitMessage ==
    /\ pc = "receive" /\ queue = <<>>
    /\ \A a \in Accounts : ~Due(a)
    /\ pc' = "wait"
    /\ UNCHANGED <<now, queue, request, control, answer, records, shutdown,
                   stopper, frame, late, behind>>

WaitTimesOut ==
    /\ pc = "wait" /\ queue = <<>>
    /\ pc' = "top"
    /\ UNCHANGED <<now, queue, request, control, answer, records, shutdown,
                   stopper, frame, late, behind>>

\* maintain: the account is due, by a reading of the clock of its own, and
\* the expiry of its record is not looked at again.
Maintain ==
    /\ pc = "receive" /\ queue = <<>>
    /\ pc' = "deadline"
    /\ \E a \in Accounts :
          /\ Due(a)
          /\ frame' = [Idle EXCEPT !.account = a, !.next = "whoami"]
    /\ UNCHANGED <<now, queue, request, control, answer, records, shutdown,
                   stopper, late, behind>>

-----------------------------------------------------------------------------
(* handle, up to the first child process.                                  *)

Handling(kinds) ==
    /\ pc = "handle"
    /\ request[frame.client].kind \in kinds
    /\ UNCHANGED <<now, queue, shutdown, stopper>>

HandleCancelled ==
    /\ Handling(Kinds) /\ Cancelled(frame.client)
    /\ Finish(IF request[frame.client].kind = "exec"
              THEN CancelReply(frame.client) ELSE "cancelled")
    /\ UNCHANGED <<records, late, behind>>

\* start, when it is answered without a probe.
HandleStart ==
    /\ Handling({"start", "warnedStart"}) /\ ~Cancelled(frame.client)
    /\ records' = Unexpired
    /\ LET r == request[frame.client] IN
          \/ r.op # "pinned" /\ Finish("opPathMismatch")
          \/ /\ r.op = "pinned" /\ Unexpired[r.account].active
             /\ Finish("ok")
          \/ /\ r.op = "pinned" /\ ~Unexpired[r.account].active
             /\ r.kind = "start"
             /\ Finish("needWarning")
    /\ UNCHANGED <<late, behind>>

\* start, explicit authorization: the account's record is Required from here on.
BeginExplicit ==
    /\ Handling({"warnedStart"}) /\ ~Cancelled(frame.client)
    /\ request[frame.client].op = "pinned"
    /\ ~Unexpired[frame.account].active
    /\ records' = [Unexpired EXCEPT ![frame.account] = Required]
    /\ GoOn("deadline", "explicit")
    /\ Unanswered
    /\ UNCHANGED <<late, behind>>

\* Mutant: status reports the record as it finds it.
HandleStatusStale ==
    /\ Handling({"status"}) /\ ~Cancelled(frame.client)
    /\ Finish(IF records[frame.account].active
              THEN "active" ELSE "reauthorizationRequired")
    /\ UNCHANGED <<records, late, behind>>

HandleStatus ==
    /\ Handling({"status"}) /\ ~Cancelled(frame.client)
    /\ records' = Unexpired
    /\ Finish(IF Unexpired[frame.account].active
              THEN "active" ELSE "reauthorizationRequired")
    /\ UNCHANGED <<late, behind>>

\* Mutant: a request that was cancelled in the queue is begun all the same.
HandleExecRegardless ==
    /\ Handling({"exec"}) /\ Unexpired[frame.account].active
    /\ records' = Unexpired
    /\ GoOn("deadline", "whoami")
    /\ Unanswered
    /\ UNCHANGED <<late, behind>>

\* execute, up to the automatic check.
HandleExec ==
    /\ Handling({"exec"}) /\ ~Cancelled(frame.client)
    /\ records' = Unexpired
    /\ \/ /\ ~Unexpired[frame.account].active
          /\ Finish("authorizationRequired")
       \/ /\ Unexpired[frame.account].active
          /\ GoOn("deadline", "whoami")
          /\ Unanswered
    /\ UNCHANGED <<late, behind>>

-----------------------------------------------------------------------------
(* The start of a child process, and the runner's wait loop as its caller  *)
(* sees it (RunContract).                                                  *)

Limit(kind) == CASE kind = "explicit" -> ExplicitTimeout
                 [] kind \in {"whoami", "vault"} -> CheckTimeout
                 [] kind = "command" -> CommandTimeout

\* The clock is read for the deadline of the next child, which both commands of
\* a check have in common; the hard limit of a new authorization counts from
\* the reading that the explicit probe's deadline counts from.
SetDeadline ==
    /\ pc = "deadline"
    /\ pc' = "spawn"
    /\ frame' = [frame EXCEPT
                    !.deadline = now + Limit(frame.next),
                    !.authorized = IF frame.next = "explicit" THEN now ELSE @]
    /\ UNCHANGED <<now, queue, request, control, answer, records, shutdown,
                   stopper, late, behind>>

Holding == ReasonsFor(frame.client, frame.deadline)

\* The child is started: Runner::probe or Runner::run up to its wait loop.
Launch ==
    /\ pc = "spawn"
    /\ pc' = frame.next
    /\ frame' = [frame EXCEPT
                    !.next = "none", !.under = Holding,
                    !.stale = @ + (IF Cancelled(frame.client) THEN 1 ELSE 0)]
    /\ late' = late + (IF shutdown THEN 1 ELSE 0)
    /\ behind' = [behind EXCEPT ![frame.account] =
                    @ + (IF frame.next = "explicit" \/ Current(frame.account)
                         THEN 0 ELSE 1)]
    /\ UNCHANGED <<now, queue, request, control, answer, records, shutdown,
                   stopper>>

\* The reasons that a poll looks at before r.
Before(r) == CASE r = "shutdown"  -> {}
               [] r = "cancelled" -> {"shutdown"}
               [] r = "timedOut"  -> {"shutdown", "cancelled"}

\* Mutant: a reason that comes later replaces the one that was latched.
LatchLast ==
    /\ ChildAlive
    /\ \E r \in Holding \ {frame.latch} :
          /\ Before(r) \cap frame.under = {}
          /\ frame' = [frame EXCEPT !.latch = r, !.clear = FALSE]
    /\ UNCHANGED <<now, queue, request, control, answer, records, shutdown,
                   stopper, pc, late, behind>>

\* A poll finds a reason to terminate the group, and keeps it.  A reason that
\* ranks higher may have come after the look at it, but was not there when
\* the child started.
Latch ==
    /\ ChildAlive /\ frame.latch = "none"
    /\ \E r \in Holding :
          /\ Before(r) \cap frame.under = {}
          /\ frame' = [frame EXCEPT !.latch = r, !.clear = FALSE]
    /\ UNCHANGED <<now, queue, request, control, answer, records, shutdown,
                   stopper, pc, late, behind>>

\* The child ends by itself while there is no reason to terminate it.
ChildExits ==
    /\ ChildAlive /\ ~frame.clear /\ Holding = {}
    /\ frame' = [frame EXCEPT !.clear = TRUE]
    /\ UNCHANGED <<now, queue, request, control, answer, records, shutdown,
                   stopper, pc, late, behind>>

\* The run returned o.
Ended(o) == [frame EXCEPT !.under = {}, !.clear = FALSE, !.latch = "none",
                          !.outcome = o]

\* Mutant: the status is reported before the reasons are looked at.
ChildEndsFirst ==
    /\ ChildAlive /\ frame.latch = "none"
    /\ \E o \in Natural \cup {"error"} : frame' = Ended(o)
    /\ UNCHANGED <<now, queue, request, control, answer, records, shutdown,
                   stopper, pc, late, behind>>

\* A poll that looks at every reason reports how the child ended, although a
\* reason may have come since; a system call may fail.
ChildEnds ==
    /\ ChildAlive /\ frame.latch = "none"
    /\ \E o \in Natural \cup {"error"} :
          /\ o \in Natural => frame.clear
          /\ frame' = Ended(o)
    /\ UNCHANGED <<now, queue, request, control, answer, records, shutdown,
                   stopper, pc, late, behind>>

\* The terminated group is gone.
ChildTerminated ==
    /\ ChildAlive /\ frame.latch # "none"
    /\ \E o \in {frame.latch, "error"} : frame' = Ended(o)
    /\ UNCHANGED <<now, queue, request, control, answer, records, shutdown,
                   stopper, pc, late, behind>>

-----------------------------------------------------------------------------
(* handle and maintain, from the end of a child process on.                *)

Returned(kind, outcomes) ==
    /\ pc = kind
    /\ frame.outcome \in outcomes
    /\ UNCHANGED <<now, queue, stopper>>

\* Nothing has been started yet for a grant that was just given.
GrantIsNew == behind' = IF frame.outcome = "success"
                        THEN [behind EXCEPT ![frame.account] = 0] ELSE behind

\* Mutant: the hard limit counts from the end of the probe.
AfterExplicitLateLimit ==
    /\ Returned("explicit", Outcomes)
    /\ records' = IF frame.outcome = "success"
                  THEN [records EXCEPT ![frame.account] =
                          Active(now + HardLimit, now + MaintenanceInterval)]
                  ELSE records
    /\ Finish(IF frame.outcome = "success" THEN "ok" ELSE "authorizationFailed")
    /\ GrantIsNew
    /\ UNCHANGED <<shutdown, late>>

\* start, after the probe.
AfterExplicit ==
    /\ Returned("explicit", Outcomes)
    /\ records' = IF frame.outcome = "success"
                  THEN [records EXCEPT ![frame.account] =
                          Active(frame.authorized + HardLimit,
                                 now + MaintenanceInterval)]
                  ELSE records
    /\ Finish(CASE frame.outcome = "success"   -> "ok"
                [] frame.outcome = "cancelled" -> CancelReply(frame.client)
                [] frame.outcome = "shutdown"  -> "dropped"
                [] OTHER                       -> "authorizationFailed")
    /\ GrantIsNew
    /\ UNCHANGED <<shutdown, late>>

\* Mutant: only the account of the check loses its authorization.
CheckFailsAlone ==
    /\ records' = [records EXCEPT ![frame.account] = Required]
    /\ Finish("authorizationRequired")
    /\ UNCHANGED <<shutdown, late, behind>>

\* classify_check and what execute and maintain do with a check that did not
\* succeed: a failure of any kind revokes every account's authorization.
CheckFails ==
    /\ records' = Invalidated
    /\ Finish("authorizationRequired")
    /\ UNCHANGED <<shutdown, late, behind>>

CheckEnds ==
    \/ /\ frame.outcome \notin {"success", "cancelled", "shutdown"}
       /\ CheckFails
    \/ /\ frame.outcome = "cancelled"
       /\ Finish(CancelReply(frame.client))
       /\ UNCHANGED <<records, shutdown, late, behind>>
    \/ /\ frame.outcome = "shutdown"
       /\ Finish("dropped")
       /\ shutdown' = (shutdown \/ frame.client = NoClient)
       /\ UNCHANGED <<records, late, behind>>

\* Mutant: a check is satisfied with whoami.
AfterWhoamiEarly ==
    /\ Returned("whoami", Outcomes)
    /\ \/ /\ frame.outcome = "success"
          /\ IF frame.client = NoClient THEN Finish("dropped")
             ELSE GoOn("recheck", "command") /\ Unanswered
          /\ UNCHANGED <<records, shutdown, late, behind>>
       \/ frame.outcome # "success" /\ CheckEnds

\* whoami is done: vault list is next under the same deadline, and the records
\* are not looked at in between.
AfterWhoami ==
    /\ Returned("whoami", Outcomes)
    /\ \/ /\ frame.outcome = "success"
          /\ GoOn("spawn", "vault")
          /\ Unanswered
          /\ UNCHANGED <<records, shutdown, late, behind>>
       \/ frame.outcome # "success" /\ CheckEnds

\* vault list is done: the next maintenance check moves, the hard limit does
\* not.
AfterVault ==
    /\ Returned("vault", Outcomes)
    /\ \/ /\ frame.outcome = "success"
          /\ records' = [a \in Accounts |->
                           IF a = frame.account /\ records[a].active
                           THEN Active(records[a].hard,
                                       now + MaintenanceInterval)
                           ELSE records[a]]
          /\ IF frame.client = NoClient
             THEN pc' = "top" /\ frame' = Idle
             ELSE GoOn("recheck", "command")
          /\ Unanswered
          /\ UNCHANGED <<shutdown, late, behind>>
       \/ frame.outcome # "success" /\ CheckEnds

\* Mutant: the records are not expired again after the check.
RecheckStale ==
    /\ pc = "recheck"
    /\ IF records[frame.account].active
       THEN pc' = "deadline" /\ UNCHANGED frame /\ Unanswered
       ELSE Finish("authorizationRequired")
    /\ UNCHANGED <<now, queue, records, shutdown, stopper, late, behind>>

\* execute, after its check succeeded: the records are expired again.
Recheck ==
    /\ pc = "recheck"
    /\ records' = Unexpired
    /\ \/ /\ ~Unexpired[frame.account].active
          /\ Finish("authorizationRequired")
       \/ /\ Unexpired[frame.account].active
          /\ pc' = "deadline"
          /\ UNCHANGED frame
          /\ Unanswered
    /\ UNCHANGED <<now, queue, shutdown, stopper, late, behind>>

\* The child cannot be started, which is treated like the failure of one that
\* was; the records are expired after a command in any case.
LaunchFails ==
    /\ pc = "spawn"
    /\ \/ /\ frame.next = "explicit"
          /\ Finish("authorizationFailed")
          /\ UNCHANGED <<records, shutdown, late, behind>>
       \/ frame.next \in {"whoami", "vault"} /\ CheckFails
       \/ /\ frame.next = "command"
          /\ records' = Unexpired
          /\ Finish("processStart")
          /\ UNCHANGED <<shutdown, late, behind>>
    /\ UNCHANGED <<now, queue, stopper>>

AfterCommand ==
    /\ Returned("command", Outcomes)
    /\ records' = Unexpired
    /\ Finish(CASE frame.outcome \in {"success", "failure"} -> "exited"
                [] frame.outcome = "signaled"  -> "signaled"
                [] frame.outcome = "timedOut"  -> "timedOut"
                [] frame.outcome = "cancelled" -> CancelReply(frame.client)
                [] frame.outcome = "shutdown"  -> "dropped"
                [] OTHER                       -> "processStart")
    /\ UNCHANGED <<shutdown, late, behind>>

-----------------------------------------------------------------------------
(* The end of the actor thread.                                            *)

\* What is still queued is answered; nothing of it is run.
Drain ==
    /\ pc = "drain" /\ queue # <<>>
    /\ queue' = Tail(queue)
    /\ Answer({Head(queue)}, "operational")
    /\ UNCHANGED <<now, records, shutdown, stopper, pc,
                   frame, late, behind>>

\* The records are cleared, the terminal is closed, complete is set.
SetComplete ==
    /\ pc = "drain" /\ queue = <<>>
    /\ records' = Invalidated
    /\ pc' = "complete"
    /\ UNCHANGED <<now, queue, request, control, answer, shutdown, stopper,
                   frame, late, behind>>

\* Mutant: what arrived after the drain is left without an answer.
DropReceiverSilently ==
    /\ pc = "complete"
    /\ pc' = "closed"
    /\ queue' = <<>>
    /\ UNCHANGED <<now, request, control, answer, records, shutdown, stopper,
                   frame, late, behind>>

\* run returns: the receiver goes, and with it what was sent meanwhile.
DropReceiver ==
    /\ pc = "complete"
    /\ pc' = "closed"
    /\ queue' = <<>>
    /\ Answer({queue[i] : i \in DOMAIN queue}, "dropped")
    /\ UNCHANGED <<now, records, shutdown, stopper, frame,
                   late, behind>>

-----------------------------------------------------------------------------
Loop == \/ LeaveLoop \/ EnterLoop \/ TakeRequest \/ TakeStop \/ AwaitMessage
        \/ WaitTimesOut \/ Maintain

Work == \/ HandleCancelled \/ HandleStart \/ BeginExplicit \/ HandleStatus
        \/ HandleExec \/ SetDeadline \/ Launch \/ LaunchFails
        \/ AfterExplicit \/ AfterWhoami \/ AfterVault \/ Recheck
        \/ AfterCommand

Ending == Drain \/ SetComplete \/ DropReceiver

Connection == \E c \in Clients :
                 \/ Connect(c) \/ HangUp(c) \/ Submit(c)
                 \/ CancelBySignal(c) \/ Disconnect(c)

Next == \/ Connection \/ RequestStop \/ SendStop \/ Tick
        \/ Loop \/ Work \/ Ending
        \/ Latch \/ ChildExits \/ ChildEnds \/ ChildTerminated

Spec == Init /\ [][Next]_vars

\* The thread keeps running; a stop that began goes on to send its message.
\* Under shutdown a terminated child is waited for without its streams, so
\* that its end is certain once the group got SIGKILL.  Nothing is assumed of
\* deadlines, of children that are not being shut down, or of clients.
StopFairness ==
    /\ WF_vars(Loop \/ Work \/ Ending)
    /\ WF_vars(Latch)
    /\ WF_vars(SendStop)
    /\ WF_vars(ChildTerminated /\ shutdown)

\* The clock runs, and a terminated child leaves no process outside of its
\* group that holds its pipes.
Fairness == StopFairness /\ WF_vars(Tick) /\ WF_vars(ChildTerminated)

-----------------------------------------------------------------------------
(* Properties.                                                             *)

Queued(c) == \E i \in DOMAIN queue : queue[i] = c

\* Types of the variables, and the places of the program where the frame of a
\* request is in use.
TypeOK ==
    /\ now \in Nat
    /\ queue \in Seq(Clients \cup {Stop})
    /\ request \in [Clients -> Request \cup {NoRequest, Connected}]
    /\ control \in [Clients -> {"live", "signal", "gone"}]
    /\ answer \in [Clients -> Replies \cup {"none"}]
    /\ records \in [Accounts -> Record]
    /\ shutdown \in BOOLEAN
    /\ stopper \in {"idle", "flagged", "sent"}
    /\ pc \in InUse \cup {"top", "receive", "wait", "drain", "complete", "closed"}
    /\ frame \in Frame
    /\ late \in Nat
    /\ behind \in [Accounts -> Nat]

\* A request that has no answer yet is in one place: queued once, or the one
\* in progress.  None is lost between a submission, the drain at shutdown and
\* the end of the channel, and none is run twice.
PendingInOnePlace ==
    \A c \in Clients :
        /\ Pending(c) <=> (Queued(c) \/ frame.client = c)
        /\ ~(Queued(c) /\ frame.client = c)
        /\ \A i, j \in DOMAIN queue : queue[i] = c /\ queue[j] = c => i = j

\* Once shutdown is requested at most one more child process is started, by
\* whichever step was already past its look at the flag: it is terminated
\* before it can succeed, so that no later step of the request follows.
\* And the same for a request whose client cancelled it or went away: the child
\* being started at that moment is the last one of the request.
AtMostOneLateChild == late <= 1 /\ frame.stale <= 1

\* The frame of a request in progress names the request's account.
FrameMatchesRequest ==
    pc \in InUse =>
        IF frame.client = NoClient THEN frame.account \in Accounts
        ELSE frame.account = request[frame.client].account

\* The child in progress can only end for one of these reasons, or with an
\* error: it was started under one of them, and they rank above the others.
Doomed(reasons) ==
    /\ pc \in Running
    /\ \/ /\ frame.outcome = "pending" /\ ~frame.clear
          /\ frame.under \cap reasons # {}
          /\ frame.latch \in {"none"} \cup reasons
       \/ frame.outcome \in {"error"} \cup reasons

\* Why that holds: a frame is in use only while a request is in progress; a
\* child started late is doomed, and once it ended the loop is left; a child
\* started for a cancelled request is doomed as well, and nothing of the kind has
\* happened where the next one is prepared.
Inductive ==
    /\ pc \notin InUse => frame = Idle
    /\ pc \in Between \cup {"handle"} =>
           frame.outcome = "pending" /\ frame.stale = 0
    /\ pc \in Between \cup {"handle"} \/ frame.outcome # "pending" =>
           frame.under = {} /\ ~frame.clear /\ frame.latch = "none"
    /\ AtMostOneLateChild
    /\ late # 0 => /\ shutdown
                   /\ \/ pc \in {"top", "drain", "complete", "closed"}
                      \/ Doomed({"shutdown"})
    /\ frame.stale # 0 => /\ Cancelled(frame.client)
                          /\ Doomed({"cancelled", "shutdown"})

\* SPEC.md has no check or command start for an account behind its hard limit.
\* What the code keeps of that: the limit may pass between the look at the record
\* and the start that it is for, and then the two commands of that one check still
\* start, or the one command that was already let through, and nothing more until
\* the account is authorized explicitly again.  The loop, a request and the end of
\* its check each look at the records again.
FewChildrenBehindLimit ==
    \A a \in Accounts :
        /\ behind[a] <= 2
        /\ pc = "command" /\ frame.account = a => behind[a] <= 1

\* Why that holds: a check or a command is for an account whose record stays active
\* until it ends; and once something was started behind an active record's limit,
\* the next look at the record finds the limit passed.
Admitted == \/ pc \in {"whoami", "vault", "command", "recheck"}
            \/ pc \in {"deadline", "spawn"} /\ frame.next # "explicit"

BehindLimit(a) ==
    /\ now >= records[a].hard
    /\ \/ pc \in {"top", "drain"}
       \/ frame.account = a /\ pc \in {"vault", "recheck"}
       \/ /\ frame.account = a /\ behind[a] = 1
          /\ pc \in {"whoami", "command"} \/ (pc = "spawn" /\ frame.next = "vault")

LimitInductive ==
    /\ Admitted => records[frame.account].active
    /\ \A a \in Accounts :
          /\ behind[a] <= 2
          /\ records[a].active /\ behind[a] # 0 => BehindLimit(a)

\* A failed check, of a request or of maintenance, leaves no account
\* authorized, also when a command of it could not be started: only a check that
\* was cancelled or overtaken by shutdown, or that passed, keeps the records.
FailedCheckRevokesAll ==
    [][(/\ {pc, frame.next} \cap {"whoami", "vault"} # {} /\ pc' = "top"
        /\ \E a \in Accounts : records'[a].active)
       => \/ frame.outcome \in {"cancelled", "shutdown"}
          \/ /\ pc = "vault" /\ frame.client = NoClient
             /\ frame.outcome = "success"]_vars

\* An authorization never lives longer than HardLimit from the start of the
\* explicit probe that granted it: no check and no later start moves its
\* deadline, and it can only come from such a probe.
HardLimitNeverMoves ==
    [][\A a \in Accounts : records'[a].active =>
         \/ records[a].active /\ records'[a].hard = records[a].hard
         \/ /\ pc = "explicit" /\ frame.account = a
            /\ ~records[a].active
            /\ records'[a].hard = (frame.deadline - ExplicitTimeout) + HardLimit
      ]_vars

\* `status` and a repeated `start` call an account active only while its hard
\* limit has not passed.
ActiveAnswersAreCurrent ==
    [][pc = "handle" /\ pc' = "top" /\ answer'[frame.client] \in {"active", "ok"}
       => /\ records'[frame.account].active
          /\ now < records'[frame.account].hard]_vars

\* What SPEC.md says of the hard limit: no later check or command starts for an
\* account whose hard limit has passed.
NothingStartsAfterHardLimit ==
    [][pc = "spawn" /\ pc' \in {"whoami", "vault", "command"}
       => Current(frame.account)]_vars

\* Stop ends, with threads that go on and no more than that: the child in
\* progress is terminated whatever its deadline is.  The flag stays, so that this is:
\* the flag leads to the end.
StopCompletes == StopFairness => []<>(shutdown => Complete)

\* Every request gets its answer, or its connection is closed, if the clock runs
\* as well: none is pending for ever.
EveryRequestSettles == Fairness => \A c \in Clients : []<>~Pending(c)
=============================================================================
