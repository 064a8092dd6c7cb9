------------------------------- MODULE Lifecycle -------------------------------
(***************************************************************************)
(* Brokers come and go: `opp start` finds a broker or spawns one, brokers  *)
(* race for one lock and one socket path, `opp stop` takes a broker down   *)
(* (src/src/client.rs, src/src/broker.rs, src/src/runtime.rs).             *)
(*                                                                         *)
(* Every broker is three kinds of threads: main, which starts up, accepts  *)
(* and winds down; the executor, which owns the lock; one handler for each *)
(* connection.  A start spawns one broker at most, so that broker carries  *)
(* the name of its start.  What the executor does with a request is        *)
(* BrokerActor's subject; here it answers, or it stops.                    *)
(***************************************************************************)
EXTENDS FiniteSets, Naturals

CONSTANTS
    Starts,   \* `opp start` processes, and the brokers they may spawn
    Stops,    \* `opp stop` processes
    None,     \* no broker
    MaxFaults \* bound: brokers that die, clients that leave, connections
              \* that find every slot held

ASSUME LifecycleAssumption ==
    /\ None \notin Starts
    /\ Starts \cap Stops = {}
    /\ MaxFaults \in Nat

VARIABLES
    lock,          \* the broker that holds the flock on broker.lock
    path,          \* the broker whose listener broker.sock names
    main,          \* per broker: where its main thread is
    actor,         \* per broker: where its executor thread is
    said,          \* per broker: the byte on its startup socket
    shutdown,      \* per broker: the flag
    stopRequested, \* per broker: the flag
    acknowledged,  \* per broker: the flag stop_acknowledged
    failed,        \* history: brokers that ended by an error or a kill
    faults,        \* counts the faults, to MaxFaults
    phase,         \* per client: where it is
    conn,          \* per client: the broker it is connected to
    hand,          \* per client: how far its connection has come
    result         \* per client: its exit

brokers == <<main, actor, said, shutdown, stopRequested, acknowledged, failed>>
clients == <<phase, conn, hand, result>>
vars == <<lock, path, brokers, faults, clients>>

-----------------------------------------------------------------------------
Clients == Starts \cup Stops

Listening(b) == main[b] \in {"spawn", "ready", "check", "accept"}
Reachable == path # None /\ Listening(path)
Complete(b) == actor[b] \in {"complete", "ended"}

\* Mutant: the flag socket_removed is set behind the wait for the reply.
SocketRemovedLate(b) == main[b] = "join"
SocketRemoved(b) == main[b] \in {"complete", "acknowledge", "join"}
Answered == {"ok", "error"}

Init ==
    /\ lock = None /\ path = None
    /\ main = [b \in Starts |-> "none"]
    /\ actor = [b \in Starts |-> "none"]
    /\ said = [b \in Starts |-> "none"]
    /\ shutdown = [b \in Starts |-> FALSE]
    /\ stopRequested = [b \in Starts |-> FALSE]
    /\ acknowledged = [b \in Starts |-> FALSE]
    /\ failed = {} /\ faults = 0
    /\ phase = [c \in Clients |-> "idle"]
    /\ conn = [c \in Clients |-> None]
    /\ hand = [c \in Clients |-> "none"]
    /\ result = [c \in Clients |-> "none"]

-----------------------------------------------------------------------------
(* Clients.                                                                *)

Client == UNCHANGED <<lock, path, actor, said, shutdown, stopRequested,
                      acknowledged, failed, faults>>

Connect(c) ==
    /\ conn' = [conn EXCEPT ![c] = path]
    /\ hand' = [hand EXCEPT ![c] = "backlog"]

Disconnected == UNCHANGED <<conn, hand>>

Done(c, r) ==
    /\ phase' = [phase EXCEPT ![c] = "done"]
    /\ result' = [result EXCEPT ![c] = r]

\* `opp start` looks for a broker first.
Start(c) ==
    /\ phase[c] = "idle"
    /\ \/ /\ Reachable /\ Connect(c)
          /\ phase' = [phase EXCEPT ![c] = "talk"]
       \/ /\ ~Reachable /\ Disconnected
          /\ phase' = [phase EXCEPT ![c] = "spawn"]
    /\ UNCHANGED <<main, result>> /\ Client

SpawnBroker(c) ==
    /\ phase[c] = "spawn"
    /\ phase' = [phase EXCEPT ![c] = "startup"]
    /\ main' = [main EXCEPT ![c] = "lock"]
    /\ UNCHANGED result /\ Disconnected /\ Client

\* The byte of the startup socket, or its end.
ReadStartup(c) ==
    /\ phase[c] = "startup"
    /\ \/ /\ said[c] = "ready"
          /\ phase' = [phase EXCEPT ![c] = "connect"] /\ UNCHANGED result
       \/ /\ said[c] = "exists"
          /\ phase' = [phase EXCEPT ![c] = "exists"] /\ UNCHANGED result
       \/ /\ said[c] = "none" /\ main[c] = "gone"
          /\ Done(c, "failed")
    /\ UNCHANGED main /\ Disconnected /\ Client

\* connect_until: again and again for five seconds.
ConnectUntil(c) ==
    /\ phase[c] \in {"exists", "connect"} /\ conn[c] = None
    /\ Reachable /\ Connect(c)
    /\ UNCHANGED <<main, phase, result>> /\ Client

TimeOut(c) ==
    /\ phase[c] \in {"exists", "connect"} /\ conn[c] = None
    /\ ~Reachable
    /\ Done(c, "failed")
    /\ UNCHANGED main /\ Disconnected /\ Client

\* After the preamble: the first connection of a start that was told of
\* another broker is dropped; any other carries the request.
Proceed(c) ==
    /\ phase[c] # "done" /\ hand[c] = "negotiated"
    /\ IF phase[c] = "exists"
       THEN /\ phase' = [phase EXCEPT ![c] = "connect"]
            /\ conn' = [conn EXCEPT ![c] = None]
            /\ hand' = [hand EXCEPT ![c] = "none"]
       ELSE /\ hand' = [hand EXCEPT ![c] = "queued"]
            /\ UNCHANGED <<phase, conn>>
    /\ UNCHANGED <<main, result>> /\ Client

Stop(c) ==
    /\ phase[c] = "idle"
    /\ \/ /\ Reachable /\ Connect(c)
          /\ phase' = [phase EXCEPT ![c] = "talk"] /\ UNCHANGED result
       \/ /\ ~Reachable /\ Disconnected /\ Done(c, "ok")
    /\ UNCHANGED main /\ Client

\* The connection ended without an answer.
Closed(c) ==
    /\ conn[c] # None /\ hand[c] \notin Answered
    /\ \/ hand[c] \in {"closed", "refused"}
       \/ hand[c] = "backlog" /\ ~Listening(conn[c])
       \/ main[conn[c]] = "gone"

Finish(c) ==
    /\ phase[c] # "done"
    /\ \/ hand[c] = "ok" /\ Done(c, "ok")
       \/ hand[c] = "error" /\ Done(c, "failed")
       \/ Closed(c) /\ Done(c, "failed")
    /\ UNCHANGED main /\ Disconnected /\ Client

Fault == faults < MaxFaults /\ faults' = faults + 1

\* The client is interrupted, or a start waits too long for the byte.
Leave(c) ==
    /\ phase[c] \notin {"idle", "done"}
    /\ Done(c, "left") /\ Fault
    /\ UNCHANGED <<lock, path, brokers, conn, hand>>

-----------------------------------------------------------------------------
(* A broker's main thread.                                                 *)

Broker == UNCHANGED <<faults, clients>>
At(b, place) == main' = [main EXCEPT ![b] = place]

\* The process is gone, and with it the threads, the lock and the listener;
\* the socket's path stays.
Gone(b) ==
    /\ At(b, "gone")
    /\ actor' = [actor EXCEPT ![b] = IF @ = "none" THEN @ ELSE "ended"]
    /\ lock' = IF lock = b THEN None ELSE lock

Fails(b) == failed' = failed \cup {b} /\ Gone(b)

\* Mutant: a lock that is taken by another is no obstacle.
LockAnyway(b) ==
    /\ main[b] = "lock"
    /\ lock' = b /\ At(b, "stale") /\ UNCHANGED said
    /\ UNCHANGED <<path, actor, shutdown, stopRequested, acknowledged, failed>>
    /\ Broker

Lock(b) ==
    /\ main[b] = "lock"
    /\ \/ lock = None /\ lock' = b /\ At(b, "stale") /\ UNCHANGED said
       \/ /\ lock # None /\ At(b, "gone") /\ UNCHANGED lock
          /\ said' = [said EXCEPT ![b] = "exists"]
    /\ UNCHANGED <<path, actor, shutdown, stopRequested, acknowledged, failed>>
    /\ Broker

\* remove_stale_socket: lstat, then remove, which fails if the path has gone
\* in between.
StatStale(b) ==
    /\ main[b] = "stale"
    /\ At(b, IF path = None THEN "bind" ELSE "remove")
    /\ UNCHANGED <<lock, path, actor, said, shutdown, stopRequested,
                   acknowledged, failed>>
    /\ Broker

RemoveStale(b) ==
    /\ main[b] = "remove"
    /\ \/ /\ path # None /\ path' = None
          /\ At(b, "bind") /\ UNCHANGED <<lock, actor, failed>>
       \/ path = None /\ UNCHANGED path /\ Fails(b)
    /\ UNCHANGED <<said, shutdown, stopRequested, acknowledged>> /\ Broker

Bind(b) ==
    /\ main[b] = "bind"
    /\ \/ /\ path = None /\ path' = b
          /\ At(b, "spawn") /\ UNCHANGED <<lock, actor, failed>>
       \/ path # None /\ UNCHANGED path /\ Fails(b)
    /\ UNCHANGED <<said, shutdown, stopRequested, acknowledged>> /\ Broker

\* The socket's mode, which needs its path, and the executor thread.
SpawnActor(b) ==
    /\ main[b] = "spawn"
    /\ \/ /\ path # None
          /\ At(b, "ready") /\ actor' = [actor EXCEPT ![b] = "run"]
          /\ UNCHANGED <<lock, failed>>
       \/ path = None /\ Fails(b)
    /\ UNCHANGED <<path, said, shutdown, stopRequested, acknowledged>> /\ Broker

\* A start that has left has closed the startup socket.
Ready(b) ==
    /\ main[b] = "ready"
    /\ \/ /\ phase[b] = "startup"
          /\ said' = [said EXCEPT ![b] = "ready"]
          /\ At(b, "check") /\ UNCHANGED <<lock, actor, failed>>
       \/ phase[b] # "startup" /\ UNCHANGED said /\ Fails(b)
    /\ UNCHANGED <<path, shutdown, stopRequested, acknowledged>> /\ Broker

\* The loop's condition; behind the loop the listener is dropped.
Check(b) ==
    /\ main[b] = "check"
    /\ At(b, IF shutdown[b] THEN "unlink" ELSE "accept")
    /\ UNCHANGED <<lock, path, actor, said, shutdown, stopRequested,
                   acknowledged, failed>>
    /\ Broker

Waiting(b) == {c \in Clients : conn[c] = b /\ hand[c] = "backlog"}

\* A connection gets a handler; or it is dropped, since others, among them the
\* execs and statuses that are no clients here, hold every slot.
Accept(b) ==
    /\ main[b] = "accept"
    /\ At(b, "check")
    /\ \/ \E c \in Waiting(b) :
             \/ hand' = [hand EXCEPT ![c] = "open"] /\ UNCHANGED faults
             \/ hand' = [hand EXCEPT ![c] = "refused"] /\ Fault
       \/ Waiting(b) = {} /\ UNCHANGED <<hand, faults>>
    /\ UNCHANGED <<lock, path, actor, said, shutdown, stopRequested,
                   acknowledged, failed, phase, conn, result>>

\* remove_file by name, whoever's listener the name stands for.
Unlink(b) ==
    /\ main[b] = "unlink"
    /\ path' = None
    /\ At(b, "complete")
    /\ UNCHANGED <<lock, actor, said, shutdown, stopRequested, acknowledged,
                   failed>>
    /\ Broker

AwaitComplete(b) ==
    /\ main[b] = "complete" /\ Complete(b)
    /\ At(b, IF stopRequested[b] THEN "acknowledge" ELSE "join")
    /\ UNCHANGED <<lock, path, actor, said, shutdown, stopRequested,
                   acknowledged, failed>>
    /\ Broker

AwaitAcknowledged(b) ==
    /\ main[b] = "acknowledge" /\ acknowledged[b]
    /\ At(b, "join")
    /\ UNCHANGED <<lock, path, actor, said, shutdown, stopRequested,
                   acknowledged, failed>>
    /\ Broker

Join(b) ==
    /\ main[b] = "join" /\ actor[b] = "ended"
    /\ Gone(b)
    /\ UNCHANGED <<path, said, shutdown, stopRequested, acknowledged, failed>>
    /\ Broker

\* The broker is killed, or an error of a system call ends its startup or its
\* accept loop: the socket's path stays, and no stop is waited for.
Die(b) ==
    /\ main[b] \notin {"none", "gone"}
    /\ Fails(b) /\ Fault
    /\ UNCHANGED <<path, said, shutdown, stopRequested, acknowledged, clients>>

Main(b) == \/ Lock(b) \/ StatStale(b) \/ RemoveStale(b) \/ Bind(b)
           \/ SpawnActor(b) \/ Ready(b) \/ Check(b) \/ Accept(b) \/ Unlink(b)
           \/ AwaitComplete(b) \/ AwaitAcknowledged(b) \/ Join(b)

-----------------------------------------------------------------------------
(* A broker's executor thread.                                             *)

Act(b, place) ==
    /\ actor' = [actor EXCEPT ![b] = place]
    /\ UNCHANGED <<path, main, said, shutdown, stopRequested, acknowledged,
                   failed>>
    /\ Broker

\* The loop ends, the queue is drained, the terminal closed.
Drain(b) ==
    /\ actor[b] = "run" /\ shutdown[b]
    /\ Act(b, "drained") /\ UNCHANGED lock

SetComplete(b) ==
    /\ actor[b] = "drained"
    /\ Act(b, "complete") /\ UNCHANGED lock

\* run takes the actor by value: it is dropped behind set_flag.
DropLock(b) ==
    /\ actor[b] = "complete"
    /\ Act(b, "ended") /\ lock' = IF lock = b THEN None ELSE lock

Executor(b) == Drain(b) \/ SetComplete(b) \/ DropLock(b)

-----------------------------------------------------------------------------
(* A broker's connection handlers.                                         *)

Handled(c, stage) ==
    /\ conn[c] # None /\ main[conn[c]] # "gone"
    /\ hand' = [hand EXCEPT ![c] = stage]
    /\ UNCHANGED <<lock, path, main, actor, said, failed, faults, phase, conn, result>>

\* The peer left before it sent anything.
PeerGone(c) ==
    /\ hand[c] = "open" /\ phase[c] = "done"
    /\ Handled(c, "closed")
    /\ UNCHANGED <<shutdown, stopRequested, acknowledged>>

Negotiate(c) ==
    /\ hand[c] = "open" /\ c \in Starts
    /\ Handled(c, "negotiated")
    /\ UNCHANGED <<shutdown, stopRequested, acknowledged>>

\* The executor answers; or it drops the request, and the connection ends with
\* the handler, or with the process if a monitor thread has it too.
Respond(c) ==
    /\ hand[c] = "queued"
    /\ \/ actor[conn[c]] = "run" /\ \E r \in Answered : Handled(c, r)
       \/ actor[conn[c]] # "run" /\ \E r \in {"error", "closed", "dropped"} : Handled(c, r)
    /\ UNCHANGED <<shutdown, stopRequested, acknowledged>>

\* Mutants: a stop that main is not told of; a reply that does not wait for the
\* socket; a failed reply that is not acknowledged.
RequestStopUntold(c) ==
    /\ hand[c] = "open" /\ c \in Stops
    /\ Handled(c, "requested")
    /\ UNCHANGED <<shutdown, stopRequested, acknowledged>>

ReplyStopSoon(c) ==
    /\ hand[c] = "waiting" /\ Complete(conn[c])
    /\ Handled(c, IF phase[c] = "done" THEN "closed" ELSE "ok")
    /\ acknowledged' = [acknowledged EXCEPT ![conn[c]] = TRUE]
    /\ UNCHANGED <<shutdown, stopRequested>>

ReplyStopOrFail(c) ==
    /\ hand[c] = "waiting" /\ Complete(conn[c]) /\ SocketRemoved(conn[c])
    /\ Handled(c, IF phase[c] = "done" THEN "closed" ELSE "ok")
    /\ acknowledged' = [acknowledged EXCEPT ![conn[c]] = @ \/ phase[c] # "done"]
    /\ UNCHANGED <<shutdown, stopRequested>>

RequestStop(c) ==
    /\ hand[c] = "open" /\ c \in Stops
    /\ Handled(c, "requested")
    /\ stopRequested' = [stopRequested EXCEPT ![conn[c]] = TRUE]
    /\ UNCHANGED <<shutdown, acknowledged>>

RequestShutdown(c) ==
    /\ hand[c] = "requested"
    /\ Handled(c, "waiting")
    /\ shutdown' = [shutdown EXCEPT ![conn[c]] = TRUE]
    /\ UNCHANGED <<stopRequested, acknowledged>>

ReplyStop(c) ==
    /\ hand[c] = "waiting" /\ Complete(conn[c]) /\ SocketRemoved(conn[c])
    /\ Handled(c, IF phase[c] = "done" THEN "closed" ELSE "ok")
    /\ acknowledged' = [acknowledged EXCEPT ![conn[c]] = TRUE]
    /\ UNCHANGED <<shutdown, stopRequested>>

Handler(c) == \/ PeerGone(c) \/ Negotiate(c) \/ Respond(c)
              \/ RequestStop(c) \/ RequestShutdown(c) \/ ReplyStop(c)

-----------------------------------------------------------------------------
StartClient(c) == \/ SpawnBroker(c) \/ ReadStartup(c) \/ ConnectUntil(c)
                  \/ TimeOut(c) \/ Proceed(c) \/ Finish(c)

Next ==
    \/ \E c \in Starts : Start(c) \/ StartClient(c) \/ Leave(c)
    \/ \E c \in Stops : Stop(c) \/ Finish(c) \/ Leave(c)
    \/ \E b \in Starts : Main(b) \/ Executor(b) \/ Die(b)
    \/ \E c \in Clients : Handler(c)

Spec == Init /\ [][Next]_vars

\* Every thread that can go on does; a client that began goes on.  Nobody has
\* to begin, to leave or to die.
Fairness ==
    /\ \A b \in Starts : WF_vars(Main(b)) /\ WF_vars(Executor(b))
    /\ \A c \in Clients : WF_vars(Handler(c))
    /\ \A c \in Starts : WF_vars(StartClient(c))
    /\ \A c \in Stops : WF_vars(Finish(c))

FairSpec == Spec /\ Fairness

-----------------------------------------------------------------------------
(* Properties.                                                             *)

TypeOK ==
    /\ lock \in Starts \cup {None} /\ path \in Starts \cup {None}
    /\ main \in [Starts -> {"none", "lock", "stale", "remove", "bind", "spawn",
                            "ready", "check", "accept", "unlink", "complete",
                            "acknowledge", "join", "gone"}]
    /\ actor \in [Starts -> {"none", "run", "drained", "complete", "ended"}]
    /\ said \in [Starts -> {"none", "ready", "exists"}]
    /\ shutdown \in [Starts -> BOOLEAN]
    /\ stopRequested \in [Starts -> BOOLEAN]
    /\ acknowledged \in [Starts -> BOOLEAN]
    /\ failed \in SUBSET Starts /\ faults \in 0..MaxFaults
    /\ phase \in [Clients -> {"idle", "spawn", "startup", "exists", "connect",
                              "talk", "done"}]
    /\ conn \in [Clients -> Starts \cup {None}]
    /\ hand \in [Clients -> {"none", "backlog", "open", "negotiated", "queued",
                             "requested", "waiting", "closed", "dropped",
                             "refused"} \cup Answered]
    /\ result \in [Clients -> {"none", "ok", "failed", "left"}]
    /\ \A c \in Clients : /\ phase[c] = "done" <=> result[c] # "none"
                          /\ conn[c] = None <=> hand[c] = "none"

\* An executor that has not completed holds the lock, so there is never more
\* than one, whatever start, stop, error and kill do to each other.
OneExecutor ==
    \A b \in Starts : actor[b] \in {"run", "drained", "complete"} => lock = b

\* Startup removes only a path whose broker is gone or on its way out.
OnlyStaleRemoved ==
    [][\A b \in Starts : RemoveStale(b) =>
           path = None \/ ~Listening(path) \/ shutdown[path]]_vars

\* A stop that exits 0 has taken its broker down: nobody can connect to it, its
\* executor is complete and its socket is gone.
StoppedIsDown ==
    \A c \in Stops : result[c] = "ok" /\ conn[c] # None =>
        LET b == conn[c]
        IN ~Listening(b) /\ Complete(b) /\ path # b

\* A stop fails only if the accept loop dropped its connection for want of a
\* slot, its broker ended by an error or a kill, or another stop of the same
\* broker ran.
LoneStopSucceeds ==
    \A c \in Stops : result[c] = "failed" =>
        \/ hand[c] = "refused"
        \/ conn[c] \in failed
        \/ \E d \in Stops \ {c} : conn[d] = conn[c]

\* What SPEC.md says of the one detached broker: it owns the lock and the socket
\* for its lifetime.  Here: a broker that serves can be found.
ServingBrokerIsReachable ==
    \A b \in Starts : main[b] \in {"check", "accept"} /\ ~shutdown[b] => path = b

\* A broker that is asked to shut down goes away, though its clients leave or are
\* refused.  Its flag stays, so that this is: the flag leads to its end.
BrokerStops == \A b \in Starts : []<>(shutdown[b] => main[b] = "gone")

\* Every client that began comes to an end; it began once for all.
ClientsFinish == \A c \in Clients : []<>(phase[c] # "idle" => phase[c] = "done")
=============================================================================
