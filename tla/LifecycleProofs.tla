---------------------------- MODULE LifecycleProofs ----------------------------
(***************************************************************************)
(* Proofs about Lifecycle, for every number of starts, stops and faults.   *)
(* The invariants say, in this order: who holds the lock; which brokers a  *)
(* path or a connection can stand for; what a stop has waited for; who     *)
(* asked a broker to end.                                                  *)
(***************************************************************************)
EXTENDS Lifecycle, TLAPS

\* Before it has bound its socket a broker cannot be found.
Startup(b) == main[b] \in {"none", "lock", "stale", "remove", "bind"}

\* The executor is spawned under the lock, and its end before main's needs
\* the flag.
Locked ==
    /\ OneExecutor
    /\ \A b \in Starts :
          /\ phase[b] \in {"idle", "spawn"} => main[b] = "none"
          /\ main[b] \in {"stale", "remove", "bind", "spawn"} => lock = b
          /\ Startup(b) \/ main[b] = "spawn" => actor[b] = "none"
          /\ Listening(b) /\ main[b] # "spawn" => actor[b] # "none"
          /\ actor[b] \in {"drained", "complete", "ended"} =>
                shutdown[b] \/ main[b] = "gone"

\* The path and connections stand for brokers that bound their socket; a
\* broker that found the lock taken never did; behind remove_file the path
\* is not the broker's.
Bound ==
    /\ path # None => ~Startup(path)
    /\ \A c \in Clients : conn[c] # None => ~Startup(conn[c])
    /\ \A b \in Starts :
          /\ SocketRemoved(b) => path # b
          /\ said[b] = "exists" =>
                main[b] = "gone" /\ path # b /\ \A c \in Clients : conn[c] # b

Down(b) == ~Listening(b) /\ ~Startup(b) /\ Complete(b) /\ path # b

\* A stop is answered by a broker that is down.
Waited(c) ==
    /\ hand[c] \in {"none", "backlog", "open", "requested", "waiting",
                    "closed", "refused", "ok"}
    /\ phase[c] = "idle" => conn[c] = None
    /\ hand[c] = "ok" => Down(conn[c])
    /\ hand[c] = "closed" => phase[c] = "done"
    /\ result[c] = "ok" /\ conn[c] # None => hand[c] = "ok"
    /\ result[c] = "failed" => conn[c] # None

Stopping == \A c \in Stops : Waited(c)

Served(b, stages) == \E d \in Stops : conn[d] = b /\ hand[d] \in stages

\* A broker ends for the sake of a stop, which has got that far, unless it
\* fails.
AskedToEnd(b) ==
    /\ shutdown[b] => /\ stopRequested[b]
                      /\ Served(b, {"waiting", "ok", "closed"})
    /\ acknowledged[b] => Served(b, {"ok", "closed"})
    /\ main[b] = "unlink" \/ SocketRemoved(b) => shutdown[b]
    /\ main[b] = "join" => acknowledged[b]
    /\ main[b] = "gone" => \/ b \in failed \/ said[b] = "exists"
                           \/ shutdown[b] /\ acknowledged[b]

Asked ==
    /\ \A b \in Starts : AskedToEnd(b)
    /\ \A c \in Clients : hand[c] \in {"requested", "waiting"} =>
          c \in Stops /\ stopRequested[conn[c]]

IInv == Locked /\ Bound /\ Stopping /\ Asked /\ LoneStopSucceeds

-----------------------------------------------------------------------------
(* Types.                                                                  *)

LEMMA TypeInit == Init => TypeOK
  BY LifecycleAssumption DEF Init, TypeOK, Clients

\* A client that ends, and one that connects.
LEMMA DoneType ==
    ASSUME TypeOK, NEW c \in Clients, NEW r \in {"ok", "failed", "left"},
           Done(c, r), phase[c] # "done" \/ result[c] # "none"
    PROVE  /\ phase' \in [Clients -> {"idle", "spawn", "startup", "exists",
                                      "connect", "talk", "done"}]
           /\ result' \in [Clients -> {"none", "ok", "failed", "left"}]
           /\ \A d \in Clients : phase'[d] = "done" <=> result'[d] # "none"
  BY DEF Done, TypeOK

LEMMA ConnectType ==
    ASSUME TypeOK, NEW c \in Clients, Reachable, Connect(c)
    PROVE  /\ conn' \in [Clients -> Starts \cup {None}]
           /\ hand' \in [Clients -> {"none", "backlog", "open", "negotiated",
                            "queued", "requested", "waiting", "closed",
                            "dropped", "refused"} \cup Answered]
           /\ \A d \in Clients : conn'[d] = None <=> hand'[d] = "none"
  BY DEF Connect, Reachable, TypeOK

LEMMA TypeStarts ==
    ASSUME TypeOK, NEW c \in Starts, Start(c) \/ StartClient(c)
    PROVE  TypeOK'
<1>0. c \in Clients
  BY DEF Clients
<1>1. CASE Start(c)
  BY <1>0, <1>1, ConnectType DEF Start, Client, Disconnected, TypeOK
<1>2. CASE SpawnBroker(c)
  BY <1>0, <1>2 DEF SpawnBroker, Client, Disconnected, TypeOK
<1>3. CASE ReadStartup(c)
  BY <1>0, <1>3, DoneType DEF ReadStartup, Client, Disconnected, TypeOK
<1>4. CASE ConnectUntil(c)
  BY <1>0, <1>4, ConnectType DEF ConnectUntil, Client, TypeOK
<1>5. CASE TimeOut(c)
  BY <1>0, <1>5, DoneType DEF TimeOut, Client, Disconnected, TypeOK
<1>6. CASE Proceed(c)
  BY <1>0, <1>6, LifecycleAssumption DEF Proceed, Client, TypeOK
<1>7. CASE Finish(c)
  BY <1>0, <1>7, DoneType DEF Finish, Client, Disconnected, TypeOK
<1> QED
  BY <1>1, <1>2, <1>3, <1>4, <1>5, <1>6, <1>7 DEF StartClient

LEMMA TypeStops ==
    ASSUME TypeOK, NEW c \in Clients,
           (c \in Stops /\ Stop(c)) \/ Finish(c) \/ Leave(c)
    PROVE  TypeOK'
<1>1. CASE Stop(c)
  BY <1>1, ConnectType, DoneType DEF Stop, Client, Disconnected, TypeOK
<1>2. CASE Finish(c)
  BY <1>2, DoneType DEF Finish, Client, Disconnected, TypeOK
<1>3. CASE Leave(c)
  BY <1>3, DoneType, LifecycleAssumption
     DEF Leave, Fault, brokers, TypeOK
<1> QED
  BY <1>1, <1>2, <1>3

LEMMA GoneType ==
    ASSUME TypeOK, NEW b \in Starts, Gone(b)
    PROVE  /\ main' \in [Starts -> {"none", "lock", "stale", "remove", "bind",
                            "spawn", "ready", "check", "accept", "unlink",
                            "complete", "acknowledge", "join", "gone"}]
           /\ actor' \in [Starts -> {"none", "run", "drained", "complete",
                                     "ended"}]
           /\ lock' \in Starts \cup {None}
  BY DEF Gone, At, TypeOK

LEMMA TypeMain ==
    ASSUME TypeOK, NEW b \in Starts, Main(b) \/ Die(b)
    PROVE  TypeOK'
<1>1. CASE Lock(b)
  BY <1>1 DEF Lock, At, Broker, clients, TypeOK
<1>2. CASE StatStale(b)
  BY <1>2 DEF StatStale, At, Broker, clients, TypeOK
<1>3. CASE RemoveStale(b)
  BY <1>3, GoneType DEF RemoveStale, Fails, At, Broker, clients, TypeOK
<1>4. CASE Bind(b)
  BY <1>4, GoneType DEF Bind, Fails, At, Broker, clients, TypeOK
<1>5. CASE SpawnActor(b)
  BY <1>5, GoneType DEF SpawnActor, Fails, At, Broker, clients, TypeOK
<1>6. CASE Ready(b)
  BY <1>6, GoneType DEF Ready, Fails, At, Broker, clients, TypeOK
<1>7. CASE Check(b)
  BY <1>7 DEF Check, At, Broker, clients, TypeOK
<1>8. CASE Accept(b)
  <2>1. \A c \in Waiting(b) : c \in Clients /\ conn[c] # None
    BY LifecycleAssumption DEF Waiting
  <2> QED
    BY <1>8, <2>1, LifecycleAssumption DEF Accept, Fault, At, TypeOK
<1>9. CASE Unlink(b)
  BY <1>9 DEF Unlink, At, Broker, clients, TypeOK
<1>10. CASE AwaitComplete(b)
  BY <1>10 DEF AwaitComplete, At, Broker, clients, TypeOK
<1>11. CASE AwaitAcknowledged(b)
  BY <1>11 DEF AwaitAcknowledged, At, Broker, clients, TypeOK
<1>12. CASE Join(b)
  BY <1>12, GoneType DEF Join, Broker, clients, TypeOK
<1>13. CASE Die(b)
  BY <1>13, GoneType, LifecycleAssumption
     DEF Die, Fails, Fault, clients, TypeOK
<1> QED
  BY <1>1, <1>2, <1>3, <1>4, <1>5, <1>6, <1>7, <1>8, <1>9, <1>10, <1>11,
     <1>12, <1>13 DEF Main

LEMMA TypeExecutor ==
    ASSUME TypeOK, NEW b \in Starts, Executor(b)
    PROVE  TypeOK'
  BY DEF Executor, Drain, SetComplete, DropLock, Act, Broker, clients, TypeOK

LEMMA TypeHandler ==
    ASSUME TypeOK, NEW c \in Clients, Handler(c)
    PROVE  TypeOK'
<1>1. ASSUME NEW r \in {"open", "negotiated", "requested", "waiting", "closed",
                        "dropped"} \cup Answered,
             Handled(c, r), shutdown' \in [Starts -> BOOLEAN],
             stopRequested' \in [Starts -> BOOLEAN],
             acknowledged' \in [Starts -> BOOLEAN]
      PROVE  TypeOK'
  BY <1>1 DEF Handled, Answered, TypeOK
<1>2. CASE PeerGone(c) \/ Negotiate(c)
  BY <1>1, <1>2 DEF PeerGone, Negotiate, TypeOK
<1>3. CASE Respond(c)
  <2>1. PICK r \in {"closed", "dropped"} \cup Answered : Handled(c, r)
    BY <1>3 DEF Respond, Answered
  <2> QED
    BY <1>1, <1>3, <2>1 DEF Respond, TypeOK
<1>4. CASE RequestStop(c) \/ RequestShutdown(c) \/ ReplyStop(c)
  <2>1. conn[c] \in Starts
    BY <1>4 DEF RequestStop, RequestShutdown, ReplyStop, Handled, TypeOK
  <2>2. CASE RequestStop(c)
    BY <1>1, <2>1, <2>2 DEF RequestStop, Answered, TypeOK
  <2>3. CASE RequestShutdown(c)
    BY <1>1, <2>1, <2>3 DEF RequestShutdown, Answered, TypeOK
  <2>4. CASE ReplyStop(c)
    BY <1>1, <2>1, <2>4 DEF ReplyStop, Answered, TypeOK
  <2> QED
    BY <1>4, <2>2, <2>3, <2>4
<1> QED
  BY <1>2, <1>3, <1>4 DEF Handler

LEMMA TypeNext == TypeOK /\ [Next]_vars => TypeOK'
<1> SUFFICES ASSUME TypeOK, [Next]_vars PROVE TypeOK'
  OBVIOUS
<1>1. CASE UNCHANGED vars
  BY <1>1 DEF vars, brokers, clients, TypeOK
<1>2. ASSUME NEW c \in Starts, Start(c) \/ StartClient(c) \/ Leave(c)
      PROVE  TypeOK'
  BY <1>2, TypeStarts, TypeStops DEF Clients
<1>3. ASSUME NEW c \in Stops, Stop(c) \/ Finish(c) \/ Leave(c)
      PROVE  TypeOK'
  BY <1>3, TypeStops DEF Clients
<1>4. ASSUME NEW b \in Starts, Main(b) \/ Executor(b) \/ Die(b)
      PROVE  TypeOK'
  BY <1>4, TypeMain, TypeExecutor
<1> QED
  BY <1>1, <1>2, <1>3, <1>4, TypeHandler DEF Next

\* Every variable keeps its type.
THEOREM LifecycleTypes == Spec => []TypeOK
  BY TypeInit, TypeNext, PTL DEF Spec

-----------------------------------------------------------------------------
(* The lock and the executor.                                              *)

LEMMA LockedInit == Init => Locked
  BY DEF Init, Locked, OneExecutor, Startup, Listening

LEMMA LockedClients ==
    ASSUME TypeOK, Locked, NEW c \in Clients,
           \/ c \in Starts /\ (Start(c) \/ StartClient(c))
           \/ c \in Stops /\ Stop(c)
           \/ Finish(c) \/ Leave(c)
    PROVE  Locked'
<1>1. UNCHANGED <<lock, actor, shutdown>>
  BY DEF Start, StartClient, SpawnBroker, ReadStartup, ConnectUntil, TimeOut,
     Proceed, Finish, Stop, Leave, Client, brokers
<1>3. CASE c \in Starts /\ SpawnBroker(c)
  BY <1>1, <1>3
     DEF SpawnBroker, Locked, OneExecutor, Startup, Listening, TypeOK
<1>4. ASSUME UNCHANGED main,
             \A b \in Starts : phase'[b] \in {"idle", "spawn"}
                                 => phase[b] \in {"idle", "spawn"}
      PROVE  Locked'
  BY <1>1, <1>4 DEF Locked, OneExecutor, Startup, Listening
<1>2. CASE c \in Starts /\ Start(c)
  <2>1. UNCHANGED main /\ phase[c] = "idle"
    BY <1>2 DEF Start
  <2>2. \E p \in {"talk", "spawn"} : phase' = [phase EXCEPT ![c] = p]
    BY <1>2 DEF Start
  <2> QED
    BY <1>4, <2>1, <2>2 DEF TypeOK, Clients
<1>5. CASE \/ ReadStartup(c) \/ ConnectUntil(c) \/ TimeOut(c) \/ Proceed(c)
           \/ Stop(c) \/ Finish(c) \/ Leave(c)
  <2>1. UNCHANGED main
    BY <1>5 DEF ReadStartup, ConnectUntil, TimeOut, Proceed, Stop, Finish,
       Leave, brokers
  <2>2. \A b \in Starts : phase'[b] \in {"idle", "spawn"}
                            => phase[b] \in {"idle", "spawn"}
    <3>1. \/ UNCHANGED phase
          \/ \E p \in {"exists", "connect", "talk", "done"} :
                phase' = [phase EXCEPT ![c] = p]
      BY <1>5 DEF ReadStartup, ConnectUntil, TimeOut, Proceed, Stop, Finish,
         Leave, Done
    <3> QED
      BY <3>1 DEF TypeOK, Clients
  <2> QED
    BY <1>4, <2>1, <2>2
<1> QED
  BY <1>2, <1>3, <1>5 DEF StartClient

LEMMA LockedGone ==
    ASSUME TypeOK, Locked, NEW b \in Starts, Gone(b), main[b] # "none",
           UNCHANGED <<shutdown, phase>>
    PROVE  Locked'
  BY LifecycleAssumption
     DEF Gone, At, Locked, OneExecutor, Startup, Listening, TypeOK

LEMMA LockedMain ==
    ASSUME TypeOK, Locked, NEW b \in Starts, Main(b) \/ Die(b)
    PROVE  Locked'
<1>1. UNCHANGED <<shutdown, phase>>
  BY DEF Main, Lock, StatStale, RemoveStale, Bind, SpawnActor, Ready, Check,
     Accept, Unlink, AwaitComplete, AwaitAcknowledged, Join, Die, Broker,
     clients
<1>2. CASE Gone(b) /\ main[b] # "none"
  BY <1>1, <1>2, LockedGone
<1>3. CASE Lock(b)
  BY <1>1, <1>3, LifecycleAssumption
     DEF Lock, At, Locked, OneExecutor, Startup, Listening, TypeOK
<1>4. CASE SpawnActor(b) /\ ~Fails(b)
  BY <1>1, <1>4
     DEF SpawnActor, At, Locked, OneExecutor, Startup, Listening, TypeOK
<1>5. CASE \/ StatStale(b) \/ RemoveStale(b) \/ Bind(b) \/ Ready(b)
           \/ Check(b) \/ Accept(b) \/ Unlink(b) \/ AwaitComplete(b)
           \/ AwaitAcknowledged(b)
  <2>1. CASE Fails(b)
    BY <1>2, <1>5, <2>1 DEF Fails, StatStale, RemoveStale, Bind, Ready, Check,
       Accept, Unlink, AwaitComplete, AwaitAcknowledged
  <2>2. CASE ~Fails(b)
    <3>1. UNCHANGED <<lock, actor>>
      BY <1>5, <2>2 DEF StatStale, RemoveStale, Bind, Ready, Check,
         Accept, Unlink, AwaitComplete, AwaitAcknowledged
    <3> QED
      BY <1>1, <1>5, <2>2, <3>1
         DEF StatStale, RemoveStale, Bind, Ready, Check, Accept, Unlink,
         AwaitComplete, AwaitAcknowledged, At, Locked, OneExecutor, Startup,
         Listening, TypeOK
  <2> QED
    BY <2>1, <2>2
<1>6. CASE Join(b) \/ Die(b) \/ (SpawnActor(b) /\ Fails(b))
  BY <1>2, <1>6 DEF Join, Die, SpawnActor, Fails
<1> QED
  BY <1>3, <1>4, <1>5, <1>6 DEF Main

LEMMA LockedExecutor ==
    ASSUME TypeOK, Locked, NEW b \in Starts, Executor(b)
    PROVE  Locked'
  BY DEF Executor, Drain, SetComplete, DropLock, Act, Broker, clients, Locked,
     OneExecutor, Startup, Listening, TypeOK

LEMMA LockedHandler ==
    ASSUME TypeOK, Locked, NEW c \in Clients, Handler(c)
    PROVE  Locked'
<1>1. UNCHANGED <<lock, main, actor, phase>>
  BY DEF Handler, PeerGone, Negotiate, Respond, RequestStop, RequestShutdown,
     ReplyStop, Handled
<1>2. \A b \in Starts : shutdown[b] => shutdown'[b]
  BY DEF Handler, PeerGone, Negotiate, Respond, RequestStop, RequestShutdown,
     ReplyStop, Handled, TypeOK
<1> QED
  BY <1>1, <1>2 DEF Locked, OneExecutor, Startup, Listening

\* The four kinds of steps, as the lemmas about them take them.
LEMMA Steps ==
    ASSUME [Next]_vars, NEW P,
           UNCHANGED vars => P,
           \A c \in Clients : \/ c \in Starts /\ (Start(c) \/ StartClient(c))
                              \/ c \in Stops /\ Stop(c)
                              \/ Finish(c) \/ Leave(c)
                              => P,
           \A b \in Starts : Main(b) \/ Die(b) => P,
           \A b \in Starts : Executor(b) => P,
           \A c \in Clients : Handler(c) => P
    PROVE  P
<1>1. ASSUME NEW c \in Starts, Start(c) \/ StartClient(c) \/ Leave(c)
      PROVE  P
  BY <1>1 DEF Clients
<1>2. ASSUME NEW c \in Stops, Stop(c) \/ Finish(c) \/ Leave(c)
      PROVE  P
  BY <1>2 DEF Clients
<1> QED
  BY <1>1, <1>2 DEF Next

LEMMA LockedNext == TypeOK /\ Locked /\ [Next]_vars => Locked'
<1> SUFFICES ASSUME TypeOK, Locked, [Next]_vars PROVE Locked'
  OBVIOUS
<1>1. CASE UNCHANGED vars
  BY <1>1 DEF vars, brokers, clients, Locked, OneExecutor, Startup, Listening
<1> QED
  BY <1>1, Steps, LockedClients, LockedMain, LockedExecutor, LockedHandler

\* There is one executor at a time, whatever starts, stops, errors and kills do.
THEOREM OneExecutorAtATime == Spec => []OneExecutor
<1>1. Locked => OneExecutor
  BY DEF Locked
<1> QED
  BY <1>1, TypeInit, TypeNext, LockedInit, LockedNext, PTL DEF Spec

-----------------------------------------------------------------------------
(* The brokers that the path and the connections stand for.                *)

LEMMA BoundInit == Init => Bound
  BY DEF Init, Bound, SocketRemoved

\* A client does nothing to a broker but spawn one, and connects to one that
\* listens.
LEMMA ClientStep ==
    ASSUME TypeOK, Locked, NEW c \in Clients,
           \/ c \in Starts /\ (Start(c) \/ StartClient(c))
           \/ c \in Stops /\ Stop(c)
           \/ Finish(c) \/ Leave(c)
    PROVE  /\ UNCHANGED <<lock, path, actor, said, shutdown, stopRequested,
                          acknowledged, failed>>
           /\ \/ UNCHANGED main
              \/ /\ c \in Starts /\ main[c] = "none"
                 /\ main' = [main EXCEPT ![c] = "lock"]
           /\ \/ UNCHANGED conn
              \/ conn' = [conn EXCEPT ![c] = path] /\ Reachable
              \/ conn' = [conn EXCEPT ![c] = None]
<1>1. CASE c \in Starts /\ SpawnBroker(c)
  BY <1>1 DEF SpawnBroker, Client, Disconnected, Locked
<1>2. CASE \/ Start(c) \/ ReadStartup(c) \/ ConnectUntil(c) \/ TimeOut(c)
           \/ Proceed(c) \/ Finish(c) \/ Stop(c)
  BY <1>2 DEF Start, ReadStartup, ConnectUntil, TimeOut, Proceed, Finish, Stop,
     Client, Disconnected, Connect
<1>3. CASE Leave(c)
  BY <1>3 DEF Leave, brokers
<1> QED
  BY <1>1, <1>2, <1>3 DEF StartClient

LEMMA BoundClients ==
    ASSUME TypeOK, Locked, Bound, NEW c \in Clients,
           \/ c \in Starts /\ (Start(c) \/ StartClient(c))
           \/ c \in Stops /\ Stop(c)
           \/ Finish(c) \/ Leave(c)
    PROVE  Bound'
<1>1. \A b \in Starts : /\ Startup(b) <=> Startup(b)'
                        /\ SocketRemoved(b) <=> SocketRemoved(b)'
                        /\ main[b] = "gone" <=> main'[b] = "gone"
  BY ClientStep DEF Startup, SocketRemoved, TypeOK
<1>2. UNCHANGED <<path, said>>
  BY ClientStep
<1>3. \A d \in Clients : conn'[d] \in {conn[d], None}
                           \/ (conn'[d] = path /\ Reachable)
  BY ClientStep DEF TypeOK
<1>4. Reachable => /\ path \in Starts /\ ~Startup(path)
                   /\ main[path] # "gone"
  BY DEF Reachable, Listening, Startup, TypeOK
<1>5. path' # None => ~Startup(path)'
  BY <1>1, <1>2 DEF Bound, Startup, TypeOK
<1>6. ASSUME NEW d \in Clients, conn'[d] # None
      PROVE  ~Startup(conn[d])'
  <2>1. conn'[d] \in Starts /\ ~Startup(conn'[d])
    BY <1>3, <1>4, <1>6 DEF Bound, TypeOK
  <2> QED
    BY <1>1, <2>1 DEF Startup
<1>7. ASSUME NEW b \in Starts
      PROVE  /\ SocketRemoved(b)' => path' # b
             /\ said'[b] = "exists" => /\ main'[b] = "gone" /\ path' # b
                                       /\ \A d \in Clients : conn'[d] # b
  BY <1>1, <1>2, <1>3, <1>4, LifecycleAssumption DEF Bound
<1> QED
  BY <1>5, <1>6, <1>7 DEF Bound, Startup

\* <1>2: a step of main that is neither the verdict on the lock, nor the
\* binding, nor READY.
LEMMA BoundMain ==
    ASSUME TypeOK, Locked, Bound, NEW b \in Starts, Main(b) \/ Die(b)
    PROVE  Bound'
<1>1. UNCHANGED conn
  BY DEF Main, Lock, StatStale, RemoveStale, Bind, SpawnActor, Ready, Check,
     Accept, Unlink, AwaitComplete, AwaitAcknowledged, Join, Die, Broker,
     clients
<1>2. ASSUME UNCHANGED said, UNCHANGED path \/ path' = None,
             NEW place, At(b, place),
             ~Startup(b) => place \notin {"none", "lock", "stale", "remove",
                                          "bind"},
             place = "complete" => path' = None,
             place \in {"acknowledge", "join"} => SocketRemoved(b),
             main[b] # "gone"
      PROVE  Bound'
  BY <1>1, <1>2, LifecycleAssumption
     DEF Bound, At, Startup, SocketRemoved, TypeOK
<1>3. CASE Gone(b) /\ UNCHANGED <<path, said>> /\ main[b] # "gone"
  BY <1>2, <1>3 DEF Gone
<1>4. CASE Lock(b)
  BY <1>1, <1>4, LifecycleAssumption
     DEF Lock, At, Broker, clients, Bound, Startup, SocketRemoved, TypeOK
<1>5. CASE Bind(b) /\ ~Fails(b)
  <2>1. /\ path = None /\ path' = b /\ main[b] = "bind"
        /\ main' = [main EXCEPT ![b] = "spawn"] /\ UNCHANGED said
    BY <1>5 DEF Bind, At
  <2> QED
    BY <1>1, <2>1 DEF Bound, Startup, SocketRemoved, TypeOK
<1>6. CASE Ready(b) /\ ~Fails(b)
  BY <1>1, <1>6 DEF Ready, At, Broker, clients, Bound, Startup, SocketRemoved,
     TypeOK
<1>7. CASE \/ Join(b) \/ Die(b)
           \/ Fails(b) /\ (RemoveStale(b) \/ Bind(b) \/ SpawnActor(b) \/ Ready(b))
  <2>1. Gone(b) /\ main[b] # "gone"
    BY <1>7 DEF Join, Die, Fails, RemoveStale, Bind, SpawnActor, Ready
  <2>2. UNCHANGED said
    BY <1>7 DEF Join, Die, Fails, Gone, At, RemoveStale, Bind, SpawnActor,
       Ready, TypeOK
  <2>3. path' = path \/ path' = None
    BY <1>7, <2>1 DEF Join, Die, RemoveStale, Bind, SpawnActor, Ready, Gone, At,
       TypeOK
  <2> QED
    BY <1>2, <2>1, <2>2, <2>3 DEF Gone
<1>8. CASE \/ StatStale(b) \/ Check(b) \/ Accept(b) \/ AwaitComplete(b)
           \/ AwaitAcknowledged(b) \/ Unlink(b)
  <2>1. UNCHANGED said /\ (path' = None \/ UNCHANGED path)
    BY <1>8 DEF StatStale, Check, Accept, AwaitComplete, AwaitAcknowledged,
       Unlink
  <2>2. CASE StatStale(b)
    BY <1>2, <2>1, <2>2 DEF StatStale, Startup
  <2>3. CASE Check(b) \/ Accept(b)
    BY <1>2, <2>1, <2>3 DEF Check, Accept
  <2>4. CASE AwaitComplete(b) \/ AwaitAcknowledged(b)
    BY <1>2, <2>1, <2>4 DEF AwaitComplete, AwaitAcknowledged, SocketRemoved
  <2>5. CASE Unlink(b)
    BY <1>2, <2>1, <2>5 DEF Unlink
  <2> QED
    BY <1>8, <2>2, <2>3, <2>4, <2>5
<1>9. CASE (RemoveStale(b) \/ SpawnActor(b)) /\ ~Fails(b)
  <2>1. CASE RemoveStale(b)
    BY <1>2, <1>9, <2>1 DEF RemoveStale, Startup
  <2>2. CASE SpawnActor(b)
    BY <1>2, <1>9, <2>2 DEF SpawnActor
  <2> QED
    BY <1>9, <2>1, <2>2
<1> QED
  BY <1>4, <1>5, <1>6, <1>7, <1>8, <1>9 DEF Main

LEMMA BoundNext == TypeOK /\ Locked /\ Bound /\ [Next]_vars => Bound'
<1> SUFFICES ASSUME TypeOK, Locked, Bound, [Next]_vars PROVE Bound'
  OBVIOUS
<1>1. CASE UNCHANGED <<path, conn, main, said>>
  BY <1>1 DEF Bound, Startup, SocketRemoved
<1>2. UNCHANGED vars => UNCHANGED <<path, conn, main, said>>
  BY DEF vars, brokers, clients
<1>3. \A b \in Starts : Executor(b) => UNCHANGED <<path, conn, main, said>>
  BY DEF Executor, Drain, SetComplete, DropLock, Act, Broker, clients
<1>4. \A c \in Clients : Handler(c) => UNCHANGED <<path, conn, main, said>>
  BY DEF Handler, PeerGone, Negotiate, Respond, RequestStop, RequestShutdown,
     ReplyStop, Handled
<1> QED
  BY <1>1, <1>2, <1>3, <1>4, Steps, BoundClients, BoundMain

\* A broker that serves has the lock, so that what startup removes is the path
\* of one that does not, or was told to end.
THEOREM StaleRemoved == Spec => OnlyStaleRemoved
<1>1. ASSUME TypeOK, Locked, NEW b \in Starts, RemoveStale(b)
      PROVE  path = None \/ ~Listening(path) \/ shutdown[path]
  <2> SUFFICES ASSUME path # None, Listening(path), ~shutdown[path]
               PROVE  FALSE
    OBVIOUS
  <2>1. path \in Starts /\ main[b] = "remove" /\ lock = b
    BY <1>1 DEF RemoveStale, Locked, TypeOK
  <2>2. path # b
    BY <2>1 DEF Listening
  <2>3. CASE main[path] = "spawn"
    BY <2>1, <2>2, <2>3, <1>1 DEF Locked
  <2>4. CASE main[path] # "spawn"
    <3>1. actor[path] # "none" /\ main[path] # "gone"
      BY <2>1, <2>4, <1>1 DEF Locked, Listening
    <3>2. actor[path] \in {"run", "drained", "complete"}
      BY <2>1, <3>1, <1>1 DEF Locked, TypeOK
    <3> QED
      BY <2>1, <2>2, <3>2, <1>1 DEF Locked, OneExecutor
  <2> QED
    BY <2>3, <2>4
<1>2. TypeOK /\ Locked /\ [Next]_vars
        => [\A b \in Starts : RemoveStale(b) =>
               path = None \/ ~Listening(path) \/ shutdown[path]]_vars
  BY <1>1
<1> QED
  BY <1>2, TypeInit, TypeNext, LockedInit, LockedNext, PTL
     DEF Spec, OnlyStaleRemoved

-----------------------------------------------------------------------------
(* What a stop has waited for.                                             *)

LEMMA StoppingInit == Init => Stopping
  BY DEF Init, Stopping, Waited, Clients

\* A broker that is down stays down: its socket is not bound again.
LEMMA DownStays ==
    ASSUME TypeOK, Locked, [Next]_vars, NEW b \in Starts, Down(b)
    PROVE  Down(b)'
<1>1. main[b] \in {"unlink", "complete", "acknowledge", "join", "gone"}
  BY DEF Down, Listening, Startup, TypeOK
<1>2. ASSUME UNCHANGED <<main, actor, path>>
      PROVE  Down(b)'
  BY <1>2 DEF Down, Listening, Startup, Complete
<1>3. UNCHANGED vars => UNCHANGED <<main, actor, path>>
  BY DEF vars, brokers
<1>4. \A c \in Clients : Handler(c) => UNCHANGED <<main, actor, path>>
  BY DEF Handler, PeerGone, Negotiate, Respond, RequestStop, RequestShutdown,
     ReplyStop, Handled
<1>5. ASSUME NEW c \in Clients,
             \/ c \in Starts /\ (Start(c) \/ StartClient(c))
             \/ c \in Stops /\ Stop(c)
             \/ Finish(c) \/ Leave(c)
      PROVE  Down(b)'
  <2>1. UNCHANGED <<actor, path>> /\ main'[b] = main[b]
    BY <1>1, <1>5, ClientStep DEF TypeOK
  <2> QED
    BY <2>1 DEF Down, Listening, Startup, Complete
<1>6. ASSUME NEW e \in Starts, Executor(e)
      PROVE  Down(b)'
  BY <1>6 DEF Executor, Drain, SetComplete, DropLock, Act, Down, Listening,
     Startup, Complete, TypeOK
<1>7. ASSUME NEW e \in Starts, Main(e) \/ Die(e)
      PROVE  Down(b)'
  <2>1. path' # b
    BY <1>1, <1>7, LifecycleAssumption
       DEF Main, Lock, StatStale, RemoveStale, Bind, SpawnActor, Ready, Check,
       Accept, Unlink, AwaitComplete, AwaitAcknowledged, Join, Die, Down
  <2>2. main'[b] \in {"unlink", "complete", "acknowledge", "join", "gone"}
    BY <1>1, <1>7 DEF Main, Lock, StatStale, RemoveStale, Bind, SpawnActor,
       Ready, Check, Accept, Unlink, AwaitComplete, AwaitAcknowledged, Join,
       Die, Fails, Gone, At, TypeOK
  <2>3. Complete(b)'
    <3>1. \/ UNCHANGED actor
          \/ Gone(e)
          \/ SpawnActor(e) /\ ~Fails(e)
      BY <1>7 DEF Main, Lock, StatStale, RemoveStale, Bind, SpawnActor, Ready,
         Check, Accept, Unlink, AwaitComplete, AwaitAcknowledged, Join, Die,
         Fails
    <3> QED
      BY <1>1, <3>1 DEF SpawnActor, Gone, Down, Complete, TypeOK
  <2> QED
    BY <2>1, <2>2, <2>3 DEF Down, Listening, Startup
<1> QED
  BY <1>2, <1>3, <1>4, <1>5, <1>6, <1>7, Steps

\* How the connection of a stop may move on: it keeps its broker, a reply is
\* the last thing that happens to it, and what is over is over.
Moves(d) ==
    /\ conn[d] # None => conn'[d] = conn[d]
    /\ hand[d] \in {"ok", "closed", "refused"} => hand'[d] = hand[d]
    /\ hand[d] = "waiting" => hand'[d] \in {"waiting", "ok", "closed"}
    /\ phase[d] = "done" => phase'[d] = "done" /\ result'[d] = result[d]

LEMMA StopsMove ==
    ASSUME TypeOK, Stopping, [Next]_vars, NEW d \in Stops
    PROVE  Moves(d)
<1>0. d \in Clients /\ d \notin Starts
  BY LifecycleAssumption DEF Clients
<1>1. ASSUME conn'[d] = conn[d], hand'[d] = hand[d], phase'[d] = phase[d],
             result'[d] = result[d]
      PROVE  Moves(d)
  BY <1>1 DEF Moves
<1>2. UNCHANGED clients => Moves(d)
  BY <1>1 DEF clients
<1>3. UNCHANGED vars => UNCHANGED clients
  BY DEF vars
<1>4. \A b \in Starts : Executor(b) => UNCHANGED clients
  BY DEF Executor, Drain, SetComplete, DropLock, Act, Broker
<1>5. ASSUME NEW b \in Starts, Main(b) \/ Die(b)
      PROVE  Moves(d)
  <2>1. CASE Accept(b)
    BY <1>0, <2>1 DEF Accept, Waiting, Moves, TypeOK
  <2>2. CASE ~Accept(b)
    BY <1>2, <1>5, <2>2 DEF Main, Lock, StatStale, RemoveStale, Bind,
       SpawnActor, Ready, Check, Unlink, AwaitComplete, AwaitAcknowledged,
       Join, Die, Broker
  <2> QED
    BY <2>1, <2>2
<1>6. ASSUME NEW c \in Clients, Handler(c)
      PROVE  Moves(d)
  <2>1. CASE c # d
    BY <1>0, <1>1, <1>6, <2>1 DEF Handler, PeerGone, Negotiate, Respond,
       RequestStop, RequestShutdown, ReplyStop, Handled, TypeOK
  <2>2. CASE c = d
    BY <1>0, <1>6, <2>2 DEF Handler, PeerGone, Negotiate, Respond,
       RequestStop, RequestShutdown, ReplyStop, Handled, TypeOK, Moves
  <2> QED
    BY <2>1, <2>2
<1>7. ASSUME NEW c \in Clients,
             \/ c \in Starts /\ (Start(c) \/ StartClient(c))
             \/ c \in Stops /\ Stop(c)
             \/ Finish(c) \/ Leave(c)
      PROVE  Moves(d)
  <2>1. CASE c # d
    BY <1>0, <1>1, <1>7, <2>1 DEF Start, StartClient, SpawnBroker,
       ReadStartup, ConnectUntil, TimeOut, Proceed, Finish, Stop, Leave, Done,
       Connect, Disconnected, TypeOK
  <2>2. CASE c = d
    BY <1>0, <1>7, <2>2 DEF Stop, Finish, Leave, Done, Connect, Disconnected,
       TypeOK, Moves, Stopping, Waited
  <2> QED
    BY <2>1, <2>2
<1> QED
  BY <1>2, <1>3, <1>4, <1>5, <1>6, <1>7, Steps

\* A step that leaves a stop's client and connection as they are.
LEMMA StoppingKept ==
    ASSUME TypeOK, Locked, Stopping, [Next]_vars, NEW d \in Stops,
           UNCHANGED <<phase[d], conn[d], hand[d], result[d]>>
    PROVE  Waited(d)'
<1>1. ASSUME hand[d] = "ok"
      PROVE  Down(conn[d])'
  <2>1. conn[d] \in Starts /\ Down(conn[d])
    BY <1>1 DEF Stopping, Waited, TypeOK, Clients
  <2>2. PICK b \in Starts : b = conn[d] /\ Down(b)
    BY <2>1
  <2>3. Down(b)'
    BY <2>2, DownStays
  <2>4. b = conn'[d]
    BY <2>2
  <2> QED
    BY <2>3, <2>4 DEF Down, Listening, Startup, Complete
<1> QED
  BY <1>1 DEF Stopping, Waited

LEMMA StoppingHandler ==
    ASSUME TypeOK, Bound, Stopping, NEW d \in Stops, Handler(d)
    PROVE  Waited(d)'
<1>0. d \in Clients /\ d \notin Starts /\ Waited(d)
  BY LifecycleAssumption DEF Clients, Stopping
<1>1. UNCHANGED <<phase, conn, result, main, actor, path>>
  BY DEF Handler, PeerGone, Negotiate, Respond, RequestStop, RequestShutdown,
     ReplyStop, Handled
<1>2. hand[d] # "queued"
  BY <1>0 DEF Waited
<1>3. CASE PeerGone(d) \/ RequestStop(d) \/ RequestShutdown(d)
  BY <1>0, <1>1, <1>3 DEF PeerGone, RequestStop, RequestShutdown, Handled,
     Waited, TypeOK
<1>4. CASE ReplyStop(d)
  <2>1. conn[d] \in Starts
    BY <1>0, <1>4 DEF ReplyStop, Handled, TypeOK
  <2>2. Down(conn[d])
    BY <1>4, <2>1 DEF ReplyStop, Down, SocketRemoved, Listening, Startup, Bound
  <2>3. Down(conn[d])'
    BY <1>1, <2>2 DEF Down, Listening, Startup, Complete
  <2> QED
    BY <1>0, <1>1, <1>4, <2>3 DEF ReplyStop, Handled, Waited, TypeOK
<1> QED
  BY <1>0, <1>2, <1>3, <1>4 DEF Handler, Negotiate, Respond

LEMMA StoppingClient ==
    ASSUME TypeOK, Stopping, NEW d \in Stops, Stop(d) \/ Finish(d) \/ Leave(d)
    PROVE  Waited(d)'
<1>0. d \in Clients /\ Waited(d)
  BY DEF Clients, Stopping
<1>1. UNCHANGED <<main, actor, path>>
  BY DEF Stop, Finish, Leave, Client, brokers
<1>2. CASE Stop(d)
  BY <1>0, <1>2 DEF Stop, Connect, Disconnected, Done, Waited, TypeOK
<1>3. CASE Finish(d) \/ Leave(d)
  <2>1. UNCHANGED <<conn, hand>>
    BY <1>3 DEF Finish, Leave, Disconnected
  <2>2. hand[d] = "ok" => Down(conn[d])'
    BY <1>0, <1>1, <2>1 DEF Waited, Down, Listening, Startup, Complete
  <2>3. /\ phase' = [phase EXCEPT ![d] = "done"]
        /\ \/ hand[d] = "ok" /\ result' = [result EXCEPT ![d] = "ok"]
           \/ conn[d] # None /\ result' = [result EXCEPT ![d] = "failed"]
           \/ result' = [result EXCEPT ![d] = "left"]
    BY <1>0, <1>3 DEF Finish, Leave, Done, Closed, Waited
  <2> QED
    BY <1>0, <2>1, <2>2, <2>3 DEF Waited, TypeOK
<1> QED
  BY <1>2, <1>3

LEMMA StoppingNext ==
    TypeOK /\ Locked /\ Bound /\ Stopping /\ [Next]_vars => Stopping'
<1> SUFFICES ASSUME TypeOK, Locked, Bound, Stopping, [Next]_vars,
                    NEW d \in Stops
             PROVE  Waited(d)'
  BY DEF Stopping
<1>0. d \in Clients /\ d \notin Starts
  BY LifecycleAssumption DEF Clients
<1>1. UNCHANGED clients => Waited(d)'
  BY StoppingKept DEF clients
<1>2. UNCHANGED vars => UNCHANGED clients
  BY DEF vars
<1>3. \A b \in Starts : Executor(b) => UNCHANGED clients
  BY DEF Executor, Drain, SetComplete, DropLock, Act, Broker
<1>4. ASSUME NEW b \in Starts, Main(b) \/ Die(b)
      PROVE  Waited(d)'
  <2>1. CASE Accept(b)
    <3>1. \/ UNCHANGED <<phase[d], conn[d], hand[d], result[d]>>
          \/ hand[d] = "backlog" /\ hand'[d] \in {"open", "refused"}
             /\ UNCHANGED <<phase, conn, result>>
      BY <1>0, <2>1 DEF Accept, Waiting, TypeOK
    <3> QED
      BY <3>1, StoppingKept DEF Stopping, Waited
  <2>2. CASE ~Accept(b)
    BY <1>1, <1>4, <2>2 DEF Main, Lock, StatStale, RemoveStale, Bind,
       SpawnActor, Ready, Check, Unlink, AwaitComplete, AwaitAcknowledged,
       Join, Die, Broker
  <2> QED
    BY <2>1, <2>2
<1>5. ASSUME NEW c \in Clients, c # d,
             \/ c \in Starts /\ (Start(c) \/ StartClient(c))
             \/ c \in Stops /\ Stop(c)
             \/ Finish(c) \/ Leave(c) \/ Handler(c)
      PROVE  Waited(d)'
  <2>1. UNCHANGED <<phase[d], conn[d], hand[d], result[d]>>
    BY <1>0, <1>5 DEF Start, StartClient, SpawnBroker, ReadStartup,
       ConnectUntil, TimeOut, Proceed, Finish, Stop, Leave, Done, Connect,
       Disconnected, Handler, PeerGone, Negotiate, Respond, RequestStop,
       RequestShutdown, ReplyStop, Handled, TypeOK
  <2> QED
    BY <2>1, StoppingKept
<1> QED
  BY <1>0, <1>1, <1>2, <1>3, <1>4, <1>5, Steps, StoppingHandler,
     StoppingClient

\* A stop that exits 0 left nobody to connect to, no executor and no socket.
THEOREM StopsTakeDown == Spec => []StoppedIsDown
<1>1. TypeOK /\ Stopping => StoppedIsDown
  BY DEF Stopping, Waited, Down, StoppedIsDown, TypeOK, Clients
<1> QED
  BY <1>1, TypeInit, TypeNext, LockedInit, LockedNext, BoundInit, BoundNext,
     StoppingInit, StoppingNext, PTL DEF Spec

-----------------------------------------------------------------------------
(* Who asked a broker to end.                                              *)

LEMMA AskedInit == Init => Asked
  BY DEF Init, Asked, AskedToEnd, SocketRemoved, Clients

LEMMA ServedStays ==
    ASSUME TypeOK, Stopping, [Next]_vars, NEW b \in Starts
    PROVE  /\ Served(b, {"waiting", "ok", "closed"})
                => Served(b, {"waiting", "ok", "closed"})'
           /\ Served(b, {"ok", "closed"}) => Served(b, {"ok", "closed"})'
<1>1. \A d \in Stops : conn[d] = b => conn'[d] = b
  BY StopsMove, LifecycleAssumption DEF Moves
<1>2. \A d \in Stops : /\ hand[d] \in {"waiting", "ok", "closed"}
                            => hand'[d] \in {"waiting", "ok", "closed"}
                       /\ hand[d] \in {"ok", "closed"}
                            => hand'[d] \in {"ok", "closed"}
  BY StopsMove DEF Moves
<1> QED
  BY <1>1, <1>2 DEF Served

\* A step that takes no flag back and has a reason for where it brings main.
LEMMA AskedKept ==
    ASSUME TypeOK, Stopping, [Next]_vars, NEW b \in Starts, AskedToEnd(b),
           UNCHANGED <<shutdown[b], acknowledged[b]>>,
           stopRequested[b] => stopRequested'[b],
           main'[b] = "unlink" \/ SocketRemoved(b)' => shutdown[b],
           main'[b] = "join" => acknowledged[b],
           main'[b] = "gone" => \/ b \in failed' \/ said'[b] = "exists"
                                \/ shutdown[b] /\ acknowledged[b]
    PROVE  AskedToEnd(b)'
  BY ServedStays DEF AskedToEnd

LEMMA AskedMain ==
    ASSUME TypeOK, Stopping, Asked, [Next]_vars, NEW b \in Starts,
           Main(b) \/ Die(b), NEW e \in Starts
    PROVE  AskedToEnd(e)'
<1>0. AskedToEnd(b) /\ AskedToEnd(e)
  BY DEF Asked
<1>1. UNCHANGED <<shutdown, stopRequested, acknowledged>>
  BY DEF Main, Lock, StatStale, RemoveStale, Bind, SpawnActor, Ready, Check,
     Accept, Unlink, AwaitComplete, AwaitAcknowledged, Join, Die
<1>2. failed \subseteq failed'
  BY DEF Main, Lock, StatStale, RemoveStale, Bind, SpawnActor, Ready, Check,
     Accept, Unlink, AwaitComplete, AwaitAcknowledged, Join, Die, Fails
<1>3. \A x \in Starts \ {b} : main'[x] = main[x] /\ said'[x] = said[x]
  BY DEF Main, Lock, StatStale, RemoveStale, Bind, SpawnActor, Ready, Check,
     Accept, Unlink, AwaitComplete, AwaitAcknowledged, Join, Die, Fails, Gone,
     At, TypeOK
<1>4. CASE e # b
  BY <1>0, <1>1, <1>2, <1>3, <1>4, AskedKept DEF AskedToEnd, SocketRemoved
<1>5. CASE e = b
  <2>1. main'[b] = "unlink" \/ SocketRemoved(b)' => shutdown[b]
    BY <1>0 DEF AskedToEnd, SocketRemoved, Main, Lock, StatStale, RemoveStale,
       Bind, SpawnActor, Ready, Check, Accept, Unlink, AwaitComplete,
       AwaitAcknowledged, Join, Die, Fails, Gone, At, TypeOK
  <2>2. main'[b] = "join" => acknowledged[b]
    BY <1>0 DEF AskedToEnd, SocketRemoved, Main, Lock, StatStale, RemoveStale,
       Bind, SpawnActor, Ready, Check, Accept, Unlink, AwaitComplete,
       AwaitAcknowledged, Join, Die, Fails, Gone, At, TypeOK
  <2>3. main'[b] = "gone" => \/ b \in failed' \/ said'[b] = "exists"
                             \/ shutdown[b] /\ acknowledged[b]
    <3>1. CASE Fails(b)
      BY <3>1 DEF Fails
    <3>2. CASE Lock(b)
      BY <3>2 DEF Lock, At, TypeOK
    <3>3. CASE Join(b)
      BY <1>0, <3>3 DEF Join, AskedToEnd, SocketRemoved
    <3>4. CASE ~Fails(b) /\ ~Lock(b) /\ ~Join(b)
      BY <3>4 DEF Main, StatStale, RemoveStale, Bind, SpawnActor, Ready, Check,
         Accept, Unlink, AwaitComplete, AwaitAcknowledged, Die, At, TypeOK
    <3> QED
      BY <3>1, <3>2, <3>3, <3>4
  <2> QED
    BY <1>0, <1>1, <1>5, <2>1, <2>2, <2>3, AskedKept
<1> QED
  BY <1>4, <1>5

LEMMA AskedHandler ==
    ASSUME TypeOK, Stopping, Asked, [Next]_vars, NEW c \in Clients, Handler(c),
           NEW e \in Starts
    PROVE  AskedToEnd(e)'
<1>0. AskedToEnd(e) /\ conn[c] \in Starts
  BY DEF Asked, Handler, PeerGone, Negotiate, Respond, RequestStop,
     RequestShutdown, ReplyStop, Handled, TypeOK
<1>1. UNCHANGED <<main, said, failed, conn>>
  BY DEF Handler, PeerGone, Negotiate, Respond, RequestStop, RequestShutdown,
     ReplyStop, Handled
<1>2. CASE PeerGone(c) \/ Negotiate(c) \/ Respond(c) \/ RequestStop(c)
  <2>1. /\ UNCHANGED <<shutdown, acknowledged>>
        /\ stopRequested[e] => stopRequested'[e]
    BY <1>0, <1>2 DEF PeerGone, Negotiate, Respond, RequestStop, TypeOK
  <2> QED
    BY <1>0, <1>1, <2>1, AskedKept DEF AskedToEnd, SocketRemoved
<1>3. CASE RequestShutdown(c)
  <2>1. /\ c \in Stops /\ stopRequested[conn[c]] /\ hand'[c] = "waiting"
        /\ UNCHANGED <<stopRequested, acknowledged>>
        /\ shutdown' = [shutdown EXCEPT ![conn[c]] = TRUE]
    BY <1>3 DEF RequestShutdown, Handled, Asked, TypeOK
  <2>2. CASE e = conn[c]
    <3>1. Served(e, {"waiting", "ok", "closed"})'
      BY <1>1, <2>1, <2>2 DEF Served
    <3> QED
      BY <1>0, <1>1, <2>1, <2>2, <3>1, ServedStays
         DEF AskedToEnd, SocketRemoved, TypeOK
  <2>3. CASE e # conn[c]
    <3>1. shutdown'[e] = shutdown[e]
      BY <2>1, <2>3 DEF TypeOK
    <3> QED
      BY <1>0, <1>1, <2>1, <3>1, AskedKept DEF AskedToEnd, SocketRemoved
  <2> QED
    BY <2>2, <2>3
<1>4. CASE ReplyStop(c)
  <2>1. /\ c \in Stops /\ hand'[c] \in {"ok", "closed"}
        /\ UNCHANGED <<stopRequested, shutdown>>
        /\ acknowledged' = [acknowledged EXCEPT ![conn[c]] = TRUE]
    BY <1>4 DEF ReplyStop, Handled, Asked, TypeOK
  <2>2. CASE e = conn[c]
    <3>1. Served(e, {"ok", "closed"})'
      BY <1>1, <2>1, <2>2 DEF Served
    <3> QED
      BY <1>0, <1>1, <2>1, <2>2, <3>1, ServedStays
         DEF AskedToEnd, SocketRemoved, TypeOK
  <2>3. CASE e # conn[c]
    <3>1. acknowledged'[e] = acknowledged[e]
      BY <2>1, <2>3 DEF TypeOK
    <3> QED
      BY <1>0, <1>1, <2>1, <3>1, AskedKept DEF AskedToEnd, SocketRemoved
  <2> QED
    BY <2>2, <2>3
<1> QED
  BY <1>2, <1>3, <1>4 DEF Handler

LEMMA AskedNext ==
    TypeOK /\ Locked /\ Stopping /\ Asked /\ [Next]_vars => Asked'
<1> SUFFICES ASSUME TypeOK, Locked, Stopping, Asked, [Next]_vars
             PROVE  Asked'
  OBVIOUS
<1> DEFINE Told(d) == hand[d] \in {"requested", "waiting"} =>
                        d \in Stops /\ stopRequested[conn[d]]
<1>1. ASSUME NEW e \in Starts
      PROVE  AskedToEnd(e)'
  <2>1. AskedToEnd(e)
    BY DEF Asked
  <2>2. ASSUME UNCHANGED <<main, said, shutdown, stopRequested, acknowledged,
                           failed>>
        PROVE  AskedToEnd(e)'
    BY <2>1, <2>2, AskedKept DEF AskedToEnd, SocketRemoved
  <2>3. UNCHANGED vars => AskedToEnd(e)'
    BY <2>2 DEF vars, brokers
  <2>4. \A b \in Starts : Executor(b) => AskedToEnd(e)'
    BY <2>2 DEF Executor, Drain, SetComplete, DropLock, Act
  <2>5. ASSUME NEW c \in Clients,
               \/ c \in Starts /\ (Start(c) \/ StartClient(c))
               \/ c \in Stops /\ Stop(c)
               \/ Finish(c) \/ Leave(c)
        PROVE  AskedToEnd(e)'
    <3>1. /\ UNCHANGED <<said, shutdown, stopRequested, acknowledged, failed>>
          /\ main'[e] = main[e] \/ main'[e] = "lock"
      BY <2>5, ClientStep DEF TypeOK
    <3> QED
      BY <2>1, <3>1, AskedKept DEF AskedToEnd, SocketRemoved
  <2> QED
    BY <2>3, <2>4, <2>5, Steps, AskedMain, AskedHandler
<1>2. ASSUME NEW d \in Clients
      PROVE  Told(d)'
  <2>1. Told(d)
    BY DEF Asked
  <2>2. ASSUME conn'[d] = conn[d], hand'[d] = hand[d],
               \A b \in Starts : stopRequested[b] => stopRequested'[b]
        PROVE  Told(d)'
    BY <2>1, <2>2, LifecycleAssumption DEF TypeOK
  <2>3. UNCHANGED <<conn, hand, stopRequested>> => Told(d)'
    BY <2>2
  <2>4. UNCHANGED vars => Told(d)'
    BY <2>3 DEF vars, brokers, clients
  <2>5. \A b \in Starts : Executor(b) => Told(d)'
    BY <2>3 DEF Executor, Drain, SetComplete, DropLock, Act, Broker, clients
  <2>6. ASSUME NEW b \in Starts, Main(b) \/ Die(b)
        PROVE  Told(d)'
    <3>1. CASE Accept(b)
      <4>1. UNCHANGED <<conn, stopRequested>>
            /\ (hand'[d] = hand[d] \/ hand'[d] \in {"open", "refused"})
        BY <3>1 DEF Accept, Waiting, TypeOK
      <4> QED
        BY <2>1, <4>1
    <3>2. CASE ~Accept(b)
      BY <2>3, <2>6, <3>2 DEF Main, Lock, StatStale, RemoveStale, Bind,
         SpawnActor, Ready, Check, Unlink, AwaitComplete, AwaitAcknowledged,
         Join, Die, Broker, clients
    <3> QED
      BY <3>1, <3>2
  <2>7. ASSUME NEW c \in Clients,
               \/ c \in Starts /\ (Start(c) \/ StartClient(c))
               \/ c \in Stops /\ Stop(c)
               \/ Finish(c) \/ Leave(c)
        PROVE  Told(d)'
    <3>1. UNCHANGED stopRequested
      BY <2>7, ClientStep
    <3>2. \/ conn'[d] = conn[d] /\ hand'[d] = hand[d]
          \/ hand'[d] \in {"backlog", "queued", "none"}
      BY <2>7 DEF Start, StartClient, SpawnBroker, ReadStartup, ConnectUntil,
         TimeOut, Proceed, Finish, Stop, Leave, Connect, Disconnected, TypeOK
    <3> QED
      BY <2>1, <3>1, <3>2
  <2>8. ASSUME NEW c \in Clients, Handler(c)
        PROVE  Told(d)'
    <3>0. conn[c] \in Starts /\ UNCHANGED conn
      BY <2>8 DEF Handler, PeerGone, Negotiate, Respond, RequestStop,
         RequestShutdown, ReplyStop, Handled, TypeOK
    <3>1. \A b \in Starts : stopRequested[b] => stopRequested'[b]
      BY <2>8 DEF Handler, PeerGone, Negotiate, Respond, RequestStop,
         RequestShutdown, ReplyStop, Handled, TypeOK
    <3>2. CASE c # d
      <4>1. hand'[d] = hand[d]
        BY <2>8, <3>2 DEF Handler, PeerGone, Negotiate, Respond, RequestStop,
           RequestShutdown, ReplyStop, Handled, TypeOK
      <4> QED
        BY <2>2, <3>0, <3>1, <4>1
    <3>3. CASE c = d
      <4>1. CASE RequestStop(d)
        BY <3>0, <3>3, <4>1 DEF RequestStop, TypeOK
      <4>2. CASE RequestShutdown(d)
        BY <2>1, <3>0, <4>2 DEF RequestShutdown, Handled
      <4>3. CASE PeerGone(d) \/ Negotiate(d) \/ Respond(d) \/ ReplyStop(d)
        <5>1. hand'[d] \notin {"requested", "waiting"}
          BY <4>3 DEF PeerGone, Negotiate, Respond, ReplyStop, Handled,
             Answered, TypeOK
        <5> QED
          BY <5>1
      <4> QED
        BY <2>8, <3>3, <4>1, <4>2, <4>3 DEF Handler
    <3> QED
      BY <3>2, <3>3
  <2> QED
    BY <2>4, <2>5, <2>6, <2>7, <2>8, Steps
<1> QED
  BY <1>1, <1>2 DEF Asked

\* Why a stop fails: it found no slot, its broker has failed, or another stop is
\* behind its end.
LEMMA FailedStop ==
    ASSUME TypeOK, Bound, Stopping, Asked, NEW c \in Stops, Finish(c),
           result'[c] = "failed"
    PROVE  \/ hand[c] = "refused"
           \/ conn[c] \in failed
           \/ \E d \in Stops \ {c} : conn[d] = conn[c]
<1>1. c \in Clients /\ Waited(c)
  BY DEF Clients, Stopping
<1>2. Closed(c) /\ phase[c] # "done"
  BY <1>1 DEF Finish, Done, Waited, TypeOK
<1>3. PICK b \in Starts : b = conn[c]
  BY <1>1, <1>2 DEF Closed, TypeOK
<1>4. AskedToEnd(b) /\ ~Startup(b) /\ said[b] # "exists"
  BY <1>1, <1>3, LifecycleAssumption DEF Asked, Bound
<1>5. ASSUME NEW stages, Served(b, stages), hand[c] \notin stages
      PROVE  \E d \in Stops \ {c} : conn[d] = conn[c]
  BY <1>3, <1>5 DEF Served
<1>6. CASE hand[c] = "backlog" /\ ~Listening(b)
  <2>1. b \in failed \/ shutdown[b]
    BY <1>4, <1>6 DEF AskedToEnd, Listening, Startup, SocketRemoved, TypeOK
  <2> QED
    BY <1>3, <1>4, <1>5, <1>6, <2>1 DEF AskedToEnd
<1>7. CASE main[b] = "gone" /\ hand[c] \notin {"ok", "closed"}
  BY <1>3, <1>4, <1>5, <1>7 DEF AskedToEnd
<1> QED
  BY <1>1, <1>2, <1>3, <1>6, <1>7 DEF Closed, Answered, Waited

LEMMA LoneNext ==
    TypeOK /\ Bound /\ Stopping /\ Asked /\ LoneStopSucceeds /\ [Next]_vars
      => LoneStopSucceeds'
<1> SUFFICES ASSUME TypeOK, Bound, Stopping, Asked, LoneStopSucceeds,
                    [Next]_vars,
                    NEW c \in Stops, result'[c] = "failed"
             PROVE  \/ hand'[c] = "refused"
                    \/ conn'[c] \in failed'
                    \/ \E d \in Stops \ {c} : conn'[d] = conn'[c]
  BY DEF LoneStopSucceeds
<1>0. c \in Clients /\ c \notin Starts
  BY LifecycleAssumption DEF Clients
<1>1. failed \subseteq failed'
  BY DEF Next, vars, brokers, Start, StartClient, SpawnBroker, ReadStartup,
     ConnectUntil, TimeOut, Proceed, Finish, Stop, Leave, Client, Main, Lock,
     StatStale, RemoveStale, Bind, SpawnActor, Ready, Check, Accept, Unlink,
     AwaitComplete, AwaitAcknowledged, Join, Die, Fails, Executor, Drain,
     SetComplete, DropLock, Act, Handler, PeerGone, Negotiate, Respond,
     RequestStop, RequestShutdown, ReplyStop, Handled
<1>2. ASSUME conn[c] # None,
             \/ hand[c] = "refused"
             \/ conn[c] \in failed
             \/ \E d \in Stops \ {c} : conn[d] = conn[c]
      PROVE  \/ hand'[c] = "refused"
             \/ conn'[c] \in failed'
             \/ \E d \in Stops \ {c} : conn'[d] = conn'[c]
  <2>1. \A d \in Stops : conn[d] # None => conn'[d] = conn[d]
    BY StopsMove DEF Moves
  <2>2. hand[c] = "refused" => hand'[c] = "refused"
    BY <1>2, StopsMove DEF Moves
  <2> QED
    BY <1>1, <1>2, <2>1, <2>2
<1>3. CASE result[c] = "failed"
  BY <1>2, <1>3 DEF LoneStopSucceeds, Stopping, Waited
<1>4. CASE result[c] # "failed"
  <2>1. Finish(c)
    <3>1. UNCHANGED vars => result' = result
      BY DEF vars, clients
    <3>2. \A b \in Starts : Main(b) \/ Die(b) \/ Executor(b) => result' = result
      BY DEF Main, Lock, StatStale, RemoveStale, Bind, SpawnActor, Ready,
         Check, Accept, Unlink, AwaitComplete, AwaitAcknowledged, Join, Die,
         Executor, Drain, SetComplete, DropLock, Act, Broker, clients
    <3>3. \A d \in Clients : Handler(d) => result' = result
      BY DEF Handler, PeerGone, Negotiate, Respond, RequestStop,
         RequestShutdown, ReplyStop, Handled
    <3>4. ASSUME NEW d \in Clients,
                 \/ d \in Starts /\ (Start(d) \/ StartClient(d))
                 \/ d \in Stops /\ Stop(d)
                 \/ Finish(d) \/ Leave(d),
                 ~(d = c /\ Finish(c))
          PROVE  result'[c] = result[c] \/ result'[c] \in {"ok", "left"}
      BY <1>0, <3>4 DEF Start, StartClient, SpawnBroker, ReadStartup,
         ConnectUntil, TimeOut, Proceed, Finish, Stop, Leave, Done, TypeOK
    <3> QED
      BY <1>4, <3>1, <3>2, <3>3, <3>4, Steps
  <2>2. conn[c] # None
    BY <1>0, <1>4, <2>1 DEF Finish, Done, Closed, Stopping, Waited, TypeOK
  <2> QED
    BY <1>2, <2>1, <2>2, FailedStop
<1> QED
  BY <1>3, <1>4

LEMMA IInvInit == Init => IInv
<1>1. Init => LoneStopSucceeds
  BY DEF Init, LoneStopSucceeds, Clients
<1> QED
  BY <1>1, LockedInit, BoundInit, StoppingInit, AskedInit DEF IInv

LEMMA IInvNext == TypeOK /\ IInv /\ [Next]_vars => IInv'
  BY LockedNext, BoundNext, StoppingNext, AskedNext, LoneNext DEF IInv

\* A stop that gets a slot, whose broker does not fail and that no second stop
\* meets does not fail (client.rs, stop).
THEOREM LoneStops == Spec => []LoneStopSucceeds
<1>1. IInv => LoneStopSucceeds
  BY DEF IInv
<1> QED
  BY <1>1, TypeInit, TypeNext, IInvInit, IInvNext, PTL DEF Spec

-----------------------------------------------------------------------------
(* What lasts.                                                             *)

LEMMA Lasting ==
    ASSUME TypeOK, [Next]_vars
    PROVE  /\ \A b \in Starts : shutdown[b] => shutdown'[b]
           /\ \A c \in Clients : phase[c] # "idle" => phase'[c] # "idle"
<1> USE DEF TypeOK
<1>1. CASE UNCHANGED vars
  BY <1>1 DEF vars, brokers, clients
<1>2. ASSUME NEW c \in Clients,
             \/ c \in Starts /\ (Start(c) \/ StartClient(c))
             \/ c \in Stops /\ Stop(c)
             \/ Finish(c) \/ Leave(c)
      PROVE  /\ shutdown' = shutdown
             /\ \A d \in Clients : phase[d] # "idle" => phase'[d] # "idle"
  BY <1>2 DEF Start, StartClient, SpawnBroker, ReadStartup, ConnectUntil, TimeOut, Proceed,
     Finish, Stop, Leave, Done, Client, brokers
<1>3. ASSUME NEW b \in Starts, Main(b) \/ Die(b) \/ Executor(b)
      PROVE  UNCHANGED <<shutdown, phase>>
  BY <1>3 DEF Main, Lock, StatStale, RemoveStale, Bind, SpawnActor, Ready, Check, Accept,
     Unlink, AwaitComplete, AwaitAcknowledged, Join, Die, Executor, Drain, SetComplete,
     DropLock, Act, Broker, clients
<1>4. ASSUME NEW c \in Clients, Handler(c)
      PROVE  /\ \A b \in Starts : shutdown[b] => shutdown'[b]
             /\ phase' = phase
  BY <1>4 DEF Handler, PeerGone, Negotiate, Respond, RequestStop, RequestShutdown,
     ReplyStop, Handled
<1> QED
  BY <1>1, <1>2, <1>3, <1>4, Steps

\* A broker's stop is not taken back: what BrokerStops says of the broker is that its
\* flag leads to its end (broker.rs, shutdown).
THEOREM StopLasts ==
    ASSUME NEW b \in Starts
    PROVE  Spec => ([]<>(shutdown[b] => main[b] = "gone")
                    <=> (shutdown[b] ~> main[b] = "gone"))
<1>1. TypeOK /\ [Next]_vars => (shutdown[b] => shutdown[b]')
  BY Lasting
<1> QED
  BY TypeInit, TypeNext, <1>1, PTL DEF Spec

\* A client begins once: what ClientsFinish says of it is that its beginning leads to
\* its end (client.rs).
THEOREM BeginningLasts ==
    ASSUME NEW c \in Clients
    PROVE  Spec => ([]<>(phase[c] # "idle" => phase[c] = "done")
                    <=> (phase[c] # "idle" ~> phase[c] = "done"))
<1>1. TypeOK /\ [Next]_vars => (phase[c] # "idle" => (phase[c] # "idle")')
  BY Lasting
<1> QED
  BY TypeInit, TypeNext, <1>1, PTL DEF Spec
=============================================================================
