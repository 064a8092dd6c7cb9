------------------------------ MODULE Connections ------------------------------
(***************************************************************************)
(* The broker's connections (src/src/broker.rs): the accept loop with its  *)
(* slots, a handler thread for each connection, the monitor thread that    *)
(* some of them leave behind, and the bounded channel to the executor.     *)
(*                                                                         *)
(* What a request does in the executor is BrokerActor's subject and how    *)
(* brokers and clients find each other is Lifecycle's.  Here is one        *)
(* serving broker, and the question is what the slots bound: BrokerActor   *)
(* takes for granted that the channel always has room.                     *)
(***************************************************************************)
EXTENDS FiniteSets, Naturals, Sequences

CONSTANTS
    Starts,         \* connections of `opp start`
    Asks,           \* connections of `opp exec` and `opp status`
    Stops,          \* connections of `opp stop`
    Loop,           \* the accept loop, as the sender of a Stop
    MaxConnections  \* slots, and places in the channel

Connections == Starts \cup Asks \cup Stops

ASSUME ConnectionsAssumption ==
    /\ IsFiniteSet(Connections)
    /\ Stops \cap (Starts \cup Asks) = {} /\ Starts \cap Asks = {}
    /\ Loop \notin Connections
    /\ MaxConnections \in Nat \ {0}

VARIABLES
    main,         \* the thread with the accept loop
    slots,        \* active_connections
    shutdown,     \* the flag
    acknowledged, \* the flag stop_acknowledged
    executor,     \* the executor thread
    current,      \* the request it works on
    channel,      \* messages to it, named by their sender
    prompted,     \* history: starts for which `op` may have prompted
    peer,         \* per connection: the client's end
    shown,        \* per connection: its client has written the warning
    hand,         \* per connection: where its handler thread is
    warned,       \* per connection: warning_shown of the request
    answer,       \* per connection: the response to its request
    monitor       \* per connection: its monitor thread runs

loop == <<main, slots, acknowledged>>
actor == <<executor, current, channel, prompted>>
client == <<peer, shown>>
handler == <<hand, warned, answer, monitor>>
vars == <<loop, shutdown, actor, client, handler>>

-----------------------------------------------------------------------------
Alive == main # "gone"
Listening == main \in {"check", "accept", "reject", "fail", "unlink"}
Complete == executor \in {"complete", "ended"}
SocketRemoved == main \in {"complete", "acknowledge", "join"}

\* Handler threads, each of which holds a slot.
Working == {"preamble", "request", "submit", "wait", "warned", "send", "stopping",
            "leaving"}
Held == {c \in Connections : hand[c] \in Working}
Over == {"none", "dropped", "closed", "gone"}

Init ==
    /\ main = "check" /\ slots = 0 /\ shutdown = FALSE /\ acknowledged = FALSE
    /\ executor = "loop" /\ current = Loop /\ channel = <<>> /\ prompted = {}
    /\ peer = [c \in Connections |-> "away"]
    /\ shown = [c \in Connections |-> FALSE]
    /\ hand = [c \in Connections |-> "none"]
    /\ warned = [c \in Connections |-> FALSE]
    /\ answer = [c \in Connections |-> "none"]
    /\ monitor = [c \in Connections |-> FALSE]

-----------------------------------------------------------------------------
(* Clients.                                                                *)

\* A start that spawned this broker has written the warning before.
Connect(c) ==
    /\ Listening /\ peer[c] = "away"
    /\ peer' = [peer EXCEPT ![c] = "here"]
    /\ \E early \in BOOLEAN : shown' = [shown EXCEPT ![c] = early /\ c \in Starts]
    /\ hand' = [hand EXCEPT ![c] = "backlog"]
    /\ UNCHANGED <<loop, shutdown, actor, warned, answer, monitor>>

\* start_existing, told NeedWarning.
ShowWarning(c) ==
    /\ Alive /\ peer[c] = "here" /\ hand[c] = "warned" /\ ~shown[c]
    /\ shown' = [shown EXCEPT ![c] = TRUE]
    /\ UNCHANGED <<loop, shutdown, actor, peer, handler>>

\* Whenever it likes, at its end, interrupted or killed, as long as there is
\* a thread that could notice.
Leave(c) ==
    /\ Alive /\ peer[c] = "here"
    /\ hand[c] \notin Over \/ monitor[c]
    /\ peer' = [peer EXCEPT ![c] = "left"]
    /\ UNCHANGED <<loop, shutdown, actor, shown, handler>>

-----------------------------------------------------------------------------
(* The accept loop and the end of the broker.                              *)

To(place) == main' = place

Check ==
    /\ main = "check"
    /\ To(IF shutdown THEN "unlink" ELSE "accept")
    /\ UNCHANGED <<slots, acknowledged, shutdown, actor, client, handler>>

\* fetch_add returns the count before, and the thread is spawned.
Accept ==
    /\ main = "accept"
    /\ \E c \in Connections :
        /\ hand[c] = "backlog"
        /\ slots' = slots + 1
        /\ IF slots >= MaxConnections
           THEN To("reject") /\ hand' = [hand EXCEPT ![c] = "dropped"]
           ELSE To("check") /\ hand' = [hand EXCEPT ![c] = "preamble"]
    /\ UNCHANGED <<acknowledged, shutdown, actor, client, warned, answer, monitor>>

Reject ==
    /\ main = "reject"
    /\ To("check") /\ slots' = slots - 1
    /\ UNCHANGED <<acknowledged, shutdown, actor, client, handler>>

\* WouldBlock.
AcceptNothing ==
    /\ main = "accept" /\ \A c \in Connections : hand[c] # "backlog"
    /\ To("check")
    /\ UNCHANGED <<slots, acknowledged, shutdown, actor, client, handler>>

\* Any other error of accept, as when descriptors run out; and a connection
\* that cannot be made blocking or whose thread cannot be started.
AcceptFails ==
    /\ main = "accept"
    /\ \/ To("fail") /\ shutdown' = TRUE /\ UNCHANGED slots
       \/ /\ \E c \in Connections : hand[c] = "backlog"
          /\ To("exit") /\ slots' \in {slots, slots + 1} /\ UNCHANGED shutdown
    /\ UNCHANGED <<acknowledged, actor, client, handler>>

\* send and try_send; to a receiver that is gone they come to nothing.
Post(sender) ==
    IF executor = "ended" THEN UNCHANGED channel
    ELSE /\ Len(channel) < MaxConnections
         /\ channel' = Append(channel, sender)

\* The blocking send of Stop; then the process ends, whatever its threads do.
Fail ==
    /\ main = "fail"
    /\ Post(Loop) /\ To("exit")
    /\ UNCHANGED <<slots, acknowledged, shutdown, executor, current, prompted,
                   client, handler>>

\* The listener is dropped, and with it the connections that nobody accepted.
Unlink ==
    /\ main = "unlink"
    /\ To("complete")
    /\ hand' = [c \in Connections |-> IF hand[c] = "backlog" THEN "closed" ELSE hand[c]]
    /\ UNCHANGED <<slots, acknowledged, shutdown, actor, client, warned, answer,
                   monitor>>

\* Every shutdown but that of an accept error was asked for by a stop.
AwaitComplete ==
    /\ main = "complete" /\ Complete
    /\ To("acknowledge")
    /\ UNCHANGED <<slots, acknowledged, shutdown, actor, client, handler>>

AwaitAcknowledged ==
    /\ main = "acknowledge" /\ acknowledged
    /\ To("join")
    /\ UNCHANGED <<slots, acknowledged, shutdown, actor, client, handler>>

\* Mutant: the process waits for its handlers.
JoinHandlers ==
    /\ \/ main = "exit"
       \/ main = "join" /\ executor = "ended"
    /\ Held = {}
    /\ To("gone")
    /\ UNCHANGED <<slots, acknowledged, shutdown, actor, client, handler>>

Join ==
    /\ main = "exit" \/ (main = "join" /\ executor = "ended")
    /\ To("gone")
    /\ UNCHANGED <<slots, acknowledged, shutdown, actor, client, handler>>

Main == \/ Check \/ Accept \/ Reject \/ AcceptNothing \/ Fail
        \/ Unlink \/ AwaitComplete \/ AwaitAcknowledged \/ Join

-----------------------------------------------------------------------------
(* Handlers.                                                               *)

Moved(c, place) == Alive /\ hand' = [hand EXCEPT ![c] = place]
Unread == UNCHANGED <<loop, actor, client, answer>>

\* Mutant: the end of the stream is no reason to stop reading.
ReadPreambleOnly(c) ==
    /\ hand[c] = "preamble" /\ peer[c] = "here"
    /\ \/ /\ c \in Stops
          /\ Moved(c, "send") /\ shutdown' = TRUE
       \/ c \notin Stops /\ Moved(c, "request") /\ UNCHANGED shutdown
       \/ Moved(c, "leaving") /\ UNCHANGED shutdown
    /\ Unread /\ UNCHANGED <<warned, monitor>>

\* Reading fails if the client left before it sent anything, and there are
\* preambles of other versions, peers of other users and invalid requests.
ReadPreamble(c) ==
    /\ hand[c] = "preamble"
    /\ \/ /\ c \in Stops
          /\ Moved(c, "send") /\ shutdown' = TRUE
       \/ c \notin Stops /\ Moved(c, "request") /\ UNCHANGED shutdown
       \/ Moved(c, "leaving") /\ UNCHANGED shutdown
    /\ Unread /\ UNCHANGED <<warned, monitor>>

\* The monitor thread is spawned, which may fail, for a request to submit.
Monitored(c) ==
    \/ Moved(c, "submit") /\ monitor' = [monitor EXCEPT ![c] = TRUE]
    \/ Moved(c, "leaving") /\ UNCHANGED monitor

\* Mutant: whatever a start sends first is taken for warned.
ReadRequestTrusting(c) ==
    /\ hand[c] = "request"
    /\ \/ Monitored(c) /\ warned' = [warned EXCEPT ![c] = c \in Starts]
       \/ Moved(c, "leaving") /\ UNCHANGED <<warned, monitor>>
    /\ Unread /\ UNCHANGED shutdown

\* An unwarned start is submitted without a monitor.
ReadRequest(c) ==
    /\ hand[c] = "request"
    /\ \/ /\ c \in Starts /\ ~shown[c]
          /\ Moved(c, "submit") /\ UNCHANGED <<warned, monitor>>
       \/ /\ c \in Starts => shown[c]
          /\ Monitored(c) /\ warned' = [warned EXCEPT ![c] = shown[c]]
       \/ Moved(c, "leaving") /\ UNCHANGED <<warned, monitor>>
    /\ Unread /\ UNCHANGED shutdown

\* The second round of a start: sent behind the warning, or the client left.
ReadWarned(c) ==
    /\ hand[c] = "warned"
    /\ \/ shown[c] /\ Monitored(c) /\ warned' = [warned EXCEPT ![c] = TRUE]
       \/ peer[c] = "left" /\ Moved(c, "leaving") /\ UNCHANGED <<warned, monitor>>
    /\ Unread /\ UNCHANGED shutdown

\* Mutant: the handler does not wait for the answer.
SubmitAndGo(c) ==
    /\ hand[c] = "submit"
    /\ Moved(c, "leaving") /\ Post(c)
    /\ UNCHANGED <<loop, shutdown, executor, current, prompted, client, warned,
                   answer, monitor>>

\* try_send: a full channel is answered QueueFull.
Submit(c) ==
    /\ hand[c] = "submit"
    /\ Moved(c, IF executor = "ended" THEN "leaving" ELSE "wait")
    /\ IF executor # "ended" /\ Len(channel) = MaxConnections
       THEN answer' = [answer EXCEPT ![c] = "full"] /\ UNCHANGED channel
       ELSE Post(c) /\ UNCHANGED answer
    /\ UNCHANGED <<loop, shutdown, executor, current, prompted, client, warned,
                   monitor>>

\* Mutant: a handler does not wait for an answer that nobody will read.
ReplyOrGiveUp(c) ==
    /\ hand[c] = "wait"
    /\ answer[c] # "none" \/ peer[c] = "left"
    /\ answer' = [answer EXCEPT ![c] = "none"]
    /\ Moved(c, IF answer[c] = "needWarning" /\ peer[c] = "here" THEN "warned" ELSE "leaving")
    /\ UNCHANGED <<loop, shutdown, actor, client, warned, monitor>>

\* The response is written, or the client left, or the executor dropped the
\* request.
Reply(c) ==
    /\ hand[c] = "wait" /\ answer[c] # "none"
    /\ answer' = [answer EXCEPT ![c] = "none"]
    /\ \/ answer[c] = "needWarning" /\ Moved(c, "warned")
       \/ (answer[c] = "needWarning" => peer[c] = "left") /\ Moved(c, "leaving")
    /\ UNCHANGED <<loop, shutdown, actor, client, warned, monitor>>

SendStop(c) ==
    /\ hand[c] = "send"
    /\ Moved(c, "stopping") /\ Post(c)
    /\ UNCHANGED <<loop, shutdown, executor, current, prompted, client, warned,
                   answer, monitor>>

\* The flag is set whether or not the reply could be written.
ReplyStop(c) ==
    /\ hand[c] = "stopping" /\ Complete /\ SocketRemoved
    /\ Moved(c, "leaving") /\ acknowledged' = TRUE
    /\ UNCHANGED <<main, slots, shutdown, actor, client, warned, answer, monitor>>

\* Mutant: an early return keeps its slot.
ReleaseServed(c) ==
    /\ hand[c] = "leaving" /\ Moved(c, "gone")
    /\ slots' = IF c \in Asks /\ ~monitor[c] THEN slots ELSE slots - 1
    /\ UNCHANGED <<main, acknowledged, shutdown, actor, client, warned, answer,
                   monitor>>

Release(c) ==
    /\ hand[c] = "leaving" /\ Moved(c, "gone")
    /\ slots' = slots - 1
    /\ UNCHANGED <<main, acknowledged, shutdown, actor, client, warned, answer,
                   monitor>>

\* Until the stream ends, whether or not the handler has.
MonitorEnds(c) ==
    /\ Alive /\ monitor[c] /\ peer[c] = "left"
    /\ monitor' = [monitor EXCEPT ![c] = FALSE]
    /\ UNCHANGED <<loop, shutdown, actor, client, hand, warned, answer>>

Read(c) == ReadPreamble(c) \/ ReadRequest(c) \/ ReadWarned(c)
Serve(c) == Submit(c) \/ Reply(c) \/ SendStop(c) \/ ReplyStop(c) \/ Release(c)

-----------------------------------------------------------------------------
(* The executor, which is BrokerActor in short.                            *)

Turn(place) == Alive /\ executor' = place
Idle == UNCHANGED <<loop, prompted, client, hand, warned, monitor>>

\* The loop's condition.
Look ==
    /\ executor = "loop"
    /\ Turn(IF shutdown THEN "drain" ELSE "receive")
    /\ Idle /\ UNCHANGED <<shutdown, current, channel, answer>>

Receive ==
    /\ executor = "receive"
    /\ \/ channel = <<>> /\ Turn("loop") /\ UNCHANGED <<channel, current>>
       \/ /\ channel # <<>> /\ channel' = Tail(channel)
          /\ IF Head(channel) \in Starts \cup Asks
             THEN Turn("busy") /\ current' = Head(channel)
             ELSE Turn("drain") /\ UNCHANGED current
    /\ Idle /\ UNCHANGED <<shutdown, answer>>

\* An unwarned start is answered without a prompt; a request overtaken by
\* shutdown is dropped.
Execute ==
    /\ executor = "busy" /\ Turn("loop")
    /\ \/ /\ current \in Starts /\ ~warned[current]
          /\ \E r \in {"ok", "needWarning", "error"} : answer' = [answer EXCEPT ![current] = r]
          /\ UNCHANGED prompted
       \/ /\ current \in Asks \/ warned[current]
          /\ \E r \in {"ok", "error", "dropped"} :
                /\ r = "dropped" => shutdown
                /\ answer' = [answer EXCEPT ![current] = r]
          /\ prompted' \in {prompted, prompted \cup ({current} \cap Starts)}
    /\ current' = Loop
    /\ UNCHANGED <<loop, shutdown, channel, client, hand, warned, monitor>>

\* Whatever is queued is answered Operational.
Drain ==
    /\ executor = "drain" /\ shutdown' = TRUE
    /\ IF channel = <<>>
       THEN Turn("complete") /\ UNCHANGED <<channel, answer>>
       ELSE /\ Turn("drain") /\ channel' = Tail(channel)
            /\ answer' = IF Head(channel) \in Starts \cup Asks
                         THEN [answer EXCEPT ![Head(channel)] = "error"] ELSE answer
    /\ Idle /\ UNCHANGED current

\* The receiver is dropped with what came behind the drain.
DropReceiver ==
    /\ executor = "complete" /\ Turn("ended")
    /\ answer' = [c \in Connections |->
                     IF \E i \in 1..Len(channel) : channel[i] = c /\ c \notin Stops
                     THEN "dropped" ELSE answer[c]]
    /\ channel' = <<>>
    /\ Idle /\ UNCHANGED <<shutdown, current>>

Executor == Look \/ Receive \/ Execute \/ Drain \/ DropReceiver

-----------------------------------------------------------------------------
Next ==
    \/ Main \/ AcceptFails \/ Executor
    \/ \E c \in Connections :
          \/ Connect(c) \/ ShowWarning(c) \/ Leave(c)
          \/ Read(c) \/ Serve(c) \/ MonitorEnds(c)

Spec == Init /\ [][Next]_vars

\* Threads go on; a reading thread does when its client is gone.  The executor
\* comes to an end with every request, which is BrokerActor's EveryRequestSettles.
Fairness ==
    /\ WF_vars(Main) /\ WF_vars(Executor)
    /\ \A c \in Connections : /\ WF_vars(Serve(c)) /\ WF_vars(MonitorEnds(c))
                              /\ WF_vars(peer[c] = "left" /\ Read(c))

FairSpec == Spec /\ Fairness

-----------------------------------------------------------------------------
(* Properties.                                                             *)

TypeOK ==
    /\ main \in {"check", "accept", "reject", "fail", "exit", "unlink", "complete",
                 "acknowledge", "join", "gone"}
    /\ slots \in Nat /\ shutdown \in BOOLEAN /\ acknowledged \in BOOLEAN
    /\ executor \in {"loop", "receive", "busy", "drain", "complete", "ended"}
    /\ current \in Connections \cup {Loop} /\ prompted \in SUBSET Starts
    /\ channel \in Seq(Connections \cup {Loop})
    /\ peer \in [Connections -> {"away", "here", "left"}]
    /\ shown \in [Connections -> BOOLEAN]
    /\ hand \in [Connections -> Working \cup Over \cup {"backlog"}]
    /\ warned \in [Connections -> BOOLEAN]
    /\ answer \in [Connections -> {"none", "ok", "needWarning", "error", "full",
                                   "dropped"}]
    /\ monitor \in [Connections -> BOOLEAN]

\* The counter is the number of handler threads, and the connection that is
\* being rejected, for as long as anybody reads it; there are never more handlers
\* than slots.
SlotsAreHandlers ==
    /\ main \notin {"exit", "gone"} =>
          slots = Cardinality(Held) + (IF main = "reject" THEN 1 ELSE 0)
    /\ Cardinality(Held) <= MaxConnections

\* try_send of a handler never finds the channel full, and the send of a stop
\* never blocks: QueueFull is not an answer, whatever monitors, stops and second
\* rounds there are.  Only the Stop of a failed accept loop, which has no slot,
\* can take the last place, when the process is about to end.
RoomInChannel ==
    main \notin {"exit", "gone"} =>
        \A c \in Connections :
            /\ hand[c] \in {"submit", "send"} => Len(channel) < MaxConnections
            /\ answer[c] # "full"

\* `op` prompts only for a start whose own client has written the warning, in
\* whichever round it was asked for.
WarnedBeforePrompt == \A c \in prompted : shown[c]

\* A client that is gone costs nothing for ever: its slot comes back and its
\* monitor ends, in whatever place it left.  Again and again there is a moment at
\* which that has happened for all who left; as nobody comes back, every leaving
\* leads to it.
SlotsComeBack ==
    []<>(\A c \in Connections :
            peer[c] = "left" => ~Alive \/ (hand[c] \in Over /\ ~monitor[c]))

\* A broker that is asked to stop does, with every slot held by clients that
\* send nothing.  The flag stays, so that this is: the flag leads to the end.
StopNeedsNoClient == []<>(shutdown => ~Alive)
=============================================================================
