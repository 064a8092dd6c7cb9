--------------------------- MODULE ConnectionsProofs ---------------------------
(***************************************************************************)
(* Proofs of the safety properties of Connections, that it keeps           *)
(* ChannelContract, and that it reckons with all the contract allows, for  *)
(* every set of connections and every number of slots.                     *)
(***************************************************************************)
EXTENDS ConnectionsRefinement, FiniteSetTheorems, TLAPS

Serving == main \notin {"exit", "gone"}
Senders == {channel[i] : i \in 1..Len(channel)}
Waiting(c) == hand[c] = "wait" /\ answer[c] = "none"

\* A connection that has not come has no handler.
Unborn == \A c \in Connections : peer[c] = "away" => hand[c] = "none"

\* A slot was taken for each handler, also while the process ends.
SlotsCover == SlotsAreHandlers /\ (Alive => slots >= Cardinality(Held))

\* Stops and requests go their own ways, and an answer finds its handler waiting.
Ways ==
    \A c \in Connections :
        /\ hand[c] \in {"send", "stopping"} => c \in Stops
        /\ hand[c] \in {"request", "submit", "wait", "warned"} => c \in Requests
        /\ answer[c] # "none" => hand[c] = "wait"

\* Nobody has two messages in the channel; a request there, or in the executor's
\* hands, has a handler that waits; a stop is answered, and leaves its message
\* behind, only when nobody can connect any more.
Queue ==
    /\ \A i, j \in 1..Len(channel) : channel[i] = channel[j] => i = j
    /\ \A i \in 1..Len(channel) :
          /\ channel[i] \in Requests => Waiting(channel[i])
          /\ channel[i] \in Stops => hand[channel[i]] \in {"stopping", "leaving", "gone"}
          /\ Serving => channel[i] # Loop
          /\ Serving /\ ~SocketRemoved /\ channel[i] \in Stops =>
                hand[channel[i]] = "stopping"
    /\ executor = "busy" =>
          /\ current \in Requests /\ Waiting(current)
          /\ \A i \in 1..Len(channel) : channel[i] # current

\* Messages and handlers together are no more than slots, for a message that has
\* no handler any more has kept its place: no connection came after it.
Crowd == Serving => Cardinality(Held \cup Senders) <= MaxConnections

NeverFull == Serving => \A c \in Connections : answer[c] # "full"

\* A client that has not come has no request, and nobody prompts without a warning.
Warnings ==
    /\ \A c \in Connections :
          /\ peer[c] = "away" => c \notin prompted
          /\ hand[c] = "none" => ~warned[c]
          /\ warned[c] => shown[c] \/ c \notin Starts
    /\ WarnedBeforePrompt

IInv == TypeOK /\ Unborn /\ SlotsCover /\ Ways /\ Queue /\ Crowd /\ NeverFull /\ Warnings

-----------------------------------------------------------------------------
(* Types.                                                                  *)

LEMMA TypeInit == Init => TypeOK
<1> SUFFICES ASSUME Init PROVE TypeOK
  OBVIOUS
<1>1. channel \in Seq(Connections \cup {Loop})
  BY DEF Init
<1> QED
  BY <1>1 DEF Init, TypeOK, Over

LEMMA PostType ==
    ASSUME TypeOK, NEW c \in Connections \cup {Loop}, Post(c)
    PROVE  channel' \in Seq(Connections \cup {Loop})
BY DEF TypeOK, Post

Hands == Working \cup Over \cup {"backlog"}

LEMMA HandMoved ==
    ASSUME TypeOK, NEW c \in Connections, NEW place \in Hands,
           hand' = [hand EXCEPT ![c] = place]
    PROVE  hand' \in [Connections -> Hands]
BY DEF TypeOK, Hands

LEMMA TypeClient ==
    ASSUME TypeOK, NEW c \in Connections, Connect(c) \/ ShowWarning(c) \/ Leave(c)
    PROVE  TypeOK'
<1>1. peer' \in [Connections -> {"away", "here", "left"}]
  BY DEF TypeOK, Connect, ShowWarning, Leave
<1>2. shown' \in [Connections -> BOOLEAN]
  BY DEF TypeOK, Connect, ShowWarning, Leave
<1>3. CASE Connect(c)
  <2>1. hand' \in [Connections -> Hands]
    BY <1>3, HandMoved DEF Connect, Hands
  <2> QED
    BY <1>1, <1>2, <1>3, <2>1 DEF TypeOK, Connect, Hands, loop, actor
<1>4. CASE ShowWarning(c) \/ Leave(c)
  BY <1>1, <1>2, <1>4 DEF TypeOK, ShowWarning, Leave, loop, actor, handler
<1> QED
  BY <1>3, <1>4

LEMMA TypeMain ==
    ASSUME TypeOK, Main \/ AcceptFails, SlotsCover
    PROVE  TypeOK'
<1> USE DEF To, client, handler, actor, TypeOK
<1>1. CASE Check \/ AcceptNothing \/ AwaitComplete \/ AwaitAcknowledged \/ Join
  BY <1>1 DEF Check, AcceptNothing, AwaitComplete, AwaitAcknowledged, Join
<1>2. CASE Accept
  <2>1. hand' \in [Connections -> Working \cup Over \cup {"backlog"}]
    BY <1>2 DEF Accept, Working, Over
  <2> QED
    BY <1>2, <2>1 DEF Accept
<1>3. CASE Reject
  <2>1. Cardinality(Held) \in Nat
    BY ConnectionsAssumption, FS_Subset, FS_CardinalityType DEF Held
  <2>2. slots - 1 \in Nat
    BY <1>3, <2>1 DEF Reject, SlotsCover, SlotsAreHandlers
  <2> QED
    BY <1>3, <2>2 DEF Reject
<1>4. CASE AcceptFails
  <2>1. slots' \in Nat /\ main' \in {"fail", "exit"}
    BY <1>4 DEF AcceptFails
  <2>2. shutdown' \in BOOLEAN
    BY <1>4 DEF AcceptFails
  <2> QED
    BY <1>4, <2>1, <2>2 DEF AcceptFails
<1>5. CASE Fail
  BY <1>5, PostType DEF Fail
<1>6. CASE Unlink
  BY <1>6 DEF Unlink, Over
<1> QED
  BY <1>1, <1>2, <1>3, <1>4, <1>5, <1>6 DEF Main

LEMMA TypeServe ==
    ASSUME TypeOK, SlotsCover, NEW c \in Connections,
           Read(c) \/ Serve(c) \/ MonitorEnds(c)
    PROVE  TypeOK'
<1>r. ASSUME Read(c) PROVE TypeOK'
  <2>1. \E place \in Working : hand' = [hand EXCEPT ![c] = place]
    BY <1>r DEF Read, ReadPreamble, ReadRequest, ReadWarned, Monitored, Moved, Working
  <2>2. hand' \in [Connections -> Hands]
    BY <2>1, HandMoved DEF Hands
  <2>3. shutdown' \in BOOLEAN
    BY <1>r DEF Read, ReadPreamble, ReadRequest, ReadWarned, TypeOK
  <2>4. monitor' \in [Connections -> BOOLEAN]
    BY <1>r DEF Read, ReadPreamble, ReadRequest, ReadWarned, Monitored, TypeOK
  <2>5. warned' \in [Connections -> BOOLEAN]
    <3>1. shown[c] \in BOOLEAN
      BY DEF TypeOK
    <3> QED
      BY <1>r, <3>1 DEF Read, ReadPreamble, ReadRequest, ReadWarned, TypeOK
  <2>6. UNCHANGED <<loop, actor, client, answer>>
    BY <1>r DEF Read, ReadPreamble, ReadRequest, ReadWarned, Unread
  <2> QED
    BY <2>2, <2>3, <2>4, <2>5, <2>6 DEF TypeOK, Hands, loop, actor, client
<1> USE DEF Moved, loop, client, actor, TypeOK, Unread, Working, Over
<1>4. CASE Submit(c)
  BY <1>4, PostType DEF Submit
<1>5. CASE Reply(c)
  BY <1>5 DEF Reply
<1>6. CASE SendStop(c)
  BY <1>6, PostType DEF SendStop
<1>7. CASE ReplyStop(c)
  BY <1>7 DEF ReplyStop
<1>8. CASE Release(c)
  <2>1. c \in Held /\ IsFiniteSet(Held)
    BY <1>8, ConnectionsAssumption, FS_Subset DEF Release, Held
  <2>2. Cardinality(Held) \in Nat /\ Cardinality(Held) # 0
    BY <2>1, FS_CardinalityType, FS_EmptySet
  <2>3. slots - 1 \in Nat
    BY <1>8, <2>2 DEF Release, SlotsCover
  <2> QED
    BY <1>8, <2>3 DEF Release
<1>9. CASE MonitorEnds(c)
  BY <1>9 DEF MonitorEnds
<1> QED
  BY <1>r, <1>4, <1>5, <1>6, <1>7, <1>8, <1>9 DEF Serve

LEMMA TypeExecutor ==
    ASSUME TypeOK, Executor
    PROVE  TypeOK'
<1> USE DEF Turn, Idle, loop, client, TypeOK
<1>1. CASE Look
  BY <1>1 DEF Look
<1>h. channel # <<>> => /\ Head(channel) \in Connections \cup {Loop}
                       /\ Tail(channel) \in Seq(Connections \cup {Loop})
  BY DEF TypeOK
<1>2. CASE Receive
  <2>1. channel' \in Seq(Connections \cup {Loop})
    BY <1>2, <1>h DEF Receive
  <2>2. current' \in Connections \cup {Loop}
    BY <1>2, <1>h DEF Receive
  <2>3. executor' \in {"loop", "busy", "drain"}
    BY <1>2 DEF Receive
  <2> QED
    BY <1>2, <2>1, <2>2, <2>3 DEF Receive
<1>3. CASE Execute
  BY <1>3 DEF Execute
<1>4. CASE Drain
  <2>1. channel' \in Seq(Connections \cup {Loop})
    BY <1>4, <1>h DEF Drain
  <2>2. answer' \in [Connections -> {"none", "ok", "needWarning", "error", "full", "dropped"}]
    BY <1>4 DEF Drain
  <2> QED
    BY <1>4, <2>1, <2>2 DEF Drain
<1>5. CASE DropReceiver
  <2>1. channel' \in Seq(Connections \cup {Loop})
    BY <1>5 DEF DropReceiver
  <2> QED
    BY <1>5, <2>1 DEF DropReceiver
<1> QED
  BY <1>1, <1>2, <1>3, <1>4, <1>5 DEF Executor

LEMMA TypeNext ==
    ASSUME TypeOK, SlotsCover, [Next]_vars
    PROVE  TypeOK'
<1>1. CASE UNCHANGED vars
  BY <1>1 DEF vars, loop, actor, client, handler, TypeOK
<1> QED
  BY <1>1, TypeClient, TypeMain, TypeServe, TypeExecutor DEF Next

-----------------------------------------------------------------------------
(* Slots.                                                                  *)

LEMMA Finite ==
    ASSUME NEW S \in SUBSET Connections
    PROVE  IsFiniteSet(S) /\ Cardinality(S) \in Nat
BY ConnectionsAssumption, FS_Subset, FS_CardinalityType

LEMMA SlotsInit == Init => SlotsCover
<1> SUFFICES ASSUME Init PROVE SlotsCover
  OBVIOUS
<1>1. Held = {}
  BY DEF Init, Held, Working
<1> QED
  BY <1>1, FS_EmptySet, ConnectionsAssumption DEF Init, SlotsCover, SlotsAreHandlers

LEMMA UnbornNext ==
    ASSUME TypeOK, Unborn, [Next]_vars
    PROVE  Unborn'
<1> USE DEF TypeOK, Unborn, Over
<1>1. CASE UNCHANGED vars
  BY <1>1 DEF vars, client, handler
<1>2. CASE Main \/ AcceptFails
  BY <1>2 DEF Main, Check, Accept, Reject, AcceptNothing, Fail, Unlink, AwaitComplete,
              AwaitAcknowledged, Join, AcceptFails, client, handler
<1>3. CASE Executor
  BY <1>3 DEF Executor, Look, Receive, Execute, Drain, DropReceiver, Idle, client
<1>4. ASSUME NEW c \in Connections, Connect(c) \/ ShowWarning(c) \/ Leave(c)
      PROVE  Unborn'
  BY <1>4 DEF Connect, ShowWarning, Leave, handler
<1>5. ASSUME NEW c \in Connections, Read(c)
      PROVE  Unborn'
  BY <1>5 DEF Read, ReadPreamble, ReadRequest, ReadWarned, Monitored, Moved, Unread,
              client
<1>6. ASSUME NEW c \in Connections, Serve(c) \/ MonitorEnds(c)
      PROVE  Unborn'
  BY <1>6 DEF Serve, Submit, Reply, SendStop, ReplyStop, Release, MonitorEnds, Moved,
              client
<1> QED
  BY <1>1, <1>2, <1>3, <1>4, <1>5, <1>6 DEF Next

\* Only Accept gives a slot to a handler, and only Release takes it back.
LEMMA HeldKept ==
    ASSUME TypeOK, Unborn, [Next]_vars, ~Accept, \A c \in Connections : ~Release(c)
    PROVE  Held' = Held
<1> USE DEF Held, Working, TypeOK, Unborn
<1>1. CASE UNCHANGED vars
  BY <1>1 DEF vars, handler
<1>2. CASE Main \/ AcceptFails
  BY <1>2 DEF Main, Check, Reject, AcceptNothing, Fail, Unlink, AwaitComplete,
              AwaitAcknowledged, Join, AcceptFails, handler
<1>3. CASE Executor
  BY <1>3 DEF Executor, Look, Receive, Execute, Drain, DropReceiver, Idle
<1>4. ASSUME NEW c \in Connections, Connect(c) \/ ShowWarning(c) \/ Leave(c)
      PROVE  Held' = Held
  BY <1>4 DEF Connect, ShowWarning, Leave, handler, Over
<1>5. ASSUME NEW c \in Connections, Read(c)
      PROVE  Held' = Held
  BY <1>5 DEF Read, ReadPreamble, ReadRequest, ReadWarned, Monitored, Moved
<1>6. ASSUME NEW c \in Connections, Serve(c) \/ MonitorEnds(c)
      PROVE  Held' = Held
  BY <1>6 DEF Serve, Submit, Reply, SendStop, ReplyStop, MonitorEnds, Moved
<1> QED
  BY <1>1, <1>2, <1>3, <1>4, <1>5, <1>6 DEF Next

LEMMA HeldGrows ==
    ASSUME TypeOK, Accept
    PROVE  \/ slots >= MaxConnections /\ main' = "reject" /\ Held' = Held
           \/ /\ slots < MaxConnections /\ main' = "check"
              /\ \E c \in Connections :
                    hand[c] = "backlog" /\ c \notin Held /\ Held' = Held \cup {c}
BY ConnectionsAssumption DEF TypeOK, Accept, To, Held, Working

LEMMA HeldShrinks ==
    ASSUME TypeOK, NEW c \in Connections, Release(c)
    PROVE  c \in Held /\ Held' = Held \ {c}
BY DEF TypeOK, Release, Moved, Held, Working

LEMMA SlotsNext ==
    ASSUME TypeOK, Unborn, SlotsCover, [Next]_vars
    PROVE  SlotsCover'
<1> USE DEF SlotsCover, SlotsAreHandlers, Alive
<1>1. Cardinality(Held) \in Nat /\ IsFiniteSet(Held) /\ slots \in Nat
      /\ MaxConnections \in Nat
  BY Finite, ConnectionsAssumption DEF Held, TypeOK
<1>2. CASE Accept
  <2>1. CASE slots >= MaxConnections
    BY <1>1, <1>2, <2>1, HeldGrows DEF Accept, To
  <2>2. CASE slots < MaxConnections
    <3>1. Cardinality(Held') = Cardinality(Held) + 1
      BY <1>1, <1>2, <2>2, HeldGrows, FS_AddElement
    <3> QED
      BY <1>1, <1>2, <2>2, <3>1 DEF Accept, To
  <2> QED
    BY <1>1, <2>1, <2>2
<1>3. ASSUME NEW c \in Connections, Release(c)
      PROVE  SlotsCover'
  <2>1. Cardinality(Held') = Cardinality(Held) - 1
    BY <1>1, <1>3, HeldShrinks, FS_RemoveElement
  <2> QED
    BY <1>1, <1>3, <2>1 DEF Release
<1>4. CASE ~Accept /\ \A c \in Connections : ~Release(c)
  <2>1. Held' = Held
    BY <1>4, HeldKept
  <2>2. CASE UNCHANGED <<main, slots>>
    BY <2>1, <2>2
  <2>3. CASE Check \/ Unlink \/ AcceptNothing \/ Fail \/ AwaitComplete
             \/ AwaitAcknowledged \/ Join
    BY <1>1, <2>1, <2>3 DEF Check, Unlink, AcceptNothing, Fail, AwaitComplete,
                            AwaitAcknowledged, Join, To
  <2>4. CASE Reject
    BY <1>1, <2>1, <2>4 DEF Reject, To
  <2>5. CASE AcceptFails
    BY <1>1, <2>1, <2>5 DEF AcceptFails, To
  <2>6. CASE Executor
    BY <2>2, <2>6 DEF Executor, Look, Receive, Execute, Drain, DropReceiver, Idle, loop
  <2>7. ASSUME NEW c \in Connections,
               Connect(c) \/ ShowWarning(c) \/ Leave(c) \/ Read(c) \/ MonitorEnds(c)
        PROVE  UNCHANGED <<main, slots>>
    BY <2>7 DEF Connect, ShowWarning, Leave, Read, ReadPreamble, ReadRequest,
                ReadWarned, Unread, MonitorEnds, loop
  <2>8. ASSUME NEW c \in Connections, Serve(c)
        PROVE  UNCHANGED <<main, slots>>
    BY <1>4, <2>8 DEF Serve, Submit, Reply, SendStop, ReplyStop, loop
  <2>9. CASE UNCHANGED vars
    BY <2>2, <2>9 DEF vars, loop
  <2> QED
    BY <1>4, <2>2, <2>3, <2>4, <2>5, <2>6, <2>7, <2>8, <2>9 DEF Next, Main
<1> QED
  BY <1>2, <1>3, <1>4

-----------------------------------------------------------------------------
(* The channel.                                                            *)

LEMMA Posted ==
    ASSUME TypeOK, NEW c \in Connections \cup {Loop}, Post(c)
    PROVE  \/ channel' = channel
           \/ /\ Len(channel') = Len(channel) + 1 /\ Len(channel) < MaxConnections
              /\ channel'[Len(channel) + 1] = c
              /\ \A i \in 1..Len(channel) : channel'[i] = channel[i]
BY DEF TypeOK, Post

LEMMA Taken ==
    ASSUME TypeOK, channel # <<>>, channel' = Tail(channel)
    PROVE  /\ Len(channel) \in Nat /\ Len(channel) >= 1
           /\ Len(channel') = Len(channel) - 1
           /\ Head(channel) = channel[1]
           /\ \A i \in 1..Len(channel') : i + 1 \in 1..Len(channel) /\ channel'[i] = channel[i + 1]
BY DEF TypeOK

LEMMA Length ==
    ASSUME TypeOK
    PROVE  Len(channel) \in Nat /\ \A i \in 1..Len(channel) : channel[i] \in Connections \cup {Loop}
BY DEF TypeOK

\* A message that was posted by somebody who had none: the queue is as it was and
\* the new one is its sender's.
LEMMA QueuePosted ==
    ASSUME TypeOK, Queue, NEW c \in Connections \cup {Loop}, Post(c), channel' # channel,
           UNCHANGED <<executor, current>>,
           \A i \in 1..Len(channel) : channel[i] # c,
           executor = "busy" => current # c,
           \A d \in Connections : d # c => hand'[d] = hand[d] /\ answer'[d] = answer[d],
           c \in Requests => Waiting(c)',
           c \in Stops => hand'[c] = "stopping",
           Serving' => c # Loop /\ Serving,
           ~SocketRemoved' => ~SocketRemoved
    PROVE  Queue'
<1>1. /\ Len(channel) \in Nat /\ Len(channel') = Len(channel) + 1
      /\ channel'[Len(channel) + 1] = c
      /\ \A i \in 1..Len(channel) : channel'[i] = channel[i]
  BY Posted, Length
<1>2. \A i \in 1..Len(channel') : i = Len(channel) + 1 \/ i \in 1..Len(channel)
  BY <1>1
<1>3. \A i, j \in 1..Len(channel') : channel'[i] = channel'[j] => i = j
  BY <1>1, <1>2 DEF Queue
<1>4. Requests \subseteq Connections /\ Stops \subseteq Connections
  BY DEF Requests, Connections
<1>5. ASSUME NEW i \in 1..Len(channel')
      PROVE  /\ channel'[i] \in Requests =>
                   hand'[channel'[i]] = "wait" /\ answer'[channel'[i]] = "none"
             /\ channel'[i] \in Stops =>
                   hand'[channel'[i]] \in {"stopping", "leaving", "gone"}
             /\ Serving' => channel'[i] # Loop
             /\ Serving' /\ ~SocketRemoved' /\ channel'[i] \in Stops =>
                   hand'[channel'[i]] = "stopping"
  <2>1. CASE i = Len(channel) + 1
    <3>1. channel'[i] = c
      BY <1>1, <2>1
    <3>2. c \in Requests => hand'[c] = "wait" /\ answer'[c] = "none"
      BY DEF Waiting
    <3> QED
      BY <3>1, <3>2
  <2>2. CASE i \in 1..Len(channel)
    <3>0. /\ channel[i] \in Requests => Waiting(channel[i])
          /\ channel[i] \in Stops => hand[channel[i]] \in {"stopping", "leaving", "gone"}
          /\ Serving => channel[i] # Loop
          /\ Serving /\ ~SocketRemoved /\ channel[i] \in Stops =>
                hand[channel[i]] = "stopping"
      BY <2>2 DEF Queue
    <3>1. channel'[i] = channel[i] /\ channel[i] # c
      BY <1>1, <2>2
    <3>2. channel[i] \in Connections =>
             hand'[channel[i]] = hand[channel[i]] /\ answer'[channel[i]] = answer[channel[i]]
      BY <3>1
    <3> QED
      BY <1>4, <3>0, <3>1, <3>2 DEF Waiting
  <2> QED
    BY <1>2, <2>1, <2>2
<1>6. executor' = "busy" => /\ current' \in Requests /\ Waiting(current)'
                           /\ \A i \in 1..Len(channel') : channel'[i] # current'
  <2> SUFFICES ASSUME executor = "busy"
               PROVE  /\ current \in Requests /\ Waiting(current)'
                      /\ \A i \in 1..Len(channel') : channel'[i] # current
    OBVIOUS
  <2>1. current \in Requests /\ Waiting(current) /\ current # c
        /\ \A i \in 1..Len(channel) : channel[i] # current
    BY DEF Queue
  <2>2. Waiting(current)'
    BY <1>4, <2>1 DEF Waiting
  <2> QED
    BY <1>1, <1>2, <2>1, <2>2
<1>7. \A i \in 1..Len(channel') :
         /\ channel'[i] \in Requests =>
                   hand'[channel'[i]] = "wait" /\ answer'[channel'[i]] = "none"
         /\ channel'[i] \in Stops => hand'[channel'[i]] \in {"stopping", "leaving", "gone"}
         /\ Serving' => channel'[i] # Loop
         /\ Serving' /\ ~SocketRemoved' /\ channel'[i] \in Stops =>
               hand'[channel'[i]] = "stopping"
  BY <1>5
<1> QED
  BY <1>3, <1>6, <1>7 DEF Queue, Waiting

LEMMA QueueInit == Init => Ways /\ Queue
BY DEF Init, Ways, Queue

LEMMA QueueMain ==
    ASSUME TypeOK, Ways, Queue, Main \/ AcceptFails
    PROVE  Ways' /\ Queue'
<1> USE DEF TypeOK, Ways, Queue, Waiting, Serving, SocketRemoved, To
<1>1. CASE Check \/ Reject \/ AcceptNothing \/ AwaitComplete \/ AwaitAcknowledged
           \/ Join \/ AcceptFails
  BY <1>1 DEF Check, Reject, AcceptNothing, AwaitComplete, AwaitAcknowledged, Join,
              AcceptFails, handler, actor
<1>2. CASE Accept
  <2>1. PICK c \in Connections :
            /\ hand[c] = "backlog"
            /\ \E place \in {"dropped", "preamble"} : hand' = [hand EXCEPT ![c] = place]
    BY <1>2 DEF Accept
  <2>2. main = "accept" /\ main' \in {"reject", "check"}
        /\ UNCHANGED <<executor, current, channel, answer>>
    BY <1>2 DEF Accept, actor
  <2>3. Ways'
    BY <2>1, <2>2
  <2>4. \A i \in 1..Len(channel) : channel[i] \in Requests \cup Stops => channel[i] # c
    BY <2>1
  <2> QED
    BY <2>1, <2>2, <2>3, <2>4, Length DEF Requests, Connections
<1>3. CASE Unlink
  <2>1. UNCHANGED <<executor, current, channel, answer>> /\ main' = "complete"
        /\ main = "unlink"
    BY <1>3 DEF Unlink, actor
  <2>2. \A c \in Connections : hand[c] # "backlog" => hand'[c] = hand[c]
    BY <1>3 DEF Unlink
  <2>3. \A c \in Connections : hand[c] = "backlog" => hand'[c] = "closed"
    BY <1>3 DEF Unlink
  <2>4. Ways'
    BY <2>1, <2>2, <2>3
  <2> QED
    BY <2>1, <2>2, <2>4, Length DEF Requests, Connections
<1>4. CASE Fail
  <2>1. UNCHANGED <<hand, answer, executor, current>> /\ main = "fail" /\ main' = "exit"
    BY <1>4 DEF Fail, handler
  <2>2. Post(Loop) /\ Loop \notin Connections
    BY <1>4, ConnectionsAssumption DEF Fail
  <2>3. Ways'
    BY <2>1
  <2>4. CASE channel' = channel
    BY <2>1, <2>4
  <2>5. CASE channel' # channel
    <3>1. \A i \in 1..Len(channel) : channel[i] # Loop
      BY <2>1
    <3>2. Loop \notin Requests \cup Stops /\ ~Serving' /\ Serving /\ ~SocketRemoved
          /\ (executor = "busy" => current # Loop)
      BY <2>1, <2>2 DEF Requests, Connections
    <3>3. \A d \in Connections : hand'[d] = hand[d] /\ answer'[d] = answer[d]
      BY <2>1
    <3>4. Queue'
      BY <2>1, <2>2, <2>5, <3>1, <3>2, <3>3, QueuePosted
    <3> QED
      BY <2>3, <3>4
  <2> QED
    BY <2>3, <2>4, <2>5
<1> QED
  BY <1>1, <1>2, <1>3, <1>4 DEF Main

LEMMA QueueClient ==
    ASSUME TypeOK, Unborn, Ways, Queue, NEW c \in Connections,
           Connect(c) \/ ShowWarning(c) \/ Leave(c)
    PROVE  Ways' /\ Queue'
<1> USE DEF TypeOK, Ways, Queue, Waiting, Serving, SocketRemoved, Unborn
<1>1. CASE Connect(c)
  BY <1>1, Length DEF Connect, actor, loop
<1>2. CASE ShowWarning(c) \/ Leave(c)
  BY <1>2 DEF ShowWarning, Leave, actor, loop, handler
<1> QED
  BY <1>1, <1>2

LEMMA QueueRead ==
    ASSUME TypeOK, Ways, Queue, NEW c \in Connections, Read(c) \/ MonitorEnds(c)
    PROVE  Ways' /\ Queue'
<1> USE DEF TypeOK, Ways, Queue, Waiting, Serving, SocketRemoved, Moved, Unread, Requests,
            Connections, actor, loop
<1>1. CASE ReadPreamble(c)
  BY <1>1, Length DEF ReadPreamble
<1>2. CASE ReadRequest(c)
  BY <1>2, Length DEF ReadRequest, Monitored
<1>3. CASE ReadWarned(c)
  BY <1>3, Length DEF ReadWarned, Monitored
<1>4. CASE MonitorEnds(c)
  BY <1>4 DEF MonitorEnds
<1> QED
  BY <1>1, <1>2, <1>3, <1>4 DEF Read

LEMMA QueueServe ==
    ASSUME TypeOK, Ways, Queue, NEW c \in Connections, Serve(c)
    PROVE  Ways' /\ Queue'
<1> USE DEF TypeOK, Ways, Queue, Waiting, Serving, SocketRemoved, Moved, loop
<1>0. Stops \cap Requests = {} /\ Connections = Stops \cup Requests /\ Loop \notin Connections
  BY ConnectionsAssumption DEF Requests, Connections
<1>1. CASE Submit(c)
  <2>1. c \in Requests /\ hand[c] = "submit" /\ answer[c] = "none" /\ c # Loop
        /\ \A i \in 1..Len(channel) : channel[i] # c
    BY <1>0, <1>1 DEF Submit
  <2>2. UNCHANGED <<main, executor, current>>
    BY <1>1 DEF Submit
  <2>3. hand' = [hand EXCEPT ![c] = IF executor = "ended" THEN "leaving" ELSE "wait"]
    BY <1>1 DEF Submit
  <2>4. CASE channel' = channel
    <3>1. \A d \in Connections \ {c} : answer'[d] = answer[d] /\ hand'[d] = hand[d]
      BY <1>1, <2>3 DEF Submit
    <3>2. answer'[c] # "none" => hand'[c] = "wait"
      BY <1>1, <2>1, <2>3 DEF Submit
    <3>3. Ways'
      BY <1>0, <2>1, <2>3, <3>1, <3>2
    <3> QED
      BY <1>0, <2>1, <2>2, <2>4, <3>1, <3>3, Length
  <2>5. CASE channel' # channel
    <3>1. Post(c) /\ answer' = answer /\ executor # "ended"
      BY <1>1, <2>5 DEF Submit, Post
    <3>2. Ways'
      BY <1>0, <2>1, <2>3, <3>1
    <3>3. ASSUME NEW d \in Connections, d # c
          PROVE  hand'[d] = hand[d] /\ answer'[d] = answer[d]
      BY <2>3, <3>1, <3>3
    <3>4. Waiting(c)'
      BY <2>1, <2>3, <3>1
    <3>5. (executor = "busy" => current # c) /\ (Serving' => Serving)
          /\ (~SocketRemoved' => ~SocketRemoved)
      BY <2>1, <2>2
    <3>6. Queue'
      BY <1>0, <2>1, <2>2, <2>5, <3>1, <3>3, <3>4, <3>5, QueuePosted
    <3> QED
      BY <3>2, <3>6
  <2> QED
    BY <2>4, <2>5
<1>2. CASE Reply(c)
  <2>1. c \in Requests /\ (\A i \in 1..Len(channel) : channel[i] # c)
        /\ (executor = "busy" => current # c)
    BY <1>0, <1>2 DEF Reply
  <2>2. UNCHANGED <<main, executor, current, channel>>
    BY <1>2 DEF Reply, actor
  <2>3. \A d \in Connections \ {c} : hand'[d] = hand[d] /\ answer'[d] = answer[d]
    BY <1>2 DEF Reply
  <2>4. answer'[c] = "none" /\ hand'[c] \in {"warned", "leaving"}
    BY <1>2 DEF Reply
  <2>5. Ways'
    BY <1>0, <2>1, <2>3, <2>4
  <2> QED
    BY <1>0, <2>1, <2>2, <2>3, <2>5, Length
<1>3. CASE SendStop(c)
  <2>1. c \in Stops /\ c # Loop /\ \A i \in 1..Len(channel) : channel[i] # c
    BY <1>0, <1>3 DEF SendStop
  <2>2. UNCHANGED <<main, executor, current, answer>> /\ hand' = [hand EXCEPT ![c] = "stopping"]
        /\ Post(c) /\ hand[c] = "send"
    BY <1>3 DEF SendStop
  <2>3. Ways'
    BY <1>0, <2>1, <2>2
  <2>4. \A d \in Connections : d # c => hand'[d] = hand[d]
    BY <2>2
  <2>5. CASE channel' = channel
    <3>1. \A i \in 1..Len(channel) : channel[i] \in Connections => hand'[channel[i]] = hand[channel[i]]
      BY <2>1, <2>4, Length
    <3>2. executor = "busy" => current # c
      BY <1>0, <2>1
    <3> QED
      BY <1>0, <2>2, <2>3, <2>4, <2>5, <3>1, <3>2, Length
  <2>6. CASE channel' # channel
    <3>1. ASSUME NEW d \in Connections, d # c
          PROVE  hand'[d] = hand[d] /\ answer'[d] = answer[d]
      BY <2>2, <2>4, <3>1
    <3>2. hand'[c] = "stopping"
      BY <2>2
    <3>3. (executor = "busy" => current # c) /\ (Serving' => Serving)
          /\ (~SocketRemoved' => ~SocketRemoved)
      BY <1>0, <2>1, <2>2
    <3>4. Queue'
      BY <1>0, <2>1, <2>2, <2>6, <3>1, <3>2, <3>3, QueuePosted
    <3> QED
      BY <2>3, <3>4
  <2> QED
    BY <2>5, <2>6
<1>4. CASE ReplyStop(c)
  BY <1>0, <1>4, Length DEF ReplyStop, actor
<1>5. CASE Release(c)
  BY <1>0, <1>5, Length DEF Release, actor
<1> QED
  BY <1>1, <1>2, <1>3, <1>4, <1>5 DEF Serve

LEMMA QueueExecutor ==
    ASSUME TypeOK, Ways, Queue, Executor
    PROVE  Ways' /\ Queue'
<1> USE DEF TypeOK, Ways, Queue, Waiting, Serving, SocketRemoved, Turn, Idle, loop
<1>0. Stops \cap Requests = {} /\ Connections = Stops \cup Requests /\ Loop \notin Connections
  BY ConnectionsAssumption DEF Requests, Connections
<1>1. CASE Look
  BY <1>1 DEF Look
<1>2. CASE Receive
  <2>1. CASE channel = <<>>
    BY <1>2, <2>1 DEF Receive
  <2>2. CASE channel # <<>>
    <3>1. channel' = Tail(channel) /\ UNCHANGED <<main, hand, answer>>
          /\ (executor' = "busy" => current' = Head(channel) /\ Head(channel) \in Requests)
      BY <1>2, <2>2 DEF Receive, Requests
    <3> QED
      BY <2>2, <3>1, Taken
  <2> QED
    BY <2>1, <2>2
<1>3. CASE Execute
  <2>1. executor = "busy" /\ executor' = "loop" /\ UNCHANGED <<main, hand, channel>>
        /\ \A d \in Connections \ {current} : answer'[d] = answer[d]
    BY <1>3 DEF Execute
  <2> QED
    BY <1>0, <2>1, Length
<1>4. CASE Drain
  <2>1. CASE channel = <<>>
    BY <1>4, <2>1 DEF Drain
  <2>2. CASE channel # <<>>
    <3>1. channel' = Tail(channel) /\ executor' = "drain" /\ UNCHANGED <<main, hand>>
          /\ \A d \in Connections : d # Head(channel) \/ d \notin Requests => answer'[d] = answer[d]
      BY <1>4, <2>2 DEF Drain, Requests
    <3>2. Head(channel) \in Requests => Waiting(Head(channel))
      BY <2>2, <3>1, Taken
    <3>3. Ways'
      BY <1>0, <3>1, <3>2
    <3> QED
      BY <1>0, <2>2, <3>1, <3>3, Taken, Length
  <2> QED
    BY <2>1, <2>2
<1>5. CASE DropReceiver
  <2>1. channel' = <<>> /\ executor' = "ended" /\ UNCHANGED <<main, hand>>
    BY <1>5 DEF DropReceiver
  <2>2. \A d \in Connections : answer'[d] # answer[d] => Waiting(d)
    BY <1>0, <1>5 DEF DropReceiver
  <2> QED
    BY <2>1, <2>2
<1> QED
  BY <1>1, <1>2, <1>3, <1>4, <1>5 DEF Executor

LEMMA QueueNext ==
    ASSUME TypeOK, Unborn, Ways, Queue, [Next]_vars
    PROVE  Ways' /\ Queue'
<1>1. CASE UNCHANGED vars
  BY <1>1 DEF vars, loop, actor, handler, Ways, Queue, Waiting, Serving, SocketRemoved
<1> QED
  BY <1>1, QueueMain, QueueClient, QueueRead, QueueServe, QueueExecutor DEF Next

-----------------------------------------------------------------------------
(* Room.                                                                   *)

LEMMA CrowdFinite ==
    ASSUME TypeOK
    PROVE  /\ IsFiniteSet(Held \cup Senders) /\ Cardinality(Held \cup Senders) \in Nat
           /\ IsFiniteSet(Senders)
<1>1. IsFiniteSet(Connections \cup {Loop})
  BY ConnectionsAssumption, FS_AddElement
<1>2. Held \cup Senders \subseteq Connections \cup {Loop}
  BY Length DEF Held, Senders
<1> QED
  BY <1>1, <1>2, FS_Subset, FS_CardinalityType

\* As nobody is there twice, the channel is no longer than its senders are many.
LEMMA LengthOfSenders ==
    ASSUME TypeOK, Queue
    PROVE  Len(channel) <= Cardinality(Senders)
<1> DEFINE f == [i \in 1..Len(channel) |-> channel[i]]
<1>1. f \in Injection(1..Len(channel), Senders)
  BY DEF Injection, IsInjective, Senders, Queue
<1>2. Cardinality(1..Len(channel)) <= Cardinality(Senders)
  BY <1>1, CrowdFinite, FS_Injection
<1>3. Cardinality(1..Len(channel)) = Len(channel)
  <2>1. Len(channel) \in Nat /\ 1 \in Int /\ Len(channel) \in Int
    BY Length
  <2>2. Cardinality(1..Len(channel)) = IF 1 > Len(channel) THEN 0 ELSE Len(channel) - 1 + 1
    BY <2>1, FS_Interval
  <2> QED
    BY <2>1, <2>2
<1> QED
  BY <1>2, <1>3

LEMMA RoomForOne ==
    ASSUME TypeOK, Ways, Queue, Crowd, Serving,
           NEW c \in Connections, hand[c] \in {"submit", "send"}
    PROVE  Len(channel) < MaxConnections
<1>1. c \in Held \cup Senders /\ c \notin Senders
  BY DEF Held, Working, Senders, Queue, Ways, Waiting
<1>2. Senders \subseteq (Held \cup Senders) \ {c}
  BY <1>1
<1>3. /\ IsFiniteSet((Held \cup Senders) \ {c})
      /\ Cardinality((Held \cup Senders) \ {c}) = Cardinality(Held \cup Senders) - 1
  BY <1>1, CrowdFinite, FS_RemoveElement
<1>4. Cardinality(Senders) <= Cardinality((Held \cup Senders) \ {c})
  BY <1>2, <1>3, FS_Subset
<1>5. Cardinality(Senders) \in Nat
  BY CrowdFinite, FS_CardinalityType
<1> QED
  BY <1>3, <1>4, <1>5, LengthOfSenders, CrowdFinite, Length, ConnectionsAssumption DEF Crowd

\* A new message is that of a handler.
LEMMA SendersNext ==
    ASSUME TypeOK, [Next]_vars, Serving'
    PROVE  Senders' \subseteq Senders \cup Held
<1> USE DEF Senders
<1>1. CASE channel' = channel
  BY <1>1
<1>2. CASE Main \/ AcceptFails
  BY <1>1, <1>2 DEF Main, Check, Accept, Reject, AcceptNothing, Fail, Unlink, AwaitComplete,
                    AwaitAcknowledged, Join, AcceptFails, actor, To, Serving
<1>3. ASSUME NEW c \in Connections, hand[c] \in Working, Post(c)
      PROVE  Senders' \subseteq Senders \cup Held
  BY <1>1, <1>3, Posted, Length DEF Held
<1>4. ASSUME NEW c \in Connections, Serve(c)
      PROVE  Senders' \subseteq Senders \cup Held
  <2>1. \/ hand[c] \in {"submit", "send"} /\ Post(c)
        \/ channel' = channel
    BY <1>4 DEF Serve, Submit, SendStop, Reply, ReplyStop, Release, actor
  <2> QED
    BY <1>1, <1>3, <2>1 DEF Working
<1>5. CASE Executor
  <2>1. CASE channel # <<>> /\ channel' = Tail(channel)
    BY <2>1, Taken
  <2>2. CASE channel' = <<>>
    BY <2>2
  <2> QED
    BY <1>1, <1>5, <2>1, <2>2 DEF Executor, Look, Receive, Execute, Drain, DropReceiver
<1>6. ASSUME NEW c \in Connections,
             Connect(c) \/ ShowWarning(c) \/ Leave(c) \/ Read(c) \/ MonitorEnds(c)
      PROVE  channel' = channel
  BY <1>6 DEF Connect, ShowWarning, Leave, Read, ReadPreamble, ReadRequest, ReadWarned,
              MonitorEnds, Unread, actor
<1>7. CASE UNCHANGED vars
  BY <1>1, <1>7 DEF vars, actor
<1> QED
  BY <1>1, <1>2, <1>4, <1>5, <1>6, <1>7 DEF Next

LEMMA EndIsFinal ==
    ASSUME [Next]_vars, ~Serving
    PROVE  ~Serving'
<1>1. CASE Main \/ AcceptFails
  BY <1>1 DEF Serving, Main, Check, Accept, Reject, AcceptNothing, Fail, Unlink,
              AwaitComplete, AwaitAcknowledged, Join, AcceptFails, To
<1>2. CASE ~(Main \/ AcceptFails)
  BY <1>2 DEF Serving, Next, vars, loop, Executor, Look, Receive, Execute, Drain,
              DropReceiver, Idle, Connect, ShowWarning, Leave, Read, ReadPreamble,
              ReadRequest, ReadWarned, Unread, Serve, Submit, Reply, SendStop, ReplyStop,
              Release, MonitorEnds
<1> QED
  BY <1>1, <1>2

LEMMA CrowdNext ==
    ASSUME TypeOK, Unborn, SlotsCover, Ways, Queue, Crowd, [Next]_vars
    PROVE  Crowd'
<1> SUFFICES ASSUME Serving'
             PROVE  Cardinality((Held \cup Senders)') <= MaxConnections
  BY DEF Crowd
<1>0. MaxConnections \in Nat /\ TypeOK' /\ SlotsCover'
  BY ConnectionsAssumption, TypeNext, SlotsNext
<1>1. CASE Accept
  <2>1. Senders' = Senders /\ Held \subseteq Held'
    BY <1>1, HeldGrows DEF Accept, actor, Senders
  <2>2. Senders \subseteq Held
    BY <1>1, Length DEF Accept, Queue, Serving, SocketRemoved, Waiting, Senders, Held,
                        Working, Requests, Connections
  <2>3. (Held \cup Senders)' = Held'
    BY <2>1, <2>2
  <2>4. Cardinality(Held') <= MaxConnections
    BY <1>0 DEF SlotsCover, SlotsAreHandlers
  <2> QED
    BY <2>3, <2>4
<1>2. CASE ~Accept
  <2>1. Held' \subseteq Held
    <3>1. CASE \A c \in Connections : ~Release(c)
      BY <1>2, <3>1, HeldKept
    <3>2. ASSUME NEW c \in Connections, Release(c)
          PROVE  Held' \subseteq Held
      BY <3>2, HeldShrinks
    <3> QED
      BY <3>1, <3>2
  <2>2. (Held \cup Senders)' \subseteq Held \cup Senders
    BY <2>1, SendersNext
  <2>3. Serving
    BY EndIsFinal
  <2>4. Cardinality((Held \cup Senders)') <= Cardinality(Held \cup Senders)
        /\ Cardinality((Held \cup Senders)') \in Nat
    BY <2>2, CrowdFinite, FS_Subset, FS_CardinalityType
  <2> QED
    BY <1>0, <2>3, <2>4, CrowdFinite DEF Crowd
<1> QED
  BY <1>1, <1>2

LEMMA NeverFullNext ==
    ASSUME TypeOK, Ways, Queue, Crowd, NeverFull, [Next]_vars
    PROVE  NeverFull'
<1> SUFFICES ASSUME Serving', NEW c \in Connections
             PROVE  answer'[c] # "full"
  BY DEF NeverFull
<1>0. Serving /\ answer[c] # "full"
  BY EndIsFinal DEF NeverFull
<1>1. ASSUME NEW d \in Connections, Submit(d)
      PROVE  answer'[c] # "full"
  <2>1. Len(channel) < MaxConnections
    BY <1>0, <1>1, RoomForOne DEF Submit
  <2>2. answer' = answer
    BY <1>1, <2>1, Length, ConnectionsAssumption DEF Submit
  <2> QED
    BY <1>0, <2>2
<1>2. CASE Executor
  BY <1>0, <1>2 DEF Executor, Look, Receive, Execute, Drain, DropReceiver, TypeOK
<1>3. ASSUME NEW d \in Connections, Reply(d)
      PROVE  answer'[c] # "full"
  BY <1>0, <1>3 DEF Reply, TypeOK
<1>4. CASE answer' = answer
  BY <1>0, <1>4
<1>5. CASE Main \/ AcceptFails \/ UNCHANGED vars
  BY <1>4, <1>5 DEF Main, Check, Accept, Reject, AcceptNothing, Fail, Unlink, AwaitComplete,
              AwaitAcknowledged, Join, AcceptFails, handler, vars
<1>6. ASSUME NEW d \in Connections,
             Connect(d) \/ ShowWarning(d) \/ Leave(d) \/ Read(d) \/ MonitorEnds(d)
      PROVE  answer' = answer
  BY <1>6 DEF Connect, ShowWarning, Leave, handler, Read, ReadPreamble, ReadRequest,
              ReadWarned, Unread, MonitorEnds
<1>7. ASSUME NEW d \in Connections, SendStop(d) \/ ReplyStop(d) \/ Release(d)
      PROVE  answer' = answer
  BY <1>7 DEF SendStop, ReplyStop, Release
<1> QED
  BY <1>1, <1>2, <1>3, <1>4, <1>5, <1>6, <1>7 DEF Next, Serve

-----------------------------------------------------------------------------
(* Warnings.                                                               *)

LEMMA WarningsNext ==
    ASSUME TypeOK, Unborn, Ways, Queue, Warnings, [Next]_vars
    PROVE  Warnings'
<1> USE DEF TypeOK, Unborn, Warnings, WarnedBeforePrompt, Over
<1>0. Starts \subseteq Connections /\ Requests \subseteq Connections
  BY DEF Connections, Requests
<1>1. CASE UNCHANGED vars
  BY <1>1 DEF vars, client, handler, actor
<1>2. CASE Main \/ AcceptFails
  BY <1>2 DEF Main, Check, Accept, Reject, AcceptNothing, Fail, Unlink, AwaitComplete,
              AwaitAcknowledged, Join, AcceptFails, client, handler, actor
<1>3. CASE Executor
  <2>1. CASE Execute
    <3>1. UNCHANGED <<peer, shown, hand, warned>> /\ executor = "busy"
          /\ prompted' \subseteq prompted
                \cup (IF warned[current] THEN {current} \cap Starts ELSE {})
      BY <2>1, ConnectionsAssumption DEF Execute, client
    <3>2. current \in Requests /\ hand[current] = "wait"
      BY <3>1 DEF Queue, Waiting
    <3> QED
      BY <1>0, <3>1, <3>2
  <2>2. CASE ~Execute
    BY <1>3, <2>2 DEF Executor, Look, Receive, Drain, DropReceiver, Idle, client
  <2> QED
    BY <2>1, <2>2
<1>4. ASSUME NEW c \in Connections, Connect(c) \/ ShowWarning(c) \/ Leave(c)
      PROVE  Warnings'
  <2>1. CASE Connect(c)
    <3>1. hand[c] = "none" /\ ~warned[c] /\ c \notin prompted
      BY <2>1 DEF Connect
    <3> QED
      BY <1>0, <2>1, <3>1 DEF Connect, actor
  <2>2. CASE ShowWarning(c) \/ Leave(c)
    BY <1>0, <2>2 DEF ShowWarning, Leave, handler, actor
  <2> QED
    BY <1>4, <2>1, <2>2
<1>5. ASSUME NEW c \in Connections, Read(c)
      PROVE  Warnings'
  BY <1>0, <1>5 DEF Read, ReadPreamble, ReadRequest, ReadWarned, Monitored, Moved, Unread,
              client, actor
<1>6. ASSUME NEW c \in Connections, Serve(c) \/ MonitorEnds(c)
      PROVE  Warnings'
  BY <1>0, <1>6 DEF Serve, Submit, Reply, SendStop, ReplyStop, Release, MonitorEnds, Moved,
              client, actor
<1> QED
  BY <1>1, <1>2, <1>3, <1>4, <1>5, <1>6 DEF Next

-----------------------------------------------------------------------------
LEMMA InvInit == Init => IInv
<1> SUFFICES ASSUME Init PROVE IInv
  OBVIOUS
<1>1. Held = {} /\ Senders = {}
  BY DEF Init, Held, Working, Senders
<1>2. Crowd
  BY <1>1, FS_EmptySet, ConnectionsAssumption DEF Crowd
<1>3. NeverFull /\ Warnings /\ Unborn
  BY DEF Init, NeverFull, Warnings, WarnedBeforePrompt, Unborn
<1> QED
  BY <1>2, <1>3, TypeInit, SlotsInit, QueueInit DEF IInv

LEMMA InvNext == IInv /\ [Next]_vars => IInv'
BY TypeNext, UnbornNext, SlotsNext, QueueNext, CrowdNext, NeverFullNext, WarningsNext
   DEF IInv

LEMMA Invariance == Spec => []IInv
BY InvInit, InvNext, PTL DEF Spec

\* Every variable keeps its type (Connections, broker.rs).
THEOREM ConnectionTypes == Spec => []TypeOK
<1>1. IInv => TypeOK
  BY DEF IInv
<1> QED
  BY Invariance, <1>1, PTL

\* The counter of connections is that of their handlers, which are never more
\* than the slots (broker.rs, active_connections).
THEOREM Slots == Spec => []SlotsAreHandlers
<1>1. IInv => SlotsAreHandlers
  BY DEF IInv, SlotsCover
<1> QED
  BY Invariance, <1>1, PTL

\* Whatever the number of slots, the channel of as many places has room for the
\* message of a handler, and no request is answered QueueFull (broker.rs, submit).
THEOREM Room == Spec => []RoomInChannel
<1>1. IInv => RoomInChannel
  <2> SUFFICES ASSUME IInv, main \notin {"exit", "gone"}, NEW c \in Connections
               PROVE  /\ hand[c] \in {"submit", "send"} => Len(channel) < MaxConnections
                      /\ answer[c] # "full"
    BY DEF RoomInChannel
  <2> QED
    BY RoomForOne DEF IInv, NeverFull, Serving
<1> QED
  BY Invariance, <1>1, PTL

\* No start prompts unless its client has written the warning (broker.rs,
\* handle_connection; client.rs, start_existing).
THEOREM Warned == Spec => []WarnedBeforePrompt
<1>1. IInv => WarnedBeforePrompt
  BY DEF IInv, Warnings
<1> QED
  BY Invariance, <1>1, PTL

-----------------------------------------------------------------------------
(* The channel.                                                            *)

\* Before the flag nobody has said, or is about to say, Stop, and the executor has
\* not left its loop.
Flagged ==
    /\ current \in Requests \cup {Loop}
    /\ ~shutdown =>
          /\ main # "fail" /\ executor \in {"loop", "receive", "busy"}
          /\ \A c \in Connections : hand[c] \notin {"send", "stopping"}
          /\ \A i \in 1..Len(channel) : channel[i] \in Requests

CInv == IInv /\ Flagged

LEMMA FlaggedInit == Init => Flagged
BY DEF Init, Flagged

LEMMA FlaggedNext ==
    ASSUME TypeOK, Ways, Flagged, [Next]_vars
    PROVE  Flagged'
<1>0. Requests \cap Stops = {} /\ Loop \notin Requests /\ Connections = Requests \cup Stops
      /\ Requests = Starts \cup Asks
  BY ConnectionsAssumption DEF Requests, Connections
<1>1. CASE UNCHANGED vars
  BY <1>1 DEF Flagged, vars, loop, actor, handler
<1>2. CASE Main \/ AcceptFails
  <2>1. CASE Fail
    BY <2>1 DEF Flagged, Fail, To, client, handler
  <2>2. CASE (Main /\ ~Fail) \/ AcceptFails
    <3>1. UNCHANGED <<executor, current, channel>> /\ (shutdown => shutdown')
          /\ (main' = "fail" => shutdown')
      BY <2>2 DEF Main, Check, Accept, Reject, AcceptNothing, Unlink, AwaitComplete,
                  AwaitAcknowledged, Join, AcceptFails, To, actor, Flagged
    <3>2. \A c \in Connections : hand'[c] \in {"send", "stopping"} => hand'[c] = hand[c]
      BY <2>2 DEF Main, Check, Accept, Reject, AcceptNothing, Unlink, AwaitComplete,
                  AwaitAcknowledged, Join, AcceptFails, handler, TypeOK
    <3> QED
      BY <3>1, <3>2 DEF Flagged
  <2> QED
    BY <1>2, <2>1, <2>2
<1>3. CASE Executor
  <2>1. CASE Receive /\ channel # <<>>
    BY <1>0, <2>1, Taken DEF Flagged, Receive, Turn, Idle, loop
  <2>2. CASE Executor /\ ~(Receive /\ channel # <<>>)
    <3>1. UNCHANGED <<main, hand>> /\ current' \in {current, Loop}
      BY <2>2 DEF Executor, Look, Receive, Execute, Drain, DropReceiver, Idle, loop
    <3>2. CASE executor \in {"drain", "complete"}
      <4>1. shutdown'
        BY <2>2, <3>2 DEF Executor, Look, Receive, Execute, Drain, DropReceiver, Flagged
      <4> QED
        BY <3>1, <4>1 DEF Flagged
    <3>3. CASE executor \notin {"drain", "complete"}
      BY <2>2, <3>1, <3>3 DEF Executor, Look, Receive, Execute, Drain, DropReceiver, Turn,
                              Flagged
    <3> QED
      BY <3>2, <3>3
  <2> QED
    BY <1>3, <2>1, <2>2
<1>4. ASSUME NEW c \in Connections, Connect(c) \/ ShowWarning(c) \/ Leave(c)
      PROVE  Flagged'
  BY <1>4 DEF Connect, ShowWarning, Leave, loop, actor, handler, Flagged, TypeOK
<1>5. ASSUME NEW c \in Connections, Read(c) \/ MonitorEnds(c)
      PROVE  Flagged'
  <2>1. UNCHANGED <<main, executor, current, channel>> /\ (shutdown => shutdown')
    BY <1>5 DEF Read, ReadPreamble, ReadRequest, ReadWarned, MonitorEnds, Unread, loop, actor
  <2>2. \A d \in Connections : \/ hand'[d] = hand[d]
                               \/ hand'[d] \in {"request", "submit", "leaving"}
                               \/ shutdown'
    BY <1>5 DEF Read, ReadPreamble, ReadRequest, ReadWarned, MonitorEnds, Monitored, Moved, TypeOK
  <2> QED
    BY <2>1, <2>2 DEF Flagged
<1>6. ASSUME NEW c \in Connections, Serve(c)
      PROVE  Flagged'
  <2>1. CASE SendStop(c)
    <3>1. shutdown' /\ current' = current
      BY <2>1 DEF SendStop, Flagged
    <3> QED
      BY <3>1 DEF Flagged
  <2>2. CASE ~SendStop(c)
    <3>1. UNCHANGED <<main, executor, current, shutdown>>
      BY <1>6, <2>2 DEF Serve, Submit, Reply, ReplyStop, Release, loop, actor
    <3>2. \A d \in Connections : hand'[d] = hand[d] \/ hand'[d] \notin {"send", "stopping"}
      BY <1>6, <2>2 DEF Serve, Submit, Reply, ReplyStop, Release, Moved, TypeOK
    <3>3. channel' = channel \/ (Post(c) /\ c \in Requests)
      BY <1>6, <2>2 DEF Serve, Submit, Reply, ReplyStop, Release, actor, Ways
    <3>4. ASSUME ~shutdown
          PROVE  \A i \in 1..Len(channel') : channel'[i] \in Requests
      BY <3>3, <3>4, Posted, Length DEF Flagged
    <3> QED
      BY <3>1, <3>2, <3>4 DEF Flagged
  <2> QED
    BY <2>1, <2>2
<1> QED
  BY <1>1, <1>2, <1>3, <1>4, <1>5, <1>6 DEF Next

LEMMA CInvariance == Spec => []CInv
<1>1. Init => CInv
  BY InvInit, FlaggedInit DEF CInv
<1>2. CInv /\ [Next]_vars => CInv'
  BY InvNext, FlaggedNext DEF CInv, IInv
<1> QED
  BY <1>1, <1>2, PTL DEF Spec

\* What the contract does not see, or sees as the setting of the flag.
LEMMA Unseen ==
    ASSUME UNCHANGED <<executor, current, channel, openBar>>,
           shutdown' \in {shutdown, TRUE}
    PROVE  [Channel!Next]_(Channel!vars)
BY DEF takenBar, Channel!Next, Channel!ShutDown, Channel!vars

\* A connection stays open, or not, if its handler neither waits before nor after
\* the step, or neither it nor its answer changes.
LEMMA OpenKept ==
    ASSUME TypeOK,
           \A c \in Connections :
              \/ hand'[c] = hand[c] /\ answer'[c] = answer[c]
              \/ ~Waiting(c) /\ ~Waiting(c)'
    PROVE  openBar' = openBar
BY DEF openBar, Waiting

\* A message goes into the channel.
LEMMA Sent ==
    ASSUME TypeOK, Flagged, NEW c \in Connections \cup {Loop}, executor # "ended",
           channel' = Append(channel, c), UNCHANGED <<executor, current, shutdown>>,
           c \notin openBar, c \notin Requests => shutdown,
           openBar' = openBar \cup ({c} \cap Requests)
    PROVE  Channel!Next
BY DEF takenBar, Channel!Next, Channel!Send

LEMMA ChannelServe ==
    ASSUME TypeOK, Ways, Flagged, NEW c \in Connections, Serve(c)
    PROVE  [Channel!Next]_(Channel!vars)
<1>0. /\ Requests \cap Stops = {} /\ hand \in [Connections -> Hands]
      /\ answer[c] # "none" => hand[c] = "wait"
  BY ConnectionsAssumption DEF Requests, TypeOK, Hands, Ways
<1>1. CASE Submit(c)
  <2>1. /\ c \in Requests /\ ~Waiting(c) /\ answer[c] = "none"
        /\ \A d \in Connections \ {c} : hand'[d] = hand[d]
    BY <1>0, <1>1 DEF Submit, Ways, Waiting, Moved
  <2>2. UNCHANGED <<executor, current, shutdown>>
    BY <1>1 DEF Submit
  <2>3. CASE executor = "ended" \/ Len(channel) = MaxConnections
    <3>1. channel' = channel /\ ~Waiting(c)'
      BY <1>0, <1>1, <2>3 DEF Submit, Post, Waiting, Moved, TypeOK
    <3>2. \A d \in Connections \ {c} : answer'[d] = answer[d]
      BY <1>1 DEF Submit, TypeOK
    <3>3. openBar' = openBar
      BY <2>1, <3>1, <3>2, OpenKept
    <3> QED
      BY <2>2, <3>1, <3>3, Unseen
  <2>4. CASE executor # "ended" /\ Len(channel) # MaxConnections
    <3>1. channel' = Append(channel, c) /\ answer' = answer /\ hand'[c] = "wait"
      BY <1>0, <1>1, <2>4 DEF Submit, Post, Moved
    <3>2. openBar' = openBar \cup {c}
      BY <2>1, <3>1 DEF openBar
    <3>3. c \notin openBar
      BY <2>1 DEF openBar, Waiting
    <3> QED
      BY <2>1, <2>2, <2>4, <3>1, <3>2, <3>3, Sent
  <2> QED
    BY <2>3, <2>4
<1>2. CASE SendStop(c)
  <2>1. c \in Stops /\ shutdown /\ ~Waiting(c)
    BY <1>2 DEF SendStop, Ways, Flagged, Waiting
  <2>2. UNCHANGED <<executor, current, shutdown, answer>> /\ Post(c)
    BY <1>2 DEF SendStop
  <2>3. openBar' = openBar
    BY <1>0, <1>2, OpenKept DEF SendStop, Waiting, Moved
  <2>4. CASE executor = "ended"
    BY <2>2, <2>3, <2>4, Unseen DEF Post
  <2>5. CASE executor # "ended"
    <3>1. c \notin openBar /\ {c} \cap Requests = {}
      BY <1>0, <2>1 DEF openBar, Waiting
    <3> QED
      BY <2>1, <2>2, <2>3, <2>5, <3>1, Sent DEF Post
  <2> QED
    BY <2>4, <2>5
<1>3. CASE Reply(c) \/ ReplyStop(c) \/ Release(c)
  <2>1. UNCHANGED <<executor, current, shutdown, channel>>
    BY <1>3 DEF Reply, ReplyStop, Release, actor
  <2>2. openBar' = openBar
    <3>1. ~Waiting(c) /\ ~Waiting(c)'
      BY <1>0, <1>3 DEF Reply, ReplyStop, Release, Moved, Waiting
    <3>2. \A d \in Connections \ {c} : hand'[d] = hand[d] /\ answer'[d] = answer[d]
      BY <1>0, <1>3 DEF Reply, ReplyStop, Release, Moved, TypeOK
    <3> QED
      BY <3>1, <3>2, OpenKept
  <2> QED
    BY <2>1, <2>2, Unseen
<1> QED
  BY <1>1, <1>2, <1>3 DEF Serve

\* The steps of the executor are those of the contract, and nothing more changes
\* than follows from them.
LEMMA ChannelExecutor ==
    ASSUME TypeOK, Ways, Queue, Flagged, Executor
    PROVE  Channel!Serve
<1> USE DEF Turn, Idle, Channel!Serve, Channel!To
<1>0. /\ Requests \cap Stops = {} /\ Loop \notin Connections /\ Requests = Starts \cup Asks
      /\ Requests \subseteq Connections
  BY ConnectionsAssumption DEF Requests, Connections
<1>1. CASE Look
  BY <1>1 DEF Look, openBar, takenBar, Channel!Look
<1>2. CASE Receive
  <2>1. UNCHANGED <<shutdown, openBar>>
    BY <1>2 DEF Receive, openBar
  <2>2. CASE channel = <<>>
    BY <1>2, <2>1, <2>2 DEF Receive, takenBar, Channel!Rest
  <2>3. CASE channel # <<>> /\ Head(channel) \in Requests
    BY <1>0, <1>2, <2>1, <2>3 DEF Receive, takenBar, Channel!Take
  <2>4. CASE channel # <<>> /\ Head(channel) \notin Requests
    BY <1>0, <1>2, <2>1, <2>4 DEF Receive, takenBar, Channel!TakeStop
  <2> QED
    BY <2>2, <2>3, <2>4
<1>3. CASE Execute
  <2>1. /\ current \in Requests /\ Waiting(current) /\ UNCHANGED <<hand, channel, shutdown>>
        /\ executor = "busy" /\ executor' = "loop" /\ current' = Loop
    BY <1>3 DEF Execute, Queue
  <2>2. /\ answer'[current] # "none"
        /\ \A d \in Connections \ {current} : answer'[d] = answer[d]
    BY <1>0, <1>3, <2>1 DEF Execute, TypeOK
  <2>3. openBar' = openBar \ {current}
    BY <2>1, <2>2 DEF openBar
  <2>4. takenBar = {current} /\ takenBar' = {}
    BY <1>0, <2>1 DEF takenBar
  <2> QED
    BY <2>1, <2>3, <2>4 DEF Channel!Settle
<1>4. CASE Drain
  <2>1. UNCHANGED <<shutdown, hand, current>> /\ executor = "drain"
    BY <1>4 DEF Drain, Flagged
  <2>2. CASE channel = <<>>
    BY <1>4, <2>1, <2>2 DEF Drain, openBar, takenBar, Channel!Complete
  <2>3. CASE channel # <<>>
    <3>1. openBar' = openBar \ {Head(channel)}
      <4>1. CASE Head(channel) \in Requests
        BY <1>0, <1>4, <2>1, <2>3, <4>1 DEF Drain, openBar, TypeOK
      <4>2. CASE Head(channel) \notin Requests
        <5>1. answer' = answer /\ Head(channel) \notin openBar
          BY <1>0, <1>4, <2>3, <4>2 DEF Drain, openBar, Ways
        <5> QED
          BY <2>1, <5>1 DEF openBar
      <4> QED
        BY <4>1, <4>2
    <3> QED
      BY <1>4, <2>1, <2>3, <3>1 DEF Drain, takenBar, Channel!Drain
  <2> QED
    BY <2>2, <2>3
<1>5. CASE DropReceiver
  <2>1. openBar' = openBar \ {channel[i] : i \in 1..Len(channel)}
    <3>1. \A c \in openBar : c \notin Stops
      BY <1>0 DEF openBar, Ways
    <3>2. \A c \in Connections :
            answer'[c] = IF c \in Senders /\ c \notin Stops THEN "dropped" ELSE answer[c]
      BY <1>5 DEF DropReceiver, Senders
    <3> QED
      BY <1>5, <3>1, <3>2 DEF DropReceiver, openBar, Senders
  <2> QED
    BY <1>5, <2>1 DEF DropReceiver, takenBar, Channel!Drop
<1> QED
  BY <1>1, <1>2, <1>3, <1>4, <1>5 DEF Executor

LEMMA ChannelNext ==
    ASSUME CInv, [Next]_vars
    PROVE  [Channel!Next]_(Channel!vars)
<1>0. TypeOK /\ Unborn /\ Ways /\ Queue /\ Flagged
  BY DEF CInv, IInv
<1>1. CASE UNCHANGED vars
  BY <1>1, Unseen DEF vars, actor, handler, openBar
<1>2. CASE Executor
  BY <1>0, <1>2, ChannelExecutor DEF Channel!Next
<1>3. ASSUME NEW c \in Connections, Serve(c)
      PROVE  [Channel!Next]_(Channel!vars)
  BY <1>0, <1>3, ChannelServe
<1>4. CASE Fail
  <2>1. UNCHANGED <<executor, current, shutdown, openBar>> /\ shutdown /\ Post(Loop)
    BY <1>0, <1>4 DEF Fail, handler, openBar, Flagged
  <2>2. CASE executor = "ended"
    BY <2>1, <2>2, Unseen DEF Post
  <2>3. CASE executor # "ended"
    <3>1. Loop \notin openBar /\ {Loop} \cap Requests = {}
      BY ConnectionsAssumption DEF openBar, Requests, Connections
    <3> QED
      BY <1>0, <2>1, <2>3, <3>1, Sent DEF Post
  <2> QED
    BY <2>2, <2>3
<1>5. CASE (Main /\ ~Fail) \/ AcceptFails
  <2>1. UNCHANGED <<executor, current, channel>> /\ shutdown' \in {shutdown, TRUE}
    BY <1>5 DEF Main, Check, Accept, Reject, AcceptNothing, Unlink, AwaitComplete,
                AwaitAcknowledged, Join, AcceptFails, actor
  <2>2. openBar' = openBar
    BY <1>0, <1>5, OpenKept
       DEF Main, Check, Accept, Reject, AcceptNothing, Unlink, AwaitComplete,
           AwaitAcknowledged, Join, AcceptFails, handler, Waiting, TypeOK
  <2> QED
    BY <2>1, <2>2, Unseen
<1>6. ASSUME NEW c \in Connections,
             Connect(c) \/ ShowWarning(c) \/ Leave(c) \/ Read(c) \/ MonitorEnds(c)
      PROVE  [Channel!Next]_(Channel!vars)
  <2>1. UNCHANGED <<executor, current, channel, answer>> /\ shutdown' \in {shutdown, TRUE}
    BY <1>6 DEF Connect, ShowWarning, Leave, Read, ReadPreamble, ReadRequest, ReadWarned,
                MonitorEnds, Unread, actor, handler
  <2>2. openBar' = openBar
    <3>1. hand'[c] = hand[c] \/ (hand[c] # "wait" /\ hand'[c] # "wait")
      BY <1>0, <1>6 DEF Connect, ShowWarning, Leave, Read, ReadPreamble, ReadRequest,
         ReadWarned, MonitorEnds, Monitored, Moved, handler, Unborn, TypeOK
    <3>2. \A d \in Connections \ {c} : hand'[d] = hand[d]
      BY <1>0, <1>6 DEF Connect, ShowWarning, Leave, Read, ReadPreamble, ReadRequest,
         ReadWarned, MonitorEnds, Monitored, Moved, handler, TypeOK
    <3> QED
      BY <1>0, <2>1, <3>1, <3>2, OpenKept DEF Waiting
  <2> QED
    BY <2>1, <2>2, Unseen
<1> QED
  BY <1>1, <1>2, <1>3, <1>4, <1>5, <1>6 DEF Next

LEMMA ChannelInit == Init => Channel!Init
BY ConnectionsAssumption DEF Init, Channel!Init, openBar, takenBar, Requests, Connections

\* Between the handlers and the executor, requests and stops go through the channel
\* as ChannelContract says (broker.rs, submit; serve; BrokerActor::run).
THEOREM ChannelContractKept == Spec => ChannelKeepsContract
BY CInvariance, ChannelInit, ChannelNext, PTL DEF Spec, ChannelKeepsContract, Channel!Spec

\* What the contract lets the executor do Connections lets it do: nothing that
\* BrokerActor does with its queue is left out here.
THEOREM ServesAllMessages ==
    ASSUME CInv, Channel!Serve, OnlyChannelSteps
    PROVE  Executor
<1> USE DEF Turn, Idle, loop, client, Channel!To
<1>0. TypeOK /\ Ways /\ Queue /\ Flagged
  BY DEF CInv, IInv
<1>1. /\ Requests \cap Stops = {} /\ Loop \notin Requests /\ Requests = Starts \cup Asks
      /\ Requests \subseteq Connections /\ openBar \subseteq Connections
  BY ConnectionsAssumption DEF Requests, Connections, openBar
<1>2. /\ Alive /\ UNCHANGED <<loop, shutdown, client, hand, warned, monitor>>
      /\ current \in Requests \cup {Loop} /\ current' \in Requests \cup {Loop}
  BY <1>0 DEF OnlyChannelSteps, Flagged
<1>3. answer = [c \in Connections |-> answer[c]] /\ answer' = [c \in Connections |-> answer'[c]]
  BY <1>0 DEF TypeOK, OnlyChannelSteps
<1>4. \A c \in Connections : c \notin openBar \ openBar' => answer'[c] = answer[c]
  BY DEF OnlyChannelSteps
<1>5. ASSUME openBar' = openBar PROVE answer' = answer
  BY <1>3, <1>4, <1>5
<1>6. ASSUME takenBar' = takenBar PROVE current' = current
  BY <1>1, <1>2, <1>6 DEF takenBar
<1>7. executor # "busy" => prompted' = prompted
  BY DEF OnlyChannelSteps
<1>8. CASE Channel!Look
  BY <1>2, <1>5, <1>6, <1>7, <1>8 DEF Channel!Look, Executor, Look
<1>9. CASE Channel!Rest
  BY <1>2, <1>5, <1>6, <1>7, <1>9 DEF Channel!Rest, Executor, Receive
<1>10. CASE Channel!Take
  <2>1. current' = Head(channel)
    BY <1>1, <1>2, <1>10 DEF Channel!Take, takenBar
  <2> QED
    BY <1>1, <1>2, <1>5, <1>7, <1>10, <2>1 DEF Channel!Take, Executor, Receive
<1>11. CASE Channel!TakeStop
  BY <1>1, <1>2, <1>5, <1>6, <1>7, <1>11 DEF Channel!TakeStop, Executor, Receive
<1>12. CASE Channel!Settle
  <2>1. executor = "busy" /\ executor' = "loop" /\ UNCHANGED channel
    BY <1>12 DEF Channel!Settle
  <2>2. current \in Requests /\ Waiting(current) /\ takenBar = {current}
    BY <1>0, <2>1 DEF Queue, takenBar
  <2>3. current' = Loop /\ openBar' = openBar \ {current}
    BY <1>2, <1>12, <2>2 DEF Channel!Settle, takenBar
  <2>4. openBar \ openBar' = {current}
    BY <1>1, <2>2, <2>3 DEF openBar, Waiting
  <2>5. answer' = [answer EXCEPT ![current] = answer'[current]]
    BY <1>1, <1>3, <1>4, <2>2, <2>4
  <2>6. answer'[current] \in IF current \in Starts /\ ~warned[current]
                             THEN {"ok", "needWarning", "error"}
                             ELSE {"ok", "error"} \cup (IF shutdown THEN {"dropped"} ELSE {})
    BY <1>1, <2>1, <2>2, <2>4 DEF OnlyChannelSteps
  <2>7. prompted' \in {prompted} \cup
          (IF warned[current] THEN {prompted \cup ({current} \cap Starts)} ELSE {})
    BY <2>1 DEF OnlyChannelSteps
  <2>8. warned[current] \in BOOLEAN
    BY <1>0, <1>1, <2>2 DEF TypeOK
  <2>9. Execute
    <3>1. CASE current \in Starts /\ ~warned[current]
      BY <1>2, <2>1, <2>3, <2>5, <2>6, <2>7, <3>1 DEF Execute
    <3>2. CASE ~(current \in Starts /\ ~warned[current])
      <4>1. current \in Asks \/ warned[current]
        BY <1>1, <2>2, <3>2
      <4>2. \E r \in {"ok", "error", "dropped"} :
              /\ r = "dropped" => shutdown
              /\ answer' = [answer EXCEPT ![current] = r]
        BY <2>5, <2>6, <3>2
      <4>3. prompted' \in {prompted, prompted \cup ({current} \cap Starts)}
        BY <2>7
      <4> QED
        BY <1>2, <2>1, <2>3, <4>1, <4>2, <4>3 DEF Execute
    <3> QED
      BY <3>1, <3>2
  <2> QED
    BY <2>9 DEF Executor
<1>13. CASE Channel!Drain
  <2>1. /\ executor = "drain" /\ executor' = "drain" /\ shutdown' = TRUE
        /\ channel # <<>> /\ channel' = Tail(channel) /\ openBar' = openBar \ {Head(channel)}
        /\ current' = current /\ prompted' = prompted
    BY <1>0, <1>2, <1>6, <1>7, <1>13 DEF Channel!Drain, Flagged, TypeOK
  <2>2. CASE Head(channel) \in Requests
    <3>1. openBar \ openBar' = {Head(channel)}
      BY <1>0, <1>1, <2>1, <2>2, Taken DEF Queue, Waiting, openBar
    <3>2. answer'[Head(channel)] = "error"
      BY <1>1, <2>1, <2>2, <3>1 DEF OnlyChannelSteps
    <3>3. answer' = [answer EXCEPT ![Head(channel)] = "error"]
      BY <1>1, <1>3, <1>4, <2>2, <3>1, <3>2
    <3> QED
      BY <1>1, <1>2, <2>1, <2>2, <3>3 DEF Drain, Executor
  <2>3. CASE Head(channel) \notin Requests
    <3>1. Head(channel) \notin openBar
      BY <1>0, <2>3 DEF openBar, Ways
    <3>2. answer' = answer
      BY <1>5, <2>1, <3>1
    <3> QED
      BY <1>1, <1>2, <2>1, <2>3, <3>2 DEF Drain, Executor
  <2> QED
    BY <2>2, <2>3
<1>14. CASE Channel!Complete
  <2>1. executor = "drain" /\ shutdown' = TRUE
    BY <1>0, <1>2, <1>14 DEF Channel!Complete, Flagged, TypeOK
  <2> QED
    BY <1>2, <1>5, <1>6, <1>7, <1>14, <2>1 DEF Channel!Complete, Executor, Drain
<1>15. CASE Channel!Drop
  <2>1. executor = "complete" /\ openBar' = openBar \ Senders /\ current' = current
        /\ prompted' = prompted /\ channel' = <<>> /\ executor' = "ended"
    BY <1>6, <1>7, <1>15 DEF Channel!Drop, Senders
  <2>2. ASSUME NEW c \in Connections
        PROVE  answer'[c] = IF \E i \in 1..Len(channel) : channel[i] = c /\ c \notin Stops
                            THEN "dropped" ELSE answer[c]
    <3>1. CASE c \in openBar \cap Senders
      <4>1. c \notin Stops
        BY <1>0, <1>1, <3>1 DEF openBar, Ways
      <4>2. answer'[c] = "dropped"
        BY <2>1, <3>1 DEF OnlyChannelSteps
      <4> QED
        BY <3>1, <4>1, <4>2 DEF Senders
    <3>2. CASE c \notin openBar \cap Senders
      <4>1. answer'[c] = answer[c]
        BY <1>4, <2>1, <3>2
      <4>2. c \in Senders => c \in Stops
        BY <1>0, <3>2 DEF Senders, Queue, Waiting, openBar, Requests, Connections
      <4> QED
        BY <4>1, <4>2 DEF Senders
    <3> QED
      BY <3>1, <3>2
  <2>3. answer' = [c \in Connections |->
                     IF \E i \in 1..Len(channel) : channel[i] = c /\ c \notin Stops
                     THEN "dropped" ELSE answer[c]]
    BY <1>3, <2>2
  <2> QED
    BY <1>2, <2>1, <2>3 DEF Executor, DropReceiver
<1> QED
  BY <1>8, <1>9, <1>10, <1>11, <1>12, <1>13, <1>14, <1>15 DEF Channel!Serve

-----------------------------------------------------------------------------
(* What lasts.                                                             *)

LEMMA Lasting ==
    ASSUME TypeOK, Unborn, [Next]_vars
    PROVE  /\ shutdown => shutdown'
           /\ \A c \in Connections : peer[c] = "left" => peer'[c] = "left"
<1> USE DEF TypeOK
<1>1. CASE UNCHANGED vars
  BY <1>1 DEF vars, client
<1>2. CASE Main \/ AcceptFails
  BY <1>2 DEF Main, Check, Accept, Reject, AcceptNothing, Fail, Unlink, AwaitComplete,
              AwaitAcknowledged, Join, AcceptFails, client
<1>3. CASE Executor
  BY <1>3 DEF Executor, Look, Receive, Execute, Drain, DropReceiver, Idle, client
<1>4. ASSUME NEW d \in Connections,
             \/ Connect(d) \/ ShowWarning(d) \/ Leave(d)
             \/ Read(d) \/ Serve(d) \/ MonitorEnds(d)
      PROVE  /\ shutdown => shutdown'
             /\ \A c \in Connections : peer[c] = "left" => peer'[c] = "left"
  BY <1>4 DEF Connect, ShowWarning, Leave, Read, ReadPreamble, ReadRequest, ReadWarned,
              Unread, Serve, Submit, Reply, SendStop, ReplyStop, Release, MonitorEnds,
              client
<1> QED
  BY <1>1, <1>2, <1>3, <1>4 DEF Next

\* A client that left stays away, so that SlotsComeBack, which is about moments that
\* come again and again, says of each connection that its leaving leads to the end of
\* its handler and monitor.
THEOREM LeavingLasts ==
    ASSUME NEW d \in Connections
    PROVE  Spec /\ SlotsComeBack =>
              (peer[d] = "left" ~> (~Alive \/ (hand[d] \in Over /\ ~monitor[d])))
<1> DEFINE Left == peer[d] = "left"
           Back == ~Alive \/ (hand[d] \in Over /\ ~monitor[d])
           All == \A c \in Connections :
                     peer[c] = "left" => ~Alive \/ (hand[c] \in Over /\ ~monitor[c])
<1>1. SlotsComeBack => []<>All
  BY PTL DEF SlotsComeBack
<1>2. All => (Left => Back)
  OBVIOUS
<1>3. IInv /\ [Next]_vars => (Left => Left')
  BY Lasting DEF IInv
<1> HIDE DEF Left, Back, All
<1>4. Spec /\ SlotsComeBack => (Left ~> Back)
  BY Invariance, <1>1, <1>2, <1>3, PTL DEF Spec
<1> QED
  BY <1>4 DEF Left, Back

\* A broker that is stopped stays so: StopNeedsNoClient says that the flag leads to
\* its end (broker.rs, shutdown).
THEOREM StopLasts == Spec => (StopNeedsNoClient <=> (shutdown ~> ~Alive))
<1>1. IInv /\ [Next]_vars => (shutdown => shutdown')
  BY Lasting DEF IInv
<1> QED
  BY Invariance, <1>1, PTL DEF Spec, StopNeedsNoClient
=============================================================================
