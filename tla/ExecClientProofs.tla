---------------------------- MODULE ExecClientProofs ----------------------------
(***************************************************************************)
(* Proofs of the safety properties of ExecClient, for every set of         *)
(* signals, every number of pipes and writes, and every interleaving of    *)
(* the client's threads with the threads of its connection.                *)
(***************************************************************************)
EXTENDS ExecClientRefinement, TLAPS

Pieces == {"cancel", "signal", "streams"} \X (Signals \cup {NoSignal})

\* The queue of events is made of frames, but for the header whose payload the
\* signal thread is about to send.
Frames ==
    /\ \A i \in 1..Len(events) :
          /\ events[i][1] = "cancel" => IF i = Len(events) THEN thread = "payload"
                                        ELSE events[i + 1][1] = "signal"
          /\ events[i][1] = "signal" => i > 1 /\ events[i - 1][1] = "cancel"
    /\ thread = "payload" => events # <<>> /\ events[Len(events)][1] = "cancel"
Whole == Live /\ command # "dead" => Frames

\* Every signal in the queue, in the request's control and in a reply is the one
\* that the client took, and no client that lives was taken for gone.
Name(r) == r.by = "signal" => r.signal = received /\ received # NoSignal
Named ==
    /\ \A i \in 1..Len(events) :
          events[i][1] # "streams" => events[i][2] = received /\ received # NoSignal
    /\ control.signal \in {NoSignal, received}
    /\ Live => monitor /\ (control.cancelled => control.signal # NoSignal)
    /\ Name(reason) /\ Name(answer)
    /\ Live => reason.by # "cancelled" /\ answer.by # "cancelled"

\* The threads are joined before the streams are said to be closed, and a thread
\* that saw the end of its pipe will see no more of it.
Waiting == main \in {"await", "restore"}
Joined ==
    /\ Waiting => ~Copying
    /\ Live /\ control.streams => Waiting
    /\ Live /\ (\E i \in 1..Len(events) : events[i][1] = "streams") => Waiting
    /\ \A p \in Pipes : copy[p] = "ended" => Ended(p) /\ copied[p] = written[p]
    /\ command \in {"queued", "picked"} => kept

Replied ==
    /\ answer # NoAnswer => command \in {"answered", "dead"}
    /\ main = "restore" => answer # NoAnswer
    /\ main = "send" => thread = "none" /\ \A p \in Pipes : copy[p] = "copying"

IInv == /\ TypeOK /\ Whole /\ Named /\ Joined /\ Replied
        /\ OutputBeforeStatus /\ StatusNamesSignal

-----------------------------------------------------------------------------
LEMMA PlainFields ==
    /\ \A what : Plain(what).by = what /\ Plain(what).signal = NoSignal
    /\ \A s : Caller(s).by = "signal" /\ Caller(s).signal = s
    /\ NoAnswer.by = "none"
BY DEF Plain, Caller, NoAnswer

LEMMA AnswerFields ==
    ASSUME NEW a \in Answers
    PROVE  /\ a.by \in {"none", "exit", "timedOut", "required", "error", "closed",
                        "cancelled", "signal"}
           /\ a.by = "signal" <=> \E s \in Signals : a = Caller(s)
           /\ a # NoAnswer <=> a.by # "none"
<1>1. CASE \E s \in Signals : a = Caller(s)
  BY <1>1, PlainFields
<1>2. CASE a \in {Plain(what) : what \in {"none", "exit", "timedOut", "required",
                                         "error", "closed", "cancelled"}}
  BY <1>2, PlainFields DEF NoAnswer
<1> QED
  BY <1>1, <1>2 DEF Answers

\* What a sequence holds behind a step of the queue.
LEMMA Added ==
    ASSUME NEW T, NEW s \in Seq(T), NEW e \in T
    PROVE  /\ Len(Append(s, e)) = Len(s) + 1 /\ Len(s) \in Nat
           /\ Append(s, e)[Len(s) + 1] = e
           /\ \A i \in 1..Len(s) : Append(s, e)[i] = s[i]
OBVIOUS

LEMMA OneTaken ==
    ASSUME NEW T, NEW s \in Seq(T), s # <<>>
    PROVE  /\ Tail(s) \in Seq(T) /\ Len(Tail(s)) = Len(s) - 1 /\ Len(s) \in Nat \ {0}
           /\ \A i \in 1..Len(Tail(s)) : Tail(s)[i] = s[i + 1]
OBVIOUS

LEMMA TwoTaken ==
    ASSUME NEW T, NEW s \in Seq(T), Len(s) > 1
    PROVE  /\ Tail(Tail(s)) \in Seq(T) /\ Len(Tail(Tail(s))) = Len(s) - 2
           /\ \A i \in 1..(Len(s) - 2) : Tail(Tail(s))[i] = s[i + 2]
<1>1. s # <<>> /\ Tail(s) \in Seq(T) /\ Len(Tail(s)) = Len(s) - 1 /\ Len(s) \in Nat
      /\ \A i \in 1..(Len(s) - 1) : Tail(s)[i] = s[i + 1]
  OBVIOUS
<1>2. Tail(s) # <<>>
  <2>1. Len(Tail(s)) # 0
    BY <1>1
  <2>2. \A t : t = <<>> => Len(t) = 0
    OBVIOUS
  <2> QED
    BY <2>1, <2>2
<1>3. Tail(Tail(s)) \in Seq(T) /\ Len(Tail(Tail(s))) = Len(Tail(s)) - 1
      /\ \A i \in 1..Len(Tail(Tail(s))) : Tail(Tail(s))[i] = Tail(s)[i + 1]
  BY <1>1, <1>2, OneTaken
<1>4. \A i \in 1..(Len(s) - 2) : Tail(s)[i + 1] = s[i + 2]
  <2>1. ASSUME NEW i \in 1..(Len(s) - 2)
        PROVE  i + 1 \in 1..(Len(s) - 1) /\ (i + 1) + 1 = i + 2
    BY <1>1
  <2> QED
    BY <1>1, <2>1
<1> QED
  BY <1>1, <1>3, <1>4

-----------------------------------------------------------------------------
(* Types.                                                                  *)

LEMMA PostType ==
    ASSUME TypeOK, NEW piece \in Pieces, Post(piece)
    PROVE  events' \in Seq(Pieces)
BY DEF TypeOK, Post, Pieces

LEMMA TypeClient ==
    ASSUME TypeOK, Replied,
           Main \/ SignalThread \/ Killed \/ (\E s \in Signals : Signal(s))
           \/ \E p \in Pipes : Copy(p) \/ CopyFails(p)
    PROVE  TypeOK'
<1> USE DEF TypeOK, Exits, broker, pipes, client
<1>1. CASE Main
  <2>1. CASE Block
    <3>1. CASE main' = "copy"
      <4>1. copy' \in [Pipes -> {"copying", "ended", "failed"}]
            /\ thread' \in {"wait", "none"} /\ exit' = exit /\ main = "send"
        BY <2>1, <3>1 DEF Block
      <4> QED
        BY <2>1, <3>1, <4>1 DEF Block, Replied
    <3>2. CASE main' # "copy"
      <4>1. main' = "gone" /\ exit' = Plain("own") /\ UNCHANGED <<thread, copy>>
        BY <2>1, <3>2 DEF Block
      <4>2. Plain("own") # NoAnswer
        BY PlainFields
      <4> QED
        BY <2>1, <4>1, <4>2 DEF Block
    <3> QED
      BY <3>1, <3>2
  <2>2. CASE CloseStreams
    <3>1. <<"streams", NoSignal>> \in Pieces
      BY DEF Pieces
    <3> QED
      BY <2>2, <3>1, PostType DEF CloseStreams, Told, Pieces
  <2>3. CASE Receive
    BY <2>3 DEF Receive
  <2>4. CASE Restore
    <3>1. answer # NoAnswer
      BY <2>4 DEF Restore, Replied
    <3>2. received # NoSignal => Caller(received) \in Answers /\ Caller(received) # NoAnswer
      BY AnswerFields, PlainFields DEF Answers
    <3>3. Status \in Answers \cup {Plain("own")} /\ Status # NoAnswer
      BY <3>1, <3>2, PlainFields DEF Status
    <3>4. Plain("killed") # NoAnswer
      BY PlainFields
    <3>5. exit' \in Answers \cup {Plain("killed"), Plain("own")} /\ exit' # NoAnswer
          /\ main' = "gone"
      BY <2>4, <3>3, <3>4 DEF Restore
    <3> QED
      BY <2>4, <3>5 DEF Restore
  <2> QED
    BY <1>1, <2>1, <2>2, <2>3, <2>4 DEF Main
<1>2. CASE SignalThread
  <2>1. CASE TakeSignal
    BY <2>1, ExecClientAssumption DEF TakeSignal
  <2>2. CASE SendHeader
    <3>1. <<"cancel", received>> \in Pieces
      BY DEF Pieces
    <3> QED
      BY <2>2, <3>1, PostType DEF SendHeader, Pieces
  <2>3. CASE SendPayload
    <3>1. <<"signal", received>> \in Pieces
      BY DEF Pieces
    <3> QED
      BY <2>3, <3>1, PostType DEF SendPayload, Pieces
  <2> QED
    BY <1>2, <2>1, <2>2, <2>3 DEF SignalThread
<1>3. CASE Killed \/ \E s \in Signals : Signal(s)
  <2>1. Plain("killed") # NoAnswer
    BY PlainFields
  <2>2. CASE Killed
    BY <2>1, <2>2 DEF Killed
  <2>3. ASSUME NEW s \in Signals, Signal(s)
        PROVE  TypeOK'
    BY <2>1, <2>3 DEF Signal, Live, Blocked
  <2> QED
    BY <1>3, <2>2, <2>3
<1>4. ASSUME NEW p \in Pipes, Copy(p) \/ CopyFails(p)
      PROVE  TypeOK'
  <2>1. copied' \in [Pipes -> 0..MaxWrites]
    <3>1. copied[p] < written[p] => copied[p] + 1 \in 0..MaxWrites
      BY ExecClientAssumption
    <3> QED
      BY <1>4, <3>1 DEF Copy, CopyFails
  <2>2. copy' \in [Pipes -> {"copying", "ended", "failed"}]
    BY <1>4 DEF Copy, CopyFails
  <2>3. UNCHANGED <<main, pending, thread, received, exit, unsent, written, kept, held,
                    events, monitor, control, command, reason, shutdown, answer>>
    BY <1>4 DEF Copy, CopyFails
  <2> QED
    BY <2>1, <2>2, <2>3
<1> QED
  BY <1>1, <1>2, <1>3, <1>4

LEMMA TypeExecutor ==
    ASSUME TypeOK, Executor, copied' = copied,
           written' \in [Pipes -> 0..MaxWrites], kept' \in BOOLEAN,
           held' \in SUBSET Pipes,
           command' \in {"queued", "picked", "refused", "answered", "dead"} \cup Runs,
           reason' \in Answers, answer' \in Answers, shutdown' \in BOOLEAN
    PROVE  TypeOK'
BY DEF TypeOK, Executor, client

LEMMA TypeBroker ==
    ASSUME TypeOK,
           Monitor \/ Serve \/ RequestShutdown \/ BrokerGone \/ CommandEnds \/ Latch
           \/ RunFails \/ \E p \in Pipes : Write(p) \/ CloseEnd(p)
    PROVE  TypeOK'
<1>1. CASE Monitor
  <2> USE DEF TypeOK, client, pipes
  <2>1. events' \in Seq(Pieces)
    <3>1. <<>> \in Seq(Pieces)
      OBVIOUS
    <3>2. events # <<>> => Tail(events) \in Seq(Pieces)
      BY DEF Pieces
    <3>3. Len(events) > 1 => Tail(Tail(events)) \in Seq(Pieces)
      BY TwoTaken DEF Pieces
    <3> QED
      BY <1>1, <3>1, <3>2, <3>3 DEF Monitor, MonitorStreams, MonitorCancel, MonitorEnds, Frame
  <2>2. Frame => events[2][2] \in Signals \cup {NoSignal}
    <3>1. Frame => events[2] \in Pieces
      BY DEF Frame, Pieces
    <3> QED
      BY <3>1 DEF Pieces
  <2>3. monitor' \in BOOLEAN
        /\ control' \in [cancelled : BOOLEAN, signal : Signals \cup {NoSignal},
                         streams : BOOLEAN]
    BY <1>1, <2>2 DEF Monitor, MonitorStreams, MonitorCancel, MonitorEnds, Disconnect
  <2>4. Monitored
    BY <1>1 DEF Monitor, MonitorStreams, MonitorCancel, MonitorEnds, Disconnect
  <2> QED
    BY <2>1, <2>3, <2>4 DEF Monitored, Pieces
<1>a. CancelReply \in Answers /\ \A what \in {"required", "error", "closed", "timedOut", "exit"} :
          Plain(what) \in Answers
  <2>1. \A what \in {"required", "error", "closed", "timedOut", "exit", "cancelled"} :
            Plain(what) \in Answers
    BY DEF Answers
  <2>2. control.signal \in Signals \cup {NoSignal}
    BY DEF TypeOK
  <2>3. \A t \in Signals : Caller(t) \in Answers
    BY DEF Answers
  <2> QED
    BY <2>1, <2>2, <2>3 DEF CancelReply
<1>n. NoAnswer \in Answers
  BY DEF NoAnswer, Answers
<1>b. /\ written \in [Pipes -> 0..MaxWrites] /\ kept \in BOOLEAN /\ held \in SUBSET Pipes
      /\ reason \in Answers /\ answer \in Answers /\ shutdown \in BOOLEAN
      /\ command \in {"queued", "picked", "refused", "answered", "dead"} \cup Runs
  BY DEF TypeOK
<1>2. CASE PickUp \/ Drain \/ Refuse \/ StartCommand
  <2>1. command' \in {"refused", "picked", "running"} /\ kept' \in BOOLEAN
        /\ held' \in SUBSET Pipes
    BY <1>2, <1>b DEF PickUp, Drain, Refuse, StartCommand
  <2>2. reason' \in Answers
    BY <1>2, <1>a, <1>b DEF PickUp, Drain, Refuse, StartCommand
  <2>3. UNCHANGED <<written, copied, shutdown, answer>> /\ Executor
    BY <1>2 DEF PickUp, Drain, Refuse, StartCommand
  <2> QED
    BY <1>b, <2>1, <2>2, <2>3, TypeExecutor DEF Runs
<1>3. CASE Answer
  <2>1. answer' \in Answers
    BY <1>3, <1>a, <1>b, <1>n DEF Answer, Response
  <2>2. command' = "answered" /\ UNCHANGED <<written, copied, kept, held, reason, shutdown>>
        /\ Executor
    BY <1>3 DEF Answer, pipes
  <2> QED
    BY <1>b, <2>1, <2>2, TypeExecutor
<1>4. CASE RequestShutdown \/ CommandEnds
  <2>1. /\ command' \in {command, "ended", "cut"} /\ shutdown' \in BOOLEAN
        /\ UNCHANGED <<written, copied, kept, held, reason, answer>> /\ Executor
    BY <1>4, <1>b DEF RequestShutdown, CommandEnds, pipes
  <2> QED
    BY <1>b, <2>1, TypeExecutor DEF Runs
<1>5. CASE BrokerGone
  <2>1. answer' \in Answers
    BY <1>5, <1>a, <1>b DEF BrokerGone
  <2>2. /\ command' = "dead" /\ kept' = FALSE
        /\ UNCHANGED <<written, copied, held, reason, shutdown>> /\ Executor
    BY <1>5 DEF BrokerGone
  <2> QED
    BY <1>b, <2>1, <2>2, TypeExecutor
<1>6. CASE Latch \/ RunFails
  <2>1. reason' \in Answers
    BY <1>6, <1>a DEF Latch, RunFails
  <2>2. UNCHANGED <<written, copied, kept, held, command, shutdown, answer>> /\ Executor
    BY <1>6 DEF Latch, RunFails, pipes
  <2> QED
    BY <1>b, <2>1, <2>2, TypeExecutor
<1>7. ASSUME NEW p \in Pipes, Write(p) \/ CloseEnd(p)
      PROVE  TypeOK'
  <2>1. written' \in [Pipes -> 0..MaxWrites]
    <3>1. written[p] \in 0..MaxWrites
      BY <1>b
    <3>2. written[p] < MaxWrites => written[p] + 1 \in 0..MaxWrites
      BY <3>1, ExecClientAssumption
    <3> QED
      BY <1>7, <1>b, <3>2 DEF Write, CloseEnd
  <2>2. /\ held' \in SUBSET Pipes /\ Executor
        /\ UNCHANGED <<copied, kept, command, reason, shutdown, answer>>
    BY <1>7, <1>b DEF Write, CloseEnd
  <2> QED
    BY <1>b, <2>1, <2>2, TypeExecutor
<1> QED
  BY <1>1, <1>2, <1>3, <1>4, <1>5, <1>6, <1>7 DEF Serve

LEMMA TypeNext ==
    ASSUME IInv, [Next]_vars
    PROVE  TypeOK'
<1>1. CASE UNCHANGED vars
  BY <1>1 DEF IInv, TypeOK, vars, client, broker, pipes
<1> QED
  BY <1>1, TypeClient, TypeBroker DEF Next, IInv

-----------------------------------------------------------------------------
(* The frames.                                                             *)

\* What a step does to the queue and to what the queue depends on.
LEMMA QueueSteps ==
    ASSUME IInv, [Next]_vars, Live', command' # "dead"
    PROVE  /\ Live /\ command # "dead"
           /\ \/ events' = events /\ thread' = thread
              \/ events' = events /\ thread # "payload" /\ thread' # "payload"
              \/ SendHeader \/ SendPayload \/ CloseStreams \/ Monitor
<1> USE DEF Live, client, broker, pipes
<1>1. CASE UNCHANGED vars
  BY <1>1 DEF vars
<1>2. CASE Block \/ TakeSignal \/ Receive \/ Restore \/ Killed
  BY <1>2 DEF Block, TakeSignal, Receive, Restore, Killed, Exits, IInv, Replied
<1>3. CASE SendHeader \/ SendPayload \/ CloseStreams
  BY <1>3 DEF SendHeader, SendPayload, CloseStreams, Told
<1>4. CASE Monitor
  BY <1>4 DEF Monitor, MonitorStreams, MonitorCancel, MonitorEnds, Disconnect, Monitored
<1>5. CASE Serve \/ RequestShutdown \/ BrokerGone \/ CommandEnds \/ Latch \/ RunFails
  BY <1>5 DEF Serve, PickUp, Drain, Refuse, StartCommand, Answer, RequestShutdown,
              BrokerGone, CommandEnds, Latch, RunFails, Executor
<1>6. ASSUME NEW s \in Signals, Signal(s)
      PROVE  Live /\ command # "dead" /\ events' = events /\ thread' = thread
  BY <1>6 DEF Signal, Exits
<1>7. ASSUME NEW p \in Pipes, Copy(p) \/ CopyFails(p) \/ Write(p) \/ CloseEnd(p)
      PROVE  Live /\ command # "dead" /\ events' = events /\ thread' = thread
  BY <1>7 DEF Copy, CopyFails, Write, CloseEnd, Executor, Blocked
<1> QED
  BY <1>1, <1>2, <1>3, <1>4, <1>5, <1>6, <1>7 DEF Next, Main, SignalThread

\* The monitor takes whole frames only, and does not end before the client.
LEMMA MonitorFrames ==
    ASSUME IInv, Monitor, Live, command # "dead"
    PROVE  \/ MonitorStreams /\ events # <<>> /\ events[1][1] = "streams"
           \/ MonitorCancel /\ Len(events) > 1 /\ events[1][1] = "cancel"
              /\ events[2][1] = "signal"
<1>1. Frames /\ events \in Seq(Pieces)
  BY DEF IInv, Whole, TypeOK, Pieces
<1>2. events # <<>> => Head(events) = events[1] /\ Len(events) \in Nat \ {0}
                       /\ events[1] \in Pieces
  BY <1>1
<1>3. ~MonitorEnds
  <2>1. ASSUME events # <<>>, events[1][1] = "signal"
        PROVE  FALSE
    <3>1. 1 \in 1..Len(events) /\ ~(1 > 1)
      BY <1>2, <2>1
    <3> QED
      BY <1>1, <2>1, <3>1 DEF Frames
  <2>2. ASSUME events # <<>>, events[1][1] = "cancel", Len(events) # 1
        PROVE  Frame
    <3>1. Len(events) \in Nat /\ Len(events) # 0
      BY <1>2, <2>2
    <3>2. 1 \in 1..Len(events) /\ Len(events) > 1
      BY <2>2, <3>1
    <3>3. events[1 + 1][1] = "signal"
      BY <1>1, <2>2, <3>2 DEF Frames
    <3> QED
      BY <3>2, <3>3 DEF Frame
  <2> QED
    BY <1>2, <2>1, <2>2 DEF MonitorEnds
<1> QED
  BY <1>2, <1>3 DEF Monitor, MonitorStreams, MonitorCancel, Frame

LEMMA WholeNext ==
    ASSUME IInv, [Next]_vars
    PROVE  Whole'
<1> SUFFICES ASSUME Live', command' # "dead" PROVE Frames'
  BY DEF Whole
<1>1. Live /\ command # "dead" /\ Frames /\ events \in Seq(Pieces)
  BY QueueSteps DEF IInv, Whole, TypeOK, Pieces
<1>l. Len(events) \in Nat
  BY <1>1
<1>2. CASE events' = events /\ (thread' = thread \/ (thread # "payload" /\ thread' # "payload"))
  BY <1>1, <1>2 DEF Frames
<1>3. CASE SendHeader
  <2> DEFINE e == <<"cancel", received>>
  <2>1. events' = Append(events, e) /\ e \in Pieces /\ thread = "lock" /\ thread' = "payload"
    BY <1>1, <1>3 DEF SendHeader, Post, IInv, TypeOK, Pieces
  <2>2. Len(events') = Len(events) + 1 /\ events'[Len(events) + 1] = e /\ e[1] = "cancel"
        /\ \A i \in 1..Len(events) : events'[i] = events[i]
    BY <1>1, <2>1, Added
  <2>3. \A i \in 1..Len(events) :
           /\ events[i][1] = "cancel" => i # Len(events) /\ events[i + 1][1] = "signal"
           /\ events[i][1] = "signal" => i > 1 /\ events[i - 1][1] = "cancel"
    BY <1>1, <2>1 DEF Frames
  <2>4. \A i \in 1..Len(events') :
           /\ events'[i][1] = "cancel" => IF i = Len(events') THEN thread' = "payload"
                                          ELSE events'[i + 1][1] = "signal"
           /\ events'[i][1] = "signal" => i > 1 /\ events'[i - 1][1] = "cancel"
    <3> TAKE i \in 1..Len(events')
    <3>1. CASE i = Len(events')
      BY <1>l, <2>1, <2>2, <3>1
    <3>2. CASE i # Len(events')
      <4>1. i \in 1..Len(events)
        BY <1>l, <2>2, <3>2
      <4>2. events[i][1] = "cancel" => i + 1 \in 1..Len(events)
        BY <1>l, <2>3, <4>1
      <4>3. i > 1 => i - 1 \in 1..Len(events)
        BY <1>l, <4>1
      <4> QED
        BY <2>2, <2>3, <3>2, <4>1, <4>2, <4>3
    <3> QED
      BY <3>1, <3>2
  <2>5. events' # <<>> /\ events'[Len(events')][1] = "cancel"
    <3>1. Len(events') # 0 /\ Len(<<>>) = 0
      BY <1>l, <2>2
    <3> QED
      BY <2>2, <3>1
  <2> QED
    BY <2>4, <2>5 DEF Frames
<1>4. CASE SendPayload \/ CloseStreams
  <2>1. PICK e \in Pieces :
           /\ events' = Append(events, e) /\ thread' # "payload"
           /\ \/ e[1] = "signal" /\ thread = "payload"
              \/ e[1] = "streams" /\ thread # "payload"
    <3>1. CASE SendPayload
      <4> DEFINE e == <<"signal", received>>
      <4>1. e \in Pieces /\ e[1] = "signal"
        BY DEF IInv, TypeOK, Pieces
      <4> QED
        BY <1>1, <3>1, <4>1 DEF SendPayload, Post
    <3>2. CASE CloseStreams
      <4> DEFINE e == <<"streams", NoSignal>>
      <4>1. e \in Pieces /\ e[1] = "streams"
        BY DEF Pieces
      <4> QED
        BY <1>1, <3>2, <4>1 DEF CloseStreams, Post, Told
    <3> QED
      BY <1>4, <3>1, <3>2
  <2>2. Len(events') = Len(events) + 1 /\ events'[Len(events) + 1] = e
        /\ \A i \in 1..Len(events) : events'[i] = events[i]
    BY <1>1, <2>1, Added
  <2>3. \A i \in 1..Len(events') :
           /\ events'[i][1] = "cancel" => IF i = Len(events') THEN thread' = "payload"
                                          ELSE events'[i + 1][1] = "signal"
           /\ events'[i][1] = "signal" => i > 1 /\ events'[i - 1][1] = "cancel"
    <3> TAKE i \in 1..Len(events')
    <3>1. CASE i = Len(events')
      <4>1. CASE e[1] = "signal"
        <5>1. Len(events) # 0 /\ events[Len(events)][1] = "cancel"
          BY <1>1, <2>1, <4>1 DEF Frames
        <5>2. Len(events) \in 1..Len(events) /\ i - 1 = Len(events) /\ i > 1
          BY <1>l, <2>2, <3>1, <5>1
        <5> QED
          BY <2>2, <3>1, <4>1, <5>1, <5>2
      <4>2. CASE e[1] = "streams"
        BY <2>2, <3>1, <4>2
      <4> QED
        BY <2>1, <4>1, <4>2
    <3>2. CASE i # Len(events')
      <4>1. i \in 1..Len(events)
        BY <1>l, <2>2, <3>2
      <4>2. i > 1 => i - 1 \in 1..Len(events)
        BY <1>l, <4>1
      <4>3. CASE i = Len(events)
        <5>1. events[i][1] = "cancel" => e[1] = "signal"
          BY <1>1, <2>1, <4>1, <4>3 DEF Frames
        <5> QED
          BY <1>1, <2>2, <3>2, <4>1, <4>2, <4>3, <5>1 DEF Frames
      <4>4. CASE i # Len(events)
        <5>1. i + 1 \in 1..Len(events)
          BY <1>l, <4>1, <4>4
        <5> QED
          BY <1>1, <2>2, <3>2, <4>1, <4>2, <4>4, <5>1 DEF Frames
      <4> QED
        BY <4>3, <4>4
    <3> QED
      BY <3>1, <3>2
  <2> QED
    BY <2>1, <2>3 DEF Frames
<1>5. CASE Monitor
  <2>1. thread' = thread
    BY <1>5 DEF Monitor, MonitorStreams, MonitorCancel, MonitorEnds, Disconnect, Monitored, client
  <2>2. PICK n \in {1, 2} :
           /\ Len(events) >= n /\ Len(events') = Len(events) - n
           /\ \A i \in 1..Len(events') : events'[i] = events[i + n]
           /\ events[n][1] # "cancel"
    <3>1. CASE MonitorStreams /\ events # <<>> /\ events[1][1] = "streams"
      <4>1. events' = Tail(events)
        BY <3>1 DEF MonitorStreams
      <4>2. Len(events') = Len(events) - 1 /\ Len(events) >= 1
            /\ \A i \in 1..Len(events') : events'[i] = events[i + 1]
        BY <1>1, <1>l, <3>1, <4>1, OneTaken
      <4> QED
        BY <3>1, <4>2
    <3>2. CASE /\ MonitorCancel /\ Len(events) > 1 /\ events[1][1] = "cancel"
               /\ events[2][1] = "signal"
      <4>1. events' = Tail(Tail(events))
        BY <3>2 DEF MonitorCancel
      <4>2. Len(events') = Len(events) - 2 /\ Len(events) >= 2
            /\ \A i \in 1..Len(events') : events'[i] = events[i + 2]
        BY <1>1, <1>l, <3>2, <4>1, TwoTaken
      <4> QED
        BY <3>2, <4>2
    <3> QED
      BY <1>1, <1>5, <3>1, <3>2, MonitorFrames
  <2>3. ASSUME NEW i \in 1..Len(events')
        PROVE  /\ events'[i][1] = "cancel" => IF i = Len(events') THEN thread' = "payload"
                                              ELSE events'[i + 1][1] = "signal"
               /\ events'[i][1] = "signal" => i > 1 /\ events'[i - 1][1] = "cancel"
    <3>1. i + n \in 1..Len(events) /\ (i = Len(events') <=> i + n = Len(events))
      BY <1>l, <2>2, <2>3
    <3>2. i # Len(events') => i + 1 \in 1..Len(events') /\ (i + 1) + n = (i + n) + 1
      BY <1>l, <2>2, <2>3
    <3>3. i = 1 => (i + n) - 1 = n
      BY <1>l, <2>2
    <3>4. i # 1 => i > 1 /\ i - 1 \in 1..Len(events') /\ (i - 1) + n = (i + n) - 1
      BY <1>l, <2>2, <2>3
    <3>5. /\ events[i + n][1] = "cancel" => IF i + n = Len(events) THEN thread = "payload"
                                            ELSE events[(i + n) + 1][1] = "signal"
          /\ events[i + n][1] = "signal" => events[(i + n) - 1][1] = "cancel"
      BY <1>1, <3>1 DEF Frames
    <3>6. events'[i] = events[i + n]
      BY <2>2, <2>3
    <3> QED
      BY <2>1, <2>2, <3>1, <3>2, <3>3, <3>4, <3>5, <3>6
  <2>4. ASSUME thread' = "payload"
        PROVE  events' # <<>> /\ events'[Len(events')][1] = "cancel"
    <3>1. events[Len(events)][1] = "cancel"
      BY <1>1, <2>1, <2>4 DEF Frames
    <3>2. Len(events) # n
      BY <2>2, <3>1
    <3>3. Len(events') \in 1..Len(events') /\ Len(events') + n = Len(events) /\ Len(events') # 0
      BY <1>l, <2>2, <3>2
    <3>4. Len(<<>>) = 0
      OBVIOUS
    <3> QED
      BY <2>2, <3>1, <3>3, <3>4
  <2> QED
    BY <2>3, <2>4 DEF Frames
<1> QED
  BY <1>2, <1>3, <1>4, <1>5, QueueSteps

-----------------------------------------------------------------------------
(* The signal that everybody means.                                        *)

\* The steps that neither send, take nor answer anything.
Quiet == \/ Block \/ Receive \/ Restore \/ Killed \/ RequestShutdown \/ CommandEnds
         \/ StartCommand \/ UNCHANGED vars
         \/ \E s \in Signals : Signal(s)
         \/ \E p \in Pipes : Copy(p) \/ CopyFails(p) \/ Write(p) \/ CloseEnd(p)
Posts == SendHeader \/ SendPayload \/ CloseStreams
Decides == PickUp \/ Drain \/ Refuse \/ Latch \/ RunFails \/ Answer \/ BrokerGone

LEMMA Kinds ==
    ASSUME [Next]_vars
    PROVE  Quiet \/ TakeSignal \/ Posts \/ Monitor \/ Decides
BY DEF Next, Main, SignalThread, Serve, Quiet, Posts, Decides

LEMMA QuietWhat ==
    ASSUME Quiet
    PROVE  UNCHANGED <<events, control, received, reason, answer, monitor>>
<1> USE DEF client, broker, pipes
<1>1. CASE Block \/ Receive \/ Restore \/ Killed \/ UNCHANGED vars
  BY <1>1 DEF Block, Receive, Restore, Killed, vars
<1>2. CASE RequestShutdown \/ CommandEnds \/ StartCommand
  BY <1>2 DEF RequestShutdown, CommandEnds, StartCommand, Executor
<1>3. ASSUME NEW s \in Signals, Signal(s)
      PROVE  UNCHANGED <<events, control, received, reason, answer, monitor>>
  BY <1>3 DEF Signal
<1>4. ASSUME NEW p \in Pipes, Copy(p) \/ CopyFails(p) \/ Write(p) \/ CloseEnd(p)
      PROVE  UNCHANGED <<events, control, received, reason, answer, monitor>>
  BY <1>4 DEF Copy, CopyFails, Write, CloseEnd, Executor
<1> QED
  BY <1>1, <1>2, <1>3, <1>4 DEF Quiet

LEMMA PostsWhat ==
    ASSUME IInv, Posts
    PROVE  /\ UNCHANGED <<control, received, reason, answer, monitor, command, exit, copy,
                          written, copied, kept, held>>
           /\ Live /\ (main' = main \/ CloseStreams)
           /\ \/ events' = events
              \/ \E e \in Pieces :
                    /\ events' = Append(events, e)
                    /\ \/ e[1] = "streams" /\ CloseStreams
                       \/ e[1] # "streams" /\ e[2] = received /\ received # NoSignal
<1> USE DEF client, broker, pipes
<1>1. CASE SendHeader \/ SendPayload
  <2>1. received # NoSignal /\ received \in Signals
    BY <1>1 DEF SendHeader, SendPayload, IInv, TypeOK
  <2>2. <<"cancel", received>> \in Pieces /\ <<"signal", received>> \in Pieces
    BY <2>1 DEF Pieces
  <2>3. \E e \in {<<"cancel", received>>, <<"signal", received>>} : Post(e)
    BY <1>1 DEF SendHeader, SendPayload
  <2>4. \/ events' = events
        \/ \E e \in Pieces : events' = Append(events, e) /\ e[1] # "streams" /\ e[2] = received
    BY <2>2, <2>3 DEF Post
  <2>5. /\ UNCHANGED <<control, received, reason, answer, monitor, command, exit, copy,
                       written, copied, kept, held, main>>
        /\ Live
    BY <1>1 DEF SendHeader, SendPayload
  <2> QED
    BY <2>1, <2>4, <2>5
<1>2. CASE CloseStreams
  <2>1. <<"streams", NoSignal>> \in Pieces
    BY DEF Pieces
  <2>2. /\ UNCHANGED <<control, received, reason, answer, monitor, command, exit, copy,
                       written, copied, kept, held>>
        /\ Live /\ Post(<<"streams", NoSignal>>)
    BY <1>2 DEF CloseStreams, Told, Live
  <2> QED
    BY <1>2, <2>1, <2>2 DEF Post
<1> QED
  BY <1>1, <1>2 DEF Posts

\* Of the queue, a step of the monitor leaves what it did not take.
LEMMA MonitorWhat ==
    ASSUME IInv, Monitor
    PROVE  /\ UNCHANGED <<client, pipes, command, reason, answer, shutdown>> /\ command # "dead"
           /\ \A i \in 1..Len(events') : \E j \in 1..Len(events) : events'[i] = events[j]
           /\ \/ MonitorStreams /\ events # <<>> /\ events[1][1] = "streams"
              \/ MonitorCancel /\ Len(events) > 1 /\ events[2][1] = "signal"
              \/ MonitorEnds /\ ~Live
<1>t. events \in Seq(Pieces) /\ Len(events) \in Nat /\ (events # <<>> => Head(events) = events[1])
  BY DEF IInv, TypeOK, Pieces
<1>1. UNCHANGED <<client, pipes, command, reason, answer, shutdown>> /\ command # "dead"
  BY DEF Monitor, MonitorStreams, MonitorCancel, MonitorEnds, Disconnect, Monitored
<1>2. CASE MonitorStreams
  <2>1. events # <<>> /\ events[1][1] = "streams" /\ events' = Tail(events)
    BY <1>t, <1>2 DEF MonitorStreams
  <2>2. /\ Len(events') = Len(events) - 1
        /\ \A i \in 1..Len(events') : events'[i] = events[i + 1]
    BY <1>t, <2>1, OneTaken
  <2>3. \A i \in 1..Len(events') : i + 1 \in 1..Len(events)
    BY <1>t, <2>2
  <2> QED
    BY <1>1, <1>2, <2>1, <2>2, <2>3
<1>3. CASE MonitorCancel
  <2>1. Len(events) > 1 /\ events[2][1] = "signal" /\ events' = Tail(Tail(events))
    BY <1>3 DEF MonitorCancel, Frame
  <2>2. /\ Len(events') = Len(events) - 2
        /\ \A i \in 1..Len(events') : events'[i] = events[i + 2]
    BY <1>t, <2>1, TwoTaken
  <2>3. \A i \in 1..Len(events') : i + 2 \in 1..Len(events)
    BY <1>t, <2>2
  <2> QED
    BY <1>1, <1>3, <2>1, <2>2, <2>3
<1>4. CASE MonitorEnds
  <2>1. ~Live
    <3>1. Live => \/ events # <<>> /\ events[1][1] = "streams"
                  \/ Len(events) > 1 /\ events[1][1] = "cancel" /\ events[2][1] = "signal"
      BY <1>1, MonitorFrames
    <3>2. ASSUME Live PROVE events # <<>> /\ Head(events)[1] # "signal"
                            /\ (Head(events)[1] = "cancel" => Len(events) # 1 /\ Frame)
      <4>1. events = <<>> => Len(events) = 0
        OBVIOUS
      <4> QED
        BY <1>t, <3>1, <3>2, <4>1 DEF Frame
    <3> QED
      BY <1>4, <3>2 DEF MonitorEnds
  <2>2. events' = <<>>
    BY <1>4 DEF MonitorEnds
  <2>3. 1..Len(events') = {}
    BY <2>2
  <2> QED
    BY <1>1, <1>4, <2>1, <2>3
<1> QED
  BY <1>2, <1>3, <1>4 DEF Monitor

\* Whatever decides has the client's signal for it, and knows of no other.
LEMMA DecidesWhat ==
    ASSUME IInv, Decides
    PROVE  /\ UNCHANGED <<client, events, monitor, control, written, copied, held>>
           /\ \A a \in {reason', answer'} :
                 Name(a) /\ (Live => a.by # "cancelled")
<1> DEFINE Good(a) == Name(a) /\ (Live => a.by # "cancelled")
<1>1. UNCHANGED <<client, events, monitor, control, written, copied, held>>
  BY DEF Decides, PickUp, Drain, Refuse, Latch, RunFails, Answer, BrokerGone, Executor, pipes
<1>2. Good(reason) /\ Good(answer)
  BY DEF IInv, Named
<1>3. control.cancelled => Good(CancelReply)
  BY PlainFields DEF CancelReply, IInv, Named, Name
<1>4. \A what \in {"none", "required", "error", "closed", "timedOut", "exit"} : Good(Plain(what))
  BY PlainFields DEF Name
<1>5. Good(NoAnswer)
  BY <1>4 DEF NoAnswer
<1> HIDE DEF Good
<1>6. Good(reason') /\ Good(answer')
  <2>1. CASE PickUp \/ Drain \/ Refuse \/ Latch \/ RunFails
    <3>1. answer' = answer
      BY <2>1 DEF PickUp, Drain, Refuse, Latch, RunFails
    <3>2. Good(reason')
      BY <1>2, <1>3, <1>4, <2>1 DEF PickUp, Drain, Refuse, Latch, RunFails
    <3> QED
      BY <1>2, <3>1, <3>2
  <2>2. CASE Answer \/ BrokerGone
    <3>1. reason' = reason
      BY <2>2 DEF Answer, BrokerGone
    <3>2. answer' \in {answer, reason, NoAnswer, Plain("exit"), Plain("closed")}
      BY <2>2 DEF Answer, Response, BrokerGone
    <3> QED
      BY <1>2, <1>4, <1>5, <3>1, <3>2
  <2> QED
    BY <2>1, <2>2 DEF Decides
<1> QED
  BY <1>1, <1>6 DEF Good


\* A client that is gone stays so.
LEMMA GoneStays ==
    ASSUME IInv, [Next]_vars
    PROVE  Live' => Live
<1> USE DEF Live, client, broker, pipes
<1>1. CASE Quiet
  <2>1. CASE Block \/ Receive \/ Restore \/ Killed \/ UNCHANGED vars
    BY <2>1 DEF Block, Receive, Restore, Killed, Exits, vars
  <2>2. CASE RequestShutdown \/ CommandEnds \/ StartCommand
    BY <2>2 DEF RequestShutdown, CommandEnds, StartCommand, Executor
  <2>3. ASSUME NEW s \in Signals, Signal(s) PROVE Live' => Live
    BY <2>3 DEF Signal
  <2>4. ASSUME NEW p \in Pipes, Copy(p) \/ CopyFails(p) \/ Write(p) \/ CloseEnd(p)
        PROVE  Live' => Live
    BY <2>4 DEF Copy, CopyFails, Write, CloseEnd, Executor
  <2> QED
    BY <1>1, <2>1, <2>2, <2>3, <2>4 DEF Quiet
<1>2. CASE TakeSignal \/ Monitor \/ Posts \/ Decides
  BY <1>2, MonitorWhat, PostsWhat, DecidesWhat DEF TakeSignal
<1> QED
  BY <1>1, <1>2, Kinds

LEMMA NamedNext ==
    ASSUME IInv, [Next]_vars
    PROVE  Named'
<1>0. Named /\ (Live' => Live) /\ events \in Seq(Pieces) /\ Len(events) \in Nat
  BY GoneStays DEF IInv, TypeOK, Pieces
<1>1. CASE Quiet
  BY <1>0, <1>1, QuietWhat DEF Named, Name
<1>2. CASE TakeSignal
  <2>1. received = NoSignal /\ received' # NoSignal
        /\ UNCHANGED <<events, control, reason, answer, monitor>>
    BY <1>2, ExecClientAssumption DEF TakeSignal, IInv, TypeOK, broker
  <2> QED
    BY <1>0, <2>1 DEF Named, Name
<1>3. CASE Posts
  <2>1. \A i \in 1..Len(events') :
           events'[i][1] # "streams" => events'[i][2] = received /\ received # NoSignal
    <3>1. CASE events' = events
      BY <1>0, <3>1 DEF Named
    <3>2. ASSUME NEW e \in Pieces, events' = Append(events, e),
                 e[1] # "streams" => e[2] = received /\ received # NoSignal
          PROVE  \A i \in 1..Len(events') :
                    events'[i][1] # "streams" => events'[i][2] = received /\ received # NoSignal
      <4> TAKE i \in 1..Len(events')
      <4>1. i \in 1..Len(events) \/ i = Len(events) + 1
        BY <1>0, <3>2, Added
      <4>2. i \in 1..Len(events) => events'[i] = events[i]
        BY <1>0, <3>2, Added
      <4>3. i = Len(events) + 1 => events'[i] = e
        BY <1>0, <3>2, Added
      <4> QED
        BY <1>0, <3>2, <4>1, <4>2, <4>3 DEF Named
    <3> QED
      BY <1>3, <3>1, <3>2, PostsWhat
  <2> QED
    BY <1>0, <1>3, <2>1, PostsWhat DEF Named, Name
<1>4. CASE Monitor
  <2>1. \A i \in 1..Len(events') :
           events'[i][1] # "streams" => events'[i][2] = received /\ received # NoSignal
    BY <1>0, <1>4, MonitorWhat DEF Named
  <2>2. UNCHANGED <<received, reason, answer>>
    BY <1>4, MonitorWhat DEF client
  <2>t. control \in [cancelled : BOOLEAN, signal : Signals \cup {NoSignal}, streams : BOOLEAN]
    BY DEF IInv, TypeOK
  <2>3. control'.signal \in {NoSignal, received}
        /\ (Live => monitor' /\ (control'.cancelled => control'.signal # NoSignal))
    <3>1. CASE MonitorStreams
      BY <1>0, <2>t, <3>1 DEF MonitorStreams, Named
    <3>2. CASE MonitorCancel /\ Len(events) > 1 /\ events[2][1] = "signal"
      <4>1. 2 \in 1..Len(events)
        BY <1>0, <3>2
      <4>2. events[2][2] = received /\ received # NoSignal
        BY <1>0, <3>2, <4>1 DEF Named
      <4> QED
        BY <1>0, <2>t, <3>2, <4>2 DEF MonitorCancel, Named
    <3>3. CASE MonitorEnds /\ ~Live
      BY <1>0, <2>t, <3>3 DEF MonitorEnds, Disconnect, Named
    <3> QED
      BY <1>4, <3>1, <3>2, <3>3, MonitorWhat
  <2> QED
    BY <1>0, <2>1, <2>2, <2>3 DEF Named, Name
<1>5. CASE Decides
  <2>1. UNCHANGED <<events, received, control, monitor>>
    BY <1>5, DecidesWhat DEF client
  <2>2. /\ Name(reason)' /\ Name(answer)'
        /\ Live => reason'.by # "cancelled" /\ answer'.by # "cancelled"
    BY <1>5, <2>1, DecidesWhat DEF Name
  <2> QED
    BY <1>0, <2>1, <2>2 DEF Named
<1> QED
  BY <1>1, <1>2, <1>3, <1>4, <1>5, Kinds

-----------------------------------------------------------------------------
(* The end of the output.                                                  *)

\* Where the main thread goes.
LEMMA MainSteps ==
    ASSUME IInv, [Next]_vars
    PROVE  \/ UNCHANGED <<main, exit>>
           \/ main = "send" /\ main' = "copy" /\ exit' = exit
           \/ CloseStreams /\ exit' = exit
           \/ main = "await" /\ main' = "restore" /\ answer # NoAnswer /\ exit' = exit
           \/ Live /\ main' = "gone" /\ exit' \in {Plain("killed"), Plain("own")}
           \/ Restore /\ exit' = Status
<1> USE DEF client, broker, pipes
<1>1. CASE Quiet
  <2>1. CASE Block \/ Receive \/ Killed \/ UNCHANGED vars
    BY <2>1 DEF Block, Receive, Killed, Exits, Live, vars
  <2>2. CASE RequestShutdown \/ CommandEnds \/ StartCommand
    BY <2>2 DEF RequestShutdown, CommandEnds, StartCommand, Executor
  <2>3. CASE Restore
    BY <2>3 DEF Restore, Exits, Live
  <2>4. ASSUME NEW s \in Signals, Signal(s)
        PROVE  UNCHANGED <<main, exit>> \/ (Live /\ main' = "gone" /\ exit' = Plain("killed"))
    BY <2>4 DEF Signal, Exits
  <2>5. ASSUME NEW p \in Pipes, Copy(p) \/ CopyFails(p) \/ Write(p) \/ CloseEnd(p)
        PROVE  UNCHANGED <<main, exit>>
    BY <2>5 DEF Copy, CopyFails, Write, CloseEnd, Executor
  <2> QED
    BY <1>1, <2>1, <2>2, <2>3, <2>4, <2>5 DEF Quiet
<1>2. CASE TakeSignal
  BY <1>2 DEF TakeSignal
<1>3. CASE Posts
  BY <1>3, PostsWhat
<1>4. CASE Monitor
  BY <1>4, MonitorWhat
<1>5. CASE Decides
  BY <1>5, DecidesWhat
<1> QED
  BY <1>1, <1>2, <1>3, <1>4, <1>5, Kinds

\* What the steps do to the pipes.
LEMMA PipeSteps ==
    ASSUME IInv, [Next]_vars
    PROVE  \/ UNCHANGED <<copy, written, copied, kept, held>>
           \/ Block /\ UNCHANGED pipes
           \/ \E p \in Pipes : Copy(p) \/ CopyFails(p) \/ Write(p) \/ CloseEnd(p)
           \/ UNCHANGED <<copy, written, copied, held>> /\ kept' = FALSE
           \/ StartCommand
<1> USE DEF client, broker, pipes
<1>1. CASE Quiet
  <2>1. CASE Block \/ Receive \/ Restore \/ Killed \/ UNCHANGED vars
    BY <2>1 DEF Block, Receive, Restore, Killed, vars, pipes
  <2>2. CASE RequestShutdown \/ CommandEnds
    BY <2>2 DEF RequestShutdown, CommandEnds, Executor
  <2>3. ASSUME NEW s \in Signals, Signal(s)
        PROVE  UNCHANGED <<copy, written, copied, kept, held>>
    BY <2>3 DEF Signal
  <2> QED
    BY <1>1, <2>1, <2>2, <2>3 DEF Quiet
<1>2. CASE TakeSignal
  BY <1>2 DEF TakeSignal
<1>3. CASE Posts
  BY <1>3, PostsWhat
<1>4. CASE Monitor
  BY <1>4, MonitorWhat
<1>5. CASE Decides
  BY <1>5 DEF Decides, PickUp, Drain, Refuse, Latch, RunFails, Answer, BrokerGone, Executor
<1> QED
  BY <1>1, <1>2, <1>3, <1>4, <1>5, Kinds

\* The end of a pipe stays its end.
Finished(p) == Ended(p) /\ copied[p] = written[p]

LEMMA FinishedStays ==
    ASSUME IInv, [Next]_vars, NEW p \in Pipes, Finished(p)
    PROVE  Finished(p)'
<1> USE DEF Finished, Ended
<1>1. CASE UNCHANGED <<written, copied, held>> /\ (kept' = kept \/ kept' = FALSE)
  <2>1. ~kept'
    BY <1>1
  <2> QED
    BY <1>1, <2>1
<1>2. CASE StartCommand
  <2>1. kept
    BY <1>2 DEF StartCommand, IInv, Joined
  <2> QED
    BY <2>1
<1>3. ASSUME NEW q \in Pipes, Copy(q) \/ CopyFails(q) \/ Write(q) \/ CloseEnd(q)
      PROVE  Finished(p)'
  <2>t. copied \in [Pipes -> 0..MaxWrites] /\ written \in [Pipes -> 0..MaxWrites]
    BY DEF IInv, TypeOK
  <2>1. kept' = kept /\ held' \subseteq held
    BY <1>3 DEF Copy, CopyFails, Write, CloseEnd, pipes
  <2>2. copied'[p] = copied[p]
    <3>1. CASE Copy(q)
      <4>1. copied' = copied \/ (copied[q] < written[q]
                                 /\ copied' = [copied EXCEPT ![q] = @ + 1])
        BY <3>1 DEF Copy
      <4>2. copied[p] < written[p] => copied[p] # written[p]
        BY <2>t, ExecClientAssumption
      <4> QED
        BY <2>t, <4>1, <4>2
    <3>2. CASE CopyFails(q) \/ Write(q) \/ CloseEnd(q)
      BY <3>2 DEF CopyFails, Write, CloseEnd, pipes
    <3> QED
      BY <1>3, <3>1, <3>2
  <2>3. written'[p] = written[p]
    <3>1. CASE Write(q)
      BY <2>t, <3>1 DEF Write
    <3>2. CASE Copy(q) \/ CopyFails(q) \/ CloseEnd(q)
      BY <3>2 DEF Copy, CopyFails, CloseEnd, pipes
    <3> QED
      BY <1>3, <3>1, <3>2
  <2> QED
    BY <2>1, <2>2, <2>3
<1>4. CASE Block /\ UNCHANGED pipes
  BY <1>1, <1>4 DEF pipes
<1> QED
  BY <1>1, <1>2, <1>3, <1>4, PipeSteps

\* A thread that has ended does not copy again, and ends behind the last byte.
LEMMA CopySteps ==
    ASSUME IInv, [Next]_vars, NEW p \in Pipes
    PROVE  /\ copy[p] # "copying" => copy'[p] = copy[p]
           /\ copy'[p] = "ended" => Finished(p)'
<1>t. copy \in [Pipes -> {"copying", "ended", "failed"}]
  BY DEF IInv, TypeOK
<1>1. ASSUME copy[p] = "ended" PROVE Finished(p)'
  BY <1>1, FinishedStays DEF IInv, Joined, Finished
<1>2. CASE copy' = copy
  BY <1>1, <1>2
<1>3. ASSUME NEW q \in Pipes, Copy(q) \/ CopyFails(q), copy' # copy
      PROVE  /\ copy[p] # "copying" => copy'[p] = copy[p]
             /\ copy'[p] = "ended" => Finished(p)'
  <2>1. copy[q] = "copying"
        /\ \E end \in {"ended", "failed"} : copy' = [copy EXCEPT ![q] = end]
    BY <1>3 DEF Copy, CopyFails
  <2>2. copy[p] # "copying" => copy'[p] = copy[p]
    BY <1>t, <2>1
  <2>3. CASE p = q /\ copy'[p] = "ended"
    <3>1. copied[q] = written[q] /\ Ended(q)
      BY <1>t, <1>3, <2>1, <2>3 DEF Copy, CopyFails
    <3>2. Finished(p)
      BY <2>3, <3>1 DEF Finished
    <3> QED
      BY <2>2, <3>2, FinishedStays
  <2>4. CASE p # q
    BY <1>t, <1>1, <2>1, <2>4
  <2> QED
    BY <2>2, <2>3, <2>4
<1>4. CASE Block
  <2>1. copy[p] = "copying"
    BY <1>4 DEF Block, IInv, Replied
  <2>2. copy' = copy \/ copy' \in [Pipes -> {"copying", "failed"}]
    BY <1>4 DEF Block
  <2>3. copy'[p] # "ended"
    BY <2>1, <2>2
  <2> QED
    BY <2>1, <2>3
<1>5. \/ copy' = copy \/ Block
      \/ \E q \in Pipes : (Copy(q) \/ CopyFails(q)) /\ copy' # copy
  <2>1. ASSUME NEW q \in Pipes, Write(q) \/ CloseEnd(q)
        PROVE  copy' = copy
    BY <2>1 DEF Write, CloseEnd, Executor, client
  <2>2. StartCommand => copy' = copy
    BY DEF StartCommand, Executor, client
  <2> QED
    BY <2>1, <2>2, PipeSteps
<1> QED
  BY <1>2, <1>3, <1>4, <1>5


\* Who says that the streams are closed says it when they are.
LEMMA SaidClosed ==
    ASSUME IInv, [Next]_vars, Live'
    PROVE  \/ Waiting'
           \/ /\ ~control'.streams
              /\ \A i \in 1..Len(events') : events'[i][1] # "streams"
<1>0. Live /\ events \in Seq(Pieces) /\ Len(events) \in Nat
      /\ control \in [cancelled : BOOLEAN, signal : Signals \cup {NoSignal}, streams : BOOLEAN]
  BY GoneStays DEF IInv, TypeOK, Pieces
<1>1. CASE Waiting
  BY <1>1, MainSteps DEF Waiting, CloseStreams, Restore, Exits, Live
<1>2. CASE CloseStreams
  BY <1>2 DEF CloseStreams, Waiting
<1>3. CASE ~Waiting /\ ~CloseStreams
  <2>0. ~control.streams /\ \A i \in 1..Len(events) : events[i][1] # "streams"
    BY <1>0, <1>3 DEF IInv, Joined
  <2>1. CASE Quiet \/ TakeSignal \/ Decides
    <3>1. UNCHANGED <<control, events>>
      BY <2>1, QuietWhat, DecidesWhat DEF TakeSignal, broker
    <3> QED
      BY <2>0, <3>1
  <2>2. CASE Posts
    <3>1. CASE events' = events
      BY <2>0, <2>2, <3>1, PostsWhat
    <3>2. ASSUME NEW e \in Pieces, events' = Append(events, e), e[1] # "streams"
          PROVE  \A i \in 1..Len(events') : events'[i][1] # "streams"
      <4> TAKE i \in 1..Len(events')
      <4>1. i \in 1..Len(events) \/ i = Len(events) + 1
        BY <1>0, <3>2, Added
      <4>2. i \in 1..Len(events) => events'[i] = events[i]
        BY <1>0, <3>2, Added
      <4>3. i = Len(events) + 1 => events'[i] = e
        BY <1>0, <3>2, Added
      <4> QED
        BY <2>0, <3>2, <4>1, <4>2, <4>3
    <3> QED
      BY <1>3, <2>0, <2>2, <3>1, <3>2, PostsWhat
  <2>3. CASE Monitor
    <3>1. \A i \in 1..Len(events') : events'[i][1] # "streams"
      BY <2>0, <2>3, MonitorWhat
    <3>2. events # <<>> => 1 \in 1..Len(events)
      BY <1>0
    <3>3. MonitorCancel
      BY <1>0, <2>0, <2>3, <3>2, MonitorWhat
    <3>4. control'.streams = control.streams
      BY <1>0, <3>3 DEF MonitorCancel
    <3> QED
      BY <2>0, <3>1, <3>4
  <2> QED
    BY <2>1, <2>2, <2>3, Kinds
<1> QED
  BY <1>1, <1>2, <1>3

LEMMA JoinedNext ==
    ASSUME IInv, [Next]_vars
    PROVE  Joined'
<1>1. Waiting' => ~Copying'
  <2>1. CASE Waiting
    BY <2>1, CopySteps DEF IInv, Joined, Copying
  <2>2. CASE CloseStreams
    BY <2>2 DEF CloseStreams, Told, Copying
  <2>3. CASE ~Waiting /\ ~CloseStreams
    BY <2>3, MainSteps DEF Waiting, Restore, Exits
  <2> QED
    BY <2>1, <2>2, <2>3
<1>2. /\ Live' /\ control'.streams => Waiting'
      /\ Live' /\ (\E i \in 1..Len(events') : events'[i][1] = "streams") => Waiting'
  BY SaidClosed
<1>3. \A p \in Pipes : copy'[p] = "ended" => Ended(p)' /\ copied'[p] = written'[p]
  BY CopySteps DEF Finished
<1>4. command' \in {"queued", "picked"} => kept'
  <2>1. CASE Quiet
    <3>1. CASE Block \/ Receive \/ Restore \/ Killed \/ UNCHANGED vars
      BY <3>1 DEF Block, Receive, Restore, Killed, vars, broker, pipes, IInv, Joined
    <3>2. CASE RequestShutdown \/ CommandEnds \/ StartCommand
      BY <3>2 DEF RequestShutdown, CommandEnds, StartCommand, pipes, IInv, Joined
    <3>3. ASSUME NEW s \in Signals, Signal(s)
          PROVE  UNCHANGED <<command, kept>>
      BY <3>3 DEF Signal, broker, pipes
    <3>4. ASSUME NEW p \in Pipes, Copy(p) \/ CopyFails(p) \/ Write(p) \/ CloseEnd(p)
          PROVE  UNCHANGED <<command, kept>>
      BY <3>4 DEF Copy, CopyFails, Write, CloseEnd, broker, pipes
    <3> QED
      BY <2>1, <3>1, <3>2, <3>3, <3>4 DEF Quiet, IInv, Joined
  <2>2. CASE TakeSignal \/ Posts \/ Monitor
    BY <2>2, PostsWhat, MonitorWhat DEF TakeSignal, broker, pipes, IInv, Joined
  <2>3. CASE Decides
    BY <2>3 DEF Decides, PickUp, Drain, Refuse, Latch, RunFails, Answer, BrokerGone, pipes, IInv, Joined
  <2> QED
    BY <2>1, <2>2, <2>3, Kinds
<1> QED
  BY <1>1, <1>2, <1>3, <1>4 DEF Joined

-----------------------------------------------------------------------------
(* The reply and the exit.                                                 *)

LEMMA RepliedNext ==
    ASSUME IInv, [Next]_vars
    PROVE  Replied'
<1>0. Replied
  BY DEF IInv
<1> USE DEF client, broker, pipes
<1>1. CASE Quiet
  <2>1. CASE Block \/ Receive \/ Restore \/ Killed \/ UNCHANGED vars
    BY <1>0, <2>1 DEF Block, Receive, Restore, Killed, Exits, vars, Replied
  <2>2. CASE RequestShutdown \/ CommandEnds \/ StartCommand
    BY <1>0, <2>2 DEF RequestShutdown, CommandEnds, StartCommand, Executor, Replied
  <2>3. ASSUME NEW s \in Signals, Signal(s) PROVE Replied'
    BY <1>0, <2>3 DEF Signal, Exits, Replied
  <2>4. ASSUME NEW p \in Pipes, Copy(p) \/ CopyFails(p) \/ Write(p) \/ CloseEnd(p)
        PROVE  Replied'
    BY <1>0, <2>4 DEF Copy, CopyFails, Write, CloseEnd, Executor, Replied, Blocked
  <2> QED
    BY <1>1, <2>1, <2>2, <2>3, <2>4 DEF Quiet
<1>2. CASE TakeSignal \/ SendHeader \/ SendPayload \/ CloseStreams
  BY <1>0, <1>2 DEF TakeSignal, SendHeader, SendPayload, CloseStreams, Told, Replied
<1>3. CASE Monitor
  BY <1>0, <1>3, MonitorWhat DEF Replied
<1>4. CASE PickUp \/ Drain \/ Refuse \/ Latch \/ RunFails
  BY <1>0, <1>4 DEF PickUp, Drain, Refuse, Latch, RunFails, Executor, Replied, Runs
<1>5. CASE Answer
  <2>1. answer = NoAnswer
    BY <1>0, <1>5 DEF Answer, Replied
  <2> QED
    BY <1>0, <1>5, <2>1 DEF Answer, Executor, Replied
<1>6. CASE BrokerGone
  <2>1. Plain("closed") # NoAnswer
    BY PlainFields
  <2> QED
    BY <1>0, <1>6, <2>1 DEF BrokerGone, Executor, Replied
<1> QED
  BY <1>1, <1>2, <1>3, <1>4, <1>5, <1>6, Kinds DEF Posts, Decides

LEMMA OutputNext ==
    ASSUME IInv, [Next]_vars
    PROVE  OutputBeforeStatus'
<1>1. CASE \A p \in Pipes : Finished(p)
  BY <1>1, FinishedStays DEF OutputBeforeStatus, Finished
<1>2. CASE exit' = exit \/ exit'.by \in {"killed", "own"}
  <2>1. exit'.by \notin {"none", "killed", "own"} => \A p \in Pipes : Finished(p)
    BY <1>2 DEF IInv, OutputBeforeStatus, Finished
  <2> QED
    BY <1>1, <1>2, <2>1 DEF OutputBeforeStatus
<1>3. CASE Restore /\ exit' = Status
  <2>1. CASE \E p \in Pipes : copy[p] = "failed"
    BY <1>2, <1>3, <2>1, PlainFields DEF Status
  <2>2. CASE ~\E p \in Pipes : copy[p] = "failed"
    <3>1. \A p \in Pipes : copy[p] = "ended"
      BY <1>3, <2>2 DEF Restore, IInv, TypeOK, Joined, Waiting, Copying
    <3> QED
      BY <1>1, <3>1 DEF IInv, Joined, Finished
  <2> QED
    BY <2>1, <2>2
<1> QED
  BY <1>2, <1>3, MainSteps, PlainFields

LEMMA StatusNext ==
    ASSUME IInv, [Next]_vars
    PROVE  StatusNamesSignal'
<1>1. CASE exit' = exit
  <2>1. exit.by = "signal" => received' = received
    <3>1. exit.by = "signal" => ~Live
      BY PlainFields DEF IInv, TypeOK, Live
    <3>2. TakeSignal => Live
      BY DEF TakeSignal
    <3>3. Quiet \/ Posts \/ Monitor \/ Decides => received' = received
      BY QuietWhat, PostsWhat, MonitorWhat, DecidesWhat DEF client
    <3> QED
      BY <3>1, <3>2, <3>3, Kinds
  <2> QED
    BY <1>1, <2>1 DEF IInv, StatusNamesSignal
<1>2. CASE exit' \in {Plain("killed"), Plain("own")}
  BY <1>2, PlainFields DEF StatusNamesSignal
<1>3. CASE Restore /\ exit' = Status
  <2>1. Live /\ received' = received
    BY <1>3 DEF Restore, Live
  <2>2. Name(answer) /\ answer.by # "cancelled"
    BY <2>1 DEF IInv, Named
  <2>3. CASE exit' = Plain("own")
    BY <2>3, PlainFields DEF StatusNamesSignal
  <2>4. CASE exit' = answer
    BY <2>1, <2>2, <2>4 DEF StatusNamesSignal, Name
  <2> QED
    BY <1>3, <2>2, <2>3, <2>4 DEF Status
<1> QED
  BY <1>1, <1>2, <1>3, MainSteps

LEMMA InvInit == Init => IInv
<1> SUFFICES ASSUME Init PROVE IInv
  OBVIOUS
<1>1. NoAnswer \in Answers
  BY DEF NoAnswer, Answers
<1>e. events = <<>> /\ Len(events) = 0 /\ 1..Len(events) = {}
  BY DEF Init
<1>2. TypeOK
  <2>1. 0 \in 0..MaxWrites
    BY ExecClientAssumption
  <2>2. copied \in [Pipes -> 0..MaxWrites] /\ written \in [Pipes -> 0..MaxWrites]
    BY <2>1 DEF Init
  <2>3. events \in Seq({"cancel", "signal", "streams"} \X (Signals \cup {NoSignal}))
    BY <1>e
  <2>4. answer \in Answers /\ reason \in Answers /\ exit \in Answers
    BY <1>1 DEF Init
  <2> QED
    BY <2>2, <2>3, <2>4 DEF Init, TypeOK
<1>3. Whole
  BY <1>e DEF Init, Whole, Frames
<1>4. Named
  BY <1>e, PlainFields DEF Init, Named, Name
<1>5. Joined
  BY <1>e DEF Init, Joined, Waiting
<1>6. Replied
  BY DEF Init, Replied
<1>7. OutputBeforeStatus /\ StatusNamesSignal
  BY PlainFields DEF Init, OutputBeforeStatus, StatusNamesSignal
<1> QED
  BY <1>2, <1>3, <1>4, <1>5, <1>6, <1>7 DEF IInv

LEMMA Always == Spec => []IInv
<1>1. IInv /\ [Next]_vars => IInv'
  BY TypeNext, WholeNext, NamedNext, JoinedNext, RepliedNext, OutputNext, StatusNext DEF IInv
<1> QED
  BY InvInit, <1>1, PTL DEF Spec

-----------------------------------------------------------------------------
(* The request.                                                            *)

\* What a reason rests on: reasons come from the control and the flag, which
\* both stay as they are once they are set, a command that was cut without a
\* reason will get one, and what runs has the descriptors that the broker had.
Reasoned ==
    /\ control.cancelled /\ control.signal = NoSignal => ~monitor
    /\ reason.by = "cancelled" => control.cancelled /\ control.signal = NoSignal
    /\ reason.by = "signal" => control.cancelled /\ control.signal # NoSignal
    /\ reason.by = "closed" => shutdown
    /\ command \in {"queued", "picked"} => reason = NoAnswer
    /\ command \in Runs => reason.by \in {"none", "timedOut", "error", "cancelled",
                                          "signal", "closed"}
    /\ command = "cut" /\ reason = NoAnswer => control.cancelled \/ shutdown
    /\ command \in Runs => ~kept

LEMMA CancelReplyBy ==
    ASSUME TypeOK
    PROVE  CancelReply.by = IF control.signal # NoSignal THEN "signal" ELSE "cancelled"
BY PlainFields DEF CancelReply

\* The steps that leave the request alone.
Around == \/ Block \/ Receive \/ Restore \/ Killed \/ TakeSignal \/ Posts
          \/ UNCHANGED vars
          \/ \E s \in Signals : Signal(s)
          \/ \E p \in Pipes : Copy(p) \/ CopyFails(p) \/ Write(p) \/ CloseEnd(p)
Handles == PickUp \/ Drain \/ Refuse \/ StartCommand
Turns == CommandEnds \/ Latch \/ RunFails \/ Answer

LEMMA RequestKinds ==
    ASSUME [Next]_vars
    PROVE  Around \/ Monitor \/ Handles \/ Turns \/ RequestShutdown \/ BrokerGone
BY DEF Next, Main, SignalThread, Serve, Around, Posts, Handles, Turns

LEMMA AroundWhat ==
    ASSUME Around
    PROVE  UNCHANGED <<command, reason, control, shutdown, monitor, kept>>
<1> USE DEF broker, pipes
<1>1. CASE Block \/ Receive \/ Restore \/ Killed \/ TakeSignal \/ UNCHANGED vars
  BY <1>1 DEF Block, Receive, Restore, Killed, TakeSignal, vars
<1>2. CASE Posts
  BY <1>2 DEF Posts, SendHeader, SendPayload, CloseStreams, Told
<1>3. ASSUME NEW s \in Signals, Signal(s)
      PROVE  UNCHANGED <<command, reason, control, shutdown, monitor, kept>>
  BY <1>3 DEF Signal
<1>4. ASSUME NEW p \in Pipes, Copy(p) \/ CopyFails(p) \/ Write(p) \/ CloseEnd(p)
      PROVE  UNCHANGED <<command, reason, control, shutdown, monitor, kept>>
  BY <1>4 DEF Copy, CopyFails, Write, CloseEnd, Executor
<1> QED
  BY <1>1, <1>2, <1>3, <1>4 DEF Around

\* The monitor cancels, and never takes that back or changes the signal.
LEMMA MonitorCancels ==
    ASSUME IInv, Reasoned, Monitor
    PROVE  /\ UNCHANGED <<command, reason, shutdown, kept>>
           /\ ~(control.cancelled /\ control.signal = NoSignal)
           /\ control.cancelled => control'.cancelled
           /\ control.signal # NoSignal => control'.signal = control.signal
           /\ control'.cancelled /\ control'.signal = NoSignal => ~monitor'
<1>t. control \in [cancelled : BOOLEAN, signal : Signals \cup {NoSignal}, streams : BOOLEAN]
      /\ events \in Seq(Pieces) /\ Len(events) \in Nat
  BY DEF IInv, TypeOK, Pieces
<1>1. UNCHANGED <<command, reason, shutdown, kept>> /\ monitor
  BY DEF Monitor, MonitorStreams, MonitorCancel, MonitorEnds, Disconnect, Monitored, pipes
<1>2. ~(control.cancelled /\ control.signal = NoSignal)
  BY <1>1 DEF Reasoned
<1>3. CASE MonitorStreams
  BY <1>t, <1>1, <1>2, <1>3 DEF MonitorStreams
<1>4. CASE MonitorCancel /\ Len(events) > 1 /\ events[2][1] = "signal"
  <2>1. 2 \in 1..Len(events)
    BY <1>t, <1>4
  <2>2. events[2][2] = received /\ received # NoSignal /\ control.signal \in {NoSignal, received}
    BY <1>4, <2>1 DEF IInv, Named
  <2> QED
    BY <1>t, <1>1, <1>2, <1>4, <2>2 DEF MonitorCancel
<1>5. CASE MonitorEnds
  BY <1>t, <1>1, <1>2, <1>5 DEF MonitorEnds, Disconnect
<1> QED
  BY <1>3, <1>4, <1>5, MonitorWhat

LEMMA ReasonedInit == Init => Reasoned
BY PlainFields DEF Init, Reasoned, Runs

LEMMA ReasonedNext ==
    ASSUME IInv, Reasoned, [Next]_vars
    PROVE  Reasoned'
<1>t. TypeOK /\ reason \in Answers
  BY DEF IInv, TypeOK
<1>1. CASE Around
  BY <1>1, AroundWhat DEF Reasoned
<1>2. CASE Monitor
  BY <1>2, MonitorCancels DEF Reasoned
<1>3. CASE RequestShutdown \/ BrokerGone
  <2>1. UNCHANGED <<reason, control, monitor>> /\ (shutdown => shutdown')
        /\ command' \in {command, "dead"} /\ (kept' = kept \/ command' = "dead")
    BY <1>3 DEF RequestShutdown, BrokerGone, Executor, pipes
  <2> QED
    BY <2>1 DEF Reasoned, Runs
<1>4. CASE Handles
  <2>1. UNCHANGED <<control, monitor, shutdown>>
        /\ command' \in {"picked", "refused", "running"}
        /\ (command' = "running" => ~kept')
    BY <1>4 DEF Handles, PickUp, Drain, Refuse, StartCommand, Executor
  <2>2. reason = NoAnswer /\ (command' # "refused" => reason' = reason)
    BY <1>4 DEF Handles, PickUp, Drain, Refuse, StartCommand, Reasoned
  <2>3. \/ reason' = reason
        \/ reason'.by \in {"required", "error"}
        \/ reason'.by = "closed" /\ shutdown
        \/ reason' = CancelReply /\ control.cancelled
    BY <1>4, PlainFields DEF Handles, PickUp, Drain, Refuse, StartCommand
  <2> QED
    BY <1>t, <2>1, <2>2, <2>3, CancelReplyBy, PlainFields DEF Reasoned, Runs
<1>5. CASE Turns
  <2>1. UNCHANGED <<control, monitor, shutdown>>
    BY <1>5 DEF Turns, CommandEnds, Latch, RunFails, Answer, Executor
  <2>2. command' \in Runs \cup {"answered"}
        /\ (command' \in Runs => command \in Runs) /\ kept' = kept
        /\ (command' = "cut" => \/ command = "cut" \/ reason # NoAnswer
                                \/ control.cancelled \/ shutdown)
    BY <1>5 DEF Turns, CommandEnds, Latch, RunFails, Answer, Runs, pipes
  <2>3. \/ reason' = reason
        \/ reason'.by \in {"timedOut", "error"}
        \/ reason'.by = "closed" /\ shutdown
        \/ reason' = CancelReply /\ control.cancelled
    BY <1>5, PlainFields DEF Turns, CommandEnds, Latch, RunFails, Answer
  <2> QED
    BY <1>t, <2>1, <2>2, <2>3, CancelReplyBy, PlainFields DEF Reasoned, Runs
<1> QED
  BY <1>1, <1>2, <1>3, <1>4, <1>5, RequestKinds

LEMMA AlwaysReasoned == Spec => [](IInv /\ Reasoned)
<1>1. (IInv /\ Reasoned) /\ [Next]_vars => (IInv /\ Reasoned)'
  BY TypeNext, WholeNext, NamedNext, JoinedNext, RepliedNext, OutputNext, StatusNext,
     ReasonedNext DEF IInv
<1> QED
  BY InvInit, ReasonedInit, <1>1, PTL DEF Spec

\* The bars, by what was decided.
LEMMA RunFinds ==
    ASSUME TypeOK
    PROVE  reason = NoAnswer <=> reason.by = "none"
BY AnswerFields, PlainFields DEF TypeOK

LEMMA HandlesMapped ==
    ASSUME IInv, Reasoned, Handles
    PROVE  Request!Next
<1>t. TypeOK
  BY DEF IInv
<1>0. Executor /\ UNCHANGED shutdown /\ reason.by = "none"
  BY PlainFields DEF Handles, PickUp, Drain, Refuse, StartCommand, Reasoned
<1>c. CancelReply.by = IF control.signal # NoSignal THEN "signal" ELSE "cancelled"
  BY <1>t, CancelReplyBy
<1> USE DEF stageBar, controlBar, replyBar, InBroker, Runs, Executor
<1>1. CASE command = "queued" /\ ~control.cancelled /\ command' = "picked" /\ UNCHANGED reason
  BY <1>0, <1>1 DEF Request!Next, Request!Serve, Request!Begin, Request!To
<1>2. CASE StartCommand
  BY <1>0, <1>2 DEF StartCommand, Request!Next, Request!Serve, Request!Run, Request!To
<1>3. CASE command \in {"queued", "picked"} /\ command' = "refused"
  <2>1. /\ stageBar' = "replied" /\ ~InBroker' /\ controlBar' = "live" /\ InBroker
        /\ stageBar = IF command = "queued" THEN "queued" ELSE "begun"
    BY <1>3
  <2>2. replyBar' \in Request!Replies
    <3>1. CASE PickUp
      BY <1>0, <1>3, <1>c, <2>1, <3>1, PlainFields
         DEF PickUp, Request!Replies, Request!Cancelled, Request!Dropped
    <3>2. CASE Drain
      BY <1>0, <1>3, <1>c, <2>1, <3>2, PlainFields
         DEF Drain, Request!Replies, Request!Cancelled, Request!Dropped
    <3>3. CASE Refuse
      BY <1>0, <1>3, <1>c, <2>1, <3>3, PlainFields
         DEF Refuse, Request!Replies, Request!Cancelled, Request!Dropped
    <3> QED
      BY <1>3, <3>1, <3>2, <3>3 DEF Handles, StartCommand
  <2> QED
    BY <1>0, <2>1, <2>2 DEF Request!Next, Request!Serve, Request!Reply
<1> QED
  BY <1>1, <1>2, <1>3 DEF Handles, PickUp, Drain, Refuse

LEMMA TurnsMapped ==
    ASSUME IInv, Reasoned, Turns
    PROVE  [Request!Next]_(Request!vars)
<1>t. TypeOK /\ reason \in Answers
  BY DEF IInv, TypeOK
<1>0. Executor /\ UNCHANGED shutdown
  BY DEF Turns, CommandEnds, Latch, RunFails, Answer
<1>r. reason = NoAnswer <=> reason.by = "none"
  BY <1>t, RunFinds
<1>c. CancelReply.by = IF control.signal # NoSignal THEN "signal" ELSE "cancelled"
  BY <1>t, CancelReplyBy
<1> USE DEF stageBar, controlBar, replyBar, InBroker, Runs, Executor
<1>1. CASE CommandEnds
  <2>1. command = "running" /\ command' \in {"ended", "cut"} /\ reason' = reason
        /\ (command' = "ended" => reason.by = "none" /\ ~control.cancelled /\ ~shutdown)
    BY <1>1, <1>r DEF CommandEnds
  <2> QED
    BY <1>0, <2>1 DEF Request!Next, Request!Serve, Request!Clear, Request!To, Request!vars
<1>2. CASE Latch
  <2>1. command \in Runs /\ command' = command /\ reason.by = "none"
        /\ \/ reason'.by = "timedOut"
           \/ reason'.by = "closed" /\ shutdown
           \/ reason'.by \in {"signal", "cancelled"} /\ control.cancelled
    BY <1>2, <1>r, <1>c, PlainFields DEF Latch
  <2> QED
    BY <1>0, <2>1 DEF Request!Next, Request!Serve, Request!Expire, Request!Doom, Request!To
<1>3. CASE RunFails
  <2>1. command \in Runs /\ command' = command /\ reason'.by = "error"
    BY <1>3, PlainFields DEF RunFails
  <2> QED
    BY <1>0, <2>1 DEF Request!Next, Request!Serve, Request!Break, Request!To, Request!vars,
                      Request!Runs
<1>4. CASE Answer
  <2>1. command' = "answered" /\ reason' = reason
        /\ (command = "refused" \/ command = "ended" \/ (command = "cut" /\ reason.by # "none"))
    BY <1>4, <1>r DEF Answer
  <2>2. CASE command = "refused"
    BY <1>0, <2>1, <2>2 DEF Request!vars
  <2>3. CASE command \in Runs
    <3>1. replyBar' \in Request!Replies
      BY <1>0, <2>1, <2>3, <1>r
         DEF Request!Replies, Request!Cancelled, Request!Dropped, Reasoned
    <3> QED
      BY <1>0, <2>1, <2>3, <3>1 DEF Request!Next, Request!Serve, Request!Reply
  <2> QED
    BY <2>1, <2>2, <2>3
<1> QED
  BY <1>1, <1>2, <1>3, <1>4 DEF Turns

-----------------------------------------------------------------------------
\* Every variable keeps its type, in particular a client is gone just when it has
\* an exit, and its signal thread writes just when a signal was taken.
THEOREM ExecTypes == Spec => []TypeOK
<1>1. IInv => TypeOK
  BY DEF IInv
<1> QED
  BY Always, <1>1, PTL

\* However the signal thread and the main thread take turns on the connection,
\* the monitor takes no living client for gone: FramesWhole.
THEOREM WholeFrames == Spec => []FramesWhole
<1>1. IInv => FramesWhole
  BY DEF IInv, Named, FramesWhole
<1> QED
  BY Always, <1>1, PTL

\* The executor is told that the output has ended when it has, and all of it was
\* copied or cannot be: StreamsClosedIsTrue.
THEOREM StreamsClosed == Spec => []StreamsClosedIsTrue
<1>1. ASSUME IInv, Live, control.streams, NEW p \in Pipes
      PROVE  copy[p] = "failed" \/ (Ended(p) /\ copied[p] = written[p])
  <2>1. copy[p] \in {"copying", "ended", "failed"}
    BY <1>1 DEF IInv, TypeOK
  <2>2. copy[p] # "copying"
    BY <1>1 DEF IInv, Joined, Copying
  <2>3. copy[p] = "ended" => Ended(p) /\ copied[p] = written[p]
    BY <1>1 DEF IInv, Joined
  <2> QED
    BY <2>1, <2>2, <2>3
<1>2. IInv => StreamsClosedIsTrue
  BY <1>1 DEF StreamsClosedIsTrue
<1> QED
  BY Always, <1>2, PTL

\* No status of the broker's overtakes the output: OutputBeforeStatus.
THEOREM OutputFirst == Spec => []OutputBeforeStatus
<1>1. IInv => OutputBeforeStatus
  BY DEF IInv
<1> QED
  BY Always, <1>1, PTL

\* A status of 128 + n is that of the signal that the client took first, and a
\* cancelled request always has one: StatusNamesSignal.
THEOREM SignalNamed == Spec => []StatusNamesSignal
<1>1. IInv => StatusNamesSignal
  BY DEF IInv
<1> QED
  BY Always, <1>1, PTL

\* The request of an exec is served as RequestContract says, whatever its client, its
\* frames and its pipes do meanwhile: RequestKeepsContract.
THEOREM RequestIsServed == Spec => RequestKeepsContract
<1>1. Init => Request!Init
  <2>1. Init => /\ stageBar = "queued" /\ controlBar = "live" /\ replyBar = "none"
                /\ shutdown = FALSE
    <3>1. Init => command = "queued" /\ ~control.cancelled /\ shutdown = FALSE
      BY DEF Init
    <3> QED
      BY <3>1 DEF stageBar, controlBar, replyBar, InBroker, Runs
  <2>2. InBroker \in BOOLEAN
    BY DEF InBroker
  <2> QED
    BY <2>1, <2>2 DEF Request!Init
<1>2. ASSUME IInv, Reasoned, [Next]_vars, command' # "dead"
      PROVE  [Request!Next]_(Request!vars)
  <2> USE DEF stageBar, controlBar, replyBar, InBroker, Runs
  <2>1. CASE Around
    BY <2>1, AroundWhat DEF Request!vars
  <2>2. CASE Monitor
    <3>0. UNCHANGED <<command, reason, shutdown>>
      BY <1>2, <2>2, MonitorCancels
    <3>1. UNCHANGED <<stageBar, replyBar, InBroker, shutdown>>
      BY <3>0
    <3>2. CASE ~InBroker \/ controlBar' = controlBar
      BY <3>1, <3>2 DEF Request!vars
    <3>3. CASE InBroker /\ controlBar' # controlBar
      <4>1. controlBar = "live" /\ controlBar' \in {"signal", "gone"}
        BY <1>2, <2>2, <3>0, <3>3, MonitorCancels
      <4>2. stageBar \in Request!Open
        BY <3>3 DEF Request!Open, Request!Runs
      <4> QED
        BY <3>1, <3>3, <4>1, <4>2 DEF Request!Next, Request!Cancel
    <3> QED
      BY <3>2, <3>3
  <2>3. CASE RequestShutdown
    BY <2>3 DEF RequestShutdown, Executor, Request!Next, Request!ShutDown
  <2>4. CASE BrokerGone
    BY <1>2, <2>4 DEF BrokerGone
  <2> QED
    BY <1>2, <2>1, <2>2, <2>3, <2>4, HandlesMapped, TurnsMapped, RequestKinds
<1>3. IInv /\ Reasoned /\ [Next]_vars
      => [command' # "dead" => [Request!Next]_(Request!vars)]_vars
  BY <1>2
<1> QED
  BY AlwaysReasoned, <1>1, <1>3, PTL DEF Spec, RequestKeepsContract

\* The other way round, the exec client reckons with all that RequestContract lets an
\* executor do, and so with all that BrokerActor does to a request: each step of the
\* contract is one of PickUp, Drain, Refuse, StartCommand, CommandEnds, Latch, RunFails
\* and Answer.  Only the wait for the end of the command and of its output, which is
\* Runner's, comes on top of it.
THEOREM ServesAllRequests ==
    ASSUME IInv, Reasoned, InBroker, OnlyRequestSteps, Request!Serve,
           command' = "answered" =>
               /\ command # "running"
               /\ control.streams \/ shutdown \/ reason = Plain("error")
    PROVE  Handles \/ Turns
<1>t. TypeOK /\ reason \in Answers
  BY DEF IInv, TypeOK
<1>r. reason = NoAnswer <=> reason.by = "none"
  BY <1>t, RunFinds
<1>c. CancelReply.by = IF control.signal # NoSignal THEN "signal" ELSE "cancelled"
  BY <1>t, CancelReplyBy
<1>0. /\ Executor /\ UNCHANGED <<written, copied, shutdown>>
      /\ command \in {"queued", "picked"} => kept /\ reason = NoAnswer
      /\ kept' = (kept /\ command' \in {"queued", "picked"})
      /\ held' = IF command = "picked" /\ command' \in Runs THEN Pipes ELSE held
      /\ answer' = IF command' = "answered" THEN Response ELSE answer
  BY DEF OnlyRequestSteps, Executor, Reasoned, IInv, Joined
<1>1. /\ command' \in IF command \in Runs THEN Runs \cup {"answered"}
                      ELSE {"picked", "refused", "running"}
      /\ command' \in {command, "refused"} \/ reason' = reason
  BY DEF OnlyRequestSteps
<1>2. \/ reason' = reason \/ reason' = Plain("timedOut")
      \/ reason' = Plain("error")
      \/ (reason' = Plain("required") /\ command \notin Runs)
      \/ (reason' = CancelReply /\ control.cancelled)
      \/ (reason' = Plain("closed") /\ shutdown)
  BY DEF OnlyRequestSteps
<1>3. CASE command \in {"queued", "picked"}
  <2>0. kept = TRUE /\ reason = NoAnswer /\ reason.by = "none"
        /\ command' \in {"picked", "refused", "running"}
    <3>1. kept = TRUE
      BY <1>0, <1>3, <1>t DEF TypeOK
    <3>2. command \notin Runs
      BY <1>3 DEF Runs
    <3> QED
      BY <1>0, <1>1, <1>3, <1>r, <3>1, <3>2
  <2>1. CASE command' = "picked"
    <3>1. command = "queued" /\ ~control.cancelled
      BY <1>3, <2>0, <2>1
         DEF Request!Serve, Request!Begin, Request!Run, Request!Clear, Request!Expire,
             Request!Doom, Request!Break, Request!Reply, Request!To, Request!Runs,
             stageBar, controlBar, InBroker, Runs
    <3> QED
      BY <1>0, <1>1, <2>0, <2>1, <3>1 DEF PickUp, Handles, Runs
  <2>2. CASE command' = "running"
    <3>1. command = "picked"
      BY <1>3, <2>0, <2>2
         DEF Request!Serve, Request!Begin, Request!Run, Request!Clear, Request!Expire,
             Request!Doom, Request!Break, Request!Reply, Request!To, Request!Runs,
             stageBar, InBroker, Runs
    <3> QED
      BY <1>0, <1>1, <2>0, <2>2, <3>1 DEF StartCommand, Handles, Runs
  <2>3. CASE command' = "refused"
    <3>1. /\ stageBar = IF command = "queued" THEN "queued" ELSE "begun"
          /\ stageBar' = "replied" /\ InBroker
          /\ controlBar = IF ~control.cancelled THEN "live"
                          ELSE IF control.signal # NoSignal THEN "signal" ELSE "gone"
      BY <1>3, <2>3 DEF stageBar, controlBar, InBroker, Runs
    <3>2. replyBar' \in Request!Replies
      BY <3>1
         DEF Request!Serve, Request!Begin, Request!Run, Request!Clear, Request!Expire,
             Request!Doom, Request!Break, Request!Reply, Request!To
    <3>3. replyBar' = CASE reason'.by = "none"   -> "exit"
                        [] reason'.by = "closed" -> "dropped"
                        [] reason'.by = "signal" -> "cancelledBySignal"
                        [] OTHER                 -> reason'.by
      BY <2>3 DEF replyBar, InBroker, Runs
    <3>4. CASE command = "queued"
      <4>1. replyBar' \in Request!Cancelled \cup Request!Dropped \cup {"error", "required"}
            /\ (replyBar' = "error" => shutdown)
            /\ (replyBar' = "required" => ~control.cancelled)
        BY <3>1, <3>2, <3>4 DEF Request!Replies, Request!Cancelled, Request!Dropped
      <4>2. \/ reason' = Plain("required") /\ ~control.cancelled
            \/ reason' = CancelReply /\ control.cancelled
            \/ reason' \in {Plain("error"), Plain("closed")} /\ shutdown
        BY <1>2, <1>c, <2>0, <3>1, <3>3, <4>1, PlainFields
           DEF Request!Cancelled, Request!Dropped
      <4> QED
        BY <1>0, <2>3, <3>4, <4>2 DEF PickUp, Drain, Handles, Runs
    <3>5. CASE command = "picked"
      <4>1. replyBar' \in Request!Cancelled \cup Request!Dropped \cup {"error", "required"}
        BY <3>1, <3>2, <3>5 DEF Request!Replies
      <4>2. \/ reason' \in {Plain("required"), Plain("error")}
            \/ reason' = CancelReply /\ control.cancelled
            \/ reason' = Plain("closed") /\ shutdown
        BY <1>2, <2>0, <3>1, <3>3, <4>1, PlainFields
           DEF Request!Cancelled, Request!Dropped
      <4> QED
        BY <1>0, <2>3, <3>5, <4>2 DEF Refuse, Handles, Runs
    <3> QED
      BY <1>3, <3>4, <3>5
  <2> QED
    BY <2>0, <2>1, <2>2, <2>3
<1>4. CASE command \in Runs
  <2>0. /\ kept = FALSE /\ UNCHANGED pipes
        /\ command' \in Runs \cup {"answered"}
        /\ command' = command \/ reason' = reason
        /\ command = "cut" /\ reason.by = "none" => control.cancelled \/ shutdown
    BY <1>0, <1>1, <1>4, <1>r, <1>t DEF TypeOK, Reasoned, Runs, pipes
  <2> DEFINE Run(c, r) ==
        CASE r.by = "none"     -> IF c = "ended" THEN "clear" ELSE "running"
          [] r.by = "timedOut" -> "expired"
          [] r.by = "error"    -> "failed"
          [] OTHER             -> "doomed"
  <2>1. /\ stageBar = Run(command, reason)
        /\ stageBar' = IF command' \in Runs THEN Run(command', reason') ELSE "replied"
        /\ controlBar = "live" <=> ~control.cancelled
    BY <1>4, <2>0 DEF stageBar, controlBar, InBroker, Runs
  <2>2. stageBar \notin {"queued", "begun"}
    BY <2>1
  <2> HIDE DEF Run
  <2>3. CASE Request!Clear
    <3>1. stageBar = "running" /\ stageBar' = "clear" /\ ~control.cancelled /\ ~shutdown
      BY <2>1, <2>3 DEF Request!Clear, Request!To
    <3>2. /\ reason.by = "none" /\ command # "ended"
          /\ reason'.by = "none" /\ command' = "ended"
      BY <2>0, <2>1, <3>1 DEF Run, Runs
    <3>3. command = "running" /\ reason' = reason
      BY <1>4, <2>0, <3>1, <3>2 DEF Runs
    <3> QED
      BY <1>0, <1>r, <2>0, <3>1, <3>2, <3>3 DEF CommandEnds, Turns
  <2>4. CASE Request!Expire \/ Request!Doom \/ Request!Break
    <3>1. /\ stageBar' \in {"expired", "doomed", "failed"} /\ stageBar # stageBar'
          /\ stageBar' = "failed" \/ stageBar \in {"running", "clear"}
      BY <2>4 DEF Request!Expire, Request!Doom, Request!Break, Request!To, Request!Runs
    <3>2. reason' # reason /\ command' = command
      BY <2>0, <2>1, <3>1 DEF Run
    <3>3. stageBar' \in {"expired", "doomed"} => reason = NoAnswer
      BY <1>r, <2>1, <3>1 DEF Run
    <3>4. \/ reason' = Plain("error")
          \/ /\ stageBar' \in {"expired", "doomed"}
             /\ \/ reason' = Plain("timedOut")
                \/ reason' = CancelReply /\ control.cancelled
                \/ reason' = Plain("closed") /\ shutdown
      <4>1. reason'.by \notin {"none", "required"}
        BY <1>2, <1>4, <1>c, <2>1, <3>1, <3>2, PlainFields DEF Run, Runs
      <4> QED
        BY <1>2, <1>4, <1>c, <2>1, <3>1, <3>2, <4>1, PlainFields DEF Run, Runs
    <3> QED
      BY <1>0, <1>4, <2>0, <3>2, <3>3, <3>4 DEF Latch, RunFails, Turns, Runs
  <2>5. CASE Request!Reply
    <3>1. stageBar' = "replied" /\ replyBar' \in Request!Replies
      BY <2>5 DEF Request!Reply
    <3>2. command' = "answered" /\ reason' = reason
      BY <1>4, <2>0, <2>1, <3>1 DEF Run, Runs
    <3>3. stageBar # "running"
      BY <3>1 DEF Request!Replies
    <3>4. command = "ended" \/ (command = "cut" /\ reason # NoAnswer)
      BY <1>4, <1>r, <2>1, <3>2, <3>3 DEF Run, Runs
    <3> QED
      BY <1>0, <2>0, <3>2, <3>4 DEF Answer, Turns, Runs
  <2> QED
    BY <2>2, <2>3, <2>4, <2>5 DEF Request!Serve, Request!Begin, Request!Run, Request!To
<1> QED
  BY <1>3, <1>4 DEF InBroker

-----------------------------------------------------------------------------
(* What lasts.                                                             *)

Idle == command \notin {"queued", "picked", "running"} /\ held = {}

LEMMA Lasting ==
    ASSUME TypeOK, [Next]_vars
    PROVE  /\ received # NoSignal => received' # NoSignal
           /\ Idle => Idle'
<1> USE DEF Idle
<1>1. CASE UNCHANGED vars
  BY <1>1 DEF vars, client, broker, pipes
<1>2. CASE Main \/ SignalThread \/ Killed \/ \E s \in Signals : Signal(s)
  BY <1>2 DEF TypeOK, Main, Block, CloseStreams, Receive, Restore, Told, SignalThread,
     TakeSignal, SendHeader, SendPayload, Killed, Signal, broker, pipes
<1>3. CASE Monitor
  BY <1>3 DEF Monitor, MonitorStreams, MonitorCancel, MonitorEnds, Disconnect, Monitored,
     client, pipes
<1>4. CASE Serve \/ RequestShutdown \/ BrokerGone \/ CommandEnds \/ Latch \/ RunFails
  BY <1>4 DEF Serve, PickUp, Drain, Refuse, StartCommand, Answer, RequestShutdown,
     BrokerGone, CommandEnds, Latch, RunFails, Executor, client, pipes, Runs
<1>5. ASSUME NEW p \in Pipes, Copy(p) \/ CopyFails(p) \/ Write(p) \/ CloseEnd(p)
      PROVE  /\ received # NoSignal => received' # NoSignal
             /\ Idle => Idle'
  BY <1>5 DEF Copy, CopyFails, Write, CloseEnd, Executor, client, broker, pipes
<1> QED
  BY <1>1, <1>2, <1>3, <1>4, <1>5 DEF Next

\* A signal that was taken stays so, and no command begins behind its end:
\* SignalEndsClient and EndOfCommandEndsClient say what these lead to (client.rs,
\* exec).
THEOREM EndsLast ==
    Spec => /\ SignalEndsClient <=>
                  (received # NoSignal ~> (main = "gone" \/ (command # "running" /\ held # {})))
            /\ EndOfCommandEndsClient <=>
                  (command \notin {"queued", "picked", "running"} /\ held = {} ~> main = "gone")
<1>1. TypeOK /\ [Next]_vars => (received # NoSignal => (received # NoSignal)')
  BY Lasting
<1>2. TypeOK /\ [Next]_vars => (command \notin {"queued", "picked", "running"} /\ held = {}
                => (command \notin {"queued", "picked", "running"} /\ held = {})')
  BY Lasting DEF Idle
<1> QED
  BY ExecTypes, <1>1, <1>2, PTL DEF Spec, SignalEndsClient, EndOfCommandEndsClient
=============================================================================
