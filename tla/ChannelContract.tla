----------------------------- MODULE ChannelContract -----------------------------
(***************************************************************************)
(* What becomes of the messages to the executor, for the threads that send *)
(* them: the bounded channel and the turns of BrokerActor::run             *)
(* (src/src/broker.rs), without accounts, children, clocks or answers.     *)
(* Messages are taken in the order they came, one request at a time; a     *)
(* request is open until it is answered, in the queue, in progress, at the *)
(* drain, or as the receiver goes; and nothing is begun any more once a    *)
(* look found the flag, or a stop was read.                                *)
(***************************************************************************)
EXTENDS Naturals, Sequences

CONSTANTS
    Senders,   \* everybody with a message to the executor
    Requesters   \* those of them whose message is a request; the others say Stop

VARIABLES
    down,      \* the broker's flag
    executor,  \* where the executor is
    channel,   \* messages, named by their senders
    open,      \* requests that were sent and are not answered
    taken      \* the request in progress, if there is one

vars == <<down, executor, channel, open, taken>>

Init == /\ down = FALSE /\ executor = "loop"
        /\ channel = <<>> /\ open = {} /\ taken = {}

\* A request is sent once, and Stop is sent behind the flag.
Send ==
    /\ executor # "ended"
    /\ \E s \in Senders :
          /\ IF s \in Requesters THEN s \notin open ELSE down
          /\ channel' = Append(channel, s)
          /\ open' = open \cup ({s} \cap Requesters)
    /\ UNCHANGED <<down, executor, taken>>

ShutDown == down' = TRUE /\ UNCHANGED <<executor, channel, open, taken>>

To(from, place) == executor = from /\ executor' = place /\ UNCHANGED down

Look ==
    /\ To("loop", IF down THEN "drain" ELSE "receive")
    /\ UNCHANGED <<channel, open, taken>>

\* Nothing has come, or it is time for something else.
Rest == channel = <<>> /\ To("receive", "loop") /\ UNCHANGED <<channel, open, taken>>

Take ==
    /\ channel # <<>> /\ Head(channel) \in Requesters
    /\ To("receive", "busy")
    /\ channel' = Tail(channel) /\ taken' = {Head(channel)}
    /\ UNCHANGED open

TakeStop ==
    /\ channel # <<>> /\ Head(channel) \notin Requesters
    /\ To("receive", "drain")
    /\ channel' = Tail(channel)
    /\ UNCHANGED <<open, taken>>

Settle ==
    /\ To("busy", "loop")
    /\ open' = open \ taken /\ taken' = {}
    /\ UNCHANGED channel

Drain ==
    /\ channel # <<>> /\ To("drain", "drain")
    /\ channel' = Tail(channel) /\ open' = open \ {Head(channel)}
    /\ UNCHANGED taken

Complete == channel = <<>> /\ To("drain", "complete") /\ UNCHANGED <<channel, open, taken>>

Drop ==
    /\ To("complete", "ended")
    /\ channel' = <<>> /\ open' = open \ {channel[i] : i \in 1..Len(channel)}
    /\ UNCHANGED taken

\* What the executor does.
Serve == Look \/ Rest \/ Take \/ TakeStop \/ Settle \/ Drain \/ Complete \/ Drop

Next == Send \/ ShutDown \/ Serve

Spec == Init /\ [][Next]_vars
=============================================================================
