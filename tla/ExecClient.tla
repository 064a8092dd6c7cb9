------------------------------- MODULE ExecClient -------------------------------
(***************************************************************************)
(* One `opp exec` (src/src/client.rs, execute) and its connection: the     *)
(* client's main thread, its signal thread and its two copying threads,    *)
(* the broker's handler and monitor threads of the connection              *)
(* (src/src/broker.rs, submit_with_monitor), and the command behind them.  *)
(*                                                                         *)
(* What the executor does between a request and its answer is BrokerActor  *)
(* and Runner; here it is what RequestContract leaves of it: it starts the *)
(* command or refuses it, and may have a reason to terminate it.           *)
(***************************************************************************)
EXTENDS FiniteSets, Naturals, Sequences

CONSTANTS
    Signals,    \* termination_signals, of which the caller sends each once
    Pipes,      \* the child's standard output and standard error
    NoSignal,   \* 0 in signal_received and RequestControl::signal
    MaxWrites   \* bound: writes of the command to a pipe

ASSUME ExecClientAssumption ==
    /\ NoSignal \notin Signals
    /\ MaxWrites \in Nat

VARIABLES
    main,      \* the client's main thread
    unsent,    \* signals that the caller has not sent
    pending,   \* signals that are blocked and wait
    thread,    \* the client's signal thread
    received,  \* signal_received
    copy,      \* per pipe: the copying thread
    written,   \* per pipe: what the command wrote
    copied,    \* per pipe: what reached the client's own output
    kept,      \* the broker holds the request's descriptors
    held,      \* pipes whose write end is open in the command's family
    events,    \* pieces of event frames on their way to the monitor
    monitor,   \* the monitor thread has not ended
    control,   \* the request's RequestControl
    command,   \* the request: queued, running, ended or cut, answered
    reason,    \* the reason latched to terminate it
    shutdown,  \* the broker's flag
    answer,    \* the response, "closed" at the connection's end
    exit       \* the client's exit

client == <<main, pending, thread, received, copy, exit>>
broker == <<monitor, control, command, reason, shutdown, answer>>
pipes == <<written, copied, kept, held>>
vars == <<client, unsent, pipes, events, broker>>

-----------------------------------------------------------------------------
Live == main # "gone"
Blocked == main \notin {"send", "gone"}
Caller(s) == [by |-> "signal", signal |-> s]
Plain(what) == [by |-> what, signal |-> NoSignal]
NoAnswer == Plain("none")
Ended(p) == ~kept /\ p \notin held
Runs == {"running", "ended", "cut"}

Init ==
    /\ main = "send" /\ thread = "none"
    /\ unsent = Signals /\ pending = {} /\ received = NoSignal
    /\ copy = [p \in Pipes |-> "copying"]
    /\ written = [p \in Pipes |-> 0] /\ copied = [p \in Pipes |-> 0]
    /\ kept = TRUE /\ held = {}
    /\ events = <<>> /\ monitor = TRUE
    /\ control = [cancelled |-> FALSE, signal |-> NoSignal, streams |-> FALSE]
    /\ command = "queued" /\ reason = NoAnswer /\ shutdown = FALSE
    /\ answer = NoAnswer /\ exit = NoAnswer

-----------------------------------------------------------------------------
(* The client's process.                                                   *)

\* The process ends, all of its threads and descriptors with it.
Exits(e) == main' = "gone" /\ exit' = e

\* A signal from the caller: it waits if it is blocked, and kills otherwise.
Signal(s) ==
    /\ Live /\ s \in unsent
    /\ unsent' = unsent \ {s}
    /\ IF Blocked
       THEN pending' = pending \cup {s} /\ UNCHANGED <<main, exit>>
       ELSE Exits(Plain("killed")) /\ UNCHANGED pending
    /\ UNCHANGED <<thread, received, copy, pipes, events, broker>>

\* The caller's SIGKILL.
Killed ==
    /\ Live /\ Exits(Plain("killed"))
    /\ UNCHANGED <<pending, thread, received, copy, unsent, pipes, events, broker>>

\* The request was sent; the signals are blocked, the threads started; that
\* there is a signal thread is not looked at, a copying thread that cannot be
\* started is found when it is joined.  Or the stream cannot be cloned.
Block ==
    /\ main = "send"
    /\ \/ /\ main' = "copy" /\ thread' \in {"wait", "none"}
          /\ copy' \in [Pipes -> {"copying", "failed"}] /\ UNCHANGED exit
       \/ Exits(Plain("own")) /\ UNCHANGED <<thread, copy>>
    /\ UNCHANGED <<pending, received, unsent, pipes, events, broker>>

\* Mutant: the thread goes on to the next signal.
TakeSignals ==
    /\ Live /\ thread \in {"wait", "ended"}
    /\ \E s \in pending : pending' = pending \ {s} /\ received' = s
    /\ thread' = "lock"
    /\ UNCHANGED <<main, copy, exit, unsent, pipes, events, broker>>

TakeSignal ==
    /\ Live /\ thread = "wait"
    /\ \E s \in pending : pending' = pending \ {s} /\ received' = s
    /\ thread' = "lock"
    /\ UNCHANGED <<main, copy, exit, unsent, pipes, events, broker>>

Post(piece) == events' = IF command = "dead" THEN events ELSE Append(events, piece)

\* Mutant: the signal is noted and not sent.
SendNothing ==
    /\ Live /\ thread = "lock" /\ thread' = "ended"
    /\ UNCHANGED <<main, pending, received, copy, exit, unsent, pipes, events, broker>>

\* Cancel is a header and a payload; the writer's mutex is held over both.
SendHeader ==
    /\ Live /\ thread = "lock"
    /\ Post(<<"cancel", received>>) /\ thread' = "payload"
    /\ UNCHANGED <<main, pending, received, copy, exit, unsent, pipes, broker>>

SendPayload ==
    /\ Live /\ thread = "payload"
    /\ Post(<<"signal", received>>) /\ thread' = "ended"
    /\ UNCHANGED <<main, pending, received, copy, exit, unsent, pipes, broker>>

\* A copying thread: a piece of output, the end of it, or an output of the
\* client's own that cannot be written.
Copy(p) ==
    /\ Blocked /\ copy[p] = "copying"
    /\ \/ /\ copied[p] < written[p]
          /\ copied' = [copied EXCEPT ![p] = @ + 1] /\ UNCHANGED copy
       \/ /\ copied[p] = written[p] /\ Ended(p)
          /\ copy' = [copy EXCEPT ![p] = "ended"] /\ UNCHANGED copied
    /\ UNCHANGED <<main, pending, thread, received, exit, unsent, written, kept,
                   held, events, broker>>

CopyFails(p) ==
    /\ Blocked /\ copy[p] = "copying" /\ copied[p] < written[p]
    /\ copy' = [copy EXCEPT ![p] = "failed"]
    /\ UNCHANGED <<main, pending, thread, received, exit, unsent, pipes, events,
                   broker>>

Copying == \E p \in Pipes : copy[p] = "copying"
Told == UNCHANGED <<pending, thread, received, copy, exit, unsent, pipes, broker>>

\* Mutants: one of the threads is joined; the mutex is not taken.
CloseStreamsSoon ==
    /\ main = "copy" /\ thread # "payload"
    /\ \E p \in Pipes : copy[p] # "copying"
    /\ Post(<<"streams", NoSignal>>) /\ main' = "await" /\ Told

CloseStreamsUnlocked ==
    /\ main = "copy" /\ ~Copying
    /\ Post(<<"streams", NoSignal>>) /\ main' = "await" /\ Told

\* Both copying threads are joined; StreamsClosed is one header.
CloseStreams ==
    /\ main = "copy" /\ ~Copying /\ thread # "payload"
    /\ Post(<<"streams", NoSignal>>) /\ main' = "await" /\ Told

Receive ==
    /\ main = "await" /\ answer # NoAnswer
    /\ main' = "restore"
    /\ UNCHANGED <<pending, thread, received, copy, exit, unsent, pipes, events,
                   broker>>

\* Mutant: output that could not be copied is not an error.
StatusOfAnswer ==
    IF answer.by = "cancelled" /\ received # NoSignal THEN Caller(received)
    ELSE answer

\* The exit status of a response, or of an error of the client's own.
Status ==
    IF \E p \in Pipes : copy[p] = "failed" THEN Plain("own")
    ELSE IF answer.by = "cancelled" /\ received # NoSignal THEN Caller(received)
    ELSE answer

\* The mask is restored, and a signal that came second kills after all.
Restore ==
    /\ main = "restore"
    /\ Exits(IF pending # {} THEN Plain("killed") ELSE Status)
    /\ UNCHANGED <<pending, thread, received, copy, unsent, pipes, events, broker>>

-----------------------------------------------------------------------------
(* The broker's threads for the connection.                                *)

Monitored == UNCHANGED <<client, unsent, pipes, command, reason, shutdown, answer>>

\* disconnect: the frame is not one, or the stream has ended.
Disconnect ==
    /\ monitor' = FALSE
    /\ control' = [control EXCEPT !.cancelled = TRUE, !.streams = TRUE]
    /\ Monitored

Frame == Len(events) > 1 /\ events[2][1] = "signal"

MonitorStreams ==
    /\ monitor /\ command # "dead" /\ events # <<>>
    /\ Head(events)[1] = "streams"
    /\ control' = [control EXCEPT !.streams = TRUE]
    /\ events' = Tail(events) /\ UNCHANGED monitor
    /\ Monitored

MonitorCancel ==
    /\ monitor /\ command # "dead" /\ events # <<>>
    /\ Head(events)[1] = "cancel" /\ Frame
    /\ control' = [control EXCEPT !.cancelled = TRUE, !.signal = events[2][2]]
    /\ events' = Tail(Tail(events)) /\ UNCHANGED monitor
    /\ Monitored

\* Whatever does not make a frame, and the end of the client's side.
MonitorEnds ==
    /\ monitor /\ command # "dead"
    /\ \/ events = <<>> /\ ~Live
       \/ /\ events # <<>> /\ Head(events)[1] = "cancel"
          /\ IF Len(events) = 1 THEN ~Live ELSE ~Frame
       \/ events # <<>> /\ Head(events)[1] = "signal"
    /\ events' = <<>> /\ Disconnect

Monitor == MonitorStreams \/ MonitorCancel \/ MonitorEnds

-----------------------------------------------------------------------------
(* The request in the executor, and its command.                           *)

Executor == UNCHANGED <<client, unsent, events, monitor, control>>

CancelReply ==
    IF control.signal # NoSignal THEN Caller(control.signal) ELSE Plain("cancelled")

\* Taken from the queue, perhaps by a loop that has looked at the flag before: a
\* cancelled request goes no further, nor one without authorization.
PickUp ==
    /\ command = "queued"
    /\ \/ ~control.cancelled /\ command' = "picked" /\ UNCHANGED <<kept, reason>>
       \/ /\ command' = "refused" /\ kept' = FALSE
          /\ reason' = IF control.cancelled THEN CancelReply ELSE Plain("required")
    /\ UNCHANGED <<written, copied, held, shutdown, answer>> /\ Executor

\* Drained from the queue, or dropped with it.
Drain ==
    /\ command = "queued" /\ shutdown
    /\ command' = "refused" /\ kept' = FALSE
    /\ reason' \in {Plain("error"), Plain("closed")}
    /\ UNCHANGED <<written, copied, held, shutdown, answer>> /\ Executor

\* A check that failed, was cancelled or overtaken by shutdown, no authorization
\* any more, or no process; the descriptors are dropped before the answer.
Refuse ==
    /\ command = "picked"
    /\ command' = "refused" /\ kept' = FALSE
    /\ \/ reason' \in {Plain("required"), Plain("error")}
       \/ control.cancelled /\ reason' = CancelReply
       \/ shutdown /\ reason' = Plain("closed")
    /\ UNCHANGED <<written, copied, held, shutdown, answer>> /\ Executor

\* Mutant: the broker keeps the descriptors that it gave to the command.
StartCommandKeeping ==
    /\ command = "picked"
    /\ command' = "running" /\ held' = Pipes
    /\ UNCHANGED <<written, copied, kept, reason, shutdown, answer>> /\ Executor

StartCommand ==
    /\ command = "picked"
    /\ command' = "running" /\ held' = Pipes /\ kept' = FALSE
    /\ UNCHANGED <<written, copied, reason, shutdown, answer>> /\ Executor

Write(p) ==
    /\ command = "running" /\ p \in held /\ written[p] < MaxWrites
    /\ Live /\ copy[p] = "copying"
    /\ written' = [written EXCEPT ![p] = @ + 1]
    /\ UNCHANGED <<copied, kept, held, command, reason, shutdown, answer>> /\ Executor

\* By the command or by the last of its descendants, which may outlive it, and
\* the broker.
CloseEnd(p) ==
    /\ command \notin {"queued", "picked"} /\ p \in held
    /\ held' = held \ {p}
    /\ UNCHANGED <<written, copied, kept, command, reason, shutdown, answer>> /\ Executor

\* Mutant: how it ended is told whatever was asked before.
CommandEndsAnyhow ==
    /\ command = "running" /\ command' = "ended"
    /\ UNCHANGED <<pipes, reason, shutdown, answer>> /\ Executor

\* It ends by itself while nobody asked for it, or is cut short or late.
CommandEnds ==
    /\ command = "running"
    /\ command' = IF reason = NoAnswer /\ ~control.cancelled /\ ~shutdown
                  THEN "ended" ELSE "cut"
    /\ UNCHANGED <<pipes, reason, shutdown, answer>> /\ Executor

\* A reason to terminate it.
Latch ==
    /\ command \in Runs /\ reason = NoAnswer
    /\ \/ control.cancelled /\ reason' = CancelReply
       \/ reason' = Plain("timedOut")
       \/ shutdown /\ reason' = Plain("closed")
    /\ UNCHANGED <<pipes, command, shutdown, answer>> /\ Executor

\* A system call of the run fails: the group is killed, and its leader awaited.
RunFails ==
    /\ command \in Runs
    /\ reason' = Plain("error")
    /\ UNCHANGED <<pipes, command, shutdown, answer>> /\ Executor

Response == CASE reason = NoAnswer        -> Plain("exit")
              [] reason = Plain("closed") -> NoAnswer
              [] OTHER                    -> reason

\* The run ends with its output, with shutdown or with an error, and tells how the
\* command ended unless there is a reason.  A request without an answer leaves
\* the connection to the end of the process.
Answer ==
    /\ \/ /\ command = "ended" \/ (command = "cut" /\ reason # NoAnswer)
          /\ control.streams \/ shutdown \/ reason = Plain("error")
       \/ command = "refused"
    /\ answer' = Response
    /\ command' = "answered"
    /\ UNCHANGED <<pipes, reason, shutdown>> /\ Executor

RequestShutdown ==
    /\ ~shutdown /\ command # "dead"
    /\ shutdown' = TRUE
    /\ UNCHANGED <<pipes, command, reason, answer>> /\ Executor

\* The broker's process is gone, by shutdown or by a crash that leaves the
\* command behind: the connection ends.
BrokerGone ==
    /\ command # "dead"
    /\ command' = "dead"
    /\ answer' = IF answer = NoAnswer THEN Plain("closed") ELSE answer
    /\ kept' = FALSE
    /\ UNCHANGED <<written, copied, held, reason, shutdown>> /\ Executor

-----------------------------------------------------------------------------
Main == Block \/ CloseStreams \/ Receive \/ Restore
SignalThread == TakeSignal \/ SendHeader \/ SendPayload
Serve == PickUp \/ Drain \/ Refuse \/ StartCommand \/ Answer

Next ==
    \/ Main \/ SignalThread \/ Monitor \/ Serve
    \/ Killed \/ RequestShutdown \/ BrokerGone
    \/ CommandEnds \/ Latch \/ RunFails
    \/ \E s \in Signals : Signal(s)
    \/ \E p \in Pipes : Copy(p) \/ CopyFails(p) \/ Write(p) \/ CloseEnd(p)

Spec == Init /\ [][Next]_vars

\* The threads of the client and of the broker go on; a command with a reason
\* to end ends, as Runner makes it; a broker that shuts down goes away.  The
\* reader of the client's own output takes what is copied.
Fairness ==
    /\ WF_vars(Main) /\ WF_vars(SignalThread)
    /\ \A p \in Pipes : WF_vars(Copy(p))
    /\ WF_vars(Monitor) /\ WF_vars(Serve)
    /\ WF_vars(control.cancelled /\ Latch)
    /\ WF_vars(reason # NoAnswer /\ CommandEnds)
    /\ WF_vars(shutdown /\ BrokerGone)

FairSpec == Spec /\ Fairness

-----------------------------------------------------------------------------
(* Properties.                                                             *)

Answers == {Plain(what) : what \in {"none", "exit", "timedOut", "required",
                                    "error", "closed", "cancelled"}}
           \cup {Caller(s) : s \in Signals}

TypeOK ==
    /\ main \in {"send", "copy", "await", "restore", "gone"}
    /\ unsent \in SUBSET Signals /\ pending \in SUBSET Signals
    /\ thread \in {"none", "wait", "lock", "payload", "ended"}
    /\ received \in Signals \cup {NoSignal}
    /\ copy \in [Pipes -> {"copying", "ended", "failed"}]
    /\ written \in [Pipes -> 0..MaxWrites] /\ copied \in [Pipes -> 0..MaxWrites]
    /\ kept \in BOOLEAN /\ held \in SUBSET Pipes
    /\ events \in Seq({"cancel", "signal", "streams"} \X (Signals \cup {NoSignal}))
    /\ monitor \in BOOLEAN
    /\ control \in [cancelled : BOOLEAN, signal : Signals \cup {NoSignal},
                    streams : BOOLEAN]
    /\ command \in {"queued", "picked", "refused", "answered", "dead"} \cup Runs
    /\ reason \in Answers /\ answer \in Answers
    /\ shutdown \in BOOLEAN
    /\ exit \in Answers \cup {Plain("killed"), Plain("own")}
    /\ (main = "gone") <=> (exit # NoAnswer)
    /\ (thread \in {"lock", "payload", "ended"}) <=> (received # NoSignal)

\* The frames of the client's two writing threads reach the monitor whole: it
\* takes a client for gone only when it is.
FramesWhole == Live /\ command # "dead" => monitor

\* When the executor is told that the output has ended, it has: the broker and
\* the command hold no end of it, and all of it was copied, or cannot be.
StreamsClosedIsTrue ==
    Live /\ control.streams =>
        \A p \in Pipes : \/ copy[p] = "failed"
                        \/ (Ended(p) /\ copied[p] = written[p])

\* An exit status that comes from the broker comes behind the last byte of the
\* output, even when a shutdown or a crash cut the wait for it short there.
OutputBeforeStatus ==
    exit.by \notin {"none", "killed", "own"} =>
        \A p \in Pipes : Ended(p) /\ copied[p] = written[p]

\* 128 + n names the signal that the client took first, whatever comes later,
\* and no cancelled request ends without such a number.
StatusNamesSignal ==
    /\ exit.by = "signal" => exit.signal = received /\ received # NoSignal
    /\ exit.by # "cancelled"

\* A client that took a signal ends, unless a process of the command's family
\* keeps its output open.  The signal stays taken, so that it leads to this end.
SignalEndsClient ==
    []<>(received # NoSignal => main = "gone" \/ (command # "running" /\ held # {}))

\* A client ends when its command has, or was refused, or the broker is gone,
\* and nothing of the command's family holds its output, which nothing undoes.
EndOfCommandEndsClient ==
    []<>(command \notin {"queued", "picked", "running"} /\ held = {} => main = "gone")
=============================================================================
