--------------------------------- MODULE Runner ---------------------------------
(***************************************************************************)
(* One child process from its spawn to the result of Runner::probe or      *)
(* Runner::run (src/src/process.rs), with everything that runs beside it:  *)
(* the processes the child starts, inside and outside of its group, the    *)
(* threads or the client that read its output pipes, the client that       *)
(* cancels, and the broker's shutdown.                                     *)
(*                                                                         *)
(* wait_inner is taken apart into its single looks at shared state: one    *)
(* step per waitpid, flag, clock reading and signal.                       *)
(***************************************************************************)
EXTENDS Naturals

CONSTANTS
    Leader,       \* the child, leader of its process group
    Descendants,  \* processes that it or they may start
    Limit,        \* the deadline
    Grace,        \* TERMINATION_GRACE
    MaxTime       \* bound: the clock rests here unless a time is waited for

ASSUME RunnerAssumption ==
    /\ Leader \notin Descendants
    /\ Limit \in Nat /\ Grace \in Nat \ {0} /\ MaxTime \in Nat

VARIABLES
    use,           \* a probe's output is drained, a run's is the client's
    now,           \* the monotonic clock
    shutdown,      \* the broker's flag
    cancelled,     \* RequestControl::cancelled of the request
    connected,     \* the client is there
    streamsClosed, \* RequestControl::streams_closed that the loop looks at
    proc,          \* per process: not started, in the group, out of it, gone
    writers,       \* processes that hold a write end of an output pipe
    killed,        \* processes that SIGKILL was sent to
    pc,            \* where the runner is
    status,        \* the status reaped by waitpid
    termination,   \* the reason latched by the loop
    killAt,        \* kill_deadline; 0 is None
    foreground,    \* the terminal's foreground group
    result,        \* the returned ProcessOutcome or error
    startedUnder,  \* history: the reasons that held when the child started
    endedUnder     \* history: the reasons that held when the child ended

vars == <<use, now, shutdown, cancelled, connected, streamsClosed, proc,
          writers, killed, pc, status, termination, killAt, foreground, result,
          startedUnder, endedUnder>>

loop == <<status, termination, killAt>>
flags == <<shutdown, cancelled, connected, streamsClosed>>
world == <<proc, writers, killed, endedUnder>>

-----------------------------------------------------------------------------
Processes == Descendants \cup {Leader}
Natural == {"exited", "signaled"}
Reasons == {"shutdown", "cancelled", "timedOut"}
Members == {p \in Processes : proc[p] = "group"}
LeaderEnded == proc[Leader] = "gone"

Holds(r) == \/ r = "shutdown" /\ shutdown
            \/ r = "cancelled" /\ cancelled
            \/ r = "timedOut" /\ now >= Limit
Due == {r \in Reasons : Holds(r)}

Init ==
    /\ use \in {"probe", "run"}
    /\ now = 0
    /\ shutdown = FALSE /\ cancelled = FALSE
    /\ connected = TRUE /\ streamsClosed = FALSE
    /\ proc = [p \in Processes |-> "unborn"]
    /\ writers = {} /\ killed = {}
    /\ pc = "spawn"
    /\ status = "none" /\ termination = "none" /\ killAt = 0
    /\ foreground = "broker"
    /\ result = "none"
    /\ startedUnder = {} /\ endedUnder = {}

-----------------------------------------------------------------------------
(* The world around the runner.                                            *)

Outside == UNCHANGED <<use, pc, loop, foreground, result, startedUnder>>

Tick ==
    /\ \/ now < MaxTime
       \/ pc # "done" /\ (now < Limit \/ now < killAt)
    /\ now' = now + 1
    /\ UNCHANGED <<flags, world>> /\ Outside

RequestShutdown ==
    /\ ~shutdown
    /\ shutdown' = TRUE
    /\ UNCHANGED <<now, cancelled, connected, streamsClosed, world>> /\ Outside

\* The client sends Cancel on a signal of its own.
CancelBySignal ==
    /\ connected /\ ~cancelled
    /\ cancelled' = TRUE
    /\ UNCHANGED <<now, shutdown, connected, streamsClosed, world>> /\ Outside

\* The client is gone.  A probe looks at the streams of its own control.
Disconnect ==
    /\ connected
    /\ connected' = FALSE /\ cancelled' = TRUE
    /\ IF use = "run"
       THEN streamsClosed' = TRUE /\ writers' = {}
       ELSE UNCHANGED <<streamsClosed, writers>>
    /\ UNCHANGED <<now, shutdown, proc, killed, endedUnder>> /\ Outside

\* Both output pipes reached their end: the drain threads of a probe, the
\* copying client of a run say so.
StreamsEnd ==
    /\ proc[Leader] # "unborn"
    /\ writers = {} /\ ~streamsClosed
    /\ use = "run" => connected
    /\ streamsClosed' = TRUE
    /\ UNCHANGED <<now, shutdown, cancelled, connected, world>> /\ Outside

\* The client of a run cannot write its own output: it closes the pipes.
CopyFails ==
    /\ use = "run" /\ connected /\ ~streamsClosed
    /\ proc[Leader] # "unborn"
    /\ streamsClosed' = TRUE /\ writers' = {}
    /\ UNCHANGED <<now, shutdown, cancelled, connected, proc, killed, endedUnder>>
    /\ Outside

\* A process that runs: the child is suspended until SIGCONT.
CanAct(p) ==
    /\ proc[p] \in {"group", "away"} /\ p \notin killed
    /\ p = Leader => pc \notin {"foreground", "continue"}

Fork(p, d) ==
    /\ CanAct(p) /\ proc[d] = "unborn"
    /\ proc' = [proc EXCEPT ![d] = proc[p]]
    /\ writers' = IF p \in writers THEN writers \cup {d} ELSE writers
    /\ UNCHANGED <<now, flags, killed, endedUnder>> /\ Outside

LeaveGroup(d) ==
    /\ CanAct(d) /\ proc[d] = "group"
    /\ proc' = [proc EXCEPT ![d] = "away"]
    /\ UNCHANGED <<now, flags, writers, killed, endedUnder>> /\ Outside

CloseOutput(p) ==
    /\ CanAct(p) /\ p \in writers
    /\ writers' = writers \ {p}
    /\ UNCHANGED <<now, flags, proc, killed, endedUnder>> /\ Outside

\* By itself, by a signal it obeys, or by SIGKILL.
Exit(p) ==
    /\ CanAct(p) \/ (p \in killed /\ proc[p] # "gone")
    /\ proc' = [proc EXCEPT ![p] = "gone"]
    /\ writers' = writers \ {p}
    /\ endedUnder' = IF p = Leader THEN Due ELSE endedUnder
    /\ UNCHANGED <<now, flags, killed>> /\ Outside

-----------------------------------------------------------------------------
(* The runner: start of the child.                                         *)

Inside == UNCHANGED <<use, now, flags>>
Go(place) == pc' = place /\ UNCHANGED <<foreground, result, startedUnder>>

Spawn ==
    /\ pc = "spawn"
    /\ \/ /\ pc' = "foreground"
          /\ proc' = [proc EXCEPT ![Leader] = "group"]
          /\ writers' = {Leader}
          /\ startedUnder' = Due
          /\ UNCHANGED result
       \/ /\ pc' = "done" /\ result' = "error"
          /\ UNCHANGED <<proc, writers, startedUnder>>
    /\ UNCHANGED <<loop, killed, endedUnder, foreground>> /\ Inside

Foreground ==
    /\ pc = "foreground"
    /\ \/ pc' = "continue" /\ foreground' = "child"
       \/ pc' = "abort" /\ UNCHANGED foreground
    /\ UNCHANGED <<loop, world, result, startedUnder>> /\ Inside

Continue ==
    /\ pc = "continue"
    /\ Go("reap") \/ Go("abort")
    /\ UNCHANGED <<loop, world>> /\ Inside

-----------------------------------------------------------------------------
(* The runner: wait_inner.                                                 *)

\* Mutant: waitpid without WNOHANG.
ReapBlocking ==
    /\ pc = "reap" /\ (status # "none" \/ LeaderEnded)
    /\ status' \in IF status = "none" THEN Natural ELSE {status}
    /\ Go(IF termination = "none" THEN "shutdown" ELSE "escalate")
    /\ UNCHANGED <<termination, killAt, world>> /\ Inside

Reap ==
    /\ pc = "reap"
    /\ \/ /\ IF status = "none" /\ LeaderEnded
             THEN status' \in Natural
             ELSE UNCHANGED status
          /\ Go(IF termination = "none" THEN "shutdown" ELSE "escalate")
       \/ /\ status = "none"              \* waitpid fails
          /\ Go("abort") /\ UNCHANGED status
    /\ UNCHANGED <<termination, killAt, world>> /\ Inside

\* A look at one reason, and the next place if it does not hold.
Look(place, r, next) ==
    /\ pc = place
    /\ IF Holds(r)
       THEN termination' = r /\ Go("terminate")
       ELSE UNCHANGED termination /\ Go(next)
    /\ UNCHANGED <<status, killAt, world>> /\ Inside

\* Mutant: the request's control is looked at before the broker's flag.
LookAtControlFirst == Look("shutdown", "cancelled", "cancelled")

LookAtShutdown == Look("shutdown", "shutdown", "cancelled")
LookAtControl == Look("cancelled", "cancelled", "deadline")
LookAtDeadline == Look("deadline", "timedOut", "streams")

\* SIGTERM, which a process may ignore.
Terminate ==
    /\ pc = "terminate"
    /\ \/ killAt' = now + Grace /\ Go("streams")
       \/ UNCHANGED killAt /\ Go("abort")
    /\ UNCHANGED <<status, termination, world>> /\ Inside

\* Mutant: only SIGTERM is ever sent.
EscalateNever ==
    /\ pc = "escalate"
    /\ Go("streams")
    /\ UNCHANGED <<loop, world>> /\ Inside

\* SIGKILL, once, when the grace is over.
Escalate ==
    /\ pc = "escalate"
    /\ \/ /\ killAt # 0 /\ now >= killAt
          /\ \/ /\ killed' = killed \cup Members
                /\ killAt' = 0 /\ Go("streams")
             \/ UNCHANGED <<killed, killAt>> /\ Go("abort")
       \/ /\ killAt = 0 \/ now < killAt
          /\ UNCHANGED <<killed, killAt>> /\ Go("streams")
    /\ UNCHANGED <<status, termination, proc, writers, endedUnder>> /\ Inside

\* Mutant: the terminal is left with the group that was terminated.
ReturnTerminated(r) ==
    /\ pc' = IF termination = "none" THEN "restore" ELSE "done"
    /\ result' = r
    /\ UNCHANGED <<foreground, startedUnder>>

Return(r) ==
    /\ pc' = "restore" /\ result' = r
    /\ UNCHANGED <<foreground, startedUnder>>

\* Mutant: the child is reaped once more behind the looks at the reasons.
StreamsReap ==
    /\ pc = "streams"
    /\ status' \in IF status = "none" /\ LeaderEnded THEN Natural ELSE {status}
    /\ IF status' # "none" /\ (streamsClosed \/ shutdown)
       THEN IF termination = "none" THEN Return(status') ELSE Go("group")
       ELSE Go("reap")
    /\ UNCHANGED <<termination, killAt, world>> /\ Inside

Streams ==
    /\ pc = "streams"
    /\ IF status # "none" /\ (streamsClosed \/ shutdown)
       THEN IF termination = "none" THEN Return(status) ELSE Go("group")
       ELSE Go("reap")
    /\ UNCHANGED <<loop, world>> /\ Inside

\* Mutant: the group is not asked for.
GroupUnchecked ==
    /\ pc = "group"
    /\ Return(termination)
    /\ UNCHANGED <<loop, world>> /\ Inside

\* process_group_exists, which may fail: only descendants are left, the child is
\* reaped.
Group ==
    /\ pc = "group"
    /\ \/ Members = {} /\ Return(termination)
       \/ Members # {} /\ Go("reap")
       \/ Go("abort")
    /\ UNCHANGED <<loop, world>> /\ Inside

-----------------------------------------------------------------------------
(* The runner: the ways out.                                               *)

\* After an error: SIGKILL to the group, then a waitpid that blocks until the
\* child is reaped, or fails as it was reaped before.
Abort ==
    /\ pc = "abort"
    /\ killed' = killed \cup Members
    /\ Go("await")
    /\ UNCHANGED <<loop, proc, writers, endedUnder>> /\ Inside

Await ==
    /\ pc = "await" /\ LeaderEnded
    /\ result' = "error"
    /\ pc' = IF foreground = "child" THEN "restore" ELSE "done"
    /\ UNCHANGED <<loop, world, foreground, startedUnder>> /\ Inside

Restore ==
    /\ pc = "restore"
    /\ pc' = "done"
    /\ \/ foreground' = "broker" /\ UNCHANGED result
       \/ result' = "error" /\ UNCHANGED foreground
    /\ UNCHANGED <<loop, world, startedUnder>> /\ Inside

-----------------------------------------------------------------------------
Step == \/ Spawn \/ Foreground \/ Continue
        \/ Reap \/ LookAtShutdown \/ LookAtControl \/ LookAtDeadline
        \/ Terminate \/ Escalate \/ Streams \/ Group
        \/ Abort \/ Await \/ Restore

Flags == RequestShutdown \/ CancelBySignal \/ Disconnect \/ StreamsEnd \/ CopyFails

\* op itself stays in the group that was made for it.
Family == \/ \E p \in Processes : CloseOutput(p) \/ Exit(p)
          \/ \E d \in Descendants : LeaveGroup(d)
          \/ \E p \in Processes, d \in Descendants : Fork(p, d)

Next == Tick \/ Flags \/ Family \/ Step

Spec == Init /\ [][Next]_vars

\* The runner's thread and the drain threads run, the clock runs, and SIGKILL
\* kills.  Nothing is assumed of the client, of SIGTERM, or of processes that
\* were not killed.
Fairness ==
    /\ WF_vars(Step)
    /\ WF_vars(Tick)
    /\ WF_vars(use = "probe" /\ StreamsEnd)
    /\ \A p \in Processes : WF_vars(p \in killed /\ Exit(p))

FairSpec == Spec /\ Fairness

-----------------------------------------------------------------------------
(* Properties.                                                             *)

TypeOK ==
    /\ use \in {"probe", "run"}
    /\ now \in Nat
    /\ shutdown \in BOOLEAN /\ cancelled \in BOOLEAN
    /\ connected \in BOOLEAN /\ streamsClosed \in BOOLEAN
    /\ proc \in [Processes -> {"unborn", "group", "away", "gone"}]
    /\ writers \in SUBSET Processes /\ killed \in SUBSET Processes
    /\ pc \in {"spawn", "foreground", "continue", "reap", "shutdown",
               "cancelled", "deadline", "terminate", "escalate", "streams",
               "group", "abort", "await", "restore", "done"}
    /\ status \in Natural \cup {"none"}
    /\ termination \in Reasons \cup {"none"}
    /\ killAt \in Nat
    /\ foreground \in {"broker", "child"}
    /\ result \in Natural \cup Reasons \cup {"none", "error"}
    /\ startedUnder \in SUBSET Reasons
    /\ endedUnder \in SUBSET Reasons

\* When a terminated run returns, nothing of its group is left.  What the group
\* of a run leaves that was terminated, or whose child was not reaped by the loop,
\* was sent SIGKILL, whichever call failed.  The child never outlives its run.
GroupEnds ==
    /\ result \in Reasons => Members = {}
    /\ pc = "done" /\ (termination # "none" \/ status = "none") => Members \subseteq killed
    /\ pc = "done" => proc[Leader] \in {"unborn", "gone"}

\* A child that is reported as having ended by itself did so while there was no
\* reason to terminate it: no shutdown, no cancellation, and in time.  A child
\* that is started under a reason never gets there: this is what the executor's
\* at most one late child rests on.
EndedUnasked == result \in Natural => endedUnder = {}

\* An exit is reported when the output has ended, unless the broker is
\* shutting down.
ExitAfterOutput == result \in Natural /\ ~shutdown => writers = {}

\* A natural exit is both: the end of a child that nobody had a reason to
\* terminate, and of its output.
NaturalExitIsTrue == EndedUnasked /\ ExitAfterOutput

\* The terminal is the broker's again when the run has a result.
ForegroundReturned == pc = "done" /\ result # "error" => foreground = "broker"

\* What SPEC.md says: a natural exit is reported only after the process is
\* reaped and both output pipes close.
NaturalExitAfterStreams == result \in Natural => writers = {}

\* Shutdown ends every run, whatever the child, its descendants and the client
\* do.  The flag stays, as termination and use do below: each leads to what is said.
ShutdownEndsRun == []<>(shutdown => pc = "done")

\* A run that is being terminated can wait forever for one thing only: an
\* output pipe that a process outside of the group, or the client, keeps open.
OnlyOutputDelays ==
    []<>(termination # "none" => pc = "done" \/ (Members = {} /\ ~streamsClosed))

\* What SPEC.md says: a check has a limit.
ProbeEnds == []<>(use = "probe" => pc = "done")
=============================================================================
