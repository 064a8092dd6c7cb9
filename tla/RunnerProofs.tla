------------------------------ MODULE RunnerProofs ------------------------------
(***************************************************************************)
(* Proofs of the safety properties of Runner, for every family of          *)
(* processes, every limit and every grace.                                 *)
(***************************************************************************)
EXTENDS RunnerRefinement, TLAPS

\* Places: what holds wherever the runner stands.  The child is not there
\* before the spawn; a status was reaped from a child that ended; a loop that
\* escalates has a reason; whoever waits after an error has killed the group.
Places ==
    /\ pc = "spawn" => proc[Leader] = "unborn" /\ termination = "none"
    /\ pc \notin {"restore", "done"} => result = "none"
    /\ status # "none" => proc[Leader] = "gone"
    /\ pc \in {"shutdown", "cancelled", "deadline"} => termination = "none"
    /\ pc \in {"terminate", "escalate", "group"} => termination # "none"
    /\ pc = "group" => status # "none"
    /\ pc = "await" => Members \subseteq killed
    /\ pc \in {"restore", "done"} => /\ result # "none"
                                     /\ proc[Leader] \in {"unborn", "gone"}
                                     /\ termination # "none" \/ status = "none"
                                          => Members \subseteq killed
    /\ result \in Natural => proc[Leader] = "gone" /\ termination = "none"
    /\ result \in Reasons => Members = {} /\ result = termination

\* Reasons of the start stay reasons, and so does the latched one; a poll that
\* has passed a look at a reason has not missed it.
Looked ==
    /\ \A r \in startedUnder : Holds(r)
    /\ termination # "none" => Holds(termination)
    /\ pc \in {"cancelled", "deadline"} => "shutdown" \notin startedUnder
    /\ pc = "deadline" => "cancelled" \notin startedUnder
    /\ pc = "streams" /\ termination = "none" => startedUnder = {}

\* The same of the reasons that held when the child ended, for a poll that has
\* its status: the looks follow the waitpid.
Ended ==
    /\ \A r \in endedUnder : Holds(r)
    /\ status # "none" =>
          /\ pc \in {"cancelled", "deadline"} => "shutdown" \notin endedUnder
          /\ pc = "deadline" => "cancelled" \notin endedUnder
          /\ pc = "streams" /\ termination = "none" => endedUnder = {}
    /\ EndedUnasked

Output ==
    /\ pc = "spawn" => writers = {} /\ (streamsClosed => cancelled)
    /\ streamsClosed /\ pc # "spawn" => writers = {} \/ startedUnder # {}
    /\ ExitAfterOutput

IInv == Places /\ Looked /\ Ended /\ Output /\ ForegroundReturned

-----------------------------------------------------------------------------
(* Types.                                                                  *)

LEMMA DueType == Due \in SUBSET Reasons
BY DEF Due

LEMMA TypeInit == Init => TypeOK
<1> SUFFICES ASSUME Init PROVE TypeOK
  OBVIOUS
<1>1. proc \in [Processes -> {"unborn", "group", "away", "gone"}]
  BY DEF Init
<1>2. startedUnder \in SUBSET Reasons /\ writers \in SUBSET Processes
      /\ killed \in SUBSET Processes
  BY DEF Init
<1> QED
  BY <1>1, <1>2 DEF Init, TypeOK

LEMMA TypeAround ==
    TypeOK /\ (Tick \/ Flags \/ Family) => TypeOK'
<1> SUFFICES ASSUME TypeOK, Tick \/ Flags \/ Family PROVE TypeOK'
  OBVIOUS
<1> USE DEF TypeOK, Outside, flags, world, loop
<1>1. CASE Tick
  BY <1>1 DEF Tick
<1>2. CASE Flags
  BY <1>2 DEF Flags, RequestShutdown, CancelBySignal, Disconnect, StreamsEnd,
              CopyFails
<1>3. ASSUME NEW p \in Processes, CloseOutput(p) \/ Exit(p) PROVE TypeOK'
  <2>1. endedUnder' \in SUBSET Reasons
    BY <1>3, DueType DEF CloseOutput, Exit
  <2> QED
    BY <1>3, <2>1 DEF CloseOutput, Exit
<1>4. ASSUME NEW d \in Descendants, LeaveGroup(d) PROVE TypeOK'
  <2>1. proc' \in [Processes -> {"unborn", "group", "away", "gone"}]
    BY <1>4 DEF LeaveGroup
  <2> QED
    BY <1>4, <2>1 DEF LeaveGroup
<1>5. ASSUME NEW p \in Processes, NEW d \in Descendants, Fork(p, d) PROVE TypeOK'
  BY <1>5 DEF Fork, Processes
<1> QED
  BY <1>1, <1>2, <1>3, <1>4, <1>5 DEF Family

LEMMA TypeStep == TypeOK /\ Step => TypeOK'
<1> SUFFICES ASSUME TypeOK, Step PROVE TypeOK'
  OBVIOUS
<1> USE DEF TypeOK, Inside, Go, Return, flags, world, loop
<1>1. CASE Spawn
  <2>1. startedUnder' \in SUBSET Reasons
    BY <1>1, DueType DEF Spawn
  <2>2. writers' \in SUBSET Processes
    BY <1>1 DEF Spawn, Processes
  <2>3. proc' \in [Processes -> {"unborn", "group", "away", "gone"}]
    BY <1>1 DEF Spawn
  <2> QED
    BY <1>1, <2>1, <2>2, <2>3 DEF Spawn
<1>2. CASE Foreground
  BY <1>2 DEF Foreground
<1>3. CASE Continue
  BY <1>3 DEF Continue
<1>4. CASE Reap
  BY <1>4 DEF Reap
<1>5. CASE LookAtShutdown \/ LookAtControl \/ LookAtDeadline
  <2>1. /\ termination' \in Reasons \cup {"none"}
        /\ pc' \in {"terminate", "cancelled", "deadline", "streams"}
    BY <1>5 DEF LookAtShutdown, LookAtControl, LookAtDeadline, Look, Reasons
  <2>2. UNCHANGED <<use, now, flags, status, killAt, world, foreground,
                    result, startedUnder>>
    BY <1>5 DEF LookAtShutdown, LookAtControl, LookAtDeadline, Look
  <2> QED
    BY <2>1, <2>2
<1>6. CASE Terminate
  BY <1>6, RunnerAssumption DEF Terminate
<1>7. CASE Escalate
  BY <1>7 DEF Escalate, Members
<1>8. CASE Streams
  BY <1>8 DEF Streams
<1>9. CASE Group
  <2>1. /\ pc' \in {"restore", "reap", "abort"}
        /\ UNCHANGED <<use, now, flags, loop, world, foreground, startedUnder>>
        /\ result' \in {termination, result}
    BY <1>9 DEF Group
  <2> QED
    BY <2>1
<1>10. CASE Abort
  BY <1>10 DEF Abort, Members
<1>11. CASE Await
  BY <1>11 DEF Await
<1>12. CASE Restore
  BY <1>12 DEF Restore
<1> QED
  BY <1>1, <1>2, <1>3, <1>4, <1>5, <1>6, <1>7, <1>8, <1>9, <1>10, <1>11, <1>12
     DEF Step

LEMMA TypeNext == TypeOK /\ [Next]_vars => TypeOK'
<1>1. TypeOK /\ UNCHANGED vars => TypeOK'
  BY DEF vars, TypeOK, flags, world, loop
<1> QED
  BY <1>1, TypeAround, TypeStep DEF Next

\* Every variable of the run keeps its type (Runner, process.rs).
THEOREM RunnerTypes == Spec => []TypeOK
<1> QED
  BY TypeInit, TypeNext, PTL DEF Spec

-----------------------------------------------------------------------------
(* The group and the child.                                                *)

\* What the processes may do never adds to a group that is empty, or that was
\* killed as a whole, and never brings the child back.
LEMMA FamilyKeepsGroup ==
    ASSUME TypeOK, Family, proc[Leader] # "unborn"
    PROVE  /\ Members \subseteq killed => Members' \subseteq killed
           /\ Members = {} => Members' = {}
           /\ proc[Leader] = "gone" => proc'[Leader] = "gone"
           /\ killed' = killed
<1> USE DEF Members, TypeOK
<1>1. ASSUME NEW p \in Processes, CloseOutput(p) \/ Exit(p)
      PROVE  /\ Members' \subseteq Members
             /\ proc[Leader] = "gone" => proc'[Leader] = "gone"
             /\ killed' = killed
  BY <1>1 DEF CloseOutput, Exit, Processes
<1>2. ASSUME NEW d \in Descendants, LeaveGroup(d)
      PROVE  /\ Members' \subseteq Members
             /\ proc[Leader] = "gone" => proc'[Leader] = "gone"
             /\ killed' = killed
  BY <1>2, RunnerAssumption DEF LeaveGroup, Processes
<1>3. ASSUME NEW p \in Processes, NEW d \in Descendants, Fork(p, d)
      PROVE  /\ Members' \subseteq Members \cup {d}
             /\ proc[p] = "away" => Members' = Members
             /\ proc[p] = "away" \/ (p \in Members /\ p \notin killed)
             /\ proc[Leader] = "gone" => proc'[Leader] = "gone"
             /\ killed' = killed
  BY <1>3, RunnerAssumption DEF Fork, CanAct, Processes
<1> QED
  BY <1>1, <1>2, <1>3 DEF Family

\* Before the spawn no process is there to do anything.
Unborn ==
    proc[Leader] = "unborn" =>
        \A p \in Processes : proc[p] = "unborn" /\ p \notin killed

LEMMA PlacesInit == Init => Unborn /\ Places
BY DEF Init, Unborn, Places, Natural, Reasons, Processes

LEMMA FamilyAfterSpawn ==
    ASSUME TypeOK, Unborn, Family PROVE proc[Leader] # "unborn"
BY DEF Unborn, Family, Processes, CloseOutput, Exit, LeaveGroup, Fork, CanAct

LEMMA LeaderStaysBorn ==
    ASSUME TypeOK, Family, proc[Leader] # "unborn" PROVE proc'[Leader] # "unborn"
BY RunnerAssumption DEF TypeOK, Family, Processes, CloseOutput, Exit, LeaveGroup, Fork

LEMMA PlacesAround ==
    ASSUME TypeOK, Unborn, Places, Tick \/ Flags \/ Family
    PROVE  Unborn' /\ Places'
<1> USE DEF Outside, loop, flags, world
<1>1. CASE Tick \/ Flags
  <2>1. UNCHANGED <<proc, killed, pc, status, termination, result>>
    BY <1>1 DEF Tick, Flags, RequestShutdown, CancelBySignal, Disconnect,
                StreamsEnd, CopyFails
  <2> QED
    BY <2>1 DEF Unborn, Places, Members
<1>2. CASE Family
  <2>1. UNCHANGED <<pc, status, termination, result>>
    BY <1>2 DEF Family, CloseOutput, Exit, LeaveGroup, Fork
  <2>2. proc[Leader] # "unborn" /\ proc'[Leader] # "unborn"
    BY <1>2, FamilyAfterSpawn, LeaderStaysBorn
  <2> QED
    BY <1>2, <2>1, <2>2, FamilyKeepsGroup DEF Unborn, Places
<1> QED
  BY <1>1, <1>2

LEMMA UnbornStep == ASSUME TypeOK, Unborn, Places, Step PROVE Unborn'
<1>1. CASE Spawn
  BY <1>1 DEF Spawn, Unborn, Places, TypeOK, Processes
<1>2. CASE ~Spawn
  <2>1. proc' = proc /\ (killed' = killed \/ killed' = killed \cup Members)
    BY <1>2 DEF Step, world, Foreground, Continue, Reap, LookAtShutdown,
                LookAtControl, LookAtDeadline, Look, Terminate, Escalate,
                Streams, Group, Abort, Await, Restore
  <2> QED
    BY <2>1 DEF Unborn, Members
<1> QED
  BY <1>1, <1>2

LEMMA PlacesStep == ASSUME TypeOK, Unborn, Places, Step PROVE Places'
<1> USE DEF Places, Inside, Go, Return, flags, world, loop, Members, Natural,
            Reasons, TypeOK
<1>1. CASE Spawn
  BY <1>1 DEF Spawn, Processes, Unborn
<1>2. CASE Foreground \/ Continue
  BY <1>2 DEF Foreground, Continue
<1>3. CASE Reap
  BY <1>3 DEF Reap, LeaderEnded
<1>4. CASE LookAtShutdown \/ LookAtControl \/ LookAtDeadline
  <2>1. CASE LookAtShutdown
    BY <2>1 DEF LookAtShutdown, Look
  <2>2. CASE LookAtControl
    BY <2>2 DEF LookAtControl, Look
  <2>3. CASE LookAtDeadline
    BY <2>3 DEF LookAtDeadline, Look
  <2> QED
    BY <1>4, <2>1, <2>2, <2>3
<1>5. CASE Terminate
  BY <1>5 DEF Terminate
<1>6. CASE Escalate
  BY <1>6 DEF Escalate
<1>7. CASE Streams
  BY <1>7 DEF Streams
<1>8. CASE Group
  BY <1>8 DEF Group
<1>9. CASE Abort
  BY <1>9 DEF Abort
<1>10. CASE Await
  BY <1>10 DEF Await, LeaderEnded
<1>11. CASE Restore
  BY <1>11 DEF Restore
<1> QED
  BY <1>1, <1>2, <1>3, <1>4, <1>5, <1>6, <1>7, <1>8, <1>9, <1>10, <1>11 DEF Step

LEMMA PlacesNext ==
    TypeOK /\ Unborn /\ Places /\ [Next]_vars => Unborn' /\ Places'
<1>1. Unborn /\ Places /\ UNCHANGED vars => Unborn' /\ Places'
  BY DEF vars, Unborn, Places, Members, flags, world, loop
<1> QED
  BY <1>1, PlacesAround, UnbornStep, PlacesStep DEF Next

\* When a terminated run has its result, its process group is empty; what an
\* error leaves of the group, before the child is reaped or after a termination,
\* was sent SIGKILL; op never outlives its run (wait_inner and the error paths of
\* run and probe).
THEOREM GroupsEnd == Spec => []GroupEnds
<1>1. Places => GroupEnds
  BY DEF Places, GroupEnds
<1> QED
  BY <1>1, PlacesInit, PlacesNext, RunnerTypes, PTL DEF Spec

-----------------------------------------------------------------------------
(* The reasons that held at the start, the time of the exit, the output.   *)

LEMMA ReasonsStay ==
    ASSUME TypeOK, Tick \/ Flags \/ Family, NEW r \in Reasons, Holds(r)
    PROVE  Holds(r)'
<1>1. (shutdown => shutdown') /\ (cancelled => cancelled') /\ now' >= now
      /\ now' \in Nat
  BY DEF Tick, Flags, RequestShutdown, CancelBySignal, Disconnect, StreamsEnd,
         CopyFails, Family, CloseOutput, Exit, LeaveGroup, Fork, flags, TypeOK
<1> QED
  BY <1>1, RunnerAssumption DEF Holds, Reasons, TypeOK

\* The runner itself makes and takes no reason.
LEMMA ReasonsKept ==
    ASSUME Step
    PROVE  /\ UNCHANGED <<now, shutdown, cancelled>>
           /\ \A r \in Reasons : Holds(r)' = Holds(r)
           /\ Due' = Due
<1>1. UNCHANGED <<now, shutdown, cancelled>>
  BY DEF Step, Spawn, Foreground, Continue, Reap, LookAtShutdown,
         LookAtControl, LookAtDeadline, Look, Terminate, Escalate, Streams,
         Group, Abort, Await, Restore, Inside, flags
<1> QED
  BY <1>1 DEF Holds, Due, Reasons

LEMMA LookedAround ==
    ASSUME TypeOK, Looked, Tick \/ Flags \/ Family PROVE Looked'
<1>1. UNCHANGED <<pc, termination, startedUnder>>
  BY DEF Tick, Flags, RequestShutdown, CancelBySignal, Disconnect, StreamsEnd,
         CopyFails, Family, CloseOutput, Exit, LeaveGroup, Fork, Outside, loop
<1> QED
  BY <1>1, ReasonsStay DEF Looked, TypeOK

LEMMA LookedStep ==
    ASSUME TypeOK, Places, Looked, Step PROVE Looked'
<1> USE DEF Looked, loop
<1>1. CASE Spawn
  <2>1. \A r \in startedUnder' : Holds(r)'
    <3>1. startedUnder' \in {Due, startedUnder}
      BY <1>1 DEF Spawn
    <3> QED
      BY <3>1, ReasonsKept DEF Due, TypeOK
  <2>2. pc' \in {"foreground", "done"} /\ termination' = "none"
    BY <1>1 DEF Spawn, Places
  <2> QED
    BY <2>1, <2>2
<1>2. CASE ~Spawn
  <2>1. startedUnder' = startedUnder /\ \A r \in startedUnder' : Holds(r)'
    BY <1>2, ReasonsKept DEF Step, Foreground, Continue, Reap, LookAtShutdown,
       LookAtControl, LookAtDeadline, Look, Terminate, Escalate, Streams,
       Group, Abort, Await, Restore, Go, Return, TypeOK
  <2>2. (termination # "none" => Holds(termination))'
    <3>1. \/ termination' = termination
          \/ termination' \in Reasons /\ Holds(termination')
      BY <1>2 DEF Step, Foreground, Continue, Reap, LookAtShutdown,
         LookAtControl, LookAtDeadline, Look, Terminate, Escalate, Streams,
         Group, Abort, Await, Restore, Go, Return, Reasons
    <3>2. termination' # "none" => Holds(termination')
      BY <3>1
    <3> QED
      BY <3>2, ReasonsKept DEF Holds
  <2>3. CASE \/ Foreground \/ Continue \/ Reap \/ Terminate \/ Escalate
             \/ Abort \/ Group \/ Await \/ Restore
    BY <2>1, <2>2, <2>3 DEF Foreground, Continue, Reap, Terminate, Escalate,
       Abort, Group, Await, Restore, Go, Return, Places
  <2>4. CASE LookAtShutdown
    BY <2>1, <2>2, <2>4 DEF LookAtShutdown, Look, Go, Holds
  <2>5. CASE LookAtControl
    BY <2>1, <2>2, <2>5 DEF LookAtControl, Look, Go, Holds
  <2>6. CASE LookAtDeadline
    <3>1. Holds("timedOut") \/ startedUnder = {}
      BY <2>6 DEF LookAtDeadline, Look, TypeOK, Reasons
    <3> QED
      BY <2>1, <2>2, <2>6, <3>1 DEF LookAtDeadline, Look, Go
  <2>7. CASE Streams
    BY <2>1, <2>2, <2>7 DEF Streams, Go, Return
  <2> QED
    BY <1>2, <2>3, <2>4, <2>5, <2>6, <2>7 DEF Step
<1> QED
  BY <1>1, <1>2

\* The child's end is recorded with the reasons of that moment, once.
LEMMA EndOfLeader ==
    ASSUME TypeOK, Family
    PROVE  /\ Due' = Due
           /\ proc[Leader] = "gone" => endedUnder' = endedUnder
           /\ proc[Leader] # "gone" /\ proc'[Leader] = "gone"
                => endedUnder' = Due
<1>1. Due' = Due
  BY DEF Family, CloseOutput, Exit, LeaveGroup, Fork, flags, Due, Holds
<1>2. ASSUME NEW p \in Processes, CloseOutput(p)
      PROVE  endedUnder' = endedUnder /\ proc' = proc
  BY <1>2 DEF CloseOutput
<1>3. ASSUME NEW p \in Processes, Exit(p)
      PROVE  IF p = Leader
             THEN endedUnder' = Due /\ proc[Leader] # "gone"
             ELSE endedUnder' = endedUnder /\ proc'[Leader] = proc[Leader]
  BY <1>3 DEF Exit, CanAct, TypeOK
<1>4. ASSUME NEW d \in Descendants, LeaveGroup(d)
      PROVE  endedUnder' = endedUnder /\ proc'[Leader] = proc[Leader]
  BY <1>4, RunnerAssumption DEF LeaveGroup, TypeOK
<1>5. ASSUME NEW p \in Processes, NEW d \in Descendants, Fork(p, d)
      PROVE  endedUnder' = endedUnder /\ proc'[Leader] = proc[Leader]
  BY <1>5, RunnerAssumption DEF Fork, TypeOK
<1> QED
  BY <1>1, <1>2, <1>3, <1>4, <1>5 DEF Family

LEMMA EndedAround ==
    ASSUME TypeOK, Unborn, Places, Ended, Tick \/ Flags \/ Family PROVE Ended'
<1>1. UNCHANGED <<pc, status, termination, result>>
  BY DEF Tick, Flags, RequestShutdown, CancelBySignal, Disconnect, StreamsEnd,
         CopyFails, Family, CloseOutput, Exit, LeaveGroup, Fork, Outside, loop
<1>2. \/ endedUnder' = endedUnder
      \/ endedUnder' = Due /\ proc[Leader] # "gone"
  BY DEF Tick, Flags, RequestShutdown, CancelBySignal, Disconnect, StreamsEnd,
         CopyFails, Family, CloseOutput, Exit, LeaveGroup, Fork, world, CanAct
<1>3. \A r \in endedUnder' : r \in Reasons /\ Holds(r)
  BY <1>2 DEF Ended, Due, TypeOK
<1>4. \A r \in endedUnder' : Holds(r)'
  BY <1>3, ReasonsStay
<1> QED
  BY <1>1, <1>2, <1>4 DEF Ended, EndedUnasked, Places

LEMMA EndedStep ==
    ASSUME TypeOK, Places, Ended, Step PROVE Ended'
<1> USE DEF Ended, EndedUnasked, world, loop
<1>1. endedUnder' = endedUnder
  BY DEF Step, Spawn, Foreground, Continue, Reap, LookAtShutdown,
         LookAtControl, LookAtDeadline, Look, Terminate, Escalate, Streams,
         Group, Abort, Await, Restore
<1>2. \A r \in endedUnder' : Holds(r)'
  BY <1>1, ReasonsKept DEF TypeOK
<1>3. CASE Spawn \/ Foreground \/ Continue \/ Reap \/ Abort
  BY <1>1, <1>2, <1>3 DEF Spawn, Foreground, Continue, Reap, Abort, Go,
     Places, Natural
<1>4. CASE Await \/ Restore
  BY <1>1, <1>2, <1>4 DEF Await, Restore, Natural
<1>5. CASE LookAtShutdown
  BY <1>1, <1>2, <1>5 DEF LookAtShutdown, Look, Go, Holds
<1>6. CASE LookAtControl
  BY <1>1, <1>2, <1>6 DEF LookAtControl, Look, Go, Holds
<1>7. CASE LookAtDeadline
  <2>1. Holds("timedOut") \/ status = "none" \/ endedUnder = {}
    BY <1>7 DEF LookAtDeadline, Look, TypeOK, Reasons
  <2> QED
    BY <1>1, <1>2, <1>7, <2>1 DEF LookAtDeadline, Look, Go
<1>8. CASE Terminate \/ Escalate
  BY <1>1, <1>2, <1>8 DEF Terminate, Escalate, Go, Places
<1>9. CASE Streams
  BY <1>1, <1>2, <1>9 DEF Streams, Go, Return, TypeOK
<1>10. CASE Group
  <2>1. termination \notin Natural
    BY DEF TypeOK, Natural, Reasons
  <2> QED
    BY <1>1, <1>2, <1>10, <2>1 DEF Group, Go, Return, Places
<1> QED
  BY <1>3, <1>4, <1>5, <1>6, <1>7, <1>8, <1>9, <1>10 DEF Step

LEMMA OutputAround ==
    ASSUME TypeOK, Unborn, Places, Looked, Output, Tick \/ Flags \/ Family
    PROVE  Output'
<1> USE DEF Output, ExitAfterOutput, Outside
<1>1. UNCHANGED <<pc, result, startedUnder>> /\ (shutdown => shutdown')
      /\ (cancelled => cancelled')
  BY DEF Tick, Flags, RequestShutdown, CancelBySignal, Disconnect, StreamsEnd,
         CopyFails, Family, CloseOutput, Exit, LeaveGroup, Fork, flags
<1>2. writers = {} => writers' = {}
  BY DEF Tick, Flags, RequestShutdown, CancelBySignal, Disconnect, StreamsEnd,
         CopyFails, Family, CloseOutput, Exit, LeaveGroup, Fork, world
<1>3. streamsClosed' => streamsClosed \/ (writers' = {} /\ (cancelled' \/ pc # "spawn"))
  BY DEF Tick, Flags, RequestShutdown, CancelBySignal, Disconnect, StreamsEnd,
         CopyFails, Family, CloseOutput, Exit, LeaveGroup, Fork, flags, world,
         Places
<1> QED
  BY <1>1, <1>2, <1>3, Zenon

LEMMA OutputStep ==
    ASSUME TypeOK, Places, Looked, Output, Step PROVE Output'
<1> USE DEF Output, ExitAfterOutput, Natural, Reasons, Inside, Go, Return,
            flags, world, loop, TypeOK
<1>1. CASE Spawn
  <2>1. cancelled => "cancelled" \in Due
    BY DEF Due, Holds
  <2> QED
    BY <1>1, <2>1 DEF Spawn, Places
<1>2. CASE Foreground \/ Continue \/ Reap \/ Terminate \/ Escalate \/ Abort
           \/ Await \/ Restore
  BY <1>2 DEF Foreground, Continue, Reap, Terminate, Escalate, Abort, Await,
     Restore
<1>3. CASE LookAtShutdown \/ LookAtControl \/ LookAtDeadline
  BY <1>3 DEF LookAtShutdown, LookAtControl, LookAtDeadline, Look
<1>4. CASE Streams
  BY <1>4 DEF Streams, Looked
<1>5. CASE Group
  BY <1>5 DEF Group, Places
<1> QED
  BY <1>1, <1>2, <1>3, <1>4, <1>5 DEF Step

\* The terminal is away only while a group has it, or when it could not be
\* taken back.
LEMMA ForegroundNext ==
    ASSUME TypeOK, Places, ForegroundReturned, [Next]_vars
    PROVE  ForegroundReturned'
<1> USE DEF ForegroundReturned
<1>1. CASE UNCHANGED vars
  BY <1>1 DEF vars
<1>2. CASE Tick \/ Flags \/ Family
  BY <1>2 DEF Tick, Flags, RequestShutdown, CancelBySignal, Disconnect,
     StreamsEnd, CopyFails, Family, CloseOutput, Exit, LeaveGroup, Fork, Outside
<1>3. CASE Step
  BY <1>3 DEF Step, Spawn, Foreground, Continue, Reap, LookAtShutdown,
         LookAtControl, LookAtDeadline, Look, Terminate, Escalate, Streams,
         Group, Abort, Await, Restore, Go, Return
<1> QED
  BY <1>1, <1>2, <1>3 DEF Next

-----------------------------------------------------------------------------
(* Together.                                                               *)

LEMMA IInvInit == Init => IInv
BY PlacesInit, RunnerAssumption
   DEF Init, IInv, Looked, Ended, Output, ForegroundReturned,
       EndedUnasked, ExitAfterOutput, Natural

LEMMA IInvNext ==
    TypeOK /\ Unborn /\ IInv /\ [Next]_vars => IInv'
<1> SUFFICES ASSUME TypeOK, Unborn, IInv, [Next]_vars PROVE IInv'
  OBVIOUS
<1> USE DEF IInv
<1>1. Places' /\ ForegroundReturned'
  BY PlacesNext, ForegroundNext
<1>2. CASE UNCHANGED vars
  BY <1>1, <1>2 DEF vars, Looked, Ended, Output, EndedUnasked, ExitAfterOutput, Holds, flags, world, loop
<1>3. CASE Tick \/ Flags \/ Family
  BY <1>1, <1>3, LookedAround, EndedAround, OutputAround
<1>4. CASE Step
  BY <1>1, <1>4, LookedStep, EndedStep, OutputStep
<1> QED
  BY <1>2, <1>3, <1>4 DEF Next

LEMMA IInvAlways == Spec => [](Unborn /\ IInv)
BY PlacesInit, PlacesNext, IInvInit, IInvNext, RunnerTypes, PTL DEF Spec, IInv

\* A child that is reported as having ended by itself had no reason to be
\* terminated when it was started, ended before its deadline and, outside of
\* shutdown, is reported behind the end of its output: the poll that reports it
\* looks at every reason and at the pipes after reaping it (wait_inner).
THEOREM NaturalExits == Spec => []NaturalExitIsTrue
<1>1. IInv => NaturalExitIsTrue
  BY DEF IInv, Looked, Ended, Output, NaturalExitIsTrue
<1> QED
  BY <1>1, IInvAlways, PTL

\* Every run that has a result other than an error left the terminal in the
\* broker's hands (Terminal::restore after wait_inner).
THEOREM ForegroundIsReturned == Spec => []ForegroundReturned
<1>1. IInv => ForegroundReturned
  BY DEF IInv
<1> QED
  BY <1>1, IInvAlways, PTL


-----------------------------------------------------------------------------
(* A run keeps RunContract.                                                *)

ContractStep == Run!Next \/ UNCHANGED Run!vars

LEMMA ReasonsAgree == Reasons = Run!Reasons
BY DEF Reasons, Run!Reasons

\* What moves around the runner adds reasons, and brings the child to its end.
LEMMA AroundKeeps ==
    ASSUME TypeOK, Unborn, IInv, Tick \/ Flags \/ Family
    PROVE  ContractStep
<1> USE DEF underBar, latchBar, outcomeBar, InRun
<1>1. UNCHANGED <<pc, termination, result, startedUnder>>
  BY DEF Tick, Flags, RequestShutdown, CancelBySignal, Disconnect, StreamsEnd,
         CopyFails, Family, CloseOutput, Exit, LeaveGroup, Fork, Outside, loop
<1>2. Due \subseteq Due' /\ Due' \in SUBSET Run!Reasons
  <2>1. Due' \in SUBSET Reasons
    BY DEF Due
  <2> QED
    BY <2>1, ReasonsStay, ReasonsAgree DEF Due
<1>3. UNCHANGED <<underBar, latchBar, outcomeBar>>
  BY <1>1
<1>4. CASE clearBar' = clearBar
  <2>1. CASE outcomeBar = "pending"
    BY <1>2, <1>3, <1>4, <2>1 DEF ContractStep, Run!Next, Run!ReasonComes
  <2>2. CASE outcomeBar # "pending"
    BY <1>2, <1>3, <1>4, <2>2 DEF ContractStep, Run!Next, Run!Settle
  <2> QED
    BY <2>1, <2>2
<1>5. CASE clearBar' # clearBar
  <2>1. Family /\ (proc[Leader] # "gone") /\ proc'[Leader] = "gone"
    <3>1. CASE Tick \/ Flags
      BY <1>1, <1>5, <3>1 DEF clearBar, LeaderEnded, Tick, Flags,
         RequestShutdown, CancelBySignal, Disconnect, StreamsEnd, CopyFails,
         world
    <3>2. CASE Family /\ proc[Leader] = "gone"
      BY <1>1, <1>5, <3>2, FamilyAfterSpawn, FamilyKeepsGroup, EndOfLeader
         DEF clearBar, LeaderEnded
    <3>3. CASE Family /\ proc[Leader] # "gone"
      BY <1>1, <1>5, <3>3 DEF clearBar, LeaderEnded
    <3> QED
      BY <3>1, <3>2, <3>3
  <2>2. endedUnder' = Due /\ Due' = Due
    BY <2>1, EndOfLeader
  <2>3. ~clearBar /\ clearBar' /\ Due = {} /\ InRun
    BY <1>1, <1>5, <2>1, <2>2 DEF clearBar, LeaderEnded
  <2>4. Run!Exit
    BY <1>3, <2>2, <2>3 DEF Run!Exit, clearBar
  <2> QED
    BY <2>4 DEF ContractStep, Run!Next, Run!Child
<1> QED
  BY <1>4, <1>5

LEMMA StepKeeps ==
    ASSUME TypeOK, Unborn, IInv, Step
    PROVE  ContractStep
<1> USE DEF underBar, clearBar, latchBar, outcomeBar, InRun
<1>1. Due' = Due /\ Due \in SUBSET Run!Reasons
  BY ReasonsKept, DueType, ReasonsAgree
<1>2. CASE Spawn
  <2>1. termination = "none" /\ termination' = "none" /\ pc = "spawn"
    BY <1>2 DEF Spawn, IInv, Places, loop
  <2>2. CASE pc' = "foreground"
    <3>1. startedUnder' = Due /\ ~LeaderEnded'
      BY <1>2, <2>2 DEF Spawn, LeaderEnded, TypeOK, Processes
    <3>2. Run!Start
      BY <1>1, <2>1, <2>2, <3>1 DEF Run!Start, IInv, Places
    <3> QED
      BY <3>2 DEF ContractStep, Run!Next
  <2>3. CASE pc' = "done"
    <3>1. Run!Refuse
      BY <1>1, <1>2, <2>1, <2>3 DEF Spawn, Run!Refuse
    <3> QED
      BY <3>1 DEF ContractStep, Run!Next
  <2> QED
    BY <1>2, <2>2, <2>3 DEF Spawn
<1>3. ASSUME NEW r \in Reasons, Holds(r), termination = "none",
             Run!Before(r) \cap startedUnder = {},
             termination' = r, InRun, InRun', UNCHANGED <<startedUnder, world>>
      PROVE  ContractStep
  <2>1. r \in Due /\ r # "none"
    BY <1>3 DEF Due, Reasons
  <2>2. Run!Latch(r)
    BY <1>1, <1>3, <2>1 DEF Run!Latch
  <2> QED
    BY <1>3, <2>2, ReasonsAgree DEF ContractStep, Run!Next, Run!Child
<1>4. ASSUME UNCHANGED <<termination, startedUnder, endedUnder, proc>>,
             InRun, InRun'
      PROVE  ContractStep
  <2>1. UNCHANGED Run!vars
    BY <1>1, <1>4 DEF Run!vars, LeaderEnded
  <2> QED
    BY <2>1 DEF ContractStep
<1>5. ASSUME NEW o \in {"error", result}, pc' = "done", result' = o, InRun,
             o = "error" \/ pc = "restore"
      PROVE  ContractStep
  <2>1. o \in Run!Results
    <3>1. CASE o = "error"
      BY <3>1 DEF Run!Results
    <3>2. CASE o = result /\ result \in Natural
      BY <1>5, <3>2 DEF Run!Results, IInv, Places, Ended, EndedUnasked,
         LeaderEnded
    <3>3. CASE o = result /\ result \in Reasons
      BY <1>5, <3>3 DEF Run!Results, IInv, Places, Reasons
    <3>4. result # "none" \/ o = "error"
      BY <1>5 DEF IInv, Places
    <3> QED
      BY <1>5, <3>1, <3>2, <3>3, <3>4 DEF TypeOK
  <2>2. Run!Return
    BY <1>1, <1>5, <2>1 DEF Run!Return, Run!Cleared
  <2> QED
    BY <2>2 DEF ContractStep, Run!Next, Run!Child
<1>6. CASE LookAtShutdown
  BY <1>3, <1>4, <1>6 DEF LookAtShutdown, Look, Go, world, Reasons,
     Run!Before, IInv, Places
<1>7. CASE LookAtControl
  BY <1>3, <1>4, <1>7 DEF LookAtControl, Look, Go, world, Reasons,
     Run!Before, IInv, Places, Looked
<1>8. CASE LookAtDeadline
  BY <1>3, <1>4, <1>8 DEF LookAtDeadline, Look, Go, world, Reasons,
     Run!Before, IInv, Places, Looked
<1>9. CASE \/ Foreground \/ Continue \/ Reap \/ Terminate \/ Escalate
           \/ Streams \/ Group \/ Abort
  BY <1>4, <1>9 DEF Foreground, Continue, Reap, Terminate, Escalate, Streams,
     Group, Abort, Go, Return, world, loop
<1>10. CASE Await
  BY <1>4, <1>5, <1>10 DEF Await, world, loop
<1>11. CASE Restore
  BY <1>5, <1>11 DEF Restore
<1> QED
  BY <1>2, <1>6, <1>7, <1>8, <1>9, <1>10, <1>11 DEF Step

\* Every run keeps the contract on which the executor's theorems rest: between
\* its looks everything around it may move, and still what it returns is a
\* reason that was due or an end that came when none was (wait_inner).
THEOREM RunsKeepContract == Spec => RunKeepsContract
<1>1. Init => Run!Init
  BY DEF Init, Run!Init, Run!Cleared, Run!Reasons, Due, Reasons, underBar,
         clearBar, latchBar, outcomeBar, InRun
<1>2. ASSUME UNCHANGED vars PROVE UNCHANGED Run!vars
  BY <1>2 DEF vars, Run!vars, Due, Holds, underBar, clearBar, latchBar,
              outcomeBar, InRun, LeaderEnded, flags, world, loop
<1>3. TypeOK /\ Unborn /\ IInv /\ [Next]_vars => [Run!Next]_Run!vars
  BY <1>2, AroundKeeps, StepKeeps DEF Next, ContractStep
<1> QED
  BY <1>1, <1>3, IInvAlways, RunnerTypes, PTL
     DEF Spec, RunKeepsContract, Run!Spec

-----------------------------------------------------------------------------
(* What lasts.                                                             *)

LEMMA Lasting ==
    ASSUME [Next]_vars
    PROVE  /\ shutdown => shutdown'
           /\ termination # "none" => termination' # "none"
           /\ use' = use
<1>1. CASE UNCHANGED vars
  BY <1>1 DEF vars, flags, loop
<1>2. CASE Tick \/ Flags \/ Family
  BY <1>2 DEF Tick, Flags, RequestShutdown, CancelBySignal, Disconnect, StreamsEnd,
     CopyFails, Family, Fork, LeaveGroup, CloseOutput, Exit, Outside, flags, loop
<1>3. CASE Step
  BY <1>3 DEF Step, Spawn, Foreground, Continue, Reap, LookAtShutdown, LookAtControl,
     LookAtDeadline, Look, Terminate, Escalate, Streams, Group, Abort, Await, Restore,
     Inside, flags, loop
<1> QED
  BY <1>1, <1>2, <1>3 DEF Next

\* Neither the flag nor a reason that was latched is taken back, and a probe stays
\* one: ShutdownEndsRun, OnlyOutputDelays and ProbeEnds say what these lead to
\* (process.rs, wait_inner).
THEOREM ReasonsLast ==
    Spec => /\ ShutdownEndsRun <=> (shutdown ~> pc = "done")
            /\ OnlyOutputDelays <=>
                  (termination # "none" ~> (pc = "done" \/ (Members = {} /\ ~streamsClosed)))
            /\ ProbeEnds <=> (use = "probe" ~> pc = "done")
<1>1. [Next]_vars => (shutdown => shutdown')
  BY Lasting
<1>2. [Next]_vars => (termination # "none" => (termination # "none")')
  BY Lasting
<1>3. [Next]_vars => (use = "probe" => (use = "probe")')
  BY Lasting
<1> QED
  BY <1>1, <1>2, <1>3, PTL DEF Spec, ShutdownEndsRun, OnlyOutputDelays, ProbeEnds
=============================================================================
