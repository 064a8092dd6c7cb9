--------------------------- MODULE BrokerActorProofs ---------------------------
(***************************************************************************)
(* Theorems about the executor thread, for every number of accounts and    *)
(* connections and every setting of the time limits.                       *)
(***************************************************************************)
EXTENDS BrokerActor, TLAPS

\* Bring the records to required what they may, they stay records.
LEMMA RecordsAreRecords ==
    ASSUME TypeOK
    PROVE  /\ Unexpired \in [Accounts -> Record]
           /\ Invalidated \in [Accounts -> Record]
BY DEF TypeOK, Unexpired, Invalidated, Required, Record

\* An answer leaves requests, controls and the answer well typed.
LEMMA AnswerType ==
    ASSUME TypeOK, NEW cs, NEW r \in Replies, Answer(cs, r)
    PROVE  /\ request' \in [Clients -> Request \cup {NoRequest, Connected}]
           /\ control' \in [Clients -> {"live", "signal", "gone"}]
           /\ answer' \in [Clients -> Replies \cup {"none"}]
BY DEF TypeOK, Answer

LEMMA ReasonsType ==
    ASSUME NEW c, NEW d PROVE ReasonsFor(c, d) \in SUBSET Reasons
BY DEF ReasonsFor, Reasons

LEMMA IdleType == Idle \in Frame
BY DEF Idle, Frame, Outcomes

\* The end of a frame keeps the variables it writes well typed.
LEMMA FinishType ==
    ASSUME TypeOK, NEW r \in Replies, Finish(r)
    PROVE  /\ request' \in [Clients -> Request \cup {NoRequest, Connected}]
           /\ control' \in [Clients -> {"live", "signal", "gone"}]
           /\ answer' \in [Clients -> Replies \cup {"none"}]
           /\ frame' \in Frame
           /\ pc' = "top"
BY AnswerType, IdleType DEF Finish, Frame

\* So does going on to the next child.
LEMMA GoOnType ==
    ASSUME TypeOK, NEW place \in InUse, NEW kind \in Running, GoOn(place, kind)
    PROVE  frame' \in Frame /\ pc' \in InUse
BY DEF GoOn, TypeOK, Frame

LEMMA LimitType == ASSUME NEW kind \in Running PROVE Limit(kind) \in Nat \ {0}
BY TimingAssumption DEF Limit, Running

LEMMA CancelReplyType ==
    ASSUME NEW c PROVE CancelReply(c) \in Replies
BY DEF CancelReply, Replies

\* The initial state.
LEMMA TypeInit == Init => TypeOK
<1> SUFFICES ASSUME Init PROVE TypeOK
  OBVIOUS
<1>1. records \in [Accounts -> Record]
  BY DEF Init, Invalidated, Required, Record
<1>2. queue \in Seq(Clients \cup {Stop})
  BY DEF Init
<1> QED
  BY <1>1, <1>2, IdleType DEF Init, TypeOK, NoAnswers

\* The connections, the stopper and the clock.
LEMMA TypeOutside ==
    ASSUME TypeOK,
           Connection \/ RequestStop \/ SendStop \/ Tick
    PROVE  TypeOK'
<1> USE DEF TypeOK
<1>1. ASSUME NEW c \in Clients, Connect(c) PROVE TypeOK'
  BY <1>1 DEF Connect
<1>2. ASSUME NEW c \in Clients, HangUp(c) PROVE TypeOK'
  BY <1>2 DEF HangUp
<1>3. ASSUME NEW c \in Clients, Submit(c) PROVE TypeOK'
  <2>1. queue' = queue \/ queue' = Append(queue, c)
    BY <1>3 DEF Submit
  <2>2. PICK r \in Request \cup {NoRequest} : request' = [request EXCEPT ![c] = r]
    BY <1>3 DEF Submit
  <2>3. queue' \in Seq(Clients \cup {Stop})
    BY <2>1
  <2>4. request' \in [Clients -> Request \cup {NoRequest, Connected}]
    BY <2>2
  <2> QED
    BY <1>3, <2>3, <2>4 DEF Submit
<1>4. ASSUME NEW c \in Clients, CancelBySignal(c) PROVE TypeOK'
  BY <1>4 DEF CancelBySignal
<1>5. ASSUME NEW c \in Clients, Disconnect(c) PROVE TypeOK'
  BY <1>5 DEF Disconnect
<1>6. CASE RequestStop
  BY <1>6 DEF RequestStop
<1>7. CASE SendStop
  BY <1>7 DEF SendStop
<1>8. CASE Tick
  BY <1>8 DEF Tick
<1> QED
  BY <1>1, <1>2, <1>3, <1>4, <1>5, <1>6, <1>7, <1>8 DEF Connection

\* The loop and its end.
LEMMA TypeLoop ==
    ASSUME TypeOK, Loop \/ Ending
    PROVE  TypeOK'
<1> USE DEF TypeOK
<1>1. CASE LeaveLoop
  BY <1>1 DEF LeaveLoop, NoAnswers
<1>2. CASE EnterLoop
  BY <1>2, RecordsAreRecords DEF EnterLoop, NoAnswers
<1>3. CASE TakeRequest
  <2>1. Head(queue) \in Clients /\ Tail(queue) \in Seq(Clients \cup {Stop})
    BY <1>3 DEF TakeRequest
  <2>2. request[Head(queue)].account \in Accounts \cup {"none"}
    BY <2>1 DEF Request, NoRequest, Connected
  <2>3. frame' \in Frame
    BY <1>3, <2>1, <2>2, IdleType DEF TakeRequest, Frame
  <2> QED
    BY <1>3, <2>1, <2>3 DEF TakeRequest, InUse
<1>4. CASE TakeStop
  BY <1>4 DEF TakeStop
<1>5. CASE AwaitMessage
  BY <1>5 DEF AwaitMessage
<1>6. CASE WaitTimesOut
  BY <1>6 DEF WaitTimesOut
<1>7. CASE Maintain
  <2>1. PICK a \in Accounts : frame' = [Idle EXCEPT !.account = a, !.next = "whoami"]
    BY <1>7 DEF Maintain
  <2>2. frame' \in Frame
    BY <2>1, IdleType DEF Frame, Running
  <2> QED
    BY <1>7, <2>2 DEF Maintain, InUse, Between
<1>8. CASE Drain
  BY <1>8, AnswerType DEF Drain, Replies
<1>9. CASE SetComplete
  BY <1>9, RecordsAreRecords DEF SetComplete
<1>10. CASE DropReceiver
  BY <1>10, AnswerType DEF DropReceiver, Replies
<1> QED
  BY <1>1, <1>2, <1>3, <1>4, <1>5, <1>6, <1>7, <1>8, <1>9, <1>10
     DEF Loop, Ending

\* handle, up to the first child process.
LEMMA TypeHandle ==
    ASSUME TypeOK,
           HandleCancelled \/ HandleStart \/ BeginExplicit \/ HandleStatus
             \/ HandleExec
    PROVE  TypeOK'
<1>1. CASE HandleCancelled
  <2>1. PICK r \in Replies : Finish(r)
    BY <1>1, CancelReplyType DEF HandleCancelled, Replies
  <2> QED
    BY <1>1, <2>1, FinishType DEF HandleCancelled, Handling, TypeOK
<1>2. CASE HandleStart
  <2>1. PICK r \in Replies : Finish(r)
    BY <1>2 DEF HandleStart, Replies
  <2> QED
    BY <1>2, <2>1, FinishType, RecordsAreRecords DEF HandleStart, Handling, TypeOK
<1>3. CASE BeginExplicit
  <2>1. records' \in [Accounts -> Record]
    BY <1>3, RecordsAreRecords DEF BeginExplicit, Required, Record
  <2>2. frame' \in Frame /\ pc' \in InUse
    BY <1>3, GoOnType DEF BeginExplicit, Running, InUse, Between
  <2> QED
    BY <1>3, <2>1, <2>2 DEF BeginExplicit, Handling, Unanswered, TypeOK
<1>4. CASE HandleStatus
  <2>1. PICK r \in Replies : Finish(r)
    BY <1>4 DEF HandleStatus, Replies
  <2> QED
    BY <1>4, <2>1, FinishType, RecordsAreRecords DEF HandleStatus, Handling, TypeOK
<1>5. CASE HandleExec
  <2>1. records' \in [Accounts -> Record]
    BY <1>5, RecordsAreRecords DEF HandleExec
  <2>2. CASE GoOn("deadline", "whoami") /\ Unanswered
    <3>1. frame' \in Frame /\ pc' \in InUse
      BY <2>2, GoOnType DEF Running, InUse, Between
    <3> QED
      BY <1>5, <2>1, <2>2, <3>1 DEF HandleExec, Handling, Unanswered, TypeOK
  <2>3. CASE Finish("authorizationRequired")
    BY <1>5, <2>1, <2>3, FinishType DEF HandleExec, Handling, Replies, TypeOK
  <2> QED
    BY <1>5, <2>2, <2>3 DEF HandleExec
<1> QED
  BY <1>1, <1>2, <1>3, <1>4, <1>5

\* What a check that failed, was cancelled or was shut down leaves behind.
LEMMA CheckEndsType ==
    ASSUME TypeOK, frame.outcome \in Outcomes, CheckEnds \/ CheckFails
    PROVE  /\ records' \in [Accounts -> Record]
           /\ shutdown' \in BOOLEAN
           /\ late' = late /\ behind' = behind
           /\ \E r \in Replies : Finish(r)
<1>1. CASE CheckFails
  BY <1>1, RecordsAreRecords DEF CheckFails, Replies, TypeOK
<1>2. CASE CheckEnds
  BY <1>1, <1>2, CancelReplyType DEF CheckEnds, Replies, TypeOK
<1> QED
  BY <1>1, <1>2

\* The start of a child process.
LEMMA TypeLaunch ==
    ASSUME TypeOK, SetDeadline \/ Launch \/ LaunchFails,
           pc \in Between => frame.next # "none"
    PROVE  TypeOK'
<1>1. frame.next \in Running
  BY DEF SetDeadline, Launch, LaunchFails, Between, TypeOK, Frame
<1>2. CASE SetDeadline
  <2>1. now + Limit(frame.next) \in Nat
    BY <1>1, LimitType DEF TypeOK
  <2>2. \E d, n \in Nat :
          frame' = [frame EXCEPT !.deadline = d, !.authorized = n]
    <3>1. (IF frame.next = "explicit" THEN now ELSE frame.authorized) \in Nat
      BY DEF TypeOK, Frame
    <3> QED
      BY <1>2, <2>1, <3>1 DEF SetDeadline, TypeOK, Frame
  <2>3. frame' \in Frame
    BY <2>2 DEF TypeOK, Frame
  <2> QED
    BY <1>2, <2>3 DEF SetDeadline, TypeOK, InUse, Between
<1>3. CASE Launch
  <2> DEFINE n == frame.stale + (IF Cancelled(frame.client) THEN 1 ELSE 0)
             m == behind[frame.account]
                    + (IF frame.next = "explicit" \/ Current(frame.account)
                       THEN 0 ELSE 1)
  <2>1. n \in Nat /\ Holding \in SUBSET Reasons
    BY ReasonsType DEF TypeOK, Frame, Holding
  <2>2. frame' = [frame EXCEPT !.next = "none", !.under = Holding, !.stale = n]
    BY <1>3 DEF Launch
  <2>3. behind' = [behind EXCEPT ![frame.account] = m]
    BY <1>3 DEF Launch
  <2>4. frame.account \in Accounts => m \in Nat
    BY DEF TypeOK
  <2> HIDE DEF n, m
  <2>5. frame' \in Frame
    BY <2>1, <2>2 DEF TypeOK, Frame
  <2>6. behind' \in [Accounts -> Nat]
    BY <2>3, <2>4 DEF TypeOK
  <2> QED
    BY <1>1, <1>3, <2>5, <2>6 DEF Launch, TypeOK, InUse
<1>4. CASE LaunchFails
  <2>1. records' \in [Accounts -> Record]
    BY <1>4, RecordsAreRecords DEF LaunchFails, CheckFails, TypeOK
  <2>2. PICK r \in Replies : Finish(r)
    BY <1>1, <1>4 DEF LaunchFails, CheckFails, Replies
  <2>3. UNCHANGED <<now, queue, shutdown, stopper, late, behind>>
    BY <1>4 DEF LaunchFails, CheckFails
  <2> QED
    BY <2>1, <2>2, <2>3, FinishType DEF TypeOK
<1> QED
  BY <1>2, <1>3, <1>4

\* The end of a child process.
LEMMA TypeAfter ==
    ASSUME TypeOK,
           AfterExplicit \/ AfterWhoami \/ AfterVault \/ Recheck
             \/ AfterCommand
    PROVE  TypeOK'
<1>1. CASE AfterExplicit
  <2>1. frame.authorized + HardLimit \in Nat /\ now + MaintenanceInterval \in Nat
    BY TimingAssumption DEF TypeOK, Frame
  <2>2. records' \in [Accounts -> Record]
    BY <1>1, <2>1 DEF AfterExplicit, TypeOK, Active, Record
  <2>3. PICK r \in Replies : Finish(r)
    BY <1>1, CancelReplyType DEF AfterExplicit, Replies
  <2>4. behind' \in [Accounts -> Nat]
    BY <1>1 DEF AfterExplicit, GrantIsNew, TypeOK
  <2> QED
    BY <1>1, <2>2, <2>3, <2>4, FinishType DEF AfterExplicit, Returned, TypeOK
<1>2. CASE AfterWhoami
  <2>1. CASE /\ GoOn("spawn", "vault")
             /\ Unanswered
             /\ UNCHANGED <<records, shutdown, late, behind>>
    <3>1. frame' \in Frame /\ pc' \in InUse
      BY <2>1, GoOnType DEF Running, InUse, Between
    <3> QED
      BY <1>2, <2>1, <3>1 DEF AfterWhoami, Returned, Unanswered, TypeOK
  <2>2. CASE CheckFails \/ CheckEnds
    BY <1>2, <2>2, CheckEndsType, FinishType DEF AfterWhoami, Returned, TypeOK
  <2> QED
    BY <1>2, <2>1, <2>2 DEF AfterWhoami
<1>3. CASE AfterVault
  <2>1. CASE frame.outcome = "success"
    <3>1. now + MaintenanceInterval \in Nat
      BY TimingAssumption DEF TypeOK
    <3>2. records' \in [Accounts -> Record]
      <4>1. ASSUME NEW a \in Accounts
            PROVE  /\ records[a] \in Record
                   /\ Active(records[a].hard, now + MaintenanceInterval) \in Record
        BY <3>1 DEF TypeOK, Active, Record
      <4> QED
        BY <1>3, <2>1, <4>1 DEF AfterVault
    <3>3. frame' \in Frame /\ pc' \in InUse \cup {"top"}
      BY <1>3, <2>1, IdleType, GoOnType DEF AfterVault, Running, InUse, Between
    <3> QED
      BY <1>3, <2>1, <3>2, <3>3 DEF AfterVault, Returned, Unanswered, TypeOK
  <2>2. CASE frame.outcome # "success"
    BY <1>3, <2>2, CheckEndsType, FinishType DEF AfterVault, Returned, TypeOK
  <2> QED
    BY <2>1, <2>2
<1>4. CASE Recheck
  <2>1. records' \in [Accounts -> Record]
    BY <1>4, RecordsAreRecords DEF Recheck
  <2>2. CASE pc' = "deadline" /\ UNCHANGED frame /\ Unanswered
    BY <1>4, <2>1, <2>2 DEF Recheck, Unanswered, TypeOK, InUse, Between
  <2>3. CASE Finish("authorizationRequired")
    BY <1>4, <2>1, <2>3, FinishType DEF Recheck, Replies, TypeOK
  <2> QED
    BY <1>4, <2>2, <2>3 DEF Recheck
<1>5. CASE AfterCommand
  <2>1. PICK r \in Replies : Finish(r)
    BY <1>5, CancelReplyType DEF AfterCommand, Replies
  <2> QED
    BY <1>5, <2>1, FinishType, RecordsAreRecords DEF AfterCommand, Returned, TypeOK
<1> QED
  BY <1>1, <1>2, <1>3, <1>4, <1>5

\* The wait loop of the runner.
LEMMA TypeRunner ==
    ASSUME TypeOK, Latch \/ ChildExits \/ ChildEnds \/ ChildTerminated
    PROVE  TypeOK'
<1> USE DEF TypeOK
<1>1. CASE Latch
  <2>1. PICK r \in Reasons : frame' = [frame EXCEPT !.latch = r, !.clear = FALSE]
    BY <1>1, ReasonsType DEF Latch, Holding
  <2>2. frame' \in Frame
    BY <2>1 DEF Frame
  <2> QED
    BY <1>1, <2>2 DEF Latch
<1>2. CASE ChildExits
  BY <1>2 DEF ChildExits, Frame
<1>3. ASSUME NEW o \in Outcomes PROVE Ended(o) \in Frame
  BY <1>3 DEF Ended, Frame
<1>4. CASE ChildEnds
  <2>1. PICK o \in Outcomes : frame' = Ended(o)
    BY <1>4 DEF ChildEnds, Outcomes
  <2> QED
    BY <1>3, <1>4, <2>1 DEF ChildEnds
<1>5. CASE ChildTerminated
  <2>1. frame.latch \in Outcomes \cup {"none"}
    BY DEF Frame, Outcomes, Reasons
  <2>2. PICK o \in Outcomes : frame' = Ended(o)
    BY <1>5, <2>1 DEF ChildTerminated, Outcomes
  <2> QED
    BY <1>3, <1>5, <2>2 DEF ChildTerminated
<1> QED
  BY <1>1, <1>2, <1>4, <1>5

\* A child's life leaves the rest of its frame alone.
LEMMA ChildFrame ==
    ASSUME TypeOK, Latch \/ ChildExits \/ ChildEnds \/ ChildTerminated
    PROVE  /\ frame'.client = frame.client
           /\ frame'.account = frame.account
           /\ frame'.authorized = frame.authorized
           /\ frame'.deadline = frame.deadline
           /\ frame'.stale = frame.stale
           /\ frame'.next = frame.next
<1>1. \E u, c, l, o :
        frame' = [frame EXCEPT !.under = u, !.clear = c, !.latch = l,
                               !.outcome = o]
  <2>1. CASE Latch
    <3>1. PICK r : frame' = [frame EXCEPT !.latch = r, !.clear = FALSE]
      BY <2>1 DEF Latch
    <3>2. frame' = [frame EXCEPT !.under = frame.under, !.clear = FALSE,
                                 !.latch = r, !.outcome = frame.outcome]
      BY <3>1 DEF TypeOK, Frame
    <3> QED
      BY <3>2
  <2>2. CASE ChildExits
    <3>1. frame' = [frame EXCEPT !.under = frame.under, !.clear = TRUE,
                                 !.latch = frame.latch, !.outcome = frame.outcome]
      BY <2>2 DEF ChildExits, TypeOK, Frame
    <3> QED
      BY <3>1
  <2>3. CASE ChildEnds \/ ChildTerminated
    <3>1. PICK o : frame' = Ended(o)
      BY <2>3 DEF ChildEnds, ChildTerminated
    <3> QED
      BY <3>1 DEF Ended
  <2> QED
    BY <2>1, <2>2, <2>3
<1> QED
  BY <1>1 DEF TypeOK, Frame

\* Where a child is to be started, or the records are to be looked at before that,
\* it is known which child.
NextIsKnown == pc \in Between <=> frame.next # "none"

LEMMA NextKnownInit == Init => NextIsKnown
BY DEF Init, NextIsKnown, Idle, Between

LEMMA NextKnownNext == TypeOK /\ NextIsKnown /\ [Next]_vars => NextIsKnown'
<1> SUFFICES ASSUME TypeOK, NextIsKnown, [Next]_vars PROVE NextIsKnown'
  OBVIOUS
<1>1. CASE pc' = pc /\ frame'.next = frame.next
  BY <1>1 DEF NextIsKnown
<1>2. CASE frame' = Idle /\ pc' \notin Between
  BY <1>2 DEF NextIsKnown, Idle
<1>3. ASSUME NEW place \in Between, NEW kind \in Running, GoOn(place, kind)
      PROVE  NextIsKnown'
  <2>1. pc' = place /\ frame'.next = kind
    BY <1>3 DEF GoOn, TypeOK, Frame
  <2> QED
    BY <2>1 DEF NextIsKnown, Running
<1>4. ASSUME NEW r, Finish(r) PROVE NextIsKnown'
  BY <1>2, <1>4 DEF Finish, Between
<1>5. CASE Connection \/ RequestStop \/ SendStop \/ Tick \/ UNCHANGED vars
  BY <1>1, <1>5 DEF Connection, Connect, HangUp, Submit, CancelBySignal,
     Disconnect, RequestStop, SendStop, Tick, vars
<1>6. CASE Latch \/ ChildExits \/ ChildEnds \/ ChildTerminated
  BY <1>1, <1>6, ChildFrame DEF Latch, ChildExits, ChildEnds, ChildTerminated
<1>7. CASE Loop \/ Ending
  <2>1. CASE Maintain
    BY <2>1 DEF Maintain, NextIsKnown, Between, Idle
  <2>2. CASE TakeRequest
    BY <2>2 DEF TakeRequest, NextIsKnown, Between, Idle
  <2> QED
    BY <1>7, <2>1, <2>2 DEF Loop, Ending, LeaveLoop, EnterLoop, TakeStop,
       AwaitMessage, WaitTimesOut, Drain, SetComplete, DropReceiver, NextIsKnown, Between
<1>8. CASE HandleCancelled \/ HandleStart \/ BeginExplicit \/ HandleStatus
             \/ HandleExec
  BY <1>3, <1>4, <1>8 DEF HandleCancelled, HandleStart, BeginExplicit,
     HandleStatus, HandleExec, Between, Running
<1>9. CASE SetDeadline
  BY <1>9 DEF SetDeadline, NextIsKnown, Between, TypeOK, Frame
<1>10. CASE Launch
  BY <1>10 DEF Launch, NextIsKnown, Between, Running, TypeOK, Frame
<1>11. CASE LaunchFails \/ CheckFails \/ CheckEnds \/ AfterExplicit \/ AfterCommand
  BY <1>4, <1>11 DEF LaunchFails, CheckFails, CheckEnds, AfterExplicit, AfterCommand
<1>12. CASE AfterWhoami
  BY <1>3, <1>11, <1>12 DEF AfterWhoami, Between, Running
<1>13. CASE AfterVault
  BY <1>2, <1>3, <1>11, <1>13 DEF AfterVault, Between, Running
<1>14. CASE Recheck
  BY <1>4, <1>14 DEF Recheck, NextIsKnown, Between
<1> QED
  BY <1>5, <1>6, <1>7, <1>8, <1>9, <1>10, <1>11, <1>12, <1>13, <1>14
     DEF Next, Work

LEMMA TypeNext == TypeOK /\ NextIsKnown /\ [Next]_vars => TypeOK'
<1>1. ASSUME TypeOK, UNCHANGED vars PROVE TypeOK'
  BY <1>1 DEF vars, TypeOK
<1> QED
  BY <1>1, TypeOutside, TypeLoop, TypeHandle, TypeLaunch, TypeAfter, TypeRunner
     DEF Next, Work, NextIsKnown

\* Type correctness, for every value of the constants.
THEOREM TypeCorrect == Spec => []TypeOK
<1> QED
  BY TypeInit, TypeNext, NextKnownInit, NextKnownNext, PTL DEF Spec

-----------------------------------------------------------------------------
(* At most one child is started once shutdown is requested, and at most    *)
(* one for a request once it is cancelled.                                 *)

\* The end of a frame, whatever the answer is.
LEMMA FinishInductive ==
    ASSUME TypeOK, Inductive, NEW r, Finish(r), late' = late,
           shutdown => shutdown',
           pc \in InUse
    PROVE  Inductive'
<1>1. frame' = Idle /\ pc' = "top"
  BY DEF Finish
<1>2. late # 0 => shutdown'
  BY DEF Inductive
<1> QED
  BY <1>1, <1>2 DEF Inductive, Idle, Running, Between, InUse, AtMostOneLateChild

\* Going on to the next child, which nothing has been found against so far.
LEMMA GoOnInductive ==
    ASSUME TypeOK, Inductive, NEW place \in Between, NEW kind \in Running,
           GoOn(place, kind), late = 0, frame.stale = 0, frame.under = {},
           ~frame.clear, frame.latch = "none", UNCHANGED late
    PROVE  Inductive'
<1>1. /\ pc' = place /\ frame'.outcome = "pending"
      /\ frame'.under = {} /\ ~frame'.clear /\ frame'.latch = "none"
      /\ frame'.stale = 0
  BY DEF GoOn, TypeOK, Frame
<1> QED
  BY <1>1 DEF Inductive, InUse, AtMostOneLateChild

\* The start of a child: nothing is late or stale before it.
LEMMA LaunchInductive ==
    ASSUME TypeOK, NextIsKnown, Inductive, Launch
    PROVE  Inductive'
<1>1. /\ late = 0 /\ frame.stale = 0 /\ frame.outcome = "pending"
      /\ ~frame.clear /\ frame.latch = "none" /\ frame.next \in Running
  BY DEF Launch, Inductive, NextIsKnown, Between, Running, Doomed, TypeOK, Frame
<1>2. late' = IF shutdown THEN 1 ELSE 0
  BY <1>1 DEF Launch
<1>3. frame'.stale = IF Cancelled(frame.client) THEN 1 ELSE 0
  BY <1>1 DEF Launch, TypeOK, Frame
<1>4. /\ frame'.client = frame.client
      /\ frame'.under = Holding
      /\ ~frame'.clear
      /\ frame'.latch = "none"
      /\ frame'.outcome = "pending"
      /\ pc' \in Running
      /\ UNCHANGED <<shutdown, control>>
  BY <1>1 DEF Launch, TypeOK, Frame
<1>5. Cancelled(frame.client) <=> Cancelled(frame.client)'
  BY <1>4 DEF Cancelled
<1>6. shutdown => Doomed({"shutdown"})'
  BY <1>4 DEF Doomed, Holding, ReasonsFor
<1>7. Cancelled(frame.client) => Doomed({"cancelled", "shutdown"})'
  BY <1>4 DEF Doomed, Holding, ReasonsFor
<1>8. pc' \notin Between \cup {"handle"} /\ pc' \in InUse
  BY <1>4 DEF Running, Between, InUse
<1> QED
  BY <1>2, <1>3, <1>4, <1>5, <1>6, <1>7, <1>8 DEF Inductive, AtMostOneLateChild

\* Whoever runs beside the executor does not take a cancellation back.
LEMMA CancelStays ==
    ASSUME TypeOK, Connection \/ RequestStop \/ SendStop \/ Tick,
           Cancelled(frame.client)
    PROVE  Cancelled(frame.client)'
<1>1. frame' = frame
  BY DEF Connection, Connect, HangUp, Submit, CancelBySignal, Disconnect,
         RequestStop, SendStop, Tick
<1>2. CASE UNCHANGED control
  BY <1>1, <1>2 DEF Cancelled
<1>3. ASSUME NEW c \in Clients, CancelBySignal(c) \/ Disconnect(c)
      PROVE  Cancelled(frame.client)'
  <2>1. ASSUME NEW d \in Clients, control[d] # "live" PROVE control'[d] # "live"
    BY <1>3, <2>1 DEF CancelBySignal, Disconnect, TypeOK
  <2>2. frame.client \in Clients \cup {NoClient}
    BY DEF TypeOK, Frame
  <2> QED
    BY <1>1, <2>1, <2>2 DEF Cancelled
<1> QED
  BY <1>2, <1>3 DEF Connection, Connect, HangUp, Submit, RequestStop, SendStop,
                    Tick

\* The connections, the stopper and the clock.
LEMMA InductiveOutside ==
    ASSUME TypeOK, Inductive, Connection \/ RequestStop \/ SendStop \/ Tick
    PROVE  Inductive'
<1>1. pc' = pc /\ frame' = frame /\ late' = late
  BY DEF Connection, Connect, HangUp, Submit, CancelBySignal, Disconnect,
         RequestStop, SendStop, Tick
<1>2. shutdown => shutdown'
  BY DEF Connection, Connect, HangUp, Submit, CancelBySignal, Disconnect,
         RequestStop, SendStop, Tick
<1>3. Cancelled(frame.client) => Cancelled(frame.client)'
  BY CancelStays
<1> QED
  BY <1>1, <1>2, <1>3 DEF Inductive, Doomed, AtMostOneLateChild

\* The loop and its end.
LEMMA InductiveLoop ==
    ASSUME TypeOK, Inductive, Loop \/ Ending
    PROVE  Inductive'
<1> USE DEF Inductive, AtMostOneLateChild, InUse, Between
<1>1. CASE LeaveLoop
  BY <1>1 DEF LeaveLoop, Doomed, Running, Idle
<1>2. CASE EnterLoop
  BY <1>2 DEF EnterLoop, Doomed, Running, Idle
<1>3. CASE TakeRequest
  <2>1. /\ frame'.under = {} /\ ~frame'.clear /\ frame'.latch = "none"
        /\ frame'.outcome = "pending" /\ frame'.stale = 0 /\ late = 0
    BY <1>3 DEF TakeRequest, Idle, Doomed, Running
  <2> QED
    BY <1>3, <2>1 DEF TakeRequest, Running
<1>4. CASE TakeStop
  BY <1>4 DEF TakeStop, Doomed, Running, Idle
<1>5. CASE AwaitMessage \/ WaitTimesOut
  BY <1>5 DEF AwaitMessage, WaitTimesOut, Doomed, Running, Idle
<1>6. CASE Maintain
  <2>1. PICK a \in Accounts : frame' = [Idle EXCEPT !.account = a, !.next = "whoami"]
    BY <1>6 DEF Maintain
  <2>2. /\ frame'.under = {} /\ ~frame'.clear /\ frame'.latch = "none"
        /\ frame'.outcome = "pending" /\ frame'.stale = 0
    BY <2>1 DEF Idle
  <2>3. late = 0
    BY <1>6 DEF Maintain, Doomed, Running
  <2> QED
    BY <1>6, <2>2, <2>3 DEF Maintain
<1>7. CASE Ending
  BY <1>7 DEF Ending, Drain, SetComplete, DropReceiver, Doomed, Running, Idle
<1> QED
  BY <1>1, <1>2, <1>3, <1>4, <1>5, <1>6, <1>7 DEF Loop

\* handle, up to the first child process.
LEMMA InductiveHandle ==
    ASSUME TypeOK, Inductive,
           HandleCancelled \/ HandleStart \/ BeginExplicit \/ HandleStatus
             \/ HandleExec
    PROVE  Inductive'
<1>1. pc = "handle" /\ shutdown' = shutdown
  BY DEF HandleCancelled, HandleStart, BeginExplicit, HandleStatus, HandleExec,
         Handling
<1>2. /\ late = 0 /\ frame.stale = 0 /\ frame.under = {} /\ ~frame.clear
      /\ frame.latch = "none"
  BY <1>1 DEF Inductive, Doomed, Running
<1>3. ASSUME NEW r, Finish(r), late' = late PROVE Inductive'
  BY <1>1, <1>3, FinishInductive DEF InUse
<1>4. CASE HandleCancelled \/ HandleStart \/ HandleStatus
  BY <1>3, <1>4 DEF HandleCancelled, HandleStart, HandleStatus
<1>5. ASSUME NEW kind \in Running, GoOn("deadline", kind), late' = late
      PROVE  Inductive'
  BY <1>2, <1>5, GoOnInductive DEF Between
<1>6. CASE BeginExplicit
  BY <1>5, <1>6 DEF BeginExplicit, Running
<1>7. CASE HandleExec
  BY <1>3, <1>5, <1>7 DEF HandleExec, Running
<1> QED
  BY <1>4, <1>6, <1>7

\* The start of a child process, which may fail.
LEMMA InductiveLaunch ==
    ASSUME TypeOK, NextIsKnown, Inductive, SetDeadline \/ Launch \/ LaunchFails
    PROVE  Inductive'
<1>1. CASE SetDeadline
  <2>1. /\ frame'.under = frame.under /\ frame'.clear = frame.clear
        /\ frame'.latch = frame.latch /\ frame'.outcome = frame.outcome
        /\ frame'.stale = frame.stale /\ frame'.client = frame.client
    BY <1>1 DEF SetDeadline, TypeOK, Frame
  <2>2. late = 0
    BY <1>1 DEF SetDeadline, Inductive, Doomed, Running
  <2> QED
    BY <1>1, <2>1, <2>2
       DEF SetDeadline, Inductive, AtMostOneLateChild, InUse, Between
<1>2. CASE LaunchFails
  <2>1. pc \in InUse /\ late' = late /\ shutdown' = shutdown /\ \E r : Finish(r)
    BY <1>2 DEF LaunchFails, CheckFails, InUse, Between
  <2> QED
    BY <2>1, FinishInductive
<1> QED
  BY <1>1, <1>2, LaunchInductive

\* The end of a child process: a doomed one is followed by no other.
LEMMA InductiveAfter ==
    ASSUME TypeOK, Inductive,
           AfterExplicit \/ AfterWhoami \/ AfterVault \/ AfterCommand
    PROVE  Inductive'
<1>1. pc \in Running /\ pc \in InUse /\ frame.outcome \in Outcomes
  BY DEF AfterExplicit, AfterWhoami, AfterVault, AfterCommand, Returned,
         Running, InUse
<1>2. frame.outcome = "success" => late = 0 /\ frame.stale = 0
  BY <1>1 DEF Inductive, Doomed, Running
<1>3. ASSUME NEW r, Finish(r), late' = late, shutdown => shutdown'
      PROVE  Inductive'
  BY <1>1, <1>3, FinishInductive
<1>4. CASE AfterExplicit \/ AfterCommand
  BY <1>3, <1>4 DEF AfterExplicit, AfterCommand
<1>5. CASE CheckFails \/ CheckEnds
  <2>1. shutdown => shutdown'
    BY <1>5 DEF CheckFails, CheckEnds, TypeOK
  <2>2. PICK r : Finish(r)
    BY <1>5 DEF CheckFails, CheckEnds
  <2>3. late' = late
    BY <1>5 DEF CheckFails, CheckEnds
  <2> QED
    BY <1>3, <2>1, <2>2, <2>3
<1>6. frame.under = {} /\ ~frame.clear /\ frame.latch = "none"
  BY <1>1 DEF Inductive, Outcomes, Natural
<1>7. CASE AfterWhoami
  <2>1. CASE /\ frame.outcome = "success"
             /\ GoOn("spawn", "vault")
             /\ UNCHANGED late
    BY <1>2, <1>6, <2>1, GoOnInductive DEF Between, Running
  <2> QED
    BY <1>5, <1>7, <2>1 DEF AfterWhoami
<1>8. CASE AfterVault
  <2>1. CASE /\ frame.outcome = "success"
             /\ GoOn("recheck", "command")
             /\ UNCHANGED late
    BY <1>2, <1>6, <2>1, GoOnInductive DEF Between, Running
  <2>2. CASE /\ frame.outcome = "success"
             /\ pc' = "top" /\ frame' = Idle
             /\ UNCHANGED late
    BY <1>2, <2>2 DEF Inductive, Idle, Running, Between, InUse, AtMostOneLateChild
  <2> QED
    BY <1>5, <1>8, <2>1, <2>2 DEF AfterVault
<1> QED
  BY <1>4, <1>7, <1>8

\* The records are looked at again.
LEMMA InductiveRecheck ==
    ASSUME TypeOK, Inductive, Recheck PROVE Inductive'
<1>1. CASE Finish("authorizationRequired")
  BY <1>1, FinishInductive DEF Recheck, InUse, Between
<1>2. CASE pc' = "deadline" /\ UNCHANGED frame
  <2>1. late = 0
    BY DEF Recheck, Inductive, Doomed, Running
  <2> QED
    BY <1>2, <2>1 DEF Recheck, Inductive, AtMostOneLateChild, InUse, Between
<1> QED
  BY <1>1, <1>2 DEF Recheck

\* The wait loop of the runner: a child under a reason ends for that reason.
LEMMA InductiveRunner ==
    ASSUME TypeOK, Inductive, Latch \/ ChildExits \/ ChildEnds \/ ChildTerminated
    PROVE  Inductive'
<1>1. /\ pc \in Running /\ frame.outcome = "pending"
      /\ UNCHANGED <<control, shutdown, pc, late>>
  BY DEF Latch, ChildExits, ChildEnds, ChildTerminated, ChildAlive
<1>2. frame'.client = frame.client /\ frame'.stale = frame.stale
  BY ChildFrame
<1>3. Cancelled(frame.client)' <=> Cancelled(frame.client)
  BY <1>1, <1>2 DEF Cancelled
<1> DEFINE Upper == {{"shutdown"}, {"cancelled", "shutdown"}}
<1>4. ASSUME NEW reasons \in Upper, Doomed(reasons), Holding \cap reasons # {}
      PROVE  Doomed(reasons)'
  <2>1. /\ frame.under \cap reasons # {} /\ ~frame.clear
        /\ frame.latch \in {"none"} \cup reasons
    <3>1. "pending" \notin {"error"} \cup reasons
      OBVIOUS
    <3> QED
      BY <1>1, <1>4, <3>1 DEF Doomed
  <2>2. CASE Latch
    <3>1. PICK r \in Reasons :
            /\ Before(r) \cap frame.under = {}
            /\ frame' = [frame EXCEPT !.latch = r, !.clear = FALSE]
      BY <2>2, ReasonsType DEF Latch, Holding
    <3>2. r \in reasons
      BY <2>1, <3>1 DEF Before, Reasons
    <3>3. /\ frame'.outcome = "pending" /\ frame'.under = frame.under
          /\ frame'.latch = r /\ ~frame'.clear
      BY <1>1, <3>1 DEF TypeOK, Frame
    <3> QED
      BY <1>1, <2>1, <3>2, <3>3 DEF Doomed
  <2>3. ~ChildExits
    BY <1>4 DEF ChildExits
  <2>4. CASE ChildEnds
    <3>1. frame' = Ended("error")
      BY <2>1, <2>4 DEF ChildEnds
    <3>2. frame'.outcome = "error"
      BY <3>1 DEF Ended, TypeOK, Frame
    <3> QED
      BY <1>1, <3>2 DEF Doomed
  <2>5. CASE ChildTerminated
    <3>1. PICK o \in {frame.latch, "error"} : frame' = Ended(o)
      BY <2>5 DEF ChildTerminated
    <3>2. frame'.outcome = o
      BY <3>1 DEF Ended, TypeOK, Frame
    <3>3. o \in {"error"} \cup reasons
      BY <2>1, <2>5, <3>1 DEF ChildTerminated
    <3> QED
      BY <1>1, <3>2, <3>3 DEF Doomed
  <2> QED
    BY <2>2, <2>3, <2>4, <2>5
<1>5. late # 0 => Doomed({"shutdown"})'
  <2>1. late # 0 => shutdown /\ Doomed({"shutdown"})
    BY <1>1 DEF Inductive, Running
  <2>2. shutdown => Holding \cap {"shutdown"} # {}
    BY DEF Holding, ReasonsFor
  <2> QED
    BY <1>4, <2>1, <2>2
<1>6. frame.stale # 0 => Doomed({"cancelled", "shutdown"})'
  <2>1. frame.stale # 0
          => Cancelled(frame.client) /\ Doomed({"cancelled", "shutdown"})
    BY DEF Inductive
  <2>2. Cancelled(frame.client) => Holding \cap {"cancelled", "shutdown"} # {}
    BY DEF Holding, ReasonsFor
  <2> QED
    BY <1>4, <2>1, <2>2
<1>7. frame'.outcome # "pending"
        => frame'.under = {} /\ ~frame'.clear /\ frame'.latch = "none"
  <2>1. CASE Latch \/ ChildExits
    BY <1>1, <2>1 DEF Latch, ChildExits, TypeOK, Frame
  <2>2. CASE ChildEnds \/ ChildTerminated
    <3>1. PICK o : frame' = Ended(o)
      BY <2>2 DEF ChildEnds, ChildTerminated
    <3> QED
      BY <3>1 DEF Ended, TypeOK, Frame
  <2> QED
    BY <2>1, <2>2
<1>8. pc \notin Between \cup {"handle"} /\ pc \in InUse
  BY <1>1 DEF Running, Between, InUse
<1> QED
  BY <1>1, <1>2, <1>3, <1>5, <1>6, <1>7, <1>8
     DEF Inductive, Running, AtMostOneLateChild

LEMMA InductiveInit == Init => Inductive
BY DEF Init, Inductive, Idle, Running, AtMostOneLateChild

LEMMA InductiveNext ==
    TypeOK /\ NextIsKnown /\ Inductive /\ [Next]_vars => Inductive'
<1>1. ASSUME Inductive, UNCHANGED vars PROVE Inductive'
  BY <1>1 DEF vars, Inductive, Doomed, Cancelled, AtMostOneLateChild
<1> QED
  BY <1>1, InductiveOutside, InductiveLoop, InductiveHandle, InductiveLaunch,
     InductiveAfter, InductiveRecheck, InductiveRunner DEF Next, Work

\* After a stop or a failed accept set the flag, at most one more child is
\* started, whatever the thread was doing; and after a client cancelled its
\* request, at most one more is started for it.
THEOREM LateChildren ==
    Spec => []AtMostOneLateChild
<1>1. Inductive => AtMostOneLateChild
  BY DEF Inductive
<1> QED
  BY <1>1, TypeInit, TypeNext, NextKnownInit, NextKnownNext, InductiveInit, InductiveNext, PTL DEF Spec

-----------------------------------------------------------------------------
(* Every request without an answer is in one place.                        *)

Places == PendingInOnePlace /\ FrameMatchesRequest

\* What connects the variables that Places speaks of to the next ones.
LEMMA PlacesFrame ==
    ASSUME TypeOK, Places, UNCHANGED <<queue, request>>,
           frame'.client = frame.client, frame'.account = frame.account,
           pc \in InUse
    PROVE  Places'
BY DEF Places, PendingInOnePlace, FrameMatchesRequest, Pending, Queued

\* The end of a frame answers its request, which is nowhere else.
LEMMA PlacesFinish ==
    ASSUME TypeOK, Places, NEW r, Finish(r), UNCHANGED queue
    PROVE  Places'
<1>1. frame'.client = NoClient /\ pc' = "top"
  BY DEF Finish, Idle
<1>2. ASSUME NEW c \in Clients
      PROVE  Pending(c)' <=> Pending(c) /\ frame.client # c
  BY <1>2 DEF Pending, Finish, Answer, NoRequest, Connected, Kinds, TypeOK
<1>3. ASSUME NEW c \in Clients PROVE Queued(c)' <=> Queued(c)
  BY DEF Queued
<1>4. FrameMatchesRequest'
  BY <1>1 DEF FrameMatchesRequest, InUse, Running, Between
<1> QED
  BY <1>1, <1>2, <1>3, <1>4, NamesAssumption DEF Places, PendingInOnePlace

\* A message at the end of the channel.
LEMMA QueuedAppend ==
    ASSUME TypeOK, NEW m \in Clients \cup {Stop}, queue' = Append(queue, m),
           NEW c \in Clients
    PROVE  /\ Queued(c)' <=> Queued(c) \/ c = m
           /\ /\ ~Queued(c) \/ c # m
              /\ \A i, j \in DOMAIN queue : queue[i] = c /\ queue[j] = c => i = j
              => \A i, j \in DOMAIN queue' :
                    queue'[i] = c /\ queue'[j] = c => i = j
<1>1. /\ DOMAIN queue = 1..Len(queue)
      /\ DOMAIN queue' = 1..(Len(queue) + 1)
      /\ Len(queue) \in Nat
      /\ queue'[Len(queue) + 1] = m
      /\ \A i \in 1..Len(queue) : queue'[i] = queue[i]
  BY DEF TypeOK
<1> QED
  BY <1>1 DEF Queued

\* The first message leaves the channel.
LEMMA QueuedTail ==
    ASSUME TypeOK, queue # <<>>, queue' = Tail(queue), NEW c \in Clients,
           \A i, j \in DOMAIN queue : queue[i] = c /\ queue[j] = c => i = j
    PROVE  /\ Queued(c)' <=> Queued(c) /\ c # Head(queue)
           /\ \A i, j \in DOMAIN queue' :
                 queue'[i] = c /\ queue'[j] = c => i = j
           /\ c = Head(queue) => Queued(c)
<1>1. /\ DOMAIN queue = 1..Len(queue)
      /\ DOMAIN queue' = 1..(Len(queue) - 1)
      /\ Len(queue) \in Nat /\ Len(queue) > 0
      /\ Head(queue) = queue[1]
      /\ \A i \in 1..(Len(queue) - 1) : queue'[i] = queue[i + 1]
  BY DEF TypeOK
<1>2. ASSUME NEW i \in 1..Len(queue), i # 1
      PROVE  i - 1 \in DOMAIN queue' /\ queue'[i - 1] = queue[i]
  BY <1>1, <1>2
<1>3. ASSUME NEW i \in DOMAIN queue'
      PROVE  i + 1 \in DOMAIN queue /\ queue[i + 1] = queue'[i] /\ i + 1 # 1
  BY <1>1, <1>3
<1>4. 1 \in DOMAIN queue
  BY <1>1
<1>5. Queued(c)' => Queued(c) /\ c # Head(queue)
  BY <1>1, <1>3, <1>4 DEF Queued
<1>6. Queued(c) /\ c # Head(queue) => Queued(c)'
  BY <1>1, <1>2 DEF Queued
<1>7. \A i, j \in DOMAIN queue' : queue'[i] = c /\ queue'[j] = c => i = j
  BY <1>1, <1>3
<1> QED
  BY <1>1, <1>4, <1>5, <1>6, <1>7 DEF Queued

\* The connections, the stopper and the clock.
LEMMA PlacesOutside ==
    ASSUME TypeOK, Places, Connection \/ RequestStop \/ SendStop \/ Tick
    PROVE  Places'
<1>1. pc' = pc /\ frame' = frame
  BY DEF Connection, Connect, HangUp, Submit, CancelBySignal, Disconnect,
         RequestStop, SendStop, Tick
<1>2. ASSUME UNCHANGED <<queue, request>> PROVE Places'
  BY <1>1, <1>2 DEF Places, PendingInOnePlace, FrameMatchesRequest, Pending,
                    Queued
<1>3. ASSUME NEW c \in Clients, UNCHANGED queue, ~Pending(c),
             \E r \in {NoRequest, Connected} :
                request' = [request EXCEPT ![c] = r]
      PROVE  Places'
  <2>1. \A d \in Clients : Pending(d)' <=> Pending(d)
    BY <1>3 DEF Pending, NoRequest, Connected, Kinds, TypeOK
  <2>2. \A d \in Clients : d # c => request'[d] = request[d]
    BY <1>3 DEF TypeOK
  <2>3. frame.client # c /\ frame.client \in Clients \cup {NoClient}
    BY <1>3 DEF Places, PendingInOnePlace, TypeOK, Frame
  <2>4. FrameMatchesRequest'
    BY <1>1, <2>2, <2>3 DEF Places, FrameMatchesRequest
  <2> QED
    BY <1>1, <1>3, <2>1, <2>4 DEF Places, PendingInOnePlace, Queued
<1>4. ASSUME NEW c \in Clients, Connect(c) PROVE Places'
  <2>1. /\ UNCHANGED queue
        /\ request[c] = NoRequest
        /\ request' = [request EXCEPT ![c] = Connected]
    BY <1>4 DEF Connect
  <2>2. ~Pending(c)
    BY <2>1 DEF Pending, NoRequest, Kinds
  <2> QED
    BY <1>3, <2>1, <2>2
<1>5. ASSUME NEW c \in Clients, HangUp(c) PROVE Places'
  BY <1>3, <1>5 DEF HangUp, Pending, Connected, NoRequest, Kinds
<1>6. ASSUME NEW c \in Clients, Submit(c) PROVE Places'
  <2>1. ~Pending(c)
    BY <1>6 DEF Submit, Pending, Connected, NoRequest, Kinds
  <2>2. CASE pc = "closed"
    BY <1>3, <1>6, <2>1, <2>2 DEF Submit
  <2>3. CASE pc # "closed"
    <3>1. PICK r \in Request : /\ request' = [request EXCEPT ![c] = r]
                               /\ queue' = Append(queue, c)
      BY <1>6, <2>3 DEF Submit
    <3>2. \A d \in Clients : Pending(d)' <=> Pending(d) \/ d = c
      BY <3>1 DEF Pending, Request, TypeOK
    <3>3. \A d \in Clients : d # c => request'[d] = request[d]
      BY <3>1 DEF TypeOK
    <3>4. /\ frame.client # c /\ ~Queued(c)
          /\ frame.client \in Clients \cup {NoClient}
      BY <2>1 DEF Places, PendingInOnePlace, TypeOK, Frame
    <3>5. FrameMatchesRequest'
      BY <1>1, <3>3, <3>4 DEF Places, FrameMatchesRequest
    <3>6. ASSUME NEW d \in Clients
          PROVE  /\ Pending(d)' <=> (Queued(d)' \/ frame.client = d)
                 /\ ~(Queued(d)' /\ frame.client = d)
                 /\ \A i, j \in DOMAIN queue' :
                       queue'[i] = d /\ queue'[j] = d => i = j
      BY <3>1, <3>2, <3>4, QueuedAppend DEF Places, PendingInOnePlace
    <3> QED
      BY <1>1, <3>5, <3>6 DEF Places, PendingInOnePlace
  <2> QED
    BY <2>2, <2>3
<1>7. ASSUME SendStop PROVE Places'
  <2>1. CASE queue' = queue
    BY <1>2, <1>7, <2>1 DEF SendStop
  <2>2. CASE queue' = Append(queue, Stop)
    <3>1. \A d \in Clients : d # Stop
      BY NamesAssumption
    <3>2. ASSUME NEW d \in Clients
          PROVE  /\ Queued(d)' <=> Queued(d)
                 /\ \A i, j \in DOMAIN queue' :
                       queue'[i] = d /\ queue'[j] = d => i = j
      BY <2>2, <3>1, QueuedAppend DEF Places, PendingInOnePlace
    <3>3. request' = request
      BY <1>7 DEF SendStop
    <3> QED
      BY <1>1, <3>2, <3>3
         DEF Places, PendingInOnePlace, FrameMatchesRequest, Pending
  <2> QED
    BY <1>7, <2>1, <2>2 DEF SendStop
<1>8. ASSUME NEW c \in Clients, CancelBySignal(c) \/ Disconnect(c)
      PROVE  Places'
  BY <1>2, <1>8 DEF CancelBySignal, Disconnect
<1>9. ASSUME RequestStop \/ Tick PROVE Places'
  BY <1>2, <1>9 DEF RequestStop, Tick
<1> QED
  BY <1>4, <1>5, <1>6, <1>7, <1>8, <1>9 DEF Connection

\* The loop and its end.
LEMMA PlacesLoop ==
    ASSUME TypeOK, Inductive, Places, Loop \/ Ending
    PROVE  Places'
<1>1. pc \notin InUse /\ frame = Idle
  BY DEF Loop, Ending, LeaveLoop, EnterLoop, TakeRequest, TakeStop,
         AwaitMessage, WaitTimesOut, Maintain, Drain, SetComplete,
         DropReceiver, InUse, Running, Between, Inductive
<1>2. \A c \in Clients : frame.client # c
  BY <1>1, NamesAssumption DEF Idle
<1>3. ASSUME UNCHANGED <<queue, request>>, frame'.client = NoClient,
             FrameMatchesRequest'
      PROVE  Places'
  BY <1>2, <1>3, NamesAssumption
     DEF Places, PendingInOnePlace, Pending, Queued
<1>4. CASE LeaveLoop \/ EnterLoop \/ AwaitMessage \/ WaitTimesOut \/ SetComplete
  <2>1. /\ UNCHANGED <<queue, request, frame>>
        /\ pc' \notin InUse
    BY <1>4 DEF LeaveLoop, EnterLoop, AwaitMessage, WaitTimesOut, SetComplete,
                InUse, Running, Between
  <2> QED
    BY <1>1, <1>3, <2>1 DEF Idle, FrameMatchesRequest
<1>5. CASE Maintain
  <2>1. /\ UNCHANGED <<queue, request>>
        /\ frame'.client = NoClient /\ frame'.account \in Accounts
    BY <1>1, <1>5 DEF Maintain, Idle
  <2> QED
    BY <1>3, <2>1 DEF FrameMatchesRequest
<1>6. CASE TakeRequest
  <2>1. Head(queue) \in Clients
    BY <1>6 DEF TakeRequest, TypeOK
  <2>2. /\ frame'.client = Head(queue)
        /\ frame'.account = request[Head(queue)].account
        /\ queue # <<>> /\ queue' = Tail(queue)
        /\ request' = request
    BY <1>6 DEF TakeRequest, Idle
  <2>3. ASSUME NEW d \in Clients
        PROVE  /\ Pending(d)' <=> (Queued(d)' \/ frame'.client = d)
               /\ ~(Queued(d)' /\ frame'.client = d)
               /\ \A i, j \in DOMAIN queue' :
                     queue'[i] = d /\ queue'[j] = d => i = j
    BY <1>2, <2>1, <2>2, QueuedTail DEF Places, PendingInOnePlace, Pending
  <2>4. FrameMatchesRequest'
    BY <2>1, <2>2, NamesAssumption DEF FrameMatchesRequest
  <2> QED
    BY <2>3, <2>4 DEF Places, PendingInOnePlace
<1>7. CASE TakeStop
  <2>1. /\ queue # <<>> /\ queue' = Tail(queue) /\ Head(queue) = Stop
        /\ UNCHANGED <<request, frame>> /\ pc' = "drain"
    BY <1>7 DEF TakeStop
  <2>2. ASSUME NEW d \in Clients
        PROVE  /\ Queued(d)' <=> Queued(d)
               /\ \A i, j \in DOMAIN queue' :
                     queue'[i] = d /\ queue'[j] = d => i = j
    BY <2>1, QueuedTail, NamesAssumption DEF Places, PendingInOnePlace
  <2> QED
    BY <2>1, <2>2 DEF Places, PendingInOnePlace, FrameMatchesRequest, Pending,
                      InUse, Running, Between
<1>8. CASE Drain
  <2>1. /\ queue # <<>> /\ queue' = Tail(queue)
        /\ Answer({Head(queue)}, "operational")
        /\ UNCHANGED frame /\ pc' = "drain"
    BY <1>8 DEF Drain
  <2>2. ASSUME NEW d \in Clients
        PROVE  /\ Queued(d)' <=> Queued(d) /\ d # Head(queue)
               /\ \A i, j \in DOMAIN queue' :
                     queue'[i] = d /\ queue'[j] = d => i = j
    BY <2>1, QueuedTail DEF Places, PendingInOnePlace
  <2>3. ASSUME NEW d \in Clients
        PROVE  Pending(d)' <=> Pending(d) /\ d # Head(queue)
    BY <2>1 DEF Answer, Pending, NoRequest, Kinds, TypeOK
  <2> QED
    BY <1>2, <2>1, <2>2, <2>3
       DEF Places, PendingInOnePlace, FrameMatchesRequest, InUse, Running, Between
<1>9. CASE DropReceiver
  <2>1. /\ queue' = <<>> /\ UNCHANGED frame /\ pc' = "closed"
        /\ Answer({queue[i] : i \in DOMAIN queue}, "dropped")
    BY <1>9 DEF DropReceiver
  <2>2. ASSUME NEW d \in Clients PROVE ~Queued(d)'
    BY <2>1 DEF Queued
  <2>3. ASSUME NEW d \in Clients PROVE Pending(d)' <=> Pending(d) /\ ~Queued(d)
    BY <2>1 DEF Answer, Pending, Queued, NoRequest, Kinds, TypeOK
  <2>4. \A i, j \in DOMAIN queue' : FALSE
    BY <2>1
  <2> QED
    BY <1>2, <2>1, <2>2, <2>3, <2>4
       DEF Places, PendingInOnePlace, FrameMatchesRequest, InUse, Running, Between
<1> QED
  BY <1>4, <1>5, <1>6, <1>7, <1>8, <1>9 DEF Loop, Ending

\* A request being handled, checked or run.
LEMMA PlacesWork ==
    ASSUME TypeOK, Places, Work \/ Latch \/ ChildExits \/ ChildEnds \/ ChildTerminated
    PROVE  Places'
<1>1. pc \in InUse /\ queue' = queue
  BY DEF Work, HandleCancelled, HandleStart, BeginExplicit, HandleStatus,
         HandleExec, Handling, SetDeadline, Launch, LaunchFails, AfterExplicit,
         AfterWhoami, AfterVault, Recheck, AfterCommand, Returned, Latch,
         ChildExits, ChildEnds, ChildTerminated, ChildAlive, InUse, Running, Between
<1>2. ASSUME NEW r, Finish(r) PROVE Places'
  BY <1>1, <1>2, PlacesFinish
<1>3. ASSUME request' = request, frame'.client = frame.client,
             frame'.account = frame.account
      PROVE  Places'
  BY <1>1, <1>3, PlacesFrame
<1>4. ASSUME NEW place, NEW kind, GoOn(place, kind), Unanswered PROVE Places'
  BY <1>3, <1>4 DEF GoOn, Unanswered, TypeOK, Frame
<1>5. CASE HandleCancelled \/ HandleStart \/ HandleStatus \/ AfterExplicit
           \/ AfterCommand
  BY <1>2, <1>5 DEF HandleCancelled, HandleStart, HandleStatus, AfterExplicit,
                    AfterCommand
<1>6. CASE BeginExplicit \/ HandleExec
  BY <1>2, <1>4, <1>6 DEF BeginExplicit, HandleExec
<1>7. CASE SetDeadline \/ Launch
  BY <1>3, <1>7 DEF SetDeadline, Launch, TypeOK, Frame
<1>8. CASE LaunchFails \/ Recheck
  BY <1>2, <1>3, <1>8 DEF LaunchFails, CheckFails, Recheck, Unanswered
<1>9. CASE CheckFails \/ CheckEnds
  BY <1>2, <1>9 DEF CheckFails, CheckEnds
<1>10. CASE AfterWhoami
  BY <1>4, <1>9, <1>10 DEF AfterWhoami
<1>11. CASE AfterVault
  <2>1. CASE frame.outcome = "success" /\ frame.client # NoClient
    BY <1>4, <1>11, <2>1 DEF AfterVault
  <2>2. CASE frame.outcome = "success" /\ frame.client = NoClient
    BY <1>1, <1>11, <2>2, NamesAssumption
       DEF AfterVault, Unanswered, Idle, Places, PendingInOnePlace,
           FrameMatchesRequest, Pending, Queued, InUse, Running, Between
  <2> QED
    BY <1>9, <1>11, <2>1, <2>2 DEF AfterVault
<1>12. CASE Latch \/ ChildExits \/ ChildEnds \/ ChildTerminated
  BY <1>3, <1>12, ChildFrame DEF Latch, ChildExits, ChildEnds, ChildTerminated
<1> QED
  BY <1>5, <1>6, <1>7, <1>8, <1>10, <1>11, <1>12 DEF Work

LEMMA PlacesInit == Init => Places
BY NamesAssumption
   DEF Init, Places, PendingInOnePlace, FrameMatchesRequest, Pending, Queued,
       NoRequest, Kinds, Idle, InUse, Running, Between

LEMMA PlacesNext == TypeOK /\ Inductive /\ Places /\ [Next]_vars => Places'
<1>1. ASSUME Places, UNCHANGED vars PROVE Places'
  BY <1>1 DEF vars, Places, PendingInOnePlace, FrameMatchesRequest, Pending,
              Queued
<1> QED
  BY <1>1, PlacesOutside, PlacesLoop, PlacesWork DEF Next

\* No request is lost, answered twice or run twice.
THEOREM NoRequestLost == Spec => []PendingInOnePlace
<1>1. Places => PendingInOnePlace
  BY DEF Places
<1> QED
  BY <1>1, TypeInit, TypeNext, NextKnownInit, NextKnownNext, InductiveInit, InductiveNext, PlacesInit,
     PlacesNext, PTL DEF Spec

-----------------------------------------------------------------------------
(* What starts behind the hard limit.                                      *)

\* A request or maintenance check in progress is for an account.
LEMMA FrameAccount ==
    ASSUME TypeOK, Places, pc \in InUse
    PROVE  frame.account \in Accounts
<1>1. CASE frame.client = NoClient
  BY <1>1 DEF Places, FrameMatchesRequest
<1>2. CASE frame.client # NoClient
  <2>1. frame.client \in Clients
    BY <1>2 DEF TypeOK, Frame
  <2>2. Pending(frame.client)
    BY <2>1 DEF Places, PendingInOnePlace
  <2>3. request[frame.client] \in Request
    <3>1. request[frame.client] \in Request \cup {NoRequest, Connected}
      BY <2>1 DEF TypeOK
    <3> QED
      BY <2>2, <3>1 DEF Pending, NoRequest, Connected, Kinds
  <2> QED
    BY <1>2, <2>3 DEF Places, FrameMatchesRequest, Request
<1> QED
  BY <1>1, <1>2

\* A step of the thread that is not the end of an explicit probe leaves an
\* active record's hard limit alone and makes no record active.
LEMMA OnlyExplicitGrants ==
    ASSUME TypeOK, [Next]_vars, ~AfterExplicit, NEW a \in Accounts,
           records'[a].active
    PROVE  records[a].active /\ records'[a].hard = records[a].hard
<1>1. CASE records' = records
  BY <1>1
<1>2. CASE records' = Unexpired
  BY <1>2 DEF Unexpired, Required
<1>3. CASE records' = Invalidated
  BY <1>3 DEF Invalidated, Required
<1>4. CASE BeginExplicit
  BY <1>4 DEF BeginExplicit, Unexpired, Required
<1>5. CASE AfterVault
  BY <1>1, <1>3, <1>5 DEF AfterVault, CheckEnds, CheckFails, Active
<1>6. CASE \/ Connection \/ RequestStop \/ SendStop \/ Tick
           \/ UNCHANGED vars
  BY <1>1, <1>6 DEF Connection, Connect, HangUp, Submit, CancelBySignal,
     Disconnect, RequestStop, SendStop, Tick, vars
<1>7. CASE Loop \/ Ending
  BY <1>1, <1>2, <1>3, <1>7 DEF Loop, Ending, LeaveLoop, EnterLoop,
     TakeRequest, TakeStop, AwaitMessage, WaitTimesOut, Maintain, Drain,
     SetComplete, DropReceiver
<1>8. CASE HandleCancelled \/ HandleStart \/ HandleStatus \/ HandleExec
  BY <1>1, <1>2, <1>3, <1>8 DEF HandleCancelled, HandleStart, HandleStatus,
     HandleExec
<1>9. CASE \/ SetDeadline \/ Launch \/ LaunchFails \/ AfterWhoami \/ Recheck
           \/ AfterCommand
  BY <1>1, <1>2, <1>3, <1>9 DEF SetDeadline, Launch, LaunchFails, AfterWhoami,
     Recheck, AfterCommand, CheckEnds, CheckFails
<1>10. CASE Latch \/ ChildExits \/ ChildEnds \/ ChildTerminated
  BY <1>1, <1>10 DEF Latch, ChildExits, ChildEnds, ChildTerminated
<1> QED
  BY <1>4, <1>5, <1>6, <1>7, <1>8, <1>9, <1>10 DEF Next, Work


\* The end of a frame: the loop will look at the records.
LEMMA LimitFinish ==
    ASSUME LimitInductive, pc' = "top", now' = now, behind' = behind,
           \A a \in Accounts : records'[a].active =>
              records[a].active /\ records'[a].hard = records[a].hard
    PROVE  LimitInductive'
<1>1. ASSUME NEW a \in Accounts, records'[a].active, behind'[a] # 0
      PROVE  BehindLimit(a)'
  <2>1. BehindLimit(a) /\ records'[a].hard = records[a].hard
    BY <1>1 DEF LimitInductive
  <2> QED
    BY <2>1 DEF BehindLimit
<1>2. ~Admitted'
  BY DEF Admitted
<1> QED
  BY <1>1, <1>2 DEF LimitInductive

\* What goes on with nothing started behind any limit.
LEMMA LimitFresh ==
    ASSUME LimitInductive, behind' = behind,
           \A a \in Accounts : records'[a].active => behind[a] = 0,
           Admitted' => records'[frame'.account].active
    PROVE  LimitInductive'
BY DEF LimitInductive

\* A place at which something may have been started behind a limit.
LEMMA BehindPlaces ==
    ASSUME LimitInductive,
           pc \notin {"top", "drain", "whoami", "vault", "recheck", "command"},
           pc # "spawn" \/ frame.next # "vault",
           NEW a \in Accounts, records[a].active
    PROVE  behind[a] = 0
BY DEF LimitInductive, BehindLimit

\* A look at the records lets nothing through that is behind its limit.
LEMMA LookedAt ==
    ASSUME TypeOK, LimitInductive, NEW a \in Accounts, Unexpired[a].active
    PROVE  behind[a] = 0 /\ records[a].active
<1>1. records[a].active /\ ~(now >= records[a].hard)
  BY DEF Unexpired, Required
<1> QED
  BY <1>1 DEF LimitInductive, BehindLimit

\* Steps that leave the thread where it is.
LEMMA LimitStays ==
    ASSUME TypeOK, LimitInductive, pc' = pc, frame'.account = frame.account,
           frame'.next = frame.next, UNCHANGED <<records, behind>>,
           now' \in Nat, now' >= now
    PROVE  LimitInductive'
<1>1. Admitted' <=> Admitted
  BY DEF Admitted
<1>2. ASSUME NEW a \in Accounts, records[a].active, behind[a] # 0
      PROVE  BehindLimit(a)'
  <2>1. BehindLimit(a) /\ records[a].hard \in Nat /\ now \in Nat
    BY <1>2 DEF LimitInductive, TypeOK, Record
  <2>2. now' >= records[a].hard
    BY <2>1 DEF BehindLimit
  <2> QED
    BY <2>1, <2>2 DEF BehindLimit
<1> QED
  BY <1>1, <1>2 DEF LimitInductive

\* The start of a child.
LEMMA LimitLaunch ==
    ASSUME TypeOK, NextIsKnown, Places, LimitInductive, Launch
    PROVE  LimitInductive'
<1> DEFINE a == frame.account
           more == IF frame.next = "explicit" \/ Current(a) THEN 0 ELSE 1
<1>1. /\ pc = "spawn" /\ pc' = frame.next /\ frame.next \in Running
      /\ a \in Accounts /\ frame'.account = a
      /\ UNCHANGED <<now, records>>
  BY FrameAccount DEF Launch, NextIsKnown, Between, InUse, TypeOK, Frame
<1>2. behind' = [behind EXCEPT ![a] = @ + more]
  BY DEF Launch
<1>3. /\ behind \in [Accounts -> Nat] /\ now \in Nat /\ records[a].hard \in Nat
  BY <1>1 DEF TypeOK, Record
<1>4. frame.next # "explicit" => records[a].active
  BY <1>1 DEF LimitInductive, Admitted
<1>5. records[a].active /\ behind[a] # 0
        => now >= records[a].hard /\ behind[a] = 1 /\ frame.next = "vault"
  BY <1>1 DEF LimitInductive, BehindLimit
<1>6. behind'[a] = behind[a] + more
  BY <1>1, <1>2, <1>3
<1>7. CASE more = 0
  <2>1. behind' = behind
    BY <1>1, <1>2, <1>3, <1>7
  <2>2. records[a].active => behind[a] = 0
    BY <1>3, <1>4, <1>5, <1>7 DEF Current
  <2>3. ASSUME NEW b \in Accounts, records'[b].active PROVE behind[b] = 0
    BY <1>1, <2>2, <2>3 DEF LimitInductive, BehindLimit
  <2>4. Admitted' => records'[frame'.account].active
    BY <1>1, <1>4 DEF Admitted, Running
  <2> QED
    BY <2>1, <2>3, <2>4, LimitFresh
<1>8. CASE more = 1
  <2>1. frame.next # "explicit" /\ records[a].active /\ now >= records[a].hard
    BY <1>3, <1>4, <1>8 DEF Current
  <2>2. behind'[a] <= 2 /\ (frame.next # "vault" => behind'[a] = 1)
    BY <1>3, <1>5, <1>6, <1>8, <2>1
  <2>3. BehindLimit(a)'
    BY <1>1, <2>1, <2>2 DEF BehindLimit, Running
  <2>4. ASSUME NEW b \in Accounts, b # a
        PROVE  behind'[b] <= 2 /\ (records'[b].active => behind'[b] = 0)
    BY <1>1, <1>2, <1>3, <2>4 DEF LimitInductive, BehindLimit
  <2> QED
    BY <1>1, <2>1, <2>2, <2>3, <2>4 DEF LimitInductive
<1> HIDE DEF more
<1>9. more \in {0, 1}
  BY DEF more
<1> QED
  BY <1>7, <1>8, <1>9

\* The loop and its end.
LEMMA LimitLoop ==
    ASSUME TypeOK, LimitInductive, Loop \/ Ending
    PROVE  LimitInductive'
<1>1. CASE LeaveLoop \/ TakeStop \/ Drain
  <2>1. /\ pc' = "drain" /\ UNCHANGED <<now, records, behind>>
    BY <1>1 DEF LeaveLoop, TakeStop, Drain
  <2>2. ~Admitted'
    BY <2>1 DEF Admitted
  <2>3. ASSUME NEW a \in Accounts, BehindLimit(a) PROVE BehindLimit(a)'
    BY <2>1, <2>3 DEF BehindLimit
  <2> QED
    BY <2>1, <2>2, <2>3 DEF LimitInductive
<1>2. CASE EnterLoop
  BY <1>2, LookedAt, LimitFresh DEF EnterLoop, Admitted
<1>3. CASE TakeRequest \/ AwaitMessage \/ WaitTimesOut
  BY <1>3, BehindPlaces, LimitFresh
     DEF TakeRequest, AwaitMessage, WaitTimesOut, Admitted
<1>4. CASE Maintain
  <2>1. PICK a \in Accounts :
          Due(a) /\ frame' = [Idle EXCEPT !.account = a, !.next = "whoami"]
    BY <1>4 DEF Maintain
  <2>2. records'[frame'.account].active
    BY <1>4, <2>1 DEF Maintain, Due, Idle
  <2> QED
    BY <1>4, <2>2, BehindPlaces, LimitFresh DEF Maintain
<1>5. CASE SetComplete
  BY <1>5, LimitFresh DEF SetComplete, Invalidated, Required, Admitted
<1>6. CASE DropReceiver
  BY <1>6, BehindPlaces, LimitFresh DEF DropReceiver, Admitted
<1> QED
  BY <1>1, <1>2, <1>3, <1>4, <1>5, <1>6 DEF Loop, Ending

\* handle, up to the first child process.
LEMMA LimitHandle ==
    ASSUME TypeOK, Places, LimitInductive, [Next]_vars,
           HandleCancelled \/ HandleStart \/ BeginExplicit \/ HandleStatus
             \/ HandleExec
    PROVE  LimitInductive'
<1>1. /\ pc = "handle" /\ now' = now /\ behind' = behind /\ ~AfterExplicit
      /\ frame.account \in Accounts
  BY FrameAccount DEF HandleCancelled, HandleStart, BeginExplicit,
     HandleStatus, HandleExec, Handling, AfterExplicit, Returned, InUse
<1>2. ASSUME NEW r, Finish(r) PROVE LimitInductive'
  BY <1>1, <1>2, LimitFinish, OnlyExplicitGrants DEF Finish
<1>3. ASSUME NEW a \in Accounts, records'[a].active PROVE behind[a] = 0
  BY <1>1, <1>3, OnlyExplicitGrants, BehindPlaces
<1>4. CASE HandleCancelled \/ HandleStart \/ HandleStatus
  BY <1>2, <1>4 DEF HandleCancelled, HandleStart, HandleStatus
<1>5. CASE BeginExplicit
  <2>1. ~Admitted'
    BY <1>5 DEF BeginExplicit, GoOn, Admitted, TypeOK, Frame
  <2> QED
    BY <1>1, <1>3, <2>1, LimitFresh
<1>6. CASE GoOn("deadline", "whoami") /\ HandleExec
  <2>1. records'[frame'.account].active
    BY <1>1, <1>6 DEF HandleExec, GoOn, Finish, TypeOK, Frame
  <2> QED
    BY <1>1, <1>3, <2>1, LimitFresh
<1> QED
  BY <1>2, <1>4, <1>5, <1>6 DEF HandleExec

\* From the start of a child on.
LEMMA LimitWork ==
    ASSUME TypeOK, NextIsKnown, Places, LimitInductive, [Next]_vars,
           \/ SetDeadline \/ LaunchFails \/ AfterExplicit \/ AfterWhoami
           \/ AfterVault \/ Recheck \/ AfterCommand
    PROVE  LimitInductive'
<1>1. now' = now
  BY DEF SetDeadline, LaunchFails, AfterExplicit, AfterWhoami, AfterVault,
     Recheck, AfterCommand, Returned
<1>2. ASSUME NEW r, Finish(r), behind' = behind, ~AfterExplicit
      PROVE  LimitInductive'
  BY <1>1, <1>2, LimitFinish, OnlyExplicitGrants DEF Finish
<1>3. CASE SetDeadline
  <2>1. /\ pc = "deadline" /\ pc' = "spawn" /\ frame'.next = frame.next
        /\ frame'.account = frame.account /\ UNCHANGED <<records, behind>>
    BY <1>3 DEF SetDeadline, TypeOK, Frame
  <2> QED
    BY <2>1, BehindPlaces, LimitFresh DEF Admitted, LimitInductive
<1>4. CASE LaunchFails \/ CheckEnds \/ AfterCommand
  <2>1. behind' = behind /\ \E r : Finish(r)
    BY <1>4 DEF LaunchFails, CheckEnds, CheckFails, AfterCommand
  <2>2. CASE ~AfterExplicit
    BY <1>2, <2>1, <2>2
  <2>3. CASE AfterExplicit
    <3>1. pc = "explicit" /\ pc' = "top" /\ ~Admitted'
      BY <2>3 DEF AfterExplicit, Returned, Finish, Admitted
    <3>2. ~LaunchFails /\ ~AfterCommand
      BY <3>1 DEF LaunchFails, AfterCommand, Returned
    <3>3. records' = records \/ records' = Invalidated
      BY <1>4, <3>2 DEF CheckEnds, CheckFails
    <3>4. ASSUME NEW a \in Accounts, records'[a].active PROVE behind[a] = 0
      BY <3>1, <3>3, <3>4, BehindPlaces DEF Invalidated, Required
    <3> QED
      BY <2>1, <3>1, <3>4, LimitFresh
  <2> QED
    BY <2>2, <2>3
<1>5. CASE AfterExplicit
  <2>1. pc = "explicit" /\ pc' = "top" /\ ~Admitted' /\ frame.account \in Accounts
    BY <1>5, FrameAccount DEF AfterExplicit, Returned, Finish, Admitted, InUse, Running
  <2>2. ASSUME NEW a \in Accounts, records[a].active PROVE behind[a] = 0
    BY <2>1, <2>2, BehindPlaces
  <2>3. ASSUME NEW a \in Accounts
        PROVE  behind'[a] <= 2 /\ (records'[a].active => behind'[a] = 0)
    <3>1. behind[a] <= 2 /\ behind \in [Accounts -> Nat]
      BY DEF LimitInductive, TypeOK
    <3>2. CASE frame.outcome = "success" /\ a = frame.account
      BY <1>5, <3>1, <3>2 DEF AfterExplicit, GrantIsNew
    <3>3. CASE frame.outcome # "success" \/ a # frame.account
      <4>1. behind'[a] = behind[a]
        BY <1>5, <3>1, <3>3 DEF AfterExplicit, GrantIsNew
      <4>2. records'[a] = records[a]
        BY <1>5, <3>3 DEF AfterExplicit, TypeOK
      <4> QED
        BY <2>2, <3>1, <4>1, <4>2
    <3> QED
      BY <3>2, <3>3
  <2> QED
    BY <2>1, <2>3 DEF LimitInductive
<1>6. CASE AfterWhoami /\ GoOn("spawn", "vault")
  <2>1. /\ pc = "whoami" /\ pc' = "spawn" /\ frame'.next = "vault"
        /\ frame'.account = frame.account /\ UNCHANGED <<records, behind>>
    BY <1>6 DEF AfterWhoami, Returned, GoOn, CheckEnds, CheckFails, Finish, TypeOK, Frame
  <2>2. ASSUME NEW a \in Accounts, BehindLimit(a) PROVE BehindLimit(a)'
    BY <1>1, <2>1, <2>2 DEF BehindLimit
  <2> QED
    BY <2>1, <2>2 DEF LimitInductive, Admitted
<1>7. CASE AfterVault /\ frame.outcome = "success"
  <2>1. /\ pc = "vault" /\ behind' = behind
        /\ \A a \in Accounts : /\ records'[a].active <=> records[a].active
                               /\ records'[a].hard = records[a].hard
    BY <1>7 DEF AfterVault, Returned, Active
  <2>2. frame.account \in Accounts
    BY <2>1, FrameAccount DEF InUse, Running
  <2>3. CASE pc' = "top"
    BY <1>1, <2>1, <2>3, LimitFinish
  <2>4. CASE GoOn("recheck", "command")
    <3>1. pc' = "recheck" /\ frame'.account = frame.account
      BY <2>4 DEF GoOn, TypeOK, Frame
    <3>2. ASSUME NEW a \in Accounts, BehindLimit(a) PROVE BehindLimit(a)'
      BY <1>1, <2>1, <3>1, <3>2 DEF BehindLimit
    <3> QED
      BY <2>1, <2>2, <3>1, <3>2 DEF LimitInductive, Admitted
  <2> QED
    BY <1>7, <2>3, <2>4 DEF AfterVault
<1>8. CASE Recheck
  <2>1. records' = Unexpired /\ behind' = behind /\ pc = "recheck"
    BY <1>8 DEF Recheck
  <2>2. CASE Finish("authorizationRequired")
    BY <1>2, <2>1, <2>2 DEF AfterExplicit, Returned
  <2>3. CASE Unexpired[frame.account].active /\ UNCHANGED frame
    BY <2>1, <2>3, LookedAt, LimitFresh
  <2> QED
    BY <1>8, <2>2, <2>3 DEF Recheck
<1> QED
  BY <1>3, <1>4, <1>5, <1>6, <1>7, <1>8 DEF AfterWhoami, AfterVault

LEMMA LimitInit == Init => LimitInductive
BY DEF Init, LimitInductive, Admitted

LEMMA LimitNext ==
    TypeOK /\ NextIsKnown /\ Places /\ LimitInductive /\ [Next]_vars
      => LimitInductive'
<1> SUFFICES ASSUME TypeOK, NextIsKnown, Places, LimitInductive, [Next]_vars
             PROVE  LimitInductive'
  OBVIOUS
<1>1. CASE Connection \/ RequestStop \/ SendStop \/ Tick \/ UNCHANGED vars
  BY <1>1, LimitStays DEF Connection, Connect, HangUp, Submit, CancelBySignal,
     Disconnect, RequestStop, SendStop, Tick, vars, TypeOK
<1>2. CASE Latch \/ ChildExits \/ ChildEnds \/ ChildTerminated
  <2>1. now' = now /\ pc' = pc /\ UNCHANGED <<records, behind>>
    BY <1>2 DEF Latch, ChildExits, ChildEnds, ChildTerminated
  <2>2. frame'.account = frame.account /\ frame'.next = frame.next
    BY <1>2, ChildFrame
  <2>3. now' \in Nat /\ now' >= now
    BY <2>1 DEF TypeOK
  <2> QED
    BY <2>1, <2>2, <2>3, LimitStays
<1> QED
  BY <1>1, <1>2, LimitLaunch, LimitLoop, LimitHandle, LimitWork DEF Next, Work

\* However the clock runs between the looks and the starts, what still starts for
\* an account behind its hard limit is one check, or one command.
THEOREM FewBehindLimit == Spec => []FewChildrenBehindLimit
<1>1. TypeOK /\ Places /\ LimitInductive => FewChildrenBehindLimit
  <2> SUFFICES ASSUME TypeOK, Places, LimitInductive, NEW a \in Accounts,
                      pc = "command", frame.account = a
               PROVE  behind[a] <= 1
    BY DEF FewChildrenBehindLimit, LimitInductive
  <2>1. records[a].active /\ behind[a] \in Nat
    BY DEF LimitInductive, Admitted, TypeOK
  <2> QED
    BY <2>1 DEF LimitInductive, BehindLimit
<1> QED
  BY <1>1, TypeInit, TypeNext, NextKnownInit, NextKnownNext, InductiveInit,
     InductiveNext, PlacesInit, PlacesNext, LimitInit, LimitNext, PTL DEF Spec

-----------------------------------------------------------------------------
(* The records: how they become active, stay active and are revoked.       *)

\* From the handling of its request on until the explicit probe returns its account
\* is not authorized, and the probe's deadline counts from the reading of the clock
\* that the hard limit counts from.
ExplicitProbe ==
    /\ pc = "explicit" \/ frame.next = "explicit"
         => ~records[frame.account].active
    /\ pc = "explicit" \/ (pc = "spawn" /\ frame.next = "explicit")
         => frame.deadline = frame.authorized + ExplicitTimeout

LEMMA ExplicitProbeInit == Init => ExplicitProbe
BY DEF Init, ExplicitProbe, Idle

LEMMA ExplicitProbeNext ==
    TypeOK /\ NextIsKnown /\ Places /\ ExplicitProbe /\ [Next]_vars
      => ExplicitProbe'
<1> SUFFICES ASSUME TypeOK, NextIsKnown, Places, ExplicitProbe, [Next]_vars
             PROVE  ExplicitProbe'
  OBVIOUS
<1>1. ASSUME UNCHANGED <<pc, records>>, frame'.account = frame.account,
             frame'.next = frame.next, frame'.authorized = frame.authorized,
             frame'.deadline = frame.deadline
      PROVE  ExplicitProbe'
  BY <1>1 DEF ExplicitProbe
<1>2. ASSUME pc' # "explicit", frame'.next # "explicit" PROVE ExplicitProbe'
  BY <1>2 DEF ExplicitProbe
<1>3. ASSUME NEW r, Finish(r) PROVE ExplicitProbe'
  BY <1>2, <1>3 DEF Finish, Idle
<1>4. ASSUME NEW place \in {"deadline", "spawn", "recheck"},
             NEW kind \in {"whoami", "vault", "command"}, GoOn(place, kind)
      PROVE  ExplicitProbe'
  BY <1>2, <1>4 DEF GoOn, TypeOK, Frame
<1>5. CASE Connection \/ RequestStop \/ SendStop \/ Tick \/ UNCHANGED vars
  BY <1>1, <1>5 DEF Connection, Connect, HangUp, Submit, CancelBySignal,
     Disconnect, RequestStop, SendStop, Tick, vars
<1>6. CASE Latch \/ ChildExits \/ ChildEnds \/ ChildTerminated
  BY <1>1, <1>6, ChildFrame DEF Latch, ChildExits, ChildEnds, ChildTerminated
<1>7. CASE Loop \/ Ending
  <2>1. frame.next # "explicit"
    BY <1>7 DEF Loop, Ending, LeaveLoop, EnterLoop, TakeRequest, TakeStop,
       AwaitMessage, WaitTimesOut, Maintain, Drain, SetComplete, DropReceiver,
       NextIsKnown, Between
  <2> QED
    BY <1>2, <1>7, <2>1 DEF Loop, Ending, LeaveLoop, EnterLoop, TakeRequest,
       TakeStop, AwaitMessage, WaitTimesOut, Maintain, Drain, SetComplete,
       DropReceiver, Idle
<1>8. CASE HandleCancelled \/ HandleStart \/ HandleStatus \/ HandleExec
  BY <1>3, <1>4, <1>8
     DEF HandleCancelled, HandleStart, HandleStatus, HandleExec
<1>9. CASE BeginExplicit
  <2>1. frame.account \in Accounts /\ frame'.account = frame.account
    BY <1>9, FrameAccount DEF BeginExplicit, Handling, GoOn, TypeOK, Frame, InUse
  <2>2. ~records'[frame.account].active
    BY <1>9, <2>1 DEF BeginExplicit, Unexpired, Required
  <2> QED
    BY <1>9, <2>1, <2>2 DEF BeginExplicit, GoOn, ExplicitProbe
<1>10. CASE SetDeadline
  <2>1. /\ pc' = "spawn" /\ UNCHANGED records
        /\ frame'.account = frame.account /\ frame'.next = frame.next
        /\ frame.next = "explicit" =>
             /\ frame'.authorized = now
             /\ frame'.deadline = now + ExplicitTimeout
    BY <1>10 DEF SetDeadline, Limit, TypeOK, Frame
  <2> QED
    BY <2>1 DEF ExplicitProbe
<1>11. CASE Launch
  <2>1. /\ pc = "spawn" /\ pc' = frame.next /\ frame'.next = "none"
        /\ frame'.account = frame.account /\ UNCHANGED records
        /\ frame'.authorized = frame.authorized
        /\ frame'.deadline = frame.deadline
    BY <1>11 DEF Launch, TypeOK, Frame
  <2> QED
    BY <2>1 DEF ExplicitProbe
<1>12. CASE LaunchFails \/ AfterExplicit \/ CheckEnds \/ AfterCommand
  BY <1>3, <1>12 DEF LaunchFails, AfterExplicit, CheckEnds, CheckFails, AfterCommand
<1>13. CASE AfterWhoami
  BY <1>4, <1>12, <1>13 DEF AfterWhoami
<1>14. CASE AfterVault
  BY <1>2, <1>4, <1>12, <1>14 DEF AfterVault, Idle
<1>15. CASE Recheck
  <2>1. CASE pc' = "deadline" /\ UNCHANGED frame
             /\ Unexpired[frame.account].active
    <3>1. frame.account \in Accounts
      BY <1>15, FrameAccount DEF Recheck, InUse, Between
    <3>2. frame.next # "explicit"
      BY <2>1, <3>1 DEF ExplicitProbe, Unexpired, Required
    <3> QED
      BY <1>2, <2>1, <3>2
  <2> QED
    BY <1>3, <1>15, <2>1 DEF Recheck
<1> QED
  BY <1>5, <1>6, <1>7, <1>8, <1>9, <1>10, <1>11, <1>12, <1>13, <1>14, <1>15
     DEF Next, Work

\* No check and no later start moves the hard limit of an authorization.
THEOREM HardLimitIsFixed == Spec => HardLimitNeverMoves
<1>1. ASSUME TypeOK, ExplicitProbe, AfterExplicit, NEW a \in Accounts,
             records'[a].active
      PROVE  \/ records[a].active /\ records'[a].hard = records[a].hard
             \/ /\ pc = "explicit" /\ frame.account = a
                /\ ~records[a].active
                /\ records'[a].hard
                     = (frame.deadline - ExplicitTimeout) + HardLimit
  <2>1. /\ pc = "explicit"
        /\ ~records[frame.account].active
        /\ frame.deadline - ExplicitTimeout = frame.authorized
    BY <1>1, TimingAssumption
       DEF AfterExplicit, Returned, ExplicitProbe, TypeOK, Frame
  <2> QED
    BY <1>1, <2>1 DEF AfterExplicit, Active, TypeOK
<1>2. TypeOK /\ ExplicitProbe /\ [Next]_vars
        => [\A a \in Accounts : records'[a].active =>
              \/ records[a].active /\ records'[a].hard = records[a].hard
              \/ /\ pc = "explicit" /\ frame.account = a
                 /\ ~records[a].active
                 /\ records'[a].hard
                      = (frame.deadline - ExplicitTimeout) + HardLimit]_vars
  BY <1>1, OnlyExplicitGrants
<1> QED
  BY <1>2, TypeInit, TypeNext, NextKnownInit, NextKnownNext, InductiveInit, InductiveNext, PlacesInit,
     PlacesNext, ExplicitProbeInit, ExplicitProbeNext, PTL
     DEF Spec, HardLimitNeverMoves

\* A check that failed leaves no account authorized.
THEOREM FailureRevokesAll == Spec => FailedCheckRevokesAll
<1>1. ASSUME NextIsKnown, Next, {pc, frame.next} \cap {"whoami", "vault"} # {},
             pc' = "top", NEW a \in Accounts, records'[a].active
      PROVE  \/ frame.outcome \in {"cancelled", "shutdown"}
             \/ /\ pc = "vault" /\ frame.client = NoClient
                /\ frame.outcome = "success"
  <2>1. pc \in Between \cup {"whoami", "vault"}
    BY <1>1 DEF NextIsKnown
  <2>2. ~CheckFails
    BY <1>1 DEF CheckFails, Invalidated, Required
  <2>3. \/ AfterWhoami \/ AfterVault \/ LaunchFails
        \/ Recheck /\ frame.next \in {"whoami", "vault"}
    <3>1. pc # pc' /\ pc \notin {"receive", "wait", "handle", "drain", "complete"}
      BY <1>1, <2>1 DEF Between
    <3>2. ~(Connection \/ RequestStop \/ SendStop \/ Tick \/ Loop \/ Ending)
      BY <1>1, <3>1 DEF Connection, Connect, HangUp, Submit, CancelBySignal,
         Disconnect, RequestStop, SendStop, Tick, Loop, Ending, LeaveLoop,
         EnterLoop, TakeRequest, TakeStop, AwaitMessage, WaitTimesOut, Maintain,
         Drain, SetComplete, DropReceiver
    <3>3. ~(HandleCancelled \/ HandleStart \/ BeginExplicit \/ HandleStatus
              \/ HandleExec \/ Latch \/ ChildExits \/ ChildEnds \/ ChildTerminated)
      BY <3>1 DEF HandleCancelled, HandleStart, BeginExplicit, HandleStatus,
         HandleExec, Handling, Latch, ChildExits, ChildEnds, ChildTerminated
    <3>4. ~(AfterExplicit \/ AfterCommand)
      BY <2>1 DEF AfterExplicit, AfterCommand, Returned, Between
    <3>5. ~(SetDeadline \/ Launch)
      BY <1>1 DEF SetDeadline, Launch
    <3>6. Recheck => frame.next \in {"whoami", "vault"}
      BY <1>1 DEF Recheck
    <3> QED
      BY <1>1, <3>2, <3>3, <3>4, <3>5, <3>6 DEF Next, Work
  <2> QED
    BY <1>1, <2>1, <2>2, <2>3
       DEF AfterWhoami, AfterVault, LaunchFails, Returned, CheckEnds, GoOn, Between
<1>2. NextIsKnown /\ [Next]_vars
        => [(/\ {pc, frame.next} \cap {"whoami", "vault"} # {} /\ pc' = "top"
             /\ \E a \in Accounts : records'[a].active)
            => \/ frame.outcome \in {"cancelled", "shutdown"}
               \/ /\ pc = "vault" /\ frame.client = NoClient
                  /\ frame.outcome = "success"]_vars
  BY <1>1
<1> QED
  BY <1>2, TypeInit, TypeNext, NextKnownInit, NextKnownNext, PTL
     DEF Spec, FailedCheckRevokesAll

-----------------------------------------------------------------------------
(* What the clients are told.                                              *)

\* Only a request that a connection submitted is handled.
Served == pc = "handle" => frame.client \in Clients

LEMMA ServedInit == Init => Served
  BY DEF Init, Served

LEMMA ServedNext == TypeOK /\ Served /\ [Next]_vars => Served'
<1> SUFFICES ASSUME TypeOK, Served, [Next]_vars, pc' = "handle"
             PROVE  frame'.client \in Clients
  BY DEF Served
<1>1. CASE TakeRequest
  <2>1. Head(queue) \in Clients
    BY <1>1 DEF TakeRequest, TypeOK
  <2> QED
    BY <1>1, <2>1 DEF TakeRequest, Idle
<1>2. CASE UNCHANGED <<pc, frame>>
  BY <1>2 DEF Served
<1>3. CASE Connection \/ RequestStop \/ SendStop \/ Tick \/ UNCHANGED vars
  BY <1>2, <1>3 DEF Connection, Connect, HangUp, Submit, CancelBySignal,
     Disconnect, RequestStop, SendStop, Tick, vars
<1>4. CASE (Loop /\ ~TakeRequest) \/ Ending
  BY <1>2, <1>4 DEF Loop, Ending, LeaveLoop, EnterLoop, TakeStop,
     AwaitMessage, WaitTimesOut, Maintain, Drain, SetComplete, DropReceiver
<1>5. CASE \/ HandleCancelled \/ HandleStart \/ BeginExplicit \/ HandleStatus
           \/ HandleExec
  BY <1>5 DEF HandleCancelled, HandleStart, BeginExplicit, HandleStatus,
     HandleExec, Finish, GoOn
<1>6. CASE \/ SetDeadline \/ Launch \/ LaunchFails \/ AfterExplicit
           \/ AfterWhoami \/ AfterVault \/ Recheck \/ AfterCommand
  BY <1>6 DEF SetDeadline, Launch, LaunchFails, AfterExplicit, AfterWhoami,
     AfterVault, Recheck, AfterCommand, CheckFails, CheckEnds, Finish, GoOn,
     TypeOK, Frame, Running
<1>7. CASE Latch \/ ChildExits \/ ChildEnds \/ ChildTerminated
  BY <1>7 DEF Latch, ChildExits, ChildEnds, ChildTerminated, ChildAlive, Running
<1> QED
  BY <1>1, <1>3, <1>4, <1>5, <1>6, <1>7 DEF Next, Work

\* A record that is active after the expiry has not reached its hard limit.
LEMMA UnexpiredIsCurrent ==
    ASSUME TypeOK, NEW a \in Accounts, Unexpired[a].active
    PROVE  now < Unexpired[a].hard
<1>1. records[a].hard \in Nat /\ now \in Nat
  BY DEF TypeOK, Record
<1> QED
  BY <1>1 DEF Unexpired, Required

\* What `status` and `start` say of an account is true when they say it.
THEOREM AnswersAreCurrent == Spec => ActiveAnswersAreCurrent
<1>1. ASSUME TypeOK, Places, Served, Next,
             pc = "handle", pc' = "top", answer'[frame.client] \in {"active", "ok"}
      PROVE  /\ records'[frame.account].active
             /\ now < records'[frame.account].hard
  <2>1. /\ frame.client \in Clients
        /\ frame.client # NoClient
        /\ frame.account \in Accounts
        /\ frame.account = request[frame.client].account
    BY <1>1, FrameAccount, NamesAssumption
       DEF Served, Places, FrameMatchesRequest, InUse
  <2>2. HandleStart \/ HandleStatus
    <3>1. ASSUME NEW r, Finish(r)
          PROVE  answer'[frame.client] = r
      BY <2>1, <3>1 DEF Finish, Answer
    <3>2. ~(HandleCancelled \/ BeginExplicit \/ HandleExec)
      BY <1>1, <3>1 DEF HandleCancelled, BeginExplicit, HandleExec,
         CancelReply, GoOn
    <3>3. ~(Connection \/ RequestStop \/ SendStop \/ Tick \/ Loop \/ Ending)
      BY <1>1 DEF Connection, Connect, HangUp, Submit, CancelBySignal,
         Disconnect, RequestStop, SendStop, Tick, Loop, Ending, LeaveLoop,
         EnterLoop, TakeRequest, TakeStop, AwaitMessage, WaitTimesOut,
         Maintain, Drain, SetComplete, DropReceiver
    <3>4. ~(\/ SetDeadline \/ Launch \/ LaunchFails \/ AfterExplicit
            \/ AfterWhoami \/ AfterVault \/ Recheck \/ AfterCommand
            \/ Latch \/ ChildExits \/ ChildEnds \/ ChildTerminated)
      BY <1>1 DEF SetDeadline, Launch, LaunchFails, AfterExplicit, AfterWhoami,
         AfterVault, Recheck, AfterCommand, Returned, Latch, ChildExits,
         ChildEnds, ChildTerminated
    <3> QED
      BY <1>1, <3>2, <3>3, <3>4 DEF Next, Work
  <2>3. records' = Unexpired /\ Unexpired[frame.account].active
    BY <1>1, <2>1, <2>2 DEF HandleStart, HandleStatus, Finish, Answer
  <2> QED
    BY <1>1, <2>1, <2>3, UnexpiredIsCurrent
<1>2. TypeOK /\ Places /\ Served /\ [Next]_vars
        => [pc = "handle" /\ pc' = "top" /\ answer'[frame.client] \in {"active", "ok"}
            => /\ records'[frame.account].active
               /\ now < records'[frame.account].hard]_vars
  BY <1>1
<1> QED
  BY <1>2, TypeInit, TypeNext, NextKnownInit, NextKnownNext, InductiveInit, InductiveNext, PlacesInit,
     PlacesNext, ServedInit, ServedNext, PTL DEF Spec, ActiveAnswersAreCurrent

-----------------------------------------------------------------------------
(* What lasts.                                                             *)

LEMMA ShutdownStays == TypeOK /\ [Next]_vars => (shutdown => shutdown')
BY DEF TypeOK, Next, vars, Connection, Connect, HangUp, Submit, CancelBySignal, Disconnect,
   RequestStop, SendStop, Tick, Loop, LeaveLoop, EnterLoop, TakeRequest, TakeStop,
   AwaitMessage, WaitTimesOut, Maintain, Work, Handling, HandleCancelled, HandleStart,
   BeginExplicit, HandleStatus, HandleExec, SetDeadline, Launch, LaunchFails,
   AfterExplicit, AfterWhoami, AfterVault, Recheck, AfterCommand, Returned, CheckFails, CheckEnds, Ending, Drain,
   SetComplete, DropReceiver, Latch, ChildExits, ChildEnds, ChildTerminated

\* Nobody takes a stop back: StopCompletes says that the flag leads to the executor's
\* end (broker.rs, shutdown).
THEOREM StopLasts ==
    Spec => (StopCompletes <=> (StopFairness => (shutdown ~> Complete)))
BY TypeCorrect, ShutdownStays, PTL DEF Spec, StopCompletes
=============================================================================
