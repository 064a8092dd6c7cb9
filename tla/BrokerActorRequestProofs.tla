----------------------- MODULE BrokerActorRequestProofs -----------------------
(***************************************************************************)
(* The executor serves every connection's requests as RequestContract      *)
(* says, and takes its messages as ChannelContract says, for every value   *)
(* of the constants.                                                       *)
(***************************************************************************)
EXTENDS BrokerActorRefinement, BrokerActorProofs

RequestStep(c) == [Requests(c)!Next]_(Requests(c)!vars)

\* A control says something only of a request without an answer, and names a
\* signal only of an exec.
Controlled ==
    \A c \in Clients :
        /\ control[c] # "live" => Pending(c)
        /\ control[c] = "signal" => request[c].kind = "exec"

\* The child that runs or ran last, or that is to be started.
Kind == IF pc \in Between THEN frame.next ELSE pc

\* An explicit probe serves a warned start; a check or a command that serves a
\* connection serves its exec.
Kinded ==
    /\ pc = "recheck" => frame.next = "command"
    /\ Kind \in {"explicit", "command"} => frame.client \in Clients
    /\ Kind = "explicit" => request[frame.client].kind = "warnedStart"
    /\ Kind \in {"whoami", "vault", "command"} /\ frame.client # NoClient
       => request[frame.client].kind = "exec"

\* A run that is being terminated for a reason, or was, has the reason, and the
\* loop ends by shutdown only.
Caused ==
    /\ pc \in {"drain", "complete", "closed"} => shutdown
    /\ pc \in Running /\ "cancelled" \in {frame.latch, frame.outcome}
       => Cancelled(frame.client)
    /\ pc \in Running /\ "shutdown" \in {frame.latch, frame.outcome} => shutdown

RInv == /\ TypeOK /\ NextIsKnown /\ Inductive /\ Places
        /\ Served /\ Controlled /\ Kinded /\ Caused

-----------------------------------------------------------------------------
(* The bars.                                                               *)

\* A connection that waits for an answer.
LEMMA PendingBars ==
    ASSUME NEW c \in Clients
    PROVE  /\ Pending(c) =>
                /\ controlBar[c] = control[c] /\ replyBar[c] = "none"
                /\ stageBar[c] = IF frame.client # c \/ pc = "handle" THEN "queued"
                                 ELSE IF pc = "command" THEN StageOfRun ELSE "begun"
           /\ ~Pending(c) =>
                /\ controlBar[c] = "live" /\ replyBar[c] = ReplyOf(answer[c])
                /\ stageBar[c] = IF answer[c] = "none" THEN "none" ELSE "replied"
                /\ execBar[c] = FALSE
           /\ execBar[c] = (request[c].kind = "exec")
BY DEF controlBar, replyBar, stageBar, execBar, Pending, Kinds

LEMMA PendingBarsNext ==
    ASSUME NEW c \in Clients
    PROVE  /\ Pending(c)' =>
                /\ controlBar'[c] = control'[c] /\ replyBar'[c] = "none"
                /\ stageBar'[c] = IF frame'.client # c \/ pc' = "handle" THEN "queued"
                                  ELSE IF pc' = "command" THEN StageOfRun' ELSE "begun"
           /\ ~Pending(c)' =>
                /\ controlBar'[c] = "live" /\ replyBar'[c] = ReplyOf(answer'[c])
                /\ stageBar'[c] = IF answer'[c] = "none" THEN "none" ELSE "replied"
                /\ execBar'[c] = FALSE
           /\ execBar'[c] = (request'[c].kind = "exec")
BY DEF controlBar, replyBar, stageBar, execBar, Pending, Kinds

\* Nothing happens to a request, or the flag is set.
LEMMA QuietRequest ==
    ASSUME NEW c \in Clients, shutdown' \in {shutdown, TRUE},
           execBar'[c] = execBar[c], controlBar'[c] = controlBar[c],
           stageBar'[c] = stageBar[c], replyBar'[c] = replyBar[c]
    PROVE  RequestStep(c)
BY DEF RequestStep, Requests!Next, Requests!ShutDown, Requests!vars

\* A connection without a request may have its answer forgotten.
LEMMA IdleRequest ==
    ASSUME NEW c \in Clients, ~Pending(c), ~Pending(c)',
           \/ answer'[c] = answer[c] /\ shutdown' \in {shutdown, TRUE}
           \/ answer'[c] = "none" /\ UNCHANGED shutdown
    PROVE  RequestStep(c)
<1>1. CASE answer'[c] = answer[c] /\ shutdown' \in {shutdown, TRUE}
  <2>1. execBar'[c] = execBar[c] /\ controlBar'[c] = controlBar[c]
    <3>1. execBar[c] = FALSE /\ controlBar[c] = "live"
      BY PendingBars
    <3>2. execBar'[c] = FALSE /\ controlBar'[c] = "live"
      BY PendingBarsNext
    <3> QED
      BY <3>1, <3>2
  <2>2. stageBar'[c] = stageBar[c]
    BY <1>1 DEF stageBar
  <2>3. replyBar'[c] = replyBar[c]
    BY <1>1 DEF replyBar
  <2> QED
    BY <1>1, <2>1, <2>2, <2>3, QuietRequest
<1>2. CASE answer'[c] = "none" /\ answer[c] # "none" /\ UNCHANGED shutdown
  <2>1. execBar[c] = FALSE /\ controlBar[c] = "live" /\ stageBar[c] = "replied"
    BY <1>2, PendingBars
  <2>2. /\ execBar'[c] = FALSE /\ controlBar'[c] = "live"
        /\ stageBar'[c] = "none" /\ replyBar'[c] = ReplyOf("none")
    BY <1>2, PendingBarsNext
  <2> QED
    BY <1>2, <2>1, <2>2 DEF RequestStep, Requests!Next, Requests!Forget, ReplyOf
<1> QED
  BY <1>1, <1>2

\* A request that is answered with what it may be answered from where it is.
LEMMA AnsweredRequest ==
    ASSUME TypeOK, NEW cs, NEW r \in Replies, Answer(cs, r), UNCHANGED shutdown,
           NEW c \in Clients, c \in cs, Pending(c),
           ReplyOf(r) \in Requests(c)!Replies
    PROVE  RequestStep(c)
<1>1. answer'[c] = r /\ request'[c] \in {Connected, NoRequest}
  BY DEF Answer
<1>2. ~Pending(c)' /\ r # "none"
  BY <1>1 DEF Pending, Connected, NoRequest, Kinds, Replies
<1> QED
  BY <1>1, <1>2, PendingBarsNext
     DEF RequestStep, Requests!Next, Requests!Serve, Requests!Reply
-----------------------------------------------------------------------------
(* What a request rests on is kept.                                        *)

LEMMA ControlledNext == RInv /\ [Next]_vars => Controlled'
<1> SUFFICES ASSUME RInv, [Next]_vars PROVE Controlled'
  OBVIOUS
<1>t. TypeOK /\ Controlled
  BY DEF RInv
<1>1. ASSUME NEW cs, NEW r, Answer(cs, r) PROVE Controlled'
  <2>1. ASSUME NEW c \in Clients, c \notin cs
        PROVE  request'[c] = request[c] /\ control'[c] = control[c]
    BY <1>1, <2>1 DEF Answer
  <2>2. ASSUME NEW c \in Clients, c \in cs PROVE control'[c] = "live"
    BY <1>1, <2>2 DEF Answer
  <2> QED
    BY <1>t, <2>1, <2>2 DEF Controlled, Pending
<1>2. CASE UNCHANGED <<request, control>>
  BY <1>t, <1>2 DEF Controlled, Pending
<1>3. ASSUME NEW c \in Clients, ~Pending(c), UNCHANGED control,
             \E r : request' = [request EXCEPT ![c] = r]
      PROVE  Controlled'
  <2>1. control[c] = "live"
    BY <1>t, <1>3 DEF Controlled
  <2>2. \A d \in Clients : d # c => request'[d] = request[d]
    BY <1>t, <1>3 DEF TypeOK
  <2> QED
    BY <1>t, <1>3, <2>1, <2>2 DEF Controlled, Pending
<1>4. ASSUME NEW c \in Clients, Connect(c) \/ HangUp(c) \/ Submit(c)
      PROVE  Controlled'
  <2>1. ~Pending(c)
    BY <1>4 DEF Connect, HangUp, Submit, Pending, NoRequest, Connected, Kinds
  <2>2. UNCHANGED control /\ \E r : request' = [request EXCEPT ![c] = r]
    BY <1>4 DEF Connect, HangUp, Submit
  <2> QED
    BY <1>3, <2>1, <2>2
<1>5. ASSUME NEW c \in Clients, CancelBySignal(c) \/ Disconnect(c)
      PROVE  Controlled'
  <2>1. /\ Pending(c) /\ UNCHANGED request
        /\ \E s : control' = [control EXCEPT ![c] = s]
        /\ control'[c] = "signal" => request[c].kind = "exec"
    BY <1>t, <1>5 DEF CancelBySignal, Disconnect, TypeOK
  <2>2. \A d \in Clients : d # c => control'[d] = control[d]
    BY <1>t, <2>1 DEF TypeOK
  <2> QED
    BY <1>t, <2>1, <2>2 DEF Controlled, Pending
<1>6. CASE RequestStop \/ SendStop \/ Tick \/ Loop \/ UNCHANGED vars
  BY <1>2, <1>6 DEF RequestStop, SendStop, Tick, Loop, LeaveLoop, EnterLoop,
     TakeRequest, TakeStop, AwaitMessage, WaitTimesOut, Maintain, vars
<1>7. CASE Ending
  BY <1>1, <1>2, <1>7 DEF Ending, Drain, SetComplete, DropReceiver
<1>8. CASE Work
  <2>1. ASSUME NEW r, Finish(r) PROVE Controlled'
    BY <1>1, <2>1 DEF Finish
  <2>2. CheckFails \/ CheckEnds => Controlled'
    BY <2>1 DEF CheckFails, CheckEnds
  <2> QED
    BY <1>2, <1>8, <2>1, <2>2
       DEF Work, HandleCancelled, HandleStart, BeginExplicit, HandleStatus,
           HandleExec, SetDeadline, Launch, LaunchFails, AfterExplicit, AfterWhoami,
           AfterVault, Recheck, AfterCommand, Unanswered
<1>9. CASE Latch \/ ChildExits \/ ChildEnds \/ ChildTerminated
  BY <1>2, <1>9 DEF Latch, ChildExits, ChildEnds, ChildTerminated
<1> QED
  BY <1>4, <1>5, <1>6, <1>7, <1>8, <1>9 DEF Next, Connection

\* Whoever runs beside the executor leaves the request in progress as it is.
LEMMA OutsideLeaves ==
    ASSUME RInv, Connection \/ RequestStop \/ SendStop \/ Tick
    PROVE  /\ UNCHANGED <<pc, frame>>
           /\ frame.client \in Clients => request'[frame.client] = request[frame.client]
           /\ shutdown => shutdown'
           /\ Cancelled(frame.client) => Cancelled(frame.client)'
<1>t. TypeOK /\ Places
  BY DEF RInv
<1>1. UNCHANGED <<pc, frame>> /\ (shutdown => shutdown')
  BY DEF Connection, Connect, HangUp, Submit, CancelBySignal, Disconnect,
         RequestStop, SendStop, Tick
<1>2. ASSUME frame.client \in Clients
      PROVE  request'[frame.client] = request[frame.client]
  <2>1. Pending(frame.client)
    BY <1>t, <1>2 DEF Places, PendingInOnePlace
  <2>2. ASSUME NEW c \in Clients, Connect(c) \/ HangUp(c) \/ Submit(c)
        PROVE  request'[frame.client] = request[frame.client]
    <3>1. c # frame.client
      BY <2>1, <2>2 DEF Connect, HangUp, Submit, Pending, NoRequest, Connected, Kinds
    <3>2. \E r : request' = [request EXCEPT ![c] = r]
      BY <2>2 DEF Connect, HangUp, Submit
    <3> QED
      BY <1>t, <1>2, <3>1, <3>2 DEF TypeOK
  <2> QED
    BY <2>2 DEF Connection, CancelBySignal, Disconnect, RequestStop, SendStop, Tick
<1> QED
  BY <1>t, <1>1, <1>2, CancelStays

\* What the thread goes on to has no reason to be terminated yet.
LEMMA GoOnCaused ==
    ASSUME TypeOK, NEW place \in Between, NEW kind \in Running, GoOn(place, kind)
    PROVE  /\ Caused' /\ pc' = place /\ Kind' = kind
           /\ frame'.client = frame.client /\ frame'.next = kind
<1>1. /\ pc' = place /\ frame'.client = frame.client /\ frame'.next = kind
  BY DEF GoOn, TypeOK, Frame
<1> QED
  BY <1>1 DEF Caused, Kind, Running, Between

LEMMA KindedNext == RInv /\ [Next]_vars => (Kinded /\ Caused)'
<1> SUFFICES ASSUME RInv, [Next]_vars PROVE (Kinded /\ Caused)'
  OBVIOUS
<1>t. TypeOK /\ Kinded /\ Caused /\ Served /\ frame \in Frame
  BY DEF RInv, TypeOK
<1>1. CASE Connection \/ RequestStop \/ SendStop \/ Tick
  <2>1. Kind' = Kind
    BY <1>1, OutsideLeaves DEF Kind
  <2> QED
    BY <1>t, <1>1, <2>1, OutsideLeaves, NamesAssumption
       DEF Kinded, Caused, Cancelled, Kind, Frame
<1>2. CASE UNCHANGED vars
  BY <1>t, <1>2 DEF vars, Kinded, Kind, Caused, Cancelled
<1>3. ASSUME pc' \in {"top", "receive", "wait", "handle"}
      PROVE  (Kinded /\ Caused)'
  BY <1>3 DEF Kinded, Kind, Between, Caused, Running
<1>4. ASSUME pc' \in {"drain", "complete", "closed"}, shutdown'
      PROVE  (Kinded /\ Caused)'
  BY <1>4 DEF Kinded, Kind, Between, Caused, Running
<1>5. CASE Loop \/ Ending
  <2>1. CASE Maintain
    <3>1. /\ pc' = "deadline" /\ frame'.client = NoClient /\ frame'.next = "whoami"
      BY <2>1 DEF Maintain, Idle
    <3> QED
      BY <3>1 DEF Kinded, Kind, Between, Caused, Running
  <2>2. CASE Loop /\ ~Maintain
    BY <1>3, <1>4, <2>2 DEF Loop, LeaveLoop, EnterLoop, TakeRequest, TakeStop,
       AwaitMessage, WaitTimesOut
  <2>3. CASE Ending
    BY <1>4, <1>t, <2>3 DEF Ending, Drain, SetComplete, DropReceiver, Caused
  <2> QED
    BY <1>5, <2>1, <2>2, <2>3
<1>6. CASE Work
  <2>1. ASSUME NEW r, Finish(r) PROVE (Kinded /\ Caused)'
    BY <1>3, <2>1 DEF Finish
  <2>2. CheckFails \/ CheckEnds => (Kinded /\ Caused)'
    BY <2>1 DEF CheckFails, CheckEnds
  <2>3. CASE \/ HandleCancelled \/ HandleStart \/ HandleStatus \/ AfterExplicit
             \/ AfterCommand
    BY <2>1, <2>3 DEF HandleCancelled, HandleStart, HandleStatus, AfterExplicit,
       AfterCommand
  <2>4. CASE BeginExplicit
    <3>1. frame.client \in Clients /\ request[frame.client].kind = "warnedStart"
      BY <1>t, <2>4 DEF BeginExplicit, Handling, Served
    <3> QED
      BY <1>t, <2>4, <3>1, GoOnCaused
         DEF BeginExplicit, Kinded, Unanswered, Between, Running
  <2>5. ASSUME NEW kind \in {"whoami", "vault", "command"}, NEW place \in Between,
               GoOn(place, kind), Unanswered,
               place = "recheck" => kind = "command",
               kind = "command" => frame.client \in Clients,
               frame.client # NoClient => request[frame.client].kind = "exec"
        PROVE  (Kinded /\ Caused)'
    <3>1. kind \in Running
      BY DEF Running
    <3> QED
      BY <1>t, <2>5, <3>1, GoOnCaused DEF Kinded, Unanswered
  <2>6. CASE HandleExec
    BY <2>1, <2>5, <2>6 DEF HandleExec, Handling, Between
  <2>7. CASE AfterWhoami
    <3>1. frame.client # NoClient => request[frame.client].kind = "exec"
      BY <1>t, <2>7 DEF AfterWhoami, Returned, Kinded, Kind, Between
    <3> QED
      BY <2>2, <2>5, <2>7, <3>1 DEF AfterWhoami, Between
  <2>8. CASE AfterVault
    <3>1. CASE frame.outcome = "success"
      <4>1. /\ frame.client # NoClient => request[frame.client].kind = "exec"
            /\ frame.client \in Clients \cup {NoClient}
        BY <1>t, <2>8 DEF AfterVault, Returned, Kinded, Kind, Between, Frame
      <4> QED
        BY <1>3, <2>5, <2>8, <3>1, <4>1 DEF AfterVault, Between
    <3> QED
      BY <2>2, <2>8, <3>1 DEF AfterVault
  <2>9. CASE SetDeadline
    <3>1. /\ pc = "deadline" /\ pc' = "spawn" /\ UNCHANGED request
          /\ frame'.client = frame.client /\ frame'.next = frame.next
      BY <1>t, <2>9 DEF SetDeadline, Frame
    <3> QED
      BY <1>t, <3>1 DEF Kinded, Kind, Between, Caused, Running
  <2>10. CASE Launch
    <3>1. /\ pc = "spawn" /\ pc' = frame.next /\ UNCHANGED request
          /\ frame.next \in Running
          /\ frame'.client = frame.client /\ frame'.outcome = frame.outcome
          /\ frame'.latch = frame.latch
      BY <1>t, <2>10 DEF Launch, RInv, NextIsKnown, Between, Frame
    <3>2. frame.outcome = "pending" /\ frame.latch = "none"
      BY <3>1 DEF RInv, Inductive, Between
    <3> QED
      BY <1>t, <3>1, <3>2 DEF Kinded, Kind, Between, Caused, Running
  <2>11. CASE LaunchFails
    BY <2>1, <2>2, <2>11 DEF LaunchFails
  <2>12. CASE Recheck
    <3>1. CASE pc' = "deadline" /\ UNCHANGED <<frame, request>>
      BY <1>t, <2>12, <3>1 DEF Recheck, Kinded, Kind, Between, Caused, Running
    <3> QED
      BY <2>1, <2>12, <3>1 DEF Recheck, Unanswered
  <2> QED
    BY <1>6, <2>3, <2>4, <2>6, <2>7, <2>8, <2>9, <2>10, <2>11, <2>12 DEF Work
<1>7. CASE Latch \/ ChildExits \/ ChildEnds \/ ChildTerminated
  <2>1. /\ UNCHANGED <<request, control, shutdown, pc>> /\ pc \in Running
        /\ frame'.client = frame.client
    BY <1>t, <1>7, ChildFrame
       DEF Latch, ChildExits, ChildEnds, ChildTerminated, ChildAlive
  <2>2. Cancelled(frame.client)' = Cancelled(frame.client)
    BY <2>1 DEF Cancelled
  <2>3. Kinded'
    BY <1>t, <2>1 DEF Kinded, Kind, Between, Running
  <2>4. CASE Latch
    <3>1. PICK r \in Holding : frame' = [frame EXCEPT !.latch = r, !.clear = FALSE]
      BY <2>4 DEF Latch
    <3>2. frame'.latch = r /\ frame'.outcome = frame.outcome
      BY <1>t, <3>1 DEF Frame
    <3>3. /\ r = "cancelled" => Cancelled(frame.client)
          /\ r = "shutdown" => shutdown
      BY DEF Holding, ReasonsFor
    <3> QED
      BY <1>t, <2>1, <2>2, <2>3, <3>2, <3>3 DEF Caused, Running
  <2>5. CASE ChildExits
    <3>1. frame'.latch = frame.latch /\ frame'.outcome = frame.outcome
      BY <1>t, <2>5 DEF ChildExits, Frame
    <3> QED
      BY <1>t, <2>1, <2>2, <2>3, <3>1 DEF Caused, Running
  <2>6. CASE ChildEnds \/ ChildTerminated
    <3>1. PICK o \in Natural \cup {"error", frame.latch} : frame' = Ended(o)
      BY <2>6 DEF ChildEnds, ChildTerminated
    <3>2. frame'.latch = "none" /\ frame'.outcome = o
      BY <1>t, <3>1 DEF Ended, Frame
    <3> QED
      BY <1>t, <2>1, <2>2, <2>3, <3>1, <3>2 DEF Caused, Running, Natural
  <2> QED
    BY <1>7, <2>4, <2>5, <2>6
<1> QED
  BY <1>1, <1>2, <1>5, <1>6, <1>7 DEF Next

LEMMA RInvInit == Init => RInv
<1>1. Init => Controlled /\ Kinded /\ Caused
  BY DEF Init, Controlled, Kinded, Kind, Between, Caused, Running
<1> QED
  BY <1>1, TypeInit, NextKnownInit, InductiveInit, PlacesInit, ServedInit DEF RInv

LEMMA RInvNext == RInv /\ [Next]_vars => RInv'
BY TypeNext, NextKnownNext, InductiveNext, PlacesNext, ServedNext, ControlledNext, KindedNext
   DEF RInv

-----------------------------------------------------------------------------
(* Every step, as each connection's request sees it.                       *)

\* A request that is not in progress: it waits in the queue, or there is none,
\* and its answer may be forgotten.
LEMMA AsideRequest ==
    ASSUME NEW c \in Clients, request'[c] = request[c], control'[c] = control[c],
           frame.client # c \/ pc = "handle", frame'.client # c \/ pc' = "handle",
           \/ answer'[c] = answer[c] /\ shutdown' \in {shutdown, TRUE}
           \/ answer'[c] = "none" /\ UNCHANGED shutdown
    PROVE  RequestStep(c)
<1>1. Pending(c)' = Pending(c)
  BY DEF Pending
<1>2. CASE Pending(c)
  <2>1. shutdown' \in {shutdown, TRUE}
    OBVIOUS
  <2>2. execBar'[c] = execBar[c]
    BY DEF execBar
  <2>3. controlBar'[c] = controlBar[c]
    BY <1>1 DEF controlBar
  <2>4. stageBar'[c] = stageBar[c]
    BY <1>1, <1>2 DEF stageBar
  <2>5. replyBar'[c] = replyBar[c]
    BY <1>1, <1>2 DEF replyBar
  <2> QED
    BY <2>1, <2>2, <2>3, <2>4, <2>5, QuietRequest
<1>3. CASE ~Pending(c)
  BY <1>1, <1>3, IdleRequest
<1> QED
  BY <1>2, <1>3

LEMMA AnswerLeaves ==
    ASSUME NEW cs, NEW r, Answer(cs, r), NEW c \in Clients, c \notin cs
    PROVE  /\ request'[c] = request[c] /\ control'[c] = control[c]
           /\ answer'[c] \in {answer[c], "none"}
           /\ cs \cap Clients = {} => answer'[c] = answer[c]
BY DEF Answer

\* The end of a frame: its request is answered, and no other.
LEMMA FinishedRequest ==
    ASSUME RInv, NEW r \in Replies, Finish(r),
           shutdown' = shutdown \/ (frame.client = NoClient /\ shutdown' = TRUE),
           NEW c \in Clients,
           frame.client = c => ReplyOf(r) \in Requests(c)!Replies
    PROVE  RequestStep(c)
<1>t. TypeOK /\ Places /\ c # NoClient
  BY NamesAssumption DEF RInv
<1>1. Answer({frame.client}, r) /\ frame'.client = NoClient
  BY DEF Finish, Idle
<1>2. CASE frame.client = c
  <2>1. Pending(c)
    BY <1>t, <1>2 DEF Places, PendingInOnePlace
  <2> QED
    BY <1>t, <1>1, <1>2, <2>1, AnsweredRequest
<1>3. CASE frame.client # c
  <2>1. frame.client = NoClient => {frame.client} \cap Clients = {}
    BY NamesAssumption
  <2>2. /\ request'[c] = request[c] /\ control'[c] = control[c]
        /\ answer'[c] \in {answer[c], "none"}
        /\ frame.client = NoClient => answer'[c] = answer[c]
    BY <1>1, <1>3, <2>1, AnswerLeaves
  <2> QED
    BY <1>t, <1>1, <1>3, <2>2, AsideRequest
<1> QED
  BY <1>2, <1>3

\* The request in progress is one without an answer.
LEMMA FrameRequest ==
    ASSUME RInv, NEW c \in Clients, frame.client = c
    PROVE  /\ Pending(c)
           /\ execBar[c] = (request[c].kind = "exec")
           /\ controlBar[c] = control[c] /\ control[c] \in {"live", "signal", "gone"}
           /\ pc = "handle" => stageBar[c] = "queued"
           /\ pc = "command" => stageBar[c] = StageOfRun
           /\ pc \in {"explicit", "whoami", "vault"} \cup Between => stageBar[c] = "begun"
           /\ Cancelled(frame.client) = (control[c] # "live")
           /\ control[c] = "signal" => request[c].kind = "exec"
<1>1. Pending(c)
  BY DEF RInv, Places, PendingInOnePlace
<1>2. c # NoClient
  BY NamesAssumption
<1> QED
  BY <1>1, <1>2, PendingBars DEF RInv, TypeOK, Controlled, Cancelled, Between

LEMMA OutsideRequests ==
    ASSUME RInv, Connection \/ RequestStop \/ SendStop \/ Tick, NEW c \in Clients
    PROVE  RequestStep(c)
<1>t. TypeOK /\ Places /\ Controlled
  BY DEF RInv
<1>0. UNCHANGED <<pc, frame, answer>>
  BY DEF Connection, Connect, HangUp, Submit, CancelBySignal, Disconnect,
         RequestStop, SendStop, Tick
<1>s. StageOfRun' = StageOfRun
  BY <1>0 DEF StageOfRun
<1>1. ASSUME request'[c] = request[c], controlBar'[c] = controlBar[c],
             shutdown' \in {shutdown, TRUE}
      PROVE  RequestStep(c)
  <2>1. Pending(c)' = Pending(c)
    BY <1>1 DEF Pending
  <2>2. execBar'[c] = execBar[c] /\ replyBar'[c] = replyBar[c]
    BY <1>0, <1>1, <2>1 DEF execBar, replyBar
  <2>3. stageBar'[c] = stageBar[c]
    BY <1>0, <1>s, <2>1 DEF stageBar
  <2> QED
    BY <1>1, <2>2, <2>3, QuietRequest
<1>2. ASSUME request'[c] = request[c], control'[c] = control[c]
      PROVE  controlBar'[c] = controlBar[c]
  BY <1>2 DEF controlBar, Pending
<1>3. CASE RequestStop \/ SendStop \/ Tick
  BY <1>1, <1>2, <1>3 DEF RequestStop, SendStop, Tick
<1>4. ASSUME NEW d \in Clients, d # c,
             \/ Connect(d) \/ HangUp(d) \/ Submit(d) \/ CancelBySignal(d) \/ Disconnect(d)
      PROVE  RequestStep(c)
  <2>1. request'[c] = request[c] /\ control'[c] = control[c] /\ UNCHANGED shutdown
    BY <1>t, <1>4 DEF Connect, HangUp, Submit, CancelBySignal, Disconnect, TypeOK
  <2> QED
    BY <1>1, <1>2, <2>1
<1>5. CASE Connect(c) \/ HangUp(c) \/ (Submit(c) /\ pc = "closed")
  <2>1. /\ request[c] \in {NoRequest, Connected} /\ request'[c] \in {NoRequest, Connected}
        /\ UNCHANGED shutdown
    BY <1>t, <1>5 DEF Connect, HangUp, Submit, TypeOK
  <2>2. ~Pending(c) /\ ~Pending(c)'
    BY <2>1 DEF Pending, NoRequest, Connected, Kinds
  <2> QED
    BY <1>0, <2>1, <2>2, IdleRequest
<1>6. CASE Submit(c) /\ pc # "closed"
  <2>1. ~Pending(c)
    BY <1>6 DEF Submit, Pending, Connected, Kinds
  <2>2. request'[c] \in Request /\ UNCHANGED <<control, shutdown>>
    BY <1>t, <1>6 DEF Submit, TypeOK
  <2>3. Pending(c)' /\ control'[c] = "live" /\ frame'.client # c
    BY <1>0, <1>t, <2>1, <2>2
       DEF Pending, Request, Controlled, Places, PendingInOnePlace
  <2>4. stageBar[c] \in {"none", "replied"}
    BY <2>1 DEF stageBar
  <2>5. stageBar'[c] = "queued" /\ controlBar'[c] = "live" /\ replyBar'[c] = "none"
    BY <2>3 DEF stageBar, controlBar, replyBar
  <2>6. execBar'[c] \in BOOLEAN
    BY DEF execBar
  <2> QED
    BY <2>2, <2>4, <2>5, <2>6 DEF RequestStep, Requests!Next, Requests!Submit
<1>7. CASE CancelBySignal(c) \/ Disconnect(c)
  <2>1. /\ Pending(c) /\ Pending(c)' /\ UNCHANGED <<request, shutdown>>
        /\ control[c] = "live" /\ control'[c] \in {"signal", "gone"}
        /\ control'[c] = "signal" => request[c].kind = "exec"
    BY <1>t, <1>7 DEF CancelBySignal, Disconnect, Pending, TypeOK
  <2>2. /\ execBar'[c] = execBar[c] /\ execBar[c] = (request[c].kind = "exec")
        /\ replyBar'[c] = replyBar[c]
    BY <2>1 DEF execBar, replyBar
  <2>3. controlBar[c] = "live" /\ controlBar'[c] = control'[c]
    BY <2>1 DEF controlBar
  <2>4. stageBar'[c] = stageBar[c]
    BY <1>0, <1>s, <2>1 DEF stageBar
  <2>5. stageBar[c] \in {"queued", "begun"} \cup Requests(c)!Runs
    <3>1. pc = "command" => StageOfRun \in Requests(c)!Runs
      BY <1>t DEF TypeOK, Frame, Outcomes, Natural, Reasons, StageOfRun, Requests!Runs
    <3> QED
      BY <2>1, <3>1 DEF stageBar
  <2> QED
    BY <2>1, <2>2, <2>3, <2>4, <2>5
       DEF RequestStep, Requests!Next, Requests!Cancel, Requests!Open
<1> QED
  BY <1>3, <1>4, <1>5, <1>6, <1>7 DEF Connection

LEMMA LoopRequests ==
    ASSUME RInv, Loop \/ Ending, NEW c \in Clients
    PROVE  RequestStep(c)
<1>t. TypeOK /\ Inductive /\ Places /\ Caused /\ c # NoClient
  BY NamesAssumption DEF RInv
<1>p. pc \notin InUse
  BY DEF Loop, Ending, LeaveLoop, EnterLoop, TakeRequest, TakeStop,
     AwaitMessage, WaitTimesOut, Maintain, Drain, SetComplete, DropReceiver,
     Running, InUse, Between
<1>0. pc \notin InUse /\ frame = Idle /\ frame.client # c
  BY <1>p, <1>t DEF Inductive, Idle
<1>1. CASE LeaveLoop \/ EnterLoop
  BY <1>0, <1>1, AsideRequest DEF LeaveLoop, EnterLoop, NoAnswers
<1>2. CASE AwaitMessage \/ WaitTimesOut \/ SetComplete \/ TakeStop
  BY <1>0, <1>2, AsideRequest DEF AwaitMessage, WaitTimesOut, SetComplete, TakeStop
<1>3. CASE TakeRequest
  BY <1>0, <1>3, AsideRequest DEF TakeRequest
<1>4. CASE Maintain
  <2>1. frame'.client = NoClient
    BY <1>4 DEF Maintain, Idle
  <2> QED
    BY <1>0, <1>t, <1>4, <2>1, AsideRequest DEF Maintain
<1>5. ASSUME NEW cs, NEW r \in {"operational", "dropped"}, Answer(cs, r),
             UNCHANGED <<shutdown, frame>>, shutdown, c \in cs => Queued(c)
      PROVE  RequestStep(c)
  <2>1. CASE c \in cs
    <3>1. Pending(c)
      BY <1>5, <1>t, <2>1 DEF Places, PendingInOnePlace
    <3>2. stageBar[c] = "queued"
      BY <1>0, <3>1 DEF stageBar
    <3>3. ReplyOf(r) \in Requests(c)!Replies /\ r \in Replies
      BY <1>5, <3>2 DEF Requests!Replies, Requests!Dropped, ReplyOf, Replies
    <3> QED
      BY <1>5, <1>t, <2>1, <3>1, <3>3, AnsweredRequest
  <2>2. CASE c \notin cs
    BY <1>0, <1>5, <2>2, AnswerLeaves, AsideRequest
  <2> QED
    BY <2>1, <2>2
<1>6. CASE Drain
  <2>1. Head(queue) = c => Queued(c)
    <3>1. 1 \in DOMAIN queue /\ queue[1] = Head(queue)
      BY <1>t, <1>6 DEF Drain, TypeOK
    <3> QED
      BY <3>1 DEF Queued
  <2> QED
    BY <1>5, <1>6, <1>t, <2>1 DEF Drain, Caused
<1>7. CASE DropReceiver
  BY <1>5, <1>7, <1>t DEF DropReceiver, Caused, Queued
<1> QED
  BY <1>1, <1>2, <1>3, <1>4, <1>6, <1>7 DEF Loop, Ending

LEMMA HandleRequests ==
    ASSUME RInv, NEW c \in Clients,
           HandleCancelled \/ HandleStart \/ BeginExplicit \/ HandleStatus \/ HandleExec
    PROVE  RequestStep(c)
<1>t. TypeOK /\ Served /\ frame \in Frame
  BY DEF RInv, TypeOK
<1>0. pc = "handle" /\ UNCHANGED shutdown
  BY DEF HandleCancelled, HandleStart, BeginExplicit, HandleStatus, HandleExec, Handling
<1>1. ASSUME frame.client = c
      PROVE  Requests(c)!Replies =
               (IF control[c] = "live" THEN {}
                ELSE IF control[c] = "signal" THEN {"cancelledBySignal"} ELSE {"cancelled"})
               \cup (IF shutdown THEN {"dropped", "error"} ELSE {})
               \cup (IF control[c] # "live" THEN {}
                     ELSE IF request[c].kind = "exec" THEN {"required"} ELSE {"done"})
  <2>1. /\ stageBar[c] = "queued" /\ controlBar[c] = control[c]
        /\ control[c] \in {"live", "signal", "gone"}
        /\ execBar[c] = (request[c].kind = "exec")
    BY <1>0, <1>1, FrameRequest
  <2> QED
    BY <2>1 DEF Requests!Replies, Requests!Cancelled, Requests!Dropped
<1>2. CASE HandleCancelled
  <2>1. PICK r \in Replies :
          /\ Finish(r)
          /\ r = IF request[frame.client].kind = "exec"
                 THEN CancelReply(frame.client) ELSE "cancelled"
    BY <1>2, CancelReplyType DEF HandleCancelled, Replies
  <2>2. ASSUME frame.client = c PROVE ReplyOf(r) \in Requests(c)!Replies
    <3>1. /\ control[c] \in {"signal", "gone"}
          /\ control[c] = "signal" => request[c].kind = "exec"
      BY <1>2, <2>2, FrameRequest DEF HandleCancelled
    <3> QED
      BY <1>1, <2>1, <2>2, <3>1 DEF CancelReply, ReplyOf
  <2> QED
    BY <1>0, <2>1, <2>2, FinishedRequest
<1>3. ASSUME NEW r \in {"ok", "needWarning", "opPathMismatch", "authorizationFailed",
                        "active", "reauthorizationRequired"},
             Finish(r), ~Cancelled(frame.client), request[frame.client].kind # "exec"
      PROVE  RequestStep(c)
  <2>1. ReplyOf(r) = "done" /\ r \in Replies
    BY DEF ReplyOf, Replies
  <2>2. frame.client = c => ReplyOf(r) \in Requests(c)!Replies
    BY <1>1, <1>3, <2>1, FrameRequest
  <2> QED
    BY <1>0, <1>3, <2>1, <2>2, FinishedRequest
<1>4. ASSUME NEW kind \in Running, GoOn("deadline", kind), Unanswered,
             ~Cancelled(frame.client)
      PROVE  RequestStep(c)
  <2>1. /\ pc' = "deadline" /\ frame'.client = frame.client
        /\ UNCHANGED <<request, control, answer>>
    BY <1>4, <1>t, GoOnCaused DEF Unanswered, Between
  <2>2. CASE frame.client # c
    BY <1>0, <2>1, <2>2, AsideRequest
  <2>3. CASE frame.client = c
    <3>1. Pending(c) /\ Pending(c)' /\ control[c] = "live"
      BY <1>4, <2>1, <2>3, FrameRequest DEF Pending
    <3>2. stageBar[c] = "queued" /\ stageBar'[c] = "begun"
      BY <1>0, <1>4, <2>1, <2>3, <3>1 DEF stageBar
    <3>3. /\ controlBar[c] = "live" /\ controlBar'[c] = "live"
          /\ execBar'[c] = execBar[c] /\ replyBar'[c] = replyBar[c]
      BY <2>1, <3>1 DEF controlBar, execBar, replyBar
    <3> QED
      BY <1>0, <3>2, <3>3
         DEF RequestStep, Requests!Next, Requests!Serve, Requests!Begin, Requests!To
  <2> QED
    BY <2>2, <2>3
<1>5. CASE HandleStart
  BY <1>3, <1>5 DEF HandleStart, Handling
<1>6. CASE BeginExplicit
  BY <1>4, <1>6 DEF BeginExplicit, Handling, Running
<1>7. CASE HandleStatus
  BY <1>3, <1>7 DEF HandleStatus, Handling
<1>8. CASE HandleExec
  <2>1. CASE Finish("authorizationRequired")
    <3>1. frame.client = c => ReplyOf("authorizationRequired") \in Requests(c)!Replies
      BY <1>1, <1>8, FrameRequest DEF HandleExec, Handling, ReplyOf
    <3>2. "authorizationRequired" \in Replies
      BY DEF Replies
    <3> QED
      BY <1>0, <2>1, <3>1, <3>2, FinishedRequest
  <2> QED
    BY <1>4, <1>8, <2>1 DEF HandleExec, Running
<1> QED
  BY <1>2, <1>5, <1>6, <1>7, <1>8

LEMMA AfterRequests ==
    ASSUME RInv, NEW c \in Clients,
           \/ SetDeadline \/ Launch \/ LaunchFails
           \/ AfterExplicit \/ AfterWhoami \/ AfterVault \/ Recheck \/ AfterCommand
    PROVE  RequestStep(c)
<1>t. TypeOK /\ Kinded /\ Caused /\ frame \in Frame /\ c # NoClient
  BY NamesAssumption DEF RInv, TypeOK
<1>0. pc \in Running \cup Between /\ (pc \in Running => frame.outcome \in Outcomes)
  BY DEF SetDeadline, Launch, LaunchFails, AfterExplicit, AfterWhoami, AfterVault,
         Recheck, AfterCommand, Returned, Running, Between
<1>c. ASSUME frame.client = c
      PROVE  /\ pc \in Running /\ frame.outcome = "cancelled"
                => ReplyOf(CancelReply(frame.client)) \in Requests(c)!Cancelled
             /\ pc \in Running /\ frame.outcome = "shutdown"
                => ReplyOf("dropped") \in Requests(c)!Dropped
             /\ Kind = "explicit" => execBar[c] = FALSE
             /\ Kind \in {"whoami", "vault", "command"} => execBar[c] = TRUE
  <2>1. /\ execBar[c] = (request[c].kind = "exec")
        /\ controlBar[c] = control[c] /\ control[c] \in {"live", "signal", "gone"}
        /\ Cancelled(frame.client) = (control[c] # "live")
    BY <1>c, FrameRequest
  <2>2. pc \in Running /\ frame.outcome = "cancelled"
        => ReplyOf(CancelReply(frame.client)) \in Requests(c)!Cancelled
    BY <1>c, <1>t, <2>1 DEF Caused, CancelReply, ReplyOf, Requests!Cancelled
  <2>3. pc \in Running /\ frame.outcome = "shutdown"
        => ReplyOf("dropped") \in Requests(c)!Dropped
    BY <1>t DEF Caused, ReplyOf, Requests!Dropped
  <2>4. /\ Kind = "explicit" => execBar[c] = FALSE
        /\ Kind \in {"whoami", "vault", "command"} => execBar[c] = TRUE
    BY <1>c, <1>t, <2>1 DEF Kinded
  <2> QED
    BY <2>2, <2>3, <2>4
<1>k. pc \in Running => Kind = pc
  BY DEF Kind, Running, Between
<1>1. ASSUME pc # "command", frame.client = c
      PROVE  Requests(c)!Replies =
               Requests(c)!Cancelled \cup Requests(c)!Dropped
                 \cup (IF execBar[c] THEN {"required", "error"} ELSE {"done"})
  <2>1. stageBar[c] = "begun"
    BY <1>0, <1>1, FrameRequest DEF Running
  <2> QED
    BY <2>1 DEF Requests!Replies
<1>2. CASE AfterExplicit
  <2>1. PICK r \in Replies :
          /\ Finish(r)
          /\ r = CASE frame.outcome = "success"   -> "ok"
                   [] frame.outcome = "cancelled" -> CancelReply(frame.client)
                   [] frame.outcome = "shutdown"  -> "dropped"
                   [] OTHER                       -> "authorizationFailed"
    BY <1>2, CancelReplyType DEF AfterExplicit, Replies
  <2>2. ASSUME frame.client = c PROVE ReplyOf(r) \in Requests(c)!Replies
    <3>1. pc = "explicit" /\ pc \in Running /\ Kind = "explicit"
      BY <1>2, <1>k DEF AfterExplicit, Returned, Running
    <3>2. CASE frame.outcome \in {"cancelled", "shutdown"}
      BY <1>c, <1>1, <2>1, <2>2, <3>1, <3>2
    <3>3. CASE frame.outcome \notin {"cancelled", "shutdown"}
      <4>1. ReplyOf(r) = "done"
        BY <2>1, <3>3 DEF ReplyOf
      <4> QED
        BY <1>c, <1>1, <2>2, <3>1, <4>1
    <3> QED
      BY <3>2, <3>3
  <2> QED
    BY <1>2, <2>1, <2>2, FinishedRequest DEF AfterExplicit
<1>3. ASSUME CheckFails \/ (CheckEnds /\ pc \in Running), Kind \in {"whoami", "vault"},
             pc # "command", CheckFails => UNCHANGED shutdown
      PROVE  RequestStep(c)
  <2>1. PICK r \in Replies :
          /\ Finish(r)
          /\ shutdown' = shutdown \/ (frame.client = NoClient /\ shutdown' = TRUE)
          /\ \/ r = "authorizationRequired"
             \/ pc \in Running /\ r = CancelReply(frame.client) /\ frame.outcome = "cancelled"
             \/ pc \in Running /\ r = "dropped" /\ frame.outcome = "shutdown"
    <3>1. CASE CheckFails
      BY <3>1 DEF CheckFails, Replies
    <3>2. CASE CheckEnds /\ pc \in Running /\ frame.outcome = "cancelled"
      BY <3>2, CancelReplyType DEF CheckEnds
    <3>3. CASE CheckEnds /\ pc \in Running /\ frame.outcome = "shutdown"
      BY <3>3, <1>t DEF CheckEnds, Replies, TypeOK
    <3> QED
      BY <1>3, <3>1, <3>2, <3>3 DEF CheckEnds
  <2>2. ASSUME frame.client = c PROVE ReplyOf(r) \in Requests(c)!Replies
    <3>1. ReplyOf("authorizationRequired") = "required"
      BY DEF ReplyOf
    <3> QED
      BY <1>c, <1>1, <1>3, <2>1, <2>2, <3>1
  <2> QED
    BY <2>1, <2>2, FinishedRequest
\* A step that leaves the request in its place.
<1>4. ASSUME UNCHANGED <<request, control, answer, shutdown>>, frame'.client = frame.client,
             pc \in {"whoami", "vault"} \cup Between,
             pc' \in {"explicit", "whoami", "vault"} \cup Between
      PROVE  RequestStep(c)
  <2>1. CASE frame.client # c
    BY <1>4, <2>1, AsideRequest
  <2>2. CASE frame.client = c
    <3>1. Pending(c) /\ Pending(c)'
      BY <1>4, <2>2, FrameRequest DEF Pending
    <3>2. stageBar'[c] = stageBar[c]
      BY <1>4, <2>2, <3>1 DEF stageBar, Between
    <3>3. /\ controlBar'[c] = controlBar[c] /\ execBar'[c] = execBar[c]
          /\ replyBar'[c] = replyBar[c]
      BY <1>4, <3>1 DEF controlBar, execBar, replyBar
    <3> QED
      BY <1>4, <3>2, <3>3, QuietRequest
  <2> QED
    BY <2>1, <2>2
<1>5. CASE AfterWhoami
  <2>1. CASE GoOn("spawn", "vault") /\ Unanswered /\ UNCHANGED shutdown
    <3>1. pc' = "spawn" /\ frame'.client = frame.client
      BY <1>t, <2>1, GoOnCaused DEF Running, Between
    <3> QED
      BY <1>4, <1>5, <2>1, <3>1 DEF AfterWhoami, Returned, Unanswered, Between
  <2>2. CASE CheckEnds
    BY <1>3, <1>5, <1>k, <2>2 DEF AfterWhoami, Returned, CheckFails, Running
  <2> QED
    BY <1>5, <2>1, <2>2 DEF AfterWhoami
<1>6. CASE AfterVault
  <2>1. CASE frame.outcome = "success" /\ frame.client # NoClient
    <3>1. /\ pc' = "recheck" /\ frame'.client = frame.client
      BY <1>t, <1>6, <2>1, GoOnCaused DEF AfterVault, Running, Between
    <3> QED
      BY <1>4, <1>6, <2>1, <3>1 DEF AfterVault, Returned, Unanswered, Between
  <2>2. CASE frame.outcome = "success" /\ frame.client = NoClient
    <3>1. frame'.client = NoClient /\ UNCHANGED <<request, control, answer, shutdown>>
      BY <1>6, <2>2 DEF AfterVault, Unanswered, Idle
    <3> QED
      BY <1>t, <2>2, <3>1, AsideRequest
  <2>3. CASE frame.outcome # "success"
    BY <1>3, <1>6, <1>k, <2>3 DEF AfterVault, Returned, CheckFails, Running
  <2> QED
    BY <2>1, <2>2, <2>3
<1>7. ASSUME NEW r \in {"authorizationRequired", "processStart"}, Finish(r),
             UNCHANGED shutdown, pc # "command", Kind \in {"whoami", "vault", "command"}
      PROVE  RequestStep(c)
  <2>1. r \in Replies /\ ReplyOf(r) \in {"required", "error"}
    BY DEF Replies, ReplyOf
  <2>2. frame.client = c => ReplyOf(r) \in Requests(c)!Replies
    BY <1>c, <1>1, <1>7, <2>1
  <2> QED
    BY <1>7, <2>1, <2>2, FinishedRequest
<1>9. CASE Recheck
  <2>1. /\ pc = "recheck" /\ UNCHANGED shutdown /\ Kind = "command"
    BY <1>t, <1>9 DEF Recheck, Kinded, Kind, Between
  <2>2. CASE pc' = "deadline" /\ UNCHANGED frame /\ Unanswered
    BY <1>4, <2>1, <2>2 DEF Unanswered, Between
  <2> QED
    BY <1>7, <1>9, <2>1, <2>2 DEF Recheck
<1>10. CASE SetDeadline
  <2>1. /\ pc = "deadline" /\ pc' = "spawn" /\ frame'.client = frame.client
        /\ UNCHANGED <<request, control, answer, shutdown>>
    BY <1>t, <1>10 DEF SetDeadline, Frame
  <2> QED
    BY <1>4, <2>1 DEF Between
<1>11. CASE Launch
  <2>1. /\ pc = "spawn" /\ pc' = frame.next /\ frame'.client = frame.client
        /\ frame.next \in Running /\ Kind = frame.next
        /\ UNCHANGED <<request, control, answer, shutdown>>
        /\ frame'.outcome = frame.outcome /\ frame'.latch = frame.latch
        /\ frame'.clear = frame.clear
    BY <1>t, <1>11 DEF Launch, RInv, NextIsKnown, Kind, Between, Frame
  <2>2. frame.outcome = "pending" /\ frame.latch = "none" /\ frame.clear = FALSE
    BY <1>t, <2>1 DEF RInv, Inductive, Between, Frame
  <2>3. CASE frame.next # "command"
    BY <1>4, <2>1, <2>3 DEF Running, Between
  <2>4. CASE frame.next = "command" /\ frame.client # c
    BY <2>1, <2>4, AsideRequest
  <2>5. CASE frame.next = "command" /\ frame.client = c
    <3>1. Pending(c) /\ Pending(c)' /\ stageBar[c] = "begun"
      BY <2>1, <2>5, FrameRequest DEF Pending, Between
    <3>2. stageBar'[c] = "running"
      BY <2>1, <2>2, <2>5, <3>1 DEF stageBar, StageOfRun
    <3>3. /\ controlBar'[c] = controlBar[c] /\ execBar'[c] = execBar[c]
          /\ replyBar'[c] = replyBar[c]
      BY <2>1, <3>1 DEF controlBar, execBar, replyBar
    <3>4. execBar[c] = TRUE
      BY <1>c, <2>1, <2>5
    <3> QED
      BY <2>1, <3>1, <3>2, <3>3, <3>4
         DEF RequestStep, Requests!Next, Requests!Serve, Requests!Run, Requests!To
  <2> QED
    BY <2>3, <2>4, <2>5
<1>12. CASE LaunchFails
  <2>1. /\ pc = "spawn" /\ pc # "command" /\ UNCHANGED shutdown /\ Kind = frame.next
        /\ frame.next \in Running
    BY <1>t, <1>12 DEF LaunchFails, CheckFails, RInv, NextIsKnown, Kind, Between, Frame
  <2>2. CASE frame.next = "explicit" /\ Finish("authorizationFailed")
    <3>1. ReplyOf("authorizationFailed") = "done" /\ "authorizationFailed" \in Replies
      BY DEF ReplyOf, Replies
    <3>2. frame.client = c => ReplyOf("authorizationFailed") \in Requests(c)!Replies
      BY <1>c, <1>1, <2>1, <2>2, <3>1
    <3> QED
      BY <2>1, <2>2, <3>1, <3>2, FinishedRequest
  <2>3. CASE frame.next \in {"whoami", "vault"} /\ CheckFails
    BY <1>3, <2>1, <2>3
  <2>4. CASE frame.next = "command" /\ Finish("processStart")
    BY <1>7, <2>1, <2>4
  <2> QED
    BY <1>12, <2>2, <2>3, <2>4 DEF LaunchFails
<1>8. CASE AfterCommand
  <2>0. pc = "command" /\ pc \in Running /\ UNCHANGED shutdown
    BY <1>8 DEF AfterCommand, Returned, Running
  <2>1. PICK r \in Replies :
          /\ Finish(r)
          /\ r = CASE frame.outcome \in {"success", "failure"} -> "exited"
                   [] frame.outcome = "signaled"  -> "signaled"
                   [] frame.outcome = "timedOut"  -> "timedOut"
                   [] frame.outcome = "cancelled" -> CancelReply(frame.client)
                   [] frame.outcome = "shutdown"  -> "dropped"
                   [] OTHER                       -> "processStart"
    BY <1>8, CancelReplyType DEF AfterCommand, Replies
  <2>2. ASSUME frame.client = c PROVE ReplyOf(r) \in Requests(c)!Replies
    <3>1. stageBar[c] = StageOfRun
      BY <2>0, <2>2, FrameRequest
    <3>2. CASE frame.outcome \in {"cancelled", "shutdown"}
      <4>1. stageBar[c] = "doomed"
        BY <3>1, <3>2 DEF StageOfRun, Natural
      <4>2. Requests(c)!Replies = Requests(c)!Cancelled \cup Requests(c)!Dropped
        BY <4>1 DEF Requests!Replies
      <4> QED
        BY <1>c, <2>0, <2>1, <2>2, <3>2, <4>2
    <3>3. CASE frame.outcome \in Natural \cup {"timedOut", "error"}
      <4>1. stageBar[c] = CASE frame.outcome \in Natural  -> "clear"
                            [] frame.outcome = "timedOut" -> "expired"
                            [] OTHER -> "failed"
        BY <3>1, <3>3 DEF StageOfRun, Natural
      <4>2. ReplyOf(r) = CASE frame.outcome \in Natural  -> "exit"
                           [] frame.outcome = "timedOut" -> "timedOut"
                           [] OTHER -> "error"
        BY <2>1, <3>3 DEF ReplyOf, Natural
      <4> QED
        BY <3>3, <4>1, <4>2 DEF Requests!Replies, Natural
    <3> QED
      BY <1>0, <2>0, <3>2, <3>3 DEF Outcomes
  <2> QED
    BY <2>0, <2>1, <2>2, FinishedRequest
<1> QED
  BY <1>2, <1>5, <1>6, <1>8, <1>9, <1>10, <1>11, <1>12

LEMMA ChildRequests ==
    ASSUME RInv, Latch \/ ChildExits \/ ChildEnds \/ ChildTerminated, NEW c \in Clients
    PROVE  RequestStep(c)
<1>t. TypeOK /\ frame \in Frame /\ Inductive
  BY DEF RInv, TypeOK
<1>0. /\ UNCHANGED <<request, control, answer, shutdown, pc>>
      /\ pc \in Running /\ frame.outcome = "pending" /\ frame'.client = frame.client
  BY <1>t, ChildFrame DEF Latch, ChildExits, ChildEnds, ChildTerminated, ChildAlive
<1>1. CASE frame.client # c
  BY <1>0, <1>1, AsideRequest
<1>2. CASE frame.client = c
  <2>1. Pending(c) /\ Pending(c)'
    BY <1>0, <1>2, FrameRequest DEF Pending
  <2>2. /\ controlBar'[c] = controlBar[c] /\ execBar'[c] = execBar[c]
        /\ replyBar'[c] = replyBar[c]
    BY <1>0, <2>1 DEF controlBar, execBar, replyBar
  <2>3. CASE pc # "command"
    <3>1. stageBar'[c] = stageBar[c]
      BY <1>0, <1>2, <2>1, <2>3 DEF stageBar
    <3> QED
      BY <1>0, <2>2, <3>1, QuietRequest
  <2>4. CASE pc = "command"
    <3>1. stageBar[c] = StageOfRun /\ stageBar'[c] = StageOfRun'
      BY <1>0, <1>2, <2>1, <2>4, Zenon DEF stageBar, Running
    <3>2. CASE Latch
      <4>1. PICK r \in Holding : frame' = [frame EXCEPT !.latch = r, !.clear = FALSE]
        BY <3>2 DEF Latch
      <4>2. /\ frame'.latch = r /\ frame'.outcome = "pending" /\ r \in Reasons
            /\ frame.latch = "none"
        BY <1>0, <1>t, <3>2, <4>1, ReasonsType DEF Frame, Latch, Holding
      <4>3. stageBar[c] \in {"running", "clear"}
        BY <1>0, <3>1, <4>2 DEF StageOfRun
      <4>4. stageBar'[c] = IF r = "timedOut" THEN "expired" ELSE "doomed"
        BY <3>1, <4>2 DEF StageOfRun, Reasons
      <4>5. r # "timedOut" => controlBar[c] # "live" \/ shutdown
        BY <1>2, FrameRequest DEF Holding, ReasonsFor
      <4> QED
        BY <1>0, <2>2, <4>3, <4>4, <4>5
           DEF RequestStep, Requests!Next, Requests!Serve, Requests!Expire,
               Requests!Doom, Requests!To
    <3>3. CASE ChildExits
      <4>1. frame'.latch = frame.latch /\ frame'.outcome = "pending" /\ frame'.clear = TRUE
        BY <1>0, <1>t, <3>3 DEF ChildExits, Frame
      <4>2. CASE frame.latch = "none"
        <5>1. stageBar[c] = "running" /\ stageBar'[c] = "clear"
          BY <1>0, <3>1, <3>3, <4>1, <4>2 DEF StageOfRun, ChildExits
        <5>2. controlBar[c] = "live" /\ ~shutdown
          BY <1>2, <3>3, FrameRequest DEF ChildExits, Holding, ReasonsFor
        <5> QED
          BY <1>0, <2>2, <5>1, <5>2
             DEF RequestStep, Requests!Next, Requests!Serve, Requests!Clear, Requests!To
      <4>3. CASE frame.latch # "none"
        <5>1. frame.latch \in Reasons
          BY <1>t, <4>3 DEF Frame
        <5>2. StageOfRun' = StageOfRun
          BY <1>0, <4>1, <5>1 DEF StageOfRun, Reasons
        <5> QED
          BY <1>0, <2>2, <3>1, <5>2, QuietRequest
      <4> QED
        BY <4>2, <4>3
    <3>4. CASE ChildEnds \/ ChildTerminated
      <4>1. PICK o \in Natural \cup {"error"} \cup Reasons :
              /\ frame' = Ended(o)
              /\ \/ o \in Natural /\ frame.clear /\ frame.latch = "none"
                 \/ o = frame.latch /\ frame.latch # "none"
                 \/ o = "error"
        BY <1>t, <3>4 DEF ChildEnds, ChildTerminated, Frame
      <4>2. frame'.outcome = o
        BY <1>t, <4>1 DEF Ended, Frame
      <4>3. CASE o = "error"
        <5>1. stageBar'[c] = "failed"
          BY <3>1, <4>2, <4>3 DEF StageOfRun, Natural
        <5>2. stageBar[c] \in Requests(c)!Runs \ {"failed"}
          BY <1>0, <1>t, <3>1 DEF StageOfRun, Frame, Reasons, Requests!Runs
        <5> QED
          BY <1>0, <2>2, <5>1, <5>2
             DEF RequestStep, Requests!Next, Requests!Serve, Requests!Break, Requests!To
      <4>4. CASE o # "error"
        <5>1. CASE o \in Natural /\ frame.clear /\ frame.latch = "none"
          <6>1. StageOfRun = "clear" /\ StageOfRun' = "clear"
            BY <1>0, <4>2, <5>1 DEF StageOfRun, Natural
          <6> QED
            BY <1>0, <2>2, <3>1, <6>1, QuietRequest
        <5>2. CASE o = frame.latch /\ frame.latch # "none"
          <6>1. frame.latch \in Reasons
            BY <1>t, <5>2 DEF Frame
          <6>2. StageOfRun = IF o = "timedOut" THEN "expired" ELSE "doomed"
            BY <1>0, <5>2, <6>1 DEF StageOfRun, Reasons
          <6>3. StageOfRun' = IF o = "timedOut" THEN "expired" ELSE "doomed"
            BY <4>2, <5>2, <6>1 DEF StageOfRun, Reasons, Natural
          <6> QED
            BY <1>0, <2>2, <3>1, <6>2, <6>3, QuietRequest
        <5> QED
          BY <4>1, <4>4, <5>1, <5>2
      <4> QED
        BY <4>3, <4>4
    <3> QED
      BY <3>2, <3>3, <3>4
  <2> QED
    BY <2>3, <2>4
<1> QED
  BY <1>1, <1>2

\* Each connection's requests are served as RequestContract says, for every number of
\* connections and whatever they, maintenance, a stop and the children do in between:
\* RequestsKeepContract.
THEOREM KeepsRequestContract == Spec => RequestsKeepContract
<1>1. Init => \A c \in Clients : Requests(c)!Init
  <2> SUFFICES ASSUME Init, NEW c \in Clients PROVE Requests(c)!Init
    OBVIOUS
  <2>1. ~Pending(c) /\ answer[c] = "none" /\ shutdown = FALSE
    BY DEF Init, Pending, NoRequest, Kinds, NoAnswers
  <2>2. /\ stageBar[c] = "none" /\ controlBar[c] = "live" /\ execBar[c] = FALSE
        /\ replyBar[c] = "none"
    BY <2>1, PendingBars DEF ReplyOf
  <2> QED
    BY <2>1, <2>2 DEF Requests!Init
<1>2. ASSUME RInv, Next, NEW c \in Clients PROVE RequestStep(c)
  BY <1>2, OutsideRequests, LoopRequests, HandleRequests, AfterRequests, ChildRequests
     DEF Next, Work
<1>3. RInv /\ [Next]_vars
      => [\A c \in Clients : [Requests(c)!Next]_(Requests(c)!vars)]_vars
  BY <1>2 DEF RequestStep
<1>4. RequestsKeepContract
        <=> /\ \A c \in Clients : Requests(c)!Init
            /\ [][\A c \in Clients : [Requests(c)!Next]_(Requests(c)!vars)]_vars
  BY DEF RequestsKeepContract
<1> QED
  BY RInvInit, RInvNext, <1>1, <1>3, <1>4, PTL DEF Spec

-----------------------------------------------------------------------------
(* The queue.                                                              *)

\* Stop is said behind the flag.
Told == stopper = "flagged" \/ (\E i \in DOMAIN queue : queue[i] = Stop) => shutdown

LEMMA ToldNext == TypeOK /\ Told /\ [Next]_vars => Told'
<1> SUFFICES ASSUME TypeOK, Told, [Next]_vars PROVE Told'
  OBVIOUS
<1>0. DOMAIN queue = 1..Len(queue) /\ Len(queue) \in Nat
  BY DEF TypeOK
<1>1. CASE shutdown'
  BY <1>1 DEF Told
<1>2. CASE UNCHANGED <<stopper, queue, shutdown>>
  BY <1>2 DEF Told
<1>3. CASE SendStop
  BY <1>1, <1>3 DEF SendStop, Told
<1>4. ASSUME UNCHANGED <<stopper, shutdown>>, queue # <<>>, queue' = Tail(queue)
      PROVE  Told'
  <2>1. \A i \in DOMAIN queue' : i + 1 \in DOMAIN queue /\ queue'[i] = queue[i + 1]
    BY <1>4 DEF TypeOK
  <2> QED
    BY <1>4, <2>1 DEF Told
<1>5. ASSUME NEW c \in Clients, Submit(c) PROVE Told'
  <2>1. UNCHANGED <<stopper, shutdown>>
    BY <1>5 DEF Submit
  <2>2. CASE queue' = Append(queue, c)
    <3>1. \A i \in DOMAIN queue' :
            queue'[i] = c \/ (i \in DOMAIN queue /\ queue'[i] = queue[i])
      BY <2>2 DEF TypeOK
    <3> QED
      BY <2>1, <3>1, NamesAssumption DEF Told
  <2> QED
    BY <1>2, <1>5, <2>1, <2>2 DEF Submit
<1>6. CASE Loop
  BY <1>1, <1>2, <1>4, <1>6 DEF Loop, LeaveLoop, EnterLoop, TakeRequest, TakeStop,
     AwaitMessage, WaitTimesOut, Maintain
<1>7. CASE Ending
  <2>1. CASE DropReceiver
    BY <2>1 DEF DropReceiver, Told
  <2> QED
    BY <1>2, <1>4, <1>7, <2>1 DEF Ending, Drain, SetComplete
<1>8. CASE Work
  <2>1. CheckFails \/ CheckEnds => UNCHANGED shutdown \/ shutdown'
    BY DEF CheckFails, CheckEnds, TypeOK
  <2> QED
    BY <1>1, <1>2, <1>8, <2>1
       DEF Work, HandleCancelled, HandleStart, BeginExplicit, HandleStatus, HandleExec,
           Handling, SetDeadline, Launch, LaunchFails, AfterExplicit, AfterWhoami,
           AfterVault, Recheck, AfterCommand, Returned
<1>9. CASE \/ Latch \/ ChildExits \/ ChildEnds \/ ChildTerminated \/ Tick \/ RequestStop
           \/ UNCHANGED vars
  BY <1>1, <1>2, <1>9 DEF Latch, ChildExits, ChildEnds, ChildTerminated, Tick, RequestStop,
     vars
<1>10. ASSUME NEW c \in Clients,
              Connect(c) \/ HangUp(c) \/ CancelBySignal(c) \/ Disconnect(c)
       PROVE  Told'
  BY <1>2, <1>10 DEF Connect, HangUp, CancelBySignal, Disconnect
<1> QED
  BY <1>3, <1>5, <1>6, <1>7, <1>8, <1>9, <1>10 DEF Next, Connection

QInv == RInv /\ Told

LEMMA QInvInit == Init => QInv
<1>1. Init => Told
  BY DEF Init, Told
<1> QED
  BY <1>1, RInvInit DEF QInv

LEMMA QInvNext == QInv /\ [Next]_vars => QInv'
BY RInvNext, ToldNext DEF QInv, RInv

\* What the contract does not see, or sees as the setting of the flag.
LEMMA QueueUnseen ==
    ASSUME UNCHANGED <<queue, openBar, takenBar, executorBar>>,
           shutdown' \in {shutdown, TRUE}
    PROVE  [Channel!Next]_(Channel!vars)
BY DEF Channel!Next, Channel!ShutDown, Channel!vars

\* Whoever is answered has no open request any more.
LEMMA AnsweredOpen ==
    ASSUME TypeOK, NEW cs, NEW r, Answer(cs, r)
    PROVE  openBar' = openBar \ cs
BY DEF TypeOK, Answer, openBar, Pending, NoRequest, Connected, Kinds

\* While a request or a check is in progress the thread is busy with it.
LEMMA BusyBars ==
    ASSUME RInv, pc \in InUse
    PROVE  /\ executorBar = IF frame.client = NoClient THEN "loop" ELSE "busy"
           /\ takenBar = IF frame.client = NoClient THEN {} ELSE {frame.client}
<1>1. frame.client \in Clients \cup {NoClient}
  BY DEF RInv, TypeOK, Frame
<1> QED
  BY <1>1, NamesAssumption DEF executorBar, takenBar, InUse, Between, Running

LEMMA QueueFinished ==
    ASSUME RInv, pc \in InUse, NEW r, Finish(r), UNCHANGED queue,
           shutdown' = shutdown \/ (frame.client = NoClient /\ shutdown' = TRUE)
    PROVE  [Channel!Next]_(Channel!vars)
<1>1. /\ openBar' = openBar \ {frame.client} /\ pc' = "top" /\ frame'.client = NoClient
      /\ NoClient \notin Clients /\ openBar \subseteq Clients
  BY AnsweredOpen, NamesAssumption DEF RInv, Finish, Idle, openBar
<1>2. executorBar' = "loop" /\ takenBar' = {}
  BY <1>1 DEF executorBar, takenBar, InUse, Between, Running
<1>3. CASE frame.client = NoClient
  <2>1. openBar' = openBar
    BY <1>1, <1>3
  <2> QED
    BY <1>2, <1>3, <2>1, BusyBars, QueueUnseen
<1>4. CASE frame.client # NoClient
  BY <1>1, <1>2, <1>4, BusyBars
     DEF Channel!Next, Channel!Serve, Channel!Settle, Channel!To
<1> QED
  BY <1>3, <1>4

\* A step of the work in progress.
LEMMA QueueWorks ==
    ASSUME RInv, pc \in InUse, pc' \in InUse, frame'.client = frame.client,
           UNCHANGED <<queue, request, shutdown>>
    PROVE  [Channel!Next]_(Channel!vars)
<1>1. executorBar' = executorBar
  BY DEF executorBar, InUse, Between, Running
<1>2. takenBar' = takenBar /\ openBar' = openBar
  BY DEF takenBar, openBar, Pending
<1> QED
  BY <1>1, <1>2, QueueUnseen

\* A connection without an open request that does not open one.
LEMMA NoneOpened ==
    ASSUME TypeOK, NEW c \in Clients, request[c] \in {NoRequest, Connected},
           NEW r \in {NoRequest, Connected}, request' = [request EXCEPT ![c] = r]
    PROVE  openBar' = openBar
<1>1. NoRequest.kind \notin Kinds /\ Connected.kind \notin Kinds
  BY DEF NoRequest, Connected, Kinds
<1>2. ~Pending(c) /\ r.kind \notin Kinds
  BY <1>1 DEF Pending
<1>3. ASSUME NEW d \in Clients PROVE Pending(d)' <=> Pending(d)
  BY <1>2 DEF TypeOK, Pending
<1> QED
  BY <1>3 DEF openBar

LEMMA QueueOutside ==
    ASSUME QInv, Connection \/ RequestStop \/ SendStop \/ Tick
    PROVE  [Channel!Next]_(Channel!vars)
<1>t. TypeOK /\ Told
  BY DEF QInv, RInv
<1>1. UNCHANGED <<executorBar, takenBar>>
  BY DEF executorBar, takenBar, Connection, Connect, HangUp, Submit, CancelBySignal,
         Disconnect, RequestStop, SendStop, Tick
<1>2. pc # "closed" => executorBar # "ended"
  BY <1>t DEF TypeOK, executorBar, InUse, Between, Running
<1>3. CASE RequestStop \/ Tick
  BY <1>1, <1>3, QueueUnseen DEF RequestStop, Tick, openBar, Pending
<1>4. CASE SendStop
  <2>1. shutdown /\ UNCHANGED <<shutdown, openBar>>
    BY <1>4, <1>t DEF SendStop, Told, openBar, Pending
  <2>2. CASE pc = "closed"
    BY <1>1, <1>4, <2>1, <2>2, QueueUnseen DEF SendStop
  <2>3. CASE pc # "closed"
    BY <1>1, <1>2, <1>4, <2>1, <2>3, NamesAssumption DEF SendStop, Channel!Next, Channel!Send
  <2> QED
    BY <2>2, <2>3
<1>5. ASSUME NEW c \in Clients, Submit(c)
      PROVE  [Channel!Next]_(Channel!vars)
  <2>1. c \notin openBar /\ UNCHANGED shutdown
    BY <1>5 DEF Submit, openBar, Pending, Connected, NoRequest, Kinds
  <2>2. CASE pc = "closed"
    <3>1. openBar' = openBar /\ queue' = queue
      BY <1>5, <1>t, <2>2, NoneOpened DEF Submit
    <3> QED
      BY <1>1, <2>1, <3>1, QueueUnseen
  <2>3. CASE pc # "closed"
    <3>1. openBar' = openBar \cup {c} /\ queue' = Append(queue, c)
      BY <1>5, <1>t, <2>3 DEF Submit, openBar, Pending, Request, TypeOK
    <3> QED
      BY <1>1, <1>2, <2>1, <2>3, <3>1 DEF Channel!Next, Channel!Send
  <2> QED
    BY <2>2, <2>3
<1>6. ASSUME NEW c \in Clients, Connect(c) \/ HangUp(c)
      PROVE  [Channel!Next]_(Channel!vars)
  <2>1. openBar' = openBar
    BY <1>6, <1>t, NoneOpened DEF Connect, HangUp
  <2> QED
    BY <1>1, <1>6, <2>1, QueueUnseen DEF Connect, HangUp
<1>7. ASSUME NEW c \in Clients, CancelBySignal(c) \/ Disconnect(c)
      PROVE  [Channel!Next]_(Channel!vars)
  BY <1>1, <1>7, QueueUnseen DEF CancelBySignal, Disconnect, openBar, Pending
<1> QED
  BY <1>3, <1>4, <1>5, <1>6, <1>7 DEF Connection

LEMMA QueueLoop ==
    ASSUME QInv, Loop \/ Ending
    PROVE  [Channel!Next]_(Channel!vars)
<1> USE DEF Channel!Next, Channel!Serve, Channel!To
<1>t. TypeOK /\ Inductive /\ Caused /\ Told
  BY DEF QInv, RInv
<1>0. pc \notin InUse /\ frame = Idle /\ takenBar = {}
  <2>1. pc \notin InUse
    BY DEF Loop, Ending, LeaveLoop, EnterLoop, TakeRequest, TakeStop, AwaitMessage,
       WaitTimesOut, Maintain, Drain, SetComplete, DropReceiver, Running, InUse, Between
  <2> QED
    BY <1>t, <2>1, NamesAssumption DEF Inductive, Idle, takenBar
<1>1. ASSUME frame' = frame PROVE takenBar' = {}
  BY <1>0, <1>1 DEF takenBar
<1>2. ASSUME UNCHANGED request PROVE openBar' = openBar
  BY <1>2 DEF openBar, Pending
<1>3. CASE LeaveLoop \/ EnterLoop
  BY <1>0, <1>1, <1>2, <1>3 DEF LeaveLoop, EnterLoop, executorBar, InUse, Between, Running, Channel!Look
<1>4. CASE TakeRequest
  <2>1. Head(queue) \in Clients /\ Head(queue) # NoClient
    BY <1>4, <1>t, NamesAssumption DEF TakeRequest, TypeOK
  <2>2. frame'.client = Head(queue)
    BY <1>4 DEF TakeRequest, Idle
  <2> QED
    BY <1>0, <1>2, <1>4, <2>1, <2>2
       DEF TakeRequest, executorBar, takenBar, InUse, Between, Running, Channel!Take
<1>5. CASE TakeStop
  <2>1. UNCHANGED shutdown
    <3>1. 1 \in DOMAIN queue /\ queue[1] = Stop
      BY <1>5, <1>t DEF TakeStop, TypeOK
    <3> QED
      BY <1>5, <1>t, <3>1 DEF TakeStop, Told, TypeOK
  <2> QED
    BY <1>0, <1>1, <1>2, <1>5, <2>1, NamesAssumption
       DEF TakeStop, executorBar, InUse, Between, Running, Channel!TakeStop
<1>6. CASE AwaitMessage
  BY <1>0, <1>1, <1>2, <1>6, QueueUnseen DEF AwaitMessage, executorBar, InUse, Between, Running
<1>7. CASE WaitTimesOut
  BY <1>0, <1>1, <1>2, <1>7 DEF WaitTimesOut, executorBar, InUse, Between, Running, Channel!Rest
<1>8. CASE Maintain
  <2>1. executorBar' = "loop" /\ takenBar' = {}
    <3>1. frame'.client = NoClient /\ pc' = "deadline"
      BY <1>8 DEF Maintain, Idle
    <3> QED
      BY <3>1, NamesAssumption DEF executorBar, takenBar, InUse, Between, Running
  <2> QED
    BY <1>0, <1>2, <1>8, <2>1 DEF Maintain, executorBar, InUse, Between, Running, Channel!Rest
<1>9. CASE Drain
  <2>1. openBar' = openBar \ {Head(queue)}
    BY <1>9, <1>t, AnsweredOpen DEF Drain
  <2> QED
    BY <1>0, <1>1, <1>9, <2>1 DEF Drain, executorBar, InUse, Between, Running, Channel!Drain
<1>10. CASE SetComplete
  BY <1>0, <1>1, <1>2, <1>10 DEF SetComplete, executorBar, InUse, Between, Running, Channel!Complete
<1>11. CASE DropReceiver
  <2>1. openBar' = openBar \ {queue[i] : i \in 1..Len(queue)}
    BY <1>11, <1>t, AnsweredOpen DEF DropReceiver, TypeOK
  <2> QED
    BY <1>0, <1>1, <1>11, <2>1 DEF DropReceiver, executorBar, InUse, Between, Running, Channel!Drop
<1> QED
  BY <1>3, <1>4, <1>5, <1>6, <1>7, <1>8, <1>9, <1>10, <1>11 DEF Loop, Ending

LEMMA QueueWork ==
    ASSUME QInv, Work
    PROVE  [Channel!Next]_(Channel!vars)
<1>t. RInv /\ TypeOK /\ frame \in Frame
  BY DEF QInv, RInv, TypeOK
<1>0. pc \in InUse /\ UNCHANGED queue
  BY DEF Work, HandleCancelled, HandleStart, BeginExplicit, HandleStatus, HandleExec,
     Handling, SetDeadline, Launch, LaunchFails, CheckFails, AfterExplicit, AfterWhoami,
     AfterVault, Recheck, AfterCommand, Returned, InUse, Between, Running
<1>1. ASSUME NEW r, Finish(r), UNCHANGED shutdown
      PROVE  [Channel!Next]_(Channel!vars)
  BY <1>0, <1>1, <1>t, QueueFinished
<1>2. ASSUME NEW place \in Between, NEW kind \in Running, GoOn(place, kind),
             Unanswered, UNCHANGED shutdown
      PROVE  [Channel!Next]_(Channel!vars)
  <2>1. pc' \in InUse /\ frame'.client = frame.client
    BY <1>2, <1>t, GoOnCaused DEF InUse
  <2> QED
    BY <1>0, <1>2, <1>t, <2>1, QueueWorks DEF Unanswered
<1>3. CASE HandleCancelled \/ HandleStart \/ HandleStatus
  BY <1>1, <1>3 DEF HandleCancelled, HandleStart, HandleStatus, Handling
<1>4. CASE BeginExplicit
  BY <1>2, <1>4 DEF BeginExplicit, Handling, Between, Running
<1>5. CASE HandleExec
  BY <1>1, <1>2, <1>5 DEF HandleExec, Handling, Between, Running
<1>6. CASE AfterExplicit \/ AfterCommand
  BY <1>1, <1>6 DEF AfterExplicit, AfterCommand
<1>7. ASSUME CheckFails \/ CheckEnds
      PROVE  [Channel!Next]_(Channel!vars)
  <2>1. CASE CheckEnds /\ frame.outcome = "shutdown"
    <3>1. PICK r : Finish(r) /\ shutdown' = (shutdown \/ frame.client = NoClient)
      BY <2>1 DEF CheckEnds
    <3>2. shutdown \in BOOLEAN
      BY <1>t DEF TypeOK
    <3> QED
      BY <1>0, <1>t, <3>1, <3>2, QueueFinished
  <2> QED
    BY <1>1, <1>7, <2>1 DEF CheckFails, CheckEnds
<1>8. CASE AfterWhoami
  BY <1>2, <1>7, <1>8 DEF AfterWhoami, Between, Running
<1>9. CASE AfterVault
  <2>1. CASE frame.outcome = "success" /\ frame.client = NoClient
    <3>1. /\ UNCHANGED <<request, shutdown, queue>> /\ pc' = "top"
          /\ frame'.client = NoClient
      BY <1>9, <2>1 DEF AfterVault, Unanswered, Returned, Idle
    <3>2. executorBar' = "loop" /\ takenBar' = {} /\ openBar' = openBar
      BY <3>1, NamesAssumption DEF executorBar, takenBar, InUse, Between, Running, openBar, Pending
    <3> QED
      BY <1>0, <1>t, <2>1, <3>1, <3>2, BusyBars, QueueUnseen
  <2>2. CASE frame.outcome = "success" /\ frame.client # NoClient
    BY <1>2, <1>9, <2>2 DEF AfterVault, Between, Running
  <2>3. CASE frame.outcome # "success"
    BY <1>7, <1>9, <2>3 DEF AfterVault
  <2> QED
    BY <2>1, <2>2, <2>3
<1>10. CASE SetDeadline \/ Launch
  <2>1. /\ pc' \in InUse /\ frame'.client = frame.client
        /\ UNCHANGED <<request, shutdown>>
    BY <1>10, <1>t
       DEF SetDeadline, Launch, RInv, NextIsKnown, InUse, Between, Frame
  <2> QED
    BY <1>0, <1>t, <2>1, QueueWorks
<1>11. CASE LaunchFails
  BY <1>1, <1>7, <1>11 DEF LaunchFails
<1>12. CASE Recheck
  <2>1. CASE pc' = "deadline" /\ UNCHANGED frame /\ Unanswered
    BY <1>0, <1>12, <1>t, <2>1, QueueWorks DEF Recheck, Unanswered, InUse, Between
  <2> QED
    BY <1>1, <1>12, <2>1 DEF Recheck
<1> QED
  BY <1>3, <1>4, <1>5, <1>6, <1>8, <1>9, <1>10, <1>11, <1>12 DEF Work

\* The executor takes and answers the messages in its queue as ChannelContract says,
\* for every number of connections and accounts: QueueKeepsContract (broker.rs,
\* BrokerActor::run).
THEOREM KeepsChannelContract == Spec => QueueKeepsContract
<1>1. Init => Channel!Init
  BY NamesAssumption DEF Init, Channel!Init, executorBar, openBar, takenBar, Pending, Idle,
     NoRequest, Kinds, Running
<1>2. QInv /\ [Next]_vars => [Channel!Next]_(Channel!vars)
  <2> SUFFICES ASSUME QInv, [Next]_vars PROVE [Channel!Next]_(Channel!vars)
    OBVIOUS
  <2>t. RInv /\ TypeOK /\ frame \in Frame
    BY DEF QInv, RInv, TypeOK
  <2>1. CASE Latch \/ ChildExits \/ ChildEnds \/ ChildTerminated
    <3>1. /\ pc \in Running /\ frame'.client = frame.client
          /\ UNCHANGED <<pc, queue, request, shutdown>>
      BY <2>1, <2>t, ChildFrame
         DEF Latch, ChildExits, ChildEnds, ChildTerminated, ChildAlive
    <3> QED
      BY <2>t, <3>1, QueueWorks DEF InUse
  <2>2. CASE UNCHANGED vars
    BY <2>2, QueueUnseen DEF vars, executorBar, openBar, takenBar, Pending
  <2> QED
    BY <2>1, <2>2, QueueOutside, QueueLoop, QueueWork DEF Next
<1> QED
  BY QInvInit, QInvNext, <1>1, <1>2, PTL DEF Spec, QueueKeepsContract, Channel!Spec
=============================================================================
