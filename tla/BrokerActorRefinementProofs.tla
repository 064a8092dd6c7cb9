---------------------- MODULE BrokerActorRefinementProofs ----------------------
(***************************************************************************)
(* The executor thread implements AuthorizationContract and RunContract,   *)
(* for every value of the constants.                                       *)
(***************************************************************************)
EXTENDS BrokerActorRefinement, BrokerActorProofs

\* An active record has a hard limit: 0 stands for no grant.
Grounded == \A a \in Accounts : records[a].active => records[a].hard > 0

LEMMA GroundedInit == Init => Grounded
BY DEF Init, Grounded, Invalidated, Required

\* Records are expired, invalidated, granted or moved, never otherwise made
\* active.
LEMMA GroundedNext == TypeOK /\ Grounded /\ [Next]_vars => Grounded'
<1> SUFFICES ASSUME TypeOK, Grounded, [Next]_vars PROVE Grounded'
  OBVIOUS
<1>1. CASE records' = records
  BY <1>1 DEF Grounded
<1>2. CASE records' = Unexpired
  BY <1>2 DEF Grounded, Unexpired, Required
<1>3. CASE records' = Invalidated
  BY <1>3 DEF Grounded, Invalidated, Required
<1>4. CASE AfterExplicit
  <2>1. frame.authorized + HardLimit > 0
    BY TimingAssumption DEF TypeOK, Frame
  <2> QED
    BY <1>4, <2>1 DEF AfterExplicit, Grounded, Active, TypeOK
<1>5. CASE AfterVault
  <2>1. CASE frame.outcome = "success"
    BY <1>5, <2>1 DEF AfterVault, Grounded, Active
  <2>2. CASE frame.outcome # "success"
    BY <1>1, <1>3, <1>5, <2>2 DEF AfterVault, CheckEnds, CheckFails
  <2> QED
    BY <2>1, <2>2
<1>6. CASE BeginExplicit
  BY <1>6 DEF BeginExplicit, Grounded, Unexpired, Required, TypeOK
<1>7. CASE Connection \/ RequestStop \/ SendStop \/ Tick
  BY <1>1, <1>7 DEF Connection, Connect, HangUp, Submit, CancelBySignal,
     Disconnect, RequestStop, SendStop, Tick
<1>8. CASE Loop \/ Ending
  BY <1>1, <1>2, <1>3, <1>8 DEF Loop, Ending, LeaveLoop, EnterLoop,
     TakeRequest, TakeStop, AwaitMessage, WaitTimesOut, Maintain, Drain,
     SetComplete, DropReceiver
<1>9. CASE HandleCancelled \/ HandleStart \/ HandleStatus \/ HandleExec
  BY <1>1, <1>2, <1>3, <1>9 DEF HandleCancelled, HandleStart, HandleStatus,
     HandleExec
<1>10. CASE \/ SetDeadline \/ Launch \/ LaunchFails \/ AfterWhoami \/ Recheck
            \/ AfterCommand
  BY <1>1, <1>2, <1>3, <1>10 DEF SetDeadline, Launch, LaunchFails, AfterWhoami,
     Recheck, AfterCommand, CheckEnds, CheckFails
<1>11. CASE Latch \/ ChildExits \/ ChildEnds \/ ChildTerminated \/ UNCHANGED vars
  BY <1>1, <1>11 DEF Latch, ChildExits, ChildEnds, ChildTerminated, vars
<1> QED
  BY <1>4, <1>5, <1>6, <1>7, <1>8, <1>9, <1>10, <1>11 DEF Next, Work

\* A deadline of its own has the first command of a check; a command is what the
\* records are looked at again for.
NextFits == /\ pc = "deadline" => frame.next # "vault"
            /\ pc = "recheck" => frame.next = "command"

LEMMA NextFitsInit == Init => NextFits
BY DEF Init, NextFits

LEMMA NextFitsNext == TypeOK /\ NextFits /\ [Next]_vars => NextFits'
<1> SUFFICES ASSUME TypeOK, NextFits, [Next]_vars PROVE NextFits'
  OBVIOUS
<1>1. CASE pc' = pc /\ frame'.next = frame.next
  BY <1>1 DEF NextFits
<1>2. CASE pc' \notin {"deadline", "recheck"}
  BY <1>2 DEF NextFits
<1>3. ASSUME NEW kind \in Running, GoOn("deadline", kind), kind # "vault"
      PROVE  NextFits'
  BY <1>3 DEF GoOn, NextFits, TypeOK, Frame
<1>4. CASE Connection \/ RequestStop \/ SendStop \/ Tick \/ UNCHANGED vars
  BY <1>1, <1>4 DEF Connection, Connect, HangUp, Submit, CancelBySignal,
     Disconnect, RequestStop, SendStop, Tick, vars
<1>5. CASE Latch \/ ChildExits \/ ChildEnds \/ ChildTerminated
  BY <1>1, <1>5, ChildFrame DEF Latch, ChildExits, ChildEnds, ChildTerminated
<1>6. CASE Loop \/ Ending
  <2>1. CASE Maintain
    BY <2>1 DEF Maintain, NextFits, Idle
  <2> QED
    BY <1>2, <1>6, <2>1 DEF Loop, Ending, LeaveLoop, EnterLoop, TakeRequest, TakeStop,
       AwaitMessage, WaitTimesOut, Drain, SetComplete, DropReceiver, NextFits
<1>7. CASE HandleCancelled \/ HandleStart \/ BeginExplicit \/ HandleStatus
             \/ HandleExec
  BY <1>2, <1>3, <1>7 DEF HandleCancelled, HandleStart, BeginExplicit, HandleStatus,
     HandleExec, Finish, Running
<1>8. CASE \/ SetDeadline \/ LaunchFails \/ AfterExplicit \/ CheckEnds
           \/ AfterCommand
  BY <1>2, <1>8 DEF SetDeadline, LaunchFails, AfterExplicit, CheckEnds, CheckFails,
     AfterCommand, Finish
<1>9. CASE Launch
  BY <1>2, <1>9 DEF Launch, TypeOK, Frame, Running
<1>10. CASE AfterWhoami
  BY <1>2, <1>8, <1>10 DEF AfterWhoami, GoOn
<1>11. CASE AfterVault
  <2>1. CASE GoOn("recheck", "command")
    BY <2>1 DEF GoOn, NextFits, TypeOK, Frame
  <2> QED
    BY <1>2, <1>8, <1>11, <2>1 DEF AfterVault
<1>12. CASE Recheck
  BY <1>2, <1>12 DEF Recheck, Finish, NextFits
<1> QED
  BY <1>4, <1>5, <1>6, <1>7, <1>8, <1>9, <1>10, <1>11, <1>12 DEF Next, Work

-----------------------------------------------------------------------------
(* How the records map to grants.                                          *)

LEMMA LiveIsUnexpired ==
    ASSUME TypeOK, Grounded
    PROVE  Contract!Live
             = [a \in Accounts |->
                  IF Unexpired[a].active THEN Unexpired[a].hard ELSE 0]
BY DEF TypeOK, Record, Grounded, Unexpired, Required, grantBar, Contract!Live

LEMMA ExpireMapped ==
    ASSUME TypeOK, Grounded
    PROVE  /\ records' = Unexpired => grantBar' = Contract!Live
           /\ \A a \in Accounts :
                 Unexpired[a].active <=> Contract!Live[a] # 0
<1>1. ASSUME NEW a \in Accounts
      PROVE  /\ (IF Unexpired[a].active THEN Unexpired[a].hard ELSE 0)
                  = (IF grantBar[a] <= now THEN 0 ELSE grantBar[a])
             /\ Unexpired[a].active
                  <=> (IF grantBar[a] <= now THEN 0 ELSE grantBar[a]) # 0
  BY DEF TypeOK, Record, Grounded, Unexpired, Required, grantBar
<1> QED
  BY <1>1 DEF Contract!Live, grantBar

LEMMA RevokeMapped ==
    ASSUME records' = Invalidated
    PROVE  grantBar' = Contract!Nothing
BY DEF grantBar, Invalidated, Required, Contract!Nothing

LEMMA KeepMapped ==
    ASSUME records' = records
    PROVE  grantBar' = grantBar
BY DEF grantBar

\* Where no child runs, has run or is to be started, there is no activity.
LEMMA NothingDone ==
    /\ pc \notin Running \cup Between => activityBar = Contract!Idle
    /\ pc' \notin Running \cup Between => activityBar' = Contract!Idle
<1>1. ASSUME pc \notin Running \cup Between PROVE activityBar = Contract!Idle
  <2>1. Phase = "idle"
    BY <1>1 DEF Phase, Between
  <2> QED
    BY <2>1 DEF activityBar, Result, Contract!Idle
<1>2. ASSUME pc' \notin Running \cup Between PROVE activityBar' = Contract!Idle
  <2>1. Phase' = "idle"
    BY <1>2 DEF Phase, Between
  <2> QED
    BY <2>1 DEF activityBar, Result, Contract!Idle
<1> QED
  BY <1>1, <1>2

\* A turn of the loop that ends leaves no activity.
LEMMA IdleMapped ==
    ASSUME NEW r, Finish(r)
    PROVE  activityBar' = Contract!Idle
BY NothingDone DEF Finish, Running, Between

\* What the thread goes on to is the activity.
LEMMA GoOnMapped ==
    ASSUME TypeOK, NEW kind \in Running, NEW place, GoOn(place, kind),
           \/ place = "deadline" /\ kind \in {"explicit", "whoami"}
           \/ place = "spawn" /\ kind = "vault"
           \/ place = "recheck" /\ kind = "command"
    PROVE  activityBar' =
             Contract!Doing(CASE place = "recheck"  -> "passed"
                              [] kind = "explicit" -> "authorize"
                              [] OTHER             -> kind, frame.account)
<1>1. /\ pc' = place /\ frame'.next = kind /\ frame'.outcome = "pending"
      /\ frame'.account = frame.account
  BY DEF GoOn, TypeOK, Frame
<1> QED
  BY <1>1 DEF activityBar, Phase, Result, Running, Contract!Doing

-----------------------------------------------------------------------------
(* Every step is a step of the contract, or none.                          *)

Step == Contract!Next \/ UNCHANGED Contract!vars

\* Steps that leave the records and the activity alone.
LEMMA StutterMapped ==
    ASSUME UNCHANGED <<now, records>>, activityBar' = activityBar
    PROVE  Step
BY KeepMapped DEF Step, Contract!vars

LEMMA OutsideMapped ==
    ASSUME TypeOK, Connection \/ RequestStop \/ SendStop \/ Tick
    PROVE  Step
<1>1. UNCHANGED <<pc, frame, records>>
  BY DEF Connection, Connect, HangUp, Submit, CancelBySignal, Disconnect,
         RequestStop, SendStop, Tick
<1>2. activityBar' = activityBar /\ grantBar' = grantBar
  BY <1>1 DEF activityBar, Phase, Result, grantBar
<1>3. CASE Tick
  BY <1>2, <1>3 DEF Tick, Step, Contract!Next, Contract!Tick
<1>4. CASE Connection \/ RequestStop \/ SendStop
  BY <1>1, <1>2, <1>4, StutterMapped
     DEF Connection, Connect, HangUp, Submit, CancelBySignal, Disconnect,
         RequestStop, SendStop
<1> QED
  BY <1>3, <1>4

LEMMA LoopMapped ==
    ASSUME TypeOK, Grounded, Inductive, Loop \/ Ending
    PROVE  Step
<1>1. now' = now
  BY DEF Loop, Ending, LeaveLoop, EnterLoop, TakeRequest, TakeStop,
         AwaitMessage, WaitTimesOut, Maintain, Drain, SetComplete, DropReceiver
<1>2. activityBar = Contract!Idle
  BY NothingDone
     DEF Loop, Ending, LeaveLoop, EnterLoop, TakeRequest, TakeStop, AwaitMessage,
         WaitTimesOut, Maintain, Drain, SetComplete, DropReceiver, Running, Between
<1>3. CASE Maintain
  <2>1. PICK a \in Accounts :
          Due(a) /\ frame' = [Idle EXCEPT !.account = a, !.next = "whoami"]
    BY <1>3 DEF Maintain
  <2>2. activityBar' = Contract!Doing("whoami", a)
    <3>1. /\ frame'.account = a /\ frame'.next = "whoami"
          /\ frame'.outcome = "pending" /\ pc' = "deadline"
      BY <1>3, <2>1 DEF Maintain, Idle
    <3> QED
      BY <3>1 DEF activityBar, Phase, Result, Running, Contract!Doing
  <2>3. grantBar' = grantBar /\ grantBar[a] # 0
    BY <1>3, <2>1, KeepMapped DEF Maintain, Due, Grounded, grantBar, TypeOK, Record
  <2> QED
    BY <1>1, <1>2, <2>2, <2>3 DEF Step, Contract!Next, Contract!BeginCheck
<1>4. CASE ~Maintain
  <2>1. activityBar' = Contract!Idle
    BY <1>4, NothingDone
       DEF Loop, Ending, LeaveLoop, EnterLoop, TakeRequest, TakeStop, AwaitMessage,
           WaitTimesOut, Drain, SetComplete, DropReceiver, Running, Between
  <2>2. CASE records' = records
    BY <1>1, <1>2, <2>1, <2>2, StutterMapped
  <2>3. CASE records' = Unexpired
    BY <1>1, <1>2, <2>1, <2>3, ExpireMapped
       DEF Step, Contract!Next, Contract!Lapse
  <2>4. CASE records' = Invalidated
    BY <1>1, <1>2, <2>1, <2>4, RevokeMapped
       DEF Step, Contract!Next, Contract!RevokeAll, Contract!Idle
  <2> QED
    BY <1>4, <2>2, <2>3, <2>4 DEF Loop, Ending, LeaveLoop, EnterLoop,
       TakeRequest, TakeStop, AwaitMessage, WaitTimesOut, Drain, SetComplete,
       DropReceiver
<1> QED
  BY <1>3, <1>4

LEMMA HandleMapped ==
    ASSUME TypeOK, Grounded, Places,
           HandleCancelled \/ HandleStart \/ BeginExplicit \/ HandleStatus
             \/ HandleExec
    PROVE  Step
<1>1. now' = now /\ pc = "handle"
  BY DEF HandleCancelled, HandleStart, BeginExplicit, HandleStatus, HandleExec,
         Handling
<1>2. /\ activityBar = Contract!Idle
      /\ frame \in Frame /\ frame.account \in Accounts
  BY <1>1, FrameAccount, NothingDone DEF TypeOK, Running, Between, InUse
<1>3. ASSUME NEW r, Finish(r),
             records' \in {records, Unexpired, Invalidated}
      PROVE  Step
  <2>1. activityBar' = Contract!Idle
    BY <1>3, IdleMapped
  <2>2. CASE records' = records
    BY <1>1, <1>2, <2>1, <2>2, StutterMapped
  <2>3. CASE records' = Unexpired
    BY <1>1, <1>2, <2>1, <2>3, ExpireMapped
       DEF Step, Contract!Next, Contract!Lapse
  <2>4. CASE records' = Invalidated
    BY <1>1, <1>2, <2>1, <2>4, RevokeMapped
       DEF Step, Contract!Next, Contract!RevokeAll, Contract!Idle
  <2> QED
    BY <1>3, <2>2, <2>3, <2>4
<1>4. CASE HandleCancelled \/ HandleStart \/ HandleStatus
  BY <1>3, <1>4 DEF HandleCancelled, HandleStart, HandleStatus
<1>5. CASE BeginExplicit
  <2>1. grantBar' = Contract!Live
    <3>1. ~Unexpired[frame.account].active
      BY <1>5 DEF BeginExplicit
    <3>2. ASSUME NEW a \in Accounts
          PROVE  (IF records'[a].active THEN records'[a].hard ELSE 0)
                   = (IF Unexpired[a].active THEN Unexpired[a].hard ELSE 0)
      BY <1>5, <3>1 DEF BeginExplicit, Required, Unexpired
    <3>3. Contract!Live
            = [a \in Accounts |->
                 IF Unexpired[a].active THEN Unexpired[a].hard ELSE 0]
      BY LiveIsUnexpired
    <3> QED
      BY <3>2, <3>3 DEF grantBar
  <2>2. activityBar' = Contract!Doing("authorize", frame.account)
    BY <1>5, GoOnMapped DEF BeginExplicit, Running
  <2>3. Contract!Live[frame.account] = 0
    BY <1>2, <1>5, ExpireMapped DEF BeginExplicit
  <2> QED
    BY <1>1, <1>2, <2>1, <2>2, <2>3
       DEF Step, Contract!Next, Contract!BeginExplicit
<1>6. CASE HandleExec
  <2>1. CASE \E r : Finish(r)
    BY <1>3, <1>6, <2>1 DEF HandleExec
  <2>2. CASE /\ Unexpired[frame.account].active
             /\ records' = Unexpired
             /\ GoOn("deadline", "whoami")
    <3>1. activityBar' = Contract!Doing("whoami", frame.account)
      BY <2>2, GoOnMapped DEF Running
    <3>2. grantBar' = Contract!Live /\ Contract!Live[frame.account] # 0
      BY <1>2, <2>2, ExpireMapped
    <3> QED
      BY <1>1, <1>2, <3>1, <3>2
         DEF Step, Contract!Next, Contract!BeginCheck
  <2> QED
    BY <1>6, <2>1, <2>2 DEF HandleExec
<1> QED
  BY <1>4, <1>5, <1>6

\* The start of a child, or the failure to start it.
LEMMA LaunchMapped ==
    ASSUME TypeOK, NextIsKnown, NextFits, Inductive, Grounded,
           SetDeadline \/ Launch \/ LaunchFails
    PROVE  Step
<1>1. /\ now' = now /\ frame.next \in Running /\ frame.outcome = "pending"
      /\ pc \in {"deadline", "spawn"} /\ (pc = "deadline" => frame.next # "vault")
  BY DEF SetDeadline, Launch, LaunchFails, CheckFails, NextIsKnown, NextFits, Inductive,
         Between, TypeOK, Frame
<1>2. /\ activityBar.account = frame.account /\ activityBar.result = "none"
      /\ activityBar.phase =
           CASE frame.next = "command"  -> "cleared"
             [] frame.next = "explicit" -> IF pc = "deadline" THEN "authorize"
                                           ELSE "explicit"
             [] OTHER                   -> frame.next
      /\ activityBar.since = IF frame.next = "explicit" /\ pc = "spawn"
                             THEN frame.authorized ELSE 0
  BY <1>1 DEF activityBar, Phase, Result, Running
<1>3. CASE SetDeadline
  <2>1. /\ pc = "deadline" /\ pc' = "spawn" /\ UNCHANGED records
        /\ frame'.account = frame.account /\ frame'.next = frame.next
        /\ frame'.outcome = frame.outcome
        /\ frame.next = "explicit" => frame'.authorized = now
    BY <1>3 DEF SetDeadline, TypeOK, Frame
  <2>2. CASE frame.next = "explicit"
    <3>1. activityBar' = [phase |-> "explicit", account |-> frame.account,
                          since |-> now, result |-> "none"]
      BY <1>1, <2>1, <2>2 DEF activityBar, Phase, Result, Running
    <3>2. activityBar' = [Contract!Doing("explicit", activityBar.account)
                            EXCEPT !.since = now]
      BY <1>2, <3>1 DEF Contract!Doing
    <3> QED
      BY <1>1, <1>2, <2>1, <2>2, <3>2, KeepMapped
         DEF Step, Contract!Next, Contract!Authorize
  <2>3. CASE frame.next # "explicit"
    <3>1. activityBar' = activityBar
      BY <1>1, <2>1, <2>3 DEF activityBar, Phase, Result, Running
    <3> QED
      BY <1>1, <2>1, <3>1, StutterMapped
  <2> QED
    BY <2>2, <2>3
<1>4. CASE Launch
  <2>1. /\ pc = "spawn" /\ pc' = frame.next /\ UNCHANGED records
        /\ frame'.account = frame.account /\ frame'.outcome = frame.outcome
        /\ frame'.authorized = frame.authorized
    BY <1>4 DEF Launch, TypeOK, Frame
  <2>2. CASE frame.next = "command"
    <3>1. activityBar' = Contract!Doing("command", frame.account)
      BY <1>1, <2>1, <2>2 DEF activityBar, Phase, Result, Running, Contract!Doing
    <3> QED
      BY <1>1, <1>2, <2>1, <2>2, <3>1, KeepMapped
         DEF Step, Contract!Next, Contract!BeginCommand
  <2>3. CASE frame.next # "command"
    <3>1. activityBar' = activityBar
      BY <1>1, <2>1, <2>3 DEF activityBar, Phase, Result, Running
    <3> QED
      BY <1>1, <2>1, <3>1, StutterMapped
  <2> QED
    BY <2>2, <2>3
<1>5. CASE LaunchFails
  <2>1. pc = "spawn" /\ activityBar' = Contract!Idle
    BY <1>5, IdleMapped DEF LaunchFails, CheckFails
  <2>2. CASE frame.next = "explicit"
    BY <1>1, <1>2, <1>5, <2>1, <2>2, KeepMapped
       DEF LaunchFails, Step, Contract!Next, Contract!EndExplicit
  <2>3. CASE frame.next \in {"whoami", "vault"}
    BY <1>1, <1>2, <1>5, <2>1, <2>3, RevokeMapped
       DEF LaunchFails, CheckFails, Step, Contract!Next, Contract!RevokeAll,
           Contract!Checks
  <2>4. CASE frame.next = "command"
    BY <1>1, <1>2, <1>5, <2>1, <2>4, ExpireMapped
       DEF LaunchFails, Step, Contract!Next, Contract!EndCommand
  <2> QED
    BY <1>1, <2>2, <2>3, <2>4 DEF Running
<1> QED
  BY <1>3, <1>4, <1>5

\* The activity while a child runs, or when it ended.
LEMMA ChildActivity ==
    ASSUME TypeOK, pc \in Running
    PROVE  activityBar =
             [phase   |-> pc,
              account |-> frame.account,
              since   |-> IF pc = "explicit" THEN frame.authorized ELSE 0,
              result  |-> IF pc = "command" \/ frame.outcome = "pending" THEN "none"
                          ELSE IF frame.outcome = "success" THEN "passed"
                          ELSE IF frame.outcome \in {"cancelled", "shutdown"}
                          THEN "asked" ELSE "failed"]
<1>1. Phase = pc
  BY DEF Phase, Running
<1>2. Result = IF pc = "command" \/ frame.outcome = "pending" THEN "none"
               ELSE IF frame.outcome = "success" THEN "passed"
               ELSE IF frame.outcome \in {"cancelled", "shutdown"}
               THEN "asked" ELSE "failed"
  BY <1>1 DEF Result, Running
<1> QED
  BY <1>1, <1>2 DEF activityBar, Running

LEMMA AfterMapped ==
    ASSUME TypeOK, Grounded, Places, NextFits, Inductive,
           AfterExplicit \/ AfterWhoami \/ AfterVault \/ Recheck
             \/ AfterCommand
    PROVE  Step
<1>1. /\ now' = now
      /\ frame \in Frame /\ frame.account \in Accounts
  BY FrameAccount
     DEF AfterExplicit, AfterWhoami, AfterVault, Recheck, AfterCommand,
         Returned, TypeOK, Running, InUse, Between
<1>2. CASE AfterExplicit
  <2>1. /\ activityBar.phase = "explicit"
        /\ activityBar.account = frame.account
        /\ activityBar.since = frame.authorized
        /\ activityBar.result = "passed" <=> frame.outcome = "success"
    BY <1>2, ChildActivity
       DEF AfterExplicit, Returned, Running, Outcomes, Natural
  <2>2. activityBar' = Contract!Idle
    BY <1>2, IdleMapped DEF AfterExplicit
  <2>3. CASE frame.outcome = "success"
    <3>1. grantBar' = [grantBar EXCEPT ![frame.account] =
                         frame.authorized + HardLimit]
      BY <1>1, <1>2, <2>3 DEF AfterExplicit, grantBar, Active, TypeOK
    <3> QED
      BY <1>1, <2>1, <2>2, <2>3, <3>1
         DEF Step, Contract!Next, Contract!EndExplicit
  <2>4. CASE frame.outcome # "success"
    BY <1>1, <1>2, <2>1, <2>2, <2>4, KeepMapped
       DEF AfterExplicit, Step, Contract!Next, Contract!EndExplicit
  <2> QED
    BY <2>3, <2>4
<1>3. ASSUME pc \in {"whoami", "vault"}, frame.outcome \in Outcomes, CheckEnds
      PROVE  Step
  <2>1. /\ activityBar.phase \in {"whoami", "vault"}
        /\ frame.outcome \in {"cancelled", "shutdown"} => activityBar.result = "asked"
        /\ frame.outcome \notin {"success", "cancelled", "shutdown"}
             => activityBar.result = "failed"
    BY <1>3, ChildActivity DEF Running, Outcomes, Natural
  <2>2. activityBar' = Contract!Idle
    BY <1>3, IdleMapped DEF CheckFails, CheckEnds
  <2>3. CASE frame.outcome \notin {"success", "cancelled", "shutdown"} /\ CheckFails
    BY <1>1, <2>1, <2>2, <2>3, RevokeMapped
       DEF CheckFails, Step, Contract!Next, Contract!RevokeAll, Contract!Checks
  <2>4. CASE frame.outcome \in {"cancelled", "shutdown"} /\ records' = records
    BY <1>1, <2>1, <2>2, <2>4, KeepMapped
       DEF Step, Contract!Next, Contract!AbandonCheck, Contract!Checks
  <2> QED
    BY <1>3, <2>3, <2>4 DEF CheckEnds
<1>4. CASE AfterWhoami
  <2>1. pc = "whoami" /\ frame.outcome \in Outcomes
    BY <1>4 DEF AfterWhoami, Returned
  <2>2. CASE frame.outcome = "success" /\ GoOn("spawn", "vault") /\ UNCHANGED records
    <3>1. activityBar' = Contract!Doing("vault", frame.account)
      BY <2>2, GoOnMapped DEF Running
    <3>2. /\ activityBar.phase = "whoami" /\ activityBar.result = "passed"
          /\ activityBar.account = frame.account
      BY <2>1, <2>2, ChildActivity DEF Running
    <3> QED
      BY <1>1, <2>2, <3>1, <3>2, KeepMapped
         DEF Step, Contract!Next, Contract!WhoamiPassed
  <2> QED
    BY <1>3, <1>4, <2>1, <2>2 DEF AfterWhoami
<1>5. CASE AfterVault
  <2>1. pc = "vault" /\ frame.outcome \in Outcomes
    BY <1>5 DEF AfterVault, Returned
  <2>2. CASE frame.outcome = "success"
    <3>1. grantBar' = grantBar
      BY <1>5, <2>2 DEF AfterVault, grantBar, Active
    <3>2. /\ activityBar.phase = "vault" /\ activityBar.result = "passed"
          /\ activityBar.account = frame.account
      BY <2>1, <2>2, ChildActivity DEF Running
    <3>3. CASE frame.client = NoClient
      <4>1. activityBar' = Contract!Idle
        BY <1>5, <2>2, <3>3, NothingDone
           DEF AfterVault, Running, Between
      <4> QED
        BY <1>1, <3>1, <3>2, <4>1 DEF Step, Contract!Next, Contract!CheckPassed
    <3>4. CASE frame.client # NoClient
      <4>1. activityBar' = Contract!Doing("passed", frame.account)
        BY <1>5, <2>2, <3>4, GoOnMapped DEF AfterVault, Running
      <4> QED
        BY <1>1, <3>1, <3>2, <4>1 DEF Step, Contract!Next, Contract!CheckPassed
    <3> QED
      BY <3>3, <3>4
  <2> QED
    BY <1>3, <1>5, <2>1, <2>2 DEF AfterVault
<1>6. CASE Recheck
  <2>1. /\ activityBar.phase = "passed" /\ activityBar.account = frame.account
        /\ records' = Unexpired /\ frame.next = "command"
        /\ frame.outcome = "pending"
    BY <1>6 DEF Recheck, activityBar, Phase, Running, NextFits, Inductive, Between
  <2>2. CASE ~Unexpired[frame.account].active /\ Finish("authorizationRequired")
    BY <1>1, <2>1, <2>2, IdleMapped, ExpireMapped
       DEF Step, Contract!Next, Contract!Clear
  <2>3. CASE /\ Unexpired[frame.account].active
             /\ pc' = "deadline" /\ UNCHANGED frame
    <3>1. activityBar' = Contract!Doing("cleared", frame.account)
      BY <2>1, <2>3 DEF activityBar, Phase, Result, Running, Contract!Doing
    <3> QED
      BY <1>1, <2>1, <2>3, <3>1, ExpireMapped
         DEF Step, Contract!Next, Contract!Clear
  <2> QED
    BY <1>6, <2>2, <2>3 DEF Recheck
<1>7. CASE AfterCommand
  <2>1. activityBar.phase = "command" /\ records' = Unexpired
    BY <1>7 DEF AfterCommand, Returned, activityBar, Phase, Running
  <2>2. activityBar' = Contract!Idle
    BY <1>7, IdleMapped DEF AfterCommand
  <2> QED
    BY <1>1, <2>1, <2>2, ExpireMapped
       DEF Step, Contract!Next, Contract!EndCommand
<1> QED
  BY <1>2, <1>4, <1>5, <1>6, <1>7

LEMMA RunnerMapped ==
    ASSUME TypeOK, Latch \/ ChildExits \/ ChildEnds \/ ChildTerminated
    PROVE  Step
<1>1. /\ UNCHANGED <<now, records, pc>>
      /\ frame'.account = frame.account
      /\ frame'.authorized = frame.authorized
      /\ pc \in Running /\ frame.outcome = "pending"
  BY ChildFrame DEF Latch, ChildExits, ChildEnds, ChildTerminated, ChildAlive
<1>2. activityBar =
        [phase   |-> pc, account |-> frame.account,
         since   |-> IF pc = "explicit" THEN frame.authorized ELSE 0,
         result  |-> "none"]
  BY <1>1, ChildActivity
<1>3. CASE frame'.outcome = "pending" \/ pc = "command"
  <2>1. activityBar' = activityBar
    BY <1>1, <1>2, <1>3 DEF activityBar, Phase, Result, Running
  <2> QED
    BY <1>1, <2>1, StutterMapped
<1>4. CASE frame'.outcome # "pending" /\ pc # "command"
  <2>1. PICK r \in {"passed", "failed", "asked"} :
          activityBar' =
            [phase   |-> pc, account |-> frame.account,
             since   |-> IF pc = "explicit" THEN frame.authorized ELSE 0,
             result  |-> r]
    BY <1>1, <1>4 DEF activityBar, Phase, Result, Running
  <2>2. activityBar' = [activityBar EXCEPT !.result = r]
    BY <1>2, <2>1
  <2> QED
    BY <1>1, <1>2, <1>4, <2>2, KeepMapped
       DEF Step, Contract!Next, Contract!Return, Contract!Checks, Running
<1> QED
  BY <1>3, <1>4

\* The executor implements the contract: every run of it, with its requests,
\* cancellations, shutdown and failing children, is a run the contract allows.
THEOREM Implements == Spec => ContractHolds
<1>1. Init => Contract!Init
  BY NothingDone DEF Init, Contract!Init, grantBar, Invalidated, Required,
                     Contract!Nothing, Running, Between
<1>2. ASSUME UNCHANGED vars PROVE UNCHANGED Contract!vars
  BY <1>2 DEF vars, Contract!vars, grantBar, activityBar, Phase, Result
<1>3. TypeOK /\ NextIsKnown /\ NextFits /\ Inductive /\ Places /\ Grounded /\ [Next]_vars
        => [Contract!Next]_Contract!vars
  BY <1>2, OutsideMapped, LoopMapped, HandleMapped, LaunchMapped, AfterMapped,
     RunnerMapped DEF Next, Work, Step
<1> QED
  BY <1>1, <1>3, TypeInit, TypeNext, NextKnownInit, NextKnownNext, NextFitsInit,
     NextFitsNext, InductiveInit, InductiveNext, PlacesInit, PlacesNext,
     GroundedInit, GroundedNext, PTL
     DEF Spec, ContractHolds, Contract!Spec

-----------------------------------------------------------------------------
(* The executor and its children keep RunContract.                         *)

ChildStep == Latch \/ ChildExits \/ ChildEnds \/ ChildTerminated
RunStep == Children!Next \/ UNCHANGED Children!vars

LEMMA HoldingType == Holding \in SUBSET Reasons /\ Reasons = Children!Reasons
BY ReasonsType DEF Holding, Reasons, Children!Reasons

\* A child that starts knows the reasons of the state it starts in.
LEMMA StartMapped ==
    ASSUME TypeOK, NextIsKnown, Inductive, Launch
    PROVE  RunStep
<1>1. /\ pc = "spawn" /\ pc' \in Running
      /\ frame.outcome = "pending" /\ ~frame.clear /\ frame.latch = "none"
  BY DEF Launch, NextIsKnown, Inductive, Between, TypeOK, Frame
<1>2. /\ frame'.client = frame.client /\ frame'.deadline = frame.deadline
      /\ frame'.under = Holding
      /\ frame'.clear = FALSE /\ frame'.latch = "none"
      /\ frame'.outcome = "pending"
  BY <1>1 DEF Launch, TypeOK, Frame
<1>3. Holding' = Holding /\ Holding \in SUBSET Children!Reasons
  BY <1>2, HoldingType DEF Launch, Holding, ReasonsFor, Cancelled
<1>4. ~InRun /\ InRun'
  BY <1>1 DEF InRun, Running
<1>5. Children!Start
  BY <1>2, <1>3, <1>4
     DEF Children!Start, dueBar, underBar, clearBar, latchBar, outcomeBar
<1> QED
  BY <1>5 DEF RunStep, Children!Next

\* A turn of the loop that ends, or that does not come to a child.
LEMMA ForgetMapped ==
    ASSUME ~InRun', outcomeBar # "pending"
    PROVE  RunStep
<1>1. Children!Forget
  BY DEF Children!Forget, Children!Cleared, dueBar, underBar, clearBar,
         latchBar, outcomeBar
<1> QED
  BY <1>1 DEF RunStep, Children!Next

\* The connections, the stopper and the clock only add reasons.
LEMMA OutsideAddsReasons ==
    ASSUME TypeOK, Connection \/ RequestStop \/ SendStop \/ Tick
    PROVE  /\ pc' = pc /\ frame' = frame
           /\ Holding \subseteq Holding'
<1>1. pc' = pc /\ frame' = frame
  BY DEF Connection, Connect, HangUp, Submit, CancelBySignal, Disconnect,
         RequestStop, SendStop, Tick
<1>2. (shutdown => shutdown') /\ now' \in {now, now + 1}
  BY DEF Connection, Connect, HangUp, Submit, CancelBySignal, Disconnect,
         RequestStop, SendStop, Tick
<1>3. Cancelled(frame.client) => Cancelled(frame.client)'
  BY CancelStays
<1>4. now >= frame.deadline => now' >= frame.deadline
  BY <1>2 DEF TypeOK, Frame
<1>5. Holding' = (IF shutdown' THEN {"shutdown"} ELSE {})
                   \cup (IF Cancelled(frame.client)' THEN {"cancelled"} ELSE {})
                   \cup (IF now' >= frame.deadline THEN {"timedOut"} ELSE {})
  BY <1>1 DEF Holding, ReasonsFor, Cancelled
<1> QED
  BY <1>1, <1>2, <1>3, <1>4, <1>5 DEF Holding, ReasonsFor

LEMMA OutsideKeeps ==
    ASSUME TypeOK, Connection \/ RequestStop \/ SendStop \/ Tick
    PROVE  RunStep
<1>1. /\ InRun' = InRun
      /\ underBar' = underBar /\ clearBar' = clearBar
      /\ latchBar' = latchBar /\ outcomeBar' = outcomeBar
  BY OutsideAddsReasons
     DEF InRun, underBar, clearBar, latchBar, outcomeBar
<1>2. dueBar \subseteq dueBar' /\ dueBar' \in SUBSET Children!Reasons
  <2>1. Holding' \in SUBSET Children!Reasons
    BY HoldingType, ReasonsType DEF Holding, ReasonsFor, Children!Reasons
  <2> QED
    BY <1>1, <2>1, OutsideAddsReasons DEF dueBar
<1>3. CASE outcomeBar = "pending"
  BY <1>1, <1>2, <1>3 DEF RunStep, Children!Next, Children!ReasonComes
<1>4. CASE outcomeBar # "pending"
  BY <1>1, <1>2, <1>4 DEF RunStep, Children!Next, Children!Settle
<1> QED
  BY <1>3, <1>4

\* The loop, and what is done before a child starts and after it ended.
LEMMA LoopKeeps ==
    ASSUME TypeOK, Loop \/ Ending
    PROVE  RunStep
BY ForgetMapped
   DEF Loop, Ending, LeaveLoop, EnterLoop, TakeRequest, TakeStop, AwaitMessage,
       WaitTimesOut, Maintain, Drain, SetComplete, DropReceiver, Running,
       outcomeBar, InRun

LEMMA WorkKeeps ==
    ASSUME TypeOK, NextIsKnown, Inductive, Work
    PROVE  RunStep
<1>1. outcomeBar # "pending"
  <2>1. pc \in {"handle", "recheck", "deadline", "spawn"} \/ frame.outcome \in Outcomes
    BY DEF Work, HandleCancelled, HandleStart, BeginExplicit, HandleStatus,
           HandleExec, Handling, SetDeadline, Launch, LaunchFails, AfterExplicit,
           AfterWhoami, AfterVault, Recheck, AfterCommand, Returned
  <2> QED
    BY <2>1 DEF outcomeBar, InRun, Running, Outcomes, Natural
<1>2. ASSUME NEW r, Finish(r) PROVE ~InRun'
  BY <1>2 DEF Finish, InRun, Running
<1>3. ASSUME NEW place \in Between, NEW kind, GoOn(place, kind) PROVE ~InRun'
  BY <1>3 DEF GoOn, InRun, Running, Between
<1>4. CheckFails \/ CheckEnds => ~InRun'
  BY <1>2 DEF CheckFails, CheckEnds
<1>5. CASE \/ HandleCancelled \/ HandleStart \/ HandleStatus \/ LaunchFails
           \/ AfterExplicit \/ AfterCommand
  BY <1>1, <1>2, <1>4, <1>5, ForgetMapped
     DEF HandleCancelled, HandleStart, HandleStatus, LaunchFails, AfterExplicit,
         AfterCommand
<1>6. CASE BeginExplicit \/ HandleExec \/ AfterWhoami
  BY <1>1, <1>2, <1>3, <1>4, <1>6, ForgetMapped
     DEF BeginExplicit, HandleExec, AfterWhoami, Between
<1>7. CASE AfterVault
  BY <1>1, <1>3, <1>4, <1>7, ForgetMapped DEF AfterVault, InRun, Running, Between
<1>8. CASE SetDeadline \/ Recheck
  BY <1>1, <1>2, <1>8, ForgetMapped DEF SetDeadline, Recheck, InRun, Running
<1> QED
  BY <1>5, <1>6, <1>7, <1>8, StartMapped DEF Work

\* A child that runs does in the executor's view what RunContract lets it do,
\* all of that and nothing else.
LEMMA ChildMapped ==
    ASSUME TypeOK, ChildStep
    PROVE  ChildAlive /\ OnlyChildSteps /\ Children!Child
<1> USE DEF dueBar, underBar, clearBar, latchBar, outcomeBar, InRun
<1>1. pc \in Running /\ frame.outcome = "pending" /\ ChildAlive
      /\ UNCHANGED <<now, queue, request, control, answer, records, shutdown,
                     stopper, pc, late, behind>>
  BY DEF ChildStep, Latch, ChildExits, ChildEnds, ChildTerminated, ChildAlive
<1>2. Holding' = Holding
  BY <1>1, ChildFrame DEF ChildStep, Holding, ReasonsFor, Cancelled
<1>3. CASE Latch
  <2>1. PICK r \in Holding :
          /\ Before(r) \cap frame.under = {}
          /\ frame' = [frame EXCEPT !.latch = r, !.clear = FALSE]
    BY <1>3 DEF Latch
  <2>2. /\ frame'.latch = r /\ frame'.clear = FALSE
        /\ frame'.under = frame.under /\ frame'.outcome = frame.outcome
    BY <2>1 DEF TypeOK, Frame
  <2>3. r \in Children!Reasons /\ Before(r) = Children!Before(r)
    BY HoldingType DEF Before, Children!Before, Children!Reasons
  <2>4. Children!Latch(r)
    BY <1>1, <1>2, <1>3, <2>1, <2>2, <2>3 DEF Latch, Children!Latch
  <2>5. frame' = [frame EXCEPT !.under = frame.under, !.clear = FALSE,
                               !.latch = r, !.outcome = frame.outcome]
    BY <2>1 DEF TypeOK, Frame
  <2> QED
    BY <1>1, <2>3, <2>4, <2>5 DEF OnlyChildSteps, Children!Child
<1>4. CASE ChildExits
  <2>1. frame' = [frame EXCEPT !.under = frame.under, !.clear = TRUE,
                               !.latch = frame.latch, !.outcome = frame.outcome]
    BY <1>4 DEF ChildExits, TypeOK, Frame
  <2>2. /\ frame'.latch = frame.latch /\ frame'.clear = TRUE
        /\ frame'.under = frame.under /\ frame'.outcome = frame.outcome
    BY <2>1 DEF TypeOK, Frame
  <2>3. Children!Exit
    BY <1>1, <1>2, <1>4, <2>2 DEF ChildExits, Children!Exit
  <2> QED
    BY <1>1, <2>1, <2>3 DEF OnlyChildSteps, Children!Child
<1>5. ASSUME NEW o \in Children!Results, frame' = Ended(o)
      PROVE  OnlyChildSteps /\ Children!Child
  <2>1. /\ frame'.latch = "none" /\ frame'.clear = FALSE
        /\ frame'.under = {} /\ frame'.outcome = o
    BY <1>5 DEF Ended, TypeOK, Frame
  <2>2. Children!Return
    BY <1>1, <1>2, <2>1 DEF Children!Return, Children!Cleared
  <2> QED
    BY <1>1, <1>5, <2>2 DEF Ended, OnlyChildSteps, Children!Child
<1>6. CASE ChildEnds
  <2>1. PICK o \in Natural \cup {"error"} :
          (o \in Natural => frame.clear) /\ frame' = Ended(o)
    BY <1>6 DEF ChildEnds
  <2>2. o \in Children!Results
    BY <1>1, <1>6, <2>1 DEF ChildEnds, Children!Results
  <2> QED
    BY <1>1, <1>5, <2>1, <2>2
<1>7. CASE ChildTerminated
  <2>1. PICK o \in {frame.latch, "error"} : frame' = Ended(o)
    BY <1>7 DEF ChildTerminated
  <2>2. o \in Children!Results
    BY <1>1, <1>7, <2>1 DEF ChildTerminated, Children!Results
  <2> QED
    BY <1>1, <1>5, <2>1, <2>2
<1> QED
  BY <1>1, <1>3, <1>4, <1>6, <1>7 DEF ChildStep

\* The executor keeps its half of RunContract: its threads' steps are steps of
\* the contract, or none.
THEOREM KeepsRunContract == Spec => ChildrenKeepContract
<1>1. Init => Children!Init
  BY DEF Init, Children!Init, Children!Cleared, dueBar, underBar, clearBar,
         latchBar, outcomeBar, InRun, Running
<1>2. ASSUME UNCHANGED vars PROVE UNCHANGED Children!vars
  BY <1>2 DEF vars, Children!vars, dueBar, underBar, clearBar, latchBar,
              outcomeBar, InRun, Holding, ReasonsFor, Cancelled
<1>3. TypeOK /\ NextIsKnown /\ Inductive /\ [Next]_vars
        => [Children!Next]_Children!vars
  <2>1. ASSUME TypeOK, ChildStep PROVE RunStep
    BY <2>1, ChildMapped DEF RunStep, Children!Next
  <2> QED
    BY <1>2, <2>1, OutsideKeeps, LoopKeeps, WorkKeeps
       DEF Next, ChildStep, RunStep
<1> QED
  BY <1>1, <1>3, TypeInit, TypeNext, NextKnownInit, NextKnownNext, InductiveInit, InductiveNext, PTL
     DEF Spec, ChildrenKeepContract, Children!Spec

\* The executor takes its children for exactly what RunContract says of them:
\* it reckons with every step the contract lets a child do, and with no other.
\* With the theorem that Runner keeps the contract, it reckons with all that
\* Runner's children do (wait_inner).
THEOREM ChildrenAreContract ==
    ASSUME TypeOK, ChildAlive
    PROVE  ChildStep <=> OnlyChildSteps /\ Children!Child
<1> USE DEF dueBar, underBar, clearBar, latchBar, outcomeBar, InRun
<1>1. ASSUME OnlyChildSteps, Children!Child PROVE ChildStep
  <2>1. /\ pc \in Running /\ pc' = pc /\ frame.outcome = "pending"
        /\ UNCHANGED <<now, queue, request, control, answer, records, shutdown,
                       stopper, pc, late, behind>>
    BY <1>1 DEF OnlyChildSteps, ChildAlive
  <2>2. PICK u, c, l, o :
          frame' = [frame EXCEPT !.under = u, !.clear = c, !.latch = l,
                                 !.outcome = o]
    BY <1>1 DEF OnlyChildSteps
  <2>3. /\ frame'.under = u /\ frame'.clear = c
        /\ frame'.latch = l /\ frame'.outcome = o
    BY <2>2 DEF TypeOK, Frame
  <2>4. ASSUME NEW r \in Children!Reasons, Children!Latch(r) PROVE Latch
    <3>1. r \in Holding /\ Before(r) \cap frame.under = {} /\ frame.latch = "none"
      BY <2>1, <2>4 DEF Children!Latch, Before, Children!Before, Children!Reasons
    <3>2. u = frame.under /\ c = FALSE /\ l = r /\ o = frame.outcome
      BY <2>1, <2>3, <2>4 DEF Children!Latch
    <3>3. frame' = [frame EXCEPT !.latch = r, !.clear = FALSE]
      BY <2>2, <3>2 DEF TypeOK, Frame
    <3> QED
      BY <2>1, <3>1, <3>3 DEF Latch, ChildAlive
  <2>5. CASE Children!Exit
    <3>1. Holding = {} /\ ~frame.clear
      BY <2>1, <2>5 DEF Children!Exit
    <3>2. u = frame.under /\ c = TRUE /\ l = frame.latch /\ o = frame.outcome
      BY <2>1, <2>3, <2>5 DEF Children!Exit
    <3>3. frame' = [frame EXCEPT !.clear = TRUE]
      BY <2>2, <3>2 DEF TypeOK, Frame
    <3> QED
      BY <2>1, <3>1, <3>3 DEF ChildExits, ChildStep, ChildAlive
  <2>6. CASE Children!Return
    <3>1. u = {} /\ c = FALSE /\ l = "none" /\ o \in Children!Results
      BY <2>1, <2>3, <2>6 DEF Children!Return, Children!Cleared
    <3>2. frame' = Ended(o)
      BY <2>2, <3>1 DEF Ended
    <3>3. CASE frame.latch = "none"
      <4>1. o \in Natural \cup {"error"} /\ (o \in Natural => frame.clear)
        BY <2>1, <3>1, <3>3 DEF Children!Results, Natural
      <4> QED
        BY <2>1, <3>2, <3>3, <4>1 DEF ChildEnds, ChildStep, ChildAlive
    <3>4. CASE frame.latch # "none"
      BY <2>1, <3>1, <3>2, <3>4
         DEF Children!Results, ChildTerminated, ChildStep, ChildAlive
    <3> QED
      BY <3>3, <3>4
  <2> QED
    BY <1>1, <2>4, <2>5, <2>6 DEF Children!Child, ChildStep
<1> QED
  BY <1>1, ChildMapped
=============================================================================
