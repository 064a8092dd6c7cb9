------------------------- MODULE AuthorizationContract -------------------------
(***************************************************************************)
(* What the broker promises about authorization (SPEC.md, "Authorization"  *)
(* and "Broker and transport"), without channels, connections, replies,    *)
(* shutdown or child processes: one activity at a time; a command only     *)
(* after both commands of a check passed and the account's grant was found *)
(* to last when they had; grants only from an explicit authorization that  *)
(* passed, with a limit that nothing moves; a check that failed takes      *)
(* every grant away, and one that was asked to end takes none.             *)
(***************************************************************************)
EXTENDS Naturals

CONSTANTS Accounts, HardLimit

VARIABLES
    now,       \* the clock
    grant,     \* per account, when its authorization ends; 0: there is none
    activity   \* what is being done, for which account, since when, and how
               \* its child process ended if it did

vars == <<now, grant, activity>>

Idle == [phase |-> "idle", account |-> "none", since |-> 0, result |-> "none"]
Doing(phase, a) == [phase |-> phase, account |-> a, since |-> 0,
                    result |-> "none"]
Checks == {"whoami", "vault"}

Nothing == [a \in Accounts |-> 0]
Live == [a \in Accounts |-> IF grant[a] <= now THEN 0 ELSE grant[a]]

Init == now = 0 /\ grant = Nothing /\ activity = Idle

Tick == now' = now + 1 /\ UNCHANGED <<grant, activity>>

Lapse == grant' = Live /\ UNCHANGED <<now, activity>>

\* Only an account without a grant is authorized explicitly.
BeginExplicit ==
    /\ activity = Idle
    /\ \E a \in Accounts : /\ Live[a] = 0
                           /\ activity' = Doing("authorize", a)
    /\ grant' = Live
    /\ UNCHANGED now

\* The probe's start, which its grant will count from.
Authorize ==
    /\ activity.phase = "authorize"
    /\ activity' = [Doing("explicit", activity.account) EXCEPT !.since = now]
    /\ UNCHANGED <<now, grant>>

\* A request's check looks at the hard limit first; a maintenance check goes
\* by the grants as they were found before.
BeginCheck ==
    /\ activity = Idle
    /\ grant' \in {grant, Live}
    /\ \E a \in Accounts : /\ grant'[a] # 0
                           /\ activity' = Doing("whoami", a)
    /\ UNCHANGED now

\* The child of the probe or of the check ends; it was asked to if its request was
\* cancelled or the broker is shutting down.
Return ==
    /\ activity.phase \in Checks \cup {"explicit"}
    /\ activity.result = "none"
    /\ \E r \in {"passed", "failed", "asked"} :
          activity' = [activity EXCEPT !.result = r]
    /\ UNCHANGED <<now, grant>>

\* No result: the probe could not be started.
EndExplicit ==
    /\ activity.phase = "explicit"
    /\ grant' = IF activity.result = "passed"
                THEN [grant EXCEPT ![activity.account] = activity.since + HardLimit]
                ELSE grant
    /\ activity' = Idle
    /\ UNCHANGED now

WhoamiPassed ==
    /\ activity.phase = "whoami" /\ activity.result = "passed"
    /\ activity' = Doing("vault", activity.account)
    /\ UNCHANGED <<now, grant>>

CheckPassed ==
    /\ activity.phase = "vault" /\ activity.result = "passed"
    /\ activity' \in {Idle, Doing("passed", activity.account)}
    /\ UNCHANGED <<now, grant>>

\* A check failed, or a command of it could not be started; or the broker ends.
RevokeAll ==
    /\ \/ activity = Idle
       \/ activity.phase \in Checks /\ activity.result \in {"none", "failed"}
    /\ grant' = Nothing
    /\ activity' = Idle
    /\ UNCHANGED now

AbandonCheck ==
    /\ activity.phase \in Checks /\ activity.result = "asked"
    /\ activity' = Idle
    /\ UNCHANGED <<now, grant>>

\* The grant is looked at once more after the check.
Clear ==
    /\ activity.phase = "passed"
    /\ grant' = Live
    /\ activity' = IF Live[activity.account] # 0
                   THEN Doing("cleared", activity.account) ELSE Idle
    /\ UNCHANGED now

BeginCommand ==
    /\ activity.phase = "cleared"
    /\ activity' = Doing("command", activity.account)
    /\ UNCHANGED <<now, grant>>

\* The command ended, or could not be started.
EndCommand ==
    /\ activity.phase \in {"cleared", "command"}
    /\ grant' = Live
    /\ activity' = Idle
    /\ UNCHANGED now

Next == \/ Tick \/ Lapse \/ BeginExplicit \/ Authorize \/ BeginCheck \/ Return
        \/ EndExplicit \/ WhoamiPassed \/ CheckPassed \/ RevokeAll
        \/ AbandonCheck \/ Clear \/ BeginCommand \/ EndCommand

Spec == Init /\ [][Next]_vars
=============================================================================
