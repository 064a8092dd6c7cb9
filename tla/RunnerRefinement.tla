---------------------------- MODULE RunnerRefinement ----------------------------
(***************************************************************************)
(* A run of Runner implements RunContract: it is pending from the spawn to *)
(* the result that probe or run returns.                                   *)
(***************************************************************************)
EXTENDS Runner

InRun == pc \notin {"spawn", "done"}

underBar   == IF InRun THEN startedUnder ELSE {}
clearBar   == InRun /\ LeaderEnded /\ endedUnder = {} /\ termination = "none"
latchBar   == IF InRun THEN termination ELSE "none"
outcomeBar == IF InRun THEN "pending" ELSE IF pc = "done" THEN result ELSE "idle"

Run == INSTANCE RunContract
       WITH due <- Due, under <- underBar, clear <- clearBar,
            latch <- latchBar, outcome <- outcomeBar

\* Every run, with its polls taken apart and everything around it moving between
\* two looks, is one the contract allows: the reason returned was there and none
\* that ranks above it was missed from the start on, and an exit of its own
\* happened while there was none, although a status reaped by one poll is looked
\* at again by later ones.
RunKeepsContract == Run!Spec
=============================================================================
