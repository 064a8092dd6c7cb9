------------------------------ MODULE RunContract ------------------------------
(***************************************************************************)
(* What a run of a child process promises the executor (Runner::probe and  *)
(* Runner::run, src/src/process.rs), without processes, groups, signals,   *)
(* pipes or the terminal.  The reasons to terminate the child come and     *)
(* stay.  One of them is latched for good, never one that ranks below a    *)
(* reason that was there when the child started; a terminated run returns  *)
(* the latched reason.  A run reports that its child ended by itself only  *)
(* if it did so while there was no reason at all.  Any run may fail.       *)
(***************************************************************************)
EXTENDS Naturals

CONSTANT Natural   \* how a child ends by itself

VARIABLES
    due,      \* the reasons that hold now
    under,    \* those that held when the child started
    clear,    \* the child ended while no reason held, and none was latched
    latch,    \* the reason the child is terminated for
    outcome   \* what the run returned, if it did

vars == <<due, under, clear, latch, outcome>>

Reasons == {"shutdown", "cancelled", "timedOut"}

\* The reasons that a poll looks at before r.
Before(r) == CASE r = "shutdown"  -> {}
               [] r = "cancelled" -> {"shutdown"}
               [] r = "timedOut"  -> {"shutdown", "cancelled"}

\* Nothing is known of a child before it starts and after its run returned.
Cleared == under = {} /\ clear = FALSE /\ latch = "none"

Init == due \in SUBSET Reasons /\ Cleared /\ outcome = "idle"

\* While no child runs, the next run's client, deadline and flags are settled.
Settle ==
    /\ outcome # "pending"
    /\ due' \in SUBSET Reasons
    /\ UNCHANGED <<under, clear, latch, outcome>>

Start ==
    /\ outcome # "pending" /\ outcome' = "pending"
    /\ due' \in SUBSET Reasons /\ under' = due'
    /\ clear' = FALSE /\ latch' = "none"

\* No child could be started.
Refuse ==
    /\ outcome # "pending" /\ outcome' = "error"
    /\ UNCHANGED <<due, under, clear, latch>>

\* The executor is done with a result.
Forget ==
    /\ outcome # "pending" /\ outcome' = "idle"
    /\ due' \in SUBSET Reasons
    /\ Cleared'

ReasonComes ==
    /\ outcome = "pending"
    /\ due \subseteq due' /\ due' \in SUBSET Reasons
    /\ UNCHANGED <<under, clear, latch, outcome>>

Exit ==
    /\ outcome = "pending" /\ due = {} /\ ~clear
    /\ clear' = TRUE
    /\ UNCHANGED <<due, under, latch, outcome>>

Latch(r) ==
    /\ outcome = "pending" /\ latch = "none"
    /\ r \in due /\ Before(r) \cap under = {}
    /\ latch' = r /\ clear' = FALSE
    /\ UNCHANGED <<due, under, outcome>>

\* What a run may return.
Results == {"error"}
           \cup (IF latch # "none" THEN {latch} ELSE IF clear THEN Natural ELSE {})

Return ==
    /\ outcome = "pending"
    /\ outcome' \in Results
    /\ Cleared'
    /\ UNCHANGED due

\* What happens to a child that runs.
Child == Exit \/ Return \/ \E r \in Reasons : Latch(r)

Next == Settle \/ Start \/ Refuse \/ Forget \/ ReasonComes \/ Child

Spec == Init /\ [][Next]_vars
=============================================================================
