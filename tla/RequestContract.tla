----------------------------- MODULE RequestContract -----------------------------
(***************************************************************************)
(* What becomes of one request, from its submission to its answer, for the *)
(* connection that waits for it: the broker's channel, BrokerActor::handle *)
(* and the response (src/src/broker.rs), without other requests, accounts, *)
(* checks, clocks or processes.  The request is answered once, with what   *)
(* the place it got to, its control and the flag allow; a cancelled one    *)
(* goes no further than it was; and the exit of its command is the answer  *)
(* only if the command ended before anybody asked for its end.             *)
(***************************************************************************)
VARIABLES
    down,     \* the broker's flag
    exec,     \* an open request is one to run a command
    control,  \* of an open request: its RequestControl
    stage,    \* how far it got
    reply     \* its answer, until it is forgotten

vars == <<down, exec, control, stage, reply>>

\* The run of the command: nobody asked for its end as it ended ("clear"), or
\* its time passed ("expired"), or it is terminated ("doomed"), or broke down.
Runs == {"running", "clear", "expired", "doomed", "failed"}
Open == {"queued", "begun"} \cup Runs

Init == /\ down = FALSE /\ control = "live" /\ reply = "none"
        /\ \/ stage = "none" /\ exec = FALSE
           \/ stage = "queued" /\ exec \in BOOLEAN

Submit ==
    /\ stage \in {"none", "replied"}
    /\ stage' = "queued" /\ exec' \in BOOLEAN /\ control' = "live" /\ reply' = "none"
    /\ UNCHANGED down

\* By a signal of the caller, or as the client went away.
Cancel ==
    /\ stage \in Open /\ control = "live"
    /\ control' \in {"signal", "gone"} /\ (control' = "signal" => exec)
    /\ UNCHANGED <<down, exec, stage, reply>>

ShutDown == down' = TRUE /\ UNCHANGED <<exec, control, stage, reply>>

To(from, place) ==
    /\ stage \in from /\ stage' = place
    /\ UNCHANGED <<down, exec, control, reply>>

Begin == control = "live" /\ To({"queued"}, "begun")
Run == exec /\ To({"begun"}, "running")
Clear == control = "live" /\ ~down /\ To({"running"}, "clear")
Expire == To({"running", "clear"}, "expired")
Doom == (control # "live" \/ down) /\ To({"running", "clear"}, "doomed")
Break == To(Runs \ {"failed"}, "failed")

Cancelled == CASE control = "live"   -> {}
               [] control = "signal" -> {"cancelledBySignal"}
               [] control = "gone"   -> {"cancelled"}
Dropped == IF down THEN {"dropped"} ELSE {}

\* What a request may be answered from where it is.
Replies ==
    CASE stage = "queued" ->
           Cancelled \cup Dropped
             \cup (IF down THEN {"error"} ELSE {})
             \cup (IF control # "live" THEN {}
                   ELSE IF exec THEN {"required"} ELSE {"done"})
      [] stage = "begun" ->
           Cancelled \cup Dropped
             \cup (IF exec THEN {"required", "error"} ELSE {"done"})
      [] stage = "clear"   -> {"exit"}
      [] stage = "expired" -> {"timedOut"}
      [] stage = "doomed"  -> Cancelled \cup Dropped
      [] stage = "failed"  -> {"error"}
      [] OTHER -> {}

Reply ==
    /\ reply' \in Replies
    /\ stage' = "replied" /\ exec' = FALSE /\ control' = "live"
    /\ UNCHANGED down

Forget ==
    /\ stage = "replied" /\ stage' = "none" /\ reply' = "none"
    /\ UNCHANGED <<down, exec, control>>

\* What the executor does with it.
Serve == Begin \/ Run \/ Clear \/ Expire \/ Doom \/ Break \/ Reply

Next == Submit \/ Cancel \/ ShutDown \/ Serve \/ Forget

Spec == Init /\ [][Next]_vars
=============================================================================
