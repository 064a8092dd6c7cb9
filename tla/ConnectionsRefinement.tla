-------------------------- MODULE ConnectionsRefinement --------------------------
(***************************************************************************)
(* The channel and the executor of Connections as ChannelContract sees     *)
(* them.                                                                   *)
(***************************************************************************)
EXTENDS Connections

Requests == Starts \cup Asks

openBar == {c \in Connections : hand[c] = "wait" /\ answer[c] = "none"}
takenBar == {current} \cap Requests

Channel == INSTANCE ChannelContract
           WITH Senders <- Connections \cup {Loop}, Requesters <- Requests,
                down <- shutdown, open <- openBar, taken <- takenBar

\* Every handler that waits has sent one message and gets one answer to it, though
\* clients leave at any point, a start has two rounds, and stops, the drain and the
\* end of the receiver come in between; none sends a Stop before the flag is set.
ChannelKeepsContract == Channel!Spec

\* A step of the executor: what becomes of answers and prompts follows from what
\* becomes of the channel.
OnlyChannelSteps ==
    /\ Alive
    /\ UNCHANGED <<loop, shutdown, client, hand, warned, monitor>>
    /\ current' \in Requests \cup {Loop}
    /\ \A c \in Connections :
          /\ c \notin openBar \ openBar' => answer'[c] = answer[c]
          /\ c \in openBar \ openBar' =>
                CASE executor = "busy"  -> answer'[c] \in
                        IF c \in Starts /\ ~warned[c] THEN {"ok", "needWarning", "error"}
                        ELSE {"ok", "error"} \cup (IF shutdown THEN {"dropped"} ELSE {})
                  [] executor = "drain" -> answer'[c] = "error"
                  [] OTHER              -> answer'[c] = "dropped"
    /\ answer' = [c \in Connections |-> answer'[c]]
    /\ prompted' \in {prompted} \cup
          (IF executor = "busy" /\ warned[current]
           THEN {prompted \cup ({current} \cap Starts)} ELSE {})
=============================================================================
