-------------------------- MODULE ExecClientRefinement --------------------------
(***************************************************************************)
(* The request of ExecClient as RequestContract sees it.                   *)
(***************************************************************************)
EXTENDS ExecClient

stageBar ==
    CASE command = "queued" -> "queued"
      [] command = "picked" -> "begun"
      [] command \in Runs  ->
           (CASE reason.by = "none"     -> IF command = "ended" THEN "clear" ELSE "running"
              [] reason.by = "timedOut" -> "expired"
              [] reason.by = "error"    -> "failed"
              [] OTHER                  -> "doomed")
      [] OTHER -> "replied"

InBroker == command \in {"queued", "picked"} \cup Runs

controlBar ==
    IF ~InBroker \/ ~control.cancelled THEN "live"
    ELSE IF control.signal # NoSignal THEN "signal" ELSE "gone"

replyBar ==
    IF InBroker THEN "none"
    ELSE CASE reason.by = "none"   -> "exit"
           [] reason.by = "closed" -> "dropped"
           [] reason.by = "signal" -> "cancelledBySignal"
           [] OTHER                -> reason.by

Request == INSTANCE RequestContract
           WITH down <- shutdown, exec <- InBroker, control <- controlBar,
                stage <- stageBar, reply <- replyBar

\* As long as there is the broker, the request is served as RequestContract says,
\* with the client's threads, its frames and the pipes around it: the answer and
\* so the exit status name the signal of the client only if it came before the
\* command ended, and the command's own end only if nothing came before it.
RequestKeepsContract ==
    /\ Request!Init
    /\ [][command' # "dead" => [Request!Next]_(Request!vars)]_vars

\* A step of the executor for the request: what becomes of the descriptors and the
\* response follows from where the request gets; a run gets a reason, or comes to
\* an end, or is answered; and a reason is one that the request has.
OnlyRequestSteps ==
    /\ UNCHANGED <<client, unsent, events, monitor, control, written, copied, shutdown>>
    /\ kept' = (kept /\ command' \in {"queued", "picked"})
    /\ held' = IF command = "picked" /\ command' \in Runs THEN Pipes ELSE held
    /\ answer' = IF command' = "answered" THEN Response ELSE answer
    /\ command' \in IF command \in Runs THEN Runs \cup {"answered"}
                    ELSE {"picked", "refused", "running"}
    /\ command' \in {command, "refused"} \/ reason' = reason
    /\ reason' \in {reason, Plain("error"),
                   Plain(IF command \in Runs THEN "timedOut" ELSE "required")}
                  \cup (IF control.cancelled THEN {CancelReply} ELSE {})
                  \cup (IF shutdown THEN {Plain("closed")} ELSE {})
=============================================================================
