------------------------- MODULE BrokerActorRefinement -------------------------
(***************************************************************************)
(* The executor thread and the four contracts that it keeps: what is       *)
(* promised about authorization (the grants are the active records, the    *)
(* activity is the place the thread is at), about its children, about the  *)
(* requests of each connection, and about its channel.                     *)
(***************************************************************************)
EXTENDS BrokerActor

\* A check begins when its account was found authorized, an explicit probe when its
\* authorized_mono was read.
Phase ==
    CASE pc \in Running  -> pc
      [] pc = "recheck"  -> "passed"
      [] pc = "deadline" -> IF frame.next = "explicit" THEN "authorize"
                            ELSE IF frame.next = "command" THEN "cleared"
                            ELSE "whoami"
      [] pc = "spawn"    -> IF frame.next = "command" THEN "cleared" ELSE frame.next
      [] OTHER           -> "idle"

Result ==
    IF Phase \notin {"explicit", "whoami", "vault"} \/ frame.outcome = "pending"
    THEN "none"
    ELSE CASE frame.outcome = "success"                   -> "passed"
           [] frame.outcome \in {"cancelled", "shutdown"} -> "asked"
           [] OTHER                                       -> "failed"

grantBar == [a \in Accounts |-> IF records[a].active THEN records[a].hard ELSE 0]
activityBar ==
    [phase   |-> Phase,
     account |-> IF Phase = "idle" THEN "none" ELSE frame.account,
     since   |-> IF Phase = "explicit" THEN frame.authorized ELSE 0,
     result  |-> Result]

Contract == INSTANCE AuthorizationContract
            WITH grant <- grantBar, activity <- activityBar

\* Every behaviour of the executor, with its requests, cancellations, shutdown
\* and failing children, is one the contract allows: a request's check and
\* command are not interleaved with another request's; a command follows a
\* whoami and a vault list that both passed and a look at the grant after them; a
\* failure revokes every account, and a check that was cancelled or overtaken by
\* shutdown revokes none.
ContractHolds == Contract!Spec

\* The child in progress as RunContract sees it: nothing between the runs.
InRun == pc \in Running

dueBar     == IF InRun THEN Holding ELSE {}
underBar   == IF InRun THEN frame.under ELSE {}
clearBar   == IF InRun THEN frame.clear ELSE FALSE
latchBar   == IF InRun THEN frame.latch ELSE "none"
outcomeBar == IF InRun THEN frame.outcome ELSE "idle"

Children == INSTANCE RunContract
            WITH due <- dueBar, under <- underBar, clear <- clearBar,
                 latch <- latchBar, outcome <- outcomeBar

\* The executor meets its half of RunContract: it starts one child at a time,
\* under the reasons of that moment, and never takes back a reason while the
\* child runs, although it shares the flag and the controls with other threads
\* and gives the next child of a check the deadline of the last one.
ChildrenKeepContract == Children!Spec

\* A step of the child in progress and of nothing else.
OnlyChildSteps ==
    /\ UNCHANGED <<now, queue, request, control, answer, records, shutdown,
                   stopper, pc, late, behind>>
    /\ \E u, c, l, o :
          frame' = [frame EXCEPT !.under = u, !.clear = c, !.latch = l,
                                 !.outcome = o]

\* The request of a connection as RequestContract sees it.
StageOfRun ==
    IF frame.outcome = "pending"
    THEN CASE frame.latch = "timedOut"                -> "expired"
           [] frame.latch \in {"cancelled", "shutdown"} -> "doomed"
           [] frame.latch = "none"                    ->
                IF frame.clear THEN "clear" ELSE "running"
    ELSE CASE frame.outcome \in Natural                 -> "clear"
           [] frame.outcome = "timedOut"                -> "expired"
           [] frame.outcome \in {"cancelled", "shutdown"} -> "doomed"
           [] frame.outcome = "error"                   -> "failed"

stageBar == [c \in Clients |->
    IF Pending(c)
    THEN IF frame.client # c \/ pc = "handle" THEN "queued"
         ELSE IF pc = "command" THEN StageOfRun ELSE "begun"
    ELSE IF answer[c] = "none" THEN "none" ELSE "replied"]

\* The answers, as far as the contract tells them apart.
ReplyOf(r) ==
    CASE r \in {"none", "timedOut", "cancelledBySignal", "cancelled", "dropped"} -> r
      [] r \in {"exited", "signaled"}          -> "exit"
      [] r = "authorizationRequired"           -> "required"
      [] r \in {"processStart", "operational"} -> "error"
      [] OTHER                                 -> "done"

execBar == [c \in Clients |-> request[c].kind = "exec"]
controlBar == [c \in Clients |-> IF Pending(c) THEN control[c] ELSE "live"]
replyBar == [c \in Clients |-> IF Pending(c) THEN "none" ELSE ReplyOf(answer[c])]

Requests(c) == INSTANCE RequestContract
               WITH down <- shutdown, exec <- execBar[c], control <- controlBar[c],
                    stage <- stageBar[c], reply <- replyBar[c]

\* Each connection's requests are served as RequestContract says, whatever the
\* other connections, maintenance and a stop do meanwhile: none is answered
\* twice or passed over, a cancelled or drained one is told so and goes no
\* further, and an exit is the answer only of a command that nobody had asked
\* to end.
RequestsKeepContract ==
    /\ \A c \in Clients : Requests(c)!Init
    /\ [][\A c \in Clients : [Requests(c)!Next]_(Requests(c)!vars)]_vars

\* The thread and its queue as ChannelContract sees them: a check for maintenance
\* is a rest.
executorBar ==
    CASE pc \in {"receive", "wait"} -> "receive"
      [] pc \in InUse ->
            IF frame.client = NoClient THEN "loop" ELSE "busy"
      [] pc = "top"    -> "loop"
      [] pc = "closed" -> "ended"
      [] OTHER         -> pc

openBar == {c \in Clients : Pending(c)}
takenBar == {frame.client} \cap Clients

Channel == INSTANCE ChannelContract
           WITH Senders <- Clients \cup {Stop}, Requesters <- Clients, down <- shutdown,
                executor <- executorBar, channel <- queue, open <- openBar,
                taken <- takenBar

\* The executor takes its messages as ChannelContract says: in their order, one
\* request at a time, none behind a look that found the flag or behind a Stop,
\* and each is answered where it then is, though checks for maintenance, explicit
\* probes and commands come in between and end in any of their ways.
QueueKeepsContract == Channel!Spec
=============================================================================
