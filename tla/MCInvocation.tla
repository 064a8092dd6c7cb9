------------------------------ MODULE MCInvocation ------------------------------
(* A small instance of Invocation for TLC. *)
EXTENDS Invocation, SequencesExt

WordsForExec == {"--account", "--timeout", "--", "--help", "work", "1s"}
WordsForStart == {"--account", "--op", "--help", "", "raw", "/op", "/link"}
WordsForStatus == {"--account", "--help", "", "work"}
WordsForOp == {"--account", "--account=", "--", "item"}

MCWords == Commands \cup WordsForExec \cup WordsForStart \cup WordsForStatus \cup WordsForOp
           \cup {"--version", "true", "home", "1h", "/bin/op", "long"}
MCText == MCWords \ {"raw"}
MCSize == [w \in MCWords |-> IF w = "" THEN 0 ELSE IF w = "long" THEN 4
                               ELSE IF w = "item" THEN 2 ELSE 1]
MCNanos == [w \in MCWords |-> IF w = "1s" THEN 1 ELSE IF w = "1h" THEN 9 ELSE 0]
MCCanonical == [w \in MCWords |-> IF w \in {"/op", "/link"} THEN "/op" ELSE
                                  IF w = "/bin/op" THEN "/bin/op" ELSE "missing"]

Called(name, options, max) == {<<name>> \o s : s \in BoundedSeq(options, max)}

MCCommandLines ==
    {<<>>, <<"--help">>, <<"--version">>, <<"item">>, <<"--help", "item">>, <<"stop">>,
     <<"stop", "item">>, <<"stop", "--help">>}
    \cup Called("exec", WordsForExec, 4)
    \cup {<<"exec", "--account", "raw", "--", "item">>,
          <<"exec", "--timeout", "1s", "--account", "work", "--", "--", "--account=">>,
          <<"exec", "--timeout", "1s", "--timeout", "1s", "--">>,
          <<"exec", "--timeout", "1h", "--", "item">>, <<"exec", "--", "long">>}
    \cup {<<"exec", "--">> \o s : s \in BoundedSeq(WordsForOp, 3)}
    \cup Called("start", WordsForStart, 4)
    \cup Called("status", WordsForStatus, 3)

MCKeys == {"OP_ACCOUNT", "OP_BIOMETRIC_UNLOCK_ENABLED", "OP_SESSION_x", "PATH", "=C"}
Variables(selector, session, odd) ==
    [k \in MCKeys |-> CASE k = "OP_ACCOUNT"   -> selector
                        [] k = "OP_SESSION_x" -> session
                        [] k = "PATH"         -> "item"
                        [] k = "=C"           -> odd
                        [] OTHER              -> None]
MCOwn == [k \in MCKeys |-> IF k = "PATH" THEN "/bin/op" ELSE None]
MCEnvironments == {Variables(None, None, None), Variables("home", "item", None),
                   Variables("", "item", None), Variables("raw", None, None),
                   Variables("home", None, "item")}
=============================================================================
