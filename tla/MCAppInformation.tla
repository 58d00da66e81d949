--------------------------- MODULE MCAppInformation ---------------------------
(* Token Exchange requests of MCTokenExchange beside calls of the RPC.       *)
EXTENDS MCTokenExchange, AppInformation

\* Calls for either App, for none of them, and with an input that is refused.
Invokes(selector, method, validInput) ==
  [selector |-> selector, method |-> method, validInput |-> validInput]

Calls ==
  {Invokes(app, method, TRUE) : app \in Apps, method \in {"getApp", "getInstallation"}}
    \cup {Invokes(None, "getApp", TRUE), Invokes("a", "getInstallation", FALSE)}

\* What is over touches nothing any more, no more than what waits: it is
\* enough to follow the others while all are under way.
EndTogether ==
  LET over == {r \in Request : exchange[r].pc \in Ended}
                \cup {c \in Call : rpc[c].pc \notin {"idle"} \cup CallRunning}
  IN  over \in {{}, Request \cup Call}
=============================================================================
