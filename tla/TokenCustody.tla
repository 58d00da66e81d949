---------------------------- MODULE TokenCustody ----------------------------
(***************************************************************************)
(* What the broker promises about Installation Access Tokens, seen from    *)
(* GitHub, the audit journal and the client alone.                         *)
(*                                                                         *)
(* One token at most is asked for on behalf of a request, and only once    *)
(* the intent is on record.  The broker hands over a live token it has     *)
(* received, in the step that learns its success is on record, or asks     *)
(* GitHub to revoke it.  It may be interrupted at any point: what it had   *)
(* asked for is then created all the same, but the journal still tells.    *)
(***************************************************************************)
CONSTANT Request

VARIABLES
  broker,    \* what the broker is doing about a request
  journal,   \* the observations acknowledged to it
  token      \* what became of the token at GitHub

vars == <<broker, journal, token>>

Busy == {"working", "waiting", "failing", "holding", "returning"}

Done == {"delivered", "closed", "interrupted"}

TypeOK ==
  /\ broker \in [Request -> Busy \cup Done]
  /\ journal \in [Request -> SUBSET {"authentication_failed", "issuance_started",
                                     "issuance_failed", "issuance_succeeded"}]
  /\ token \in [Request -> {"none", "requested", "live", "revoking", "revoked"}]

Init ==
  /\ broker = [r \in Request |-> "working"]
  /\ journal = [r \in Request |-> {}]
  /\ token = [r \in Request |-> "none"]

-----------------------------------------------------------------------------
Moves(r, before, after) ==
  broker[r] \in before /\ broker' = [broker EXCEPT ![r] = after]

Records(r, events) == journal' = [journal EXCEPT ![r] = @ \cup events]

Becomes(r, before, after) ==
  token[r] = before /\ token' = [token EXCEPT ![r] = after]

Authorise(r) ==
  /\ broker[r] = "working"
  /\ Records(r, {"issuance_started"})
  /\ UNCHANGED <<broker, token>>

Ask(r) ==
  /\ "issuance_started" \in journal[r]
  /\ Moves(r, {"working"}, "waiting")
  /\ Becomes(r, "none", "requested")
  /\ UNCHANGED journal

\* An answer that leaves open whether there is a token is a failure too.
Fail(r) ==
  /\ Moves(r, {"working", "waiting"}, "failing")
  /\ UNCHANGED token \/ Becomes(r, "requested", "none")
  /\ UNCHANGED journal

Receive(r) ==
  /\ token[r] = "live"
  /\ Moves(r, {"waiting"}, "holding")
  /\ UNCHANGED <<journal, token>>

Deliver(r) ==
  /\ token[r] = "live"
  /\ Moves(r, {"holding"}, "delivered")
  /\ Records(r, {"issuance_succeeded"})
  /\ UNCHANGED token

Return(r) ==
  /\ Moves(r, {"holding"}, "returning")
  /\ Becomes(r, "live", "revoking")
  /\ UNCHANGED journal

Report(r) ==
  /\ Moves(r, {"failing"}, "closed")
  /\ \E event \in {"authentication_failed", "issuance_failed"} : Records(r, {event})
  /\ UNCHANGED token

Close(r) ==
  /\ Moves(r, {"working", "failing", "returning"}, "closed")
  /\ UNCHANGED <<journal, token>>

GitHubCreates(r) == Becomes(r, "requested", "live") /\ UNCHANGED <<broker, journal>>

GitHubRevokes(r) == Becomes(r, "revoking", "revoked") /\ UNCHANGED <<broker, journal>>

Interrupt(S) ==
  /\ \A r \in S : broker[r] \in Busy
  /\ broker' = [r \in Request |-> IF r \in S THEN "interrupted" ELSE broker[r]]
  /\ UNCHANGED <<journal, token>>

Next ==
  \/ \E r \in Request :
       \/ Authorise(r) \/ Ask(r) \/ Fail(r) \/ Receive(r) \/ Deliver(r)
       \/ Return(r) \/ Report(r) \/ Close(r) \/ GitHubCreates(r) \/ GitHubRevokes(r)
  \/ \E S \in SUBSET Request : Interrupt(S)

Spec == Init /\ [][Next]_vars

-----------------------------------------------------------------------------
\* The journal reconciles: of a token that was asked for the intent is on
\* record, its success is on record exactly if a client was given it, and one
\* that was handed over is never revoked by the broker.
Reconciles ==
  \A r \in Request :
    /\ token[r] # "none" => "issuance_started" \in journal[r]
    /\ "issuance_succeeded" \in journal[r] <=> broker[r] = "delivered"
    /\ broker[r] = "delivered" => token[r] = "live"
=============================================================================
