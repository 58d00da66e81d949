----------------------- MODULE AuthenticationContract -----------------------
(***************************************************************************)
(* What verifyIdToken promises its callers, whatever its caches hold:      *)
(* every call is answered at most once, and an answer about the token is   *)
(* what the provider's own documents say of it, read from metadata and a   *)
(* JWK Set that were both published within the trust lifetime before the   *)
(* call began, or since.  The JWK Set is the one at the location that very *)
(* metadata names.  Failure of the provider is always an allowed answer.   *)
(***************************************************************************)
EXTENDS Integers, Sequences

CONSTANTS Op, Token, Schedule, KeyAlg, WeakKid,
          TrustLifetime,      \* maximum freshness and the stale allowance
          None

VARIABLES clock, epochStart, answer   \* answer: [asked, now, token, outcome]

vars == <<clock, epochStart, answer>>

EndOf(e) == IF e = Len(epochStart) THEN clock ELSE epochStart[e + 1]

Trusted(now) == {e \in DOMAIN epochStart : EndOf(e) + TrustLifetime >= now}

AlgorithmAccepted(token, m) == token.alg \in Schedule[m].metadata.algs

\* A token whose protected header cannot be decoded names no algorithm.
Unreadable(token) == token.alg = None

KeyPublished(token, m, k) ==
  /\ token.kid \in Schedule[k].keys[Schedule[m].metadata.uri]
  /\ KeyAlg[token.kid] = token.alg

\* The answers the provider's documents of epochs m and k support.
Supported(token, m, k) ==
  IF Unreadable(token) THEN {"internal_failure"}
  ELSE IF ~AlgorithmAccepted(token, m) THEN {"alg_rejected"}
  ELSE IF ~KeyPublished(token, m, k) THEN {"unknown_key"}
  ELSE IF token.kid \in WeakKid THEN {}
  ELSE {token.verdict}

\* The answers to a call that began at time now.
Allowed(token, now) ==
  {"metadata_rejected", "provider_unavailable"} \cup
    UNION {Supported(token, m, k) : m \in Trusted(now), k \in Trusted(now)}

Init ==
  /\ clock = 0 /\ epochStart = <<0>>
  /\ answer = [o \in Op |-> [asked |-> FALSE, now |-> 0, token |-> None, outcome |-> None]]

Ask(o, token) ==
  /\ ~answer[o].asked
  /\ answer' = [answer EXCEPT ![o] =
                  [asked |-> TRUE, now |-> clock, token |-> token, outcome |-> None]]
  /\ UNCHANGED <<clock, epochStart>>

Answer(o) ==
  /\ answer[o].asked /\ answer[o].outcome = None
  /\ \E outcome \in Allowed(answer[o].token, answer[o].now) :
       answer' = [answer EXCEPT ![o].outcome = outcome]
  /\ UNCHANGED <<clock, epochStart>>

Tick == clock' = clock + 1 /\ UNCHANGED <<epochStart, answer>>

NextEpoch ==
  /\ Len(epochStart) < Len(Schedule)
  /\ epochStart' = Append(epochStart, clock)
  /\ UNCHANGED <<clock, answer>>

Next ==
  \/ \E o \in Op : Answer(o) \/ \E token \in Token : Ask(o, token)
  \/ Tick
  \/ NextEpoch

Spec == Init /\ [][Next]_vars

-----------------------------------------------------------------------------
\* What an answer says of a token and the epochs a call may trust.
Says(token, trusted, outcome) ==
  /\ outcome = "verified" =>
       /\ token.verdict = "verified" /\ token.kid \notin WeakKid
       /\ \E m, k \in trusted : AlgorithmAccepted(token, m) /\ KeyPublished(token, m, k)
  /\ outcome = "token_rejected" => token.verdict = "token_rejected"
  /\ outcome = "internal_failure" =>
       Unreadable(token) \/ token.verdict = "internal_failure"
  /\ outcome = "alg_rejected" =>
       ~Unreadable(token) /\ \E m \in trusted : ~AlgorithmAccepted(token, m)
  /\ outcome = "unknown_key" => \E m, k \in trusted : ~KeyPublished(token, m, k)

\* A caller may rely on the answer it was given, then and later.
AnswersReliable ==
  \A o \in Op : Says(answer[o].token, Trusted(answer[o].now), answer[o].outcome)
=============================================================================
