------------------------- MODULE TokenCustodyProofs -------------------------
(***************************************************************************)
(* TokenExchange implements TokenCustody, for any number of requests and   *)
(* Apps and any policy; and what TokenCustody says of the journal holds of *)
(* the exchange.                                                           *)
(***************************************************************************)
EXTENDS TokenExchangeProofs

Custodian == [r \in Request |-> Custody(exchange[r])]

\* The await each view of the broker stands for.
LEMMA Views ==
  ASSUME NEW c \in Exchange
  PROVE  /\ Custody(c) = "waiting" <=> c.pc = "mint"
         /\ Custody(c) = "failing" <=> c.pc \in Failed
         /\ Custody(c) = "holding" <=> c.pc = "observe_succeeded"
         /\ Custody(c) = "returning" <=> c.pc = "revoke"
         /\ Custody(c) = "delivered" <=> c.pc = "answered" /\ c.status = 200
         /\ Custody(c) = "closed" <=> c.pc = "answered" /\ c.status # 200
         /\ Custody(c) = "interrupted" <=> c.pc = "dropped"
         /\ Custody(c) = "working" <=> c.pc \in Unminted \ Failed
  BY DEF Custody, Exchange, Running, Unbounded, Observing, Ended, Failed, Unminted

\* What a step of one request looks like from outside.
LEMMA OwnView ==
  ASSUME Progress, NEW r \in Request, NEW d \in Exchange, Goto(r, d)
  PROVE  /\ Custodian[r] = Custody(exchange[r])
         /\ Custodian' = [Custodian EXCEPT ![r] = Custody(d)]
         /\ Custody(d) = Custody(exchange[r]) => Custodian' = Custodian
<1>1. exchange \in [Request -> Exchange] /\ exchange' = [exchange EXCEPT ![r] = d]
  BY DEF Progress, TypeOK, Goto
<1>2. \A q \in Request : exchange'[q] = IF q = r THEN d ELSE exchange[q]
  BY <1>1
<1>3. Custodian' = [q \in Request |-> Custody(exchange'[q])]
  BY DEF Custodian, Custody
<1> QED
  BY <1>2, <1>3 DEF Custodian

\* A step nobody outside can see.
LEMMA Unseen ==
  ASSUME Progress, NEW r \in Request, NEW d \in Exchange, Goto(r, d),
         Custody(d) = Custody(exchange[r]), UNCHANGED <<acknowledged, token>>
  PROVE  UNCHANGED Promise!vars
  BY OwnView DEF Promise!vars, Custodian

\* The broker moves from one view to another.
LEMMA Moving ==
  ASSUME Progress, NEW r \in Request, NEW d \in Exchange, Goto(r, d),
         NEW before, Custody(exchange[r]) \in before
  PROVE  Promise!Moves(r, before, Custody(d))
  BY OwnView DEF Promise!Moves, Custodian

-----------------------------------------------------------------------------
(* Each action is a step of TokenCustody, or unseen.                        *)

Kept == Promise!Next \/ UNCHANGED Promise!vars

\* A request ends without a token to hand over, or fails before it asks.
LEMMA Closing ==
  ASSUME Progress, NEW r \in Request, NEW d \in Exchange, Goto(r, d),
         Custody(exchange[r]) \in {"working", "failing", "returning"}, Custody(d) = "closed",
         UNCHANGED <<acknowledged, token>>
  PROVE  Kept
<1>1. Promise!Moves(r, {"working", "failing", "returning"}, "closed")
  BY Moving
<1>2. Promise!Close(r)
  BY <1>1 DEF Promise!Close
<1> QED
  BY <1>2 DEF Kept, Promise!Next

LEMMA Failure ==
  ASSUME Progress, NEW r \in Request, NEW d \in Exchange, Goto(r, d),
         Custody(exchange[r]) \in {"working", "waiting"}, Custody(d) = "failing",
         UNCHANGED acknowledged,
         UNCHANGED token \/ (token[r] = "requested" /\ token' = [token EXCEPT ![r] = "none"])
  PROVE  Kept
<1>1. Promise!Moves(r, {"working", "waiting"}, "failing")
  BY Moving
<1>2. Promise!Fail(r)
  BY <1>1 DEF Promise!Fail, Promise!Becomes
<1> QED
  BY <1>2 DEF Kept, Promise!Next

LEMMA Stays ==
  ASSUME Progress, NEW r \in Request, NEW d \in Exchange, Goto(r, d),
         Custody(d) = Custody(exchange[r]), UNCHANGED <<acknowledged, token>>
  PROVE  Kept
  BY Unseen DEF Kept

\* The view after each kind of update.
LEMMA ViewsAfter ==
  ASSUME NEW c \in Exchange
  PROVE  /\ \A status \in Answers \ {200} :
              Answer(c, status) \in Exchange /\ Custody(Answer(c, status)) = "closed"
         /\ \A pc \in (Unminted \cap Running) \ Failed :
              [c EXCEPT !.pc = pc] \in Exchange /\ Custody([c EXCEPT !.pc = pc]) = "working"
         /\ \A pc \in Failed, reason \in DOMAIN FailureStatus :
              /\ Failing(c, pc, reason) \in Exchange
              /\ Custody(Failing(c, pc, reason)) = "failing"
<1>1. ASSUME NEW status \in Answers \ {200}
      PROVE  Answer(c, status) \in Exchange /\ Custody(Answer(c, status)) = "closed"
  <2> DEFINE d == Answer(c, status)
  <2>1. d \in Exchange /\ d.pc = "answered" /\ d.status = status
    BY ExchangeUpdates, Fields
  <2> HIDE DEF d
  <2>2. Custody(d) = "closed"
    BY <2>1, Views
  <2> QED
    BY <2>1, <2>2 DEF d
<1>2. ASSUME NEW pc \in (Unminted \cap Running) \ Failed
      PROVE  [c EXCEPT !.pc = pc] \in Exchange /\ Custody([c EXCEPT !.pc = pc]) = "working"
  <2> DEFINE d == [c EXCEPT !.pc = pc]
  <2>1. d \in Exchange /\ d.pc = pc
    BY ExchangeUpdates, Fields
  <2> HIDE DEF d
  <2>2. Custody(d) = "working"
    BY <2>1, Views
  <2> QED
    BY <2>1, <2>2 DEF d
<1>3. ASSUME NEW pc \in Failed, NEW reason \in DOMAIN FailureStatus
      PROVE  /\ Failing(c, pc, reason) \in Exchange
             /\ Custody(Failing(c, pc, reason)) = "failing"
  <2> DEFINE d == Failing(c, pc, reason)
  <2>1. pc \in Running
    BY DEF Failed, Running, Unbounded, Observing
  <2>2. d \in Exchange /\ d.pc = pc
    BY <2>1, ExchangeUpdates, Fields
  <2> HIDE DEF d
  <2>3. Custody(d) = "failing"
    BY <2>2, Views
  <2> QED
    BY <2>2, <2>3 DEF d
<1> QED
  BY <1>1, <1>2, <1>3

\* What a request that still works towards the mint may do next.
LEMMA WorkingStep ==
  ASSUME Progress, NEW r \in Request, exchange[r].pc \in Unminted \ Failed,
         UNCHANGED <<acknowledged, token>>
  PROVE  /\ \A status \in Answers \ {200} : Goto(r, Answer(exchange[r], status)) => Kept
         /\ \A pc \in (Unminted \cap Running) \ Failed :
              Goto(r, [exchange[r] EXCEPT !.pc = pc]) => Kept
         /\ \A pc \in Failed, reason \in DOMAIN FailureStatus :
              Goto(r, Failing(exchange[r], pc, reason)) => Kept
<1> DEFINE c == exchange[r]
<1>1. c \in Exchange /\ Custody(c) = "working"
  BY Here, Views
<1>2. ASSUME NEW status \in Answers \ {200}, Goto(r, Answer(c, status)) PROVE Kept
  BY <1>1, <1>2, ViewsAfter, Closing
<1>3. ASSUME NEW pc \in (Unminted \cap Running) \ Failed, Goto(r, [c EXCEPT !.pc = pc])
      PROVE  Kept
  BY <1>1, <1>3, ViewsAfter, Stays
<1>4. ASSUME NEW pc \in Failed, NEW reason \in DOMAIN FailureStatus, Goto(r, Failing(c, pc, reason))
      PROVE  Kept
  BY <1>1, <1>4, ViewsAfter, Failure
<1> QED
  BY <1>2, <1>3, <1>4

LEMMA ReceiveKept ==
  ASSUME Progress, NEW r \in Request, NEW arrival \in Arrival, Receive(r, arrival)
  PROVE  Kept
<1> DEFINE c == [exchange[r] EXCEPT !.arrival = arrival, !.since = secret[arrival.app]]
<1>1. /\ exchange[r] \in Exchange /\ exchange[r].pc = "idle"
      /\ UNCHANGED <<acknowledged, token>>
  BY Here DEF Receive, At
<1>2. secret[arrival.app] \in Nat
  BY ArrivalAssumption DEF Progress, TypeOK
<1>3. c \in Exchange
  BY <1>1, <1>2 DEF Exchange
<1>4. Custody(exchange[r]) = "working"
  BY <1>1, Views DEF Unminted, Failed
<1>5. \/ Goto(r, [c EXCEPT !.pc = "rate_limit"])
      \/ /\ arrival.form \in DOMAIN RouteRefusal
         /\ Goto(r, Answer(c, RouteRefusal[arrival.form]))
  BY DEF Receive
<1> HIDE DEF c
<1>6. CASE Goto(r, [c EXCEPT !.pc = "rate_limit"])
  BY <1>1, <1>3, <1>4, <1>6, ViewsAfter, Stays DEF Unminted, Failed, Running, Unbounded
<1>7. ASSUME arrival.form \in DOMAIN RouteRefusal, Goto(r, Answer(c, RouteRefusal[arrival.form]))
      PROVE  Kept
  BY <1>1, <1>3, <1>4, <1>7, Tables, ViewsAfter, Closing
<1> QED
  BY <1>5, <1>6, <1>7

\* The steps before the mint is asked for.
LEMMA PreparationKept ==
  ASSUME Progress, NEW r \in Request,
         RateLimitSettles(r) \/ BodySettles(r) \/ Authenticate(r) \/ SecretSettles(r)
           \/ FingerprintSettles(r) \/ ImportSettles(r) \/ SignSettles(r)
  PROVE  Kept
<1> DEFINE c == exchange[r]
           form == c.arrival.form
<1>1. c.pc \in Unminted \ Failed /\ UNCHANGED <<acknowledged, token>>
  BY DEF RateLimitSettles, BodySettles, Authenticate, SecretSettles, FingerprintSettles,
         ImportSettles, SignSettles, At, Unminted, Failed
<1>2. c \in Exchange /\ c.pc \in Unminted \ Failed
  BY <1>1, Here
<1>3. CASE RateLimitSettles(r)
  <2>1. \/ \E status \in Answers \ {200} : Goto(r, Answer(c, status))
        \/ Goto(r, [c EXCEPT !.pc = "body"])
    BY <1>3, Tables DEF RateLimitSettles, Answers
  <2> QED
    BY <1>1, <2>1, WorkingStep DEF Unminted, Failed, Running, Unbounded
<1>4. CASE BodySettles(r)
  <2>1. \/ \E status \in Answers \ {200} : Goto(r, Answer(c, status))
        \/ Goto(r, [c EXCEPT !.pc = "authenticate"])
    BY <1>4, Tables DEF BodySettles, Answers
  <2> QED
    BY <1>1, <2>1, WorkingStep DEF Unminted, Failed, Running, Unbounded, Observing
<1>5. CASE Authenticate(r)
  <2>1. c.arrival \in Arrival
    BY <1>5, UnfailedFacts DEF Authenticate, At, Running, Failed, Unbounded, Observing
  <2>2. Evaluation(c) \in PolicyOutcome
    BY <2>1, ArrivalAssumption DEF Evaluation
  <2>3. \/ Goto(r, [c EXCEPT !.pc = "observe_started"])
        \/ \E pc \in Failed, reason \in DOMAIN FailureStatus : Goto(r, Failing(c, pc, reason))
    BY <1>5, <2>2, Reasons DEF Authenticate, AfterAuthentication, Failed
  <2> QED
    BY <1>1, <2>3, WorkingStep DEF Unminted, Failed, Running, Unbounded, Observing
<1>6. CASE ImportSettles(r) \/ SignSettles(r)
  <2>1. \/ Goto(r, [c EXCEPT !.pc = "sign"])
        \/ Goto(r, [c EXCEPT !.pc = "lookup"])
        \/ \E pc \in Failed, reason \in DOMAIN FailureStatus : Goto(r, Failing(c, pc, reason))
    BY <1>6, Reasons DEF ImportSettles, SignSettles, FailIssuance, Failed, IssuanceFailure
  <2> QED
    BY <1>1, <2>1, WorkingStep DEF Unminted, Failed, Running, Unbounded, Observing
<1>7. ASSUME NEW pc \in {"fingerprint", "import"}, NEW key \in Pem \cup {None},
             Goto(r, [c EXCEPT !.pc = pc, !.key = key])
      PROVE  Kept
  <2> DEFINE d == [c EXCEPT !.pc = pc, !.key = key]
  <2>1. d \in Exchange /\ d.pc = pc
    BY <1>2, <1>7 DEF Exchange, Running
  <2>2. Custody(d) = "working" /\ Custody(c) = "working"
    BY <1>2, <2>1, Views DEF Unminted, Failed
  <2> QED
    BY <1>1, <1>7, <2>1, <2>2, Stays
<1>8. CASE SecretSettles(r)
  <2>1. CASE Goto(r, [c EXCEPT !.pc = "fingerprint",
                               !.key = KeyHistory[c.arrival.app][secret[c.arrival.app]]])
    <3>1. c.arrival \in Arrival
      BY <1>8, UnfailedFacts DEF SecretSettles, At, Running, Failed, Unbounded, Observing
    <3>2. c.arrival.app \in App
      BY <3>1, ArrivalAssumption
    <3>3. KeyHistory[c.arrival.app][secret[c.arrival.app]] \in Pem
      BY <3>2, KeyAssumption DEF Progress, TypeOK
    <3> QED
      BY <1>7, <2>1, <3>3
  <2>2. CASE FailIssuance(r, "internal_failure")
    BY <1>1, <2>2, Reasons, WorkingStep DEF FailIssuance, Failed, IssuanceFailure
  <2> QED
    BY <1>8, <2>1, <2>2 DEF SecretSettles
<1>9. CASE FingerprintSettles(r)
  BY <1>2, <1>7, <1>9, Here DEF FingerprintSettles, Exchange
<1> QED
  BY <1>3, <1>4, <1>5, <1>6, <1>8, <1>9

LEMMA AcknowledgeKept ==
  ASSUME Progress, NEW r \in Request, Acknowledge(r)
  PROVE  Kept
<1> DEFINE c == exchange[r]
<1>1. /\ c.pc \in Observing /\ UNCHANGED token /\ c \in Exchange
      /\ acknowledged' = [acknowledged EXCEPT ![r] = @ \cup {EventOf(c.pc)}]
  BY Here DEF Acknowledge
<1>2. CASE c.pc = "observe_started"
  <2>1. Goto(r, [c EXCEPT !.pc = "secret"]) /\ EventOf(c.pc) = "issuance_started"
    BY <1>2 DEF Acknowledge, EventOf
  <2>2. [c EXCEPT !.pc = "secret"] \in Exchange
        /\ Custody([c EXCEPT !.pc = "secret"]) = "working"
    BY <1>1, ViewsAfter DEF Unminted, Failed, Running, Unbounded
  <2>3. Custody(c) = "working"
    BY <1>1, <1>2, Views DEF Unminted, Failed
  <2>4. Custodian' = Custodian /\ Custodian[r] = "working"
    BY <2>1, <2>2, <2>3, OwnView
  <2>5. Promise!Authorise(r)
    BY <1>1, <2>1, <2>4 DEF Promise!Authorise, Promise!Records, Custodian
  <2> QED
    BY <2>5 DEF Kept, Promise!Next
<1>3. CASE c.pc = "observe_succeeded"
  <2> DEFINE d == Answer(c, 200)
  <2>1. Goto(r, d) /\ EventOf(c.pc) = "issuance_succeeded"
    BY <1>3 DEF Acknowledge, EventOf
  <2>2. d \in Exchange /\ d.pc = "answered" /\ d.status = 200
    BY <1>1, ExchangeUpdates, Fields DEF Answers
  <2>3. Custody(c) = "holding" /\ token[r] = "live"
    BY <1>1, <1>3, Here, Views DEF Sound, TokenSound
  <2> HIDE DEF d
  <2>4. Custody(d) = "delivered"
    BY <2>2, Views
  <2>5. Promise!Moves(r, {"holding"}, "delivered")
    BY <2>1, <2>2, <2>3, <2>4, Moving
  <2>6. Promise!Deliver(r)
    BY <1>1, <2>1, <2>3, <2>5 DEF Promise!Deliver, Promise!Records
  <2> QED
    BY <2>6 DEF Kept, Promise!Next
<1>4. CASE c.pc \in Failed
  <2> DEFINE status == FailureStatus[c.reason]
  <2>1. c.reason \in DOMAIN FailureStatus
    BY <1>4, Here, Reasons DEF Sound, ReasonSound, Failed
  <2>2. status \in Answers \ {200} /\ Goto(r, Answer(c, status))
    BY <1>4, <2>1, Tables DEF Acknowledge, Failed
  <2> HIDE DEF status
  <2>3. Custody(c) = "failing"
    BY <1>1, <1>4, Views
  <2>4. Promise!Moves(r, {"failing"}, "closed")
    BY <1>1, <2>2, <2>3, ViewsAfter, Moving
  <2>5. EventOf(c.pc) \in {"authentication_failed", "issuance_failed"}
    BY <1>4 DEF EventOf, Failed
  <2>6. Promise!Report(r)
    BY <1>1, <2>4, <2>5 DEF Promise!Report, Promise!Records
  <2> QED
    BY <2>6 DEF Kept, Promise!Next
<1> QED
  BY <1>1, <1>2, <1>3, <1>4 DEF Observing, Failed

LEMMA RejectKept ==
  ASSUME Progress, NEW r \in Request, RejectObservation(r)
  PROVE  Kept
<1> DEFINE c == exchange[r]
<1>1. c \in Exchange /\ c.pc \in Observing /\ UNCHANGED acknowledged
  BY Here DEF RejectObservation
<1>2. CASE c.pc = "observe_succeeded"
  <2> DEFINE d == [c EXCEPT !.pc = "revoke"]
  <2>1. d \in Exchange /\ d.pc = "revoke"
    BY <1>1, ExchangeUpdates, Fields DEF Running
  <2>2. Goto(r, d) /\ token' = [token EXCEPT ![r] = "revoking"]
    BY <1>2, <2>1 DEF RejectObservation, AfterRejection
  <2>3. Custody(c) = "holding" /\ token[r] = "live"
    BY <1>1, <1>2, Here, Views DEF Sound, TokenSound
  <2> HIDE DEF d
  <2>4. Custody(d) = "returning"
    BY <2>1, Views
  <2>5. Promise!Moves(r, {"holding"}, "returning")
    BY <2>1, <2>2, <2>3, <2>4, Moving
  <2>6. Promise!Return(r)
    BY <1>1, <2>2, <2>3, <2>5 DEF Promise!Return, Promise!Becomes
  <2> QED
    BY <2>6 DEF Kept, Promise!Next
<1>3. CASE c.pc # "observe_succeeded"
  <2>1. Answer(c, 500) \in Exchange /\ Answer(c, 500).pc = "answered"
        /\ Custody(Answer(c, 500)) = "closed"
    BY <1>1, ViewsAfter, Fields DEF Answers
  <2>2. Goto(r, Answer(c, 500)) /\ UNCHANGED token
    BY <1>3, <2>1 DEF RejectObservation, AfterRejection, Progress, TypeOK
  <2>3. Custody(c) \in {"working", "failing"}
    BY <1>1, <1>3, Views DEF Observing, Failed, Unminted
  <2> QED
    BY <1>1, <2>1, <2>2, <2>3, Closing
<1> QED
  BY <1>2, <1>3

\* A request to GitHub fails.
LEMMA FailsKept ==
  ASSUME Progress, NEW r \in Request, exchange[r].pc \in {"lookup", "mint"}, NEW error,
         FailIssuance(r, IssuanceFailureReason(error)), UNCHANGED acknowledged,
         UNCHANGED token \/ (token[r] = "requested" /\ token' = [token EXCEPT ![r] = "none"])
  PROVE  Kept
<1> DEFINE c == exchange[r]
           reason == IssuanceFailureReason(error)
<1>1. reason \in DOMAIN FailureStatus
  BY IssuanceReasons, Reasons
<1>2. c \in Exchange /\ Goto(r, Failing(c, "observe_failed", reason))
  BY Here DEF FailIssuance
<1> HIDE DEF reason
<1>3. /\ Failing(c, "observe_failed", reason) \in Exchange
      /\ Custody(Failing(c, "observe_failed", reason)) = "failing"
  BY <1>1, <1>2, ViewsAfter DEF Failed
<1>4. Custody(c) \in {"working", "waiting"}
  BY <1>2, Views DEF Unminted, Failed
<1> QED
  BY <1>2, <1>3, <1>4, Failure

LEMMA LookupKept ==
  ASSUME Progress, NEW r \in Request, LookupReplies(r)
  PROVE  Kept
<1> DEFINE c == exchange[r]
           d == [c EXCEPT !.pc = "mint"]
<1>1. c \in Exchange /\ c.pc = "lookup" /\ UNCHANGED acknowledged
  BY Here DEF LookupReplies, At
<1>2. CASE Goto(r, d) /\ token' = [token EXCEPT ![r] = "requested"]
  <2>1. d \in Exchange /\ d.pc = "mint"
    BY <1>1, ExchangeUpdates, Fields DEF Running
  <2>2. Custody(c) = "working" /\ token[r] = "none" /\ "issuance_started" \in acknowledged[r]
    BY <1>1, Here, Views DEF Sound, TokenSound, IntentSound, Unminted, Intended, Failed
  <2> HIDE DEF d
  <2>3. Custody(d) = "waiting"
    BY <2>1, Views
  <2>4. Promise!Moves(r, {"working"}, "waiting")
    BY <1>2, <2>1, <2>2, <2>3, Moving
  <2>5. Promise!Ask(r)
    BY <1>1, <1>2, <2>2, <2>4 DEF Promise!Ask, Promise!Becomes
  <2> QED
    BY <2>5 DEF Kept, Promise!Next
<1>3. CASE /\ \E error \in Refusals \cup Outages \cup {InvalidResponse} :
               FailIssuance(r, IssuanceFailureReason(error))
           /\ UNCHANGED token
  BY <1>1, <1>3, FailsKept
<1> QED
  BY <1>2, <1>3 DEF LookupReplies

LEMMA MintKept ==
  ASSUME Progress, NEW r \in Request, MintReplies(r)
  PROVE  Kept
<1> DEFINE c == exchange[r]
           d == [c EXCEPT !.pc = "observe_succeeded", !.holds = TRUE]
<1>1. c \in Exchange /\ c.pc = "mint" /\ UNCHANGED acknowledged
  BY Here DEF MintReplies, At
<1>2. CASE token[r] = "live" /\ Goto(r, d) /\ UNCHANGED token
  <2>1. d \in Exchange /\ d.pc = "observe_succeeded"
    BY <1>1 DEF Exchange, Running, Unbounded, Observing
  <2>2. Custody(c) = "waiting"
    BY <1>1, Views
  <2> HIDE DEF d
  <2>3. Custody(d) = "holding"
    BY <2>1, Views
  <2>4. Promise!Moves(r, {"waiting"}, "holding")
    BY <1>2, <2>1, <2>2, <2>3, Moving
  <2>5. Promise!Receive(r)
    BY <1>1, <1>2, <2>4 DEF Promise!Receive
  <2> QED
    BY <2>5 DEF Kept, Promise!Next
<1>3. CASE \E error \in Refusals \cup Outages \cup {InvalidResponse} :
             /\ FailIssuance(r, IssuanceFailureReason(error))
             /\ \/ UNCHANGED token
                \/ token[r] = "requested" /\ token' = [token EXCEPT ![r] = "none"]
  BY <1>1, <1>3, FailsKept
<1> QED
  BY <1>2, <1>3 DEF MintReplies

\* The revocation is answered, or its deadline passes; so may that of a
\* request that comes before the mint.
LEMMA RevokeKept ==
  ASSUME Progress, NEW r \in Request, RevokeReplies(r) \/ TransportFails(r)
  PROVE  Kept
<1> DEFINE c == exchange[r]
<1>1. c \in Exchange /\ UNCHANGED <<acknowledged, token>>
  BY Here DEF RevokeReplies, TransportFails
<1>2. CASE c.pc = "revoke"
  <2>1. Goto(r, Answer(c, 500)) /\ Custody(c) = "returning"
    BY <1>1, <1>2, Views DEF RevokeReplies, TransportFails, AfterTransportFailure
  <2> QED
    BY <1>1, <2>1, ViewsAfter, Closing DEF Answers
<1>3. CASE c.pc # "revoke"
  <2>1. c.pc \in {"lookup", "mint"} /\ FailIssuance(r, IssuanceFailureReason(Transport))
    BY <1>3 DEF RevokeReplies, TransportFails, AfterTransportFailure, FailIssuance, At, HasDeadline
  <2> QED
    BY <1>1, <2>1, FailsKept
<1> QED
  BY <1>2, <1>3

LEMMA GitHubKept ==
  ASSUME Progress, NEW r \in Request, GitHubMints(r) \/ GitHubRevokes(r)
  PROVE  Kept
<1>1. Custodian' = Custodian /\ UNCHANGED acknowledged
  BY DEF GitHubMints, GitHubRevokes, Custodian
<1>2. Promise!GitHubCreates(r) \/ Promise!GitHubRevokes(r)
  BY <1>1 DEF GitHubMints, GitHubRevokes, Promise!GitHubCreates, Promise!GitHubRevokes,
              Promise!Becomes, Custodian
<1> QED
  BY <1>2 DEF Kept, Promise!Next

\* Requests that are running are interrupted, and no others.
LEMMA InterruptKept ==
  ASSUME Progress, NEW S \in SUBSET Request, \A r \in S : exchange[r].pc \in Running,
         UNCHANGED <<acknowledged, token>>,
         exchange' = [r \in Request |->
           IF r \in S THEN [exchange[r] EXCEPT !.pc = "dropped"] ELSE exchange[r]]
  PROVE  Kept
<1>1. ASSUME NEW r \in S PROVE Custody(exchange[r]) \in Promise!Busy
                               /\ Custody([exchange[r] EXCEPT !.pc = "dropped"]) = "interrupted"
  <2> DEFINE d == [exchange[r] EXCEPT !.pc = "dropped"]
  <2>1. exchange[r] \in Exchange /\ exchange[r].pc \in Running
    BY Here
  <2>2. d \in Exchange /\ d.pc = "dropped"
    BY <2>1, ExchangeUpdates, Fields DEF Ended
  <2> HIDE DEF d
  <2>3. Custody(d) = "interrupted"
    BY <2>2, Views
  <2>4. Custody(exchange[r]) \in Promise!Busy
    BY <2>1 DEF Custody, Promise!Busy, Running, Unbounded, Observing
  <2> QED
    BY <2>3, <2>4 DEF d
<1>2. Custodian' = [r \in Request |-> IF r \in S THEN "interrupted" ELSE Custodian[r]]
  <2>1. \A r \in Request :
          Custody(exchange'[r]) = IF r \in S THEN "interrupted" ELSE Custody(exchange[r])
    BY <1>1
  <2>2. Custodian' = [r \in Request |-> Custody(exchange'[r])]
    BY DEF Custodian, Custody
  <2> QED
    BY <2>1, <2>2 DEF Custodian
<1>3. \A r \in S : Custodian[r] \in Promise!Busy
  BY <1>1 DEF Custodian
<1>4. Promise!Interrupt(S)
  BY <1>2, <1>3 DEF Promise!Interrupt, Custodian
<1> QED
  BY <1>4 DEF Kept, Promise!Next

LEMMA DropKept ==
  ASSUME Progress, NEW r \in Request, Drop(r)
  PROVE  Kept
<1>1. exchange' = [q \in Request |->
        IF q \in {r} THEN [exchange[q] EXCEPT !.pc = "dropped"] ELSE exchange[q]]
  BY DEF Drop, Dropped, Goto, Progress, TypeOK
<1> DEFINE S == {r}
<1>2. S \in SUBSET Request /\ \A q \in S : exchange[q].pc \in Running
  BY DEF Drop
<1>3. exchange' = [q \in Request |->
        IF q \in S THEN [exchange[q] EXCEPT !.pc = "dropped"] ELSE exchange[q]]
  BY <1>1
<1>4. UNCHANGED <<acknowledged, token>>
  BY DEF Drop
<1> HIDE DEF S
<1> QED
  BY <1>2, <1>3, <1>4, InterruptKept

LEMMA RestartKept ==
  ASSUME Progress, Restart
  PROVE  Kept
<1> DEFINE S == {r \in Request : exchange[r].pc \in Running}
<1>1. exchange' = [r \in Request |->
        IF r \in S THEN [exchange[r] EXCEPT !.pc = "dropped"] ELSE exchange[r]]
  BY DEF Restart, Dropped
<1> QED
  BY <1>1, InterruptKept DEF Restart

-----------------------------------------------------------------------------
LEMMA StepKept ==
  ASSUME Progress, [Next]_vars
  PROVE  Kept
<1>1. ASSUME NEW r \in Request, NEW arrival \in Arrival, Receive(r, arrival) PROVE Kept
  BY <1>1, ReceiveKept
<1>2. ASSUME NEW r \in Request, Proceed(r) PROVE Kept
  BY <1>2, PreparationKept, RevokeKept DEF Proceed, LocalWork
<1>3. ASSUME NEW r \in Request, PlatformSettles(r) PROVE Kept
  BY <1>3, PreparationKept, AcknowledgeKept, RejectKept DEF PlatformSettles
<1>4. ASSUME NEW r \in Request, GitHubReplies(r) PROVE Kept
  BY <1>4, LookupKept, MintKept, RevokeKept DEF GitHubReplies
<1>5. ASSUME NEW r \in Request, GitHubMints(r) \/ GitHubRevokes(r) \/ Drop(r) PROVE Kept
  BY <1>5, GitHubKept, DropKept
<1>6. CASE UNCHANGED <<exchange, acknowledged, token>>
  BY <1>6 DEF Kept, Promise!vars, Custody
<1>7. CASE \E a \in App : RotateKey(a)
  BY <1>6, <1>7 DEF RotateKey
<1>8. CASE UNCHANGED vars
  BY <1>6, <1>8 DEF vars
<1> QED
  BY <1>1, <1>2, <1>3, <1>4, <1>5, <1>7, <1>8, RestartKept DEF Next, Terminated

LEMMA InitKept == Init => Promise!Init
<1> SUFFICES ASSUME Init PROVE Promise!Init
  OBVIOUS
<1>1. \A r \in Request : exchange[r].pc = "idle"
  BY DEF Init
<1>2. \A r \in Request : Custody(exchange[r]) = "working"
  BY <1>1 DEF Custody
<1> QED
  BY <1>2 DEF Init, Promise!Init

\* The exchange implements TokenCustody: whatever the interleaving, the
\* failures and the restarts, each token is asked for once and on record,
\* and one that the broker holds is handed over or revoked.
THEOREM KeepsCustodyHolds == Spec => KeepsCustody
<1>1. Progress /\ [Next]_vars => [Promise!Next]_(Promise!vars)
  BY StepKept DEF Kept
<1> QED
  BY <1>1, InitKept, ProgressInvariant, PTL DEF Spec, KeepsCustody, Promise!Spec

-----------------------------------------------------------------------------
(* What TokenCustody says of the journal.                                   *)

LEMMA ReconcilesInit == Promise!Init => Promise!TypeOK /\ Promise!Reconciles
  BY DEF Promise!Init, Promise!TypeOK, Promise!Reconciles, Promise!Busy, Promise!Done

LEMMA ReconcilesStep ==
  ASSUME Promise!TypeOK, Promise!Reconciles, [Promise!Next]_(Promise!vars)
  PROVE  Promise!TypeOK' /\ Promise!Reconciles'
<1> USE DEF Promise!Moves, Promise!Records, Promise!Becomes
<1>1. CASE UNCHANGED Promise!vars
  BY <1>1 DEF Promise!vars, Promise!TypeOK, Promise!Reconciles
<1>2. ASSUME NEW r \in Request, Promise!Authorise(r) \/ Promise!Deliver(r) \/ Promise!Report(r)
      PROVE  Promise!TypeOK' /\ Promise!Reconciles'
  <2>1. CASE Promise!Authorise(r)
    BY <2>1 DEF Promise!Authorise, Promise!TypeOK, Promise!Reconciles
  <2>2. CASE Promise!Deliver(r)
    <3>1. \A q \in Request : acknowledged'[q] =
            IF q = r THEN acknowledged[q] \cup {"issuance_succeeded"} ELSE acknowledged[q]
      BY <2>2 DEF Promise!Deliver, Promise!TypeOK
    <3>2. \A q \in Request : Custodian'[q] = IF q = r THEN "delivered" ELSE Custodian[q]
      BY <2>2 DEF Promise!Deliver, Promise!TypeOK, Custodian
    <3>3. token[r] = "live" /\ UNCHANGED token
      BY <2>2 DEF Promise!Deliver
    <3>4. Promise!TypeOK'
      BY <2>2 DEF Promise!Deliver, Promise!TypeOK, Promise!Busy, Promise!Done
    <3>5. ASSUME NEW q \in Request
          PROVE  /\ token'[q] # "none" => "issuance_started" \in acknowledged'[q]
                 /\ "issuance_succeeded" \in acknowledged'[q] <=> Custodian'[q] = "delivered"
                 /\ Custodian'[q] = "delivered" => token'[q] = "live"
      <4>1. /\ token[q] # "none" => "issuance_started" \in acknowledged[q]
            /\ "issuance_succeeded" \in acknowledged[q] <=> Custodian[q] = "delivered"
            /\ Custodian[q] = "delivered" => token[q] = "live"
        BY DEF Promise!Reconciles, Custodian
      <4>2. token[r] # "none" => "issuance_started" \in acknowledged[r]
        BY DEF Promise!Reconciles
      <4> QED
        BY <3>1, <3>2, <3>3, <4>1, <4>2
    <3>6. Promise!Reconciles'
      BY <3>5 DEF Promise!Reconciles, Custodian, Custody
    <3> QED
      BY <3>4, <3>6
  <2>3. CASE Promise!Report(r)
    <3>1. PICK event \in {"authentication_failed", "issuance_failed"} : Promise!Records(r, {event})
      BY <2>3 DEF Promise!Report
    <3>2. \A q \in Request : acknowledged'[q] =
            IF q = r THEN acknowledged[q] \cup {event} ELSE acknowledged[q]
      BY <3>1 DEF Promise!TypeOK
    <3>3. /\ Custodian[r] = "failing" /\ UNCHANGED token
          /\ \A q \in Request : Custodian'[q] = IF q = r THEN "closed" ELSE Custodian[q]
      BY <2>3 DEF Promise!Report, Promise!TypeOK, Custodian
    <3>4. Promise!TypeOK'
      <4>1. /\ acknowledged' \in [Request -> SUBSET {"authentication_failed", "issuance_started",
                                                     "issuance_failed", "issuance_succeeded"}]
        BY <3>1 DEF Promise!TypeOK
      <4> QED
        BY <2>3, <4>1 DEF Promise!Report, Promise!TypeOK, Promise!Busy, Promise!Done
    <3>5. ASSUME NEW q \in Request
          PROVE  /\ token'[q] # "none" => "issuance_started" \in acknowledged'[q]
                 /\ "issuance_succeeded" \in acknowledged'[q] <=> Custodian'[q] = "delivered"
                 /\ Custodian'[q] = "delivered" => token'[q] = "live"
      <4>1. /\ token[q] # "none" => "issuance_started" \in acknowledged[q]
            /\ "issuance_succeeded" \in acknowledged[q] <=> Custodian[q] = "delivered"
            /\ Custodian[q] = "delivered" => token[q] = "live"
        BY DEF Promise!Reconciles, Custodian
      <4>2. "issuance_succeeded" \in acknowledged'[q] <=> "issuance_succeeded" \in acknowledged[q]
        BY <3>2, event # "issuance_succeeded"
      <4>3. token[q] # "none" => "issuance_started" \in acknowledged'[q]
        BY <3>2, <4>1
      <4>4. Custodian'[q] = "delivered" <=> Custodian[q] = "delivered"
        BY <3>3
      <4> QED
        BY <3>3, <4>1, <4>2, <4>3, <4>4
    <3>6. Promise!Reconciles'
      BY <3>5 DEF Promise!Reconciles, Custodian, Custody
    <3> QED
      BY <3>4, <3>6
  <2> QED
    BY <1>2, <2>1, <2>2, <2>3
<1>3. ASSUME NEW r \in Request, Promise!Ask(r) \/ Promise!Fail(r) \/ Promise!Receive(r)
                                  \/ Promise!Return(r) \/ Promise!Close(r)
      PROVE  Promise!TypeOK' /\ Promise!Reconciles'
  <2>1. CASE Promise!Ask(r)
    BY <2>1 DEF Promise!Ask, Promise!TypeOK, Promise!Reconciles, Promise!Busy, Promise!Done
  <2>2. CASE Promise!Fail(r)
    BY <2>2 DEF Promise!Fail, Promise!TypeOK, Promise!Reconciles, Promise!Busy, Promise!Done
  <2>3. CASE Promise!Receive(r)
    BY <2>3 DEF Promise!Receive, Promise!TypeOK, Promise!Reconciles, Promise!Busy, Promise!Done
  <2>4. CASE Promise!Return(r)
    BY <2>4 DEF Promise!Return, Promise!TypeOK, Promise!Reconciles, Promise!Busy, Promise!Done
  <2>5. CASE Promise!Close(r)
    BY <2>5 DEF Promise!Close, Promise!TypeOK, Promise!Reconciles, Promise!Busy, Promise!Done
  <2> QED
    BY <1>3, <2>1, <2>2, <2>3, <2>4, <2>5
<1>4. ASSUME NEW r \in Request, Promise!GitHubCreates(r) \/ Promise!GitHubRevokes(r)
      PROVE  Promise!TypeOK' /\ Promise!Reconciles'
  BY <1>4 DEF Promise!GitHubCreates, Promise!GitHubRevokes, Promise!TypeOK, Promise!Reconciles
<1>5. ASSUME NEW S \in SUBSET Request, Promise!Interrupt(S)
      PROVE  Promise!TypeOK' /\ Promise!Reconciles'
  BY <1>5 DEF Promise!Interrupt, Promise!TypeOK, Promise!Reconciles, Promise!Busy, Promise!Done
<1> QED
  BY <1>1, <1>2, <1>3, <1>4, <1>5 DEF Promise!Next

\* Whatever is lost, the audit journal tells which tokens may be live at
\* GitHub without a client: those whose intent is on record and whose success
\* is not.
THEOREM JournalReconciles == Spec => []Promise!Reconciles
<1>1. Promise!TypeOK /\ Promise!Reconciles /\ [Promise!Next]_(Promise!vars)
        => (Promise!TypeOK /\ Promise!Reconciles)'
  BY ReconcilesStep
<1> QED
  BY <1>1, ReconcilesInit, KeepsCustodyHolds, PTL DEF KeepsCustody, Promise!Spec
=============================================================================
