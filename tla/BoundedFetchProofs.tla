--------------------------- MODULE BoundedFetchProofs ---------------------------
(***************************************************************************)
(* Every request, whatever the peer sends and whenever the deadline passes,*)
(* leaves no body behind and reports what happened, for all limits, chunk  *)
(* sizes and answers.                                                      *)
(***************************************************************************)
EXTENDS BoundedFetch, TLAPS

\* What holds at each point of a request: nothing has arrived while it waits
\* for the headers, the reader holds the body while it reads, and a fetch
\* still pending after that has brought nothing.
Progress ==
  /\ pc = "fetching" =>
       ~aborted /\ response = None /\ outcome = None /\ body = "absent" /\ totalBytes = 0
  /\ pc = "reading" =>
       /\ ~aborted /\ response # None /\ outcome = None /\ body = "locked"
       /\ network = "settled" /\ AfterHeaders(response) = "read"
  /\ network = "pending" => response = None /\ body = "absent" /\ totalBytes = 0
  /\ response = None => totalBytes = 0

Inv == TypeOK /\ Progress /\ NothingLeaks /\ SizeDecides /\ OutcomeEarned

LEMMA Initial == ASSUME Init PROVE Inv
  BY PurposeAssumption, NoneAssumption, SizeAssumption
     DEF Init, Inv, TypeOK, Progress, NothingLeaks, SizeDecides, OutcomeEarned, Body

\* What Reported makes of a result: a well-formed outcome, which has GitHub's
\* status when there is a response.
LEMMA ReportedOutcome ==
  ASSUME TypeOK, NEW r \in Response \cup {None}, NEW result \in Result
  PROVE  /\ Reported(result, r) \in Outcome
         /\ Reported(result, r).result = result
         /\ purpose # "document" =>
              Reported(result, r).upstreamStatus = IF r = None THEN None ELSE r.status
<1>1. r # None => r.status \in Status
  BY ResponseAssumption
<1>2. QED
  BY <1>1 DEF Reported, Outcome

\* The classes the two kinds of request sort answers into.
LEMMA Classes ==
  ASSUME TypeOK, NEW r \in Response
  PROVE  /\ AfterHeaders(r) = "read" \/ AfterHeaders(r) \in Result \ {"timeout", "transport"}
         /\ AfterHeaders(r) = "value" => r.status = 204
         /\ AfterHeaders(r) = "rate_limited" =>
              r.status = 429 \/ (r.status = 403 /\ r.rateLimitHeaders)
         /\ AfterHeaders(r) = "limit" =>
              purpose = "document" /\ r.declared # None /\ Exceeds(r.declared, r)
  BY DEF AfterHeaders, DocumentHeaders, GitHubHeaders, Result

LEMMA BodyClasses ==
  ASSUME TypeOK, NEW r \in Response, NEW content
  PROVE  /\ AfterBody(r, content) \in {"rate_limited", "status", "value", "malformed", "invalid"}
         /\ AfterBody(r, content) = "rate_limited" => r.status = 403
         /\ AfterBody(r, content) = "value" => ~MayBeRateLimited(r)
         /\ BodyTooLarge(r) \in {"status", "limit", "invalid"}
         /\ BodyTooLarge(r) = "limit" => ~MayBeRateLimited(r)
         /\ Interrupted(r) \in {"timeout", "transport"}
         /\ \A error \in TransportErrors :
              BodyUnreadable(r, error) \in {"status", "timeout", "transport"}
  BY DEF AfterBody, BodyTooLarge, BodyUnreadable, MayBeRateLimited, Unusable,
         Interrupted, TransportErrors

-----------------------------------------------------------------------------
\* An answer in time is read only if its status and headers leave it open.
LEMMA AnsweredPreserves ==
  ASSUME Inv, NEW r \in Response, Answered(r)
  PROVE  Inv'
<1>1. /\ response = None /\ outcome = None /\ body = "absent" /\ totalBytes = 0 /\ ~aborted
      /\ response' = r /\ r # None /\ totalBytes' = 0 /\ purpose' = purpose /\ ~aborted'
      /\ network' = "settled" /\ aborted' \in BOOLEAN /\ purpose' \in Purpose
  BY NoneAssumption DEF Answered, Inv, TypeOK, Progress
<1>2. r.declared # None => r.declared \in Nat
  BY ResponseAssumption
<1>3. CASE AfterHeaders(r) = "read" /\ r.hasBody
  <2>1. pc' = "reading" /\ body' = "locked" /\ outcome' = None
    BY <1>1, <1>3 DEF Answered, Settle
  <2>2. 0 <= LimitOf(r) /\ LimitOf(r)' = LimitOf(r) /\ AfterHeaders(r)' = "read"
    BY <1>1, <1>3, SizeAssumption
       DEF LimitOf, MayBeRateLimited, AfterHeaders, DocumentHeaders, GitHubHeaders, Exceeds
  <2>3. LimitOf(response)' = LimitOf(r) /\ AfterHeaders(response)' = "read"
    BY <1>1, <2>2
       DEF LimitOf, MayBeRateLimited, AfterHeaders, DocumentHeaders, GitHubHeaders, Exceeds
  <2>4. QED
    BY <1>1, <2>1, <2>2, <2>3 DEF Inv, TypeOK, Body, Progress, NothingLeaks, SizeDecides, OutcomeEarned
<1>4. CASE ~(AfterHeaders(r) = "read" /\ r.hasBody)
  <2> DEFINE result == IF AfterHeaders(r) = "read" THEN AfterBody(r, "other") ELSE AfterHeaders(r)
  <2>1. pc' = "settled" /\ outcome' = Reported(result, r) /\ body' = Discarded(BodyOf(r))
    BY <1>4 DEF Answered, Settle
  <2>2. TypeOK
    BY DEF Inv
  <2>3. /\ result \in Result
        /\ result = "value" => r.status = 204
        /\ result = "rate_limited" =>
             r.status = 429 \/ (r.status = 403 /\ r.rateLimitHeaders)
        /\ result = "limit" => purpose = "document" /\ r.declared # None /\ Exceeds(r.declared, r)
        /\ result \notin {"timeout", "transport"}
    <3>1. AfterBody(r, "other") \in {"status", "malformed", "invalid"}
      BY DEF AfterBody, Unusable
    <3>2. QED
      BY <2>2, <3>1, Classes DEF Result
  <2>4. /\ outcome' \in Outcome /\ outcome'.result = result
        /\ purpose # "document" => outcome'.upstreamStatus = r.status
    BY <1>1, <2>1, <2>2, <2>3, ReportedOutcome
  <2>5. body' \in {"absent", "cancelled"}
    BY <2>1 DEF Discarded, BodyOf
  <2>6. result = "limit" => r.declared > ByteLimit
    BY <2>3 DEF Exceeds, LimitOf, MayBeRateLimited
  <2>7. LimitOf(response)' \in Nat
    BY SizeAssumption DEF LimitOf
  <2>8. SizeDecides'
    BY <1>1, <2>1, <2>3, <2>4, <2>6, <2>7, SizeAssumption DEF SizeDecides
  <2>9. OutcomeEarned'
    BY <1>1, <2>3, <2>4 DEF OutcomeEarned
  <2>10. QED
    BY <1>1, <2>1, <2>2, <2>4, <2>5, <2>8, <2>9 DEF Inv, TypeOK, Body, Progress, NothingLeaks
<1>5. QED
  BY <1>3, <1>4

\* What comes after the deadline finds the outcome already chosen.
LEMMA LatePreserves ==
  ASSUME Inv, FetchFailsLate \/ \E r \in Response : AnsweredLate(r)
  PROVE  Inv'
<1>1. /\ aborted /\ network = "pending" /\ network' = "settled"
      /\ UNCHANGED <<purpose, pc, aborted, response, totalBytes, outcome>>
      /\ body' \in {body, "absent", "cancelled"}
  BY DEF FetchFailsLate, AnsweredLate, LateBody, Discarded, BodyOf
<1>2. pc = "settled" /\ response = None /\ totalBytes = 0 /\ body = "absent"
  BY <1>1 DEF Inv, TypeOK, Progress
<1>3. LimitOf(response)' = LimitOf(response)
  BY <1>1 DEF LimitOf, MayBeRateLimited
<1>4. QED
  BY <1>1, <1>2, <1>3 DEF Inv, TypeOK, Body, Progress, NothingLeaks, SizeDecides, OutcomeEarned

\* The network or the deadline ends the wait, or the reading.
LEMMA CutShortPreserves ==
  ASSUME Inv, NEW result \in {"timeout", "transport", "status"}, NEW b \in Body,
         Settle(result, response, b), b \notin {"open", "locked"},
         UNCHANGED <<purpose, response, totalBytes>>,
         network' \in {"pending", "settled"}, aborted' \in BOOLEAN,
         network' = "pending" => network = "pending" /\ b = "absent",
         aborted' => result # "status",
         response # None => totalBytes <= LimitOf(response)
  PROVE  Inv'
<1>1. TypeOK /\ result \in Result
  BY DEF Inv, Result
<1>2. response \in Response \cup {None}
  BY <1>1 DEF TypeOK
<1>3. /\ outcome' \in Outcome /\ outcome'.result = result
      /\ purpose # "document" =>
           outcome'.upstreamStatus = IF response = None THEN None ELSE response.status
  BY <1>1, <1>2, ReportedOutcome DEF Settle
<1>4. pc' = "settled" /\ body' = b
  BY DEF Settle, Discarded
<1>5. LimitOf(response) \in Nat /\ LimitOf(response)' = LimitOf(response) /\ totalBytes \in Nat
  BY <1>1, SizeAssumption DEF LimitOf, MayBeRateLimited, TypeOK
<1>6. SizeDecides'
  BY <1>3, <1>4, <1>5 DEF SizeDecides
<1>7. QED
  BY <1>1, <1>3, <1>4, <1>6 DEF Inv, TypeOK, Progress, NothingLeaks, OutcomeEarned

\* What is known while the body of a response is read.
LEMMA WhileReading ==
  ASSUME Inv, pc = "reading"
  PROVE  /\ TypeOK /\ response \in Response /\ outcome = None /\ ~aborted /\ network = "settled"
         /\ totalBytes \in Nat /\ totalBytes <= LimitOf(response) /\ LimitOf(response) \in Nat
         /\ ~MayBeRateLimited(response) => LimitOf(response) = ByteLimit
  BY SizeAssumption DEF Inv, TypeOK, Progress, SizeDecides, LimitOf

\* A chunk leaves the reader within the limit, or ends the reading beyond it.
LEMMA ChunkPreserves ==
  ASSUME Inv, NEW n \in Chunk, ChunkArrives(n)
  PROVE  Inv'
<1> DEFINE total == totalBytes + n
<1>1. /\ pc = "reading" /\ totalBytes' = total
      /\ UNCHANGED <<purpose, network, aborted, response>>
  BY DEF ChunkArrives
<1>2. /\ TypeOK /\ response \in Response /\ outcome = None /\ ~aborted /\ network = "settled"
      /\ totalBytes \in Nat /\ LimitOf(response) \in Nat
      /\ ~MayBeRateLimited(response) => LimitOf(response) = ByteLimit
  BY <1>1, WhileReading
<1>3. total \in Nat
  BY <1>2, SizeAssumption
<1>4. response # None
  BY <1>2, NoneAssumption
<1>5. LimitOf(response)' = LimitOf(response) /\ AfterHeaders(response)' = AfterHeaders(response)
  BY <1>1 DEF LimitOf, MayBeRateLimited, AfterHeaders, DocumentHeaders, GitHubHeaders, Exceeds
<1>6. CASE ~Exceeds(total, response)
  <2>1. UNCHANGED <<pc, outcome, body>> /\ total <= LimitOf(response)
    BY <1>2, <1>3, <1>6 DEF ChunkArrives, Exceeds
  <2>2. QED
    BY <1>1, <1>2, <1>3, <1>4, <1>5, <2>1
       DEF Inv, TypeOK, Progress, NothingLeaks, SizeDecides, OutcomeEarned
<1>7. CASE Exceeds(total, response)
  <2> DEFINE result == BodyTooLarge(response)
  <2>1. pc' = "settled" /\ outcome' = Reported(result, response) /\ body' = "cancelled"
    BY <1>7 DEF ChunkArrives, Settle, Discarded
  <2>2. /\ result \in {"status", "limit", "invalid"} /\ result \in Result
        /\ result = "limit" => ~MayBeRateLimited(response)
    BY <1>2, BodyClasses DEF Result
  <2>3. /\ outcome' \in Outcome /\ outcome'.result = result
        /\ purpose # "document" => outcome'.upstreamStatus = response.status
    BY <1>2, <1>4, <2>1, <2>2, ReportedOutcome
  <2>4. result = "limit" => total > ByteLimit
    BY <1>2, <1>7, <2>2 DEF Exceeds
  <2>5. SizeDecides'
    BY <1>1, <2>1, <2>2, <2>3, <2>4 DEF SizeDecides
  <2>6. OutcomeEarned'
    BY <1>1, <1>2, <1>4, <2>2, <2>3 DEF OutcomeEarned
  <2>7. QED
    BY <1>1, <1>2, <1>3, <1>4, <2>1, <2>3, <2>5, <2>6
       DEF Inv, TypeOK, Body, Progress, NothingLeaks
<1>8. QED
  BY <1>6, <1>7

\* A body that ends within the limit decides the outcome by its content.
LEMMA EndPreserves ==
  ASSUME Inv, NEW content, BodyEnds(content)
  PROVE  Inv'
<1> DEFINE result == AfterBody(response, content)
<1>1. /\ pc = "reading" /\ pc' = "settled" /\ body' = "consumed"
      /\ outcome' = Reported(result, response)
      /\ UNCHANGED <<purpose, network, aborted, response, totalBytes>>
  BY DEF BodyEnds, Settle, Discarded
<1>2. /\ TypeOK /\ response \in Response /\ response # None /\ ~aborted /\ network = "settled"
      /\ totalBytes \in Nat /\ totalBytes <= LimitOf(response) /\ LimitOf(response) \in Nat
      /\ ~MayBeRateLimited(response) => LimitOf(response) = ByteLimit
  BY <1>1, WhileReading, NoneAssumption
<1>3. /\ result \in {"rate_limited", "status", "value", "malformed", "invalid"}
      /\ result = "rate_limited" => response.status = 403
      /\ result = "value" => ~MayBeRateLimited(response)
      /\ result \in Result
  BY <1>2, BodyClasses DEF Result
<1>4. /\ outcome' \in Outcome /\ outcome'.result = result
      /\ purpose # "document" => outcome'.upstreamStatus = response.status
  BY <1>1, <1>2, <1>3, ReportedOutcome
<1>5. LimitOf(response)' = LimitOf(response)
  BY <1>1 DEF LimitOf, MayBeRateLimited
<1>6. SizeDecides'
  BY <1>1, <1>2, <1>3, <1>4, <1>5 DEF SizeDecides
<1>7. OutcomeEarned'
  BY <1>1, <1>2, <1>3, <1>4 DEF OutcomeEarned
<1>8. QED
  BY <1>1, <1>2, <1>4, <1>6, <1>7 DEF Inv, TypeOK, Body, Progress, NothingLeaks

\* One proof for each way to be cut short: the fetch rejects, the body does,
\* the deadline passes.
LEMMA FetchFailsPreserves ==
  ASSUME Inv, FetchFails
  PROVE  Inv'
<1>1. /\ pc = "fetching" /\ response = None /\ body = "absent"
      /\ network' = "settled" /\ UNCHANGED <<purpose, aborted, response, totalBytes>>
      /\ aborted' \in BOOLEAN /\ ~aborted'
  BY DEF FetchFails, Inv, TypeOK, Progress
<1>2. PICK error \in TransportErrors : Settle(error, None, body)
  BY DEF FetchFails
<1>3. error \in {"timeout", "transport", "status"}
  BY DEF TransportErrors
<1>4. QED
  BY <1>1, <1>2, <1>3, CutShortPreserves DEF Body

LEMMA BodyFailsPreserves ==
  ASSUME Inv, BodyFails
  PROVE  Inv'
<1>1. /\ pc = "reading" /\ UNCHANGED <<purpose, network, aborted, response, totalBytes>>
  BY DEF BodyFails
<1>2. /\ TypeOK /\ response \in Response /\ ~aborted /\ network = "settled"
      /\ totalBytes <= LimitOf(response)
  BY <1>1, WhileReading
<1>3. PICK error \in TransportErrors : Settle(BodyUnreadable(response, error), response, "failed")
  BY DEF BodyFails
<1>4. BodyUnreadable(response, error) \in {"timeout", "transport", "status"}
  BY <1>2, <1>3, BodyClasses
<1>5. ~aborted' /\ aborted' \in BOOLEAN /\ network' = "settled"
  BY <1>1, <1>2 DEF TypeOK
<1>6. QED
  BY <1>1, <1>2, <1>3, <1>4, <1>5, CutShortPreserves DEF Body

LEMMA DeadlinePreserves ==
  ASSUME Inv, DeadlinePasses
  PROVE  Inv'
<1>1. /\ pc \in {"fetching", "reading"} /\ aborted' = TRUE
      /\ UNCHANGED <<purpose, network, response, totalBytes>>
  BY DEF DeadlinePasses, Interruptible
<1>2. PICK b \in IF body = "locked" THEN {"cancelled", "failed"} ELSE {body} :
        Settle(Interrupted(response), response, b)
  BY DEF DeadlinePasses
<1>3. Interrupted(response) \in {"timeout", "transport"}
  BY DEF Interrupted
<1>4. CASE pc = "fetching"
  <2>1. response = None /\ body = "absent" /\ b = body /\ network \in {"pending", "settled"}
    BY <1>2, <1>4 DEF Inv, TypeOK, Progress
  <2>2. QED
    BY <1>1, <1>2, <1>3, <2>1, CutShortPreserves DEF Body
<1>5. CASE pc = "reading"
  <2>1. network = "settled" /\ totalBytes <= LimitOf(response)
    BY <1>5, WhileReading
  <2>2. b \in {"cancelled", "failed"}
    BY <1>2, <1>5 DEF Inv, Progress
  <2>3. QED
    BY <1>1, <1>2, <1>3, <2>1, <2>2, CutShortPreserves DEF Body
<1>6. QED
  BY <1>1, <1>4, <1>5

LEMMA Inductive == Inv /\ [Next]_vars => Inv'
<1> SUFFICES ASSUME Inv, [Next]_vars PROVE Inv'
  OBVIOUS
<1>1. ASSUME NEW r \in Response, Answered(r) PROVE Inv'
  BY <1>1, AnsweredPreserves
<1>2. CASE FetchFailsLate \/ \E r \in Response : AnsweredLate(r)
  BY <1>2, LatePreserves
<1>3. CASE FetchFails
  BY <1>3, FetchFailsPreserves
<1>4. ASSUME NEW n \in Chunk, ChunkArrives(n) PROVE Inv'
  BY <1>4, ChunkPreserves
<1>5. ASSUME NEW content \in {"expected", "rate_limit", "other"}, BodyEnds(content) PROVE Inv'
  BY <1>5, EndPreserves
<1>6. CASE BodyFails
  BY <1>6, BodyFailsPreserves
<1>7. CASE DeadlinePasses
  BY <1>7, DeadlinePreserves
<1>8. CASE UNCHANGED vars
  BY <1>8 DEF vars, Inv, TypeOK, Progress, NothingLeaks, SizeDecides, OutcomeEarned,
              LimitOf, MayBeRateLimited, AfterHeaders, DocumentHeaders, GitHubHeaders, Exceeds
<1>9. QED
  BY <1>1, <1>2, <1>3, <1>4, <1>5, <1>6, <1>7, <1>8 DEF Next, Terminated

-----------------------------------------------------------------------------
\* The inductive invariant of a request under its deadline.
THEOREM RequestInvariant == Spec => []Inv
  BY Initial, Inductive, PTL DEF Spec

\* Every variable keeps its type.
THEOREM TypeCorrect == Spec => []TypeOK
<1>1. Inv => TypeOK
  BY DEF Inv
<1>2. QED
  BY <1>1, RequestInvariant, PTL

\* No settled request leaves a body open or locked.
THEOREM NothingLeaksHolds == Spec => []NothingLeaks
<1>1. Inv => NothingLeaks
  BY DEF Inv
<1>2. QED
  BY <1>1, RequestInvariant, PTL

\* The limits alone decide which bodies are too large, for any limits.
THEOREM SizeDecidesHolds == Spec => []SizeDecides
<1>1. Inv => SizeDecides
  BY DEF Inv
<1>2. QED
  BY <1>1, RequestInvariant, PTL

\* The class of every outcome is what happened on the wire.
THEOREM OutcomeEarnedHolds == Spec => []OutcomeEarned
<1>1. Inv => OutcomeEarned
  BY DEF Inv
<1>2. QED
  BY <1>1, RequestInvariant, PTL
=============================================================================
