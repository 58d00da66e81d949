------------------------- MODULE OidcVerifierProofs -------------------------
(***************************************************************************)
(* Theorems about OidcVerifier, for every number of calls, every schedule  *)
(* of the provider and every choice of the time constants.                 *)
(***************************************************************************)
EXTENDS OidcVerifier, SequenceTheorems, TLAPS

\* The steps that run nothing of any call.
Environment ==
  Tick \/ NextEpoch \/ (\E o \in Op : Drop(o)) \/ Terminated

-----------------------------------------------------------------------------
(* The operators the actions are built from return what their names say.   *)

\* The freshness computed from any Cache-Control is a duration.
LEMMA FreshnessType ==
  ASSUME NEW control \in CacheControl
  PROVE  BoundedFreshness(control) \in Nat
  BY CacheControlAssumption, TimeAssumption DEF BoundedFreshness, Smaller

\* Caching a document yields an entry with numeric deadlines.
LEMMA RetainedType ==
  ASSUME NEW document \in Document
  PROVE  Retained(document) \in Entry \cup {None}
<1>1. document.control \in CacheControl /\ document.base \in Nat
  BY DEF Document
<1>2. BoundedFreshness(document.control) \in Nat
  BY <1>1, FreshnessType
<1> QED
  BY <1>1, <1>2, TimeAssumption DEF Retained, CacheEntry, Entry

\* The updates of a call's record keep it a call.
LEMMA CallUpdates ==
  ASSUME NEW c \in Call
  PROVE  /\ \A d \in Document : WithMetadata(c, d) \in Call
         /\ \A d \in Document : WithJwks(c, d) \in Call
         /\ \A pc \in {"failed", "refresh_failed"},
               error \in {"provider_unavailable", "metadata_rejected"} :
              Failing(c, pc, error) \in Call
         /\ \A outcome \in Outcome \cup {None} :
              Done(c, outcome) \in Call
<1>1. ASSUME NEW d \in Document PROVE WithMetadata(c, d) \in Call
  BY <1>1 DEF Call, Running, Awaits, Resumed, WithMetadata
<1>2. ASSUME NEW d \in Document PROVE WithJwks(c, d) \in Call
  <2>1. CASE ForMissingKey(c)
    BY <2>1 DEF Call, Running, Awaits, Resumed, WithJwks
  <2>2. CASE ~ForMissingKey(c)
    BY <2>2 DEF Call, Running, Awaits, Resumed, WithJwks
  <2> QED
    BY <2>1, <2>2
<1>3. ASSUME NEW pc \in {"failed", "refresh_failed"},
             NEW error \in {"provider_unavailable", "metadata_rejected"}
      PROVE  Failing(c, pc, error) \in Call
  BY <1>3 DEF Call, Running, Awaits, Resumed, Outcome, Rejection, Failing
<1>4. ASSUME NEW outcome \in Outcome \cup {None}
      PROVE  Done(c, outcome) \in Call
  BY <1>4 DEF Call, Done
<1> QED
  BY <1>1, <1>2, <1>3, <1>4

\* A call that begins takes its time and token.
LEMMA CallBegins ==
  ASSUME NEW c \in Call, NEW now \in Nat, NEW token \in Token, NEW b,
         b = [c EXCEPT !.now = now, !.token = token]
  PROVE  b \in Call
  BY DEF Call

\* What an update changes in a call's record and what it leaves alone.
LEMMA UpdatedFields ==
  ASSUME NEW c \in Call, NEW d, NEW pc, NEW error
  PROVE  /\ WithMetadata(c, d).pc = "admit" /\ WithMetadata(c, d).meta = d
         /\ WithMetadata(c, d).doc = c.doc /\ WithMetadata(c, d).now = c.now
         /\ WithMetadata(c, d).resolved = c.resolved
         /\ WithJwks(c, d).pc \in {"verify", "recheck"} /\ WithJwks(c, d).meta = c.meta
         /\ WithJwks(c, d).doc = d /\ WithJwks(c, d).now = c.now
         /\ WithJwks(c, d).resolved = None
         /\ Failing(c, pc, error).pc = pc /\ Failing(c, pc, error).meta = c.meta
         /\ Failing(c, pc, error).doc = c.doc /\ Failing(c, pc, error).now = c.now
         /\ Failing(c, pc, error).resolved = None
         /\ Done(c, error).pc = "done" /\ Done(c, error).meta = c.meta
         /\ Done(c, error).doc = c.doc /\ Done(c, error).now = c.now
         /\ Done(c, error).resolved = c.resolved
<1>1. /\ WithMetadata(c, d).pc = "admit" /\ WithMetadata(c, d).meta = d
      /\ WithMetadata(c, d).doc = c.doc /\ WithMetadata(c, d).now = c.now
      /\ WithMetadata(c, d).resolved = c.resolved
  BY DEF Call, WithMetadata
<1>2. /\ WithJwks(c, d).pc \in {"verify", "recheck"} /\ WithJwks(c, d).meta = c.meta
      /\ WithJwks(c, d).doc = d /\ WithJwks(c, d).now = c.now
      /\ WithJwks(c, d).resolved = None
  <2>1. CASE ForMissingKey(c)
    BY <2>1 DEF Call, WithJwks
  <2>2. CASE ~ForMissingKey(c)
    BY <2>2 DEF Call, WithJwks
  <2> QED
    BY <2>1, <2>2
<1>3. /\ Failing(c, pc, error).pc = pc /\ Failing(c, pc, error).meta = c.meta
      /\ Failing(c, pc, error).doc = c.doc /\ Failing(c, pc, error).now = c.now
      /\ Failing(c, pc, error).resolved = None
  BY DEF Call, Failing
<1>4. /\ Done(c, error).pc = "done" /\ Done(c, error).meta = c.meta
      /\ Done(c, error).doc = c.doc /\ Done(c, error).now = c.now
      /\ Done(c, error).resolved = c.resolved
  BY DEF Call, Done
<1> QED
  BY <1>1, <1>2, <1>3, <1>4

\* What else an update does to a call's record.
LEMMA UpdatedAnswer ==
  ASSUME NEW c \in Call, NEW d, NEW pc, NEW error
  PROVE  /\ WithMetadata(c, d).token = c.token /\ WithMetadata(c, d).outcome = c.outcome
         /\ WithJwks(c, d).token = c.token /\ WithJwks(c, d).outcome = c.outcome
         /\ ForMissingKey(c) => WithJwks(c, d).pc = "recheck"
         /\ ~ForMissingKey(c) => WithJwks(c, d).pc = "verify"
         /\ Failing(c, pc, error).token = c.token /\ Failing(c, pc, error).outcome = error
         /\ Done(c, error).token = c.token /\ Done(c, error).outcome = error
<1>1. WithMetadata(c, d).token = c.token /\ WithMetadata(c, d).outcome = c.outcome
  BY DEF Call, WithMetadata
<1>2. CASE ForMissingKey(c)
  BY <1>1, <1>2 DEF Call, WithJwks, Failing, Done
<1>3. CASE ~ForMissingKey(c)
  BY <1>1, <1>3 DEF Call, WithJwks, Failing, Done
<1> QED
  BY <1>2, <1>3

LEMMA AfterMetadataFailureType ==
  ASSUME NEW c \in Call, metadata \in Entry \cup {None},
         NEW error \in {"provider_unavailable", "metadata_rejected"}
  PROVE  AfterMetadataFailure(c, error) \in Call
  BY CallUpdates DEF AfterMetadataFailure, UsableWhenStale, Entry

LEMMA AfterJwksFailureType ==
  ASSUME NEW c \in Call
  PROVE  AfterJwksFailure(c) \in Call
<1>1. c.resolved \in Entry \cup {None}
  BY DEF Call
<1> QED
  BY <1>1, CallUpdates DEF AfterJwksFailure, SameIdentity, Entry

\* What a provider answers is a document, whichever request it answers.
LEMMA EpochType ==
  ASSUME TypeOK, NEW t, NEW e \in Published(t)
  PROVE  e \in Epoch /\ Schedule[e].metadata \in Identity
<1>1. e \in 1..Len(Schedule)
  BY ScheduleAssumption DEF TypeOK, Published
<1>2. Schedule[e] \in [metadata : Identity, keys : [Uri -> SUBSET Kid]]
  BY <1>1, ScheduleAssumption, ElementOfSeq
<1>3. Schedule[e].metadata \in Identity
  BY <1>2
<1> QED
  BY <1>1, <1>3, ScheduleAssumption DEF Epoch

LEMMA MetadataAnswerType ==
  ASSUME TypeOK, metadataRefresh # None,
         NEW e \in Published(metadataRefresh.startedAt), NEW control \in CacheControl
  PROVE  MetadataAnswer(e, control) \in Document
  BY EpochType DEF TypeOK, MetadataAnswer, Document, MetadataRequest

LEMMA JwksAnswerType ==
  ASSUME TypeOK, NEW r \in Ref, fetches[r] # None,
         NEW e \in Published(fetches[r].startedAt), NEW control \in CacheControl
  PROVE  JwksAnswer(r, e, control) \in Document
<1>1. e \in Epoch
  BY EpochType
<1>2. r[1] \in Op /\ call[r[1]].now \in Nat
  BY DEF TypeOK, Ref, Call
<1>3. fetches[r].identity \in Identity /\ clock \in Nat
  BY DEF TypeOK, JwksRequest
<1> QED
  BY <1>1, <1>2, <1>3 DEF JwksAnswer, Document

-----------------------------------------------------------------------------
(* Type correctness *)

LEMMA InitType == Init => TypeOK
  BY ScheduleAssumption DEF Init, TypeOK, Call

LEMMA EnvironmentType ==
  ASSUME TypeOK, Tick \/ NextEpoch \/ (\E o \in Op : Drop(o)) \/ UNCHANGED vars
  PROVE  TypeOK'
<1>1. CASE Tick
  BY <1>1 DEF Tick, TypeOK, metadataVars, jwksVars, historyVars
<1>2. CASE NextEpoch
  BY <1>2, ScheduleAssumption
     DEF NextEpoch, TypeOK, CurrentEpoch, metadataVars, jwksVars, historyVars
<1>3. CASE \E o \in Op : Drop(o)
  BY <1>3 DEF Drop, TypeOK, providerVars, metadataVars, jwksVars, historyVars
<1>4. CASE UNCHANGED vars
  BY <1>4 DEF vars, TypeOK, providerVars, metadataVars, jwksVars, historyVars
<1> QED
  BY <1>1, <1>2, <1>3, <1>4

\* The call a Start step works on: idle, with its time and token filled in.
LEMMA StartType ==
  ASSUME TypeOK, NEW o \in Op, NEW token \in Token, Start(o, token)
  PROVE  TypeOK'
<1> DEFINE c == [call[o] EXCEPT !.now = clock, !.token = token]
<1>1. c \in Call
  <2>1. call[o] \in Call /\ clock \in Nat
    BY DEF TypeOK
  <2>2. c = [call[o] EXCEPT !.now = clock, !.token = token]
    OBVIOUS
  <2> HIDE DEF c
  <2> QED
    BY <2>1, <2>2, CallBegins
<1>2. [c EXCEPT !.pc = "metadata"] \in Call
  BY <1>1 DEF Call, Running, Awaits, Resumed
<1>3. UNCHANGED <<providerVars, metadata, metadataFailure, jwksVars, dropped, historyVars>>
  BY DEF Start
<1>4. CASE Fresh(metadata, c.now) /\ Continue(o, WithMetadata(c, metadata.value))
  <2>1. WithMetadata(c, metadata.value) \in Call
    BY <1>1, <1>4, CallUpdates DEF TypeOK, Fresh, Entry
  <2> QED
    BY <1>3, <1>4, <2>1 DEF TypeOK, Continue, providerVars, jwksVars, historyVars
<1>5. CASE BackingOff(c.now) /\ Continue(o, AfterMetadataFailure(c, metadataFailure.error))
  <2>1. AfterMetadataFailure(c, metadataFailure.error) \in Call
    BY <1>1, <1>5, AfterMetadataFailureType DEF TypeOK, BackingOff
  <2> QED
    BY <1>3, <1>5, <2>1 DEF TypeOK, Continue, providerVars, jwksVars, historyVars
<1>6. CASE AwaitMetadata(o, c)
  <2>1. metadataRefresh' \in MetadataRequest \cup {None}
    <3>1. CASE metadataRefresh = None
      BY <1>6, <3>1 DEF AwaitMetadata, TypeOK, MetadataRequest
    <3>2. CASE metadataRefresh # None
      <4>1. metadataRefresh \in MetadataRequest
        BY <3>2 DEF TypeOK
      <4>2. Append(metadataRefresh.waiters, o) \in Seq(Op)
        BY <4>1 DEF MetadataRequest
      <4>3. metadataRefresh' =
              [metadataRefresh EXCEPT !.waiters = Append(metadataRefresh.waiters, o)]
        BY <1>6, <3>2, <4>1 DEF AwaitMetadata, MetadataRequest
      <4> QED
        BY <4>1, <4>2, <4>3 DEF MetadataRequest
    <3> QED
      BY <3>1, <3>2
  <2>2. call' \in [Op -> Call] /\ ready' = ready
    BY <1>2, <1>6 DEF AwaitMetadata, TypeOK
  <2> QED
    BY <1>3, <2>1, <2>2 DEF TypeOK, providerVars, jwksVars, historyVars
<1> QED
  BY <1>4, <1>5, <1>6 DEF Start

LEMMA MetadataRefreshedType ==
  ASSUME TypeOK, metadataRefresh # None,
         NEW e \in Published(metadataRefresh.startedAt), NEW control \in CacheControl,
         MetadataRefreshed(e, control)
  PROVE  TypeOK'
<1>1. MetadataAnswer(e, control) \in Document
  BY MetadataAnswerType
<1>2. metadata' \in Entry \cup {None}
  BY <1>1, RetainedType DEF MetadataRefreshed
<1>3. call' \in [Op -> Call]
  BY <1>1, CallUpdates DEF MetadataRefreshed, TypeOK
<1>4. /\ jwks' \in Entry \cup {None} /\ jwksRefreshAllowedAfter' \in Nat
      /\ jwksFailure' \in [identity : Identity, retryAfter : Nat] \cup {None}
  BY DEF MetadataRefreshed, ForgetJwksUnless, TypeOK
<1>5. lastRequest' \in
        [ref : Ref, now : Nat, identity : Identity, remembered : BOOLEAN] \cup {None}
  <2>1. CASE lastRequest' = lastRequest
    BY <2>1 DEF TypeOK
  <2>2. CASE lastRequest # None /\ lastRequest' = [lastRequest EXCEPT !.remembered = FALSE]
    BY <2>2 DEF TypeOK
  <2> QED
    BY <2>1, <2>2 DEF MetadataRefreshed, ForgetJwksUnless
<1> QED
  BY <1>2, <1>3, <1>4, <1>5 DEF MetadataRefreshed, TypeOK, providerVars, MetadataRequest

LEMMA MetadataRefreshFailedType ==
  ASSUME TypeOK, NEW error \in {"provider_unavailable", "metadata_rejected"},
         MetadataRefreshFailed(error)
  PROVE  TypeOK'
<1>1. call' \in [Op -> Call]
  BY AfterMetadataFailureType DEF MetadataRefreshFailed, TypeOK
<1>2. metadataFailure' \in
        [error : {"provider_unavailable", "metadata_rejected"}, retryAfter : Nat]
  <2>1. metadataRefresh \in MetadataRequest
    BY DEF MetadataRefreshFailed, MetadataPending, TypeOK
  <2>2. metadataRefresh.startedAt + FailureBackoff \in Nat
    BY <2>1, TimeAssumption DEF MetadataRequest
  <2> QED
    BY <2>2 DEF MetadataRefreshFailed
<1> QED
  BY <1>1, <1>2
     DEF MetadataRefreshFailed, MetadataPending, TypeOK, providerVars, jwksVars,
         MetadataRequest

LEMMA JwksRefreshedType ==
  ASSUME TypeOK, NEW r \in Ref, fetches[r] # None,
         NEW e \in Published(fetches[r].startedAt), NEW control \in CacheControl,
         JwksRefreshed(r, e, control)
  PROVE  TypeOK'
<1> DEFINE answer == JwksAnswer(r, e, control)
<1>1. answer \in Document
  BY JwksAnswerType
<1>2. Retained(answer) \in Entry \cup {None}
  BY <1>1, RetainedType
<1>3. RefreshAllowedAfter(answer) \in Nat
  BY <1>1, TimeAssumption DEF RefreshAllowedAfter, Document
<1>4. /\ jwks' \in Entry \cup {None} /\ jwksRefreshAllowedAfter' \in Nat
      /\ jwksFailure' \in [identity : Identity, retryAfter : Nat] \cup {None}
  BY <1>2, <1>3 DEF JwksRefreshed, TypeOK
<1>5. call' \in [Op -> Call]
  BY <1>1, CallUpdates DEF JwksRefreshed, TypeOK
<1>6. jwksRefresh' \in Ref \cup {None}
  BY DEF JwksRefreshed, SlotAfter, TypeOK
<1> QED
  BY <1>4, <1>5, <1>6
     DEF JwksRefreshed, TypeOK, providerVars, metadataVars, historyVars, JwksRequest

LEMMA JwksRefreshFailedType ==
  ASSUME TypeOK, NEW r \in Ref, JwksRefreshFailed(r)
  PROVE  TypeOK'
<1>1. call' \in [Op -> Call]
  BY AfterJwksFailureType DEF JwksRefreshFailed, TypeOK
<1>2. r[1] \in Op /\ call[r[1]].now \in Nat
  BY DEF TypeOK, Ref, Call
<1>3. fetches[r].identity \in Identity /\ fetches[r].waiters \in Seq(Op)
  BY DEF JwksRefreshFailed, JwksPending, TypeOK, JwksRequest
<1>4. jwksFailure' \in [identity : Identity, retryAfter : Nat] \cup {None}
  <2>1. CASE InSlot(r)
    <3>1. jwksFailure' = [identity |-> fetches[r].identity,
                          retryAfter |-> call[r[1]].now + FailureBackoff]
      BY <2>1 DEF JwksRefreshFailed
    <3> QED
      BY <1>2, <1>3, <3>1, TimeAssumption
  <2>2. CASE ~InSlot(r)
    BY <2>2 DEF JwksRefreshFailed, TypeOK
  <2> QED
    BY <2>1, <2>2
<1>5. jwksRefresh' \in Ref \cup {None}
  BY DEF JwksRefreshFailed, SlotAfter, TypeOK
<1> QED
  BY <1>1, <1>3, <1>4, <1>5 DEF JwksRefreshFailed, TypeOK, providerVars, metadataVars

\* The queue is not empty when a call runs, so what is left is a queue.
LEMMA QueueType ==
  ASSUME TypeOK, NEW o \in Op, ready # <<>>
  PROVE  Tail(ready) \in Seq(Op) /\ Append(Tail(ready), o) \in Seq(Op)
  BY DEF TypeOK

LEMMA FinishType ==
  ASSUME TypeOK, NEW o \in Op, ready # <<>>,
         NEW outcome \in Outcome \cup {None},
         Finish(o, outcome), UNCHANGED <<providerVars, metadataVars, dropped>>
  PROVE  TypeOK'
<1>1. Done(call[o], outcome) \in Call
  BY CallUpdates DEF TypeOK
<1> QED
  BY <1>1, QueueType
     DEF Finish, TypeOK, providerVars, metadataVars, jwksVars, historyVars

LEMMA RemoteJwksType ==
  ASSUME TypeOK, jwksRefresh # None => fetches[jwksRefresh] # None,
         NEW o \in Op, ready # <<>>, call[o].meta \in Document,
         RemoteJwks(o, call[o]), UNCHANGED <<providerVars, metadataVars, dropped>>
  PROVE  TypeOK'
<1> DEFINE c == call[o]
<1>1. c \in Call
  BY DEF TypeOK
<1>2. CASE CacheAnswers(c) /\ Resume(o, WithJwks(c, jwks.value))
  <2>1. WithJwks(c, jwks.value) \in Call
    BY <1>1, <1>2, CallUpdates DEF CacheAnswers, Fresh, Entry, TypeOK
  <2> QED
    BY <1>2, <2>1, QueueType
       DEF Resume, TypeOK, providerVars, metadataVars, jwksVars, historyVars
<1>3. CASE Resume(o, AfterJwksFailure([c EXCEPT !.resolved = jwks]))
  <2>1. [c EXCEPT !.resolved = jwks] \in Call
    BY <1>1 DEF Call, TypeOK
  <2>2. AfterJwksFailure([c EXCEPT !.resolved = jwks]) \in Call
    BY <2>1, AfterJwksFailureType
  <2> QED
    BY <1>3, <2>2, QueueType
       DEF Resume, TypeOK, providerVars, metadataVars, jwksVars, historyVars
<1>4. CASE AwaitJwks(o, c)
  <2> DEFINE reason == IF ForMissingKey(c) THEN "missing_key" ELSE "lookup"
             identity == c.meta.identity
             r == IF Joinable(identity) THEN jwksRefresh ELSE <<o, reason>>
  <2>1. r \in Ref /\ identity \in Identity
    BY DEF Joinable, Ref, TypeOK, Document
  <2>2. [c EXCEPT !.pc = reason, !.resolved = jwks] \in Call
    <3>1. reason \in Running
      BY DEF Running, Awaits, Resumed
    <3>2. jwks \in Entry \cup {None}
      BY DEF TypeOK
    <3> HIDE DEF c, reason
    <3> QED
      BY <1>1, <3>1, <3>2 DEF Call
  <2>3. call' \in [Op -> Call]
    BY <1>4, <2>2 DEF AwaitJwks, TypeOK
  <2>4. fetches' \in [Ref -> JwksRequest \cup {None}]
    <3>1. CASE Joinable(identity)
      <4>1. fetches[r] \in JwksRequest
        BY <1>4, <2>1, <3>1 DEF AwaitJwks, TypeOK, Joinable
      <4>2. Append(fetches[r].waiters, o) \in Seq(Op)
        BY <4>1 DEF JwksRequest
      <4>3. fetches' = [fetches EXCEPT ![r].waiters = Append(fetches[r].waiters, o)]
        BY <1>4, <2>1, <3>1, <4>1 DEF AwaitJwks, TypeOK
      <4> QED
        BY <2>1, <4>1, <4>2, <4>3 DEF TypeOK, JwksRequest
    <3>2. CASE ~Joinable(identity)
      BY <1>4, <2>1, <3>2 DEF AwaitJwks, TypeOK, JwksRequest
    <3> QED
      BY <3>1, <3>2
  <2>5. lastRequest' \in
          [ref : Ref, now : Nat, identity : Identity, remembered : BOOLEAN] \cup {None}
    <3>1. CASE Joinable(identity)
      BY <1>4, <3>1 DEF AwaitJwks, TypeOK
    <3>2. CASE ~Joinable(identity)
      <4>1. lastRequest' = [ref |-> r, now |-> c.now, identity |-> identity, remembered |-> TRUE]
        BY <1>4, <2>1, <3>2 DEF AwaitJwks
      <4> QED
        BY <1>1, <2>1, <4>1 DEF Call
    <3> QED
      BY <3>1, <3>2
  <2> QED
    BY <1>4, <2>1, <2>3, <2>4, <2>5, QueueType
       DEF AwaitJwks, TypeOK, providerVars, metadataVars
<1> QED
  BY <1>2, <1>3, <1>4 DEF RemoteJwks

-----------------------------------------------------------------------------
(* The bookkeeping of the event loop: what each suspended call holds, and   *)
(* that a call is in the list of at most one pending request, whose kind    *)
(* its own progress names.  Type correctness rests on it, because a call is *)
(* only well typed with the metadata it has been given.                     *)

SlotPending == jwksRefresh # None => fetches[jwksRefresh] # None

HoldsMetadata == {"admit", "lookup", "missing_key", "verify", "refresh_failed", "recheck"}

DocumentsHeld ==
  \A o \in Op :
    /\ call[o].pc # "idle" => call[o].token \in Token
    /\ call[o].pc = "idle" => call[o].meta = None
    /\ call[o].pc \in {"idle", "metadata"} => call[o].doc = None
    /\ call[o].pc \in HoldsMetadata => call[o].meta # None

MetadataWaiters ==
  metadataRefresh # None =>
    \A o \in Waiting(metadataRefresh.waiters) : call[o].pc = "metadata"

JwksWaiters ==
  /\ \A r \in Ref : fetches[r] # None =>
       \A o \in Waiting(fetches[r].waiters) : call[o].pc \in {"lookup", "missing_key"}
  /\ \A r, s \in Ref : fetches[r] # None /\ fetches[s] # None /\ r # s =>
       Waiting(fetches[r].waiters) \cap Waiting(fetches[s].waiters) = {}

Bookkeeping == SlotPending /\ DocumentsHeld /\ MetadataWaiters /\ JwksWaiters

\* The inductive invariant behind type correctness.
Shape == TypeOK /\ Bookkeeping

\* A queue's members after one more call joins it, and those of a new queue.
LEMMA WaitingFacts ==
  ASSUME NEW q \in Seq(Op), NEW o \in Op
  PROVE  /\ Waiting(q) \subseteq Op
         /\ Waiting(Append(q, o)) = Waiting(q) \cup {o}
         /\ Waiting(<<o>>) = {o}
<1>1. Waiting(q) \subseteq Op
  BY DEF Waiting
<1>2. Waiting(<<o>>) = {o}
  BY DEF Waiting
<1>3. Waiting(Append(q, o)) \subseteq Waiting(q) \cup {o}
  BY DEF Waiting
<1>4. Waiting(q) \subseteq Waiting(Append(q, o))
  <2>1. ASSUME NEW i \in DOMAIN q
        PROVE  i \in DOMAIN Append(q, o) /\ Append(q, o)[i] = q[i]
    OBVIOUS
  <2> QED
    BY <2>1 DEF Waiting
<1>5. o \in Waiting(Append(q, o))
  <2>1. Len(q) + 1 \in DOMAIN Append(q, o) /\ Append(q, o)[Len(q) + 1] = o
    OBVIOUS
  <2> QED
    BY <2>1 DEF Waiting
<1> QED
  BY <1>1, <1>2, <1>3, <1>4, <1>5

LEMMA WaitersAreCalls ==
  ASSUME TypeOK
  PROVE  /\ metadataRefresh # None => Waiting(metadataRefresh.waiters) \subseteq Op
         /\ \A r \in Ref : fetches[r] # None => Waiting(fetches[r].waiters) \subseteq Op
<1>1. \A q \in Seq(Op) : Waiting(q) \subseteq Op
  BY DEF Waiting
<1> QED
  BY <1>1 DEF TypeOK, MetadataRequest, JwksRequest

\* A step of one call that waits for nothing, before and after.
LEMMA LocalStep ==
  ASSUME Shape, NEW o \in Op, NEW c \in Call,
         call[o].pc \notin {"metadata", "lookup", "missing_key"},
         c.pc \notin {"idle", "metadata"}, c.token \in Token,
         c.pc \in HoldsMetadata => c.meta # None,
         call' = [call EXCEPT ![o] = c],
         UNCHANGED <<metadataRefresh, fetches, jwksRefresh>>
  PROVE  Bookkeeping'
<1>1. SlotPending'
  BY DEF Shape, Bookkeeping, SlotPending
<1>2. DocumentsHeld'
  BY DEF Shape, TypeOK, Bookkeeping, DocumentsHeld
<1>3. MetadataWaiters'
  <2>1. SUFFICES ASSUME metadataRefresh # None,
                        NEW p \in Waiting(metadataRefresh.waiters)
                 PROVE  call'[p].pc = "metadata"
    BY DEF MetadataWaiters
  <2>2. call[p].pc = "metadata" /\ p \in Op
    BY <2>1, WaitingFacts DEF Shape, TypeOK, MetadataRequest, Bookkeeping, MetadataWaiters
  <2> QED
    BY <2>2 DEF Shape, TypeOK
<1>4. JwksWaiters'
  <2>1. SUFFICES ASSUME NEW r \in Ref, fetches[r] # None,
                        NEW p \in Waiting(fetches[r].waiters)
                 PROVE  call'[p].pc \in {"lookup", "missing_key"}
    BY DEF Shape, Bookkeeping, JwksWaiters
  <2>2. call[p].pc \in {"lookup", "missing_key"} /\ p \in Op
    BY <2>1, WaitingFacts DEF Shape, TypeOK, JwksRequest, Bookkeeping, JwksWaiters
  <2> QED
    BY <2>2 DEF Shape, TypeOK
<1> QED
  BY <1>1, <1>2, <1>3, <1>4 DEF Bookkeeping

LEMMA StartBookkeeping ==
  ASSUME Shape, NEW o \in Op, NEW token \in Token, Start(o, token)
  PROVE  Bookkeeping'
<1> DEFINE c == [call[o] EXCEPT !.now = clock, !.token = token]
<1>1. /\ c \in Call /\ c.token = token /\ c.meta = call[o].meta /\ c.doc = call[o].doc
      /\ call[o].pc = "idle"
  <2>1. call[o] \in Call /\ clock \in Nat
    BY DEF Shape, TypeOK
  <2>2. call[o].pc = "idle"
    BY DEF Start
  <2>3. c \in Call
    <3>1. c = [call[o] EXCEPT !.now = clock, !.token = token]
      OBVIOUS
    <3> HIDE DEF c
    <3> QED
      BY <2>1, <3>1, CallBegins
  <2>4. c.token = token /\ c.meta = call[o].meta /\ c.doc = call[o].doc
    BY <2>1 DEF Call
  <2> QED
    BY <2>2, <2>3, <2>4
<1>2. UNCHANGED <<fetches, jwksRefresh>>
  BY DEF Start, jwksVars
<1>3. CASE Fresh(metadata, c.now) /\ Continue(o, WithMetadata(c, metadata.value))
  <2> DEFINE d == WithMetadata(c, metadata.value)
  <2>1. metadata.value \in Document
    BY <1>3 DEF Shape, TypeOK, Fresh, Entry
  <2>2. d \in Call /\ d.pc = "admit" /\ d.meta # None /\ d.token = token
    <3> HIDE DEF c
    <3> QED
      BY <1>1, <2>1, CallUpdates, UpdatedFields, UpdatedAnswer, NoneAssumption
  <2> HIDE DEF d
  <2> QED
    BY <1>1, <1>2, <1>3, <2>2, LocalStep DEF Continue, d
<1>4. CASE BackingOff(c.now) /\ Continue(o, AfterMetadataFailure(c, metadataFailure.error))
  <2> DEFINE d == AfterMetadataFailure(c, metadataFailure.error)
  <2>1. d \in Call
    BY <1>1, <1>4, AfterMetadataFailureType DEF Shape, TypeOK, BackingOff
  <2>2. d.token = token /\ (d.pc = "failed" \/ (d.pc = "admit" /\ d.meta # None))
    <3> HIDE DEF c
    <3>1. CASE UsableWhenStale(metadata, c.now)
      <4>1. metadata.value \in Document
        BY <3>1 DEF UsableWhenStale, Shape, TypeOK, Entry
      <4> QED
        BY <1>1, <4>1, UpdatedFields, UpdatedAnswer, NoneAssumption DEF AfterMetadataFailure
    <3>2. CASE ~UsableWhenStale(metadata, c.now)
      BY <1>1, <3>2, UpdatedFields, UpdatedAnswer DEF AfterMetadataFailure
    <3> QED
      BY <3>1, <3>2
  <2> HIDE DEF d
  <2>3. call' = [call EXCEPT ![o] = d] /\ UNCHANGED metadataRefresh
    BY <1>4 DEF Continue, d
  <2> QED
    BY <1>1, <1>2, <2>1, <2>2, <2>3, LocalStep DEF HoldsMetadata
<1>5. CASE AwaitMetadata(o, c)
  <2>1. call' = [call EXCEPT ![o] = [c EXCEPT !.pc = "metadata"]]
    BY <1>5 DEF AwaitMetadata
  <2>2. SlotPending'
    BY <1>2 DEF Shape, Bookkeeping, SlotPending
  <2>3. DocumentsHeld'
    BY <1>1, <2>1 DEF Shape, TypeOK, Call, Bookkeeping, DocumentsHeld, HoldsMetadata
  <2>4. \A p \in Waiting(metadataRefresh'.waiters) :
          p = o \/ (metadataRefresh # None /\ p \in Waiting(metadataRefresh.waiters))
    <3>1. CASE metadataRefresh = None
      <4>1. metadataRefresh'.waiters = <<o>>
        BY <1>5, <3>1 DEF AwaitMetadata
      <4>2. Waiting(<<o>>) = {o}
        BY EmptySeq, WaitingFacts
      <4> QED
        BY <4>1, <4>2
    <3>2. CASE metadataRefresh # None
      <4>1. metadataRefresh \in MetadataRequest
        BY <3>2 DEF Shape, TypeOK
      <4>2. metadataRefresh'.waiters = Append(metadataRefresh.waiters, o)
        BY <1>5, <3>2, <4>1 DEF AwaitMetadata, MetadataRequest
      <4>3. Waiting(Append(metadataRefresh.waiters, o)) =
              Waiting(metadataRefresh.waiters) \cup {o}
        BY <4>1, WaitingFacts DEF MetadataRequest
      <4> QED
        BY <3>2, <4>2, <4>3
    <3> QED
      BY <3>1, <3>2
  <2>5. MetadataWaiters'
    BY <1>1, <2>1, <2>4, WaitingFacts
       DEF Shape, TypeOK, MetadataRequest, Call, Bookkeeping, MetadataWaiters
  <2>6. JwksWaiters'
    <3>1. SUFFICES ASSUME NEW r \in Ref, fetches[r] # None,
                          NEW p \in Waiting(fetches[r].waiters)
                   PROVE  call'[p].pc \in {"lookup", "missing_key"}
      BY <1>2 DEF Shape, Bookkeeping, JwksWaiters
    <3>2. call[p].pc \in {"lookup", "missing_key"} /\ p \in Op
      BY <3>1, WaitingFacts DEF Shape, TypeOK, JwksRequest, Bookkeeping, JwksWaiters
    <3> QED
      BY <1>1, <2>1, <3>2 DEF Shape, TypeOK
  <2> QED
    BY <2>2, <2>3, <2>5, <2>6 DEF Bookkeeping
<1> QED
  BY <1>3, <1>4, <1>5 DEF Start

\* The end of a Provider Configuration request resumes its waiters: no other
\* call moves, and none of the waiters awaits a JWK Set.
LEMMA MetadataSettledBookkeeping ==
  ASSUME Shape, metadataRefresh # None, metadataRefresh' = None,
         call' \in [Op -> Call], UNCHANGED <<fetches, jwksRefresh>>,
         \A o \in Op \ Waiting(metadataRefresh.waiters) : call'[o] = call[o],
         \A o \in Waiting(metadataRefresh.waiters) :
           /\ call'[o].token = call[o].token
           /\ \/ call'[o].pc = "failed"
              \/ call'[o].pc = "admit" /\ call'[o].meta # None
  PROVE  Bookkeeping'
<1>1. \A o \in Waiting(metadataRefresh.waiters) : o \in Op /\ call[o].pc = "metadata"
  BY WaitersAreCalls DEF Shape, TypeOK, MetadataRequest, Bookkeeping, MetadataWaiters
<1>2. SlotPending' /\ MetadataWaiters'
  BY DEF Shape, Bookkeeping, SlotPending, MetadataWaiters
<1>3. DocumentsHeld'
  <2>1. SUFFICES ASSUME NEW o \in Op
        PROVE  /\ call'[o].pc # "idle" => call'[o].token \in Token
               /\ call'[o].pc = "idle" => call'[o].meta = None
               /\ call'[o].pc \in {"idle", "metadata"} => call'[o].doc = None
               /\ call'[o].pc \in HoldsMetadata => call'[o].meta # None
    BY DEF DocumentsHeld
  <2>2. CASE o \in Waiting(metadataRefresh.waiters)
    BY <1>1, <2>2 DEF HoldsMetadata, Shape, Bookkeeping, DocumentsHeld
  <2>3. CASE o \notin Waiting(metadataRefresh.waiters)
    BY <2>3 DEF Shape, Bookkeeping, DocumentsHeld
  <2> QED
    BY <2>2, <2>3
<1>4. JwksWaiters'
  <2>1. SUFFICES ASSUME NEW r \in Ref, fetches[r] # None,
                        NEW p \in Waiting(fetches[r].waiters)
                 PROVE  call'[p].pc \in {"lookup", "missing_key"}
    BY DEF Shape, Bookkeeping, JwksWaiters
  <2>2. call[p].pc \in {"lookup", "missing_key"} /\ p \in Op
    BY <2>1, WaitersAreCalls DEF Shape, TypeOK, JwksRequest, Bookkeeping, JwksWaiters
  <2> QED
    BY <1>1, <2>2
<1> QED
  BY <1>2, <1>3, <1>4 DEF Bookkeeping

LEMMA MetadataRefreshedBookkeeping ==
  ASSUME Shape, metadataRefresh # None,
         NEW e \in Published(metadataRefresh.startedAt), NEW control \in CacheControl,
         MetadataRefreshed(e, control)
  PROVE  Bookkeeping'
<1> DEFINE answer == MetadataAnswer(e, control)
<1>1. answer \in Document
  BY MetadataAnswerType DEF Shape
<1>2. call' \in [Op -> Call]
  BY MetadataRefreshedType DEF Shape, TypeOK
<1>3. \A o \in Op \ Waiting(metadataRefresh.waiters) : call'[o] = call[o]
  BY DEF MetadataRefreshed
<1>4. ASSUME NEW o \in Waiting(metadataRefresh.waiters)
      PROVE  /\ call'[o].token = call[o].token
             /\ call'[o].pc = "admit" /\ call'[o].meta # None
  <2>1. o \in Op
    BY WaitersAreCalls DEF Shape, TypeOK, MetadataRequest
  <2>2. call'[o] = WithMetadata(call[o], answer) /\ call[o] \in Call
    BY <2>1 DEF MetadataRefreshed, Shape, TypeOK
  <2> QED
    BY <1>1, <2>2, UpdatedFields, UpdatedAnswer, NoneAssumption
<1>5. metadataRefresh' = None /\ UNCHANGED <<fetches, jwksRefresh>>
  BY DEF MetadataRefreshed
<1> QED
  BY <1>2, <1>3, <1>4, <1>5, MetadataSettledBookkeeping

LEMMA MetadataRefreshFailedBookkeeping ==
  ASSUME Shape, NEW error \in {"provider_unavailable", "metadata_rejected"},
         MetadataRefreshFailed(error)
  PROVE  Bookkeeping'
<1>1. call' \in [Op -> Call]
  BY MetadataRefreshFailedType DEF Shape, TypeOK
<1>2. \A o \in Op \ Waiting(metadataRefresh.waiters) : call'[o] = call[o]
  BY DEF MetadataRefreshFailed
<1>3. ASSUME NEW o \in Waiting(metadataRefresh.waiters)
      PROVE  /\ call'[o].token = call[o].token
             /\ \/ call'[o].pc = "failed"
                \/ call'[o].pc = "admit" /\ call'[o].meta # None
  <2>1. o \in Op
    BY WaitersAreCalls DEF Shape, TypeOK, MetadataRequest, MetadataRefreshFailed, MetadataPending
  <2>2. call'[o] = AfterMetadataFailure(call[o], error) /\ call[o] \in Call
    BY <2>1 DEF MetadataRefreshFailed, Shape, TypeOK
  <2>3. CASE UsableWhenStale(metadata, call[o].now)
    <3>1. metadata.value \in Document
      BY <2>3 DEF UsableWhenStale, Shape, TypeOK, Entry
    <3> QED
      BY <2>2, <3>1, UpdatedFields, UpdatedAnswer, NoneAssumption DEF AfterMetadataFailure
  <2>4. CASE ~UsableWhenStale(metadata, call[o].now)
    BY <2>2, <2>4, UpdatedFields, UpdatedAnswer DEF AfterMetadataFailure
  <2> QED
    BY <2>3, <2>4
<1>4. /\ metadataRefresh # None /\ metadataRefresh' = None
      /\ UNCHANGED <<fetches, jwksRefresh>>
  BY DEF MetadataRefreshFailed, MetadataPending, jwksVars
<1> QED
  BY <1>1, <1>2, <1>3, <1>4, MetadataSettledBookkeeping

\* The end of a JWK Set request resumes its waiters, and no other request's.
LEMMA JwksSettledBookkeeping ==
  ASSUME Shape, NEW r \in Ref, fetches[r] # None,
         fetches' = [fetches EXCEPT ![r] = None], jwksRefresh' = SlotAfter(r),
         UNCHANGED metadataRefresh, call' \in [Op -> Call],
         \A o \in Op \ Waiting(fetches[r].waiters) : call'[o] = call[o],
         \A o \in Waiting(fetches[r].waiters) :
           /\ call'[o].pc \in {"failed", "refresh_failed", "verify", "recheck"}
           /\ call'[o].meta = call[o].meta /\ call'[o].token = call[o].token
  PROVE  Bookkeeping'
<1>1. \A s \in Ref : fetches'[s] # None => s # r /\ fetches[s] # None /\ fetches'[s] = fetches[s]
  BY DEF Shape, TypeOK
<1>2. \A o \in Waiting(fetches[r].waiters) :
        o \in Op /\ call[o].pc \in {"lookup", "missing_key"}
  BY WaitersAreCalls DEF Shape, TypeOK, JwksRequest, Bookkeeping, JwksWaiters
<1>3. SlotPending'
  BY DEF SlotAfter, InSlot, Shape, TypeOK, Bookkeeping, SlotPending
<1>4. DocumentsHeld'
  <2>1. SUFFICES ASSUME NEW o \in Op
        PROVE  /\ call'[o].pc # "idle" => call'[o].token \in Token
               /\ call'[o].pc = "idle" => call'[o].meta = None
               /\ call'[o].pc \in {"idle", "metadata"} => call'[o].doc = None
               /\ call'[o].pc \in HoldsMetadata => call'[o].meta # None
    BY DEF DocumentsHeld
  <2>2. CASE o \in Waiting(fetches[r].waiters)
    BY <1>2, <2>2 DEF Shape, Bookkeeping, DocumentsHeld, HoldsMetadata
  <2>3. CASE o \notin Waiting(fetches[r].waiters)
    BY <2>3 DEF Shape, Bookkeeping, DocumentsHeld
  <2> QED
    BY <2>2, <2>3
<1>5. MetadataWaiters'
  <2>1. SUFFICES ASSUME metadataRefresh # None,
                        NEW p \in Waiting(metadataRefresh.waiters)
                 PROVE  call'[p].pc = "metadata"
    BY DEF MetadataWaiters
  <2>2. call[p].pc = "metadata" /\ p \in Op
    BY <2>1, WaitersAreCalls DEF Shape, TypeOK, MetadataRequest, Bookkeeping, MetadataWaiters
  <2> QED
    BY <1>2, <2>2
<1>6. JwksWaiters'
  <2>1. ASSUME NEW s \in Ref, fetches'[s] # None, NEW p \in Waiting(fetches'[s].waiters)
        PROVE  call'[p].pc \in {"lookup", "missing_key"}
    <3>1. s # r /\ fetches[s] # None /\ p \in Waiting(fetches[s].waiters)
      BY <1>1, <2>1
    <3>2. p \notin Waiting(fetches[r].waiters)
      BY <3>1 DEF Shape, Bookkeeping, JwksWaiters
    <3>3. call[p].pc \in {"lookup", "missing_key"} /\ p \in Op
      BY <3>1, WaitersAreCalls DEF Shape, TypeOK, JwksRequest, Bookkeeping, JwksWaiters
    <3> QED
      BY <3>2, <3>3
  <2>2. ASSUME NEW s \in Ref, NEW t \in Ref, fetches'[s] # None, fetches'[t] # None, s # t
        PROVE  Waiting(fetches'[s].waiters) \cap Waiting(fetches'[t].waiters) = {}
    BY <1>1, <2>2 DEF Shape, Bookkeeping, JwksWaiters
  <2> QED
    BY <2>1, <2>2 DEF JwksWaiters
<1> QED
  BY <1>3, <1>4, <1>5, <1>6 DEF Bookkeeping

LEMMA JwksRefreshedBookkeeping ==
  ASSUME Shape, NEW r \in Ref, fetches[r] # None,
         NEW e \in Published(fetches[r].startedAt), NEW control \in CacheControl,
         JwksRefreshed(r, e, control)
  PROVE  Bookkeeping'
<1>1. call' \in [Op -> Call]
  BY JwksRefreshedType DEF Shape, TypeOK
<1>2. \A o \in Op \ Waiting(fetches[r].waiters) : call'[o] = call[o]
  BY DEF JwksRefreshed
<1>3. ASSUME NEW o \in Waiting(fetches[r].waiters)
      PROVE  /\ call'[o].pc \in {"failed", "refresh_failed", "verify", "recheck"}
             /\ call'[o].meta = call[o].meta /\ call'[o].token = call[o].token
  <2>1. o \in Op
    BY WaitersAreCalls DEF Shape, TypeOK, JwksRequest
  <2>2. call'[o] = WithJwks(call[o], JwksAnswer(r, e, control)) /\ call[o] \in Call
    BY <2>1 DEF JwksRefreshed, Shape, TypeOK
  <2> QED
    BY <2>2, UpdatedFields, UpdatedAnswer
<1>4. /\ fetches' = [fetches EXCEPT ![r] = None] /\ jwksRefresh' = SlotAfter(r)
      /\ UNCHANGED metadataRefresh
  BY DEF JwksRefreshed, metadataVars
<1> QED
  BY <1>1, <1>2, <1>3, <1>4, JwksSettledBookkeeping

LEMMA JwksRefreshFailedBookkeeping ==
  ASSUME Shape, NEW r \in Ref, JwksRefreshFailed(r)
  PROVE  Bookkeeping'
<1>1. call' \in [Op -> Call]
  BY JwksRefreshFailedType DEF Shape, TypeOK
<1>2. \A o \in Op \ Waiting(fetches[r].waiters) : call'[o] = call[o]
  BY DEF JwksRefreshFailed
<1>3. ASSUME NEW o \in Waiting(fetches[r].waiters)
      PROVE  /\ call'[o].pc \in {"failed", "refresh_failed", "verify", "recheck"}
             /\ call'[o].meta = call[o].meta /\ call'[o].token = call[o].token
  <2>1. o \in Op
    BY WaitersAreCalls DEF Shape, TypeOK, JwksRequest, JwksRefreshFailed, JwksPending
  <2>2. call'[o] = AfterJwksFailure(call[o]) /\ call[o] \in Call
    BY <2>1 DEF JwksRefreshFailed, Shape, TypeOK
  <2> QED
    BY <2>2, UpdatedFields, UpdatedAnswer DEF AfterJwksFailure
<1>4. /\ fetches[r] # None
      /\ fetches' = [fetches EXCEPT ![r] = None] /\ jwksRefresh' = SlotAfter(r)
      /\ UNCHANGED metadataRefresh
  BY DEF JwksRefreshFailed, JwksPending, metadataVars
<1> QED
  BY <1>1, <1>2, <1>3, <1>4, JwksSettledBookkeeping

LEMMA FinishBookkeeping ==
  ASSUME Shape, NEW o \in Op, call[o].pc \notin {"metadata", "lookup", "missing_key"},
         call[o].token \in Token, NEW outcome \in Outcome \cup {None},
         Finish(o, outcome), UNCHANGED <<providerVars, metadataVars, dropped>>
  PROVE  Bookkeeping'
<1> DEFINE d == Done(call[o], outcome)
<1>1. d \in Call /\ d.pc = "done" /\ d.token \in Token
  <2>1. call[o] \in Call
    BY DEF Shape, TypeOK
  <2>2. d \in Call
    BY <2>1, CallUpdates
  <2> QED
    BY <2>1, <2>2 DEF Done, Call
<1>2. call' = [call EXCEPT ![o] = d] /\ UNCHANGED <<metadataRefresh, fetches, jwksRefresh>>
  BY DEF Finish, metadataVars, jwksVars, Shape, TypeOK
<1> HIDE DEF d
<1> QED
  BY <1>1, <1>2, LocalStep DEF HoldsMetadata

LEMMA AwaitJwksBookkeeping ==
  ASSUME Shape, NEW o \in Op, call[o].pc \in {"admit", "verify"}, call[o].meta # None,
         AwaitJwks(o, call[o]), UNCHANGED <<providerVars, metadataVars, dropped>>
  PROVE  Bookkeeping'
<1> DEFINE c == call[o]
           reason == IF ForMissingKey(c) THEN "missing_key" ELSE "lookup"
           identity == c.meta.identity
           r == IF Joinable(identity) THEN jwksRefresh ELSE <<o, reason>>
           d == [c EXCEPT !.pc = reason, !.resolved = jwks]
<1>1. /\ c \in Call /\ reason \in {"lookup", "missing_key"} /\ d.pc = reason /\ d.meta = c.meta
      /\ d.token = c.token
  BY DEF Shape, TypeOK, Call
<1>2. call' = [call EXCEPT ![o] = d] /\ jwksRefresh' = r /\ UNCHANGED metadataRefresh
  BY DEF AwaitJwks, metadataVars
<1>3. r \in Ref
  BY DEF Joinable, Ref, Shape, TypeOK
<1>4. /\ fetches'[r] # None
      /\ \A p \in Waiting(fetches'[r].waiters) :
           p = o \/ (fetches[r] # None /\ p \in Waiting(fetches[r].waiters))
      /\ \A s \in Ref \ {r} : fetches'[s] = fetches[s]
  <2>1. CASE Joinable(identity)
    <3>1. fetches[r] \in JwksRequest /\ fetches[r] # None
      BY <1>3, <2>1 DEF Joinable, Shape, TypeOK, Bookkeeping, SlotPending
    <3>2. fetches' = [fetches EXCEPT ![r].waiters = Append(fetches[r].waiters, o)]
      BY <2>1, <1>3, <3>1 DEF AwaitJwks, Shape, TypeOK
    <3>3. /\ fetches'[r] \in JwksRequest
          /\ fetches'[r].waiters = Append(fetches[r].waiters, o)
      <4>1. fetches'[r] = [fetches[r] EXCEPT !.waiters = Append(fetches[r].waiters, o)]
        BY <1>3, <3>1, <3>2 DEF Shape, TypeOK, JwksRequest
      <4>2. Append(fetches[r].waiters, o) \in Seq(Op)
        BY <3>1 DEF JwksRequest
      <4> QED
        BY <3>1, <4>1, <4>2 DEF JwksRequest
    <3>4. Waiting(Append(fetches[r].waiters, o)) = Waiting(fetches[r].waiters) \cup {o}
      BY <3>1, WaitingFacts DEF JwksRequest
    <3>5. \A s \in Ref \ {r} : fetches'[s] = fetches[s]
      BY <1>3, <3>2 DEF Shape, TypeOK
    <3>6. fetches'[r] # None
      BY <3>3, NoneAssumption
    <3> HIDE DEF r
    <3> QED
      BY <3>1, <3>3, <3>4, <3>5, <3>6
  <2>2. CASE ~Joinable(identity)
    <3> DEFINE request == [identity |-> identity, startedAt |-> clock, waiters |-> <<o>>]
    <3>1. fetches' = [fetches EXCEPT ![r] = request]
      BY <2>2 DEF AwaitJwks
    <3>2. identity \in Identity /\ clock \in Nat
      BY <1>1 DEF Shape, TypeOK, Call, Document
    <3>3. request \in JwksRequest /\ request.waiters = <<o>>
      BY <3>2 DEF JwksRequest
    <3>4. Waiting(<<o>>) = {o}
      BY EmptySeq, WaitingFacts
    <3>5. fetches'[r] = request /\ \A s \in Ref \ {r} : fetches'[s] = fetches[s]
      BY <1>3, <3>1 DEF Shape, TypeOK
    <3>6. request # None
      BY <3>3, NoneAssumption
    <3> HIDE DEF r, request
    <3> QED
      BY <3>3, <3>4, <3>5, <3>6
  <2> QED
    BY <2>1, <2>2
<1> HIDE DEF r, d, reason
<1>5. SlotPending'
  BY <1>2, <1>4 DEF SlotPending
<1>6. DocumentsHeld'
  BY <1>1, <1>2 DEF Shape, TypeOK, Bookkeeping, DocumentsHeld, HoldsMetadata
<1>7. MetadataWaiters'
  <2>1. SUFFICES ASSUME metadataRefresh # None,
                        NEW p \in Waiting(metadataRefresh.waiters)
                 PROVE  call'[p].pc = "metadata"
    BY <1>2 DEF MetadataWaiters
  <2>2. call[p].pc = "metadata" /\ p \in Op
    BY <2>1, WaitersAreCalls DEF Shape, Bookkeeping, MetadataWaiters
  <2> QED
    BY <1>2, <2>2 DEF Shape, TypeOK
<1>8. \A s \in Ref : fetches[s] # None =>
        \A p \in Waiting(fetches[s].waiters) :
          p \in Op /\ p # o /\ call[p].pc \in {"lookup", "missing_key"}
  BY WaitersAreCalls DEF Shape, Bookkeeping, JwksWaiters
<1>9. JwksWaiters'
  <2>1. ASSUME NEW s \in Ref, fetches'[s] # None, NEW p \in Waiting(fetches'[s].waiters)
        PROVE  call'[p].pc \in {"lookup", "missing_key"}
    <3>1. CASE p = o
      BY <1>1, <1>2, <3>1 DEF Shape, TypeOK
    <3>2. CASE p # o
      BY <1>2, <1>4, <1>8, <2>1, <3>2 DEF Shape, TypeOK
    <3> QED
      BY <3>1, <3>2
  <2>2. ASSUME NEW s \in Ref, NEW t \in Ref, fetches'[s] # None, fetches'[t] # None, s # t,
               NEW p \in Waiting(fetches'[s].waiters) \cap Waiting(fetches'[t].waiters)
        PROVE  FALSE
    <3>1. p # o
      BY <1>4, <1>8, <2>2
    <3>2. /\ fetches[s] # None /\ p \in Waiting(fetches[s].waiters)
          /\ fetches[t] # None /\ p \in Waiting(fetches[t].waiters)
      BY <1>4, <2>2, <3>1
    <3> QED
      BY <2>2, <3>2 DEF Shape, Bookkeeping, JwksWaiters
  <2> QED
    BY <2>1, <2>2 DEF JwksWaiters
<1> QED
  BY <1>5, <1>6, <1>7, <1>9 DEF Bookkeeping

LEMMA RemoteJwksBookkeeping ==
  ASSUME Shape, NEW o \in Op, call[o].pc \in {"admit", "verify"}, call[o].meta # None,
         call[o].token \in Token,
         RemoteJwks(o, call[o]), UNCHANGED <<providerVars, metadataVars, dropped>>
  PROVE  Bookkeeping'
<1> DEFINE c == call[o]
<1>1. c \in Call
  BY DEF Shape, TypeOK
<1>2. ASSUME NEW d \in Call, Resume(o, d),
             d.pc \in {"failed", "refresh_failed", "verify", "recheck"}, d.meta = c.meta,
             d.token = c.token
      PROVE  Bookkeeping'
  <2>1. call' = [call EXCEPT ![o] = d] /\ UNCHANGED <<metadataRefresh, fetches, jwksRefresh>>
    BY <1>2 DEF Resume, metadataVars, jwksVars
  <2> QED
    BY <1>2, <2>1, LocalStep
<1>3. CASE CacheAnswers(c) /\ Resume(o, WithJwks(c, jwks.value))
  <2>1. WithJwks(c, jwks.value) \in Call
    BY <1>1, <1>3, CallUpdates DEF CacheAnswers, Fresh, Entry, Shape, TypeOK
  <2>2. /\ WithJwks(c, jwks.value).pc \in {"verify", "recheck"}
        /\ WithJwks(c, jwks.value).meta = c.meta
        /\ WithJwks(c, jwks.value).token = c.token
    BY <1>1, UpdatedFields, UpdatedAnswer
  <2> QED
    BY <1>2, <1>3, <2>1, <2>2
<1>4. CASE Resume(o, AfterJwksFailure([c EXCEPT !.resolved = jwks]))
  <2> DEFINE b == [c EXCEPT !.resolved = jwks]
  <2>1. b \in Call /\ b.meta = c.meta /\ b.token = c.token
    BY <1>1 DEF Call, Shape, TypeOK
  <2> HIDE DEF b
  <2>2. AfterJwksFailure(b) \in Call
    BY <2>1, AfterJwksFailureType
  <2>3. /\ AfterJwksFailure(b).pc \in {"failed", "refresh_failed", "verify", "recheck"}
        /\ AfterJwksFailure(b).meta = c.meta /\ AfterJwksFailure(b).token = c.token
    BY <2>1, UpdatedFields, UpdatedAnswer DEF AfterJwksFailure
  <2> QED
    BY <1>2, <1>4, <2>2, <2>3 DEF b
<1>5. CASE AwaitJwks(o, c)
  BY <1>5, AwaitJwksBookkeeping
<1> QED
  BY <1>3, <1>4, <1>5 DEF RemoteJwks

\* A dropped call leaves the queue with everything it held.
SameHoldings(c, d) ==
  /\ d.now = c.now /\ d.token = c.token /\ d.meta = c.meta /\ d.doc = c.doc
  /\ d.resolved = c.resolved /\ d.outcome = c.outcome

LEMMA Discarded ==
  ASSUME Shape, NEW o \in Op, Discard(o)
  PROVE  /\ call[o].pc \in Resumed /\ ready # <<>> /\ o = Head(ready) /\ ready' = Tail(ready)
         /\ UNCHANGED <<providerVars, metadataVars, jwksVars, dropped, historyVars>>
         /\ \E d \in Call : /\ call' = [call EXCEPT ![o] = d]
                            /\ d.pc = "dropped" /\ SameHoldings(call[o], d)
<1> DEFINE d == [call[o] EXCEPT !.pc = "dropped"]
<1>1. call[o] \in Call
  BY DEF Shape, TypeOK
<1>2. d \in Call /\ d.pc = "dropped" /\ SameHoldings(call[o], d)
  BY <1>1 DEF Call, SameHoldings
<1>3. call' = [call EXCEPT ![o] = d]
  BY DEF Discard
<1> HIDE DEF d
<1> QED
  BY <1>2, <1>3 DEF Discard

LEMMA DiscardShape ==
  ASSUME Shape, NEW o \in Op, Discard(o)
  PROVE  Shape'
<1>1. /\ call[o].pc \notin Awaits /\ call[o].token \in Token
      /\ ready # <<>> /\ ready' = Tail(ready)
      /\ UNCHANGED <<providerVars, metadataVars, jwksVars, dropped, historyVars>>
  BY Discarded DEF Resumed, Awaits, Shape, Bookkeeping, DocumentsHeld
<1>2. PICK d \in Call : /\ call' = [call EXCEPT ![o] = d]
                        /\ d.pc = "dropped" /\ SameHoldings(call[o], d)
  BY Discarded
<1>3. d.token \in Token
  BY <1>1, <1>2 DEF SameHoldings
<1>4. TypeOK'
  BY <1>1, <1>2, QueueType
     DEF Shape, TypeOK, providerVars, metadataVars, jwksVars, historyVars
<1>5. Bookkeeping'
  BY <1>1, <1>2, <1>3, LocalStep DEF Awaits, HoldsMetadata, metadataVars, jwksVars
<1> QED
  BY <1>4, <1>5 DEF Shape

\* A call that runs is at the head of a queue that is not empty, and holds
\* the metadata its step needs.
LEMMA RunShape ==
  ASSUME Shape, NEW o \in Op, Run(o)
  PROVE  Shape'
<1>1. ready # <<>> /\ call[o].pc \in Resumed
  BY DEF Run, Admit, Verify, Recheck, RefreshForMissingKeyFailed, Classify, Discard,
         Resumed, Runs
<1>0. call[o].token \in Token /\ call[o].pc \notin {"metadata", "lookup", "missing_key"}
  BY <1>1 DEF Resumed, Shape, Bookkeeping, DocumentsHeld
<1>2. UNCHANGED <<providerVars, metadataVars, dropped>>
  BY DEF Run, Admit, Verify, Recheck, RefreshForMissingKeyFailed, Classify, Discard
<1>3. ASSUME NEW outcome \in Outcome \cup {None},
             Finish(o, outcome)
      PROVE  Shape'
  BY <1>0, <1>1, <1>2, <1>3, FinishType, FinishBookkeeping DEF Shape
<1>4. ASSUME RemoteJwks(o, call[o]), call[o].pc \in {"admit", "verify"}
      PROVE  Shape'
  <2>1. call[o].meta # None /\ call[o].meta \in Document
    BY <1>4 DEF Shape, TypeOK, Call, Bookkeeping, DocumentsHeld, HoldsMetadata
  <2>2. TypeOK'
    BY <1>1, <1>2, <1>4, <2>1, RemoteJwksType DEF Shape, Bookkeeping, SlotPending
  <2>3. Bookkeeping'
    BY <1>0, <1>2, <1>4, <2>1, RemoteJwksBookkeeping
  <2> QED
    BY <2>2, <2>3 DEF Shape
<1>5. Verdict(call[o].token) \in Outcome \cup {None}
  BY <1>0, TokenAssumption DEF Verdict, Verdicts, Outcome, Rejection
<1>6. call[o].outcome \in Outcome \cup {None}
  BY DEF Shape, TypeOK, Call
<1>7. CASE Admit(o)
  BY <1>3, <1>4, <1>7 DEF Admit, Runs, Outcome, Rejection
<1>8. CASE Verify(o)
  BY <1>3, <1>4, <1>5, <1>8 DEF Verify, Runs
<1>9. CASE Recheck(o)
  BY <1>3, <1>5, <1>9 DEF Recheck, Outcome, Rejection
<1>10. CASE RefreshForMissingKeyFailed(o)
  BY <1>3, <1>6, <1>10 DEF RefreshForMissingKeyFailed, Outcome, Rejection
<1>11. CASE Classify(o)
  BY <1>3, <1>6, <1>11 DEF Classify
<1>12. CASE Discard(o)
  BY <1>1, <1>2, <1>12, DiscardShape
<1> QED
  BY <1>7, <1>8, <1>9, <1>10, <1>11, <1>12 DEF Run

LEMMA InitShape == Init => Shape
<1> SUFFICES ASSUME Init PROVE Bookkeeping
  BY InitType DEF Shape
<1> QED
  BY DEF Init, Bookkeeping, SlotPending, DocumentsHeld, MetadataWaiters, JwksWaiters,
         HoldsMetadata

LEMMA NextShape == Shape /\ [Next]_vars => Shape'
<1> SUFFICES ASSUME Shape, [Next]_vars PROVE Shape'
  OBVIOUS
<1>1. CASE \E o \in Op, token \in Token : Start(o, token)
  BY <1>1, StartType, StartBookkeeping DEF Shape
<1>2. CASE \E o \in Op : Run(o)
  BY <1>2, RunShape
<1>3. CASE MetadataSettles
  BY <1>3, MetadataRefreshedType, MetadataRefreshedBookkeeping,
     MetadataRefreshFailedType, MetadataRefreshFailedBookkeeping
     DEF Shape, MetadataSettles
<1>4. CASE \E r \in Ref : JwksSettles(r)
  BY <1>4, JwksRefreshedType, JwksRefreshedBookkeeping,
     JwksRefreshFailedType, JwksRefreshFailedBookkeeping DEF Shape, JwksSettles
<1>5. CASE Tick \/ NextEpoch \/ (\E o \in Op : Drop(o)) \/ UNCHANGED vars
  <2>1. TypeOK'
    BY <1>5, EnvironmentType DEF Shape
  <2>2. UNCHANGED <<metadataVars, jwksVars, call>>
    BY <1>5 DEF Tick, NextEpoch, Drop, vars
  <2>3. Bookkeeping'
    BY <2>2 DEF Shape, Bookkeeping, SlotPending, DocumentsHeld, MetadataWaiters,
                JwksWaiters, metadataVars, jwksVars
  <2> QED
    BY <2>1, <2>3 DEF Shape
<1>6. CASE Terminated
  BY <1>5, <1>6 DEF Terminated
<1> QED
  BY <1>1, <1>2, <1>3, <1>4, <1>5, <1>6 DEF Next

\* Every execution keeps the bookkeeping of the event loop.
THEOREM ShapeInvariant == Spec => []Shape
<1>1. Init => Shape
  BY InitShape
<1>2. Shape /\ [Next]_vars => Shape'
  BY NextShape
<1> QED
  BY <1>1, <1>2, PTL DEF Spec

\* Every variable of the verifier keeps its type: no interleaving leaves a
\* call without the metadata its next step reads, or a cache entry without
\* its deadlines.
THEOREM TypeCorrect == Spec => []TypeOK
<1>1. Shape => TypeOK
  BY DEF Shape
<1> QED
  BY <1>1, ShapeInvariant, PTL

-----------------------------------------------------------------------------
(* Identity isolation: inductive once the bookkeeping is known.            *)

Isolated(c) == c.doc # None => c.doc.identity = c.meta.identity

\* A failed JWK Set lookup falls back on the same identity or on nothing.
LEMMA FallbackIsolated ==
  ASSUME NEW c \in Call, Isolated(c)
  PROVE  Isolated(AfterJwksFailure(c))
  BY UpdatedFields DEF AfterJwksFailure, SameIdentity, Isolated

\* A step that moves one call, not a suspended one, and no request.
LEMMA LocalIsolation ==
  ASSUME Shape, IdentityIsolation, NEW o \in Op, NEW c, Isolated(c),
         call[o].pc \notin {"metadata", "lookup", "missing_key"},
         call' = [call EXCEPT ![o] = c], UNCHANGED fetches
  PROVE  IdentityIsolation'
<1>1. \A p \in Op : Isolated(call'[p])
  BY DEF Shape, TypeOK, IdentityIsolation, Isolated
<1>2. ASSUME NEW r \in Ref, fetches[r] # None, NEW p \in Waiting(fetches[r].waiters)
      PROVE  call'[p].meta.identity = fetches[r].identity
  <2>1. p \in Op /\ call[p].pc \in {"lookup", "missing_key"}
    BY <1>2, WaitersAreCalls DEF Shape, Bookkeeping, JwksWaiters
  <2> QED
    BY <1>2, <2>1 DEF Shape, TypeOK, IdentityIsolation
<1> QED
  BY <1>1, <1>2 DEF IdentityIsolation, Isolated

LEMMA StartIsolation ==
  ASSUME Shape, IdentityIsolation, NEW o \in Op, NEW token \in Token, Start(o, token)
  PROVE  IdentityIsolation'
<1> DEFINE c == [call[o] EXCEPT !.now = clock, !.token = token]
<1>1. c \in Call /\ c.doc = None /\ call[o].pc = "idle" /\ UNCHANGED fetches
  <2>1. call[o].pc = "idle" /\ UNCHANGED fetches
    BY DEF Start, jwksVars
  <2>2. call[o] \in Call /\ clock \in Nat
    BY DEF Shape, TypeOK
  <2>3. call[o].doc = None
    BY <2>1 DEF Shape, Bookkeeping, DocumentsHeld
  <2>4. c \in Call
    <3>1. c = [call[o] EXCEPT !.now = clock, !.token = token]
      OBVIOUS
    <3> HIDE DEF c
    <3> QED
      BY <2>2, <3>1, CallBegins
  <2>5. c.doc = call[o].doc
    BY <2>2 DEF Call
  <2> QED
    BY <2>1, <2>3, <2>4, <2>5
<1>2. PICK d : call' = [call EXCEPT ![o] = d] /\ d.doc = None
  <2>1. ASSUME NEW x PROVE WithMetadata(c, x).doc = None
    <3> HIDE DEF c
    <3> QED
      BY <1>1, UpdatedFields
  <2>2. ASSUME NEW x PROVE AfterMetadataFailure(c, x).doc = None
    <3> HIDE DEF c
    <3> QED
      BY <1>1, UpdatedFields DEF AfterMetadataFailure
  <2>3. [c EXCEPT !.pc = "metadata"].doc = None
    BY <1>1 DEF Call
  <2> QED
    BY <2>1, <2>2, <2>3 DEF Start, Continue, AwaitMetadata
<1> QED
  BY <1>1, <1>2, LocalIsolation DEF Isolated

LEMMA MetadataSettlesIsolation ==
  ASSUME Shape, IdentityIsolation, MetadataSettles
  PROVE  IdentityIsolation'
<1>1. metadataRefresh # None /\ UNCHANGED fetches
  BY DEF MetadataSettles, MetadataRefreshed, MetadataRefreshFailed, MetadataPending, jwksVars
<1>2. \A o \in Op \ Waiting(metadataRefresh.waiters) : call'[o] = call[o]
  BY DEF MetadataSettles, MetadataRefreshed, MetadataRefreshFailed
<1>3. \A o \in Waiting(metadataRefresh.waiters) : o \in Op /\ call[o].pc = "metadata"
  BY <1>1, WaitersAreCalls DEF Shape, Bookkeeping, MetadataWaiters
<1>4. ASSUME NEW o \in Waiting(metadataRefresh.waiters)
      PROVE  call'[o].doc = None
  <2>1. call[o] \in Call /\ call[o].doc = None
    BY <1>3 DEF Shape, TypeOK, Bookkeeping, DocumentsHeld
  <2>2. \A x : WithMetadata(call[o], x).doc = None
    BY <2>1, UpdatedFields
  <2>3. \A x : AfterMetadataFailure(call[o], x).doc = None
    BY <2>1, UpdatedFields DEF AfterMetadataFailure
  <2> QED
    BY <1>3, <2>2, <2>3 DEF MetadataSettles, MetadataRefreshed, MetadataRefreshFailed
<1>5. ASSUME NEW r \in Ref, fetches[r] # None, NEW p \in Waiting(fetches[r].waiters)
      PROVE  call'[p] = call[p]
  <2>1. p \in Op /\ call[p].pc \in {"lookup", "missing_key"}
    BY <1>5, WaitersAreCalls DEF Shape, Bookkeeping, JwksWaiters
  <2> QED
    BY <1>2, <1>3, <2>1
<1> QED
  BY <1>1, <1>2, <1>4, <1>5 DEF IdentityIsolation

LEMMA JwksSettlesIsolation ==
  ASSUME Shape, IdentityIsolation, NEW r \in Ref, JwksSettles(r)
  PROVE  IdentityIsolation'
<1>1. fetches[r] # None /\ fetches' = [fetches EXCEPT ![r] = None]
  BY DEF JwksSettles, JwksRefreshed, JwksRefreshFailed, JwksPending
<1>2. \A o \in Op \ Waiting(fetches[r].waiters) : call'[o] = call[o]
  BY DEF JwksSettles, JwksRefreshed, JwksRefreshFailed
<1>3. ASSUME NEW o \in Waiting(fetches[r].waiters)
      PROVE  o \in Op /\ Isolated(call'[o])
  <2>1. /\ o \in Op /\ call[o] \in Call /\ Isolated(call[o])
        /\ call[o].meta.identity = fetches[r].identity
    BY <1>1, WaitersAreCalls DEF Shape, TypeOK, IdentityIsolation, Isolated
  <2>2. \A e, control :
          LET answer == JwksAnswer(r, e, control)
          IN  Isolated(WithJwks(call[o], answer))
    BY <2>1, UpdatedFields DEF JwksAnswer, Isolated
  <2>3. Isolated(AfterJwksFailure(call[o]))
    BY <2>1, FallbackIsolated
  <2> QED
    BY <2>1, <2>2, <2>3 DEF JwksSettles, JwksRefreshed, JwksRefreshFailed
<1>4. ASSUME NEW s \in Ref, fetches'[s] # None, NEW p \in Waiting(fetches'[s].waiters)
      PROVE  call'[p].meta.identity = fetches'[s].identity
  <2>1. s # r /\ fetches'[s] = fetches[s] /\ fetches[s] # None
    BY <1>1, <1>4 DEF Shape, TypeOK
  <2>2. p \in Op /\ p \notin Waiting(fetches[r].waiters)
    BY <1>1, <1>4, <2>1, WaitersAreCalls DEF Shape, Bookkeeping, JwksWaiters
  <2> QED
    BY <1>2, <1>4, <2>1, <2>2 DEF IdentityIsolation
<1> QED
  BY <1>2, <1>3, <1>4 DEF IdentityIsolation, Isolated

LEMMA AwaitJwksIsolation ==
  ASSUME Shape, IdentityIsolation, NEW o \in Op, call[o].pc \in {"admit", "verify"},
         AwaitJwks(o, call[o])
  PROVE  IdentityIsolation'
<1> DEFINE c == call[o]
           reason == IF ForMissingKey(c) THEN "missing_key" ELSE "lookup"
           identity == c.meta.identity
           r == IF Joinable(identity) THEN jwksRefresh ELSE <<o, reason>>
           d == [c EXCEPT !.pc = reason, !.resolved = jwks]
<1>1. c \in Call /\ d.meta = c.meta /\ d.doc = c.doc
  BY DEF Shape, TypeOK, Call
<1>2. call' = [call EXCEPT ![o] = d]
  BY DEF AwaitJwks
<1>3. r \in Ref
  BY DEF Joinable, Ref, Shape, TypeOK
<1>4. /\ fetches'[r].identity = identity
      /\ \A p \in Waiting(fetches'[r].waiters) :
           p = o \/ (fetches[r] # None /\ p \in Waiting(fetches[r].waiters)
                     /\ fetches[r].identity = identity)
      /\ \A s \in Ref \ {r} : fetches'[s] = fetches[s]
  <2>1. CASE Joinable(identity)
    <3>1. fetches[r] \in JwksRequest /\ fetches[r] # None /\ fetches[r].identity = identity
      BY <1>3, <2>1 DEF Joinable, Shape, TypeOK, Bookkeeping, SlotPending
    <3>2. fetches' = [fetches EXCEPT ![r].waiters = Append(fetches[r].waiters, o)]
      BY <2>1, <1>3, <3>1 DEF AwaitJwks, Shape, TypeOK
    <3>3. /\ fetches'[r] = [fetches[r] EXCEPT !.waiters = Append(fetches[r].waiters, o)]
          /\ \A s \in Ref \ {r} : fetches'[s] = fetches[s]
      BY <1>3, <3>2 DEF Shape, TypeOK
    <3>4. /\ fetches'[r].identity = fetches[r].identity
          /\ fetches'[r].waiters = Append(fetches[r].waiters, o)
      BY <3>1, <3>3 DEF JwksRequest
    <3>5. Waiting(Append(fetches[r].waiters, o)) = Waiting(fetches[r].waiters) \cup {o}
      BY <3>1, WaitingFacts DEF JwksRequest
    <3> HIDE DEF r
    <3> QED
      BY <3>1, <3>3, <3>4, <3>5
  <2>2. CASE ~Joinable(identity)
    <3> DEFINE request == [identity |-> identity, startedAt |-> clock, waiters |-> <<o>>]
    <3>1. fetches' = [fetches EXCEPT ![r] = request]
      BY <2>2 DEF AwaitJwks
    <3>2. Waiting(<<o>>) = {o}
      BY EmptySeq, WaitingFacts
    <3>3. request.identity = identity /\ request.waiters = <<o>>
      OBVIOUS
    <3>4. fetches'[r] = request /\ \A s \in Ref \ {r} : fetches'[s] = fetches[s]
      BY <1>3, <3>1 DEF Shape, TypeOK
    <3> HIDE DEF r, request
    <3> QED
      BY <3>2, <3>3, <3>4
  <2> QED
    BY <2>1, <2>2
<1> HIDE DEF r, d, reason
<1>5. \A p \in Op : Isolated(call'[p]) /\ call'[p].meta = call[p].meta
  BY <1>1, <1>2 DEF Shape, TypeOK, IdentityIsolation, Isolated
<1>6. ASSUME NEW s \in Ref, fetches'[s] # None, NEW p \in Waiting(fetches'[s].waiters)
      PROVE  call'[p].meta.identity = fetches'[s].identity
  <2>1. CASE p = o /\ s = r
    BY <1>4, <1>5, <2>1
  <2>2. CASE s = r /\ p # o
    BY <1>4, <1>5, <1>6, <2>2, WaitersAreCalls DEF Shape, IdentityIsolation
  <2>3. CASE s # r
    <3>1. fetches[s] # None /\ p \in Waiting(fetches[s].waiters) /\ fetches'[s] = fetches[s]
      BY <1>4, <1>6, <2>3
    <3>2. p \in Op /\ call[p].meta.identity = fetches[s].identity
      BY <3>1, WaitersAreCalls DEF Shape, IdentityIsolation
    <3> QED
      BY <1>5, <3>1, <3>2
  <2> QED
    BY <2>1, <2>2, <2>3
<1> QED
  BY <1>5, <1>6 DEF IdentityIsolation, Isolated

LEMMA RunIsolation ==
  ASSUME Shape, IdentityIsolation, NEW o \in Op, Run(o)
  PROVE  IdentityIsolation'
<1> DEFINE c == call[o]
<1>1. c \in Call /\ Isolated(c) /\ c.pc \notin {"metadata", "lookup", "missing_key"}
  BY DEF Shape, TypeOK, IdentityIsolation, Isolated, Run, Admit, Verify, Recheck,
         RefreshForMissingKeyFailed, Classify, Discard,
         Resumed, Runs
<1>2. ASSUME NEW outcome, Finish(o, outcome)
      PROVE  IdentityIsolation'
  <2>1. Isolated(Done(c, outcome)) /\ UNCHANGED fetches
    <3> HIDE DEF c
    <3>1. Done(c, outcome).doc = c.doc /\ Done(c, outcome).meta = c.meta
      BY <1>1, UpdatedFields
    <3> QED
      BY <1>1, <1>2, <3>1 DEF Isolated, Finish, jwksVars
  <2> QED
    BY <1>1, <1>2, <2>1, LocalIsolation DEF Finish, Shape, TypeOK
<1>3. ASSUME RemoteJwks(o, c), c.pc \in {"admit", "verify"}
      PROVE  IdentityIsolation'
  <2>1. CASE CacheAnswers(c) /\ Resume(o, WithJwks(c, jwks.value))
    <3> HIDE DEF c
    <3>1. jwks.value.identity = c.meta.identity /\ UNCHANGED fetches
      BY <2>1 DEF CacheAnswers, SameIdentity, Resume, jwksVars
    <3>2. WithJwks(c, jwks.value).doc = jwks.value /\ WithJwks(c, jwks.value).meta = c.meta
      BY <1>1, UpdatedFields
    <3>3. Isolated(WithJwks(c, jwks.value))
      BY <3>1, <3>2 DEF Isolated
    <3> QED
      BY <1>1, <2>1, <3>1, <3>3, LocalIsolation DEF Resume, c
  <2>2. CASE Resume(o, AfterJwksFailure([c EXCEPT !.resolved = jwks]))
    <3> DEFINE b == [c EXCEPT !.resolved = jwks]
    <3>1. b \in Call /\ Isolated(b)
      BY <1>1 DEF Call, Isolated, Shape, TypeOK
    <3> HIDE DEF b
    <3>2. Isolated(AfterJwksFailure(b)) /\ UNCHANGED fetches
      BY <2>2, <3>1, FallbackIsolated DEF Resume, jwksVars
    <3> QED
      BY <1>1, <2>2, <3>2, LocalIsolation DEF Resume, b
  <2>3. CASE AwaitJwks(o, c)
    BY <1>3, <2>3, AwaitJwksIsolation
  <2> QED
    BY <1>3, <2>1, <2>2, <2>3 DEF RemoteJwks
<1>4. CASE Discard(o)
  <2>1. PICK d \in Call : call' = [call EXCEPT ![o] = d] /\ SameHoldings(c, d)
    BY <1>4, Discarded
  <2>2. Isolated(d) /\ UNCHANGED fetches
    BY <1>1, <1>4, <2>1, Discarded DEF Isolated, SameHoldings, jwksVars
  <2> QED
    BY <1>1, <2>1, <2>2, LocalIsolation
<1> QED
  BY <1>2, <1>3, <1>4
     DEF Run, Admit, Verify, Recheck, RefreshForMissingKeyFailed, Classify, Runs

\* A JWK Set never crosses from one metadata to another: not by the cache,
\* not by joining a request, and not by falling back on an older entry.
THEOREM IsolationCorrect == Spec => []IdentityIsolation
<1>1. Init => IdentityIsolation
  BY DEF Init, IdentityIsolation
<1>2. Shape /\ IdentityIsolation /\ [Next]_vars => IdentityIsolation'
  <2> SUFFICES ASSUME Shape, IdentityIsolation, [Next]_vars PROVE IdentityIsolation'
    OBVIOUS
  <2>1. CASE Environment \/ UNCHANGED vars
    BY <2>1 DEF Environment, Tick, NextEpoch, Drop, Terminated, vars, jwksVars, IdentityIsolation
  <2> QED
    BY <2>1, StartIsolation, RunIsolation, MetadataSettlesIsolation, JwksSettlesIsolation
       DEF Next, Environment
<1> QED
  BY <1>1, <1>2, ShapeInvariant, PTL DEF Spec

-----------------------------------------------------------------------------
(* The age of documents.  The invariant is not inductive by itself: it      *)
(* needs every cached or captured entry to carry the deadlines its own      *)
(* headers give it, and no captured time to lie in the future.              *)

\* A document a call that began at time now may use.
Acceptable(document, now) == document.arrived >= now \/ WithinLifetime(document, now)

EntrySound(entry) ==
  entry # None =>
    /\ entry = CacheEntry(entry.value)
    /\ ~entry.value.control.noStore
    /\ entry.value.arrived >= entry.value.base

CallSound(c) ==
  /\ c.now <= clock
  /\ EntrySound(c.resolved)
  /\ c.meta # None => Acceptable(c.meta, c.now)
  /\ c.doc # None => Acceptable(c.doc, c.now)

AgeInvariant ==
  /\ EntrySound(metadata) /\ EntrySound(jwks)
  /\ metadataRefresh # None => metadataRefresh.startedAt <= clock
  /\ \A o \in Op : CallSound(call[o])

\* An entry that is fresh, or may be used stale, holds an acceptable document.
LEMMA EntryAcceptable ==
  ASSUME NEW entry \in Entry, EntrySound(entry), NEW now \in Nat,
         now < entry.freshUntil \/ now < entry.staleUntil
  PROVE  Acceptable(entry.value, now)
<1> DEFINE d == entry.value
           control == d.control
<1>1. /\ control \in CacheControl /\ d.base \in Nat /\ d.arrived \in Nat
      /\ ~control.noStore /\ d.arrived >= d.base
      /\ entry.freshUntil = d.base + BoundedFreshness(control)
      /\ entry.staleUntil = IF StalePermitted(control)
                              THEN d.base + BoundedFreshness(control) + StaleAllowance
                              ELSE d.base
  BY NoneAssumption DEF Entry, Document, EntrySound, CacheEntry
<1>2. BoundedFreshness(control) \in Nat
  BY <1>1, FreshnessType
<1>3. control \in [noStore : BOOLEAN, noCache : BOOLEAN, mustRevalidate : BOOLEAN,
                   maxAge : Nat \cup {None}]
  BY <1>1, CacheControlAssumption
<1>4. CASE d.base > now
  BY <1>1, <1>4 DEF Acceptable
<1>5. CASE d.base <= now
  <2>1. ~control.noCache
    BY <1>1, <1>2, <1>5, TimeAssumption DEF BoundedFreshness, StalePermitted
  <2>2. /\ BoundedFreshness(control) <= MaximumFreshness
        /\ control.maxAge # None => BoundedFreshness(control) <= control.maxAge
        /\ control.maxAge = None => BoundedFreshness(control) <= DefaultFreshness
    BY <1>3, <2>1, TimeAssumption DEF BoundedFreshness, Smaller
  <2>3. now < d.base + BoundedFreshness(control) +
                (IF control.mustRevalidate THEN 0 ELSE StaleAllowance)
    BY <1>1, <1>2, <1>5, TimeAssumption DEF StalePermitted
  <2> HIDE DEF control, d
  <2>4. WithinLifetime(d, now)
    BY <1>1, <1>2, <1>3, <2>1, <2>2, <2>3, TimeAssumption DEF WithinLifetime, control
  <2> QED
    BY <2>4 DEF Acceptable, d
<1> QED
  BY <1>1, <1>4, <1>5

\* What arrives now is acceptable to every call and may be kept.
LEMMA AnswerSound ==
  ASSUME NEW d \in Document, d.arrived = clock, d.base <= clock, clock \in Nat
  PROVE  /\ EntrySound(Retained(d))
         /\ \A now \in Nat : now <= clock => Acceptable(d, now)
  BY DEF EntrySound, Retained, CacheEntry, Document, Acceptable

LEMMA WithMetadataSound ==
  ASSUME NEW c \in Call, CallSound(c), NEW d, Acceptable(d, c.now)
  PROVE  CallSound(WithMetadata(c, d))
  BY UpdatedFields DEF CallSound

LEMMA WithJwksSound ==
  ASSUME NEW c \in Call, CallSound(c), NEW d, Acceptable(d, c.now)
  PROVE  CallSound(WithJwks(c, d))
  BY UpdatedFields DEF CallSound, EntrySound

LEMMA FailingSound ==
  ASSUME NEW c \in Call, CallSound(c), NEW pc, NEW error
  PROVE  CallSound(Failing(c, pc, error))
  BY UpdatedFields DEF CallSound, EntrySound

LEMMA AfterMetadataFailureSound ==
  ASSUME TypeOK, EntrySound(metadata), NEW c \in Call, CallSound(c), NEW error
  PROVE  CallSound(AfterMetadataFailure(c, error))
<1>1. CASE UsableWhenStale(metadata, c.now)
  <2>1. Acceptable(metadata.value, c.now)
    BY <1>1, EntryAcceptable DEF UsableWhenStale, TypeOK, Call
  <2> QED
    BY <2>1, WithMetadataSound, FailingSound DEF AfterMetadataFailure
<1>2. CASE ~UsableWhenStale(metadata, c.now)
  BY <1>2, FailingSound DEF AfterMetadataFailure
<1> QED
  BY <1>1, <1>2

LEMMA AfterJwksFailureSound ==
  ASSUME NEW c \in Call, CallSound(c)
  PROVE  CallSound(AfterJwksFailure(c))
<1>1. CASE UsableWhenStale(c.resolved, c.now)
  <2>1. Acceptable(c.resolved.value, c.now)
    BY <1>1, EntryAcceptable DEF UsableWhenStale, CallSound, Call
  <2> QED
    BY <2>1, WithJwksSound, FailingSound DEF AfterJwksFailure
<1>2. CASE ~UsableWhenStale(c.resolved, c.now)
  BY <1>2, FailingSound DEF AfterJwksFailure
<1> QED
  BY <1>1, <1>2

\* A step that moves one call and touches no cache.
LEMMA LocalAge ==
  ASSUME TypeOK, AgeInvariant, NEW o \in Op, NEW c, CallSound(c),
         call' = [call EXCEPT ![o] = c], UNCHANGED <<clock, metadata, jwks>>,
         metadataRefresh' # None =>
           \/ metadataRefresh'.startedAt = clock
           \/ metadataRefresh # None /\ metadataRefresh'.startedAt = metadataRefresh.startedAt
  PROVE  AgeInvariant'
<1>1. \A p \in Op : CallSound(call'[p])
  BY DEF TypeOK, AgeInvariant
<1>2. \A p \in Op : CallSound(call[p])'
  BY <1>1 DEF CallSound, EntrySound, Acceptable
<1>3. metadataRefresh' # None => metadataRefresh'.startedAt <= clock'
  BY DEF TypeOK, AgeInvariant
<1>4. EntrySound(metadata)' /\ EntrySound(jwks)'
  BY DEF AgeInvariant, EntrySound
<1> QED
  BY <1>2, <1>3, <1>4 DEF AgeInvariant

LEMMA StartAge ==
  ASSUME Shape, AgeInvariant, NEW o \in Op, NEW token \in Token, Start(o, token)
  PROVE  AgeInvariant'
<1> DEFINE c == [call[o] EXCEPT !.now = clock, !.token = token]
<1>1. /\ c \in Call /\ c.now = clock /\ c.meta = None /\ c.doc = None
      /\ c.resolved = call[o].resolved
  <2>1. call[o] \in Call /\ clock \in Nat
    BY DEF Shape, TypeOK
  <2>2. call[o].meta = None /\ call[o].doc = None
    BY DEF Start, Shape, Bookkeeping, DocumentsHeld
  <2>3. c \in Call
    <3>1. c = [call[o] EXCEPT !.now = clock, !.token = token]
      OBVIOUS
    <3> HIDE DEF c
    <3> QED
      BY <2>1, <3>1, CallBegins
  <2>4. c.now = clock /\ c.meta = call[o].meta /\ c.doc = call[o].doc
        /\ c.resolved = call[o].resolved
    BY <2>1 DEF Call
  <2> QED
    BY <2>2, <2>3, <2>4
<1>2. CallSound(c)
  BY <1>1 DEF CallSound, AgeInvariant, Shape, TypeOK
<1>3. UNCHANGED <<clock, metadata, jwks>>
  BY DEF Start, providerVars, jwksVars
<1> HIDE DEF c
<1>4. CASE Fresh(metadata, c.now) /\ Continue(o, WithMetadata(c, metadata.value))
  <2>1. Acceptable(metadata.value, c.now)
    BY <1>1, <1>4, EntryAcceptable DEF Fresh, AgeInvariant, Shape, TypeOK, Call
  <2>2. CallSound(WithMetadata(c, metadata.value))
    BY <1>1, <1>2, <2>1, WithMetadataSound
  <2> QED
    BY <1>3, <1>4, <2>2, LocalAge DEF Continue, Shape
<1>5. CASE Continue(o, AfterMetadataFailure(c, metadataFailure.error))
  <2>1. CallSound(AfterMetadataFailure(c, metadataFailure.error))
    BY <1>1, <1>2, AfterMetadataFailureSound DEF AgeInvariant, Shape
  <2> QED
    BY <1>3, <1>5, <2>1, LocalAge DEF Continue, Shape
<1>6. CASE AwaitMetadata(o, c)
  <2>1. CallSound([c EXCEPT !.pc = "metadata"])
    BY <1>1, <1>2 DEF CallSound, Call
  <2>2. metadataRefresh' # None =>
          \/ metadataRefresh'.startedAt = clock
          \/ metadataRefresh # None /\ metadataRefresh'.startedAt = metadataRefresh.startedAt
    BY <1>6 DEF AwaitMetadata, Shape, TypeOK, MetadataRequest
  <2> QED
    BY <1>3, <1>6, <2>1, <2>2, LocalAge DEF AwaitMetadata, Shape
<1> QED
  BY <1>4, <1>5, <1>6 DEF Start, c

LEMMA RunAge ==
  ASSUME Shape, AgeInvariant, NEW o \in Op, Run(o)
  PROVE  AgeInvariant'
<1> DEFINE c == call[o]
<1>1. c \in Call /\ CallSound(c)
  BY DEF Shape, TypeOK, AgeInvariant
<1>2. UNCHANGED <<clock, metadata, metadataRefresh>>
  BY DEF Run, Admit, Verify, Recheck, RefreshForMissingKeyFailed, Classify, Discard,
         providerVars, metadataVars
<1> HIDE DEF c
<1>3. ASSUME NEW outcome, Finish(o, outcome)
      PROVE  AgeInvariant'
  <2>1. CallSound(Done(c, outcome))
    BY <1>1, UpdatedFields DEF CallSound
  <2>2. call' = [call EXCEPT ![o] = Done(c, outcome)] /\ UNCHANGED jwks
    BY <1>3 DEF Finish, jwksVars, c, Shape, TypeOK
  <2> QED
    BY <1>2, <2>1, <2>2, LocalAge DEF Shape
<1>4. ASSUME RemoteJwks(o, c)
      PROVE  AgeInvariant'
  <2>1. CASE CacheAnswers(c) /\ Resume(o, WithJwks(c, jwks.value))
    <3>1. Acceptable(jwks.value, c.now)
      BY <1>1, <2>1, EntryAcceptable
         DEF CacheAnswers, Fresh, AgeInvariant, Shape, TypeOK, Call
    <3>2. CallSound(WithJwks(c, jwks.value))
      BY <1>1, <3>1, WithJwksSound
    <3> QED
      BY <1>2, <2>1, <3>2, LocalAge DEF Resume, jwksVars, Shape
  <2>2. CASE Resume(o, AfterJwksFailure([c EXCEPT !.resolved = jwks]))
    <3> DEFINE b == [c EXCEPT !.resolved = jwks]
    <3>1. b \in Call /\ CallSound(b)
      BY <1>1 DEF Call, CallSound, AgeInvariant, Shape, TypeOK
    <3> HIDE DEF b
    <3>2. CallSound(AfterJwksFailure(b))
      BY <3>1, AfterJwksFailureSound
    <3> QED
      BY <1>2, <2>2, <3>2, LocalAge DEF Resume, jwksVars, Shape, b
  <2>3. CASE AwaitJwks(o, c)
    <3> DEFINE d == [c EXCEPT !.pc = IF ForMissingKey(c) THEN "missing_key" ELSE "lookup",
                              !.resolved = jwks]
    <3>1. CallSound(d)
      BY <1>1 DEF Call, CallSound, AgeInvariant
    <3>2. call' = [call EXCEPT ![o] = d] /\ UNCHANGED jwks
      BY <2>3 DEF AwaitJwks
    <3> HIDE DEF d
    <3> QED
      BY <1>2, <3>1, <3>2, LocalAge DEF Shape
  <2> QED
    BY <1>4, <2>1, <2>2, <2>3 DEF RemoteJwks
<1>5. CASE Discard(o)
  <2>1. PICK d \in Call : call' = [call EXCEPT ![o] = d] /\ SameHoldings(c, d)
    BY <1>5, Discarded DEF c
  <2>2. CallSound(d) /\ UNCHANGED jwks
    BY <1>1, <1>5, <2>1, Discarded DEF CallSound, SameHoldings, jwksVars
  <2> QED
    BY <1>2, <2>1, <2>2, LocalAge DEF Shape
<1> QED
  BY <1>3, <1>4, <1>5
     DEF Run, Admit, Verify, Recheck, RefreshForMissingKeyFailed, Classify, c

LEMMA MetadataSettlesAge ==
  ASSUME Shape, AgeInvariant, MetadataSettles
  PROVE  AgeInvariant'
<1>1. /\ metadataRefresh # None /\ metadataRefresh' = None /\ clock' = clock
      /\ clock \in Nat /\ Waiting(metadataRefresh.waiters) \subseteq Op
  BY WaitersAreCalls DEF MetadataSettles, MetadataRefreshed, MetadataRefreshFailed,
                         MetadataPending, Shape,
                         TypeOK, providerVars
<1>2. \A o \in Op : call[o] \in Call /\ CallSound(call[o])
                    /\ call[o].now \in Nat /\ call[o].now <= clock
  BY DEF Shape, TypeOK, AgeInvariant, CallSound, Call
<1>3. ASSUME NEW e \in Published(metadataRefresh.startedAt), NEW control \in CacheControl,
             MetadataRefreshed(e, control)
      PROVE  AgeInvariant'
  <2> DEFINE answer == MetadataAnswer(e, control)
  <2>1. /\ answer \in Document /\ answer.arrived = clock
        /\ answer.base = metadataRefresh.startedAt
    BY <1>1, MetadataAnswerType DEF MetadataAnswer, Shape
  <2> HIDE DEF answer
  <2>2. EntrySound(Retained(answer)) /\ \A now \in Nat : now <= clock => Acceptable(answer, now)
    BY <1>1, <2>1, AnswerSound DEF AgeInvariant
  <2>3. \A o \in Op : CallSound(call'[o])
    BY <1>2, <1>3, <2>2, WithMetadataSound DEF MetadataRefreshed, answer
  <2>4. \A o \in Op : CallSound(call[o])'
    BY <1>1, <2>3 DEF CallSound, EntrySound, Acceptable
  <2>5. EntrySound(metadata)'
    BY <1>3, <2>2 DEF MetadataRefreshed, answer, EntrySound
  <2>6. EntrySound(jwks)'
    BY <1>3 DEF MetadataRefreshed, ForgetJwksUnless, EntrySound, AgeInvariant
  <2> QED
    BY <1>1, <2>4, <2>5, <2>6 DEF AgeInvariant
<1>4. ASSUME NEW error, MetadataRefreshFailed(error)
      PROVE  AgeInvariant'
  <2>1. \A o \in Op : CallSound(call'[o])
    BY <1>2, <1>4, AfterMetadataFailureSound DEF MetadataRefreshFailed, AgeInvariant, Shape
  <2>2. \A o \in Op : CallSound(call[o])'
    BY <1>1, <2>1 DEF CallSound, EntrySound, Acceptable
  <2> QED
    BY <1>1, <1>4, <2>2 DEF AgeInvariant, MetadataRefreshFailed, jwksVars, EntrySound
<1> QED
  BY <1>3, <1>4 DEF MetadataSettles

LEMMA JwksSettlesAge ==
  ASSUME Shape, AgeInvariant, NEW r \in Ref, JwksSettles(r)
  PROVE  AgeInvariant'
<1>1. /\ fetches[r] # None /\ clock' = clock /\ clock \in Nat
      /\ UNCHANGED <<metadata, metadataRefresh>> /\ r[1] \in Op
  BY DEF JwksSettles, JwksRefreshed, JwksRefreshFailed, JwksPending, Shape, TypeOK, Ref,
         providerVars, metadataVars
<1>2. \A o \in Op : call[o] \in Call /\ CallSound(call[o])
                    /\ call[o].now \in Nat /\ call[o].now <= clock
  BY DEF Shape, TypeOK, AgeInvariant, CallSound, Call
<1>3. ASSUME \A o \in Op : CallSound(call'[o]), EntrySound(jwks)'
      PROVE  AgeInvariant'
  <2>1. \A o \in Op : CallSound(call[o])'
    BY <1>1, <1>3 DEF CallSound, EntrySound, Acceptable
  <2> QED
    BY <1>1, <1>3, <2>1 DEF AgeInvariant, EntrySound
<1>4. ASSUME NEW e \in Published(fetches[r].startedAt), NEW control \in CacheControl,
             JwksRefreshed(r, e, control)
      PROVE  AgeInvariant'
  <2> DEFINE answer == JwksAnswer(r, e, control)
  <2>1. answer \in Document /\ answer.arrived = clock /\ answer.base = call[r[1]].now
    BY <1>1, JwksAnswerType DEF JwksAnswer, Shape
  <2> HIDE DEF answer
  <2>2. EntrySound(Retained(answer)) /\ \A now \in Nat : now <= clock => Acceptable(answer, now)
    BY <1>1, <1>2, <2>1, AnswerSound
  <2>3. \A o \in Op : CallSound(call'[o])
    BY <1>2, <1>4, <2>2, WithJwksSound DEF JwksRefreshed, answer
  <2>4. EntrySound(jwks)'
    BY <1>4, <2>2 DEF JwksRefreshed, answer, EntrySound, AgeInvariant
  <2> QED
    BY <1>3, <2>3, <2>4
<1>5. ASSUME JwksRefreshFailed(r)
      PROVE  AgeInvariant'
  <2>1. \A o \in Op : CallSound(call'[o])
    BY <1>2, <1>5, AfterJwksFailureSound DEF JwksRefreshFailed
  <2>2. EntrySound(jwks)'
    BY <1>5 DEF JwksRefreshFailed, AgeInvariant, EntrySound
  <2> QED
    BY <1>3, <2>1, <2>2
<1> QED
  BY <1>4, <1>5 DEF JwksSettles

\* Every entry carries the deadlines its headers give it, and no captured time
\* lies in the future.
THEOREM AgeInvariantHolds == Spec => []AgeInvariant
<1>1. Init => AgeInvariant
  BY DEF Init, AgeInvariant, EntrySound, CallSound
<1>2. Shape /\ AgeInvariant /\ [Next]_vars => AgeInvariant'
  <2> SUFFICES ASSUME Shape, AgeInvariant, [Next]_vars PROVE AgeInvariant'
    OBVIOUS
  <2>1. CASE Environment \/ UNCHANGED vars
    <3>1. clock <= clock' /\ clock \in Nat /\ clock' \in Nat
      BY <2>1 DEF Environment, Tick, NextEpoch, Drop, Terminated, vars, providerVars, Shape, TypeOK
    <3>2. UNCHANGED <<metadata, metadataRefresh, jwks, call>>
      BY <2>1 DEF Environment, Tick, NextEpoch, Drop, Terminated, vars, metadataVars, jwksVars
    <3>3. \A o \in Op : call[o].now \in Nat
      BY DEF Shape, TypeOK, Call
    <3>4. \A o \in Op : CallSound(call[o])'
      BY <3>1, <3>2, <3>3 DEF AgeInvariant, CallSound, EntrySound, Acceptable
    <3> QED
      BY <3>1, <3>2, <3>4 DEF AgeInvariant, EntrySound, Shape, TypeOK, MetadataRequest
  <2> QED
    BY <2>1, StartAge, RunAge, MetadataSettlesAge, JwksSettlesAge DEF Next, Environment
<1> QED
  BY <1>1, <1>2, ShapeInvariant, PTL DEF Spec

\* No chain of joins, suppressions, failures and fallbacks makes a call use a
\* document past the lifetime its headers give it.
THEOREM AgeCorrect == Spec => []DocumentAgeBounded
<1>1. AgeInvariant => DocumentAgeBounded
  BY DEF AgeInvariant, CallSound, DocumentAgeBounded, Acceptable
<1> QED
  BY <1>1, AgeInvariantHolds, PTL

-----------------------------------------------------------------------------
(* Nobody is forgotten.  The invariant adds to the property that a list     *)
(* names a call once, and that the call that started a request is in its    *)
(* list: so the end of one request never resumes the owner of another.      *)

Once(q) == \A i, j \in DOMAIN q : q[i] = q[j] => i = j

MetadataAwaited ==
  /\ \A o \in Op : call[o].pc = "metadata" =>
       metadataRefresh # None /\ o \in Waiting(metadataRefresh.waiters)
  /\ metadataRefresh # None =>
       metadataRefresh.waiters # <<>> /\ Once(metadataRefresh.waiters)

JwksAwaited ==
  /\ \A o \in Op : call[o].pc \in {"lookup", "missing_key"} =>
       \E r \in Ref : fetches[r] # None /\ o \in Waiting(fetches[r].waiters)
  /\ \A r \in Ref : fetches[r] # None =>
       /\ Once(fetches[r].waiters)
       /\ call[r[1]].pc = r[2] /\ r[1] \in Waiting(fetches[r].waiters)

QueueComplete ==
  /\ Once(ready)
  /\ \A o \in Op : o \in Waiting(ready) <=> call[o].pc \in Resumed

Linked == MetadataAwaited /\ JwksAwaited /\ QueueComplete

\* A list that names a call once still does when another call joins it.
LEMMA OnceFacts ==
  ASSUME NEW q \in Seq(Op), Once(q), NEW o \in Op
  PROVE  o \notin Waiting(q) => Once(Append(q, o))
<1> SUFFICES ASSUME o \notin Waiting(q) PROVE Once(Append(q, o))
  OBVIOUS
<1>1. \A i \in DOMAIN q : q[i] # o
  BY DEF Waiting
<1>2. /\ DOMAIN Append(q, o) = 1 .. Len(q) + 1 /\ DOMAIN q = 1 .. Len(q)
      /\ \A i \in 1 .. Len(q) : Append(q, o)[i] = q[i]
      /\ Append(q, o)[Len(q) + 1] = o
  OBVIOUS
<1> QED
  BY <1>1, <1>2 DEF Once

LEMMA AloneInList ==
  ASSUME NEW o \in Op
  PROVE  Once(<<o>>) /\ Waiting(<<o>>) = {o}
<1>1. Waiting(<<o>>) = {o}
  BY EmptySeq, WaitingFacts
<1> QED
  BY <1>1 DEF Once

\* Taking the head off such a list leaves exactly the other calls.
LEMMA TailFacts ==
  ASSUME NEW q \in Seq(Op), Once(q), q # <<>>
  PROVE  /\ Tail(q) \in Seq(Op) /\ Once(Tail(q))
         /\ Waiting(Tail(q)) = Waiting(q) \ {Head(q)}
         /\ Head(q) \in Waiting(q)
<1>1. /\ Tail(q) \in Seq(Op) /\ Len(q) \in Nat /\ Len(q) > 0 /\ DOMAIN q = 1 .. Len(q)
      /\ DOMAIN Tail(q) = 1 .. Len(q) - 1 /\ Head(q) = q[1]
      /\ \A i \in 1 .. Len(q) - 1 : Tail(q)[i] = q[i + 1]
  OBVIOUS
<1>2. Once(Tail(q))
  BY <1>1 DEF Once
<1>3. Waiting(Tail(q)) \subseteq Waiting(q) \ {Head(q)}
  BY <1>1 DEF Once, Waiting
<1>4. ASSUME NEW i \in DOMAIN q, q[i] # q[1]
      PROVE  q[i] \in Waiting(Tail(q))
  <2>1. i - 1 \in DOMAIN Tail(q) /\ Tail(q)[i - 1] = q[i]
    BY <1>1, <1>4
  <2> QED
    BY <2>1 DEF Waiting
<1>5. Waiting(q) \ {Head(q)} \subseteq Waiting(Tail(q))
  BY <1>1, <1>4 DEF Waiting
<1>6. Head(q) \in Waiting(q)
  <2>1. 1 \in DOMAIN q
    BY <1>1
  <2> QED
    BY <1>1, <2>1 DEF Waiting
<1> QED
  BY <1>1, <1>2, <1>3, <1>5, <1>6

\* What the running call makes of the queue: it leaves, or queues again.
LEMMA RunQueue ==
  ASSUME Shape, Linked, NEW o \in Op, ready # <<>>, o = Head(ready)
  PROVE  /\ Once(Tail(ready)) /\ Once(Append(Tail(ready), o))
         /\ \A p \in Op : p \in Waiting(Tail(ready)) <=> p # o /\ call[p].pc \in Resumed
         /\ \A p \in Op : p \in Waiting(Append(Tail(ready), o)) <=>
                            p = o \/ call[p].pc \in Resumed
<1>1. ready \in Seq(Op) /\ Once(ready)
  BY DEF Shape, TypeOK, Linked, QueueComplete
<1>2. /\ Tail(ready) \in Seq(Op) /\ Once(Tail(ready))
      /\ Waiting(Tail(ready)) = Waiting(ready) \ {o}
  BY <1>1, TailFacts
<1>3. Once(Append(Tail(ready), o))
  BY <1>2, OnceFacts
<1>4. Waiting(Append(Tail(ready), o)) = Waiting(Tail(ready)) \cup {o}
  BY <1>2, WaitingFacts
<1> QED
  BY <1>2, <1>3, <1>4 DEF Linked, QueueComplete

LEMMA EmptyQueue ==
  ASSUME Linked, ready = <<>>
  PROVE  \A o \in Op : call[o].pc \notin Resumed
<1>1. Waiting(ready) = {}
  BY DEF Waiting
<1>2. \A o \in Op : o \in Waiting(ready) <=> call[o].pc \in Resumed
  BY Zenon DEF Linked, QueueComplete
<1> QED
  BY <1>1, <1>2, Zenon

\* A step of one call that was not suspended and is not suspended after it.
LEMMA LocalLinked ==
  ASSUME Shape, Linked, NEW o \in Op, NEW c,
         call[o].pc \notin {"metadata", "lookup", "missing_key"},
         c.pc \notin {"metadata", "lookup", "missing_key"},
         call' = [call EXCEPT ![o] = c], UNCHANGED <<metadataRefresh, fetches>>,
         Once(ready'),
         \A p \in Op : p \in Waiting(ready') <=> call'[p].pc \in Resumed
  PROVE  Linked'
<1>1. call'[o] = c /\ \A p \in Op \ {o} : call'[p] = call[p]
  BY DEF Shape, TypeOK
<1>2. MetadataAwaited'
  BY <1>1 DEF Linked, MetadataAwaited
<1>3. JwksAwaited'
  <2>1. ASSUME NEW r \in Ref, fetches[r] # None
        PROVE  /\ Once(fetches[r].waiters) /\ call'[r[1]].pc = r[2]
               /\ r[1] \in Waiting(fetches[r].waiters)
    <3>1. r[1] \in Op /\ r[2] \in {"lookup", "missing_key"} /\ call[r[1]].pc = r[2]
      BY <2>1 DEF Ref, Linked, JwksAwaited
    <3>2. r[1] # o
      BY <3>1
    <3> QED
      BY <1>1, <2>1, <3>1, <3>2 DEF Linked, JwksAwaited
  <2>2. ASSUME NEW p \in Op, call'[p].pc \in {"lookup", "missing_key"}
        PROVE  \E r \in Ref : fetches[r] # None /\ p \in Waiting(fetches[r].waiters)
    BY <1>1, <2>2 DEF Linked, JwksAwaited
  <2> QED
    BY <2>1, <2>2 DEF JwksAwaited
<1>4. QueueComplete'
  BY DEF QueueComplete
<1> QED
  BY <1>2, <1>3, <1>4 DEF Linked

LEMMA StartedCall ==
  ASSUME TypeOK, NEW o \in Op, NEW token \in Token
  PROVE  [call[o] EXCEPT !.now = clock, !.token = token] \in Call
<1>1. call[o] \in Call /\ clock \in Nat
  BY DEF TypeOK
<1> QED
  BY <1>1 DEF Call

LEMMA StartLinked ==
  ASSUME Shape, Linked, NEW o \in Op, NEW token \in Token, Start(o, token)
  PROVE  Linked'
<1> DEFINE c == [call[o] EXCEPT !.now = clock, !.token = token]
<1>1. c \in Call /\ call[o].pc = "idle" /\ ready = <<>> /\ UNCHANGED fetches
  <2>1. TypeOK
    BY DEF Shape
  <2>2. c \in Call
    BY <2>1, StartedCall
  <2>3. call[o].pc = "idle" /\ ready = <<>> /\ UNCHANGED fetches
    BY DEF Start, jwksVars
  <2> QED
    BY <2>2, <2>3
<1>2. \A p \in Op : call[p].pc \notin Resumed
  BY <1>1, EmptyQueue
<1>3. ASSUME NEW d, d.pc \in Resumed, Continue(o, d)
      PROVE  Linked'
  <2>1. ready' = Append(<<>>, o) /\ UNCHANGED metadataRefresh /\ call' = [call EXCEPT ![o] = d]
    BY <1>1, <1>3 DEF Continue
  <2>2. ready' = <<o>>
    BY <2>1
  <2>3. Once(ready') /\ Waiting(ready') = {o}
    BY <2>2, AloneInList
  <2>4. \A p \in Op : p \in Waiting(ready') <=> call'[p].pc \in Resumed
    BY <1>2, <1>3, <2>1, <2>3 DEF Shape, TypeOK
  <2> QED
    BY <1>1, <1>3, <2>1, <2>3, <2>4, LocalLinked DEF Resumed
<1>4. CASE Continue(o, WithMetadata(c, metadata.value))
  <2>1. WithMetadata(c, metadata.value).pc = "admit"
    <3> HIDE DEF c
    <3> QED
      BY <1>1, UpdatedFields
  <2> QED
    BY <1>3, <1>4, <2>1 DEF Resumed
<1>5. CASE Continue(o, AfterMetadataFailure(c, metadataFailure.error))
  <2>1. AfterMetadataFailure(c, metadataFailure.error).pc \in {"admit", "failed"}
    <3> HIDE DEF c
    <3> QED
      BY <1>1, UpdatedFields DEF AfterMetadataFailure
  <2> QED
    BY <1>3, <1>5, <2>1 DEF Resumed
<1>6. CASE AwaitMetadata(o, c)
  <2> DEFINE d == [c EXCEPT !.pc = "metadata"]
  <2>1. call' = [call EXCEPT ![o] = d] /\ ready' = ready /\ d.pc = "metadata"
    BY <1>1, <1>6 DEF AwaitMetadata, Call
  <2> HIDE DEF d
  <2>2. call'[o].pc = "metadata" /\ \A p \in Op \ {o} : call'[p] = call[p]
    BY <2>1 DEF Shape, TypeOK
  <2>3. /\ metadataRefresh' # None /\ Once(metadataRefresh'.waiters)
        /\ Waiting(metadataRefresh'.waiters) =
             {o} \cup (IF metadataRefresh = None THEN {} ELSE Waiting(metadataRefresh.waiters))
    <3>1. CASE metadataRefresh = None
      <4>1. metadataRefresh' = [startedAt |-> clock, waiters |-> <<o>>]
        BY <1>6, <3>1 DEF AwaitMetadata
      <4>2. Once(<<o>>) /\ Waiting(<<o>>) = {o}
        BY AloneInList
      <4>3. metadataRefresh' \in MetadataRequest
        BY <4>1 DEF MetadataRequest, Shape, TypeOK
      <4> QED
        BY <3>1, <4>1, <4>2, <4>3, NoneAssumption
    <3>2. CASE metadataRefresh # None
      <4> DEFINE q == metadataRefresh.waiters
      <4>1. metadataRefresh \in MetadataRequest /\ q \in Seq(Op) /\ Once(q)
        BY <3>2 DEF Shape, TypeOK, MetadataRequest, Linked, MetadataAwaited
      <4>2. /\ metadataRefresh' = [metadataRefresh EXCEPT !.waiters = Append(q, o)]
            /\ metadataRefresh'.waiters = Append(q, o)
        BY <1>6, <3>2, <4>1 DEF AwaitMetadata, MetadataRequest
      <4>3. o \notin Waiting(q)
        BY <1>1, <3>2 DEF Shape, Bookkeeping, MetadataWaiters
      <4> HIDE DEF q
      <4>4. Once(Append(q, o)) /\ Waiting(Append(q, o)) = Waiting(q) \cup {o}
        BY <4>1, <4>3, OnceFacts, WaitingFacts
      <4>5. metadataRefresh' \in MetadataRequest
        <5>1. Append(q, o) \in Seq(Op)
          BY <4>1
        <5> QED
          BY <4>1, <4>2, <5>1 DEF MetadataRequest
      <4> QED
        BY <3>2, <4>2, <4>4, <4>5, NoneAssumption DEF q
    <3> QED
      BY <3>1, <3>2
  <2>4. MetadataAwaited'
    <3>1. metadataRefresh'.waiters # <<>>
      BY <2>3 DEF Waiting
    <3> QED
      BY <2>2, <2>3, <3>1 DEF Linked, MetadataAwaited
  <2>5. JwksAwaited'
    <3>1. \A r \in Ref : r[1] \in Op /\ r[2] \in {"lookup", "missing_key"}
      BY DEF Ref
    <3>2. \A r \in Ref : fetches[r] # None => r[1] # o
      BY <1>1, <3>1 DEF Linked, JwksAwaited
    <3> QED
      BY <1>1, <2>2, <3>1, <3>2 DEF Linked, JwksAwaited
  <2>6. QueueComplete'
    BY <1>1, <1>2, <2>1, <2>2 DEF Linked, QueueComplete, Resumed
  <2> QED
    BY <2>4, <2>5, <2>6 DEF Linked
<1> QED
  BY <1>4, <1>5, <1>6 DEF Start

\* The end of a request queues its waiters, each of them once.
LEMMA MetadataSettledLinked ==
  ASSUME Shape, Linked, MetadataSettles
  PROVE  Linked'
<1> DEFINE w == Waiting(metadataRefresh.waiters)
<1>1. /\ metadataRefresh # None /\ metadataRefresh' = None /\ UNCHANGED fetches
      /\ ready = <<>> /\ ready' = metadataRefresh.waiters
      /\ \A o \in Op \ w : call'[o] = call[o]
  BY DEF MetadataSettles, MetadataRefreshed, MetadataRefreshFailed, MetadataPending, jwksVars
<1>2. \A o \in w : o \in Op /\ call[o].pc = "metadata"
  BY <1>1, WaitersAreCalls DEF Shape, Bookkeeping, MetadataWaiters
<1>3. ASSUME NEW o \in w PROVE call'[o].pc \in {"admit", "failed"}
  <2>1. o \in Op /\ call[o] \in Call
    BY <1>2 DEF Shape, TypeOK
  <2>2. \A x : WithMetadata(call[o], x).pc = "admit"
    BY <2>1, UpdatedFields
  <2>3. \A x : AfterMetadataFailure(call[o], x).pc \in {"admit", "failed"}
    BY <2>1, UpdatedFields DEF AfterMetadataFailure
  <2> QED
    BY <2>1, <2>2, <2>3 DEF MetadataSettles, MetadataRefreshed, MetadataRefreshFailed
<1>4. \A o \in Op : call[o].pc \notin Resumed
  BY <1>1, EmptyQueue
<1>5. MetadataAwaited'
  <2>1. \A o \in Op : call'[o].pc # "metadata"
    BY <1>1, <1>3 DEF Linked, MetadataAwaited
  <2> QED
    BY <1>1, <2>1 DEF MetadataAwaited
<1>6. JwksAwaited'
  <2>1. \A r \in Ref : r[1] \in Op /\ r[2] \in {"lookup", "missing_key"}
    BY DEF Ref
  <2>2. \A r \in Ref : fetches[r] # None => r[1] \notin w
    BY <1>2, <2>1 DEF Linked, JwksAwaited
  <2>3. \A o \in Op : call'[o].pc \in {"lookup", "missing_key"} => call'[o] = call[o]
    BY <1>1, <1>3
  <2> QED
    BY <1>1, <2>1, <2>2, <2>3 DEF Linked, JwksAwaited
<1>7. QueueComplete'
  <2>1. Once(ready') /\ Waiting(ready') = w
    BY <1>1 DEF Linked, MetadataAwaited
  <2>2. \A o \in Op : o \in w <=> call'[o].pc \in Resumed
    BY <1>1, <1>3, <1>4 DEF Resumed
  <2> QED
    BY <2>1, <2>2 DEF QueueComplete
<1> QED
  BY <1>5, <1>6, <1>7 DEF Linked

LEMMA JwksSettledLinked ==
  ASSUME Shape, Linked, NEW r \in Ref, JwksSettles(r)
  PROVE  Linked'
<1> DEFINE w == Waiting(fetches[r].waiters)
<1>1. /\ fetches[r] # None /\ fetches' = [fetches EXCEPT ![r] = None]
      /\ ready = <<>> /\ ready' = fetches[r].waiters /\ UNCHANGED metadataRefresh
      /\ \A o \in Op \ w : call'[o] = call[o]
  BY DEF JwksSettles, JwksRefreshed, JwksRefreshFailed, JwksPending, metadataVars
<1>2. fetches'[r] = None /\ \A s \in Ref \ {r} : fetches'[s] = fetches[s]
  BY <1>1 DEF Shape, TypeOK
<1>3. \A o \in w : o \in Op /\ call[o].pc \in {"lookup", "missing_key"}
  BY <1>1, WaitersAreCalls DEF Shape, Bookkeeping, JwksWaiters
<1>4. ASSUME NEW o \in w
      PROVE  call'[o].pc \in {"verify", "recheck", "failed", "refresh_failed"}
  <2>1. o \in Op /\ call[o] \in Call
    BY <1>3 DEF Shape, TypeOK
  <2>2. \A x : WithJwks(call[o], x).pc \in {"verify", "recheck"}
    BY <2>1, UpdatedFields
  <2>3. AfterJwksFailure(call[o]).pc \in {"verify", "recheck", "failed", "refresh_failed"}
    BY <2>1, UpdatedFields DEF AfterJwksFailure
  <2> QED
    BY <2>1, <2>2, <2>3 DEF JwksSettles, JwksRefreshed, JwksRefreshFailed
<1>5. \A o \in Op : call[o].pc \notin Resumed
  BY <1>1, EmptyQueue
<1>6. MetadataAwaited'
  <2>1. \A o \in Op : call'[o].pc = "metadata" => call[o].pc = "metadata"
    BY <1>1, <1>4
  <2> QED
    BY <1>1, <2>1 DEF Linked, MetadataAwaited
<1>7. JwksAwaited'
  <2>1. ASSUME NEW o \in Op, call'[o].pc \in {"lookup", "missing_key"}
        PROVE  \E s \in Ref : fetches'[s] # None /\ o \in Waiting(fetches'[s].waiters)
    <3>1. o \notin w /\ call'[o] = call[o]
      BY <1>1, <1>4, <2>1
    <3>2. PICK s \in Ref : fetches[s] # None /\ o \in Waiting(fetches[s].waiters)
      BY <2>1, <3>1 DEF Linked, JwksAwaited
    <3> QED
      BY <1>2, <3>1, <3>2
  <2>2. ASSUME NEW s \in Ref, fetches'[s] # None
        PROVE  /\ Once(fetches'[s].waiters) /\ call'[s[1]].pc = s[2]
               /\ s[1] \in Waiting(fetches'[s].waiters)
    <3>1. s # r /\ fetches'[s] = fetches[s] /\ fetches[s] # None /\ s[1] \in Op
      BY <1>2, <2>2 DEF Ref
    <3>2. /\ Once(fetches[s].waiters) /\ call[s[1]].pc = s[2]
          /\ s[1] \in Waiting(fetches[s].waiters)
      BY <3>1 DEF Linked, JwksAwaited
    <3>3. s[1] \notin w
      BY <1>1, <3>1, <3>2 DEF Shape, Bookkeeping, JwksWaiters
    <3> QED
      BY <1>1, <3>1, <3>2, <3>3
  <2> QED
    BY <2>1, <2>2 DEF JwksAwaited
<1>8. QueueComplete'
  <2>1. Once(ready') /\ Waiting(ready') = w
    BY <1>1 DEF Linked, JwksAwaited
  <2>2. \A o \in Op : o \in w <=> call'[o].pc \in Resumed
    BY <1>1, <1>4, <1>5 DEF Resumed
  <2> QED
    BY <2>1, <2>2 DEF QueueComplete
<1> QED
  BY <1>6, <1>7, <1>8 DEF Linked

LEMMA AwaitJwksLinked ==
  ASSUME Shape, Linked, NEW o \in Op, ready # <<>>, o = Head(ready),
         call[o].pc \in {"admit", "verify"}, call[o].meta # None,
         AwaitJwks(o, call[o]), UNCHANGED metadataVars
  PROVE  Linked'
<1> DEFINE c == call[o]
           reason == IF ForMissingKey(c) THEN "missing_key" ELSE "lookup"
           identity == c.meta.identity
           r == IF Joinable(identity) THEN jwksRefresh ELSE <<o, reason>>
           d == [c EXCEPT !.pc = reason, !.resolved = jwks]
<1>1. c \in Call /\ reason \in {"lookup", "missing_key"} /\ d.pc = reason
  BY DEF Shape, TypeOK, Call
<1>2. /\ call' = [call EXCEPT ![o] = d] /\ ready' = Tail(ready)
      /\ UNCHANGED metadataRefresh
  BY DEF AwaitJwks, metadataVars
<1>3. r \in Ref
  BY DEF Joinable, Ref, Shape, TypeOK
<1>4. \A s \in Ref : fetches[s] # None =>
        /\ s[1] \in Op \ {o} /\ o \notin Waiting(fetches[s].waiters)
        /\ fetches[s].waiters \in Seq(Op)
  <2>1. ASSUME NEW s \in Ref, fetches[s] # None
        PROVE  /\ s[1] \in Op \ {o} /\ o \notin Waiting(fetches[s].waiters)
               /\ fetches[s].waiters \in Seq(Op)
    <3>1. s[1] \in Op /\ s[2] \in {"lookup", "missing_key"} /\ call[s[1]].pc = s[2]
      BY <2>1 DEF Ref, Linked, JwksAwaited
    <3>2. o \notin Waiting(fetches[s].waiters)
      BY <2>1 DEF Shape, Bookkeeping, JwksWaiters
    <3>3. fetches[s] \in JwksRequest
      BY <2>1 DEF Shape, TypeOK
    <3> QED
      BY <3>1, <3>2, <3>3 DEF JwksRequest
  <2> QED
    BY <2>1
\* What becomes of the requests: the one in the slot gets one more waiter, or
\* a request is added under a name that was free.
<1>5. /\ fetches'[r] # None /\ Once(fetches'[r].waiters)
      /\ o \in Waiting(fetches'[r].waiters)
      /\ fetches[r] # None =>
           Waiting(fetches[r].waiters) \subseteq Waiting(fetches'[r].waiters)
      /\ fetches[r] = None => r[1] = o /\ r[2] = reason
      /\ \A s \in Ref \ {r} : fetches'[s] = fetches[s]
  <2>1. CASE Joinable(identity)
    <3>1. /\ fetches[r] \in JwksRequest /\ fetches[r] # None
          /\ fetches[r].waiters \in Seq(Op) /\ Once(fetches[r].waiters)
      BY <1>3, <1>4, <2>1 DEF Joinable, Shape, TypeOK, Bookkeeping, SlotPending, Linked, JwksAwaited
    <3>2. fetches' = [fetches EXCEPT ![r].waiters = Append(fetches[r].waiters, o)]
      BY <2>1, <1>3, <3>1 DEF AwaitJwks, Shape, TypeOK
    <3>3. /\ fetches'[r] = [fetches[r] EXCEPT !.waiters = Append(fetches[r].waiters, o)]
          /\ \A s \in Ref \ {r} : fetches'[s] = fetches[s]
      BY <1>3, <3>2 DEF Shape, TypeOK
    <3>4. /\ fetches'[r] \in JwksRequest
          /\ fetches'[r].waiters = Append(fetches[r].waiters, o)
      <4>1. Append(fetches[r].waiters, o) \in Seq(Op)
        BY <3>1
      <4>2. fetches'[r] = [fetches[r] EXCEPT !.waiters = Append(fetches[r].waiters, o)]
        BY <3>3
      <4> HIDE DEF r
      <4> QED
        BY <3>1, <4>1, <4>2 DEF JwksRequest
    <3>5. /\ Waiting(Append(fetches[r].waiters, o)) = Waiting(fetches[r].waiters) \cup {o}
          /\ Once(Append(fetches[r].waiters, o))
      BY <1>3, <1>4, <3>1, WaitingFacts, OnceFacts
    <3> HIDE DEF r
    <3> QED
      BY <3>1, <3>3, <3>4, <3>5, NoneAssumption
  <2>2. CASE ~Joinable(identity)
    <3> DEFINE request == [identity |-> identity, startedAt |-> clock, waiters |-> <<o>>]
    <3>1. fetches' = [fetches EXCEPT ![r] = request] /\ r = <<o, reason>>
      BY <2>2 DEF AwaitJwks
    <3>2. Waiting(<<o>>) = {o} /\ Once(<<o>>)
      BY AloneInList
    <3>3. identity \in Identity /\ clock \in Nat
      BY <1>1 DEF Shape, TypeOK, Call, Document
    <3>4. request \in JwksRequest /\ request.waiters = <<o>>
      BY <3>3 DEF JwksRequest
    <3>5. fetches'[r] = request /\ \A s \in Ref \ {r} : fetches'[s] = fetches[s]
      BY <1>3, <3>1 DEF Shape, TypeOK
    <3>6. fetches[r] = None /\ r[1] = o /\ r[2] = reason
      BY <1>3, <1>4, <3>1
    <3> HIDE DEF r, request
    <3> QED
      BY <3>2, <3>4, <3>5, <3>6, NoneAssumption
  <2> QED
    BY <2>1, <2>2
<1> HIDE DEF r, d, reason
<1>6. call'[o].pc = reason /\ \A p \in Op \ {o} : call'[p] = call[p]
  BY <1>1, <1>2 DEF Shape, TypeOK
<1>7. MetadataAwaited'
  BY <1>1, <1>2, <1>6 DEF Linked, MetadataAwaited
<1>8. JwksAwaited'
  <2>1. ASSUME NEW p \in Op, call'[p].pc \in {"lookup", "missing_key"}
        PROVE  \E s \in Ref : fetches'[s] # None /\ p \in Waiting(fetches'[s].waiters)
    <3>1. CASE p = o
      BY <1>3, <1>5, <3>1
    <3>2. CASE p # o
      <4>1. PICK s \in Ref : fetches[s] # None /\ p \in Waiting(fetches[s].waiters)
        BY <1>6, <2>1, <3>2 DEF Linked, JwksAwaited
      <4> QED
        BY <1>5, <4>1
    <3> QED
      BY <3>1, <3>2
  <2>2. ASSUME NEW s \in Ref, fetches'[s] # None
        PROVE  /\ Once(fetches'[s].waiters) /\ call'[s[1]].pc = s[2]
               /\ s[1] \in Waiting(fetches'[s].waiters)
    <3>1. CASE fetches[s] # None
      <4>1. s[1] \in Op \ {o} /\ call[s[1]].pc = s[2] /\ s[1] \in Waiting(fetches[s].waiters)
            /\ Once(fetches[s].waiters)
        BY <1>4, <3>1 DEF Linked, JwksAwaited
      <4> QED
        BY <1>5, <1>6, <2>2, <3>1, <4>1
    <3>2. CASE fetches[s] = None
      <4>1. s = r
        BY <1>5, <2>2, <3>2
      <4> QED
        BY <1>5, <1>6, <3>2, <4>1
    <3> QED
      BY <3>1, <3>2
  <2> QED
    BY <2>1, <2>2 DEF JwksAwaited
<1>9. QueueComplete'
  <2>1. /\ Once(Tail(ready))
        /\ \A p \in Op : p \in Waiting(Tail(ready)) <=> p # o /\ call[p].pc \in Resumed
    BY RunQueue
  <2>2. call'[o].pc \notin Resumed
    BY <1>1, <1>6 DEF Resumed
  <2> QED
    BY <1>2, <1>6, <2>1, <2>2 DEF QueueComplete
<1> QED
  BY <1>7, <1>8, <1>9 DEF Linked

\* The running call ends, and leaves the queue.
LEMMA EndLinked ==
  ASSUME Shape, Linked, NEW o \in Op, ready # <<>>, o = Head(ready),
         call[o].pc \notin {"metadata", "lookup", "missing_key"},
         call' = [call EXCEPT ![o] = call'[o]], call'[o].pc \in {"done", "dropped"},
         ready' = Tail(ready), UNCHANGED <<metadataRefresh, fetches>>
  PROVE  Linked'
<1>1. \A p \in Op \ {o} : call'[p] = call[p]
  BY DEF Shape, TypeOK
<1>2. /\ Once(ready')
      /\ \A p \in Op : p \in Waiting(ready') <=> call'[p].pc \in Resumed
  BY <1>1, RunQueue DEF Resumed
<1> QED
  BY <1>2, LocalLinked

LEMMA RunLinked ==
  ASSUME Shape, Linked, NEW o \in Op, Run(o)
  PROVE  Linked'
<1> DEFINE c == call[o]
<1>1. /\ c \in Call /\ ready # <<>> /\ o = Head(ready)
      /\ c.pc \notin {"metadata", "lookup", "missing_key"}
      /\ UNCHANGED metadataVars
  BY DEF Shape, TypeOK, Run, Admit, Verify, Recheck, RefreshForMissingKeyFailed,
         Classify, Discard, Resumed, Runs
<1>2. ASSUME NEW outcome, Finish(o, outcome)
      PROVE  Linked'
  <2>1. Done(c, outcome).pc = "done"
    <3> HIDE DEF c
    <3> QED
      BY <1>1, UpdatedFields
  <2>2. call'[o].pc = "done" /\ call' = [call EXCEPT ![o] = call'[o]]
    BY <1>2, <2>1 DEF Finish, Shape, TypeOK
  <2>3. ready' = Tail(ready) /\ UNCHANGED <<metadataRefresh, fetches>>
    BY <1>1, <1>2 DEF Finish, metadataVars, jwksVars
  <2> QED
    BY <1>1, <2>2, <2>3, EndLinked
<1>3. ASSUME NEW d, d.pc \in {"verify", "recheck", "failed", "refresh_failed"}, Resume(o, d)
      PROVE  Linked'
  <2>1. /\ call' = [call EXCEPT ![o] = d] /\ ready' = Append(Tail(ready), o)
        /\ UNCHANGED <<metadataRefresh, fetches>>
    BY <1>1, <1>3 DEF Resume, metadataVars, jwksVars
  <2>2. call'[o] = d /\ \A p \in Op \ {o} : call'[p] = call[p]
    BY <2>1 DEF Shape, TypeOK
  <2>3. /\ Once(ready')
        /\ \A p \in Op : p \in Waiting(ready') <=> call'[p].pc \in Resumed
    BY <1>1, <1>3, <2>1, <2>2, RunQueue DEF Resumed
  <2> QED
    BY <1>1, <1>3, <2>1, <2>3, LocalLinked
<1>4. ASSUME RemoteJwks(o, c), c.pc \in {"admit", "verify"}
      PROVE  Linked'
  <2>1. CASE Resume(o, WithJwks(c, jwks.value))
    <3>1. WithJwks(c, jwks.value).pc \in {"verify", "recheck"}
      BY <1>1, UpdatedFields
    <3> QED
      BY <1>3, <2>1, <3>1
  <2>2. CASE Resume(o, AfterJwksFailure([c EXCEPT !.resolved = jwks]))
    <3> DEFINE b == [c EXCEPT !.resolved = jwks]
    <3>1. b \in Call
      BY <1>1 DEF Call, Shape, TypeOK
    <3> HIDE DEF b
    <3>2. AfterJwksFailure(b).pc \in {"verify", "recheck", "failed", "refresh_failed"}
      BY <3>1, UpdatedFields DEF AfterJwksFailure
    <3> QED
      BY <1>3, <2>2, <3>2 DEF b
  <2>3. CASE AwaitJwks(o, c)
    <3>1. c.meta # None
      BY <1>4 DEF Shape, Bookkeeping, DocumentsHeld, HoldsMetadata
    <3> QED
      BY <1>1, <1>4, <2>3, <3>1, AwaitJwksLinked
  <2> QED
    BY <1>4, <2>1, <2>2, <2>3 DEF RemoteJwks
<1>5. CASE Discard(o)
  <2>1. call'[o].pc = "dropped" /\ call' = [call EXCEPT ![o] = call'[o]]
    BY <1>5 DEF Discard, Shape, TypeOK, Call
  <2>2. ready' = Tail(ready) /\ UNCHANGED <<metadataRefresh, fetches>>
    BY <1>5 DEF Discard, metadataVars, jwksVars
  <2> QED
    BY <1>1, <2>1, <2>2, EndLinked
<1> QED
  BY <1>2, <1>4, <1>5
     DEF Run, Admit, Verify, Recheck, RefreshForMissingKeyFailed, Classify, Runs

\* The lists of waiters and the queue name each call once, and only where its
\* own progress says it waits.
THEOREM LinkedHolds == Spec => []Linked
<1>1. Init => Linked
  <2> SUFFICES ASSUME Init PROVE Linked
    OBVIOUS
  <2>1. ready = <<>> /\ Once(ready) /\ Waiting(ready) = {}
    BY DEF Init, Once, Waiting
  <2> QED
    BY <2>1 DEF Init, Linked, MetadataAwaited, JwksAwaited, QueueComplete, Resumed
<1>2. Shape /\ Linked /\ [Next]_vars => Linked'
  <2> SUFFICES ASSUME Shape, Linked, [Next]_vars PROVE Linked'
    OBVIOUS
  <2>1. CASE Environment \/ UNCHANGED vars
    <3>1. UNCHANGED <<metadataVars, jwksVars, call, ready>>
      BY <2>1 DEF Environment, Tick, NextEpoch, Drop, Terminated, vars
    <3> QED
      BY <3>1 DEF Linked, MetadataAwaited, JwksAwaited, QueueComplete, metadataVars, jwksVars
  <2> QED
    BY <2>1, StartLinked, RunLinked, MetadataSettledLinked, JwksSettledLinked
       DEF Next, Environment
<1> QED
  BY <1>1, <1>2, ShapeInvariant, PTL DEF Spec

\* No call is left waiting for a request that has ended, been overtaken in the
\* slot or been shared with others: every suspended call is in the list of a
\* pending request, and every call with a step to take is queued for it.
THEOREM NobodyForgottenHolds == Spec => []NobodyForgotten
<1>1. Shape /\ Linked => NobodyForgotten
  BY DEF Shape, Bookkeeping, SlotPending, Linked, MetadataAwaited, JwksAwaited,
         QueueComplete, Resumed, NobodyForgotten
<1> QED
  BY <1>1, ShapeInvariant, LinkedHolds, PTL

-----------------------------------------------------------------------------
(* Where answers come from.  What a call is told rests on documents that    *)
(* show an epoch of the provider which had not ended when they were asked   *)
(* for, and on failures that were recorded when they happened.  The three   *)
(* properties below, and the contract, need all of it at once: a cached     *)
(* entry is as old as its request, a request is as old as its timeout       *)
(* allows, and a call keeps what it was handed while time goes on.          *)

\* The provider published what the document shows when it was asked for, or
\* later.
Dated(document) ==
  document.epoch \in DOMAIN epochStart /\ EndOf(document.epoch) >= document.base

\* It published it within the trust lifetime before the call began, or later.
Trusted(document, now) ==
  /\ document.epoch \in DOMAIN epochStart
  /\ EndOf(document.epoch) + MaximumFreshness + StaleAllowance >= now

\* It published it within the cooldown, or one request, before the call began.
Recent(document, now) ==
  \/ EndOf(document.epoch) + RefreshCooldown > now
  \/ EndOf(document.epoch) + RequestTimeout >= now

Named(document) == document.identity = Schedule[document.epoch].metadata

\* What a call holds.
Held(c) ==
  /\ c.resolved # None => Dated(c.resolved.value)
  /\ c.meta # None => Trusted(c.meta, c.now) /\ Named(c.meta)
  /\ c.doc # None => Trusted(c.doc, c.now)

\* Why a call is where it is.
Reasoned(c, failedAt) ==
  /\ c.pc \in HoldsMetadata \ {"admit"} => c.token.alg \in c.meta.identity.algs
  /\ c.pc \in {"verify", "missing_key", "recheck", "refresh_failed"} => c.doc # None
  /\ c.pc \in {"missing_key", "refresh_failed"} => ~HasMatchingKey(c.token, c.doc)
  /\ c.pc = "recheck" => Recent(c.doc, c.now)
  /\ c.pc = "refresh_failed" => FailedRecently(failedAt, c.now)
  /\ c.pc # "done" => c.outcome \in {None, "provider_unavailable", "metadata_rejected"}
  /\ c.pc \in {"failed", "refresh_failed"} => c.outcome # None
  /\ c.pc = "done" /\ c.outcome = "unknown_key" =>
       /\ c.doc # None
       /\ Recent(c.doc, c.now) \/ (FailedRecently(failedAt, c.now) /\ ~Lapsed(c.doc, c.now))

\* The clock does not pass the timeout of a request, unless it was dropped, and
\* the call that sends one began before.
Timely(r) ==
  /\ call[r[1]].now <= fetches[r].startedAt /\ fetches[r].startedAt <= clock
  /\ JwksPending(r) => clock <= fetches[r].startedAt + RequestTimeout

FailuresDated ==
  /\ metadataFailure # None /\ metadataFailure.error = "provider_unavailable" =>
       /\ outage.metadata # None
       /\ metadataFailure.retryAfter <= outage.metadata + FailureBackoff
  /\ jwksFailure # None =>
       outage.jwks # None /\ jwksFailure.retryAfter <= outage.jwks + FailureBackoff
  /\ outage.jwks # None => outage.jwks <= clock

CachesDated ==
  /\ metadata # None => Dated(metadata.value) /\ Named(metadata.value)
  /\ jwks # None =>
       /\ Dated(jwks.value)
       /\ jwksRefreshAllowedAfter <= jwks.value.base + RefreshCooldown

RequestsDated ==
  /\ MetadataPending => clock <= metadataRefresh.startedAt + RequestTimeout
  /\ \A r \in Ref : fetches[r] # None => Timely(r)

CallsReasoned == \A o \in Op : Held(call[o]) /\ Reasoned(call[o], outage.jwks)

Provenance == CachesDated /\ RequestsDated /\ FailuresDated /\ CallsReasoned

\* However a call goes on, it is the same call: its time and its token.
LEMMA IdentityKept ==
  ASSUME NEW c \in Call
  PROVE  /\ \A d : WithMetadata(c, d).now = c.now /\ WithMetadata(c, d).token = c.token
         /\ \A d : WithJwks(c, d).now = c.now /\ WithJwks(c, d).token = c.token
         /\ \A error : /\ AfterMetadataFailure(c, error).now = c.now
                       /\ AfterMetadataFailure(c, error).token = c.token
         /\ AfterJwksFailure(c).now = c.now /\ AfterJwksFailure(c).token = c.token
<1>1. \A d : WithMetadata(c, d).now = c.now /\ WithMetadata(c, d).token = c.token
  BY DEF Call, WithMetadata
<1>2. \A d : WithJwks(c, d).now = c.now /\ WithJwks(c, d).token = c.token
  BY DEF Call, WithJwks
<1>3. \A pc, error : Failing(c, pc, error).now = c.now /\ Failing(c, pc, error).token = c.token
  BY DEF Call, Failing
<1>4. \A error : /\ AfterMetadataFailure(c, error).now = c.now
                /\ AfterMetadataFailure(c, error).token = c.token
  BY <1>1, <1>3 DEF AfterMetadataFailure
<1>5. AfterJwksFailure(c).now = c.now /\ AfterJwksFailure(c).token = c.token
  BY <1>2, <1>3 DEF AfterJwksFailure
<1> QED
  BY <1>1, <1>2, <1>4, <1>5

\* An epoch that has ended has ended for good, and the current one ends no
\* earlier than now.
LEMMA EpochsLast ==
  ASSUME TypeOK, clock' \in Nat, clock <= clock',
         \/ epochStart' = epochStart
         \/ epochStart' = Append(epochStart, clock) /\ clock' = clock
  PROVE  \A e \in DOMAIN epochStart :
           /\ e \in DOMAIN epochStart'
           /\ EndOf(e) \in Nat /\ EndOf(e)' \in Nat /\ EndOf(e) <= EndOf(e)'
<1>1. epochStart \in Seq(Nat) /\ clock \in Nat
  BY DEF TypeOK
<1>2. CASE epochStart' = epochStart
  BY <1>1, <1>2 DEF EndOf, CurrentEpoch
<1>3. CASE epochStart' = Append(epochStart, clock) /\ clock' = clock
  BY <1>1, <1>3 DEF EndOf, CurrentEpoch
<1> QED
  BY <1>2, <1>3

LEMMA EndOfType ==
  ASSUME TypeOK
  PROVE  \A e \in DOMAIN epochStart : EndOf(e) \in Nat
  BY DEF TypeOK, EndOf, CurrentEpoch

\* A cached document that may still be used shows what may still be trusted.
LEMMA UsableTrusted ==
  ASSUME TypeOK, NEW entry \in Entry, EntrySound(entry), Dated(entry.value),
         NEW now \in Nat, now < entry.freshUntil \/ now < entry.staleUntil
  PROVE  Trusted(entry.value, now)
<1> DEFINE d == entry.value
<1>1. /\ d.control \in CacheControl /\ d.base \in Nat
      /\ entry.freshUntil = d.base + BoundedFreshness(d.control)
      /\ entry.staleUntil = IF StalePermitted(d.control)
                              THEN d.base + BoundedFreshness(d.control) + StaleAllowance
                              ELSE d.base
  BY NoneAssumption DEF Entry, Document, EntrySound, CacheEntry
<1>2. BoundedFreshness(d.control) \in Nat /\ BoundedFreshness(d.control) <= MaximumFreshness
  BY <1>1, FreshnessType, CacheControlAssumption, TimeAssumption DEF BoundedFreshness, Smaller
<1>3. d.epoch \in DOMAIN epochStart /\ EndOf(d.epoch) \in Nat /\ EndOf(d.epoch) >= d.base
  BY EndOfType DEF Dated
<1> HIDE DEF d
<1>4. now <= d.base + MaximumFreshness + StaleAllowance
  BY <1>1, <1>2, TimeAssumption
<1>5. EndOf(d.epoch) + MaximumFreshness + StaleAllowance >= now
  BY <1>1, <1>3, <1>4, TimeAssumption
<1> QED
  BY <1>3, <1>5 DEF Trusted, d

\* An answer shows what was published when its request was sent, or since, and
\* no call that waits for it began later than the timeout allows.
LEMMA AnswerTrusted ==
  ASSUME TypeOK, NEW started \in Nat, clock <= started + RequestTimeout,
         NEW d \in Document, d.epoch \in Published(started), d.base <= started
  PROVE  /\ Dated(d)
         /\ \A now \in Nat : now <= clock => Trusted(d, now) /\ Recent(d, now)
<1>1. /\ d.epoch \in DOMAIN epochStart /\ EndOf(d.epoch) \in Nat /\ d.base \in Nat
      /\ EndOf(d.epoch) >= started /\ clock \in Nat
  BY EndOfType DEF Published, Document, TypeOK
<1> QED
  BY <1>1, TimeAssumption, TrustAssumption DEF Dated, Trusted, Recent

LEMMA WithMetadataReasoned ==
  ASSUME NEW c \in Call, NEW failedAt, Held(c), Reasoned(c, failedAt), c.pc # "done",
         NEW d, Trusted(d, c.now), Named(d)
  PROVE  Held(WithMetadata(c, d)) /\ Reasoned(WithMetadata(c, d), failedAt)
<1>1. Held(WithMetadata(c, d))
  BY UpdatedFields DEF Held
<1>2. /\ WithMetadata(c, d).pc = "admit"
      /\ WithMetadata(c, d).outcome \in {None, "provider_unavailable", "metadata_rejected"}
  BY UpdatedFields, UpdatedAnswer DEF Reasoned
<1> QED
  BY <1>1, <1>2 DEF Reasoned

\* A JWK Set is handed to a call whose algorithm was admitted; to one that
\* misses a key, only if it is recent.
LEMMA WithJwksReasoned ==
  ASSUME NEW c \in Call, NEW failedAt, NEW f, Held(c), Reasoned(c, f),
         c.pc \in {"admit", "verify", "lookup", "missing_key"},
         c.token.alg \in c.meta.identity.algs,
         NEW d \in Document, Trusted(d, c.now), ForMissingKey(c) => Recent(d, c.now)
  PROVE  Held(WithJwks(c, d)) /\ Reasoned(WithJwks(c, d), failedAt)
<1> DEFINE b == WithJwks(c, d)
<1>1. /\ b.meta = c.meta /\ b.doc = d /\ b.now = c.now /\ b.resolved = None
      /\ b.token = c.token /\ b.outcome = c.outcome
      /\ b.pc = IF ForMissingKey(c) THEN "recheck" ELSE "verify"
  BY UpdatedFields, UpdatedAnswer
<1> HIDE DEF b
<1>2. Held(b)
  BY <1>1 DEF Held
<1>3. b.doc # None /\ b.outcome \in {None, "provider_unavailable", "metadata_rejected"}
  BY <1>1, NoneAssumption DEF Reasoned
<1>4. Reasoned(b, failedAt)
  BY <1>1, <1>3 DEF Reasoned
<1> QED
  BY <1>2, <1>4 DEF b

LEMMA FailingReasoned ==
  ASSUME NEW c \in Call, NEW failedAt, Held(c),
         NEW error \in {"provider_unavailable", "metadata_rejected"},
         NEW pc \in {"failed", "refresh_failed"},
         pc = "refresh_failed" =>
           /\ c.token.alg \in c.meta.identity.algs
           /\ c.doc # None /\ ~HasMatchingKey(c.token, c.doc)
           /\ FailedRecently(failedAt, c.now)
  PROVE  Held(Failing(c, pc, error)) /\ Reasoned(Failing(c, pc, error), failedAt)
<1> DEFINE b == Failing(c, pc, error)
<1>1. /\ b.meta = c.meta /\ b.doc = c.doc /\ b.now = c.now /\ b.resolved = None
      /\ b.token = c.token /\ b.outcome = error /\ b.pc = pc
  BY UpdatedFields, UpdatedAnswer
<1> HIDE DEF b
<1>2. Held(b)
  BY <1>1 DEF Held
<1>3. Reasoned(b, failedAt)
  BY <1>1, OutcomeAssumption DEF Reasoned, HoldsMetadata, Outcome, Rejection
<1> QED
  BY <1>2, <1>3 DEF b

LEMMA DoneReasoned ==
  ASSUME NEW c \in Call, NEW failedAt, Held(c), NEW outcome,
         outcome = "unknown_key" =>
           /\ c.doc # None
           /\ \/ Recent(c.doc, c.now)
              \/ FailedRecently(failedAt, c.now) /\ ~Lapsed(c.doc, c.now)
  PROVE  Held(Done(c, outcome)) /\ Reasoned(Done(c, outcome), failedAt)
<1> DEFINE b == Done(c, outcome)
<1>1. /\ b.meta = c.meta /\ b.doc = c.doc /\ b.now = c.now /\ b.resolved = c.resolved
      /\ b.token = c.token /\ b.outcome = outcome /\ b.pc = "done"
  BY UpdatedFields, UpdatedAnswer
<1> HIDE DEF b
<1>2. Held(b)
  BY <1>1 DEF Held
<1>3. Reasoned(b, failedAt)
  BY <1>1 DEF Reasoned, HoldsMetadata
<1> QED
  BY <1>2, <1>3 DEF b

\* After a failure a call falls back on metadata it may still trust, or fails.
LEMMA AfterMetadataFailureReasoned ==
  ASSUME TypeOK, EntrySound(metadata),
         metadata # None => Dated(metadata.value) /\ Named(metadata.value),
         NEW c \in Call, NEW failedAt, Held(c), Reasoned(c, failedAt), c.pc # "done",
         NEW error \in {"provider_unavailable", "metadata_rejected"}
  PROVE  /\ Held(AfterMetadataFailure(c, error))
         /\ Reasoned(AfterMetadataFailure(c, error), failedAt)
<1>1. CASE error = "provider_unavailable" /\ UsableWhenStale(metadata, c.now)
  <2>1. Trusted(metadata.value, c.now) /\ Named(metadata.value)
    BY <1>1, UsableTrusted DEF UsableWhenStale, TypeOK, Call
  <2> QED
    BY <1>1, <2>1, WithMetadataReasoned DEF AfterMetadataFailure
<1>2. CASE ~(error = "provider_unavailable" /\ UsableWhenStale(metadata, c.now))
  BY <1>2, FailingReasoned DEF AfterMetadataFailure
<1> QED
  BY <1>1, <1>2

LEMMA AfterJwksFailureReasoned ==
  ASSUME TypeOK, NEW c \in Call, NEW failedAt, NEW f, EntrySound(c.resolved),
         Held(c), Reasoned(c, f), c.pc \in {"admit", "verify", "lookup", "missing_key"},
         c.token.alg \in c.meta.identity.algs,
         ForMissingKey(c) => c.doc # None /\ ~HasMatchingKey(c.token, c.doc),
         FailedRecently(failedAt, c.now)
  PROVE  Held(AfterJwksFailure(c)) /\ Reasoned(AfterJwksFailure(c), failedAt)
<1>1. CASE /\ ~ForMissingKey(c) /\ SameIdentity(c.resolved, c.meta.identity)
           /\ UsableWhenStale(c.resolved, c.now)
  <2>1. c.resolved \in Entry /\ c.now \in Nat /\ c.resolved.value \in Document
    BY <1>1 DEF UsableWhenStale, Call, Entry
  <2>2. Trusted(c.resolved.value, c.now)
    BY <1>1, <2>1, UsableTrusted DEF UsableWhenStale, Held
  <2> QED
    BY <1>1, <2>1, <2>2, WithJwksReasoned DEF AfterJwksFailure
<1>2. CASE ~(/\ ~ForMissingKey(c) /\ SameIdentity(c.resolved, c.meta.identity)
             /\ UsableWhenStale(c.resolved, c.now))
  <2>1. CASE ForMissingKey(c)
    BY <1>2, <2>1, FailingReasoned DEF AfterJwksFailure
  <2>2. CASE ~ForMissingKey(c)
    BY <1>2, <2>2, FailingReasoned DEF AfterJwksFailure
  <2> QED
    BY <2>1, <2>2
<1> QED
  BY <1>1, <1>2

\* A step during which no time passes keeps what it proves of each call.
LEMMA CallsCarried ==
  ASSUME UNCHANGED providerVars,
         \A o \in Op : Held(call'[o]) /\ Reasoned(call'[o], outage'.jwks)
  PROVE  CallsReasoned'
<1>1. \A d : Dated(d)' <=> Dated(d)
  BY DEF Dated, EndOf, CurrentEpoch, providerVars
<1>2. \A d, now : (Trusted(d, now)' <=> Trusted(d, now)) /\ (Recent(d, now)' <=> Recent(d, now))
  BY DEF Trusted, Recent, EndOf, CurrentEpoch, providerVars
<1>3. \A o \in Op : Held(call[o])'
  BY <1>1, <1>2 DEF Held, Named
<1>4. \A o \in Op : Reasoned(call[o], outage.jwks)'
  BY <1>2 DEF Reasoned, HasMatchingKey, KeysOf, Lapsed, FailedRecently
<1> QED
  BY <1>3, <1>4 DEF CallsReasoned

LEMMA CachesCarried ==
  ASSUME UNCHANGED providerVars,
         metadata' # None => Dated(metadata'.value) /\ Named(metadata'.value),
         jwks' # None =>
           /\ Dated(jwks'.value)
           /\ jwksRefreshAllowedAfter' <= jwks'.value.base + RefreshCooldown
  PROVE  CachesDated'
  BY DEF CachesDated, Dated, Named, EndOf, CurrentEpoch, providerVars

\* As time passes documents stay dated, trusted and recent, and requests stay
\* within their timeout.
LEMMA EnvironmentProvenance ==
  ASSUME Shape, AgeInvariant, Provenance, Environment \/ UNCHANGED vars
  PROVE  Provenance'
<1>1. /\ TypeOK /\ clock \in Nat /\ clock' \in Nat /\ clock <= clock'
      /\ \/ epochStart' = epochStart
         \/ epochStart' = Append(epochStart, clock) /\ clock' = clock
      /\ dropped \subseteq dropped'
      /\ UNCHANGED <<metadataVars, jwksVars, call, historyVars>>
  BY DEF Environment, Tick, NextEpoch, Drop, Terminated, vars, providerVars, Shape, TypeOK
<1>2. \A e \in DOMAIN epochStart :
        /\ e \in DOMAIN epochStart'
        /\ EndOf(e) \in Nat /\ EndOf(e)' \in Nat /\ EndOf(e) <= EndOf(e)'
  BY <1>1, EpochsLast
<1>3. \A d \in Document : Dated(d) => Dated(d)'
  BY <1>2 DEF Dated, Document
<1>4. \A d, now : now \in Nat /\ Trusted(d, now) =>
        /\ Trusted(d, now)'
        /\ Recent(d, now) => Recent(d, now)'
  BY <1>2, TimeAssumption DEF Trusted, Recent
<1>5. CachesDated'
  <2>1. /\ metadata # None => metadata.value \in Document
        /\ jwks # None => jwks.value \in Document
    BY <1>1 DEF TypeOK, Entry
  <2>2. UNCHANGED <<metadata, jwks, jwksRefreshAllowedAfter>>
    BY <1>1 DEF metadataVars, jwksVars
  <2>3. /\ metadata # None => Dated(metadata.value)' /\ Named(metadata.value)
        /\ jwks # None => /\ Dated(jwks.value)'
                          /\ jwksRefreshAllowedAfter <= jwks.value.base + RefreshCooldown
    BY <1>3, <2>1, <2>2 DEF Provenance, CachesDated, Dated
  <2> QED
    BY <2>2, <2>3 DEF CachesDated, Named
<1>6. RequestsDated'
  <2>1. CASE clock' = clock
    BY <1>1, <2>1
       DEF Provenance, RequestsDated, Timely, MetadataPending, JwksPending, metadataVars, jwksVars
  <2>2. CASE Tick
    <3>0. UNCHANGED <<metadataRefresh, fetches, call, dropped>>
      BY <2>2 DEF Tick, metadataVars, jwksVars
    <3>1. ASSUME MetadataPending
          PROVE  clock' <= metadataRefresh.startedAt + RequestTimeout
      <4>1. ~Overdue(metadataRefresh.startedAt) /\ metadataRefresh.startedAt \in Nat
        BY <1>1, <2>2, <3>1 DEF Tick, TypeOK, MetadataRequest, MetadataPending
      <4> QED
        BY <1>1, <2>2, <4>1, TimeAssumption DEF Overdue, Tick
    <3>2. ASSUME NEW r \in Ref, fetches[r] # None
          PROVE  /\ call[r[1]].now <= fetches[r].startedAt
                 /\ fetches[r].startedAt <= clock'
                 /\ JwksPending(r) => clock' <= fetches[r].startedAt + RequestTimeout
      <4>1. JwksPending(r) => ~Overdue(fetches[r].startedAt)
        BY <2>2 DEF Tick
      <4>2. fetches[r].startedAt \in Nat
        BY <1>1, <3>2 DEF TypeOK, JwksRequest
      <4>3. Timely(r)
        BY <3>2 DEF Provenance, RequestsDated
      <4>4. r[1] \in Op /\ call[r[1]].now \in Nat
        BY <1>1 DEF Ref, TypeOK, Call
      <4> QED
        BY <1>1, <2>2, <4>1, <4>2, <4>3, <4>4, TimeAssumption DEF Overdue, Tick, Timely
    <3> QED
      BY <3>0, <3>1, <3>2 DEF RequestsDated, Timely, MetadataPending, JwksPending
  <2> QED
    BY <2>1, <2>2 DEF Environment, Tick, NextEpoch, Drop, Terminated, vars, providerVars
<1>7. FailuresDated'
  BY <1>1 DEF Provenance, FailuresDated, TypeOK, metadataVars, jwksVars, historyVars
<1>8. CallsReasoned'
  <2>1. UNCHANGED <<call, outage>>
    BY <1>1 DEF historyVars
  <2>2. ASSUME NEW c \in Call, NEW f, Held(c), Reasoned(c, f)
        PROVE  Held(c)' /\ Reasoned(c, f)'
    <3>1. c.now \in Nat /\ (c.resolved # None => c.resolved.value \in Document)
      BY DEF Call, Entry
    <3>2. Held(c)'
      BY <1>3, <1>4, <2>2, <3>1 DEF Held, Named
    <3>3. Reasoned(c, f)'
      BY <1>4, <2>2, <3>1 DEF Held, Reasoned, HasMatchingKey, KeysOf, Lapsed, FailedRecently
    <3> QED
      BY <3>2, <3>3
  <2>3. \A o \in Op : call[o] \in Call /\ Held(call[o]) /\ Reasoned(call[o], outage.jwks)
    BY DEF Provenance, CallsReasoned, Shape, TypeOK
  <2> QED
    BY <2>1, <2>2, <2>3 DEF CallsReasoned
<1> QED
  BY <1>5, <1>6, <1>7, <1>8 DEF Provenance

\* Requests stay within their timeout when none starts but now, and the calls
\* that sent them keep the time they began.
LEMMA RequestsCarried ==
  ASSUME Shape, Linked, Provenance, UNCHANGED <<clock, dropped>>,
         metadataRefresh' # None =>
           \/ metadataRefresh'.startedAt = clock
           \/ /\ metadataRefresh # None
              /\ metadataRefresh'.startedAt = metadataRefresh.startedAt
              /\ Head(metadataRefresh'.waiters) = Head(metadataRefresh.waiters),
         \A r \in Ref : fetches'[r] # None =>
           \/ fetches[r] # None /\ fetches'[r].startedAt = fetches[r].startedAt
           \/ fetches'[r].startedAt = clock /\ call'[r[1]].now <= clock,
         \A o \in Op : call[o].pc # "idle" => call'[o].now = call[o].now
  PROVE  RequestsDated'
<1>1. clock \in Nat
  BY DEF Shape, TypeOK
<1>2. MetadataPending' => clock <= metadataRefresh'.startedAt + RequestTimeout
  BY <1>1, TimeAssumption DEF Provenance, RequestsDated, MetadataPending
<1>3. ASSUME NEW r \in Ref, fetches'[r] # None
      PROVE  /\ call'[r[1]].now <= fetches'[r].startedAt
             /\ fetches'[r].startedAt <= clock
             /\ r[1] \notin dropped => clock <= fetches'[r].startedAt + RequestTimeout
  <2>1. CASE fetches[r] # None /\ fetches'[r].startedAt = fetches[r].startedAt
    <3>1. r[1] \in Op /\ r[2] \in {"lookup", "missing_key"} /\ call[r[1]].pc = r[2]
      BY <2>1 DEF Ref, Linked, JwksAwaited
    <3>2. call'[r[1]].now = call[r[1]].now
      BY <3>1
    <3>3. Timely(r)
      BY <2>1 DEF Provenance, RequestsDated
    <3> QED
      BY <2>1, <3>2, <3>3 DEF Timely, JwksPending
  <2>2. CASE fetches'[r].startedAt = clock /\ call'[r[1]].now <= clock
    BY <1>1, <2>2, TimeAssumption
  <2> QED
    BY <1>3, <2>1, <2>2
<1> QED
  BY <1>2, <1>3 DEF RequestsDated, Timely, JwksPending

\* A step of one call and of no cache.
LEMMA LocalReasoned ==
  ASSUME Shape, Provenance, NEW o \in Op, NEW c, Held(c), Reasoned(c, outage.jwks),
         call' = [call EXCEPT ![o] = c], UNCHANGED <<providerVars, outage>>
  PROVE  CallsReasoned'
<1>1. \A p \in Op : Held(call'[p]) /\ Reasoned(call'[p], outage'.jwks)
  BY DEF Provenance, CallsReasoned, Shape, TypeOK
<1> QED
  BY <1>1, CallsCarried

LEMMA StartProvenance ==
  ASSUME Shape, Linked, AgeInvariant, Provenance,
         NEW o \in Op, NEW token \in Token, Start(o, token)
  PROVE  Provenance'
<1> DEFINE c == [call[o] EXCEPT !.now = clock, !.token = token]
<1>1. /\ TypeOK /\ call[o].pc = "idle"
      /\ UNCHANGED <<providerVars, metadata, metadataFailure, jwksVars, dropped, historyVars>>
  BY DEF Start, Shape
<1>2. /\ c \in Call /\ c.pc = "idle" /\ c.now = clock /\ c.meta = None /\ c.doc = None
      /\ c.resolved = call[o].resolved /\ c.outcome = call[o].outcome
  <2>1. call[o] \in Call /\ clock \in Nat
    BY <1>1 DEF TypeOK
  <2>2. call[o].meta = None /\ call[o].doc = None
    BY <1>1 DEF Shape, Bookkeeping, DocumentsHeld
  <2> QED
    BY <1>1, <2>1, <2>2, StartedCall DEF Call
<1> HIDE DEF c
<1>3. Held(c) /\ Reasoned(c, outage.jwks)
  <2>1. Held(call[o]) /\ Reasoned(call[o], outage.jwks)
    BY DEF Provenance, CallsReasoned
  <2> QED
    BY <1>1, <1>2, <2>1 DEF Held, Reasoned, HoldsMetadata
<1>4. PICK d : call' = [call EXCEPT ![o] = d] /\ Held(d) /\ Reasoned(d, outage.jwks)
  <2>1. CASE Fresh(metadata, c.now) /\ Continue(o, WithMetadata(c, metadata.value))
    <3>1. Trusted(metadata.value, c.now) /\ Named(metadata.value)
      BY <1>1, <1>2, <2>1, UsableTrusted
         DEF Fresh, AgeInvariant, TypeOK, Provenance, CachesDated
    <3> QED
      BY <1>2, <1>3, <2>1, <3>1, WithMetadataReasoned DEF Continue
  <2>2. CASE BackingOff(c.now) /\ Continue(o, AfterMetadataFailure(c, metadataFailure.error))
    <3>1. metadataFailure.error \in {"provider_unavailable", "metadata_rejected"}
      BY <1>1, <2>2 DEF BackingOff, TypeOK
    <3> QED
      BY <1>1, <1>2, <1>3, <2>2, <3>1, AfterMetadataFailureReasoned
         DEF Continue, AgeInvariant, Provenance, CachesDated
  <2>3. CASE AwaitMetadata(o, c)
    <3> DEFINE d == [c EXCEPT !.pc = "metadata"]
    <3>1. /\ d.pc = "metadata" /\ d.now = c.now /\ d.meta = c.meta /\ d.doc = c.doc
          /\ d.resolved = c.resolved /\ d.outcome = c.outcome
      BY <1>2 DEF Call
    <3>2. call' = [call EXCEPT ![o] = d]
      BY <2>3 DEF AwaitMetadata
    <3> HIDE DEF d
    <3>3. Held(d) /\ Reasoned(d, outage.jwks)
      BY <1>2, <1>3, <3>1 DEF Held, Reasoned, HoldsMetadata
    <3> QED
      BY <3>2, <3>3
  <2> QED
    BY <2>1, <2>2, <2>3 DEF Start, c
<1>5. CallsReasoned'
  BY <1>1, <1>4, LocalReasoned DEF historyVars
<1>6. CachesDated'
  BY <1>1, CachesCarried DEF Provenance, CachesDated, jwksVars
<1>7. FailuresDated'
  BY <1>1 DEF Provenance, FailuresDated, providerVars, jwksVars, historyVars
<1>8. RequestsDated'
  <2>1. metadataRefresh' # None =>
          \/ metadataRefresh'.startedAt = clock
          \/ /\ metadataRefresh # None
             /\ metadataRefresh'.startedAt = metadataRefresh.startedAt
             /\ Head(metadataRefresh'.waiters) = Head(metadataRefresh.waiters)
    <3>1. CASE UNCHANGED metadataRefresh
      BY <3>1
    <3>2. CASE metadataRefresh = None /\ AwaitMetadata(o, c)
      BY <3>2 DEF AwaitMetadata
    <3>3. CASE metadataRefresh # None /\ AwaitMetadata(o, c)
      <4>1. /\ metadataRefresh \in MetadataRequest /\ metadataRefresh.waiters \in Seq(Op)
            /\ metadataRefresh.waiters # <<>>
        BY <1>1, <3>3 DEF TypeOK, MetadataRequest, Linked, MetadataAwaited
      <4>2. /\ metadataRefresh'.startedAt = metadataRefresh.startedAt
            /\ metadataRefresh'.waiters = Append(metadataRefresh.waiters, o)
        BY <3>3, <4>1 DEF AwaitMetadata, MetadataRequest
      <4>3. Head(Append(metadataRefresh.waiters, o)) = Head(metadataRefresh.waiters)
        BY <4>1
      <4> QED
        BY <3>3, <4>2, <4>3
    <3> QED
      BY <3>1, <3>2, <3>3 DEF Start, Continue, c
  <2>2. \A p \in Op : call[p].pc # "idle" => call'[p].now = call[p].now
    BY <1>1, <1>4 DEF TypeOK
  <2>3. UNCHANGED <<clock, fetches, dropped>>
    BY <1>1 DEF providerVars, jwksVars
  <2> QED
    BY <2>1, <2>2, <2>3, RequestsCarried
<1> QED
  BY <1>5, <1>6, <1>7, <1>8 DEF Provenance

LEMMA MetadataRefreshedProvenance ==
  ASSUME Shape, Linked, AgeInvariant, Provenance, metadataRefresh # None,
         NEW e \in Published(metadataRefresh.startedAt), NEW control \in CacheControl,
         MetadataRefreshed(e, control)
  PROVE  Provenance'
<1> DEFINE answer == MetadataAnswer(e, control)
           w == Waiting(metadataRefresh.waiters)
<1>1. /\ TypeOK /\ clock \in Nat /\ metadataRefresh.startedAt \in Nat
      /\ UNCHANGED <<providerVars, jwksRefresh, fetches, dropped>> /\ metadataRefresh' = None
      /\ outage'.jwks = outage.jwks /\ metadataFailure' = None /\ MetadataPending
  BY DEF MetadataRefreshed, Shape, TypeOK, MetadataRequest
<1>2. /\ answer \in Document /\ answer.epoch = e /\ answer.base = metadataRefresh.startedAt
      /\ answer.control = control /\ Named(answer)
  BY <1>1, MetadataAnswerType DEF MetadataAnswer, Named
<1>3. /\ metadata' = Retained(answer)
      /\ \A o \in w : o \in Op /\ call[o].pc = "metadata"
      /\ \A o \in Op : call'[o] = IF o \in w THEN WithMetadata(call[o], answer) ELSE call[o]
      /\ \/ UNCHANGED <<jwks, jwksFailure, jwksRefreshAllowedAfter>>
         \/ jwks' = None /\ jwksFailure' = None
  BY <1>1, WaitersAreCalls
     DEF MetadataRefreshed, ForgetJwksUnless, Shape, Bookkeeping, MetadataWaiters
<1> HIDE DEF answer
<1>4. /\ Dated(answer)
      /\ \A now \in Nat : now <= clock => Trusted(answer, now)
  BY <1>1, <1>2, AnswerTrusted DEF Provenance, RequestsDated
<1>5. CallsReasoned'
  <2>1. ASSUME NEW o \in Op PROVE Held(call'[o]) /\ Reasoned(call'[o], outage.jwks)
    <3>1. /\ call[o] \in Call /\ Held(call[o]) /\ Reasoned(call[o], outage.jwks)
          /\ call[o].now \in Nat /\ call[o].now <= clock
      BY <1>1 DEF TypeOK, Call, Provenance, CallsReasoned, AgeInvariant, CallSound
    <3> QED
      BY <1>2, <1>3, <1>4, <3>1, WithMetadataReasoned
  <2> QED
    BY <1>1, <2>1, CallsCarried
<1>6. CachesDated'
  <2>1. metadata' # None => metadata'.value = answer
    BY <1>3 DEF Retained, CacheEntry
  <2>2. jwks' # None =>
          Dated(jwks'.value) /\ jwksRefreshAllowedAfter' <= jwks'.value.base + RefreshCooldown
    BY <1>3 DEF Provenance, CachesDated
  <2> QED
    BY <1>1, <1>2, <1>4, <2>1, <2>2, CachesCarried
<1>7. FailuresDated'
  BY <1>1, <1>3 DEF Provenance, FailuresDated, providerVars
<1>8. RequestsDated'
  <2>1. ASSUME NEW o \in Op PROVE call'[o].now = call[o].now
    <3>1. call[o] \in Call
      BY <1>1 DEF TypeOK
    <3>2. WithMetadata(call[o], answer).now = call[o].now
      BY <3>1, UpdatedFields
    <3> QED
      BY <1>3, <3>2
  <2>2. UNCHANGED clock
    BY <1>1 DEF providerVars
  <2> QED
    BY <1>1, <2>1, <2>2, RequestsCarried
<1> QED
  BY <1>5, <1>6, <1>7, <1>8 DEF Provenance

LEMMA MetadataRefreshFailedProvenance ==
  ASSUME Shape, Linked, AgeInvariant, Provenance,
         NEW error \in {"provider_unavailable", "metadata_rejected"},
         MetadataRefreshFailed(error)
  PROVE  Provenance'
<1> DEFINE w == Waiting(metadataRefresh.waiters)
<1>1. /\ TypeOK /\ clock \in Nat /\ metadataRefresh # None /\ metadataRefresh.startedAt \in Nat
      /\ metadataRefresh.startedAt <= clock
      /\ UNCHANGED <<providerVars, metadata, jwksVars, dropped>> /\ metadataRefresh' = None
      /\ outage'.jwks = outage.jwks
      /\ error = "provider_unavailable" => outage'.metadata = clock
      /\ metadataFailure' =
           [error |-> error, retryAfter |-> metadataRefresh.startedAt + FailureBackoff]
  BY DEF MetadataRefreshFailed, MetadataPending, Shape, TypeOK, MetadataRequest, AgeInvariant
<1>2. /\ \A o \in w : o \in Op /\ call[o].pc = "metadata"
      /\ \A o \in Op :
           call'[o] = IF o \in w THEN AfterMetadataFailure(call[o], error) ELSE call[o]
  BY <1>1, WaitersAreCalls DEF MetadataRefreshFailed, Shape, Bookkeeping, MetadataWaiters
<1>3. CallsReasoned'
  <2>1. ASSUME NEW o \in Op PROVE Held(call'[o]) /\ Reasoned(call'[o], outage.jwks)
    <3>1. call[o] \in Call /\ Held(call[o]) /\ Reasoned(call[o], outage.jwks)
      BY <1>1 DEF TypeOK, Provenance, CallsReasoned
    <3> QED
      BY <1>1, <1>2, <3>1, AfterMetadataFailureReasoned
         DEF Provenance, CachesDated, AgeInvariant
  <2> QED
    BY <1>1, <2>1, CallsCarried
<1>4. CachesDated'
  BY <1>1, CachesCarried DEF Provenance, CachesDated, jwksVars
<1>5. FailuresDated'
  <2>1. UNCHANGED <<clock, jwksFailure>>
    BY <1>1 DEF providerVars, jwksVars
  <2>2. clock # None
    BY <1>1, NoneAssumption
  <2> QED
    BY <1>1, <2>1, <2>2, TimeAssumption DEF Provenance, FailuresDated
<1>6. RequestsDated'
  <2>1. ASSUME NEW o \in Op PROVE call'[o].now = call[o].now
    <3>1. call[o] \in Call
      BY <1>1 DEF TypeOK
    <3>2. AfterMetadataFailure(call[o], error).now = call[o].now
      BY <3>1, IdentityKept
    <3> QED
      BY <1>2, <3>2
  <2>2. UNCHANGED <<clock, fetches>>
    BY <1>1 DEF providerVars, jwksVars
  <2> QED
    BY <1>1, <2>1, <2>2, RequestsCarried
<1> QED
  BY <1>3, <1>4, <1>5, <1>6 DEF Provenance

\* A request that ends leaves the others as they were, and its waiters keep
\* the time they began.
LEMMA SettledRequests ==
  ASSUME Shape, Linked, Provenance, NEW r \in Ref, JwksSettles(r)
  PROVE  RequestsDated'
<1>1. /\ TypeOK /\ UNCHANGED <<clock, metadataRefresh, dropped>>
      /\ fetches' = [fetches EXCEPT ![r] = None]
  BY DEF JwksSettles, JwksRefreshed, JwksRefreshFailed, providerVars, metadataVars, Shape
<1>2. ASSUME NEW o \in Op PROVE call'[o].now = call[o].now
  <2>1. call[o] \in Call
    BY <1>1 DEF TypeOK
  <2>2. /\ \A d : WithJwks(call[o], d).now = call[o].now
        /\ AfterJwksFailure(call[o]).now = call[o].now
    BY <2>1, IdentityKept
  <2> QED
    BY <2>2 DEF JwksSettles, JwksRefreshed, JwksRefreshFailed
<1>3. \A s \in Ref : fetches'[s] # None => fetches[s] # None /\ fetches'[s] = fetches[s]
  BY <1>1 DEF TypeOK
<1> QED
  BY <1>1, <1>2, <1>3, RequestsCarried

\* What is known of a call that waits for a JWK Set request.
LEMMA WaiterReasoned ==
  ASSUME Shape, AgeInvariant, Provenance, NEW r \in Ref, fetches[r] # None
  PROVE  \A o \in Waiting(fetches[r].waiters) :
           /\ o \in Op /\ call[o] \in Call /\ call[o].now \in Nat /\ call[o].now <= clock
           /\ call[o].pc \in {"lookup", "missing_key"}
           /\ Held(call[o]) /\ Reasoned(call[o], outage.jwks) /\ EntrySound(call[o].resolved)
           /\ call[o].token.alg \in call[o].meta.identity.algs
           /\ ForMissingKey(call[o]) =>
                call[o].doc # None /\ ~HasMatchingKey(call[o].token, call[o].doc)
<1> SUFFICES ASSUME NEW o \in Waiting(fetches[r].waiters)
             PROVE  /\ o \in Op /\ call[o] \in Call /\ call[o].now \in Nat
                    /\ call[o].now <= clock
                    /\ call[o].pc \in {"lookup", "missing_key"}
                    /\ Held(call[o]) /\ Reasoned(call[o], outage.jwks)
                    /\ EntrySound(call[o].resolved)
                    /\ call[o].token.alg \in call[o].meta.identity.algs
                    /\ ForMissingKey(call[o]) =>
                         call[o].doc # None /\ ~HasMatchingKey(call[o].token, call[o].doc)
  OBVIOUS
<1>1. o \in Op /\ call[o].pc \in {"lookup", "missing_key"}
  BY WaitersAreCalls DEF Shape, Bookkeeping, JwksWaiters
<1>2. call[o] \in Call /\ call[o].now \in Nat /\ call[o].now <= clock
      /\ EntrySound(call[o].resolved)
  BY <1>1 DEF Shape, TypeOK, Call, AgeInvariant, CallSound
<1>3. Held(call[o]) /\ Reasoned(call[o], outage.jwks)
  BY <1>1 DEF Provenance, CallsReasoned
<1> QED
  BY <1>1, <1>2, <1>3 DEF Reasoned, HoldsMetadata, ForMissingKey

LEMMA JwksRefreshedProvenance ==
  ASSUME Shape, Linked, AgeInvariant, Provenance, NEW r \in Ref, fetches[r] # None,
         NEW e \in Published(fetches[r].startedAt), NEW control \in CacheControl,
         JwksRefreshed(r, e, control)
  PROVE  Provenance'
<1> DEFINE answer == JwksAnswer(r, e, control)
           w == Waiting(fetches[r].waiters)
<1>1. /\ TypeOK /\ clock \in Nat /\ fetches[r].startedAt \in Nat
      /\ UNCHANGED <<providerVars, metadataVars, dropped, historyVars>>
      /\ JwksPending(r) /\ call[r[1]].now \in Nat
  BY DEF JwksRefreshed, Shape, TypeOK, JwksRequest, Call, Ref
<1>2. /\ answer \in Document /\ answer.epoch = e /\ answer.base = call[r[1]].now
      /\ answer.base <= fetches[r].startedAt
  BY <1>1, JwksAnswerType DEF JwksAnswer, Provenance, RequestsDated, Timely
<1>3. /\ \/ UNCHANGED <<jwks, jwksFailure, jwksRefreshAllowedAfter>>
         \/ /\ jwks' = Retained(answer) /\ jwksFailure' = None
            /\ jwksRefreshAllowedAfter' = RefreshAllowedAfter(answer)
      /\ \A o \in Op : call'[o] = IF o \in w THEN WithJwks(call[o], answer) ELSE call[o]
  BY DEF JwksRefreshed
<1> HIDE DEF answer
<1>4. /\ Dated(answer)
      /\ \A now \in Nat : now <= clock => Trusted(answer, now) /\ Recent(answer, now)
  BY <1>1, <1>2, AnswerTrusted DEF Provenance, RequestsDated, Timely
<1>5. CallsReasoned'
  <2>1. ASSUME NEW o \in Op PROVE Held(call'[o]) /\ Reasoned(call'[o], outage.jwks)
    <3>1. CASE o \in w
      BY <1>2, <1>3, <1>4, <3>1, WaiterReasoned, WithJwksReasoned
    <3>2. CASE o \notin w
      BY <1>3, <3>2 DEF Provenance, CallsReasoned
    <3> QED
      BY <3>1, <3>2
  <2> QED
    BY <1>1, <2>1, CallsCarried DEF historyVars
<1>6. CachesDated'
  <2>1. jwks' # None =>
          Dated(jwks'.value) /\ jwksRefreshAllowedAfter' <= jwks'.value.base + RefreshCooldown
    <3>1. CASE UNCHANGED <<jwks, jwksRefreshAllowedAfter>>
      BY <3>1 DEF Provenance, CachesDated
    <3>2. CASE jwks' = Retained(answer) /\ jwksRefreshAllowedAfter' = RefreshAllowedAfter(answer)
      <4>1. jwks' # None => jwks'.value = answer /\ ~answer.control.noStore
        BY <3>2 DEF Retained, CacheEntry
      <4> QED
        BY <1>1, <1>2, <1>4, <3>2, <4>1, TimeAssumption DEF RefreshAllowedAfter
    <3> QED
      BY <1>3, <3>1, <3>2
  <2> QED
    BY <1>1, <2>1, CachesCarried DEF Provenance, CachesDated, metadataVars
<1>7. FailuresDated'
  BY <1>1, <1>3 DEF Provenance, FailuresDated, providerVars, metadataVars, historyVars
<1>8. RequestsDated'
  <2>1. JwksSettles(r)
    BY DEF JwksSettles
  <2> QED
    BY <2>1, SettledRequests
<1> QED
  BY <1>5, <1>6, <1>7, <1>8 DEF Provenance

LEMMA JwksRefreshFailedProvenance ==
  ASSUME Shape, Linked, AgeInvariant, Provenance, NEW r \in Ref, JwksRefreshFailed(r)
  PROVE  Provenance'
<1> DEFINE w == Waiting(fetches[r].waiters)
<1>1. /\ TypeOK /\ clock \in Nat /\ fetches[r] # None /\ clock # None
      /\ UNCHANGED <<providerVars, metadataVars, jwks, jwksRefreshAllowedAfter>>
      /\ outage'.jwks = clock /\ outage'.metadata = outage.metadata
      /\ call[r[1]].now \in Nat /\ call[r[1]].now <= clock
  BY NoneAssumption
     DEF JwksRefreshFailed, JwksPending, Shape, TypeOK, Call, Ref, AgeInvariant, CallSound
<1>2. \A o \in Op : call'[o] = IF o \in w THEN AfterJwksFailure(call[o]) ELSE call[o]
  BY DEF JwksRefreshFailed
<1>3. CallsReasoned'
  <2>1. ASSUME NEW o \in Op PROVE Held(call'[o]) /\ Reasoned(call'[o], clock)
    <3>1. CASE o \in w
      <4>1. FailedRecently(clock, call[o].now)
        BY <1>1, <3>1, WaiterReasoned, TimeAssumption DEF FailedRecently
      <4>2. /\ call[o] \in Call /\ call[o].pc \in {"admit", "verify", "lookup", "missing_key"}
            /\ Held(call[o]) /\ Reasoned(call[o], outage.jwks) /\ EntrySound(call[o].resolved)
            /\ call[o].token.alg \in call[o].meta.identity.algs
            /\ ForMissingKey(call[o]) =>
                 call[o].doc # None /\ ~HasMatchingKey(call[o].token, call[o].doc)
        BY <1>1, <3>1, WaiterReasoned
      <4>3. Held(AfterJwksFailure(call[o])) /\ Reasoned(AfterJwksFailure(call[o]), clock)
        BY <1>1, <4>1, <4>2, AfterJwksFailureReasoned
      <4> QED
        BY <1>2, <3>1, <4>3
    <3>2. CASE o \notin w
      <4>1. /\ Held(call[o]) /\ Reasoned(call[o], outage.jwks) /\ call[o].now \in Nat
            /\ outage.jwks \in Nat \cup {None} /\ (outage.jwks # None => outage.jwks <= clock)
        BY <1>1 DEF Provenance, CallsReasoned, FailuresDated, TypeOK, Call
      <4>2. FailedRecently(outage.jwks, call[o].now) => FailedRecently(clock, call[o].now)
        BY <1>1, <4>1, TimeAssumption DEF FailedRecently
      <4> QED
        BY <1>2, <3>2, <4>1, <4>2 DEF Reasoned
    <3> QED
      BY <3>1, <3>2
  <2> QED
    BY <1>1, <2>1, CallsCarried
<1>4. CachesDated'
  BY <1>1, CachesCarried DEF Provenance, CachesDated, metadataVars
<1>5. FailuresDated'
  <2>1. jwksFailure' # None => jwksFailure'.retryAfter <= clock + FailureBackoff
    <3>1. CASE InSlot(r)
      BY <1>1, <3>1, TimeAssumption DEF JwksRefreshFailed
    <3>2. CASE ~InSlot(r)
      <4>1. /\ jwksFailure' = jwksFailure
            /\ jwksFailure # None => jwksFailure.retryAfter \in Nat
            /\ outage.jwks \in Nat \cup {None}
        BY <1>1, <3>2 DEF JwksRefreshFailed, TypeOK
      <4> QED
        BY <1>1, <4>1, TimeAssumption DEF Provenance, FailuresDated
    <3> QED
      BY <3>1, <3>2
  <2> QED
    BY <1>1, <2>1 DEF Provenance, FailuresDated, providerVars, metadataVars
<1>6. RequestsDated'
  <2>1. JwksSettles(r)
    BY DEF JwksSettles
  <2> QED
    BY <2>1, SettledRequests
<1> QED
  BY <1>3, <1>4, <1>5, <1>6 DEF Provenance

\* What becomes of the requests when a call awaits a JWK Set: it joins the one
\* in the slot, which changes in nothing but its waiters, or its own request,
\* sent now, takes the slot.
LEMMA AwaitedRequests ==
  ASSUME Shape, Linked, NEW o \in Op, call[o].pc \in {"admit", "verify"},
         AwaitJwks(o, call[o])
  PROVE  \/ /\ Joinable(call[o].meta.identity)
            /\ UNCHANGED <<jwksRefresh, lastRequest>>
            /\ \A s \in Ref : /\ fetches'[s] # None <=> fetches[s] # None
                              /\ fetches'[s].startedAt = fetches[s].startedAt
                              /\ fetches'[s].identity = fetches[s].identity
         \/ /\ ~Joinable(call[o].meta.identity)
            /\ \E r \in Ref :
                 /\ jwksRefresh' = r /\ r[1] = o /\ fetches[r] = None
                 /\ fetches'[r] # None
                 /\ fetches'[r].startedAt = clock
                 /\ fetches'[r].identity = call[o].meta.identity
                 /\ \A s \in Ref \ {r} : fetches'[s] = fetches[s]
                 /\ lastRequest' = [ref |-> r, now |-> call[o].now,
                                    identity |-> call[o].meta.identity, remembered |-> TRUE]
<1> DEFINE c == call[o]
           reason == IF ForMissingKey(c) THEN "missing_key" ELSE "lookup"
           identity == c.meta.identity
           r == IF Joinable(identity) THEN jwksRefresh ELSE <<o, reason>>
<1>1. r \in Ref
  BY DEF Joinable, Ref, Shape, TypeOK
<1>2. CASE Joinable(identity)
  <2>1. fetches[r] \in JwksRequest /\ fetches[r] # None /\ r = jwksRefresh
    BY <1>1, <1>2 DEF Joinable, Shape, TypeOK, Bookkeeping, SlotPending
  <2>2. fetches' = [fetches EXCEPT ![r].waiters = Append(fetches[r].waiters, o)]
    BY <1>1, <1>2, <2>1 DEF AwaitJwks, Shape, TypeOK
  <2>3. /\ fetches'[r] = [fetches[r] EXCEPT !.waiters = Append(fetches[r].waiters, o)]
        /\ \A s \in Ref \ {r} : fetches'[s] = fetches[s]
    BY <1>1, <2>2 DEF Shape, TypeOK
  <2>4. /\ fetches'[r].startedAt = fetches[r].startedAt
        /\ fetches'[r].identity = fetches[r].identity /\ fetches'[r] \in JwksRequest
    <3>1. Append(fetches[r].waiters, o) \in Seq(Op)
      BY <2>1 DEF JwksRequest
    <3> HIDE DEF r
    <3> QED
      BY <2>1, <2>3, <3>1 DEF JwksRequest
  <2>5. UNCHANGED <<jwksRefresh, lastRequest>>
    BY <1>2, <2>1 DEF AwaitJwks
  <2> HIDE DEF r
  <2> QED
    BY <1>2, <2>1, <2>3, <2>4, <2>5, NoneAssumption
<1>3. CASE ~Joinable(identity)
  <2> DEFINE request == [identity |-> identity, startedAt |-> clock, waiters |-> <<o>>]
  <2>1. /\ fetches' = [fetches EXCEPT ![r] = request] /\ r = <<o, reason>>
        /\ jwksRefresh' = r
        /\ lastRequest' = [ref |-> r, now |-> c.now, identity |-> identity, remembered |-> TRUE]
    BY <1>3 DEF AwaitJwks
  <2>2. identity \in Identity /\ clock \in Nat
    BY DEF Shape, TypeOK, Call, Document, Bookkeeping, DocumentsHeld, HoldsMetadata
  <2>3. request \in JwksRequest /\ request.startedAt = clock /\ request.identity = identity
    BY <2>2 DEF JwksRequest
  <2>4. fetches'[r] = request /\ \A s \in Ref \ {r} : fetches'[s] = fetches[s]
    BY <1>1, <2>1 DEF Shape, TypeOK
  <2>5. fetches[r] = None /\ r[1] = o
    <3>1. r[1] = o /\ r[2] = reason /\ reason \in {"lookup", "missing_key"}
      BY <2>1
    <3> QED
      BY <1>1, <3>1 DEF Linked, JwksAwaited
  <2> HIDE DEF r, request
  <2> QED
    BY <1>1, <1>3, <2>1, <2>3, <2>4, <2>5, NoneAssumption
<1> QED
  BY <1>2, <1>3

LEMMA RemoteJwksProvenance ==
  ASSUME Shape, Linked, AgeInvariant, Provenance, NEW o \in Op,
         call[o].pc \in {"admit", "verify"}, call[o].token.alg \in call[o].meta.identity.algs,
         call[o].pc = "verify" => ~HasMatchingKey(call[o].token, call[o].doc),
         RemoteJwks(o, call[o]), UNCHANGED <<providerVars, metadataVars, dropped>>
  PROVE  Provenance'
<1> DEFINE c == call[o]
<1>1. /\ TypeOK /\ c \in Call /\ c.now \in Nat /\ c.now <= clock /\ EntrySound(c.resolved)
      /\ Held(c) /\ Reasoned(c, outage.jwks)
      /\ ForMissingKey(c) => c.doc # None /\ ~HasMatchingKey(c.token, c.doc)
      /\ ForMissingKey(c) <=> c.pc = "verify"
  BY DEF Shape, TypeOK, Call, AgeInvariant, CallSound, Provenance, CallsReasoned, Reasoned,
         ForMissingKey
<1>2. /\ jwks \in Entry \cup {None} /\ EntrySound(jwks)
      /\ jwks # None => Dated(jwks.value)
  BY <1>1 DEF TypeOK, AgeInvariant, Provenance, CachesDated
<1>3. ASSUME NEW d, Resume(o, d), Held(d), Reasoned(d, outage.jwks), d.now = c.now
      PROVE  Provenance'
  <2>1. call' = [call EXCEPT ![o] = d] /\ UNCHANGED <<jwksVars, historyVars>>
    BY <1>3 DEF Resume
  <2>2. CallsReasoned'
    BY <1>3, <2>1, LocalReasoned DEF historyVars
  <2>3. CachesDated'
    BY <2>1, CachesCarried DEF Provenance, CachesDated, jwksVars, metadataVars
  <2>4. FailuresDated'
    BY <2>1 DEF Provenance, FailuresDated, providerVars, metadataVars, jwksVars, historyVars
  <2>5. RequestsDated'
    <3>1. \A p \in Op : call'[p].now = call[p].now
      BY <1>3, <2>1 DEF Shape, TypeOK
    <3> QED
      BY <2>1, <3>1, RequestsCarried DEF providerVars, metadataVars, jwksVars
  <2> QED
    BY <2>2, <2>3, <2>4, <2>5 DEF Provenance
<1>4. CASE CacheAnswers(c) /\ Resume(o, WithJwks(c, jwks.value))
  <2>1. /\ jwks \in Entry /\ jwks.value \in Document /\ c.now < jwks.freshUntil
        /\ jwks.value.base \in Nat /\ jwksRefreshAllowedAfter \in Nat
    BY <1>1, <1>2, <1>4 DEF CacheAnswers, Fresh, Entry, Document, TypeOK
  <2>2. Trusted(jwks.value, c.now)
    BY <1>1, <1>2, <1>4, <2>1, UsableTrusted DEF CacheAnswers, Fresh
  <2>3. ForMissingKey(c) => Recent(jwks.value, c.now)
    <3>1. SUFFICES ASSUME ForMissingKey(c) PROVE Recent(jwks.value, c.now)
      OBVIOUS
    <3>2. /\ c.now < jwksRefreshAllowedAfter
          /\ jwksRefreshAllowedAfter <= jwks.value.base + RefreshCooldown
      BY <1>2, <1>4, <3>1 DEF CacheAnswers, Fresh, Provenance, CachesDated
    <3>3. EndOf(jwks.value.epoch) \in Nat /\ EndOf(jwks.value.epoch) >= jwks.value.base
      BY <1>1, <1>2, <1>4, EndOfType DEF Dated, CacheAnswers, Fresh
    <3> HIDE DEF c
    <3> QED
      BY <1>1, <2>1, <3>2, <3>3, TimeAssumption DEF Recent
  <2>4. Held(WithJwks(c, jwks.value)) /\ Reasoned(WithJwks(c, jwks.value), outage.jwks)
    BY <1>1, <2>1, <2>2, <2>3, WithJwksReasoned
  <2>5. WithJwks(c, jwks.value).now = c.now
    BY <1>1, IdentityKept
  <2> QED
    BY <1>3, <1>4, <2>4, <2>5
<1>5. CASE JwksBackingOff(c) /\ Resume(o, AfterJwksFailure([c EXCEPT !.resolved = jwks]))
  <2> DEFINE b == [c EXCEPT !.resolved = jwks]
  <2>1. /\ b \in Call /\ b.pc = c.pc /\ b.now = c.now /\ b.token = c.token /\ b.meta = c.meta
        /\ b.doc = c.doc /\ b.outcome = c.outcome /\ b.resolved = jwks
    BY <1>1, <1>2 DEF Call
  <2> HIDE DEF b
  <2>2. FailedRecently(outage.jwks, b.now)
    <3>1. /\ jwksFailure.retryAfter \in Nat /\ outage.jwks \in Nat
          /\ c.now < jwksFailure.retryAfter
          /\ jwksFailure.retryAfter <= outage.jwks + FailureBackoff /\ outage.jwks # None
      BY <1>1, <1>5 DEF JwksBackingOff, TypeOK, Provenance, FailuresDated
    <3> QED
      BY <1>1, <2>1, <3>1, TimeAssumption DEF FailedRecently
  <2>3. Held(b) /\ Reasoned(b, outage.jwks) /\ EntrySound(b.resolved)
    BY <1>1, <1>2, <2>1 DEF Held, Reasoned
  <2>4. Held(AfterJwksFailure(b)) /\ Reasoned(AfterJwksFailure(b), outage.jwks)
    BY <1>1, <2>1, <2>2, <2>3, AfterJwksFailureReasoned DEF ForMissingKey
  <2>5. AfterJwksFailure(b).now = c.now
    BY <2>1, IdentityKept
  <2> QED
    BY <1>3, <1>5, <2>4, <2>5 DEF b
<1>6. CASE AwaitJwks(o, c)
  <2> DEFINE d == [c EXCEPT !.pc = IF ForMissingKey(c) THEN "missing_key" ELSE "lookup",
                            !.resolved = jwks]
  <2>1. /\ d.now = c.now /\ d.token = c.token /\ d.meta = c.meta /\ d.doc = c.doc
        /\ d.outcome = c.outcome /\ d.resolved = jwks
        /\ d.pc = IF ForMissingKey(c) THEN "missing_key" ELSE "lookup"
    BY <1>1 DEF Call
  <2>2. /\ call' = [call EXCEPT ![o] = d]
        /\ UNCHANGED <<jwks, jwksFailure, jwksRefreshAllowedAfter, outage>>
    BY <1>6 DEF AwaitJwks
  <2> HIDE DEF d
  <2>3. Held(d)
    BY <1>1, <1>2, <2>1 DEF Held
  <2>4. Reasoned(d, outage.jwks)
    BY <1>1, <2>1 DEF Reasoned, HoldsMetadata
  <2>5. CallsReasoned'
    BY <2>2, <2>3, <2>4, LocalReasoned
  <2>6. CachesDated'
    BY <2>2, CachesCarried DEF Provenance, CachesDated, metadataVars
  <2>7. FailuresDated'
    BY <2>2 DEF Provenance, FailuresDated, providerVars, metadataVars
  <2>8. RequestsDated'
    <3>1. /\ \A p \in Op : call'[p].now = call[p].now
          /\ call'[o].now <= clock
      BY <1>1, <2>1, <2>2 DEF TypeOK
    <3>2. \A r \in Ref : fetches'[r] # None =>
            \/ fetches[r] # None /\ fetches'[r].startedAt = fetches[r].startedAt
            \/ fetches'[r].startedAt = clock /\ call'[r[1]].now <= clock
      BY <1>6, <3>1, AwaitedRequests
    <3> QED
      BY <3>1, <3>2, RequestsCarried DEF providerVars, metadataVars
  <2> QED
    BY <2>5, <2>6, <2>7, <2>8 DEF Provenance
<1> QED
  BY <1>4, <1>5, <1>6 DEF RemoteJwks

LEMMA RunProvenance ==
  ASSUME Shape, Linked, AgeInvariant, Provenance, NEW o \in Op, Run(o)
  PROVE  Provenance'
<1> DEFINE c == call[o]
<1>1. /\ TypeOK /\ c \in Call /\ Held(c) /\ Reasoned(c, outage.jwks)
      /\ UNCHANGED <<providerVars, metadataVars, dropped>>
  BY DEF Shape, TypeOK, Provenance, CallsReasoned, Run, Admit, Verify, Recheck,
         RefreshForMissingKeyFailed, Classify, Discard
<1>2. ASSUME NEW outcome, Finish(o, outcome),
             outcome = "unknown_key" =>
               /\ c.doc # None
               /\ \/ Recent(c.doc, c.now)
                  \/ FailedRecently(outage.jwks, c.now) /\ ~Lapsed(c.doc, c.now)
      PROVE  Provenance'
  <2>1. /\ call' = [call EXCEPT ![o] = Done(c, outcome)]
        /\ UNCHANGED <<jwksVars, historyVars>>
    BY <1>2 DEF Finish, Shape, TypeOK
  <2>2. Held(Done(c, outcome)) /\ Reasoned(Done(c, outcome), outage.jwks)
    BY <1>1, <1>2, DoneReasoned
  <2>3. CallsReasoned'
    BY <1>1, <2>1, <2>2, LocalReasoned DEF historyVars
  <2>4. CachesDated'
    BY <1>1, <2>1, CachesCarried DEF Provenance, CachesDated, jwksVars, metadataVars
  <2>5. FailuresDated'
    BY <1>1, <2>1
       DEF Provenance, FailuresDated, providerVars, metadataVars, jwksVars, historyVars
  <2>6. RequestsDated'
    <3>1. \A p \in Op : call'[p].now = call[p].now
      <4>1. Done(c, outcome).now = c.now
        BY <1>1, UpdatedFields
      <4> QED
        BY <1>1, <2>1, <4>1 DEF TypeOK
    <3> QED
      BY <1>1, <2>1, <3>1, RequestsCarried DEF providerVars, metadataVars, jwksVars
  <2> QED
    BY <2>3, <2>4, <2>5, <2>6 DEF Provenance
<1>3. ASSUME c.pc # "idle"
      PROVE  Verdict(c.token) # "unknown_key"
  BY <1>3, TokenAssumption DEF Verdict, Verdicts, Shape, Bookkeeping, DocumentsHeld
<1>4. CASE Admit(o)
  BY <1>1, <1>2, <1>4, RemoteJwksProvenance DEF Admit, Runs
<1>5. CASE Verify(o)
  <2>1. c.pc = "verify" /\ c.token.alg \in c.meta.identity.algs
    BY <1>1, <1>5 DEF Verify, Runs, Reasoned, HoldsMetadata
  <2> QED
    BY <1>1, <1>2, <1>3, <1>5, <2>1, RemoteJwksProvenance DEF Verify
<1>6. CASE Recheck(o)
  <2>1. c.doc # None /\ Recent(c.doc, c.now)
    BY <1>1, <1>6 DEF Recheck, Runs, Reasoned
  <2> QED
    BY <1>2, <1>6, <2>1 DEF Recheck
<1>7. CASE RefreshForMissingKeyFailed(o)
  <2>1. /\ c.doc # None /\ FailedRecently(outage.jwks, c.now)
        /\ c.outcome \in {None, "provider_unavailable", "metadata_rejected"}
    BY <1>1, <1>7 DEF RefreshForMissingKeyFailed, Runs, Reasoned
  <2>2. IsFreshCachedJwks(c) => ~Lapsed(c.doc, c.now)
    <3>1. SUFFICES ASSUME IsFreshCachedJwks(c) PROVE ~Lapsed(c.doc, c.now)
      OBVIOUS
    <3>2. jwks \in Entry /\ jwks.value = c.doc /\ c.now < jwks.freshUntil
      BY <1>1, <3>1 DEF IsFreshCachedJwks, Fresh, TypeOK
    <3>3. jwks.freshUntil = c.doc.base + BoundedFreshness(c.doc.control)
      BY <3>1, <3>2 DEF IsFreshCachedJwks, AgeInvariant, EntrySound, CacheEntry
    <3>4. c.doc.base \in Nat /\ BoundedFreshness(c.doc.control) \in Nat /\ c.now \in Nat
      BY <1>1, <3>2, FreshnessType DEF Entry, Document, Call
    <3> HIDE DEF c
    <3> QED
      BY <3>2, <3>3, <3>4 DEF Lapsed
  <2>3. c.outcome # "unknown_key"
    BY <2>1, OutcomeAssumption DEF Outcome, Rejection
  <2> QED
    BY <1>2, <1>7, <2>1, <2>2, <2>3 DEF RefreshForMissingKeyFailed
<1>8. CASE Classify(o)
  <2>1. c.outcome # "unknown_key"
    BY <1>1, <1>8, OutcomeAssumption DEF Classify, Runs, Reasoned, Outcome, Rejection
  <2> QED
    BY <1>2, <1>8, <2>1 DEF Classify
<1>9. CASE Discard(o)
  <2>1. PICK d \in Call : /\ call' = [call EXCEPT ![o] = d]
                          /\ d.pc = "dropped" /\ SameHoldings(c, d)
    BY <1>9, Discarded
  <2>2. c.pc \in Resumed /\ UNCHANGED <<jwksVars, historyVars>>
    BY <1>9, Discarded
  <2>3. Held(d) /\ Reasoned(d, outage.jwks)
    BY <1>1, <2>1, <2>2 DEF Held, Reasoned, HoldsMetadata, Resumed, SameHoldings
  <2>4. CallsReasoned'
    BY <1>1, <2>1, <2>2, <2>3, LocalReasoned DEF historyVars
  <2>5. CachesDated'
    BY <1>1, <2>2, CachesCarried DEF Provenance, CachesDated, jwksVars, metadataVars
  <2>6. FailuresDated'
    BY <1>1, <2>2
       DEF Provenance, FailuresDated, providerVars, metadataVars, jwksVars, historyVars
  <2>7. RequestsDated'
    <3>1. \A p \in Op : call'[p].now = call[p].now
      BY <1>1, <2>1 DEF TypeOK, SameHoldings
    <3> QED
      BY <1>1, <2>2, <3>1, RequestsCarried DEF providerVars, metadataVars, jwksVars
  <2> QED
    BY <2>4, <2>5, <2>6, <2>7 DEF Provenance
<1> QED
  BY <1>4, <1>5, <1>6, <1>7, <1>8, <1>9 DEF Run

LEMMA InitProvenance == Init => Provenance
<1> SUFFICES ASSUME Init PROVE Provenance
  OBVIOUS
<1>1. \A o \in Op : Held(call[o]) /\ Reasoned(call[o], outage.jwks)
  BY DEF Init, Held, Reasoned, HoldsMetadata
<1> QED
  BY <1>1 DEF Init, Provenance, CachesDated, RequestsDated, MetadataPending, FailuresDated,
              CallsReasoned

\* Every execution keeps the provenance of what is cached, in flight and held.
THEOREM ProvenanceHolds == Spec => []Provenance
<1>1. Shape /\ Linked /\ AgeInvariant /\ Provenance /\ [Next]_vars => Provenance'
  <2> SUFFICES ASSUME Shape, Linked, AgeInvariant, Provenance, [Next]_vars
               PROVE  Provenance'
    OBVIOUS
  <2>1. CASE MetadataSettles
    BY <2>1, MetadataRefreshedProvenance, MetadataRefreshFailedProvenance DEF MetadataSettles
  <2>2. CASE \E r \in Ref : JwksSettles(r)
    BY <2>2, JwksRefreshedProvenance, JwksRefreshFailedProvenance DEF JwksSettles
  <2> QED
    BY <2>1, <2>2, StartProvenance, RunProvenance, EnvironmentProvenance
       DEF Next, Environment
<1> QED
  BY <1>1, InitProvenance, ShapeInvariant, LinkedHolds, AgeInvariantHolds, PTL DEF Spec

\* A token is turned away for its key only on a JWK Set the provider published
\* within the cooldown, or one request, before the call began, or while the
\* provider fails, on one that is still fresh.
THEOREM RejectionHolds == Spec => []RejectionJustified
<1>1. Provenance => RejectionJustified
  BY DEF Provenance, CallsReasoned, Reasoned, Recent, RejectionJustified, Completed
<1> QED
  BY <1>1, ProvenanceHolds, PTL

-----------------------------------------------------------------------------
(* Stale documents.  What an entry holds has not lapsed while the entry is  *)
(* fresh, and every other way to a cached document leads through a failure  *)
(* whose time is on record.                                                 *)

LEMMA FreshNotLapsed ==
  ASSUME NEW entry \in Entry, EntrySound(entry), NEW now \in Nat, now < entry.freshUntil
  PROVE  ~Lapsed(entry.value, now)
<1>1. /\ entry.value.base \in Nat /\ entry.value.control \in CacheControl
      /\ entry.freshUntil = entry.value.base + BoundedFreshness(entry.value.control)
  BY NoneAssumption DEF Entry, Document, EntrySound, CacheEntry
<1>2. BoundedFreshness(entry.value.control) \in Nat
  BY <1>1, FreshnessType
<1> QED
  BY <1>1, <1>2 DEF Lapsed

\* The document a call is handed in a step is new, not lapsed, or handed out
\* because of a failure at the given time.
MetadataHandedWell(c, b, failedAt) ==
  \/ b.meta = c.meta
  \/ ~(b.meta.arrived < b.now) \/ ~Lapsed(b.meta, b.now) \/ FailedRecently(failedAt, b.now)

JwksHandedWell(c, b, failedAt) ==
  \/ b.doc = c.doc
  \/ ~(b.doc.arrived < b.now) \/ ~Lapsed(b.doc, b.now) \/ FailedRecently(failedAt, b.now)

LEMMA HandedWell ==
  ASSUME \A o \in Op : /\ MetadataHandedWell(call[o], call'[o], outage'.metadata)
                       /\ JwksHandedWell(call[o], call'[o], outage'.jwks)
  PROVE  HandedStaleInOutage
  BY DEF HandedStaleInOutage, MetadataHandedWell, JwksHandedWell

LEMMA OneHandedWell ==
  ASSUME Shape, NEW o \in Op, NEW c, call' = [call EXCEPT ![o] = c],
         MetadataHandedWell(call[o], c, outage'.metadata),
         JwksHandedWell(call[o], c, outage'.jwks)
  PROVE  HandedStaleInOutage
<1>1. call'[o] = c /\ \A p \in Op \ {o} : call'[p] = call[p]
  BY DEF Shape, TypeOK
<1>2. \A p \in Op \ {o} : /\ MetadataHandedWell(call[p], call'[p], outage'.metadata)
                          /\ JwksHandedWell(call[p], call'[p], outage'.jwks)
  BY <1>1 DEF MetadataHandedWell, JwksHandedWell
<1> QED
  BY <1>1, <1>2, HandedWell

\* What a call falls back on after a failed metadata request, at the time on
\* record for the last one.
LEMMA MetadataFallback ==
  ASSUME NEW c \in Call, NEW error, NEW failedAt,
         error = "provider_unavailable" => FailedRecently(failedAt, c.now)
  PROVE  /\ MetadataHandedWell(c, AfterMetadataFailure(c, error), failedAt)
         /\ AfterMetadataFailure(c, error).doc = c.doc
<1>1. CASE error = "provider_unavailable" /\ UsableWhenStale(metadata, c.now)
  BY <1>1, UpdatedFields DEF AfterMetadataFailure, MetadataHandedWell
<1>2. CASE ~(error = "provider_unavailable" /\ UsableWhenStale(metadata, c.now))
  BY <1>2, UpdatedFields DEF AfterMetadataFailure, MetadataHandedWell
<1> QED
  BY <1>1, <1>2

LEMMA JwksFallback ==
  ASSUME NEW c \in Call, NEW failedAt, FailedRecently(failedAt, c.now)
  PROVE  /\ JwksHandedWell(c, AfterJwksFailure(c), failedAt)
         /\ AfterJwksFailure(c).meta = c.meta
<1>1. AfterJwksFailure(c).meta = c.meta
  BY UpdatedFields DEF AfterJwksFailure
<1>2. AfterJwksFailure(c).now = c.now
  BY IdentityKept
<1> QED
  BY <1>1, <1>2 DEF JwksHandedWell

LEMMA StartHandsWell ==
  ASSUME Shape, AgeInvariant, Provenance, NEW o \in Op, NEW token \in Token, Start(o, token)
  PROVE  HandedStaleInOutage
<1> DEFINE c == [call[o] EXCEPT !.now = clock, !.token = token]
<1>1. /\ TypeOK /\ clock \in Nat /\ c \in Call /\ c.now = clock
      /\ c.meta = call[o].meta /\ c.doc = call[o].doc /\ UNCHANGED outage
  <2>1. call[o] \in Call /\ clock \in Nat /\ TypeOK /\ UNCHANGED outage
    BY DEF Shape, TypeOK, Start, historyVars
  <2> QED
    BY <2>1, StartedCall DEF Call
<1> HIDE DEF c
<1>2. CASE Fresh(metadata, c.now) /\ Continue(o, WithMetadata(c, metadata.value))
  <2>1. ~Lapsed(metadata.value, c.now)
    BY <1>1, <1>2, FreshNotLapsed DEF Fresh, AgeInvariant, TypeOK
  <2>2. /\ WithMetadata(c, metadata.value).doc = c.doc
        /\ WithMetadata(c, metadata.value).meta = metadata.value
        /\ WithMetadata(c, metadata.value).now = c.now
    BY <1>1, UpdatedFields
  <2> QED
    BY <1>1, <1>2, <2>1, <2>2, OneHandedWell
       DEF Continue, MetadataHandedWell, JwksHandedWell
<1>3. CASE BackingOff(c.now) /\ Continue(o, AfterMetadataFailure(c, metadataFailure.error))
  <2>1. metadataFailure.error = "provider_unavailable" => FailedRecently(outage.metadata, c.now)
    <3>1. SUFFICES ASSUME metadataFailure.error = "provider_unavailable"
                   PROVE  FailedRecently(outage.metadata, c.now)
      OBVIOUS
    <3>2. /\ metadataFailure # None /\ metadataFailure.retryAfter \in Nat
          /\ c.now < metadataFailure.retryAfter
      BY <1>1, <1>3 DEF BackingOff, TypeOK
    <3>3. /\ outage.metadata # None /\ outage.metadata \in Nat
          /\ metadataFailure.retryAfter <= outage.metadata + FailureBackoff
      BY <1>1, <3>1, <3>2 DEF Provenance, FailuresDated, TypeOK
    <3> QED
      BY <1>1, <3>2, <3>3, TimeAssumption DEF FailedRecently
  <2>2. /\ MetadataHandedWell(c, AfterMetadataFailure(c, metadataFailure.error), outage.metadata)
        /\ AfterMetadataFailure(c, metadataFailure.error).doc = c.doc
    BY <1>1, <2>1, MetadataFallback
  <2> QED
    BY <1>1, <1>3, <2>2, OneHandedWell DEF Continue, MetadataHandedWell, JwksHandedWell
<1>4. CASE AwaitMetadata(o, c)
  <2> DEFINE d == [c EXCEPT !.pc = "metadata"]
  <2>1. d.meta = c.meta /\ d.doc = c.doc /\ call' = [call EXCEPT ![o] = d]
    BY <1>1, <1>4 DEF AwaitMetadata, Call
  <2> HIDE DEF d
  <2> QED
    BY <1>1, <2>1, OneHandedWell DEF MetadataHandedWell, JwksHandedWell
<1> QED
  BY <1>2, <1>3, <1>4 DEF Start, c

LEMMA RunHandsWell ==
  ASSUME Shape, AgeInvariant, Provenance, NEW o \in Op, Run(o)
  PROVE  HandedStaleInOutage
<1> DEFINE c == call[o]
<1>1. TypeOK /\ c \in Call /\ c.now \in Nat
  BY DEF Shape, TypeOK, Call
<1>2. ASSUME NEW outcome, Finish(o, outcome)
      PROVE  HandedStaleInOutage
  <2>1. call' = [call EXCEPT ![o] = Done(c, outcome)]
    BY <1>2 DEF Finish, Shape, TypeOK
  <2>2. Done(c, outcome).meta = c.meta /\ Done(c, outcome).doc = c.doc
    BY <1>1, UpdatedFields
  <2> QED
    BY <2>1, <2>2, OneHandedWell DEF MetadataHandedWell, JwksHandedWell
<1>3. ASSUME RemoteJwks(o, c)
      PROVE  HandedStaleInOutage
  <2>1. CASE CacheAnswers(c) /\ Resume(o, WithJwks(c, jwks.value))
    <3>1. ~Lapsed(jwks.value, c.now)
      BY <1>1, <2>1, FreshNotLapsed DEF CacheAnswers, Fresh, AgeInvariant, TypeOK
    <3>2. /\ WithJwks(c, jwks.value).meta = c.meta /\ WithJwks(c, jwks.value).doc = jwks.value
          /\ WithJwks(c, jwks.value).now = c.now
      BY <1>1, UpdatedFields
    <3> QED
      BY <2>1, <3>1, <3>2, OneHandedWell DEF Resume, MetadataHandedWell, JwksHandedWell
  <2>2. CASE JwksBackingOff(c) /\ Resume(o, AfterJwksFailure([c EXCEPT !.resolved = jwks]))
    <3> DEFINE b == [c EXCEPT !.resolved = jwks]
    <3>1. b \in Call /\ b.meta = c.meta /\ b.doc = c.doc /\ b.now = c.now
      BY <1>1 DEF Call, TypeOK
    <3> HIDE DEF b
    <3>2. FailedRecently(outage.jwks, b.now)
      <4>1. /\ jwksFailure.retryAfter \in Nat /\ outage.jwks \in Nat
            /\ c.now < jwksFailure.retryAfter
            /\ jwksFailure.retryAfter <= outage.jwks + FailureBackoff /\ outage.jwks # None
        BY <1>1, <2>2 DEF JwksBackingOff, TypeOK, Provenance, FailuresDated
      <4> QED
        BY <1>1, <3>1, <4>1, TimeAssumption DEF FailedRecently
    <3>3. /\ JwksHandedWell(b, AfterJwksFailure(b), outage.jwks)
          /\ AfterJwksFailure(b).meta = c.meta
      BY <3>1, <3>2, JwksFallback
    <3>4. call' = [call EXCEPT ![o] = AfterJwksFailure(b)] /\ UNCHANGED outage
      BY <2>2 DEF Resume, historyVars, b
    <3> QED
      BY <3>1, <3>3, <3>4, OneHandedWell DEF MetadataHandedWell, JwksHandedWell
  <2>3. CASE AwaitJwks(o, c)
    <3> DEFINE d == [c EXCEPT !.pc = IF ForMissingKey(c) THEN "missing_key" ELSE "lookup",
                              !.resolved = jwks]
    <3>1. d.meta = c.meta /\ d.doc = c.doc /\ call' = [call EXCEPT ![o] = d]
      BY <1>1, <2>3 DEF Call, AwaitJwks
    <3> HIDE DEF d
    <3> QED
      BY <3>1, OneHandedWell DEF MetadataHandedWell, JwksHandedWell
  <2> QED
    BY <1>3, <2>1, <2>2, <2>3 DEF RemoteJwks
<1>4. CASE Discard(o)
  <2>1. PICK d \in Call : call' = [call EXCEPT ![o] = d] /\ SameHoldings(c, d)
    BY <1>4, Discarded
  <2> QED
    BY <2>1, OneHandedWell DEF MetadataHandedWell, JwksHandedWell, SameHoldings
<1> QED
  BY <1>2, <1>3, <1>4
     DEF Run, Admit, Verify, Recheck, RefreshForMissingKeyFailed, Classify

LEMMA MetadataSettlesHandsWell ==
  ASSUME Shape, AgeInvariant, Provenance, MetadataSettles
  PROVE  HandedStaleInOutage
<1>1. \A o \in Op : /\ call[o] \in Call /\ call[o].now \in Nat /\ call[o].now <= clock
                    /\ clock \in Nat /\ clock # None
  BY NoneAssumption DEF Shape, TypeOK, Call, AgeInvariant, CallSound
<1>2. ASSUME NEW e, NEW control, MetadataRefreshed(e, control), NEW o \in Op
      PROVE  /\ MetadataHandedWell(call[o], call'[o], outage'.metadata)
             /\ JwksHandedWell(call[o], call'[o], outage'.jwks)
  <2> DEFINE answer == MetadataAnswer(e, control)
  <2>1. answer.arrived = clock
    BY DEF MetadataAnswer
  <2>2. call'[o] = call[o] \/ call'[o] = WithMetadata(call[o], answer)
    BY <1>2 DEF MetadataRefreshed
  <2> HIDE DEF answer
  <2>3. /\ WithMetadata(call[o], answer).meta = answer
        /\ WithMetadata(call[o], answer).doc = call[o].doc
        /\ WithMetadata(call[o], answer).now = call[o].now
    BY <1>1, UpdatedFields
  <2> QED
    BY <1>1, <2>1, <2>2, <2>3 DEF MetadataHandedWell, JwksHandedWell
<1>3. ASSUME NEW error, MetadataRefreshFailed(error), NEW o \in Op
      PROVE  /\ MetadataHandedWell(call[o], call'[o], outage'.metadata)
             /\ JwksHandedWell(call[o], call'[o], outage'.jwks)
  <2>1. error = "provider_unavailable" => FailedRecently(outage'.metadata, call[o].now)
    <3>1. error = "provider_unavailable" => outage'.metadata = clock
      BY <1>3 DEF MetadataRefreshFailed, Shape, TypeOK
    <3> QED
      BY <1>1, <3>1, TimeAssumption DEF FailedRecently
  <2>2. call'[o] = call[o] \/ call'[o] = AfterMetadataFailure(call[o], error)
    BY <1>3 DEF MetadataRefreshFailed
  <2>3. /\ MetadataHandedWell(call[o], AfterMetadataFailure(call[o], error), outage'.metadata)
        /\ AfterMetadataFailure(call[o], error).doc = call[o].doc
    BY <1>1, <2>1, MetadataFallback
  <2> QED
    BY <2>2, <2>3 DEF MetadataHandedWell, JwksHandedWell
<1> QED
  BY <1>2, <1>3, HandedWell DEF MetadataSettles

LEMMA JwksSettlesHandsWell ==
  ASSUME Shape, AgeInvariant, NEW r \in Ref, JwksSettles(r)
  PROVE  HandedStaleInOutage
<1>1. \A o \in Op : /\ call[o] \in Call /\ call[o].now \in Nat /\ call[o].now <= clock
                    /\ clock \in Nat /\ clock # None
  BY NoneAssumption DEF Shape, TypeOK, Call, AgeInvariant, CallSound
<1>2. ASSUME NEW e, NEW control, JwksRefreshed(r, e, control), NEW o \in Op
      PROVE  /\ MetadataHandedWell(call[o], call'[o], outage'.metadata)
             /\ JwksHandedWell(call[o], call'[o], outage'.jwks)
  <2> DEFINE answer == JwksAnswer(r, e, control)
  <2>1. answer.arrived = clock
    BY DEF JwksAnswer
  <2>2. call'[o] = call[o] \/ call'[o] = WithJwks(call[o], answer)
    BY <1>2 DEF JwksRefreshed
  <2> HIDE DEF answer
  <2>3. call[o] \in Call
    BY <1>1
  <2>4. /\ WithJwks(call[o], answer).meta = call[o].meta
        /\ WithJwks(call[o], answer).doc = answer
        /\ WithJwks(call[o], answer).now = call[o].now
    BY <2>3, UpdatedFields
  <2> QED
    BY <1>1, <2>1, <2>2, <2>4 DEF MetadataHandedWell, JwksHandedWell
<1>3. ASSUME JwksRefreshFailed(r), NEW o \in Op
      PROVE  /\ MetadataHandedWell(call[o], call'[o], outage'.metadata)
             /\ JwksHandedWell(call[o], call'[o], outage'.jwks)
  <2>1. outage'.jwks = clock
    BY <1>3 DEF JwksRefreshFailed, Shape, TypeOK
  <2>2. FailedRecently(outage'.jwks, call[o].now)
    BY <1>1, <2>1, TimeAssumption DEF FailedRecently
  <2>3. call'[o] = call[o] \/ call'[o] = AfterJwksFailure(call[o])
    BY <1>3 DEF JwksRefreshFailed
  <2>4. /\ JwksHandedWell(call[o], AfterJwksFailure(call[o]), outage'.jwks)
        /\ AfterJwksFailure(call[o]).meta = call[o].meta
    BY <1>1, <2>2, JwksFallback
  <2> QED
    BY <2>3, <2>4 DEF MetadataHandedWell, JwksHandedWell
<1> QED
  BY <1>2, <1>3, HandedWell DEF JwksSettles

\* A document past its freshness is handed out only while the provider is
\* failing; metadata that turned out invalid is never answered with it.
THEOREM StaleOnlyDuringOutageHolds == Spec => StaleOnlyDuringOutage
<1>1. Shape /\ AgeInvariant /\ Provenance /\ [Next]_vars => [HandedStaleInOutage]_vars
  <2> SUFFICES ASSUME Shape, AgeInvariant, Provenance, Next
               PROVE  HandedStaleInOutage
    OBVIOUS
  <2>1. CASE Environment
    BY <2>1 DEF Environment, Tick, NextEpoch, Drop, Terminated, vars, HandedStaleInOutage
  <2> QED
    BY <2>1, StartHandsWell, RunHandsWell, MetadataSettlesHandsWell, JwksSettlesHandsWell
       DEF Next, Environment
<1> QED
  BY <1>1, ShapeInvariant, AgeInvariantHolds, ProvenanceHolds, PTL
     DEF Spec, StaleOnlyDuringOutage

-----------------------------------------------------------------------------
(* The JWK Set request that started last.  The slot, the cache and the       *)
(* backoff are three pieces of state that a request leaves one by one; what  *)
(* connects them is which request they are about.                           *)

\* The JWK Set request that started last: while it is in flight it holds the
\* slot, and when it has ended the state remembers its result or its failure,
\* unless the location changed since or no answer is kept that long.
LastHoldsSlot == jwksRefresh # None => lastRequest # None /\ lastRequest.ref = jwksRefresh

Remembered(last) ==
  \/ /\ jwksFailure # None /\ jwksFailure.identity = last.identity
     /\ jwksFailure.retryAfter = last.now + FailureBackoff
  \/ /\ jwks # None /\ jwks.value.identity = last.identity
     /\ jwks.value.base = last.now
     /\ jwksRefreshAllowedAfter = last.now + RefreshCooldown

LastRemembered ==
  lastRequest # None =>
    /\ call[lastRequest.ref[1]].pc # "idle" /\ call[lastRequest.ref[1]].now = lastRequest.now
    /\ fetches[lastRequest.ref] # None =>
         jwksRefresh = lastRequest.ref /\ fetches[lastRequest.ref].identity = lastRequest.identity
    /\ /\ fetches[lastRequest.ref] = None /\ lastRequest.remembered
       /\ \A control \in CacheControl : ReusableFor(control, RefreshCooldown)
       => Remembered(lastRequest)

SlotHistory == LastHoldsSlot /\ LastRemembered

\* The last request is one of a call's.
LEMMA LastRequestType ==
  ASSUME TypeOK
  PROVE  lastRequest = None \/ (lastRequest.ref \in Ref /\ lastRequest.ref[1] \in Op
                                 /\ lastRequest.now \in Nat)
  BY DEF TypeOK, Ref

\* A call that has begun goes on, at the time it began and with its token.
GoesOn(c, b) == b.pc # "idle" /\ b.now = c.now /\ b.token = c.token

CallsGoOn == \A o \in Op : call[o].pc # "idle" => GoesOn(call[o], call'[o])

LEMMA UpdatesGoOn ==
  ASSUME NEW c \in Call
  PROVE  /\ \A d : GoesOn(c, WithMetadata(c, d)) /\ GoesOn(c, WithJwks(c, d))
         /\ \A error : GoesOn(c, AfterMetadataFailure(c, error))
         /\ GoesOn(c, AfterJwksFailure(c))
         /\ \A outcome : GoesOn(c, Done(c, outcome))
<1>1. \A d : WithMetadata(c, d).pc # "idle"
  BY DEF Call, WithMetadata
<1>2. \A d : WithJwks(c, d).pc # "idle"
  BY DEF Call, WithJwks
<1>3. Failing(c, "failed", "provider_unavailable").pc # "idle"
      /\ Failing(c, "refresh_failed", "provider_unavailable").pc # "idle"
      /\ \A error : Failing(c, "failed", error).pc # "idle"
  BY DEF Call, Failing
<1>4. \A outcome : GoesOn(c, Done(c, outcome))
  BY DEF Call, Done, GoesOn
<1>5. \A error : AfterMetadataFailure(c, error).pc # "idle"
  BY <1>1, <1>3 DEF AfterMetadataFailure
<1>6. AfterJwksFailure(c).pc # "idle"
  BY <1>2, <1>3 DEF AfterJwksFailure
<1> QED
  BY <1>1, <1>2, <1>4, <1>5, <1>6, IdentityKept DEF GoesOn

LEMMA StepGoesOn ==
  ASSUME Shape, Next
  PROVE  CallsGoOn
<1>1. \A o \in Op : call[o] \in Call
  BY DEF Shape, TypeOK
<1>2. ASSUME NEW o \in Op, NEW d, call' = [call EXCEPT ![o] = d],
             call[o].pc # "idle" => GoesOn(call[o], d)
      PROVE  CallsGoOn
  BY <1>1, <1>2 DEF CallsGoOn, GoesOn, Shape, TypeOK
<1>3. ASSUME NEW o \in Op, NEW token \in Token, Start(o, token)
      PROVE  CallsGoOn
  <2>1. call[o].pc = "idle" /\ \E d : call' = [call EXCEPT ![o] = d]
    BY <1>3 DEF Start, Continue, AwaitMetadata
  <2> QED
    BY <1>2, <2>1
<1>4. ASSUME NEW o \in Op, Run(o)
      PROVE  CallsGoOn
  <2> DEFINE c == call[o]
  <2>1. c \in Call
    BY <1>1
  <2>2. ASSUME NEW outcome, Finish(o, outcome)
        PROVE  CallsGoOn
    <3>1. call' = [call EXCEPT ![o] = Done(c, outcome)]
      BY <2>2 DEF Finish, Shape, TypeOK
    <3> QED
      BY <1>2, <2>1, <3>1, UpdatesGoOn
  <2>3. ASSUME RemoteJwks(o, c)
        PROVE  CallsGoOn
    <3>1. CASE Resume(o, WithJwks(c, jwks.value))
      BY <1>2, <2>1, <3>1, UpdatesGoOn DEF Resume
    <3>2. CASE Resume(o, AfterJwksFailure([c EXCEPT !.resolved = jwks]))
      <4> DEFINE b == [c EXCEPT !.resolved = jwks]
      <4>1. b \in Call /\ b.now = c.now /\ b.token = c.token
        BY <2>1 DEF Call, Shape, TypeOK
      <4> HIDE DEF b
      <4>2. GoesOn(c, AfterJwksFailure(b))
        BY <4>1, UpdatesGoOn DEF GoesOn
      <4> QED
        BY <1>2, <3>2, <4>2 DEF Resume, b
    <3>3. CASE AwaitJwks(o, c)
      <4> DEFINE d == [c EXCEPT !.pc = IF ForMissingKey(c) THEN "missing_key" ELSE "lookup",
                                !.resolved = jwks]
      <4>1. GoesOn(c, d) /\ call' = [call EXCEPT ![o] = d]
        BY <2>1, <3>3 DEF Call, AwaitJwks, GoesOn
      <4> HIDE DEF d
      <4> QED
        BY <1>2, <4>1
    <3> QED
      BY <2>3, <3>1, <3>2, <3>3 DEF RemoteJwks
  <2>4. CASE Discard(o)
    <3>1. PICK d \in Call : /\ call' = [call EXCEPT ![o] = d]
                            /\ d.pc = "dropped" /\ SameHoldings(c, d)
      BY <2>4, Discarded
    <3> QED
      BY <1>2, <3>1 DEF GoesOn, SameHoldings
  <2> QED
    BY <1>4, <2>2, <2>3, <2>4
       DEF Run, Admit, Verify, Recheck, RefreshForMissingKeyFailed, Classify
<1>5. ASSUME \A o \in Op : \/ call'[o] = call[o]
                           \/ \E d : call'[o] = WithMetadata(call[o], d)
                           \/ \E error : call'[o] = AfterMetadataFailure(call[o], error)
                           \/ \E d : call'[o] = WithJwks(call[o], d)
                           \/ call'[o] = AfterJwksFailure(call[o])
      PROVE  CallsGoOn
  <2> SUFFICES ASSUME NEW o \in Op, call[o].pc # "idle"
               PROVE  GoesOn(call[o], call'[o])
    BY DEF CallsGoOn
  <2>1. call[o] \in Call
    BY <1>1
  <2> QED
    BY <1>5, <2>1, UpdatesGoOn DEF GoesOn
<1>6. CASE MetadataSettles
  BY <1>5, <1>6 DEF MetadataSettles, MetadataRefreshed, MetadataRefreshFailed
<1>7. CASE \E r \in Ref : JwksSettles(r)
  BY <1>5, <1>7 DEF JwksSettles, JwksRefreshed, JwksRefreshFailed
<1>8. CASE Environment
  BY <1>8 DEF Environment, Tick, NextEpoch, Drop, Terminated, vars, CallsGoOn, GoesOn
<1> QED
  BY <1>3, <1>4, <1>6, <1>7, <1>8 DEF Next, Environment

\* A step that touches no request and nothing they leave behind keeps the
\* history.
LEMMA HistoryCarried ==
  ASSUME Shape, SlotHistory, CallsGoOn, UNCHANGED <<jwksVars, historyVars>>
  PROVE  SlotHistory'
<1>1. lastRequest = None \/ lastRequest.ref[1] \in Op
  BY LastRequestType DEF Shape
<1> QED
  BY <1>1 DEF SlotHistory, LastHoldsSlot, LastRemembered, Remembered, CallsGoOn, GoesOn,
              jwksVars, historyVars

LEMMA MetadataSettlesHistory ==
  ASSUME Shape, SlotHistory, CallsGoOn, MetadataSettles
  PROVE  SlotHistory'
<1>1. UNCHANGED <<fetches, jwksRefresh>>
  BY DEF MetadataSettles, MetadataRefreshed, MetadataRefreshFailed, jwksVars
<1>2. \/ UNCHANGED <<jwks, jwksFailure, jwksRefreshAllowedAfter, lastRequest>>
      \/ lastRequest = None /\ lastRequest' = None
      \/ lastRequest # None /\ lastRequest' = [lastRequest EXCEPT !.remembered = FALSE]
  BY DEF MetadataSettles, MetadataRefreshed, MetadataRefreshFailed, ForgetJwksUnless, jwksVars
<1>3. lastRequest = None \/ lastRequest.ref[1] \in Op
  BY LastRequestType DEF Shape
<1>4. CASE UNCHANGED <<jwks, jwksFailure, jwksRefreshAllowedAfter, lastRequest>>
  BY <1>1, <1>3, <1>4 DEF SlotHistory, LastHoldsSlot, LastRemembered, Remembered, CallsGoOn,
                          GoesOn
<1>5. CASE lastRequest = None /\ lastRequest' = None
  BY <1>1, <1>5 DEF SlotHistory, LastHoldsSlot, LastRemembered
<1>6. CASE lastRequest # None /\ lastRequest' = [lastRequest EXCEPT !.remembered = FALSE]
  <2>1. /\ lastRequest'.ref = lastRequest.ref /\ lastRequest'.now = lastRequest.now
        /\ lastRequest'.identity = lastRequest.identity /\ ~lastRequest'.remembered
        /\ lastRequest' # None
    <3>1. lastRequest \in [ref : Ref, now : Nat, identity : Identity, remembered : BOOLEAN]
      BY <1>6 DEF Shape, TypeOK
    <3>2. lastRequest' = [lastRequest EXCEPT !.remembered = FALSE]
      BY <1>6
    <3>3. lastRequest' \in [ref : Ref, now : Nat, identity : Identity, remembered : BOOLEAN]
      BY <3>1, <3>2
    <3> QED
      BY <3>1, <3>2, <3>3, NoneAssumption
  <2> QED
    BY <1>1, <1>3, <1>6, <2>1
       DEF SlotHistory, LastHoldsSlot, LastRemembered, CallsGoOn, GoesOn
<1> QED
  BY <1>2, <1>4, <1>5, <1>6

\* Only the request that started last is in the slot, and only its end leaves
\* a result or a failure.
LEMMA JwksSettlesHistory ==
  ASSUME Shape, SlotHistory, CallsGoOn, NEW r \in Ref, JwksSettles(r)
  PROVE  SlotHistory'
<1>1. /\ TypeOK /\ fetches[r] # None /\ UNCHANGED lastRequest
      /\ jwksRefresh' = IF jwksRefresh = r THEN None ELSE jwksRefresh
      /\ fetches' = [fetches EXCEPT ![r] = None]
  BY DEF JwksSettles, JwksRefreshed, JwksRefreshFailed, JwksPending, SlotAfter, InSlot, Shape,
         historyVars
<1>2. fetches'[r] = None /\ \A s \in Ref \ {r} : fetches'[s] = fetches[s]
  BY <1>1 DEF TypeOK
<1>3. lastRequest = None \/
        (lastRequest.ref \in Ref /\ lastRequest.ref[1] \in Op /\ lastRequest.now \in Nat)
  BY <1>1, LastRequestType
<1>4. LastHoldsSlot'
  BY <1>1 DEF SlotHistory, LastHoldsSlot
<1>5. ASSUME lastRequest # None
      PROVE  /\ call'[lastRequest.ref[1]].pc # "idle"
             /\ call'[lastRequest.ref[1]].now = lastRequest.now
  BY <1>3, <1>5 DEF SlotHistory, LastRemembered, CallsGoOn, GoesOn
<1>6. CASE lastRequest # None /\ lastRequest.ref = r
  <2>1. ASSUME \A control \in CacheControl : ReusableFor(control, RefreshCooldown)
        PROVE  Remembered(lastRequest)'
    <3>1. /\ InSlot(r) /\ fetches[r].identity = lastRequest.identity
          /\ call[r[1]].now = lastRequest.now
      BY <1>1, <1>6 DEF SlotHistory, LastRemembered, InSlot
    <3>2. ASSUME NEW e \in Published(fetches[r].startedAt), NEW control \in CacheControl,
                 JwksRefreshed(r, e, control)
          PROVE  Remembered(lastRequest)'
      <4> DEFINE answer == JwksAnswer(r, e, control)
      <4>1. /\ answer \in Document /\ answer.identity = lastRequest.identity
            /\ answer.base = lastRequest.now /\ answer.control = control
        BY <1>1, <3>1, JwksAnswerType DEF JwksAnswer
      <4>2. /\ jwks' = Retained(answer)
            /\ jwksRefreshAllowedAfter' = RefreshAllowedAfter(answer)
        BY <3>1, <3>2 DEF JwksRefreshed
      <4> HIDE DEF answer
      <4>3. ~answer.control.noStore
        BY <2>1, <4>1 DEF ReusableFor
      <4>4. jwks' = CacheEntry(answer) /\ CacheEntry(answer).value = answer
        BY <4>2, <4>3 DEF Retained, CacheEntry
      <4>5. jwks' # None
        <5>1. answer.control \in CacheControl /\ answer.base \in Nat
          BY <4>1 DEF Document
        <5>2. BoundedFreshness(answer.control) \in Nat
          BY <5>1, FreshnessType
        <5>3. CacheEntry(answer) \in Entry
          BY <4>1, <5>1, <5>2, TimeAssumption DEF CacheEntry, Entry
        <5> QED
          BY <4>4, <5>3, NoneAssumption
      <4>6. jwksRefreshAllowedAfter' = lastRequest.now + RefreshCooldown
        BY <4>1, <4>2, <4>3 DEF RefreshAllowedAfter
      <4> QED
        BY <1>1, <4>1, <4>4, <4>5, <4>6 DEF Remembered
    <3>3. ASSUME JwksRefreshFailed(r)
          PROVE  Remembered(lastRequest)'
      <4>1. jwksFailure' = [identity |-> lastRequest.identity,
                            retryAfter |-> lastRequest.now + FailureBackoff]
        BY <3>1, <3>3 DEF JwksRefreshFailed
      <4>2. jwksFailure' # None
        <5>1. lastRequest.identity \in Identity /\ lastRequest.now + FailureBackoff \in Nat
          BY <1>1, <1>6, TimeAssumption DEF TypeOK
        <5> QED
          BY <4>1, <5>1, NoneAssumption
      <4> QED
        BY <1>1, <4>1, <4>2 DEF Remembered
    <3> QED
      BY <3>2, <3>3 DEF JwksSettles
  <2> QED
    BY <1>1, <1>2, <1>4, <1>5, <1>6, <2>1 DEF SlotHistory, LastRemembered
<1>7. CASE lastRequest # None /\ lastRequest.ref # r
  <2>1. jwksRefresh # r /\ UNCHANGED <<jwks, jwksFailure, jwksRefreshAllowedAfter>>
    <3>1. jwksRefresh # r
      BY <1>7, NoneAssumption DEF SlotHistory, LastHoldsSlot
    <3> QED
      BY <3>1 DEF JwksSettles, JwksRefreshed, JwksRefreshFailed, InSlot
  <2> QED
    BY <1>1, <1>2, <1>3, <1>4, <1>5, <1>7, <2>1
       DEF SlotHistory, LastRemembered, Remembered
<1>8. CASE lastRequest = None
  BY <1>1, <1>4, <1>8 DEF SlotHistory, LastRemembered
<1> QED
  BY <1>6, <1>7, <1>8

\* A call that awaits a JWK Set joins the last request, or its own becomes it.
LEMMA AwaitJwksHistory ==
  ASSUME Shape, Linked, SlotHistory, CallsGoOn, NEW o \in Op,
         call[o].pc \in {"admit", "verify"}, AwaitJwks(o, call[o])
  PROVE  SlotHistory'
<1>1. UNCHANGED <<jwks, jwksFailure, jwksRefreshAllowedAfter>>
  BY DEF AwaitJwks
<1>2. lastRequest = None \/ (lastRequest.ref \in Ref /\ lastRequest.ref[1] \in Op)
  BY LastRequestType DEF Shape
<1>3. CASE /\ UNCHANGED <<jwksRefresh, lastRequest>>
           /\ \A s \in Ref : /\ fetches'[s] # None <=> fetches[s] # None
                             /\ fetches'[s].startedAt = fetches[s].startedAt
                             /\ fetches'[s].identity = fetches[s].identity
  BY <1>1, <1>2, <1>3 DEF SlotHistory, LastHoldsSlot, LastRemembered, Remembered, CallsGoOn,
                          GoesOn
<1>4. ASSUME NEW r \in Ref, jwksRefresh' = r, r[1] = o, fetches'[r] # None,
             fetches'[r].identity = call[o].meta.identity,
             lastRequest' = [ref |-> r, now |-> call[o].now,
                             identity |-> call[o].meta.identity, remembered |-> TRUE]
      PROVE  SlotHistory'
  <2>1. /\ lastRequest'.ref = r /\ lastRequest'.now = call[o].now
        /\ lastRequest'.identity = call[o].meta.identity
    BY <1>4
  <2>2. lastRequest' # None
    <3>1. call[o] \in Call
      BY DEF Shape, TypeOK
    <3>2. call[o].meta # None
      BY DEF Shape, Bookkeeping, DocumentsHeld, HoldsMetadata
    <3>3. call[o].now \in Nat /\ call[o].meta \in Document
      BY <3>1, <3>2 DEF Call
    <3>4. call[o].meta.identity \in Identity
      BY <3>3 DEF Document
    <3>5. [ref |-> r, now |-> call[o].now, identity |-> call[o].meta.identity,
           remembered |-> TRUE]
            \in [ref : Ref, now : Nat, identity : Identity, remembered : BOOLEAN]
      BY <3>3, <3>4
    <3> QED
      BY <1>4, <3>5, NoneAssumption
  <2>3. call'[o].pc # "idle" /\ call'[o].now = call[o].now
    BY DEF CallsGoOn, GoesOn
  <2> QED
    BY <1>4, <2>1, <2>2, <2>3 DEF SlotHistory, LastHoldsSlot, LastRemembered
<1> QED
  BY <1>3, <1>4, AwaitedRequests

LEMMA RunHistory ==
  ASSUME Shape, Linked, SlotHistory, CallsGoOn, NEW o \in Op, Run(o)
  PROVE  SlotHistory'
<1>1. ASSUME NEW outcome, Finish(o, outcome)
      PROVE  SlotHistory'
  BY <1>1, HistoryCarried DEF Finish
<1>2. ASSUME RemoteJwks(o, call[o]), call[o].pc \in {"admit", "verify"}
      PROVE  SlotHistory'
  BY <1>2, HistoryCarried, AwaitJwksHistory DEF RemoteJwks, Resume
<1>3. CASE Discard(o)
  BY <1>3, HistoryCarried, Discarded
<1> QED
  BY <1>1, <1>2, <1>3
     DEF Run, Admit, Verify, Recheck, RefreshForMissingKeyFailed, Classify, Runs

THEOREM SlotHistoryHolds == Spec => []SlotHistory
<1>1. Init => SlotHistory
  BY DEF Init, SlotHistory, LastHoldsSlot, LastRemembered
<1>2. Shape /\ Linked /\ SlotHistory /\ [Next]_vars => SlotHistory'
  <2> SUFFICES ASSUME Shape, Linked, SlotHistory, [Next]_vars
               PROVE  SlotHistory'
    OBVIOUS
  <2>1. CASE UNCHANGED vars
    <3>1. CallsGoOn /\ UNCHANGED <<jwksVars, historyVars>>
      BY <2>1 DEF vars, CallsGoOn, GoesOn
    <3> QED
      BY <3>1, HistoryCarried
  <2>2. CASE Next
    <3>1. CallsGoOn
      BY <2>2, StepGoesOn
    <3>2. CASE \E o \in Op, token \in Token : Start(o, token)
      BY <3>1, <3>2, HistoryCarried DEF Start
    <3>3. CASE Environment
      BY <3>1, <3>3, HistoryCarried DEF Environment, Tick, NextEpoch, Drop, Terminated, vars
    <3> QED
      BY <2>2, <3>1, <3>2, <3>3, RunHistory, MetadataSettlesHistory, JwksSettlesHistory
         DEF Next, Environment
  <2> QED
    BY <2>1, <2>2
<1> QED
  BY <1>1, <1>2, ShapeInvariant, LinkedHolds, PTL DEF Spec

\* Only the JWK Set request that started last fills the cache or, if it fails,
\* makes later calls back off.
THEOREM OnlyLastRequestPublishesHolds == Spec => OnlyLastRequestPublishes
<1>1. Shape /\ SlotHistory /\ [Next]_vars => [PublishedByLastRequest]_vars
  <2> SUFFICES ASSUME Shape, SlotHistory, Next
               PROVE  PublishedByLastRequest
    OBVIOUS
  <2>1. ASSUME NEW r \in Ref, InSlot(r)
        PROVE  r = lastRequest.ref
    BY <2>1, NoneAssumption DEF InSlot, SlotHistory, LastHoldsSlot
  <2>2. ASSUME NEW r \in Ref, NEW e, NEW control, JwksRefreshed(r, e, control)
        PROVE  PublishedByLastRequest
    <3>1. CASE InSlot(r)
      <4>1. jwks' = Retained(JwksAnswer(r, e, control)) /\ jwksFailure' = None
            /\ fetches[r] # None /\ fetches' = [fetches EXCEPT ![r] = None]
        BY <2>2, <3>1 DEF JwksRefreshed, JwksPending
      <4>2. jwks' # None => jwks'.value.ref = r
        BY <4>1 DEF Retained, CacheEntry, JwksAnswer
      <4>3. fetches'[r] = None
        BY <4>1 DEF Shape, TypeOK
      <4> QED
        BY <2>1, <3>1, <4>1, <4>2, <4>3 DEF PublishedByLastRequest
    <3>2. CASE ~InSlot(r)
      BY <2>2, <3>2 DEF JwksRefreshed, PublishedByLastRequest
    <3> QED
      BY <3>1, <3>2
  <2>3. ASSUME NEW r \in Ref, JwksRefreshFailed(r)
        PROVE  PublishedByLastRequest
    <3>1. UNCHANGED jwks /\ fetches[r] # None /\ fetches'[r] = None
      BY <2>3 DEF JwksRefreshFailed, JwksPending, Shape, TypeOK
    <3>2. jwksFailure' # jwksFailure => InSlot(r)
      BY <2>3 DEF JwksRefreshFailed
    <3> QED
      BY <2>1, <3>1, <3>2 DEF PublishedByLastRequest
  <2>4. CASE /\ jwks' = jwks \/ jwks' = None
             /\ jwksFailure' = jwksFailure \/ jwksFailure' = None
    BY <2>4 DEF PublishedByLastRequest
  <2>5. CASE MetadataSettles
    BY <2>4, <2>5 DEF MetadataSettles, MetadataRefreshed, MetadataRefreshFailed,
                      ForgetJwksUnless, jwksVars
  <2>6. CASE \E o \in Op : Run(o)
    BY <2>4, <2>6 DEF Run, Admit, Verify, Recheck, RefreshForMissingKeyFailed, Classify, Discard,
           Finish,
                      RemoteJwks, Resume, AwaitJwks, jwksVars
  <2> QED
    BY <2>2, <2>3, <2>4, <2>5, <2>6
       DEF Next, JwksSettles, Start, Environment, Tick, NextEpoch, Drop, Terminated, vars, jwksVars
<1> QED
  BY <1>1, ShapeInvariant, SlotHistoryHolds, PTL DEF Spec, OnlyLastRequestPublishes

\* A request that is sent although an answer or a failure of the last one for
\* the same identity is remembered, is sent for a call that began after the
\* cooldown or the backoff.
LEMMA RequestSpaced ==
  ASSUME Shape, Linked, AgeInvariant, SlotHistory, NEW o \in Op,
         call[o].pc \in {"admit", "verify"}, RemoteJwks(o, call[o]),
         NEW r \in Ref, fetches[r] = None, fetches'[r] # None, lastRequest # None,
         lastRequest.identity = fetches'[r].identity, lastRequest.remembered,
         \A control \in CacheControl : ReusableFor(control, RefreshCooldown)
  PROVE  /\ fetches[lastRequest.ref] = None
         /\ call[r[1]].now >= lastRequest.now + Smaller(RefreshCooldown, FailureBackoff)
<1> DEFINE c == call[o]
<1>1. /\ TypeOK /\ c \in Call /\ c.now \in Nat /\ lastRequest.now \in Nat
      /\ lastRequest.ref \in Ref
  BY LastRequestType DEF Shape, TypeOK, Call
<1>2. ~CacheAnswers(c) /\ ~JwksBackingOff(c) /\ AwaitJwks(o, c)
  BY DEF RemoteJwks, Resume, jwksVars
<1>3. /\ ~Joinable(c.meta.identity) /\ r[1] = o
      /\ fetches'[r].identity = c.meta.identity
  <2>1. CASE \A s \in Ref : fetches'[s] # None <=> fetches[s] # None
    BY <2>1
  <2>2. ASSUME NEW s \in Ref, fetches'[s].identity = c.meta.identity, s[1] = o,
               \A t \in Ref \ {s} : fetches'[t] = fetches[t]
        PROVE  r[1] = o /\ fetches'[r].identity = c.meta.identity
    <3>1. r = s
      BY <2>2
    <3> QED
      BY <2>2, <3>1
  <2> QED
    BY <1>2, <2>1, <2>2, AwaitedRequests
<1>4. fetches[lastRequest.ref] = None
  BY <1>1, <1>3, NoneAssumption DEF SlotHistory, LastRemembered, Joinable
<1>5. Remembered(lastRequest)
  BY <1>4 DEF SlotHistory, LastRemembered
<1>6. /\ Smaller(RefreshCooldown, FailureBackoff) \in Nat
      /\ Smaller(RefreshCooldown, FailureBackoff) <= RefreshCooldown
      /\ Smaller(RefreshCooldown, FailureBackoff) <= FailureBackoff
  BY TimeAssumption DEF Smaller
<1>7. \/ c.now >= lastRequest.now + FailureBackoff
      \/ c.now >= lastRequest.now + RefreshCooldown
  <2>1. CASE /\ jwksFailure # None /\ jwksFailure.identity = lastRequest.identity
             /\ jwksFailure.retryAfter = lastRequest.now + FailureBackoff
    BY <1>1, <1>2, <1>3, <2>1, TimeAssumption DEF JwksBackingOff
  <2>2. CASE /\ jwks # None /\ jwks.value.identity = lastRequest.identity
             /\ jwks.value.base = lastRequest.now
             /\ jwksRefreshAllowedAfter = lastRequest.now + RefreshCooldown
    <3>1. /\ jwks \in Entry /\ jwks.value.control \in CacheControl
          /\ jwks.freshUntil = lastRequest.now + BoundedFreshness(jwks.value.control)
      BY <1>1, <2>2 DEF TypeOK, Entry, Document, AgeInvariant, EntrySound, CacheEntry
    <3>2. /\ BoundedFreshness(jwks.value.control) \in Nat
          /\ BoundedFreshness(jwks.value.control) >= RefreshCooldown
      BY <3>1, FreshnessType DEF ReusableFor
    <3>3. SameIdentity(jwks, c.meta.identity)
      BY <1>3, <2>2 DEF SameIdentity
    <3>4. ~(c.now < jwks.freshUntil) \/ ~(c.now < jwksRefreshAllowedAfter)
      BY <1>2, <2>2, <3>3 DEF CacheAnswers, Fresh
    <3> HIDE DEF c
    <3> QED
      BY <1>1, <2>2, <3>1, <3>2, <3>4, TimeAssumption
  <2> QED
    BY <1>5, <2>1, <2>2 DEF Remembered
<1> HIDE DEF c
<1>8. c.now >= lastRequest.now + Smaller(RefreshCooldown, FailureBackoff)
  BY <1>1, <1>6, <1>7, TimeAssumption
<1> QED
  BY <1>3, <1>4, <1>8 DEF c

\* Unknown keys, failures and calls that hold other metadata cannot wear down
\* the spacing of requests for one location and algorithms.
THEOREM JwksRequestsSpacedHolds == Spec => JwksRequestsSpaced
<1>1. Shape /\ Linked /\ AgeInvariant /\ SlotHistory /\ [Next]_vars => [SentAfterCooldown]_vars
  <2> SUFFICES ASSUME Shape, Linked, AgeInvariant, SlotHistory, Next
               PROVE  SentAfterCooldown
    OBVIOUS
  <2>1. CASE \E o \in Op : Run(o)
    <3>1. PICK o \in Op : Run(o)
      BY <2>1
    <3>2. CASE UNCHANGED fetches
      BY <3>2 DEF SentAfterCooldown
    <3>3. CASE RemoteJwks(o, call[o]) /\ call[o].pc \in {"admit", "verify"}
      BY <3>3, RequestSpaced DEF SentAfterCooldown
    <3> QED
      BY <3>1, <3>2, <3>3 DEF Run, Admit, Verify, Recheck, RefreshForMissingKeyFailed,
                              Classify, Discard, Runs, Finish, jwksVars
  <2>2. ASSUME NEW s \in Ref, JwksSettles(s)
        PROVE  SentAfterCooldown
    <3>1. \A r \in Ref : fetches'[r] = fetches[r] \/ fetches'[r] = None
      BY <2>2 DEF JwksSettles, JwksRefreshed, JwksRefreshFailed, Shape, TypeOK
    <3> QED
      BY <3>1 DEF SentAfterCooldown
  <2>3. CASE UNCHANGED fetches
    BY <2>3 DEF SentAfterCooldown
  <2> QED
    BY <2>1, <2>2, <2>3 DEF Next, Start, MetadataSettles, MetadataRefreshed,
       MetadataRefreshFailed, MetadataPending, Tick, NextEpoch, Drop, Terminated, vars, jwksVars
<1> QED
  BY <1>1, ShapeInvariant, LinkedHolds, AgeInvariantHolds, SlotHistoryHolds, PTL
     DEF Spec, JwksRequestsSpaced

-----------------------------------------------------------------------------
(* The contract.  A call asks when it starts and is answered when it        *)
(* finishes; every other step is the verifier's own affair.  What Provenance *)
(* keeps on record about a call is what makes its answer one that the       *)
(* provider's documents support.                                            *)

\* What the contract sees of a call.
Reply(c) == [asked |-> c.pc # "idle", now |-> c.now, token |-> c.token,
             outcome |-> IF c.pc = "done" THEN c.outcome ELSE None]

\* A call is under way, and remains the same call.
Underway(c, b) ==
  /\ c.pc \notin {"idle", "done"} /\ b.pc \notin {"idle", "done"}
  /\ b.now = c.now /\ b.token = c.token

\* No call is asked or answered.
Quiet == \A o \in Op : call'[o] = call[o] \/ Underway(call[o], call'[o])

\* The step is one the contract allows.
Promised == [Contract!Next]_(Contract!vars)

LEMMA QuietPromised ==
  ASSUME Quiet, UNCHANGED providerVars
  PROVE  Promised
<1>1. \A o \in Op : Reply(call'[o]) = Reply(call[o])
  BY DEF Quiet, Underway, Reply
<1> QED
  BY <1>1 DEF Promised, Contract!vars, Reply, providerVars

LEMMA TimePromised ==
  ASSUME Tick \/ NextEpoch \/ (\E o \in Op : Drop(o))
  PROVE  Promised
<1>1. CASE Tick
  BY <1>1 DEF Tick, Promised, Contract!Next, Contract!Tick
<1>2. CASE NextEpoch
  BY <1>2 DEF NextEpoch, CurrentEpoch, Promised, Contract!Next, Contract!NextEpoch
<1>3. CASE \E o \in Op : Drop(o)
  BY <1>3, QuietPromised DEF Drop, Quiet
<1> QED
  BY <1>1, <1>2, <1>3

LEMMA StartPromised ==
  ASSUME Shape, NEW o \in Op, NEW token \in Token, Start(o, token)
  PROVE  Promised
<1> DEFINE c == [call[o] EXCEPT !.now = clock, !.token = token]
<1>1. c \in Call /\ c.now = clock /\ c.token = token
  <2>1. call[o] \in Call
    BY DEF Shape, TypeOK
  <2> QED
    BY <2>1, StartedCall DEF Shape, Call
<1> HIDE DEF c
<1> DEFINE b == call'[o]
<1>2. /\ b.pc \notin {"idle", "done"} /\ b.now = clock /\ b.token = token
      /\ call' = [call EXCEPT ![o] = b]
  <2>1. ASSUME NEW d, d.pc \notin {"idle", "done"}, d.now = c.now, d.token = c.token,
               call' = [call EXCEPT ![o] = d]
        PROVE  <1>2!:
    BY <1>1, <2>1 DEF Shape, TypeOK
  <2>2. CASE Continue(o, WithMetadata(c, metadata.value))
    <3> DEFINE d == WithMetadata(c, metadata.value)
    <3>1. d.pc = "admit" /\ d.now = c.now /\ d.token = c.token
      BY <1>1, UpdatedFields, IdentityKept
    <3>2. call' = [call EXCEPT ![o] = d]
      BY <2>2 DEF Continue
    <3> HIDE DEF d
    <3> QED
      BY <2>1, <3>1, <3>2
  <2>3. CASE Continue(o, AfterMetadataFailure(c, metadataFailure.error))
    <3> DEFINE d == AfterMetadataFailure(c, metadataFailure.error)
    <3>1. d.pc \in {"admit", "failed"}
      BY <1>1, UpdatedFields DEF AfterMetadataFailure
    <3>2. d.now = c.now /\ d.token = c.token
      BY <1>1, IdentityKept
    <3>3. call' = [call EXCEPT ![o] = d]
      BY <2>3 DEF Continue
    <3> HIDE DEF d
    <3> QED
      BY <2>1, <3>1, <3>2, <3>3
  <2>4. CASE AwaitMetadata(o, c)
    <3> DEFINE d == [c EXCEPT !.pc = "metadata"]
    <3>1. d.pc = "metadata" /\ d.now = c.now /\ d.token = c.token
      BY <1>1 DEF Call
    <3>2. call' = [call EXCEPT ![o] = d]
      BY <2>4 DEF AwaitMetadata
    <3> HIDE DEF d
    <3> QED
      BY <2>1, <3>1, <3>2
  <2> QED
    BY <2>2, <2>3, <2>4 DEF Start, c
<1>3. call[o].pc = "idle" /\ UNCHANGED providerVars
  BY DEF Start
<1> HIDE DEF b
<1>4. /\ Reply(call'[o]) = [asked |-> TRUE, now |-> clock, token |-> token, outcome |-> None]
      /\ \A p \in Op : p # o => call'[p] = call[p]
  BY <1>2 DEF Reply, b, Shape, TypeOK
<1>5. [p \in Op |-> Reply(call'[p])] =
        [[p \in Op |-> Reply(call[p])] EXCEPT ![o] =
           [asked |-> TRUE, now |-> clock, token |-> token, outcome |-> None]]
  BY <1>4
<1>6. Contract!Ask(o, token)
  BY <1>3, <1>5 DEF Contract!Ask, Reply, providerVars
<1> QED
  BY <1>6 DEF Promised, Contract!Next

\* What the provider's documents say of a call's token, as the call held them.
LEMMA ReplyAllowed ==
  ASSUME TypeOK, NEW c \in Call, Held(c), c.meta # None
  PROVE  /\ c.token.alg = None
              => "internal_failure" \in Contract!Allowed(c.token, c.now)
         /\ c.token.alg # None /\ c.token.alg \notin c.meta.identity.algs
              => "alg_rejected" \in Contract!Allowed(c.token, c.now)
         /\ /\ c.token.alg \in c.meta.identity.algs
            /\ c.doc # None /\ c.doc.identity = c.meta.identity
            => /\ ~HasMatchingKey(c.token, c.doc)
                    => "unknown_key" \in Contract!Allowed(c.token, c.now)
               /\ HasMatchingKey(c.token, c.doc)
                    => Verdict(c.token) \in Contract!Allowed(c.token, c.now)
<1> DEFINE m == c.meta.epoch
           k == c.doc.epoch
<1>1. \A e \in DOMAIN epochStart : EndOf(e) \in Nat /\ Contract!EndOf(e) = EndOf(e)
  BY EndOfType DEF EndOf, CurrentEpoch, Contract!EndOf
<1>2. c.now \in Nat
  BY DEF Call
<1>3. ASSUME NEW d, Trusted(d, c.now)
      PROVE  d.epoch \in Contract!Trusted(c.now)
  BY <1>1, <1>2, <1>3, TimeAssumption DEF Trusted, Contract!Trusted
<1>4. m \in Contract!Trusted(c.now) /\ Schedule[m].metadata = c.meta.identity
  BY <1>3 DEF Held, Named
<1>0. None \notin c.meta.identity.algs
  BY TokenAssumption DEF Call, Document, Identity
<1>5. CASE c.token.alg = None
  <2>1. "internal_failure" \in Contract!Supported(c.token, m, m)
    BY <1>5 DEF Contract!Supported, Contract!Unreadable
  <2> QED
    BY <1>0, <1>4, <1>5, <2>1 DEF Contract!Allowed
<1>7. CASE c.token.alg # None /\ c.token.alg \notin c.meta.identity.algs
  <2>1. "alg_rejected" \in Contract!Supported(c.token, m, m)
    BY <1>4, <1>7 DEF Contract!Supported, Contract!Unreadable, Contract!AlgorithmAccepted
  <2> QED
    BY <1>4, <1>7, <2>1 DEF Contract!Allowed
<1>6. CASE c.token.alg \in c.meta.identity.algs /\ c.doc # None
           /\ c.doc.identity = c.meta.identity
  <2>1. k \in Contract!Trusted(c.now)
    BY <1>3, <1>6 DEF Held
  <2>2. Contract!KeyPublished(c.token, m, k) <=> HasMatchingKey(c.token, c.doc)
    BY <1>4, <1>6 DEF Contract!KeyPublished, HasMatchingKey, KeysOf
  <2>3. Contract!AlgorithmAccepted(c.token, m) /\ ~Contract!Unreadable(c.token)
    BY <1>0, <1>4, <1>6 DEF Contract!AlgorithmAccepted, Contract!Unreadable
  <2> HIDE DEF m, k
  <2>4. ~HasMatchingKey(c.token, c.doc) => "unknown_key" \in Contract!Supported(c.token, m, k)
    BY <2>2, <2>3 DEF Contract!Supported
  <2>5. HasMatchingKey(c.token, c.doc) /\ c.token.kid \notin WeakKid
          => Verdict(c.token) \in Contract!Supported(c.token, m, k)
    BY <2>2, <2>3 DEF Contract!Supported, Verdict
  <2>6. c.token.kid \in WeakKid => Verdict(c.token) \in Contract!Allowed(c.token, c.now)
    BY DEF Verdict, Contract!Allowed
  <2> QED
    BY <1>0, <1>4, <1>6, <2>1, <2>4, <2>5, <2>6 DEF Contract!Allowed
<1> QED
  BY <1>5, <1>6, <1>7

LEMMA FinishPromised ==
  ASSUME Shape, NEW o \in Op, NEW outcome, Finish(o, outcome),
         call[o].pc \notin {"idle", "done"},
         outcome \in Contract!Allowed(call[o].token, call[o].now),
         UNCHANGED providerVars
  PROVE  Promised
<1> DEFINE b == Done(call[o], outcome)
<1>1. call[o] \in Call
  BY DEF Shape, TypeOK
<1>2. b.pc = "done" /\ b.now = call[o].now /\ b.token = call[o].token /\ b.outcome = outcome
  BY <1>1 DEF Done, Call
<1>3. call' = [call EXCEPT ![o] = b] /\ call \in [Op -> Call]
  BY DEF Finish, Shape, TypeOK
<1> HIDE DEF b
<1>4. Reply(call'[o]) = [Reply(call[o]) EXCEPT !.outcome = outcome]
  BY <1>2, <1>3 DEF Reply
<1>5. \A p \in Op : p # o => call'[p] = call[p]
  BY <1>3
<1> DEFINE seen == [p \in Op |-> Reply(call[p])]
<1>6. [p \in Op |-> Reply(call'[p])] = [seen EXCEPT ![o].outcome = outcome]
  BY <1>4, <1>5
<1>7. /\ seen[o].asked /\ seen[o].outcome = None
      /\ seen[o].now = call[o].now /\ seen[o].token = call[o].token
  BY DEF Reply
<1>8. outcome \in Contract!Allowed(seen[o].token, seen[o].now)
  BY <1>7
<1> HIDE DEF seen
<1>9. \E x \in Contract!Allowed(seen[o].token, seen[o].now) :
        [p \in Op |-> Reply(call'[p])] = [seen EXCEPT ![o].outcome = x]
  BY <1>6, <1>8
<1>10. Contract!Answer(o)
  BY <1>7, <1>9 DEF Contract!Answer, Reply, providerVars, seen
<1> QED
  BY <1>10 DEF Promised, Contract!Next

\* A call's own step finishes it with an allowed answer, or asks for a JWK Set.
LEMMA RunPromised ==
  ASSUME Shape, IdentityIsolation, Provenance, CallsGoOn, NEW o \in Op, Run(o)
  PROVE  Promised
<1> DEFINE c == call[o]
<1>1. c \in Call /\ Held(c) /\ Reasoned(c, outage.jwks)
  BY DEF Shape, TypeOK, Provenance, CallsReasoned
<1>2. c.pc \in HoldsMetadata => c.meta # None
  BY DEF Shape, Bookkeeping, DocumentsHeld
<1>3. UNCHANGED providerVars
  BY DEF Run, Admit, Verify, Recheck, RefreshForMissingKeyFailed, Classify, Discard
<1>4. c.doc # None => c.doc.identity = c.meta.identity
  BY DEF IdentityIsolation
<1>5. "provider_unavailable" \in Contract!Allowed(c.token, c.now)
      /\ "metadata_rejected" \in Contract!Allowed(c.token, c.now)
  BY DEF Contract!Allowed
<1>6. ASSUME NEW outcome, Finish(o, outcome), c.pc \notin {"idle", "done"},
             outcome \in Contract!Allowed(c.token, c.now)
      PROVE  Promised
  BY <1>3, <1>6, FinishPromised
<1>7. ASSUME RemoteJwks(o, c), c.pc \in {"admit", "verify"}
      PROVE  Promised
  <2>1. GoesOn(c, call'[o])
    BY <1>7 DEF CallsGoOn
  <2>2. /\ call'[o].pc # "done"
        /\ \A p \in Op : p # o => call'[p] = call[p]
    <3>1. CASE Resume(o, WithJwks(c, jwks.value))
      BY <1>1, <3>1, UpdatedFields DEF Resume, Shape, TypeOK
    <3>2. CASE Resume(o, AfterJwksFailure([c EXCEPT !.resolved = jwks]))
      <4> DEFINE b == [c EXCEPT !.resolved = jwks]
      <4>1. b \in Call
        BY <1>1 DEF Call, Shape, TypeOK
      <4> HIDE DEF b
      <4>2. AfterJwksFailure(b).pc # "done"
        BY <4>1, UpdatedFields DEF AfterJwksFailure
      <4> QED
        BY <3>2, <4>2 DEF Resume, Shape, TypeOK, b
    <3>3. CASE AwaitJwks(o, c)
      <4> DEFINE d == [c EXCEPT !.pc = IF ForMissingKey(c) THEN "missing_key" ELSE "lookup",
                                !.resolved = jwks]
      <4>1. d.pc # "done" /\ call' = [call EXCEPT ![o] = d]
        BY <1>1, <3>3 DEF Call, AwaitJwks
      <4> HIDE DEF d
      <4> QED
        BY <4>1 DEF Shape, TypeOK
    <3> QED
      BY <1>7, <3>1, <3>2, <3>3 DEF RemoteJwks
  <2>3. Quiet
    BY <1>7, <2>1, <2>2 DEF Quiet, Underway, GoesOn
  <2> QED
    BY <1>3, <2>3, QuietPromised
<1>8. CASE Admit(o)
  <2>1. c.pc = "admit" /\ c.meta # None
    BY <1>2, <1>8 DEF Admit, Runs, HoldsMetadata
  <2>2. CASE c.token.alg # None /\ c.token.alg \notin c.meta.identity.algs
             /\ Finish(o, "alg_rejected")
    <3>1. "alg_rejected" \in Contract!Allowed(c.token, c.now)
      BY <1>1, <2>1, <2>2, ReplyAllowed DEF Shape
    <3> QED
      BY <1>6, <2>1, <2>2, <3>1
  <2>3. CASE c.token.alg = None /\ Finish(o, "internal_failure")
    <3>1. "internal_failure" \in Contract!Allowed(c.token, c.now)
      BY <1>1, <2>1, <2>3, ReplyAllowed DEF Shape
    <3> QED
      BY <1>6, <2>1, <2>3, <3>1
  <2> QED
    BY <1>7, <1>8, <2>1, <2>2, <2>3 DEF Admit
<1>9. ASSUME c.pc \in {"verify", "recheck", "refresh_failed"}
      PROVE  /\ ~HasMatchingKey(c.token, c.doc)
                  => "unknown_key" \in Contract!Allowed(c.token, c.now)
             /\ HasMatchingKey(c.token, c.doc)
                  => Verdict(c.token) \in Contract!Allowed(c.token, c.now)
  <2>1. c.meta # None /\ c.token.alg \in c.meta.identity.algs /\ c.doc # None
    BY <1>1, <1>2, <1>9 DEF HoldsMetadata, Reasoned
  <2> HIDE DEF c
  <2> QED
    BY <1>1, <1>4, <2>1, ReplyAllowed DEF Shape
<1>10. CASE Verify(o)
  <2>1. c.pc = "verify"
    BY <1>10 DEF Verify, Runs
  <2> QED
    BY <1>6, <1>7, <1>9, <1>10, <2>1 DEF Verify
<1>11. CASE Recheck(o)
  <2>1. c.pc = "recheck"
    BY <1>11 DEF Recheck, Runs
  <2> QED
    BY <1>6, <1>9, <1>11, <2>1 DEF Recheck
<1>12. CASE RefreshForMissingKeyFailed(o)
  <2>1. c.pc = "refresh_failed"
    BY <1>12 DEF RefreshForMissingKeyFailed, Runs
  <2>2. /\ ~HasMatchingKey(c.token, c.doc)
        /\ c.outcome \in {"provider_unavailable", "metadata_rejected"}
    BY <1>1, <2>1 DEF Reasoned
  <2> QED
    BY <1>5, <1>6, <1>9, <1>12, <2>1, <2>2 DEF RefreshForMissingKeyFailed
<1>13. CASE Classify(o)
  <2>1. c.pc = "failed"
    BY <1>13 DEF Classify, Runs
  <2>2. c.outcome \in {"provider_unavailable", "metadata_rejected"}
    BY <1>1, <2>1 DEF Reasoned
  <2> QED
    BY <1>5, <1>6, <1>13, <2>1, <2>2 DEF Classify
<1>14. CASE Discard(o)
  <2>1. PICK d \in Call : /\ call' = [call EXCEPT ![o] = d]
                          /\ d.pc = "dropped" /\ SameHoldings(c, d)
    BY <1>14, Discarded
  <2>2. Quiet
    BY <1>14, <2>1, Discarded DEF Quiet, Underway, SameHoldings, Resumed, Shape, TypeOK
  <2> QED
    BY <1>3, <2>2, QuietPromised
<1> QED
  BY <1>8, <1>10, <1>11, <1>12, <1>13, <1>14 DEF Run

\* A request that settles hands its result on, and answers nobody.
LEMMA SettlesPromised ==
  ASSUME Shape, CallsGoOn, MetadataSettles \/ \E r \in Ref : JwksSettles(r)
  PROVE  Promised
<1>1. \A o \in Op : call[o] \in Call
  BY DEF Shape, TypeOK
<1>2. UNCHANGED providerVars
  BY DEF MetadataSettles, MetadataRefreshed, MetadataRefreshFailed,
         JwksSettles, JwksRefreshed, JwksRefreshFailed
<1>3. \A o \in Op : \A d, error :
        /\ WithMetadata(call[o], d).pc # "done" /\ WithJwks(call[o], d).pc # "done"
        /\ AfterMetadataFailure(call[o], error).pc # "done"
        /\ AfterJwksFailure(call[o]).pc # "done"
  BY <1>1, UpdatedFields DEF AfterMetadataFailure, AfterJwksFailure
<1>4. ASSUME NEW o \in Op, call'[o] # call[o]
      PROVE  call[o].pc \notin {"idle", "done"} /\ call'[o].pc # "done"
  <2>1. CASE MetadataSettles
    <3>1. /\ metadataRefresh # None
          /\ \/ \E d : call' = [q \in Op |-> IF q \in Waiting(metadataRefresh.waiters)
                                             THEN WithMetadata(call[q], d) ELSE call[q]]
             \/ \E error : call' = [q \in Op |-> IF q \in Waiting(metadataRefresh.waiters)
                                                 THEN AfterMetadataFailure(call[q], error)
                                                 ELSE call[q]]
      BY <2>1 DEF MetadataSettles, MetadataRefreshed, MetadataRefreshFailed, MetadataPending
    <3>2. o \in Waiting(metadataRefresh.waiters)
      BY <1>4, <3>1
    <3>3. call[o].pc = "metadata"
      BY <3>1, <3>2 DEF Shape, Bookkeeping, MetadataWaiters
    <3> QED
      BY <1>3, <3>1, <3>2, <3>3
  <2>2. CASE \E r \in Ref : JwksSettles(r)
    BY <1>3, <1>4, <2>2 DEF JwksSettles, JwksRefreshed, JwksRefreshFailed, JwksPending,
                            Shape, Bookkeeping, JwksWaiters
  <2> QED
    BY <2>1, <2>2
<1>5. Quiet
  BY <1>4 DEF Quiet, Underway, CallsGoOn, GoesOn
<1> QED
  BY <1>2, <1>5, QuietPromised

LEMMA InitPromised == Init => Contract!Init
<1> SUFFICES ASSUME Init
             PROVE  Contract!Init
  OBVIOUS
<1>1. \A o \in Op : Reply(call[o]) = [asked |-> FALSE, now |-> 0, token |-> None, outcome |-> None]
  BY DEF Init, Reply
<1> QED
  BY <1>1 DEF Init, Contract!Init, Reply

\* The verifier implements AuthenticationContract: whatever its caches hold
\* and however refreshes, failures and rotations interleave, each call is
\* answered at most once, with what the provider's own documents of the trust
\* lifetime say of its token, or with the provider's failure.
THEOREM KeepsContractHolds == Spec => KeepsContract
<1>1. Shape /\ IdentityIsolation /\ Provenance /\ [Next]_vars
        => [Contract!Next]_(Contract!vars)
  <2> SUFFICES ASSUME Shape, IdentityIsolation, Provenance, [Next]_vars
               PROVE  Promised
    BY DEF Promised
  <2>1. CASE UNCHANGED vars
    BY <2>1, QuietPromised DEF vars, providerVars, Quiet
  <2>2. CASE Next
    <3>1. CallsGoOn
      BY <2>2, StepGoesOn
    <3>2. CASE Terminated
      BY <2>1, <3>2 DEF Terminated
    <3>3. CASE Tick \/ NextEpoch \/ (\E o \in Op : Drop(o))
      BY <3>3, TimePromised
    <3> QED
      BY <2>2, <3>1, <3>2, <3>3, StartPromised, RunPromised, SettlesPromised DEF Next
  <2> QED
    BY <2>1, <2>2
<1> QED
  BY <1>1, InitPromised, ShapeInvariant, IsolationCorrect, ProvenanceHolds, PTL
     DEF Spec, KeepsContract, Contract!Spec

-----------------------------------------------------------------------------
(* What the contract says of an answer.  It goes on being true, because an  *)
(* epoch once trusted is trusted for good by calls that began then.         *)

\* The contract's variable: its view of every call.
Answers == [o \in Op |-> Reply(call[o])]

LEMMA AllowedSays ==
  ASSUME NEW token \in Token, NEW now, NEW outcome \in Contract!Allowed(token, now)
  PROVE  Contract!Says(token, Contract!Trusted(now), outcome)
<1>1. CASE outcome \in {"metadata_rejected", "provider_unavailable"}
  BY <1>1 DEF Contract!Says
<1>2. ASSUME NEW m \in Contract!Trusted(now), NEW k \in Contract!Trusted(now),
             outcome \in Contract!Supported(token, m, k)
      PROVE  Contract!Says(token, Contract!Trusted(now), outcome)
  <2>0. CASE Contract!Unreadable(token)
    BY <1>2, <2>0 DEF Contract!Says, Contract!Supported
  <2>1. CASE ~Contract!Unreadable(token) /\ ~Contract!AlgorithmAccepted(token, m)
    BY <1>2, <2>1 DEF Contract!Says, Contract!Supported
  <2>2. CASE /\ ~Contract!Unreadable(token) /\ Contract!AlgorithmAccepted(token, m)
             /\ ~Contract!KeyPublished(token, m, k)
    BY <1>2, <2>2 DEF Contract!Says, Contract!Supported
  <2>3. CASE /\ ~Contract!Unreadable(token) /\ Contract!AlgorithmAccepted(token, m)
             /\ Contract!KeyPublished(token, m, k)
    <3>1. outcome = token.verdict /\ token.kid \notin WeakKid /\ token.verdict \in Verdicts
      BY <1>2, <2>3, TokenAssumption DEF Contract!Supported
    <3> QED
      BY <1>2, <2>3, <3>1 DEF Contract!Says, Verdicts
  <2> QED
    BY <2>0, <2>1, <2>2, <2>3
<1> QED
  BY <1>1, <1>2 DEF Contract!Allowed

\* How time, the provider and the answers go on.
LEMMA AnswersChange ==
  ASSUME TypeOK, Promised
  PROVE  /\ clock' \in Nat /\ clock <= clock'
         /\ \/ epochStart' = epochStart
            \/ epochStart' = Append(epochStart, clock) /\ clock' = clock
         /\ \A p \in Op :
              \/ Answers'[p] = Answers[p]
              \/ Answers'[p].outcome = None
              \/ Answers'[p].outcome \in Contract!Allowed(Answers[p].token, Answers[p].now)
                 /\ Answers'[p].token = Answers[p].token /\ Answers'[p].now = Answers[p].now
                 /\ Answers[p].asked /\ UNCHANGED providerVars
<1>1. clock \in Nat
  BY DEF TypeOK
<1>2. CASE UNCHANGED Contract!vars
  BY <1>1, <1>2 DEF Contract!vars, Answers, Reply
<1>3. CASE Contract!Tick \/ Contract!NextEpoch
  BY <1>1, <1>3 DEF Contract!Tick, Contract!NextEpoch, Answers, Reply
<1>4. ASSUME NEW o \in Op, NEW token \in Token, Contract!Ask(o, token)
      PROVE  /\ UNCHANGED providerVars
             /\ \A p \in Op : Answers'[p] = Answers[p] \/ Answers'[p].outcome = None
  <2>1. UNCHANGED providerVars
        /\ Answers' = [Answers EXCEPT ![o] = [asked |-> TRUE, now |-> clock, token |-> token,
                                              outcome |-> None]]
    BY <1>4 DEF Contract!Ask, Answers, Reply, providerVars
  <2>2. DOMAIN Answers = Op
    BY DEF Answers
  <2> QED
    BY <2>1, <2>2
<1>5. ASSUME NEW o \in Op, Contract!Answer(o)
      PROVE  /\ UNCHANGED providerVars
             /\ \A p \in Op :
                  \/ Answers'[p] = Answers[p]
                  \/ Answers'[p].outcome \in Contract!Allowed(Answers[p].token, Answers[p].now)
                     /\ Answers'[p].token = Answers[p].token /\ Answers'[p].now = Answers[p].now
                     /\ Answers[p].asked
  <2>1. UNCHANGED providerVars /\ Answers[o].asked
        /\ \E outcome \in Contract!Allowed(Answers[o].token, Answers[o].now) :
             Answers' = [Answers EXCEPT ![o].outcome = outcome]
    BY <1>5 DEF Contract!Answer, Answers, Reply, providerVars
  <2>2. PICK outcome \in Contract!Allowed(Answers[o].token, Answers[o].now) :
          Answers' = [Answers EXCEPT ![o].outcome = outcome]
    BY <2>1
  <2>3. DOMAIN Answers = Op /\ Answers[o] = Reply(call[o])
    BY DEF Answers
  <2>4. /\ Answers'[o].outcome = outcome /\ Answers'[o].token = Answers[o].token
        /\ Answers'[o].now = Answers[o].now
        /\ \A p \in Op : p # o => Answers'[p] = Answers[p]
    BY <2>2, <2>3 DEF Reply
  <2> QED
    BY <2>1, <2>4
<1> QED
  BY <1>1, <1>2, <1>3, <1>4, <1>5 DEF Promised, Contract!Next, providerVars

\* What an answer says, it says of more trusted epochs as well.
LEMMA SaysOfMore ==
  ASSUME NEW token, NEW trusted, NEW more, trusted \subseteq more, NEW outcome,
         Contract!Says(token, trusted, outcome)
  PROVE  Contract!Says(token, more, outcome)
  BY DEF Contract!Says

\* An epoch that is trusted stays trusted.
LEMMA TrustedGrows ==
  ASSUME TypeOK, clock' \in Nat, clock <= clock',
         \/ epochStart' = epochStart
         \/ epochStart' = Append(epochStart, clock) /\ clock' = clock,
         NEW now \in Nat
  PROVE  Contract!Trusted(now) \subseteq
           {e \in DOMAIN epochStart' :
              Contract!EndOf(e)' + (MaximumFreshness + StaleAllowance) >= now}
<1>1. \A e : Contract!EndOf(e) = EndOf(e) /\ Contract!EndOf(e)' = EndOf(e)'
  BY DEF EndOf, CurrentEpoch, Contract!EndOf
<1> SUFFICES ASSUME NEW e \in Contract!Trusted(now)
             PROVE  /\ e \in DOMAIN epochStart'
                    /\ Contract!EndOf(e)' + (MaximumFreshness + StaleAllowance) >= now
  OBVIOUS
<1>2. e \in DOMAIN epochStart /\ EndOf(e) + (MaximumFreshness + StaleAllowance) >= now
  BY <1>1 DEF Contract!Trusted
<1>3. /\ e \in DOMAIN epochStart' /\ EndOf(e) \in Nat /\ EndOf(e)' \in Nat
      /\ EndOf(e) <= EndOf(e)'
  BY <1>2, EpochsLast
<1> QED
  BY <1>1, <1>2, <1>3, TimeAssumption

\* Whatever a caller is told of its token is true of what the provider
\* published within the trust lifetime before the call, or since: a verified
\* token was signed with a published key and is valid, a rejected one is not,
\* an internal failure is the profile's or an unreadable header's, and a key or
\* an algorithm turned away was missing from such a document.
THEOREM AnswersReliableHolds == Spec => []Contract!AnswersReliable
<1>1. Contract!AnswersReliable
        <=> \A o \in Op : Contract!Says(Answers[o].token, Contract!Trusted(Answers[o].now),
                                        Answers[o].outcome)
  BY DEF Contract!AnswersReliable, Answers, Reply
<1>2. ASSUME NEW token, NEW trusted
      PROVE  Contract!Says(token, trusted, None)
  BY OutcomeAssumption DEF Contract!Says, Outcome, Rejection
<1>3. Init => Contract!AnswersReliable
  <2> SUFFICES ASSUME Init
               PROVE  \A o \in Op : Answers[o].outcome = None
    BY <1>1, <1>2
  <2> QED
    BY DEF Init, Answers, Reply
<1>4. Shape /\ Contract!AnswersReliable /\ [Contract!Next]_(Contract!vars)
        => Contract!AnswersReliable'
  <2> SUFFICES ASSUME Shape, Contract!AnswersReliable, Promised, NEW o \in Op
               PROVE  Contract!Says(Answers'[o].token,
                        {e \in DOMAIN epochStart' :
                           Contract!EndOf(e)' + (MaximumFreshness + StaleAllowance)
                             >= Answers'[o].now},
                        Answers'[o].outcome)
    BY DEF Contract!AnswersReliable, Contract!Trusted, Answers, Reply, Promised
  <2> DEFINE now == Answers[o].now
             later == {e \in DOMAIN epochStart' :
                         Contract!EndOf(e)' + (MaximumFreshness + StaleAllowance) >= now}
  <2>1. now \in Nat
    BY DEF Answers, Reply, Shape, TypeOK, Call
  <2>2. Contract!Trusted(now) \subseteq later
    BY <2>1, AnswersChange, TrustedGrows DEF Shape
  <2>3. Contract!Says(Answers[o].token, Contract!Trusted(now), Answers[o].outcome)
    BY <1>1
  <2> HIDE DEF later
  <2>4. CASE Answers'[o] = Answers[o]
    BY <2>2, <2>3, <2>4, SaysOfMore DEF later
  <2>5. CASE Answers'[o].outcome = None
    BY <1>2, <2>5
  <2>6. CASE /\ Answers'[o].outcome \in Contract!Allowed(Answers[o].token, now)
             /\ Answers'[o].token = Answers[o].token /\ Answers'[o].now = now
             /\ Answers[o].asked
    <3>0. Answers[o].token \in Token
      BY <2>6 DEF Answers, Reply, Shape, Bookkeeping, DocumentsHeld
    <3>1. Contract!Says(Answers[o].token, Contract!Trusted(now), Answers'[o].outcome)
      BY <2>6, <3>0, AllowedSays
    <3>2. Contract!Says(Answers[o].token, later, Answers'[o].outcome)
      BY <2>2, <3>1, SaysOfMore
    <3> QED
      BY <2>6, <3>2 DEF later
  <2> QED
    BY <2>4, <2>5, <2>6, AnswersChange DEF Shape
<1> QED
  BY <1>3, <1>4, KeepsContractHolds, ShapeInvariant, PTL DEF Spec, KeepsContract, Contract!Spec

=============================================================================
