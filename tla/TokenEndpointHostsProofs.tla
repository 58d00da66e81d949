----------------------- MODULE TokenEndpointHostsProofs -----------------------
(***************************************************************************)
(* Theorems about a token request, from the wire to the form: first, the   *)
(* ordered checks of TokenRequestParsing and its loop over the scope       *)
(* tokens come to what the form says as a whole, for every form; then,     *)
(* what stands before the form, in either host, lets through exactly the   *)
(* requests without a fault, and leaves the checks of the form as they are.*)
(***************************************************************************)
EXTENDS TokenEndpointHosts, TLAPS

\* The form has passed every check that reads no scope token.
Passed ==
  /\ GrantAcceptable /\ Given("unsupported") = {} /\ TargetAcceptable
  /\ Single("scope") /\ ScopeOf # Blank
  /\ ScopeOf \in Seq(ScopeToken) /\ \A k \in DOMAIN ScopeOf : ScopeOf[k] # Empty

\* `permissions' are those of the first n tokens, each at one level.
ReadUpTo(n) ==
  /\ DOMAIN permissions = {ScopeOf[k].name : k \in 1..n}
  /\ \A k \in 1..n : ScopeOf[k] # Malformed /\ permissions[ScopeOf[k].name] = ScopeOf[k].level

\* The loop invariant.
Reading ==
  answer \in {None, "accepted"} =>
    Passed /\ index \in 1..(Len(ScopeOf) + 1) /\ ReadUpTo(index - 1)

Answered == answer = "accepted" => index = Len(ScopeOf) + 1

ParsingInvariant ==
  /\ form \in Forms
  /\ answer \in Error \cup {None, "accepted"}
  /\ Reading /\ Answered /\ AnswerJustified

-----------------------------------------------------------------------------
\* A field given once is the one its position is picked for.
LEMMA ScopeValue ==
  ASSUME form \in Forms, Single("scope")
  PROVE  \E i \in DOMAIN form :
           /\ Given("scope") = {i} /\ ScopeOf = form[i].value
           /\ ScopeOf = Blank \/ ScopeOf \in Seq(ScopeToken)
<1>1. PICK i \in Given("scope") : Given("scope") = {i}
  BY DEF Single
<1>2. (CHOOSE j \in Given("scope") : TRUE) = i
  BY <1>1
<1>3. ScopeOf = form[i].value
  BY <1>2 DEF ScopeOf
<1>4. i \in DOMAIN form /\ form[i].parameter = "scope" /\ form[i].value # NoText
  BY <1>1 DEF Given
<1>5. form[i] \in Field
  BY <1>4, FormAssumption
<1>6. form[i].value \in {Blank, NoText} \cup (Seq(ScopeToken) \ {<<>>})
  BY <1>4, <1>5 DEF Field, Parameter
<1> QED
  BY <1>1, <1>3, <1>4, <1>6

\* The checks before the scope is read, taken in their order, refuse a form
\* for a fault it has and let only an otherwise proper form through.
LEMMA RefusalJustified ==
  ASSUME form \in Forms
  PROVE  /\ Refusal \in Error \cup {None}
         /\ Refusal = None => Passed
         /\ Refusal \in Error => ~RequestAcceptable
         /\ Refusal = "invalid_target" => GrantAcceptable /\ ~TargetAcceptable
         /\ Refusal = "invalid_scope" => GrantAcceptable /\ ~ScopeAcceptable
         /\ Refusal = "unsupported_grant_type" => Single("grant_type")
<1> DEFINE holdsEmpty == \E k \in DOMAIN ScopeOf : ScopeOf[k] = Empty
<1>1. Refusal \in Error \cup {None}
  BY DEF Refusal, Error
<1>2. None \notin Error
  BY AnswerAssumption
<1>3. SingleIn("grant_type", {Right}) => Single("grant_type")
  BY DEF SingleIn, Single
<1>4. Given("scope") = {} => ~Single("scope")
  BY DEF Single
<1>5. SingleIn("scope", {Blank}) => Single("scope") /\ ScopeOf = Blank
  <2> SUFFICES ASSUME SingleIn("scope", {Blank}) PROVE Single("scope") /\ ScopeOf = Blank
    OBVIOUS
  <2>1. PICK i \in Given("scope") : Given("scope") = {i} /\ form[i].value = Blank
    BY DEF SingleIn
  <2>2. (CHOOSE j \in Given("scope") : TRUE) = i
    BY <2>1
  <2> QED
    BY <2>1, <2>2 DEF Single, ScopeOf
<1>6. Single("scope") /\ ~SingleIn("scope", {Blank}) => ScopeOf # Blank
  <2> SUFFICES ASSUME Single("scope"), ScopeOf = Blank PROVE SingleIn("scope", {Blank})
    OBVIOUS
  <2>1. PICK i \in DOMAIN form : Given("scope") = {i} /\ ScopeOf = form[i].value
    BY ScopeValue
  <2> QED
    BY <2>1 DEF SingleIn
<1>7. Refusal = None => Passed
  <2> SUFFICES ASSUME Refusal = None PROVE Passed
    OBVIOUS
  <2>1. /\ SingleIn("grant_type", {Right}) /\ OAuthFieldsRight /\ ~Unsupported
        /\ Given("audience") = {} /\ Given("scope") # {} /\ Single("scope")
        /\ ~SingleIn("scope", {Blank}) /\ SingleIn("resource", {Right}) /\ ~holdsEmpty
    BY <1>2 DEF Refusal, Error
  <2>2. ScopeOf # Blank /\ ScopeOf \in Seq(ScopeToken)
    BY <1>6, <2>1, ScopeValue
  <2> QED
    BY <2>1, <2>2 DEF Passed, GrantAcceptable, TargetAcceptable, Unsupported
<1>8. holdsEmpty => ~ScopeAcceptable
  BY DEF ScopeAcceptable, NamesOnePermissionEach
<1>9. Refusal \in Error => ~RequestAcceptable
  BY <1>2, <1>3, <1>4, <1>5, <1>8
  DEF Refusal, RequestAcceptable, GrantAcceptable, TargetAcceptable, ScopeAcceptable, Unsupported
<1>10. Refusal = "invalid_target" => GrantAcceptable /\ ~TargetAcceptable
  BY <1>2 DEF Refusal, GrantAcceptable, TargetAcceptable, Error
<1>11. Refusal = "invalid_scope" => GrantAcceptable /\ ~ScopeAcceptable
  BY <1>2, <1>4, <1>5, <1>8 DEF Refusal, GrantAcceptable, ScopeAcceptable, Error
<1>12. Refusal = "unsupported_grant_type" => Single("grant_type")
  BY <1>2 DEF Refusal, Error
<1> QED
  BY <1>1, <1>7, <1>9, <1>10, <1>11, <1>12

\* What the scope says does not change while it is read.
LEMMA SameForm ==
  ASSUME form' = form
  PROVE  /\ ScopeOf' = ScopeOf /\ Passed' = Passed
         /\ RequestAcceptable' = RequestAcceptable /\ GrantAcceptable' = GrantAcceptable
         /\ TargetAcceptable' = TargetAcceptable /\ ScopeAcceptable' = ScopeAcceptable
         /\ Single("grant_type")' = Single("grant_type")
<1>1. \A p : Given(p)' = Given(p)
  BY DEF Given
<1>2. \A p : Single(p)' = Single(p)
  BY <1>1 DEF Single
<1>3. \A p, v : SingleIn(p, v)' = SingleIn(p, v)
  BY <1>1 DEF SingleIn
<1>4. ScopeOf' = ScopeOf
  BY <1>1 DEF ScopeOf
<1>5. GrantAcceptable' = GrantAcceptable /\ TargetAcceptable' = TargetAcceptable
      /\ ScopeAcceptable' = ScopeAcceptable
  BY <1>1, <1>2, <1>3, <1>4
  DEF GrantAcceptable, TargetAcceptable, ScopeAcceptable, OAuthFieldsRight,
      NamesOnePermissionEach
<1> QED
  BY <1>1, <1>2, <1>4, <1>5 DEF Passed, RequestAcceptable

-----------------------------------------------------------------------------
LEMMA Starts == Init => ParsingInvariant
<1> SUFFICES ASSUME Init PROVE ParsingInvariant
  OBVIOUS
<1>1. form \in Forms /\ index = 1 /\ permissions = <<>> /\ answer = Refusal
  BY DEF Init
<1>2. answer # "accepted"
  BY <1>1, RefusalJustified, AnswerAssumption DEF Error
<1>3. answer = None => Passed /\ index \in 1..(Len(ScopeOf) + 1)
  BY <1>1, RefusalJustified DEF Passed
<1>4. ReadUpTo(index - 1)
  BY <1>1 DEF ReadUpTo
<1>5. Reading /\ Answered
  BY <1>2, <1>3, <1>4 DEF Reading, Answered
<1>6. AnswerJustified
  BY <1>1, <1>2, RefusalJustified DEF AnswerJustified
<1> QED
  BY <1>1, <1>5, <1>6, RefusalJustified DEF ParsingInvariant

\* One more token: its permission joins the others, or is there at its level.
LEMMA ReadTokenStep ==
  ASSUME ParsingInvariant, ReadToken
  PROVE  ParsingInvariant'
<1> DEFINE token == ScopeOf[index]
<1>1. /\ Passed /\ index \in 1..Len(ScopeOf) /\ ReadUpTo(index - 1)
      /\ token # Malformed /\ ~Ambiguous(token)
      /\ permissions' = With(permissions, token.name, token.level)
      /\ index' = index + 1 /\ form' = form /\ answer' = None
  <2>1. answer = None /\ index <= Len(ScopeOf)
    BY DEF ReadToken
  <2>2. Len(ScopeOf) \in Nat
    BY <2>1 DEF ParsingInvariant, Reading, Passed
  <2> QED
    BY <2>1, <2>2 DEF ReadToken, ParsingInvariant, Reading
<1>2. ScopeOf' = ScopeOf /\ Passed'
  BY <1>1, SameForm
<1>3. index' \in 1..(Len(ScopeOf') + 1) /\ index' - 1 = index
  BY <1>1, <1>2 DEF Passed
<1>4. 1..index = 1..(index - 1) \cup {index}
  BY <1>1
<1>5. DOMAIN permissions' = {ScopeOf[k].name : k \in 1..index}
  BY <1>1, <1>4 DEF With, ReadUpTo
<1>6. ASSUME NEW k \in 1..index
      PROVE  ScopeOf[k] # Malformed /\ permissions'[ScopeOf[k].name] = ScopeOf[k].level
  <2>1. CASE k = index
    BY <1>1, <2>1 DEF With
  <2>2. CASE k # index
    <3>1. /\ k \in 1..(index - 1) /\ ScopeOf[k].name \in DOMAIN permissions
          /\ ScopeOf[k] # Malformed /\ permissions[ScopeOf[k].name] = ScopeOf[k].level
      BY <1>1, <1>4, <2>2 DEF ReadUpTo
    <3>2. CASE ScopeOf[k].name = token.name
      BY <1>1, <3>1, <3>2 DEF With, Ambiguous
    <3>3. CASE ScopeOf[k].name # token.name
      BY <1>1, <3>1, <3>3 DEF With
    <3> QED
      BY <3>2, <3>3
  <2> QED
    BY <2>1, <2>2
<1>7. ReadUpTo(index - 1)'
  BY <1>2, <1>3, <1>5, <1>6 DEF ReadUpTo
<1>8. Reading' /\ Answered' /\ AnswerJustified'
  BY <1>1, <1>2, <1>3, <1>7, AnswerAssumption DEF Reading, Answered, AnswerJustified, Error
<1> QED
  BY <1>1, <1>8 DEF ParsingInvariant

\* A token that is no permission, or asks one at a second level, is a fault
\* of the scope.
LEMMA RefuseStep ==
  ASSUME ParsingInvariant, RefuseMalformed \/ RefuseAmbiguous
  PROVE  ParsingInvariant'
<1> DEFINE token == ScopeOf[index]
<1>1. /\ Passed /\ index \in 1..Len(ScopeOf) /\ ReadUpTo(index - 1)
      /\ token = Malformed \/ Ambiguous(token)
      /\ form' = form /\ index' = index /\ answer' = "invalid_scope"
  <2>1. answer = None /\ index <= Len(ScopeOf)
    BY DEF RefuseMalformed, RefuseAmbiguous
  <2>2. Len(ScopeOf) \in Nat
    BY <2>1 DEF ParsingInvariant, Reading, Passed
  <2> QED
    BY <2>1, <2>2 DEF RefuseMalformed, RefuseAmbiguous, ParsingInvariant, Reading
<1>2. index \in DOMAIN ScopeOf /\ 1..(index - 1) \subseteq DOMAIN ScopeOf
  BY <1>1 DEF Passed
<1>3. ~ScopeAcceptable
  <2>1. CASE token = Malformed
    BY <1>2, <2>1 DEF ScopeAcceptable, NamesOnePermissionEach
  <2>2. CASE Ambiguous(token)
    <3>1. PICK k \in 1..(index - 1) : ScopeOf[k].name = token.name
      BY <1>1, <2>2 DEF Ambiguous, ReadUpTo
    <3>2. ScopeOf[k].level # token.level
      BY <1>1, <2>2, <3>1 DEF Ambiguous, ReadUpTo
    <3> QED
      BY <1>2, <3>1, <3>2 DEF ScopeAcceptable, NamesOnePermissionEach
  <2> QED
    BY <1>1, <2>1, <2>2
<1>4. AnswerJustified'
  BY <1>1, <1>3, SameForm DEF AnswerJustified, RequestAcceptable, Passed, Error
<1>5. Reading' /\ Answered'
  BY <1>1, AnswerAssumption DEF Reading, Answered, Error
<1> QED
  BY <1>1, <1>4, <1>5 DEF ParsingInvariant, Error

\* All tokens read: each is a permission, and those of one name agree, for
\* both levels are the one recorded.
LEMMA AcceptStep ==
  ASSUME ParsingInvariant, Accept
  PROVE  ParsingInvariant'
<1>1. /\ Passed /\ index = Len(ScopeOf) + 1 /\ ReadUpTo(index - 1) /\ form' = form
      /\ index' = index /\ permissions' = permissions /\ answer' = "accepted"
  BY DEF ParsingInvariant, Accept, Reading
<1>2. 1..(index - 1) = DOMAIN ScopeOf /\ Len(ScopeOf) \in Nat
  BY <1>1 DEF Passed
<1>3. NamesOnePermissionEach(ScopeOf)
  BY <1>1, <1>2 DEF NamesOnePermissionEach, ReadUpTo, Passed
<1>4. RequestAcceptable
  BY <1>1, <1>3 DEF RequestAcceptable, ScopeAcceptable, Passed
<1>5. AnswerJustified'
  BY <1>1, <1>4, SameForm DEF AnswerJustified, Error
<1>6. ReadUpTo(index - 1)'
  BY <1>1, SameForm DEF ReadUpTo
<1>7. Reading' /\ Answered'
  BY <1>1, <1>2, <1>6, SameForm DEF Reading, Answered
<1> QED
  BY <1>1, <1>5, <1>7 DEF ParsingInvariant

LEMMA ParsingInductive == Spec => []ParsingInvariant
<1>1. ParsingInvariant /\ [Next]_vars => ParsingInvariant'
  <2> SUFFICES ASSUME ParsingInvariant, [Next]_vars PROVE ParsingInvariant'
    OBVIOUS
  <2>1. CASE UNCHANGED vars
    <3>1. form' = form /\ index' = index /\ permissions' = permissions /\ answer' = answer
      BY <2>1 DEF vars
    <3>2. ReadUpTo(index - 1)' = ReadUpTo(index - 1)
      BY <3>1, SameForm DEF ReadUpTo
    <3> QED
      BY <3>1, <3>2, SameForm DEF ParsingInvariant, Reading, Answered, AnswerJustified
  <2> QED
    BY <2>1, ReadTokenStep, RefuseStep, AcceptStep DEF Next
<1> QED
  BY <1>1, Starts, PTL DEF Spec

\* The early returns, in the order they are written, accept exactly the forms
\* that are in order as a whole and name a fault the others have.
THEOREM AnswerJustifiedHolds == Spec => []AnswerJustified
<1>1. ParsingInvariant => AnswerJustified
  BY DEF ParsingInvariant
<1> QED
  BY <1>1, ParsingInductive, PTL

\* No scope, however long, and no order of its tokens asks for a permission
\* or a level that is not in it, or loses one that is.
THEOREM PermissionsExactHolds == Spec => []PermissionsExact
<1>1. ParsingInvariant => PermissionsExact
  <2> SUFFICES ASSUME ParsingInvariant, answer = "accepted"
               PROVE  /\ DOMAIN permissions = {ScopeOf[k].name : k \in DOMAIN ScopeOf}
                      /\ \A k \in DOMAIN ScopeOf :
                           permissions[ScopeOf[k].name] = ScopeOf[k].level
    BY DEF PermissionsExact
  <2>1. Passed /\ index = Len(ScopeOf) + 1 /\ ReadUpTo(index - 1)
    BY DEF ParsingInvariant, Reading, Answered
  <2>2. 1..(index - 1) = DOMAIN ScopeOf
    BY <2>1 DEF Passed
  <2> QED
    BY <2>1, <2>2 DEF ReadUpTo
<1> QED
  BY <1>1, ParsingInductive, PTL

-----------------------------------------------------------------------------
\* The hosts.

Stage == {"arrived", "admission", "parser", "handler", "endpoint", "form", "answered"}

Unread == form = <<>> /\ index = 1 /\ permissions = <<>> /\ answer = None

\* What is still known at each stage, whatever hooks have changed since.
Found ==
  /\ stage = "admission" => host = "worker"
  /\ stage \in {"parser", "handler"} => host = "fastify"
  /\ stage = "endpoint" => request.metadata = "right"
  /\ host = "worker" => request.metadata = "right"
  /\ stage = "arrived" => sentTo = Address(request)
  /\ stage \notin {"arrived", "answered"} => sentTo # "unknown"

Justified(r) ==
  \/ r \in {"rate_limited", "failed"} \cup Faults
  \/ r = "invalid_request" /\ Misdeclared

HostInvariant ==
  /\ host \in {"worker", "fastify"} /\ request \in HostRequest /\ stage \in Stage
  /\ response \in Response \cup {None}
  /\ Found
  /\ stage # "answered" => response = None
  /\ stage # "form" => Unread
  /\ stage = "form" => ParsingInvariant /\ form = request.form /\ Faults = {}
  /\ response # None => Justified(response)
  /\ SelectionFirst

-----------------------------------------------------------------------------
LEMMA SameFaults ==
  ASSUME UNCHANGED <<host, request>>
  PROVE  Faults' = Faults /\ Misdeclared' = Misdeclared
  BY DEF Faults, Misdeclared

\* A stage before the form that goes on to another.
LEMMA GoesOn ==
  ASSUME HostInvariant, NEW next \in Stage \ {"form", "answered", "arrived"}, stage' = next,
         request' \in HostRequest, UNCHANGED <<host, response, sentTo, vars>>,
         stage \notin {"form", "answered"}, Found'
  PROVE  HostInvariant'
<1>1. /\ UNCHANGED <<host, response, sentTo, form, index, permissions, answer>>
      /\ response = None
  BY DEF vars, HostInvariant
<1>2. sentTo # "unknown"
  BY <1>1 DEF Found
<1> QED
  BY <1>1, <1>2 DEF HostInvariant, Unread, SelectionFirst

\* A refusal that names a fault, or reports that the host has none to give.
LEMMA Refuses ==
  ASSUME HostInvariant, NEW r \in Response, Respond(r), stage \notin {"form", "answered"},
         Justified(r), sentTo = "unknown" => r = "not_found"
  PROVE  HostInvariant'
<1>1. /\ stage' = "answered" /\ response' = r
      /\ UNCHANGED <<host, request, sentTo, form, index, permissions, answer>>
  BY DEF Respond, vars
<1>2. Faults' = Faults /\ Misdeclared' = Misdeclared
  BY <1>1, SameFaults
<1>3. Found'
  BY <1>1 DEF HostInvariant, Found
<1>4. response' \in Response /\ Justified(response)'
  BY <1>1, <1>2 DEF Justified
<1> QED
  BY <1>1, <1>2, <1>3, <1>4 DEF HostInvariant, Unread, SelectionFirst, Stage

LEMMA WorkerStep ==
  ASSUME HostInvariant, WorkerRoutes \/ WorkerAdmits
  PROVE  HostInvariant'
<1>1. /\ host = "worker" /\ stage \in {"arrived", "admission"} /\ request.metadata = "right"
      /\ stage = "arrived" => (sentTo = "unknown" <=> ~request.knownApp)
      /\ stage = "admission" => sentTo # "unknown"
  BY DEF WorkerRoutes, WorkerAdmits, HostInvariant, Found, Address
<1>2. CASE Respond("not_found") /\ ~request.knownApp
  <2>1. Justified("not_found")
    BY <1>2 DEF Justified, Faults, Response
  <2> QED
    BY <1>1, <1>2, <2>1, Refuses DEF Response
<1>3. CASE Respond("invalid_request") /\ sentTo # "unknown" /\ request.method # "POST"
  <2>1. Justified("invalid_request")
    BY <1>3 DEF Justified, Faults, Response
  <2> QED
    BY <1>1, <1>3, <2>1, Refuses DEF Response
<1>4. CASE sentTo # "unknown" /\ (Respond("rate_limited") \/ Respond("failed"))
  BY <1>1, <1>4, Refuses DEF Response, Justified
<1>5. CASE sentTo # "unknown" /\ \E next \in {"admission", "endpoint"} : Goto(next)
  <2>1. PICK next \in {"admission", "endpoint"} : Goto(next)
    BY <1>5
  <2>2. Found'
    BY <1>1, <1>5, <2>1 DEF Goto, Found
  <2> QED
    BY <1>1, <1>5, <2>1, <2>2, GoesOn DEF Stage, Goto, HostInvariant
<1> QED
  BY <1>1, <1>2, <1>3, <1>4, <1>5 DEF WorkerRoutes, WorkerAdmits

LEMMA OnRequestStep ==
  ASSUME HostInvariant, OnRequest
  PROVE  HostInvariant'
<1>1. host = "fastify" /\ stage = "arrived" /\ sentTo = Address(request)
  BY DEF OnRequest, HostInvariant, Found
<1>2. CASE Selectable /\ ~request.knownApp
  <2>1. Respond("not_found")
    BY <1>2 DEF OnRequest
  <2>2. Justified("not_found")
    BY <1>2 DEF Justified, Faults, Response
  <2> QED
    BY <1>1, <2>1, <2>2, Refuses DEF Response
<1>3. CASE ~(Selectable /\ ~request.knownApp) /\ ~Convertible
  <2>1. Respond("invalid_request")
    BY <1>3 DEF OnRequest
  <2>2. Justified("invalid_request")
    BY <1>3 DEF Justified, Faults, Response, Convertible
  <2>3. sentTo # "unknown"
    BY <1>1, <1>3 DEF Selectable, Address
  <2> QED
    BY <1>1, <2>1, <2>2, <2>3, Refuses DEF Response
<1>4. CASE ~(Selectable /\ ~request.knownApp) /\ Convertible
  <2>1. Goto("parser") /\ sentTo # "unknown"
    BY <1>1, <1>4 DEF OnRequest, Selectable, Address
  <2>2. Found'
    BY <1>1, <2>1 DEF Goto, Found
  <2> QED
    BY <1>1, <2>1, <2>2, GoesOn DEF Stage, Goto, HostInvariant
<1> QED
  BY <1>2, <1>3, <1>4

\* A hook leaves a request that is still some request.
LEMMA Rewritten ==
  ASSUME NEW r \in HostRequest
  PROVE  /\ \A known \in BOOLEAN : [r EXCEPT !.knownApp = known] \in HostRequest
         /\ \A metadata \in Metadata : [r EXCEPT !.metadata = metadata] \in HostRequest
         /\ \A method \in Method : [r EXCEPT !.method = method] \in HostRequest
         /\ \A given \in BOOLEAN : [r EXCEPT !.authorization = given] \in HostRequest
         /\ \A type \in ContentType : [r EXCEPT !.contentType = type] \in HostRequest
         /\ \A length \in Length : [r EXCEPT !.length = length] \in HostRequest
         /\ \A size \in Size, f \in Forms :
              [r EXCEPT !.size = size, !.form = f] \in HostRequest
  BY DEF HostRequest

LEMMA HookStep ==
  ASSUME HostInvariant, HostHook
  PROVE  HostInvariant'
<1>1. request' \in HostRequest
  <2>1. request \in HostRequest
    BY DEF HostInvariant
  <2>2. ASSUME NEW body \in HookBodies PROVE body.size \in Size /\ body.form \in Forms
    BY BodyAssumption
  <2>3. CASE \E body \in HookBodies :
               request' = [request EXCEPT !.size = body.size, !.form = body.form]
    <3>1. PICK body \in HookBodies :
            request' = [request EXCEPT !.size = body.size, !.form = body.form]
      BY <2>3
    <3>2. body.size \in Size /\ body.form \in Forms
      BY <2>2, <3>1
    <3> QED
      BY <2>1, <3>1, <3>2, Rewritten
  <2>4. CASE ~\E body \in HookBodies :
               request' = [request EXCEPT !.size = body.size, !.form = body.form]
    BY <2>1, <2>4, Rewritten DEF HostHook
  <2> QED
    BY <2>3, <2>4
<1>2. host = "fastify" /\ stage \in {"parser", "handler"}
  BY DEF HostHook
<1>3. UNCHANGED <<host, stage, response, sentTo, vars>>
  BY DEF HostHook
<1>4. Found'
  BY <1>2, <1>3 DEF HostInvariant, Found
<1> QED
  BY <1>1, <1>2, <1>3, <1>4, GoesOn DEF Stage

LEMMA ParserStep ==
  ASSUME HostInvariant, FastifyParses
  PROVE  HostInvariant'
<1>1. host = "fastify" /\ stage = "parser" /\ sentTo # "unknown"
  BY DEF FastifyParses, HostInvariant, Found
<1>2. CASE Respond("failed")
  BY <1>1, <1>2, Refuses DEF Response, Justified
<1>3. CASE Respond("invalid_request") /\ (request.contentType # "form" \/ request.length = "differs")
  <2>1. Justified("invalid_request")
    BY <1>1, <1>3 DEF Justified, Misdeclared, Faults, Response
  <2> QED
    BY <1>1, <1>3, <2>1, Refuses DEF Response
<1>4. CASE Respond("too_large") /\ "exceeds" \in {request.length, request.size}
  <2>1. Justified("too_large")
    BY <1>4 DEF Justified, Faults, Response
  <2> QED
    BY <1>1, <1>4, <2>1, Refuses DEF Response
<1>5. CASE stage' = "handler" /\ request' \in HostRequest
           /\ UNCHANGED <<host, response, sentTo, vars>>
  <2>1. Found'
    BY <1>1, <1>5 DEF Found, HostInvariant
  <2> QED
    BY <1>1, <1>5, <2>1, GoesOn DEF Stage
<1>6. [request EXCEPT !.size = "empty", !.form = <<>>] \in HostRequest /\ request \in HostRequest
  BY Rewritten, BodyAssumption DEF HostInvariant, Size
<1> QED
  BY <1>2, <1>3, <1>4, <1>5, <1>6 DEF FastifyParses, Goto

LEMMA HandlerStep ==
  ASSUME HostInvariant, FastifyHandles
  PROVE  HostInvariant'
<1>1. host = "fastify" /\ stage = "handler" /\ sentTo # "unknown"
  BY DEF FastifyHandles, HostInvariant, Found
<1>2. CASE ~Handed
  <2>1. Justified("invalid_request")
    BY <1>2 DEF Justified, Faults, Response, Handed, Convertible
  <2> QED
    BY <1>1, <1>2, <2>1, Refuses DEF Response, FastifyHandles
<1>3. CASE Handed
  <2>1. Goto("endpoint")
    BY <1>3 DEF FastifyHandles
  <2>2. Found'
    BY <1>1, <1>3, <2>1 DEF Goto, Found, Handed, Convertible, HostInvariant
  <2> QED
    BY <1>1, <2>1, <2>2, GoesOn DEF Stage, Goto, HostInvariant
<1> QED
  BY <1>2, <1>3

\* A form that is given for reading meets the endpoint's own checks first.
LEMMA FormGiven == Init' => ParsingInvariant'
<1>1. Init => ParsingInvariant
  BY Starts
<1> QED
  BY <1>1, PTL

LEMMA EndpointStep ==
  ASSUME HostInvariant, Endpoint
  PROVE  HostInvariant'
<1>1. /\ stage = "endpoint" /\ sentTo # "unknown" /\ request.metadata = "right" /\ Unread
      /\ request \in HostRequest
  BY DEF Endpoint, HostInvariant, Found
<1>2. CASE /\ Respond("invalid_request")
           /\ \/ request.method # "POST" \/ request.contentType # "form"
              \/ request.length = "malformed"
  <2>1. Justified("invalid_request")
    BY <1>2 DEF Justified, Faults, Response
  <2> QED
    BY <1>1, <1>2, <2>1, Refuses DEF Response
<1>3. CASE Respond("invalid_client") /\ request.authorization
  <2>1. Justified("invalid_client")
    BY <1>3 DEF Justified, Faults, Response
  <2> QED
    BY <1>1, <1>3, <2>1, Refuses DEF Response
<1>4. CASE Respond("too_large") /\ "exceeds" \in {request.length, request.size}
  <2>1. Justified("too_large")
    BY <1>4 DEF Justified, Faults, Response
  <2> QED
    BY <1>1, <1>4, <2>1, Refuses DEF Response
<1>5. CASE /\ request.knownApp /\ request.method = "POST" /\ ~request.authorization
           /\ request.contentType = "form" /\ request.length # "malformed"
           /\ "exceeds" \notin {request.length, request.size}
  <2>1. /\ stage' = "form" /\ form' = request.form /\ answer' = Refusal'
        /\ UNCHANGED <<host, request, response, sentTo, index, permissions>>
    BY <1>1, <1>5 DEF Endpoint
  <2>2. form' \in Forms
    BY <1>1, <2>1 DEF HostRequest
  <2>3. ParsingInvariant'
    BY <1>1, <2>1, <2>2, FormGiven DEF Init, Unread
  <2>4. Faults' = Faults
    BY <2>1, SameFaults
  <2>5. Faults = {}
    BY <1>1, <1>5 DEF Faults
  <2>6. Found'
    BY <1>1, <2>1 DEF HostInvariant, Found
  <2> QED
    BY <1>1, <2>1, <2>3, <2>4, <2>5, <2>6 DEF HostInvariant, SelectionFirst, Stage
<1>6. CASE Respond("not_found") /\ ~request.knownApp
  <2>1. Justified("not_found")
    BY <1>6 DEF Justified, Faults, Response
  <2> QED
    BY <1>1, <1>6, <2>1, Refuses DEF Response
<1> QED
  BY <1>2, <1>3, <1>4, <1>5, <1>6 DEF Endpoint

LEMMA ReadStep ==
  ASSUME HostInvariant, ReadForm
  PROVE  HostInvariant'
<1>1. stage = "form" /\ UNCHANGED hostVars /\ ParsingInvariant /\ Next
  BY DEF ReadForm, HostInvariant
<1>2. ParsingInvariant'
  BY <1>1, ReadTokenStep, RefuseStep, AcceptStep DEF Next
<1>3. UNCHANGED form
  BY <1>1 DEF Next, ReadToken, RefuseMalformed, RefuseAmbiguous, Accept
<1>4. UNCHANGED <<host, request, stage, response, sentTo>>
  BY <1>1 DEF hostVars
<1>5. Faults' = Faults /\ Misdeclared' = Misdeclared /\ Found'
  BY <1>4, SameFaults DEF HostInvariant, Found
<1> QED
  BY <1>1, <1>2, <1>3, <1>4, <1>5 DEF HostInvariant, SelectionFirst, Justified

LEMMA HostStarts == HostInit => HostInvariant
<1> SUFFICES ASSUME HostInit PROVE HostInvariant
  OBVIOUS
<1>1. /\ host \in {"worker", "fastify"} /\ request \in HostRequest
      /\ host = "worker" => request.metadata = "right"
  BY HostRequestAssumption DEF HostInit
<1>2. stage = "arrived" /\ response = None /\ Unread /\ sentTo = Address(request)
  BY DEF HostInit, Unread
<1> QED
  BY <1>1, <1>2 DEF HostInvariant, Found, Stage, SelectionFirst

\* The inductive invariant: what is known of a request at each stage.
THEOREM HostInvariantHolds == HostSpec => []HostInvariant
<1>1. HostInvariant /\ [HostNext]_<<hostVars, vars>> => HostInvariant'
  <2> SUFFICES ASSUME HostInvariant, [HostNext]_<<hostVars, vars>> PROVE HostInvariant'
    OBVIOUS
  <2>1. CASE UNCHANGED <<hostVars, vars>>
    <3>1. UNCHANGED <<host, request, stage, response, sentTo, form, index, permissions, answer>>
      BY <2>1 DEF hostVars, vars
    <3>2. Faults' = Faults /\ Misdeclared' = Misdeclared
          /\ ParsingInvariant' = ParsingInvariant
      <4>1. ReadUpTo(index - 1)' = ReadUpTo(index - 1)
        BY <3>1, SameForm DEF ReadUpTo
      <4> QED
        BY <3>1, <4>1, SameForm, SameFaults
        DEF ParsingInvariant, Reading, Answered, AnswerJustified
    <3> QED
      BY <3>1, <3>2 DEF HostInvariant, Found, Unread, SelectionFirst, Justified
  <2> QED
    BY <2>1, WorkerStep, OnRequestStep, HookStep, ParserStep, HandlerStep, EndpointStep, ReadStep
    DEF HostNext
<1> QED
  BY <1>1, HostStarts, PTL DEF HostSpec

\* In either host, whatever hooks change and the framework's parser does, the
\* form that is read is that of a request that then has no fault, and a refusal
\* names a fault it then has.
THEOREM AdmissionExactHolds == HostSpec => []AdmissionExact
<1>1. HostInvariant => AdmissionExact
  BY DEF HostInvariant, AdmissionExact, Unread, Justified
<1> QED
  BY <1>1, HostInvariantHolds, PTL

\* An unknown App is answered 404 before anything else of a request counts.
THEOREM SelectionFirstHolds == HostSpec => []SelectionFirst
<1>1. HostInvariant => SelectionFirst
  BY DEF HostInvariant
<1> QED
  BY <1>1, HostInvariantHolds, PTL

\* What the endpoint promises of forms it promises in either host: neither
\* changes a form between the socket and the checks.
THEOREM AnswerJustifiedInHosts == HostSpec => []AnswerJustified
<1>1. HostInvariant => AnswerJustified
  <2> SUFFICES ASSUME HostInvariant, stage # "form" PROVE AnswerJustified
    BY DEF HostInvariant, ParsingInvariant
  <2>1. answer = None
    BY DEF HostInvariant, Unread
  <2> QED
    BY <2>1, AnswerAssumption DEF AnswerJustified, Error
<1> QED
  BY <1>1, HostInvariantHolds, PTL

=============================================================================
