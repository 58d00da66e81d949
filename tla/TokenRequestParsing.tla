------------------------- MODULE TokenRequestParsing -------------------------
(***************************************************************************)
(* What a Token Exchange form asks for: the ordered checks of              *)
(* handleTokenExchangeRequestCore (token-exchange/src/token-exchange.ts)   *)
(* and the reading of the scope, one scope token a step                    *)
(* (github/src/installation-access-token-request.ts).                      *)
(* A value is the right one, a wrong one, white space, or the empty text   *)
(* that URLSearchParams gives for `name='; a scope is its tokens, split at *)
(* every single space.                                                     *)
(***************************************************************************)
EXTENDS Naturals, Sequences

CONSTANTS
  Permission,                  \* permission names
  Right, Wrong, Blank, NoText, \* values of a form field
  Malformed, Empty,            \* scope tokens that are no permission
  Forms,                       \* the forms clients send
  None                         \* no answer yet

Level == {"read", "write", "admin"}

ScopeToken == [name : Permission, level : Level] \cup {Malformed, Empty}

\* `unsupported' stands for unsupportedInvalidRequestParameters.
Parameter == {"grant_type", "requested_token_type", "subject_token", "subject_token_type",
              "resource", "audience", "unsupported"}

Field ==
  [parameter : Parameter, value : {Right, Wrong, Blank, NoText}]
    \cup [parameter : {"scope"}, value : {Blank, NoText} \cup (Seq(ScopeToken) \ {<<>>})]

ASSUME FormAssumption ==
  /\ Forms \subseteq Seq(Field)
  /\ {Blank, NoText} \cap Seq(ScopeToken) = {}
  /\ {Malformed, Empty} \cap [name : Permission, level : Level] = {}
  /\ Right \notin {Wrong, Blank, NoText} /\ Blank # NoText

Error == {"invalid_request", "unsupported_grant_type", "invalid_target", "invalid_scope"}

ASSUME AnswerAssumption == None \notin Error \cup {"accepted"}

VARIABLES
  form,         \* the fields in the order of the body
  index,        \* the scope token to read next
  permissions,  \* the permissions read so far
  answer        \* an error, `accepted', or None while the scope is read

vars == <<form, index, permissions, answer>>

-----------------------------------------------------------------------------
\* nonEmptyFormValues, by position
Given(parameter) ==
  {i \in DOMAIN form : form[i].parameter = parameter /\ form[i].value # NoText}

\* singleFormValue # null
Single(parameter) == \E i \in Given(parameter) : Given(parameter) = {i}

SingleIn(parameter, values) ==
  \E i \in Given(parameter) : Given(parameter) = {i} /\ form[i].value \in values

ScopeOf == form[CHOOSE i \in Given("scope") : TRUE].value

OAuthFieldsRight ==
  /\ Single("subject_token")
  /\ SingleIn("subject_token_type", {Right})
  /\ SingleIn("requested_token_type", {Right})

Unsupported_Tolerated == FALSE

Unsupported == Given("unsupported") # {}

\* The error of the first check the form fails, before any scope token is read.
Refusal ==
  IF ~Single("grant_type") THEN "invalid_request"
  ELSE IF ~SingleIn("grant_type", {Right}) THEN "unsupported_grant_type"
  ELSE IF ~OAuthFieldsRight \/ Unsupported THEN "invalid_request"
  ELSE IF Given("audience") # {} THEN "invalid_target"
  ELSE IF Given("scope") # {} /\ ~Single("scope") THEN "invalid_request"
  ELSE IF SingleIn("scope", {Blank}) THEN "invalid_scope"
  ELSE IF ~SingleIn("resource", {Right}) THEN "invalid_target"
  ELSE IF Given("scope") = {} THEN "invalid_scope"
  ELSE IF \E k \in DOMAIN ScopeOf : ScopeOf[k] = Empty THEN "invalid_scope"
  ELSE None

Init ==
  /\ form \in Forms
  /\ index = 1
  /\ permissions = <<>>
  /\ answer = Refusal

Ambiguous_LastWins(token) == FALSE

Ambiguous(token) ==
  token.name \in DOMAIN permissions /\ permissions[token.name] # token.level

With(map, name, level) ==
  [n \in DOMAIN map \cup {name} |-> IF n = name THEN level ELSE map[n]]

ReadToken ==
  LET token == ScopeOf[index]
  IN  /\ answer = None /\ index <= Len(ScopeOf)
      /\ token # Malformed /\ ~Ambiguous(token)
      /\ permissions' = With(permissions, token.name, token.level)
      /\ index' = index + 1
      /\ UNCHANGED <<form, answer>>

RefuseMalformed ==
  /\ answer = None /\ index <= Len(ScopeOf)
  /\ ScopeOf[index] = Malformed
  /\ answer' = "invalid_scope"
  /\ UNCHANGED <<form, index, permissions>>

RefuseAmbiguous ==
  /\ answer = None /\ index <= Len(ScopeOf)
  /\ ScopeOf[index] # Malformed /\ Ambiguous(ScopeOf[index])
  /\ answer' = "invalid_scope"
  /\ UNCHANGED <<form, index, permissions>>

Accept ==
  /\ answer = None /\ index = Len(ScopeOf) + 1
  /\ answer' = "accepted"
  /\ UNCHANGED <<form, index, permissions>>

Next == ReadToken \/ RefuseMalformed \/ RefuseAmbiguous \/ Accept

Spec == Init /\ [][Next]_vars

-----------------------------------------------------------------------------
(* What the form says, whatever the order of its fields and tokens.        *)

NamesOnePermissionEach(scope) ==
  /\ \A k \in DOMAIN scope : scope[k] \notin {Malformed, Empty}
  /\ \A k, l \in DOMAIN scope :
       scope[k].name = scope[l].name => scope[k].level = scope[l].level

ScopeAcceptable ==
  Single("scope") /\ ScopeOf # Blank /\ NamesOnePermissionEach(ScopeOf)

GrantAcceptable == SingleIn("grant_type", {Right}) /\ OAuthFieldsRight

TargetAcceptable == Given("audience") = {} /\ SingleIn("resource", {Right})

RequestAcceptable ==
  GrantAcceptable /\ Given("unsupported") = {} /\ TargetAcceptable /\ ScopeAcceptable

\* A form is accepted exactly when all of it is in order, and an error names
\* a fault the form has: a client told invalid_target or invalid_scope has
\* sent a proper token exchange grant, and can repair its request from that.
AnswerJustified ==
  /\ answer = "accepted" => RequestAcceptable
  /\ answer \in Error => ~RequestAcceptable
  /\ answer = "invalid_target" => GrantAcceptable /\ ~TargetAcceptable
  /\ answer = "invalid_scope" => GrantAcceptable /\ ~ScopeAcceptable
  /\ answer = "unsupported_grant_type" => Single("grant_type")

\* The Requested Permissions are the scope's, each at the level of every one
\* of its tokens: no order or repetition adds, drops or raises a permission.
PermissionsExact ==
  answer = "accepted" =>
    /\ DOMAIN permissions = {ScopeOf[k].name : k \in DOMAIN ScopeOf}
    /\ \A k \in DOMAIN ScopeOf : permissions[ScopeOf[k].name] = ScopeOf[k].level

=============================================================================
