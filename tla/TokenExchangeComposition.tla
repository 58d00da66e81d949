----------------------- MODULE TokenExchangeComposition -----------------------
(***************************************************************************)
(* compileGitHubAppTokenExchange and the hosts around it: a deployment's   *)
(* configuration becomes one token endpoint for each GitHub App, or is     *)
(* refused as a whole; then requests are served.  Each endpoint joins what *)
(* was configured in four separate lists: the App's audiences, the issuers *)
(* all Apps share, the Permit Statements of all Apps, and the private keys *)
(* of all Apps.  The policy is evaluated by PolicyEvaluation.              *)
(*                                                                         *)
(* Construction is one synchronous call; each step is one element of one   *)
(* of its loops.  Which list is looked at first cannot be told: whatever   *)
(* fails, the call throws a TypeError and there is no handler.             *)
(*                                                                         *)
(* The Worker binds the selected App's private key for each request, any   *)
(* other host all private keys at construction.                            *)
(***************************************************************************)
EXTENDS PolicyEvaluation, Functions

CONSTANTS
  Slug, Audience, Algorithm, Binding, Key,
  Text,            \* the claim values that are strings, the others are Booleans
  Malformed,       \* any identity that is not one of its kind
  Configuration,   \* the configurations a deployment may be given
  IdToken          \* the subject tokens that may be presented

Predicate == [claim : Claim, kind : {"claim-equals", "claim-one-of"}, values : Seq(Value)]

Definition ==
  [app : AppId \cup {Malformed}, owner : Owner \cup {Malformed},
   repository : Repository \cup {AnyRepository, Malformed}, issuer : Issuer \cup {Malformed},
   predicates : Seq(Predicate), permissions : Partial(Permission, Level \cup {Malformed})]

AppMetadata ==
  [clientId : AppId \cup {Malformed}, slug : Slug \cup {Malformed},
   audiences : Seq(Audience \cup {Malformed}), binding : Binding \cup {Malformed}]

\* An ID Token Profile is null, or an object that can validate.
Registration ==
  [issuer : Issuer \cup {Malformed}, algorithms : Seq(Algorithm \cup {Malformed}),
   profile : {"null", "validates", Malformed}]

Credential == [clientId : AppId, key : Key]

ASSUME ConfigurationAssumption ==
  \A c \in Configuration :
    /\ c.host \in {"worker", "node"} /\ c.apps \in Seq(AppMetadata)
    /\ c.registrations \in Seq(Registration) /\ c.definitions \in Seq(Definition)
    /\ c.credentials \in Seq(Credential)   \* the private keys another host binds
    /\ c.env \in [Binding -> Key]          \* the private keys of the Worker's bindings

\* What the token says, whether its issuer can be read at all, and whether
\* the issuer has signed it and its profile admits it.
ASSUME IdTokenAssumption ==
  \A t \in IdToken :
    /\ t.issuer \in Issuer \cup {None} /\ t.aud \in Audience \cup {None}
    /\ t.claims \in Partial(Claim, Value) /\ t.genuine \in BOOLEAN

VARIABLES
  stage,          \* the list the construction is at, or what comes after it
  configuration,  \* what the deployment was given
  position,       \* the element of the list to look at next
  apps, issuers, statements, policies, credentials,   \* what has been built
  exchange        \* the request being served, or the last one, and its answer

built == <<configuration, position, apps, issuers, statements, policies, credentials>>
evaluation == <<arguments, index, permissionsNotCoveredForResource,
                permissionsNotCoveredForMatchingSubject, targetSupported, outcome>>
compositionVars == <<stage, built, exchange, evaluation>>

Lists == {"apps", "registrations", "statements", "policies", "credentials"}

CompositionInit ==
  /\ configuration \in Configuration
  /\ stage = "apps" /\ position = 1
  /\ apps = <<>> /\ issuers = {} /\ statements = <<>>
  /\ policies = <<>> /\ credentials = <<>>
  /\ exchange = None
  /\ policy = <<>> /\ app = None /\ subject = None /\ request = None /\ index = 1
  /\ permissionsNotCoveredForResource = {} /\ permissionsNotCoveredForMatchingSubject = {}
  /\ targetSupported = FALSE /\ outcome = None

-----------------------------------------------------------------------------
(* What each list accepts, after the elements before it                     *)

Distinct(s) == IsInjective(s)

WellFormed(s) == Distinct(s) /\ Malformed \notin Range(s)

\* The Apps accepted so far agree with this one on neither slug nor client ID.
IsNew_ByClientId(metadata) == \A i \in DOMAIN apps : apps[i].clientId # metadata.clientId

IsNew(metadata) ==
  \A i \in DOMAIN apps : apps[i].slug # metadata.slug /\ apps[i].clientId # metadata.clientId

AppAccepted(metadata) ==
  /\ Malformed \notin {metadata.slug, metadata.clientId}
  /\ IsNew(metadata)
  /\ metadata.audiences # <<>> /\ WellFormed(metadata.audiences)
  /\ configuration.host = "worker" => metadata.binding # Malformed

RegistrationAccepted(registration) ==
  /\ registration.issuer \notin issuers \cup {Malformed}
  /\ registration.algorithms # <<>> /\ WellFormed(registration.algorithms)
  /\ registration.profile # Malformed

PredicateAccepted(predicate) ==
  IF predicate.kind = "claim-equals" THEN Len(predicate.values) = 1
  ELSE /\ predicate.values # <<>> /\ Distinct(predicate.values)
       /\ Range(predicate.values) \subseteq Text

StatementIdentified(definition) ==
  /\ Malformed \notin {definition.app, definition.issuer, definition.owner, definition.repository}
  /\ \A i \in DOMAIN definition.predicates :
       /\ PredicateAccepted(definition.predicates[i])
       /\ \A j \in 1..i - 1 : definition.predicates[j].claim # definition.predicates[i].claim

StatementAccepted_AnyLevel(definition) ==
  StatementIdentified(definition) /\ DOMAIN definition.permissions # {}

StatementAccepted(definition) ==
  /\ StatementIdentified(definition)
  /\ DOMAIN definition.permissions # {}
  /\ \A name \in DOMAIN definition.permissions : definition.permissions[name] \in Level

ClientIds == {apps[i].clientId : i \in DOMAIN apps}

CredentialAccepted(credential) ==
  credential.clientId \in ClientIds \ DOMAIN credentials

Given ==
  CASE stage = "apps" -> configuration.apps
    [] stage = "registrations" -> configuration.registrations
    [] stage = "statements" -> configuration.definitions
    [] stage = "policies" -> statements
    [] OTHER -> configuration.credentials

ElementAccepted ==
  LET element == Given[position]
  IN  CASE stage = "apps" -> AppAccepted(element)
        [] stage = "registrations" -> RegistrationAccepted(element)
        [] stage = "statements" -> StatementAccepted(element)
        [] stage = "policies" -> TRUE
        [] OTHER -> CredentialAccepted(element)

\* What is checked of a list as a whole.
ListAccepted ==
  /\ stage = "statements" =>
       \A i \in DOMAIN statements :
         statements[i].issuer \in issuers /\ statements[i].app \in ClientIds
  /\ stage = "credentials" => DOMAIN credentials = ClientIds

-----------------------------------------------------------------------------
(* Construction                                                             *)

AtElement(list) ==
  /\ stage = list /\ position <= Len(Given) /\ ElementAccepted
  /\ position' = position + 1
  /\ UNCHANGED <<stage, configuration, exchange, evaluation>>

AddApp ==
  /\ AtElement("apps")
  /\ apps' = Append(apps, Given[position])
  /\ UNCHANGED <<issuers, statements, policies, credentials>>

Register ==
  /\ AtElement("registrations")
  /\ issuers' = issuers \cup {Given[position].issuer}
  /\ UNCHANGED <<apps, statements, policies, credentials>>

\* The predicates of a compiled statement, by claim name.
CompiledPredicates(predicates) ==
  LET Named(name) == CHOOSE i \in DOMAIN predicates : predicates[i].claim = name
  IN  [name \in {predicates[i].claim : i \in DOMAIN predicates} |->
         Range(predicates[Named(name)].values)]

Compiled(definition) ==
  [definition EXCEPT !.predicates = CompiledPredicates(definition.predicates)]

CompileStatement ==
  /\ AtElement("statements")
  /\ statements' = Append(statements, Compiled(Given[position]))
  /\ UNCHANGED <<apps, issuers, policies, credentials>>

\* The filters that give every App its own policy, side by side: a statement
\* passes the filter of the App it names.
FilterStatement ==
  LET statement == Given[position]
  IN  /\ AtElement("policies")
      /\ policies' = [policies EXCEPT ![statement.app] = Append(@, statement)]
      /\ UNCHANGED <<apps, issuers, statements, credentials>>

BindCredential ==
  LET credential == Given[position]
  IN  /\ AtElement("credentials")
      /\ credentials' = [c \in DOMAIN credentials \cup {credential.clientId} |->
                           IF c = credential.clientId THEN credential.key ELSE credentials[c]]
      /\ UNCHANGED <<apps, issuers, statements, policies>>

After ==
  CASE stage = "apps" -> "registrations"
    [] stage = "registrations" -> "statements"
    [] stage = "statements" -> "policies"
    [] stage = "policies" /\ configuration.host = "node" -> "credentials"
    [] OTHER -> "serving"

Advance ==
  /\ stage \in Lists /\ position > Len(Given) /\ ListAccepted
  /\ stage' = After /\ position' = 1
  /\ policies' = IF stage = "statements" THEN [c \in ClientIds |-> <<>>] ELSE policies
  /\ UNCHANGED <<configuration, apps, issuers, statements, credentials, exchange,
                 evaluation>>

\* A TypeError: there is no handler.
Refuse ==
  /\ stage \in Lists
  /\ IF position <= Len(Given) THEN ~ElementAccepted ELSE ~ListAccepted
  /\ stage' = "refused"
  /\ UNCHANGED <<built, exchange, evaluation>>

-----------------------------------------------------------------------------
(* Requests                                                                 *)

Selected(slug) == {i \in DOMAIN apps : apps[i].slug = slug}

\* The audience is checked against the selected App's list alone.
Acceptable(token, metadata) ==
  /\ token.issuer \in issuers /\ token.genuine
  /\ token.aud \in Range(metadata.audiences)

Asks(slug, token, wanted, result) ==
  exchange' = [slug |-> slug, token |-> token, request |-> wanted,
               result |-> result, key |-> None]

\* The path selects the App, and the App the audiences: an unknown path is
\* answered before the token is looked at; authentication may always fail.
Receive(slug, token, wanted) ==
  /\ stage = "serving"
  /\ \/ /\ Selected(slug) = {}
        /\ Asks(slug, token, wanted, "not_found")
        /\ UNCHANGED <<stage, evaluation>>
     \/ /\ Selected(slug) # {}
        /\ Asks(slug, token, wanted, "unauthenticated")
        /\ UNCHANGED <<stage, evaluation>>
     \/ \E i \in Selected(slug) :
          /\ Acceptable(token, apps[i])
          /\ Asks(slug, token, wanted, None)
          /\ stage' = "evaluating"
          /\ policy' = policies[apps[i].clientId] /\ app' = apps[i].clientId
          /\ subject' = [issuer |-> token.issuer, claims |-> token.claims]
          /\ request' = wanted
          /\ permissionsNotCoveredForResource' = DOMAIN wanted.permissions
          /\ permissionsNotCoveredForMatchingSubject' = DOMAIN wanted.permissions
          /\ UNCHANGED <<index, targetSupported, outcome>>
  /\ UNCHANGED built

Evaluate ==
  /\ stage = "evaluating"
  /\ Skip \/ Consider \/ Deny
  /\ UNCHANGED <<stage, built, exchange>>

PrivateKey_ByPosition(metadata) ==
  IF configuration.host = "worker" THEN configuration.env[metadata.binding]
  ELSE configuration.credentials[CHOOSE i \in DOMAIN apps : apps[i] = metadata].key

\* The private key bound for the endpoint of an App.
PrivateKey(metadata) ==
  IF configuration.host = "worker" THEN configuration.env[metadata.binding]
  ELSE credentials[metadata.clientId]

\* The outcome, and the private key a permitted issuance goes on to use.
Conclude ==
  /\ stage = "evaluating" /\ outcome # None
  /\ stage' = "serving"
  /\ \E i \in Selected(exchange.slug) :
       exchange' = [exchange EXCEPT !.result = outcome,
                      !.key = IF outcome = "permitted" THEN PrivateKey(apps[i]) ELSE None]
  /\ policy' = <<>> /\ app' = None /\ subject' = None /\ request' = None /\ index' = 1
  /\ permissionsNotCoveredForResource' = {} /\ permissionsNotCoveredForMatchingSubject' = {}
  /\ targetSupported' = FALSE /\ outcome' = None
  /\ UNCHANGED built

CompositionNext ==
  \/ AddApp \/ Register \/ CompileStatement \/ FilterStatement \/ BindCredential
  \/ Advance \/ Refuse
  \/ \E slug \in Slug, token \in IdToken, wanted \in Requests : Receive(slug, token, wanted)
  \/ Evaluate \/ Conclude

CompositionSpec == CompositionInit /\ [][CompositionNext]_compositionVars

-----------------------------------------------------------------------------
(* Properties *)

\* What has been built holds nothing that is malformed or repeated.
TypeOK ==
  /\ stage \in Lists \cup {"serving", "evaluating", "refused"}
  /\ apps \in Seq(AppMetadata) /\ issuers \subseteq Issuer
  /\ statements \in Seq(PermitStatement)
  /\ \A c \in DOMAIN credentials : c \in AppId /\ credentials[c] \in Key
  /\ \A c \in DOMAIN policies : c \in AppId /\ policies[c] \in Seq(PermitStatement)
  /\ policy \in Seq(PermitStatement)

\* What the definitions, as written, say of a request to an App: every
\* predicate of a definition applies, and applies to a claim as a whole.
SelectsAsWritten(definition, token) ==
  /\ definition.issuer = token.issuer
  /\ \A i \in DOMAIN definition.predicates :
       LET predicate == definition.predicates[i] IN
       predicate.claim \in DOMAIN token.claims /\
         token.claims[predicate.claim] \in Range(predicate.values)

DecisionAsWritten(clientId, token, wanted) ==
  LET forTarget == {d \in Range(configuration.definitions) : ForTarget(d, clientId, wanted)}
      forSubject == {d \in forTarget : SelectsAsWritten(d, token)}
  IN  IF AllCovered(forSubject, wanted) THEN "permitted"
      ELSE IF forTarget = {} THEN "target_unsupported"
      ELSE IF ~AllCovered(forTarget, wanted) THEN "requested_permissions_unsupported"
      ELSE "subject_token_unacceptable"

\* The private key configured for a client ID.
KeyAsWritten(metadata, key) ==
  IF configuration.host = "worker" THEN key = configuration.env[metadata.binding]
  ELSE [clientId |-> metadata.clientId, key |-> key] \in Range(configuration.credentials)

\* An answer follows from the configuration as it was written, joined by the
\* slug of the path and the App's client ID and by nothing else: the policy
\* outcome is that of the definitions for this App, for a token of a
\* registered issuer and for one of this App's audiences, and a permitted
\* issuance uses this App's private key.
AuthorityAsWritten ==
  exchange # None /\ exchange.result \notin {None, "unauthenticated"} =>
    LET named == {a \in Range(configuration.apps) : a.slug = exchange.slug} IN
    IF exchange.result = "not_found" THEN named = {}
    ELSE \E metadata \in named :
      /\ \E r \in Range(configuration.registrations) : r.issuer = exchange.token.issuer
      /\ exchange.token.genuine /\ exchange.token.aud \in Range(metadata.audiences)
      /\ exchange.result = DecisionAsWritten(metadata.clientId, exchange.token, exchange.request)
      /\ exchange.result = "permitted" => KeyAsWritten(metadata, exchange.key)

SlugsOf(list) == [i \in DOMAIN list |-> list[i].slug]
ClientIdsOf(list) == [i \in DOMAIN list |-> list[i].clientId]
IssuersOf(list) == [i \in DOMAIN list |-> list[i].issuer]
ClaimsOf(list) == [i \in DOMAIN list |-> list[i].claim]

\* What a deployment may be given: no two Apps share a slug or a client ID, ...
AppsSound(c) ==
  /\ WellFormed(SlugsOf(c.apps)) /\ WellFormed(ClientIdsOf(c.apps))
  /\ \A a \in Range(c.apps) :
       /\ a.audiences # <<>> /\ WellFormed(a.audiences)
       /\ c.host = "worker" => a.binding # Malformed

\* no two registrations an issuer, ...
RegistrationsSound(c) ==
  /\ WellFormed(IssuersOf(c.registrations))
  /\ \A r \in Range(c.registrations) :
       r.algorithms # <<>> /\ WellFormed(r.algorithms) /\ r.profile # Malformed

\* no two predicates of a definition a claim, and the definitions name
\* configured Apps and registered issuers; ...
DefinitionsSound(c) ==
  \A d \in Range(c.definitions) :
    /\ d.app \in Range(ClientIdsOf(c.apps)) /\ d.issuer \in Range(IssuersOf(c.registrations))
    /\ Malformed \notin {d.owner, d.repository}
    /\ Distinct(ClaimsOf(d.predicates))
    /\ \A p \in Range(d.predicates) : PredicateAccepted(p)
    /\ DOMAIN d.permissions # {} /\ Range(d.permissions) \subseteq Level

\* where private keys are bound at construction there is one for each App.
CredentialsSound(c) ==
  c.host = "node" =>
    /\ Distinct(ClientIdsOf(c.credentials))
    /\ Range(ClientIdsOf(c.credentials)) = Range(ClientIdsOf(c.apps))

Sound ==
  /\ AppsSound(configuration) /\ RegistrationsSound(configuration)
  /\ DefinitionsSound(configuration) /\ CredentialsSound(configuration)

\* Construction refuses every other configuration, and no sound one, however
\* the elements of its lists are ordered.
RefusesTheUnsound ==
  (stage = "refused" => ~Sound) /\ (stage \in {"serving", "evaluating"} => Sound)

=============================================================================
