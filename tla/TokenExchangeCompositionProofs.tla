--------------------- MODULE TokenExchangeCompositionProofs ---------------------
(***************************************************************************)
(* A deployment's configuration is refused as a whole or served as it was  *)
(* written, for every configuration, token and request.                    *)
(***************************************************************************)
EXTENDS TokenExchangeComposition, PolicyEvaluationProofs

\* The accepted elements say of the configuration alone what Sound asks for.
AppFine(i) ==
  LET metadata == configuration.apps[i] IN
  /\ metadata.slug # Malformed /\ metadata.clientId # Malformed
  /\ \A j \in 1..i - 1 :
       /\ configuration.apps[j].slug # metadata.slug
       /\ configuration.apps[j].clientId # metadata.clientId
  /\ metadata.audiences # <<>> /\ WellFormed(metadata.audiences)
  /\ configuration.host = "worker" => metadata.binding # Malformed

RegistrationFine(i) ==
  LET registration == configuration.registrations[i] IN
  /\ registration.issuer # Malformed
  /\ \A j \in 1..i - 1 : configuration.registrations[j].issuer # registration.issuer
  /\ registration.algorithms # <<>> /\ WellFormed(registration.algorithms)
  /\ registration.profile # Malformed

AppsBuilt(n) ==
  /\ n \in 0..Len(configuration.apps) /\ Len(apps) = n
  /\ \A i \in 1..n : apps[i] = configuration.apps[i] /\ AppFine(i)

IssuersBuilt(n) ==
  /\ n \in 0..Len(configuration.registrations)
  /\ issuers = {configuration.registrations[i].issuer : i \in 1..n}
  /\ \A i \in 1..n : RegistrationFine(i)

StatementsBuilt(n) ==
  /\ n \in 0..Len(configuration.definitions) /\ Len(statements) = n
  /\ \A i \in 1..n :
       /\ statements[i] = Compiled(configuration.definitions[i])
       /\ StatementAccepted(configuration.definitions[i])

\* Every App has the statements that name it, and no others.
PoliciesBuilt(n) ==
  /\ n \in 0..Len(statements)
  /\ DOMAIN policies = ClientIds
  /\ \A c \in ClientIds :
       /\ \A k \in DOMAIN policies[c] :
            \E i \in 1..n : statements[i] = policies[c][k] /\ statements[i].app = c
       /\ \A i \in 1..n :
            statements[i].app = c => \E k \in DOMAIN policies[c] : policies[c][k] = statements[i]

CredentialsBuilt(n) ==
  LET given == configuration.credentials IN
  /\ n \in 0..Len(given)
  /\ DOMAIN credentials = {given[i].clientId : i \in 1..n}
  /\ \A i \in 1..n :
       /\ given[i].clientId \in ClientIds /\ credentials[given[i].clientId] = given[i].key
       /\ \A j \in 1..i - 1 : given[j].clientId # given[i].clientId

\* Every statement names a configured App and a registered issuer.
StatementsJoined ==
  \A i \in DOMAIN statements : statements[i].issuer \in issuers /\ statements[i].app \in ClientIds

AppsDone == AppsBuilt(Len(configuration.apps))
IssuersDone == AppsDone /\ IssuersBuilt(Len(configuration.registrations))
StatementsDone ==
  IssuersDone /\ StatementsBuilt(Len(configuration.definitions)) /\ StatementsJoined
PoliciesDone == StatementsDone /\ PoliciesBuilt(Len(statements))
CredentialsDone ==
  configuration.host = "node" =>
    CredentialsBuilt(Len(configuration.credentials)) /\ DOMAIN credentials = ClientIds

\* What has been built, at each list, is what the elements looked at so far
\* say, and every one of those was accepted.
Built ==
  /\ stage = "apps" => AppsBuilt(position - 1) /\ IssuersBuilt(0) /\ StatementsBuilt(0)
  /\ stage = "registrations" => AppsDone /\ IssuersBuilt(position - 1) /\ StatementsBuilt(0)
  /\ stage = "statements" => IssuersDone /\ StatementsBuilt(position - 1)
  /\ stage = "policies" => StatementsDone /\ PoliciesBuilt(position - 1)
  /\ stage = "credentials" =>
       PoliciesDone /\ configuration.host = "node" /\ CredentialsBuilt(position - 1)
  /\ stage \in {"apps", "registrations", "statements", "policies"} => DOMAIN credentials = {}
  /\ stage \in {"serving", "evaluating"} => PoliciesDone /\ CredentialsDone

\* While a request is evaluated, the pass works on what the selected App's
\* endpoint was given; at any other time its variables are at rest.
AtRest ==
  /\ policy = <<>> /\ index = 1 /\ targetSupported = FALSE /\ outcome = None
  /\ permissionsNotCoveredForResource = {} /\ permissionsNotCoveredForMatchingSubject = {}

InProgress ==
  LET token == exchange.token IN
  /\ exchange = [slug |-> exchange.slug, token |-> token, request |-> request,
                 result |-> None, key |-> None]
  /\ \E i \in DOMAIN apps :
       apps[i].slug = exchange.slug /\ apps[i].clientId = app /\ Acceptable(token, apps[i])
  /\ policy = policies[app]
  /\ subject = [issuer |-> token.issuer, claims |-> token.claims]
  /\ LoopInvariant

Evaluating == IF stage = "evaluating" THEN InProgress ELSE AtRest

Typed == TypeOK /\ configuration \in Configuration /\ position \in Nat \ {0}

CompositionInvariant ==
  Typed /\ Built /\ Evaluating /\ RefusesTheUnsound /\ AuthorityAsWritten

-----------------------------------------------------------------------------
LEMMA ConfigurationType ==
  ASSUME configuration \in Configuration
  PROVE  /\ configuration.host \in {"worker", "node"} /\ configuration.apps \in Seq(AppMetadata)
         /\ configuration.registrations \in Seq(Registration)
         /\ configuration.definitions \in Seq(Definition)
         /\ configuration.credentials \in Seq(Credential)
         /\ configuration.env \in [Binding -> Key]
  BY ConfigurationAssumption

\* Looked at one after the other, the elements show what Sound asks for.
LEMMA AppsSoundMeans ==
  ASSUME configuration \in Configuration
  PROVE  AppsSound(configuration) <=> \A i \in DOMAIN configuration.apps : AppFine(i)
<1> DEFINE given == configuration.apps
<1>0. given \in Seq(AppMetadata)
  BY ConfigurationType
<1>1. ASSUME AppsSound(configuration), NEW i \in DOMAIN given
      PROVE  AppFine(i)
  <2>1. /\ given[i].audiences # <<>> /\ WellFormed(given[i].audiences)
        /\ configuration.host = "worker" => given[i].binding # Malformed
    BY <1>1 DEF AppsSound, Range
  <2>2. given[i].slug # Malformed /\ given[i].clientId # Malformed
    BY <1>1 DEF AppsSound, Range, WellFormed, SlugsOf, ClientIdsOf
  <2>3. \A j \in DOMAIN given : i # j => given[j].slug # given[i].slug /\ given[j].clientId # given[i].clientId
    BY <1>1 DEF AppsSound, WellFormed, SlugsOf, ClientIdsOf, Distinct, IsInjective
  <2>4. \A j \in 1..i - 1 : j \in DOMAIN given /\ j # i
    BY <1>0
  <2> QED
    BY <2>1, <2>2, <2>3, <2>4 DEF AppFine
<1>2. ASSUME \A i \in DOMAIN given : AppFine(i)
      PROVE  AppsSound(configuration)
  <2>1. \A i, j \in DOMAIN given : i # j => given[j].slug # given[i].slug /\ given[j].clientId # given[i].clientId
    <3> TAKE i, j \in DOMAIN given
    <3>1. i # j => i \in 1..j - 1 \/ j \in 1..i - 1
      BY <1>0
    <3> QED
      BY <1>2, <3>1 DEF AppFine
  <2>2. \A i \in DOMAIN given : given[i].slug # Malformed /\ given[i].clientId # Malformed
    BY <1>2 DEF AppFine
  <2>3. WellFormed(SlugsOf(given))
    BY <2>1, <2>2 DEF WellFormed, SlugsOf, Distinct, IsInjective, Range
  <2>4. WellFormed(ClientIdsOf(given))
    BY <2>1, <2>2 DEF WellFormed, ClientIdsOf, Distinct, IsInjective, Range
  <2>5. \A a \in Range(given) :
          /\ a.audiences # <<>> /\ WellFormed(a.audiences)
          /\ configuration.host = "worker" => a.binding # Malformed
    BY <1>2 DEF AppFine, Range
  <2> QED
    BY <2>3, <2>4, <2>5 DEF AppsSound
<1> QED
  BY <1>1, <1>2

LEMMA RegistrationsSoundMeans ==
  ASSUME configuration \in Configuration
  PROVE  RegistrationsSound(configuration) <=>
           \A i \in DOMAIN configuration.registrations : RegistrationFine(i)
<1> DEFINE given == configuration.registrations
<1>0. given \in Seq(Registration)
  BY ConfigurationType
<1>1. ASSUME RegistrationsSound(configuration), NEW i \in DOMAIN given
      PROVE  RegistrationFine(i)
  <2>1. /\ given[i].algorithms # <<>> /\ WellFormed(given[i].algorithms)
        /\ given[i].profile # Malformed
    BY <1>1 DEF RegistrationsSound, Range
  <2>2. given[i].issuer # Malformed
    BY <1>1 DEF RegistrationsSound, Range, WellFormed, IssuersOf
  <2>3. \A j \in DOMAIN given : i # j => given[j].issuer # given[i].issuer
    BY <1>1 DEF RegistrationsSound, WellFormed, IssuersOf, Distinct, IsInjective
  <2>4. \A j \in 1..i - 1 : j \in DOMAIN given /\ j # i
    BY <1>0
  <2> QED
    BY <2>1, <2>2, <2>3, <2>4 DEF RegistrationFine
<1>2. ASSUME \A i \in DOMAIN given : RegistrationFine(i)
      PROVE  RegistrationsSound(configuration)
  <2>1. \A i, j \in DOMAIN given : i # j => given[j].issuer # given[i].issuer
    <3> TAKE i, j \in DOMAIN given
    <3>1. i # j => i \in 1..j - 1 \/ j \in 1..i - 1
      BY <1>0
    <3> QED
      BY <1>2, <3>1 DEF RegistrationFine
  <2>2. \A i \in DOMAIN given : given[i].issuer # Malformed
    BY <1>2 DEF RegistrationFine
  <2>3. WellFormed(IssuersOf(given))
    BY <2>1, <2>2 DEF WellFormed, IssuersOf, Distinct, IsInjective, Range
  <2>4. \A r \in Range(given) :
          r.algorithms # <<>> /\ WellFormed(r.algorithms) /\ r.profile # Malformed
    BY <1>2 DEF RegistrationFine, Range
  <2> QED
    BY <2>3, <2>4 DEF RegistrationsSound
<1> QED
  BY <1>1, <1>2

\* A definition is accepted, and its App and its issuer are there.
DefinitionFine(d) ==
  /\ StatementAccepted(d)
  /\ d.app \in Range(ClientIdsOf(configuration.apps))
  /\ d.issuer \in Range(IssuersOf(configuration.registrations))

\* The predicates of a definition, taken one after the other.
LEMMA PredicatesDistinct ==
  ASSUME NEW d \in Definition
  PROVE  Distinct(ClaimsOf(d.predicates)) <=>
           \A i \in DOMAIN d.predicates : \A j \in 1..i - 1 :
             d.predicates[j].claim # d.predicates[i].claim
<1>1. d.predicates \in Seq(Predicate)
  BY DEF Definition
<1>2. \A i \in DOMAIN d.predicates : \A j \in 1..i - 1 : j \in DOMAIN d.predicates /\ j # i
  BY <1>1
<1>3. \A i, j \in DOMAIN d.predicates : i # j => i \in 1..j - 1 \/ j \in 1..i - 1
  BY <1>1
<1> QED
  BY <1>2, <1>3 DEF Distinct, IsInjective, ClaimsOf

LEMMA DefinitionsSoundMeans ==
  ASSUME configuration \in Configuration,
         AppsSound(configuration), RegistrationsSound(configuration)
  PROVE  DefinitionsSound(configuration) <=>
           \A i \in DOMAIN configuration.definitions : DefinitionFine(configuration.definitions[i])
<1> DEFINE given == configuration.definitions
<1>1. Malformed \notin Range(ClientIdsOf(configuration.apps))
      /\ Malformed \notin Range(IssuersOf(configuration.registrations))
  BY DEF AppsSound, RegistrationsSound, WellFormed
<1>2. ASSUME NEW d \in Definition
      PROVE  DefinitionFine(d) <=>
               /\ d.app \in Range(ClientIdsOf(configuration.apps))
               /\ d.issuer \in Range(IssuersOf(configuration.registrations))
               /\ Malformed \notin {d.owner, d.repository}
               /\ Distinct(ClaimsOf(d.predicates))
               /\ \A p \in Range(d.predicates) : PredicateAccepted(p)
               /\ DOMAIN d.permissions # {} /\ Range(d.permissions) \subseteq Level
  <2>1. (\A p \in Range(d.predicates) : PredicateAccepted(p)) <=>
          (\A i \in DOMAIN d.predicates : PredicateAccepted(d.predicates[i]))
    BY DEF Range
  <2>2. Range(d.permissions) \subseteq Level <=>
          \A name \in DOMAIN d.permissions : d.permissions[name] \in Level
    BY DEF Range
  <2> QED
    BY <1>1, <2>1, <2>2, PredicatesDistinct
       DEF DefinitionFine, StatementAccepted, StatementIdentified
<1>3. \A i \in DOMAIN given : given[i] \in Definition
  BY ConfigurationType
<1> QED
  BY <1>2, <1>3 DEF DefinitionsSound, Range

\* A private key is for a configured App that has none yet.
CredentialFine(i) ==
  LET given == configuration.credentials IN
  /\ given[i].clientId \in Range(ClientIdsOf(configuration.apps))
  /\ \A j \in 1..i - 1 : given[j].clientId # given[i].clientId

LEMMA CredentialsSoundMeans ==
  ASSUME configuration \in Configuration, configuration.host = "node"
  PROVE  CredentialsSound(configuration) <=>
           /\ \A i \in DOMAIN configuration.credentials : CredentialFine(i)
           /\ Range(ClientIdsOf(configuration.apps)) \subseteq
                Range(ClientIdsOf(configuration.credentials))
<1> DEFINE given == configuration.credentials
<1>0. given \in Seq(Credential)
  BY ConfigurationType
<1>1. \A i \in DOMAIN given : \A j \in 1..i - 1 : j \in DOMAIN given /\ j # i
  BY <1>0
<1>2. \A i, j \in DOMAIN given : i # j => i \in 1..j - 1 \/ j \in 1..i - 1
  BY <1>0
<1>3. Distinct(ClientIdsOf(given)) <=>
        \A i \in DOMAIN given : \A j \in 1..i - 1 : given[j].clientId # given[i].clientId
  BY <1>1, <1>2 DEF Distinct, IsInjective, ClientIdsOf
<1>4. Range(ClientIdsOf(given)) = {given[i].clientId : i \in DOMAIN given}
  BY DEF Range, ClientIdsOf
<1> QED
  BY <1>3, <1>4 DEF CredentialsSound, CredentialFine

LEMMA AppsKnown ==
  ASSUME Typed, AppsDone
  PROVE  /\ ClientIds = Range(ClientIdsOf(configuration.apps)) /\ AppsSound(configuration)
         /\ DOMAIN apps = DOMAIN configuration.apps
         /\ \A i \in DOMAIN apps : apps[i] = configuration.apps[i]
<1>1. apps \in Seq(AppMetadata) /\ configuration.apps \in Seq(AppMetadata)
  BY ConfigurationType DEF Typed, TypeOK
<1>2. DOMAIN apps = DOMAIN configuration.apps /\ DOMAIN apps = 1..Len(configuration.apps)
  BY <1>1 DEF AppsDone, AppsBuilt
<1>3. \A i \in DOMAIN apps : apps[i] = configuration.apps[i] /\ AppFine(i)
  BY <1>2 DEF AppsDone, AppsBuilt
<1>4. ClientIds = Range(ClientIdsOf(configuration.apps))
  BY <1>2, <1>3 DEF ClientIds, ClientIdsOf, Range
<1>5. AppsSound(configuration)
  BY <1>2, <1>3, AppsSoundMeans DEF Typed
<1> QED
  BY <1>2, <1>3, <1>4, <1>5

LEMMA IssuersKnown ==
  ASSUME Typed, IssuersDone
  PROVE  /\ issuers = Range(IssuersOf(configuration.registrations))
         /\ RegistrationsSound(configuration)
<1>1. DOMAIN configuration.registrations = 1..Len(configuration.registrations)
  BY ConfigurationType DEF Typed
<1>2. issuers = Range(IssuersOf(configuration.registrations))
  BY <1>1 DEF IssuersDone, IssuersBuilt, IssuersOf, Range
<1>3. RegistrationsSound(configuration)
  BY <1>1, RegistrationsSoundMeans DEF IssuersDone, IssuersBuilt, Typed
<1> QED
  BY <1>2, <1>3

\* A compiled statement keeps the identities and the permissions of its
\* definition.
LEMMA CompiledFields ==
  ASSUME NEW d \in Definition
  PROVE  /\ Compiled(d).app = d.app /\ Compiled(d).owner = d.owner
         /\ Compiled(d).repository = d.repository /\ Compiled(d).issuer = d.issuer
         /\ Compiled(d).permissions = d.permissions
         /\ Compiled(d).predicates = CompiledPredicates(d.predicates)
  BY DEF Compiled, Definition

LEMMA CompiledPredicatesMean ==
  ASSUME NEW d \in Definition, StatementAccepted(d)
  PROVE  /\ DOMAIN CompiledPredicates(d.predicates) =
              {d.predicates[i].claim : i \in DOMAIN d.predicates}
         /\ \A i \in DOMAIN d.predicates :
              CompiledPredicates(d.predicates)[d.predicates[i].claim] =
                Range(d.predicates[i].values)
<1> DEFINE given == d.predicates
           Named(name) == CHOOSE i \in DOMAIN given : given[i].claim = name
<1>1. given \in Seq(Predicate)
  BY DEF Definition
<1>2. \A i, j \in DOMAIN given : i # j => i \in 1..j - 1 \/ j \in 1..i - 1
  BY <1>1
<1>3. \A i, j \in DOMAIN given : given[i].claim = given[j].claim => i = j
  BY <1>2 DEF StatementAccepted, StatementIdentified
<1>4. \A i \in DOMAIN given :
        Named(given[i].claim) \in DOMAIN given /\ given[Named(given[i].claim)].claim = given[i].claim
  OBVIOUS
<1>5. \A i \in DOMAIN given : Named(given[i].claim) = i
  BY <1>3, <1>4
<1> QED
  BY <1>5 DEF CompiledPredicates

LEMMA CompiledType ==
  ASSUME NEW d \in Definition, StatementAccepted(d)
  PROVE  Compiled(d) \in PermitStatement
<1> DEFINE compiled == CompiledPredicates(d.predicates)
<1>1. \A i \in DOMAIN d.predicates : d.predicates[i] \in Predicate
  BY DEF Definition
<1>2. ASSUME NEW p \in Predicate
      PROVE  p.claim \in Claim /\ Range(p.values) \in SUBSET Value
  <2>1. p.claim \in Claim /\ p.values \in Seq(Value)
    BY DEF Predicate
  <2> QED
    BY <2>1 DEF Range
<1>3. /\ DOMAIN compiled = {d.predicates[i].claim : i \in DOMAIN d.predicates}
      /\ \A i \in DOMAIN d.predicates :
           compiled[d.predicates[i].claim] = Range(d.predicates[i].values)
  BY CompiledPredicatesMean
<1>4. compiled = [name \in DOMAIN compiled |-> compiled[name]]
  BY DEF CompiledPredicates
<1> HIDE DEF compiled
<1>5. DOMAIN compiled \in SUBSET Claim
  BY <1>1, <1>2, <1>3
<1>6. compiled \in Partial(Claim, SUBSET Value)
  <2>1. \A name \in DOMAIN compiled : compiled[name] \in SUBSET Value
    BY <1>1, <1>2, <1>3
  <2>2. compiled \in [DOMAIN compiled -> SUBSET Value]
    BY <1>4, <2>1
  <2> QED
    BY <1>5, <2>2 DEF Partial
<1>7. d.permissions \in Partial(Permission, Level)
  <2>1. PICK D \in SUBSET Permission : d.permissions \in [D -> Level \cup {Malformed}]
    BY DEF Definition, Partial
  <2>2. d.permissions \in [D -> Level]
    BY <2>1 DEF StatementAccepted
  <2> QED
    BY <2>2 DEF Partial
<1>8. d.app \in AppId /\ d.owner \in Owner /\ d.repository \in Repository \cup {AnyRepository}
      /\ d.issuer \in Issuer
  BY DEF StatementAccepted, StatementIdentified, Definition
<1>9. Compiled(d) =
        [app |-> d.app, owner |-> d.owner, repository |-> d.repository, issuer |-> d.issuer,
         predicates |-> compiled, permissions |-> d.permissions]
  BY DEF Compiled, Definition, compiled
<1> QED
  BY <1>6, <1>7, <1>8, <1>9 DEF PermitStatement

-----------------------------------------------------------------------------
\* Construction: an accepted element extends what has been built.

LEMMA AddAppStep ==
  ASSUME Typed, Built, AddApp
  PROVE  Typed' /\ Built'
<1> DEFINE given == configuration.apps
<1>1. /\ stage = "apps" /\ position <= Len(given) /\ AppAccepted(given[position])
      /\ stage' = stage /\ configuration' = configuration /\ position' = position + 1
      /\ apps' = Append(apps, given[position])
      /\ UNCHANGED <<issuers, statements, policies, credentials, policy>>
  BY DEF AddApp, AtElement, ElementAccepted, Given, evaluation, arguments
<1>2. position \in 1..Len(given) /\ given[position] \in AppMetadata /\ apps \in Seq(AppMetadata)
  BY <1>1, ConfigurationType DEF Typed, TypeOK
<1>3. apps' \in Seq(AppMetadata) /\ position' \in Nat \ {0}
  BY <1>1, <1>2
<1>4. Typed'
  BY <1>1, <1>3 DEF Typed, TypeOK
<1>5. AppsBuilt(position - 1) /\ IssuersBuilt(0) /\ StatementsBuilt(0) /\ DOMAIN credentials = {}
  BY <1>1 DEF Built
<1>6. AppFine(position)
  <2>1. \A j \in 1..position - 1 : j \in DOMAIN apps /\ apps[j] = given[j]
    BY <1>2, <1>5 DEF AppsBuilt
  <2>2. \A j \in 1..position - 1 : /\ given[j].slug # given[position].slug
                                  /\ given[j].clientId # given[position].clientId
    BY <1>1, <2>1 DEF AppAccepted, IsNew
  <2> QED
    BY <1>1, <2>2 DEF AppAccepted, AppFine
<1>7. Len(apps') = position /\ \A i \in 1..position : apps'[i] = given[i]
  BY <1>1, <1>2, <1>5 DEF AppsBuilt
<1>8. AppsBuilt(position - 1)'
  <2>1. \A i \in 1..position : AppFine(i)
    BY <1>2, <1>5, <1>6 DEF AppsBuilt
  <2>2. \A i \in 1..position : AppFine(i)'
    BY <1>1, <2>1 DEF AppFine
  <2> QED
    BY <1>1, <1>2, <1>7, <2>2 DEF AppsBuilt
<1>9. IssuersBuilt(0)' /\ StatementsBuilt(0)'
  BY <1>1, <1>5 DEF IssuersBuilt, StatementsBuilt
<1> QED
  BY <1>1, <1>4, <1>5, <1>8, <1>9 DEF Built

LEMMA RegisterStep ==
  ASSUME Typed, Built, Register
  PROVE  Typed' /\ Built'
<1> DEFINE given == configuration.registrations
<1>1. /\ stage = "registrations" /\ position <= Len(given) /\ RegistrationAccepted(given[position])
      /\ stage' = stage /\ configuration' = configuration /\ position' = position + 1
      /\ issuers' = issuers \cup {given[position].issuer}
      /\ UNCHANGED <<apps, statements, policies, credentials, policy>>
  BY DEF Register, AtElement, ElementAccepted, Given, evaluation, arguments
<1>2. position \in 1..Len(given) /\ given[position] \in Registration
  BY <1>1, ConfigurationType DEF Typed, TypeOK
<1>3. given[position].issuer \in Issuer
  BY <1>1, <1>2 DEF RegistrationAccepted, Registration
<1>4. Typed'
  BY <1>1, <1>2, <1>3 DEF Typed, TypeOK
<1>5. AppsDone /\ IssuersBuilt(position - 1) /\ StatementsBuilt(0) /\ DOMAIN credentials = {}
  BY <1>1 DEF Built
<1>6. RegistrationFine(position)
  BY <1>1, <1>2, <1>5 DEF RegistrationAccepted, IssuersBuilt, RegistrationFine
<1>7. issuers' = {given[i].issuer : i \in 1..position}
  BY <1>1, <1>2, <1>5 DEF IssuersBuilt
<1>8. IssuersBuilt(position - 1)'
  <2>1. position' - 1 = position /\ position \in 0..Len(given)
    BY <1>1, <1>2
  <2>2. \A i \in 1..position : RegistrationFine(i)
    BY <1>2, <1>5, <1>6 DEF IssuersBuilt
  <2>3. \A i \in 1..position : RegistrationFine(i)'
    BY <1>1, <2>2 DEF RegistrationFine
  <2> QED
    BY <1>1, <1>7, <2>1, <2>3 DEF IssuersBuilt
<1>9. AppsDone' /\ StatementsBuilt(0)'
  BY <1>1, <1>5 DEF AppsDone, AppsBuilt, AppFine, StatementsBuilt
<1> QED
  BY <1>1, <1>4, <1>5, <1>8, <1>9 DEF Built

LEMMA CompileStatementStep ==
  ASSUME Typed, Built, CompileStatement
  PROVE  Typed' /\ Built'
<1> DEFINE given == configuration.definitions
<1>1. /\ stage = "statements" /\ position <= Len(given) /\ StatementAccepted(given[position])
      /\ stage' = stage /\ configuration' = configuration /\ position' = position + 1
      /\ statements' = Append(statements, Compiled(given[position]))
      /\ UNCHANGED <<apps, issuers, policies, credentials, policy>>
  BY DEF CompileStatement, AtElement, ElementAccepted, Given, evaluation, arguments
<1>2. position \in 1..Len(given) /\ given[position] \in Definition
      /\ statements \in Seq(PermitStatement)
  BY <1>1, ConfigurationType DEF Typed, TypeOK
<1>3. Compiled(given[position]) \in PermitStatement
  BY <1>1, <1>2, CompiledType
<1>4. Typed'
  BY <1>1, <1>2, <1>3 DEF Typed, TypeOK
<1>5. IssuersDone /\ StatementsBuilt(position - 1) /\ DOMAIN credentials = {}
  BY <1>1 DEF Built
<1>6. /\ Len(statements') = position
      /\ \A i \in 1..position : statements'[i] = Compiled(given[i])
  BY <1>1, <1>2, <1>3, <1>5 DEF StatementsBuilt
<1>7. StatementsBuilt(position - 1)'
  BY <1>1, <1>2, <1>5, <1>6 DEF StatementsBuilt
<1>8. IssuersDone'
  BY <1>1, <1>5 DEF IssuersDone, IssuersBuilt, RegistrationFine, AppsDone, AppsBuilt, AppFine
<1> QED
  BY <1>1, <1>4, <1>5, <1>7, <1>8 DEF Built

\* A sequence holds what another one does and one more element.
HoldsAlso(longer, s, e) ==
  /\ \A k \in DOMAIN longer : longer[k] = e \/ \E l \in DOMAIN s : s[l] = longer[k]
  /\ \E k \in DOMAIN longer : longer[k] = e
  /\ \A l \in DOMAIN s : \E k \in DOMAIN longer : longer[k] = s[l]

LEMMA AppendHolds ==
  ASSUME NEW S, NEW s \in Seq(S), NEW e \in S
  PROVE  Append(s, e) \in Seq(S) /\ HoldsAlso(Append(s, e), s, e)
<1> DEFINE longer == Append(s, e)
<1>1. longer \in Seq(S) /\ DOMAIN longer = 1..Len(s) + 1 /\ DOMAIN s = 1..Len(s) /\ Len(s) \in Nat
  OBVIOUS
<1>2. longer[Len(s) + 1] = e /\ \A k \in 1..Len(s) : longer[k] = s[k]
  OBVIOUS
<1> HIDE DEF longer
<1>3. \A k \in 1..Len(s) + 1 : k \in 1..Len(s) \/ k = Len(s) + 1
  BY <1>1
<1>4. Len(s) + 1 \in 1..Len(s) + 1 /\ \A k \in 1..Len(s) : k \in 1..Len(s) + 1
  BY <1>1
<1>5. HoldsAlso(longer, s, e)
  BY <1>1, <1>2, <1>3, <1>4 DEF HoldsAlso
<1> QED
  BY <1>1, <1>5 DEF longer

LEMMA FilterStatementStep ==
  ASSUME Typed, Built, FilterStatement
  PROVE  Typed' /\ Built'
<1> DEFINE statement == statements[position]
<1>1. /\ stage = "policies" /\ position <= Len(statements)
      /\ stage' = stage /\ position' = position + 1
      /\ policies' = [policies EXCEPT ![statement.app] = Append(@, statement)]
      /\ UNCHANGED <<configuration, apps, issuers, statements, credentials, policy>>
  BY DEF FilterStatement, AtElement, Given, evaluation, arguments
<1>2. /\ statements \in Seq(PermitStatement) /\ position \in 1..Len(statements)
      /\ statement \in PermitStatement
  BY <1>1 DEF Typed, TypeOK
<1>3. StatementsDone /\ PoliciesBuilt(position - 1) /\ DOMAIN credentials = {}
  BY <1>1 DEF Built
<1>4. statement.app \in ClientIds /\ DOMAIN policies = ClientIds /\ DOMAIN policies' = ClientIds
  BY <1>1, <1>2, <1>3 DEF StatementsDone, StatementsJoined, PoliciesBuilt
<1>5. \A c \in ClientIds : c \in AppId /\ policies[c] \in Seq(PermitStatement)
  BY <1>4 DEF Typed, TypeOK
<1>6. \A c \in ClientIds :
        policies'[c] = IF c = statement.app THEN Append(policies[c], statement) ELSE policies[c]
  BY <1>1, <1>4
<1>7. ASSUME NEW c \in ClientIds
      PROVE  policies'[c] \in Seq(PermitStatement)
  <2>1. policies[c] \in Seq(PermitStatement)
    BY <1>5
  <2>2. Append(policies[c], statement) \in Seq(PermitStatement)
    BY <1>2, <2>1, AppendHolds
  <2> QED
    BY <1>6, <2>1, <2>2
<1>8. Typed'
  BY <1>1, <1>2, <1>4, <1>5, <1>7 DEF Typed, TypeOK
<1>9. ASSUME NEW c \in ClientIds
      PROVE  /\ \A k \in DOMAIN policies'[c] :
                  \E i \in 1..position : statements[i] = policies'[c][k] /\ statements[i].app = c
             /\ \A i \in 1..position :
                  statements[i].app = c =>
                    \E k \in DOMAIN policies'[c] : policies'[c][k] = statements[i]
  <2>1. /\ \A k \in DOMAIN policies[c] :
             \E i \in 1..position - 1 : statements[i] = policies[c][k] /\ statements[i].app = c
        /\ \A i \in 1..position - 1 :
             statements[i].app = c => \E k \in DOMAIN policies[c] : policies[c][k] = statements[i]
    BY <1>3 DEF PoliciesBuilt
  <2>2. 1..position = (1..position - 1) \cup {position}
    BY <1>2
  <2>3. CASE c = statement.app
    <3>1. policies'[c] = Append(policies[c], statement)
      BY <1>6, <2>3
    <3>2. policies[c] \in Seq(PermitStatement)
      BY <1>5
    <3>3. HoldsAlso(policies'[c], policies[c], statement)
      BY <1>2, <3>1, <3>2, AppendHolds
    <3>4. \A k \in DOMAIN policies'[c] :
            policies'[c][k] = statement \/ \E l \in DOMAIN policies[c] : policies[c][l] = policies'[c][k]
      BY <3>3 DEF HoldsAlso
    <3>5. /\ \E k \in DOMAIN policies'[c] : policies'[c][k] = statement
          /\ \A l \in DOMAIN policies[c] :
               \E k \in DOMAIN policies'[c] : policies'[c][k] = policies[c][l]
      BY <3>3 DEF HoldsAlso
    <3>6. position \in 1..position /\ \A i \in 1..position - 1 : i \in 1..position
      BY <2>2
    <3>7. ASSUME NEW i \in 1..position, statements[i].app = c
          PROVE  \E k \in DOMAIN policies'[c] : policies'[c][k] = statements[i]
      <4>1. CASE i = position
        BY <3>5, <4>1
      <4>2. CASE i \in 1..position - 1
        BY <2>1, <3>5, <3>7, <4>2
      <4> QED
        BY <2>2, <4>1, <4>2
    <3> QED
      BY <2>1, <2>3, <3>4, <3>6, <3>7
  <2>4. CASE c # statement.app
    <3>1. policies'[c] = policies[c]
      BY <1>6, <2>4
    <3> QED
      BY <2>1, <2>2, <2>4, <3>1
  <2> QED
    BY <2>3, <2>4
<1>10. ClientIds' = ClientIds
  BY <1>1 DEF ClientIds
<1>11. PoliciesBuilt(position - 1)'
  <2>1. position' - 1 = position /\ position \in 0..Len(statements) /\ statements' = statements
    BY <1>1, <1>2
  <2> QED
    BY <1>4, <1>9, <1>10, <2>1 DEF PoliciesBuilt
<1>12. StatementsDone'
  <2>1. AppsDone' /\ IssuersDone'
    BY <1>1, <1>3
    DEF StatementsDone, IssuersDone, IssuersBuilt, RegistrationFine, AppsDone, AppsBuilt, AppFine
  <2> QED
    BY <1>1, <1>3, <1>10, <2>1 DEF StatementsDone, StatementsBuilt, StatementsJoined
<1> QED
  BY <1>1, <1>3, <1>8, <1>11, <1>12 DEF Built

\* What has been built before a step that leaves it alone is still built.
LEMMA PoliciesStay ==
  ASSUME PoliciesDone, UNCHANGED <<configuration, apps, issuers, statements, policies>>
  PROVE  PoliciesDone'
<1>1. ClientIds' = ClientIds
  BY DEF ClientIds
<1>2. AppsDone' /\ IssuersDone'
  BY DEF PoliciesDone, StatementsDone, IssuersDone, IssuersBuilt, RegistrationFine, AppsDone,
         AppsBuilt, AppFine
<1>3. StatementsDone'
  BY <1>1, <1>2 DEF PoliciesDone, StatementsDone, StatementsBuilt, StatementsJoined
<1>4. PoliciesBuilt(Len(statements))'
  BY <1>1 DEF PoliciesDone, PoliciesBuilt
<1> QED
  BY <1>3, <1>4 DEF PoliciesDone

LEMMA BindCredentialStep ==
  ASSUME Typed, Built, BindCredential
  PROVE  Typed' /\ Built'
<1> DEFINE given == configuration.credentials
           credential == given[position]
<1>1. /\ stage = "credentials" /\ position <= Len(given) /\ CredentialAccepted(credential)
      /\ stage' = stage /\ position' = position + 1
      /\ credentials' = [c \in DOMAIN credentials \cup {credential.clientId} |->
                           IF c = credential.clientId THEN credential.key ELSE credentials[c]]
      /\ UNCHANGED <<configuration, apps, issuers, statements, policies, policy>>
  BY DEF BindCredential, AtElement, ElementAccepted, Given, evaluation, arguments
<1>2. position \in 1..Len(given) /\ credential \in Credential
  BY <1>1, ConfigurationType DEF Typed
<1>3. credential.clientId \in AppId /\ credential.key \in Key
  BY <1>2 DEF Credential
<1>4. PoliciesDone /\ configuration.host = "node" /\ CredentialsBuilt(position - 1)
  BY <1>1 DEF Built
<1>5. credential.clientId \in ClientIds /\ credential.clientId \notin DOMAIN credentials
  BY <1>1 DEF CredentialAccepted
<1>6. Typed'
  BY <1>1, <1>2, <1>3 DEF Typed, TypeOK
<1>7. ClientIds' = ClientIds
  BY <1>1 DEF ClientIds
<1>8. DOMAIN credentials' = {given[i].clientId : i \in 1..position}
  <2>1. 1..position = (1..position - 1) \cup {position}
    BY <1>2
  <2>2. DOMAIN credentials' = DOMAIN credentials \cup {credential.clientId}
    BY <1>1
  <2>3. DOMAIN credentials = {given[i].clientId : i \in 1..position - 1}
    BY <1>4 DEF CredentialsBuilt
  <2> QED
    BY <2>1, <2>2, <2>3
<1>9. \A i \in 1..position - 1 : given[i].clientId \in DOMAIN credentials
                                 /\ given[i].clientId # credential.clientId
  BY <1>4, <1>5 DEF CredentialsBuilt
<1>10. ASSUME NEW i \in 1..position
       PROVE  /\ given[i].clientId \in ClientIds
              /\ credentials'[given[i].clientId] = given[i].key
              /\ \A j \in 1..i - 1 : given[j].clientId # given[i].clientId
  <2>1. CASE i = position
    BY <1>1, <1>5, <1>9, <2>1
  <2>2. CASE i # position
    <3>1. i \in 1..position - 1
      BY <1>2, <2>2
    <3> QED
      BY <1>1, <1>4, <1>9, <3>1 DEF CredentialsBuilt
  <2> QED
    BY <2>1, <2>2
<1>11. CredentialsBuilt(position - 1)'
  <2>1. position' - 1 = position /\ position \in 0..Len(given)
        /\ configuration' = configuration
    BY <1>1, <1>2
  <2>2. DOMAIN credentials' = {configuration'.credentials[i].clientId : i \in 1..position' - 1}
    BY <1>8, <2>1
  <2>3. \A i \in 1..position' - 1 :
          /\ configuration'.credentials[i].clientId \in ClientIds'
          /\ credentials'[configuration'.credentials[i].clientId] = configuration'.credentials[i].key
          /\ \A j \in 1..i - 1 :
               configuration'.credentials[j].clientId # configuration'.credentials[i].clientId
    BY <1>7, <1>10, <2>1
  <2> QED
    BY <2>1, <2>2, <2>3 DEF CredentialsBuilt
<1>12. PoliciesDone'
  BY <1>1, <1>4, PoliciesStay
<1> QED
  BY <1>1, <1>4, <1>6, <1>11, <1>12 DEF Built

-----------------------------------------------------------------------------
\* Construction: the end of a list.

\* A configuration that was built from to the end is sound.
LEMMA SoundWhenBuilt ==
  ASSUME Typed, PoliciesDone, CredentialsDone
  PROVE  Sound
<1>1. AppsDone /\ IssuersDone /\ StatementsDone
  BY DEF PoliciesDone, StatementsDone, IssuersDone
<1>2. /\ ClientIds = Range(ClientIdsOf(configuration.apps)) /\ AppsSound(configuration)
      /\ issuers = Range(IssuersOf(configuration.registrations)) /\ RegistrationsSound(configuration)
  BY <1>1, AppsKnown, IssuersKnown
<1>3. DefinitionsSound(configuration)
  <2>1. ASSUME NEW i \in DOMAIN configuration.definitions
        PROVE  DefinitionFine(configuration.definitions[i])
    <3> DEFINE d == configuration.definitions[i]
    <3>1. configuration.definitions \in Seq(Definition) /\ statements \in Seq(PermitStatement)
      BY ConfigurationType DEF Typed, TypeOK
    <3>2. d \in Definition /\ i \in 1..Len(configuration.definitions)
      BY <3>1
    <3>3. statements[i] = Compiled(d) /\ StatementAccepted(d) /\ i \in DOMAIN statements
      BY <1>1, <3>1, <3>2 DEF StatementsDone, StatementsBuilt
    <3>4. d.app \in ClientIds /\ d.issuer \in issuers
      BY <1>1, <3>2, <3>3, CompiledFields DEF StatementsDone, StatementsJoined
    <3> QED
      BY <1>2, <3>3, <3>4 DEF DefinitionFine
  <2> QED
    BY <1>2, <2>1, DefinitionsSoundMeans DEF Typed
<1>4. CredentialsSound(configuration)
  <2>1. CASE configuration.host = "node"
    <3>1. /\ DOMAIN configuration.credentials = 1..Len(configuration.credentials)
          /\ CredentialsBuilt(Len(configuration.credentials)) /\ DOMAIN credentials = ClientIds
      BY <2>1, ConfigurationType DEF Typed, CredentialsDone
    <3>2. ASSUME NEW i \in DOMAIN configuration.credentials
          PROVE  CredentialFine(i)
      <4>1. /\ configuration.credentials[i].clientId \in ClientIds
            /\ \A j \in 1..i - 1 :
                 configuration.credentials[j].clientId # configuration.credentials[i].clientId
        BY <3>1 DEF CredentialsBuilt
      <4> QED
        BY <1>2, <4>1 DEF CredentialFine
    <3>3. ClientIds = Range(ClientIdsOf(configuration.credentials))
      <4>1. ClientIds = {configuration.credentials[i].clientId :
                           i \in DOMAIN configuration.credentials}
        BY <3>1 DEF CredentialsBuilt
      <4> QED
        BY <4>1 DEF ClientIdsOf, Range
    <3> QED
      BY <1>2, <2>1, <3>2, <3>3, CredentialsSoundMeans DEF Typed
  <2> QED
    BY <2>1 DEF CredentialsSound
<1> QED
  BY <1>2, <1>3, <1>4 DEF Sound

LEMMA AdvanceStep ==
  ASSUME Typed, Built, Advance
  PROVE  Typed' /\ Built' /\ (stage' = "serving" => PoliciesDone /\ CredentialsDone)
<1>1. /\ stage \in Lists /\ position > Len(Given) /\ ListAccepted /\ stage' = After /\ position' = 1
      /\ policies' = IF stage = "statements" THEN [c \in ClientIds |-> <<>>] ELSE policies
      /\ UNCHANGED <<configuration, apps, issuers, statements, credentials, policy>>
  BY DEF Advance, evaluation, arguments
<1>2. configuration.host \in {"worker", "node"}
  BY ConfigurationType DEF Typed
<1>3. stage' \in Lists \cup {"serving"} /\ position' \in Nat \ {0} /\ position' - 1 = 0
  BY <1>1 DEF After, Lists
<1>4. stage # "statements" => Typed'
  BY <1>1, <1>3 DEF Typed, TypeOK, Lists
<1>5. UNCHANGED <<apps, configuration, issuers, statements>> /\ ClientIds' = ClientIds
  BY <1>1 DEF ClientIds
<1>6. AppsDone => AppsDone'
  BY <1>5 DEF AppsDone, AppsBuilt, AppFine
<1>7. IssuersDone => IssuersDone'
  BY <1>5, <1>6 DEF IssuersDone, IssuersBuilt, RegistrationFine
<1>8. StatementsDone => StatementsDone'
  BY <1>5, <1>7 DEF StatementsDone, StatementsBuilt, StatementsJoined
<1>9. StatementsBuilt(0) => StatementsBuilt(0)'
  BY <1>5 DEF StatementsBuilt
<1>10. CASE stage = "apps"
  <2>1. AppsBuilt(position - 1) /\ IssuersBuilt(0) /\ StatementsBuilt(0) /\ DOMAIN credentials = {}
    BY <1>10 DEF Built
  <2>2. position - 1 = Len(configuration.apps)
    BY <1>1, <1>10, <2>1 DEF AppsBuilt, Given, Typed
  <2>3. AppsDone'
    BY <1>6, <2>1, <2>2 DEF AppsDone
  <2>4. IssuersBuilt(0)'
    BY <1>5, <2>1 DEF IssuersBuilt
  <2>5. stage' = "registrations"
    BY <1>1, <1>10 DEF After
  <2> QED
    BY <1>1, <1>3, <1>4, <1>9, <1>10, <2>1, <2>3, <2>4, <2>5 DEF Built
<1>11. CASE stage = "registrations"
  <2>1. AppsDone /\ IssuersBuilt(position - 1) /\ StatementsBuilt(0) /\ DOMAIN credentials = {}
    BY <1>11 DEF Built
  <2>2. position - 1 = Len(configuration.registrations)
    BY <1>1, <1>11, <2>1 DEF IssuersBuilt, Given, Typed
  <2>3. IssuersDone'
    BY <1>7, <2>1, <2>2 DEF IssuersDone
  <2>4. stage' = "statements"
    BY <1>1, <1>11 DEF After
  <2> QED
    BY <1>1, <1>3, <1>4, <1>9, <1>11, <2>1, <2>3, <2>4 DEF Built
<1>12. CASE stage = "statements"
  <2>1. IssuersDone /\ StatementsBuilt(position - 1) /\ DOMAIN credentials = {}
    BY <1>12 DEF Built
  <2>2. position - 1 = Len(configuration.definitions)
    BY <1>1, <1>12, <2>1 DEF StatementsBuilt, Given, Typed
  <2>3. StatementsDone'
    BY <1>1, <1>8, <1>12, <2>1, <2>2 DEF StatementsDone, StatementsJoined, ListAccepted
  <2>4. stage' = "policies" /\ policies' = [c \in ClientIds |-> <<>>]
    BY <1>1, <1>12 DEF After
  <2>5. PoliciesBuilt(0)'
    BY <1>5, <2>4 DEF PoliciesBuilt
  <2>6. ClientIds \subseteq AppId
    <3>1. Malformed \notin ClientIds
      BY <2>1, AppsKnown DEF IssuersDone, AppsSound, WellFormed
    <3>2. \A i \in DOMAIN apps : apps[i] \in AppMetadata
      BY DEF Typed, TypeOK
    <3> QED
      BY <3>1, <3>2 DEF ClientIds, AppMetadata
  <2>7. Typed'
    <3>1. \A c \in DOMAIN policies' : c \in AppId /\ policies'[c] \in Seq(PermitStatement)
      BY <2>4, <2>6
    <3> QED
      BY <1>1, <1>3, <3>1 DEF Typed, TypeOK, Lists
  <2> QED
    BY <1>1, <1>3, <1>12, <2>1, <2>3, <2>4, <2>5, <2>7 DEF Built
<1>13. CASE stage = "policies"
  <2>1. StatementsDone /\ PoliciesBuilt(position - 1) /\ DOMAIN credentials = {}
    BY <1>13 DEF Built
  <2>2. position - 1 = Len(statements)
    BY <1>1, <1>13, <2>1 DEF PoliciesBuilt, Given, Typed
  <2>3. PoliciesDone /\ PoliciesDone'
    BY <1>1, <1>13, <2>1, <2>2, PoliciesStay DEF PoliciesDone
  <2>4. CASE configuration.host = "node"
    <3>1. stage' = "credentials"
      BY <1>1, <1>13, <2>4 DEF After
    <3>2. CredentialsBuilt(0)'
      BY <1>1, <2>1, <2>4, ConfigurationType DEF CredentialsBuilt, Typed
    <3> QED
      BY <1>1, <1>3, <1>4, <1>13, <2>3, <2>4, <3>1, <3>2 DEF Built
  <2>5. CASE configuration.host = "worker"
    <3>1. stage' = "serving" /\ CredentialsDone /\ CredentialsDone'
      BY <1>1, <1>13, <2>5 DEF After, CredentialsDone
    <3> QED
      BY <1>4, <1>13, <2>3, <3>1 DEF Built
  <2> QED
    BY <1>2, <2>4, <2>5
<1>14. CASE stage = "credentials"
  <2>1. PoliciesDone /\ configuration.host = "node" /\ CredentialsBuilt(position - 1)
    BY <1>14 DEF Built
  <2>2. position - 1 = Len(configuration.credentials)
    BY <1>1, <1>14, <2>1 DEF CredentialsBuilt, Given, Typed
  <2>3. PoliciesDone'
    BY <1>1, <1>14, <2>1, PoliciesStay
  <2>4. CredentialsDone
    BY <1>1, <1>14, <2>1, <2>2 DEF CredentialsDone, ListAccepted
  <2>5. CredentialsDone'
    BY <1>1, <1>5, <2>4 DEF CredentialsDone, CredentialsBuilt
  <2>6. stage' = "serving"
    BY <1>1, <1>14 DEF After
  <2> QED
    BY <1>4, <1>14, <2>1, <2>3, <2>4, <2>5, <2>6 DEF Built
<1> QED
  BY <1>1, <1>10, <1>11, <1>12, <1>13, <1>14 DEF Lists

\* A configuration that is refused is not sound: what the loop stumbles over
\* is a fault of the configuration, whatever was looked at before it.
LEMMA RefuseStep ==
  ASSUME Typed, Built, Refuse
  PROVE  ~Sound
<1>1. /\ stage \in Lists
      /\ IF position <= Len(Given) THEN ~ElementAccepted ELSE ~ListAccepted
  BY DEF Refuse
<1>2. CASE stage = "apps"
  <2>1. AppsBuilt(position - 1)
    BY <1>2 DEF Built
  <2>2. position <= Len(configuration.apps) /\ ~AppAccepted(configuration.apps[position])
    BY <1>1, <1>2 DEF Given, ElementAccepted, ListAccepted
  <2>3. position \in DOMAIN configuration.apps /\ apps \in Seq(AppMetadata)
    BY <2>2, ConfigurationType DEF Typed, TypeOK
  <2>4. \A i \in DOMAIN apps : i \in 1..position - 1 /\ apps[i] = configuration.apps[i]
    BY <2>1, <2>3 DEF AppsBuilt
  <2>5. ~AppFine(position)
    BY <2>2, <2>4 DEF AppAccepted, IsNew, AppFine
  <2> QED
    BY <2>3, <2>5, AppsSoundMeans DEF Typed, Sound
<1>3. CASE stage = "registrations"
  <2> DEFINE registration == configuration.registrations[position]
  <2>1. IssuersBuilt(position - 1)
    BY <1>3 DEF Built
  <2>2. position <= Len(configuration.registrations) /\ ~RegistrationAccepted(registration)
    BY <1>1, <1>3 DEF Given, ElementAccepted, ListAccepted
  <2>3. position \in DOMAIN configuration.registrations
    BY <2>2, ConfigurationType DEF Typed
  <2>4. ~RegistrationFine(position)
    BY <2>1, <2>2 DEF RegistrationAccepted, IssuersBuilt, RegistrationFine
  <2> QED
    BY <2>3, <2>4, RegistrationsSoundMeans DEF Typed, Sound
<1>4. CASE stage = "statements"
  <2> DEFINE given == configuration.definitions
  <2>1. IssuersDone /\ AppsDone /\ StatementsBuilt(position - 1)
    BY <1>4 DEF Built, IssuersDone
  <2>2. /\ ClientIds = Range(ClientIdsOf(configuration.apps)) /\ AppsSound(configuration)
        /\ issuers = Range(IssuersOf(configuration.registrations))
        /\ RegistrationsSound(configuration)
    BY <2>1, AppsKnown, IssuersKnown
  <2>3. given \in Seq(Definition) /\ statements \in Seq(PermitStatement)
    BY ConfigurationType DEF Typed, TypeOK
  <2>4. CASE position <= Len(given)
    <3>1. ~StatementAccepted(given[position]) /\ position \in DOMAIN given
      BY <1>1, <1>4, <2>3, <2>4 DEF Given, ElementAccepted, Typed
    <3> QED
      BY <2>2, <3>1, DefinitionsSoundMeans DEF Typed, Sound, DefinitionFine
  <2>5. CASE ~(position <= Len(given))
    <3>1. PICK i \in DOMAIN statements :
            ~(statements[i].issuer \in issuers /\ statements[i].app \in ClientIds)
      BY <1>1, <1>4, <2>5 DEF Given, ListAccepted
    <3>2. i \in 1..position - 1 /\ i \in DOMAIN given
      BY <2>1, <2>3, <3>1 DEF StatementsBuilt
    <3>3. given[i] \in Definition /\ statements[i] = Compiled(given[i])
      BY <2>1, <2>3, <3>2 DEF StatementsBuilt
    <3>4. ~DefinitionFine(given[i])
      BY <2>2, <3>1, <3>3, CompiledFields DEF DefinitionFine
    <3> QED
      BY <2>2, <3>2, <3>4, DefinitionsSoundMeans DEF Typed, Sound
  <2> QED
    BY <2>4, <2>5
<1>5. CASE stage = "policies"
  BY <1>1, <1>5 DEF Given, ElementAccepted, ListAccepted
<1>6. CASE stage = "credentials"
  <2> DEFINE given == configuration.credentials
  <2>1. PoliciesDone /\ AppsDone /\ configuration.host = "node" /\ CredentialsBuilt(position - 1)
    BY <1>6 DEF Built, PoliciesDone, StatementsDone, IssuersDone
  <2>2. ClientIds = Range(ClientIdsOf(configuration.apps))
    BY <2>1, AppsKnown
  <2>3. given \in Seq(Credential)
    BY ConfigurationType DEF Typed
  <2>4. CASE position <= Len(given)
    <3>1. ~CredentialAccepted(given[position]) /\ position \in DOMAIN given
      BY <1>1, <1>6, <2>3, <2>4 DEF Given, ElementAccepted, Typed
    <3>2. ~CredentialFine(position)
      BY <2>1, <2>2, <3>1 DEF CredentialAccepted, CredentialsBuilt, CredentialFine
    <3> QED
      BY <2>1, <3>1, <3>2, CredentialsSoundMeans DEF Typed, Sound
  <2>5. CASE ~(position <= Len(given))
    <3>1. DOMAIN credentials # ClientIds
      BY <1>1, <1>6, <2>5 DEF Given, ListAccepted
    <3>2. position - 1 = Len(given)
      BY <2>1, <2>3, <2>5 DEF CredentialsBuilt, Typed
    <3>3. /\ DOMAIN credentials = {given[i].clientId : i \in DOMAIN given}
          /\ \A i \in DOMAIN given : given[i].clientId \in ClientIds
      BY <2>1, <2>3, <3>2 DEF CredentialsBuilt
    <3>4. Range(ClientIdsOf(given)) = {given[i].clientId : i \in DOMAIN given}
      BY DEF ClientIdsOf, Range
    <3> QED
      BY <2>1, <2>2, <3>1, <3>3, <3>4, CredentialsSoundMeans DEF Typed, Sound
  <2> QED
    BY <2>4, <2>5
<1> QED
  BY <1>1, <1>2, <1>3, <1>4, <1>5, <1>6 DEF Lists

\* The other invariants say nothing new during construction.
LEMMA ConstructionKeeps ==
  ASSUME CompositionInvariant, stage \in Lists, stage' # "evaluating",
         UNCHANGED <<configuration, exchange, evaluation>>
  PROVE  Evaluating' /\ AuthorityAsWritten'
<1>1. AtRest
  BY DEF CompositionInvariant, Evaluating, Lists
<1>2. AtRest'
  BY <1>1 DEF AtRest, evaluation, arguments
<1>3. AuthorityAsWritten'
  BY DEF CompositionInvariant, AuthorityAsWritten, DecisionAsWritten, KeyAsWritten
<1> QED
  BY <1>2, <1>3 DEF Evaluating

-----------------------------------------------------------------------------
\* Requests.

\* A compiled statement says of a request what its definition says.
LEMMA CompiledSays ==
  ASSUME NEW d \in Definition, StatementAccepted(d), NEW token, NEW c, NEW wanted,
         NEW verified, verified = [issuer |-> token.issuer, claims |-> token.claims]
  PROVE  /\ ForTarget(Compiled(d), c, wanted) <=> ForTarget(d, c, wanted)
         /\ SubjectTokenMatches(Compiled(d), verified) <=> SelectsAsWritten(d, token)
         /\ \A name : LevelCovers(Compiled(d), wanted, name) <=> LevelCovers(d, wanted, name)
<1> DEFINE compiled == CompiledPredicates(d.predicates)
<1>1. /\ DOMAIN compiled = {d.predicates[i].claim : i \in DOMAIN d.predicates}
      /\ \A i \in DOMAIN d.predicates :
           compiled[d.predicates[i].claim] = Range(d.predicates[i].values)
  BY CompiledPredicatesMean
<1>2. Compiled(d).issuer = d.issuer /\ Compiled(d).predicates = compiled
  BY CompiledFields
<1> HIDE DEF compiled
<1>3. ClaimPredicatesMatch(Compiled(d), verified) <=>
        \A i \in DOMAIN d.predicates :
          /\ d.predicates[i].claim \in DOMAIN token.claims
          /\ token.claims[d.predicates[i].claim] \in Range(d.predicates[i].values)
  BY <1>1, <1>2 DEF ClaimPredicatesMatch
<1>4. SubjectTokenMatches(Compiled(d), verified) <=> SelectsAsWritten(d, token)
  BY <1>2, <1>3 DEF SubjectTokenMatches, SelectsAsWritten
<1>5. ForTarget(Compiled(d), c, wanted) <=> ForTarget(d, c, wanted)
  BY CompiledFields DEF ForTarget, ResourceConstraintMatches
<1>6. \A name : LevelCovers(Compiled(d), wanted, name) <=> LevelCovers(d, wanted, name)
  BY CompiledFields DEF LevelCovers
<1> QED
  BY <1>4, <1>5, <1>6

\* The policy of an App holds the compiled definitions that name the App.
LEMMA PolicyHolds ==
  ASSUME Typed, PoliciesDone, NEW c \in ClientIds
  PROVE  /\ \A d \in Range(configuration.definitions) :
              /\ d \in Definition /\ StatementAccepted(d)
              /\ d.app = c => \E k \in DOMAIN policies[c] : policies[c][k] = Compiled(d)
         /\ \A k \in DOMAIN policies[c] :
              \E d \in Range(configuration.definitions) : policies[c][k] = Compiled(d)
<1> DEFINE given == configuration.definitions
<1>1. given \in Seq(Definition) /\ statements \in Seq(PermitStatement)
  BY ConfigurationType DEF Typed, TypeOK
<1>2. /\ Len(statements) = Len(given)
      /\ \A i \in 1..Len(given) : statements[i] = Compiled(given[i]) /\ StatementAccepted(given[i])
  BY DEF PoliciesDone, StatementsDone, StatementsBuilt
<1>3. /\ \A k \in DOMAIN policies[c] : \E i \in 1..Len(given) : statements[i] = policies[c][k]
      /\ \A i \in 1..Len(given) :
           statements[i].app = c => \E k \in DOMAIN policies[c] : policies[c][k] = statements[i]
  BY <1>2 DEF PoliciesDone, PoliciesBuilt
<1>4. DOMAIN given = 1..Len(given) /\ \A i \in DOMAIN given : given[i] \in Definition
  BY <1>1
<1>5. \A i \in DOMAIN given : statements[i].app = given[i].app
  BY <1>2, <1>4, CompiledFields
<1> QED
  BY <1>2, <1>3, <1>4, <1>5 DEF Range

\* What an App's policy decides is what the definitions say as written.
LEMMA DecisionJoins ==
  ASSUME Typed, PoliciesDone, NEW c \in ClientIds, NEW token, NEW wanted,
         NEW verified, verified = [issuer |-> token.issuer, claims |-> token.claims],
         NEW held, held = {policies[c][k] : k \in DOMAIN policies[c]}
  PROVE  Decision(held, c, verified, wanted) = DecisionAsWritten(c, token, wanted)
<1> DEFINE given == Range(configuration.definitions)
           heldForTarget == {s \in held : ForTarget(s, c, wanted)}
           heldForSubject == {s \in heldForTarget : SubjectTokenMatches(s, verified)}
           forTarget == {d \in given : ForTarget(d, c, wanted)}
           forSubject == {d \in forTarget : SelectsAsWritten(d, token)}
<1>1. \A d \in given :
        /\ ForTarget(Compiled(d), c, wanted) <=> ForTarget(d, c, wanted)
        /\ SubjectTokenMatches(Compiled(d), verified) <=> SelectsAsWritten(d, token)
        /\ \A name : LevelCovers(Compiled(d), wanted, name) <=> LevelCovers(d, wanted, name)
  BY PolicyHolds, CompiledSays
<1>2. \A d \in given : d.app = c => Compiled(d) \in held
  BY PolicyHolds
<1>3. \A s \in held : \E d \in given : s = Compiled(d)
  BY PolicyHolds
<1>4. \A d \in forTarget : Compiled(d) \in heldForTarget
  BY <1>1, <1>2 DEF ForTarget
<1>5. \A s \in heldForTarget : \E d \in forTarget : s = Compiled(d)
  BY <1>1, <1>3
<1>6. \A d \in forSubject : Compiled(d) \in heldForSubject
  BY <1>1, <1>4
<1>7. \A s \in heldForSubject : \E d \in forSubject : s = Compiled(d)
  BY <1>1, <1>5
<1>8. AllCovered(heldForTarget, wanted) <=> AllCovered(forTarget, wanted)
  BY <1>1, <1>4, <1>5 DEF AllCovered
<1>9. AllCovered(heldForSubject, wanted) <=> AllCovered(forSubject, wanted)
  BY <1>1, <1>6, <1>7 DEF AllCovered
<1>10. heldForTarget = {} <=> forTarget = {}
  BY <1>4, <1>5
<1> QED
  BY <1>8, <1>9, <1>10 DEF Decision, DecisionAsWritten

LEMMA ReceiveStep ==
  ASSUME CompositionInvariant, NEW slug \in Slug, NEW token \in IdToken, NEW wanted \in Requests,
         Receive(slug, token, wanted)
  PROVE  CompositionInvariant'
<1>1. /\ stage = "serving" /\ Typed /\ Built /\ AtRest /\ Sound
      /\ UNCHANGED <<configuration, position, apps, issuers, statements, policies, credentials>>
  BY DEF CompositionInvariant, Receive, built, Evaluating, RefusesTheUnsound
<1>2. PoliciesDone /\ CredentialsDone /\ AppsDone
  BY <1>1 DEF Built, PoliciesDone, StatementsDone, IssuersDone
<1>3. /\ DOMAIN apps = DOMAIN configuration.apps
      /\ \A i \in DOMAIN apps : apps[i] = configuration.apps[i]
  BY <1>1, <1>2, AppsKnown
<1>4. PoliciesDone' /\ CredentialsDone' /\ Sound'
  <2>1. ClientIds' = ClientIds
    BY <1>1 DEF ClientIds
  <2>2. CredentialsDone'
    <3>1. UNCHANGED <<configuration, credentials>>
      BY <1>1
    <3> QED
      BY <1>2, <2>1, <3>1 DEF CredentialsDone, CredentialsBuilt
  <2> QED
    BY <1>1, <1>2, <2>2, PoliciesStay DEF Sound
<1>5. stage' \in {"serving", "evaluating"} => Built' /\ RefusesTheUnsound'
  BY <1>4 DEF Built, RefusesTheUnsound
<1>6. CASE UNCHANGED <<stage, evaluation>> /\ Selected(slug) = {}
           /\ Asks(slug, token, wanted, "not_found")
  <2>1. \A a \in Range(configuration.apps) : a.slug # slug
    BY <1>3, <1>6 DEF Selected, Range
  <2>2. AuthorityAsWritten'
    BY <1>1, <1>6, <2>1 DEF AuthorityAsWritten, Asks
  <2>3. Typed' /\ Evaluating'
    BY <1>1, <1>6 DEF Typed, TypeOK, Evaluating, AtRest, evaluation, arguments
  <2> QED
    BY <1>1, <1>5, <1>6, <2>2, <2>3 DEF CompositionInvariant
<1>7. CASE UNCHANGED <<stage, evaluation>> /\ Asks(slug, token, wanted, "unauthenticated")
  <2>1. AuthorityAsWritten'
    BY <1>7 DEF AuthorityAsWritten, Asks
  <2>2. Typed' /\ Evaluating'
    BY <1>1, <1>7 DEF Typed, TypeOK, Evaluating, AtRest, evaluation, arguments
  <2> QED
    BY <1>1, <1>5, <1>7, <2>1, <2>2 DEF CompositionInvariant
<1>8. ASSUME NEW i \in Selected(slug),
             Acceptable(token, apps[i]), Asks(slug, token, wanted, None), stage' = "evaluating",
             policy' = policies[apps[i].clientId], app' = apps[i].clientId,
             subject' = [issuer |-> token.issuer, claims |-> token.claims], request' = wanted,
             permissionsNotCoveredForResource' = DOMAIN wanted.permissions,
             permissionsNotCoveredForMatchingSubject' = DOMAIN wanted.permissions,
             UNCHANGED <<index, targetSupported, outcome>>
      PROVE  CompositionInvariant'
  <2>1. exchange' = [slug |-> slug, token |-> token, request |-> wanted,
                     result |-> None, key |-> None]
    BY <1>8 DEF Asks
  <2>2. i \in DOMAIN apps /\ apps[i].slug = slug /\ app' \in ClientIds
    BY <1>8 DEF Selected, ClientIds
  <2>3. policy' \in Seq(PermitStatement)
    BY <1>1, <1>2, <1>8, <2>2 DEF PoliciesDone, PoliciesBuilt, Typed, TypeOK
  <2>4. Typed'
    BY <1>1, <1>8, <2>3 DEF Typed, TypeOK
  <2>5. AuthorityAsWritten'
    BY <2>1 DEF AuthorityAsWritten
  <2>6. Summed'
    <3>1. index' = 1 /\ targetSupported' = FALSE /\ outcome' = None
      BY <1>1, <1>8 DEF AtRest
    <3>2. Seen' = {} /\ SeenForTarget' = {} /\ SeenForSubject' = {}
      BY <3>1 DEF Seen, SeenForTarget, SeenForSubject
    <3>3. Uncovered({})' = DOMAIN wanted.permissions
      BY <1>8 DEF Uncovered
    <3>4. DOMAIN wanted.permissions # {}
      BY PolicyAssumption
    <3>5. index' \in 1..(Len(policy') + 1)
      BY <2>3, <3>1
    <3> QED
      BY <1>8, <2>3, <3>1, <3>2, <3>3, <3>4, <3>5 DEF Summed
  <2>7. LoopInvariant'
    BY <1>1, <1>8, <2>6 DEF LoopInvariant, EvaluationCorrect, AtRest
  <2>8. Acceptable(token, apps[i])'
    BY <1>1, <1>8 DEF Acceptable
  <2>9. InProgress'
    BY <1>1, <1>8, <2>1, <2>2, <2>7, <2>8 DEF InProgress
  <2>10. Evaluating'
    BY <1>8, <2>9 DEF Evaluating
  <2> QED
    BY <1>5, <1>8, <2>4, <2>5, <2>10 DEF CompositionInvariant
<1> QED
  BY <1>6, <1>7, <1>8 DEF Receive

LEMMA ServingStays ==
  ASSUME Typed, Built, stage \in {"serving", "evaluating"}, stage' \in {"serving", "evaluating"},
         UNCHANGED built, RefusesTheUnsound
  PROVE  Built' /\ RefusesTheUnsound'
<1>1. PoliciesDone /\ CredentialsDone /\ Sound
  BY DEF Built, RefusesTheUnsound
<1>2. ClientIds' = ClientIds
  BY DEF ClientIds, built
<1>3. CredentialsDone'
  BY <1>1, <1>2 DEF CredentialsDone, CredentialsBuilt, built
<1>4. PoliciesDone' /\ Sound'
  BY <1>1, PoliciesStay DEF Sound, built
<1> QED
  BY <1>3, <1>4 DEF Built, RefusesTheUnsound

LEMMA EvaluateStep ==
  ASSUME CompositionInvariant, Evaluate
  PROVE  CompositionInvariant'
<1>1. stage = "evaluating" /\ UNCHANGED <<stage, built, exchange>> /\ (Skip \/ Consider \/ Deny)
  BY DEF Evaluate
<1>2. InProgress /\ Typed /\ Built /\ RefusesTheUnsound /\ AuthorityAsWritten
  BY <1>1 DEF CompositionInvariant, Evaluating
<1>3. LoopInvariant'
  BY <1>1, <1>2, SkipStep, ConsiderStep, DenyStep DEF InProgress
<1>4. UNCHANGED <<policy, app, subject, request>>
  BY <1>1 DEF Skip, Consider, Deny, arguments
<1>5. \A t, a : Acceptable(t, a)' <=> Acceptable(t, a)
  BY <1>1 DEF Acceptable, built
<1>6. InProgress'
  <2>1. PICK i \in DOMAIN apps :
          apps[i].slug = exchange.slug /\ apps[i].clientId = app /\ Acceptable(exchange.token, apps[i])
    BY <1>2 DEF InProgress
  <2>2. apps' = apps /\ exchange' = exchange
    BY <1>1 DEF built
  <2>3. Acceptable(exchange.token, apps[i])'
    BY <1>5, <2>1, <2>2
  <2> QED
    BY <1>1, <1>2, <1>3, <1>4, <2>1, <2>2, <2>3 DEF InProgress, built
<1>7. Typed'
  BY <1>1, <1>2, <1>4 DEF Typed, TypeOK, built
<1>8. AuthorityAsWritten'
  BY <1>1, <1>2 DEF AuthorityAsWritten, DecisionAsWritten, KeyAsWritten, built
<1> QED
  BY <1>1, <1>2, <1>6, <1>7, <1>8, ServingStays DEF CompositionInvariant, Evaluating

\* The private key of an App's endpoint is the one configured for the App.
LEMMA KeyJoins ==
  ASSUME Typed, CredentialsDone, NEW i \in DOMAIN apps
  PROVE  KeyAsWritten(apps[i], PrivateKey(apps[i]))
<1>1. CASE configuration.host = "worker"
  BY <1>1 DEF KeyAsWritten, PrivateKey
<1>2. CASE configuration.host # "worker"
  <2> DEFINE given == configuration.credentials
  <2>1. configuration.host = "node" /\ given \in Seq(Credential)
    BY <1>2, ConfigurationType DEF Typed
  <2>2. apps[i].clientId \in DOMAIN credentials
    BY <2>1 DEF CredentialsDone, ClientIds
  <2>3. PICK k \in 1..Len(given) : given[k].clientId = apps[i].clientId
    BY <2>1, <2>2 DEF CredentialsDone, CredentialsBuilt
  <2>4. given[k] \in Credential /\ credentials[given[k].clientId] = given[k].key
        /\ k \in DOMAIN given
    BY <2>1, <2>3 DEF CredentialsDone, CredentialsBuilt
  <2>5. given[k] = [clientId |-> given[k].clientId, key |-> given[k].key]
    BY <2>4 DEF Credential
  <2> QED
    BY <1>2, <2>3, <2>4, <2>5 DEF KeyAsWritten, PrivateKey, Range
<1> QED
  BY <1>1, <1>2

LEMMA ConcludeStep ==
  ASSUME CompositionInvariant, Conclude
  PROVE  CompositionInvariant'
<1>1. /\ stage = "evaluating" /\ outcome # None /\ stage' = "serving" /\ UNCHANGED built
      /\ policy' = <<>> /\ index' = 1 /\ targetSupported' = FALSE /\ outcome' = None
      /\ permissionsNotCoveredForResource' = {} /\ permissionsNotCoveredForMatchingSubject' = {}
  BY DEF Conclude
<1>2. InProgress /\ Typed /\ Built /\ RefusesTheUnsound /\ PoliciesDone /\ CredentialsDone
  BY <1>1 DEF CompositionInvariant, Evaluating, Built
<1>3. PICK i \in Selected(exchange.slug) :
        exchange' = [exchange EXCEPT !.result = outcome,
                       !.key = IF outcome = "permitted" THEN PrivateKey(apps[i]) ELSE None]
  BY DEF Conclude
<1>4. PICK j \in DOMAIN apps :
        /\ apps[j].slug = exchange.slug /\ apps[j].clientId = app
        /\ Acceptable(exchange.token, apps[j])
  BY <1>2 DEF InProgress
<1>5. AppsDone /\ IssuersDone
  BY <1>2 DEF PoliciesDone, StatementsDone, IssuersDone
<1>6. /\ AppsSound(configuration) /\ DOMAIN apps = DOMAIN configuration.apps
      /\ \A k \in DOMAIN apps : apps[k] = configuration.apps[k]
      /\ issuers = Range(IssuersOf(configuration.registrations))
  BY <1>2, <1>5, AppsKnown, IssuersKnown
<1>7. i \in DOMAIN apps /\ i = j
  <2>1. i \in DOMAIN apps /\ apps[i].slug = apps[j].slug
    BY <1>3, <1>4 DEF Selected
  <2> QED
    BY <1>6, <2>1 DEF AppsSound, WellFormed, Distinct, IsInjective, SlugsOf
<1>8. /\ exchange'.slug = exchange.slug /\ exchange'.token = exchange.token
      /\ exchange'.request = request /\ exchange'.result = outcome
      /\ outcome = "permitted" => exchange'.key = PrivateKey(apps[j])
  BY <1>2, <1>3, <1>7 DEF InProgress
<1>9. outcome = DecisionAsWritten(app, exchange.token, request)
  <2>1. app \in ClientIds
    BY <1>4 DEF ClientIds
  <2>2. /\ subject = [issuer |-> exchange.token.issuer, claims |-> exchange.token.claims]
        /\ policy = policies[app] /\ EvaluationCorrect
    BY <1>2 DEF InProgress, LoopInvariant
  <2>3. outcome = Decision({policies[app][k] : k \in DOMAIN policies[app]}, app, subject, request)
    BY <1>1, <2>2 DEF EvaluationCorrect
  <2> QED
    BY <1>2, <2>1, <2>2, <2>3, DecisionJoins
<1>10. outcome # "not_found"
  BY <1>9 DEF DecisionAsWritten
<1>11. AuthorityAsWritten'
  <2> DEFINE metadata == configuration.apps[j]
  <2>1. metadata \in Range(configuration.apps) /\ metadata = apps[j]
    BY <1>6 DEF Range
  <2>2. /\ \E r \in Range(configuration.registrations) : r.issuer = exchange.token.issuer
        /\ exchange.token.genuine /\ exchange.token.aud \in Range(metadata.audiences)
    BY <1>4, <1>6, <2>1 DEF Acceptable, IssuersOf, Range
  <2>3. outcome = "permitted" => KeyAsWritten(metadata, exchange'.key)
    BY <1>2, <1>8, <2>1, KeyJoins
  <2>4. outcome = DecisionAsWritten(metadata.clientId, exchange.token, request)
    BY <1>4, <1>9, <2>1
  <2>5. configuration' = configuration /\ metadata.slug = exchange.slug
    BY <1>1, <1>4, <2>1 DEF built
  <2>6. DecisionAsWritten(metadata.clientId, exchange.token, exchange.request)' =
          DecisionAsWritten(metadata.clientId, exchange.token, request)
    BY <1>8, <2>5 DEF DecisionAsWritten
  <2>7. KeyAsWritten(metadata, exchange.key)' <=> KeyAsWritten(metadata, exchange'.key)
    BY <2>5 DEF KeyAsWritten
  <2> QED
    BY <1>8, <1>10, <2>1, <2>2, <2>3, <2>4, <2>5, <2>6, <2>7 DEF AuthorityAsWritten
<1>12. Typed'
  BY <1>1, <1>2 DEF Typed, TypeOK, built
<1>13. Evaluating'
  BY <1>1 DEF Evaluating, AtRest
<1> QED
  BY <1>1, <1>2, <1>11, <1>12, <1>13, ServingStays DEF CompositionInvariant

-----------------------------------------------------------------------------
LEMMA StartsBuilt == CompositionInit => CompositionInvariant
<1> SUFFICES ASSUME CompositionInit PROVE CompositionInvariant
  OBVIOUS
<1>1. /\ configuration \in Configuration /\ stage = "apps" /\ position = 1
      /\ apps = <<>> /\ issuers = {} /\ statements = <<>> /\ policies = <<>> /\ credentials = <<>>
      /\ exchange = None
  BY DEF CompositionInit
<1>2. Typed
  BY DEF CompositionInit, Typed, TypeOK, Lists
<1>3. AppsBuilt(0) /\ IssuersBuilt(0) /\ StatementsBuilt(0)
  BY <1>1, ConfigurationType DEF AppsBuilt, IssuersBuilt, StatementsBuilt
<1>4. Built
  BY <1>1, <1>3 DEF Built
<1>5. Evaluating
  BY DEF CompositionInit, Evaluating, AtRest
<1> QED
  BY <1>1, <1>2, <1>4, <1>5
     DEF CompositionInvariant, RefusesTheUnsound, AuthorityAsWritten

LEMMA CompositionStep ==
  ASSUME CompositionInvariant, [CompositionNext]_compositionVars
  PROVE  CompositionInvariant'
<1>1. Typed /\ Built /\ Evaluating /\ RefusesTheUnsound /\ AuthorityAsWritten
  BY DEF CompositionInvariant
<1>2. ASSUME AddApp \/ Register \/ CompileStatement \/ FilterStatement \/ BindCredential
      PROVE  CompositionInvariant'
  <2>1. stage \in Lists /\ stage' = stage /\ UNCHANGED <<configuration, exchange, evaluation>>
    BY <1>2 DEF AddApp, Register, CompileStatement, FilterStatement, BindCredential, AtElement, Lists
  <2>2. Evaluating' /\ AuthorityAsWritten'
    BY <2>1, ConstructionKeeps DEF Lists
  <2>3. RefusesTheUnsound'
    BY <2>1 DEF RefusesTheUnsound, Lists
  <2>4. Typed' /\ Built'
    BY <1>1, <1>2, AddAppStep, RegisterStep, CompileStatementStep, FilterStatementStep,
       BindCredentialStep
  <2> QED
    BY <2>2, <2>3, <2>4 DEF CompositionInvariant
<1>3. ASSUME Advance PROVE CompositionInvariant'
  <2>1. stage \in Lists /\ UNCHANGED <<configuration, exchange, evaluation>>
    BY <1>3 DEF Advance
  <2>2. stage' \in Lists \cup {"serving"}
    BY <1>3 DEF Advance, After, Lists
  <2>3. Evaluating' /\ AuthorityAsWritten'
    BY <2>1, <2>2, ConstructionKeeps DEF Lists
  <2>4. Typed' /\ Built' /\ (stage' = "serving" => Sound)
    BY <1>1, <1>3, AdvanceStep, SoundWhenBuilt
  <2>5. RefusesTheUnsound'
    BY <2>1, <2>2, <2>4 DEF RefusesTheUnsound, Lists, Sound
  <2> QED
    BY <2>3, <2>4, <2>5 DEF CompositionInvariant
<1>4. ASSUME Refuse PROVE CompositionInvariant'
  <2>1. stage \in Lists /\ stage' = "refused" /\ UNCHANGED <<built, exchange, evaluation>>
    BY <1>4 DEF Refuse
  <2>2. Evaluating' /\ AuthorityAsWritten'
    BY <2>1, ConstructionKeeps DEF built
  <2>3. ~Sound
    BY <1>1, <1>4, RefuseStep
  <2>4. RefusesTheUnsound'
    BY <2>1, <2>3 DEF RefusesTheUnsound, Sound, built
  <2>5. Typed' /\ Built'
    BY <1>1, <2>1 DEF Typed, TypeOK, Built, built, evaluation, arguments
  <2> QED
    BY <2>2, <2>4, <2>5 DEF CompositionInvariant
<1>5. CASE UNCHANGED compositionVars
  <2>1. UNCHANGED <<stage, built, exchange, evaluation>>
    BY <1>5 DEF compositionVars
  <2>2. Typed' /\ AuthorityAsWritten'
    BY <1>1, <2>1 DEF Typed, TypeOK, built, evaluation, arguments, AuthorityAsWritten,
                      DecisionAsWritten, KeyAsWritten
  <2>3. Built'
    <3>1. UNCHANGED <<stage, configuration, position, apps, issuers, statements, policies,
                      credentials>> /\ ClientIds' = ClientIds
      BY <2>1 DEF built, ClientIds
    <3>2. AppsDone' = AppsDone /\ AppsBuilt(position - 1)' = AppsBuilt(position - 1)
      BY <3>1 DEF AppsDone, AppsBuilt, AppFine
    <3>3. /\ IssuersDone' = IssuersDone /\ IssuersBuilt(position - 1)' = IssuersBuilt(position - 1)
          /\ IssuersBuilt(0)' = IssuersBuilt(0)
      BY <3>1, <3>2 DEF IssuersDone, IssuersBuilt, RegistrationFine
    <3>4. /\ StatementsDone' = StatementsDone /\ StatementsBuilt(0)' = StatementsBuilt(0)
          /\ StatementsBuilt(position - 1)' = StatementsBuilt(position - 1)
      BY <3>1, <3>3 DEF StatementsDone, StatementsBuilt, StatementsJoined
    <3>5. PoliciesDone' = PoliciesDone /\ PoliciesBuilt(position - 1)' = PoliciesBuilt(position - 1)
      BY <3>1, <3>4 DEF PoliciesDone, PoliciesBuilt
    <3>6. /\ CredentialsDone' = CredentialsDone
          /\ CredentialsBuilt(position - 1)' = CredentialsBuilt(position - 1)
      BY <3>1 DEF CredentialsDone, CredentialsBuilt
    <3> QED
      BY <1>1, <3>1, <3>2, <3>3, <3>4, <3>5, <3>6 DEF Built
  <2>4. RefusesTheUnsound'
    BY <1>1, <2>1 DEF RefusesTheUnsound, Sound, built
  <2>5. Evaluating'
    BY <1>1, <2>1 DEF Evaluating, InProgress, AtRest, Acceptable, LoopInvariant, Summed,
         EvaluationCorrect, Seen, SeenForTarget, SeenForSubject, Uncovered, built, evaluation,
         arguments
  <2> QED
    BY <2>2, <2>3, <2>4, <2>5 DEF CompositionInvariant
<1> QED
  BY <1>2, <1>3, <1>4, <1>5, ReceiveStep, EvaluateStep, ConcludeStep DEF CompositionNext

THEOREM CompositionInvariantHolds == CompositionSpec => []CompositionInvariant
  BY StartsBuilt, CompositionStep, PTL DEF CompositionSpec

\* What has been built is well typed: nothing malformed is ever taken over.
THEOREM CompositionTypeCorrect == CompositionSpec => []TypeOK
<1>1. CompositionInvariant => TypeOK
  BY DEF CompositionInvariant, Typed
<1> QED
  BY <1>1, CompositionInvariantHolds, PTL

\* Construction refuses every unsound configuration and no sound one, however
\* the elements of its lists are ordered.
THEOREM UnsoundRefused == CompositionSpec => []RefusesTheUnsound
<1>1. CompositionInvariant => RefusesTheUnsound
  BY DEF CompositionInvariant
<1> QED
  BY <1>1, CompositionInvariantHolds, PTL

\* Every answer follows from the configuration as it was written: the policy
\* outcome of the App the path names, and the private key of that App.
THEOREM AuthorityHolds == CompositionSpec => []AuthorityAsWritten
<1>1. CompositionInvariant => AuthorityAsWritten
  BY DEF CompositionInvariant
<1> QED
  BY <1>1, CompositionInvariantHolds, PTL

\* Also where an App's own policy is what is evaluated, the pass comes to
\* what the set of its statements decides.
THEOREM EvaluationComposed == CompositionSpec => []EvaluationCorrect
<1>1. CompositionInvariant => EvaluationCorrect
  BY DEF CompositionInvariant, Evaluating, InProgress, AtRest, LoopInvariant, EvaluationCorrect
<1> QED
  BY <1>1, CompositionInvariantHolds, PTL

=============================================================================
