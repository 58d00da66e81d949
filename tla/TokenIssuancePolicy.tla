------------------------- MODULE TokenIssuancePolicy -------------------------
(***************************************************************************)
(* The data of a compiled Token Issuance Policy                            *)
(* (packages/token-issuance-policy/src/token-issuance-policy.ts), and what *)
(* a set of Permit Statements decides, whatever their order.               *)
(***************************************************************************)
EXTENDS Naturals

CONSTANTS
  AppId,          \* GitHub App client IDs
  Owner,          \* repository owners
  Repository,     \* repository names
  AnyRepository,  \* null: every repository of the owner
  Issuer,         \* OIDC Issuer Identifiers
  Claim,          \* claim names
  Value,          \* claim values
  Permission      \* permission names

\* permissionLevelRanks: read, write, admin.
Level == 1..3

Partial(S, T) == UNION {[D -> T] : D \in SUBSET S}

\* A claim predicate names a claim and the values it may have: one for
\* claim-equals, several for claim-one-of; no two name the same claim.
PermitStatement ==
  [app : AppId, owner : Owner, repository : Repository \cup {AnyRepository},
   issuer : Issuer, predicates : Partial(Claim, SUBSET Value),
   permissions : Partial(Permission, Level)]

VerifiedSubjectToken == [issuer : Issuer, claims : Partial(Claim, Value)]

InstallationAccessTokenRequest ==
  [owner : Owner, repository : Repository, permissions : Partial(Permission, Level)]

ResourceConstraintMatches(statement, request) ==
  /\ statement.owner = request.owner
  /\ statement.repository \in {AnyRepository, request.repository}

ForTarget(statement, app, request) ==
  statement.app = app /\ ResourceConstraintMatches(statement, request)

ClaimPredicatesMatch(statement, subject) ==
  \A name \in DOMAIN statement.predicates :
    name \in DOMAIN subject.claims /\ subject.claims[name] \in statement.predicates[name]

SubjectTokenMatches(statement, subject) ==
  statement.issuer = subject.issuer /\ ClaimPredicatesMatch(statement, subject)

\* installationAccessTokenPermissionLevelCovers, for the permission `name'
LevelCovers(statement, request, name) ==
  /\ name \in DOMAIN statement.permissions
  /\ statement.permissions[name] >= request.permissions[name]

-----------------------------------------------------------------------------
(* The decision the service contract describes: the statements for the App *)
(* and the resource, and among them those for the subject token, cover the *)
(* requested permissions together; each permission needs one statement.    *)

AllCovered(statements, request) ==
  \A name \in DOMAIN request.permissions :
    \E s \in statements : LevelCovers(s, request, name)

Decision(statements, app, subject, request) ==
  LET forTarget == {s \in statements : ForTarget(s, app, request)}
      forSubject == {s \in forTarget : SubjectTokenMatches(s, subject)}
  IN  IF AllCovered(forSubject, request) THEN "permitted"
      ELSE IF forTarget = {} THEN "target_unsupported"
      ELSE IF ~AllCovered(forTarget, request) THEN "requested_permissions_unsupported"
      ELSE "subject_token_unacceptable"

=============================================================================
