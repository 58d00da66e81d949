--------------------------- MODULE PolicyEvaluation ---------------------------
(***************************************************************************)
(* evaluateTokenIssuancePolicy: one pass over the Permit Statements, which *)
(* strikes out the permissions each statement covers and returns as soon   *)
(* as none is left for the subject token.  Each step is one iteration.     *)
(***************************************************************************)
EXTENDS TokenIssuancePolicy, Sequences

CONSTANTS
  Statements,  \* the Permit Statements a policy may be made of
  Subjects,    \* verified subject tokens
  Requests,    \* Installation Access Token Requests
  Policies,    \* policies: sequences of Permit Statements
  None         \* no outcome yet

ASSUME PolicyAssumption ==
  /\ Statements \subseteq PermitStatement /\ Policies \subseteq Seq(Statements)
  /\ Subjects \subseteq VerifiedSubjectToken
  /\ Requests \subseteq InstallationAccessTokenRequest
  /\ \A q \in Requests : DOMAIN q.permissions # {}

ASSUME OutcomeAssumption ==
  None \notin {"permitted", "target_unsupported", "requested_permissions_unsupported",
               "subject_token_unacceptable"}

VARIABLES
  policy, app, subject, request,            \* the arguments
  index,                                    \* the statement to look at next
  permissionsNotCoveredForResource,
  permissionsNotCoveredForMatchingSubject,
  targetSupported,
  outcome                                   \* what is returned

arguments == <<policy, app, subject, request>>
vars == <<arguments, index, permissionsNotCoveredForResource,
          permissionsNotCoveredForMatchingSubject, targetSupported, outcome>>

Init ==
  /\ policy \in Policies /\ app \in AppId /\ subject \in Subjects /\ request \in Requests
  /\ index = 1
  /\ permissionsNotCoveredForResource = DOMAIN request.permissions
  /\ permissionsNotCoveredForMatchingSubject = DOMAIN request.permissions
  /\ targetSupported = FALSE
  /\ outcome = None

NotCovered_ByName(uncovered, statement) == uncovered \ DOMAIN statement.permissions

\* removeCoveredPermissions
NotCovered(uncovered, statement) ==
  {name \in uncovered : ~LevelCovers(statement, request, name)}

Skip ==
  /\ outcome = None /\ index <= Len(policy)
  /\ ~ForTarget(policy[index], app, request)
  /\ index' = index + 1
  /\ UNCHANGED <<arguments, permissionsNotCoveredForResource,
                 permissionsNotCoveredForMatchingSubject, targetSupported, outcome>>

Consider ==
  LET statement == policy[index]
      matches == SubjectTokenMatches(statement, subject)
  IN  /\ outcome = None /\ index <= Len(policy)
      /\ ForTarget(statement, app, request)
      /\ index' = index + 1
      /\ targetSupported' = TRUE
      /\ permissionsNotCoveredForResource' =
           NotCovered(permissionsNotCoveredForResource, statement)
      /\ permissionsNotCoveredForMatchingSubject' =
           IF matches THEN NotCovered(permissionsNotCoveredForMatchingSubject, statement)
           ELSE permissionsNotCoveredForMatchingSubject
      /\ outcome' = IF matches /\ permissionsNotCoveredForMatchingSubject' = {}
                      THEN "permitted" ELSE outcome
      /\ UNCHANGED arguments

Deny ==
  /\ outcome = None /\ index = Len(policy) + 1
  /\ outcome' = IF ~targetSupported THEN "target_unsupported"
                ELSE IF permissionsNotCoveredForResource # {}
                  THEN "requested_permissions_unsupported"
                ELSE "subject_token_unacceptable"
  /\ UNCHANGED <<arguments, index, permissionsNotCoveredForResource,
                 permissionsNotCoveredForMatchingSubject, targetSupported>>

Next == Skip \/ Consider \/ Deny

Spec == Init /\ [][Next]_vars

-----------------------------------------------------------------------------
\* The pass over the statements, with its early return, comes to what the
\* whole set of statements decides: no order of the statements, and no split
\* of the permissions over several of them, changes the outcome.
EvaluationCorrect ==
  outcome # None =>
    outcome = Decision({policy[i] : i \in DOMAIN policy}, app, subject, request)

=============================================================================
