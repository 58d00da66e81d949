------------------------ MODULE PolicyEvaluationProofs ------------------------
(***************************************************************************)
(* The pass over the Permit Statements comes to what the whole policy      *)
(* decides, for every policy, subject token and request.                   *)
(***************************************************************************)
EXTENDS PolicyEvaluation, TLAPS

\* The statements looked at so far, and those of them that count.
Seen == {policy[i] : i \in 1..(index - 1)}

SeenForTarget == {s \in Seen : ForTarget(s, app, request)}

SeenForSubject == {s \in SeenForTarget : SubjectTokenMatches(s, subject)}

Uncovered(statements) ==
  {name \in DOMAIN request.permissions :
     ~ \E s \in statements : LevelCovers(s, request, name)}

Whole == {policy[i] : i \in DOMAIN policy}

\* The loop invariant: each local variable sums up the statements looked at,
\* and the pass goes on only while something is left for the subject token.
Summed ==
  /\ policy \in Seq(PermitStatement) /\ request \in Requests
  /\ index \in 1..(Len(policy) + 1)
  /\ targetSupported = (SeenForTarget # {})
  /\ permissionsNotCoveredForResource = Uncovered(SeenForTarget)
  /\ permissionsNotCoveredForMatchingSubject = Uncovered(SeenForSubject)
  /\ outcome = None => permissionsNotCoveredForMatchingSubject # {}

LoopInvariant == Summed /\ EvaluationCorrect

-----------------------------------------------------------------------------
\* Striking out what one more statement covers.
LEMMA OneMore ==
  ASSUME NEW statements, NEW s
  PROVE  NotCovered(Uncovered(statements), s) = Uncovered(statements \cup {s})
  BY DEF NotCovered, Uncovered

LEMMA NothingUncovered ==
  ASSUME NEW statements
  PROVE  AllCovered(statements, request) <=> Uncovered(statements) = {}
  BY DEF AllCovered, Uncovered

LEMMA SeenGrows ==
  ASSUME Summed, index <= Len(policy), index' = index + 1, UNCHANGED arguments
  PROVE  Seen' = Seen \cup {policy[index]}
<1>1. Len(policy) \in Nat
  BY DEF Summed
<1>2. 1..(index' - 1) = 1..(index - 1) \cup {index}
  BY <1>1 DEF Summed
<1> QED
  BY <1>2 DEF Seen, arguments

LEMMA SeenWithin ==
  ASSUME Summed
  PROVE  Seen \subseteq Whole /\ (index = Len(policy) + 1 => Seen = Whole)
  BY DEF Summed, Seen, Whole

\* What covers the request among some of the statements covers it among all.
LEMMA CoveredBySome ==
  ASSUME NEW some, NEW all, some \subseteq all, Uncovered(some) = {}
  PROVE  AllCovered(all, request)
  BY DEF Uncovered, AllCovered

-----------------------------------------------------------------------------
LEMMA StartsSummed == Init => LoopInvariant
<1> SUFFICES ASSUME Init PROVE LoopInvariant
  OBVIOUS
<1>1. policy \in Seq(PermitStatement) /\ request \in Requests /\ DOMAIN request.permissions # {}
  BY PolicyAssumption DEF Init
<1>2. Seen = {} /\ SeenForTarget = {} /\ SeenForSubject = {}
  BY DEF Init, Seen, SeenForTarget, SeenForSubject
<1>3. index \in 1..(Len(policy) + 1)
  BY <1>1 DEF Init
<1>4. Uncovered({}) = DOMAIN request.permissions
  BY DEF Uncovered
<1>5. Summed
  BY <1>1, <1>2, <1>3, <1>4 DEF Init, Summed
<1> QED
  BY <1>5 DEF Init, LoopInvariant, EvaluationCorrect

LEMMA SkipStep ==
  ASSUME LoopInvariant, Skip
  PROVE  LoopInvariant'
<1>1. Summed /\ Len(policy) \in Nat
  BY DEF LoopInvariant, Summed
<1>2. Seen' = Seen \cup {policy[index]}
  BY <1>1, SeenGrows DEF Skip
<1>3. SeenForTarget' = SeenForTarget
  BY <1>2 DEF Skip, SeenForTarget, arguments
<1>4. SeenForSubject' = SeenForSubject
  BY <1>3 DEF Skip, SeenForSubject, arguments
<1>5. Summed'
  BY <1>1, <1>3, <1>4 DEF Skip, Summed, Uncovered, arguments
<1> QED
  BY <1>5 DEF Skip, LoopInvariant, EvaluationCorrect

LEMMA ConsiderStep ==
  ASSUME LoopInvariant, Consider
  PROVE  LoopInvariant'
<1> DEFINE statement == policy[index]
           matches == SubjectTokenMatches(statement, subject)
<1>1. /\ Summed /\ Len(policy) \in Nat /\ outcome = None /\ index <= Len(policy)
      /\ UNCHANGED arguments /\ ForTarget(statement, app, request)
      /\ permissionsNotCoveredForMatchingSubject # {}
  BY DEF LoopInvariant, Summed, Consider
<1>2. Seen' = Seen \cup {statement}
  BY <1>1, SeenGrows DEF Consider
<1>3. SeenForTarget' = SeenForTarget \cup {statement}
  BY <1>1, <1>2 DEF SeenForTarget, arguments
<1>4. SeenForSubject' = IF matches THEN SeenForSubject \cup {statement} ELSE SeenForSubject
  BY <1>1, <1>3 DEF SeenForSubject, arguments
<1>5. permissionsNotCoveredForResource' = Uncovered(SeenForTarget \cup {statement})
  BY <1>1, OneMore DEF Consider, Summed
<1>6. permissionsNotCoveredForMatchingSubject' =
        Uncovered(IF matches THEN SeenForSubject \cup {statement} ELSE SeenForSubject)
  BY <1>1, OneMore DEF Consider, Summed
<1>7. outcome' = IF matches /\ permissionsNotCoveredForMatchingSubject' = {}
                   THEN "permitted" ELSE None
  BY <1>1 DEF Consider
<1>8. Summed'
  <2>1. policy' \in Seq(PermitStatement) /\ request' \in Requests
    BY <1>1 DEF Summed, arguments
  <2>2. index' \in 1..(Len(policy') + 1)
    BY <1>1 DEF Summed, Consider, arguments
  <2>3. targetSupported' = (SeenForTarget' # {})
    BY <1>3 DEF Consider
  <2>4. permissionsNotCoveredForResource' = Uncovered(SeenForTarget)'
    BY <1>1, <1>3, <1>5 DEF Uncovered, arguments
  <2>5. permissionsNotCoveredForMatchingSubject' = Uncovered(SeenForSubject)'
    BY <1>1, <1>4, <1>6 DEF Uncovered, arguments
  <2>6. outcome' = None => permissionsNotCoveredForMatchingSubject' # {}
    <3>1. CASE matches
      BY <1>7, <3>1, OutcomeAssumption
    <3>2. CASE ~matches
      BY <1>1, <3>2 DEF Consider
    <3> QED
      BY <3>1, <3>2
  <2> QED
    BY <2>1, <2>2, <2>3, <2>4, <2>5, <2>6 DEF Summed
<1>9. EvaluationCorrect'
  <2> SUFFICES ASSUME outcome' # None
               PROVE  outcome' = Decision(Whole, app, subject, request)'
    BY DEF EvaluationCorrect, Whole
  <2> DEFINE forTarget == {s \in Whole : ForTarget(s, app, request)}
             forSubject == {s \in forTarget : SubjectTokenMatches(s, subject)}
  <2>1. matches /\ Uncovered(SeenForSubject \cup {statement}) = {} /\ outcome' = "permitted"
    BY <1>6, <1>7
  <2>2. statement \in Whole /\ Seen \subseteq Whole
    BY <1>1, SeenWithin DEF Whole, Summed
  <2>3. SeenForSubject \cup {statement} \subseteq forSubject
    BY <1>1, <2>1, <2>2 DEF SeenForSubject, SeenForTarget
  <2>4. AllCovered(forSubject, request)
    BY <2>1, <2>3, CoveredBySome
  <2>5. Decision(Whole, app, subject, request) = "permitted"
    BY <2>4 DEF Decision
  <2>6. Decision(Whole, app, subject, request)' = Decision(Whole, app, subject, request)
    BY <1>1 DEF arguments, Whole, Decision, AllCovered
  <2> QED
    BY <2>1, <2>5, <2>6
<1> QED
  BY <1>8, <1>9 DEF LoopInvariant

LEMMA DenyStep ==
  ASSUME LoopInvariant, Deny
  PROVE  LoopInvariant'
<1> DEFINE forTarget == {s \in Whole : ForTarget(s, app, request)}
           forSubject == {s \in forTarget : SubjectTokenMatches(s, subject)}
<1>1. /\ Summed /\ outcome = None /\ index = Len(policy) + 1
      /\ UNCHANGED arguments
      /\ permissionsNotCoveredForMatchingSubject # {}
  BY DEF LoopInvariant, Summed, Deny
<1>2. Seen = Whole
  BY <1>1, SeenWithin
<1>3. SeenForTarget = forTarget /\ SeenForSubject = forSubject
  BY <1>2 DEF SeenForTarget, SeenForSubject
<1>4. ~AllCovered(forSubject, request)
  BY <1>1, <1>3, NothingUncovered DEF Summed
<1>5. targetSupported = (forTarget # {})
      /\ permissionsNotCoveredForResource = Uncovered(forTarget)
  BY <1>1, <1>3 DEF Summed
<1>6. permissionsNotCoveredForResource = {} <=> AllCovered(forTarget, request)
  BY <1>5, NothingUncovered
<1>7. outcome' = Decision(Whole, app, subject, request)
  BY <1>4, <1>5, <1>6 DEF Deny, Decision
<1>8. Decision(Whole, app, subject, request)' = Decision(Whole, app, subject, request)
  BY <1>1 DEF arguments, Whole, Decision, AllCovered
<1>9. EvaluationCorrect'
  BY <1>7, <1>8 DEF EvaluationCorrect, Whole
<1>10. Summed'
  BY <1>1 DEF Deny, Summed, Seen, SeenForTarget, SeenForSubject, Uncovered, arguments
<1> QED
  BY <1>9, <1>10 DEF LoopInvariant

\* No order of the Permit Statements, no early return and no split of the
\* permissions over several statements changes what the policy decides.
THEOREM EvaluationCorrectHolds == Spec => []EvaluationCorrect
<1>1. LoopInvariant /\ [Next]_vars => LoopInvariant'
  <2>1. CASE UNCHANGED vars
    BY <2>1 DEF vars, arguments, LoopInvariant, Summed, EvaluationCorrect, Seen, SeenForTarget,
                SeenForSubject, Uncovered
  <2> QED
    BY <2>1, SkipStep, ConsiderStep, DenyStep DEF Next
<1>2. LoopInvariant => EvaluationCorrect
  BY DEF LoopInvariant
<1> QED
  BY <1>1, <1>2, StartsSummed, PTL DEF Spec

=============================================================================
