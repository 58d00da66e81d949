--------------------------- MODULE MCTokenExchange ---------------------------
(* Small instances of TokenExchange for TLC: two Apps, a subject token for  *)
(* each and one for neither, and a policy with every outcome.               *)
EXTENDS TokenExchange, TLC

RequestSymmetry == Permutations(Request)

Arrives(app, form, subject, target) ==
  [app |-> app, form |-> form, subject |-> subject, target |-> target]

Apps == {"a", "b"}
Subjects == {"for_a", "for_both", "forged"}
Targets == {"read", "write", "admin", "elsewhere"}

AcceptedSubjects == [a \in Apps |-> IF a = "a" THEN {"for_a", "for_both"} ELSE {"for_both"}]

\* The policy, compiled: who may read, who may write, and nothing elsewhere.
Policies == INSTANCE TokenIssuancePolicy WITH
  AppId <- Apps, Owner <- {"o"}, Repository <- {"r", "s"}, AnyRepository <- "*",
  Issuer <- {"ci"}, Claim <- {"ref"}, Value <- {"main", "dev"}, Permission <- {"contents"}

Permits(predicates, level) ==
  [app : Apps, owner : {"o"}, repository : {"r"}, issuer : {"ci"},
   predicates : {predicates}, permissions : {"contents" :> level}]

PermitStatements == Permits("ref" :> {"main", "dev"}, 1) \cup Permits("ref" :> {"main"}, 2)

Verified(subject) ==
  [issuer |-> "ci", claims |-> "ref" :> IF subject = "for_both" THEN "main" ELSE "dev"]

Asks(target) ==
  [owner |-> "o", repository |-> IF target = "elsewhere" THEN "s" ELSE "r",
   permissions |-> "contents" :> CASE target = "write" -> 2 [] target = "admin" -> 3 [] OTHER -> 1]

Policy ==
  [q \in Apps \X Subjects \X Targets |->
    Policies!Decision(PermitStatements, q[1], Verified(q[2]), Asks(q[3]))]

\* Every form of request at App a, and well-formed ones of every outcome.
EveryArrival ==
  {Arrives("a", form, "for_a", "read") : form \in Form}
    \cup {Arrives(app, "well_formed", subject, target) :
            app \in Apps, subject \in Subjects, target \in Targets}

\* Requests that are permitted, at either App.
PolicyForAll == [q \in Apps \X {"for_both"} \X {"read"} |-> "permitted"]
PermittedArrivals == {Arrives(app, "well_formed", "for_both", "read") : app \in Apps}
OneSubject == {"for_both"}
OneTarget == {"read"}
AcceptedByAll == [a \in Apps |-> {"for_both"}]

\* App a rotates to a private key that is imported but cannot sign, and App b to
\* one that cannot be imported.
Pems == {"a1", "a2", "b1", "b2"}
Rotated == [a \in Apps |-> IF a = "a" THEN <<"a1", "a2">> ELSE <<"b1", "b2">>]
Unrotated == [a \in Apps |-> IF a = "a" THEN <<"a1">> ELSE <<"b1">>]
Usable == {"a1", "a2", "b1"}
Signing == {"a1", "b1"}

\* Private keys are settled before the mint: what follows it is ExchangeFaults'.
BeforeMint == \A r \in Request : token[r] = "none"
=============================================================================
