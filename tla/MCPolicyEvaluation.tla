-------------------------- MODULE MCPolicyEvaluation --------------------------
(* Deployments for TLC: two Apps and two issuers with every policy of at    *)
(* most three of eight definitions, owner-wide and for a repository, with   *)
(* levels and predicates that differ; and one deployment with each fault a  *)
(* configuration can have.                                                  *)
EXTENDS TokenExchangeComposition, TLC

Apps == {"a", "b"}
Owners == {"o", "p"}
Repositories == {"r", "s"}
Issuers == {"ci", "vm", "stranger"}
Claims == {"ref", "protected"}
Values == {"main", "dev", "yes"}
Texts == {"main", "dev"}
Permissions == {"contents", "issues"}
Slugs == {"alpha", "beta", "gamma"}
Audiences == {"broker", "vanity"}
Algorithms == {"RS256", "ES256"}
Bindings == {"KEY_A", "KEY_B"}
Keys == {"of a", "of b"}

Equals(claim, value) == [claim |-> claim, kind |-> "claim-equals", values |-> <<value>>]
OneOf(claim, values) == [claim |-> claim, kind |-> "claim-one-of", values |-> values]

Permit(client, owner, repository, issuer, predicates, permissions) ==
  [app |-> client, owner |-> owner, repository |-> repository, issuer |-> issuer,
   predicates |-> predicates, permissions |-> permissions]

OnMain == <<Equals("ref", "main")>>
OnProtected == <<OneOf("ref", <<"main", "dev">>), Equals("protected", "yes")>>

Plain == Permit("a", "o", AnyRepository, "ci", <<>>, "contents" :> 1)

ChosenDefinitions ==
  {Plain,
   Permit("a", "o", "r", "ci", OnMain, "contents" :> 2 @@ "issues" :> 1),
   Permit("a", "o", "r", "ci", <<OneOf("ref", <<"dev", "main">>)>>, "issues" :> 2),
   Permit("a", "o", "r", "ci", OnProtected, "contents" :> 3),
   Permit("a", "o", "r", "vm", <<>>, "contents" :> 3 @@ "issues" :> 3),
   Permit("a", "o", "s", "ci", <<>>, "issues" :> 3),
   Permit("b", "o", "r", "ci", <<>>, "contents" :> 3),
   Permit("b", "p", AnyRepository, "vm", OnMain, "contents" :> 2)}

App(client, slug, audiences, binding) ==
  [clientId |-> client, slug |-> slug, audiences |-> audiences, binding |-> binding]

Alpha == App("a", "alpha", <<"broker", "vanity">>, "KEY_A")
Beta == App("b", "beta", <<"broker">>, "KEY_B")

Registered(issuer, algorithms, profile) ==
  [issuer |-> issuer, algorithms |-> algorithms, profile |-> profile]

Ci == Registered("ci", <<"RS256">>, "validates")
Vm == Registered("vm", <<"ES256", "RS256">>, "null")

KeyFor(client) == [clientId |-> client, key |-> IF client = "a" THEN "of a" ELSE "of b"]

Deployment(host, definitions) ==
  [host |-> host, apps |-> <<Alpha, Beta>>, registrations |-> <<Ci, Vm>>,
   definitions |-> definitions, credentials |-> <<KeyFor("b"), KeyFor("a")>>,
   env |-> "KEY_A" :> "of a" @@ "KEY_B" :> "of b"]

OfAtMost(n) == UNION {[1..m -> ChosenDefinitions] : m \in 0..n}

\* A second App, registration or credential in the place of the sound one,
\* and definitions beside a sound one.
FaultyApps ==
  {App("b", "alpha", <<"broker">>, "KEY_B"), App("a", "beta", <<"broker">>, "KEY_B"),
   App("b", Malformed, <<"broker">>, "KEY_B"), App(Malformed, "beta", <<"broker">>, "KEY_B"),
   App("b", "beta", <<>>, "KEY_B"), App("b", "beta", <<"broker", "broker">>, "KEY_B"),
   App("b", "beta", <<Malformed>>, "KEY_B"), App("b", "beta", <<"broker">>, Malformed)}

FaultyRegistrations ==
  {Registered("ci", <<"ES256">>, "null"), Registered(Malformed, <<"RS256">>, "null"),
   Registered("vm", <<>>, "null"), Registered("vm", <<"RS256", "RS256">>, "null"),
   Registered("vm", <<"RS256", Malformed>>, "null"), Registered("vm", <<"RS256">>, Malformed)}

FaultyDefinitions ==
  {[Plain EXCEPT !.app = Malformed], [Plain EXCEPT !.app = "c"], [Plain EXCEPT !.owner = Malformed],
   [Plain EXCEPT !.repository = Malformed],
   [Plain EXCEPT !.issuer = Malformed], [Plain EXCEPT !.issuer = "stranger"],
   [Plain EXCEPT !.permissions = <<>>], [Plain EXCEPT !.permissions = "contents" :> Malformed],
   [Plain EXCEPT !.predicates = <<Equals("ref", "main"), OneOf("ref", <<"main", "dev">>)>>],
   [Plain EXCEPT !.predicates = <<OneOf("ref", <<>>)>>],
   [Plain EXCEPT !.predicates = <<OneOf("ref", <<"main", "main">>)>>],
   [Plain EXCEPT !.predicates = <<OneOf("protected", <<"yes">>)>>]}

FaultyCredentials ==
  {<<>>, <<KeyFor("a")>>, <<KeyFor("a"), KeyFor("a"), KeyFor("b")>>, <<KeyFor("a"), KeyFor("c")>>}

ChosenConfigurations ==
  LET Base(host) == Deployment(host, <<Plain>>) IN
  {Deployment("node", definitions) : definitions \in OfAtMost(3)}
    \cup {Deployment("worker", definitions) : definitions \in OfAtMost(1)}
    \cup UNION {
      {[Base(host) EXCEPT !.apps = <<Alpha, a>>] : a \in FaultyApps}
        \cup {[Base(host) EXCEPT !.apps = <<a, Alpha>>] : a \in FaultyApps}
        \cup {[Base(host) EXCEPT !.apps = <<>>, !.definitions = <<>>, !.credentials = <<>>]}
        \cup {[Base(host) EXCEPT !.registrations = <<Ci, r>>] : r \in FaultyRegistrations}
        \cup {[Base(host) EXCEPT !.definitions = <<d, Plain>>] : d \in FaultyDefinitions}
        \cup {[Base(host) EXCEPT !.definitions = <<Plain, d>>] : d \in FaultyDefinitions}
        \cup {[Base(host) EXCEPT !.credentials = c] : c \in FaultyCredentials}
      : host \in {"worker", "node"}}

ClientIdentifiers == Apps \cup {"c"}

CompiledPolicies ==
  {[i \in DOMAIN definitions |-> Compiled(definitions[i])] : definitions \in OfAtMost(2)}
CompiledStatements == {Compiled(definition) : definition \in ChosenDefinitions}

Token(issuer, audience, claims, genuine) ==
  [issuer |-> issuer, aud |-> audience, claims |-> claims, genuine |-> genuine]

OnDev == "ref" :> "dev" @@ "protected" :> "yes"

ChosenTokens ==
  {Token("ci", "broker", "ref" :> "main", TRUE), Token("ci", "broker", OnDev, TRUE),
   Token("vm", "broker", <<>>, TRUE), Token("ci", "vanity", "ref" :> "main", TRUE),
   Token("ci", "broker", "ref" :> "main", FALSE), Token("stranger", "broker", <<>>, TRUE),
   Token("ci", None, "ref" :> "main", TRUE), Token(None, "broker", <<>>, TRUE)}

VerifiedSubjects ==
  {[issuer |-> t.issuer, claims |-> t.claims] : t \in {t \in ChosenTokens : t.issuer # None}}

Wants(permissions) == [owner |-> "o", repository |-> "r", permissions |-> permissions]

ChosenRequests ==
  {Wants("contents" :> 2), Wants("contents" :> 1 @@ "issues" :> 2), Wants("issues" :> 1)}
=============================================================================
