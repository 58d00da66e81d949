--------------------------- MODULE MCOidcVerifier ---------------------------
(* Small instances of OidcVerifier for TLC.  One unit of time is 5 seconds: *)
(* the request timeout is 1, backoff and cooldown are 2; freshness and the  *)
(* stale allowance are scaled down to fit the bounded clock.                *)
EXTENDS OidcVerifier, TLC

OpSymmetry == Permutations(Op)

Tok(kid, alg, verdict) == [kid |-> kid, alg |-> alg, verdict |-> verdict]

Answers(noStore, noCache, mustRevalidate, maxAge) ==
  [noStore |-> noStore, noCache |-> noCache,
   mustRevalidate |-> mustRevalidate, maxAge |-> maxAge]

Lasting == Answers(FALSE, FALSE, FALSE, 2)
Excessive == Answers(FALSE, FALSE, FALSE, 9)
Strict == Answers(FALSE, FALSE, TRUE, 1)
NoCache == Answers(FALSE, TRUE, FALSE, None)
NoStore == Answers(TRUE, FALSE, FALSE, 2)

\* Two locations, two algorithms.
Uris == {"u1", "u2"}
Algs == {"RS256", "ES256"}
Kids == {"k1", "k2", "k3"}
AllRs256 == [k \in Kids |-> "RS256"]

At1(uri, algs, keys1, keys2) ==
  [metadata |-> [uri |-> uri, algs |-> algs],
   keys |-> [u \in Uris |-> IF u = "u1" THEN keys1 ELSE keys2]]

Rotation == << At1("u1", {"RS256"}, {"k1"}, {}), At1("u1", {"RS256"}, {"k2"}, {}) >>

\* The provider moves to u2 and back to u1.
BackAndForth == << At1("u1", {"RS256"}, {"k1"}, {"k1"}), At1("u2", {"RS256"}, {"k1"}, {"k1"}),
                   At1("u1", {"RS256"}, {"k1"}, {"k1"}) >>

K2Token == {Tok("k2", "RS256", "verified")}
NoCacheOnly == {NoCache}
BothTokens == {Tok("k1", "RS256", "token_rejected"), Tok("k2", "RS256", "verified")}
NoWeakKid == {}

\* Of two keys, the weak one and the other are withdrawn together.
Withdrawal == << At1("u1", {"RS256"}, {"k1", "k2"}, {}), At1("u1", {"RS256"}, {"k3"}, {}) >>
WeakK2 == {"k2"}
AnyToken == {Tok("k1", "RS256", "verified"), Tok("k1", "RS256", "internal_failure"),
             Tok("k2", "RS256", "verified")}

\* The same location, with and without a second algorithm, then elsewhere.
Moves == << At1("u1", {"RS256"}, {"k1"}, {"k1"}), At1("u1", {"RS256", "ES256"}, {"k1"}, {"k1"}),
            At1("u2", {"RS256"}, {"k1"}, {"k1"}), At1("u1", {"RS256"}, {"k1"}, {"k1"}) >>
CappedOrStrict == {Excessive, Strict}
LastingOrNoStore == {Lasting, NoStore}
OddTokens == {Tok("k2", "RS256", "verified"), Tok("k1", "ES256", "verified"),
              Tok("k1", None, "verified")}
LastingOnly == {Lasting}
=============================================================================
