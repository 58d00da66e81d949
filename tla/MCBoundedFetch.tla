---------------------------- MODULE MCBoundedFetch ----------------------------
(* Requests of every purpose for TLC, with limits of two and one units, and *)
(* chunks that meet a limit exactly or step over it.                        *)
EXTENDS BoundedFetch

Purposes == {"document", "github_json", "revocation"}

Responses ==
  [status : {200, 204, 301, 403, 404, 429, 503}, rateLimitHeaders : BOOLEAN,
   json : BOOLEAN, declared : {None, 2, 3}, hasBody : BOOLEAN]

Chunks == {1, 2}
=============================================================================
