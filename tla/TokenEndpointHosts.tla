-------------------------- MODULE TokenEndpointHosts --------------------------
(***************************************************************************)
(* A request on its way to the form it carries, in either host: the        *)
(* Cloudflare Worker (worker.ts) and the Fastify plugin                    *)
(* (packages/fastify/src/index.ts), both in front of the same endpoint     *)
(* (token-exchange.ts), which then reads the form as TokenRequestParsing   *)
(* says.  The Worker is handed a Fetch request; the plugin builds one,     *)
(* twice, around Fastify's own body parser and the hooks of the            *)
(* application it is mounted in.                                           *)
(***************************************************************************)
EXTENDS TokenRequestParsing

CONSTANTS
  Requests,   \* what may be sent to a host
  HookBodies  \* the bodies a hook may put in place of a request's own

Method == {"POST", "GET", "PUT", "trace"}
Metadata == {"right", "no_url", "no_request"}
ContentType == {"form", "other", "none"}
Length == {"absent", "agrees", "differs", "exceeds", "malformed"}  \* Content-Length
Size == {"empty", "fits", "exceeds"}                               \* of the body

\* `trace' is routed by Fastify, and no method of a Fetch request.  Fetch
\* metadata: a URL with an unusable host has no URL; a host with credentials,
\* or a header Fetch does not allow, has no request.
HostRequest ==
  [knownApp : BOOLEAN, method : Method, metadata : Metadata, authorization : BOOLEAN,
   contentType : ContentType, length : Length, size : Size, form : Forms]

\* A Worker is only ever given what is a Fetch request.
ASSUME HostRequestAssumption ==
  \A r \in Requests :
    /\ r.host \in {"worker", "fastify"} /\ r.request \in HostRequest
    /\ r.host = "worker" => r.request.metadata = "right" /\ r.request.method # "trace"

ASSUME BodyAssumption == HookBodies \subseteq [size : Size, form : Forms] /\ <<>> \in Forms

VARIABLES
  host,      \* the host that received the request
  request,   \* the request as that host now has it
  stage,     \* how far it has come
  response,  \* what it is answered with, short of reading the form
  sentTo     \* what its URL named when it arrived (history)

hostVars == <<host, request, stage, response, sentTo>>

Address(r) ==
  IF r.metadata = "no_url" THEN "nowhere" ELSE IF r.knownApp THEN "app" ELSE "unknown"

Response == {"not_found", "invalid_request", "too_large", "invalid_client", "rate_limited",
             "failed"}

HostInit ==
  /\ \E r \in Requests : host = r.host /\ request = r.request
  /\ stage = "arrived" /\ response = None /\ sentTo = Address(request)
  /\ form = <<>> /\ index = 1 /\ permissions = <<>> /\ answer = None

-----------------------------------------------------------------------------
Goto(next) == stage' = next /\ UNCHANGED <<host, request, response, sentTo, vars>>

Respond(r) ==
  /\ stage' = "answered" /\ response' = r
  /\ UNCHANGED <<host, request, sentTo, vars>>

\* The path, the method, the private-key reference; the body is not touched.
WorkerRoutes ==
  /\ host = "worker" /\ stage = "arrived"
  /\ IF ~request.knownApp THEN Respond("not_found")
     ELSE IF request.method # "POST" THEN Respond("invalid_request")
     ELSE Goto("admission") \/ Respond("failed")

\* The limiter admits, refuses, or rejects.
WorkerAdmits ==
  /\ host = "worker" /\ stage = "admission"
  /\ Goto("endpoint") \/ Respond("rate_limited") \/ Respond("failed")

\* fastifyRequestToWebRequest # null
Convertible == request.metadata = "right" /\ request.method # "trace"

Selectable_OnceConverted == Convertible

\* tokenExchangeRequestUrl # null
Selectable == request.metadata # "no_url"

OnRequest ==
  /\ host = "fastify" /\ stage = "arrived"
  /\ IF Selectable /\ ~request.knownApp THEN Respond("not_found")
     ELSE IF ~Convertible THEN Respond("invalid_request")
     ELSE Goto("parser")

\* A hook of the application between onRequest and the handler changes one
\* thing: the URL, the method, a header, the body.  Fastify's parser reads the
\* headers Node has parsed, the handler the raw ones: a hook that changes only
\* the raw ones before the parser might as well do so after it.
HostHook ==
  /\ host = "fastify" /\ stage \in {"parser", "handler"}
  /\ \/ \E known \in BOOLEAN : request' = [request EXCEPT !.knownApp = known]
     \/ \E metadata \in Metadata : request' = [request EXCEPT !.metadata = metadata]
     \/ \E method \in Method : request' = [request EXCEPT !.method = method]
     \/ \E given \in BOOLEAN : request' = [request EXCEPT !.authorization = given]
     \/ \E type \in ContentType : request' = [request EXCEPT !.contentType = type]
     \/ \E length \in Length : request' = [request EXCEPT !.length = length]
     \/ \E body \in HookBodies :
          request' = [request EXCEPT !.size = body.size, !.form = body.form]
  /\ UNCHANGED <<host, stage, response, sentTo, vars>>

\* Nothing for Fastify to parse.
WithoutBody ==
  \/ request.method = "GET"
  \/ request.contentType = "none" /\ request.size = "empty"
       /\ request.length \in {"absent", "agrees"}

\* Fastify's parser: its refusals are answered in the endpoint's own shape,
\* any other failure is left to the application.  What it does not parse is
\* no body to the handler.
FastifyParses ==
  /\ host = "fastify" /\ stage = "parser"
  /\ IF WithoutBody
       THEN /\ stage' = "handler"
            /\ request' = [request EXCEPT !.size = "empty", !.form = <<>>]
            /\ UNCHANGED <<host, response, sentTo, vars>>
     ELSE \/ Respond("failed")
          \/ IF request.contentType # "form" THEN Respond("invalid_request")
             ELSE IF "exceeds" \in {request.length, request.size} THEN Respond("too_large")
             ELSE IF request.length = "differs" THEN Respond("invalid_request")
             ELSE Goto("handler")

Handed_AsRouted == TRUE

\* The handler converts the request anew.
Handed == Convertible

FastifyHandles ==
  /\ host = "fastify" /\ stage = "handler"
  /\ IF Handed THEN Goto("endpoint") ELSE Respond("invalid_request")

\* dispatch finds the App by the URL it is handed, which the Worker has looked
\* up before; then handleTokenExchangeRequestCore up to the form.
Endpoint ==
  /\ stage = "endpoint"
  /\ IF ~request.knownApp THEN Respond("not_found")
     ELSE IF request.method # "POST" THEN Respond("invalid_request")
     ELSE IF request.authorization THEN Respond("invalid_client")
     ELSE IF request.contentType # "form" THEN Respond("invalid_request")
     ELSE IF request.length = "malformed" THEN Respond("invalid_request")
     ELSE IF "exceeds" \in {request.length, request.size} THEN Respond("too_large")
     ELSE /\ stage' = "form" /\ form' = request.form /\ answer' = Refusal'
          /\ UNCHANGED <<host, request, response, sentTo, index, permissions>>

\* The rest of the endpoint's checks, and the scope.
ReadForm == stage = "form" /\ Next /\ UNCHANGED hostVars

HostNext ==
  \/ WorkerRoutes \/ WorkerAdmits
  \/ OnRequest \/ HostHook \/ FastifyParses \/ FastifyHandles
  \/ Endpoint \/ ReadForm

HostSpec == HostInit /\ [][HostNext]_<<hostVars, vars>>

-----------------------------------------------------------------------------
(* Properties *)

\* What is wrong with the request as it now is, in no order.
Faults ==
  {r \in Response :
     \/ r = "not_found" /\ ~request.knownApp
     \/ r = "invalid_client" /\ request.authorization
     \/ r = "too_large" /\ "exceeds" \in {request.length, request.size}
     \/ r = "invalid_request" /\
          \/ request.method # "POST" \/ request.metadata # "right"
          \/ request.contentType # "form" \/ request.length = "malformed"}

\* Fastify's parser alone minds a Content-Length the body does not have.
Misdeclared == host = "fastify" /\ request.length = "differs"

\* Two conversions, a framework's parser, and hooks that rewrite the URL, the
\* method, the headers or the body in between, or a limiter: in both hosts the
\* form that is read is the one the request now has, of a request that now has
\* no fault, and a refusal names a fault it has.  So neither host reads a form
\* on the strength of what a request was before a hook changed it, nor turns
\* away one without fault, but for its admission and its own failures.
AdmissionExact ==
  /\ stage = "form" => Faults = {}
  /\ answer # None \/ form # <<>> => stage = "form" /\ form = request.form
  /\ response \notin {None, "rate_limited", "failed"} =>
       \/ response \in Faults
       \/ response = "invalid_request" /\ Misdeclared

\* A request sent to an unknown App is answered 404 whatever else is wrong with
\* it, as long as its URL can be read; nothing of it reaches the limiter, the
\* application's later hooks, the body parser or the endpoint.
SelectionFirst == sentTo = "unknown" => stage = "arrived" \/ response = "not_found"

=============================================================================
