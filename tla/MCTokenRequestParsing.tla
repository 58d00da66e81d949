------------------------ MODULE MCTokenRequestParsing ------------------------
(* For TLC: the right form with every list of values for any two of its    *)
(* parameters, and with every scope of at most four tokens, in a request   *)
(* without a fault; and every request that carries the right form.         *)
EXTENDS TokenEndpointHosts

Names == {"contents", "issues"}

FieldOf(parameter, values) ==
  [i \in DOMAIN values |-> [parameter |-> parameter, value |-> values[i]]]

ScopeTokens == [name : Names, level : {"read", "write"}] \cup {Malformed, Empty}

Read == [name |-> "contents", level |-> "read"]

RightScope == <<Read>>

ValueLists ==
  {<<>>, <<Right>>, <<Wrong>>, <<Blank>>, <<NoText, Right>>, <<Right, NoText>>,
   <<Right, Right>>, <<Wrong, Right>>}

ScopeLists ==
  {<<>>, <<NoText>>, <<Blank>>, <<RightScope>>, <<NoText, RightScope>>,
   <<RightScope, RightScope>>, <<Blank, RightScope>>, << <<Malformed>> >>}

Required == {"grant_type", "subject_token", "subject_token_type", "requested_token_type",
             "resource"}

Assembled(lists, scope) ==
  FieldOf("scope", scope) \o FieldOf("unsupported", lists["unsupported"])
    \o FieldOf("grant_type", lists["grant_type"])
    \o FieldOf("audience", lists["audience"]) \o FieldOf("resource", lists["resource"])
    \o FieldOf("subject_token", lists["subject_token"])
    \o FieldOf("subject_token_type", lists["subject_token_type"])
    \o FieldOf("requested_token_type", lists["requested_token_type"])

RightLists == [p \in Parameter |-> IF p \in Required THEN <<Right>> ELSE <<>>]

FaultyForms ==
  {Assembled([RightLists EXCEPT ![p] = v, ![q] = w], scope) :
     p \in Parameter, q \in Parameter, v \in ValueLists, w \in ValueLists,
     scope \in ScopeLists}

ScopeForms ==
  {Assembled(RightLists, <<scope>>) : scope \in UNION {[1..n -> ScopeTokens] : n \in 1..4}}

RightForm == Assembled(RightLists, <<RightScope>>)

ChosenForms == FaultyForms \cup ScopeForms \cup {<<>>}

RightRequest(f) ==
  [knownApp |-> TRUE, method |-> "POST", metadata |-> "right", authorization |-> FALSE,
   contentType |-> "form", length |-> "agrees", size |-> "fits", form |-> f]

Shape ==
  [knownApp : BOOLEAN, method : Method, metadata : Metadata, authorization : BOOLEAN,
   contentType : ContentType, length : Length, size : Size, form : {RightForm, <<>>}]

Consistent(r) == r.form = <<>> <=> r.size = "empty"

\* No body, the right form, or too much of it.
ChosenBodies ==
  [size : {"empty"}, form : {<<>>}] \cup [size : {"fits", "exceeds"}, form : {RightForm}]

IsFetchRequest(r) == r.metadata = "right" /\ r.method # "trace"

ChosenRequests ==
  [host : {"worker"}, request : {RightRequest(f) : f \in ChosenForms}]
    \cup [host : {"worker"}, request : {r \in Shape : Consistent(r) /\ IsFetchRequest(r)}]
    \cup [host : {"fastify"}, request : {r \in Shape : Consistent(r)}]
=============================================================================
