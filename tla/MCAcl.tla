------------------------------- MODULE MCAcl --------------------------------
(* The access control list for TLC: a behaviour either puts a request       *)
(* through an acl.toml (module Acl), or compiles one pattern of it and      *)
(* matches a text (module Patterns).                                        *)
(*                                                                          *)
(* The configurations and requests are small cases of the acl.toml in the   *)
(* repository, and of what load takes besides: plain endpoints, endpoints   *)
(* with a parameter, model lists for bodies and for paths, two path rules   *)
(* that match the same endpoint, one without a model or with two or with    *)
(* one in the middle, deployments.                                          *)
EXTENDS Acl, Patterns

Rule(h, p, allow) == [method |-> h, pattern |-> p, allow |-> allow]

Table(h, p, path, allows, disallows, omitted) ==
  [method |-> h, pattern |-> p, path |-> path, allows |-> allows,
   disallows |-> disallows, allow_omitted |-> omitted]

Edits  == <<"edits">>
OneOf  == <<"models", Model>>
Events == <<"tunes", "{id}", "events", "{id}">>

AllMethods == {"GET", "POST", "DELETE"}

EndpointTables == {
  {Rule("GET", OneOf, TRUE), Rule("GET", <<"models">>, FALSE), Rule("POST", Edits, TRUE),
   Rule("DELETE", OneOf, TRUE), Rule("DELETE", <<"models", "{id}", "xy">>, TRUE),
   Rule("GET", <<"engines", "{id}">>, TRUE)},
  {Rule("GET", OneOf, FALSE), Rule("GET", <<"models">>, TRUE), Rule("POST", Edits, FALSE)},
  {Rule("GET", Events, TRUE), Rule("POST", Edits, TRUE)}}

ModelTables == {
  {},
  {Table("POST", Edits, FALSE, {"m1"}, {}, FALSE),
   Table("GET", OneOf, TRUE, {Star}, {"m2"}, FALSE),
   Table("DELETE", OneOf, TRUE, {Star}, {}, FALSE)},
  {Table("POST", Edits, FALSE, {Star}, {"m2"}, TRUE),
   Table("GET", OneOf, TRUE, {"m1", "models"}, {}, FALSE),
   Table("GET", <<Model>>, TRUE, {Star}, {"m1"}, FALSE),
   Table("GET", <<"models", "m2">>, FALSE, {}, {}, FALSE),
   Table("DELETE", OneOf, TRUE, {}, {}, FALSE)},
  {Table("GET", <<"models">>, TRUE, {Star}, {"m2"}, FALSE),
   Table("DELETE", <<"models", Model, "x">>, TRUE, {"m1"}, {}, FALSE)},
  {Table("GET", <<Model, Model>>, TRUE, {Star}, {}, FALSE)},
  {Table("GET", <<"files", "{id}">>, TRUE, {Star}, {}, FALSE)}}

SomeConfigs ==
  [whitelist : BOOLEAN, methods : {AllMethods, {"POST"}}, deployments : {{}, {"d1", "models"}},
   endpoints : EndpointTables, models : ModelTables]

Paths == {
  <<"models">>, <<"models", "">>, <<"models", "m1">>, <<"models", "m2">>,
  <<"models", "m1", "x">>, <<"models", "m2", "xy">>, <<"edits">>, <<"engines", "d1">>, <<"engines", "d1", "">>,
  <<"engines", "d1", "edits">>, <<"engines", "d2", "edits">>,
  <<"engines", "d1", "models", "m2">>, <<"engines", "models", "models", "m2">>}

Bodies == {<<>>, <<"m1">>, <<"m2">>, <<"m1", "m2">>, <<"m2", "m1">>, <<NotText>>, <<NoName>>}

SomeAsks ==
  [method : {"GET"}, path : Paths, ctype : {"none"}, json : {"good"}, body : {<<>>}]
    \cup [method : {"POST"}, path : Paths, ctype : {"none", "json", "other"},
          json : {"good"}, body : Bodies]
    \cup [method : {"POST", "DELETE"}, path : Paths, ctype : {"none", "json"},
          json : {"good", "malformed", "unreadable"}, body : {<<>>}]

\* What is sent to the endpoint for which acl.toml:62 has a model list: parts
\* of a multipart body, or JSON.
Transcriptions == <<"audio", "transcriptions">>

TranscriptionConfigs ==
  {[whitelist |-> TRUE, methods |-> {"POST"}, deployments |-> {},
    endpoints |-> {Rule("POST", Transcriptions, TRUE)},
    models |-> {Table("POST", Transcriptions, FALSE, {"m1"}, {}, FALSE)}]}

TranscriptionAsks ==
  [method : {"POST"}, path : {Transcriptions}, ctype : {"json", "other"}, json : {"good"},
   body : {<<"m1">>, <<"m2">>}]

SomeBeginnings == {<<"x", "xy">>}
SomeParams == {Model, "{id}"}
SomeSafe == {"GET"}

-----------------------------------------------------------------------------
(* A request, or a pattern.  The module that is not of interest has come to *)
(* its end and stays there.                                                 *)

NoPattern ==
  /\ kind = "wildcard" /\ pattern = <<>> /\ text = <<>> /\ regex = <<>>
  /\ result = "error"

NoRequest ==
  /\ config = CHOOSE c \in Configs : TRUE
  /\ ask = CHOOSE a \in Asks : TRUE
  /\ acl = NoAcl /\ phase = "refused" /\ rule = NoRule /\ sent = <<>>

EitherInit == (Init /\ NoPattern) \/ (PatternInit /\ NoRequest)
EitherNext == (Next /\ UNCHANGED patternVars) \/ (PatternNext /\ UNCHANGED vars)
EitherSpec == EitherInit /\ [][EitherNext]_<<vars, patternVars>>

=============================================================================
