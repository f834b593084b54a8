-------------------------------- MODULE Acl ---------------------------------
(***************************************************************************)
(* The global access control list: ApiAcl::load and ApiAcl::validate in    *)
(* openai-hub-core/src/acl.rs, and global_acl_layer in handler/acl.rs,     *)
(* which puts one request through them.                                    *)
(*                                                                         *)
(* A path is the sequence of its segments.  A pattern is one too; a        *)
(* segment of it may be a parameter in braces.  Patterns become regular    *)
(* expressions; what is modelled of those is which segments they match.    *)
(***************************************************************************)
EXTENDS Naturals, Sequences, SequencesExt, FiniteSets

CONSTANTS
  Methods,      \* HTTP methods
  SafeMethods,  \* those of which Method::is_safe holds
  Params,       \* the pattern segments in braces
  Beginnings,   \* the pairs of a text and a longer one that begins with it
  Configs,      \* the contents of acl.toml to consider
  Asks          \* the requests to consider

ASSUME MethodsAssumption == SafeMethods \subseteq Methods

Model == "{model}"   \* the parameter a path rule captures
Star == "*"           \* the wildcard for every model
NoName == ""         \* the empty model name
NotText == "<number>"  \* a "model" member of a JSON body that is no string

(***************************************************************************)
(* A configuration, as toml gives it:                                      *)
(*   whitelist    BOOLEAN                                                  *)
(*   methods      the methods set to true; the others are false or absent  *)
(*   deployments  allow_deployments                                        *)
(*   endpoints    set of [method, pattern, allow]                          *)
(*   models       set of [method, pattern, path, allows, disallows,        *)
(*                allow_omitted], one per table [model.METHOD."pattern"]   *)
(* A request: [method, path, ctype, json, body] where ctype is "none",     *)
(* "json" (exactly application/json) or "other", json says whether its     *)
(* body is "good" JSON, "malformed" or "unreadable", and body is the       *)
(* sequence of its "model" members (of its parts of that name, if it is a  *)
(* multipart body, whose ctype is "other").                                *)
(***************************************************************************)
ASSUME ConfigsAssumption ==
  \A c \in Configs :
    /\ c.whitelist \in BOOLEAN /\ c.methods \subseteq Methods
    /\ \A e \in c.endpoints : e.allow \in BOOLEAN
    /\ c.models \subseteq
         [method : Methods, pattern : Seq(STRING) \ {<<>>}, path : BOOLEAN,
          allows : SUBSET STRING, disallows : SUBSET STRING, allow_omitted : BOOLEAN]
ASSUME AsksAssumption == \A a \in Asks : a.path \in Seq(STRING)

VARIABLES
  config,   \* the acl.toml of this server
  acl,      \* what load made of it
  ask,      \* the request
  phase,    \* how far it has come
  rule,     \* the ModelValidator that validate returned, or NoRule
  sent      \* the body handed to the next layer

vars == <<config, acl, ask, phase, rule, sent>>

NoAcl == [whitelist |-> TRUE]
NoRule == [path |-> FALSE]

Verdicts == {"refused",    \* load fails or panics: the server does not start
             "forwarded",  \* handed to the next layer
             "panicked", "400", "403", "405"}

Init ==
  /\ config \in Configs
  /\ ask \in Asks
  /\ acl = NoAcl
  /\ phase = "loading"
  /\ rule = NoRule
  /\ sent = <<>>

-----------------------------------------------------------------------------
(* ApiAcl::load.                                                           *)

ParamsOf(pattern) == {i \in DOMAIN pattern : pattern[i] \in Params}

(* PATH_REGEX.replace rewrites the first parameter of an endpoint only; the *)
(* braces of a second one are no valid regular expression.                 *)
EndpointCompiles(pattern) == Cardinality(ParamsOf(pattern)) <= 1

(* In a path rule {model} is rewritten, every time, and nothing else.  Two *)
(* of them would be two groups of one name, other braces a bad repetition: *)
(* Regex::new fails, and unwrap panics.  That there is a {model} at all is *)
(* not asked.                                                              *)
PathRuleCompiles(pattern) ==
  /\ \A i \in ParamsOf(pattern) : pattern[i] = Model
  /\ Cardinality(ParamsOf(pattern)) <= 1

(* Wrong on purpose: the rules that allow, in a blacklist too. *)
EffectiveAllowing(c) == {e \in c.endpoints : e.allow}

(* The rules that become the regex of a method: in a whitelist those that  *)
(* allow, in a blacklist those that do not.                                *)
Effective(c) == {e \in c.endpoints : e.allow = c.whitelist}

(* Wrong on purpose: errors are dropped, and the server starts without. *)
LoadIgnoringErrors ==
  /\ phase = "loading"
  /\ phase' = "validating"
  /\ UNCHANGED <<config, acl, ask, rule, sent>>

Load ==
  /\ phase = "loading"
  /\ IF /\ \A e \in Effective(config) : EndpointCompiles(e.pattern)
        /\ \A m \in config.models : m.path => PathRuleCompiles(m.pattern)
     THEN /\ phase' = "validating"
          /\ acl' = [whitelist |-> config.whitelist,
                     methods |-> config.methods,
                     deployments |-> config.deployments,
                     endpoint |-> [h \in Methods |->
                        {e.pattern : e \in {x \in Effective(config) : x.method = h}}],
                     model_body |-> {m \in config.models : ~ m.path},
                     model_path |-> {m \in config.models : m.path}]
     ELSE phase' = "refused" /\ UNCHANGED acl
  /\ UNCHANGED <<config, ask, rule, sent>>

-----------------------------------------------------------------------------
(* What the regular expressions match.                                     *)

SegmentMatches(p, s) == IF p \in Params THEN s # "" ELSE s = p

(* endpoints_to_regex: anchored at both ends, one segment per parameter. *)
PathMatches(pattern, path) ==
  /\ Len(pattern) = Len(path)
  /\ \A i \in DOMAIN pattern : SegmentMatches(pattern[i], path[i])

(* The last segment of a path rule, if plain, matches the beginning of one. *)
Fits(pattern, j, s) ==
  \/ SegmentMatches(pattern[j], s)
  \/ j = Len(pattern) /\ pattern[j] \notin Params /\ <<pattern[j], s>> \in Beginnings

(* Wrong on purpose: anchored at the start. *)
MatchesAtStart(pattern, path) ==
  {i \in {0} : /\ Len(pattern) <= Len(path)
               /\ \A j \in DOMAIN pattern : Fits(pattern, j, path[j])}

(* A path rule is not anchored: where in the path does it match?           *)
MatchesAt(pattern, path) ==
  {i \in 0 .. Len(path) :
     /\ i + Len(pattern) <= Len(path)
     /\ \A j \in DOMAIN pattern : Fits(pattern, j, path[i + j])}

(* What {model} captures: from the leftmost match. *)
Captured(pattern, path) ==
  LET i == CHOOSE x \in MatchesAt(pattern, path) :
             \A y \in MatchesAt(pattern, path) : x <= y
      j == CHOOSE x \in DOMAIN pattern : pattern[x] = Model
  IN  path[i + j]

(* wildcards_to_regex: an empty list matches the empty name. *)
ListMatches(wildcards, name) ==
  IF wildcards = {} THEN name = NoName ELSE Star \in wildcards \/ name \in wildcards

(* DEPLOYMENT_ID_REGEX, ^/engines/([^/]+)/.+$ *)
HasDeployment(path) ==
  /\ Len(path) >= 3
  /\ path[1] = "engines" /\ path[2] # ""
  /\ ~ (Len(path) = 3 /\ path[3] = "")

Endpoint(path) == IF HasDeployment(path) THEN SubSeq(path, 3, Len(path)) ELSE path

-----------------------------------------------------------------------------
(* ApiAcl::validate.                                                       *)

EndpointAllowed(h, endpoint) ==
  acl.whitelist = \E p \in acl.endpoint[h] : PathMatches(p, endpoint)

(* Wrong on purpose: the path rules of all methods are tried. *)
RulesForAnyMethod(h, endpoint) ==
  LET exact == {m \in acl.model_body : m.method = h /\ m.pattern = endpoint}
      paths == {m \in acl.model_path : MatchesAt(m.pattern, endpoint) # {}}
  IN  IF exact # {} THEN exact ELSE paths

(* The rule for the endpoint: the one of that very name, or else the first *)
(* path rule that matches, in the order of a HashMap's iteration.          *)
RulesFor(h, endpoint) ==
  LET exact == {m \in acl.model_body : m.method = h /\ m.pattern = endpoint}
      paths == {m \in acl.model_path : m.method = h /\ MatchesAt(m.pattern, endpoint) # {}}
  IN  IF exact # {} THEN exact ELSE paths

Validate ==
  /\ phase = "validating"
  /\ LET endpoint == Endpoint(ask.path)
         rules == RulesFor(ask.method, endpoint)
     IN  IF ask.method \notin acl.methods
         THEN phase' = "405" /\ UNCHANGED rule
         ELSE IF \/ HasDeployment(ask.path) /\ ask.path[2] \notin acl.deployments
                 \/ ~ EndpointAllowed(ask.method, endpoint)
         THEN phase' = "403" /\ UNCHANGED rule
         ELSE IF rules = {}
         THEN phase' = "passing" /\ UNCHANGED rule
         ELSE phase' = "matched" /\ rule' \in rules
  /\ UNCHANGED <<config, acl, ask, sent>>

(* ModelOption::validate of a model that is given. *)
NameAllowed(m, name) == ~ ListMatches(m.disallows, name) /\ ListMatches(m.allows, name)

-----------------------------------------------------------------------------
(* global_acl_layer, from the validator on.                                *)

(* Wrong on purpose: the second segment of the path is taken for the model. *)
ValidateSecondSegment ==
  /\ phase = "matched"
  /\ phase' = IF ~ rule.path THEN "typing"
              ELSE IF Model \notin ToSet(rule.pattern) THEN "panicked"
              ELSE IF Len(ask.path) > 1 /\ ~ NameAllowed(rule, ask.path[2])
              THEN "403" ELSE "typing"
  /\ UNCHANGED <<config, acl, ask, rule, sent>>

(* validate_path, of a path rule, searches the whole path, not the         *)
(* endpoint; its unwraps panic if nothing matches or captures.             *)
ValidatePath ==
  /\ phase = "matched"
  /\ phase' = IF ~ rule.path THEN "typing"
              ELSE IF \/ MatchesAt(rule.pattern, ask.path) = {}
                      \/ Model \notin ToSet(rule.pattern)
              THEN "panicked"
              ELSE IF NameAllowed(rule, Captured(rule.pattern, ask.path))
              THEN "typing" ELSE "403"
  /\ UNCHANGED <<config, acl, ask, rule, sent>>

(* The body is of interest if the method is not safe and the body JSON. *)
CheckContentType ==
  /\ phase = "typing"
  /\ phase' = IF ask.method \in SafeMethods THEN "passing"
              ELSE IF ask.ctype = "none" THEN "400"
              ELSE IF ask.ctype = "json" THEN "reading"
              ELSE "passing"
  /\ UNCHANGED <<config, acl, ask, rule, sent>>

(* serde_json keeps the last of several members of one name, and what it   *)
(* kept is what is forwarded.                                              *)
Parsed(body) == IF body = <<>> THEN <<>> ELSE <<Last(body)>>

(* validate_body: a model that is not a string counts as omitted. *)
BodyAllowed(m, parsed) ==
  IF parsed = <<>> \/ parsed = <<NotText>> THEN m.allow_omitted ELSE NameAllowed(m, parsed[1])

(* Wrong on purpose: the body is forwarded as it was received. *)
ValidateBodyAsReceived ==
  /\ phase = "reading"
  /\ IF ask.json # "good"
     THEN phase' = "400" /\ UNCHANGED sent
     ELSE IF ~ rule.path /\ ~ BodyAllowed(rule, Parsed(ask.body))
     THEN phase' = "403" /\ UNCHANGED sent
     ELSE phase' = "forwarded" /\ sent' = ask.body
  /\ UNCHANGED <<config, acl, ask, rule>>

ValidateBody ==
  /\ phase = "reading"
  /\ IF ask.json # "good"
     THEN phase' = "400" /\ UNCHANGED sent
     ELSE IF ~ rule.path /\ ~ BodyAllowed(rule, Parsed(ask.body))
     THEN phase' = "403" /\ UNCHANGED sent
     ELSE phase' = "forwarded" /\ sent' = Parsed(ask.body)
  /\ UNCHANGED <<config, acl, ask, rule>>

(* The body was not looked at and goes on as it is. *)
Forward ==
  /\ phase = "passing"
  /\ phase' = "forwarded"
  /\ sent' = ask.body
  /\ UNCHANGED <<config, acl, ask, rule>>

Next == Load \/ Validate \/ ValidatePath \/ CheckContentType \/ ValidateBody \/ Forward

Spec == Init /\ [][Next]_vars

-----------------------------------------------------------------------------
(* What acl.toml says of a request, read off the configuration itself.     *)

\* acl.toml:1-9: its method is on, its deployment is allowed, and its
\* endpoint is listed as allowed, or not listed as disallowed.
Listed ==
  LET endpoint == Endpoint(ask.path)
      said(allow) == \E e \in config.endpoints :
        e.method = ask.method /\ e.allow = allow /\ PathMatches(e.pattern, endpoint)
  IN  /\ ask.method \in config.methods
      /\ HasDeployment(ask.path) => ask.path[2] \in config.deployments
      /\ IF config.whitelist THEN said(TRUE) ELSE ~ said(FALSE)

\* Some [model...] table for the method and endpoint has an objection.
ModelObjected ==
  LET endpoint == Endpoint(ask.path) IN
  \E m \in config.models :
    /\ m.method = ask.method
    /\ IF m.path
       THEN /\ MatchesAt(m.pattern, endpoint) # {} /\ Model \in ToSet(m.pattern)
            /\ ~ NameAllowed(m, Captured(m.pattern, endpoint))
       ELSE m.pattern = endpoint /\ ~ BodyAllowed(m, Parsed(ask.body))

\* A path rule may match the whole path earlier than the endpoint in it,
\* and then check another segment: the deployment, when that is named like
\* the first segment of the rule, see hazards in the README.
Shifted ==
  /\ HasDeployment(ask.path) /\ rule.path
  /\ \E i \in MatchesAt(rule.pattern, ask.path) : i < 2

-----------------------------------------------------------------------------
(* Every variable has the type of what it stands for. *)
TypeOK ==
  /\ config \in Configs /\ ask \in Asks
  /\ phase \in Verdicts \cup {"loading", "validating", "matched", "typing", "reading", "passing"}
  /\ phase \in {"loading", "refused"} <=> acl = NoAcl
  /\ rule \in config.models \cup {NoRule}

(***************************************************************************)
(* Only what acl.toml lists is forwarded: method, deployment and endpoint  *)
(* as configured, though load keeps no more than the regexes it needs and  *)
(* the endpoint of a deployment is cut out of the path.                    *)
(***************************************************************************)
ListedOnly == phase = "forwarded" => Listed

(* A request is refused with 405 for its method only, and with 403 only if *)
(* it is not listed or a model table objects to its model.                 *)
RefusalsJustified ==
  /\ phase = "405" => ask.method \notin config.methods
  /\ phase = "403" /\ ~ Shifted => ~ Listed \/ ModelObjected

(***************************************************************************)
(* The model checked is the model forwarded: in a JSON body that was       *)
(* checked, upstream finds no "model" the rule would refuse, however often *)
(* the request's body has that member.                                     *)
(***************************************************************************)
CheckedIsForwarded ==
  phase = "forwarded" /\ ask.method \notin SafeMethods /\ ask.ctype = "json"
    /\ rule # NoRule /\ ~ rule.path =>
  IF sent = <<>> THEN rule.allow_omitted
  ELSE \A i \in DOMAIN sent : BodyAllowed(rule, <<sent[i]>>)

(* The model a path rule checks, in the whole path, is the one the         *)
(* endpoint names.                                                         *)
CheckedIsRequested ==
  phase = "forwarded" /\ rule.path /\ ~ Shifted =>
    NameAllowed(rule, Captured(rule.pattern, Endpoint(ask.path)))

(***************************************************************************)
(* acl.rs:308 asserts that the rule chosen for the endpoint matches the    *)
(* whole path, from which validate_path captures the model.  It does, with *)
(* and without a deployment in front of the endpoint: of the two unwraps   *)
(* the first never panics, and the second only for a rule with path = true *)
(* that has no {model}, which load accepts.                                *)
(***************************************************************************)
PanicsWithoutModel == phase = "panicked" => rule.path /\ Model \notin ToSet(rule.pattern)

(***************************************************************************)
(* README.md:10, "Regulate user access to specific APIs and models", with  *)
(* acl.toml:62-63, a model list for /audio/transcriptions: if a forwarded  *)
(* request names a model, the list for its endpoint allows it.  The list   *)
(* is consulted for application/json only, and that endpoint takes         *)
(* multipart/form-data.                                                    *)
(***************************************************************************)
ModelListsApply ==
  phase = "forwarded" /\ ask.method \notin SafeMethods /\ rule # NoRule /\ ~ rule.path =>
    \A i \in DOMAIN ask.body :
      i = Len(ask.body) /\ ask.body[i] # NotText => NameAllowed(rule, ask.body[i])

=============================================================================
