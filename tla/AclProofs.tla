----------------------------- MODULE AclProofs ------------------------------
(***************************************************************************)
(* Proofs about the access control list, for every acl.toml and every      *)
(* request.                                                                *)
(***************************************************************************)
EXTENDS Acl, QueueLemmas, TLAPS

-----------------------------------------------------------------------------
(***************************************************************************)
(* The inductive invariant: what each phase knows of the request.          *)
(***************************************************************************)

AskedEndpoint == Endpoint(ask.path)

\* load accepted the configuration, and acl is made of it.
LoadedInv ==
  /\ \A m \in config.models : m.path => PathRuleCompiles(m.pattern)
  /\ acl # NoAcl
  /\ acl.whitelist = config.whitelist
  /\ acl.methods = config.methods
  /\ acl.deployments = config.deployments
  /\ acl.endpoint = [h \in Methods |->
                       {e.pattern : e \in {x \in Effective(config) : x.method = h}}]
  /\ acl.model_body = {m \in config.models : ~ m.path}
  /\ acl.model_path = {m \in config.models : m.path}

\* The rule, if there is one, is a table for the request's endpoint.
RuleInv ==
  /\ rule \in config.models \cup {NoRule}
  /\ rule # NoRule => rule \in config.models /\ rule.method = ask.method
  /\ rule # NoRule /\ ~ rule.path => rule.pattern = AskedEndpoint
  /\ rule.path => rule # NoRule /\ MatchesAt(rule.pattern, AskedEndpoint) # {}

\* The phases of a request that passed validate.
Validated == {"matched", "typing", "reading", "passing", "forwarded"}

\* What a path rule has checked.
PathChecked ==
  rule.path => /\ Model \in ToSet(rule.pattern)
               /\ NameAllowed(rule, Captured(rule.pattern, ask.path))

\* What the body's rule has checked, if there was a body to check.
BodyOfInterest ==
  ask.method \notin SafeMethods /\ ask.ctype = "json" /\ rule # NoRule /\ ~ rule.path

AclInv ==
  /\ config \in Configs /\ ask \in Asks
  /\ phase \in Verdicts \cup {"loading", "validating", "matched", "typing", "reading",
                              "passing"}
  /\ phase \in {"loading", "refused"} => acl = NoAcl
  /\ phase \notin {"loading", "refused"} => LoadedInv
  /\ phase \in {"loading", "refused", "validating", "405"} => rule = NoRule
  /\ phase \in {"matched", "typing", "reading"} => rule # NoRule
  /\ RuleInv
  /\ phase \in Validated => Listed
  /\ phase \in {"typing", "reading", "passing", "forwarded"} => PathChecked
  /\ phase = "passing" => ~ BodyOfInterest
  /\ phase = "405" => ask.method \notin config.methods
  /\ phase = "403" /\ ~ Shifted => ~ Listed \/ ModelObjected
  /\ PanicsWithoutModel
  /\ CheckedIsForwarded

-----------------------------------------------------------------------------
(* The endpoint of a deployment is its path without two segments. *)
LEMMA EndpointOfDeployment ==
  ASSUME NEW path \in Seq(STRING), HasDeployment(path)
  PROVE  /\ Endpoint(path) \in Seq(STRING)
         /\ Len(Endpoint(path)) = Len(path) - 2
         /\ Len(path) \in Nat /\ Len(path) >= 3
         /\ \A i \in 1 .. Len(path) - 2 : Endpoint(path)[i] = path[i + 2]
<1>1. Len(path) \in Nat /\ Len(path) >= 3
  BY LenProperties DEF HasDeployment
<1>2. \A i \in 3 .. Len(path) : path[i] \in STRING
  BY <1>1, ElementOfSeq
<1>3. Endpoint(path) = SubSeq(path, 3, Len(path))
  BY DEF Endpoint
<1>4. /\ Endpoint(path) \in Seq(STRING)
      /\ Len(Endpoint(path)) = IF 3 <= Len(path) THEN Len(path) - 3 + 1 ELSE 0
      /\ \A i \in 1 .. Len(path) - 3 + 1 : Endpoint(path)[i] = path[3 + i - 1]
  BY <1>1, <1>2, <1>3, SubSeqProperties
<1> QED
  BY <1>1, <1>4

(***************************************************************************)
(* A path rule matches the path of a deployment where it matches the       *)
(* endpoint, two segments on, and perhaps in the first two.                *)
(***************************************************************************)
LEMMA MatchesShift ==
  ASSUME NEW path \in Seq(STRING), HasDeployment(path),
         NEW pattern \in Seq(STRING) \ {<<>>}
  PROVE  \A i \in Nat : i \in MatchesAt(pattern, Endpoint(path))
                          <=> i + 2 \in MatchesAt(pattern, path)
<1> DEFINE e == Endpoint(path)
           n == Len(path)
           l == Len(pattern)
<1>1. /\ Len(e) = n - 2 /\ n \in Nat /\ n >= 3
      /\ \A i \in 1 .. n - 2 : e[i] = path[i + 2]
  BY EndpointOfDeployment
<1>2. l \in Nat \ {0} /\ DOMAIN pattern = 1 .. l
  BY LenProperties, EmptySeq
<1> HIDE DEF e, n, l
<1> SUFFICES ASSUME NEW i \in Nat
             PROVE  i \in MatchesAt(pattern, e) <=> i + 2 \in MatchesAt(pattern, path)
  BY DEF e
<1>3. i \in MatchesAt(pattern, e) <=>
        /\ i \in 0 .. n - 2 /\ i + l <= n - 2
        /\ \A j \in 1 .. l : Fits(pattern, j, e[i + j])
  BY <1>1, <1>2 DEF MatchesAt, l
<1>4. i + 2 \in MatchesAt(pattern, path) <=>
        /\ i + 2 \in 0 .. n /\ i + 2 + l <= n
        /\ \A j \in 1 .. l : Fits(pattern, j, path[i + 2 + j])
  BY <1>2 DEF MatchesAt, l, n
<1>5. ASSUME i + l <= n - 2
      PROVE  \A j \in 1 .. l : e[i + j] = path[i + 2 + j]
  <2> SUFFICES ASSUME NEW j \in 1 .. l
               PROVE  e[i + j] = path[i + 2 + j]
    OBVIOUS
  <2>1. i + j \in 1 .. n - 2 /\ (i + j) + 2 = i + 2 + j
    BY <1>1, <1>2, <1>5
  <2> QED
    BY <1>1, <2>1
<1>6. (i \in 0 .. n - 2 /\ i + l <= n - 2) <=> (i + 2 \in 0 .. n /\ i + 2 + l <= n)
  BY ONLY <1>1, <1>2, i \in Nat
<1>7. CASE i + l <= n - 2
  <2>1. \A j \in 1 .. l :
          Fits(pattern, j, e[i + j]) <=> Fits(pattern, j, path[i + 2 + j])
    BY ONLY <1>5, <1>7
  <2> QED
    BY ONLY <1>3, <1>4, <1>6, <2>1
<1>8. CASE ~ (i + l <= n - 2)
  BY ONLY <1>3, <1>4, <1>6, <1>8
<1> QED
  BY ONLY <1>7, <1>8

\* The least position of a match.
Least(M) == CHOOSE x \in M : \A y \in M : x <= y

(* Positions are numbers, and there is a least one. *)
LEMMA LeastMatch ==
  ASSUME NEW path \in Seq(STRING), NEW pattern,
         MatchesAt(pattern, path) # {}
  PROVE  /\ MatchesAt(pattern, path) \subseteq Nat
         /\ Least(MatchesAt(pattern, path)) \in MatchesAt(pattern, path)
         /\ \A y \in MatchesAt(pattern, path) : Least(MatchesAt(pattern, path)) <= y
<1>1. MatchesAt(pattern, path) \subseteq Nat
  BY LenProperties DEF MatchesAt
<1>2. \E x \in MatchesAt(pattern, path) : \A y \in MatchesAt(pattern, path) : x <= y
  BY <1>1, LeastNumber
<1> QED
  BY <1>1, <1>2 DEF Least

(***************************************************************************)
(* A rule that matches the endpoint matches the whole path; and, if it     *)
(* does not match there earlier, it captures the same segment of both.     *)
(***************************************************************************)
LEMMA WholePathMatches ==
  ASSUME NEW path \in Seq(STRING), NEW pattern \in Seq(STRING) \ {<<>>},
         MatchesAt(pattern, Endpoint(path)) # {}
  PROVE  /\ MatchesAt(pattern, path) # {}
         /\ ~ (HasDeployment(path) /\ \E i \in MatchesAt(pattern, path) : i < 2)
              /\ Model \in ToSet(pattern)
              => Captured(pattern, path) = Captured(pattern, Endpoint(path))
<1>1. CASE ~ HasDeployment(path)
  BY <1>1 DEF Endpoint
<1>2. CASE HasDeployment(path)
  <2> DEFINE M == MatchesAt(pattern, path)
             E == MatchesAt(pattern, Endpoint(path))
             a == Least(M)
             b == Least(E)
  <2>1. Endpoint(path) \in Seq(STRING)
    BY <1>2, EndpointOfDeployment
  <2>2. \A i \in Nat : i \in E <=> i + 2 \in M
    BY <1>2, MatchesShift
  <2>3. E \subseteq Nat /\ b \in E /\ \A y \in E : b <= y
    BY <2>1, LeastMatch
  <2>4. b + 2 \in M
    BY <2>2, <2>3
  <2>5. M \subseteq Nat /\ a \in M /\ \A y \in M : a <= y
    BY <2>4, LeastMatch
  <2>6. ASSUME ~ \E i \in M : i < 2, Model \in ToSet(pattern)
        PROVE  Captured(pattern, path) = Captured(pattern, Endpoint(path))
    <3> DEFINE j == CHOOSE x \in DOMAIN pattern : pattern[x] = Model
    <3>1. /\ Captured(pattern, path) = path[a + j]
          /\ Captured(pattern, Endpoint(path)) = Endpoint(path)[b + j]
      BY DEF Captured, Least
    <3>2. j \in 1 .. Len(pattern)
      BY <2>6, LenProperties DEF ToSet
    <3>3. b + Len(pattern) <= Len(Endpoint(path))
      BY <2>3 DEF MatchesAt
    <3> HIDE DEF M, E, a, b, j
    <3>4. a = b + 2
      <4>1. a \in Nat /\ ~ (a < 2) /\ a <= b + 2 /\ b \in Nat
        BY <2>3, <2>4, <2>5, <2>6
      <4>2. a - 2 \in Nat /\ (a - 2) + 2 = a
        BY <4>1
      <4>3. a - 2 \in E
        BY <2>2, <2>5, <4>2
      <4>4. b <= a - 2
        BY <2>3, <4>3
      <4> QED
        BY <4>1, <4>4
    <3>5. Len(Endpoint(path)) = Len(path) - 2 /\ Len(path) \in Nat
      BY <1>2, EndpointOfDeployment
    <3>6. b + j \in 1 .. Len(path) - 2 /\ (b + j) + 2 = a + j
      BY <2>3, <3>2, <3>3, <3>4, <3>5, LenProperties
    <3>7. Endpoint(path)[b + j] = path[(b + j) + 2]
      BY <1>2, <3>6, EndpointOfDeployment
    <3> QED
      BY <3>1, <3>6, <3>7
  <2> QED
    BY <1>2, <2>4, <2>6
<1> QED
  BY <1>1, <1>2

(* The rule for the endpoint matches the path, and captures the same model *)
(* of both unless it is shifted or has none to capture.                    *)
LEMMA RuleCaptures ==
  ASSUME AclInv, rule.path
  PROVE  /\ MatchesAt(rule.pattern, ask.path) # {}
         /\ ~ Shifted /\ Model \in ToSet(rule.pattern) =>
              Captured(rule.pattern, ask.path) = Captured(rule.pattern, AskedEndpoint)
<1>1. rule.pattern \in Seq(STRING) \ {<<>>}
  BY ConfigsAssumption DEF AclInv, RuleInv
<1>2. MatchesAt(rule.pattern, Endpoint(ask.path)) # {}
  BY DEF AclInv, RuleInv, AskedEndpoint
<1>3. ask.path \in Seq(STRING)
  BY AsksAssumption DEF AclInv
<1> QED
  BY <1>1, <1>2, <1>3, WholePathMatches DEF Shifted, AskedEndpoint

(***************************************************************************)
(* The regexes that load keeps answer what acl.toml says of an endpoint.   *)
(***************************************************************************)
LEMMA EndpointAllowedIsListed ==
  ASSUME config \in Configs, LoadedInv, ask.method \in config.methods
  PROVE  Listed <=> /\ HasDeployment(ask.path) => ask.path[2] \in config.deployments
                    /\ EndpointAllowed(ask.method, AskedEndpoint)
<1> DEFINE said(allow) == \E e \in config.endpoints :
             /\ e.method = ask.method /\ e.allow = allow
             /\ PathMatches(e.pattern, AskedEndpoint)
<1>1. /\ config.whitelist \in BOOLEAN /\ ask.method \in Methods
      /\ \A e \in config.endpoints : e.allow \in BOOLEAN
  BY ConfigsAssumption
<1>2. (\E p \in acl.endpoint[ask.method] : PathMatches(p, AskedEndpoint))
        <=> said(config.whitelist)
  <2>1. acl.endpoint[ask.method] =
          {e.pattern : e \in {x \in Effective(config) : x.method = ask.method}}
    BY <1>1 DEF LoadedInv
  <2> QED
    BY <2>1 DEF Effective
<1>3. EndpointAllowed(ask.method, AskedEndpoint) <=>
        (config.whitelist <=> said(config.whitelist))
  BY <1>1, <1>2 DEF EndpointAllowed, LoadedInv
<1>4. Listed <=> /\ HasDeployment(ask.path) => ask.path[2] \in config.deployments
                 /\ IF config.whitelist THEN said(TRUE) ELSE ~ said(FALSE)
  BY DEF Listed, AskedEndpoint
<1> HIDE DEF said
<1>5. CASE config.whitelist = TRUE
  BY <1>3, <1>4, <1>5
<1>6. CASE config.whitelist = FALSE
  BY <1>3, <1>4, <1>6
<1> QED
  BY <1>1, <1>5, <1>6

-----------------------------------------------------------------------------
(***************************************************************************)
(* One lemma per action: the invariant is kept.                            *)
(***************************************************************************)

(* At the start nothing is loaded and nothing was asked of any rule. *)
LEMMA InitEstablishes == Init => AclInv
<1> SUFFICES ASSUME Init
             PROVE  AclInv
  OBVIOUS
<1>1. /\ config \in Configs /\ ask \in Asks /\ acl = NoAcl /\ phase = "loading"
      /\ rule = NoRule /\ ~ rule.path
  BY DEF Init, NoRule
<1>2. RuleInv
  BY <1>1 DEF RuleInv
<1>3. CheckedIsForwarded
  BY <1>1 DEF CheckedIsForwarded
<1> QED
  BY <1>1, <1>2, <1>3 DEF AclInv, Validated, PanicsWithoutModel

(* Load keeps the regexes of the rules that count, or refuses to start. *)
LEMMA LoadKeeps == AclInv /\ Load => AclInv'
<1> SUFFICES ASSUME AclInv, Load
             PROVE  AclInv'
  OBVIOUS
<1>1. /\ phase = "loading" /\ rule = NoRule /\ acl = NoAcl
      /\ UNCHANGED <<config, ask, rule, sent>> /\ ~ rule.path
      /\ config \in Configs /\ ask \in Asks
  BY DEF AclInv, Load, NoRule
<1>2. \/ phase' = "refused" /\ acl' = NoAcl
      \/ phase' = "validating" /\ LoadedInv'
  <2>1. CASE ~ (/\ \A e \in Effective(config) : EndpointCompiles(e.pattern)
                /\ \A m \in config.models : m.path => PathRuleCompiles(m.pattern))
    BY <1>1, <2>1 DEF Load
  <2>2. CASE /\ \A e \in Effective(config) : EndpointCompiles(e.pattern)
             /\ \A m \in config.models : m.path => PathRuleCompiles(m.pattern)
    <3>1. /\ phase' = "validating"
          /\ acl' = [whitelist |-> config.whitelist,
                     methods |-> config.methods,
                     deployments |-> config.deployments,
                     endpoint |-> [h \in Methods |->
                        {e.pattern : e \in {x \in Effective(config) : x.method = h}}],
                     model_body |-> {m \in config.models : ~ m.path},
                     model_path |-> {m \in config.models : m.path}]
      BY <2>2 DEF Load
    <3>2. acl' # NoAcl
      <4>1. "methods" \in DOMAIN acl' /\ "methods" \notin DOMAIN NoAcl
        BY <3>1 DEF NoAcl
      <4> QED
        BY <4>1
    <3> QED
      BY <1>1, <2>2, <3>1, <3>2 DEF LoadedInv, Effective
  <2> QED
    BY <2>1, <2>2
<1>3. RuleInv' /\ rule' = NoRule
  BY <1>1 DEF RuleInv
<1> QED
  BY <1>1, <1>2, <1>3
     DEF AclInv, Verdicts, Validated, CheckedIsForwarded, PanicsWithoutModel

(* validate lets only listed requests pass, and finds a table of the       *)
(* request's method and endpoint.                                          *)
LEMMA ValidateKeeps == AclInv /\ Validate => AclInv'
<1> SUFFICES ASSUME AclInv, Validate
             PROVE  AclInv'
  OBVIOUS
<1> DEFINE rules == RulesFor(ask.method, AskedEndpoint)
<1>1. /\ phase = "validating" /\ LoadedInv /\ rule = NoRule /\ ~ NoRule.path
      /\ UNCHANGED <<config, acl, ask, sent>>
      /\ config \in Configs /\ ask \in Asks
  BY DEF AclInv, Validate, NoRule
<1>2. /\ LoadedInv' /\ acl' # NoAcl
      /\ AskedEndpoint' = AskedEndpoint /\ Listed' = Listed
  BY <1>1 DEF LoadedInv, AskedEndpoint, Listed
<1>3. \A m \in rules :
        /\ m \in config.models /\ m.method = ask.method
        /\ ~ m.path => m.pattern = AskedEndpoint
        /\ m.path => MatchesAt(m.pattern, AskedEndpoint) # {}
  BY <1>1 DEF RulesFor, LoadedInv
<1>4. \A m \in config.models : m # NoRule
  <2> SUFFICES ASSUME NEW m \in config.models
               PROVE  m # NoRule
    OBVIOUS
  <2>1. "pattern" \in DOMAIN m /\ "pattern" \notin DOMAIN NoRule
    BY <1>1, ConfigsAssumption DEF NoRule
  <2> QED
    BY <2>1
<1>5. ask.method \in config.methods /\ phase' # "403" => Listed
  BY <1>1, EndpointAllowedIsListed DEF Validate, LoadedInv, AskedEndpoint
<1>6. CASE ask.method \notin config.methods
  <2>1. phase' = "405" /\ rule' = NoRule
    BY <1>1, <1>6 DEF Validate, LoadedInv
  <2> QED
    BY <1>1, <1>2, <1>6, <2>1
       DEF AclInv, RuleInv, Verdicts, Validated, CheckedIsForwarded, PanicsWithoutModel
<1>7. CASE ask.method \in config.methods /\ ~ Listed
  <2>1. phase' = "403" /\ rule' = NoRule
    BY <1>1, <1>7, EndpointAllowedIsListed
       DEF Validate, LoadedInv, AskedEndpoint
  <2> QED
    BY <1>1, <1>2, <1>7, <2>1
       DEF AclInv, RuleInv, Verdicts, Validated, CheckedIsForwarded, PanicsWithoutModel
<1>8. CASE ask.method \in config.methods /\ Listed /\ rules = {}
  <2>1. phase' = "passing" /\ rule' = NoRule
    BY <1>1, <1>8, EndpointAllowedIsListed
       DEF Validate, LoadedInv, AskedEndpoint
  <2> QED
    BY <1>1, <1>2, <1>8, <2>1
       DEF AclInv, RuleInv, Verdicts, Validated, CheckedIsForwarded, PanicsWithoutModel, PathChecked,
           BodyOfInterest
<1>9. CASE ask.method \in config.methods /\ Listed /\ rules # {}
  <2>1. phase' = "matched" /\ rule' \in rules
    BY <1>1, <1>9, EndpointAllowedIsListed
       DEF Validate, LoadedInv, AskedEndpoint
  <2>2. RuleInv' /\ rule' # NoRule
    BY <1>1, <1>2, <1>3, <1>4, <2>1 DEF RuleInv
  <2> QED
    BY <1>1, <1>2, <1>9, <2>1, <2>2
       DEF AclInv, Verdicts, Validated, CheckedIsForwarded, PanicsWithoutModel
<1> QED
  BY <1>6, <1>7, <1>8, <1>9

(* What the later actions share: they change neither the rule nor what it  *)
(* was chosen by, and only the last of them says what is forwarded.        *)
LEMMA LaterPhase ==
  ASSUME AclInv, phase \in {"matched", "typing", "reading", "passing"},
         UNCHANGED <<config, acl, ask, rule>>
  PROVE  /\ config' \in Configs /\ ask' \in Asks
         /\ LoadedInv' /\ RuleInv' /\ Listed'
         /\ PathChecked' = PathChecked /\ BodyOfInterest' = BodyOfInterest
         /\ LoadedInv /\ RuleInv /\ Listed
         /\ ModelObjected' = ModelObjected /\ Shifted' = Shifted
  BY
     DEF AclInv, LoadedInv, RuleInv, Listed, PathChecked, BodyOfInterest,
         Validated,
         ModelObjected, Shifted, AskedEndpoint

(* A path rule's model is checked, if the rule has one; the rule matches   *)
(* the path.                                                               *)
LEMMA ValidatePathKeeps == AclInv /\ ValidatePath => AclInv'
<1> SUFFICES ASSUME AclInv, ValidatePath
             PROVE  AclInv'
  OBVIOUS
<1>1. phase = "matched" /\ UNCHANGED <<config, acl, ask, rule, sent>> /\ rule # NoRule
  BY DEF ValidatePath, AclInv
<1>2. CASE ~ rule.path
  <2>1. phase' = "typing" /\ PathChecked
    BY <1>2 DEF ValidatePath, PathChecked
  <2> QED
    BY <1>1, <2>1, LaterPhase
       DEF AclInv, Verdicts, Validated, CheckedIsForwarded, PanicsWithoutModel
<1>3. CASE rule.path
  <2>1. /\ MatchesAt(rule.pattern, ask.path) # {}
        /\ ~ Shifted /\ Model \in ToSet(rule.pattern) =>
             Captured(rule.pattern, ask.path) = Captured(rule.pattern, AskedEndpoint)
    BY <1>3, RuleCaptures
  <2>2. CASE Model \notin ToSet(rule.pattern)
    <3>1. phase' = "panicked"
      BY <1>3, <2>2 DEF ValidatePath
    <3>2. PanicsWithoutModel'
      BY <1>1, <1>3, <2>2 DEF PanicsWithoutModel
    <3> QED
      BY <1>1, <3>1, <3>2, LaterPhase
         DEF AclInv, Verdicts, Validated, CheckedIsForwarded,
             PanicsWithoutModel
  <2>3. CASE /\ Model \in ToSet(rule.pattern)
             /\ NameAllowed(rule, Captured(rule.pattern, ask.path))
    <3>1. phase' = "typing" /\ PathChecked
      BY <1>3, <2>1, <2>3 DEF ValidatePath, PathChecked
    <3> QED
      BY <1>1, <3>1, LaterPhase
         DEF AclInv, Verdicts, Validated, CheckedIsForwarded,
             PanicsWithoutModel
  <2>4. CASE /\ Model \in ToSet(rule.pattern)
             /\ ~ NameAllowed(rule, Captured(rule.pattern, ask.path))
    <3>1. phase' = "403"
      BY <1>3, <2>1, <2>4 DEF ValidatePath
    <3>2. ~ Shifted => ModelObjected
      BY <1>1, <1>3, <2>1, <2>4, LaterPhase
         DEF RuleInv, ModelObjected, AskedEndpoint
    <3> QED
      BY <1>1, <3>1, <3>2, LaterPhase
         DEF AclInv, Verdicts, Validated, CheckedIsForwarded,
             PanicsWithoutModel
  <2> QED
    BY <2>2, <2>3, <2>4
<1> QED
  BY <1>2, <1>3

(* The body is passed by only if nobody wants to know its model. *)
LEMMA CheckContentTypeKeeps == AclInv /\ CheckContentType => AclInv'
<1> SUFFICES ASSUME AclInv, CheckContentType
             PROVE  AclInv'
  OBVIOUS
<1>1. /\ phase = "typing" /\ UNCHANGED <<config, acl, ask, rule, sent>>
      /\ rule # NoRule /\ PathChecked
  BY DEF CheckContentType, AclInv
<1>2. \/ phase' = "400" \/ phase' = "reading"
      \/ phase' = "passing" /\ ~ BodyOfInterest
  BY DEF CheckContentType, BodyOfInterest
<1> QED
  BY <1>1, <1>2, LaterPhase
     DEF AclInv, Verdicts, Validated, CheckedIsForwarded, PanicsWithoutModel

(* What is checked of the body is what is forwarded of it. *)
LEMMA ValidateBodyKeeps == AclInv /\ ValidateBody => AclInv'
<1> SUFFICES ASSUME AclInv, ValidateBody
             PROVE  AclInv'
  OBVIOUS
<1>1. /\ phase = "reading" /\ UNCHANGED <<config, acl, ask, rule>>
      /\ rule # NoRule /\ PathChecked
  BY DEF ValidateBody, AclInv
<1>2. CASE ask.json # "good"
  <2>1. phase' = "400"
    BY <1>2 DEF ValidateBody
  <2> QED
    BY <1>1, <2>1, LaterPhase
       DEF AclInv, Verdicts, Validated, CheckedIsForwarded, PanicsWithoutModel
<1>3. CASE ask.json = "good" /\ ~ rule.path /\ ~ BodyAllowed(rule, Parsed(ask.body))
  <2>1. phase' = "403"
    BY <1>3 DEF ValidateBody
  <2>2. ModelObjected
    BY <1>1, <1>3, LaterPhase DEF RuleInv, ModelObjected, AskedEndpoint
  <2> QED
    BY <1>1, <2>1, <2>2, LaterPhase
       DEF AclInv, Verdicts, Validated, CheckedIsForwarded, PanicsWithoutModel
<1>4. CASE ask.json = "good" /\ (rule.path \/ BodyAllowed(rule, Parsed(ask.body)))
  <2>1. phase' = "forwarded" /\ sent' = Parsed(ask.body)
    BY <1>4 DEF ValidateBody
  <2>2. CheckedIsForwarded'
    <3> SUFFICES ASSUME ~ rule.path
                 PROVE  IF sent' = <<>> THEN rule.allow_omitted
                        ELSE \A i \in DOMAIN sent' : BodyAllowed(rule, <<sent'[i]>>)
      BY <1>1 DEF CheckedIsForwarded, BodyAllowed, NameAllowed
    <3>1. CASE ask.body = <<>>
      BY <1>4, <2>1, <3>1 DEF Parsed, BodyAllowed
    <3>2. CASE ask.body # <<>>
      <4>1. sent' = <<Last(ask.body)>> /\ sent' # <<>>
        BY <2>1, <3>2 DEF Parsed
      <4>2. DOMAIN sent' = {1} /\ <<sent'[1]>> = sent'
        BY <4>1
      <4> QED
        BY <1>4, <2>1, <4>1, <4>2
    <3> QED
      BY <3>1, <3>2
  <2> QED
    BY <1>1, <2>1, <2>2, LaterPhase
       DEF AclInv, Verdicts, Validated, PanicsWithoutModel
<1> QED
  BY <1>2, <1>3, <1>4

(* A body that nobody looked at was none of interest. *)
LEMMA ForwardKeeps == AclInv /\ Forward => AclInv'
<1> SUFFICES ASSUME AclInv, Forward
             PROVE  AclInv'
  OBVIOUS
<1>1. /\ phase = "passing" /\ phase' = "forwarded"
      /\ UNCHANGED <<config, acl, ask, rule>>
      /\ ~ BodyOfInterest /\ PathChecked
  BY DEF Forward, AclInv
<1>2. CheckedIsForwarded'
  BY <1>1 DEF CheckedIsForwarded, BodyOfInterest
<1> QED
  BY <1>1, <1>2, LaterPhase DEF AclInv, Verdicts, Validated, PanicsWithoutModel

-----------------------------------------------------------------------------
(***************************************************************************)
(* The invariant holds of every request, whatever acl.toml says.           *)
(***************************************************************************)
THEOREM AclInvariant == Spec => []AclInv
<1>1. AclInv /\ [Next]_vars => AclInv'
  <2> SUFFICES ASSUME AclInv, [Next]_vars
               PROVE  AclInv'
    OBVIOUS
  <2>1. CASE UNCHANGED vars
    BY <2>1
       DEF vars, AclInv, LoadedInv, RuleInv, Listed, PathChecked,
           BodyOfInterest,
                ModelObjected, Shifted, CheckedIsForwarded, AskedEndpoint,
                PanicsWithoutModel
  <2> QED
    BY <2>1, LoadKeeps, ValidateKeeps, ValidatePathKeeps, CheckContentTypeKeeps,
       ValidateBodyKeeps, ForwardKeeps DEF Next
<1> QED
  BY <1>1, InitEstablishes, PTL DEF Spec

(* Every variable keeps the type of what it stands for. *)
THEOREM AclTypeCorrect == Spec => []TypeOK
<1>1. AclInv => TypeOK
  BY DEF AclInv, RuleInv, LoadedInv, TypeOK
<1> QED
  BY <1>1, AclInvariant, PTL

(***************************************************************************)
(* Only what acl.toml lists is forwarded, for every acl.toml, and a 403 or *)
(* a 405 has a reason in it.                                               *)
(***************************************************************************)
THEOREM ForwardedIsListed == Spec => []ListedOnly
<1>1. AclInv => ListedOnly
  BY DEF AclInv, ListedOnly, Validated
<1> QED
  BY <1>1, AclInvariant, PTL

(* A refused request is one that acl.toml does not list or objects to. *)
THEOREM RefusalIsJustified == Spec => []RefusalsJustified
<1>1. AclInv => RefusalsJustified
  BY DEF AclInv, RefusalsJustified
<1> QED
  BY <1>1, AclInvariant, PTL

(* The model that a body rule allowed is the one that goes on. *)
THEOREM CheckedModelIsForwarded == Spec => []CheckedIsForwarded
<1>1. AclInv => CheckedIsForwarded
  BY DEF AclInv
<1> QED
  BY <1>1, AclInvariant, PTL

(* The model a path rule checked is the one in the endpoint. *)
THEOREM CheckedModelIsRequested == Spec => []CheckedIsRequested
<1>1. AclInv => CheckedIsRequested
  <2> SUFFICES ASSUME AclInv, phase = "forwarded", rule.path, ~ Shifted
               PROVE  NameAllowed(rule, Captured(rule.pattern, AskedEndpoint))
    BY DEF CheckedIsRequested, AskedEndpoint
  <2>1. LoadedInv /\ PathChecked
    BY DEF AclInv
  <2> QED
    BY <2>1, RuleCaptures DEF PathChecked
<1> QED
  BY <1>1, AclInvariant, PTL

(***************************************************************************)
(* validate_path panics for a path rule without {model} only, whatever     *)
(* acl.toml and the request: a rule that was chosen for the endpoint       *)
(* matches the path the endpoint was cut out of, however many segments in  *)
(* front of it the deployment takes.                                       *)
(***************************************************************************)
THEOREM PathRulesWithModelNeverPanic == Spec => []PanicsWithoutModel
<1>1. AclInv => PanicsWithoutModel
  BY DEF AclInv
<1> QED
  BY <1>1, AclInvariant, PTL

=============================================================================
