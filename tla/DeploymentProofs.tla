-------------------------- MODULE DeploymentProofs --------------------------
(***************************************************************************)
(* Proofs about openai-hub in use, for any files, tokens, secrets and      *)
(* periods, any width of an integer and any number of edits and starts.    *)
(***************************************************************************)
EXTENDS Deployment, FiniteSetTheorems, TLAPS

-----------------------------------------------------------------------------
(***************************************************************************)
(* The inductive invariant.                                                *)
(***************************************************************************)

\* The server knows the files it was started with.
ServerInv ==
  /\ files \in Files /\ edits \in 0 .. MaxEdits /\ starts \in 0 .. MaxStarts
  /\ fresh \in BOOLEAN /\ server \in Files
  /\ stage \in {"down", "configured", "built", "listening", "serving"}
  /\ stage # "down" => server.config = "good"
  /\ stage \in {"built", "listening", "serving"} => server.acl # "bad"
  /\ failure \in {"none", "config", "acl", "address", "store", "statement"}
  /\ stage # "down" => failure = "none"
  /\ fresh /\ stage = "configured" => server = [files EXCEPT !.acl = "missing"]
  /\ fresh /\ stage \in {"built", "listening", "serving"} => server = files

\* A token of the generator says what was asked for, as far as it is kept.
Generated(c) ==
  /\ c.by = "generator" /\ c.born \in Nat /\ c.period \in Periods
  /\ c.token.key \in Secrets /\ c.token.sub \in Subjects /\ c.token.nbf = {}
  /\ c.token.exp = {Expiry(c.born, p[1], p[2]) : p \in c.period}

WalletInv ==
  \A c \in wallet :
    Generated(c) \/ (c.by = "other" /\ c.token \in ForeignTokens)

\* A request has at most one token, and is there until it is answered.
RequestInv ==
  /\ now \in 0 .. LastDay
  /\ request.cred \subseteq wallet /\ \A c, d \in request.cred : c = d
  /\ answer.verdict \in {"none", "pending", "reset", "forbidden", "refused",
                         "panicked", "served"}
  /\ answer = Pending <=> answer.verdict = "pending"
  /\ request = NoRequest <=> answer # Pending

DeploymentInv == ServerInv /\ WalletInv /\ RequestInv

-----------------------------------------------------------------------------
(* Months of u32 are no more than the months meant, and as many if those   *)
(* are a u32.                                                              *)
LEMMA MonthsWrap ==
  ASSUME NEW length \in Nat, NEW unit \in Units
  PROVE  /\ Months(length, unit) \in Nat
         /\ Months(length, unit) <= IF unit = "y" THEN length * 12 ELSE length
         /\ unit = "y" /\ length * 12 < U32 => Months(length, unit) = length * 12
<1> DEFINE m == length * 12
<1>1. m \in Nat /\ U32 \in Nat \ {0}
  BY WidthAssumption
<1> HIDE DEF m
<1>2. m % U32 \in Nat /\ m % U32 <= m /\ (m < U32 => m % U32 = m)
  BY <1>1
<1> QED
  BY <1>1, <1>2 DEF Months, m

(* A token is never valid for longer than was asked, and only a number of  *)
(* years that is no u32 of months makes it valid for less.                 *)
LEMMA ExpiryIsAsked ==
  ASSUME NEW born \in Nat, NEW p \in Nat \X Units
  PROVE  /\ Expiry(born, p[1], p[2]) \in Nat /\ Asked(born, p[1], p[2]) \in Nat
         /\ Expiry(born, p[1], p[2]) <= Asked(born, p[1], p[2])
         /\ ~ (p[2] = "y" /\ p[1] * 12 >= U32)
              => Expiry(born, p[1], p[2]) = Asked(born, p[1], p[2])
<1> DEFINE l == p[1]
           u == p[2]
<1>1. l \in Nat /\ u \in Units /\ U32 \in Nat
  BY WidthAssumption
<1> HIDE DEF l, u
<1>2. /\ Months(l, u) \in Nat
      /\ Months(l, u) <= IF u = "y" THEN l * 12 ELSE l
      /\ u = "y" /\ l * 12 < U32 => Months(l, u) = l * 12
  BY <1>1, MonthsWrap
<1>3. /\ Expiry(born, l, u) \in Nat /\ Asked(born, l, u) \in Nat
      /\ Expiry(born, l, u) <= Asked(born, l, u)
      /\ ~ (u = "y" /\ l * 12 >= U32) => Expiry(born, l, u) = Asked(born, l, u)
  <2>1. CASE u = "d"
    BY <2>1, <1>1 DEF Expiry, Asked
  <2>2. CASE u = "m"
    BY <2>2, <1>1, <1>2 DEF Expiry, Asked, Month
  <2>3. CASE u = "y"
    BY <2>3, <1>1, <1>2 DEF Expiry, Asked, Month
  <2> QED
    BY <1>1, <2>1, <2>2, <2>3 DEF Units
<1> QED
  BY <1>3 DEF l, u

(* What every token in a wallet has. *)
LEMMA TokensAreTyped ==
  ASSUME WalletInv, NEW c \in wallet
  PROVE  /\ c.token.key \in Secrets
         /\ c.token.nbf \subseteq Nat /\ c.token.exp \subseteq Nat
         /\ \A a, b \in c.token.exp : a = b
         /\ \A s, u \in c.token.sub : s = u
<1>1. CASE Generated(c)
  <2>1. c.period \subseteq Nat \X Units /\ \A p, q \in c.period : p = q
    BY <1>1, PeriodsAssumption DEF Generated
  <2>2. \A p \in c.period : Expiry(c.born, p[1], p[2]) \in Nat
    BY <1>1, <2>1, ExpiryIsAsked DEF Generated
  <2> QED
    BY <1>1, <2>1, <2>2, SubjectsAssumption DEF Generated
<1>2. CASE c.by = "other" /\ c.token \in ForeignTokens
  BY <1>2, ForeignAssumption
<1> QED
  BY <1>1, <1>2 DEF WalletInv

-----------------------------------------------------------------------------
(***************************************************************************)
(* The invariant is kept.                                                  *)
(***************************************************************************)

(* At the start there are the files, and the tokens of others. *)
LEMMA InitEstablishes == Init => DeploymentInv
<1> SUFFICES ASSUME Init
             PROVE  DeploymentInv
  OBVIOUS
<1>1. ServerInv
  <2>1. /\ files \in Files /\ server = files
        /\ edits = 0 /\ starts = 0 /\ stage = "down" /\ fresh = FALSE /\ failure = "none"
    BY FilesAssumption DEF Init, StartInit
  <2>2. 0 \in 0 .. MaxEdits /\ 0 \in 0 .. MaxStarts
    BY StartsAssumption
  <2> QED
    BY <2>1, <2>2 DEF ServerInv
<1>2. WalletInv
  BY DEF Init, WalletInv, Foreign
<1>3. RequestInv
  BY BoundsAssumption DEF Init, RequestInv, NoRequest, Pending
<1> QED
  BY <1>1, <1>2, <1>3 DEF DeploymentInv

\* The steps of the server's start, and of its operator.
StartStep ==
  \/ ReadConfig \/ ReadAcl \/ Bind
  \/ BindFails \/ OpenBackend \/ OpenBackendFails \/ InitFails \/ Stop
  \/ Edit

(* The server's start reads what it says it reads. *)
LEMMA StartKeeps == ServerInv /\ StartStep => ServerInv'
<1> SUFFICES ASSUME ServerInv, StartStep
             PROVE  ServerInv'
  OBVIOUS
<1> USE DEF ServerInv
<1>1. CASE ReadConfig
  <2>1. [files EXCEPT !.acl = "missing"] \in Files
    BY DEF Files
  <2> QED
    BY <1>1, <2>1, StartsAssumption DEF ReadConfig, Files
<1>2. CASE ReadAcl
  <2>1. CASE files.acl = "bad"
    BY <1>2, <2>1 DEF ReadAcl, Down
  <2>2. CASE files.acl # "bad"
    <3>1. /\ stage = "configured" /\ stage' = "built"
          /\ server' = [server EXCEPT !.acl = files.acl]
          /\ UNCHANGED <<files, edits, starts, failure, fresh>>
      BY <1>2, <2>2 DEF ReadAcl, Onward
    <3>2. server' \in Files /\ server'.config = "good" /\ server'.acl # "bad"
      BY <2>2, <3>1 DEF Files
    <3>3. fresh => server' = files
      BY <3>1 DEF Files
    <3> QED
      BY <3>1, <3>2, <3>3
  <2> QED
    BY <2>1, <2>2
<1>3. CASE Bind
  BY <1>3 DEF Bind, Onward
<1>4. CASE BindFails \/ OpenBackendFails \/ InitFails \/ Stop
  BY <1>4 DEF BindFails, OpenBackendFails, InitFails, Stop, Down
<1>5. CASE OpenBackend
  BY <1>5 DEF OpenBackend, Onward
<1>6. CASE Edit
  <2>1. /\ edits \in 0 .. MaxEdits /\ edits < MaxEdits /\ edits' = edits + 1
        /\ \E f \in Files : files' = f
        /\ fresh' = FALSE /\ UNCHANGED <<starts, stage, server, failure>>
    BY <1>6 DEF Edit
  <2>2. edits' \in 0 .. MaxEdits
    BY <2>1, StartsAssumption
  <2>3. files' \in Files
    BY <2>1
  <2> QED
    BY <2>1, <2>2, <2>3
<1> QED
  BY <1>1, <1>2, <1>3, <1>4, <1>5, <1>6 DEF StartStep

(* A new token is what was asked for, and the others stay. *)
LEMMA GenerateKeeps == DeploymentInv /\ Generate => DeploymentInv'
<1> SUFFICES ASSUME DeploymentInv, Generate
             PROVE  DeploymentInv'
  OBVIOUS
<1> USE DEF DeploymentInv
<1>1. PICK key \in files.secret, sub \in Subjects, period \in Periods :
        wallet' = wallet \cup
            {[token |-> Tokens(key, sub, {}, {Expiry(now, p[1], p[2]) : p \in period}),
              by |-> "generator", born |-> now, period |-> period]}
  BY DEF Generate
<1>2. UNCHANGED <<files, edits, starts, stage, server, failure, fresh, now, request, answer>>
  BY DEF Generate, startVars
<1>3. now \in Nat /\ key \in Secrets
  BY BoundsAssumption DEF RequestInv, ServerInv, Files
<1>4. \A c \in wallet' : Generated(c) \/ (c.by = "other" /\ c.token \in ForeignTokens)
  BY <1>1, <1>3 DEF WalletInv, Generated, Tokens
<1> QED
  BY <1>1, <1>2, <1>4 DEF ServerInv, WalletInv, RequestInv

(* A client sends a token that it has, or none. *)
LEMMA SendKeeps == DeploymentInv /\ Send => DeploymentInv'
<1> SUFFICES ASSUME DeploymentInv, Send
             PROVE  DeploymentInv'
  OBVIOUS
<1> USE DEF DeploymentInv
<1>1. /\ \E cred \in {{}} \cup {{c} : c \in wallet}, claimed \in Claims, listed \in BOOLEAN :
           request' = [cred |-> cred, claimed |-> claimed, listed |-> listed]
      /\ answer' = Pending
      /\ UNCHANGED <<files, edits, starts, stage, server, failure, fresh, now, wallet>>
  BY DEF Send, startVars
<1>2. PICK cred \in {{}} \cup {{c} : c \in wallet}, claimed \in Claims, listed \in BOOLEAN :
        request' = [cred |-> cred, claimed |-> claimed, listed |-> listed]
  BY <1>1
<1>3. request' # NoRequest
  <2>1. "claimed" \in DOMAIN request' /\ "claimed" \notin DOMAIN NoRequest
    BY <1>2 DEF NoRequest
  <2> QED
    BY <2>1
<1>4. request'.cred \subseteq wallet /\ \A c, d \in request'.cred : c = d
  BY <1>2
<1> QED
  BY <1>1, <1>3, <1>4 DEF ServerInv, WalletInv, RequestInv, Pending

\* The four answers the layers give.
AnswerStep == Forbid \/ Refuse \/ Panic \/ Serve

(* An answered request is over. *)
LEMMA AnswerKeeps ==
  DeploymentInv /\ AnswerStep =>
    /\ DeploymentInv'
    /\ stage = "serving" /\ answer = Pending
    /\ answer'.verdict \in {"forbidden", "refused", "panicked", "served"}
<1> SUFFICES ASSUME DeploymentInv, AnswerStep
             PROVE  /\ DeploymentInv'
                    /\ stage = "serving" /\ answer = Pending
                    /\ answer'.verdict \in {"forbidden", "refused", "panicked", "served"}
  OBVIOUS
<1> USE DEF DeploymentInv
<1>1. /\ stage = "serving" /\ answer = Pending
      /\ request' = NoRequest
      /\ answer'.verdict \in {"forbidden", "refused", "panicked", "served"}
      /\ UNCHANGED <<files, edits, starts, stage, server, failure, fresh, now, wallet>>
  BY DEF AnswerStep, Forbid, Refuse, Panic, Serve, Awaited, Respond, startVars
<1>2. answer' # Pending
  BY <1>1 DEF Pending
<1>3. request'.cred = {}
  BY <1>1 DEF NoRequest
<1> QED
  BY <1>1, <1>2, <1>3 DEF ServerInv, WalletInv, RequestInv

(* Every step keeps the invariant. *)
LEMMA NextKeeps == DeploymentInv /\ [Next]_vars => DeploymentInv'
<1> SUFFICES ASSUME DeploymentInv, [Next]_vars
             PROVE  DeploymentInv'
  OBVIOUS
<1>1. CASE Tick
  BY <1>1, BoundsAssumption
     DEF Tick, DeploymentInv, ServerInv, WalletInv, RequestInv, startVars
<1>2. CASE StartStep /\ Connections
  <2>1. ServerInv' /\ UNCHANGED <<now, wallet>>
    BY <1>2, StartKeeps DEF DeploymentInv, Connections
  <2>2. CASE UNCHANGED <<answer, request>>
    BY <2>1, <2>2 DEF DeploymentInv, WalletInv, RequestInv
  <2>3. CASE answer' = [verdict |-> "reset"] /\ request' = NoRequest
    BY <2>1, <2>3 DEF DeploymentInv, WalletInv, RequestInv, NoRequest, Pending
  <2> QED
    BY <1>2, <2>2, <2>3 DEF Connections
<1>3. CASE UNCHANGED vars
  BY <1>3 DEF vars, startVars, DeploymentInv, ServerInv, WalletInv, RequestInv
<1> QED
  BY <1>1, <1>2, <1>3, GenerateKeeps, SendKeeps, AnswerKeeps
     DEF Next, AnswerStep, StartStep

(***************************************************************************)
(* The invariant holds of every deployment.                                *)
(***************************************************************************)
THEOREM DeploymentInvariant == Spec => []DeploymentInv
<1> QED
  BY InitEstablishes, NextKeeps, PTL DEF Spec

(* Every variable keeps the type of what it stands for. *)
THEOREM DeploymentTypeCorrect == Spec => []TypeOK
<1>1. DeploymentInv => TypeOK
  <2> SUFFICES ASSUME DeploymentInv
               PROVE  TypeOK
    OBVIOUS
  <2>1. ASSUME NEW c \in wallet
        PROVE  c.token.key \in Secrets /\ Cardinality(c.token.exp) <= 1
    <3>1. c.token.key \in Secrets /\ \A a, b \in c.token.exp : a = b
      BY <2>1, TokensAreTyped DEF DeploymentInv
    <3>2. CASE c.token.exp = {}
      BY <3>1, <3>2, FS_EmptySet
    <3>3. CASE c.token.exp # {}
      <4>1. PICK a : c.token.exp = {a}
        BY <3>1, <3>3
      <4>2. Cardinality(c.token.exp) = 1
        BY <4>1, FS_Singleton, Zenon
      <4> QED
        BY <3>1, <4>2
    <3> QED
      BY <3>2, <3>3
  <2> QED
    BY <2>1 DEF DeploymentInv, ServerInv, RequestInv, TypeOK
<1> QED
  BY <1>1, DeploymentInvariant, PTL

-----------------------------------------------------------------------------
(***************************************************************************)
(* The action properties: a step that answers a request is one of four.    *)
(***************************************************************************)

(* Only the layers answer; what else ends a request resets it. *)
LEMMA OnlyLayersAnswer ==
  ASSUME DeploymentInv, [Next]_vars, Answered
  PROVE  AnswerStep
<1>1. answer = Pending /\ answer.verdict = "pending" /\ answer' # answer
  BY DEF Answered, Pending
<1>2. ~ Generate /\ ~ Tick /\ ~ Send /\ ~ UNCHANGED vars
  BY <1>1 DEF Generate, Tick, Send, vars
<1>3. ~ Connections
  BY <1>1 DEF Connections, Answered
<1> QED
  BY <1>2, <1>3 DEF Next, AnswerStep

(* A request that is let in has a token that the server accepts.           *)
LEMMA LetInIsAuthenticated ==
  ASSUME DeploymentInv, AnswerStep, server.secret # {}
  PROVE  /\ \E key : server.secret = {key}
         /\ LetIn <=> Authenticated
         /\ LetIn => \E c \in request.cred :
              /\ request.cred = {c} /\ Cred = {c.token} /\ c \in wallet
              /\ c.token.key \in server.secret /\ InForce(c.token, now)
              /\ \A sub \in c.token.sub : InHeader(sub)
<1>1. PICK key : server.secret = {key}
  BY DEF DeploymentInv, ServerInv, Files
<1>2. LetIn <=> Authenticated
  BY DEF AnswerStep, Forbid, Refuse, Panic, Serve, Admitted, Respond, LetIn
<1>3. ASSUME Authenticated
      PROVE  \E c \in request.cred :
               /\ request.cred = {c} /\ Cred = {c.token} /\ c \in wallet
               /\ c.token.key \in server.secret /\ InForce(c.token, now)
               /\ \A sub \in c.token.sub : InHeader(sub)
  <2>1. PICK token \in Cred : Authenticates(token, key, now)
    BY <1>1, <1>3 DEF Authenticated
  <2>2. PICK c \in request.cred : token = c.token
    BY <2>1 DEF Cred
  <2>3. request.cred = {c} /\ c \in wallet
    BY DEF DeploymentInv, RequestInv
  <2>4. Cred = {c.token}
    BY <2>3 DEF Cred
  <2> QED
    BY <1>1, <2>1, <2>2, <2>3, <2>4 DEF Authenticates
<1> QED
  BY <1>1, <1>2, <1>3

(***************************************************************************)
(* A token is let in for the period that was asked for, for every period,  *)
(* clock and width.                                                        *)
(***************************************************************************)
THEOREM TokensLiveAsRequested == Spec => LivesAsRequested
<1> DEFINE A == Answered /\ server.secret # {} =>
       /\ LetIn => request.cred # {}
       /\ \A c \in request.cred : c.by = "generator" =>
            LET meant == /\ c.token.key \in server.secret
                         /\ \A p \in c.period : now <= Asked(c.born, p[1], p[2])
                excepted == \/ \E p \in c.period : p[2] = "y" /\ p[1] * 12 >= U32
                            \/ \E sub \in c.token.sub : ~ InHeader(sub)
            IN  (LetIn => meant) /\ (meant => LetIn \/ excepted)
<1>1. DeploymentInv /\ [Next]_vars => A
  <2> SUFFICES ASSUME DeploymentInv, [Next]_vars, Answered, server.secret # {}
               PROVE  /\ LetIn => request.cred # {}
                      /\ \A c \in request.cred : c.by = "generator" =>
                           LET meant == /\ c.token.key \in server.secret
                                        /\ \A p \in c.period : now <= Asked(c.born, p[1], p[2])
                               excepted == \/ \E p \in c.period : p[2] = "y" /\ p[1] * 12 >= U32
                                           \/ \E sub \in c.token.sub : ~ InHeader(sub)
                           IN  (LetIn => meant) /\ (meant => LetIn \/ excepted)
    OBVIOUS
  <2>1. AnswerStep
    BY OnlyLayersAnswer
  <2>2. LetIn => request.cred # {}
    BY <2>1, LetInIsAuthenticated
  <2>3. ASSUME NEW c \in request.cred, c.by = "generator"
        PROVE  /\ LetIn => /\ c.token.key \in server.secret
                           /\ \A p \in c.period : now <= Asked(c.born, p[1], p[2])
               /\ /\ c.token.key \in server.secret
                  /\ \A p \in c.period : now <= Asked(c.born, p[1], p[2])
                  /\ ~ \E p \in c.period : p[2] = "y" /\ p[1] * 12 >= U32
                  /\ ~ \E sub \in c.token.sub : ~ InHeader(sub)
                  => LetIn
    <3>1. Generated(c) /\ now \in Nat
      BY <2>3, BoundsAssumption DEF DeploymentInv, WalletInv, RequestInv
    <3>2. /\ c.token.exp = {Expiry(c.born, p[1], p[2]) : p \in c.period}
          /\ c.token.nbf = {} /\ c.period \subseteq Nat \X Units /\ c.born \in Nat
      BY <3>1, PeriodsAssumption DEF Generated
    <3>3. ASSUME LetIn
          PROVE  /\ c.token.key \in server.secret
                 /\ \A p \in c.period : now <= Asked(c.born, p[1], p[2])
      <4>1. c.token.key \in server.secret /\ InForce(c.token, now)
        BY <2>1, <2>3, <3>3, LetInIsAuthenticated
      <4>2. ASSUME NEW p \in c.period
            PROVE  now <= Asked(c.born, p[1], p[2])
        <5>1. ~ (Expiry(c.born, p[1], p[2]) < now)
          BY <3>2, <4>1 DEF InForce
        <5> QED
          BY <3>1, <3>2, <5>1, ExpiryIsAsked
      <4> QED
        BY <4>1, <4>2
    <3>4. ASSUME c.token.key \in server.secret,
                 \A p \in c.period : now <= Asked(c.born, p[1], p[2]),
                 ~ \E p \in c.period : p[2] = "y" /\ p[1] * 12 >= U32,
                 ~ \E sub \in c.token.sub : ~ InHeader(sub)
          PROVE  LetIn
      <4>1. \A p \in c.period : ~ (Expiry(c.born, p[1], p[2]) < now)
        <5> SUFFICES ASSUME NEW p \in c.period
                     PROVE  ~ (Expiry(c.born, p[1], p[2]) < now)
          OBVIOUS
        <5>1. /\ Expiry(c.born, p[1], p[2]) \in Nat
              /\ Expiry(c.born, p[1], p[2]) = Asked(c.born, p[1], p[2])
          BY <3>2, <3>4, ExpiryIsAsked
        <5>2. now <= Asked(c.born, p[1], p[2])
          BY <3>4
        <5> QED
          BY <3>1, <5>1, <5>2
      <4>2. InForce(c.token, now)
        BY <3>2, <4>1 DEF InForce
      <4>3. c.token \in Cred
        BY <2>3 DEF Cred
      <4>4. \A key \in server.secret : key = c.token.key
        BY <2>1, <3>4, LetInIsAuthenticated
      <4>5. Authenticated
        BY <3>4, <4>2, <4>3, <4>4 DEF Authenticated, Authenticates
      <4> QED
        BY <2>1, <4>5, LetInIsAuthenticated
    <3> QED
      BY <3>3, <3>4
  <2> QED
    BY <2>2, <2>3
<1> QED
  BY <1>1, DeploymentInvariant, PTL DEF Spec, LivesAsRequested

(***************************************************************************)
(* An entry is about the subject of the token, for every claim a client    *)
(* makes, and only subjects that to_str() refuses panic.                   *)
(***************************************************************************)
THEOREM EntryIsAboutSubject == Spec => UserIsSubject
<1> DEFINE A == Answered /\ LetIn /\ server.secret # {} =>
       \E c \in request.cred :
         LET subject == IF c.token.sub = {} THEN {"anonymous"} ELSE c.token.sub
         IN  /\ \A nbf \in c.token.nbf : nbf <= now
             /\ answer'.verdict = "served" => \A e \in answer'.entry : e.user = subject
             /\ answer'.verdict = "panicked" => subject = {"m"}
<1>1. DeploymentInv /\ [Next]_vars => A
  <2> SUFFICES ASSUME DeploymentInv, [Next]_vars, Answered, LetIn, server.secret # {}
               PROVE  \E c \in request.cred :
                        LET subject == IF c.token.sub = {} THEN {"anonymous"} ELSE c.token.sub
                        IN  /\ \A nbf \in c.token.nbf : nbf <= now
                            /\ answer'.verdict = "served" =>
                                 \A e \in answer'.entry : e.user = subject
                            /\ answer'.verdict = "panicked" => subject = {"m"}
    OBVIOUS
  <2>1. AnswerStep
    BY OnlyLayersAnswer
  <2>2. PICK c \in request.cred :
          /\ Cred = {c.token} /\ c \in wallet /\ InForce(c.token, now)
          /\ \A sub \in c.token.sub : InHeader(sub)
    BY <2>1, LetInIsAuthenticated
  <2> DEFINE subject == IF c.token.sub = {} THEN {"anonymous"} ELSE c.token.sub
  <2>3. User = subject
    BY <2>2 DEF User, AuthedSub
  <2>4. \A nbf \in c.token.nbf : nbf <= now
    <3>1. c.token.nbf \subseteq Nat /\ now \in Nat
      BY <2>2, TokensAreTyped, BoundsAssumption DEF DeploymentInv, RequestInv
    <3> QED
      BY <2>2, <3>1 DEF InForce
  <2>5. answer'.verdict = "served" => \A e \in answer'.entry : e.user = subject
    <3>1. answer'.verdict = "served" => Serve
      BY <2>1 DEF AnswerStep, Forbid, Refuse, Panic, Respond
    <3>2. ASSUME Serve, NEW e \in answer'.entry
          PROVE  e.user = subject
      <4>1. answer'.entry = IF Logs THEN {[user |-> User, sink |-> Sink(server)]} ELSE {}
        BY ONLY <3>2 DEF Serve, Respond
      <4>2. e = [user |-> User, sink |-> Sink(server)]
        BY ONLY <3>2, <4>1
      <4> QED
        BY ONLY <2>3, <4>2
    <3> QED
      BY <3>1, <3>2
  <2>6. answer'.verdict = "panicked" => subject = {"m"}
    <3> SUFFICES ASSUME answer'.verdict = "panicked"
                 PROVE  subject = {"m"}
      OBVIOUS
    <3>1. Panic
      BY <2>1 DEF AnswerStep, Forbid, Refuse, Serve, Respond
    <3>2. PICK user \in subject : ~ Plain(user)
      BY <2>3, <3>1 DEF Panic
    <3>3. c.token.sub # {} /\ user \in c.token.sub
      BY <3>2 DEF Plain
    <3>4. user = "m"
      BY <2>2, <3>2, <3>3 DEF InHeader
    <3>5. \A s, u \in c.token.sub : s = u
      BY <2>2, TokensAreTyped DEF DeploymentInv
    <3> QED
      BY <3>3, <3>4, <3>5
  <2> QED
    BY <2>4, <2>5, <2>6
<1> QED
  BY <1>1, DeploymentInvariant, PTL DEF Spec, UserIsSubject

(***************************************************************************)
(* What is served is served as the files say, whatever failed at the start *)
(* and however often it was tried: ACL, secret and backend are those of    *)
(* the files the server was started with.                                  *)
(***************************************************************************)
THEOREM ServedAsConfigured == Spec => ServesAsConfigured
<1> DEFINE A == Answered /\ answer'.verdict = "served" /\ fresh =>
       /\ files.config = "good" /\ files.acl # "bad"
       /\ files.acl = "good" => request.listed
       /\ files.secret # {} => \E c \in request.cred : c.token.key \in files.secret
       /\ answer'.entry = {} <=> files.backend = "none"
       /\ \A e \in answer'.entry :
            /\ e.sink.backend = files.backend
            /\ files.section = "read" => e.sink.name = "named"
            /\ files.section = "none" => e.sink.name = "default"
<1>1. DeploymentInv /\ [Next]_vars => A
  <2> SUFFICES ASSUME DeploymentInv, [Next]_vars, Answered,
                      answer'.verdict = "served", fresh
               PROVE  /\ files.config = "good" /\ files.acl # "bad"
                      /\ files.acl = "good" => request.listed
                      /\ files.secret # {} =>
                           \E c \in request.cred : c.token.key \in files.secret
                      /\ answer'.entry = {} <=> files.backend = "none"
                      /\ \A e \in answer'.entry :
                           /\ e.sink.backend = files.backend
                           /\ files.section = "read" => e.sink.name = "named"
                           /\ files.section = "none" => e.sink.name = "default"
    OBVIOUS
  <2>1. AnswerStep
    BY OnlyLayersAnswer
  <2>2. Serve
    BY <2>1 DEF AnswerStep, Forbid, Refuse, Panic, Respond
  <2>3. server = files /\ files.config = "good" /\ files.acl # "bad"
    BY <2>2 DEF Serve, Awaited, DeploymentInv, ServerInv
  <2>4. files.acl = "good" => request.listed
    BY <2>2, <2>3 DEF Serve, Admitted
  <2>5. files.secret # {} => \E c \in request.cred : c.token.key \in files.secret
    BY <2>1, <2>2, <2>3, LetInIsAuthenticated DEF Serve, Admitted
  <2>6. /\ answer'.entry = {} <=> files.backend = "none"
        /\ \A e \in answer'.entry :
             /\ e.sink.backend = files.backend
             /\ files.section = "read" => e.sink.name = "named"
             /\ files.section = "none" => e.sink.name = "default"
    <3>1. answer'.entry = IF Logs THEN {[user |-> User, sink |-> Sink(server)]} ELSE {}
      BY ONLY <2>2 DEF Serve, Respond
    <3>2. Logs <=> files.backend # "none"
      BY ONLY <2>3 DEF Logs
    <3>3. ASSUME NEW e \in answer'.entry
          PROVE  e.sink = Sink(files)
      BY ONLY <2>3, <3>1, <3>3
    <3>4. answer'.entry = {} <=> files.backend = "none"
      BY ONLY <3>1, <3>2
    <3>5. /\ Sink(files).backend = files.backend
          /\ files.section = "read" => Sink(files).name = "named"
          /\ files.section = "none" => Sink(files).name = "default"
      BY DEF Sink
    <3> QED
      BY ONLY <3>3, <3>4, <3>5
  <2> QED
    BY <2>3, <2>4, <2>5, <2>6
<1> QED
  BY <1>1, DeploymentInvariant, PTL DEF Spec, ServesAsConfigured

=============================================================================
