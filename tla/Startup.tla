------------------------------ MODULE Startup -------------------------------
(***************************************************************************)
(* The start of openai-hubd: openai-hubd/src/main.rs, ServerConfig::load,  *)
(* Server::from_config and Server::serve, Backend::create_with and the     *)
(* inits of the backends.  Meanwhile the operator may edit the files.      *)
(*                                                                         *)
(* The files: config.toml is "bad" if it cannot be read, is no TOML or has *)
(* no address; it may have a secret for [jwt-auth] and an [audit] backend, *)
(* whose log may be named in the section that config.toml shows            *)
(* ("documented": [audit.backends.sqlite]) or in the one that the code     *)
(* reads ("read": [audit.backends.sqlite_backend]).  acl.toml is missing,  *)
(* unsound ("bad"), or good.                                               *)
(***************************************************************************)
EXTENDS Naturals

CONSTANTS
  Secrets,
  FirstFiles,  \* what the files may be at first
  MaxEdits,    \* bound: how often the operator edits them
  MaxStarts    \* bound: how often the server is started

VARIABLES
  files, edits, starts,
  stage,   \* how far the server is
  server,  \* what it has read of the files
  failure, \* the error that main returned, or "none"
  fresh    \* the files are as they were when the server was started

startVars == <<files, edits, starts, stage, server, failure, fresh>>

Backends == {"none", "file", "sqlite", "mysql", "postgres"}
Files == [config : {"bad", "good"},
          secret : {{}} \cup {{s} : s \in Secrets},
          backend : Backends, section : {"none", "documented", "read"},
          acl : {"missing", "bad", "good"}]

ASSUME FilesAssumption == FirstFiles \subseteq Files
ASSUME StartsAssumption == MaxEdits \in Nat /\ MaxStarts \in Nat

StartInit ==
  /\ files \in FirstFiles /\ edits = 0 /\ starts = 0
  /\ stage = "down" /\ server = files /\ failure = "none"
  /\ fresh = FALSE

(* The server ends, or its start is given up. *)
Down(why) ==
  /\ stage' = "down" /\ failure' = why
  /\ UNCHANGED <<files, edits, starts, server, fresh>>

Onward(to) ==
  /\ stage' = to
  /\ UNCHANGED <<files, edits, starts, failure, fresh>>

-----------------------------------------------------------------------------
(* config.toml is read, and refused if it is bad. *)
ReadConfig ==
  /\ stage = "down" /\ starts < MaxStarts
  /\ starts' = starts + 1
  /\ IF files.config = "bad" THEN stage' = "down" /\ failure' = "config"
                             ELSE stage' = "configured" /\ failure' = "none"
  /\ server' = [files EXCEPT !.acl = "missing"]
  /\ fresh' = TRUE
  /\ UNCHANGED <<files, edits>>

(* Wrong on purpose: an unsound acl.toml is as good as none. *)
ReadAclLeniently ==
  /\ stage = "configured"
  /\ Onward("built")
  /\ server' = [server EXCEPT !.acl = files.acl]

(* acl.toml: if it cannot be read, there is none. *)
ReadAcl ==
  /\ stage = "configured"
  /\ IF files.acl = "bad" THEN Down("acl")
     ELSE Onward("built") /\ server' = [server EXCEPT !.acl = files.acl]

(* TcpListener::bind: from here on clients can connect. *)
Bind == stage = "built" /\ Onward("listening") /\ UNCHANGED server

(* The address is in use. *)
BindFails == stage = "built" /\ Down("address")

(* What init asks of the databases, as far as they differ in it: how the   *)
(* id of a row is counted up, and a column named user.                     *)
InitStatements ==
  [sqlite   |-> {"AUTOINCREMENT", "user"},
   mysql    |-> {"AUTO_INCREMENT", "user"},
   postgres |-> {"SERIAL", "AUTO_INCREMENT", "user"}]

(* What of it a database takes for a fault of syntax. *)
Refused ==
  [sqlite   |-> {"AUTO_INCREMENT"},
   mysql    |-> {"AUTOINCREMENT"},
   postgres |-> {"AUTOINCREMENT", "AUTO_INCREMENT", "user"}]

Databases == DOMAIN InitStatements

InitAccepted(backend) ==
  backend \in Databases => InitStatements[backend] \cap Refused[backend] = {}

(* Backend::create_with, before the first connection is accepted: the file *)
(* is opened, or the database connected to and the tables created.         *)
OpenBackend ==
  /\ stage = "listening" /\ InitAccepted(server.backend)
  /\ Onward("serving") /\ UNCHANGED server

(* Wrong on purpose: without its backend the server serves unaudited. *)
OpenBackendFailsQuietly ==
  /\ stage = "listening" /\ server.backend # "none"
  /\ Onward("serving")
  /\ server' = [server EXCEPT !.backend = "none"]

(* The file cannot be opened, the database does not answer. *)
OpenBackendFails ==
  /\ stage = "listening" /\ server.backend # "none"
  /\ Down("store")

(* The database answers, with an error. *)
InitFails ==
  /\ stage = "listening" /\ ~ InitAccepted(server.backend)
  /\ Down("statement")

(* The server is stopped, or killed. *)
Stop == stage # "down" /\ Down("none")

-----------------------------------------------------------------------------
(* The operator changes one thing. *)
Edit ==
  /\ edits < MaxEdits
  /\ edits' = edits + 1
  /\ \E f \in Files :
       /\ files' = f
       /\ \E member \in DOMAIN f : f = [files EXCEPT ![member] = f[member]] /\ f # files
  /\ fresh' = FALSE
  /\ UNCHANGED <<starts, stage, server, failure>>

\* Where the entries go: to the log that is named in the section the code
\* reads, or to one of a name that the code has.  (A section, where there is
\* one, gives the log another name than that.)
Sink(f) == [backend |-> f.backend,
            name |-> IF f.section = "read" THEN "named" ELSE "default"]

=============================================================================
