---------------------------- MODULE MCDeployment ----------------------------
(* Instances of Deployment for TLC.                                         *)
EXTENDS Deployment

\* Before the operator's edit: with and without authentication.
SomeFiles ==
  {[config |-> "good", secret |-> {"s1"}, backend |-> "sqlite", section |-> "none",
    acl |-> "good"],
   [config |-> "good", secret |-> {}, backend |-> "mysql", section |-> "read",
    acl |-> "missing"]}

\* In 5 bits 8 years are 96 months, or none; 25 months are too long for chrono.
SomePeriods == {{}, {<<1, "d">>}, {<<1, "m">>}, {<<8, "y">>}, {<<25, "m">>}}
SomeSubjects == {{}, {"m"}, {"line\nbreak"}}
SomeTokens == {Tokens("s1", {"alice"}, {1}, {2}), Tokens("s2", {}, {}, {})}
SomeClaims == {{"mallory"}, {"m"}}

\* The section that config.toml shows for the log in a file.
FileFiles ==
  {[config |-> "good", secret |-> {}, backend |-> "file", section |-> "documented",
    acl |-> "missing"]}

\* One file for each backend that config.toml offers.
OfferedFiles ==
  {[config |-> "good", secret |-> {}, backend |-> b, section |-> "read", acl |-> "good"] :
     b \in {"file", "sqlite", "mysql", "postgres"}}

NoTokens == {}

=============================================================================
