------------------------ MODULE MCPermissionManager ------------------------
(* PermissionManager with a target that is also a pattern: "git *" covers  *)
(* "git push" and itself.                                                  *)
EXTENDS PermissionManager, TLC

CONSTANTS gitStar, gitPush, writeFile, daemon, cli, batch

SomeTargets == {gitStar, gitPush, writeFile}
GitStarMatches == {<<t, t>> : t \in SomeTargets} \cup {<<gitStar, gitPush>>}

EveryMode == [m \in Manager |-> CASE m = daemon -> "scoped"
                                  [] m = cli    -> "ask_every_time"
                                  [] m = batch  -> "total_access"]
=============================================================================
