---------------------------- MODULE MCDbJobQueue ----------------------------
(* Instances of DbJobQueue for TLC. *)
EXTENDS DbJobQueue, TLC

CONSTANTS j1, j2, j3
MCJobs3 == {j1, j2, j3}
Symmetry3 == Permutations(MCJobs3)

AllOps == {"connect", "disconnect", "exec", "query", "callback", "poll", "free",
           "loglevel", "shutdown"}
ReentrantOps == AllOps \ {"loglevel", "shutdown"}
DisconnectOps == {"connect", "disconnect", "query"}
LiveOps == AllOps \ {"query", "loglevel"}
=============================================================================
