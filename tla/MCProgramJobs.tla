-------------------------- MODULE MCProgramJobs --------------------------
(* One job more than the registry holds: the second is accepted when the   *)
(* first has been forgotten, whether or not its task has ended.            *)
EXTENDS ProgramJobs
=============================================================================
