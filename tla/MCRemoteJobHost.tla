-------------------------- MODULE MCRemoteJobHost --------------------------
(* Model values for RemoteJobHost.  Jobs share no state on the host, so one *)
(* job shows every interleaving of the processes that act on it.            *)
EXTENDS RemoteJobHost

CONSTANT j1

MCJobs == {j1}
=============================================================================
