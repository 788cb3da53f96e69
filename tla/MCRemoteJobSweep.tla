-------------------------- MODULE MCRemoteJobSweep -------------------------
(* Two shards.  The first leaf has one survivor or, while the new job is   *)
(* in use, as many as a pass visits: if it stays in use, the sweep is held *)
(* up there, and the due job in the second leaf is out of its reach.  A    *)
(* pass takes one of them at a time, and so it does with the root.  It     *)
(* cannot read both leaves of the second shard.                            *)
EXTENDS RemoteJobSweep

MCShards == <<"s0", "s1">>
MCLeaves ==
    [s \in {"s0", "s1"} |-> IF s = "s0" THEN <<"b0c0", "b1c0">>
                                        ELSE <<"b7c7", "b9c9">>]
MCBucket ==
    [l \in {"b0c0", "b1c0", "b7c7", "b9c9"} |->
       CASE l = "b0c0" -> "b0" [] l = "b1c0" -> "b1"
         [] l = "b7c7" -> "b7" [] l = "b9c9" -> "b9"]
MCContent ==
    [l \in {"b0c0", "b1c0", "b7c7", "b9c9"} |->
       CASE l = "b0c0" -> <<"j1", "j2">>
         [] l = "b1c0" -> <<"stuck", "j4">>
         [] l = "b7c7" -> <<"junk", "j3">>
         [] l = "b9c9" -> <<"junk", "junk", "junk">>]
MCLegacy == <<"flat1", "file", "flat2">>
MCEntries ==
    {"j1", "j2", "j3", "j4", "stuck", "junk", "flat1", "flat2", "file"}
=============================================================================
