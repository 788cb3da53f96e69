------------------------- MODULE MCDigestPromotion -------------------------
(* Three publications: an index of two images that share a layer, one of   *)
(* those images alone, and an artifact whose subject is the other image.   *)
(* The first two share a tag.                                              *)
EXTENDS DigestPromotion

MCRuns == {"release", "branch", "artifact"}
MCManifests == {"index", "amd", "arm", "report"}
MCBlobs == {"config", "base", "layer"}
MCRefs ==
    [m \in MCManifests |->
       CASE m = "index"  -> <<"amd", "arm", "amd">>
         [] m = "amd"    -> <<"base", "config">>
         [] m = "arm"    -> <<"layer", "base">>
         [] m = "report" -> <<"config", "arm">>]
MCWanted ==
    [r \in MCRuns |->
       CASE r = "release" -> "index" [] r = "branch" -> "amd" [] r = "artifact" -> "report"]
MCTagList ==
    [r \in MCRuns |->
       CASE r = "release"  -> <<"sha", "version">>
         [] r = "branch"   -> <<"sha">>
         [] r = "artifact" -> <<"report-tag">>]
=============================================================================
