----------------------------- MODULE MCFilePatch ----------------------------
(* Two patches that expect the same content, and a write, of one file; and *)
(* a patch of a file that is not there, for which they wait all the same.  *)
EXTENDS FilePatch

MCTarget == [o \in {"p1", "p2", "p3", "w1"} |-> IF o = "p3" THEN "g" ELSE "f"]
MCExpected == [o \in {"p1", "p2", "p3"} |-> "a"]
MCNew == [o \in {"p1", "p2", "p3", "w1"} |->
            CASE o = "p1" -> "b" [] o = "p2" -> "c" [] OTHER -> "d"]
MCInitially == [f \in {"f", "g"} |-> IF f = "f" THEN "a" ELSE "-"]
=============================================================================
