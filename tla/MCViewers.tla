------------------------------- MODULE MCViewers -------------------------------
(* A small instance of the main window: an image that comes and goes, whose  *)
(* viewer lives twice and opens two sockets in its first life.               *)
EXTENDS ViewerProperties

CONSTANTS o1, o2, s1, s2, s3

Image == <<0, 1>>

MCObj == {o1, o2}
MCIdOf == [o \in MCObj |-> Image]
MCSock == {s1, s2, s3}
MCObjOf == [s \in MCSock |-> IF s = s3 THEN o2 ELSE o1]
=============================================================================
