------------------------------ MODULE MCClients ------------------------------
(* A small instance: four pictures, of which no more than one may be left    *)
(* waiting; and names of up to two symbols, the marks of the protocol among   *)
(* them.                                                                     *)
EXTENDS ClientProperties

MCPicture == <<"p1", "p2", "p3", "p4">>
MCMsg == {"Got", "SetMethod", "OK"} \cup ToSet(MCPicture)
MCTyped == UNION {[1..n -> {"x", ",", "&", "=", "?"}] : n \in 0..2}
=============================================================================
