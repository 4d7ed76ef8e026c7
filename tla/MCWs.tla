--------------------------------- MODULE MCWs ---------------------------------
(* A small instance: a client and a server with a message each, either of    *)
(* of which may close.                                                       *)
EXTENDS WsProperties

MCMsg == {"c1", "s1"}
MCPayload == [e \in End |-> IF e = "client" THEN {"c1"} ELSE {"s1"}]
=============================================================================
