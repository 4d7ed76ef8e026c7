------------------------------ MODULE MCServer ------------------------------
(* Small instances of the server: a few connections under two or three       *)
(* names, among them a client that comes back (b2 after b1), and the commands*)
(* they may send.                                                            *)
EXTENDS ServerProperties

CONSTANTS a1, b1, b2

(* a1, and b1 and its second life b2.                                        *)
ThreeHdl == {a1, b1, b2}
PairHdl == {a1, b1}

Names == {"A", "B", "undefined"}
MCUriAlias == [h \in Hdl |-> IF h = a1 THEN "A" ELSE "B"]
NamelessUriAlias == [h \in Hdl |-> IF h = a1 THEN "A" ELSE "undefined"]

SetMethodCommand(to) ==
    [method |-> "ImgRetransmission", from |-> "FromAlisa", to |-> "ToAlisa", names |-> to]

Only(h, texts) == [g \in Hdl |-> IF g = h THEN texts ELSE {}]

AToB == Only(a1, {SetMethodCommand(<<"B">>)})
AToAB == Only(a1, {SetMethodCommand(<<"A", "B">>)})
ATwiceToB == Only(a1, {SetMethodCommand(<<"B", "B">>)})
Mutual == [h \in Hdl |-> {SetMethodCommand(IF h = a1 THEN <<"B">> ELSE <<"A">>)}]
=============================================================================
