---------------------------- MODULE AliasRegistry ----------------------------
(* What the control module promises about names, with no threads, no locks   *)
(* and no objects: a name belongs to at most one connection, a connection    *)
(* that is open keeps the name it got, and a name changes hands only through *)
(* a moment at which it belongs to nobody.                                   *)
CONSTANTS Hdl, Alias, NoCon

VARIABLES owner,     \* owner[a]: who has the name a, or NoCon
          presence   \* presence[h]: "new", "here" or "gone"

Init ==
    /\ owner = [a \in Alias |-> NoCon]
    /\ presence = [h \in Hdl |-> "new"]

Arrive(h) ==
    /\ presence[h] = "new"
    /\ presence' = [presence EXCEPT ![h] = "here"]
    /\ UNCHANGED owner

Leave(h) ==
    /\ presence[h] = "here"
    /\ presence' = [presence EXCEPT ![h] = "gone"]
    /\ UNCHANGED owner

Claim(h, a) ==
    /\ presence[h] = "here"
    /\ owner[a] = NoCon
    /\ \A b \in Alias : owner[b] # h
    /\ owner' = [owner EXCEPT ![a] = h]
    /\ UNCHANGED presence

(* Only what a connection that has gone leaves behind is given up.           *)
Release(a) ==
    /\ owner[a] # NoCon
    /\ presence[owner[a]] = "gone"
    /\ owner' = [owner EXCEPT ![a] = NoCon]
    /\ UNCHANGED presence

Next ==
    \/ \E h \in Hdl : Arrive(h) \/ Leave(h) \/ \E a \in Alias : Claim(h, a)
    \/ \E a \in Alias : Release(a)

Spec == Init /\ [][Next]_<<owner, presence>>

=============================================================================
