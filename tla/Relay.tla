-------------------------------- MODULE Relay --------------------------------
(* What the server promises about frames: a client receives, of what another *)
(* client has sent, only frames its name was asked for; each at most once;   *)
(* in the order they were sent. Frames may be lost: a full pool is emptied,  *)
(* and nothing is kept for a receiver that is away.                          *)
EXTENDS Naturals, Sequences

CONSTANTS Hdl, Alias, NameOf

VARIABLES wanted,    \* wanted[s]: the names s asked the server to forward to
          sent,      \* sent[s]: the number of frames s has sent
          got        \* got[t]: the frames, <<producer, number>>, passed on to t

Init ==
    /\ wanted = [s \in Hdl |-> {}]
    /\ sent = [s \in Hdl |-> 0]
    /\ got = [t \in Hdl |-> <<>>]

Ask(s) ==
    /\ \E names \in SUBSET Alias : wanted' = [wanted EXCEPT ![s] = @ \cup names]
    /\ UNCHANGED <<sent, got>>

Produce(s) ==
    /\ sent' = [sent EXCEPT ![s] = @ + 1]
    /\ UNCHANGED <<wanted, got>>

Fresh(s, t, n) ==
    \A i \in 1..Len(got[t]) : got[t][i][1] = s => got[t][i][2] < n

PassOn(s, t) ==
    /\ NameOf[t] \in wanted[s]
    /\ \E n \in 1..sent[s] :
          /\ Fresh(s, t, n)
          /\ got' = [got EXCEPT ![t] = Append(@, <<s, n>>)]
    /\ UNCHANGED <<wanted, sent>>

Next ==
    \E s \in Hdl : Ask(s) \/ Produce(s) \/ \E t \in Hdl : PassOn(s, t)

Spec == Init /\ [][Next]_<<wanted, sent, got>>

=============================================================================
