------------------------------ MODULE WsInvariant ------------------------------
(* The inductive invariant behind NothingLost, ClosedAfterAll and            *)
(* ImplementsLink.                                                           *)
EXTENDS WsProperties

(* How the state of an end goes with what its program has seen and with its  *)
(* queue.                                                                    *)
StateOf(e) ==
    /\ m_state[e] = "connecting" <=> New(e)
    /\ m_state[e] = "connecting" =>
          /\ held[e] = {} /\ pushed[e] = <<>>
          /\ m_send_queue[e] = <<>> /\ m_current_msgs[e] = <<>>
    /\ m_state[e] \in {"open", "closing"} => Last(calls[e]) \notin {"fail", "close"}
    /\ m_state[e] = "open" => Given(e) \in Seq(Msg)
    /\ m_was_clean[e] => m_state[e] \in {"closing", "closed"}
    /\ written[e] /\ m_current_msgs[e] = <<>> =>
          e = "server" /\ m_state[e] \in {"connecting", "closed"}

StateInv == \A e \in End : StateOf(e)

(* What has been pushed is what the peer has been given, what is under way,  *)
(* and what is left; of a closed end, more may never leave.                  *)
Left(e) == Unwritten(e) \o m_send_queue[e]

Carried(e) ==
    m_state[Other(e)] \in {"connecting", "open"} =>
       \E rest \in Seq(Frame) :
          /\ pushed[e] = UnderWay(e) \o rest
          /\ m_state[e] # "closed" => rest = Left(e)

(* Up to the first close frame, what was pushed is what was accepted.        *)
Agrees(e) ==
    /\ Len(accepted[e]) <= Len(pushed[e])
    /\ \A k \in 1..Len(pushed[e]) :
          (\A j \in 1..k : pushed[e][j] \in Msg) =>
             k <= Len(accepted[e]) /\ accepted[e][k] = pushed[e][k]

ConnectionInv ==
    /\ TypeOK
    /\ StateInv
    /\ \A e \in End : Carried(e)
    /\ \A e \in End : Agrees(e)

=============================================================================
