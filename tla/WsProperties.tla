----------------------------- MODULE WsProperties -----------------------------
(* What is checked, and but for HandshakesEnd proved, of a connection.       *)
EXTENDS WsConnection

(* A frame in the queue is never forgotten: as long as no write is           *)
(* outstanding, a callback of write_frame is on its way; and a write is      *)
(* outstanding only where a frame is being written, or the end is closed     *)
(* (write_frame, handle_write_frame and send() share m_write_flag).          *)
WriteScheduled ==
    \A e \in End :
       /\ m_send_queue[e] # <<>> /\ ~m_write_flag[e] => posted[e] > 0
       /\ m_write_flag[e] /\ m_current_msgs[e] = <<>> => m_state[e] = "closed"

(* Nothing is lost, repeated or overtaken on the way to an open end,         *)
(* whichever threads send: what the peer has pushed is what this end has been*)
(* given, what is under way, and the rest of the peer's queue; once the peer *)
(* is closed, what was under way is still the next.                          *)
Given(e) == IF New(e) THEN <<>> ELSE Tail(calls[e])
Unwritten(e) == IF written[e] THEN <<>> ELSE m_current_msgs[e]
UnderWay(e) == Given(Other(e)) \o wire[e]

NothingLost ==
    \A e \in End : m_state[Other(e)] \in {"connecting", "open"} =>
       /\ m_state[e] # "closed" =>
             pushed[e] = UnderWay(e) \o (Unwritten(e) \o m_send_queue[e])
       /\ IsPrefix(UnderWay(e), pushed[e])

(* The two programs see what Link says: in particular, no handler is called  *)
(* again by a late timer, a failed write, or an end of the stream after the  *)
(* end has been terminated, and messages come in order.                      *)
ImplementsLink == LinkSpec

(* Who answers the peer's close frame has been given everything the peer     *)
(* sent before it.                                                           *)
ClosedAfterAll ==
    [][\A e \in End :
         m_state[e] = "open" /\ m_state'[e] = "closing" /\ m_was_clean'[e] =>
            IsPrefix(Given(e), pushed[Other(e)])
            /\ pushed[Other(e)][Len(Given(e)) + 1] \in CloseFrame]_vars

-----------------------------------------------------------------------------
(* The io_service does not stay idle with a callback ready, and timers       *)
(* expire. What the network delivers, and when, is not assumed; nor what the *)
(* program does.                                                             *)
Callback(e) ==
    \/ WriteFrame(e) \/ HandleWriteFrame(e) \/ HandleLastWrite(e)
    \/ TimerExpires(e) \/ HandshakeTimeout(e)

FairSpec == Spec /\ \A e \in End : WF_vars(Callback(e))

(* No end waits for ever: an opening handshake and a closing one come to an  *)
(* end whatever the peer and the network do.                                 *)
HandshakesEnd ==
    \A e \in End : m_state[e] \in {"connecting", "closing"} ~> m_state[e] \in {"open", "closed"}

=============================================================================
