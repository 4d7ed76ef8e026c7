------------------------------ MODULE Transport ------------------------------
(* The websocketpp connections the server stands on, as far as the server's  *)
(* own code can tell one from another: what state session::state a           *)
(* connection is in, and which messages its send() has accepted.             *)
(*                                                                           *)
(* A connection never comes back: a client that reconnects is a new handle.  *)
EXTENDS Naturals, Sequences

CONSTANT Hdl          \* the connection handles, one per accepted connection

VARIABLES conn,       \* conn[h]: the state of connection h
          outbox      \* outbox[h]: the messages send() has accepted for h

tvars == <<conn, outbox>>

(* "none": not upgraded yet.  "open": m_state = open.  "closing": a close    *)
(* frame was sent or answered.  "closed": m_state = closed; shutting down a  *)
(* plain socket does not wait, so the close handler is called as well.       *)
ConnState == {"none", "open", "closing", "closed"}

(* What the server sends: its greeting, the reply to a command, the two      *)
(* warnings of feedFrame, and the frames it forwards; src and n name a frame *)
(* by its producer and its place in what the producer sent.                  *)
Kind == {"got", "ok", "undef", "warn", "frame"}
Msg == [kind : Kind, src : Hdl, n : Nat]

Notice(kind, h) == [kind |-> kind, src |-> h, n |-> 0]
FrameMsg(s, k) == [kind |-> "frame", src |-> s, n |-> k]

TransportTypeOK ==
    /\ conn \in [Hdl -> ConnState]
    /\ outbox \in [Hdl -> Seq(Msg)]

TransportInit ==
    /\ conn = [h \in Hdl |-> "none"]
    /\ outbox = [h \in Hdl |-> <<>>]

-----------------------------------------------------------------------------
(* send() reports invalid_state, and drops the message, unless m_state is    *)
(* open.                                                                     *)
Accepts(h) == conn[h] = "open"

Sent(h, m) ==
    outbox' = IF Accepts(h) THEN [outbox EXCEPT ![h] = Append(@, m)] ELSE outbox

(* The upgrade response has been written: the connection is open, and the    *)
(* open handler is called from the same network-thread callback.             *)
Upgraded(h) ==
    /\ conn[h] = "none"
    /\ conn' = [conn EXCEPT ![h] = "open"]

(* The server closes a connection, or answers the peer's close frame.        *)
CloseSent(h) ==
    conn' = [conn EXCEPT ![h] = "closing"]

PeerClosed(h) ==
    /\ conn[h] = "open"
    /\ CloseSent(h)

(* The handshake ended, or the socket broke.                                 *)
Terminated(h) ==
    /\ conn[h] \in {"open", "closing"}
    /\ conn' = [conn EXCEPT ![h] = "closed"]

=============================================================================
