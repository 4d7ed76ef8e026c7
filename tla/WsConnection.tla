----------------------------- MODULE WsConnection -----------------------------
(* websocketpp's connection, the library below the server and the camera     *)
(* client: the two ends of one connection, from the opening handshake to the *)
(* close handler. An end has a network thread, which runs the callbacks of   *)
(* its io_service one after the other, and other threads that call send().   *)
(*                                                                           *)
(* terminate() runs to the close handler in one callback: shutting down a    *)
(* plain socket does not wait.                                               *)
EXTENDS Link

CONSTANTS
    Payload,           \* Payload[e]: the messages end e may send
    Closers            \* the ends whose program calls close()

ASSUME PayloadAssumption == \A e \in End : Payload[e] \subseteq Msg
ASSUME ClosersAssumption == Closers \subseteq End

VARIABLES
    m_state,           \* session::state
    m_internal_state,  \* istate
    m_send_queue,      \* frames waiting for a write
    m_current_msgs,    \* the frame being written, if there is one
    m_write_flag,      \* a write is outstanding
    posted,            \* callbacks of write_frame in the io_service
    written,           \* the outstanding write is done, its callback is not
    m_handshake_timer, \* a timer is armed
    expired,           \* one has expired, its callback is still to come
    m_was_clean,       \* the closing handshake has been seen from both sides
    held,              \* messages whose send() has looked at m_state and not
                       \* yet pushed
    wire,              \* wire[e]: the frames e has written and the peer not
                       \* yet read; then comes the end, once e is closed
    broken,            \* the transport has failed
    pushed             \* pushed[e]: all frames of e that came into its queue

queues == <<m_send_queue, m_current_msgs, m_write_flag, posted, pushed>>
timers == <<m_handshake_timer, expired>>
vars == <<linkvars, m_state, m_internal_state, queues, written, timers, m_was_clean,
          held, wire, broken>>

(* "bye" is a close frame marked terminal. *)
CloseFrame == {"close", "bye"}
Frame == Msg \cup CloseFrame

TypeOK ==
    /\ accepted \in [End -> Seq(Msg)]
    /\ calls \in [End -> Seq(Msg \cup {"open", "fail", "close"})]
    /\ m_state \in [End -> {"connecting", "open", "closing", "closed"}]
    /\ m_internal_state \in [End -> {"READ_HTTP_REQUEST", "PROCESS_HTTP_REQUEST",
           "WRITE_HTTP_REQUEST", "READ_HTTP_RESPONSE", "PROCESS_CONNECTION"}]
    /\ m_send_queue \in [End -> Seq(Frame)]
    /\ m_current_msgs \in [End -> Seq(Frame)]
    /\ m_write_flag \in [End -> BOOLEAN]
    /\ posted \in [End -> Nat]
    /\ written \in [End -> BOOLEAN]
    /\ m_handshake_timer \in [End -> BOOLEAN]
    /\ expired \in [End -> BOOLEAN]
    /\ m_was_clean \in [End -> BOOLEAN]
    /\ held \in [End -> SUBSET Msg]
    /\ wire \in [End -> Seq(Frame)]
    /\ broken \in BOOLEAN
    /\ pushed \in [End -> Seq(Frame)]

(* The sockets are connected; both ends have called start(), which arms the  *)
(* timer of the opening handshake.                                           *)
Init ==
    /\ LinkInit
    /\ m_state = [e \in End |-> "connecting"]
    /\ m_internal_state = [e \in End |->
           IF e = "server" THEN "READ_HTTP_REQUEST" ELSE "WRITE_HTTP_REQUEST"]
    /\ m_send_queue = [e \in End |-> <<>>]
    /\ m_current_msgs = [e \in End |-> <<>>]
    /\ m_write_flag = [e \in End |-> FALSE]
    /\ posted = [e \in End |-> 0]
    /\ written = [e \in End |-> FALSE]
    /\ m_handshake_timer = [e \in End |-> TRUE]
    /\ expired = [e \in End |-> FALSE]
    /\ m_was_clean = [e \in End |-> FALSE]
    /\ held = [e \in End |-> {}]
    /\ wire = [e \in End |-> <<>>]
    /\ broken = FALSE
    /\ pushed = [e \in End |-> <<>>]

-----------------------------------------------------------------------------
Set(f, e, v) == [f EXCEPT ![e] = v]

(* write_push and, unless a write is outstanding, a callback of write_frame. *)
Push(e, f) ==
    /\ m_send_queue' = [m_send_queue EXCEPT ![e] = Append(@, f)]
    /\ pushed' = [pushed EXCEPT ![e] = Append(@, f)]
    /\ posted' = IF m_write_flag[e] THEN posted ELSE [posted EXCEPT ![e] = @ + 1]
    /\ UNCHANGED <<m_current_msgs, m_write_flag>>

PushMsg(e, m) == Push(e, m) /\ Accepts(e, m)

(* A bug that would show: control frames that overtake data in the queue.    *)
SendCloseFrameFirst(e, f, ack) ==
    /\ m_state' = Set(m_state, e, "closing")
    /\ m_was_clean' = IF ack THEN Set(m_was_clean, e, TRUE) ELSE m_was_clean
    /\ m_handshake_timer' = Set(m_handshake_timer, e, TRUE)
    /\ m_send_queue' = [m_send_queue EXCEPT ![e] = <<f>> \o @]
    /\ pushed' = [pushed EXCEPT ![e] = Append(@, f)]
    /\ posted' = [posted EXCEPT ![e] = @ + 1]
    /\ UNCHANGED <<m_current_msgs, m_write_flag>>

(* A bug that would show: no timer for the closing handshake.                *)
SendCloseFrameUntimed(e, f, ack) ==
    /\ m_state' = Set(m_state, e, "closing")
    /\ m_was_clean' = IF ack THEN Set(m_was_clean, e, TRUE) ELSE m_was_clean
    /\ UNCHANGED m_handshake_timer
    /\ Push(e, f)

(* send_close_frame. Only the acknowledgement of a server is terminal.       *)
SendCloseFrame(e, f, ack) ==
    /\ m_state' = Set(m_state, e, "closing")
    /\ m_was_clean' = IF ack THEN Set(m_was_clean, e, TRUE) ELSE m_was_clean
    /\ m_handshake_timer' = Set(m_handshake_timer, e, TRUE)
    /\ Push(e, f)

(* terminate and handle_terminate, for an end that is not yet closed: the    *)
(* program is told, by its fail or its close handler.                        *)
Terminate(e) ==
    /\ m_state' = Set(m_state, e, "closed")
    /\ m_handshake_timer' = Set(m_handshake_timer, e, FALSE)
    /\ Called(e, IF m_state[e] = "connecting" THEN "fail" ELSE "close")

(* A bug that would show: the program is told once more.                     *)
TerminateTwice(e) == Terminate(e)

TerminateAgain(e) ==
    IF m_state[e] = "closed" THEN UNCHANGED <<m_state, m_handshake_timer, calls>>
    ELSE Terminate(e)

-----------------------------------------------------------------------------
(* send(), outside the callbacks: the state is looked at under one lock, the *)
(* message pushed under another. Within a callback nothing that changes the  *)
(* state comes in between.                                                   *)
Unsent(e) == Payload[e] \ (held[e] \cup ToSet(pushed[e]))

SendCheck(e, m) ==
    /\ m_state[e] = "open" /\ m \in Unsent(e)
    /\ held' = [held EXCEPT ![e] = @ \cup {m}]
    /\ UNCHANGED <<linkvars, m_state, m_internal_state, queues, written, timers,
                   m_was_clean, wire, broken>>

SendPush(e, m) ==
    /\ m \in held[e]
    /\ held' = [held EXCEPT ![e] = @ \ {m}]
    /\ PushMsg(e, m)
    /\ UNCHANGED <<calls, m_state, m_internal_state, written, timers, m_was_clean,
                   wire, broken>>

(* A handler of the program: it may send. *)
Handler(e) ==
    \/ UNCHANGED <<queues, accepted>>
    \/ \E m \in Unsent(e) : PushMsg(e, m)

CloseCall(e) ==
    /\ m_state[e] = "open" /\ e \in Closers
    /\ SendCloseFrame(e, "close", FALSE)
    /\ UNCHANGED <<linkvars, m_internal_state, written, expired, held, wire, broken>>

-----------------------------------------------------------------------------
(* The opening handshake. A callback that finds its end closed does nothing. *)
Handshaking(e, istate) == m_state[e] = "connecting" /\ m_internal_state[e] = istate

Opened(e) ==
    /\ m_state' = Set(m_state, e, "open")
    /\ m_internal_state' = Set(m_internal_state, e, "PROCESS_CONNECTION")
    /\ m_handshake_timer' = Set(m_handshake_timer, e, FALSE)
    /\ Called(e, "open")
    /\ Handler(e)
    /\ UNCHANGED <<expired, m_was_clean, held, wire, broken>>

SendHttpRequest ==
    /\ Handshaking("client", "WRITE_HTTP_REQUEST") /\ ~broken
    /\ m_internal_state' = Set(m_internal_state, "client", "READ_HTTP_RESPONSE")
    /\ UNCHANGED <<linkvars, m_state, queues, written, timers, m_was_clean, held, wire, broken>>

ReadHandshake ==
    /\ Handshaking("server", "READ_HTTP_REQUEST")
    /\ m_internal_state["client"] # "WRITE_HTTP_REQUEST"
    /\ m_internal_state' = Set(m_internal_state, "server", "PROCESS_HTTP_REQUEST")
    /\ UNCHANGED <<linkvars, m_state, queues, written, timers, m_was_clean, held, wire, broken>>

WriteHttpResponse ==
    /\ Handshaking("server", "PROCESS_HTTP_REQUEST") /\ ~written["server"] /\ ~broken
    /\ written' = Set(written, "server", TRUE)
    /\ UNCHANGED <<linkvars, m_state, m_internal_state, queues, timers, m_was_clean, held,
                   wire, broken>>

HandleWriteHttpResponse ==
    /\ Handshaking("server", "PROCESS_HTTP_REQUEST") /\ written["server"]
    /\ written' = Set(written, "server", FALSE)
    /\ Opened("server")

(* The response may be read, and answered, before the server has seen that   *)
(* it is written.                                                            *)
ResponseWritten ==
    written["server"] \/ m_internal_state["server"] = "PROCESS_CONNECTION"

ReadHttpResponse ==
    /\ Handshaking("client", "READ_HTTP_RESPONSE") /\ ResponseWritten
    /\ Opened("client")
    /\ UNCHANGED written

-----------------------------------------------------------------------------
(* Reading. *)
Reading(e) == m_state[e] \in {"open", "closing"}
(* A bug that would show: control frames are given to the program.           *)
NextFrameAnyOpcode(e, frames) == wire[Other(e)] # <<>>

NextFrame(e, frames) == wire[Other(e)] # <<>> /\ Head(wire[Other(e)]) \in frames
FrameRead(e) == [wire EXCEPT ![Other(e)] = Tail(@)]

ReadData(e) ==
    /\ Reading(e) /\ NextFrame(e, Msg)
    /\ wire' = FrameRead(e)
    /\ IF m_state[e] = "open"
       THEN Called(e, Head(wire[Other(e)])) /\ Handler(e)
       ELSE UNCHANGED <<linkvars, queues>>
    /\ UNCHANGED <<m_state, m_internal_state, written, timers, m_was_clean, held, broken>>

(* process_control_frame. The peer starts to close: it is acknowledged.      *)
ReadClose(e) ==
    /\ m_state[e] = "open" /\ NextFrame(e, CloseFrame)
    /\ wire' = FrameRead(e)
    /\ SendCloseFrame(e, IF e = "server" THEN "bye" ELSE "close", TRUE)
    /\ UNCHANGED <<linkvars, m_internal_state, written, expired, held, broken>>

(* The peer acknowledges: a server ends the connection, a client waits for   *)
(* the server to do so. A second close frame is ignored.                     *)
ReadCloseAck(e) ==
    /\ m_state[e] = "closing" /\ NextFrame(e, CloseFrame)
    /\ wire' = FrameRead(e)
    /\ m_was_clean' = Set(m_was_clean, e, TRUE)
    /\ IF e = "server" /\ ~m_was_clean[e]
       THEN /\ m_state' = Set(m_state, e, "closed")
            /\ m_handshake_timer' = Set(m_handshake_timer, e, FALSE)
            /\ Called(e, "close")
       ELSE UNCHANGED <<m_state, m_handshake_timer, calls>>
    /\ UNCHANGED <<accepted, m_internal_state, queues, written, expired, held, broken>>

(* The end of the stream, or an error of the transport.                      *)
StreamEnded(e) == m_state[Other(e)] = "closed" /\ wire[Other(e)] = <<>>

ReadEnds(e) ==
    /\ m_state[e] # "closed"
    /\ \/ broken
       \/ StreamEnded(e) /\ m_internal_state[e] # "WRITE_HTTP_REQUEST"
    /\ Terminate(e)
    /\ UNCHANGED <<accepted, m_internal_state, queues, written, expired, m_was_clean, held,
                   wire, broken>>

-----------------------------------------------------------------------------
(* A bug that would show: two callbacks of write_frame, two writes at once.  *)
WriteFrameUnflagged(e) ==
    /\ posted[e] > 0
    /\ posted' = [posted EXCEPT ![e] = @ - 1]
    /\ m_send_queue[e] # <<>>
    /\ m_current_msgs' = Set(m_current_msgs, e, <<Head(m_send_queue[e])>>)
    /\ m_send_queue' = [m_send_queue EXCEPT ![e] = Tail(@)]
    /\ m_write_flag' = Set(m_write_flag, e, TRUE)
    /\ UNCHANGED <<linkvars, m_state, m_internal_state, written, timers, m_was_clean, held,
                   wire, broken, pushed>>

(* Writing. A callback takes one frame (the original library took all).      *)
WriteFrame(e) ==
    /\ posted[e] > 0
    /\ posted' = [posted EXCEPT ![e] = @ - 1]
    /\ IF m_write_flag[e] \/ m_send_queue[e] = <<>>
       THEN UNCHANGED <<m_send_queue, m_current_msgs, m_write_flag>>
       ELSE /\ m_current_msgs' = Set(m_current_msgs, e, <<Head(m_send_queue[e])>>)
            /\ m_send_queue' = [m_send_queue EXCEPT ![e] = Tail(@)]
            /\ m_write_flag' = Set(m_write_flag, e, TRUE)
    /\ UNCHANGED <<linkvars, m_state, m_internal_state, written, timers, m_was_clean, held,
                   wire, broken, pushed>>

(* The transport takes the frame. *)
Transmit(e) ==
    /\ m_current_msgs[e] # <<>> /\ ~written[e] /\ m_state[e] # "closed" /\ ~broken
    /\ wire' = [wire EXCEPT ![e] = @ \o m_current_msgs[e]]
    /\ written' = Set(written, e, TRUE)
    /\ UNCHANGED <<linkvars, m_state, m_internal_state, queues, timers, m_was_clean, held,
                   broken>>

(* handle_write_frame: after an error, or a terminal frame, m_write_flag     *)
(* stays set, so that nothing is written any more.                           *)
WriteDone(e) == m_current_msgs[e] # <<>> /\ written[e]
WriteFailed(e) == m_current_msgs[e] # <<>> /\ ~written[e] /\ (m_state[e] = "closed" \/ broken)

(* A bug that would show: what was pushed during the write is forgotten.     *)
HandleWriteFrameForgets(e) ==
    /\ WriteDone(e)
    /\ m_current_msgs[e] # <<"bye">>
    /\ m_write_flag' = Set(m_write_flag, e, FALSE)
    /\ m_current_msgs' = Set(m_current_msgs, e, <<>>)
    /\ written' = Set(written, e, FALSE)
    /\ UNCHANGED <<linkvars, m_state, m_internal_state, m_send_queue, posted, timers,
                   m_was_clean, held, wire, broken, pushed>>

HandleWriteFrame(e) ==
    /\ WriteDone(e)
    /\ m_current_msgs[e] # <<"bye">>
    /\ m_write_flag' = Set(m_write_flag, e, FALSE)
    /\ posted' = IF m_send_queue[e] = <<>> THEN posted ELSE [posted EXCEPT ![e] = @ + 1]
    /\ m_current_msgs' = Set(m_current_msgs, e, <<>>)
    /\ written' = Set(written, e, FALSE)
    /\ UNCHANGED <<linkvars, m_state, m_internal_state, m_send_queue, timers, m_was_clean,
                   held, wire, broken, pushed>>

HandleLastWrite(e) ==
    /\ WriteFailed(e) \/ (WriteDone(e) /\ m_current_msgs[e] = <<"bye">>)
    /\ m_current_msgs' = Set(m_current_msgs, e, <<>>)
    /\ written' = Set(written, e, FALSE)
    /\ TerminateAgain(e)
    /\ UNCHANGED <<accepted, m_internal_state, m_send_queue, m_write_flag, posted, expired,
                   m_was_clean, held, wire, broken, pushed>>

-----------------------------------------------------------------------------
(* The timers. Cancelling one that has expired does not stop its callback.   *)
TimerExpires(e) ==
    /\ m_handshake_timer[e]
    /\ m_handshake_timer' = Set(m_handshake_timer, e, FALSE)
    /\ expired' = Set(expired, e, TRUE)
    /\ UNCHANGED <<linkvars, m_state, m_internal_state, queues, written, m_was_clean, held,
                   wire, broken>>

HandshakeTimeout(e) ==
    /\ expired[e]
    /\ expired' = Set(expired, e, FALSE)
    /\ TerminateAgain(e)
    /\ UNCHANGED <<accepted, m_internal_state, queues, written, m_was_clean, held, wire,
                   broken>>

Break ==
    /\ ~broken
    /\ broken' = TRUE
    /\ UNCHANGED <<linkvars, m_state, m_internal_state, queues, written, timers, m_was_clean,
                   held, wire>>

-----------------------------------------------------------------------------
Handshake ==
    \/ SendHttpRequest \/ ReadHandshake \/ WriteHttpResponse
    \/ HandleWriteHttpResponse \/ ReadHttpResponse

Read(e) == ReadData(e) \/ ReadClose(e) \/ ReadCloseAck(e) \/ ReadEnds(e)
Write(e) == WriteFrame(e) \/ Transmit(e) \/ HandleWriteFrame(e) \/ HandleLastWrite(e)
Timer(e) == TimerExpires(e) \/ HandshakeTimeout(e)
Program(e) == CloseCall(e) \/ \E m \in Payload[e] : SendCheck(e, m) \/ SendPush(e, m)

Next ==
    \/ Handshake \/ Break
    \/ \E e \in End : Read(e) \/ Write(e) \/ Timer(e) \/ Program(e)

Spec == Init /\ [][Next]_vars

=============================================================================
