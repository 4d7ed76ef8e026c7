------------------------------- MODULE WsProofs -------------------------------
(* The connection, for any messages of the two programs: types, and that no  *)
(* frame in the queue is forgotten; then the inductive invariant of          *)
(* WsInvariant; then what follows from it: nothing is lost or overtaken, an  *)
(* end closes after all the peer has sent, and the two programs see what     *)
(* Link says.                                                                *)
EXTENDS WsInvariant, SequenceTheorems, TLAPS

LEMMA OtherEnd == \A e \in End : Other(e) \in End /\ Other(e) # e /\ Other(Other(e)) = e
BY DEF End, Other

LEMMA UnsentMsg == \A e \in End : Unsent(e) \subseteq Msg
BY PayloadAssumption DEF Unsent

(* A push keeps the types of the queue. *)
LEMMA PushType ==
  ASSUME TypeOK, NEW e \in End, NEW f \in Frame, Push(e, f)
  PROVE  /\ m_send_queue' \in [End -> Seq(Frame)]
         /\ pushed' \in [End -> Seq(Frame)]
         /\ posted' \in [End -> Nat]
         /\ m_current_msgs' \in [End -> Seq(Frame)]
         /\ m_write_flag' \in [End -> BOOLEAN]
<1>1. m_send_queue' \in [End -> Seq(Frame)] /\ pushed' \in [End -> Seq(Frame)]
  BY AppendProperties DEF TypeOK, Push
<1>2. posted' \in [End -> Nat]
  BY DEF TypeOK, Push
<1> QED
  BY <1>1, <1>2 DEF TypeOK, Push

LEMMA PushMsgType ==
  ASSUME TypeOK, NEW e \in End, NEW m \in Msg, PushMsg(e, m)
  PROVE  /\ m_send_queue' \in [End -> Seq(Frame)]
         /\ pushed' \in [End -> Seq(Frame)]
         /\ posted' \in [End -> Nat]
         /\ m_current_msgs' \in [End -> Seq(Frame)]
         /\ m_write_flag' \in [End -> BOOLEAN]
         /\ accepted' \in [End -> Seq(Msg)]
<1>1. accepted' \in [End -> Seq(Msg)]
  BY AppendProperties DEF TypeOK, PushMsg, Accepts
<1> QED
  BY <1>1, PushType DEF PushMsg, Frame

LEMMA HandlerType ==
  ASSUME TypeOK, NEW e \in End, Handler(e)
  PROVE  /\ m_send_queue' \in [End -> Seq(Frame)]
         /\ pushed' \in [End -> Seq(Frame)]
         /\ posted' \in [End -> Nat]
         /\ m_current_msgs' \in [End -> Seq(Frame)]
         /\ m_write_flag' \in [End -> BOOLEAN]
         /\ accepted' \in [End -> Seq(Msg)]
<1>1. CASE UNCHANGED <<queues, accepted>>
  BY <1>1 DEF TypeOK, queues
<1>2. CASE \E m \in Unsent(e) : PushMsg(e, m)
  BY <1>2, PushMsgType, UnsentMsg
<1> QED
  BY <1>1, <1>2 DEF Handler

Call == Msg \cup {"open", "fail", "close"}

LEMMA CalledType ==
  ASSUME TypeOK, NEW e \in End, NEW c \in Call, Called(e, c)
  PROVE  calls' \in [End -> Seq(Call)]
BY AppendProperties DEF TypeOK, Called, Call

LEMMA TerminateType ==
  ASSUME TypeOK, NEW e \in End, Terminate(e)
  PROVE  /\ m_state' = [m_state EXCEPT ![e] = "closed"]
         /\ m_handshake_timer' \in [End -> BOOLEAN]
         /\ calls' \in [End -> Seq(Call)]
<1>1. calls' \in [End -> Seq(Call)]
  BY CalledType DEF Terminate, Call
<1> QED
  BY <1>1 DEF TypeOK, Terminate, Set

LEMMA TerminateAgainType ==
  ASSUME TypeOK, NEW e \in End, TerminateAgain(e)
  PROVE  /\ m_state' = [m_state EXCEPT ![e] = "closed"]
         /\ m_handshake_timer' \in [End -> BOOLEAN]
         /\ calls' \in [End -> Seq(Call)]
<1>1. CASE m_state[e] = "closed"
  BY <1>1 DEF TypeOK, TerminateAgain, Call
<1>2. CASE m_state[e] # "closed"
  BY <1>2, TerminateType DEF TerminateAgain
<1> QED
  BY <1>1, <1>2

LEMMA HandshakeType ==
  ASSUME TypeOK, Handshake
  PROVE  TypeOK'
<1>0. "client" \in End /\ "server" \in End
  BY DEF End
<1>1. CASE SendHttpRequest
  BY <1>0, <1>1 DEF TypeOK, SendHttpRequest, Set, linkvars, queues, timers
<1>2. CASE ReadHandshake
  BY <1>0, <1>2 DEF TypeOK, ReadHandshake, Set, linkvars, queues, timers
<1>3. CASE WriteHttpResponse
  BY <1>0, <1>3 DEF TypeOK, WriteHttpResponse, Set, linkvars, queues, timers
<1>4. ASSUME NEW e \in End, Opened(e), written' \in [End -> BOOLEAN]
      PROVE  TypeOK'
  <2>1. calls' \in [End -> Seq(Call)]
    BY <1>4, CalledType DEF Opened, Call
  <2>2. m_send_queue' \in [End -> Seq(Frame)] /\ pushed' \in [End -> Seq(Frame)]
        /\ posted' \in [End -> Nat] /\ m_current_msgs' \in [End -> Seq(Frame)]
        /\ m_write_flag' \in [End -> BOOLEAN] /\ accepted' \in [End -> Seq(Msg)]
    BY <1>4, HandlerType DEF Opened
  <2> QED
    BY <1>4, <2>1, <2>2 DEF TypeOK, Opened, Set, Call, timers
<1>5. CASE HandleWriteHttpResponse
  BY <1>0, <1>4, <1>5 DEF TypeOK, HandleWriteHttpResponse, Set
<1>6. CASE ReadHttpResponse
  BY <1>0, <1>4, <1>6 DEF TypeOK, ReadHttpResponse
<1> QED
  BY <1>1, <1>2, <1>3, <1>5, <1>6 DEF Handshake

LEMMA SendCloseFrameType ==
  ASSUME TypeOK, NEW e \in End, NEW f \in CloseFrame, NEW ack \in BOOLEAN,
         SendCloseFrame(e, f, ack), UNCHANGED <<linkvars, m_internal_state, written,
         expired, held, broken>>, wire' \in [End -> Seq(Frame)]
  PROVE  TypeOK'
<1>1. f \in Frame
  BY DEF Frame
<1>2. m_send_queue' \in [End -> Seq(Frame)] /\ pushed' \in [End -> Seq(Frame)]
        /\ posted' \in [End -> Nat] /\ m_current_msgs' \in [End -> Seq(Frame)]
        /\ m_write_flag' \in [End -> BOOLEAN]
  BY <1>1, PushType DEF SendCloseFrame
<1> QED
  BY <1>2 DEF TypeOK, SendCloseFrame, Set, linkvars

LEMMA FrameReadType ==
  ASSUME TypeOK, NEW e \in End, NEW S, NextFrame(e, S)
  PROVE  /\ FrameRead(e) \in [End -> Seq(Frame)]
         /\ Head(wire[Other(e)]) \in S
BY OtherEnd, HeadTailProperties DEF TypeOK, NextFrame, FrameRead

LEMMA ReadType ==
  ASSUME TypeOK, NEW e \in End, Read(e)
  PROVE  TypeOK'
<1>1. CASE ReadData(e)
  <2>1. wire' \in [End -> Seq(Frame)] /\ Head(wire[Other(e)]) \in Msg
    BY <1>1, FrameReadType DEF ReadData
  <2>2. CASE m_state[e] = "open"
    <3>1. calls' \in [End -> Seq(Call)]
      BY <1>1, <2>1, <2>2, CalledType DEF ReadData, Call
    <3>2. m_send_queue' \in [End -> Seq(Frame)] /\ pushed' \in [End -> Seq(Frame)]
          /\ posted' \in [End -> Nat] /\ m_current_msgs' \in [End -> Seq(Frame)]
          /\ m_write_flag' \in [End -> BOOLEAN] /\ accepted' \in [End -> Seq(Msg)]
      BY <1>1, <2>2, HandlerType DEF ReadData
    <3> QED
      BY <1>1, <2>1, <3>1, <3>2 DEF TypeOK, ReadData, Call, timers
  <2>3. CASE m_state[e] # "open"
    BY <1>1, <2>1, <2>3 DEF TypeOK, ReadData, Call, timers, linkvars, queues
  <2> QED
    BY <2>2, <2>3
<1>2. CASE ReadClose(e)
  <2>1. wire' \in [End -> Seq(Frame)]
    BY <1>2, FrameReadType DEF ReadClose
  <2> QED
    BY <1>2, <2>1, SendCloseFrameType DEF ReadClose, CloseFrame
<1>3. CASE ReadCloseAck(e)
  <2>1. wire' \in [End -> Seq(Frame)]
    BY <1>3, FrameReadType DEF ReadCloseAck
  <2>2. calls' \in [End -> Seq(Call)]
    BY <1>3, CalledType DEF ReadCloseAck, Call, TypeOK
  <2> QED
    BY <1>3, <2>1, <2>2 DEF TypeOK, ReadCloseAck, Set, Call, queues
<1>4. CASE ReadEnds(e)
  BY <1>4, TerminateType DEF TypeOK, ReadEnds, Call, queues
<1> QED
  BY <1>1, <1>2, <1>3, <1>4 DEF Read

LEMMA WriteType ==
  ASSUME TypeOK, NEW e \in End, Write(e)
  PROVE  TypeOK'
<1>1. CASE WriteFrame(e)
  <2>1. posted' \in [End -> Nat]
    BY <1>1 DEF TypeOK, WriteFrame
  <2>2. m_send_queue' \in [End -> Seq(Frame)] /\ m_current_msgs' \in [End -> Seq(Frame)]
        /\ m_write_flag' \in [End -> BOOLEAN]
    <3>1. CASE m_write_flag[e] \/ m_send_queue[e] = <<>>
      BY <1>1, <3>1 DEF TypeOK, WriteFrame
    <3>2. CASE ~(m_write_flag[e] \/ m_send_queue[e] = <<>>)
      <4>1. Head(m_send_queue[e]) \in Frame /\ Tail(m_send_queue[e]) \in Seq(Frame)
        BY <3>2, HeadTailProperties DEF TypeOK
      <4>2. /\ m_send_queue' = [m_send_queue EXCEPT ![e] = Tail(m_send_queue[e])]
            /\ m_current_msgs' = [m_current_msgs EXCEPT ![e] = <<Head(m_send_queue[e])>>]
            /\ m_write_flag' = [m_write_flag EXCEPT ![e] = TRUE]
        BY <1>1, <3>2 DEF WriteFrame, Set
      <4>3. <<Head(m_send_queue[e])>> \in Seq(Frame)
        BY <4>1
      <4> QED
        BY <4>1, <4>2, <4>3 DEF TypeOK
    <3> QED
      BY <3>1, <3>2
  <2> QED
    BY <1>1, <2>1, <2>2 DEF TypeOK, WriteFrame, linkvars, timers
<1>2. CASE Transmit(e)
  <2>1. wire' \in [End -> Seq(Frame)]
    BY <1>2, ConcatProperties DEF TypeOK, Transmit
  <2> QED
    BY <1>2, <2>1 DEF TypeOK, Transmit, Set, linkvars, timers, queues
<1>3. CASE HandleWriteFrame(e)
  BY <1>3 DEF TypeOK, HandleWriteFrame, Set, linkvars, timers
<1>4. CASE HandleLastWrite(e)
  <2>1. /\ m_state' = [m_state EXCEPT ![e] = "closed"]
        /\ m_handshake_timer' \in [End -> BOOLEAN]
        /\ calls' \in [End -> Seq(Call)]
    BY <1>4, TerminateAgainType DEF HandleLastWrite
  <2>2. m_current_msgs' \in [End -> Seq(Frame)] /\ written' \in [End -> BOOLEAN]
    BY <1>4 DEF TypeOK, HandleLastWrite, Set
  <2> QED
    BY <1>4, <2>1, <2>2 DEF TypeOK, HandleLastWrite, Call
<1> QED
  BY <1>1, <1>2, <1>3, <1>4 DEF Write

LEMMA TimerType ==
  ASSUME TypeOK, NEW e \in End, Timer(e)
  PROVE  TypeOK'
<1>1. CASE TimerExpires(e)
  BY <1>1 DEF TypeOK, TimerExpires, Set, linkvars, queues
<1>2. CASE HandshakeTimeout(e)
  BY <1>2, TerminateAgainType DEF TypeOK, HandshakeTimeout, Set, Call, queues
<1> QED
  BY <1>1, <1>2 DEF Timer

LEMMA ProgramType ==
  ASSUME TypeOK, NEW e \in End, Program(e)
  PROVE  TypeOK'
<1>1. CASE CloseCall(e)
  BY <1>1, SendCloseFrameType DEF CloseCall, CloseFrame, TypeOK
<1>2. ASSUME NEW m \in Payload[e], SendCheck(e, m)
      PROVE  TypeOK'
  BY <1>2, UnsentMsg DEF TypeOK, SendCheck, linkvars, queues, timers
<1>3. ASSUME NEW m \in Payload[e], SendPush(e, m)
      PROVE  TypeOK'
  <2>1. m \in Msg
    BY <1>3, PayloadAssumption
  <2>2. m_send_queue' \in [End -> Seq(Frame)] /\ pushed' \in [End -> Seq(Frame)]
        /\ posted' \in [End -> Nat] /\ m_current_msgs' \in [End -> Seq(Frame)]
        /\ m_write_flag' \in [End -> BOOLEAN] /\ accepted' \in [End -> Seq(Msg)]
    BY <1>3, <2>1, PushMsgType DEF SendPush
  <2> QED
    BY <1>3, <2>1, <2>2 DEF TypeOK, SendPush, timers
<1> QED
  BY <1>1, <1>2, <1>3 DEF Program

LEMMA TypeStep == TypeOK /\ [Next]_vars => TypeOK'
<1> SUFFICES ASSUME TypeOK, [Next]_vars PROVE TypeOK'
  OBVIOUS
<1>1. CASE Break
  BY <1>1 DEF TypeOK, Break, linkvars, queues, timers
<1>2. CASE UNCHANGED vars
  BY <1>2 DEF TypeOK, vars, linkvars, queues, timers
<1> QED
  BY <1>1, <1>2, HandshakeType, ReadType, WriteType, TimerType, ProgramType DEF Next

LEMMA TypeInit == Init => TypeOK
<1>1. \A S : <<>> \in Seq(S)
  OBVIOUS
<1> QED
  <2> SUFFICES ASSUME Init PROVE TypeOK
    OBVIOUS
  <2>1. accepted \in [End -> Seq(Msg)] /\ calls \in [End -> Seq(Call)]
    BY <1>1 DEF Init, LinkInit
  <2>2. m_internal_state \in [End -> {"READ_HTTP_REQUEST", "PROCESS_HTTP_REQUEST",
          "WRITE_HTTP_REQUEST", "READ_HTTP_RESPONSE", "PROCESS_CONNECTION"}]
    BY DEF Init
  <2>3. /\ m_send_queue \in [End -> Seq(Frame)] /\ m_current_msgs \in [End -> Seq(Frame)]
        /\ wire \in [End -> Seq(Frame)] /\ pushed \in [End -> Seq(Frame)]
    BY <1>1 DEF Init
  <2>4. /\ m_write_flag \in [End -> BOOLEAN] /\ written \in [End -> BOOLEAN]
        /\ m_handshake_timer \in [End -> BOOLEAN] /\ expired \in [End -> BOOLEAN]
        /\ m_was_clean \in [End -> BOOLEAN] /\ held \in [End -> SUBSET Msg]
        /\ posted \in [End -> Nat] /\ broken \in BOOLEAN
        /\ m_state \in [End -> {"connecting", "open", "closing", "closed"}]
    BY DEF Init
  <2> QED
    BY <2>1, <2>2, <2>3, <2>4 DEF TypeOK, Call

(* Every variable keeps its type, in particular a handler is only ever given *)
(* a message, and no more callbacks run than were posted.                    *)
THEOREM TypeCorrect == Spec => []TypeOK
<1>1. TypeOK /\ [Next]_vars => TypeOK'
  BY TypeStep
<1> QED
  BY <1>1, TypeInit, PTL DEF Spec

-----------------------------------------------------------------------------
(* The queue: a frame is being written only while the flag is set.           *)
QueueInv ==
    /\ TypeOK
    /\ WriteScheduled
    /\ \A e \in End : m_current_msgs[e] # <<>> => m_write_flag[e]

LEMMA PushScheduled ==
  ASSUME QueueInv, NEW e \in End, NEW f \in Frame, Push(e, f),
         \A d \in End : m_state[d] = "closed" => m_state'[d] = "closed"
  PROVE  WriteScheduled' /\ \A d \in End : m_current_msgs'[d] # <<>> => m_write_flag'[d]
<1>1. /\ UNCHANGED <<m_current_msgs, m_write_flag>>
      /\ \A d \in End : m_write_flag[d] /\ m_current_msgs[d] = <<>> => m_state[d] = "closed"
      /\ \A d \in End : m_current_msgs[d] # <<>> => m_write_flag[d]
  BY DEF QueueInv, WriteScheduled, Push
<1>2. ASSUME NEW d \in End, m_send_queue'[d] # <<>>, ~m_write_flag[d] PROVE posted'[d] > 0
  <2>1. posted \in [End -> Nat] /\ (m_send_queue[d] # <<>> => posted[d] > 0)
    BY <1>2 DEF QueueInv, WriteScheduled, TypeOK
  <2>2. CASE d = e
    BY <1>2, <2>1, <2>2 DEF Push
  <2>3. CASE d # e
    BY <1>2, <2>1, <2>3 DEF Push, QueueInv, TypeOK
  <2> QED
    BY <2>2, <2>3
<1> QED
  BY <1>1, <1>2 DEF WriteScheduled

(* What does not touch the queue, and does not bring an end back to life,    *)
(* keeps it.                                                                 *)
LEMMA SameQueues ==
  ASSUME QueueInv, UNCHANGED queues,
         \A d \in End : m_state[d] = "closed" => m_state'[d] = "closed"
  PROVE  WriteScheduled' /\ \A d \in End : m_current_msgs'[d] # <<>> => m_write_flag'[d]
BY DEF QueueInv, WriteScheduled, queues

LEMMA HandlerScheduled ==
  ASSUME QueueInv, NEW e \in End, Handler(e),
         \A d \in End : m_state[d] = "closed" => m_state'[d] = "closed"
  PROVE  WriteScheduled' /\ \A d \in End : m_current_msgs'[d] # <<>> => m_write_flag'[d]
<1>1. CASE UNCHANGED queues
  BY <1>1, SameQueues
<1>2. ASSUME NEW m \in Unsent(e), PushMsg(e, m)
      PROVE  WriteScheduled' /\ \A d \in End : m_current_msgs'[d] # <<>> => m_write_flag'[d]
  BY <1>2, UnsentMsg, PushScheduled DEF PushMsg, Frame
<1> QED
  BY <1>1, <1>2 DEF Handler

(* An end that is closed stays so.                                           *)
LEMMA ClosedStays ==
  ASSUME TypeOK, [Next]_vars
  PROVE  \A d \in End : m_state[d] = "closed" => m_state'[d] = "closed"
<1>0. "client" \in End /\ "server" \in End
  BY DEF End
<1>1. CASE Handshake
  BY <1>0, <1>1 DEF TypeOK, Handshake, SendHttpRequest, ReadHandshake, WriteHttpResponse,
     HandleWriteHttpResponse, ReadHttpResponse, Handshaking, Opened, Set
<1>2. ASSUME NEW e \in End, Read(e) PROVE \A d \in End : m_state[d] = "closed" => m_state'[d] = "closed"
  BY <1>2 DEF TypeOK, Read, ReadData, ReadClose, ReadCloseAck, ReadEnds, SendCloseFrame,
     Terminate, Set
<1>3. ASSUME NEW e \in End, Write(e) PROVE \A d \in End : m_state[d] = "closed" => m_state'[d] = "closed"
  BY <1>3, TerminateAgainType DEF TypeOK, Write, WriteFrame, Transmit, HandleWriteFrame,
     HandleLastWrite
<1>4. ASSUME NEW e \in End, Timer(e) PROVE \A d \in End : m_state[d] = "closed" => m_state'[d] = "closed"
  BY <1>4, TerminateAgainType DEF TypeOK, Timer, TimerExpires, HandshakeTimeout
<1>5. ASSUME NEW e \in End, Program(e) PROVE \A d \in End : m_state[d] = "closed" => m_state'[d] = "closed"
  BY <1>5 DEF TypeOK, Program, CloseCall, SendCloseFrame, SendCheck, SendPush, Set
<1> QED
  BY <1>1, <1>2, <1>3, <1>4, <1>5 DEF Next, Break, vars

LEMMA QueueStep == QueueInv /\ [Next]_vars => QueueInv'
<1> SUFFICES ASSUME QueueInv, [Next]_vars PROVE QueueInv'
  OBVIOUS
<1> DEFINE Kept == WriteScheduled' /\ \A d \in End : m_current_msgs'[d] # <<>> => m_write_flag'[d]
<1>0. TypeOK /\ TypeOK' /\ \A d \in End : m_state[d] = "closed" => m_state'[d] = "closed"
  BY TypeStep, ClosedStays DEF QueueInv
<1>a. "client" \in End /\ "server" \in End
  BY DEF End
<1>1. ASSUME Handshake PROVE Kept
  <2>1. ASSUME UNCHANGED queues PROVE Kept
    BY <1>0, <2>1, SameQueues
  <2>2. ASSUME NEW e \in End, Handler(e) PROVE Kept
    BY <1>0, <2>2, HandlerScheduled
  <2> QED
    BY <1>1, <1>a, <2>1, <2>2 DEF Handshake, SendHttpRequest, ReadHandshake,
       WriteHttpResponse, HandleWriteHttpResponse, ReadHttpResponse, Opened
<1>2. ASSUME NEW e \in End, Read(e) PROVE Kept
  <2>1. CASE ReadData(e)
    BY <1>0, <2>1, HandlerScheduled, SameQueues DEF ReadData
  <2>2. CASE ReadClose(e)
    BY <1>0, <2>2, PushScheduled DEF ReadClose, SendCloseFrame, Frame, CloseFrame
  <2>3. CASE ReadCloseAck(e) \/ ReadEnds(e)
    BY <1>0, <2>3, SameQueues DEF ReadCloseAck, ReadEnds
  <2> QED
    BY <1>2, <2>1, <2>2, <2>3 DEF Read
<1>3. ASSUME NEW e \in End, Write(e) PROVE Kept
  <2>1. CASE WriteFrame(e)
    <3>1. CASE m_write_flag[e] \/ m_send_queue[e] = <<>>
      BY <1>0, <2>1, <3>1 DEF TypeOK, QueueInv, WriteScheduled, WriteFrame
    <3>2. CASE ~(m_write_flag[e] \/ m_send_queue[e] = <<>>)
      <4>1. m_write_flag' = [m_write_flag EXCEPT ![e] = TRUE]
            /\ m_current_msgs'[e] # <<>>
            /\ \A d \in End \ {e} : /\ m_send_queue'[d] = m_send_queue[d]
                                    /\ m_current_msgs'[d] = m_current_msgs[d]
                                    /\ posted'[d] = posted[d]
            /\ UNCHANGED m_state
        <5>1. /\ m_send_queue' = [m_send_queue EXCEPT ![e] = Tail(m_send_queue[e])]
              /\ m_current_msgs' = [m_current_msgs EXCEPT ![e] = <<Head(m_send_queue[e])>>]
              /\ m_write_flag' = [m_write_flag EXCEPT ![e] = TRUE]
              /\ posted' = [posted EXCEPT ![e] = @ - 1]
              /\ UNCHANGED m_state
          BY <2>1, <3>2 DEF WriteFrame, Set
        <5>2. <<Head(m_send_queue[e])>> # <<>>
          OBVIOUS
        <5> QED
          BY <1>0, <5>1, <5>2 DEF TypeOK
      <4> QED
        BY <1>0, <4>1 DEF TypeOK, QueueInv, WriteScheduled
    <3> QED
      BY <3>1, <3>2
  <2>2. CASE Transmit(e)
    BY <1>0, <2>2, SameQueues DEF Transmit
  <2>3. CASE HandleWriteFrame(e)
    <3>1. /\ m_write_flag' = [m_write_flag EXCEPT ![e] = FALSE]
          /\ m_current_msgs' = [m_current_msgs EXCEPT ![e] = <<>>]
          /\ UNCHANGED <<m_send_queue, m_state>>
          /\ m_send_queue[e] # <<>> => posted'[e] > 0
          /\ \A d \in End \ {e} : posted'[d] = posted[d]
      BY <1>0, <2>3 DEF TypeOK, HandleWriteFrame, Set
    <3> QED
      BY <1>0, <3>1 DEF TypeOK, QueueInv, WriteScheduled
  <2>4. CASE HandleLastWrite(e)
    <3>1. m_state'[e] = "closed"
      BY <1>0, <2>4, TerminateAgainType DEF HandleLastWrite, TypeOK
    <3> QED
      BY <1>0, <2>4, <3>1 DEF TypeOK, QueueInv, WriteScheduled, HandleLastWrite, WriteDone,
         WriteFailed, Set
  <2> QED
    BY <1>3, <2>1, <2>2, <2>3, <2>4 DEF Write
<1>4. ASSUME NEW e \in End, Timer(e) PROVE Kept
  BY <1>0, <1>4, SameQueues DEF Timer, TimerExpires, HandshakeTimeout
<1>5. ASSUME NEW e \in End, Program(e) PROVE Kept
  <2>1. CASE CloseCall(e)
    BY <1>0, <2>1, PushScheduled DEF CloseCall, SendCloseFrame, Frame, CloseFrame
  <2>2. ASSUME NEW m \in Payload[e], SendCheck(e, m) PROVE Kept
    BY <1>0, <2>2, SameQueues DEF SendCheck
  <2>3. ASSUME NEW m \in Payload[e], SendPush(e, m) PROVE Kept
    BY <1>0, <2>3, PushScheduled, PayloadAssumption DEF SendPush, PushMsg, Frame
  <2> QED
    BY <1>5, <2>1, <2>2, <2>3 DEF Program
<1>6. ASSUME Break \/ UNCHANGED vars PROVE Kept
  BY <1>0, <1>6, SameQueues DEF Break, vars
<1> QED
  BY <1>0, <1>1, <1>2, <1>3, <1>4, <1>5, <1>6 DEF Next, QueueInv

(* No frame waits in a queue without a callback on its way or a write        *)
(* outstanding, and the flag of an outstanding write is given back wherever  *)
(* the end lives on.                                                         *)
THEOREM Scheduled == Spec => []WriteScheduled
<1>1. Init => QueueInv
  BY TypeInit DEF Init, QueueInv, WriteScheduled
<1>2. QueueInv => WriteScheduled
  BY DEF QueueInv
<1> QED
  BY <1>1, <1>2, QueueStep, PTL DEF Spec

-----------------------------------------------------------------------------
(* What a call of a handler does to the calls so far.                        *)
LEMMA CalledFacts ==
  ASSUME TypeOK, NEW e \in End, NEW c \in Call, Called(e, c)
  PROVE  /\ calls' \in [End -> Seq(Call)]
         /\ calls'[e] = Append(calls[e], c)
         /\ ~New(e)' /\ Last(calls'[e]) = c
         /\ Given(e)' = IF New(e) THEN <<>> ELSE Append(Given(e), c)
         /\ \A d \in End \ {e} : calls'[d] = calls[d]
<1>1. calls'[e] = Append(calls[e], c) /\ \A d \in End \ {e} : calls'[d] = calls[d]
  BY DEF TypeOK, Called
<1>2. calls[e] \in Seq(Call)
  BY DEF TypeOK, Call
<1>3. /\ Append(calls[e], c) \in Seq(Call)
      /\ Append(calls[e], c) # <<>>
      /\ Append(calls[e], c)[Len(Append(calls[e], c))] = c
  BY <1>2, AppendProperties
<1>4. Tail(Append(calls[e], c)) = IF calls[e] = <<>> THEN <<>> ELSE Append(Tail(calls[e]), c)
  BY <1>2, HeadTailAppend
<1> QED
  BY <1>1, <1>3, <1>4, CalledType DEF New, Given, Last

(* An end whose state and queue stay as they are.                            *)
Same(e) ==
    /\ m_state'[e] = m_state[e] /\ calls'[e] = calls[e] /\ held'[e] = held[e]
    /\ pushed'[e] = pushed[e] /\ m_send_queue'[e] = m_send_queue[e]
    /\ m_current_msgs'[e] = m_current_msgs[e] /\ m_was_clean'[e] = m_was_clean[e]
    /\ written'[e] = written[e]

LEMMA SameState ==
  ASSUME NEW e \in End, StateOf(e), Same(e)
  PROVE  StateOf(e)'
BY DEF StateOf, Same, New, Given

(* What a push does to the end it is for, and to the other.                  *)
PushedBy(e, f) ==
    /\ pushed' = [pushed EXCEPT ![e] = Append(@, f)]
    /\ m_send_queue' = [m_send_queue EXCEPT ![e] = Append(@, f)]
    /\ UNCHANGED m_current_msgs

LEMMA PushFacts ==
  ASSUME NEW e \in End, NEW f, Push(e, f)
  PROVE  PushedBy(e, f)
BY DEF Push, PushedBy

(* Where the program is told the end, nothing but the end matters.           *)
LEMMA ClosedState ==
  ASSUME TypeOK, NEW e \in End, StateOf(e), ~New(e)', m_state'[e] = "closed",
         written'[e] /\ m_current_msgs'[e] = <<>> => written[e] /\ m_current_msgs[e] = <<>>
  PROVE  StateOf(e)'
BY DEF StateOf

LEMMA TerminateState ==
  ASSUME TypeOK, NEW e \in End, Terminate(e)
  PROVE  /\ m_state' = [m_state EXCEPT ![e] = "closed"]
         /\ ~New(e)'
         /\ \A d \in End \ {e} : calls'[d] = calls[d]
<1>1. m_state' = [m_state EXCEPT ![e] = "closed"]
  BY TerminateType
<1>2. PICK c \in Call : Called(e, c)
  BY DEF Terminate, Call
<1> QED
  BY <1>1, <1>2, CalledFacts

LEMMA TerminateAgainState ==
  ASSUME TypeOK, NEW e \in End, StateOf(e), TerminateAgain(e)
  PROVE  /\ m_state' = [m_state EXCEPT ![e] = "closed"]
         /\ ~New(e)'
         /\ \A d \in End \ {e} : calls'[d] = calls[d]
<1>1. CASE m_state[e] = "closed"
  BY <1>1 DEF TypeOK, TerminateAgain, StateOf, New
<1>2. CASE m_state[e] # "closed"
  BY <1>2, TerminateState DEF TerminateAgain
<1> QED
  BY <1>1, <1>2

(* The opening of an end. *)
LEMMA HandlerFacts ==
  ASSUME TypeOK, NEW e \in End, Handler(e)
  PROVE  /\ UNCHANGED m_current_msgs
         /\ \A d \in End \ {e} : /\ pushed'[d] = pushed[d]
                                 /\ m_send_queue'[d] = m_send_queue[d]
                                 /\ accepted'[d] = accepted[d]
         /\ \/ UNCHANGED <<pushed, m_send_queue, accepted>>
            \/ \E m \in Msg : PushedBy(e, m) /\ Accepts(e, m)
<1>1. CASE UNCHANGED <<queues, accepted>>
  BY <1>1 DEF queues
<1>2. ASSUME NEW m \in Unsent(e), PushMsg(e, m)
      PROVE  m \in Msg /\ PushedBy(e, m) /\ Accepts(e, m) /\ UNCHANGED m_current_msgs
  BY <1>2, UnsentMsg, PushFacts DEF PushMsg, PushedBy
<1>3. \A m \in Msg : PushedBy(e, m) /\ Accepts(e, m) =>
        \A d \in End \ {e} : /\ pushed'[d] = pushed[d]
                             /\ m_send_queue'[d] = m_send_queue[d]
                             /\ accepted'[d] = accepted[d]
  BY DEF PushedBy, Accepts, TypeOK
<1> QED
  BY <1>1, <1>2, <1>3 DEF Handler

LEMMA OpenedState ==
  ASSUME TypeOK, NEW e \in End, StateOf(e), m_state[e] = "connecting", Opened(e),
         ~written'[e]
  PROVE  StateOf(e)'
<1>1. ~New(e)' /\ Last(calls'[e]) = "open" /\ Given(e)' = <<>>
  BY CalledFacts DEF Opened, Call, StateOf
<1>2. m_state'[e] = "open" /\ m_was_clean'[e] = m_was_clean[e]
  BY DEF Opened, TypeOK, Set
<1>3. Given(e)' \in Seq(Msg)
  BY <1>1
<1> QED
  BY <1>1, <1>2, <1>3 DEF StateOf

(* What an end does leaves the state of the other as it is.                  *)
LEMMA HandshakeState ==
  ASSUME TypeOK, StateInv, Handshake
  PROVE  StateInv'
<1>0. "client" \in End /\ "server" \in End /\ StateOf("client") /\ StateOf("server")
  BY DEF StateInv, End
<1>1. ASSUME UNCHANGED <<linkvars, m_state, queues, m_was_clean, held>>,
             \A d \in End : written'[d] = written[d] \/ (d = "server" /\ m_state[d] = "connecting")
      PROVE  StateInv'
  BY <1>1 DEF StateInv, StateOf, linkvars, queues, New, Given
<1>2. CASE SendHttpRequest \/ ReadHandshake
  BY <1>1, <1>2 DEF SendHttpRequest, ReadHandshake
<1>3. CASE WriteHttpResponse
  BY <1>1, <1>3 DEF WriteHttpResponse, Handshaking, Set, TypeOK
<1>4. ASSUME NEW e \in End, Opened(e), ~written'[e], m_state[e] = "connecting",
             \A d \in End \ {e} : written'[d] = written[d]
      PROVE  StateInv'
  <2>1. StateOf(e)'
    BY <1>4, OpenedState DEF StateInv
  <2>2. ASSUME NEW d \in End \ {e} PROVE StateOf(d)'
    <3>1. Same(d)
      BY <1>4, HandlerFacts, CalledFacts DEF Opened, Call, Same, Set, TypeOK
    <3> QED
      BY <3>1, SameState DEF StateInv
  <2> QED
    BY <2>1, <2>2 DEF StateInv
<1>5. CASE HandleWriteHttpResponse
  BY <1>0, <1>4, <1>5 DEF HandleWriteHttpResponse, Handshaking, Set, TypeOK
<1>6. CASE ReadHttpResponse
  BY <1>0, <1>4, <1>6 DEF ReadHttpResponse, Handshaking, StateOf
<1> QED
  BY <1>2, <1>3, <1>5, <1>6 DEF Handshake

(* An end past the opening handshake: the queue does not matter.             *)
LEMMA LaterState ==
  ASSUME TypeOK, NEW e \in End, StateOf(e), m_state[e] # "connecting", calls'[e] = calls[e],
         m_state'[e] \in {m_state[e], "closing", "closed"},
         m_state[e] = "closed" => m_state'[e] = "closed",
         m_was_clean'[e] => m_was_clean[e] \/ m_state'[e] = "closing",
         written'[e] /\ m_current_msgs'[e] = <<>> => written[e] /\ m_current_msgs[e] = <<>>
  PROVE  StateOf(e)'
BY DEF StateOf, New, Given, TypeOK

LEMMA OneEnd ==
  ASSUME StateInv, NEW e \in End, StateOf(e)', \A d \in End \ {e} : Same(d)
  PROVE  StateInv'
BY SameState DEF StateInv

LEMMA ReadState ==
  ASSUME TypeOK, StateInv, NEW e \in End, Read(e)
  PROVE  StateInv'
<1>0. StateOf(e)
  BY DEF StateInv
<1>1. CASE ReadData(e)
  <2>1. CASE m_state[e] = "open"
    <3>1. Head(wire[Other(e)]) \in Msg
      BY <1>1, FrameReadType DEF ReadData
    <3>2. /\ ~New(e) /\ ~New(e)' /\ Last(calls'[e]) = Head(wire[Other(e)])
          /\ Given(e)' = Append(Given(e), Head(wire[Other(e)]))
          /\ \A d \in End \ {e} : calls'[d] = calls[d]
      BY <1>0, <1>1, <2>1, <3>1, CalledFacts DEF ReadData, Call, StateOf
    <3>3. Given(e)' \in Seq(Msg)
      BY <1>0, <2>1, <3>1, <3>2, AppendProperties DEF StateOf
    <3>4. \A d \in End \ {e} : Same(d)
      BY <1>1, <2>1, <3>2, HandlerFacts DEF ReadData, Same
    <3>5. UNCHANGED <<m_state, m_was_clean, written, m_current_msgs>>
      BY <1>1, <2>1, HandlerFacts DEF ReadData
    <3>6. Head(wire[Other(e)]) \notin {"fail", "close"}
      BY <3>1, MsgAssumption
    <3>7. StateOf(e)'
      BY <1>0, <2>1, <3>2, <3>3, <3>5, <3>6 DEF StateOf
    <3> QED
      BY <3>4, <3>7, OneEnd
  <2>2. CASE m_state[e] # "open"
    <3>1. \A d \in End : Same(d)
      BY <1>1, <2>2 DEF ReadData, Same, linkvars, queues
    <3> QED
      BY <3>1, SameState DEF StateInv
  <2> QED
    BY <2>1, <2>2
<1>2. CASE ReadClose(e)
  <2>1. \A d \in End \ {e} : Same(d)
    BY <1>2 DEF ReadClose, SendCloseFrame, Push, Same, Set, linkvars, TypeOK
  <2>2. /\ m_state[e] = "open" /\ m_state'[e] = "closing"
        /\ UNCHANGED <<calls, m_current_msgs, written>>
    BY <1>2 DEF ReadClose, SendCloseFrame, Push, Set, linkvars, TypeOK
  <2> QED
    BY <1>0, <2>1, <2>2, LaterState, OneEnd
<1>3. CASE ReadCloseAck(e)
  <2>0. /\ m_state[e] = "closing" /\ UNCHANGED <<queues, written, held>>
        /\ m_was_clean' = [m_was_clean EXCEPT ![e] = TRUE]
    BY <1>3 DEF ReadCloseAck, Set
  <2>1. CASE e = "server" /\ ~m_was_clean[e]
    <3>1. m_state' = [m_state EXCEPT ![e] = "closed"] /\ Called(e, "close")
      BY <1>3, <2>1 DEF ReadCloseAck, Set
    <3>2. ~New(e)' /\ \A d \in End \ {e} : calls'[d] = calls[d]
      BY <3>1, CalledFacts DEF Call
    <3>3. StateOf(e)'
      BY <1>0, <2>0, <3>1, <3>2, ClosedState DEF queues, TypeOK
    <3>4. \A d \in End \ {e} : Same(d)
      BY <2>0, <3>1, <3>2 DEF Same, queues, TypeOK
    <3> QED
      BY <3>3, <3>4, OneEnd
  <2>2. CASE ~(e = "server" /\ ~m_was_clean[e])
    <3>1. UNCHANGED <<m_state, calls>>
      BY <1>3, <2>2 DEF ReadCloseAck
    <3>2. StateOf(e)'
      BY <1>0, <2>0, <3>1, LaterState DEF queues
    <3>3. \A d \in End \ {e} : Same(d)
      BY <2>0, <3>1 DEF Same, queues, TypeOK
    <3> QED
      BY <3>2, <3>3, OneEnd
  <2> QED
    BY <2>1, <2>2
<1>4. CASE ReadEnds(e)
  <2>1. Terminate(e) /\ UNCHANGED <<queues, written, m_was_clean, held>>
    BY <1>4 DEF ReadEnds
  <2>2. StateOf(e)'
    BY <1>0, <2>1, TerminateState, ClosedState DEF queues, TypeOK
  <2>3. \A d \in End \ {e} : Same(d)
    BY <2>1, TerminateState DEF Same, queues, TypeOK
  <2> QED
    BY <2>2, <2>3, OneEnd
<1> QED
  BY <1>1, <1>2, <1>3, <1>4 DEF Read

LEMMA WriteState ==
  ASSUME TypeOK, StateInv, NEW e \in End, Write(e)
  PROVE  StateInv'
<1>0. StateOf(e)
  BY DEF StateInv
<1>1. CASE WriteFrame(e)
  <2>0. UNCHANGED <<calls, m_state, written, m_was_clean, held, pushed>>
    BY <1>1 DEF WriteFrame, linkvars
  <2>1. CASE m_write_flag[e] \/ m_send_queue[e] = <<>>
    <3>1. \A d \in End : Same(d)
      BY <1>1, <2>0, <2>1 DEF WriteFrame, Same
    <3> QED
      BY <3>1, SameState DEF StateInv
  <2>2. CASE ~(m_write_flag[e] \/ m_send_queue[e] = <<>>)
    <3>1. /\ m_send_queue' = [m_send_queue EXCEPT ![e] = Tail(m_send_queue[e])]
          /\ m_current_msgs' = [m_current_msgs EXCEPT ![e] = <<Head(m_send_queue[e])>>]
      BY <1>1, <2>2 DEF WriteFrame, Set
    <3>2. m_current_msgs'[e] # <<>>
      <4>1. <<Head(m_send_queue[e])>> # <<>>
        OBVIOUS
      <4> QED
        BY <3>1, <4>1 DEF TypeOK
    <3>3. \A d \in End \ {e} : Same(d)
      BY <2>0, <3>1 DEF Same, TypeOK
    <3>4. m_state[e] # "connecting"
      BY <1>0, <2>2 DEF StateOf
    <3>5. StateOf(e)'
      BY <1>0, <2>0, <3>2, <3>4, LaterState
    <3> QED
      BY <3>3, <3>5, OneEnd
  <2> QED
    BY <2>1, <2>2
<1>2. CASE Transmit(e)
  <2>1. /\ UNCHANGED <<calls, m_state, queues, m_was_clean, held>>
        /\ written' = [written EXCEPT ![e] = TRUE]
        /\ m_current_msgs[e] # <<>>
    BY <1>2 DEF Transmit, Set, linkvars
  <2>2. \A d \in End \ {e} : Same(d)
    BY <2>1 DEF Same, queues, TypeOK
  <2>3. m_state[e] # "connecting"
    BY <1>0, <2>1 DEF StateOf
  <2>4. StateOf(e)'
    BY <1>0, <2>1, <2>3, LaterState DEF queues
  <2> QED
    BY <2>2, <2>4, OneEnd
<1>3. CASE HandleWriteFrame(e)
  <2>1. /\ UNCHANGED <<calls, m_state, m_send_queue, m_was_clean, held, pushed>>
        /\ written' = [written EXCEPT ![e] = FALSE]
        /\ m_current_msgs' = [m_current_msgs EXCEPT ![e] = <<>>]
        /\ m_current_msgs[e] # <<>>
    BY <1>3 DEF HandleWriteFrame, WriteDone, Set, linkvars
  <2>2. \A d \in End \ {e} : Same(d)
    BY <2>1 DEF Same, TypeOK
  <2>3. m_state[e] # "connecting"
    BY <1>0, <2>1 DEF StateOf
  <2>4. StateOf(e)'
    BY <1>0, <2>1, <2>3, LaterState DEF TypeOK
  <2> QED
    BY <2>2, <2>4, OneEnd
<1>4. CASE HandleLastWrite(e)
  <2>1. /\ UNCHANGED <<m_send_queue, m_was_clean, held, pushed>>
        /\ written' = [written EXCEPT ![e] = FALSE]
        /\ m_current_msgs' = [m_current_msgs EXCEPT ![e] = <<>>]
        /\ TerminateAgain(e)
    BY <1>4 DEF HandleLastWrite, Set
  <2>2. StateOf(e)'
    BY <1>0, <2>1, TerminateAgainState, ClosedState DEF TypeOK
  <2>3. \A d \in End \ {e} : Same(d)
    BY <1>0, <2>1, TerminateAgainState DEF Same, TypeOK
  <2> QED
    BY <2>2, <2>3, OneEnd
<1> QED
  BY <1>1, <1>2, <1>3, <1>4 DEF Write

LEMMA TimerState ==
  ASSUME TypeOK, StateInv, NEW e \in End, Timer(e)
  PROVE  StateInv'
<1>0. StateOf(e)
  BY DEF StateInv
<1>1. CASE TimerExpires(e)
  <2>1. \A d \in End : Same(d)
    BY <1>1 DEF TimerExpires, Same, linkvars, queues
  <2> QED
    BY <2>1, SameState DEF StateInv
<1>2. CASE HandshakeTimeout(e)
  <2>1. UNCHANGED <<queues, written, m_was_clean, held>> /\ TerminateAgain(e)
    BY <1>2 DEF HandshakeTimeout
  <2>2. StateOf(e)'
    BY <1>0, <2>1, TerminateAgainState, ClosedState DEF queues, TypeOK
  <2>3. \A d \in End \ {e} : Same(d)
    BY <1>0, <2>1, TerminateAgainState DEF Same, queues, TypeOK
  <2> QED
    BY <2>2, <2>3, OneEnd
<1> QED
  BY <1>1, <1>2 DEF Timer

LEMMA ProgramState ==
  ASSUME TypeOK, StateInv, NEW e \in End, Program(e)
  PROVE  StateInv'
<1>0. StateOf(e)
  BY DEF StateInv
<1>1. CASE CloseCall(e)
  <2>1. \A d \in End \ {e} : Same(d)
    BY <1>1 DEF CloseCall, SendCloseFrame, Push, Same, Set, linkvars, TypeOK
  <2>2. /\ m_state[e] = "open" /\ m_state'[e] = "closing"
        /\ UNCHANGED <<calls, m_current_msgs, written>>
    BY <1>1 DEF CloseCall, SendCloseFrame, Push, Set, linkvars, TypeOK
  <2> QED
    BY <1>0, <2>1, <2>2, LaterState, OneEnd
<1>2. ASSUME NEW m \in Payload[e], SendCheck(e, m)
      PROVE  StateInv'
  <2>1. \A d \in End \ {e} : Same(d)
    BY <1>2 DEF SendCheck, Same, linkvars, queues, TypeOK
  <2>2. /\ m_state[e] = "open"
        /\ UNCHANGED <<calls, m_state, m_current_msgs, written, m_was_clean>>
    BY <1>2 DEF SendCheck, linkvars, queues
  <2> QED
    BY <1>0, <2>1, <2>2, LaterState, OneEnd
<1>3. ASSUME NEW m \in Payload[e], SendPush(e, m)
      PROVE  StateInv'
  <2>1. \A d \in End \ {e} : Same(d)
    BY <1>3 DEF SendPush, PushMsg, Push, Same, TypeOK
  <2>2. /\ m_state[e] # "connecting"
        /\ UNCHANGED <<calls, m_state, m_current_msgs, written, m_was_clean>>
    BY <1>0, <1>3 DEF SendPush, PushMsg, Push, StateOf
  <2> QED
    BY <1>0, <2>1, <2>2, LaterState, OneEnd
<1> QED
  BY <1>1, <1>2, <1>3 DEF Program

LEMMA StateStep == TypeOK /\ StateInv /\ [Next]_vars => StateInv'
<1> SUFFICES ASSUME TypeOK, StateInv, [Next]_vars PROVE StateInv'
  OBVIOUS
<1>1. CASE Break \/ UNCHANGED vars
  <2>1. \A d \in End : Same(d)
    BY <1>1 DEF Break, vars, Same, linkvars, queues
  <2> QED
    BY <2>1, SameState DEF StateInv
<1> QED
  BY <1>1, HandshakeState, ReadState, WriteState, TimerState, ProgramState DEF Next

-----------------------------------------------------------------------------
(* What is carried. As a receiver an end takes nothing from what is under    *)
(* way but what it is given; as a sender it adds to the rest, or moves the   *)
(* first of it to the wire.                                                  *)
Item == Call \cup Frame

LEMMA ItemSeq ==
  ASSUME TypeOK, NEW e \in End
  PROVE  /\ calls[e] \in Seq(Item) /\ Given(e) \in Seq(Item)
         /\ wire[e] \in Seq(Item) /\ UnderWay(e) \in Seq(Item)
         /\ Unwritten(e) \in Seq(Frame) /\ Left(e) \in Seq(Frame)
<1>1. calls[e] \in Seq(Item) /\ \A d \in End : calls[d] \in Seq(Item)
  <2>1. ASSUME NEW d \in End PROVE calls[d] \in Seq(Item)
    <3>1. calls[d] \in Seq(Call)
      BY DEF TypeOK, Call
    <3>2. Call \subseteq Item
      BY DEF Item
    <3> QED
      BY <3>1, <3>2, SeqMonotonic
  <2> QED
    BY <2>1
<1>2. ASSUME NEW d \in End PROVE Given(d) \in Seq(Item)
  BY <1>1, HeadTailProperties, EmptySeq DEF Given, New
<1>3. wire[e] \in Seq(Item)
  <2>1. wire[e] \in Seq(Frame) /\ Frame \subseteq Item
    BY DEF TypeOK, Item
  <2> QED
    BY <2>1, SeqMonotonic
<1>4. UnderWay(e) \in Seq(Item)
  BY <1>2, <1>3, OtherEnd, ConcatProperties DEF UnderWay
<1>5. Unwritten(e) \in Seq(Frame)
  BY EmptySeq DEF TypeOK, Unwritten
<1>6. Left(e) \in Seq(Frame)
  BY <1>5, ConcatProperties DEF TypeOK, Left
<1> QED
  BY <1>1, <1>2, <1>3, <1>4, <1>5, <1>6

(* The receiver of e's frames. *)
Hears(e) ==
    m_state'[Other(e)] \in {"connecting", "open"} =>
       m_state[Other(e)] \in {"connecting", "open"} /\ UnderWay(e)' = UnderWay(e)

(* The sender. *)
Keeps(e) ==
    /\ pushed'[e] = pushed[e]
    /\ m_state'[e] # "closed" => m_state[e] # "closed" /\ Left(e)' = Left(e)

Adds(e) ==
    \E f \in Frame :
       /\ pushed'[e] = Append(pushed[e], f)
       /\ m_state'[e] # "closed" => m_state[e] # "closed" /\ Left(e)' = Append(Left(e), f)

LEMMA AppendBehind ==
  \A s, t \in Seq(Item) : \A f \in Item : Append(s \o t, f) = s \o Append(t, f)
<1> SUFFICES ASSUME NEW s \in Seq(Item), NEW t \in Seq(Item), NEW f \in Item
             PROVE  Append(s \o t, f) = s \o Append(t, f)
  OBVIOUS
<1>1. s \o t \in Seq(Item) /\ <<f>> \in Seq(Item)
  BY ConcatProperties
<1>2. Append(s \o t, f) = (s \o t) \o <<f>>
  BY <1>1, AppendIsConcat
<1>3. Append(t, f) = t \o <<f>>
  BY AppendIsConcat
<1>4. (s \o t) \o <<f>> = s \o (t \o <<f>>)
  BY <1>1, ConcatAssociative
<1> QED
  BY <1>2, <1>3, <1>4

LEMMA CarriedKept ==
  ASSUME TypeOK, NEW e \in End, Carried(e), Hears(e), Keeps(e) \/ Adds(e)
  PROVE  Carried(e)'
<1> SUFFICES ASSUME m_state'[Other(e)] \in {"connecting", "open"}
             PROVE  \E rest \in Seq(Frame) :
                       /\ pushed'[e] = UnderWay(e)' \o rest
                       /\ m_state'[e] # "closed" => rest = Left(e)'
  BY DEF Carried
<1>1. UnderWay(e)' = UnderWay(e)
  BY DEF Hears
<1>2. PICK rest \in Seq(Frame) :
         /\ pushed[e] = UnderWay(e) \o rest
         /\ m_state[e] # "closed" => rest = Left(e)
  BY DEF Hears, Carried
<1>3. CASE Keeps(e)
  BY <1>1, <1>2, <1>3 DEF Keeps
<1>4. CASE Adds(e)
  <2>1. PICK f \in Frame :
           /\ pushed'[e] = Append(pushed[e], f)
           /\ m_state'[e] # "closed" => m_state[e] # "closed" /\ Left(e)' = Append(Left(e), f)
    BY <1>4 DEF Adds
  <2>2. Append(rest, f) \in Seq(Frame)
    BY <1>2, AppendProperties
  <2>3. rest \in Seq(Item) /\ f \in Item /\ UnderWay(e) \in Seq(Item)
    BY <1>2, SeqMonotonic, ItemSeq DEF Item
  <2>4. Append(UnderWay(e) \o rest, f) = UnderWay(e) \o Append(rest, f)
    BY <2>3, AppendBehind
  <2> QED
    BY <1>1, <1>2, <2>1, <2>2, <2>4
<1> QED
  BY <1>3, <1>4

(* No end goes back to an earlier state. *)
LEMMA StatesForward ==
  ASSUME TypeOK, [Next]_vars
  PROVE  \A d \in End : /\ m_state'[d] # "closed" => m_state[d] # "closed"
                        /\ m_state'[d] \in {"connecting", "open"} =>
                              m_state[d] \in {"connecting", "open"}
<1> DEFINE Forward == \A d \in End :
             m_state'[d] \in {"connecting", "open"} => m_state[d] \in {"connecting", "open"}
<1>0. "client" \in End /\ "server" \in End
  BY DEF End
<1>1. CASE Handshake
  BY <1>0, <1>1 DEF TypeOK, Handshake, SendHttpRequest, ReadHandshake, WriteHttpResponse,
     HandleWriteHttpResponse, ReadHttpResponse, Handshaking, Opened, Set
<1>2. ASSUME NEW e \in End, Read(e) PROVE Forward
  BY <1>2 DEF TypeOK, Read, ReadData, ReadClose, ReadCloseAck, ReadEnds, SendCloseFrame,
     Terminate, Set
<1>3. ASSUME NEW e \in End, Write(e) PROVE Forward
  BY <1>3, TerminateAgainType DEF TypeOK, Write, WriteFrame, Transmit, HandleWriteFrame,
     HandleLastWrite
<1>4. ASSUME NEW e \in End, Timer(e) PROVE Forward
  BY <1>4, TerminateAgainType DEF TypeOK, Timer, TimerExpires, HandshakeTimeout
<1>5. ASSUME NEW e \in End, Program(e) PROVE Forward
  BY <1>5 DEF TypeOK, Program, CloseCall, SendCloseFrame, SendCheck, SendPush, Set
<1>6. Forward
  BY <1>1, <1>2, <1>3, <1>4, <1>5 DEF Next, Break, vars
<1> QED
  BY <1>6, ClosedStays

(* The rest of a queue that stays, and of one that is added to. *)
LEMMA KeepsSame ==
  ASSUME NEW e \in End, pushed'[e] = pushed[e], m_send_queue'[e] = m_send_queue[e],
         Unwritten(e)' = Unwritten(e), m_state'[e] # "closed" => m_state[e] # "closed"
  PROVE  Keeps(e)
BY DEF Keeps, Left

LEMMA AddsPush ==
  ASSUME TypeOK, NEW e \in End, NEW f \in Frame, PushedBy(e, f), Unwritten(e)' = Unwritten(e),
         m_state'[e] # "closed" => m_state[e] # "closed"
  PROVE  Adds(e)
<1>1. pushed'[e] = Append(pushed[e], f) /\ m_send_queue'[e] = Append(m_send_queue[e], f)
  BY DEF PushedBy, TypeOK
<1>2. Unwritten(e) \in Seq(Item) /\ m_send_queue[e] \in Seq(Item) /\ f \in Item
  BY ItemSeq, SeqMonotonic DEF TypeOK, Item
<1>3. Left(e)' = Append(Left(e), f)
  <2>1. Left(e)' = Unwritten(e) \o Append(m_send_queue[e], f)
    BY <1>1 DEF Left
  <2>2. Append(Unwritten(e) \o m_send_queue[e], f) = Unwritten(e) \o Append(m_send_queue[e], f)
    BY <1>2, AppendBehind
  <2> QED
    BY <2>1, <2>2 DEF Left
<1> QED
  BY <1>1, <1>3 DEF Adds

LEMMA HandlerFlow ==
  ASSUME TypeOK, NEW e \in End, Handler(e), Unwritten(e)' = Unwritten(e),
         m_state'[e] # "closed" => m_state[e] # "closed"
  PROVE  Keeps(e) \/ Adds(e)
<1>1. CASE UNCHANGED <<pushed, m_send_queue, accepted>>
  BY <1>1, KeepsSame
<1>2. ASSUME NEW m \in Msg, PushedBy(e, m)
      PROVE  Adds(e)
  BY <1>2, AddsPush DEF Frame
<1> QED
  BY <1>1, <1>2, HandlerFacts

LEMMA HearsSame ==
  ASSUME NEW e \in End, Given(Other(e))' = Given(Other(e)), wire'[e] = wire[e],
         m_state'[Other(e)] \in {"connecting", "open"} => m_state[Other(e)] \in {"connecting", "open"}
  PROVE  Hears(e)
BY DEF Hears, UnderWay

LEMMA HearsNoMore ==
  ASSUME NEW e \in End, m_state'[Other(e)] \notin {"connecting", "open"}
  PROVE  Hears(e)
BY DEF Hears

Flow == \A d \in End : Hears(d) /\ (Keeps(d) \/ Adds(d))

(* Where the queues, the wire and the handlers' calls stay. *)
LEMMA NoFlow ==
  ASSUME TypeOK, [Next]_vars, UNCHANGED <<pushed, m_send_queue, calls, wire>>,
         \A d \in End : Unwritten(d)' = Unwritten(d)
  PROVE  Flow
<1>1. \A d \in End : Given(d)' = Given(d)
  BY DEF Given, New
<1> QED
  BY <1>1, StatesForward, KeepsSame, HearsSame, OtherEnd DEF Flow

(* Where an end is closed. *)
LEMMA CloseFlow ==
  ASSUME TypeOK, [Next]_vars, NEW e \in End, m_state'[e] = "closed",
         UNCHANGED pushed, \A d \in End \ {e} : calls'[d] = calls[d], wire'[e] = wire[e],
         \A d \in End \ {e} : Unwritten(d)' = Unwritten(d) /\ m_send_queue'[d] = m_send_queue[d]
  PROVE  Flow
<1>1. Keeps(e)
  BY DEF Keeps
<1>2. Hears(e)
  <2>1. Given(Other(e))' = Given(Other(e))
    BY OtherEnd DEF Given, New
  <2> QED
    BY <2>1, StatesForward, OtherEnd, HearsSame
<1>3. ASSUME NEW d \in End \ {e}
      PROVE  Hears(d) /\ Keeps(d)
  <2>1. Other(d) = e
    BY DEF End, Other
  <2> QED
    BY <2>1, StatesForward, HearsNoMore, KeepsSame
<1> QED
  BY <1>1, <1>2, <1>3 DEF Flow

(* Where a close frame is pushed. *)
LEMMA SendCloseFlow ==
  ASSUME TypeOK, [Next]_vars, NEW e \in End, NEW f \in CloseFrame, NEW ack \in BOOLEAN,
         SendCloseFrame(e, f, ack), UNCHANGED <<calls, written>>, wire'[e] = wire[e]
  PROVE  Flow
<1>1. PushedBy(e, f) /\ m_state'[e] = "closing"
  BY PushFacts DEF SendCloseFrame, Set, TypeOK
<1>2. \A d \in End : Unwritten(d)' = Unwritten(d) /\ Given(d)' = Given(d)
  BY <1>1 DEF Unwritten, PushedBy, Given, New
<1>3. Adds(e)
  BY <1>1, <1>2, AddsPush, StatesForward DEF Frame
<1>4. Hears(e)
  BY <1>2, HearsSame, StatesForward, OtherEnd
<1>5. ASSUME NEW d \in End \ {e}
      PROVE  Hears(d) /\ Keeps(d)
  <2>1. Other(d) = e
    BY DEF End, Other
  <2>2. pushed'[d] = pushed[d] /\ m_send_queue'[d] = m_send_queue[d]
    BY <1>1 DEF PushedBy, TypeOK
  <2> QED
    BY <1>1, <1>2, <2>1, <2>2, StatesForward, HearsNoMore, KeepsSame
<1> QED
  BY <1>3, <1>4, <1>5 DEF Flow

LEMMA HandshakeFlow ==
  ASSUME TypeOK, StateInv, [Next]_vars, Handshake
  PROVE  Flow
<1>0. "client" \in End /\ "server" \in End /\ StateOf("client") /\ StateOf("server")
  BY DEF StateInv, End
<1>1. CASE SendHttpRequest \/ ReadHandshake
  BY <1>1, NoFlow DEF SendHttpRequest, ReadHandshake, linkvars, queues, Unwritten
<1>2. CASE WriteHttpResponse
  <2>1. /\ UNCHANGED <<linkvars, queues, wire>>
        /\ written' = [written EXCEPT !["server"] = TRUE]
        /\ m_state["server"] = "connecting"
    BY <1>2 DEF WriteHttpResponse, Handshaking, Set
  <2>2. m_current_msgs["server"] = <<>>
    BY <1>0, <2>1 DEF StateOf
  <2>3. \A d \in End : Unwritten(d)' = Unwritten(d)
    BY <2>1, <2>2 DEF Unwritten, queues, TypeOK
  <2> QED
    BY <2>1, <2>3, NoFlow DEF linkvars, queues
<1>3. ASSUME NEW e \in End, Opened(e), m_state[e] = "connecting",
             \A d \in End \ {e} : written'[d] = written[d]
      PROVE  Flow
  <2>1. UNCHANGED <<m_current_msgs, wire>> /\ New(e) /\ m_current_msgs[e] = <<>>
    BY <1>3, HandlerFacts DEF Opened, StateInv, StateOf
  <2>2. \A d \in End : Given(d)' = Given(d)
    <3>1. Given(e)' = Given(e)
      BY <1>3, <2>1, CalledFacts DEF Opened, Call, Given
    <3>2. \A d \in End \ {e} : calls'[d] = calls[d]
      BY <1>3, CalledFacts DEF Opened, Call
    <3> QED
      BY <3>1, <3>2 DEF Given, New
  <2>3. \A d \in End : Unwritten(d)' = Unwritten(d)
    BY <1>3, <2>1 DEF Unwritten
  <2>4. Keeps(e) \/ Adds(e)
    BY <1>3, <2>3, HandlerFlow, StatesForward DEF Opened
  <2>5. \A d \in End \ {e} : Keeps(d)
    BY <1>3, <2>3, HandlerFacts, KeepsSame, StatesForward DEF Opened
  <2>6. \A d \in End : Hears(d)
    BY <2>1, <2>2, HearsSame, StatesForward, OtherEnd
  <2> QED
    BY <2>4, <2>5, <2>6 DEF Flow
<1>4. CASE HandleWriteHttpResponse
  BY <1>0, <1>3, <1>4 DEF HandleWriteHttpResponse, Handshaking, Set, TypeOK
<1>5. CASE ReadHttpResponse
  BY <1>0, <1>3, <1>5 DEF ReadHttpResponse, Handshaking
<1> QED
  BY <1>1, <1>2, <1>4, <1>5 DEF Handshake

(* A frame that is read moves from the wire to what is given. *)
LEMMA HeadMoved ==
  \A s, t \in Seq(Item) : t # <<>> => Append(s, Head(t)) \o Tail(t) = s \o t
<1> SUFFICES ASSUME NEW s \in Seq(Item), NEW t \in Seq(Item), t # <<>>
             PROVE  Append(s, Head(t)) \o Tail(t) = s \o t
  OBVIOUS
<1>1. Head(t) \in Item /\ Tail(t) \in Seq(Item) /\ <<Head(t)>> \in Seq(Item)
  BY HeadTailProperties
<1>2. Append(s, Head(t)) = s \o <<Head(t)>>
  BY <1>1, AppendIsConcat
<1>3. (s \o <<Head(t)>>) \o Tail(t) = s \o (<<Head(t)>> \o Tail(t))
  BY <1>1, ConcatAssociative
<1>4. <<Head(t)>> \o Tail(t) = t
  <2>1. <<Head(t)>> \o Tail(t) \in Seq(Item) /\ Len(<<Head(t)>> \o Tail(t)) = Len(t)
    BY <1>1, ConcatProperties, HeadTailProperties, LenProperties
  <2>2. \A i \in 1..Len(t) : (<<Head(t)>> \o Tail(t))[i] = t[i]
    BY <1>1, ConcatProperties, HeadTailProperties, LenProperties
  <2> QED
    BY <2>1, <2>2, SeqEqual
<1> QED
  BY <1>2, <1>3, <1>4

LEMMA ReadFlow ==
  ASSUME TypeOK, StateInv, [Next]_vars, NEW e \in End, Read(e)
  PROVE  Flow
<1>0. /\ Other(e) \in End /\ Other(e) # e /\ Other(Other(e)) = e
      /\ \A d \in End : d = e \/ d = Other(e)
      /\ StateOf(e)
  BY DEF StateInv, End, Other
<1>1. CASE ReadData(e)
  <2>1. /\ wire' = [wire EXCEPT ![Other(e)] = Tail(wire[Other(e)])]
        /\ wire[Other(e)] # <<>> /\ Head(wire[Other(e)]) \in Msg
        /\ UNCHANGED <<m_state, written>> /\ m_state[e] \in {"open", "closing"}
    BY <1>1 DEF ReadData, FrameRead, NextFrame, Reading
  <2>2. wire'[e] = wire[e] /\ wire'[Other(e)] = Tail(wire[Other(e)])
    BY <1>0, <2>1 DEF TypeOK
  <2>3. CASE m_state[e] = "open"
    <3>1. Called(e, Head(wire[Other(e)])) /\ Handler(e)
      BY <1>1, <2>3 DEF ReadData
    <3>2. /\ calls'[Other(e)] = calls[Other(e)]
          /\ Given(e)' = Append(Given(e), Head(wire[Other(e)]))
      BY <1>0, <2>1, <2>3, <3>1, CalledFacts DEF Call, StateOf
    <3>3. \A d \in End : Unwritten(d)' = Unwritten(d)
      BY <2>1, <3>1, HandlerFacts DEF Unwritten
    <3>4. Keeps(e) \/ Adds(e)
      BY <2>1, <3>1, <3>3, HandlerFlow
    <3>5. Keeps(Other(e))
      BY <1>0, <2>1, <3>1, <3>3, HandlerFacts, KeepsSame
    <3>6. Hears(e)
      BY <1>0, <2>1, <2>2, <3>2, HearsSame DEF Given, New
    <3>7. Hears(Other(e))
      <4>1. Given(e) \in Seq(Item) /\ wire[Other(e)] \in Seq(Item)
        BY <1>0, ItemSeq
      <4>2. UnderWay(Other(e))' = Append(Given(e), Head(wire[Other(e)])) \o Tail(wire[Other(e)])
        BY <1>0, <2>2, <3>2 DEF UnderWay
      <4>3. UnderWay(Other(e))' = Given(e) \o wire[Other(e)]
        BY <2>1, <4>1, <4>2, HeadMoved
      <4> QED
        BY <1>0, <2>1, <4>3 DEF Hears, UnderWay
    <3> QED
      BY <1>0, <3>4, <3>5, <3>6, <3>7 DEF Flow
  <2>4. CASE m_state[e] = "closing"
    <3>1. UNCHANGED <<linkvars, queues>>
      BY <1>1, <2>4 DEF ReadData
    <3>2. \A d \in End : Keeps(d)
      BY <2>1, <3>1, KeepsSame DEF queues, Unwritten
    <3>3. Hears(e)
      BY <1>0, <2>1, <2>2, <3>1, HearsSame DEF Given, New, linkvars
    <3>4. Hears(Other(e))
      BY <1>0, <2>1, <2>4, HearsNoMore
    <3> QED
      BY <1>0, <3>2, <3>3, <3>4 DEF Flow
  <2> QED
    BY <2>1, <2>3, <2>4
<1>2. CASE ReadClose(e)
  <2>1. wire'[e] = wire[e]
    BY <1>0, <1>2 DEF ReadClose, FrameRead, TypeOK
  <2> QED
    BY <1>2, <2>1, SendCloseFlow DEF ReadClose, linkvars, CloseFrame
<1>3. CASE ReadCloseAck(e)
  <2>1. wire'[e] = wire[e] /\ UNCHANGED <<queues, written>>
    BY <1>0, <1>3 DEF ReadCloseAck, FrameRead, TypeOK
  <2>2. calls'[Other(e)] = calls[Other(e)] /\ m_state'[e] \in {"closing", "closed"}
    BY <1>0, <1>3 DEF ReadCloseAck, Called, Set, TypeOK
  <2>3. \A d \in End : Keeps(d)
    BY <2>1, KeepsSame, StatesForward DEF queues, Unwritten
  <2>4. Hears(e)
    BY <1>0, <2>1, <2>2, HearsSame, StatesForward DEF Given, New
  <2>5. Hears(Other(e))
    BY <1>0, <2>2, HearsNoMore
  <2> QED
    BY <1>0, <2>3, <2>4, <2>5 DEF Flow
<1>4. CASE ReadEnds(e)
  <2>1. Terminate(e) /\ UNCHANGED <<queues, written, wire>>
    BY <1>4 DEF ReadEnds
  <2>2. m_state'[e] = "closed" /\ \A d \in End \ {e} : calls'[d] = calls[d]
    BY <2>1, TerminateState DEF TypeOK
  <2> QED
    BY <2>1, <2>2, CloseFlow DEF queues, Unwritten
<1> QED
  BY <1>1, <1>2, <1>3, <1>4 DEF Read

LEMMA WriteFlow ==
  ASSUME QueueInv, StateInv, [Next]_vars, NEW e \in End, Write(e), ~Transmit(e)
  PROVE  Flow
<1>0. TypeOK /\ StateOf(e)
  BY DEF QueueInv, StateInv
<1>1. CASE WriteFrame(e)
  <2>0. UNCHANGED <<calls, m_state, written, pushed, wire>>
    BY <1>1 DEF WriteFrame, linkvars
  <2>1. CASE m_write_flag[e] \/ m_send_queue[e] = <<>>
    <3>1. UNCHANGED <<m_send_queue, m_current_msgs>>
      BY <1>1, <2>1 DEF WriteFrame
    <3> QED
      BY <1>0, <2>0, <3>1, NoFlow DEF Unwritten
  <2>2. CASE ~(m_write_flag[e] \/ m_send_queue[e] = <<>>)
    <3>1. /\ m_send_queue' = [m_send_queue EXCEPT ![e] = Tail(m_send_queue[e])]
          /\ m_current_msgs' = [m_current_msgs EXCEPT ![e] = <<Head(m_send_queue[e])>>]
      BY <1>1, <2>2 DEF WriteFrame, Set
    <3>2. m_current_msgs[e] = <<>>
      BY <2>2 DEF QueueInv
    <3>3. m_state'[e] # "closed" => m_state[e] # "closed" /\ Left(e)' = Left(e)
      <4> SUFFICES ASSUME m_state[e] # "closed" PROVE Left(e)' = Left(e)
        BY <2>0
      <4>1. ~written[e]
        BY <1>0, <2>2, <3>2 DEF StateOf
      <4>2. Left(e)' = <<Head(m_send_queue[e])>> \o Tail(m_send_queue[e])
        BY <1>0, <2>0, <3>1, <4>1 DEF Left, Unwritten, TypeOK
      <4>3. Left(e) = <<>> \o m_send_queue[e]
        BY <3>2 DEF Left, Unwritten
      <4>4. m_send_queue[e] \in Seq(Item) /\ <<>> \in Seq(Item)
        BY <1>0, SeqMonotonic, EmptySeq DEF TypeOK, Item
      <4>5. Append(<<>>, Head(m_send_queue[e])) \o Tail(m_send_queue[e]) = <<>> \o m_send_queue[e]
        BY <2>2, <4>4, HeadMoved
      <4>6. Append(<<>>, Head(m_send_queue[e])) = <<Head(m_send_queue[e])>>
        OBVIOUS
      <4> QED
        BY <4>2, <4>3, <4>5, <4>6
    <3>4. Keeps(e)
      BY <2>0, <3>3 DEF Keeps
    <3>5. \A d \in End \ {e} : Keeps(d)
      BY <1>0, <2>0, <3>1, KeepsSame DEF Unwritten, TypeOK
    <3>6. \A d \in End : Hears(d)
      BY <2>0, HearsSame DEF Given, New
    <3> QED
      BY <3>4, <3>5, <3>6 DEF Flow
  <2> QED
    BY <2>1, <2>2
<1>2. CASE HandleWriteFrame(e)
  <2>1. /\ UNCHANGED <<calls, m_send_queue, pushed, wire>>
        /\ written' = [written EXCEPT ![e] = FALSE]
        /\ m_current_msgs' = [m_current_msgs EXCEPT ![e] = <<>>]
        /\ written[e]
    BY <1>2 DEF HandleWriteFrame, WriteDone, Set, linkvars
  <2>2. \A d \in End : Unwritten(d)' = Unwritten(d)
    BY <1>0, <2>1 DEF Unwritten, TypeOK
  <2> QED
    BY <1>0, <2>1, <2>2, NoFlow
<1>3. CASE HandleLastWrite(e)
  <2>1. /\ UNCHANGED <<m_send_queue, pushed, wire>>
        /\ written' = [written EXCEPT ![e] = FALSE]
        /\ m_current_msgs' = [m_current_msgs EXCEPT ![e] = <<>>]
        /\ TerminateAgain(e)
    BY <1>3 DEF HandleLastWrite, Set
  <2>2. m_state'[e] = "closed" /\ \A d \in End \ {e} : calls'[d] = calls[d]
    BY <1>0, <2>1, TerminateAgainState DEF TypeOK
  <2> QED
    BY <1>0, <2>1, <2>2, CloseFlow DEF Unwritten, TypeOK
<1> QED
  BY <1>1, <1>2, <1>3 DEF Write

LEMMA Associative ==
  \A s, t, u \in Seq(Item) : (s \o t) \o u = s \o (t \o u)
BY ConcatAssociative

(* A write of the transport moves the frame from the rest to the wire. *)
LEMMA TransmitCarried ==
  ASSUME TypeOK, NEW e \in End, Transmit(e), \A d \in End : Carried(d)
  PROVE  \A d \in End : Carried(d)'
<1>1. /\ wire' = [wire EXCEPT ![e] = wire[e] \o m_current_msgs[e]]
      /\ written' = [written EXCEPT ![e] = TRUE]
      /\ UNCHANGED <<calls, m_state, queues>>
      /\ ~written[e] /\ m_state[e] # "closed"
  BY DEF Transmit, Set, linkvars
<1>2. \A d \in End : Given(d)' = Given(d)
  BY <1>1 DEF Given, New
<1>3. ASSUME NEW d \in End \ {e} PROVE Carried(d)'
  <2>1. Left(d)' = Left(d) /\ UnderWay(d)' = UnderWay(d)
    BY <1>1, <1>2, OtherEnd DEF Left, Unwritten, UnderWay, queues, TypeOK
  <2> QED
    BY <1>1, <2>1 DEF Carried, queues
<1>4. Carried(e)'
  <2> SUFFICES ASSUME m_state[Other(e)] \in {"connecting", "open"}
               PROVE  \E rest \in Seq(Frame) :
                         /\ pushed[e] = UnderWay(e)' \o rest
                         /\ rest = Left(e)'
    BY <1>1 DEF Carried, queues
  <2>1. pushed[e] = UnderWay(e) \o Left(e)
    BY <1>1 DEF Carried
  <2>2. Left(e) = m_current_msgs[e] \o m_send_queue[e]
    BY <1>1 DEF Left, Unwritten
  <2>3. m_send_queue[e] \in Seq(Frame) /\ m_send_queue[e] \in Seq(Item)
        /\ m_current_msgs[e] \in Seq(Item)
    BY SeqMonotonic DEF TypeOK, Item
  <2>4. Left(e)' = m_send_queue[e]
    BY <1>1, <2>3, ConcatEmptySeq DEF Left, Unwritten, queues, TypeOK
  <2>5. Given(Other(e)) \in Seq(Item) /\ wire[e] \in Seq(Item) /\ UnderWay(e) \in Seq(Item)
    BY ItemSeq, OtherEnd
  <2>6. UnderWay(e)' = Given(Other(e)) \o (wire[e] \o m_current_msgs[e])
    BY <1>1, <1>2, OtherEnd DEF UnderWay, TypeOK
  <2>7. UnderWay(e)' = UnderWay(e) \o m_current_msgs[e]
    BY <2>3, <2>5, <2>6, Associative DEF UnderWay
  <2>8. UnderWay(e) \o (m_current_msgs[e] \o m_send_queue[e])
          = (UnderWay(e) \o m_current_msgs[e]) \o m_send_queue[e]
    BY <2>3, <2>5, Associative
  <2> QED
    BY <2>1, <2>2, <2>3, <2>4, <2>7, <2>8
<1> QED
  BY <1>3, <1>4

LEMMA TimerFlow ==
  ASSUME TypeOK, StateInv, [Next]_vars, NEW e \in End, Timer(e)
  PROVE  Flow
<1>1. CASE TimerExpires(e)
  BY <1>1, NoFlow DEF TimerExpires, linkvars, queues, Unwritten
<1>2. CASE HandshakeTimeout(e)
  <2>1. UNCHANGED <<queues, written, wire>> /\ TerminateAgain(e) /\ StateOf(e)
    BY <1>2 DEF HandshakeTimeout, StateInv
  <2>2. m_state'[e] = "closed" /\ \A d \in End \ {e} : calls'[d] = calls[d]
    BY <2>1, TerminateAgainState DEF TypeOK
  <2> QED
    BY <2>1, <2>2, CloseFlow DEF queues, Unwritten
<1> QED
  BY <1>1, <1>2 DEF Timer

LEMMA ProgramFlow ==
  ASSUME TypeOK, StateInv, [Next]_vars, NEW e \in End, Program(e)
  PROVE  Flow
<1>1. CASE CloseCall(e)
  BY <1>1, SendCloseFlow DEF CloseCall, linkvars, CloseFrame
<1>2. ASSUME NEW m \in Payload[e], SendCheck(e, m) PROVE Flow
  BY <1>2, NoFlow DEF SendCheck, linkvars, queues, Unwritten
<1>3. ASSUME NEW m \in Payload[e], SendPush(e, m) PROVE Flow
  <2>1. /\ PushedBy(e, m) /\ m \in Frame
        /\ UNCHANGED <<calls, m_state, written, wire>>
    BY <1>3, PayloadAssumption, PushFacts DEF SendPush, PushMsg, Frame
  <2>2. \A d \in End : Unwritten(d)' = Unwritten(d) /\ Given(d)' = Given(d)
    BY <2>1 DEF PushedBy, Unwritten, Given, New
  <2>3. Adds(e)
    BY <2>1, <2>2, AddsPush
  <2>4. \A d \in End \ {e} : Keeps(d)
    BY <2>1, <2>2, KeepsSame DEF PushedBy, TypeOK
  <2>5. \A d \in End : Hears(d)
    BY <2>1, <2>2, HearsSame, OtherEnd
  <2> QED
    BY <2>3, <2>4, <2>5 DEF Flow
<1> QED
  BY <1>1, <1>2, <1>3 DEF Program

LEMMA CarriedStep ==
  ASSUME QueueInv, StateInv, \A e \in End : Carried(e), [Next]_vars
  PROVE  \A e \in End : Carried(e)'
<1>0. TypeOK
  BY DEF QueueInv
<1>1. ASSUME Flow PROVE \A e \in End : Carried(e)'
  BY <1>0, <1>1, CarriedKept DEF Flow
<1>2. ASSUME NEW e \in End, Transmit(e) PROVE \A d \in End : Carried(d)'
  BY <1>0, <1>2, TransmitCarried
<1>3. CASE Break \/ UNCHANGED vars
  <2>1. Flow
    BY <1>0, <1>3, NoFlow DEF Break, vars, linkvars, queues, Unwritten
  <2> QED
    BY <1>1, <2>1
<1>4. CASE Handshake
  BY <1>0, <1>1, <1>4, HandshakeFlow
<1>5. ASSUME NEW e \in End, Read(e) \/ Write(e) \/ Timer(e) \/ Program(e)
      PROVE  \A d \in End : Carried(d)'
  BY <1>0, <1>1, <1>2, <1>5, ReadFlow, WriteFlow, TimerFlow, ProgramFlow
<1> QED
  BY <1>3, <1>4, <1>5 DEF Next

-----------------------------------------------------------------------------
(* What is accepted is pushed, and a close frame is no message.              *)
Grows(e) ==
    \/ accepted'[e] = accepted[e] /\ pushed'[e] = pushed[e]
    \/ \E m \in Msg : /\ accepted'[e] = Append(accepted[e], m)
                      /\ pushed'[e] = Append(pushed[e], m)
    \/ \E f \in CloseFrame : /\ accepted'[e] = accepted[e]
                             /\ pushed'[e] = Append(pushed[e], f)

LEMMA HandlerGrows ==
  ASSUME TypeOK, NEW e \in End, Handler(e)
  PROVE  \A d \in End : Grows(d)
<1>1. CASE UNCHANGED <<pushed, m_send_queue, accepted>>
  BY <1>1 DEF Grows
<1>2. ASSUME NEW m \in Msg, PushedBy(e, m), Accepts(e, m)
      PROVE  Grows(e)
  BY <1>2 DEF PushedBy, Accepts, Grows, TypeOK
<1> QED
  BY <1>1, <1>2, HandlerFacts DEF Grows

LEMMA AllGrow ==
  ASSUME TypeOK, [Next]_vars
  PROVE  \A d \in End : Grows(d)
<1>0. "client" \in End /\ "server" \in End
  BY DEF End
<1>1. ASSUME UNCHANGED <<pushed, accepted>> PROVE \A d \in End : Grows(d)
  BY <1>1 DEF Grows
<1>2. ASSUME NEW e \in End, NEW f \in CloseFrame, Push(e, f), UNCHANGED accepted
      PROVE  \A d \in End : Grows(d)
  BY <1>2 DEF Push, Grows, TypeOK
<1>3. CASE Handshake
  BY <1>0, <1>1, <1>3, HandlerGrows DEF Handshake, SendHttpRequest, ReadHandshake,
     WriteHttpResponse, HandleWriteHttpResponse, ReadHttpResponse, Opened, linkvars, queues
<1>4. ASSUME NEW e \in End, Read(e) PROVE \A d \in End : Grows(d)
  <2>1. CASE ReadData(e)
    BY <1>1, <2>1, HandlerGrows DEF ReadData, linkvars, queues
  <2>2. CASE ReadClose(e)
    BY <1>2, <2>2 DEF ReadClose, SendCloseFrame, linkvars, CloseFrame
  <2>3. CASE ReadCloseAck(e) \/ ReadEnds(e)
    BY <1>1, <2>3 DEF ReadCloseAck, ReadEnds, queues
  <2> QED
    BY <1>4, <2>1, <2>2, <2>3 DEF Read
<1>5. ASSUME NEW e \in End, Write(e) PROVE \A d \in End : Grows(d)
  BY <1>1, <1>5 DEF Write, WriteFrame, Transmit, HandleWriteFrame, HandleLastWrite,
     linkvars, queues
<1>6. ASSUME NEW e \in End, Timer(e) PROVE \A d \in End : Grows(d)
  BY <1>1, <1>6 DEF Timer, TimerExpires, HandshakeTimeout, linkvars, queues
<1>7. ASSUME NEW e \in End, Program(e) PROVE \A d \in End : Grows(d)
  <2>1. CASE CloseCall(e)
    BY <1>2, <2>1 DEF CloseCall, SendCloseFrame, linkvars, CloseFrame
  <2>2. ASSUME NEW m \in Payload[e], SendCheck(e, m) PROVE \A d \in End : Grows(d)
    BY <1>1, <2>2 DEF SendCheck, linkvars, queues
  <2>3. ASSUME NEW m \in Payload[e], SendPush(e, m) PROVE \A d \in End : Grows(d)
    BY <2>3, PayloadAssumption DEF SendPush, PushMsg, Push, Accepts, Grows, TypeOK
  <2> QED
    BY <1>7, <2>1, <2>2, <2>3 DEF Program
<1> QED
  BY <1>1, <1>3, <1>4, <1>5, <1>6, <1>7 DEF Next, Break, vars, linkvars, queues

LEMMA AgreesKept ==
  ASSUME TypeOK, NEW e \in End, Agrees(e), Grows(e)
  PROVE  Agrees(e)'
<1>0. accepted[e] \in Seq(Msg) /\ pushed[e] \in Seq(Frame)
      /\ Len(accepted[e]) \in Nat /\ Len(pushed[e]) \in Nat
  BY LenProperties DEF TypeOK
<1>1. CASE accepted'[e] = accepted[e] /\ pushed'[e] = pushed[e]
  BY <1>1 DEF Agrees
<1>2. ASSUME NEW m \in Msg, accepted'[e] = Append(accepted[e], m),
             pushed'[e] = Append(pushed[e], m)
      PROVE  Agrees(e)'
  <2>1. /\ Len(accepted'[e]) = Len(accepted[e]) + 1
        /\ \A i \in 1..Len(accepted[e]) : accepted'[e][i] = accepted[e][i]
        /\ accepted'[e][Len(accepted[e]) + 1] = m
    BY <1>0, <1>2, AppendProperties
  <2>2. m \in Frame
    BY DEF Frame
  <2>3. /\ Len(pushed'[e]) = Len(pushed[e]) + 1
        /\ \A i \in 1..Len(pushed[e]) : pushed'[e][i] = pushed[e][i]
        /\ pushed'[e][Len(pushed[e]) + 1] = m
    BY <1>0, <1>2, <2>2, AppendProperties
  <2>4. ASSUME NEW k \in 1..Len(pushed'[e]), \A j \in 1..k : pushed'[e][j] \in Msg
        PROVE  k <= Len(accepted'[e]) /\ accepted'[e][k] = pushed'[e][k]
    <3>1. CASE k <= Len(pushed[e])
      <4>1. k \in 1..Len(pushed[e]) /\ \A j \in 1..k : pushed[e][j] \in Msg
        <5>1. k \in 1..Len(pushed[e]) /\ \A j \in 1..k : j \in 1..Len(pushed[e])
          BY <1>0, <2>3, <2>4, <3>1
        <5> QED
          BY <2>3, <2>4, <5>1
      <4>2. k <= Len(accepted[e]) /\ accepted[e][k] = pushed[e][k]
        BY <4>1 DEF Agrees
      <4> QED
        BY <1>0, <2>1, <2>3, <4>1, <4>2
    <3>2. CASE k = Len(pushed[e]) + 1
      <4>1. Len(accepted[e]) = Len(pushed[e])
        <5>1. CASE Len(pushed[e]) = 0
          BY <1>0, <5>1 DEF Agrees
        <5>2. CASE Len(pushed[e]) > 0
          <6>1. Len(pushed[e]) \in 1..Len(pushed[e])
                /\ \A j \in 1..Len(pushed[e]) : pushed[e][j] \in Msg
            BY <1>0, <2>3, <2>4, <3>2, <5>2
          <6>2. Len(pushed[e]) <= Len(accepted[e])
            BY <6>1 DEF Agrees
          <6> QED
            BY <1>0, <6>2 DEF Agrees
        <5> QED
          BY <1>0, <5>1, <5>2
      <4> QED
        BY <1>0, <2>1, <2>3, <3>2, <4>1
    <3> QED
      BY <1>0, <2>3, <3>1, <3>2
  <2>5. Len(accepted'[e]) <= Len(pushed'[e])
    BY <1>0, <2>1, <2>3 DEF Agrees
  <2> QED
    BY <2>4, <2>5 DEF Agrees
<1>3. ASSUME NEW f \in CloseFrame, accepted'[e] = accepted[e],
             pushed'[e] = Append(pushed[e], f)
      PROVE  Agrees(e)'
  <2>1. f \notin Msg
    BY MsgAssumption DEF CloseFrame
  <2>2. f \in Frame
    BY DEF Frame
  <2>3. /\ Len(pushed'[e]) = Len(pushed[e]) + 1
        /\ \A i \in 1..Len(pushed[e]) : pushed'[e][i] = pushed[e][i]
        /\ pushed'[e][Len(pushed[e]) + 1] = f
    BY <1>0, <1>3, <2>2, AppendProperties
  <2>4. ASSUME NEW k \in 1..Len(pushed'[e]), \A j \in 1..k : pushed'[e][j] \in Msg
        PROVE  k <= Len(accepted'[e]) /\ accepted'[e][k] = pushed'[e][k]
    <3>1. k <= Len(pushed[e])
      BY <1>0, <2>1, <2>3, <2>4
    <3>2. k \in 1..Len(pushed[e]) /\ \A j \in 1..k : pushed[e][j] \in Msg
      BY <1>0, <2>3, <2>4, <3>1
    <3> QED
      BY <1>3, <2>3, <3>2 DEF Agrees
  <2>5. Len(accepted'[e]) <= Len(pushed'[e])
    BY <1>0, <1>3, <2>3 DEF Agrees
  <2> QED
    BY <2>4, <2>5 DEF Agrees
<1> QED
  BY <1>1, <1>2, <1>3 DEF Grows

-----------------------------------------------------------------------------
Inv == ConnectionInv /\ QueueInv

LEMMA InitInv == Init => Inv
<1> SUFFICES ASSUME Init PROVE Inv
  OBVIOUS
<1>1. TypeOK /\ QueueInv
  BY TypeInit DEF Init, QueueInv, WriteScheduled
<1>2. StateInv
  BY DEF Init, LinkInit, StateInv, StateOf, New
<1>3. \A e \in End : Carried(e)
  <2>1. \A e \in End : UnderWay(e) = <<>> \o <<>> /\ Left(e) = <<>> \o <<>>
    BY OtherEnd DEF Init, LinkInit, UnderWay, Left, Unwritten, Given, New
  <2>2. <<>> \in Seq(Frame) /\ <<>> \o <<>> = <<>>
    BY ConcatEmptySeq, EmptySeq
  <2> QED
    BY <2>1, <2>2 DEF Init, Carried
<1>4. \A e \in End : Agrees(e)
  BY EmptySeq DEF Init, LinkInit, Agrees
<1> QED
  BY <1>1, <1>2, <1>3, <1>4 DEF Inv, ConnectionInv

LEMMA StepInv == Inv /\ [Next]_vars => Inv'
<1> SUFFICES ASSUME Inv, [Next]_vars PROVE Inv'
  OBVIOUS
<1>1. TypeOK' /\ QueueInv' /\ StateInv'
  BY TypeStep, QueueStep, StateStep DEF Inv, ConnectionInv
<1>2. \A e \in End : Carried(e)'
  BY CarriedStep DEF Inv, ConnectionInv
<1>3. \A e \in End : Agrees(e)'
  BY AllGrow, AgreesKept DEF Inv, ConnectionInv
<1> QED
  BY <1>1, <1>2, <1>3 DEF Inv, ConnectionInv

(* The inductive invariant holds in every reachable state.                   *)
THEOREM Invariant == Spec => []ConnectionInv
<1>1. Inv => ConnectionInv
  BY DEF Inv
<1> QED
  BY <1>1, InitInv, StepInv, PTL DEF Spec

-----------------------------------------------------------------------------
LEMMA PrefixOfConcat ==
  \A s, t \in Seq(Item) : IsPrefix(s, s \o t)
<1> SUFFICES ASSUME NEW s \in Seq(Item), NEW t \in Seq(Item)
             PROVE  IsPrefix(s, s \o t)
  OBVIOUS
<1>1. Len(s) \in Nat /\ Len(t) \in Nat /\ Len(s \o t) = Len(s) + Len(t)
  BY ConcatProperties, LenProperties
<1>2. CASE Len(s) = 0
  <2>1. SubSeq(s, 1, Len(s)) = <<>> /\ SubSeq(s \o t, 1, Len(s)) = <<>>
    BY <1>2, SubSeqEmpty
  <2> QED
    BY <1>1, <2>1 DEF IsPrefix
<1>3. CASE Len(s) > 0
  <2>1. 1 \in 1..Len(s) /\ Len(s) \in 1..Len(s)
    BY <1>1, <1>3
  <2>2. SubSeq(s \o t, 1, Len(s)) = SubSeq(s, 1, Len(s))
    BY <2>1, SubSeqOfConcat1
  <2> QED
    BY <1>1, <2>2 DEF IsPrefix
<1> QED
  BY <1>1, <1>2, <1>3

(* Nothing is lost, repeated or overtaken on the way to an open end.         *)
THEOREM Delivery == Spec => []NothingLost
<1>1. ConnectionInv => NothingLost
  <2> SUFFICES ASSUME ConnectionInv, NEW e \in End, m_state[Other(e)] \in {"connecting", "open"}
               PROVE  /\ m_state[e] # "closed" =>
                            pushed[e] = UnderWay(e) \o (Unwritten(e) \o m_send_queue[e])
                      /\ IsPrefix(UnderWay(e), pushed[e])
    BY DEF NothingLost
  <2>1. PICK rest \in Seq(Frame) :
           /\ pushed[e] = UnderWay(e) \o rest
           /\ m_state[e] # "closed" => rest = Left(e)
    BY DEF ConnectionInv, Carried
  <2>2. rest \in Seq(Item) /\ UnderWay(e) \in Seq(Item)
    BY SeqMonotonic, ItemSeq DEF ConnectionInv, Item
  <2>3. IsPrefix(UnderWay(e), pushed[e])
    BY <2>1, <2>2, PrefixOfConcat
  <2> QED
    BY <2>1, <2>3 DEF Left
<1> QED
  BY <1>1, Invariant, PTL

(* Where the elements of two sequences are when they are joined.             *)
LEMMA ElementsOfConcat ==
  ASSUME NEW s \in Seq(Item), NEW t \in Seq(Item)
  PROVE  /\ Len(s \o t) = Len(s) + Len(t)
         /\ \A i \in 1 .. Len(s) + Len(t) :
               (s \o t)[i] = IF i <= Len(s) THEN s[i] ELSE t[i - Len(s)]
  BY ConcatProperties

(* The next frame under way to an end that is open is the one behind what    *)
(* the end has been given.                                                   *)
LEMMA NextUnderWay ==
  ASSUME ConnectionInv, NEW e \in End, m_state[e] = "open", wire[Other(e)] # <<>>
  PROVE  /\ Len(Given(e)) + 1 \in 1..Len(pushed[Other(e)])
         /\ pushed[Other(e)][Len(Given(e)) + 1] = Head(wire[Other(e)])
         /\ \A j \in 1..Len(Given(e)) : pushed[Other(e)][j] \in Msg
         /\ IsPrefix(Given(e), pushed[Other(e)])
<1>0. Other(e) \in End /\ Other(Other(e)) = e /\ TypeOK /\ StateOf(e)
  BY OtherEnd DEF ConnectionInv, StateInv
<1>1. PICK rest \in Seq(Frame) : pushed[Other(e)] = (Given(e) \o wire[Other(e)]) \o rest
  BY <1>0 DEF ConnectionInv, Carried, UnderWay
<1>2. rest \in Seq(Item) /\ Given(e) \in Seq(Item) /\ wire[Other(e)] \in Seq(Item)
  BY <1>0, <1>1, SeqMonotonic, ItemSeq DEF Item
<1> DEFINE behind == wire[Other(e)] \o rest
<1>3. behind \in Seq(Item) /\ Len(behind) = Len(wire[Other(e)]) + Len(rest)
      /\ behind[1] = Head(wire[Other(e)])
      /\ Len(wire[Other(e)]) \in Nat \ {0} /\ Len(rest) \in Nat /\ Len(Given(e)) \in Nat
  BY <1>2, ConcatProperties, LenProperties, EmptySeq
<1>4. pushed[Other(e)] = Given(e) \o behind
  BY <1>1, <1>2, Associative
<1> HIDE DEF behind
<1>5. /\ Len(pushed[Other(e)]) = Len(Given(e)) + Len(behind)
      /\ \A i \in 1 .. Len(Given(e)) + Len(behind) :
            pushed[Other(e)][i] = IF i <= Len(Given(e)) THEN Given(e)[i]
                                  ELSE behind[i - Len(Given(e))]
  <2>1. Given(e) \in Seq(Item) /\ behind \in Seq(Item)
    BY <1>2, <1>3
  <2> HIDE <1>2, <1>3
  <2> QED
    BY <1>4, <2>1, ElementsOfConcat
<1>6. \A j \in 1..Len(Given(e)) : Given(e)[j] \in Msg
  <2>1. Given(e) \in Seq(Msg)
    BY <1>0 DEF StateOf
  <2> QED
    BY <2>1, ElementOfSeq
<1>7. IsPrefix(Given(e), pushed[Other(e)])
  BY <1>2, <1>3, <1>4, PrefixOfConcat
<1>8. Len(Given(e)) + 1 \in 1..Len(pushed[Other(e)])
  BY <1>3, <1>5
<1>9. \A j \in 1..Len(Given(e)) : pushed[Other(e)][j] \in Msg
  BY <1>3, <1>5, <1>6
<1>10. pushed[Other(e)][Len(Given(e)) + 1] = behind[1]
  <2> DEFINE n == Len(Given(e))
  <2>1. n + 1 \in 1 .. n + Len(behind) /\ ~(n + 1 <= n) /\ (n + 1) - n = 1
    BY <1>3
  <2> QED
    BY <1>5, <2>1
<1> QED
  BY <1>3, <1>7, <1>8, <1>9, <1>10

(* Only a close frame of the peer makes an open end close cleanly.           *)
LEMMA ClosingStep ==
  ASSUME ConnectionInv, [Next]_vars, NEW e \in End,
         m_state[e] = "open", m_state'[e] = "closing", m_was_clean'[e]
  PROVE  ReadClose(e)
<1>0. TypeOK /\ ~m_was_clean[e] /\ "client" \in End /\ "server" \in End
  BY DEF ConnectionInv, StateInv, StateOf, End
<1>1. ~Handshake
  BY <1>0 DEF TypeOK, Handshake, SendHttpRequest, ReadHandshake, WriteHttpResponse,
     HandleWriteHttpResponse, ReadHttpResponse, Handshaking, Opened, Set
<1>2. ASSUME NEW d \in End, Read(d) PROVE ReadClose(e)
  <2>1. CASE ReadData(d)
    BY <2>1 DEF ReadData
  <2>2. CASE ReadClose(d)
    BY <1>0, <2>2 DEF ReadClose, SendCloseFrame, Set, TypeOK
  <2>3. CASE ReadCloseAck(d)
    BY <1>0, <2>3 DEF ReadCloseAck, Set, TypeOK
  <2>4. CASE ReadEnds(d)
    BY <1>0, <2>4 DEF ReadEnds, Terminate, Set, TypeOK
  <2> QED
    BY <1>2, <2>1, <2>2, <2>3, <2>4 DEF Read
<1>3. ASSUME NEW d \in End, Write(d) PROVE FALSE
  BY <1>0, <1>3, TerminateAgainType DEF TypeOK, Write, WriteFrame, Transmit,
     HandleWriteFrame, HandleLastWrite
<1>4. ASSUME NEW d \in End, Timer(d) PROVE FALSE
  BY <1>0, <1>4, TerminateAgainType DEF TypeOK, Timer, TimerExpires, HandshakeTimeout
<1>5. ASSUME NEW d \in End, Program(d) PROVE FALSE
  BY <1>0, <1>5 DEF TypeOK, Program, CloseCall, SendCloseFrame, SendCheck, SendPush, Set
<1> QED
  BY <1>1, <1>2, <1>3, <1>4, <1>5 DEF Next, Break, vars

(* Who answers a close frame has been given all that was sent before it.     *)
THEOREM ClosesLast == Spec => ClosedAfterAll
<1>1. ConnectionInv /\ [Next]_vars =>
        [\A e \in End :
           m_state[e] = "open" /\ m_state'[e] = "closing" /\ m_was_clean'[e] =>
              IsPrefix(Given(e), pushed[Other(e)])
              /\ pushed[Other(e)][Len(Given(e)) + 1] \in CloseFrame]_vars
  <2> SUFFICES ASSUME ConnectionInv, [Next]_vars, NEW e \in End,
                      m_state[e] = "open", m_state'[e] = "closing", m_was_clean'[e]
               PROVE  IsPrefix(Given(e), pushed[Other(e)])
                      /\ pushed[Other(e)][Len(Given(e)) + 1] \in CloseFrame
    OBVIOUS
  <2>1. wire[Other(e)] # <<>> /\ Head(wire[Other(e)]) \in CloseFrame
    BY ClosingStep DEF ReadClose, NextFrame
  <2> QED
    BY <2>1, NextUnderWay
<1> QED
  BY <1>1, Invariant, PTL DEF Spec, ClosedAfterAll

-----------------------------------------------------------------------------
(* The steps of Link. *)
Shown == [\E e \in End : LinkStep(e)]_linkvars

(* A handler may send once the program has been called. *)
LEMMA HandlerLink ==
  ASSUME TypeOK, NEW e \in End, Handler(e), calls'[e] # <<>>
  PROVE  UNCHANGED accepted \/ \E m \in Msg : Accepts(e, m) /\ calls'[e] # <<>>
BY HandlerFacts

LEMMA TerminateLink ==
  ASSUME TypeOK, NEW e \in End, StateOf(e), TerminateAgain(e), UNCHANGED accepted
  PROVE  Shown
<1>1. CASE m_state[e] = "closed"
  BY <1>1 DEF TerminateAgain, Shown, linkvars
<1>2. CASE m_state[e] = "connecting"
  <2>1. Fails(e)
    BY <1>2 DEF TerminateAgain, Terminate, StateOf, Fails
  <2> QED
    BY <2>1 DEF Shown, LinkStep
<1>3. CASE m_state[e] \in {"open", "closing"}
  <2>1. Closes(e)
    BY <1>3 DEF TerminateAgain, Terminate, StateOf, Closes, Live
  <2> QED
    BY <2>1 DEF Shown, LinkStep
<1> QED
  BY <1>1, <1>2, <1>3 DEF TypeOK

LEMMA OpenedLink ==
  ASSUME TypeOK, NEW e \in End, StateOf(e), m_state[e] = "connecting", Opened(e)
  PROVE  Shown
<1>1. Opens(e) /\ Handler(e)
  BY DEF Opened, StateOf, Opens
<1>2. calls'[e] # <<>>
  BY CalledFacts DEF Opened, Call, New
<1> QED
  BY <1>1, <1>2, HandlerLink DEF Shown, LinkStep

(* A message that is read is the next of those the peer's sends accepted.    *)
LEMMA ReceiveLink ==
  ASSUME ConnectionInv, NEW e \in End, m_state[e] = "open", ReadData(e)
  PROVE  Shown
<1>0. TypeOK /\ StateOf(e) /\ Other(e) \in End
  BY OtherEnd DEF ConnectionInv, StateInv
<1>1. /\ wire[Other(e)] # <<>> /\ Head(wire[Other(e)]) \in Msg
      /\ Called(e, Head(wire[Other(e)])) /\ Handler(e)
  BY FrameReadType, <1>0 DEF ReadData, NextFrame
<1>2. Live(e)
  BY <1>0 DEF StateOf, Live
<1> DEFINE k == Len(calls[e])
<1>3. k = Len(Given(e)) + 1
  <2>1. calls[e] # <<>> /\ calls[e] \in Seq(Item)
    BY <1>0, <1>2, ItemSeq DEF Live, New
  <2>2. Given(e) = Tail(calls[e])
    BY <2>1 DEF Given, New
  <2> QED
    BY <2>1, <2>2, HeadTailProperties, EmptySeq
<1>4. /\ k \in 1..Len(pushed[Other(e)])
      /\ pushed[Other(e)][k] = Head(wire[Other(e)])
      /\ \A j \in 1..Len(Given(e)) : pushed[Other(e)][j] \in Msg
  BY <1>1, <1>3, NextUnderWay
<1>5. Len(Given(e)) \in Nat
  BY <1>0, ItemSeq, LenProperties
<1>6. \A j \in 1..k : pushed[Other(e)][j] \in Msg
  <2> SUFFICES ASSUME NEW j \in 1..k PROVE pushed[Other(e)][j] \in Msg
    OBVIOUS
  <2>1. j = k \/ j \in 1..Len(Given(e))
    BY <1>3, <1>5
  <2> QED
    BY <1>1, <1>4, <2>1
<1>7. k <= Len(accepted[Other(e)]) /\ accepted[Other(e)][k] = pushed[Other(e)][k]
  BY <1>0, <1>4, <1>6 DEF ConnectionInv, Agrees
<1>8. Receives(e)
  BY <1>1, <1>2, <1>4, <1>7 DEF Receives
<1>9. calls'[e] # <<>>
  BY <1>0, <1>1, CalledFacts DEF Call, New
<1> QED
  BY <1>0, <1>1, <1>8, <1>9, HandlerLink DEF Shown, LinkStep

LEMMA LinkStepOf ==
  ASSUME ConnectionInv, [Next]_vars
  PROVE  Shown
<1>0. TypeOK /\ StateOf("client") /\ StateOf("server") /\ "client" \in End /\ "server" \in End
  BY DEF ConnectionInv, StateInv, End
<1>1. ASSUME UNCHANGED linkvars PROVE Shown
  BY <1>1 DEF Shown
<1>2. CASE Handshake
  BY <1>0, <1>1, <1>2, OpenedLink DEF Handshake, SendHttpRequest, ReadHandshake,
     WriteHttpResponse, HandleWriteHttpResponse, ReadHttpResponse, Handshaking
<1>3. ASSUME NEW e \in End, Read(e) PROVE Shown
  <2>0. StateOf(e)
    BY DEF ConnectionInv, StateInv
  <2>1. CASE ReadData(e)
    BY <1>1, <2>1, ReceiveLink DEF ReadData
  <2>2. CASE ReadClose(e)
    BY <1>1, <2>2 DEF ReadClose
  <2>3. CASE ReadCloseAck(e)
    <3>1. CASE e = "server" /\ ~m_was_clean[e]
      <4>1. Called(e, "close") /\ m_state[e] = "closing" /\ UNCHANGED accepted
        BY <2>3, <3>1 DEF ReadCloseAck
      <4>2. Closes(e)
        BY <2>0, <4>1 DEF StateOf, Closes, Live
      <4> QED
        BY <4>1, <4>2 DEF Shown, LinkStep
    <3>2. CASE ~(e = "server" /\ ~m_was_clean[e])
      BY <1>1, <2>3, <3>2 DEF ReadCloseAck, linkvars
    <3> QED
      BY <3>1, <3>2
  <2>4. CASE ReadEnds(e)
    <3>1. TerminateAgain(e) /\ UNCHANGED accepted
      BY <2>4 DEF ReadEnds, TerminateAgain
    <3> QED
      BY <1>0, <2>0, <3>1, TerminateLink
  <2> QED
    BY <1>3, <2>1, <2>2, <2>3, <2>4 DEF Read
<1>4. ASSUME NEW e \in End, Write(e) PROVE Shown
  <2>1. CASE HandleLastWrite(e)
    <3>1. TerminateAgain(e) /\ UNCHANGED accepted
      BY <2>1 DEF HandleLastWrite
    <3>2. StateOf(e)
      BY DEF ConnectionInv, StateInv
    <3> QED
      BY <1>0, <3>1, <3>2, TerminateLink
  <2> QED
    BY <1>1, <1>4, <2>1 DEF Write, WriteFrame, Transmit, HandleWriteFrame
<1>5. ASSUME NEW e \in End, Timer(e) PROVE Shown
  <2>1. CASE HandshakeTimeout(e)
    <3>1. TerminateAgain(e) /\ UNCHANGED accepted
      BY <2>1 DEF HandshakeTimeout
    <3>2. StateOf(e)
      BY DEF ConnectionInv, StateInv
    <3> QED
      BY <1>0, <3>1, <3>2, TerminateLink
  <2> QED
    BY <1>1, <1>5, <2>1 DEF Timer, TimerExpires
<1>6. ASSUME NEW e \in End, Program(e) PROVE Shown
  <2>1. ASSUME NEW m \in Payload[e], SendPush(e, m) PROVE Shown
    <3>1. Accepts(e, m) /\ m \in Msg /\ UNCHANGED calls
      BY <2>1, PayloadAssumption DEF SendPush, PushMsg
    <3>2. calls'[e] # <<>>
      BY <2>1, <3>1 DEF SendPush, ConnectionInv, StateInv, StateOf, New
    <3> QED
      BY <3>1, <3>2 DEF Shown, LinkStep
  <2> QED
    BY <1>1, <1>6, <2>1 DEF Program, CloseCall, SendCheck
<1> QED
  BY <1>1, <1>2, <1>3, <1>4, <1>5, <1>6 DEF Next, Break, vars, linkvars

(* The two programs see what Link says: each end opens, receives in order    *)
(* what the other has sent, and closes or fails once.                        *)
THEOREM Implementation == Spec => ImplementsLink
<1>1. Init => LinkInit
  BY DEF Init
<1>2. ConnectionInv /\ [Next]_vars => [\E e \in End : LinkStep(e)]_linkvars
  BY LinkStepOf DEF Shown
<1> QED
  BY <1>1, <1>2, Invariant, PTL DEF Spec, ImplementsLink, LinkSpec

=============================================================================
