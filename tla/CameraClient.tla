----------------------------- MODULE CameraClient -----------------------------
(* The camera client (cppClient/main.cpp) on one connection, as Link         *)
(* describes it: the decoder's callback fills a buffer, a sender thread      *)
(* empties it from the end, and the main thread, in c.run(), answers the     *)
(* server's greeting.                                                        *)
EXTENDS ServerEnd

CONSTANT MaxBuf        \* more pictures waiting than this are dropped (100)

ASSUME MaxBufAssumption == MaxBuf \in Nat

VARIABLES
    main,              \* where the main thread is
    captured,          \* how many pictures have come from the decoder
    buf,               \* pictures waiting, the newest at the end
    data1,             \* the picture in the sender's hand, if there is one
    handed             \* the pictures given to con->send, in order

camera == <<captured, buf, data1, handed>>

CameraTypeOK ==
    /\ main \in {"idle", "login", "connect", "thread", "run", "sleep", "exit"}
    /\ captured \in 0..Len(Picture)
    /\ buf \in Seq(Pictures) /\ Len(buf) <= captured
    /\ data1 \in Seq(Pictures) /\ Len(data1) <= 1
    /\ handed \in Seq(Pictures) /\ Len(handed) <= captured

CameraInit ==
    /\ captured = 0
    /\ buf = <<>>
    /\ data1 = <<>>
    /\ handed = <<>>

-----------------------------------------------------------------------------
(* main(): con is made, then the sender is started, then the network runs in *)
(* this thread until the connection is over. The sender has no end: where    *)
(* main returns, its thread object is still joinable, and the program aborts.*)
MainStep(from, to) == main = from /\ main' = to /\ UNCHANGED <<linkvars, camera>>

GetConnection == MainStep("login", "connect")
StartSender == MainStep("connect", "thread")
Run == MainStep("thread", "run")
RunReturns == ~New("client") /\ ~Live("client") /\ MainStep("run", "sleep")
Exit == MainStep("sleep", "exit")

Main == GetConnection \/ StartSender \/ Run \/ RunReturns \/ Exit

-----------------------------------------------------------------------------
(* DecCBFun, in a thread of the camera's library: before con is made a       *)
(* picture is ignored, afterwards it waits.                                  *)
Decode ==
    /\ main \notin {"idle", "login", "exit"} /\ captured < Len(Picture)
    /\ captured' = captured + 1
    /\ buf' = Append(buf, Picture[captured + 1])
    /\ UNCHANGED <<linkvars, main, data1, handed>>

SenderRuns == main \in {"thread", "run", "sleep"}

(* A bug that would show: the picture is not taken out.                      *)
SenderTakeCopy ==
    /\ SenderRuns /\ data1 = <<>> /\ buf # <<>>
    /\ data1' = <<Last(buf)>>
    /\ buf' = IF Len(buf) > MaxBuf THEN <<>> ELSE buf
    /\ UNCHANGED <<linkvars, main, captured, handed>>

(* A bug that would show: the buffer is cleared before a picture is taken.   *)
SenderTakeAfterClear ==
    /\ SenderRuns /\ data1 = <<>> /\ buf # <<>>
    /\ LET left == IF Len(buf) > MaxBuf THEN <<>> ELSE buf
       IN  data1' = (IF left = <<>> THEN <<>> ELSE <<Last(left)>>)
           /\ buf' = (IF left = <<>> THEN <<>> ELSE Front(left))
    /\ UNCHANGED <<linkvars, main, captured, handed>>

(* The newest picture is taken; then, if too many are left, all are dropped. *)
SenderTake ==
    /\ SenderRuns /\ data1 = <<>> /\ buf # <<>>
    /\ data1' = <<Last(buf)>>
    /\ buf' = IF Len(Front(buf)) > MaxBuf THEN <<>> ELSE Front(buf)
    /\ UNCHANGED <<linkvars, main, captured, handed>>

(* A bug that would show: the picture stays in the sender's hand.            *)
SenderSendAgain ==
    /\ SenderRuns /\ data1 # <<>>
    /\ handed' = handed \o data1
    /\ UNCHANGED accepted \/ (~New("client") /\ Accepts("client", data1[1]))
    /\ UNCHANGED <<calls, main, captured, buf, data1>>

(* A bug that would show: the sender waits for the connection to be open.    *)
SenderSendOpen ==
    /\ SenderRuns /\ data1 # <<>> /\ Live("client")
    /\ handed' = handed \o data1
    /\ data1' = <<>>
    /\ Accepts("client", data1[1])
    /\ UNCHANGED <<calls, main, captured, buf>>

(* con->send: what it returns is not looked at. It fails until the           *)
(* connection is open, and from when it starts to close.                     *)
SenderSend ==
    /\ SenderRuns /\ data1 # <<>>
    /\ handed' = handed \o data1
    /\ data1' = <<>>
    /\ UNCHANGED accepted \/ (~New("client") /\ Accepts("client", data1[1]))
    /\ UNCHANGED <<calls, main, captured, buf>>

-----------------------------------------------------------------------------
(* The handlers of the client. Its on_message answers the greeting.          *)
ClientHandlers ==
    /\ main = "run"
    /\ \/ (Opens("client") \/ Fails("client") \/ Closes("client")) /\ UNCHANGED accepted
       \/ /\ Receives("client")
          /\ IF Last(calls'["client"]) = "Got" THEN Sends("client", "SetMethod")
             ELSE UNCHANGED accepted
    /\ UNCHANGED <<main, camera>>

Sender == SenderTake \/ SenderSend

Camera ==
    /\ Main \/ Decode \/ Sender \/ ClientHandlers
    /\ UNCHANGED <<typed, servervars>>

=============================================================================
