----------------------------- MODULE ClientProofs -----------------------------
(* The safety properties of the clients, for every list of pictures, every   *)
(* length of the buffer and everything that may be typed for a name.         *)
EXTENDS TextProofs

(* What a handler may be called with, and what is a message.                 *)
LEMMA Symbols ==
  /\ Msg \cap Ends = {}
  /\ Pictures \subseteq Msg
  /\ {"Got", "SetMethod", "OK"} \subseteq Msg
  /\ {"Got", "SetMethod", "OK"} \cap Pictures = {}
<1>1. \A i \in 1..Len(Picture) : Picture[i] \in Msg \ {"Got", "SetMethod", "OK"}
  BY PictureAssumption
<1>2. DOMAIN Picture = 1..Len(Picture)
  BY PictureAssumption
<1> QED
  BY <1>1, <1>2, PictureAssumption, MsgAssumption DEF Pictures, ToSet, Ends

(* A picture has one place.                                                  *)
LEMMA PlaceOf ==
  /\ Len(Picture) \in Nat
  /\ \A p \in Pictures : Place(p) \in 1..Len(Picture) /\ Picture[Place(p)] = p
  /\ \A k \in 1..Len(Picture) : Picture[k] \in Pictures /\ Place(Picture[k]) = k
<1>1. Len(Picture) \in Nat /\ DOMAIN Picture = 1..Len(Picture)
  BY PictureAssumption
<1>2. ASSUME NEW p \in Pictures
      PROVE  Place(p) \in 1..Len(Picture) /\ Picture[Place(p)] = p
  <2>1. \E k \in 1..Len(Picture) : Picture[k] = p
    BY <1>1 DEF Pictures, ToSet
  <2> QED
    BY <2>1 DEF Place
<1>3. ASSUME NEW k \in 1..Len(Picture)
      PROVE  Picture[k] \in Pictures /\ Place(Picture[k]) = k
  <2>1. Picture[k] \in Pictures
    BY <1>1 DEF Pictures, ToSet
  <2> QED
    BY <2>1, <1>1, <1>2, PictureAssumption DEF IsInjective
<1> QED
  BY <1>1, <1>2, <1>3

(* A sequence with one element more.                                         *)
LEMMA Appended ==
  ASSUME NEW S, NEW s \in Seq(S), NEW x \in S
  PROVE  /\ Append(s, x) \in Seq(S)
         /\ Len(s) \in Nat
         /\ Len(Append(s, x)) = Len(s) + 1
         /\ DOMAIN s = 1..Len(s)
         /\ DOMAIN Append(s, x) = 1..Len(s) + 1
         /\ \A i \in 1..Len(s) : Append(s, x)[i] = s[i]
         /\ Append(s, x)[Len(s) + 1] = x
         /\ ToSet(Append(s, x)) = ToSet(s) \cup {x}
<1>1. /\ Append(s, x) \in Seq(S) /\ Len(s) \in Nat /\ Len(Append(s, x)) = Len(s) + 1
      /\ DOMAIN s = 1..Len(s)
      /\ DOMAIN Append(s, x) = 1..Len(s) + 1
      /\ \A i \in 1..Len(s) : Append(s, x)[i] = s[i]
      /\ Append(s, x)[Len(s) + 1] = x
  OBVIOUS
<1>2. \A i \in 1..Len(s) + 1 : i \in 1..Len(s) \/ i = Len(s) + 1
  BY <1>1
<1>3. 1..Len(s) \subseteq 1..Len(s) + 1 /\ Len(s) + 1 \in 1..Len(s) + 1
  BY <1>1
<1>4. ToSet(Append(s, x)) = {Append(s, x)[i] : i \in 1..Len(s) + 1}
  BY <1>1 DEF ToSet
<1>5. ToSet(s) = {s[i] : i \in 1..Len(s)}
  BY <1>1 DEF ToSet
<1>6. ToSet(Append(s, x)) \subseteq ToSet(s) \cup {x}
  BY <1>1, <1>2, <1>4, <1>5
<1>7. ToSet(s) \cup {x} \subseteq ToSet(Append(s, x))
  BY <1>1, <1>3, <1>4, <1>5
<1> QED
  BY <1>1, <1>6, <1>7

-----------------------------------------------------------------------------
(* What a step does to the connection.                                       *)
LEMMA CalledEffect ==
  ASSUME TypeInv, NEW e \in End, NEW c \in Msg \cup Ends, Called(e, c)
  PROVE  /\ calls' \in [End -> Seq(Msg \cup Ends)]
         /\ calls'[e] = Append(calls[e], c)
         /\ Last(calls'[e]) = c
         /\ \A f \in End \ {e} : calls'[f] = calls[f]
<1>1. calls \in [End -> Seq(Msg \cup Ends)]
  BY DEF TypeInv
<1>2. calls[e] \in Seq(Msg \cup Ends)
  BY <1>1
<1>3. Append(calls[e], c) \in Seq(Msg \cup Ends) /\ Last(Append(calls[e], c)) = c
  BY <1>2, Appended DEF Last
<1>4. calls' = [calls EXCEPT ![e] = Append(calls[e], c)]
  BY DEF Called
<1> QED
  BY <1>1, <1>3, <1>4

LEMMA AcceptsEffect ==
  ASSUME TypeInv, NEW e \in End, NEW m \in Msg, Accepts(e, m)
  PROVE  /\ accepted' \in [End -> Seq(Msg)]
         /\ accepted'[e] = Append(accepted[e], m)
         /\ \A f \in End \ {e} : accepted'[f] = accepted[f]
<1>1. accepted \in [End -> Seq(Msg)]
  BY DEF TypeInv
<1>2. Append(accepted[e], m) \in Seq(Msg)
  BY <1>1
<1>3. accepted' = [accepted EXCEPT ![e] = Append(accepted[e], m)]
  BY DEF Accepts
<1> QED
  BY <1>1, <1>2, <1>3

LEMMA OtherEnd ==
  /\ End = {"client", "server"} /\ "client" # "server"
  /\ Other("client") = "server" /\ Other("server") = "client"
  BY DEF End, Other

(* The calls that receive: the message is the next one of the other end.     *)
LEMMA ReceivesEffect ==
  ASSUME TypeInv, NEW e \in End, Receives(e)
  PROVE  \E k \in 1..Len(accepted[Other(e)]) :
            /\ k = Len(calls[e])
            /\ accepted[Other(e)][k] \in Msg
            /\ Called(e, accepted[Other(e)][k])
            /\ Last(calls'[e]) = accepted[Other(e)][k]
<1>1. calls[e] \in Seq(Msg \cup Ends) /\ calls[e] # <<>>
  BY DEF TypeInv, Receives, Live, New
<1>2. Len(calls[e]) \in Nat /\ Len(calls[e]) # 0
  BY <1>1
<1>3. accepted[Other(e)] \in Seq(Msg)
  BY OtherEnd DEF TypeInv
<1>4. Len(calls[e]) \in 1..Len(accepted[Other(e)])
  BY <1>2, <1>3 DEF Receives
<1>5. accepted[Other(e)][Len(calls[e])] \in Msg
  BY <1>3, <1>4
<1>6. Called(e, accepted[Other(e)][Len(calls[e])])
  BY DEF Receives
<1>7. Last(calls'[e]) = accepted[Other(e)][Len(calls[e])]
  BY <1>5, <1>6, CalledEffect
<1> QED
  BY <1>4, <1>5, <1>6, <1>7

-----------------------------------------------------------------------------
(* What a step of the server does to the connection: its own end is called   *)
(* once more, and the client's messages stay.                                *)
NextCall(c) ==
    \/ calls["server"] = <<>> /\ c \in {"open", "fail"}
    \/ /\ calls["server"] # <<>> /\ Last(calls["server"]) # "close"
       /\ \/ c = "close"
          \/ /\ Len(calls["server"]) <= Len(accepted["client"])
             /\ c = accepted["client"][Len(calls["server"])]

LEMMA SendsTypes ==
  ASSUME TypeInv, NEW e \in End, NEW m \in Msg, Sends(e, m)
  PROVE  /\ accepted' \in [End -> Seq(Msg)]
         /\ \A f \in End \ {e} : accepted'[f] = accepted[f]
  BY AcceptsEffect DEF Sends, TypeInv

LEMMA ServerEffect ==
  ASSUME TypeInv, ServerSteps
  PROVE  /\ accepted' \in [End -> Seq(Msg)]
         /\ accepted'["client"] = accepted["client"]
         /\ calls' \in [End -> Seq(Msg \cup Ends)]
         /\ \E c \in Msg \cup Ends :
               calls'["server"] = Append(calls["server"], c) /\ NextCall(c)
<1> USE OtherEnd
<1>1. accepted \in [End -> Seq(Msg)]
  BY DEF TypeInv
<1>2. /\ accepted' \in [End -> Seq(Msg)]
      /\ accepted'["client"] = accepted["client"]
  <2>1. CASE ServerOpens
    <3>1. "Got" \in Msg
      BY Symbols
    <3>2. Sends("server", "Got") \/ UNCHANGED accepted
      BY <2>1 DEF ServerOpens
    <3> QED
      BY <1>1, <3>1, <3>2, SendsTypes
  <2>2. CASE ServerCommand
    <3>1. "OK" \in Msg
      BY Symbols
    <3>2. Sends("server", "OK")
      BY <2>2 DEF ServerCommand
    <3> QED
      BY <1>1, <3>1, <3>2, SendsTypes
  <2>3. CASE ServerPicture
    BY <2>3, <1>1 DEF ServerPicture
  <2>4. CASE ServerEnds
    BY <2>4, <1>1 DEF ServerEnds
  <2> QED
    BY <2>1, <2>2, <2>3, <2>4 DEF ServerSteps, Server
<1>3. \E c \in Msg \cup Ends : Called("server", c) /\ NextCall(c)
  <2>1. CASE Opens("server")
    BY <2>1 DEF Opens, New, NextCall, Ends
  <2>2. CASE Fails("server")
    BY <2>2 DEF Fails, New, NextCall, Ends
  <2>3. CASE Closes("server")
    BY <2>3 DEF Closes, Live, New, NextCall, Ends
  <2>4. CASE Receives("server")
    <3>1. PICK k \in 1..Len(accepted["client"]) :
             /\ k = Len(calls["server"])
             /\ accepted["client"][k] \in Msg
             /\ Called("server", accepted["client"][k])
      BY <2>4, ReceivesEffect
    <3>2. calls["server"] # <<>> /\ Last(calls["server"]) # "close"
      BY <2>4 DEF Receives, Live, New
    <3>3. Len(accepted["client"]) \in Nat
      BY <1>1
    <3>4. NextCall(accepted["client"][k])
      BY <3>1, <3>2, <3>3 DEF NextCall
    <3> QED
      BY <3>1, <3>4
  <2> QED
    BY <2>1, <2>2, <2>3, <2>4
       DEF ServerSteps, Server, ServerOpens, ServerCommand, ServerPicture, ServerEnds
<1>4. PICK c \in Msg \cup Ends : Called("server", c) /\ NextCall(c)
  BY <1>3
<1>5. calls' \in [End -> Seq(Msg \cup Ends)] /\ calls'["server"] = Append(calls["server"], c)
  BY <1>4, CalledEffect
<1> QED
  BY <1>2, <1>4, <1>5

(* What a step of the camera does to the connection: its sender gives it the *)
(* picture in its hand, its main thread the command.                         *)
LEMMA CameraEffect ==
  ASSUME TypeInv, CameraSteps
  PROVE  /\ accepted' \in [End -> Seq(Msg)]
         /\ calls' \in [End -> Seq(Msg \cup Ends)]
         /\ calls'["server"] = calls["server"]
         /\ main # "idle" /\ main' # "idle"
         /\ \/ accepted'["client"] = accepted["client"]
            \/ /\ accepted'["client"] = Append(accepted["client"], "SetMethod")
               /\ UNCHANGED camera
            \/ /\ accepted'["client"] = Append(accepted["client"], data1[1])
               /\ SenderSend
<1> USE OtherEnd
<1>1. accepted \in [End -> Seq(Msg)] /\ calls \in [End -> Seq(Msg \cup Ends)]
  BY DEF TypeInv
<1>2. CASE Main
  BY <1>2, <1>1 DEF Main, GetConnection, StartSender, Run, RunReturns, Exit, MainStep, linkvars
<1>3. CASE Decode
  BY <1>3, <1>1 DEF Decode, linkvars
<1>4. CASE SenderTake
  BY <1>4, <1>1 DEF SenderTake, linkvars, SenderRuns
<1>5. CASE SenderSend
  <2>1. UNCHANGED calls /\ main # "idle" /\ main' # "idle"
    BY <1>5 DEF SenderSend, SenderRuns
  <2>2. data1 \in Seq(Pictures) /\ data1 # <<>>
    BY <1>5 DEF SenderSend, TypeInv
  <2>3. data1[1] \in Msg
    BY <2>2, Symbols
  <2>4. UNCHANGED accepted \/ Accepts("client", data1[1])
    BY <1>5 DEF SenderSend
  <2>5. CASE UNCHANGED accepted
    BY <2>1, <2>5, <1>1
  <2>6. CASE Accepts("client", data1[1])
    <3>1. accepted' \in [End -> Seq(Msg)] /\ accepted'["client"] = Append(accepted["client"], data1[1])
      BY <2>3, <2>6, AcceptsEffect
    <3> QED
      BY <2>1, <3>1, <1>1, <1>5
  <2> QED
    BY <2>4, <2>5, <2>6
<1>6. CASE ClientHandlers
  <2>1. main = "run" /\ main' = "run" /\ UNCHANGED camera
    BY <1>6 DEF ClientHandlers
  <2>2. \E c \in Msg \cup Ends : Called("client", c)
    <3>1. CASE Opens("client") \/ Fails("client") \/ Closes("client")
      BY <3>1 DEF Opens, Fails, Closes, Ends
    <3>2. CASE Receives("client")
      BY <3>2, ReceivesEffect
    <3> QED
      BY <1>6, <3>1, <3>2 DEF ClientHandlers
  <2>3. calls' \in [End -> Seq(Msg \cup Ends)] /\ calls'["server"] = calls["server"]
    BY <2>2, CalledEffect
  <2>4. UNCHANGED accepted \/ Accepts("client", "SetMethod")
    BY <1>6 DEF ClientHandlers, Sends
  <2>5. "SetMethod" \in Msg
    BY Symbols
  <2>6. /\ accepted' \in [End -> Seq(Msg)]
        /\ \/ accepted'["client"] = accepted["client"]
           \/ accepted'["client"] = Append(accepted["client"], "SetMethod")
    BY <2>4, <2>5, <1>1, AcceptsEffect
  <2> QED
    BY <2>1, <2>3, <2>6
<1> QED
  BY <1>2, <1>3, <1>4, <1>5, <1>6 DEF CameraSteps, Camera, Sender

(* What a step of a script does to the connection: it gives it the command,  *)
(* and then the pictures one by one.                                         *)
LEMMA PythonEffect ==
  ASSUME TypeInv, PythonSteps
  PROVE  /\ accepted' \in [End -> Seq(Msg)]
         /\ calls' \in [End -> Seq(Msg \cup Ends)]
         /\ calls'["server"] = calls["server"]
         /\ \/ /\ accepted'["client"] = accepted["client"]
               /\ sent' = sent
               /\ py_pc' \in {"reply", "send"} => py_pc = "reply" \/ py_pc = py_pc'
            \/ /\ accepted'["client"] = Append(accepted["client"], "SetMethod")
               /\ sent' = sent /\ py_pc = "command"
            \/ /\ accepted'["client"] = Append(accepted["client"], Picture[sent + 1])
               /\ sent < Len(Picture) /\ sent' = sent + 1 /\ py_pc = "send"
         /\ py_pc # "idle"
         /\ py_pc' \in {"greeting", "command", "reply", "send", "done"}
         /\ py_pc' \in {"greeting", "command"} => py_pc \in {"connect", "greeting"}
<1> USE OtherEnd
<1>1. accepted \in [End -> Seq(Msg)] /\ calls \in [End -> Seq(Msg \cup Ends)]
  BY DEF TypeInv
<1>2. ASSUME NEW c \in Msg \cup Ends, Called("client", c)
      PROVE  calls' \in [End -> Seq(Msg \cup Ends)] /\ calls'["server"] = calls["server"]
  BY <1>2, CalledEffect
<1>3. CASE PyConnect
  <2>1. Called("client", "open") \/ Called("client", "fail")
    BY <1>3 DEF PyConnect, Opens, Fails
  <2>2. calls' \in [End -> Seq(Msg \cup Ends)] /\ calls'["server"] = calls["server"]
    BY <1>2, <2>1 DEF Ends
  <2> QED
    BY <1>1, <1>3, <2>2 DEF PyConnect, Goes
<1>4. CASE PyGreeting
  <2>1. calls' \in [End -> Seq(Msg \cup Ends)] /\ calls'["server"] = calls["server"]
    BY <1>2, <1>4, ReceivesEffect DEF PyGreeting
  <2> QED
    BY <1>1, <1>4, <2>1 DEF PyGreeting, Goes
<1>5. CASE PyCommand
  <2>1. "SetMethod" \in Msg
    BY Symbols
  <2>2. CASE Accepts("client", "SetMethod") /\ Goes("command", "reply")
    <3>1. accepted' \in [End -> Seq(Msg)] /\ accepted'["client"] = Append(accepted["client"], "SetMethod")
      BY <2>1, <2>2, AcceptsEffect
    <3> QED
      BY <1>1, <1>5, <2>2, <3>1 DEF PyCommand, Goes
  <2>3. CASE UNCHANGED accepted /\ Goes("command", "done")
    BY <1>1, <1>5, <2>3 DEF PyCommand, Goes
  <2> QED
    BY <1>5, <2>2, <2>3 DEF PyCommand
<1>6. CASE PyReply
  <2>1. calls' \in [End -> Seq(Msg \cup Ends)] /\ calls'["server"] = calls["server"]
    BY <1>2, <1>6, ReceivesEffect DEF PyReply
  <2> QED
    BY <1>1, <1>6, <2>1 DEF PyReply, Goes
<1>7. CASE PySend
  <2>1. sent < Len(Picture) /\ sent \in 0..Len(Picture) /\ UNCHANGED calls
    BY <1>7 DEF PySend, TypeInv
  <2>2. sent + 1 \in 1..Len(Picture)
    BY <2>1, PlaceOf
  <2>3. Picture[sent + 1] \in Msg
    BY <2>2, PlaceOf, Symbols
  <2>4. CASE Accepts("client", Picture[sent + 1]) /\ Goes("send", "send") /\ sent' = sent + 1
    <3>1. accepted' \in [End -> Seq(Msg)]
          /\ accepted'["client"] = Append(accepted["client"], Picture[sent + 1])
      BY <2>3, <2>4, AcceptsEffect
    <3> QED
      BY <1>1, <2>1, <2>4, <3>1 DEF Goes
  <2>5. CASE UNCHANGED <<accepted, sent>> /\ Goes("send", "done")
    BY <1>1, <2>1, <2>5 DEF Goes
  <2> QED
    BY <1>7, <2>4, <2>5 DEF PySend
<1>8. CASE PyEnds
  <2>1. Called("client", "close") /\ "close" \in Ends
    BY <1>8 DEF PyEnds, Closes, Ends
  <2>2. calls' \in [End -> Seq(Msg \cup Ends)] /\ calls'["server"] = calls["server"]
    BY <1>2, <2>1
  <2> QED
    BY <1>1, <1>8, <2>2 DEF PyEnds
<1> QED
  BY <1>3, <1>4, <1>5, <1>6, <1>7, <1>8 DEF PythonSteps, Python

-----------------------------------------------------------------------------
(* The types: one step per program.                                          *)
LEMMA ServerTypeStep ==
  ASSUME TypeInv, ServerSteps
  PROVE  TypeInv'
<1>1. UNCHANGED <<typed, camera, main, py_pc, sent>>
  <2>1. UNCHANGED camera
    BY DEF ServerSteps
  <2> QED
    BY <2>1 DEF ServerSteps, Server
<1>2. /\ server' \in {"waits", "admits", "refuses", "relays", "stuck"}
      /\ server' = "waits" => m_alias' = <<>> /\ told' = <<>>
  <2>1. CASE ServerOpens
    BY <2>1 DEF ServerOpens
  <2>2. CASE ServerCommand
    BY <2>2 DEF ServerCommand
  <2>3. CASE ServerPicture
    BY <2>3 DEF ServerPicture
  <2>4. CASE ServerEnds
    BY <2>4 DEF ServerEnds, TypeInv
  <2> QED
    BY <2>1, <2>2, <2>3, <2>4 DEF ServerSteps, Server
<1>3. accepted' \in [End -> Seq(Msg)] /\ calls' \in [End -> Seq(Msg \cup Ends)]
  BY ServerEffect
<1> QED
  BY <1>1, <1>2, <1>3 DEF TypeInv, camera

(* A picture in the sender's hand is the only one there.                     *)
LEMMA InHand ==
  ASSUME TypeInv, data1 # <<>>
  PROVE  /\ Len(data1) = 1 /\ data1[1] \in Pictures
         /\ ToSet(data1) = {data1[1]}
         /\ handed \o data1 = Append(handed, data1[1])
<1>1. data1 \in Seq(Pictures) /\ Len(data1) <= 1 /\ handed \in Seq(Pictures)
  BY DEF TypeInv
<1>2. Len(data1) \in Nat /\ Len(data1) # 0
  BY <1>1
<1>3. Len(data1) = 1
  <2>1. \A n \in Nat : n <= 1 /\ n # 0 => n = 1
    OBVIOUS
  <2> QED
    BY <1>1, <1>2, <2>1
<1>4. data1[1] \in Pictures /\ DOMAIN data1 = 1..1
  BY <1>1, <1>3
<1>5. ToSet(data1) = {data1[1]}
  BY <1>4 DEF ToSet
<1>6. handed \o data1 = Append(handed, data1[1])
  <2>1. /\ handed \o data1 \in Seq(Pictures)
        /\ Len(handed \o data1) = Len(handed) + 1
        /\ \A i \in 1..Len(handed) + 1 :
              (handed \o data1)[i] = IF i <= Len(handed) THEN handed[i] ELSE data1[i - Len(handed)]
    BY <1>1, <1>3, ConcatProperties
  <2>2. /\ Append(handed, data1[1]) \in Seq(Pictures)
        /\ Len(handed) \in Nat
        /\ Len(Append(handed, data1[1])) = Len(handed) + 1
        /\ \A i \in 1..Len(handed) : Append(handed, data1[1])[i] = handed[i]
        /\ Append(handed, data1[1])[Len(handed) + 1] = data1[1]
    BY <1>1, <1>4, Appended
  <2>3. ASSUME NEW i \in 1..Len(handed) + 1
        PROVE  (handed \o data1)[i] = Append(handed, data1[1])[i]
    <3>1. CASE i = Len(handed) + 1
      <4>1. ~(i <= Len(handed)) /\ i - Len(handed) = 1
        BY <2>2, <3>1
      <4> QED
        BY <2>1, <2>2, <3>1, <4>1
    <3>2. CASE i # Len(handed) + 1
      <4>1. i \in 1..Len(handed) /\ i <= Len(handed)
        BY <2>2, <3>2
      <4> QED
        BY <2>1, <2>2, <4>1
    <3> QED
      BY <3>1, <3>2
  <2> DEFINE s == handed \o data1
             t == Append(handed, data1[1])
  <2>4. s \in Seq(Pictures) /\ t \in Seq(Pictures) /\ Len(s) = Len(t)
        /\ \A i \in 1..Len(s) : s[i] = t[i]
    BY <2>1, <2>2, <2>3
  <2> HIDE DEF s, t
  <2>5. s = t
    BY <2>4, SeqEqual
  <2> QED
    BY <2>5 DEF s, t
<1> QED
  BY <1>3, <1>4, <1>5, <1>6

(* The rest of the buffer, and the picture at its end.                       *)
LEMMA FrontLast ==
  ASSUME NEW S, NEW s \in Seq(S), s # <<>>
  PROVE  /\ Len(s) \in Nat \ {0} /\ DOMAIN s = 1..Len(s)
         /\ Last(s) = s[Len(s)] /\ Last(s) \in S
         /\ Front(s) \in Seq(S)
         /\ Len(Front(s)) = Len(s) - 1
         /\ DOMAIN Front(s) = 1..Len(s) - 1
         /\ \A i \in 1..Len(s) - 1 : Front(s)[i] = s[i]
         /\ ToSet(s) = ToSet(Front(s)) \cup {Last(s)}
<1>1. Len(s) \in Nat \ {0} /\ DOMAIN s = 1..Len(s)
  OBVIOUS
<1>2. Last(s) = s[Len(s)] /\ Last(s) \in S
  BY <1>1 DEF Last
<1>3. \A i \in 1..Len(s) - 1 : s[i] \in S
  BY <1>1
<1>4. /\ Front(s) \in Seq(S)
      /\ Len(Front(s)) = Len(s) - 1
      /\ \A i \in 1..Len(s) - 1 : Front(s)[i] = s[i]
  <2>1. 1 \in Int /\ Len(s) - 1 \in Int /\ (Len(s) - 1) - 1 + 1 = Len(s) - 1
    BY <1>1
  <2>2. /\ SubSeq(s, 1, Len(s) - 1) \in Seq(S)
        /\ Len(SubSeq(s, 1, Len(s) - 1)) =
             IF 1 <= Len(s) - 1 THEN (Len(s) - 1) - 1 + 1 ELSE 0
        /\ \A i \in 1..(Len(s) - 1) - 1 + 1 :
              SubSeq(s, 1, Len(s) - 1)[i] = s[1 + i - 1]
    BY <1>3, <2>1, SubSeqProperties
  <2>3. \A i \in 1..Len(s) - 1 : 1 + i - 1 = i
    BY <1>1
  <2>4. (IF 1 <= Len(s) - 1 THEN (Len(s) - 1) - 1 + 1 ELSE 0) = Len(s) - 1
    BY <1>1
  <2> QED
    BY <2>1, <2>2, <2>3, <2>4 DEF Front
<1>5. DOMAIN Front(s) = 1..Len(s) - 1
  BY <1>4
<1>6. ToSet(s) = {s[i] : i \in 1..Len(s)} /\ ToSet(Front(s)) = {Front(s)[i] : i \in 1..Len(s) - 1}
  BY <1>1, <1>5 DEF ToSet
<1>7. \A i \in 1..Len(s) : i \in 1..Len(s) - 1 \/ i = Len(s)
  <2>1. \A n \in Nat \ {0} : \A i \in 1..n : i \in 1..n - 1 \/ i = n
    OBVIOUS
  <2> QED
    BY <1>1, <2>1
<1>8. 1..Len(s) - 1 \subseteq 1..Len(s) /\ Len(s) \in 1..Len(s)
  BY <1>1
<1>9. ToSet(s) \subseteq ToSet(Front(s)) \cup {Last(s)}
  BY <1>2, <1>4, <1>6, <1>7
<1>10. ToSet(Front(s)) \cup {Last(s)} \subseteq ToSet(s)
  BY <1>2, <1>4, <1>6, <1>8
<1> QED
  BY <1>1, <1>2, <1>4, <1>5, <1>9, <1>10

LEMMA CameraTypeStep ==
  ASSUME TypeInv, CameraSteps
  PROVE  TypeInv'
<1>1. UNCHANGED <<typed, server, m_alias, told, py_pc, sent>>
  BY DEF CameraSteps, Camera, servervars
<1>2. accepted' \in [End -> Seq(Msg)] /\ calls' \in [End -> Seq(Msg \cup Ends)]
  BY CameraEffect
<1>3. /\ main' \in {"idle", "login", "connect", "thread", "run", "sleep", "exit"}
      /\ captured' \in 0..Len(Picture)
      /\ buf' \in Seq(Pictures) /\ data1' \in Seq(Pictures) /\ handed' \in Seq(Pictures)
      /\ Len(data1') <= 1
  <2> USE DEF TypeInv
  <2>1. CASE Main
    BY <2>1 DEF Main, GetConnection, StartSender, Run, RunReturns, Exit, MainStep, camera
  <2>2. CASE Decode
    <3>1. captured \in 0..Len(Picture) /\ captured < Len(Picture) /\ captured' = captured + 1
      BY <2>2 DEF Decode
    <3>2. captured + 1 \in 1..Len(Picture) /\ captured' \in 0..Len(Picture)
      BY <3>1, PlaceOf
    <3>3. Picture[captured + 1] \in Pictures
      BY <3>2, PlaceOf
    <3>4. Append(buf, Picture[captured + 1]) \in Seq(Pictures)
      BY <3>3
    <3> QED
      BY <2>2, <3>2, <3>4 DEF Decode
  <2>3. CASE SenderTake
    <3>1. buf \in Seq(Pictures) /\ buf # <<>>
      BY <2>3 DEF SenderTake
    <3>2. Last(buf) \in Pictures /\ Front(buf) \in Seq(Pictures)
      BY <3>1, FrontLast
    <3>3. <<Last(buf)>> \in Seq(Pictures) /\ Len(<<Last(buf)>>) = 1
      BY <3>2
    <3>4. buf' \in Seq(Pictures)
      BY <2>3, <3>2 DEF SenderTake
    <3> QED
      BY <2>3, <3>3, <3>4 DEF SenderTake
  <2>4. CASE SenderSend
    <3>1. data1[1] \in Pictures /\ handed' = Append(handed, data1[1]) /\ data1' = <<>>
      BY <2>4, InHand DEF SenderSend
    <3>2. Append(handed, data1[1]) \in Seq(Pictures)
      BY <3>1
    <3> QED
      BY <2>4, <3>1, <3>2 DEF SenderSend
  <2>5. CASE ClientHandlers
    BY <2>5 DEF ClientHandlers, camera
  <2> QED
    BY <2>1, <2>2, <2>3, <2>4, <2>5 DEF CameraSteps, Camera, Sender
<1> QED
  BY <1>1, <1>2, <1>3 DEF TypeInv

LEMMA PythonTypeStep ==
  ASSUME TypeInv, PythonSteps
  PROVE  TypeInv'
<1>1. UNCHANGED <<typed, server, m_alias, told, main, captured, buf, data1, handed>>
  BY DEF PythonSteps, Python, servervars, camera
<1>2. /\ accepted' \in [End -> Seq(Msg)] /\ calls' \in [End -> Seq(Msg \cup Ends)]
      /\ py_pc' \in {"idle", "connect", "greeting", "command", "reply", "send", "done"}
      /\ sent' = sent \/ (sent < Len(Picture) /\ sent' = sent + 1)
  BY PythonEffect
<1>3. sent' \in 0..Len(Picture)
  BY <1>2, PlaceOf DEF TypeInv
<1> QED
  BY <1>1, <1>2, <1>3 DEF TypeInv

LEMMA TypeStep ==
  ASSUME TypeInv, [Next]_vars
  PROVE  TypeInv'
<1>1. CASE UNCHANGED vars
  BY <1>1 DEF TypeInv, vars, linkvars, servervars, camera
<1> QED
  BY <1>1, ServerTypeStep, CameraTypeStep, PythonTypeStep DEF Next

(* Only one of the two programs runs.                                        *)
LEMMA OneClientStep ==
  ASSUME TypeInv, OneClient, [Next]_vars
  PROVE  OneClient'
<1>1. CASE UNCHANGED vars
  BY <1>1 DEF OneClient, vars, camera
<1>2. CASE ServerSteps
  <2>1. UNCHANGED camera
    BY <1>2 DEF ServerSteps
  <2> QED
    BY <1>2, <2>1 DEF ServerSteps, OneClient, camera
<1>3. CASE CameraSteps
  <2>1. main # "idle" /\ main' # "idle"
    BY <1>3, CameraEffect
  <2> QED
    BY <1>3, <2>1 DEF CameraSteps, OneClient
<1>4. CASE PythonSteps
  <2>1. py_pc # "idle" /\ py_pc' # "idle"
    BY <1>4, PythonEffect
  <2>2. UNCHANGED camera /\ UNCHANGED main
    BY <1>4 DEF PythonSteps
  <2> QED
    BY <2>1, <2>2 DEF OneClient, camera
<1> QED
  BY <1>1, <1>2, <1>3, <1>4 DEF Next

-----------------------------------------------------------------------------
(* The buffer: where the pictures are after each step of the threads that    *)
(* move them.                                                                *)
LEMMA BufferTypes ==
  ASSUME TypeInv
  PROVE  /\ captured \in 0..Len(Picture) /\ captured \in Nat
         /\ buf \in Seq(Pictures) /\ data1 \in Seq(Pictures) /\ handed \in Seq(Pictures)
         /\ Len(buf) \in Nat /\ Len(data1) \in Nat /\ Len(handed) \in Nat
         /\ DOMAIN buf = 1..Len(buf)
         /\ ToSet(buf) \subseteq Pictures
         /\ Waiting \subseteq Pictures /\ ToSet(handed) \subseteq Pictures
         /\ \A p \in ToSet(buf) : \E i \in 1..Len(buf) : p = buf[i]
<1>1. /\ captured \in 0..Len(Picture)
      /\ buf \in Seq(Pictures) /\ data1 \in Seq(Pictures) /\ handed \in Seq(Pictures)
  BY DEF TypeInv
<1>2. captured \in Nat
  BY <1>1, PlaceOf
<1>3. ASSUME NEW s \in Seq(Pictures)
      PROVE  /\ ToSet(s) \subseteq Pictures /\ Len(s) \in Nat /\ DOMAIN s = 1..Len(s)
             /\ \A p \in ToSet(s) : \E i \in 1..Len(s) : p = s[i]
  BY DEF ToSet
<1> QED
  BY <1>1, <1>2, <1>3 DEF Waiting

LEMMA NoElements == ToSet(<<>>) = {}
  BY DEF ToSet

LEMMA DecodeStep ==
  ASSUME TypeInv, TypeInv', BufferInv, DropsOldest, Decode
  PROVE  BufferInv' /\ DropsOldest'
<1> DEFINE new == Picture[captured + 1]
<1>1. /\ captured < Len(Picture) /\ captured' = captured + 1
      /\ buf' = Append(buf, new) /\ data1' = data1 /\ handed' = handed
  BY DEF Decode
<1>2. captured + 1 \in 1..Len(Picture) /\ captured \in Nat
  BY <1>1, BufferTypes, PlaceOf
<1>3. new \in Pictures /\ Place(new) = captured + 1
  BY <1>2, PlaceOf
<1>4. /\ Len(buf') = Len(buf) + 1
      /\ DOMAIN buf' = 1..Len(buf) + 1
      /\ \A i \in 1..Len(buf) : buf'[i] = buf[i]
      /\ buf'[Len(buf) + 1] = new
      /\ ToSet(buf') = ToSet(buf) \cup {new}
  <2>1. buf \in Seq(Pictures)
    BY BufferTypes
  <2> HIDE DEF new
  <2> QED
    BY <1>1, <1>3, <2>1, Appended
<1> HIDE DEF new
<1>5. Waiting' = Waiting \cup {new} /\ ToSet(handed)' = ToSet(handed) /\ ToSet(data1)' = ToSet(data1)
  BY <1>1, <1>4 DEF Waiting
<1>6. \A p \in Pictures : Place(p) \in Int
  BY PlaceOf
<1>7. new \notin Waiting \cup ToSet(handed)
  BY <1>2, <1>3 DEF BufferInv
<1>8. BufferInv'
  <2>1. Len(buf') + Len(data1') + Len(handed') <= captured'
    <3>1. Len(buf) + Len(data1) + Len(handed) <= captured
      BY DEF BufferInv
    <3>2. Len(data1') = Len(data1) /\ Len(handed') = Len(handed)
      BY <1>1
    <3>3. Len(buf') = Len(buf) + 1 /\ captured' = captured + 1
      BY <1>1, <1>4
    <3>4. \A a, b, c, d \in Nat : a + b + c <= d => a + 1 + b + c <= d + 1
      OBVIOUS
    <3> QED
      BY <3>1, <3>2, <3>3, <3>4, BufferTypes
  <2>2. \A p \in (Waiting \cup ToSet(handed))' : Place(p) <= captured'
    <3>1. \A p \in Waiting \cup ToSet(handed) : p \in Pictures /\ Place(p) <= captured
      BY BufferTypes DEF BufferInv
    <3> QED
      BY <3>1, <1>1, <1>2, <1>3, <1>5, <1>6
  <2>3. \A i, j \in DOMAIN buf' : i < j => Place(buf'[i]) < Place(buf'[j])
    <3> SUFFICES ASSUME NEW i \in 1..Len(buf) + 1, NEW j \in 1..Len(buf) + 1, i < j
                 PROVE  Place(buf'[i]) < Place(buf'[j])
      BY <1>4
    <3>1. i \in 1..Len(buf) /\ buf'[i] = buf[i]
      BY <1>4, BufferTypes
    <3>2. CASE j \in 1..Len(buf)
      BY <3>1, <3>2, <1>4, BufferTypes DEF BufferInv
    <3>3. CASE j = Len(buf) + 1
      <4>1. buf[i] \in ToSet(buf)
        BY <3>1, BufferTypes DEF ToSet
      <4>2. buf[i] \in Pictures /\ Place(buf[i]) <= captured
        BY <4>1, BufferTypes DEF BufferInv, Waiting
      <4> QED
        BY <4>2, <3>1, <3>3, <1>2, <1>3, <1>4, <1>6
    <3> QED
      BY <3>2, <3>3, BufferTypes
  <2>4. ToSet(buf)' \cap ToSet(data1)' = {} /\ Waiting' \cap ToSet(handed)' = {}
    BY <1>4, <1>5, <1>7 DEF BufferInv, Waiting
  <2> QED
    BY <2>1, <2>2, <2>3, <2>4 DEF BufferInv
<1>9. DropsOldest'
  <2> SUFFICES ASSUME NEW i \in 1..captured + 1, Dropped(i)'
               PROVE /\ \E j \in i + 1..captured + 1 : Picture[j] \in ToSet(data1) \cup ToSet(handed)
                     /\ \A j \in 1..captured + 1 : Picture[j] \in Waiting' => j > i
    BY <1>1, <1>5 DEF DropsOldest
  <2>1. Picture[i] \notin Waiting \cup {new} \cup ToSet(handed)
    BY <1>5 DEF Dropped
  <2>2. i # captured + 1
    BY <2>1 DEF new
  <2>3. i \in 1..captured /\ Dropped(i)
    BY <2>1, <2>2, <1>2 DEF Dropped
  <2>4. PICK j \in i + 1..captured : Picture[j] \in ToSet(data1) \cup ToSet(handed)
    BY <2>3 DEF DropsOldest
  <2>5. j \in i + 1..captured + 1
    BY <2>3, <2>4, <1>2
  <2>6. ASSUME NEW k \in 1..captured + 1, Picture[k] \in Waiting' PROVE k > i
    <3>1. CASE k = captured + 1
      BY <3>1, <2>3, <1>2
    <3>2. CASE k \in 1..captured
      <4>1. Picture[k] # new
        <5>1. k \in 1..Len(Picture) /\ k # captured + 1
          BY <3>2, <1>2, PlaceOf
        <5>2. Place(Picture[k]) = k
          BY <5>1, PlaceOf
        <5> QED
          BY <5>1, <5>2, <1>3
      <4> QED
        BY <4>1, <3>2, <2>3, <2>6, <1>5 DEF DropsOldest
    <3> QED
      BY <3>1, <3>2, <1>2
  <2> QED
    BY <2>4, <2>5, <2>6
<1> QED
  BY <1>8, <1>9

LEMMA SenderTakeStep ==
  ASSUME TypeInv, TypeInv', BufferInv, DropsOldest, SenderTake
  PROVE  BufferInv' /\ DropsOldest'
<1> DEFINE new == Last(buf)
<1>1. /\ data1 = <<>> /\ buf # <<>> /\ data1' = <<new>>
      /\ buf' = <<>> \/ buf' = Front(buf)
      /\ captured' = captured /\ handed' = handed
  BY DEF SenderTake
<1>2. /\ Len(buf) \in Nat \ {0} /\ DOMAIN buf = 1..Len(buf)
      /\ new = buf[Len(buf)] /\ new \in Pictures
      /\ Len(Front(buf)) = Len(buf) - 1
      /\ DOMAIN Front(buf) = 1..Len(buf) - 1
      /\ \A i \in 1..Len(buf) - 1 : Front(buf)[i] = buf[i]
      /\ ToSet(buf) = ToSet(Front(buf)) \cup {new}
  <2>1. buf \in Seq(Pictures)
    BY BufferTypes
  <2> QED
    BY <1>1, <2>1, FrontLast
<1> HIDE DEF new
<1>3. ToSet(data1)' = {new} /\ ToSet(data1) = {} /\ Waiting = ToSet(buf)
  <2>1. ToSet(<<new>>) = {new}
    BY DEF ToSet
  <2> QED
    BY <1>1, <2>1, NoElements DEF Waiting
<1>4. new \in ToSet(buf) /\ Place(new) \in Int
  BY <1>2, PlaceOf
<1>5. ASSUME NEW p \in ToSet(Front(buf)) PROVE Place(p) < Place(new) /\ p # new /\ p \in Pictures
  <2>1. PICK i \in 1..Len(buf) - 1 : p = buf[i]
    BY <1>2 DEF ToSet
  <2>2. i \in 1..Len(buf) /\ Len(buf) \in 1..Len(buf) /\ i < Len(buf)
    BY <1>2
  <2>3. Place(p) < Place(new)
    BY <2>1, <2>2, <1>2 DEF BufferInv
  <2>4. p \in Pictures
    BY <1>2, BufferTypes
  <2> QED
    BY <2>3, <2>4, PlaceOf, <1>4
<1>6. ToSet(buf)' \subseteq ToSet(Front(buf))
  BY <1>1, NoElements
<1>7. Waiting' \subseteq Waiting
  BY <1>2, <1>3, <1>4, <1>6 DEF Waiting
<1>8. BufferInv'
  <2>1. Len(buf') + Len(data1') + Len(handed') <= captured'
    <3>1. Len(buf) + Len(data1) + Len(handed) <= captured
      BY DEF BufferInv
    <3>2. Len(data1') = 1 /\ Len(data1) = 0 /\ Len(handed') = Len(handed) /\ captured' = captured
      BY <1>1
    <3>3. Len(buf') = 0 \/ Len(buf') = Len(buf) - 1
      <4>1. CASE buf' = <<>>
        BY <4>1
      <4>2. CASE buf' = Front(buf)
        BY <4>2, <1>2
      <4> QED
        BY <4>1, <4>2, <1>1
    <3>4. \A b \in Nat \ {0} : \A c, d \in Nat :
             b + 0 + c <= d => (b - 1) + 1 + c <= d /\ 0 + 1 + c <= d
      OBVIOUS
    <3> QED
      BY <3>1, <3>2, <3>3, <3>4, <1>2, BufferTypes
  <2>2. \A p \in (Waiting \cup ToSet(handed))' : Place(p) <= captured'
    BY <1>1, <1>7 DEF BufferInv
  <2>3. \A i, j \in DOMAIN buf' : i < j => Place(buf'[i]) < Place(buf'[j])
    <3>1. CASE buf' = <<>>
      BY <3>1
    <3>2. CASE buf' = Front(buf)
      <4>1. 1..Len(buf) - 1 \subseteq 1..Len(buf)
        BY <1>2
      <4> QED
        BY <3>2, <4>1, <1>2 DEF BufferInv
    <3> QED
      BY <3>1, <3>2, <1>1
  <2>4. ToSet(buf)' \cap ToSet(data1)' = {} /\ Waiting' \cap ToSet(handed)' = {}
    BY <1>1, <1>3, <1>5, <1>6, <1>7 DEF BufferInv
  <2> QED
    BY <2>1, <2>2, <2>3, <2>4 DEF BufferInv
<1>9. DropsOldest'
  <2> SUFFICES ASSUME NEW i \in 1..captured, Dropped(i)'
               PROVE /\ \E j \in i + 1..captured : Picture[j] \in ToSet(data1)' \cup ToSet(handed)
                     /\ \A j \in 1..captured : Picture[j] \in Waiting' => j > i
    BY <1>1 DEF DropsOldest
  <2>1. Picture[i] \notin Waiting' \cup ToSet(handed)
    BY <1>1 DEF Dropped
  <2>2. CASE Dropped(i)
    BY <2>2, <1>3, <1>7 DEF DropsOldest
  <2>3. CASE ~Dropped(i)
    <3>1. Picture[i] \in ToSet(buf)
      BY <2>1, <2>3, <1>3 DEF Dropped
    <3>2. Picture[i] # new
      BY <2>1, <1>3 DEF Waiting
    <3>3. Picture[i] \in ToSet(Front(buf))
      BY <3>1, <3>2, <1>2
    <3>4. buf' = <<>> /\ Waiting' = {new}
      BY <3>3, <2>1, <1>1, <1>3, NoElements DEF Waiting
    <3>5. i \in 1..Len(Picture) /\ Place(Picture[i]) = i
      BY BufferTypes, PlaceOf
    <3>6. Place(new) \in i + 1..captured /\ Picture[Place(new)] = new
      <4>1. Place(new) <= captured
        BY <1>3, <1>4 DEF BufferInv
      <4>2. i < Place(new)
        BY <3>3, <3>5, <1>5
      <4> QED
        BY <4>1, <4>2, <1>2, BufferTypes, PlaceOf
    <3>7. \A j \in 1..captured : Picture[j] = new => j = Place(new)
      BY BufferTypes, PlaceOf
    <3> QED
      BY <3>4, <3>6, <3>7, <1>3
  <2> QED
    BY <2>2, <2>3
<1> QED
  BY <1>8, <1>9

LEMMA SenderSendStep ==
  ASSUME TypeInv, TypeInv', BufferInv, DropsOldest, SenderSend
  PROVE  BufferInv' /\ DropsOldest'
<1> DEFINE p == data1[1]
<1>1. /\ data1 # <<>> /\ data1' = <<>> /\ buf' = buf /\ captured' = captured
      /\ handed' = Append(handed, p) /\ p \in Pictures /\ Len(data1) = 1
      /\ ToSet(data1) = {p}
  BY InHand DEF SenderSend
<1>2. /\ ToSet(handed)' = ToSet(handed) \cup {p} /\ Len(handed') = Len(handed) + 1
      /\ ToSet(data1)' = {}
  <2>1. handed \in Seq(Pictures)
    BY BufferTypes
  <2> HIDE DEF p
  <2> QED
    BY <1>1, <2>1, Appended, NoElements
<1> HIDE DEF p
<1>3. Waiting = ToSet(buf) \cup {p} /\ Waiting' = ToSet(buf)
  BY <1>1, <1>2 DEF Waiting
<1>4. BufferInv'
  <2>1. Len(buf') + Len(data1') + Len(handed') <= captured'
    <3>1. Len(buf) + Len(data1) + Len(handed) <= captured
      BY DEF BufferInv
    <3>2. Len(data1') = 0 /\ Len(buf') = Len(buf)
      BY <1>1
    <3>3. \A a, b, c \in Nat : a + 1 + b <= c => a + 0 + (b + 1) <= c
      OBVIOUS
    <3> QED
      BY <3>1, <3>2, <3>3, <1>1, <1>2, BufferTypes
  <2>2. /\ (Waiting \cup ToSet(handed))' = Waiting \cup ToSet(handed)
        /\ ToSet(buf)' = ToSet(buf)
    BY <1>1, <1>2, <1>3
  <2>3. ToSet(buf)' \cap ToSet(data1)' = {} /\ Waiting' \cap ToSet(handed)' = {}
    BY <1>1, <1>2, <1>3 DEF BufferInv
  <2>4. \A i, j \in DOMAIN buf' : i < j => Place(buf'[i]) < Place(buf'[j])
    BY <1>1 DEF BufferInv
  <2>5. \A q \in (Waiting \cup ToSet(handed))' : Place(q) <= captured'
    BY <1>1, <2>2 DEF BufferInv
  <2> QED
    BY <2>1, <2>3, <2>4, <2>5 DEF BufferInv
<1>5. DropsOldest'
  <2>1. \A i : Dropped(i)' <=> Dropped(i)
    BY <1>2, <1>3 DEF Dropped
  <2>2. (ToSet(data1) \cup ToSet(handed))' = ToSet(data1) \cup ToSet(handed)
    BY <1>1, <1>2
  <2>3. Waiting' \subseteq Waiting
    BY <1>3
  <2> QED
    BY <1>1, <2>1, <2>2, <2>3 DEF DropsOldest
<1> QED
  BY <1>4, <1>5

(* The other steps leave the pictures where they are.                        *)
LEMMA BufferStep ==
  ASSUME TypeInv, TypeInv', BufferInv, DropsOldest, [Next]_vars
  PROVE  BufferInv' /\ DropsOldest'
<1>1. CASE UNCHANGED camera
  BY <1>1 DEF BufferInv, DropsOldest, Dropped, Waiting, camera
<1>2. CASE Decode \/ SenderTake \/ SenderSend
  BY <1>2, DecodeStep, SenderTakeStep, SenderSendStep
<1>3. UNCHANGED camera \/ Decode \/ SenderTake \/ SenderSend
  <2>1. CASE UNCHANGED vars \/ ServerSteps \/ PythonSteps
    BY <2>1 DEF vars, ServerSteps, PythonSteps
  <2>2. CASE CameraSteps
    BY <2>2 DEF CameraSteps, Camera, Sender, Main, GetConnection, StartSender, Run,
                RunReturns, Exit, MainStep, ClientHandlers
  <2> QED
    BY <2>1, <2>2 DEF Next
<1> QED
  BY <1>1, <1>2, <1>3

-----------------------------------------------------------------------------
(* The pictures the connection has accepted.                                 *)
LEMMA AcceptedStep ==
  ASSUME TypeInv, OneClient, BufferInv, AcceptedInv, [Next]_vars
  PROVE  AcceptedInv'
<1> DEFINE acc == accepted["client"]
<1>1. /\ acc \in Seq(Msg) /\ Len(acc) \in Nat /\ DOMAIN acc = 1..Len(acc)
      /\ sent \in Nat /\ handed \in Seq(Pictures)
  <2>1. accepted \in [End -> Seq(Msg)] /\ "client" \in End /\ sent \in 0..Len(Picture)
        /\ handed \in Seq(Pictures)
    BY OtherEnd DEF TypeInv
  <2> QED
    BY <2>1, PlaceOf
<1>2. /\ \A i, j \in DOMAIN acc : acc[i] \in Pictures /\ acc[i] = acc[j] => i = j
      /\ \A i \in DOMAIN acc : acc[i] \in Pictures =>
            acc[i] \in ToSet(handed) \/ Place(acc[i]) <= sent
  BY DEF AcceptedInv
<1>3. \A p \in Pictures : Place(p) \in Int
  BY PlaceOf
<1>4. ASSUME acc' = acc, ToSet(handed) \subseteq ToSet(handed)', sent' \in {sent, sent + 1}
      PROVE  AcceptedInv'
  <2>1. \A p \in Pictures : Place(p) <= sent => Place(p) <= sent'
    BY <1>1, <1>3, <1>4
  <2> QED
    BY <1>2, <1>4, <2>1 DEF AcceptedInv
<1>5. ASSUME NEW m \in Msg, acc' = Append(acc, m),
             ToSet(handed) \subseteq ToSet(handed)', sent' \in {sent, sent + 1},
             m \in Pictures =>
                /\ m \in ToSet(handed)' \/ Place(m) <= sent'
                /\ m \notin ToSet(handed) /\ ~(Place(m) <= sent)
      PROVE  AcceptedInv'
  <2>1. /\ DOMAIN acc' = 1..Len(acc) + 1
        /\ \A i \in 1..Len(acc) : acc'[i] = acc[i]
        /\ acc'[Len(acc) + 1] = m
    <3> HIDE DEF acc
    <3> QED
      BY <1>1, <1>5, Appended
  <2>2. \A i \in 1..Len(acc) + 1 : i \in 1..Len(acc) \/ i = Len(acc) + 1
    BY <1>1
  <2>3. \A p \in Pictures : Place(p) <= sent => Place(p) <= sent'
    BY <1>1, <1>3, <1>5
  <2>4. \A i \in DOMAIN acc' : acc'[i] \in Pictures =>
            acc'[i] \in ToSet(handed)' \/ Place(acc'[i]) <= sent'
    <3> HIDE DEF acc
    <3> QED
      BY <2>1, <2>2, <2>3, <1>1, <1>2, <1>5
  <2>5. \A i \in 1..Len(acc) : acc[i] \in Pictures => acc[i] # m
    <3> HIDE DEF acc
    <3> QED
      BY <1>1, <1>2, <1>5
  <2>6. \A i, j \in DOMAIN acc' : acc'[i] \in Pictures /\ acc'[i] = acc'[j] => i = j
    <3> HIDE DEF acc
    <3> QED
      BY <2>1, <2>2, <2>5, <1>1, <1>2
  <2> QED
    BY <2>4, <2>6 DEF AcceptedInv
<1>6. CASE UNCHANGED vars
  BY <1>4, <1>6 DEF vars, linkvars, camera
<1>7. CASE ServerSteps
  <2>1. UNCHANGED <<camera, sent>> /\ acc' = acc
    BY <1>7, ServerEffect DEF ServerSteps
  <2> QED
    BY <1>4, <2>1 DEF camera
<1>8. CASE CameraSteps
  <2>1. sent' = sent /\ sent = 0
    BY <1>8, CameraEffect DEF CameraSteps, OneClient
  <2>2. ToSet(handed) \subseteq ToSet(handed)'
    <3>1. CASE SenderSend
      <4>1. data1[1] \in Pictures /\ handed' = Append(handed, data1[1])
        BY <3>1, InHand DEF SenderSend
      <4>2. ToSet(handed') = ToSet(handed) \cup {data1[1]}
        BY <4>1, <1>1, Appended
      <4> QED
        BY <4>2
    <3>2. CASE handed' = handed
      BY <3>2
    <3>3. SenderSend \/ handed' = handed
      BY <1>8 DEF CameraSteps, Camera, Sender, Main, GetConnection, StartSender, Run,
                RunReturns, Exit, MainStep, ClientHandlers, Decode, SenderTake, camera
    <3> QED
      BY <3>1, <3>2, <3>3
  <2>3. CASE acc' = acc
    BY <2>1, <2>2, <2>3, <1>4
  <2>4. CASE acc' = Append(acc, "SetMethod")
    <3>1. "SetMethod" \in Msg /\ "SetMethod" \notin Pictures
      BY Symbols
    <3> HIDE DEF acc
    <3> QED
      BY <2>1, <2>2, <2>4, <3>1, <1>5
  <2>5. CASE acc' = Append(acc, data1[1]) /\ SenderSend
    <3>1. data1[1] \in Pictures /\ handed' = Append(handed, data1[1]) /\ ToSet(data1) = {data1[1]}
      BY <2>5, InHand DEF SenderSend
    <3>2. data1[1] \in ToSet(handed)'
      BY <3>1, <1>1, Appended
    <3>3. data1[1] \notin ToSet(handed)
      BY <3>1 DEF BufferInv, Waiting
    <3>4. ~(Place(data1[1]) <= 0)
      BY <3>1, PlaceOf
    <3>5. data1[1] \in Msg
      BY <3>1, Symbols
    <3> HIDE DEF acc
    <3> QED
      BY <2>1, <2>2, <2>5, <3>2, <3>3, <3>4, <3>5, <1>5
  <2> QED
    BY <1>8, <2>3, <2>4, <2>5, CameraEffect
<1>9. CASE PythonSteps
  <2>1. handed' = handed /\ main = "idle" /\ handed = <<>>
    BY <1>9, PythonEffect DEF PythonSteps, OneClient, camera
  <2>2. ToSet(handed) = {}
    BY <2>1, NoElements
  <2>3. CASE acc' = acc /\ sent' = sent
    BY <1>4, <2>1, <2>3
  <2>4. CASE acc' = Append(acc, "SetMethod") /\ sent' = sent
    <3>1. "SetMethod" \in Msg /\ "SetMethod" \notin Pictures
      BY Symbols
    <3> HIDE DEF acc
    <3> QED
      BY <2>1, <2>4, <3>1, <1>5
  <2>5. CASE acc' = Append(acc, Picture[sent + 1]) /\ sent < Len(Picture) /\ sent' = sent + 1
    <3>1. sent + 1 \in 1..Len(Picture)
      BY <2>5, <1>1, PlaceOf
    <3>2. Picture[sent + 1] \in Pictures /\ Place(Picture[sent + 1]) = sent + 1
      BY <3>1, PlaceOf
    <3>3. Picture[sent + 1] \in Msg
      BY <3>2, Symbols
    <3>4. Place(Picture[sent + 1]) <= sent' /\ ~(Place(Picture[sent + 1]) <= sent)
      BY <3>2, <2>5, <1>1
    <3> HIDE DEF acc
    <3> QED
      BY <2>1, <2>2, <2>5, <3>3, <3>4, <1>5
  <2> QED
    BY <1>9, <2>3, <2>4, <2>5, PythonEffect
<1> QED
  BY <1>6, <1>7, <1>8, <1>9 DEF Next

(* What the client has sent only grows.                                      *)
LEMMA AcceptedGrows ==
  ASSUME TypeInv, [Next]_vars
  PROVE  \/ accepted'["client"] = accepted["client"]
         \/ \E m \in Msg : accepted'["client"] = Append(accepted["client"], m)
<1>1. CASE UNCHANGED vars
  BY <1>1 DEF vars, linkvars
<1>2. CASE ServerSteps
  BY <1>2, ServerEffect
<1>3. CASE CameraSteps
  <2>1. data1[1] \in Msg \/ ~SenderSend
    BY InHand, Symbols DEF SenderSend
  <2> QED
    BY <1>3, <2>1, CameraEffect, Symbols
<1>4. CASE PythonSteps
  <2>1. sent < Len(Picture) => Picture[sent + 1] \in Msg
    <3>1. sent \in 0..Len(Picture)
      BY DEF TypeInv
    <3>2. sent < Len(Picture) => sent + 1 \in 1..Len(Picture)
      BY <3>1, PlaceOf
    <3> QED
      BY <3>2, PlaceOf, Symbols
  <2> QED
    BY <1>4, <2>1, PythonEffect, Symbols
<1> QED
  BY <1>1, <1>2, <1>3, <1>4 DEF Next

(* The calls of the server's handlers.                                       *)
LEMMA CallsStep ==
  ASSUME TypeInv, CallsInv, [Next]_vars
  PROVE  CallsInv'
<1> DEFINE acc == accepted["client"]
           seen == calls["server"]
<1>1. /\ acc \in Seq(Msg) /\ Len(acc) \in Nat /\ DOMAIN acc = 1..Len(acc)
      /\ seen \in Seq(Msg \cup Ends) /\ Len(seen) \in Nat /\ DOMAIN seen = 1..Len(seen)
  BY OtherEnd DEF TypeInv
<1>2. \A i \in 1..Len(seen) :
         \/ i = 1 /\ seen[i] \in {"open", "fail"}
         \/ i # 1 /\ i = Len(seen) /\ seen[i] = "close"
         \/ i # 1 /\ i - 1 <= Len(acc) /\ seen[i] = acc[i - 1]
  BY <1>1 DEF CallsInv
<1>3. /\ Len(acc') \in Nat /\ Len(acc) <= Len(acc')
      /\ \A i \in 1..Len(acc) : acc'[i] = acc[i]
  <2>1. CASE acc' = acc
    BY <1>1, <2>1
  <2>2. ASSUME NEW m \in Msg, acc' = Append(acc, m)
        PROVE  /\ Len(acc') \in Nat /\ Len(acc) <= Len(acc')
               /\ \A i \in 1..Len(acc) : acc'[i] = acc[i]
    <3> HIDE DEF acc
    <3> QED
      BY <1>1, <2>2, Appended
  <2> QED
    BY <2>1, <2>2, AcceptedGrows
<1>4. CASE seen' = seen
  <2>1. \A i \in 1..Len(seen) : i # 1 /\ i - 1 <= Len(acc) => i - 1 <= Len(acc') /\ acc'[i - 1] = acc[i - 1]
    <3> HIDE DEF acc, seen
    <3> QED
      BY <1>1, <1>3
  <2>2. \A i \in 1..Len(seen) :
         \/ i = 1 /\ seen[i] \in {"open", "fail"}
         \/ i # 1 /\ i = Len(seen) /\ seen[i] = "close"
         \/ i # 1 /\ i - 1 <= Len(acc') /\ seen[i] = acc'[i - 1]
    <3> HIDE DEF acc, seen
    <3> QED
      BY <2>1, <1>2
  <2> QED
    BY <2>2, <1>1, <1>4 DEF CallsInv
<1>5. CASE ServerSteps
  <2>1. PICK c \in Msg \cup Ends : seen' = Append(seen, c) /\ NextCall(c)
    BY <1>5, ServerEffect
  <2>2. acc' = acc
    BY <1>5, ServerEffect
  <2>3. /\ Len(seen') = Len(seen) + 1
        /\ DOMAIN seen' = 1..Len(seen) + 1
        /\ \A i \in 1..Len(seen) : seen'[i] = seen[i]
        /\ seen'[Len(seen) + 1] = c
    <3> HIDE DEF seen
    <3> QED
      BY <1>1, <2>1, Appended
  <2>4. ASSUME NEW i \in 1..Len(seen) + 1
        PROVE  \/ i = 1 /\ seen'[i] \in {"open", "fail"}
               \/ i # 1 /\ i = Len(seen) + 1 /\ seen'[i] = "close"
               \/ i # 1 /\ i - 1 <= Len(acc) /\ seen'[i] = acc[i - 1]
    <3>1. CASE i \in 1..Len(seen)
      <4>1. seen # <<>>
        BY <3>1, <1>1
      <4>2. seen[Len(seen)] # "close"
        BY <4>1, <2>1 DEF NextCall, Last
      <4> HIDE DEF acc, seen
      <4> QED
        BY <3>1, <4>2, <1>2, <2>3
    <3>2. CASE i = Len(seen) + 1
      <4>1. CASE seen = <<>>
        <5>1. i = 1 /\ c \in {"open", "fail"}
          BY <3>2, <4>1, <2>1 DEF NextCall
        <5> QED
          BY <5>1, <2>3, <3>2
      <4>2. CASE seen # <<>>
        <5>1. Len(seen) # 0
          BY <4>2, <1>1
        <5>2. i # 1 /\ i - 1 = Len(seen)
          BY <5>1, <3>2, <1>1
        <5>3. c = "close" \/ (Len(seen) <= Len(acc) /\ c = acc[Len(seen)])
          BY <4>2, <2>1 DEF NextCall
        <5> HIDE DEF acc, seen
        <5> QED
          BY <5>2, <5>3, <3>2, <2>3
      <4> QED
        BY <4>1, <4>2
    <3> QED
      BY <3>1, <3>2, <1>1
  <2> QED
    BY <2>2, <2>3, <2>4 DEF CallsInv
<1>6. seen' = seen \/ ServerSteps
  BY CameraEffect, PythonEffect DEF Next, vars, linkvars
<1> QED
  BY <1>4, <1>5, <1>6

(* The flow of a script.                                                     *)
LEMMA ScriptStep ==
  ASSUME TypeInv, OneClient, ScriptInv, [Next]_vars
  PROVE  ScriptInv'
<1> DEFINE acc == accepted["client"]
<1>1. acc \in Seq(Msg) /\ Len(acc) \in Nat
  BY OtherEnd DEF TypeInv
<1>2. /\ py_pc \in {"connect", "greeting", "command"} => acc = <<>>
      /\ py_pc \in {"reply", "send"} => acc # <<>>
      /\ main = "idle" /\ acc # <<>> => acc[1] = "SetMethod"
  BY DEF ScriptInv
<1>3. CASE UNCHANGED vars
  BY <1>3 DEF ScriptInv, vars, linkvars
<1>4. CASE ServerSteps
  <2>1. acc' = acc /\ UNCHANGED <<py_pc, main>>
    BY <1>4, ServerEffect DEF ServerSteps
  <2> QED
    BY <2>1, <1>2 DEF ScriptInv
<1>5. CASE CameraSteps
  <2>1. main # "idle" /\ main' # "idle" /\ py_pc' = py_pc
    BY <1>5, CameraEffect DEF CameraSteps
  <2>2. py_pc' = "idle"
    BY <2>1 DEF OneClient
  <2> QED
    BY <2>1, <2>2 DEF ScriptInv
<1>6. CASE PythonSteps
  <2>1. /\ UNCHANGED main /\ main = "idle"
        /\ py_pc' \in {"greeting", "command", "reply", "send", "done"}
        /\ py_pc' \in {"greeting", "command"} => py_pc \in {"connect", "greeting"}
    BY <1>6, PythonEffect DEF PythonSteps, OneClient
  <2>2. CASE acc' = acc /\ (py_pc' \in {"reply", "send"} => py_pc = "reply" \/ py_pc = py_pc')
    BY <2>1, <2>2, <1>2 DEF ScriptInv
  <2>3. CASE acc' = Append(acc, "SetMethod") /\ py_pc = "command"
    <3>1. acc = <<>>
      BY <2>3, <1>2
    <3>2. acc' # <<>> /\ acc'[1] = "SetMethod"
      BY <2>3, <3>1
    <3> QED
      BY <2>1, <2>3, <3>2, <1>2 DEF ScriptInv
  <2>4. ASSUME acc' = Append(acc, Picture[sent + 1]), sent < Len(Picture), py_pc = "send"
        PROVE  ScriptInv'
    <3>1. sent \in 0..Len(Picture)
      BY DEF TypeInv
    <3>2. sent + 1 \in 1..Len(Picture)
      BY <3>1, <2>4, PlaceOf
    <3>3. Picture[sent + 1] \in Msg
      BY <3>2, PlaceOf, Symbols
    <3>4. acc # <<>> /\ acc[1] = "SetMethod"
      BY <2>1, <2>4, <1>2
    <3>5. 1 \in 1..Len(acc)
      BY <3>4, <1>1
    <3>6. Len(acc') = Len(acc) + 1 /\ acc'[1] = acc[1]
      <4> HIDE DEF acc
      <4> QED
        BY <3>3, <3>5, <2>4, <1>1, Appended
    <3>7. acc' # <<>> /\ acc'[1] = "SetMethod"
      BY <3>4, <3>6, <1>1
    <3> QED
      BY <2>1, <2>4, <3>7, <1>2 DEF ScriptInv
  <2> QED
    BY <1>6, <2>2, <2>3, <2>4, PythonEffect
<1> QED
  BY <1>3, <1>4, <1>5, <1>6 DEF Next

(* What the server has read.                                                 *)
LEMMA ReadStep ==
  ASSUME ReadInv, [Next]_vars
  PROVE  ReadInv'
<1>1. typed' = typed
  BY DEF Next, vars, ServerSteps, Server, CameraSteps, Camera, PythonSteps, Python
<1>2. CASE UNCHANGED servervars
  BY <1>1, <1>2 DEF ReadInv, servervars
<1>3. CASE ServerOpens
  BY <1>1, <1>3 DEF ReadInv, ServerOpens
<1>4. CASE ServerCommand
  BY <1>1, <1>4 DEF ReadInv, ServerCommand
<1>5. CASE ServerPicture
  BY <1>1, <1>5 DEF ReadInv, ServerPicture
<1>6. CASE ServerEnds
  <2>1. UNCHANGED <<m_alias, told>> /\ (server' = server \/ (server = "relays" /\ server' = "stuck"))
    BY <1>6 DEF ServerEnds
  <2> QED
    BY <1>1, <2>1 DEF ReadInv
<1>7. UNCHANGED servervars \/ ServerOpens \/ ServerCommand \/ ServerPicture \/ ServerEnds
  BY DEF Next, vars, ServerSteps, Server, CameraSteps, Camera, PythonSteps, Python
<1> QED
  BY <1>2, <1>3, <1>4, <1>5, <1>6, <1>7

-----------------------------------------------------------------------------
(* The initial states.                                                       *)
LEMMA InitInv == Init => ClientInv
<1> SUFFICES ASSUME Init PROVE ClientInv
  OBVIOUS
<1>1. /\ accepted = [e \in End |-> <<>>] /\ calls = [e \in End |-> <<>>]
      /\ server = "waits" /\ m_alias = <<>> /\ told = <<>>
      /\ captured = 0 /\ buf = <<>> /\ data1 = <<>> /\ handed = <<>> /\ sent = 0
      /\ \/ main = "login" /\ py_pc = "idle"
         \/ main = "idle" /\ py_pc = "connect"
  BY DEF Init, ServerInit, LinkInit, CameraInit, PyInit
<1>2. typed \in [name : Seq(Symbol), to : Seq(Symbol)]
  <2>1. CASE typed = [name |-> <<"hk">>, to |-> <<"william">>]
    <3>1. "hk" \in Symbol /\ "william" \in Symbol
      BY DEF Symbol
    <3>2. <<"hk">> \in Seq(Symbol) /\ <<"william">> \in Seq(Symbol)
      BY <3>1
    <3> QED
      BY <2>1, <3>2
  <2>2. CASE typed \in [name : Typed, to : Typed]
    <3>1. ASSUME NEW s \in Seq(STRING) PROVE s \in Seq(Symbol)
      <4>1. STRING \subseteq Symbol
        BY DEF Symbol
      <4> QED
        BY <4>1, SeqMonotonic
    <3> QED
      BY <2>2, <3>1, TypedAssumption
  <2> QED
    BY <2>1, <2>2 DEF Init
<1>3. accepted["client"] = <<>> /\ calls["server"] = <<>> /\ Len(<<>>) = 0
  BY <1>1, OtherEnd
<1>4. TypeInv
  <2>1. \A S : <<>> \in Seq(S)
    OBVIOUS
  <2>2. accepted \in [End -> Seq(Msg)]
    BY <1>1, <2>1
  <2>3. calls \in [End -> Seq(Msg \cup Ends)]
    BY <1>1, <2>1
  <2>4. buf \in Seq(Pictures) /\ data1 \in Seq(Pictures) /\ handed \in Seq(Pictures) /\ Len(data1) <= 1
    BY <1>1, <2>1
  <2>5. captured \in 0..Len(Picture) /\ sent \in 0..Len(Picture)
    BY <1>1, PlaceOf
  <2> QED
    BY <1>1, <1>2, <2>2, <2>3, <2>4, <2>5 DEF TypeInv
<1>5. OneClient
  BY <1>1 DEF OneClient
<1>6. BufferInv /\ DropsOldest
  <2>1. ToSet(buf) = {} /\ ToSet(data1) = {} /\ ToSet(handed) = {} /\ Waiting = {}
    BY <1>1, NoElements DEF Waiting
  <2>2. Len(buf) + Len(data1) + Len(handed) <= captured
    BY <1>1
  <2>3. \A i, j \in DOMAIN buf : i < j => Place(buf[i]) < Place(buf[j])
    BY <1>1
  <2> QED
    BY <1>1, <2>1, <2>2, <2>3 DEF BufferInv, DropsOldest
<1>7. AcceptedInv
  BY <1>3 DEF AcceptedInv
<1>8. CallsInv
  BY <1>3 DEF CallsInv
<1>9. ScriptInv
  BY <1>1, <1>3 DEF ScriptInv
<1>10. ReadInv
  BY <1>1 DEF ReadInv
<1> QED
  BY <1>4, <1>5, <1>6, <1>7, <1>8, <1>9, <1>10 DEF ClientInv

(* The clients and the server keep the invariant, whatever the list of       *)
(* pictures, the length of the buffer and the typed names.                   *)
THEOREM ClientsInvariant == Spec => []ClientInv
<1>1. ASSUME ClientInv, [Next]_vars PROVE ClientInv'
  <2>1. /\ TypeInv /\ OneClient /\ BufferInv /\ DropsOldest
        /\ AcceptedInv /\ CallsInv /\ ScriptInv /\ ReadInv
    BY <1>1 DEF ClientInv
  <2>2. TypeInv' /\ OneClient'
    BY <1>1, <2>1, TypeStep, OneClientStep
  <2>3. BufferInv' /\ DropsOldest'
    BY <1>1, <2>1, <2>2, BufferStep
  <2>4. AcceptedInv' /\ CallsInv'
    BY <1>1, <2>1, AcceptedStep, CallsStep
  <2>5. ScriptInv' /\ ReadInv'
    BY <1>1, <2>1, ScriptStep, ReadStep
  <2> QED
    BY <2>2, <2>3, <2>4, <2>5 DEF ClientInv
<1> QED
  BY <1>1, InitInv, PTL DEF Spec

(* Every variable of the clients has its type; no more pictures wait or are  *)
(* handed over than have been taken.                                         *)
THEOREM ClientsTyped == Spec => []TypeOK
<1>1. ASSUME ClientInv PROVE TypeOK
  <2>1. TypeInv /\ BufferInv
    BY <1>1 DEF ClientInv
  <2>2. Len(buf) + Len(data1) + Len(handed) <= captured
    BY <2>1 DEF BufferInv
  <2>3. \A a, b, c, d \in Nat : a + b + c <= d => a <= d /\ c <= d
    OBVIOUS
  <2>4. Len(buf) <= captured /\ Len(handed) <= captured
    BY <2>1, <2>2, <2>3, BufferTypes
  <2> QED
    BY <2>1, <2>4 DEF TypeInv, TypeOK, ServerTypeOK, CameraTypeOK, PyTypeOK
<1> QED
  BY <1>1, ClientsInvariant, PTL

(* A picture the sender drops is never the newest of those that wait.        *)
THEOREM NewestKept == Spec => []DropsOldest
<1>1. ASSUME ClientInv PROVE DropsOldest
  BY <1>1 DEF ClientInv
<1> QED
  BY <1>1, ClientsInvariant, PTL

(* The server is given no picture twice, and only pictures that were taken   *)
(* or sent.                                                                  *)
THEOREM GivenOnce == Spec => []SentOnce
<1>1. ASSUME ClientInv PROVE SentOnce
  <2> DEFINE acc == accepted["client"]
             seen == calls["server"]
  <2>1. TypeInv /\ BufferInv /\ AcceptedInv /\ CallsInv
    BY <1>1 DEF ClientInv
  <2>2. /\ acc \in Seq(Msg) /\ DOMAIN acc = 1..Len(acc) /\ Len(acc) \in Nat
        /\ seen \in Seq(Msg \cup Ends) /\ DOMAIN seen = 1..Len(seen) /\ Len(seen) \in Nat
    BY <2>1, OtherEnd DEF TypeInv
  <2>3. ASSUME NEW i \in DOMAIN seen, seen[i] \in Pictures
        PROVE  i - 1 \in DOMAIN acc /\ seen[i] = acc[i - 1]
    <3>1. seen[i] \notin {"open", "fail", "close"}
      BY <2>3, Symbols DEF Ends
    <3>2. i # 1 /\ i - 1 <= Len(acc) /\ seen[i] = acc[i - 1]
      BY <2>1, <3>1 DEF CallsInv
    <3>3. i - 1 \in 1..Len(acc)
      BY <2>2, <3>2
    <3> QED
      BY <2>2, <3>2, <3>3
  <2>4. ASSUME NEW i \in DOMAIN seen, NEW p, p = seen[i], p \in Pictures
        PROVE  /\ \E k \in 1..captured + sent : p = Picture[k]
               /\ \A j \in DOMAIN seen : seen[j] = p => j = i
    <3>1. i - 1 \in DOMAIN acc /\ p = acc[i - 1]
      BY <2>3, <2>4
    <3>2. p \in ToSet(handed) \/ Place(p) <= sent
      BY <2>1, <2>4, <3>1 DEF AcceptedInv
    <3>3. Place(p) <= captured \/ Place(p) <= sent
      BY <2>1, <3>2 DEF BufferInv
    <3>4. sent \in Nat /\ captured \in Nat
      <4>1. sent \in 0..Len(Picture)
        BY <2>1 DEF TypeInv
      <4> QED
        BY <2>1, <4>1, BufferTypes, PlaceOf
    <3>5. Place(p) \in 1..Len(Picture) /\ Picture[Place(p)] = p
      BY <2>4, PlaceOf
    <3>6. Place(p) \in 1..captured + sent
      BY <3>3, <3>4, <3>5, PlaceOf
    <3>7. ASSUME NEW j \in DOMAIN seen, seen[j] = p PROVE j = i
      <4>1. j - 1 \in DOMAIN acc /\ p = acc[j - 1]
        BY <2>3, <2>4, <3>7
      <4>2. j - 1 = i - 1
        BY <2>1, <2>4, <3>1, <4>1 DEF AcceptedInv
      <4> QED
        BY <4>2, <2>2
    <3> QED
      BY <3>5, <3>6, <3>7
  <2> QED
    BY <2>4 DEF SentOnce
<1> QED
  BY <1>1, ClientsInvariant, PTL

(* The server gets no picture of a script before its command.                *)
THEOREM CommandComesFirst == Spec => []FlowFollowed
<1>1. ASSUME ClientInv PROVE FlowFollowed
  <2> DEFINE acc == accepted["client"]
             seen == calls["server"]
  <2>1. TypeInv /\ CallsInv /\ ScriptInv
    BY <1>1 DEF ClientInv
  <2>2. /\ acc \in Seq(Msg) /\ DOMAIN acc = 1..Len(acc) /\ Len(acc) \in Nat
        /\ seen \in Seq(Msg \cup Ends) /\ DOMAIN seen = 1..Len(seen) /\ Len(seen) \in Nat
    BY <2>1, OtherEnd DEF TypeInv
  <2>3. ASSUME main = "idle" PROVE ~EarlyPicture
    <3>1. acc # <<>> => acc[1] = "SetMethod"
      BY <2>1, <2>3 DEF ScriptInv
    <3>2. ASSUME NEW i \in DOMAIN seen, seen[i] \in Pictures,
                 \A j \in 1..i : seen[j] # "SetMethod"
          PROVE  FALSE
      <4>1. seen[i] \notin {"open", "fail", "close", "SetMethod"}
        BY <3>2, Symbols DEF Ends
      <4>2. i # 1 /\ i - 1 <= Len(acc) /\ seen[i] = acc[i - 1]
        BY <2>1, <4>1 DEF CallsInv
      <4>3. i - 1 \in 1..Len(acc) /\ i \in 1..Len(seen)
        BY <2>2, <4>2
      <4>4. acc # <<>>
        BY <4>3, <2>2
      <4>5. i # 2
        BY <4>1, <4>2, <4>4, <3>1
      <4>6. 2 \in 1..i /\ 2 \in DOMAIN seen /\ 2 # Len(seen) /\ 2 # 1 /\ 2 - 1 = 1
        <5>1. \A n \in Nat : \A m \in 1..n : m # 1 /\ m # 2 => 2 \in 1..m /\ 2 \in 1..n /\ 2 # n
          OBVIOUS
        <5> QED
          BY <4>2, <4>3, <4>5, <5>1, <2>2
      <4>7. seen[2] = acc[2 - 1]
        BY <2>1, <4>6 DEF CallsInv
      <4> QED
        BY <3>1, <3>2, <4>4, <4>6, <4>7
    <3> QED
      BY <3>2 DEF EarlyPicture
  <2> QED
    BY <2>3 DEF FlowFollowed
<1> QED
  BY <1>1, ClientsInvariant, PTL

(* The server takes the typed name and the typed targets the way they were   *)
(* meant, as long as nobody types an "&".                                    *)
THEOREM TextsRead == Spec => []TypedRead
<1>1. ASSUME ClientInv PROVE TypedRead
  <2> SUFFICES ASSUME "&" \notin ToSet(typed.name) \cup ToSet(typed.to)
      PROVE  /\ server # "waits" => UpToComma(m_alias, typed.name)
             /\ server = "relays" => CutAtCommas(told, typed.to)
    BY DEF TypedRead
  <2>1. TypeInv /\ ReadInv
    BY <1>1 DEF ClientInv
  <2>2. typed.name \in Seq(Symbol) /\ typed.to \in Seq(Symbol)
    BY <2>1 DEF TypeInv
  <2>3. "&" \notin ToSet(typed.name) /\ "&" \notin ToSet(typed.to)
    OBVIOUS
  <2>4. ASSUME server # "waits" PROVE UpToComma(m_alias, typed.name)
    <3>1. m_alias = First(Uri(typed.name), <<"Alias">>)
      BY <2>1, <2>4 DEF ReadInv
    <3>2. m_alias = Head(inner_div(typed.name))
      BY <2>2, <2>3, <3>1, UriRead
    <3> QED
      BY <2>2, <3>2, FirstPiece
  <2>5. ASSUME server = "relays" PROVE CutAtCommas(told, typed.to)
    <3>1. told = Targets(Command(typed.name, typed.to))
      BY <2>1, <2>5 DEF ReadInv
    <3>2. told = inner_div(typed.to)
      BY <2>2, <2>3, <3>1, CommandRead
    <3> QED
      BY <2>2, <3>2, DividedAtCommas
  <2> QED
    BY <2>4, <2>5
<1> QED
  BY <1>1, ClientsInvariant, PTL

=============================================================================
