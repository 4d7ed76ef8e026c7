--------------------------------- MODULE Link ---------------------------------
(* What one WebSocket connection between two programs promises to them,      *)
(* whatever the library does below: each end has its handlers called in the  *)
(* order open, messages, close (or only fail), and receives what the other   *)
(* end has sent, in order, nothing twice and nothing left out, up to the     *)
(* point where it ends.                                                      *)
EXTENDS SequencesExt

CONSTANT Msg           \* the messages the two programs send

ASSUME MsgAssumption == Msg \cap {"open", "fail", "close", "bye"} = {}

End == {"client", "server"}
Other(e) == IF e = "client" THEN "server" ELSE "client"

VARIABLES accepted,    \* accepted[e]: the messages e has sent, in order
          calls        \* calls[e]: the calls of e's handlers, a message for
                       \* one of the message handler

linkvars == <<accepted, calls>>

LinkInit ==
    /\ accepted = [e \in End |-> <<>>]
    /\ calls = [e \in End |-> <<>>]

New(e) == calls[e] = <<>>
Live(e) == ~New(e) /\ Last(calls[e]) \notin {"fail", "close"}

Called(e, c) == calls' = [calls EXCEPT ![e] = Append(@, c)]

Opens(e) == New(e) /\ Called(e, "open")
Fails(e) == New(e) /\ Called(e, "fail")
Closes(e) == Live(e) /\ Called(e, "close")

(* The call for "open" and one for each message so far: the next message is  *)
(* the one whose place is the number of calls.                               *)
Receives(e) ==
    LET k == Len(calls[e]) IN
      /\ Live(e)
      /\ k <= Len(accepted[Other(e)])
      /\ Called(e, accepted[Other(e)][k])

(* A message may be sent from within a handler, or by any other thread; what *)
(* is accepted at the very end may never leave.                              *)
Accepts(e, m) == accepted' = [accepted EXCEPT ![e] = Append(@, m)]

LinkStep(e) ==
    /\ Opens(e) \/ Fails(e) \/ Receives(e) \/ Closes(e) \/ UNCHANGED calls
    /\ UNCHANGED accepted \/ \E m \in Msg : Accepts(e, m) /\ calls'[e] # <<>>

LinkSpec == LinkInit /\ [][\E e \in End : LinkStep(e)]_linkvars

=============================================================================
