----------------------------- MODULE PythonClient -----------------------------
(* The Python clients that send a film (client_send_pic*.py): a script that  *)
(* waits for the greeting and for the reply before it sends pictures.        *)
(* client_rec_send_demo*.py begins the same way.                             *)
EXTENDS ServerEnd

VARIABLES
    py_pc,             \* where hello() is
    sent               \* how many pictures it has sent

PyTypeOK ==
    /\ py_pc \in {"idle", "connect", "greeting", "command", "reply", "send", "done"}
    /\ sent \in 0..Len(Picture)

PyInit == sent = 0

Goes(from, to) == py_pc = from /\ py_pc' = to

PyConnect ==
    /\ \/ Opens("client") /\ Goes("connect", "greeting")
       \/ Fails("client") /\ Goes("connect", "done")
    /\ UNCHANGED <<accepted, sent>>

(* A bug that would show: without targets there is nothing to ask for.       *)
PyGreetingWithoutTargets ==
    /\ Receives("client")
    /\ Goes("greeting", IF typed.to = <<>> THEN "send" ELSE "command")
    /\ UNCHANGED <<accepted, sent>>

PyGreeting ==
    /\ Receives("client")
    /\ Goes("greeting", IF Last(calls'["client"]) = "Got" THEN "command" ELSE "done")
    /\ UNCHANGED <<accepted, sent>>

(* Where the connection is lost, send raises.                                *)
PyCommand ==
    /\ \/ Accepts("client", "SetMethod") /\ Goes("command", "reply")
       \/ UNCHANGED accepted /\ Goes("command", "done")
    /\ UNCHANGED <<calls, sent>>

PyReply ==
    /\ Receives("client") /\ Goes("reply", "send")
    /\ UNCHANGED <<accepted, sent>>

PySend ==
    /\ sent < Len(Picture)
    /\ \/ Accepts("client", Picture[sent + 1]) /\ Goes("send", "send") /\ sent' = sent + 1
       \/ UNCHANGED <<accepted, sent>> /\ Goes("send", "done")
    /\ UNCHANGED calls

(* recv raises, or the script is over and leaves the connection.             *)
PyEnds ==
    /\ py_pc \in {"greeting", "reply", "done"} /\ py_pc' = "done"
    /\ Closes("client")
    /\ UNCHANGED <<accepted, sent>>

Python ==
    /\ PyConnect \/ PyGreeting \/ PyCommand \/ PyReply \/ PySend \/ PyEnds
    /\ UNCHANGED <<typed, servervars>>

=============================================================================
