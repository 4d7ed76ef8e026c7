------------------------------ MODULE ServerEnd ------------------------------
(* The server as one client meets it (ServerEndPoint.hpp), at the other end  *)
(* of a connection as Link describes it.                                     *)
EXTENDS Link, KeyValue

CONSTANT Picture       \* the pictures the client has to send, in order

ASSUME PictureAssumption ==
    /\ Picture \in Seq(Msg \ {"Got", "SetMethod", "OK"})
    /\ IsInjective(Picture)
    /\ {"Got", "SetMethod", "OK"} \subseteq Msg

Pictures == ToSet(Picture)

VARIABLES
    typed,             \* the two names in the texts of the client
    server,            \* what the server does with this client
    m_alias,           \* the name it knows the client by
    told               \* the targets it was told

servervars == <<server, m_alias, told>>

ServerTypeOK ==
    /\ accepted \in [End -> Seq(Msg)]
    /\ server \in {"waits", "admits", "refuses", "relays", "stuck"}
    /\ server = "waits" => m_alias = <<>> /\ told = <<>>

ServerInit ==
    /\ LinkInit
    /\ server = "waits"
    /\ m_alias = <<>>
    /\ told = <<>>

(* A send whose result nobody looks at: it fails if the end is closing.      *)
Sends(e, m) == UNCHANGED accepted \/ Accepts(e, m)

(* The server greets or refuses, and answers the command, of which a client  *)
(* sends one. A call on the client's object may be the last thing the        *)
(* network thread ever does: before the command a picture makes it lock the  *)
(* object's mutex twice; afterwards it does so when the pool is full, or it  *)
(* waits for the worker, which has locked the mutex twice itself if the      *)
(* client asked for its own name. (What others have forwarded to the client  *)
(* is left out.)                                                             *)
ServerOpens ==
    /\ Opens("server")
    /\ m_alias' = First(Uri(typed.name), <<"Alias">>)
    /\ \/ server' = "admits" /\ Sends("server", "Got")
       \/ server' = "refuses" /\ UNCHANGED accepted
    /\ UNCHANGED told

ServerCommand ==
    /\ Receives("server") /\ Last(calls'["server"]) = "SetMethod"
    /\ server = "admits" /\ server' = "relays"
    /\ told' = Targets(Command(typed.name, typed.to))
    /\ Sends("server", "OK")
    /\ UNCHANGED m_alias

ServerPicture ==
    /\ Receives("server") /\ Last(calls'["server"]) \in Pictures
    /\ server \in {"admits", "relays"} /\ server' \in {server, "stuck"}
    /\ UNCHANGED <<accepted, m_alias, told>>

ServerEnds ==
    /\ \/ Fails("server") /\ UNCHANGED server
       \/ Closes("server") /\ server # "stuck" /\ UNCHANGED server
       \/ Closes("server") /\ server = "relays" /\ server' = "stuck"
    /\ UNCHANGED <<accepted, m_alias, told>>

Server ==
    /\ ServerOpens \/ ServerCommand \/ ServerPicture \/ ServerEnds
    /\ UNCHANGED typed

=============================================================================
