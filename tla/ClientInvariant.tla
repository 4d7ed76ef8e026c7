--------------------------- MODULE ClientInvariant ---------------------------
(* The inductive invariant behind the safety properties of the clients. It   *)
(* holds for every list of pictures, every MaxBuf and everything that may be *)
(* typed.                                                                    *)
EXTENDS ClientProperties

Ends == {"open", "fail", "close"}

(* What a text is made of. (The two names the camera has are spelled out,    *)
(* because the provers do not take them for strings.)                        *)
Symbol == STRING \cup {"hk", "william"}

(* The types, with what the rest needs of the calls.                         *)
TypeInv ==
    /\ accepted \in [End -> Seq(Msg)]
    /\ calls \in [End -> Seq(Msg \cup Ends)]
    /\ typed \in [name : Seq(Symbol), to : Seq(Symbol)]
    /\ server \in {"waits", "admits", "refuses", "relays", "stuck"}
    /\ server = "waits" => m_alias = <<>> /\ told = <<>>
    /\ main \in {"idle", "login", "connect", "thread", "run", "sleep", "exit"}
    /\ captured \in 0..Len(Picture)
    /\ buf \in Seq(Pictures) /\ data1 \in Seq(Pictures) /\ handed \in Seq(Pictures)
    /\ Len(data1) <= 1
    /\ py_pc \in {"idle", "connect", "greeting", "command", "reply", "send", "done"}
    /\ sent \in 0..Len(Picture)

(* Only one of the two programs is there.                                    *)
OneClient ==
    /\ main = "idle" \/ py_pc = "idle"
    /\ main = "idle" => captured = 0 /\ handed = <<>>
    /\ py_pc = "idle" => sent = 0

(* The place of a picture among all of them.                                 *)
Place(p) == CHOOSE k \in 1..Len(Picture) : Picture[k] = p

(* Every picture the camera has taken is in one place at most: it waits, in  *)
(* the order of taking, or it is in the sender's hand, or handed over.       *)
BufferInv ==
    /\ Len(buf) + Len(data1) + Len(handed) <= captured
    /\ \A p \in Waiting \cup ToSet(handed) : Place(p) <= captured
    /\ \A i, j \in DOMAIN buf : i < j => Place(buf[i]) < Place(buf[j])
    /\ ToSet(buf) \cap ToSet(data1) = {}
    /\ Waiting \cap ToSet(handed) = {}

(* The pictures the connection has accepted are different, and they are ones *)
(* the sender has handed over, or the script has sent.                       *)
AcceptedInv ==
    LET acc == accepted["client"] IN
      /\ \A i, j \in DOMAIN acc : acc[i] \in Pictures /\ acc[i] = acc[j] => i = j
      /\ \A i \in DOMAIN acc : acc[i] \in Pictures =>
            \/ acc[i] \in ToSet(handed)
            \/ Place(acc[i]) <= sent

(* What the server's handlers are called with: the start of the connection,  *)
(* then what the client has sent, in order, then perhaps its end.            *)
CallsInv ==
    \A i \in DOMAIN calls["server"] :
       \/ i = 1 /\ calls["server"][i] \in {"open", "fail"}
       \/ i # 1 /\ i = Len(calls["server"]) /\ calls["server"][i] = "close"
       \/ /\ i # 1
          /\ i - 1 <= Len(accepted["client"])
          /\ calls["server"][i] = accepted["client"][i - 1]

(* The script: its command comes first.                                      *)
ScriptInv ==
    /\ py_pc \in {"connect", "greeting", "command"} => accepted["client"] = <<>>
    /\ py_pc \in {"reply", "send"} => accepted["client"] # <<>>
    /\ main = "idle" /\ accepted["client"] # <<>> => accepted["client"][1] = "SetMethod"

(* The server remembers what it has read in the texts.                       *)
ReadInv ==
    /\ server # "waits" => m_alias = First(Uri(typed.name), <<"Alias">>)
    /\ server = "relays" => told = Targets(Command(typed.name, typed.to))

ClientInv ==
    /\ TypeInv /\ OneClient /\ BufferInv /\ DropsOldest
    /\ AcceptedInv /\ CallsInv /\ ScriptInv /\ ReadInv

=============================================================================
