--------------------------- MODULE ClientProperties ---------------------------
(* What is checked of the clients.                                           *)
EXTENDS Clients

(* The sender goes through its buffer from the end and empties it when it    *)
(* grows too long. A picture that is dropped that way was not the newest:    *)
(* a newer one has been taken, and nothing older comes after it.             *)
Waiting == ToSet(buf) \cup ToSet(data1)
Dropped(i) == Picture[i] \notin Waiting \cup ToSet(handed)

DropsOldest ==
    \A i \in 1..captured : Dropped(i) =>
       /\ \E j \in i + 1..captured : Picture[j] \in ToSet(data1) \cup ToSet(handed)
       /\ \A j \in 1..captured : Picture[j] \in Waiting => j > i

(* The server is given no picture twice, and only what the camera has taken, *)
(* or the script has sent, whatever the order in which the threads run.      *)
SentOnce ==
    \A i \in DOMAIN calls["server"] :
       LET p == calls["server"][i] IN
         p \in Pictures =>
            /\ \E k \in 1..captured + sent : p = Picture[k]
            /\ \A j \in DOMAIN calls["server"] : calls["server"][j] = p => j = i

(* The scripts follow the flow the server documents: whatever is typed and   *)
(* whenever the connection breaks, the server gets no picture of theirs      *)
(* before their command, which would make it lock a mutex twice. (The camera *)
(* does not: its sender does not wait for the greeting to be answered. After *)
(* the command a script can block the server as well.)                       *)
EarlyPicture ==
    \E i \in DOMAIN calls["server"] :
       /\ calls["server"][i] \in Pictures
       /\ \A j \in 1..i : calls["server"][j] # "SetMethod"

FlowFollowed == EarlyPicture => main # "idle"

(* The server takes the texts the way they were meant: it knows the client   *)
(* by its name up to a comma, and is told the targets between the commas, as *)
(* long as nobody types an "&". (An "&" at the end of the name becomes part  *)
(* of the key after it, and the targets are not found.)                      *)
Commas(s) == {i \in DOMAIN s : s[i] = ","}
UpToComma(name, s) ==
    /\ IsPrefix(name, s) /\ Commas(name) = {}
    /\ Len(name) + 1 \notin DOMAIN s \ Commas(s)

CutAtCommas(pieces, s) ==
    \E cut \in [0..Len(pieces) -> 0..Len(s) + 1] :
       /\ cut[0] = 0 /\ cut[Len(pieces)] = Len(s) + 1
       /\ \A i \in 1..Len(pieces) :
             /\ cut[i - 1] < cut[i]
             /\ pieces[i] = SubSeq(s, cut[i - 1] + 1, cut[i] - 1)
             /\ Commas(pieces[i]) = {}
             /\ cut[i] \in Commas(s) \/ i = Len(pieces)

TypedRead ==
  "&" \notin ToSet(typed.name) \cup ToSet(typed.to) =>
    /\ server # "waits" => UpToComma(m_alias, typed.name)
    /\ server = "relays" => CutAtCommas(told, typed.to)

-----------------------------------------------------------------------------
(* The camera's main thread runs, and so does its sender, which polls.       *)
(* Nothing is assumed of the camera, of the network and of the server.       *)
FairSpec == Spec /\ WF_vars(Main /\ CameraSteps) /\ WF_vars(Sender /\ CameraSteps)

(* The newest picture does not stay in the buffer while the connection is    *)
(* made, refused or lost: it is handed to the connection, or newer ones come.*)
NewestSent ==
    \A i \in DOMAIN Picture :
       (captured = i /\ Picture[i] \in ToSet(buf)) ~>
          (Picture[i] \in ToSet(handed) \/ captured > i \/ main = "exit")

=============================================================================
