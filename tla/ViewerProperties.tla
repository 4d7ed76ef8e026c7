--------------------------- MODULE ViewerProperties ---------------------------
(* What is checked, and in part proved, of the viewers of the main window.   *)
EXTENDS Viewers

TypeOK ==
    /\ rows \in 0..MaxRows /\ shown \in SUBSET Place /\ windows \in SUBSET Place
    /\ showObjs \in [Place -> Obj \cup {NoObj}]
    /\ entity \in [Obj -> Sock \cup {NoSock}]
    /\ ready \in [Sock -> Readiness]
    /\ asked \in SUBSET Sock
    /\ greeting \in [Sock -> {"no", "sent", "seen"}]
    /\ owner \in [Place -> Sock \cup {NoSock}]
    /\ presence \in [Sock -> {"new", "here", "gone"}]

(* A connection the program has opened and not closed can be reached from    *)
(* its map: it is what the viewer of its image talks through. init overwrites*)
(* this.entity, delete drops viewers, a frame and an error close what is the *)
(* entity by then; none of them may leave a connection behind that nobody    *)
(* can stop any more.                                                        *)
NoStray ==
    \A s \in Sock : Live(s) => /\ entity[ObjOf[s]] = s
                               /\ showObjs[NameOf(s)] = ObjOf[s]

(* "disconnect" ends every connection under the id of its window, and a      *)
(* change of the layout every connection there is ("close all the entities,  *)
(* stop communicating", mainFrame.js:49).                                    *)
StopsAll ==
    [][\A s \in Sock :
          Live(s) /\ (Layout \/ Disconnect(NameOf(s)))
             => ready'[s] \notin {"CONNECTING", "OPEN"}]_vars

(* The answer to a greeting is sent through this.entity, whatever that is by *)
(* then: a connection that has seen its greeting and is still open has told  *)
(* the server its method.                                                    *)
GreetingAnswered ==
    \A s \in Sock : greeting[s] = "seen" /\ Live(s) => s \in asked

(* The error of a socket finds an entity to close: onerror does not          *)
(* dereference the null that Shower leaves behind.                           *)
ErrorFindsEntity ==
    [][\A s \in Sock : Failed(s) => entity[ObjOf[s]] # NoSock]_vars

-----------------------------------------------------------------------------
(* What a comment says, and the program does not do: the viewers that are    *)
(* kept when the layout changes are reconnected (mainFrame.js:51), rather    *)
(* than refused because the server still has their own old connection.       *)
KeptReconnect ==
    [][\A s \in Sock : Live(s) /\ Refuse(s) => ObjOf[owner[NameOf(s)]] # ObjOf[s]]_vars

=============================================================================
