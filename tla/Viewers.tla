-------------------------------- MODULE Viewers --------------------------------
(* The main window (mainFrame.js): images in a grid that the user divides    *)
(* anew, a viewer object per image, and the sockets the viewers have opened. *)
(* Every handler runs to its end before the next one; what happens between   *)
(* two handlers is on the network and at the server. The server is the one   *)
(* AliasRegistry describes: the name of a connection is the id of its image. *)
EXTENDS Naturals

CONSTANTS
    MaxRows, MaxCols,   \* bounds on how the user divides the grid
    Obj, NoObj,         \* the viewers (WSObj) the program makes in its life,
    Sock, NoSock,       \* and the sockets; both bound a run
    IdOf,               \* IdOf[o]: the id of the image the viewer o is made for
    ObjOf,              \* ObjOf[s]: the viewer that opens the socket s
    ConnectsOnce        \* the user presses "connect" only when nothing is open

Place == (0..MaxRows-1) \X (0..MaxCols-1)
NameOf(s) == IdOf[ObjOf[s]]

ASSUME ViewersAssumption ==
    /\ MaxRows \in Nat /\ MaxCols \in Nat \ {0}
    /\ NoObj \notin Obj /\ NoSock \notin Sock
    /\ IdOf \in [Obj -> Place] /\ ObjOf \in [Sock -> Obj]
    /\ ConnectsOnce \in BOOLEAN

VARIABLES
    rows,      \* the number of rows (divRow elements) in the window
    shown,     \* the ids of the images in the window
    windows,   \* the ids that have a parameter window (app.js)
    showObjs,  \* showObjs[p]: the viewer of p, or NoObj
    entity,    \* entity[o]: the socket o talks through, or NoSock
    ready,     \* ready[s]: what the socket is for the program
    greeting,  \* greeting[s]: whether the server's greeting was sent, and seen
    asked,     \* the sockets on which ?SysSetMethod was sent
    owner, presence   \* the server's side (AliasRegistry)

page == <<rows, shown, windows>>
talk == <<greeting, asked>>
server == <<owner, presence>>
vars == <<rows, shown, windows, showObjs, entity, ready, greeting, asked, owner, presence>>

Server == INSTANCE AliasRegistry WITH Hdl <- Sock, Alias <- Place, NoCon <- NoSock

(* CLOSED: nothing more is received, also when the last bytes are still to   *)
(* be written.                                                               *)
Readiness == {"none", "CONNECTING", "OPEN", "CLOSING", "CLOSED"}
Live(s) == ready[s] \in {"CONNECTING", "OPEN"}

Init ==
    /\ rows = 0 /\ shown = {} /\ windows = {}
    /\ showObjs = [p \in Place |-> NoObj]
    /\ entity = [o \in Obj |-> NoSock]
    /\ ready = [s \in Sock |-> "none"]
    /\ greeting = [s \in Sock |-> "no"]
    /\ asked = {}
    /\ Server!Init

-----------------------------------------------------------------------------
(* entity.close() on these sockets: it ends those that are live, and the     *)
(* error an aborted one reports closes the same socket again.                *)
Closed(socks) == [s \in Sock |-> IF s \in socks /\ Live(s) THEN "CLOSING" ELSE ready[s]]

Viewers == {showObjs[p] : p \in Place} \ {NoObj}

(* Bugs that would show: a viewer without image is not stopped; sockets that *)
(* are still connecting are not.                                             *)
AllClosedShown == Closed({entity[showObjs[p]] : p \in {q \in shown : showObjs[q] # NoObj}})
AllClosedOpen == Closed({entity[o] : o \in {v \in Viewers : entity[v] # NoSock
                                                         /\ ready[entity[v]] = "OPEN"}})
AllClosed == Closed({entity[o] : o \in Viewers})

(* init() of these viewers: the entity is replaced, whatever it was.         *)
Opens(s, o) == ObjOf[s] = o /\ ready[s] = "none"
NewSocket(o) == CHOOSE s \in Sock : Opens(s, o)

Started(objs, states) ==
    /\ \A o \in objs : \E s \in Sock : Opens(s, o)   \* bound
    /\ entity' = [o \in Obj |-> IF o \in objs THEN NewSocket(o) ELSE entity[o]]
    /\ ready' = [s \in Sock |-> IF s \in {NewSocket(o) : o \in objs} THEN "CONNECTING"
                                                                     ELSE states[s]]

-----------------------------------------------------------------------------
(* A click on an image opens its parameter window; once made, it stays       *)
(* (closing only hides it), also when the image is gone.                     *)
ImgClick(p) ==
    /\ p \in shown
    /\ windows' = windows \cup {p}
    /\ UNCHANGED <<rows, shown, showObjs, entity, ready, talk, server>>

ViewerFor(p, o) ==
    \/ showObjs[p] = o
    \/ showObjs[p] = NoObj /\ IdOf[o] = p /\ \A s \in Sock : ObjOf[s] = o => ready[s] = "none"

MayConnect(p) == ConnectsOnce => \A s \in Sock : NameOf(s) = p => ~Live(s)

Connect(p) ==
    /\ p \in windows /\ MayConnect(p)
    /\ \E o \in Obj :
          /\ ViewerFor(p, o)
          /\ showObjs' = [showObjs EXCEPT ![p] = o]
          /\ Started({o}, ready)
    /\ UNCHANGED <<page, talk, server>>

Disconnect(p) ==
    /\ p \in windows /\ showObjs[p] # NoObj
    /\ ready' = Closed({entity[showObjs[p]]})
    /\ UNCHANGED <<page, showObjs, entity, talk, server>>

(* The end of both layout handlers: viewers without image are dropped from   *)
(* the map, the others open a new socket.                                    *)
KeptViewers(images) == {showObjs[p] : p \in images} \ {NoObj}

Relaid(images) ==
    /\ shown' = images
    /\ showObjs' = [p \in Place |-> IF p \in images THEN showObjs[p] ELSE NoObj]
    /\ Started(KeptViewers(images), AllClosed)
    /\ UNCHANGED <<windows, talk, server>>

(* A bug that would show: one row too many.                                  *)
DivideRowsTooMany(row) ==
    /\ rows' = row + 1
    /\ Relaid({<<i, 0>> : i \in 0..row-1})

DivideRows(row) ==
    /\ rows' = row
    /\ Relaid({<<i, 0>> : i \in 0..row-1})

DivideRow(i, col) ==
    /\ i < rows
    /\ Relaid({p \in shown : p[1] # i} \cup {<<i, j>> : j \in 0..col-1})
    /\ UNCHANGED rows

(* There is no such row: everything is closed before the handler fails.      *)
DivideMissingRow(i) ==
    /\ i >= rows
    /\ ready' = AllClosed
    /\ UNCHANGED <<page, showObjs, entity, talk, server>>

Layout ==
    \/ \E row \in 1..MaxRows : DivideRows(row)
    \/ \E i \in 0..MaxRows : DivideMissingRow(i) \/ \E col \in 1..MaxCols : DivideRow(i, col)

-----------------------------------------------------------------------------
(* The sockets' events. onopen and onclose only report to the parameter      *)
(* window. A socket whose handshake fails closes what is the entity by now.  *)
Opened(s) ==
    /\ ready[s] = "CONNECTING" /\ presence[s] # "new"
    /\ ready' = [ready EXCEPT ![s] = "OPEN"]
    /\ UNCHANGED <<page, showObjs, entity, talk, server>>

Failed(s) ==
    /\ ready[s] = "CONNECTING"
    /\ ready' = [Closed({entity[ObjOf[s]]}) EXCEPT ![s] = "CLOSED"]
    /\ UNCHANGED <<page, showObjs, entity, talk, server>>

(* The other side has closed, the connection is lost, or close() has been    *)
(* answered or timed out.                                                    *)
Ended(s) ==
    /\ ready[s] \in {"OPEN", "CLOSING"}
    /\ ready' = [ready EXCEPT ![s] = "CLOSED"]
    /\ UNCHANGED <<page, showObjs, entity, talk, server>>

(* Messages are delivered until the socket is closed, also after close().    *)
Receives(s) == ready[s] \in {"OPEN", "CLOSING"}

(* A bug that would show: a viewer sets its method only once in its life.    *)
OnGreetingOnce(s) ==
    /\ Receives(s) /\ greeting[s] = "sent"
    /\ greeting' = [greeting EXCEPT ![s] = "seen"]
    /\ asked' = IF \E t \in asked : ObjOf[t] = ObjOf[s] THEN asked ELSE asked \cup {s}
    /\ UNCHANGED <<page, showObjs, entity, ready, server>>

(* The answer goes out on the entity: dropped when that one has been closed, *)
(* an exception when it is still connecting, nothing when there is none.     *)
OnGreeting(s) ==
    /\ Receives(s) /\ greeting[s] = "sent"
    /\ greeting' = [greeting EXCEPT ![s] = "seen"]
    /\ asked' = asked \cup {e \in Sock : e = entity[ObjOf[s]] /\ ready[e] = "OPEN"}
    /\ UNCHANGED <<page, showObjs, entity, ready, server>>

(* A bug that would show: the viewer is given up without being closed.       *)
OnFrameForgets(s) ==
    /\ Receives(s) /\ greeting[s] # "no"
    /\ NameOf(s) \notin shown
    /\ entity' = [entity EXCEPT ![ObjOf[s]] = NoSock]
    /\ UNCHANGED <<page, showObjs, ready, talk, server>>

(* A frame for an image that is not there closes the viewer. (One for an     *)
(* image that is there is drawn.)                                            *)
OnFrame(s) ==
    /\ Receives(s) /\ greeting[s] # "no"
    /\ NameOf(s) \notin shown
    /\ ready' = Closed({entity[ObjOf[s]]})
    /\ entity' = [entity EXCEPT ![ObjOf[s]] = NoSock]
    /\ UNCHANGED <<page, showObjs, talk, server>>

-----------------------------------------------------------------------------
(* The server. A request that is on its way arrives even if the client has   *)
(* given up; the name is cleared, then claimed, or the connection is refused.*)
client == <<page, showObjs, entity, ready>>

Arrive(s) == ready[s] # "none" /\ Server!Arrive(s) /\ UNCHANGED <<client, talk>>

Admit(s) ==
    /\ Server!Claim(s, NameOf(s))
    /\ greeting' = [greeting EXCEPT ![s] = "sent"]
    /\ UNCHANGED <<client, asked>>

Refuse(s) ==
    /\ owner[NameOf(s)] # NoSock /\ greeting[s] = "no"
    /\ Server!Leave(s)
    /\ UNCHANGED <<client, talk>>

SeeClose(s) ==
    /\ ready[s] \in {"CLOSING", "CLOSED"}
    /\ Server!Leave(s)
    /\ UNCHANGED <<client, talk>>

Forget(p) == Server!Release(p) /\ UNCHANGED <<client, talk>>

-----------------------------------------------------------------------------
User == Layout \/ \E p \in Place : ImgClick(p) \/ Connect(p) \/ Disconnect(p)

Network ==
    \/ \E s \in Sock :
          \/ Opened(s) \/ Failed(s) \/ Ended(s) \/ OnGreeting(s) \/ OnFrame(s)
          \/ Arrive(s) \/ Admit(s) \/ Refuse(s) \/ SeeClose(s)
    \/ \E p \in Place : Forget(p)

Next == User \/ Network
Spec == Init /\ [][Next]_vars

=============================================================================
