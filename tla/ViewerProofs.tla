------------------------------ MODULE ViewerProofs ------------------------------
(* The viewers of the main window, for any grid and any number of viewers    *)
(* and sockets.                                                              *)
EXTENDS ViewerProperties, TLAPS

(* CHOOSE finds the socket that the bound in Started asks for.               *)
LEMMA NewSocketOpens ==
  ASSUME NEW o \in Obj, \E s \in Sock : Opens(s, o)
  PROVE  NewSocket(o) \in Sock /\ Opens(NewSocket(o), o)
BY DEF NewSocket

(* close() changes only what is live.                                        *)
LEMMA ClosedType ==
  ASSUME TypeOK, NEW socks
  PROVE  /\ Closed(socks) \in [Sock -> Readiness]
         /\ \A s \in Sock : Closed(socks)[s] \in {ready[s], "CLOSING"}
         /\ \A s \in Sock : Closed(socks)[s] \in {"none", "CONNECTING", "OPEN"}
                               => s \notin socks \/ ready[s] = "none"
         /\ \A s \in Sock : Closed(socks)[s] \in {"none", "CONNECTING", "OPEN"}
                               => Closed(socks)[s] = ready[s]
BY DEF TypeOK, Closed, Live, Readiness

(* init() gives each of these viewers a socket of its own.                   *)
LEMMA StartedType ==
  ASSUME TypeOK, NEW objs \in SUBSET Obj, NEW states \in [Sock -> Readiness],
         Started(objs, states)
  PROVE  /\ entity' \in [Obj -> Sock \cup {NoSock}]
         /\ ready' \in [Sock -> Readiness]
         /\ \A o \in objs : /\ NewSocket(o) \in Sock /\ Opens(NewSocket(o), o)
                            /\ entity'[o] = NewSocket(o)
         /\ \A o \in Obj \ objs : entity'[o] = entity[o]
         /\ \A s \in Sock : \/ \E o \in objs : s = NewSocket(o) /\ ready'[s] = "CONNECTING"
                            \/ ready'[s] = states[s]
<1>1. \A o \in objs : NewSocket(o) \in Sock /\ Opens(NewSocket(o), o)
  BY NewSocketOpens DEF Started
<1>2. \A s \in Sock : \/ \E o \in objs : s = NewSocket(o) /\ ready'[s] = "CONNECTING"
                      \/ ready'[s] = states[s]
  BY DEF Started
<1>3. ready' \in [Sock -> Readiness]
  BY <1>1 DEF Started, Readiness
<1>4. entity' \in [Obj -> Sock \cup {NoSock}]
  BY <1>1 DEF Started, TypeOK
<1> QED
  BY <1>1, <1>2, <1>3, <1>4 DEF Started

(* The server's side keeps its types, whatever it does with a connection.    *)
LEMMA ServerType ==
  ASSUME TypeOK, NEW s \in Sock, NEW p \in Place,
         Server!Arrive(s) \/ Server!Leave(s) \/ Server!Claim(s, p) \/ Server!Release(p)
  PROVE  /\ owner' \in [Place -> Sock \cup {NoSock}]
         /\ presence' \in [Sock -> {"new", "here", "gone"}]
BY DEF TypeOK, Server!Arrive, Server!Leave, Server!Claim, Server!Release

(* The name of a connection is the id of an image.                           *)
LEMMA NamePlace == ASSUME NEW s \in Sock PROVE NameOf(s) \in Place
BY ViewersAssumption DEF NameOf

(* The end of a layout handler keeps the types.                              *)
LEMMA RelaidType ==
  ASSUME TypeOK, NEW images \in SUBSET Place, Relaid(images), rows' \in 0..MaxRows
  PROVE  TypeOK'
<1>1. KeptViewers(images) \in SUBSET Obj
  BY DEF KeptViewers, TypeOK
<1>2. AllClosed \in [Sock -> Readiness]
  BY ClosedType DEF AllClosed
<1>3. /\ entity' \in [Obj -> Sock \cup {NoSock}]
      /\ ready' \in [Sock -> Readiness]
  BY <1>1, <1>2, StartedType DEF Relaid
<1> QED
  BY <1>3 DEF Relaid, TypeOK, talk, server

(* The images a layout handler makes are in the grid.                        *)
LEMMA LayoutImages ==
  ASSUME TypeOK
  PROVE  /\ \A row \in 1..MaxRows : {<<i, 0>> : i \in 0..row-1} \in SUBSET Place
         /\ \A i \in 0..MaxRows, col \in 1..MaxCols :
               i < rows => {p \in shown : p[1] # i} \cup {<<i, j>> : j \in 0..col-1} \in SUBSET Place
<1>1. /\ MaxRows \in Nat /\ MaxCols \in Nat \ {0}
      /\ rows \in 0..MaxRows /\ shown \in SUBSET Place
  BY ViewersAssumption DEF TypeOK
<1>2. ASSUME NEW row \in 1..MaxRows, NEW i \in 0..row-1
      PROVE  <<i, 0>> \in Place
  BY <1>1, <1>2 DEF Place
<1>3. ASSUME NEW i \in 0..MaxRows, NEW col \in 1..MaxCols, i < rows, NEW j \in 0..col-1
      PROVE  <<i, j>> \in Place
  BY <1>1, <1>3 DEF Place
<1> QED
  BY <1>1, <1>2, <1>3

(* Every variable keeps its type, whatever the user does: in particular, what*)
(* init() makes is a socket and a viewer in the map is a viewer.             *)
THEOREM TypeCorrect == Spec => []TypeOK
<1>1. Init => TypeOK
  BY ViewersAssumption DEF Init, TypeOK, Readiness, Server!Init
<1>2. TypeOK /\ [Next]_vars => TypeOK'
  <2> SUFFICES ASSUME TypeOK, [Next]_vars PROVE TypeOK'
    OBVIOUS
  <2>1. CASE UNCHANGED vars
    BY <2>1 DEF TypeOK, vars
  <2>2. CASE Layout
    <3>1. ASSUME NEW row \in 1..MaxRows, DivideRows(row) PROVE TypeOK'
      <4>1. rows' \in 0..MaxRows
        BY <3>1, ViewersAssumption DEF DivideRows
      <4> QED
        BY <3>1, <4>1, LayoutImages, RelaidType DEF DivideRows
    <3>2. ASSUME NEW i \in 0..MaxRows, NEW col \in 1..MaxCols, DivideRow(i, col) PROVE TypeOK'
      <4>1. rows' \in 0..MaxRows
        BY <3>2 DEF DivideRow, TypeOK
      <4> QED
        BY <3>2, <4>1, LayoutImages, RelaidType DEF DivideRow
    <3>3. ASSUME NEW i \in 0..MaxRows, DivideMissingRow(i) PROVE TypeOK'
      BY <3>3, ClosedType DEF DivideMissingRow, AllClosed, TypeOK, page, talk, server
    <3> QED
      BY <2>2, <3>1, <3>2, <3>3 DEF Layout
  <2>3. ASSUME NEW p \in Place, ImgClick(p) PROVE TypeOK'
    BY <2>3 DEF ImgClick, TypeOK, talk, server
  <2>4. ASSUME NEW p \in Place, Connect(p) PROVE TypeOK'
    <3>1. PICK o \in Obj : /\ ViewerFor(p, o)
                           /\ showObjs' = [showObjs EXCEPT ![p] = o]
                           /\ Started({o}, ready)
      BY <2>4 DEF Connect
    <3>2. entity' \in [Obj -> Sock \cup {NoSock}] /\ ready' \in [Sock -> Readiness]
      BY <3>1, StartedType DEF TypeOK
    <3> QED
      BY <2>4, <3>1, <3>2 DEF Connect, TypeOK, page, talk, server
  <2>5. ASSUME NEW p \in Place, Disconnect(p) PROVE TypeOK'
    BY <2>5, ClosedType DEF Disconnect, TypeOK, page, talk, server
  <2>6. ASSUME NEW s \in Sock, Opened(s) \/ Ended(s) PROVE TypeOK'
    BY <2>6 DEF Opened, Ended, TypeOK, Readiness, page, talk, server
  <2>7. ASSUME NEW s \in Sock, Failed(s) PROVE TypeOK'
    BY <2>7, ClosedType DEF Failed, TypeOK, Readiness, page, talk, server
  <2>8. ASSUME NEW s \in Sock, OnGreeting(s) PROVE TypeOK'
    BY <2>8 DEF OnGreeting, TypeOK, page, server
  <2>9. ASSUME NEW s \in Sock, OnFrame(s) PROVE TypeOK'
    BY <2>9, ClosedType DEF OnFrame, TypeOK, page, talk, server
  <2>10. ASSUME NEW s \in Sock, Arrive(s) \/ Refuse(s) \/ SeeClose(s) PROVE TypeOK'
    <3>1. /\ owner' \in [Place -> Sock \cup {NoSock}]
          /\ presence' \in [Sock -> {"new", "here", "gone"}]
      BY <2>10, ServerType, NamePlace DEF Arrive, Refuse, SeeClose
    <3> QED
      BY <2>10, <3>1 DEF Arrive, Refuse, SeeClose, TypeOK, client, page, talk
  <2>11. ASSUME NEW s \in Sock, Admit(s) PROVE TypeOK'
    <3>1. /\ owner' \in [Place -> Sock \cup {NoSock}]
          /\ presence' \in [Sock -> {"new", "here", "gone"}]
      BY <2>11, ServerType, NamePlace DEF Admit
    <3> QED
      BY <2>11, <3>1 DEF Admit, TypeOK, client, page
  <2>12. ASSUME NEW p \in Place, Forget(p) PROVE TypeOK'
    <3>1. /\ owner' \in [Place -> Sock \cup {NoSock}]
          /\ presence' \in [Sock -> {"new", "here", "gone"}]
      BY <2>12 DEF Forget, TypeOK, Server!Release
    <3> QED
      BY <2>12, <3>1 DEF Forget, TypeOK, client, page, talk
  <2> QED
    BY <2>1, <2>2, <2>3, <2>4, <2>5, <2>6, <2>7, <2>8, <2>9, <2>10, <2>11, <2>12
    DEF Next, User, Network
<1> QED
  BY <1>1, <1>2, PTL DEF Spec

-----------------------------------------------------------------------------
(* NoStray is inductive together with: viewers hold their own sockets and    *)
(* are found under their own ids, and a greeting is seen only after the      *)
(* socket has opened.                                                        *)
VInv ==
    /\ TypeOK
    /\ NoStray
    /\ GreetingAnswered
    /\ \A o \in Obj : entity[o] # NoSock => ObjOf[entity[o]] = o
    /\ \A p \in Place : showObjs[p] # NoObj => IdOf[showObjs[p]] = p
    /\ \A s \in Sock : ready[s] \in {"none", "CONNECTING"} => greeting[s] # "seen"

(* What a step does that starts nothing: live sockets stay as they are or    *)
(* end, and entity changes only where nothing stays live.                    *)
LEMMA EndingStep ==
  ASSUME VInv, TypeOK', UNCHANGED <<showObjs, greeting, asked>>,
         \A s \in Sock : ready'[s] \in {"CONNECTING", "OPEN"} =>
            /\ Live(s)
            /\ entity'[ObjOf[s]] = entity[ObjOf[s]]
            /\ ready'[s] = "CONNECTING" => ready[s] = "CONNECTING",
         \A s \in Sock : ready'[s] = "none" => ready[s] = "none",
         \A o \in Obj : entity'[o] \in {entity[o], NoSock}
  PROVE  VInv'
<1>1. NoStray'
  BY DEF VInv, NoStray, Live, NameOf
<1>2. GreetingAnswered'
  BY DEF VInv, GreetingAnswered, Live
<1>3. \A o \in Obj : entity'[o] # NoSock => ObjOf[entity'[o]] = o
  BY DEF VInv
<1>4. \A s \in Sock : ready'[s] \in {"none", "CONNECTING"} => greeting'[s] # "seen"
  BY DEF VInv
<1> QED
  BY <1>1, <1>2, <1>3, <1>4 DEF VInv

(* What a step does that starts viewers: none of their sockets stays live    *)
(* beside the new one, and every viewer that keeps a live socket, or gets    *)
(* one, is in the map afterwards.                                            *)
LEMMA StartingStep ==
  ASSUME VInv, TypeOK', UNCHANGED <<greeting, asked>>,
         NEW objs \in SUBSET Obj, NEW states \in [Sock -> Readiness], Started(objs, states),
         \A s \in Sock : states[s] \in {"none", "CONNECTING", "OPEN"} => states[s] = ready[s],
         \A s \in Sock : states[s] \in {"CONNECTING", "OPEN"} =>
            ObjOf[s] \notin objs /\ showObjs'[NameOf(s)] = ObjOf[s],
         \A o \in objs : showObjs'[IdOf[o]] = o,
         \A p \in Place : showObjs'[p] # NoObj => IdOf[showObjs'[p]] = p
  PROVE  VInv'
<1>1. /\ \A o \in objs : /\ NewSocket(o) \in Sock /\ Opens(NewSocket(o), o)
                         /\ entity'[o] = NewSocket(o)
      /\ \A o \in Obj \ objs : entity'[o] = entity[o]
      /\ \A s \in Sock : \/ \E o \in objs : s = NewSocket(o) /\ ready'[s] = "CONNECTING"
                         \/ ready'[s] = states[s]
  BY StartedType DEF VInv
<1>2. ASSUME NEW s \in Sock, ready'[s] \in {"CONNECTING", "OPEN"}
      PROVE  entity'[ObjOf[s]] = s /\ showObjs'[NameOf(s)] = ObjOf[s]
  <2>1. CASE \E o \in objs : s = NewSocket(o) /\ ready'[s] = "CONNECTING"
    BY <1>1, <2>1 DEF Opens, NameOf
  <2>2. CASE ready'[s] = states[s]
    <3>1. Live(s) /\ ObjOf[s] \in Obj \ objs
      BY <1>2, <2>2, ViewersAssumption DEF Live
    <3> QED
      BY <1>1, <1>2, <2>2, <3>1 DEF VInv, NoStray
  <2> QED
    BY <1>1, <2>1, <2>2
<1>3. NoStray'
  BY <1>2 DEF NoStray, Live, NameOf
<1>4. ASSUME NEW s \in Sock, ready'[s] \in {"none", "CONNECTING"}
      PROVE  greeting'[s] # "seen"
  <2>1. ready[s] \in {"none", "CONNECTING"}
    BY <1>1, <1>4 DEF Opens
  <2> QED
    BY <2>1 DEF VInv
<1>5. ASSUME NEW s \in Sock, greeting'[s] = "seen", ready'[s] \in {"CONNECTING", "OPEN"}
      PROVE  s \in asked'
  <2>1. ready'[s] = states[s] /\ Live(s)
    BY <1>1, <1>4, <1>5 DEF Live
  <2> QED
    BY <1>5, <2>1 DEF VInv, GreetingAnswered
<1>6. GreetingAnswered'
  BY <1>5 DEF GreetingAnswered, Live
<1>7. \A o \in Obj : entity'[o] # NoSock => ObjOf[entity'[o]] = o
  BY <1>1 DEF VInv, Opens
<1> QED
  BY <1>3, <1>4, <1>6, <1>7 DEF VInv

(* Before a layout handler opens anything, it has ended everything.          *)
LEMMA AllEnded ==
  ASSUME VInv
  PROVE  /\ AllClosed \in [Sock -> Readiness]
         /\ \A s \in Sock : AllClosed[s] \notin {"CONNECTING", "OPEN"}
         /\ \A s \in Sock : AllClosed[s] = "none" => ready[s] = "none"
<1>1. ASSUME NEW s \in Sock, Live(s)
      PROVE  s \in {entity[o] : o \in Viewers}
  <2>1. ObjOf[s] \in Viewers
    BY <1>1, ViewersAssumption, NamePlace DEF VInv, NoStray, Viewers
  <2> QED
    BY <1>1, <2>1 DEF VInv, NoStray
<1> QED
  BY <1>1, ClosedType DEF VInv, AllClosed, Closed, Live

(* The end of a layout handler: the kept viewers start again.                *)
LEMMA RelaidStep ==
  ASSUME VInv, TypeOK', NEW images \in SUBSET Place, Relaid(images)
  PROVE  VInv'
<1>1. KeptViewers(images) \in SUBSET Obj
  BY DEF KeptViewers, VInv, TypeOK
<1>2. \A o \in KeptViewers(images) : showObjs'[IdOf[o]] = o
  BY DEF KeptViewers, Relaid, VInv
<1>3. \A p \in Place : showObjs'[p] # NoObj => IdOf[showObjs'[p]] = p
  BY DEF Relaid, VInv
<1>4. \A s \in Sock : AllClosed[s] \in {"none", "CONNECTING", "OPEN"} => AllClosed[s] = ready[s]
  BY AllEnded
<1> QED
  BY <1>1, <1>2, <1>3, <1>4, AllEnded, StartingStep DEF Relaid, talk

(* Every step keeps the invariant; that connect starts nothing beside a live *)
(* socket is where ConnectsOnce is needed.                                   *)
LEMMA VInvStep ==
  ASSUME ConnectsOnce, VInv, TypeOK', [Next]_vars
  PROVE  VInv'
<1>1. CASE UNCHANGED vars
  BY <1>1, EndingStep DEF vars, Live, VInv
<1>2. CASE Layout
  <2>1. ASSUME NEW row \in 1..MaxRows, DivideRows(row) PROVE VInv'
    BY <2>1, LayoutImages, RelaidStep DEF DivideRows, VInv
  <2>2. ASSUME NEW i \in 0..MaxRows, NEW col \in 1..MaxCols, DivideRow(i, col) PROVE VInv'
    BY <2>2, LayoutImages, RelaidStep DEF DivideRow, VInv
  <2>3. ASSUME NEW i \in 0..MaxRows, DivideMissingRow(i) PROVE VInv'
    BY <2>3, AllEnded, EndingStep DEF DivideMissingRow, talk
  <2> QED
    BY <1>2, <2>1, <2>2, <2>3 DEF Layout
<1>3. ASSUME NEW p \in Place, ImgClick(p) PROVE VInv'
  BY <1>3, EndingStep DEF ImgClick, talk, Live, VInv
<1>4. ASSUME NEW p \in Place, Connect(p) PROVE VInv'
  <2>1. PICK o \in Obj : /\ ViewerFor(p, o)
                         /\ showObjs' = [showObjs EXCEPT ![p] = o]
                         /\ Started({o}, ready)
    BY <1>4 DEF Connect
  <2>2. IdOf[o] = p
    BY <2>1, ViewersAssumption DEF ViewerFor, VInv
  <2>3. \A s \in Sock : NameOf(s) = p => ~Live(s)
    BY <1>4 DEF Connect, MayConnect
  <2>4. \A s \in Sock : Live(s) => ObjOf[s] \notin {o} /\ showObjs'[NameOf(s)] = ObjOf[s]
    BY <2>1, <2>2, <2>3, NamePlace DEF VInv, TypeOK, NoStray, NameOf
  <2>5. \A q \in Place : showObjs'[q] # NoObj => IdOf[showObjs'[q]] = q
    BY <2>1, <2>2 DEF VInv, TypeOK
  <2>6. showObjs'[p] = o
    BY <2>1 DEF VInv, TypeOK
  <2>7. ready \in [Sock -> Readiness]
    BY DEF VInv, TypeOK
  <2> QED
    BY <1>4, <2>1, <2>2, <2>4, <2>5, <2>6, <2>7, StartingStep DEF Connect, Live, talk
<1>5. ASSUME NEW p \in Place, Disconnect(p) PROVE VInv'
  BY <1>5, ClosedType, EndingStep DEF Disconnect, VInv, Live, talk
<1>6. ASSUME NEW s \in Sock, Opened(s) PROVE VInv'
  <2>1. \A t \in Sock : ready'[t] \in {"CONNECTING", "OPEN"} => Live(t)
    BY <1>6 DEF Opened, VInv, TypeOK, Live
  <2>2. \A t \in Sock : ready'[t] \in {"none", "CONNECTING"} => ready[t] = ready'[t]
    BY <1>6 DEF Opened, VInv, TypeOK
  <2> QED
    BY <1>6, <2>1, <2>2, EndingStep DEF Opened, talk, VInv
<1>7. ASSUME NEW s \in Sock, Failed(s) PROVE VInv'
  <2>1. \A t \in Sock : ready'[t] \in {"none", "CONNECTING", "OPEN"} => ready[t] = ready'[t]
    BY <1>7, ClosedType DEF Failed, VInv, TypeOK
  <2> QED
    BY <1>7, <2>1, EndingStep DEF Failed, talk, VInv, Live
<1>8. ASSUME NEW s \in Sock, Ended(s) PROVE VInv'
  <2>1. \A t \in Sock : ready'[t] \in {"none", "CONNECTING", "OPEN"} => ready[t] = ready'[t]
    BY <1>8 DEF Ended, VInv, TypeOK
  <2> QED
    BY <1>8, <2>1, EndingStep DEF Ended, talk, VInv, Live
<1>9. ASSUME NEW s \in Sock, OnGreeting(s) PROVE VInv'
  <2>1. ASSUME NEW t \in Sock, greeting'[t] = "seen", Live(t) PROVE t \in asked'
    <3>1. CASE t = s
      BY <1>9, <2>1, <3>1 DEF OnGreeting, Receives, Live, VInv, NoStray
    <3>2. CASE t # s
      BY <1>9, <2>1, <3>2 DEF OnGreeting, VInv, TypeOK, GreetingAnswered
    <3> QED
      BY <3>1, <3>2
  <2>2. GreetingAnswered'
    BY <1>9, <2>1 DEF OnGreeting, GreetingAnswered, Live
  <2>3. \A t \in Sock : ready'[t] \in {"none", "CONNECTING"} => greeting'[t] # "seen"
    BY <1>9 DEF OnGreeting, Receives, VInv, TypeOK
  <2> QED
    BY <1>9, <2>2, <2>3 DEF OnGreeting, VInv, NoStray, Live
<1>10. ASSUME NEW s \in Sock, OnFrame(s) PROVE VInv'
  <2>1. \A t \in Sock : ready'[t] \in {"none", "CONNECTING", "OPEN"} => ready[t] = ready'[t]
    BY <1>10, ClosedType DEF OnFrame, VInv
  <2>2. \A t \in Sock : ready'[t] \in {"CONNECTING", "OPEN"} => ObjOf[t] # ObjOf[s]
    BY <1>10, ClosedType DEF OnFrame, VInv, NoStray, Live
  <2>3. \A o \in Obj : entity'[o] = IF o = ObjOf[s] THEN NoSock ELSE entity[o]
    BY <1>10 DEF OnFrame, VInv, TypeOK
  <2> QED
    BY <1>10, <2>1, <2>2, <2>3, ViewersAssumption, EndingStep DEF OnFrame, talk, Live
<1>11. ASSUME NEW s \in Sock, Arrive(s) \/ Refuse(s) \/ SeeClose(s) PROVE VInv'
  BY <1>11, EndingStep DEF Arrive, Refuse, SeeClose, client, talk, Live, VInv
<1>12. ASSUME NEW s \in Sock, Admit(s) PROVE VInv'
  BY <1>12 DEF Admit, client, Live, VInv, TypeOK, NoStray, GreetingAnswered
<1>13. ASSUME NEW p \in Place, Forget(p) PROVE VInv'
  BY <1>13, EndingStep DEF Forget, client, talk, Live, VInv
<1> QED
  BY <1>1, <1>2, <1>3, <1>4, <1>5, <1>6, <1>7, <1>8, <1>9, <1>10, <1>11, <1>12, <1>13
  DEF Next, User, Network

(* The invariant holds as long as connect is pressed when nothing is open.   *)
THEOREM Invariant == ASSUME ConnectsOnce PROVE Spec => []VInv
<1>1. Init => VInv
  BY ViewersAssumption DEF Init, VInv, TypeOK, Readiness, Server!Init, NoStray, GreetingAnswered, Live
<1>2. VInv /\ TypeOK' /\ [Next]_vars => VInv'
  BY VInvStep
<1> QED
  BY <1>1, <1>2, TypeCorrect, PTL DEF Spec

(* Every live socket can be reached from the map of viewers.                 *)
THEOREM NothingStrays == ASSUME ConnectsOnce PROVE Spec => []NoStray
BY Invariant, PTL DEF VInv

(* A greeting is answered on the connection it came from, while that is open.*)
THEOREM EveryGreetingAnswered == ASSUME ConnectsOnce PROVE Spec => []GreetingAnswered
BY Invariant, PTL DEF VInv

-----------------------------------------------------------------------------
(* Whatever was live before a change of the layout is not afterwards.        *)
LEMMA LayoutStops ==
  ASSUME VInv, Layout, NEW s \in Sock, Live(s)
  PROVE  ready'[s] \notin {"CONNECTING", "OPEN"}
<1>1. ASSUME NEW images \in SUBSET Place, Relaid(images)
      PROVE  ready'[s] \notin {"CONNECTING", "OPEN"}
  <2>1. KeptViewers(images) \in SUBSET Obj
    BY DEF KeptViewers, VInv, TypeOK
  <2>2. \A o \in KeptViewers(images) : NewSocket(o) # s
    BY <1>1, <2>1, AllEnded, StartedType DEF Relaid, VInv, Opens, Live
  <2> QED
    BY <1>1, <2>1, <2>2, AllEnded, StartedType DEF Relaid, VInv
<1>2. ASSUME NEW row \in 1..MaxRows, DivideRows(row)
      PROVE  ready'[s] \notin {"CONNECTING", "OPEN"}
  BY <1>1, <1>2, LayoutImages DEF DivideRows, VInv
<1>3. ASSUME NEW i \in 0..MaxRows, NEW col \in 1..MaxCols, DivideRow(i, col)
      PROVE  ready'[s] \notin {"CONNECTING", "OPEN"}
  BY <1>1, <1>3, LayoutImages DEF DivideRow, VInv
<1>4. ASSUME NEW i \in 0..MaxRows, DivideMissingRow(i)
      PROVE  ready'[s] \notin {"CONNECTING", "OPEN"}
  BY <1>4, AllEnded DEF DivideMissingRow
<1> QED
  BY <1>2, <1>3, <1>4 DEF Layout

(* Disconnect finds the one live socket there may be under its id.           *)
LEMMA DisconnectStops ==
  ASSUME VInv, NEW s \in Sock, Live(s), Disconnect(NameOf(s))
  PROVE  ready'[s] \notin {"CONNECTING", "OPEN"}
<1>1. entity[showObjs[NameOf(s)]] = s
  BY DEF VInv, NoStray
<1> QED
  BY <1>1, ClosedType DEF Disconnect, VInv, Live

(* "disconnect" and a change of the layout leave nothing open behind.        *)
THEOREM EverythingStops == ASSUME ConnectsOnce PROVE Spec => StopsAll
<1> DEFINE Stops == \A s \in Sock : Live(s) /\ (Layout \/ Disconnect(NameOf(s)))
                                       => ready'[s] \notin {"CONNECTING", "OPEN"}
<1>1. VInv /\ [Next]_vars => [Stops]_vars
  BY LayoutStops, DisconnectStops
<1>2. StopsAll <=> [][Stops]_vars
  BY DEF StopsAll
<1> HIDE DEF Stops
<1> QED
  BY <1>1, <1>2, Invariant, PTL DEF Spec

(* onerror finds an entity: the socket that failed.                          *)
THEOREM ErrorsFindEntity == ASSUME ConnectsOnce PROVE Spec => ErrorFindsEntity
<1> DEFINE Finds == \A s \in Sock : Failed(s) => entity[ObjOf[s]] # NoSock
<1>1. VInv /\ [Next]_vars => [Finds]_vars
  BY ViewersAssumption DEF VInv, NoStray, Failed, Live
<1>2. ErrorFindsEntity <=> [][Finds]_vars
  BY DEF ErrorFindsEntity
<1> HIDE DEF Finds
<1> QED
  BY <1>1, <1>2, Invariant, PTL DEF Spec

=============================================================================
