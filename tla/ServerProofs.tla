----------------------------- MODULE ServerProofs -----------------------------
(* The inductive invariant IInv of the server, and what follows from it, for *)
(* any number of connections, names, commands and frames.                    *)
(* First the types, given the two parts of IInv that say when a lookup finds *)
(* something: one lemma per thread, in each one step per action and one per  *)
(* component. Then the rest. A worker only ever marks objects whose          *)
(* connection is past being open; the maintenance thread never touches the   *)
(* maps; so what remains are the handlers of the network thread, and of      *)
(* these only the ones of on_open.                                           *)
EXTENDS ServerInvariant, SequenceTheorems, TLAPS

(* The placeholder for no connection in particular is a connection.          *)
LEMMA AnyHdlType == AnyHdl \in Hdl
  BY NoConAssumption DEF AnyHdl

(* The initial state is typed.                                               *)
LEMMA TypeInit == Init => TypeOK
<1> SUFFICES ASSUME Init PROVE TypeOK
  OBVIOUS
<1>1. TransportTypeOK
  BY DEF Init, TransportTypeOK, TransportInit, ConnState
<1>2. MetaConnectionTypeOK
  BY DEF Init, MetaConnectionTypeOK, MetaConnectionInit, Thread
<1>3. ControlModuleTypeOK
  BY AnyHdlType, AliasAssumption DEF Init, ControlModuleTypeOK, ControlModuleInit
<1>4. ServerTypeOK
  BY AnyHdlType DEF Init, ServerTypeOK, NetPC, MethodText
<1> QED
  BY <1>1, <1>2, <1>3, <1>4 DEF TypeOK

(* A step that leaves a component's variables alone keeps their types: the   *)
(* connections,                                                              *)
LEMMA TransportSame == TransportTypeOK /\ UNCHANGED tvars => TransportTypeOK'
  BY DEF TransportTypeOK, tvars

(* the objects,                                                              *)
LEMMA MetaConnectionSame == MetaConnectionTypeOK /\ UNCHANGED mvars => MetaConnectionTypeOK'
  BY DEF MetaConnectionTypeOK, mvars, settings, worker

(* the maps and the maintenance thread,                                      *)
LEMMA ControlModuleSame == ControlModuleTypeOK /\ UNCHANGED controlvars => ControlModuleTypeOK'
  BY DEF ControlModuleTypeOK, controlvars, registry, cvars, scan, namevars

(* and the handlers and the clients.                                         *)
LEMMA ServerSame == ServerTypeOK /\ UNCHANGED <<nvars, clients>> => ServerTypeOK'
  BY DEF ServerTypeOK, nvars, request, clients

(* What SentBinary sends is a message.                                       *)
LEMMA FrameMsgType == ASSUME NEW s \in Hdl, NEW k \in Nat PROVE FrameMsg(s, k) \in Msg
  BY DEF FrameMsg, Msg, Kind

(* What the server says of its own is a message.                             *)
LEMMA NoticeType ==
  ASSUME NEW kind \in {"got", "ok", "undef", "warn"}, NEW h \in Hdl PROVE Notice(kind, h) \in Msg
  BY DEF Notice, Msg, Kind

(* send() appends a message or drops it.                                     *)
LEMMA SentType ==
  ASSUME outbox \in [Hdl -> Seq(Msg)], NEW h, NEW msg \in Msg, Sent(h, msg)
  PROVE  outbox' \in [Hdl -> Seq(Msg)]
<1>1. CASE h \in Hdl
  BY <1>1 DEF Sent
<1>2. CASE h \notin Hdl
  BY <1>2 DEF Sent
<1> QED
  BY <1>1, <1>2

(* SendTo sends, or marks the object closed.                                 *)
LEMMA SendToType ==
  ASSUME outbox \in [Hdl -> Seq(Msg)], m_status \in [Hdl -> {"OPEN", "CLOSE"}],
         NEW h, NEW msg \in Msg, SendTo(h, msg)
  PROVE  /\ outbox' \in [Hdl -> Seq(Msg)]
         /\ m_status' \in [Hdl -> {"OPEN", "CLOSE"}]
  BY SentType DEF SendTo

(* addMetaCon appends an object to the links.                                *)
LEMMA addMetaConType ==
  ASSUME m_toMetaCon \in [Hdl -> Seq(Hdl)], NEW h \in Hdl, NEW to \in Hdl, addMetaCon(h, to)
  PROVE  m_toMetaCon' \in [Hdl -> Seq(Hdl)]
  BY DEF addMetaCon

(* The destructors change the life of an object and drop its links.          *)
LEMMA DestroyOrphanType ==
  ASSUME MetaConnectionTypeOK, DestroyOrphan
  PROVE  MetaConnectionTypeOK'
<1>1. PICK o \in Hdl : StopWorker(o) \/ JoinWorker(o)
  BY DEF DestroyOrphan, Orphans
<1>2. life' \in [Hdl -> {"none", "live", "stopping", "freed"}] /\ m_toMetaCon' \in [Hdl -> Seq(Hdl)]
  <2>1. CASE StopWorker(o)
    BY <2>1 DEF StopWorker, MetaConnectionTypeOK
  <2>2. CASE JoinWorker(o)
    BY <2>2 DEF JoinWorker, MetaConnectionTypeOK
  <2> QED
    BY <1>1, <2>1, <2>2
<1> QED
  BY <1>2 DEF DestroyOrphan, MetaConnectionTypeOK, settings, worker

(* A worker keeps the types.                                                 *)
LEMMA TypeWorker ==
  ASSUME TypeOK, NEW h \in Hdl, Worker(h), UNCHANGED <<controlvars, nvars, clients>>
  PROVE  TypeOK'
<1>1. ControlModuleTypeOK' /\ ServerTypeOK'
  BY ControlModuleSame, ServerSame DEF TypeOK
<1>2. CASE getFrame(h)
  <2>1. TransportTypeOK'
    BY <1>2, TransportSame DEF getFrame, TypeOK
  <2>2. MetaConnectionTypeOK'
    BY <1>2 DEF getFrame, TypeOK, MetaConnectionTypeOK
  <2> QED
    BY <1>1, <2>1, <2>2 DEF TypeOK
<1>3. CASE ForwardFrame(h)
  <2>1. TransportTypeOK'
    BY <1>3, TransportSame DEF ForwardFrame, TypeOK
  <2>2. MetaConnectionTypeOK'
    BY <1>3 DEF ForwardFrame, Locked, TypeOK, MetaConnectionTypeOK, settings, Thread
  <2> QED
    BY <1>1, <2>1, <2>2 DEF TypeOK
<1>4. CASE SentBinary(h)
  <2>1. FrameMsg(h, w_frame[h]) \in Msg
    BY FrameMsgType DEF TypeOK, MetaConnectionTypeOK
  <2>2. /\ outbox' \in [Hdl -> Seq(Msg)]
        /\ m_status' \in [Hdl -> {"OPEN", "CLOSE"}]
    BY <1>4, <2>1, SendToType DEF SentBinary, TypeOK, TransportTypeOK, MetaConnectionTypeOK
  <2>3. TransportTypeOK'
    BY <1>4, <2>2 DEF SentBinary, TypeOK, TransportTypeOK
  <2>4. MetaConnectionTypeOK'
    <3>1. CASE w_i[h] < Len(m_toMetaCon[h])
      <4>1. w_i[h] + 1 \in Nat
        BY DEF TypeOK, MetaConnectionTypeOK
      <4>2. w_i' \in [Hdl -> Nat]
        BY <1>4, <3>1, <4>1 DEF SentBinary, TypeOK, MetaConnectionTypeOK
      <4> QED
        BY <1>4, <2>2, <3>1, <4>2 DEF SentBinary, TypeOK, MetaConnectionTypeOK, settings
    <3>2. CASE ~(w_i[h] < Len(m_toMetaCon[h]))
      BY <1>4, <2>2, <3>2 DEF SentBinary, Unlocked, TypeOK, MetaConnectionTypeOK, settings
    <3> QED
      BY <3>1, <3>2
  <2> QED
    BY <1>1, <2>3, <2>4 DEF TypeOK
<1>5. CASE SentBinaryRelocks(h)
  <2>1. TransportTypeOK'
    BY <1>5, TransportSame DEF SentBinaryRelocks, TypeOK
  <2>2. MetaConnectionTypeOK'
    BY <1>5 DEF SentBinaryRelocks, TypeOK, MetaConnectionTypeOK, settings
  <2> QED
    BY <1>1, <2>1, <2>2 DEF TypeOK
<1>6. CASE EndWorker(h)
  <2>1. TransportTypeOK'
    BY <1>6, TransportSame DEF EndWorker, TypeOK
  <2>2. MetaConnectionTypeOK'
    BY <1>6 DEF EndWorker, TypeOK, MetaConnectionTypeOK, settings
  <2> QED
    BY <1>1, <2>1, <2>2 DEF TypeOK
<1> QED
  BY <1>2, <1>3, <1>4, <1>5, <1>6 DEF Worker

(* The maintenance thread keeps the types. It links an object to what a name *)
(* maps to: an object only because the name is known (NameInv).              *)
LEMMA TypeMaintain ==
  ASSUME TypeOK, NameInv, Maintain, UNCHANGED <<nvars, clients>>
  PROVE  TypeOK'
<1>1. ServerTypeOK'
  BY ServerSame DEF TypeOK
<1>2. CASE CtlAcquire
  <2>1. TransportTypeOK'
    BY <1>2, TransportSame DEF CtlAcquire, TypeOK
  <2>2. MetaConnectionTypeOK'
    BY <1>2, MetaConnectionSame DEF CtlAcquire, TypeOK
  <2>3. ControlModuleTypeOK'
    BY <1>2 DEF CtlAcquire, At, Goto, registry, scan, namevars, TypeOK, ControlModuleTypeOK
  <2> QED
    BY <1>1, <2>1, <2>2, <2>3 DEF TypeOK
<1>3. CASE CtlRelease
  <2>1. TransportTypeOK'
    BY <1>3, TransportSame DEF CtlRelease, TypeOK
  <2>2. MetaConnectionTypeOK'
    BY <1>3, MetaConnectionSame DEF CtlRelease, TypeOK
  <2>3. ControlModuleTypeOK'
    BY <1>3 DEF CtlRelease, At, Goto, registry, scan, namevars, TypeOK, ControlModuleTypeOK
  <2> QED
    BY <1>1, <2>1, <2>2, <2>3 DEF TypeOK
<1>4. ASSUME NEW h \in Hdl, CtlVisit(h) PROVE TypeOK'
  <2>1. TransportTypeOK'
    BY <1>4, TransportSame DEF CtlVisit, TypeOK
  <2>2. MetaConnectionTypeOK'
    BY <1>4, MetaConnectionSame DEF CtlVisit, TypeOK
  <2>3. ControlModuleTypeOK'
    BY <1>4 DEF CtlVisit, At, Goto, registry, scan, namevars, TypeOK, ControlModuleTypeOK
  <2> QED
    BY <1>1, <2>1, <2>2, <2>3 DEF TypeOK
<1>5. CASE CtlGetMetaCon
  <2>1. TransportTypeOK'
    BY <1>5, TransportSame DEF CtlGetMetaCon, TypeOK
  <2>2. MetaConnectionTypeOK'
    BY <1>5, MetaConnectionSame DEF CtlGetMetaCon, TypeOK
  <2>3. ControlModuleTypeOK'
    BY <1>5 DEF CtlGetMetaCon, At, Goto, registry, namevars, MetaConnectionTypeOK, TypeOK,
        ControlModuleTypeOK
  <2> QED
    BY <1>1, <2>1, <2>2, <2>3 DEF TypeOK
<1>6. CASE CtlScan
  <2>1. TransportTypeOK'
    BY <1>6, TransportSame DEF CtlScan, TypeOK
  <2>2. MetaConnectionTypeOK'
    BY <1>6, MetaConnectionSame DEF CtlScan, TypeOK
  <2>3. ControlModuleTypeOK'
    BY <1>6, AliasAssumption
    DEF CtlScan, At, Goto, NextLink, m_alias, registry, TypeOK, ControlModuleTypeOK
  <2> QED
    BY <1>1, <2>1, <2>2, <2>3 DEF TypeOK
<1>7. CASE CtlSuccessor
  <2>1. TransportTypeOK'
    BY <1>7, TransportSame DEF CtlSuccessor, TypeOK
  <2>2. MetaConnectionTypeOK'
    BY <1>7, MetaConnectionSame DEF CtlSuccessor, TypeOK
  <2>3. ControlModuleTypeOK'
    BY <1>7 DEF CtlSuccessor, At, Goto, NextLink, registry, namevars, TypeOK, ControlModuleTypeOK
  <2> QED
    BY <1>1, <2>1, <2>2, <2>3 DEF TypeOK
<1>8. CASE CtlReplaceMetaCon
  <2>1. TransportTypeOK'
    BY <1>8, TransportSame DEF CtlReplaceMetaCon, TypeOK
  <2>2. MetaConnectionTypeOK'
    BY <1>8 DEF CtlReplaceMetaCon, Locked, settings, worker, Thread, TypeOK, MetaConnectionTypeOK
  <2>3. ControlModuleTypeOK'
    BY <1>8 DEF CtlReplaceMetaCon, At, Goto, registry, namevars, TypeOK, ControlModuleTypeOK
  <2> QED
    BY <1>1, <2>1, <2>2, <2>3 DEF TypeOK
<1>9. CASE CtlMatch
  <2>1. TransportTypeOK'
    BY <1>9, TransportSame DEF CtlMatch, TypeOK
  <2>2. MetaConnectionTypeOK'
    <3>1. queryConUsingAlisa(c_name) \in Hdl
      BY <1>9 DEF CtlMatch, At, NameInv, Known, queryConUsingAlisa, TypeOK, ControlModuleTypeOK
    <3>2. ASSUME c_k <= Len(m_toMetaCon[c_hdl])
          PROVE  [m_toMetaCon[c_hdl] EXCEPT ![c_k] = queryConUsingAlisa(c_name)] \in Seq(Hdl)
      BY <3>1, <3>2, ExceptSeq DEF TypeOK, MetaConnectionTypeOK, ControlModuleTypeOK
    <3>3. m_toMetaCon' \in [Hdl -> Seq(Hdl)]
      BY <1>9, <3>2 DEF CtlMatch, TypeOK, MetaConnectionTypeOK, ControlModuleTypeOK
    <3>4. m_lock' \in [Hdl -> Thread \cup {"free"}]
      BY <1>9 DEF CtlMatch, Unlocked, TypeOK, MetaConnectionTypeOK
    <3> QED
      BY <1>9, <3>3, <3>4 DEF CtlMatch, settings, worker, TypeOK, MetaConnectionTypeOK
  <2>3. ControlModuleTypeOK'
    BY <1>9 DEF CtlMatch, At, Goto, NextLink, registry, namevars, TypeOK, ControlModuleTypeOK
  <2> QED
    BY <1>1, <2>1, <2>2, <2>3 DEF TypeOK
<1>10. CASE CtlMatchRelocks
  <2>1. TransportTypeOK'
    BY <1>10, TransportSame DEF CtlMatchRelocks, TypeOK
  <2>2. MetaConnectionTypeOK'
    BY <1>10 DEF CtlMatchRelocks, settings, worker, TypeOK, MetaConnectionTypeOK
  <2>3. ControlModuleTypeOK'
    BY <1>10 DEF CtlMatchRelocks, At, Goto, registry, scan, namevars, TypeOK, ControlModuleTypeOK
  <2> QED
    BY <1>1, <2>1, <2>2, <2>3 DEF TypeOK
<1>11. CASE CtlScanned
  <2>1. TransportTypeOK'
    BY <1>11, TransportSame DEF CtlScanned, TypeOK
  <2>2. MetaConnectionTypeOK'
    BY <1>11, MetaConnectionSame DEF CtlScanned, TypeOK
  <2>3. ControlModuleTypeOK'
    BY <1>11 DEF CtlScanned, At, Goto, registry, namevars, TypeOK, ControlModuleTypeOK
  <2> QED
    BY <1>1, <2>1, <2>2, <2>3 DEF TypeOK
<1>12. CASE CtlDestroy
  <2>1. TransportTypeOK'
    BY <1>12, TransportSame DEF CtlDestroy, DestroyOrphan, TypeOK
  <2>2. MetaConnectionTypeOK'
    BY <1>12, DestroyOrphanType DEF CtlDestroy, TypeOK
  <2>3. ControlModuleTypeOK'
    BY <1>12
    DEF CtlDestroy, DestroyOrphan, registry, cvars, scan, namevars, TypeOK, ControlModuleTypeOK
  <2> QED
    BY <1>1, <2>1, <2>2, <2>3 DEF TypeOK
<1>13. CASE CtlDropped
  <2>1. TransportTypeOK'
    BY <1>13, TransportSame DEF CtlDropped, TypeOK
  <2>2. MetaConnectionTypeOK'
    BY <1>13, MetaConnectionSame DEF CtlDropped, TypeOK
  <2>3. ControlModuleTypeOK'
    BY <1>13 DEF CtlDropped, At, Goto, registry, scan, namevars, TypeOK, ControlModuleTypeOK
  <2> QED
    BY <1>1, <2>1, <2>2, <2>3 DEF TypeOK
<1>14. CASE CtlGetNeed
  <2>1. TransportTypeOK'
    BY <1>14, TransportSame DEF CtlGetNeed, TypeOK
  <2>2. MetaConnectionTypeOK'
    BY <1>14, MetaConnectionSame DEF CtlGetNeed, TypeOK
  <2>3. ControlModuleTypeOK'
    BY <1>14
    DEF CtlGetNeed, At, Goto, registry, scan, MetaConnectionTypeOK, TypeOK, ControlModuleTypeOK
  <2> QED
    BY <1>1, <2>1, <2>2, <2>3 DEF TypeOK
<1>15. ASSUME NEW a \in Alias, CtlQuery(a) PROVE TypeOK'
  <2>1. TransportTypeOK'
    BY <1>15, TransportSame DEF CtlQuery, TypeOK
  <2>2. MetaConnectionTypeOK'
    BY <1>15, MetaConnectionSame DEF CtlQuery, TypeOK
  <2>3. ControlModuleTypeOK'
    BY <1>15 DEF CtlQuery, At, Goto, registry, scan, TypeOK, ControlModuleTypeOK
  <2> QED
    BY <1>1, <2>1, <2>2, <2>3 DEF TypeOK
<1>16. CASE CtlAddMetaCon
  <2>1. TransportTypeOK'
    BY <1>16, TransportSame DEF CtlAddMetaCon, TypeOK
  <2>2. MetaConnectionTypeOK'
    <3>1. queryConUsingAlisa(c_name) \in Hdl
      BY <1>16
      DEF CtlAddMetaCon, At, NameInv, Known, queryConUsingAlisa, TypeOK, ControlModuleTypeOK
    <3> QED
      BY <1>16, <3>1, addMetaConType
      DEF CtlAddMetaCon, settings, worker, TypeOK, MetaConnectionTypeOK,
          ControlModuleTypeOK
  <2>3. ControlModuleTypeOK'
    BY <1>16 DEF CtlAddMetaCon, At, Goto, registry, scan, namevars, TypeOK, ControlModuleTypeOK
  <2> QED
    BY <1>1, <2>1, <2>2, <2>3 DEF TypeOK
<1>17. CASE CtlRmNeed
  <2>1. TransportTypeOK'
    BY <1>17, TransportSame DEF CtlRmNeed, TypeOK
  <2>2. MetaConnectionTypeOK'
    BY <1>17 DEF CtlRmNeed, rmNeedConnectAlias, worker, TypeOK, MetaConnectionTypeOK
  <2>3. ControlModuleTypeOK'
    BY <1>17 DEF CtlRmNeed, At, Goto, registry, scan, namevars, TypeOK, ControlModuleTypeOK
  <2> QED
    BY <1>1, <2>1, <2>2, <2>3 DEF TypeOK
<1>18. CASE CtlVisited
  <2>1. TransportTypeOK'
    BY <1>18, TransportSame DEF CtlVisited, TypeOK
  <2>2. MetaConnectionTypeOK'
    BY <1>18, MetaConnectionSame DEF CtlVisited, TypeOK
  <2>3. ControlModuleTypeOK'
    BY <1>18, AnyHdlType, AliasAssumption
    DEF CtlVisited, At, Goto, registry, scan, TypeOK, ControlModuleTypeOK
  <2> QED
    BY <1>1, <2>1, <2>2, <2>3 DEF TypeOK
<1> QED
  BY <1>2, <1>3, <1>4, <1>5, <1>6, <1>7, <1>8, <1>9, <1>10, <1>11, <1>12, <1>13, <1>14, <1>15,
      <1>16, <1>17, <1>18 DEF Maintain

(* feedFrame appends a frame to the pool, or to an empty one.                *)
LEMMA PushFrameType ==
  ASSUME m_framePool \in [Hdl -> Seq(Nat)], NEW h \in Hdl, NEW k \in Nat, PushFrame(h, k)
  PROVE  m_framePool' \in [Hdl -> Seq(Nat)]
  BY DEF PushFrame

(* The handlers keep the types. They take a name off a list that has one     *)
(* (RestInv).                                                                *)
LEMMA TypeHandle ==
  ASSUME TypeOK, RestInv, Handle
  PROVE  TypeOK'
<1>1. CASE OpenClear
  <2>1. TransportTypeOK'
    BY <1>1, TransportSame DEF OpenClear, TypeOK
  <2>2. MetaConnectionTypeOK'
    BY <1>1, MetaConnectionSame DEF OpenClear, TypeOK
  <2>3. ControlModuleTypeOK'
    BY <1>1 DEF OpenClear, registry, cvars, scan, namevars, TypeOK, ControlModuleTypeOK
  <2>4. ServerTypeOK'
    <3>1. n_left' \subseteq Hdl
      BY <1>1, AliasAssumption DEF OpenClear, m_alias, TypeOK, ControlModuleTypeOK, ServerTypeOK
    <3> QED
      BY <1>1, <3>1 DEF OpenClear, In, Continue, NetPC, request, clients, TypeOK, ServerTypeOK
  <2> QED
    BY <2>1, <2>2, <2>3, <2>4 DEF TypeOK
<1>2. ASSUME NEW o \in Hdl, OpenCheck(o) PROVE TypeOK'
  <2>1. TransportTypeOK'
    BY <1>2, TransportSame DEF OpenCheck, TypeOK
  <2>2. MetaConnectionTypeOK'
    BY <1>2 DEF OpenCheck, settings, worker, TypeOK, MetaConnectionTypeOK
  <2>3. ControlModuleTypeOK'
    BY <1>2 DEF OpenCheck, Cleared, registry, cvars, scan, namevars, TypeOK, ControlModuleTypeOK
  <2>4. ServerTypeOK'
    BY <1>2 DEF OpenCheck, request, clients, TypeOK, ServerTypeOK
  <2> QED
    BY <2>1, <2>2, <2>3, <2>4 DEF TypeOK
<1>3. CASE OpenDestroy
  <2>1. TransportTypeOK'
    BY <1>3, TransportSame DEF OpenDestroy, DestroyOrphan, TypeOK
  <2>2. MetaConnectionTypeOK'
    BY <1>3, DestroyOrphanType DEF OpenDestroy, DestroyOrphan, TypeOK, MetaConnectionTypeOK
  <2>3. ControlModuleTypeOK'
    BY <1>3
    DEF OpenDestroy, DestroyOrphan, registry, cvars, scan, namevars, TypeOK, ControlModuleTypeOK
  <2>4. ServerTypeOK'
    BY <1>3, ServerSame DEF OpenDestroy, DestroyOrphan, TypeOK
  <2> QED
    BY <2>1, <2>2, <2>3, <2>4 DEF TypeOK
<1>4. CASE OpenCleared
  <2>1. TransportTypeOK'
    BY <1>4, TransportSame DEF OpenCleared, TypeOK
  <2>2. MetaConnectionTypeOK'
    BY <1>4, MetaConnectionSame DEF OpenCleared, TypeOK
  <2>3. ControlModuleTypeOK'
    BY <1>4 DEF OpenCleared, registry, cvars, scan, namevars, TypeOK, ControlModuleTypeOK
  <2>4. ServerTypeOK'
    BY <1>4 DEF OpenCleared, In, Continue, NetPC, request, clients, TypeOK, ServerTypeOK
  <2> QED
    BY <2>1, <2>2, <2>3, <2>4 DEF TypeOK
<1>5. CASE OpenAdd
  <2>1. TransportTypeOK'
    BY <1>5 DEF OpenAdd, CloseSent, ConnState, TypeOK, TransportTypeOK
  <2>2. MetaConnectionTypeOK'
    BY <1>5 DEF OpenAdd, Constructed, settings, worker, TypeOK, MetaConnectionTypeOK
  <2>3. ControlModuleTypeOK'
    BY <1>5, AliasAssumption DEF OpenAdd, Inserted, m_alias, ServerTypeOK, registry, cvars, scan,
        namevars, TypeOK, ControlModuleTypeOK
  <2>4. ServerTypeOK'
    BY <1>5, AnyHdlType
    DEF OpenAdd, In, Continue, NetPC, Return, request, clients, TypeOK, ServerTypeOK
  <2> QED
    BY <2>1, <2>2, <2>3, <2>4 DEF TypeOK
<1>6. CASE OpenGreet
  <2>1. TransportTypeOK'
    BY <1>6, NoticeType, SentType DEF OpenGreet, ServerTypeOK, TypeOK, TransportTypeOK
  <2>2. MetaConnectionTypeOK'
    BY <1>6, MetaConnectionSame DEF OpenGreet, TypeOK
  <2>3. ControlModuleTypeOK'
    BY <1>6, ControlModuleSame DEF OpenGreet, TypeOK
  <2>4. ServerTypeOK'
    BY <1>6, AnyHdlType DEF OpenGreet, In, Return, NetPC, request, clients, TypeOK, ServerTypeOK
  <2> QED
    BY <2>1, <2>2, <2>3, <2>4 DEF TypeOK
<1>7. CASE CmdQuery
  <2>1. TransportTypeOK'
    BY <1>7, TransportSame DEF CmdQuery, TypeOK
  <2>2. MetaConnectionTypeOK'
    BY <1>7 DEF CmdQuery, settings, worker, TypeOK, MetaConnectionTypeOK
  <2>3. ControlModuleTypeOK'
    BY <1>7, ControlModuleSame DEF CmdQuery, TypeOK
  <2>4. ServerTypeOK'
    BY <1>7 DEF CmdQuery, In, Continue, NetPC, request, clients, TypeOK, ServerTypeOK
  <2> QED
    BY <2>1, <2>2, <2>3, <2>4 DEF TypeOK
<1>8. CASE CmdMethod
  <2>1. TransportTypeOK'
    BY <1>8, TransportSame DEF CmdMethod, TypeOK
  <2>2. MetaConnectionTypeOK'
    BY <1>8 DEF CmdMethod, SetMethod, worker, TypeOK, MetaConnectionTypeOK
  <2>3. ControlModuleTypeOK'
    BY <1>8, ControlModuleSame DEF CmdMethod, TypeOK
  <2>4. ServerTypeOK'
    BY <1>8 DEF CmdMethod, In, Continue, NetPC, request, clients, TypeOK, ServerTypeOK
  <2> QED
    BY <2>1, <2>2, <2>3, <2>4 DEF TypeOK
<1>9. CASE CmdNext
  <2>1. TransportTypeOK'
    BY <1>9, TransportSame DEF CmdNext, TypeOK
  <2>2. MetaConnectionTypeOK'
    BY <1>9, MetaConnectionSame DEF CmdNext, TypeOK
  <2>3. ControlModuleTypeOK'
    BY <1>9, ControlModuleSame DEF CmdNext, TypeOK
  <2>4. ServerTypeOK'
    BY <1>9 DEF CmdNext, In, Continue, NetPC, Known, queryConUsingAlisa, ControlModuleTypeOK,
        request, clients, TypeOK, ServerTypeOK
  <2> QED
    BY <2>1, <2>2, <2>3, <2>4 DEF TypeOK
<1>10. CASE CmdLink
  <2>1. TransportTypeOK'
    BY <1>10, TransportSame DEF CmdLink, TypeOK
  <2>2. MetaConnectionTypeOK'
    BY <1>10, addMetaConType
    DEF CmdLink, settings, worker, ServerTypeOK, TypeOK, MetaConnectionTypeOK
  <2>3. ControlModuleTypeOK'
    BY <1>10, ControlModuleSame DEF CmdLink, TypeOK
  <2>4. ServerTypeOK'
    BY <1>10, AnyHdlType
    DEF CmdLink, RestInv, In, Continue, NetPC, request, clients, TypeOK, ServerTypeOK
  <2> QED
    BY <2>1, <2>2, <2>3, <2>4 DEF TypeOK
<1>11. CASE CmdNeed
  <2>1. TransportTypeOK'
    BY <1>11, TransportSame DEF CmdNeed, TypeOK
  <2>2. MetaConnectionTypeOK'
    <3>1. Head(n_rest) \in Alias
      BY <1>11 DEF CmdNeed, RestInv, In, TypeOK, ServerTypeOK
    <3> QED
      BY <1>11, <3>1 DEF CmdNeed, addNeedConnectAlias, worker, TypeOK, MetaConnectionTypeOK
  <2>3. ControlModuleTypeOK'
    BY <1>11, ControlModuleSame DEF CmdNeed, TypeOK
  <2>4. ServerTypeOK'
    BY <1>11 DEF CmdNeed, RestInv, In, Continue, NetPC, request, clients, TypeOK, ServerTypeOK
  <2> QED
    BY <2>1, <2>2, <2>3, <2>4 DEF TypeOK
<1>12. CASE CmdNamed
  <2>1. TransportTypeOK'
    BY <1>12, TransportSame DEF CmdNamed, TypeOK
  <2>2. MetaConnectionTypeOK'
    BY <1>12, MetaConnectionSame DEF CmdNamed, TypeOK
  <2>3. ControlModuleTypeOK'
    BY <1>12, ControlModuleSame DEF CmdNamed, TypeOK
  <2>4. ServerTypeOK'
    BY <1>12 DEF CmdNamed, In, Continue, NetPC, request, clients, TypeOK, ServerTypeOK
  <2> QED
    BY <2>1, <2>2, <2>3, <2>4 DEF TypeOK
<1>13. CASE CmdReply
  <2>1. TransportTypeOK'
    BY <1>13, NoticeType, SendToType
    DEF CmdReply, ServerTypeOK, MetaConnectionTypeOK, TypeOK, TransportTypeOK
  <2>2. MetaConnectionTypeOK'
    BY <1>13, NoticeType, SendToType
    DEF CmdReply, ServerTypeOK, TransportTypeOK, settings, worker, TypeOK, MetaConnectionTypeOK
  <2>3. ControlModuleTypeOK'
    BY <1>13, ControlModuleSame DEF CmdReply, TypeOK
  <2>4. ServerTypeOK'
    BY <1>13, AnyHdlType DEF CmdReply, In, Return, NetPC, request, clients, TypeOK, ServerTypeOK
  <2> QED
    BY <2>1, <2>2, <2>3, <2>4 DEF TypeOK
<1>14. CASE FeedQuery
  <2>1. TransportTypeOK'
    BY <1>14, TransportSame DEF FeedQuery, TypeOK
  <2>2. MetaConnectionTypeOK'
    BY <1>14 DEF FeedQuery, settings, worker, TypeOK, MetaConnectionTypeOK
  <2>3. ControlModuleTypeOK'
    BY <1>14, ControlModuleSame DEF FeedQuery, TypeOK
  <2>4. ServerTypeOK'
    BY <1>14 DEF FeedQuery, In, Continue, NetPC, request, clients, TypeOK, ServerTypeOK
  <2> QED
    BY <2>1, <2>2, <2>3, <2>4 DEF TypeOK
<1>15. CASE FeedPush
  <2>1. TransportTypeOK'
    BY <1>15, TransportSame DEF FeedPush, TypeOK
  <2>2. MetaConnectionTypeOK'
    BY <1>15, PushFrameType
    DEF FeedPush, Locked, Thread, ServerTypeOK, settings, worker, TypeOK, MetaConnectionTypeOK
  <2>3. ControlModuleTypeOK'
    BY <1>15, ControlModuleSame DEF FeedPush, TypeOK
  <2>4. ServerTypeOK'
    BY <1>15, AnyHdlType
    DEF FeedPush, In, Continue, NetPC, Return, request, clients, TypeOK, ServerTypeOK
  <2> QED
    BY <2>1, <2>2, <2>3, <2>4 DEF TypeOK
<1>16. CASE FeedWarn
  <2>1. TransportTypeOK'
    BY <1>16, NoticeType, SendToType
    DEF FeedWarn, ServerTypeOK, MetaConnectionTypeOK, TypeOK, TransportTypeOK
  <2>2. MetaConnectionTypeOK'
    <3>1. m_status' \in [Hdl -> {"OPEN", "CLOSE"}]
      BY <1>16, NoticeType, SendToType
      DEF FeedWarn, TypeOK, TransportTypeOK, MetaConnectionTypeOK, ServerTypeOK
    <3>2. m_framePool' \in [Hdl -> Seq(Nat)]
      BY <1>16, PushFrameType DEF FeedWarn, TypeOK, MetaConnectionTypeOK, ServerTypeOK
    <3>3. m_lock' \in [Hdl -> Thread \cup {"free"}]
      BY <1>16 DEF FeedWarn, Unlocked, TypeOK, MetaConnectionTypeOK
    <3> QED
      BY <1>16, <3>1, <3>2, <3>3 DEF FeedWarn, worker, TypeOK, MetaConnectionTypeOK
  <2>3. ControlModuleTypeOK'
    BY <1>16, ControlModuleSame DEF FeedWarn, TypeOK
  <2>4. ServerTypeOK'
    BY <1>16, AnyHdlType DEF FeedWarn, In, Return, NetPC, request, clients, TypeOK, ServerTypeOK
  <2> QED
    BY <2>1, <2>2, <2>3, <2>4 DEF TypeOK
<1>17. CASE FeedRelocks
  <2>1. TransportTypeOK'
    BY <1>17, TransportSame DEF FeedRelocks, TypeOK
  <2>2. MetaConnectionTypeOK'
    BY <1>17 DEF FeedRelocks, settings, worker, TypeOK, MetaConnectionTypeOK
  <2>3. ControlModuleTypeOK'
    BY <1>17, ControlModuleSame DEF FeedRelocks, TypeOK
  <2>4. ServerTypeOK'
    BY <1>17 DEF FeedRelocks, In, Continue, NetPC, request, clients, TypeOK, ServerTypeOK
  <2> QED
    BY <2>1, <2>2, <2>3, <2>4 DEF TypeOK
<1>18. CASE CloseQuery
  <2>1. TransportTypeOK'
    BY <1>18, TransportSame DEF CloseQuery, TypeOK
  <2>2. MetaConnectionTypeOK'
    BY <1>18, MetaConnectionSame DEF CloseQuery, TypeOK
  <2>3. ControlModuleTypeOK'
    BY <1>18, ControlModuleSame DEF CloseQuery, TypeOK
  <2>4. ServerTypeOK'
    BY <1>18, AnyHdlType
    DEF CloseQuery, In, Continue, NetPC, Return, request, clients, TypeOK, ServerTypeOK
  <2> QED
    BY <2>1, <2>2, <2>3, <2>4 DEF TypeOK
<1>19. CASE CloseSet
  <2>1. TransportTypeOK'
    BY <1>19, TransportSame DEF CloseSet, TypeOK
  <2>2. MetaConnectionTypeOK'
    BY <1>19 DEF CloseSet, setStatus, settings, worker, TypeOK, MetaConnectionTypeOK
  <2>3. ControlModuleTypeOK'
    BY <1>19, ControlModuleSame DEF CloseSet, TypeOK
  <2>4. ServerTypeOK'
    BY <1>19, AnyHdlType DEF CloseSet, In, Return, NetPC, request, clients, TypeOK, ServerTypeOK
  <2> QED
    BY <2>1, <2>2, <2>3, <2>4 DEF TypeOK
<1> QED
  BY <1>1, <1>2, <1>3, <1>4, <1>5, <1>6, <1>7, <1>8, <1>9, <1>10, <1>11, <1>12, <1>13, <1>14,
      <1>15, <1>16, <1>17, <1>18, <1>19 DEF Handle

(* What the outside brings keeps the types.                                  *)
LEMMA TypeOutside ==
  ASSUME TypeOK, Outside
  PROVE  TypeOK'
<1>1. ASSUME NEW h \in Hdl, OnOpen(h) PROVE TypeOK'
  <2>1. TransportTypeOK'
    BY <1>1 DEF OnOpen, Upgraded, ConnState, TypeOK, TransportTypeOK
  <2>2. MetaConnectionTypeOK'
    BY <1>1, MetaConnectionSame DEF OnOpen, TypeOK
  <2>3. ControlModuleTypeOK'
    BY <1>1, ControlModuleSame DEF OnOpen, TypeOK
  <2>4. ServerTypeOK'
    BY <1>1 DEF OnOpen, Handles, NetPC, request, clients, TypeOK, ServerTypeOK
  <2> QED
    BY <2>1, <2>2, <2>3, <2>4 DEF TypeOK
<1>2. ASSUME NEW h \in Hdl, OnFrame(h) PROVE TypeOK'
  <2>1. TransportTypeOK'
    BY <1>2, TransportSame DEF OnFrame, TypeOK
  <2>2. MetaConnectionTypeOK'
    BY <1>2, MetaConnectionSame DEF OnFrame, TypeOK
  <2>3. ControlModuleTypeOK'
    BY <1>2, ControlModuleSame DEF OnFrame, TypeOK
  <2>4. ServerTypeOK'
    BY <1>2 DEF OnFrame, Handles, NetPC, request, clients, TypeOK, ServerTypeOK
  <2> QED
    BY <2>1, <2>2, <2>3, <2>4 DEF TypeOK
<1>3. ASSUME NEW h \in Hdl, OnPeerClose(h) PROVE TypeOK'
  <2>1. TransportTypeOK'
    BY <1>3 DEF OnPeerClose, PeerClosed, CloseSent, ConnState, TypeOK, TransportTypeOK
  <2>2. MetaConnectionTypeOK'
    BY <1>3, MetaConnectionSame DEF OnPeerClose, TypeOK
  <2>3. ControlModuleTypeOK'
    BY <1>3, ControlModuleSame DEF OnPeerClose, TypeOK
  <2>4. ServerTypeOK'
    BY <1>3, ServerSame DEF OnPeerClose, TypeOK
  <2> QED
    BY <2>1, <2>2, <2>3, <2>4 DEF TypeOK
<1>4. ASSUME NEW h \in Hdl, OnClose(h) PROVE TypeOK'
  <2>1. TransportTypeOK'
    BY <1>4 DEF OnClose, Terminated, ConnState, TypeOK, TransportTypeOK
  <2>2. MetaConnectionTypeOK'
    BY <1>4, MetaConnectionSame DEF OnClose, TypeOK
  <2>3. ControlModuleTypeOK'
    BY <1>4, ControlModuleSame DEF OnClose, TypeOK
  <2>4. ServerTypeOK'
    BY <1>4 DEF OnClose, Handles, NetPC, request, clients, TypeOK, ServerTypeOK
  <2> QED
    BY <2>1, <2>2, <2>3, <2>4 DEF TypeOK
<1>5. ASSUME NEW h \in Hdl, NEW text \in Texts[h], OnText(h, text) PROVE TypeOK'
  <2>1. TransportTypeOK'
    BY <1>5, TransportSame DEF OnText, TypeOK
  <2>2. MetaConnectionTypeOK'
    BY <1>5, MetaConnectionSame DEF OnText, TypeOK
  <2>3. ControlModuleTypeOK'
    BY <1>5, ControlModuleSame DEF OnText, TypeOK
  <2>4. ServerTypeOK'
    <3>1. text \in Text
      BY TextsAssumption
    <3>2. ToSet(text.names) \subseteq Alias
      BY <3>1 DEF Text, ToSet
    <3>3. n_rest' \in Seq(Alias) /\ n_method' \in MethodText
      BY <1>5, <3>1 DEF OnText, RequestedNames, Text
    <3>4. asked' \in [Hdl -> SUBSET Alias]
      BY <1>5, <3>2 DEF OnText, TypeOK, ServerTypeOK
    <3> QED
      BY <1>5, <3>3, <3>4 DEF OnText, Handles, NetPC, TypeOK, ServerTypeOK
  <2> QED
    BY <2>1, <2>2, <2>3, <2>4 DEF TypeOK
<1> QED
  BY <1>1, <1>2, <1>3, <1>4, <1>5 DEF Outside

(* Every step keeps the types, given what NameInv and RestInv add to them.   *)
LEMMA TypeStep ==
  ASSUME TypeOK, NameInv, RestInv, [Next]_vars
  PROVE  TypeOK'
<1>1. CASE Outside
  BY <1>1, TypeOutside
<1>2. CASE Handle
  BY <1>2, TypeHandle
<1>3. CASE Maintain /\ UNCHANGED <<nvars, clients>>
  BY <1>3, TypeMaintain
<1>4. ASSUME NEW h \in Hdl, Worker(h), UNCHANGED <<controlvars, nvars, clients>>
      PROVE  TypeOK'
  BY <1>4, TypeWorker
<1>5. CASE UNCHANGED vars
  BY <1>5, TransportSame, MetaConnectionSame, ControlModuleSame, ServerSame DEF TypeOK, vars
<1> QED
  BY <1>1, <1>2, <1>3, <1>4, <1>5 DEF Next, Threads

-----------------------------------------------------------------------------
(* The parts of IInv, besides the types, that a step has to keep.            *)
Kept ==
    /\ RegistryConsistent /\ LockInv /\ NameInv /\ RestInv
    /\ StatusInv /\ HandlerInv /\ LeftInv

(* A step that marks objects closed only when their connection is not open.  *)
MarksOnlyDead ==
    \A h \in Hdl : m_status'[h] = "CLOSE" => m_status[h] = "CLOSE" \/ conn[h] # "open"

(* SendTo marks an object closed only after its connection refused to send.  *)
LEMMA SendToMarks ==
  ASSUME TypeOK, NEW h, NEW msg, SendTo(h, msg)
  PROVE  MarksOnlyDead
<1>1. CASE UNCHANGED m_status
  BY <1>1 DEF MarksOnlyDead
<1>2. CASE ~Accepts(h) /\ m_status' = [m_status EXCEPT ![h] = "CLOSE"]
  BY <1>2 DEF MarksOnlyDead, Accepts, TypeOK, MetaConnectionTypeOK
<1> QED
  BY <1>1, <1>2 DEF SendTo

(* A worker leaves the connections as they are, and so it does the maps.     *)
LEMMA WorkerMarks ==
  ASSUME TypeOK, NEW h \in Hdl, Worker(h)
  PROVE  UNCHANGED conn /\ MarksOnlyDead
<1>1. CASE getFrame(h)
  BY <1>1 DEF getFrame, tvars, MarksOnlyDead
<1>2. CASE ForwardFrame(h)
  BY <1>2 DEF ForwardFrame, tvars, MarksOnlyDead
<1>3. CASE SentBinary(h)
  BY <1>3, SendToMarks DEF SentBinary
<1>4. CASE SentBinaryRelocks(h)
  BY <1>4 DEF SentBinaryRelocks, tvars, MarksOnlyDead
<1>5. CASE EndWorker(h)
  BY <1>5 DEF EndWorker, tvars, MarksOnlyDead
<1> QED
  BY <1>1, <1>2, <1>3, <1>4, <1>5 DEF Worker

(* What a step that leaves maps, locks and connections alone has to show.    *)
LEMMA QuietStep ==
  ASSUME IInv, UNCHANGED <<registry, ctl_lock, c_pc, c_name, conn>>, MarksOnlyDead,
         n_pc # "open.check", n_pc' # "open.check",
         n_pc' \in Opening => conn[n_hdl'] = "open" /\ n_hdl' \notin m_hdl2con,
         n_pc' \in {"close.query", "close.set"} => conn[n_hdl'] = "closed",
         RestInv'
  PROVE  Kept'
<1>1. RegistryConsistent'
  BY DEF IInv, RegistryConsistent, registry, Known, queryConUsingAlisa, m_alias
<1>2. LockInv'
  BY DEF IInv, LockInv
<1>3. NameInv'
  BY DEF IInv, NameInv, registry, Known, queryConUsingAlisa
<1>4. StatusInv'
  BY DEF IInv, StatusInv, registry, MarksOnlyDead, TypeOK, ControlModuleTypeOK
<1>5. HandlerInv'
  BY DEF IInv, HandlerInv, registry
<1>6. LeftInv'
  BY DEF LeftInv
<1> QED
  BY <1>1, <1>2, <1>3, <1>4, <1>5, <1>6 DEF Kept

(* The same for a step in which the network thread stays where it is.        *)
LEMMA OtherThreadStep ==
  ASSUME IInv, UNCHANGED <<registry, conn, nvars>>, MarksOnlyDead, LockInv', NameInv'
  PROVE  Kept'
<1>1. RegistryConsistent'
  BY DEF IInv, RegistryConsistent, registry, Known, queryConUsingAlisa, m_alias
<1>2. RestInv'
  BY DEF IInv, RestInv, nvars, request
<1>3. StatusInv'
  BY DEF IInv, StatusInv, registry, MarksOnlyDead, TypeOK, ControlModuleTypeOK
<1>4. HandlerInv'
  BY DEF IInv, HandlerInv, registry, nvars
<1>5. LeftInv'
  BY DEF IInv, LeftInv, registry, nvars, m_alias, HasName
<1> QED
  BY <1>1, <1>2, <1>3, <1>4, <1>5 DEF Kept

(* The workers keep the invariant: they never see the maps.                  *)
LEMMA KeptByWorker ==
  ASSUME IInv, NEW h \in Hdl, Worker(h), UNCHANGED <<controlvars, nvars, clients>>
  PROVE  Kept'
<1>1. UNCHANGED conn /\ MarksOnlyDead
  BY WorkerMarks DEF IInv
<1>2. LockInv' /\ NameInv'
  BY DEF IInv, LockInv, NameInv, Known, queryConUsingAlisa, controlvars, registry, cvars,
         namevars, nvars
<1> QED
  BY <1>1, <1>2, OtherThreadStep DEF controlvars

(* The maintenance thread keeps it: it changes neither the maps nor what the *)
(* connections and the workers are, and it holds the lock of the maps from   *)
(* finding a name to the last use of what it found.                          *)
LEMMA MaintainFrame ==
  ASSUME Maintain
  PROVE  UNCHANGED <<registry, conn, m_status, worker>>
<1>1. CASE CtlAcquire
  BY <1>1 DEF CtlAcquire, tvars, mvars, registry
<1>2. CASE CtlRelease
  BY <1>2 DEF CtlRelease, tvars, mvars, registry
<1>3. ASSUME NEW h \in Hdl, CtlVisit(h) PROVE UNCHANGED <<registry, conn, m_status, worker>>
  BY <1>3 DEF CtlVisit, tvars, mvars, registry
<1>4. CASE CtlGetMetaCon
  BY <1>4 DEF CtlGetMetaCon, tvars, mvars, registry
<1>5. CASE CtlScan
  BY <1>5 DEF CtlScan, tvars, mvars, registry
<1>6. CASE CtlSuccessor
  BY <1>6 DEF CtlSuccessor, tvars, mvars, registry
<1>7. CASE CtlReplaceMetaCon
  BY <1>7 DEF CtlReplaceMetaCon, tvars, mvars, registry
<1>8. CASE CtlMatch
  BY <1>8 DEF CtlMatch, tvars, mvars, registry
<1>9. CASE CtlMatchRelocks
  BY <1>9 DEF CtlMatchRelocks, tvars, mvars, registry
<1>10. CASE CtlScanned
  BY <1>10 DEF CtlScanned, tvars, mvars, registry
<1>11. CASE CtlDestroy
  BY <1>11 DEF CtlDestroy, DestroyOrphan, tvars, mvars, registry
<1>12. CASE CtlDropped
  BY <1>12 DEF CtlDropped, tvars, mvars, registry
<1>13. CASE CtlGetNeed
  BY <1>13 DEF CtlGetNeed, tvars, mvars, registry
<1>14. ASSUME NEW a \in Alias, CtlQuery(a) PROVE UNCHANGED <<registry, conn, m_status, worker>>
  BY <1>14 DEF CtlQuery, tvars, mvars, registry
<1>15. CASE CtlAddMetaCon
  BY <1>15 DEF CtlAddMetaCon, tvars, mvars, registry
<1>16. CASE CtlRmNeed
  BY <1>16 DEF CtlRmNeed, tvars, mvars, registry
<1>17. CASE CtlVisited
  BY <1>17 DEF CtlVisited, tvars, mvars, registry
<1> QED
  BY <1>1, <1>2, <1>3, <1>4, <1>5, <1>6, <1>7, <1>8, <1>9, <1>10, <1>11, <1>12, <1>13, <1>14,
      <1>15, <1>16, <1>17 DEF Maintain

(* So it keeps the invariant.                                                *)
LEMMA KeptByMaintain ==
  ASSUME IInv, Maintain, UNCHANGED <<nvars, clients>>
  PROVE  Kept'
<1>1. UNCHANGED <<registry, conn, m_status>>
  BY MaintainFrame
<1>2. MarksOnlyDead
  BY <1>1 DEF MarksOnlyDead
<1>3. LockInv /\ NameInv
  BY DEF IInv
<1>4. n_pc' = n_pc /\ m_alias2con' = m_alias2con
  BY <1>1 DEF nvars, registry
<1>5. LockInv' /\ NameInv'
  <2>1. CASE CtlAcquire
    BY <1>3, <1>4, <2>1
    DEF CtlAcquire, At, Goto, LockInv, NameInv, Known, queryConUsingAlisa, scan, namevars
  <2>2. CASE CtlRelease
    BY <1>3, <1>4, <2>2
    DEF CtlRelease, At, Goto, LockInv, NameInv, Known, queryConUsingAlisa, scan, namevars
  <2>3. ASSUME NEW h \in Hdl, CtlVisit(h) PROVE LockInv' /\ NameInv'
    BY <1>3, <1>4, <2>3
    DEF CtlVisit, At, Goto, LockInv, NameInv, Known, queryConUsingAlisa, scan, namevars
  <2>4. CASE CtlGetMetaCon
    BY <1>3, <1>4, <2>4
    DEF CtlGetMetaCon, At, Goto, LockInv, NameInv, Known, queryConUsingAlisa, scan, namevars
  <2>5. CASE CtlScan
    BY <1>3, <1>4, <2>5
    DEF CtlScan, NextLink, At, Goto, LockInv, NameInv, Known, queryConUsingAlisa, scan, namevars
  <2>6. CASE CtlSuccessor
    BY <1>3, <1>4, <2>6 DEF CtlSuccessor, NextLink, At, Goto, LockInv, NameInv, Known,
        queryConUsingAlisa, scan, namevars
  <2>7. CASE CtlReplaceMetaCon
    BY <1>3, <1>4, <2>7
    DEF CtlReplaceMetaCon, At, Goto, LockInv, NameInv, Known, queryConUsingAlisa, scan, namevars
  <2>8. CASE CtlMatch
    BY <1>3, <1>4, <2>8
    DEF CtlMatch, NextLink, At, Goto, LockInv, NameInv, Known, queryConUsingAlisa, scan, namevars
  <2>9. CASE CtlMatchRelocks
    BY <1>3, <1>4, <2>9
    DEF CtlMatchRelocks, At, Goto, LockInv, NameInv, Known, queryConUsingAlisa, scan, namevars
  <2>10. CASE CtlScanned
    BY <1>3, <1>4, <2>10
    DEF CtlScanned, At, Goto, LockInv, NameInv, Known, queryConUsingAlisa, scan, namevars
  <2>11. CASE CtlDestroy
    BY <1>3, <1>4, <2>11 DEF CtlDestroy, DestroyOrphan, cvars, At, Goto, LockInv, NameInv, Known,
        queryConUsingAlisa, scan, namevars
  <2>12. CASE CtlDropped
    BY <1>3, <1>4, <2>12
    DEF CtlDropped, At, Goto, LockInv, NameInv, Known, queryConUsingAlisa, scan, namevars
  <2>13. CASE CtlGetNeed
    BY <1>3, <1>4, <2>13
    DEF CtlGetNeed, At, Goto, LockInv, NameInv, Known, queryConUsingAlisa, scan, namevars
  <2>14. ASSUME NEW a \in Alias, CtlQuery(a) PROVE LockInv' /\ NameInv'
    BY <1>3, <1>4, <2>14
    DEF CtlQuery, At, Goto, LockInv, NameInv, Known, queryConUsingAlisa, scan, namevars
  <2>15. CASE CtlAddMetaCon
    BY <1>3, <1>4, <2>15
    DEF CtlAddMetaCon, At, Goto, LockInv, NameInv, Known, queryConUsingAlisa, scan, namevars
  <2>16. CASE CtlRmNeed
    BY <1>3, <1>4, <2>16
    DEF CtlRmNeed, At, Goto, LockInv, NameInv, Known, queryConUsingAlisa, scan, namevars
  <2>17. CASE CtlVisited
    BY <1>3, <1>4, <2>17
    DEF CtlVisited, At, Goto, LockInv, NameInv, Known, queryConUsingAlisa, scan, namevars
  <2> QED
    BY <2>1, <2>2, <2>3, <2>4, <2>5, <2>6, <2>7, <2>8, <2>9, <2>10, <2>11, <2>12, <2>13, <2>14,
        <2>15, <2>16, <2>17 DEF Maintain
<1> QED
  BY <1>1, <1>2, <1>5, OtherThreadStep

(* The handlers. All but the ones of on_open leave the maps alone.           *)
LEMMA KeptByHandle ==
  ASSUME IInv, Handle
  PROVE  Kept'
<1> USE DEF In
<1>1. CASE OpenClear
  <2>1. UNCHANGED <<registry, conn, m_status, c_pc, c_name, n_hdl>>
    BY <1>1 DEF OpenClear, Continue, registry, tvars, mvars, cvars, namevars
  <2>2. n_pc = "open.clear" /\ n_pc' = "open.check" /\ ctl_lock = "free" /\ ctl_lock' = "net"
    BY <1>1 DEF OpenClear, Continue
  <2>3. RegistryConsistent'
    BY <2>1 DEF IInv, RegistryConsistent, registry, Known, queryConUsingAlisa, m_alias
  <2>4. LockInv' /\ NameInv' /\ RestInv'
    BY <2>1, <2>2 DEF IInv, LockInv, NameInv, RestInv, registry, Known, queryConUsingAlisa
  <2>5. StatusInv' /\ HandlerInv'
    BY <2>1, <2>2 DEF IInv, StatusInv, HandlerInv, Opening, registry
  <2>6. LeftInv'
    <3>1. SUFFICES ASSUME HasName(n_hdl), NEW o \in n_left'
                   PROVE  o \in m_hdl2con /\ m_alias(o) = m_alias(n_hdl)
      BY <2>1 DEF LeftInv, HasName, m_alias, registry
    <3>2. o = m_alias2con[m_alias(n_hdl)] /\ o # NoCon
      BY <1>1, <3>1 DEF OpenClear
    <3>3. m_alias(n_hdl) \in Alias
      BY AliasAssumption DEF m_alias, IInv, TypeOK, ServerTypeOK
    <3> QED
      BY <3>2, <3>3 DEF IInv, RegistryConsistent, Known, queryConUsingAlisa
  <2> QED
    BY <2>3, <2>4, <2>5, <2>6 DEF Kept
<1>2. ASSUME NEW o \in Hdl, OpenCheck(o) PROVE Kept'
  <2>1. /\ n_pc = "open.check"
        /\ UNCHANGED <<conn, m_status, ctl_lock, c_pc, c_name, n_pc, n_hdl, n_rest>>
    BY <1>2 DEF OpenCheck, tvars, cvars, namevars, request
  <2>2. c_pc = "idle" /\ LockInv' /\ RestInv' /\ NameInv'
    BY <2>1 DEF IInv, LockInv, RestInv, NameInv
  <2>3. m_hdl2con' \subseteq m_hdl2con
    BY <1>2 DEF OpenCheck, Cleared, registry
  <2>4. StatusInv' /\ HandlerInv'
    BY <2>1, <2>3 DEF IInv, StatusInv, HandlerInv, Opening
  <2>5. RegistryConsistent' /\ LeftInv'
    <3>1. CASE ~Evictable(o)
      <4>1. UNCHANGED registry /\ n_left' \subseteq n_left
        BY <1>2, <3>1 DEF OpenCheck
      <4> QED
        BY <2>1, <4>1 DEF IInv, RegistryConsistent, LeftInv, registry, Known,
                          queryConUsingAlisa, m_alias, HasName
    <3>2. CASE Evictable(o) /\ m_alias(n_hdl) = Undefined
      <4>1. m_alias2con' = [b \in Alias |-> NoCon] /\ m_hdl2con' = {} /\ n_left' = {}
        BY <1>2, <3>2 DEF OpenCheck, Cleared
      <4> QED
        BY <4>1 DEF RegistryConsistent, LeftInv, Known, queryConUsingAlisa
    <3>3. CASE Evictable(o) /\ m_alias(n_hdl) # Undefined
      <4> DEFINE a == m_alias(n_hdl)
      <4>1. /\ m_alias2con' = [m_alias2con EXCEPT ![a] = NoCon]
            /\ m_hdl2con' = m_hdl2con \ {o}
            /\ n_left' = {}
        BY <1>2, <3>3 DEF OpenCheck, Cleared
      <4>2. o \in m_hdl2con /\ m_alias(o) = a
        BY <1>2, <2>1, <3>3 DEF OpenCheck, IInv, LeftInv, HasName
      <4>3. \A b \in Alias : m_alias2con'[b] # NoCon =>
                 m_alias2con'[b] \in m_hdl2con' /\ m_alias(m_alias2con'[b]) = b
        BY <4>1, <4>2 DEF IInv, RegistryConsistent, Known, queryConUsingAlisa, TypeOK,
                          ControlModuleTypeOK
      <4>4. \A h \in m_hdl2con' : m_alias2con'[m_alias(h)] = h
        <5>1. SUFFICES ASSUME NEW h \in m_hdl2con, h # o PROVE m_alias2con'[m_alias(h)] = h
          BY <4>1
        <5>2. m_alias2con[m_alias(h)] = h /\ m_alias2con[a] = o
          BY <4>2 DEF IInv, RegistryConsistent
        <5>3. m_alias(h) # a
          BY <5>1, <5>2
        <5>4. m_alias(h) \in Alias
          BY AliasAssumption DEF m_alias, IInv, TypeOK, ControlModuleTypeOK
        <5> QED
          BY <4>1, <5>2, <5>3, <5>4 DEF IInv, TypeOK, ControlModuleTypeOK
      <4> QED
        BY <4>1, <4>3, <4>4 DEF RegistryConsistent, LeftInv, Known, queryConUsingAlisa, m_alias
    <3> QED
      BY <3>1, <3>2, <3>3
  <2> QED
    BY <2>2, <2>4, <2>5 DEF Kept
<1>3. CASE OpenDestroy
  <2>1. UNCHANGED <<registry, conn, m_status, nvars, ctl_lock, c_pc, c_name>>
    BY <1>3 DEF OpenDestroy, DestroyOrphan, tvars, cvars, namevars
  <2>2. LockInv' /\ NameInv' /\ MarksOnlyDead
    BY <2>1 DEF IInv, LockInv, NameInv, MarksOnlyDead, nvars, registry, Known, queryConUsingAlisa
  <2> QED
    BY <2>1, <2>2, OtherThreadStep
<1>4. CASE OpenCleared
  <2>1. UNCHANGED <<registry, conn, m_status, c_pc, c_name, n_hdl>>
    BY <1>4 DEF OpenCleared, Continue, registry, tvars, mvars, cvars, namevars
  <2>2. n_pc = "open.check" /\ n_pc' = "open.add" /\ ctl_lock' = "free"
    BY <1>4 DEF OpenCleared, Continue
  <2>3. RegistryConsistent'
    BY <2>1 DEF IInv, RegistryConsistent, registry, Known, queryConUsingAlisa, m_alias
  <2>4. LockInv' /\ NameInv' /\ RestInv' /\ LeftInv'
    BY <2>1, <2>2 DEF IInv, LockInv, NameInv, RestInv, LeftInv, registry, Known, queryConUsingAlisa
  <2>5. StatusInv' /\ HandlerInv'
    BY <2>1, <2>2 DEF IInv, StatusInv, HandlerInv, Opening, registry
  <2> QED
    BY <2>3, <2>4, <2>5 DEF Kept
<1>5. CASE OpenAdd
  <2>1. n_pc = "open.add" /\ ctl_lock = "free" /\ UNCHANGED <<ctl_lock, c_pc, c_name>>
    BY <1>5 DEF OpenAdd, cvars, namevars
  <2>2. c_pc = "idle" /\ conn[n_hdl] = "open" /\ n_hdl \in Hdl \ m_hdl2con
    BY <2>1 DEF IInv, LockInv, HandlerInv, Opening, TypeOK, ServerTypeOK
  <2>3. NameInv'
    BY <2>1, <2>2 DEF NameInv
  <2>4. CASE NameFree(n_hdl)
    <3>1. /\ m_alias2con' = [m_alias2con EXCEPT ![m_alias(n_hdl)] = n_hdl]
          /\ m_hdl2con' = m_hdl2con \cup {n_hdl}
          /\ m_status' = [m_status EXCEPT ![n_hdl] = "OPEN"]
          /\ UNCHANGED conn
          /\ n_pc' = "open.greet"
      BY <1>5, <2>4 DEF OpenAdd, Inserted, Constructed, Continue
    <3>2. LockInv' /\ RestInv' /\ HandlerInv' /\ LeftInv'
      BY <2>1, <3>1 DEF IInv, LockInv, RestInv, HandlerInv, LeftInv, Opening
    <3>3. StatusInv'
      BY <2>2, <3>1 DEF IInv, StatusInv, TypeOK, MetaConnectionTypeOK, ControlModuleTypeOK
    <3>4. m_alias(n_hdl) \in Alias /\ n_hdl # NoCon
      BY <2>2, AliasAssumption, NoConAssumption DEF m_alias
    <3>5. \A b \in Alias : m_alias2con'[b] # NoCon =>
               m_alias2con'[b] \in m_hdl2con' /\ m_alias(m_alias2con'[b]) = b
      BY <3>1, <3>4 DEF IInv, RegistryConsistent, Known, queryConUsingAlisa, TypeOK,
                        ControlModuleTypeOK
    <3>6. \A h \in m_hdl2con' : m_alias2con'[m_alias(h)] = h
      <4>1. CASE m_alias2con[m_alias(n_hdl)] = NoCon
        BY <3>1, <3>4, <4>1, NoConAssumption
        DEF IInv, RegistryConsistent, TypeOK, ControlModuleTypeOK
      <4> QED
        BY <2>4, <4>1 DEF NameFree, Known, queryConUsingAlisa
    <3>7. RegistryConsistent'
      BY <3>5, <3>6 DEF RegistryConsistent, Known, queryConUsingAlisa, m_alias
    <3> QED
      BY <2>3, <3>2, <3>3, <3>7 DEF Kept
  <2>5. CASE ~NameFree(n_hdl)
    <3>1. /\ UNCHANGED <<registry, m_status>>
          /\ conn' = [conn EXCEPT ![n_hdl] = "closing"]
          /\ n_pc' = "idle"
      BY <1>5, <2>5 DEF OpenAdd, CloseSent, Return
    <3>2. RegistryConsistent'
      BY <3>1 DEF IInv, RegistryConsistent, registry, Known, queryConUsingAlisa, m_alias
    <3>3. LockInv' /\ RestInv' /\ HandlerInv' /\ LeftInv'
      BY <2>1, <3>1 DEF IInv, LockInv, RestInv, HandlerInv, LeftInv, Opening
    <3>4. StatusInv'
      BY <3>1 DEF IInv, StatusInv, registry, TypeOK, TransportTypeOK, ControlModuleTypeOK
    <3> QED
      BY <2>3, <3>2, <3>3, <3>4 DEF Kept
  <2> QED
    BY <2>4, <2>5
<1>6. CASE OpenGreet
  <2>1. UNCHANGED <<registry, ctl_lock, c_pc, c_name, conn>>
    BY <1>6 DEF OpenGreet, controlvars, cvars, namevars, tvars
  <2>2. MarksOnlyDead
    BY <1>6 DEF OpenGreet, mvars, MarksOnlyDead
  <2>3. /\ n_pc # "open.check" /\ n_pc' \notin Opening
        /\ n_pc' \notin {"close.query", "close.set"}
    BY <1>6 DEF OpenGreet, Return, Opening
  <2>4. RestInv'
    BY <1>6 DEF OpenGreet, Return, request, IInv, RestInv
  <2> QED
    BY <2>1, <2>2, <2>3, <2>4, QuietStep DEF Opening
<1>7. CASE CmdQuery
  <2>1. UNCHANGED <<registry, ctl_lock, c_pc, c_name, conn>>
    BY <1>7 DEF CmdQuery, controlvars, cvars, namevars, tvars
  <2>2. MarksOnlyDead
    BY <1>7 DEF CmdQuery, mvars, MarksOnlyDead
  <2>3. /\ n_pc # "open.check" /\ n_pc' \notin Opening
        /\ n_pc' \notin {"close.query", "close.set"}
    BY <1>7 DEF CmdQuery, Continue, Opening
  <2>4. RestInv'
    BY <1>7 DEF CmdQuery, Continue, request, IInv, RestInv
  <2> QED
    BY <2>1, <2>2, <2>3, <2>4, QuietStep DEF Opening
<1>8. CASE CmdMethod
  <2>1. UNCHANGED <<registry, ctl_lock, c_pc, c_name, conn>>
    BY <1>8 DEF CmdMethod, controlvars, cvars, namevars, tvars
  <2>2. MarksOnlyDead
    BY <1>8 DEF CmdMethod, mvars, MarksOnlyDead
  <2>3. /\ n_pc # "open.check" /\ n_pc' \notin Opening
        /\ n_pc' \notin {"close.query", "close.set"}
    BY <1>8 DEF CmdMethod, Continue, Opening
  <2>4. RestInv'
    BY <1>8 DEF CmdMethod, Continue, request, IInv, RestInv
  <2> QED
    BY <2>1, <2>2, <2>3, <2>4, QuietStep DEF Opening
<1>9. CASE CmdNext
  <2>1. UNCHANGED <<registry, ctl_lock, c_pc, c_name, conn>>
    BY <1>9 DEF CmdNext, controlvars, cvars, namevars, tvars
  <2>2. MarksOnlyDead
    BY <1>9 DEF CmdNext, mvars, MarksOnlyDead
  <2>3. /\ n_pc # "open.check" /\ n_pc' \notin Opening
        /\ n_pc' \notin {"close.query", "close.set"}
    BY <1>9 DEF CmdNext, Continue, Opening
  <2>4. RestInv'
    BY <1>9 DEF CmdNext, Continue, request, IInv, RestInv
  <2> QED
    BY <2>1, <2>2, <2>3, <2>4, QuietStep DEF Opening
<1>10. CASE CmdLink
  <2>1. UNCHANGED <<registry, ctl_lock, c_pc, c_name, conn>>
    BY <1>10 DEF CmdLink, controlvars, cvars, namevars, tvars
  <2>2. MarksOnlyDead
    BY <1>10 DEF CmdLink, mvars, MarksOnlyDead
  <2>3. /\ n_pc # "open.check" /\ n_pc' \notin Opening
        /\ n_pc' \notin {"close.query", "close.set"}
    BY <1>10 DEF CmdLink, Continue, Opening
  <2>4. RestInv'
    BY <1>10 DEF CmdLink, Continue, request, IInv, RestInv
  <2> QED
    BY <2>1, <2>2, <2>3, <2>4, QuietStep DEF Opening
<1>11. CASE CmdNeed
  <2>1. UNCHANGED <<registry, ctl_lock, c_pc, c_name, conn>>
    BY <1>11 DEF CmdNeed, controlvars, cvars, namevars, tvars
  <2>2. MarksOnlyDead
    BY <1>11 DEF CmdNeed, mvars, MarksOnlyDead
  <2>3. /\ n_pc # "open.check" /\ n_pc' \notin Opening
        /\ n_pc' \notin {"close.query", "close.set"}
    BY <1>11 DEF CmdNeed, Continue, Opening
  <2>4. RestInv'
    BY <1>11 DEF CmdNeed, Continue, request, IInv, RestInv
  <2> QED
    BY <2>1, <2>2, <2>3, <2>4, QuietStep DEF Opening
<1>12. CASE CmdNamed
  <2>1. UNCHANGED <<registry, ctl_lock, c_pc, c_name, conn>>
    BY <1>12 DEF CmdNamed, controlvars, cvars, namevars, tvars
  <2>2. MarksOnlyDead
    BY <1>12 DEF CmdNamed, mvars, MarksOnlyDead
  <2>3. /\ n_pc # "open.check" /\ n_pc' \notin Opening
        /\ n_pc' \notin {"close.query", "close.set"}
    BY <1>12 DEF CmdNamed, Continue, Opening
  <2>4. RestInv'
    BY <1>12 DEF CmdNamed, Continue, request, IInv, RestInv
  <2> QED
    BY <2>1, <2>2, <2>3, <2>4, QuietStep DEF Opening
<1>13. CASE CmdReply
  <2>1. UNCHANGED <<registry, ctl_lock, c_pc, c_name, conn>>
    BY <1>13 DEF CmdReply, controlvars, cvars, namevars, tvars
  <2>2. MarksOnlyDead
    BY <1>13, SendToMarks DEF CmdReply, IInv
  <2>3. /\ n_pc # "open.check" /\ n_pc' \notin Opening
        /\ n_pc' \notin {"close.query", "close.set"}
    BY <1>13 DEF CmdReply, Return, Opening
  <2>4. RestInv'
    BY <1>13 DEF CmdReply, Return, request, IInv, RestInv
  <2> QED
    BY <2>1, <2>2, <2>3, <2>4, QuietStep DEF Opening
<1>14. CASE FeedQuery
  <2>1. UNCHANGED <<registry, ctl_lock, c_pc, c_name, conn>>
    BY <1>14 DEF FeedQuery, controlvars, cvars, namevars, tvars
  <2>2. MarksOnlyDead
    BY <1>14 DEF FeedQuery, mvars, MarksOnlyDead
  <2>3. /\ n_pc # "open.check" /\ n_pc' \notin Opening
        /\ n_pc' \notin {"close.query", "close.set"}
    BY <1>14 DEF FeedQuery, Continue, Opening
  <2>4. RestInv'
    BY <1>14 DEF FeedQuery, Continue, request, IInv, RestInv
  <2> QED
    BY <2>1, <2>2, <2>3, <2>4, QuietStep DEF Opening
<1>15. CASE FeedPush
  <2>1. UNCHANGED <<registry, ctl_lock, c_pc, c_name, conn>>
    BY <1>15 DEF FeedPush, controlvars, cvars, namevars, tvars
  <2>2. MarksOnlyDead
    BY <1>15 DEF FeedPush, mvars, MarksOnlyDead
  <2>3. /\ n_pc # "open.check" /\ n_pc' \notin Opening
        /\ n_pc' \notin {"close.query", "close.set"}
    BY <1>15 DEF FeedPush, Continue, Return, Opening
  <2>4. RestInv'
    BY <1>15 DEF FeedPush, Continue, Return, request, IInv, RestInv
  <2> QED
    BY <2>1, <2>2, <2>3, <2>4, QuietStep DEF Opening
<1>16. CASE FeedWarn
  <2>1. UNCHANGED <<registry, ctl_lock, c_pc, c_name, conn>>
    BY <1>16 DEF FeedWarn, controlvars, cvars, namevars, tvars
  <2>2. MarksOnlyDead
    BY <1>16, SendToMarks DEF FeedWarn, IInv
  <2>3. /\ n_pc # "open.check" /\ n_pc' \notin Opening
        /\ n_pc' \notin {"close.query", "close.set"}
    BY <1>16 DEF FeedWarn, Return, Opening
  <2>4. RestInv'
    BY <1>16 DEF FeedWarn, Return, request, IInv, RestInv
  <2> QED
    BY <2>1, <2>2, <2>3, <2>4, QuietStep DEF Opening
<1>17. CASE FeedRelocks
  <2>1. UNCHANGED <<registry, ctl_lock, c_pc, c_name, conn>>
    BY <1>17 DEF FeedRelocks, controlvars, cvars, namevars, tvars
  <2>2. MarksOnlyDead
    BY <1>17 DEF FeedRelocks, mvars, MarksOnlyDead
  <2>3. /\ n_pc # "open.check" /\ n_pc' \notin Opening
        /\ n_pc' \notin {"close.query", "close.set"}
    BY <1>17 DEF FeedRelocks, Continue, Opening
  <2>4. RestInv'
    BY <1>17 DEF FeedRelocks, Continue, request, IInv, RestInv
  <2> QED
    BY <2>1, <2>2, <2>3, <2>4, QuietStep DEF Opening
<1>18. CASE CloseQuery
  <2>1. UNCHANGED <<registry, ctl_lock, c_pc, c_name, conn>>
    BY <1>18 DEF CloseQuery, controlvars, cvars, namevars, tvars
  <2>2. MarksOnlyDead
    BY <1>18 DEF CloseQuery, mvars, MarksOnlyDead
  <2>3. /\ n_pc # "open.check" /\ n_pc' \notin Opening
        /\ n_pc' = "close.set" => conn[n_hdl'] = "closed"
        /\ n_pc' # "close.query"
    BY <1>18 DEF CloseQuery, Continue, Return, Opening, IInv, HandlerInv
  <2>4. RestInv'
    BY <1>18 DEF CloseQuery, Continue, Return, request, IInv, RestInv
  <2> QED
    BY <2>1, <2>2, <2>3, <2>4, QuietStep DEF Opening
<1>19. CASE CloseSet
  <2>1. UNCHANGED <<registry, ctl_lock, c_pc, c_name, conn>>
    BY <1>19 DEF CloseSet, controlvars, cvars, namevars, tvars
  <2>2. MarksOnlyDead
    <3>1. conn[n_hdl] = "closed" /\ m_status' = [m_status EXCEPT ![n_hdl] = "CLOSE"]
      BY <1>19 DEF CloseSet, setStatus, IInv, HandlerInv
    <3> QED
      BY <3>1 DEF MarksOnlyDead, IInv, TypeOK, MetaConnectionTypeOK
  <2>3. /\ n_pc # "open.check" /\ n_pc' \notin Opening
        /\ n_pc' \notin {"close.query", "close.set"}
    BY <1>19 DEF CloseSet, Return, Opening
  <2>4. RestInv'
    BY <1>19 DEF CloseSet, Return, request, IInv, RestInv
  <2> QED
    BY <2>1, <2>2, <2>3, <2>4, QuietStep DEF Opening
<1> QED
  BY <1>1, <1>2, <1>3, <1>4, <1>5, <1>6, <1>7, <1>8, <1>9, <1>10, <1>11, <1>12, <1>13, <1>14,
      <1>15, <1>16, <1>17, <1>18, <1>19 DEF Handle

(* What the outside brings starts a handler, or ends a connection that no    *)
(* handler is about.                                                         *)
LEMMA KeptByOutside ==
  ASSUME IInv, Outside
  PROVE  Kept'
<1>1. ASSUME n_pc = "idle", UNCHANGED <<registry, ctl_lock, c_pc, c_name, m_status>>,
             NEW h \in Hdl, NEW s \in ConnState \ {"none"},
             conn' = [conn EXCEPT ![h] = s],
             s = "open" => h \notin m_hdl2con,
             n_pc' # "open.check", RestInv', HandlerInv'
      PROVE  Kept'
  <2>1. RegistryConsistent'
    BY <1>1 DEF IInv, RegistryConsistent, registry, Known, queryConUsingAlisa, m_alias
  <2>2. LockInv' /\ NameInv' /\ LeftInv'
    BY <1>1 DEF IInv, LockInv, NameInv, LeftInv, registry, Known, queryConUsingAlisa
  <2>3. StatusInv'
    BY <1>1 DEF IInv, StatusInv, registry, TypeOK, TransportTypeOK, ControlModuleTypeOK
  <2> QED
    BY <1>1, <2>1, <2>2, <2>3 DEF Kept
<1>2. ASSUME NEW h \in Hdl, OnOpen(h) PROVE Kept'
  <2>1. conn[h] = "none" /\ conn' = [conn EXCEPT ![h] = "open"]
    BY <1>2 DEF OnOpen, Upgraded
  <2>2. h \notin m_hdl2con
    BY <2>1 DEF IInv, StatusInv
  <2>3. RestInv' /\ HandlerInv'
    BY <1>2, <2>1, <2>2
    DEF OnOpen, Handles, RestInv, HandlerInv, controlvars, registry, IInv, TypeOK, TransportTypeOK
  <2>4. /\ n_pc = "idle" /\ n_pc' # "open.check"
        /\ UNCHANGED <<registry, ctl_lock, c_pc, c_name, m_status>>
    BY <1>2 DEF OnOpen, Idle, In, Handles, controlvars, cvars, namevars, mvars
  <2> QED
    BY <1>1, <2>1, <2>2, <2>3, <2>4 DEF ConnState
<1>3. ASSUME NEW h \in Hdl, OnFrame(h) PROVE Kept'
  <2>1. UNCHANGED <<registry, ctl_lock, c_pc, c_name, conn>> /\ MarksOnlyDead
    BY <1>3 DEF OnFrame, controlvars, cvars, namevars, tvars, mvars, MarksOnlyDead
  <2>2. n_pc = "idle" /\ n_pc' = "feed.query"
    BY <1>3 DEF OnFrame, Idle, In, Handles
  <2> QED
    BY <2>1, <2>2, QuietStep DEF RestInv, Opening
<1>4. ASSUME NEW h \in Hdl, NEW text \in Texts[h], OnText(h, text) PROVE Kept'
  <2>1. UNCHANGED <<registry, ctl_lock, c_pc, c_name, conn>> /\ MarksOnlyDead
    BY <1>4 DEF OnText, controlvars, cvars, namevars, tvars, mvars, MarksOnlyDead
  <2>2. n_pc = "idle" /\ n_pc' = "cmd.query"
    BY <1>4 DEF OnText, Idle, In, Handles
  <2> QED
    BY <2>1, <2>2, QuietStep DEF RestInv, Opening
<1>5. ASSUME NEW h \in Hdl, OnPeerClose(h) PROVE Kept'
  <2>1. conn' = [conn EXCEPT ![h] = "closing"]
    BY <1>5 DEF OnPeerClose, PeerClosed, CloseSent
  <2>2. n_pc = "idle" /\ n_pc' = "idle" /\ UNCHANGED <<registry, ctl_lock, c_pc, c_name, m_status>>
    BY <1>5 DEF OnPeerClose, Idle, In, nvars, controlvars, cvars, namevars, mvars
  <2>3. RestInv' /\ HandlerInv'
    BY <2>2 DEF RestInv, HandlerInv, Opening
  <2> QED
    BY <1>1, <2>1, <2>2, <2>3 DEF ConnState
<1>6. ASSUME NEW h \in Hdl, OnClose(h) PROVE Kept'
  <2>1. conn' = [conn EXCEPT ![h] = "closed"]
    BY <1>6 DEF OnClose, Terminated
  <2>2. /\ n_pc = "idle" /\ n_pc' = "close.query" /\ n_hdl' = h
        /\ UNCHANGED <<registry, ctl_lock, c_pc, c_name, m_status>>
    BY <1>6 DEF OnClose, Idle, In, Handles, controlvars, cvars, namevars, mvars
  <2>3. RestInv' /\ HandlerInv'
    BY <2>1, <2>2 DEF RestInv, HandlerInv, Opening, IInv, TypeOK, TransportTypeOK
  <2> QED
    BY <1>1, <2>1, <2>2, <2>3 DEF ConnState
<1> QED
  BY <1>2, <1>3, <1>4, <1>5, <1>6 DEF Outside

(* At the start the maps are empty and nobody is anywhere.                   *)
LEMMA IInvInit == Init => IInv
<1> SUFFICES ASSUME Init PROVE IInv
  OBVIOUS
<1>1. TypeOK
  BY TypeInit
<1>2. m_hdl2con = {} /\ ctl_lock = "free" /\ c_pc = "idle" /\ n_pc = "idle"
  BY DEF Init, ControlModuleInit
<1>3. RegistryConsistent
  BY <1>2 DEF RegistryConsistent, Known, queryConUsingAlisa, Init, ControlModuleInit
<1>4. LockInv /\ NameInv /\ RestInv /\ StatusInv /\ HandlerInv /\ LeftInv
  BY <1>2 DEF LockInv, NameInv, RestInv, StatusInv, HandlerInv, LeftInv, Opening
<1> QED
  BY <1>1, <1>3, <1>4 DEF IInv

(* Every step keeps the invariant.                                           *)
LEMMA IInvStep == IInv /\ [Next]_vars => IInv'
<1> SUFFICES ASSUME IInv, [Next]_vars PROVE IInv'
  OBVIOUS
<1>1. TypeOK'
  BY TypeStep DEF IInv
<1>3. Kept'
  <2>1. CASE Outside
    BY <2>1, KeptByOutside
  <2>2. CASE Handle
    BY <2>2, KeptByHandle
  <2>3. CASE Maintain /\ UNCHANGED <<nvars, clients>>
    BY <2>3, KeptByMaintain
  <2>4. ASSUME NEW h \in Hdl, Worker(h), UNCHANGED <<controlvars, nvars, clients>>
        PROVE  Kept'
    BY <2>4, KeptByWorker
  <2>5. CASE UNCHANGED vars
    <3>1. UNCHANGED <<registry, conn, nvars>> /\ MarksOnlyDead
      BY <2>5 DEF vars, controlvars, tvars, mvars, MarksOnlyDead
    <3>2. LockInv' /\ NameInv'
      BY <2>5 DEF vars, controlvars, registry, cvars, namevars, nvars, IInv, LockInv, NameInv,
                  Known, queryConUsingAlisa
    <3> QED
      BY <3>1, <3>2, OtherThreadStep
  <2> QED
    BY <2>1, <2>2, <2>3, <2>4, <2>5 DEF Next, Threads
<1> QED
  BY <1>1, <1>3 DEF IInv, Kept

-----------------------------------------------------------------------------
(* The inductive invariant holds in every state of every run of the server.  *)
THEOREM Invariant == Spec => []IInv
<1> QED
  BY IInvInit, IInvStep, PTL DEF Spec

(* Every variable keeps its type.                                            *)
THEOREM TypeCorrect == Spec => []TypeOK
<1>1. IInv => TypeOK
  BY DEF IInv
<1> QED
  BY <1>1, Invariant, PTL

(* The map of names and the map of handles always say the same, whoever      *)
(* connects, under whatever name, whatever a mutex locked twice does.        *)
THEOREM RegistryAgrees == Spec => []RegistryConsistent
<1>1. IInv => RegistryConsistent
  BY DEF IInv
<1> QED
  BY <1>1, Invariant, PTL

-----------------------------------------------------------------------------
(* What holds where every connection has a name: clearCon then takes out of  *)
(* the maps only the closed owner of the name it runs for, so that names     *)
(* change hands as AliasRegistry says, and a connection that is open is in   *)
(* the maps whenever no handler is about to put it there.                    *)

(* The maps are changed by clearCon and AddConnection and by nothing else.   *)
LEMMA HandleFrame ==
  ASSUME Handle
  PROVE  \/ \E o \in Hdl : OpenCheck(o)
         \/ OpenAdd
         \/ UNCHANGED <<registry, conn>>
<1>1. CASE OpenClear
  BY <1>1 DEF OpenClear, registry, controlvars, tvars
<1>2. CASE OpenDestroy
  BY <1>2 DEF OpenDestroy, DestroyOrphan, registry, controlvars, tvars
<1>3. CASE OpenCleared
  BY <1>3 DEF OpenCleared, registry, controlvars, tvars
<1>4. CASE OpenGreet
  BY <1>4 DEF OpenGreet, registry, controlvars, tvars
<1>5. CASE CmdQuery
  BY <1>5 DEF CmdQuery, registry, controlvars, tvars
<1>6. CASE CmdMethod
  BY <1>6 DEF CmdMethod, registry, controlvars, tvars
<1>7. CASE CmdNext
  BY <1>7 DEF CmdNext, registry, controlvars, tvars
<1>8. CASE CmdLink
  BY <1>8 DEF CmdLink, registry, controlvars, tvars
<1>9. CASE CmdNeed
  BY <1>9 DEF CmdNeed, registry, controlvars, tvars
<1>10. CASE CmdNamed
  BY <1>10 DEF CmdNamed, registry, controlvars, tvars
<1>11. CASE CmdReply
  BY <1>11 DEF CmdReply, registry, controlvars, tvars
<1>12. CASE FeedQuery
  BY <1>12 DEF FeedQuery, registry, controlvars, tvars
<1>13. CASE FeedPush
  BY <1>13 DEF FeedPush, registry, controlvars, tvars
<1>14. CASE FeedWarn
  BY <1>14 DEF FeedWarn, registry, controlvars, tvars
<1>15. CASE FeedRelocks
  BY <1>15 DEF FeedRelocks, registry, controlvars, tvars
<1>16. CASE CloseQuery
  BY <1>16 DEF CloseQuery, registry, controlvars, tvars
<1>17. CASE CloseSet
  BY <1>17 DEF CloseSet, registry, controlvars, tvars
<1> QED
  BY <1>1, <1>2, <1>3, <1>4, <1>5, <1>6, <1>7, <1>8, <1>9, <1>10, <1>11, <1>12, <1>13, <1>14,
      <1>15, <1>16, <1>17 DEF Handle

(* What clearCon takes out under a name is its owner, whose connection has   *)
(* ended.                                                                    *)
LEMMA ClearedOwner ==
  ASSUME IInv, NobodyNameless, NEW o \in Hdl, OpenCheck(o)
  PROVE  \/ UNCHANGED <<registry, conn>>
         \/ /\ m_alias(n_hdl) \in Alias
            /\ m_alias2con[m_alias(n_hdl)] = o
            /\ conn[o] \notin {"none", "open"}
            /\ m_alias2con' = [m_alias2con EXCEPT ![m_alias(n_hdl)] = NoCon]
            /\ m_hdl2con' = m_hdl2con \ {o}
            /\ UNCHANGED conn
<1>1. UNCHANGED conn /\ n_pc = "open.check" /\ o \in n_left
  BY DEF OpenCheck, In, tvars
<1>2. CASE ~Evictable(o)
  BY <1>1, <1>2 DEF OpenCheck
<1>3. CASE Evictable(o)
  <2>1. HasName(n_hdl) /\ m_alias(n_hdl) \in Alias
    BY AliasAssumption DEF NobodyNameless, m_alias, IInv, TypeOK, ServerTypeOK
  <2>2. o \in m_hdl2con /\ m_alias(o) = m_alias(n_hdl)
    BY <1>1, <2>1 DEF IInv, LeftInv
  <2>3. m_alias2con[m_alias(n_hdl)] = o
    BY <2>2 DEF IInv, RegistryConsistent
  <2>4. conn[o] \notin {"none", "open"}
    BY <1>3, <2>2 DEF IInv, StatusInv, Evictable
  <2>5. /\ m_alias2con' = [m_alias2con EXCEPT ![m_alias(n_hdl)] = NoCon]
        /\ m_hdl2con' = m_hdl2con \ {o}
    BY <1>3, <2>1 DEF OpenCheck, Cleared, HasName
  <2> QED
    BY <1>1, <2>1, <2>3, <2>4, <2>5
<1> QED
  BY <1>2, <1>3

(* AddConnection gives a name nobody has to a connection that is open and    *)
(* has none, or sends that connection away.                                  *)
LEMMA AddedOwner ==
  ASSUME IInv, OpenAdd
  PROVE  /\ n_hdl \in Hdl /\ conn[n_hdl] = "open" /\ n_hdl \notin m_hdl2con
         /\ \/ /\ m_alias(n_hdl) \in Alias
               /\ m_alias2con[m_alias(n_hdl)] = NoCon
               /\ m_alias2con' = [m_alias2con EXCEPT ![m_alias(n_hdl)] = n_hdl]
               /\ m_hdl2con' = m_hdl2con \cup {n_hdl}
               /\ UNCHANGED conn
               /\ n_pc' = "open.greet" /\ n_hdl' = n_hdl
            \/ /\ conn' = [conn EXCEPT ![n_hdl] = "closing"]
               /\ UNCHANGED registry
               /\ n_pc' = "idle"
<1>1. n_hdl \in Hdl /\ conn[n_hdl] = "open" /\ n_hdl \notin m_hdl2con
  BY DEF OpenAdd, In, IInv, HandlerInv, Opening, TypeOK, ServerTypeOK
<1>2. CASE NameFree(n_hdl)
  <2>1. m_alias(n_hdl) \in Alias
    BY <1>1, AliasAssumption DEF m_alias
  <2> QED
    BY <1>1, <1>2, <2>1
    DEF OpenAdd, Inserted, Continue, NameFree, Known, queryConUsingAlisa
<1>3. CASE ~NameFree(n_hdl)
  BY <1>1, <1>3 DEF OpenAdd, CloseSent, Return
<1> QED
  BY <1>2, <1>3

(* What the outside brings leaves the maps alone and moves at most one       *)
(* connection one step on its way.                                           *)
LEMMA OutsideFrame ==
  ASSUME Outside
  PROVE  /\ UNCHANGED registry
         /\ \/ UNCHANGED conn
            \/ \E h \in Hdl :
                  \/ conn[h] = "none" /\ conn' = [conn EXCEPT ![h] = "open"]
                  \/ conn[h] = "open" /\ conn' = [conn EXCEPT ![h] = "closing"]
                  \/ conn[h] \in {"open", "closing"} /\ conn' = [conn EXCEPT ![h] = "closed"]
<1>1. ASSUME NEW h \in Hdl, OnOpen(h)
      PROVE  UNCHANGED registry /\ conn[h] = "none" /\ conn' = [conn EXCEPT ![h] = "open"]
  BY <1>1 DEF OnOpen, Upgraded, controlvars
<1>2. ASSUME NEW h \in Hdl, OnFrame(h) PROVE UNCHANGED <<registry, conn>>
  BY <1>2 DEF OnFrame, controlvars, tvars
<1>3. ASSUME NEW h \in Hdl, OnPeerClose(h)
      PROVE  UNCHANGED registry /\ conn[h] = "open" /\ conn' = [conn EXCEPT ![h] = "closing"]
  BY <1>3 DEF OnPeerClose, PeerClosed, CloseSent, controlvars
<1>4. ASSUME NEW h \in Hdl, OnClose(h)
      PROVE  /\ UNCHANGED registry
             /\ conn[h] \in {"open", "closing"} /\ conn' = [conn EXCEPT ![h] = "closed"]
  BY <1>4 DEF OnClose, Terminated, controlvars
<1>5. ASSUME NEW h \in Hdl, NEW text \in Texts[h], OnText(h, text) PROVE UNCHANGED <<registry, conn>>
  BY <1>5 DEF OnText, controlvars, tvars
<1> QED
  BY <1>1, <1>2, <1>3, <1>4, <1>5 DEF Outside

(* All steps, by what they do to the maps and the connections.               *)
LEMMA StepFrame ==
  ASSUME IInv, [Next]_vars
  PROVE  \/ Outside
         \/ \E o \in Hdl : OpenCheck(o)
         \/ OpenAdd
         \/ UNCHANGED <<registry, conn>>
<1>1. CASE Handle
  BY <1>1, HandleFrame
<1>2. CASE Maintain
  BY <1>2, MaintainFrame
<1>3. ASSUME NEW h \in Hdl, Worker(h), UNCHANGED <<controlvars, nvars, clients>>
      PROVE  UNCHANGED <<registry, conn>>
  BY <1>3, WorkerMarks DEF IInv, controlvars
<1>4. CASE UNCHANGED vars
  BY <1>4 DEF vars, controlvars, tvars
<1> QED
  BY <1>1, <1>2, <1>3, <1>4 DEF Next, Threads

-----------------------------------------------------------------------------
(* Where everybody has a name, an open connection that was admitted is not   *)
(* taken out of the maps, whatever the other threads and connections do.     *)
THEOREM OpenStays == ASSUME NobodyNameless PROVE Spec => OpenStaysRegistered
<1>1. ASSUME IInv, [Next]_vars, NEW h \in m_hdl2con, conn[h] = "open"
      PROVE  h \in m_hdl2con'
  <2>1. CASE Outside \/ UNCHANGED <<registry, conn>>
    BY <1>1, <2>1, OutsideFrame DEF registry
  <2>2. ASSUME NEW o \in Hdl, OpenCheck(o) PROVE h \in m_hdl2con'
    BY <1>1, <2>2, ClearedOwner DEF registry
  <2>3. CASE OpenAdd
    BY <1>1, <2>3, AddedOwner DEF registry
  <2> QED
    BY <1>1, <2>1, <2>2, <2>3, StepFrame
<1>2. IInv /\ [Next]_vars => [\A h \in m_hdl2con : conn[h] = "open" => h \in m_hdl2con']_vars
  BY <1>1
<1> QED
  BY <1>2, Invariant, PTL DEF Spec, OpenStaysRegistered

(* The maps and the connections start where AliasRegistry does.              *)
LEMMA RegistryInit == Init => Registry!Init
  BY DEF Init, ControlModuleInit, TransportInit, Registry!Init, Presence

(* Every step of the server is one of AliasRegistry, or leaves its variables *)
(* as they are.                                                              *)
LEMMA RegistryStep ==
  ASSUME IInv, NobodyNameless, [Next]_vars
  PROVE  [Registry!Next]_<<m_alias2con, Presence>>
<1> USE DEF IInv, TypeOK, TransportTypeOK
<1>1. CASE UNCHANGED <<registry, conn>>
  BY <1>1 DEF registry, Presence
<1>2. ASSUME NEW o \in Hdl, OpenCheck(o) PROVE [Registry!Next]_<<m_alias2con, Presence>>
  <2>1. CASE UNCHANGED <<registry, conn>>
    BY <1>1, <2>1
  <2>2. CASE ~UNCHANGED <<registry, conn>>
    <3> DEFINE a == m_alias(n_hdl)
    <3>1. /\ a \in Alias /\ m_alias2con[a] = o /\ conn[o] \notin {"none", "open"}
          /\ m_alias2con' = [m_alias2con EXCEPT ![a] = NoCon]
          /\ UNCHANGED conn
      BY <1>2, <2>2, ClearedOwner
    <3>2. Presence[o] = "gone" /\ o # NoCon /\ UNCHANGED Presence
      BY <3>1, NoConAssumption DEF Presence
    <3>3. Registry!Release(a)
      BY <3>1, <3>2 DEF Registry!Release
    <3> QED
      BY <3>1, <3>3 DEF Registry!Next
  <2> QED
    BY <2>1, <2>2
<1>3. CASE OpenAdd
  <2>1. n_hdl \in Hdl /\ conn[n_hdl] = "open" /\ n_hdl \notin m_hdl2con
    BY <1>3, AddedOwner
  <2>2. Presence[n_hdl] = "here"
    BY <2>1 DEF Presence
  <2>3. CASE conn' = [conn EXCEPT ![n_hdl] = "closing"] /\ UNCHANGED registry
    <3>1. Presence' = [Presence EXCEPT ![n_hdl] = "gone"]
      BY <2>1, <2>3 DEF Presence
    <3> QED
      BY <2>1, <2>2, <2>3, <3>1 DEF Registry!Next, Registry!Leave, registry
  <2>4. CASE ~(conn' = [conn EXCEPT ![n_hdl] = "closing"] /\ UNCHANGED registry)
    <3> DEFINE a == m_alias(n_hdl)
    <3>1. /\ a \in Alias /\ m_alias2con[a] = NoCon
          /\ m_alias2con' = [m_alias2con EXCEPT ![a] = n_hdl]
          /\ UNCHANGED conn
      BY <1>3, <2>4, AddedOwner
    <3>2. \A b \in Alias : m_alias2con[b] # n_hdl
      BY <2>1, NoConAssumption DEF RegistryConsistent, Known, queryConUsingAlisa
    <3>3. Registry!Claim(n_hdl, a)
      BY <2>2, <3>1, <3>2 DEF Registry!Claim, Presence
    <3> QED
      BY <2>1, <3>1, <3>3 DEF Registry!Next
  <2> QED
    BY <2>3, <2>4
<1>4. CASE Outside
  <2>1. UNCHANGED registry
    BY <1>4, OutsideFrame
  <2>2. ASSUME NEW h \in Hdl, conn[h] = "none", conn' = [conn EXCEPT ![h] = "open"]
        PROVE  Registry!Arrive(h)
    <3>1. Presence[h] = "new" /\ Presence' = [Presence EXCEPT ![h] = "here"]
      BY <2>2 DEF Presence
    <3> QED
      BY <2>1, <3>1 DEF Registry!Arrive, registry
  <2>3. ASSUME NEW h \in Hdl, conn[h] = "open", NEW s \in {"closing", "closed"},
               conn' = [conn EXCEPT ![h] = s]
        PROVE  Registry!Leave(h)
    <3>1. Presence[h] = "here" /\ Presence' = [Presence EXCEPT ![h] = "gone"]
      BY <2>3 DEF Presence
    <3> QED
      BY <2>1, <3>1 DEF Registry!Leave, registry
  <2>4. ASSUME NEW h \in Hdl, conn[h] = "closing", conn' = [conn EXCEPT ![h] = "closed"]
        PROVE  UNCHANGED <<m_alias2con, Presence>>
    BY <2>1, <2>4 DEF Presence, registry
  <2> QED
    BY <1>1, <1>4, <2>1, <2>2, <2>3, <2>4, OutsideFrame DEF Registry!Next
<1> QED
  BY <1>1, <1>2, <1>3, <1>4, StepFrame

(* Where everybody has a name, the server implements AliasRegistry.          *)
THEOREM NamesChangeHands == ASSUME NobodyNameless PROVE Spec => RegistrySpec
<1>1. IInv /\ [Next]_vars => [Registry!Next]_<<m_alias2con, Presence>>
  BY RegistryStep
<1> QED
  BY <1>1, RegistryInit, Invariant, PTL DEF Spec, RegistrySpec, Registry!Spec

-----------------------------------------------------------------------------
(* NamedInv is kept by a step that leaves maps, connections and the network  *)
(* thread's place alone.                                                     *)
LEMMA NamedOther ==
  ASSUME NamedInv, UNCHANGED <<m_hdl2con, conn, n_pc, n_hdl>>, fault' \in {fault, "relock"}
  PROVE  NamedInv'
  BY DEF NamedInv, ServedInv, OpenInv, UnreachableBranches

(* The same for a step of a handler that stays with its connection, or ends. *)
LEMMA NamedQuiet ==
  ASSUME NamedInv, UNCHANGED <<m_hdl2con, conn>>,
         n_pc \notin Opening, n_pc' \notin Opening,
         n_pc' \in Serving => n_pc \in Serving /\ n_hdl' = n_hdl,
         fault' \in {fault, "relock"}
  PROVE  NamedInv'
  BY DEF NamedInv, ServedInv, OpenInv, UnreachableBranches

(* A worker keeps NamedInv.                                                  *)
LEMMA NamedWorker ==
  ASSUME IInv, NamedInv, NEW h \in Hdl, Worker(h), UNCHANGED <<controlvars, nvars, clients>>
  PROVE  NamedInv'
<1>1. fault' \in {fault, "relock"}
  BY DEF Worker, getFrame, ForwardFrame, SentBinary, SentBinaryRelocks, EndWorker
<1> QED
  BY <1>1, WorkerMarks, NamedOther DEF IInv, controlvars, registry, nvars

(* And so does the maintenance thread.                                       *)
LEMMA NamedMaintain ==
  ASSUME IInv, NamedInv, Maintain, UNCHANGED <<nvars, clients>>
  PROVE  NamedInv'
<1>1. fault' \in {fault, "relock"}
  BY DEF Maintain, mvars, CtlAcquire, CtlRelease, CtlVisit, CtlGetMetaCon, CtlScan, CtlSuccessor,
         CtlReplaceMetaCon, CtlMatch, CtlMatchRelocks, CtlScanned, CtlDestroy, DestroyOrphan,
         CtlDropped, CtlGetNeed, CtlQuery, CtlAddMetaCon, CtlRmNeed, CtlVisited
<1> QED
  BY <1>1, MaintainFrame, NamedOther DEF registry, nvars

(* The handlers keep it: the ones that serve a connection are about one that *)
(* is open and in the maps, so that they find its object.                    *)
LEMMA NamedHandle ==
  ASSUME NobodyNameless, IInv, NamedInv, Handle
  PROVE  NamedInv'
<1> USE DEF In
<1>1. CASE OpenClear \/ OpenDestroy \/ OpenCleared
  <2>1. UNCHANGED <<m_hdl2con, conn, n_hdl, fault>> /\ n_pc \in Opening /\ n_pc' \in Opening
    BY <1>1 DEF OpenClear, OpenDestroy, OpenCleared, DestroyOrphan, Continue, Opening, registry,
                tvars, mvars, nvars
  <2> QED
    BY <2>1 DEF NamedInv, ServedInv, OpenInv, UnreachableBranches, Opening, Serving
<1>2. ASSUME NEW o \in Hdl, OpenCheck(o) PROVE NamedInv'
  <2>1. n_pc = "open.check" /\ UNCHANGED <<n_pc, n_hdl>> /\ o \in n_left
    BY <1>2 DEF OpenCheck
  <2>2. OpenInv' /\ ServedInv'
    BY <1>2, <2>1, ClearedOwner DEF NamedInv, OpenInv, ServedInv, Serving, registry
  <2>3. HasName(n_hdl) /\ o \in m_hdl2con
    BY <2>1 DEF NobodyNameless, IInv, LeftInv, TypeOK, ServerTypeOK
  <2>4. UnreachableBranches'
    BY <1>2, <2>3 DEF OpenCheck, UnreachableBranches, queryConUsingHdl
  <2> QED
    BY <2>2, <2>4 DEF NamedInv
<1>3. CASE OpenAdd
  <2>1. n_pc = "open.add" /\ UNCHANGED fault
    BY <1>3 DEF OpenAdd
  <2>2. ServedInv' /\ OpenInv'
    BY <1>3, <2>1, AddedOwner
    DEF NamedInv, ServedInv, OpenInv, Serving, Opening, registry, IInv, TypeOK, TransportTypeOK
  <2> QED
    BY <2>1, <2>2 DEF NamedInv, UnreachableBranches
<1>4. CASE CmdQuery \/ FeedQuery
  <2>1. n_pc \in Serving
    BY <1>4 DEF CmdQuery, FeedQuery, Serving
  <2>2. queryConUsingHdl(n_hdl)
    BY <2>1 DEF NamedInv, ServedInv, queryConUsingHdl
  <2>3. /\ UNCHANGED <<m_hdl2con, conn, n_hdl, fault>>
        /\ n_pc \notin Opening /\ n_pc' \notin Opening
    BY <1>4, <2>2 DEF CmdQuery, FeedQuery, Continue, Opening, controlvars, registry, tvars
  <2> QED
    BY <2>1, <2>3, NamedQuiet
<1>5. CASE OpenGreet
  <2>1. UNCHANGED <<m_hdl2con, conn>> /\ fault' \in {fault, "relock"}
    BY <1>5 DEF OpenGreet, controlvars, registry, tvars, mvars
  <2>2. /\ n_pc \notin Opening /\ n_pc' \notin Opening
        /\ n_pc' \in Serving => n_pc \in Serving /\ n_hdl' = n_hdl
    BY <1>5 DEF OpenGreet, Return, Opening, Serving
  <2> QED
    BY <2>1, <2>2, NamedQuiet
<1>6. CASE CmdMethod
  <2>1. UNCHANGED <<m_hdl2con, conn>> /\ fault' \in {fault, "relock"}
    BY <1>6 DEF CmdMethod, controlvars, registry, tvars, mvars
  <2>2. /\ n_pc \notin Opening /\ n_pc' \notin Opening
        /\ n_pc' \in Serving => n_pc \in Serving /\ n_hdl' = n_hdl
    BY <1>6 DEF CmdMethod, Continue, Opening, Serving
  <2> QED
    BY <2>1, <2>2, NamedQuiet
<1>7. CASE CmdNext
  <2>1. UNCHANGED <<m_hdl2con, conn>> /\ fault' \in {fault, "relock"}
    BY <1>7 DEF CmdNext, controlvars, registry, tvars, mvars
  <2>2. /\ n_pc \notin Opening /\ n_pc' \notin Opening
        /\ n_pc' \in Serving => n_pc \in Serving /\ n_hdl' = n_hdl
    BY <1>7 DEF CmdNext, Continue, Opening, Serving
  <2> QED
    BY <2>1, <2>2, NamedQuiet
<1>8. CASE CmdLink
  <2>1. UNCHANGED <<m_hdl2con, conn>> /\ fault' \in {fault, "relock"}
    BY <1>8 DEF CmdLink, controlvars, registry, tvars, mvars
  <2>2. /\ n_pc \notin Opening /\ n_pc' \notin Opening
        /\ n_pc' \in Serving => n_pc \in Serving /\ n_hdl' = n_hdl
    BY <1>8 DEF CmdLink, Continue, Opening, Serving
  <2> QED
    BY <2>1, <2>2, NamedQuiet
<1>9. CASE CmdNeed
  <2>1. UNCHANGED <<m_hdl2con, conn>> /\ fault' \in {fault, "relock"}
    BY <1>9 DEF CmdNeed, controlvars, registry, tvars, mvars
  <2>2. /\ n_pc \notin Opening /\ n_pc' \notin Opening
        /\ n_pc' \in Serving => n_pc \in Serving /\ n_hdl' = n_hdl
    BY <1>9 DEF CmdNeed, Continue, Opening, Serving
  <2> QED
    BY <2>1, <2>2, NamedQuiet
<1>10. CASE CmdNamed
  <2>1. UNCHANGED <<m_hdl2con, conn>> /\ fault' \in {fault, "relock"}
    BY <1>10 DEF CmdNamed, controlvars, registry, tvars, mvars
  <2>2. /\ n_pc \notin Opening /\ n_pc' \notin Opening
        /\ n_pc' \in Serving => n_pc \in Serving /\ n_hdl' = n_hdl
    BY <1>10 DEF CmdNamed, Continue, Opening, Serving
  <2> QED
    BY <2>1, <2>2, NamedQuiet
<1>11. CASE CmdReply
  <2>1. UNCHANGED <<m_hdl2con, conn>> /\ fault' \in {fault, "relock"}
    BY <1>11 DEF CmdReply, controlvars, registry, tvars, mvars
  <2>2. /\ n_pc \notin Opening /\ n_pc' \notin Opening
        /\ n_pc' \in Serving => n_pc \in Serving /\ n_hdl' = n_hdl
    BY <1>11 DEF CmdReply, Return, Opening, Serving
  <2> QED
    BY <2>1, <2>2, NamedQuiet
<1>12. CASE FeedPush
  <2>1. UNCHANGED <<m_hdl2con, conn>> /\ fault' \in {fault, "relock"}
    BY <1>12 DEF FeedPush, controlvars, registry, tvars, mvars
  <2>2. /\ n_pc \notin Opening /\ n_pc' \notin Opening
        /\ n_pc' \in Serving => n_pc \in Serving /\ n_hdl' = n_hdl
    BY <1>12 DEF FeedPush, Continue, Return, Opening, Serving
  <2> QED
    BY <2>1, <2>2, NamedQuiet
<1>13. CASE FeedWarn
  <2>1. UNCHANGED <<m_hdl2con, conn>> /\ fault' \in {fault, "relock"}
    BY <1>13 DEF FeedWarn, controlvars, registry, tvars, mvars
  <2>2. /\ n_pc \notin Opening /\ n_pc' \notin Opening
        /\ n_pc' \in Serving => n_pc \in Serving /\ n_hdl' = n_hdl
    BY <1>13 DEF FeedWarn, Return, Opening, Serving
  <2> QED
    BY <2>1, <2>2, NamedQuiet
<1>14. CASE FeedRelocks
  <2>1. UNCHANGED <<m_hdl2con, conn>> /\ fault' \in {fault, "relock"}
    BY <1>14 DEF FeedRelocks, controlvars, registry, tvars, mvars
  <2>2. /\ n_pc \notin Opening /\ n_pc' \notin Opening
        /\ n_pc' \in Serving => n_pc \in Serving /\ n_hdl' = n_hdl
    BY <1>14 DEF FeedRelocks, Continue, Opening, Serving
  <2> QED
    BY <2>1, <2>2, NamedQuiet
<1>15. CASE CloseQuery
  <2>1. UNCHANGED <<m_hdl2con, conn>> /\ fault' \in {fault, "relock"}
    BY <1>15 DEF CloseQuery, controlvars, registry, tvars, mvars
  <2>2. /\ n_pc \notin Opening /\ n_pc' \notin Opening
        /\ n_pc' \in Serving => n_pc \in Serving /\ n_hdl' = n_hdl
    BY <1>15 DEF CloseQuery, Continue, Return, Opening, Serving
  <2> QED
    BY <2>1, <2>2, NamedQuiet
<1>16. CASE CloseSet
  <2>1. UNCHANGED <<m_hdl2con, conn>> /\ fault' \in {fault, "relock"}
    BY <1>16 DEF CloseSet, controlvars, registry, tvars, mvars
  <2>2. /\ n_pc \notin Opening /\ n_pc' \notin Opening
        /\ n_pc' \in Serving => n_pc \in Serving /\ n_hdl' = n_hdl
    BY <1>16 DEF CloseSet, Return, Opening, Serving
  <2> QED
    BY <2>1, <2>2, NamedQuiet
<1> QED
  BY <1>1, <1>2, <1>3, <1>4, <1>5, <1>6, <1>7, <1>8, <1>9, <1>10, <1>11, <1>12, <1>13, <1>14,
      <1>15, <1>16 DEF Handle

(* A message comes only from a connection that is open, and, with the        *)
(* network thread idle, such a connection is in the maps.                    *)
LEMMA NamedOutside ==
  ASSUME IInv, NamedInv, Outside
  PROVE  NamedInv'
<1>1. n_pc = "idle" /\ UNCHANGED <<m_hdl2con, fault>>
  <2>1. n_pc = "idle" /\ UNCHANGED fault
    BY DEF Outside, OnOpen, OnFrame, OnPeerClose, OnClose, OnText, Idle, In, mvars
  <2> QED
    BY <2>1, OutsideFrame DEF registry
<1>2. \A h \in Hdl : conn[h] = "open" => h \in m_hdl2con
  BY <1>1 DEF NamedInv, OpenInv, Opening
<1>3. UnreachableBranches'
  BY <1>1 DEF NamedInv, UnreachableBranches
<1>4. ASSUME NEW h \in Hdl, OnOpen(h) PROVE ServedInv' /\ OpenInv'
  <2>1. conn' = [conn EXCEPT ![h] = "open"] /\ n_pc' = "open.clear" /\ n_hdl' = h
    BY <1>4 DEF OnOpen, Upgraded, Handles
  <2> QED
    BY <1>1, <1>2, <2>1 DEF ServedInv, OpenInv, Serving, Opening, IInv, TypeOK, TransportTypeOK
<1>5. ASSUME NEW h \in Hdl, OnFrame(h) PROVE ServedInv' /\ OpenInv'
  BY <1>1, <1>2, <1>5 DEF OnFrame, Accepts, Handles, tvars, ServedInv, OpenInv
<1>6. ASSUME NEW h \in Hdl, NEW text \in Texts[h], OnText(h, text) PROVE ServedInv' /\ OpenInv'
  BY <1>1, <1>2, <1>6 DEF OnText, Accepts, Handles, tvars, ServedInv, OpenInv
<1>7. ASSUME NEW h \in Hdl, OnPeerClose(h) \/ OnClose(h)
      PROVE  ServedInv' /\ OpenInv'
  <2>1. PICK s \in {"closing", "closed"} : conn' = [conn EXCEPT ![h] = s]
    BY <1>7 DEF OnPeerClose, PeerClosed, CloseSent, OnClose, Terminated
  <2>2. n_pc' \notin Serving
    BY <1>1, <1>7 DEF OnPeerClose, OnClose, Handles, nvars, Serving
  <2> QED
    BY <1>1, <1>2, <2>1, <2>2 DEF ServedInv, OpenInv, IInv, TypeOK, TransportTypeOK
<1>8. ServedInv' /\ OpenInv'
  BY <1>4, <1>5, <1>6, <1>7 DEF Outside
<1> QED
  BY <1>3, <1>8 DEF NamedInv

(* Where everybody has a name, the branches the source takes for impossible  *)
(* are not taken: the object of an open connection is found.                 *)
THEOREM BranchesUnreached == ASSUME NobodyNameless PROVE Spec => []UnreachableBranches
<1>1. Init => NamedInv
  BY DEF Init, TransportInit, MetaConnectionInit, NamedInv, ServedInv, OpenInv,
         UnreachableBranches, Serving
<1>2. IInv /\ NamedInv /\ [Next]_vars => NamedInv'
  <2> SUFFICES ASSUME IInv, NamedInv, [Next]_vars PROVE NamedInv'
    OBVIOUS
  <2>1. CASE Outside
    BY <2>1, NamedOutside
  <2>2. CASE Handle
    BY <2>2, NamedHandle
  <2>3. CASE Maintain /\ UNCHANGED <<nvars, clients>>
    BY <2>3, NamedMaintain
  <2>4. ASSUME NEW h \in Hdl, Worker(h), UNCHANGED <<controlvars, nvars, clients>>
        PROVE  NamedInv'
    BY <2>4, NamedWorker
  <2>5. CASE UNCHANGED vars
    BY <2>5, NamedOther DEF vars, controlvars, registry, tvars, mvars, nvars
  <2> QED
    BY <2>1, <2>2, <2>3, <2>4, <2>5 DEF Next, Threads
<1>3. NamedInv => UnreachableBranches
  BY DEF NamedInv
<1> QED
  BY <1>1, <1>2, <1>3, Invariant, PTL DEF Spec

=============================================================================
