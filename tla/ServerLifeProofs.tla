--------------------------- MODULE ServerLifeProofs ---------------------------
(* What the objects of the server may be trusted for: nothing that can still *)
(* be reached is destroyed, a destroyed object has neither a thread nor a    *)
(* holder of its mutex, and no name a client has asked for is forgotten.     *)
EXTENDS ServerProofs

(* The parts of LifeInv, besides IInv, that a step has to keep.              *)
LifeKept == VisitInv /\ WorkInv /\ HeldInv /\ ReachedLive /\ FreedDone

(* What can be reached is reached through the maps, the links and the copy.  *)
LEMMA ReachedSame ==
  ASSUME LifeInv, UNCHANGED <<registry, m_toMetaCon, c_inner, life>>
  PROVE  ReachedLive'
  BY DEF LifeInv, ReachedLive, Referenced, registry

(* An object of the maps is live.                                            *)
LEMMA MappedLive ==
  ASSUME LifeInv, NEW h \in m_hdl2con
  PROVE  h \in Hdl /\ life[h] = "live"
  BY DEF LifeInv, IInv, TypeOK, ControlModuleTypeOK, ReachedLive, Referenced

-----------------------------------------------------------------------------
(* A worker locks and unlocks its own object only.                           *)
LEMMA WorkerLocks ==
  ASSUME TypeOK, NEW h \in Hdl, Worker(h)
  PROVE  /\ UNCHANGED <<m_toMetaCon, m_needConnectAlias, life>>
         /\ \A g \in Hdl : w_pc[g] \in {"none", "done"} => w_pc'[g] = w_pc[g]
         /\ \A g \in Hdl :
               \/ Free(g)'
               \/ m_lock'[g] = g /\ w_pc'[g] = "send"
               \/ m_lock'[g] = m_lock[g]
                  /\ (w_pc[g] \in {"send", "stuck"} => w_pc'[g] \in {"send", "stuck"})
<1> USE DEF TypeOK, MetaConnectionTypeOK, Free
<1>1. CASE getFrame(h)
  BY <1>1 DEF getFrame
<1>2. CASE ForwardFrame(h)
  BY <1>2 DEF ForwardFrame, Locked, settings
<1>3. CASE SentBinary(h)
  BY <1>3 DEF SentBinary, Unlocked, settings
<1>4. CASE SentBinaryRelocks(h)
  BY <1>4 DEF SentBinaryRelocks, settings
<1>5. CASE EndWorker(h)
  BY <1>5 DEF EndWorker, settings
<1> QED
  BY <1>1, <1>2, <1>3, <1>4, <1>5 DEF Worker

(* The workers keep what LifeInv says.                                       *)
LEMMA LifeByWorker ==
  ASSUME LifeInv, NEW h \in Hdl, Worker(h), UNCHANGED <<controlvars, nvars, clients>>
  PROVE  LifeKept'
<1>1. /\ UNCHANGED <<m_toMetaCon, life>>
      /\ UNCHANGED <<registry, c_pc, c_todo, c_hdl, c_inner>>
      /\ UNCHANGED <<n_pc, n_hdl, n_tgt, n_rest>>
  BY WorkerLocks DEF LifeInv, IInv, controlvars, cvars, scan, nvars, request
<1>2. VisitInv' /\ WorkInv'
  BY <1>1 DEF LifeInv, VisitInv, WorkInv, registry, m_alias
<1>3. HeldInv'
  BY <1>1, WorkerLocks DEF LifeInv, IInv, HeldInv, Free
<1>4. ReachedLive'
  BY <1>1, ReachedSame
<1>5. FreedDone'
  BY <1>1, WorkerLocks DEF LifeInv, IInv, FreedDone
<1> QED
  BY <1>2, <1>3, <1>4, <1>5 DEF LifeKept

-----------------------------------------------------------------------------
(* Destroying an orphan takes away what only it could reach.                 *)
LEMMA Destroyed ==
  ASSUME LifeInv, DestroyOrphan, UNCHANGED c_inner
  PROVE  /\ ReachedLive' /\ FreedDone'
         /\ \A h \in m_hdl2con : m_toMetaCon'[h] = m_toMetaCon[h]
<1>1. PICK o \in Orphans : StopWorker(o) \/ JoinWorker(o)
  BY DEF DestroyOrphan
<1>2. o \in Hdl /\ ~Referenced(o) /\ UNCHANGED <<registry, w_pc>>
  BY <1>1 DEF Orphans, DestroyOrphan, worker
<1>3. /\ m_toMetaCon \in [Hdl -> Seq(Hdl)]
      /\ life \in [Hdl -> {"none", "live", "stopping", "freed"}]
  BY DEF LifeInv, IInv, TypeOK, MetaConnectionTypeOK
<1>4. CASE StopWorker(o)
  <2>1. ASSUME NEW h \in Hdl, Referenced(h)' PROVE Referenced(h)
    BY <1>2, <1>4, <2>1 DEF StopWorker, Referenced, registry
  <2> QED
    BY <1>2, <1>3, <1>4, <2>1 DEF StopWorker, LifeInv, ReachedLive, FreedDone
<1>5. CASE JoinWorker(o)
  <2>1. m_toMetaCon' = [m_toMetaCon EXCEPT ![o] = <<>>]
    BY <1>5 DEF JoinWorker
  <2>2. ASSUME NEW h \in Hdl, Referenced(h)' PROVE Referenced(h)
    <3>1. ASSUME NEW g \in Hdl, h \in ToSet(m_toMetaCon'[g]) PROVE h \in ToSet(m_toMetaCon[g])
      BY <1>3, <2>1, <3>1 DEF ToSet
    <3> QED
      BY <1>2, <2>2, <3>1 DEF Referenced, registry
  <2>3. o \notin m_hdl2con
    BY <1>2 DEF Referenced
  <2> QED
    BY <1>2, <1>3, <1>5, <2>1, <2>2, <2>3 DEF JoinWorker, LifeInv, ReachedLive, FreedDone
<1> QED
  BY <1>1, <1>4, <1>5

-----------------------------------------------------------------------------
(* A step of the maintenance thread in which it neither holds the lock of an *)
(* object nor changes links.                                                 *)
LEMMA PassStep ==
  ASSUME LifeInv, UNCHANGED <<registry, nvars, mvars, c_inner>>, c_pc \notin CtlHolds,
         VisitInv'
  PROVE  LifeKept'
<1>1. UNCHANGED <<m_toMetaCon, m_lock, life, w_pc>>
  BY DEF mvars, worker
<1>2. WorkInv'
  BY DEF LifeInv, WorkInv, registry, nvars, request, m_alias
<1>3. HeldInv'
  BY <1>1 DEF LifeInv, HeldInv, Free, nvars
<1>4. ReachedLive'
  BY <1>1, ReachedSame
<1>5. FreedDone'
  BY <1>1 DEF LifeInv, FreedDone
<1> QED
  BY <1>2, <1>3, <1>4, <1>5 DEF LifeKept

(* The same for a step that ends with every link leading where something     *)
(* else led before.                                                          *)
LEMMA RelinkStep ==
  ASSUME LifeInv, UNCHANGED <<registry, life, w_pc>>, VisitInv', WorkInv', HeldInv',
         \A o \in Hdl : Referenced(o)' => Referenced(o)
  PROVE  LifeKept'
  BY DEF LifeInv, ReachedLive, FreedDone, LifeKept

(* The maintenance thread visits objects it found in the maps, under the     *)
(* lock of the maps, and keeps what LifeInv says.                            *)
LEMMA LifeByMaintain ==
  ASSUME LifeInv, Maintain, UNCHANGED <<nvars, clients>>
  PROVE  LifeKept'
<1>0. /\ UNCHANGED registry
      /\ TypeOK /\ RegistryConsistent /\ NameInv /\ LockInv /\ VisitInv /\ WorkInv /\ HeldInv
      /\ m_hdl2con \subseteq Hdl /\ c_hdl \in Hdl
      /\ m_toMetaCon \in [Hdl -> Seq(Hdl)] /\ m_lock \in [Hdl -> Thread \cup {"free"}]
  BY MaintainFrame DEF LifeInv, IInv, TypeOK, ControlModuleTypeOK, MetaConnectionTypeOK
<1>w. WorkInv'
  BY <1>0 DEF WorkInv, registry, nvars, request, m_alias
<1>1. CASE CtlAcquire
  BY <1>0, <1>1, PassStep DEF CtlAcquire, At, Goto, CtlHolds, VisitInv, scan, registry
<1>2. CASE CtlRelease
  BY <1>0, <1>2, PassStep DEF CtlRelease, At, Goto, CtlHolds, VisitInv, scan
<1>3. ASSUME NEW h \in Hdl, CtlVisit(h) PROVE LifeKept'
  BY <1>0, <1>3, PassStep DEF CtlVisit, At, Goto, CtlHolds, VisitInv, scan, registry
<1>4. CASE CtlGetMetaCon
  <2>1. VisitInv' /\ HeldInv'
    BY <1>0, <1>4
    DEF CtlGetMetaCon, At, Goto, CtlHolds, VisitInv, HeldInv, Free, mvars, worker, nvars, registry
  <2>2. \A o \in Hdl : Referenced(o)' => Referenced(o)
    BY <1>0, <1>4 DEF CtlGetMetaCon, Referenced, mvars, registry
  <2> QED
    BY <1>0, <1>4, <1>w, <2>1, <2>2, RelinkStep DEF CtlGetMetaCon, mvars, worker
<1>5. CASE CtlScan
  BY <1>0, <1>5, PassStep DEF CtlScan, NextLink, At, Goto, CtlHolds, VisitInv, registry
<1>6. CASE CtlSuccessor
  BY <1>0, <1>6, PassStep DEF CtlSuccessor, NextLink, At, Goto, CtlHolds, VisitInv, registry
<1>7. CASE CtlReplaceMetaCon
  <2>1. VisitInv' /\ HeldInv'
    BY <1>0, <1>7
    DEF CtlReplaceMetaCon, At, Goto, Locked, CtlHolds, VisitInv, HeldInv, Free, worker, nvars,
        registry
  <2>2. \A o \in Hdl : Referenced(o)' => Referenced(o)
    BY <1>0, <1>7 DEF CtlReplaceMetaCon, Referenced, registry
  <2> QED
    BY <1>0, <1>7, <1>w, <2>1, <2>2, RelinkStep DEF CtlReplaceMetaCon, worker
<1>8. CASE CtlMatch
  <2>1. VisitInv' /\ HeldInv'
    BY <1>0, <1>8
    DEF CtlMatch, At, NextLink, Goto, Unlocked, CtlHolds, VisitInv, HeldInv, Free, worker, nvars,
        registry
  <2>2. \A o \in Hdl : Referenced(o)' => Referenced(o)
    <3>1. CASE UNCHANGED m_toMetaCon
      BY <1>0, <1>8, <3>1 DEF CtlMatch, Referenced, registry
    <3>2. CASE m_toMetaCon' = [m_toMetaCon EXCEPT ![c_hdl][c_k] = m_alias2con[c_name]]
      <4>1. c_name \in Alias /\ Known(c_name)
        BY <1>0, <1>8 DEF CtlMatch, At, NameInv, TypeOK, ControlModuleTypeOK
      <4>2. Referenced(m_alias2con[c_name])
        BY <4>1 DEF Referenced
      <4>3. ASSUME NEW o \in Hdl, NEW g \in Hdl, o \in ToSet(m_toMetaCon'[g])
            PROVE  o \in ToSet(m_toMetaCon[g]) \/ o = m_alias2con[c_name]
        BY <1>0, <3>2, <4>3 DEF ToSet
      <4> QED
        BY <1>0, <1>8, <4>2, <4>3 DEF CtlMatch, Referenced, registry
    <3> QED
      BY <1>8, <3>1, <3>2 DEF CtlMatch, queryConUsingAlisa
  <2> QED
    BY <1>0, <1>8, <1>w, <2>1, <2>2, RelinkStep DEF CtlMatch, worker
<1>9. CASE CtlMatchRelocks
  <2>1. VisitInv' /\ HeldInv'
    BY <1>0, <1>9
    DEF CtlMatchRelocks, At, Goto, CtlHolds, VisitInv, HeldInv, Free, worker, nvars, registry
  <2>2. \A o \in Hdl : Referenced(o)' => Referenced(o)
    BY <1>0, <1>9 DEF CtlMatchRelocks, Referenced, scan, registry
  <2> QED
    BY <1>0, <1>9, <1>w, <2>1, <2>2, RelinkStep DEF CtlMatchRelocks, worker
<1>10. CASE CtlScanned
  <2>1. VisitInv' /\ HeldInv'
    BY <1>0, <1>10
    DEF CtlScanned, At, Goto, CtlHolds, VisitInv, HeldInv, Free, mvars, worker, nvars, registry
  <2>2. \A o \in Hdl : Referenced(o)' => Referenced(o)
    BY <1>0, <1>10 DEF CtlScanned, Referenced, mvars, registry, ToSet
  <2> QED
    BY <1>0, <1>10, <1>w, <2>1, <2>2, RelinkStep DEF CtlScanned, mvars, worker
<1>11. CASE CtlDestroy
  <2>1. VisitInv' /\ HeldInv'
    BY <1>0, <1>11
    DEF CtlDestroy, DestroyOrphan, cvars, scan, VisitInv, HeldInv, Free, worker, nvars, registry
  <2>2. ReachedLive' /\ FreedDone'
    BY <1>11, Destroyed DEF CtlDestroy, cvars, scan
  <2> QED
    BY <1>w, <2>1, <2>2 DEF LifeKept
<1>12. CASE CtlDropped
  BY <1>0, <1>12, PassStep DEF CtlDropped, At, Goto, CtlHolds, VisitInv, scan, registry
<1>13. CASE CtlGetNeed
  BY <1>0, <1>13, PassStep DEF CtlGetNeed, At, Goto, CtlHolds, VisitInv, scan, registry
<1>14. ASSUME NEW a \in Alias, CtlQuery(a) PROVE LifeKept'
  BY <1>0, <1>14, PassStep DEF CtlQuery, At, Goto, CtlHolds, VisitInv, scan, registry
<1>15. CASE CtlAddMetaCon
  <2>1. VisitInv' /\ HeldInv'
    BY <1>0, <1>15
    DEF CtlAddMetaCon, At, Goto, CtlHolds, VisitInv, HeldInv, Free, worker, nvars, registry
  <2>2. \A o \in Hdl : Referenced(o)' => Referenced(o)
    <3>1. c_name \in Alias /\ Known(c_name)
      BY <1>0, <1>15 DEF CtlAddMetaCon, At, NameInv, TypeOK, ControlModuleTypeOK
    <3>2. Referenced(m_alias2con[c_name])
      BY <3>1 DEF Referenced
    <3>3. ASSUME NEW o \in Hdl, NEW g \in Hdl, o \in ToSet(m_toMetaCon'[g])
          PROVE  o \in ToSet(m_toMetaCon[g]) \/ o = m_alias2con[c_name]
      BY <1>0, <1>15, <3>3 DEF CtlAddMetaCon, addMetaCon, queryConUsingAlisa, ToSet
    <3> QED
      BY <1>0, <1>15, <3>2, <3>3 DEF CtlAddMetaCon, Referenced, scan, registry
  <2> QED
    BY <1>0, <1>15, <1>w, <2>1, <2>2, RelinkStep DEF CtlAddMetaCon, worker
<1>16. CASE CtlRmNeed
  <2>1. VisitInv' /\ HeldInv'
    BY <1>0, <1>16
    DEF CtlRmNeed, At, Goto, CtlHolds, VisitInv, HeldInv, Free, worker, nvars, registry
  <2>2. \A o \in Hdl : Referenced(o)' => Referenced(o)
    BY <1>0, <1>16 DEF CtlRmNeed, Referenced, scan, registry
  <2> QED
    BY <1>0, <1>16, <1>w, <2>1, <2>2, RelinkStep DEF CtlRmNeed, worker
<1>17. CASE CtlVisited
  BY <1>0, <1>17, PassStep DEF CtlVisited, At, Goto, CtlHolds, VisitInv, scan, registry
<1> QED
  BY <1>1, <1>2, <1>3, <1>4, <1>5, <1>6, <1>7, <1>8, <1>9, <1>10, <1>11, <1>12, <1>13, <1>14,
      <1>15, <1>16, <1>17 DEF Maintain

-----------------------------------------------------------------------------
(* A step of the network thread that leaves maps and objects alone.          *)
LEMMA HandlerStep ==
  ASSUME LifeInv, UNCHANGED <<registry, cvars, m_toMetaCon, life, w_pc>>, WorkInv', HeldInv'
  PROVE  LifeKept'
<1>1. VisitInv'
  BY DEF LifeInv, VisitInv, registry, cvars
<1>2. ReachedLive'
  BY ReachedSame DEF cvars, scan
<1>3. FreedDone'
  BY DEF LifeInv, FreedDone
<1> QED
  BY <1>1, <1>2, <1>3 DEF LifeKept

(* One in which it holds the lock of no object, neither before nor after.    *)
LEMMA UnheldStep ==
  ASSUME LifeInv, UNCHANGED <<registry, cvars, m_toMetaCon, life, w_pc, m_lock>>,
         n_pc \notin NetHolds, WorkInv'
  PROVE  LifeKept'
<1>1. HeldInv'
  BY DEF LifeInv, HeldInv, Free, cvars
<1> QED
  BY <1>1, HandlerStep

(* The handlers find their object in the maps, which only they change, and   *)
(* keep what LifeInv says.                                                   *)
LEMMA LifeByHandle ==
  ASSUME LifeInv, Handle
  PROVE  LifeKept'
<1>0. /\ TypeOK /\ RegistryConsistent /\ LockInv /\ RestInv /\ VisitInv /\ WorkInv /\ HeldInv
      /\ HandlerInv /\ ReachedLive /\ FreedDone
      /\ m_hdl2con \subseteq Hdl /\ n_hdl \in Hdl
      /\ m_alias2con \in [Alias -> Hdl \cup {NoCon}]
      /\ n_rest \in Seq(Alias)
      /\ m_toMetaCon \in [Hdl -> Seq(Hdl)] /\ m_lock \in [Hdl -> Thread \cup {"free"}]
      /\ life \in [Hdl -> {"none", "live", "stopping", "freed"}]
      /\ w_pc \in [Hdl -> {"none", "loop", "frame", "send", "stuck", "done"}]
  BY DEF LifeInv, IInv, TypeOK, ControlModuleTypeOK, MetaConnectionTypeOK, ServerTypeOK
<1>1. CASE OpenClear
  BY <1>0, <1>1, UnheldStep
  DEF OpenClear, In, Continue, mvars, worker, NetHolds, WorkInv, Working
<1>2. ASSUME NEW o \in Hdl, OpenCheck(o) PROVE LifeKept'
  <2>1. /\ n_pc = "open.check" /\ n_pc' = "open.check" /\ c_pc = "idle"
        /\ UNCHANGED <<cvars, m_toMetaCon, life, w_pc, m_lock>>
    BY <1>0, <1>2 DEF OpenCheck, In, LockInv, worker
  <2>2. VisitInv' /\ WorkInv' /\ HeldInv'
    BY <1>0, <2>1 DEF VisitInv, WorkInv, Working, HeldInv, NetHolds, Free, cvars
  <2>3. \A a \in Alias : m_alias2con'[a] \in {m_alias2con[a], NoCon}
    BY <1>0, <1>2 DEF OpenCheck, Cleared, registry
  <2>4. m_hdl2con' \subseteq m_hdl2con
    BY <1>0, <1>2 DEF OpenCheck, Cleared, registry
  <2>5. \A h \in Hdl : Referenced(h)' => Referenced(h)
    BY <2>1, <2>3, <2>4, NoConAssumption DEF Referenced, cvars, scan
  <2> QED
    BY <1>0, <2>1, <2>2, <2>5 DEF ReachedLive, FreedDone, LifeKept
<1>3. CASE OpenDestroy
  <2>1. UNCHANGED <<registry, cvars, w_pc, m_lock>> /\ n_pc = "open.check" /\ n_pc' = n_pc
    BY <1>3 DEF OpenDestroy, DestroyOrphan, In, worker, nvars
  <2>2. VisitInv' /\ WorkInv' /\ HeldInv'
    BY <1>0, <2>1 DEF VisitInv, WorkInv, Working, HeldInv, NetHolds, Free, cvars, registry
  <2>3. ReachedLive' /\ FreedDone'
    BY <1>3, <2>1, Destroyed DEF OpenDestroy, cvars, scan
  <2> QED
    BY <2>2, <2>3 DEF LifeKept
<1>4. CASE OpenCleared
  BY <1>0, <1>4, UnheldStep
  DEF OpenCleared, In, Continue, mvars, worker, NetHolds, WorkInv, Working
<1>5. CASE OpenAdd
  <2>1. /\ n_pc = "open.add" /\ c_pc = "idle" /\ n_pc' \notin Working
        /\ UNCHANGED <<cvars, m_toMetaCon, m_lock>>
    BY <1>0, <1>5 DEF OpenAdd, In, LockInv, Continue, Return, Working
  <2>2. CASE NameFree(n_hdl)
    <3>1. /\ m_alias2con' = [m_alias2con EXCEPT ![m_alias(n_hdl)] = n_hdl]
          /\ m_hdl2con' = m_hdl2con \cup {n_hdl}
          /\ life' = [life EXCEPT ![n_hdl] = "live"]
          /\ w_pc' = [w_pc EXCEPT ![n_hdl] = "loop"]
      BY <1>5, <2>2 DEF OpenAdd, Inserted, Constructed
    <3>2. VisitInv' /\ WorkInv'
      BY <1>0, <2>1 DEF VisitInv, WorkInv, Working, cvars
    <3>3. ASSUME NEW h \in Hdl, Referenced(h)' PROVE life'[h] = "live"
      <4>1. h = n_hdl \/ Referenced(h)
        BY <1>0, <2>1, <3>1, <3>3, AliasAssumption DEF Referenced, m_alias, cvars, scan
      <4> QED
        BY <1>0, <3>1, <4>1 DEF ReachedLive
    <3>4. FreedDone'
      BY <1>0, <3>1 DEF FreedDone
    <3>5. HeldInv'
      <4>1. w_pc[n_hdl] = "none"
        BY <1>0, <2>1 DEF LifeInv, FreshInv, Opening
      <4> QED
        BY <1>0, <2>1, <3>1, <4>1 DEF HeldInv, NetHolds, CtlHolds, Free, cvars
    <3> QED
      BY <3>2, <3>3, <3>4, <3>5 DEF ReachedLive, LifeKept
  <2>3. CASE ~NameFree(n_hdl)
    BY <1>0, <1>5, <2>1, <2>3, UnheldStep DEF OpenAdd, NetHolds, WorkInv, Working
  <2> QED
    BY <2>2, <2>3
<1>6. CASE OpenGreet
  BY <1>0, <1>6, UnheldStep
  DEF OpenGreet, In, Return, mvars, worker, controlvars, NetHolds, WorkInv, Working
<1>7. CASE CmdQuery
  BY <1>0, <1>7, UnheldStep
  DEF CmdQuery, In, Continue, queryConUsingHdl, worker, controlvars, registry, NetHolds, WorkInv,
      Working
<1>8. CASE CmdMethod
  BY <1>0, <1>8, UnheldStep
  DEF CmdMethod, In, Continue, worker, controlvars, registry, NetHolds, WorkInv, Working
<1>9. CASE CmdNext
  <2>1. WorkInv'
    <3>1. Head(n_rest) \in Alias
      BY <1>0, <1>9, HeadTailProperties DEF CmdNext
    <3> QED
      BY <1>0, <1>9, <3>1
      DEF CmdNext, In, Continue, controlvars, registry, WorkInv, Working, RegistryConsistent,
          queryConUsingAlisa, m_alias
  <2> QED
    BY <1>0, <1>9, <2>1, UnheldStep
    DEF CmdNext, In, Continue, mvars, worker, controlvars, registry, NetHolds
<1>10. CASE CmdLink
  <2>1. /\ n_pc = "cmd.link" /\ n_pc' = "cmd.next" /\ n_hdl' = n_hdl
        /\ UNCHANGED <<registry, cvars, life, w_pc, m_lock>>
    BY <1>10 DEF CmdLink, In, Continue, worker, controlvars
  <2>2. VisitInv' /\ WorkInv' /\ HeldInv'
    BY <1>0, <2>1
    DEF VisitInv, WorkInv, Working, HeldInv, NetHolds, Free, cvars, registry
  <2>3. n_tgt \in m_hdl2con
    BY <1>0, <2>1 DEF WorkInv
  <2>4. ASSUME NEW o \in Hdl, NEW g \in Hdl, o \in ToSet(m_toMetaCon'[g])
        PROVE  o \in ToSet(m_toMetaCon[g]) \/ o = n_tgt
    BY <1>0, <1>10, <2>3, <2>4 DEF CmdLink, addMetaCon, ToSet
  <2>5. \A o \in Hdl : Referenced(o)' => Referenced(o)
    BY <1>0, <2>1, <2>3, <2>4 DEF Referenced, cvars, scan, registry
  <2> QED
    BY <2>1, <2>2, <2>5, RelinkStep
<1>11. CASE CmdNeed
  BY <1>0, <1>11, UnheldStep
  DEF CmdNeed, In, Continue, worker, controlvars, registry, NetHolds, WorkInv, Working
<1>12. CASE CmdNamed
  BY <1>0, <1>12, UnheldStep
  DEF CmdNamed, In, Continue, mvars, worker, controlvars, registry, NetHolds, WorkInv, Working
<1>13. CASE CmdReply
  BY <1>0, <1>13, UnheldStep
  DEF CmdReply, In, Return, worker, controlvars, NetHolds, WorkInv, Working
<1>14. CASE FeedQuery
  BY <1>0, <1>14, UnheldStep
  DEF FeedQuery, In, Continue, queryConUsingHdl, worker, controlvars, registry, NetHolds, WorkInv,
      Working
<1>15. CASE FeedPush
  <2>1. n_pc = "feed.push" /\ UNCHANGED <<registry, cvars, m_toMetaCon, life, w_pc>>
    BY <1>15 DEF FeedPush, In, worker, controlvars
  <2>2. \/ n_pc' = "idle" /\ UNCHANGED m_lock
        \/ n_pc' \in {"feed.undef", "feed.warn"} /\ n_hdl' = n_hdl
           /\ m_lock' = [m_lock EXCEPT ![n_hdl] = "net"]
    BY <1>15 DEF FeedPush, Return, Continue, Locked
  <2>3. WorkInv'
    BY <1>0, <2>1, <2>2 DEF WorkInv, Working, registry
  <2>4. HeldInv'
    BY <1>0, <2>1, <2>2 DEF HeldInv, NetHolds, Free, cvars
  <2> QED
    BY <2>1, <2>3, <2>4, HandlerStep
<1>16. CASE FeedWarn
  <2>1. n_pc' = "idle" /\ UNCHANGED <<registry, cvars, m_toMetaCon, life, w_pc>>
    BY <1>16 DEF FeedWarn, Return, worker, controlvars
  <2>2. WorkInv' /\ HeldInv'
    BY <1>0, <1>16, <2>1
    DEF FeedWarn, Unlocked, WorkInv, Working, HeldInv, Free, cvars
  <2> QED
    BY <2>1, <2>2, HandlerStep
<1>17. CASE FeedRelocks
  <2>1. /\ n_pc \in {"feed.undef", "feed.warn"} /\ n_hdl' = n_hdl
        /\ n_pc' \in {"feed.undef", "feed.warn", "stuck"}
        /\ UNCHANGED <<registry, cvars, m_toMetaCon, life, w_pc, m_lock>>
    BY <1>17 DEF FeedRelocks, In, Continue, worker, controlvars
  <2>2. WorkInv' /\ HeldInv'
    BY <1>0, <2>1 DEF WorkInv, Working, HeldInv, NetHolds, Free, registry, cvars
  <2> QED
    BY <2>1, <2>2, HandlerStep
<1>18. CASE CloseQuery
  BY <1>0, <1>18, UnheldStep
  DEF CloseQuery, In, Continue, Return, queryConUsingHdl, mvars, worker, controlvars, registry,
      NetHolds, WorkInv, Working
<1>19. CASE CloseSet
  BY <1>0, <1>19, UnheldStep
  DEF CloseSet, In, Return, worker, controlvars, NetHolds, WorkInv, Working
<1> QED
  BY <1>1, <1>2, <1>3, <1>4, <1>5, <1>6, <1>7, <1>8, <1>9, <1>10, <1>11, <1>12, <1>13, <1>14,
      <1>15, <1>16, <1>17, <1>18, <1>19 DEF Handle

-----------------------------------------------------------------------------
(* What the outside brings finds the network thread idle, and no object is   *)
(* touched before its handler looks into the maps.                           *)
LEMMA LifeByOutside ==
  ASSUME LifeInv, Outside
  PROVE  LifeKept'
<1> DEFINE Untouched ==
      /\ n_pc = "idle" /\ n_pc' \notin Working
      /\ UNCHANGED <<registry, cvars, m_toMetaCon, life, w_pc, m_lock>>
<1>1. ASSUME NEW h \in Hdl, OnOpen(h) PROVE Untouched
  BY <1>1 DEF OnOpen, Idle, In, Handles, Working, controlvars, mvars, worker
<1>2. ASSUME NEW h \in Hdl, OnFrame(h) PROVE Untouched
  BY <1>2 DEF OnFrame, Idle, In, Handles, Working, controlvars, mvars, worker
<1>3. ASSUME NEW h \in Hdl, OnPeerClose(h) PROVE Untouched
  BY <1>3 DEF OnPeerClose, Idle, In, Working, controlvars, mvars, worker, nvars
<1>4. ASSUME NEW h \in Hdl, OnClose(h) PROVE Untouched
  BY <1>4 DEF OnClose, Idle, In, Handles, Working, controlvars, mvars, worker
<1>5. ASSUME NEW h \in Hdl, NEW text \in Texts[h], OnText(h, text) PROVE Untouched
  BY <1>5 DEF OnText, Idle, In, Handles, Working, controlvars, mvars, worker
<1>6. Untouched
  BY <1>1, <1>2, <1>3, <1>4, <1>5 DEF Outside
<1> QED
  BY <1>6, UnheldStep DEF NetHolds, WorkInv, Working

-----------------------------------------------------------------------------
(* A connection whose object is not yet made has no thread and no request.   *)
LEMMA FreshFrame ==
  ASSUME LifeInv, \A h \in Hdl : conn'[h] = "none" => conn[h] = "none",
         n_pc' \in Opening => n_pc \in Opening /\ n_hdl' = n_hdl,
         \A h \in Hdl : w_pc[h] = "none" => w_pc'[h] = "none",
         UNCHANGED asked
  PROVE  FreshInv'
  BY DEF LifeInv, FreshInv

(* The handlers neither make a connection anew nor ask for anything.         *)
LEMMA FreshByHandle ==
  ASSUME LifeInv, Handle
  PROVE  FreshInv'
<1> DEFINE Others ==
      /\ UNCHANGED <<conn, w_pc, asked>>
      /\ n_pc' \in Opening => n_pc \in Opening /\ n_hdl' = n_hdl
<1> USE DEF In, Continue, Return, Opening, tvars, mvars, worker, nvars, clients
<1>1. CASE OpenClear
  BY <1>1, FreshFrame DEF OpenClear
<1>2. ASSUME NEW o \in Hdl, OpenCheck(o) PROVE Others
  BY <1>2 DEF OpenCheck
<1>3. CASE OpenDestroy
  BY <1>3, FreshFrame DEF OpenDestroy, DestroyOrphan
<1>4. CASE OpenCleared
  BY <1>4, FreshFrame DEF OpenCleared
<1>5. CASE OpenAdd
  <2>1. n_hdl \in Hdl /\ conn[n_hdl] = "open" /\ conn \in [Hdl -> ConnState]
        /\ w_pc \in [Hdl -> {"none", "loop", "frame", "send", "stuck", "done"}]
    BY <1>5 DEF OpenAdd, LifeInv, IInv, HandlerInv, TypeOK, TransportTypeOK, ServerTypeOK,
                MetaConnectionTypeOK
  <2>2. UNCHANGED asked /\ n_pc' \notin Opening
    BY <1>5 DEF OpenAdd
  <2>3. \/ UNCHANGED conn /\ w_pc' = [w_pc EXCEPT ![n_hdl] = "loop"]
        \/ UNCHANGED w_pc /\ conn' = [conn EXCEPT ![n_hdl] = "closing"]
    BY <1>5 DEF OpenAdd, Constructed, CloseSent
  <2> QED
    BY <2>1, <2>2, <2>3 DEF LifeInv, FreshInv
<1>6. CASE OpenGreet
  BY <1>6, FreshFrame DEF OpenGreet
<1>7. CASE CmdQuery
  BY <1>7, FreshFrame DEF CmdQuery
<1>8. CASE CmdMethod
  BY <1>8, FreshFrame DEF CmdMethod
<1>9. CASE CmdNext
  BY <1>9, FreshFrame DEF CmdNext
<1>10. CASE CmdLink
  BY <1>10, FreshFrame DEF CmdLink
<1>11. CASE CmdNeed
  BY <1>11, FreshFrame DEF CmdNeed
<1>12. CASE CmdNamed
  BY <1>12, FreshFrame DEF CmdNamed
<1>13. CASE CmdReply
  BY <1>13, FreshFrame DEF CmdReply
<1>14. CASE FeedQuery
  BY <1>14, FreshFrame DEF FeedQuery
<1>15. CASE FeedPush
  BY <1>15, FreshFrame DEF FeedPush
<1>16. CASE FeedWarn
  BY <1>16, FreshFrame DEF FeedWarn
<1>17. CASE FeedRelocks
  BY <1>17, FreshFrame DEF FeedRelocks
<1>18. CASE CloseQuery
  BY <1>18, FreshFrame DEF CloseQuery
<1>19. CASE CloseSet
  BY <1>19, FreshFrame DEF CloseSet
<1> QED
  BY <1>1, <1>2, <1>3, <1>4, <1>5, <1>6, <1>7, <1>8, <1>9, <1>10, <1>11, <1>12, <1>13, <1>14,
      <1>15, <1>16, <1>17, <1>18, <1>19, FreshFrame DEF Handle

(* A connection is made once.                                                *)
LEMMA FreshByOutside ==
  ASSUME LifeInv, Outside
  PROVE  FreshInv'
<1>0. conn \in [Hdl -> ConnState] /\ asked \in [Hdl -> SUBSET Alias] /\ FreshInv
  BY DEF LifeInv, IInv, TypeOK, TransportTypeOK, ServerTypeOK
<1>1. ASSUME NEW h \in Hdl, OnOpen(h) PROVE FreshInv'
  BY <1>0, <1>1 DEF OnOpen, Idle, In, Upgraded, Handles, FreshInv, Opening, mvars, worker, clients
<1>2. ASSUME NEW h \in Hdl, OnFrame(h) PROVE FreshInv'
  BY <1>0, <1>2 DEF OnFrame, Handles, FreshInv, Opening, tvars, mvars, worker
<1>3. ASSUME NEW h \in Hdl, OnPeerClose(h) PROVE FreshInv'
  BY <1>0, <1>3
  DEF OnPeerClose, Idle, In, PeerClosed, CloseSent, FreshInv, Opening, mvars, worker, nvars, clients
<1>4. ASSUME NEW h \in Hdl, OnClose(h) PROVE FreshInv'
  BY <1>0, <1>4 DEF OnClose, Terminated, Handles, FreshInv, Opening, mvars, worker, clients
<1>5. ASSUME NEW h \in Hdl, NEW text \in Texts[h], OnText(h, text) PROVE FreshInv'
  BY <1>0, <1>5 DEF OnText, Accepts, Handles, FreshInv, Opening, tvars, mvars, worker
<1> QED
  BY <1>1, <1>2, <1>3, <1>4, <1>5 DEF Outside

(* At the start there is nothing to reach.                                   *)
LEMMA LifeInit == Init => LifeInv
<1> SUFFICES ASSUME Init PROVE LifeInv
  OBVIOUS
<1>1. IInv
  BY IInvInit
<1>2. VisitInv /\ WorkInv /\ HeldInv /\ FreshInv
  BY DEF Init, ControlModuleInit, MetaConnectionInit, VisitInv, WorkInv, Working, HeldInv, Free,
         FreshInv
<1>3. ASSUME NEW h \in Hdl PROVE ~Referenced(h)
  <2>1. ToSet(<<>>) = {}
    BY EmptySeq DEF ToSet
  <2>2. /\ m_hdl2con = {} /\ m_alias2con = [a \in Alias |-> NoCon]
        /\ m_toMetaCon = [g \in Hdl |-> <<>>] /\ c_inner = <<>>
    BY DEF Init, ControlModuleInit, MetaConnectionInit
  <2> QED
    BY <2>1, <2>2, NoConAssumption DEF Referenced
<1>4. FreedDone
  BY DEF Init, MetaConnectionInit, FreedDone
<1> QED
  BY <1>1, <1>2, <1>3, <1>4 DEF LifeInv, ReachedLive

(* Every step keeps the invariant.                                           *)
LEMMA LifeStep == LifeInv /\ [Next]_vars => LifeInv'
<1> SUFFICES ASSUME LifeInv, [Next]_vars PROVE LifeInv'
  OBVIOUS
<1>1. IInv'
  BY IInvStep DEF LifeInv
<1>2. CASE Outside
  BY <1>1, <1>2, LifeByOutside, FreshByOutside DEF LifeInv, LifeKept
<1>3. CASE Handle
  BY <1>1, <1>3, LifeByHandle, FreshByHandle DEF LifeInv, LifeKept
<1>4. CASE Maintain /\ UNCHANGED <<nvars, clients>>
  <2>1. UNCHANGED w_pc
    BY <1>4, MaintainFrame DEF worker
  <2>2. FreshInv'
    BY <1>4, <2>1, MaintainFrame, FreshFrame DEF nvars, clients
  <2> QED
    BY <1>1, <1>4, <2>2, LifeByMaintain DEF LifeInv, LifeKept
<1>5. ASSUME NEW h \in Hdl, Worker(h), UNCHANGED <<controlvars, nvars, clients>> PROVE LifeInv'
  <2>1. FreshInv'
    BY <1>5, WorkerLocks, WorkerMarks, FreshFrame DEF LifeInv, IInv, nvars, clients
  <2> QED
    BY <1>1, <1>5, <2>1, LifeByWorker DEF LifeInv, LifeKept
<1>6. CASE UNCHANGED vars
  BY <1>1, <1>6
  DEF vars, tvars, mvars, settings, worker, controlvars, registry, cvars, scan, namevars, nvars,
      request, clients, LifeInv, VisitInv, WorkInv, HeldInv, FreshInv, ReachedLive, FreedDone,
      Referenced, Free, m_alias
<1> QED
  BY <1>2, <1>3, <1>4, <1>5, <1>6 DEF Next, Threads

(* Nothing that can still be reached is destroyed, and what is destroyed has *)
(* no thread left and its mutex is not held.                                 *)
THEOREM NothingDangles == Spec => []NoDangling
<1>1. LifeInv => NoDangling
  <2> SUFFICES ASSUME LifeInv, NEW h \in Hdl, life[h] = "freed" PROVE w_pc[h] = "done" /\ Free(h)
    BY DEF LifeInv, ReachedLive, NoDangling
  <2>1. w_pc[h] = "done" /\ h \notin m_hdl2con
    BY MappedLive DEF LifeInv, FreedDone
  <2>2. NetHolds \subseteq Working /\ CtlHolds \cap {"idle", "visit"} = {}
    BY DEF NetHolds, Working, CtlHolds
  <2> QED
    BY <2>1, <2>2 DEF LifeInv, HeldInv, WorkInv, VisitInv
<1> QED
  BY <1>1, LifeInit, LifeStep, PTL DEF Spec

-----------------------------------------------------------------------------
(* Links that are added, or replaced by one of the same name, keep all names.*)
LEMMA LinkAdded ==
  ASSUME TypeOK, NEW g \in Hdl, NEW o \in Hdl, addMetaCon(g, o)
  PROVE  /\ LinkedTo(g, m_alias(o))'
         /\ \A h \in Hdl : \A a \in Alias : LinkedTo(h, a) => LinkedTo(h, a)'
<1> DEFINE links == m_toMetaCon[g]
<1>1. /\ m_toMetaCon \in [Hdl -> Seq(Hdl)] /\ links \in Seq(Hdl)
      /\ m_toMetaCon' = [m_toMetaCon EXCEPT ![g] = Append(links, o)]
  BY DEF TypeOK, MetaConnectionTypeOK, addMetaCon
<1>2. /\ Len(links) \in Nat /\ Len(Append(links, o)) = Len(links) + 1
      /\ Append(links, o)[Len(links) + 1] = o
      /\ \A i \in 1..Len(links) : Append(links, o)[i] = links[i]
  BY <1>1, AppendProperties, LenProperties
<1>3. LinkedTo(g, m_alias(o))'
  <2>1. Len(links) + 1 \in 1..Len(m_toMetaCon'[g]) /\ m_toMetaCon'[g][Len(links) + 1] = o
    BY <1>1, <1>2
  <2> QED
    BY <2>1 DEF LinkedTo, m_alias
<1>4. ASSUME NEW h \in Hdl, NEW a \in Alias, LinkedTo(h, a) PROVE LinkedTo(h, a)'
  <2>1. PICK i \in 1..Len(m_toMetaCon[h]) : m_alias(m_toMetaCon[h][i]) = a
    BY <1>4 DEF LinkedTo
  <2>2. i \in 1..Len(m_toMetaCon'[h]) /\ m_toMetaCon'[h][i] = m_toMetaCon[h][i]
    BY <1>1, <1>2
  <2> QED
    BY <2>1, <2>2 DEF LinkedTo, m_alias
<1> QED
  BY <1>3, <1>4

LEMMA LinkReplaced ==
  ASSUME TypeOK, NEW g \in Hdl, NEW k \in 1..Len(m_toMetaCon[g]), NEW o \in Hdl,
         m_alias(m_toMetaCon[g][k]) = m_alias(o),
         m_toMetaCon' = [m_toMetaCon EXCEPT ![g][k] = o]
  PROVE  \A h \in Hdl : \A a \in Alias : LinkedTo(h, a) => LinkedTo(h, a)'
<1>1. m_toMetaCon \in [Hdl -> Seq(Hdl)]
  BY DEF TypeOK, MetaConnectionTypeOK
<1> SUFFICES ASSUME NEW h \in Hdl, NEW a \in Alias, LinkedTo(h, a) PROVE LinkedTo(h, a)'
  OBVIOUS
<1>2. PICK i \in 1..Len(m_toMetaCon[h]) : m_alias(m_toMetaCon[h][i]) = a
  BY DEF LinkedTo
<1>3. i \in 1..Len(m_toMetaCon'[h])
      /\ (m_toMetaCon'[h][i] = m_toMetaCon[h][i] \/ (h = g /\ i = k /\ m_toMetaCon'[h][i] = o))
  BY <1>1
<1> QED
  BY <1>2, <1>3 DEF LinkedTo, m_alias

-----------------------------------------------------------------------------
(* A step that touches neither links nor waiting names, and no names that    *)
(* are still in a command.                                                   *)
LEMMA QuietRequest ==
  ASSUME RequestInv, UNCHANGED <<m_toMetaCon, m_needConnectAlias, asked>>,
         m_hdl2con' \subseteq m_hdl2con,
         n_pc \in Naming => n_pc' \in Naming /\ UNCHANGED <<n_hdl, n_rest>>,
         c_pc' = "rm" => UNCHANGED <<c_pc, c_hdl, c_name>>
  PROVE  LinkedInv' /\ RememberInv'
<1>1. ASSUME NEW h \in Hdl, NEW a \in Alias PROVE LinkedTo(h, a)' = LinkedTo(h, a)
  BY DEF LinkedTo, m_alias
<1>2. LinkedInv'
  BY DEF RequestInv, LinkedInv, LinkedTo, m_alias
<1>3. RememberInv'
  BY DEF RequestInv, RememberInv, Remembered, LinkedTo, m_alias
<1> QED
  BY <1>2, <1>3

(* A worker looks at links, and at nothing else of this.                     *)
LEMMA RequestByWorker ==
  ASSUME RequestInv, NEW h \in Hdl, Worker(h), UNCHANGED <<controlvars, nvars, clients>>
  PROVE  LinkedInv' /\ RememberInv'
<1>1. UNCHANGED <<m_toMetaCon, m_needConnectAlias>>
  BY WorkerLocks DEF RequestInv, LifeInv, IInv
<1> QED
  BY <1>1, QuietRequest DEF controlvars, registry, cvars, namevars, nvars, request, clients

(* The maintenance thread forgets that a name waits only after it has made   *)
(* the link.                                                                 *)
LEMMA RequestByMaintain ==
  ASSUME RequestInv, Maintain, UNCHANGED <<nvars, clients>>
  PROVE  LinkedInv' /\ RememberInv'
<1>0. /\ UNCHANGED <<m_hdl2con, n_pc, n_hdl, n_rest, asked>>
      /\ LifeInv /\ TypeOK /\ RegistryConsistent /\ NameInv /\ VisitInv
      /\ LinkedInv /\ RememberInv
      /\ m_hdl2con \subseteq Hdl /\ c_hdl \in Hdl /\ c_name \in Alias
      /\ asked \in [Hdl -> SUBSET Alias]
      /\ m_needConnectAlias \in [Hdl -> SUBSET Alias]
      /\ m_toMetaCon \in [Hdl -> Seq(Hdl)]
  BY MaintainFrame
  DEF RequestInv, LifeInv, IInv, TypeOK, ControlModuleTypeOK, MetaConnectionTypeOK, ServerTypeOK,
      registry, nvars, request, clients
<1>k. ASSUME UNCHANGED m_needConnectAlias,
             \A h \in m_hdl2con : \A a \in Alias : LinkedTo(h, a) => LinkedTo(h, a)'
      PROVE  RememberInv'
  BY <1>0, <1>k DEF RememberInv, Remembered
<1>n. c_pc \in {"replace", "match", "add"} =>
         Known(c_name) /\ m_alias2con[c_name] \in Hdl /\ m_alias(m_alias2con[c_name]) = c_name
  BY <1>0 DEF NameInv, RegistryConsistent
<1> USE DEF At, Goto, mvars, settings
<1>1. CASE CtlAcquire
  BY <1>0, <1>1, QuietRequest DEF CtlAcquire
<1>2. CASE CtlRelease
  BY <1>0, <1>2, QuietRequest DEF CtlRelease
<1>3. ASSUME NEW h \in Hdl, CtlVisit(h) PROVE LinkedInv' /\ RememberInv'
  BY <1>0, <1>3, QuietRequest DEF CtlVisit
<1>4. CASE CtlGetMetaCon
  BY <1>0, <1>4, QuietRequest DEF CtlGetMetaCon
<1>5. CASE CtlScan
  BY <1>0, <1>5, QuietRequest DEF CtlScan, NextLink
<1>6. CASE CtlSuccessor
  BY <1>0, <1>6, QuietRequest DEF CtlSuccessor, NextLink
<1>7. CASE CtlReplaceMetaCon
  BY <1>0, <1>7, QuietRequest DEF CtlReplaceMetaCon
<1>8. CASE CtlMatch
  <2>1. LinkedInv'
    BY <1>8 DEF CtlMatch, NextLink, LinkedInv
  <2>2. CASE UNCHANGED m_toMetaCon
    BY <1>0, <1>8, <2>1, <2>2, QuietRequest DEF CtlMatch, NextLink
  <2>3. CASE /\ c_k <= Len(m_toMetaCon[c_hdl]) /\ Matches(m_toMetaCon[c_hdl][c_k])
             /\ m_toMetaCon' = [m_toMetaCon EXCEPT ![c_hdl][c_k] = m_alias2con[c_name]]
    <3>1. c_pc = "match" /\ UNCHANGED m_needConnectAlias
      BY <1>8 DEF CtlMatch
    <3>2. c_k \in 1..Len(m_toMetaCon[c_hdl])
      BY <1>0, <2>3 DEF TypeOK, ControlModuleTypeOK
    <3>3. m_alias(m_toMetaCon[c_hdl][c_k]) = m_alias(m_alias2con[c_name])
      BY <1>n, <2>3, <3>1 DEF Matches
    <3>4. \A h \in Hdl : \A a \in Alias : LinkedTo(h, a) => LinkedTo(h, a)'
      BY <1>0, <1>n, <2>3, <3>1, <3>2, <3>3, LinkReplaced
    <3> QED
      BY <1>0, <1>k, <2>1, <3>1, <3>4
  <2> QED
    BY <1>8, <2>2, <2>3 DEF CtlMatch, queryConUsingAlisa
<1>9. CASE CtlMatchRelocks
  BY <1>0, <1>9, QuietRequest DEF CtlMatchRelocks
<1>10. CASE CtlScanned
  BY <1>0, <1>10, QuietRequest DEF CtlScanned
<1>11. CASE CtlDestroy
  <2>1. \A h \in m_hdl2con : m_toMetaCon'[h] = m_toMetaCon[h]
    BY <1>0, <1>11, Destroyed DEF CtlDestroy, cvars, scan
  <2>2. UNCHANGED m_needConnectAlias /\ c_pc' = "drop"
    BY <1>11 DEF CtlDestroy, DestroyOrphan, cvars
  <2> QED
    BY <1>k, <2>1, <2>2 DEF LinkedTo, m_alias, LinkedInv
<1>12. CASE CtlDropped
  BY <1>0, <1>12, QuietRequest DEF CtlDropped
<1>13. CASE CtlGetNeed
  BY <1>0, <1>13, QuietRequest DEF CtlGetNeed
<1>14. ASSUME NEW a \in Alias, CtlQuery(a) PROVE LinkedInv' /\ RememberInv'
  BY <1>0, <1>14, QuietRequest DEF CtlQuery
<1>15. CASE CtlAddMetaCon
  <2>1. c_pc = "add" /\ UNCHANGED <<c_hdl, c_name, m_needConnectAlias>>
        /\ addMetaCon(c_hdl, m_alias2con[c_name])
    BY <1>15 DEF CtlAddMetaCon, queryConUsingAlisa, namevars
  <2>2. /\ LinkedTo(c_hdl, c_name)'
        /\ \A h \in Hdl : \A a \in Alias : LinkedTo(h, a) => LinkedTo(h, a)'
    BY <1>0, <1>n, <2>1, LinkAdded
  <2> QED
    BY <1>0, <1>k, <2>1, <2>2 DEF LinkedInv
<1>16. CASE CtlRmNeed
  <2>1. /\ c_pc = "rm" /\ c_pc' = "query" /\ UNCHANGED m_toMetaCon
        /\ m_needConnectAlias' = [m_needConnectAlias EXCEPT ![c_hdl] = @ \ {c_name}]
    BY <1>16 DEF CtlRmNeed, rmNeedConnectAlias
  <2>2. LinkedTo(c_hdl, c_name)
    BY <1>0, <2>1 DEF LinkedInv
  <2>3. ASSUME NEW h \in m_hdl2con, NEW a \in Alias, Remembered(h, a) PROVE Remembered(h, a)'
    <3>1. a \in m_needConnectAlias[h] => a \in m_needConnectAlias'[h] \/ LinkedTo(h, a)
      BY <1>0, <2>1, <2>2
    <3>2. LinkedTo(h, a) => LinkedTo(h, a)'
      BY <2>1 DEF LinkedTo, m_alias
    <3> QED
      BY <1>0, <2>3, <3>1, <3>2 DEF Remembered
  <2> QED
    BY <1>0, <2>1, <2>3 DEF RememberInv, LinkedInv
<1>17. CASE CtlVisited
  BY <1>0, <1>17, QuietRequest DEF CtlVisited
<1> QED
  BY <1>1, <1>2, <1>3, <1>4, <1>5, <1>6, <1>7, <1>8, <1>9, <1>10, <1>11, <1>12, <1>13, <1>14,
      <1>15, <1>16, <1>17 DEF Maintain

(* The handlers link a name of the command, or let it wait, before they go   *)
(* on to the next.                                                           *)
LEMMA RequestByHandle ==
  ASSUME RequestInv, Handle
  PROVE  LinkedInv' /\ RememberInv'
<1>0. /\ LifeInv /\ TypeOK /\ LockInv /\ RestInv /\ WorkInv /\ FreshInv
      /\ HandlerInv /\ LinkedInv /\ RememberInv
      /\ m_hdl2con \subseteq Hdl /\ n_hdl \in Hdl /\ n_rest \in Seq(Alias)
      /\ c_hdl \in Hdl /\ c_name \in Alias
      /\ asked \in [Hdl -> SUBSET Alias]
      /\ m_needConnectAlias \in [Hdl -> SUBSET Alias]
      /\ m_toMetaCon \in [Hdl -> Seq(Hdl)]
  BY DEF RequestInv, LifeInv, IInv, TypeOK, ControlModuleTypeOK, MetaConnectionTypeOK,
         ServerTypeOK
<1>r. ASSUME n_rest # <<>>, NEW a \in ToSet(n_rest) PROVE a = Head(n_rest) \/ a \in ToSet(Tail(n_rest))
  <2>1. PICK i \in 1..Len(n_rest) : a = n_rest[i]
    BY <1>0, <1>r DEF ToSet
  <2>2. CASE i = 1
    BY <1>0, <1>r, <2>1, <2>2
  <2>3. CASE i # 1
    <3>1. /\ i - 1 \in 1..Len(Tail(n_rest)) /\ Tail(n_rest)[i - 1] = a
          /\ DOMAIN Tail(n_rest) = 1..Len(Tail(n_rest))
      BY <1>0, <1>r, <2>1, <2>3
    <3> QED
      BY <3>1 DEF ToSet
  <2> QED
    BY <2>2, <2>3
<1> USE DEF In, Continue, Return, mvars, settings, worker, controlvars, registry, cvars, scan,
            namevars, clients
<1>1. CASE OpenClear
  BY <1>0, <1>1, QuietRequest DEF OpenClear, Naming, request
<1>2. ASSUME NEW o \in Hdl, OpenCheck(o) PROVE LinkedInv' /\ RememberInv'
  <2>1. m_hdl2con' \subseteq m_hdl2con
    BY <1>0, <1>2 DEF OpenCheck, Cleared
  <2> QED
    BY <1>0, <1>2, <2>1, QuietRequest DEF OpenCheck, Naming, request
<1>3. CASE OpenDestroy
  <2>1. /\ n_pc = "open.check" /\ c_pc = "idle" /\ UNCHANGED <<cvars, nvars, asked, m_hdl2con>>
        /\ UNCHANGED m_needConnectAlias
    BY <1>0, <1>3 DEF OpenDestroy, DestroyOrphan, LockInv
  <2>2. \A h \in m_hdl2con : m_toMetaCon'[h] = m_toMetaCon[h]
    BY <1>0, <1>3, Destroyed DEF OpenDestroy
  <2> QED
    BY <1>0, <2>1, <2>2
    DEF LinkedInv, RememberInv, Remembered, LinkedTo, m_alias, Naming, nvars
<1>4. CASE OpenCleared
  BY <1>0, <1>4, QuietRequest DEF OpenCleared, Naming, request
<1>5. CASE OpenAdd
  <2>1. /\ n_pc = "open.add" /\ c_pc = "idle" /\ c_pc' = c_pc
        /\ UNCHANGED <<asked, m_toMetaCon, m_needConnectAlias>>
        /\ m_hdl2con' \subseteq m_hdl2con \cup {n_hdl}
    BY <1>0, <1>5 DEF OpenAdd, LockInv, Inserted
  <2>2. asked[n_hdl] = {}
    BY <1>0, <2>1 DEF FreshInv, Opening
  <2> QED
    BY <1>0, <2>1, <2>2
    DEF LinkedInv, RememberInv, Remembered, LinkedTo, m_alias, Naming
<1>6. CASE OpenGreet
  BY <1>0, <1>6, QuietRequest DEF OpenGreet, Naming, request
<1>7. CASE CmdQuery
  BY <1>0, <1>7, QuietRequest DEF CmdQuery, Naming, request
<1>8. CASE CmdMethod
  BY <1>0, <1>8, QuietRequest DEF CmdMethod, Naming, request
<1>9. CASE CmdNext
  BY <1>0, <1>9, QuietRequest DEF CmdNext, Naming, request
<1>10. CASE CmdLink
  <2>1. /\ n_pc = "cmd.link" /\ n_pc' = "cmd.next" /\ n_hdl' = n_hdl /\ n_rest' = Tail(n_rest)
        /\ UNCHANGED <<m_hdl2con, asked, m_needConnectAlias, c_pc, c_hdl, c_name>>
        /\ addMetaCon(n_hdl, n_tgt)
    BY <1>10 DEF CmdLink
  <2>2. n_rest # <<>> /\ n_tgt \in Hdl /\ m_alias(n_tgt) = Head(n_rest)
    BY <1>0, <2>1 DEF RestInv, WorkInv
  <2>3. \A h \in Hdl : \A a \in Alias : LinkedTo(h, a) => LinkedTo(h, a)'
    BY <1>0, <2>1, <2>2, LinkAdded
  <2>l. ASSUME NEW a \in Alias, a = Head(n_rest) PROVE LinkedTo(n_hdl, a)'
    <3>1. PICK o \in Hdl : o = n_tgt
      BY <2>2
    <3>2. LinkedTo(n_hdl, m_alias(o))'
      BY <1>0, <2>1, <3>1, LinkAdded
    <3> QED
      BY <2>2, <2>l, <3>1, <3>2 DEF LinkedTo, m_alias
  <2>4. ASSUME NEW h \in m_hdl2con, NEW a \in asked[h] PROVE Remembered(h, a)'
    <3>1. h \in Hdl /\ a \in Alias /\ Remembered(h, a)
      BY <1>0 DEF RememberInv
    <3>2. n_hdl = h /\ a \in ToSet(n_rest) => LinkedTo(h, a)' \/ a \in ToSet(Tail(n_rest))
      BY <1>r, <2>1, <2>2, <2>l, <3>1
    <3>3. LinkedTo(h, a) => LinkedTo(h, a)'
      BY <2>3, <3>1
    <3> QED
      BY <2>1, <3>1, <3>2, <3>3 DEF Remembered, Naming
  <2>5. LinkedInv'
    BY <1>0, <2>1, <2>3 DEF LinkedInv
  <2> QED
    BY <2>1, <2>4, <2>5 DEF RememberInv
<1>11. CASE CmdNeed
  <2>1. /\ n_pc = "cmd.need" /\ n_pc' = "cmd.next" /\ n_hdl' = n_hdl /\ n_rest' = Tail(n_rest)
        /\ UNCHANGED <<m_hdl2con, asked, m_toMetaCon, c_pc, c_hdl, c_name>>
        /\ m_needConnectAlias' = [m_needConnectAlias EXCEPT ![n_hdl] = @ \cup {Head(n_rest)}]
    BY <1>11 DEF CmdNeed, addNeedConnectAlias
  <2>2. n_rest # <<>>
    BY <1>0, <2>1 DEF RestInv
  <2>3. \A h \in Hdl : \A a \in Alias : LinkedTo(h, a) => LinkedTo(h, a)'
    BY <2>1 DEF LinkedTo, m_alias
  <2>4. ASSUME NEW h \in m_hdl2con, NEW a \in asked[h] PROVE Remembered(h, a)'
    <3>1. h \in Hdl /\ a \in Alias /\ Remembered(h, a)
      BY <1>0 DEF RememberInv
    <3>2. n_hdl = h /\ a \in ToSet(n_rest) =>
             a \in m_needConnectAlias'[h] \/ a \in ToSet(Tail(n_rest))
      BY <1>0, <1>r, <2>1, <2>2
    <3>3. a \in m_needConnectAlias[h] => a \in m_needConnectAlias'[h]
      BY <1>0, <2>1, <3>1
    <3>4. LinkedTo(h, a) => LinkedTo(h, a)'
      BY <2>3, <3>1
    <3> QED
      BY <2>1, <3>1, <3>2, <3>3, <3>4 DEF Remembered, Naming
  <2>5. LinkedInv'
    BY <1>0, <2>1, <2>3 DEF LinkedInv
  <2> QED
    BY <2>1, <2>4, <2>5 DEF RememberInv
<1>12. CASE CmdNamed
  <2>1. n_rest = <<>> /\ UNCHANGED <<m_hdl2con, asked, m_toMetaCon, m_needConnectAlias>>
        /\ UNCHANGED <<c_pc, c_hdl, c_name>>
    BY <1>12 DEF CmdNamed
  <2>2. ToSet(n_rest) = {}
    BY <2>1, EmptySeq DEF ToSet
  <2>3. \A h \in Hdl : \A a \in Alias : LinkedTo(h, a) => LinkedTo(h, a)'
    BY <2>1 DEF LinkedTo, m_alias
  <2> QED
    BY <1>0, <2>1, <2>2, <2>3 DEF LinkedInv, RememberInv, Remembered
<1>13. CASE CmdReply
  BY <1>0, <1>13, QuietRequest DEF CmdReply, Naming, request
<1>14. CASE FeedQuery
  BY <1>0, <1>14, QuietRequest DEF FeedQuery, Naming, request
<1>15. CASE FeedPush
  BY <1>0, <1>15, QuietRequest DEF FeedPush, Naming, request
<1>16. CASE FeedWarn
  BY <1>0, <1>16, QuietRequest DEF FeedWarn, Naming, request
<1>17. CASE FeedRelocks
  BY <1>0, <1>17, QuietRequest DEF FeedRelocks, Naming, request
<1>18. CASE CloseQuery
  BY <1>0, <1>18, QuietRequest DEF CloseQuery, Naming, request
<1>19. CASE CloseSet
  BY <1>0, <1>19, QuietRequest DEF CloseSet, Naming, request
<1> QED
  BY <1>1, <1>2, <1>3, <1>4, <1>5, <1>6, <1>7, <1>8, <1>9, <1>10, <1>11, <1>12, <1>13, <1>14,
      <1>15, <1>16, <1>17, <1>18, <1>19 DEF Handle

(* A command brings its names with it, under the keys the code looks for.    *)
LEMMA RequestByOutside ==
  ASSUME KeysAsCoded, RequestInv, Outside
  PROVE  LinkedInv' /\ RememberInv'
<1> USE DEF In, Idle, Handles, Naming, mvars, settings, worker, controlvars, registry, cvars,
            scan, namevars, nvars, request, clients
<1>1. ASSUME NEW h \in Hdl, OnOpen(h) PROVE LinkedInv' /\ RememberInv'
  BY <1>1, QuietRequest DEF OnOpen
<1>2. ASSUME NEW h \in Hdl, OnFrame(h) PROVE LinkedInv' /\ RememberInv'
  BY <1>2, QuietRequest DEF OnFrame
<1>3. ASSUME NEW h \in Hdl, OnPeerClose(h) PROVE LinkedInv' /\ RememberInv'
  BY <1>3, QuietRequest DEF OnPeerClose
<1>4. ASSUME NEW h \in Hdl, OnClose(h) PROVE LinkedInv' /\ RememberInv'
  BY <1>4, QuietRequest DEF OnClose
<1>5. ASSUME NEW h \in Hdl, NEW text \in Texts[h], OnText(h, text) PROVE LinkedInv' /\ RememberInv'
  <2>1. /\ n_pc = "idle" /\ n_pc' = "cmd.query" /\ n_hdl' = h /\ n_rest' = text.names
        /\ asked' = [asked EXCEPT ![h] = @ \cup ToSet(text.names)]
        /\ UNCHANGED <<m_hdl2con, m_toMetaCon, m_needConnectAlias, c_pc, c_hdl, c_name>>
    BY <1>5 DEF OnText, KeysAsCoded
  <2>2. asked \in [Hdl -> SUBSET Alias] /\ m_hdl2con \subseteq Hdl /\ LinkedInv /\ RememberInv
    BY DEF RequestInv, LifeInv, IInv, TypeOK, ControlModuleTypeOK, ServerTypeOK
  <2>3. ASSUME NEW g \in m_hdl2con, NEW a \in asked'[g] PROVE Remembered(g, a)'
    <3>1. a \in asked[g] \/ (g = h /\ a \in ToSet(text.names))
      BY <2>1, <2>2, <2>3
    <3>2. a \in asked[g] => a \in m_needConnectAlias[g] \/ LinkedTo(g, a)
      BY <2>1, <2>2 DEF RememberInv, Remembered
    <3> QED
      BY <2>1, <3>1, <3>2 DEF Remembered, LinkedTo, m_alias
  <2>4. LinkedInv'
    BY <2>1, <2>2 DEF LinkedInv, LinkedTo, m_alias
  <2> QED
    BY <2>1, <2>3, <2>4 DEF RememberInv
<1> QED
  BY <1>1, <1>2, <1>3, <1>4, <1>5 DEF Outside

(* At the start nobody has asked for anything.                               *)
LEMMA RequestInit == Init => RequestInv
  BY LifeInit DEF RequestInv, LinkedInv, RememberInv, Init, ControlModuleInit

(* Every step keeps the invariant.                                           *)
LEMMA RequestStep ==
  ASSUME KeysAsCoded
  PROVE  RequestInv /\ [Next]_vars => RequestInv'
<1> SUFFICES ASSUME RequestInv, [Next]_vars PROVE LinkedInv' /\ RememberInv'
  BY LifeStep DEF RequestInv
<1>1. CASE Outside
  BY <1>1, RequestByOutside
<1>2. CASE Handle
  BY <1>2, RequestByHandle
<1>3. CASE Maintain /\ UNCHANGED <<nvars, clients>>
  BY <1>3, RequestByMaintain
<1>4. ASSUME NEW h \in Hdl, Worker(h), UNCHANGED <<controlvars, nvars, clients>>
      PROVE  LinkedInv' /\ RememberInv'
  BY <1>4, RequestByWorker
<1>5. CASE UNCHANGED vars
  BY <1>5, QuietRequest
  DEF vars, mvars, settings, controlvars, registry, cvars, namevars, nvars, request, clients
<1> QED
  BY <1>1, <1>2, <1>3, <1>4, <1>5 DEF Next, Threads

(* No name that was asked for is forgotten, as long as the clients send the  *)
(* keys the code looks for.                                                  *)
THEOREM RequestsKept ==
  ASSUME KeysAsCoded
  PROVE  Spec => []RequestKept
<1>1. RequestInv => RequestKept
  BY DEF RequestInv, RememberInv, Remembered, RequestKept, Naming
<1> QED
  BY <1>1, RequestInit, RequestStep, PTL DEF Spec

=============================================================================
