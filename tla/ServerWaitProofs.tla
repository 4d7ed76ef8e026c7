--------------------------- MODULE ServerWaitProofs ---------------------------
(* The threads of the server do not wait for each other in a circle, where   *)
(* what clients ask for has no circle. Who holds a mutex across steps, and   *)
(* where links lead, is what the proof needs, and so does that of Relay.     *)
EXTENDS ServerLifeProofs, WellFoundedInduction

(* What the proofs below need to know of the state.                          *)
LEMMA FlowTypes ==
  ASSUME FlowInv
  PROVE  /\ TypeOK /\ LifeInv /\ IInv
         /\ m_toMetaCon \in [Hdl -> Seq(Hdl)]
         /\ m_needConnectAlias \in [Hdl -> SUBSET Alias]
         /\ m_framePool \in [Hdl -> Seq(Nat)]
         /\ m_lock \in [Hdl -> Thread \cup {"free"}]
         /\ w_pc \in [Hdl -> {"none", "loop", "frame", "send", "stuck", "done"}]
         /\ w_frame \in [Hdl -> Nat] /\ w_i \in [Hdl -> Nat]
         /\ outbox \in [Hdl -> Seq(Msg)]
         /\ fed \in [Hdl -> Nat] /\ asked \in [Hdl -> SUBSET Alias]
         /\ n_hdl \in Hdl /\ n_rest \in Seq(Alias) /\ n_tgt \in Hdl
         /\ c_hdl \in Hdl /\ c_name \in Alias /\ c_names \in SUBSET Alias
         /\ c_k \in Nat \ {0}
  BY DEF FlowInv, LifeInv, IInv, TypeOK, TransportTypeOK, MetaConnectionTypeOK,
         ControlModuleTypeOK, ServerTypeOK

-----------------------------------------------------------------------------
(* Induction over the naturals, for a set in place of a predicate.           *)
LEMMA SetInduction ==
  ASSUME NEW S, 0 \in S, \A n \in Nat : n \in S => n + 1 \in S
  PROVE  Nat \subseteq S
<1> DEFINE R == {ss \in Nat \X Nat : ss[1] < ss[2]}
           T == Nat \ S
<1> SUFFICES ASSUME T # {} PROVE FALSE
  OBVIOUS
<1>1. IsWellFoundedOn(R, Nat)
  <2>1. R = OpToRel(<, Nat)
    BY DEF OpToRel
  <2> HIDE DEF R
  <2> QED
    BY <2>1, NatLessThanWellFounded
<1>2. PICK x \in T : \A y \in T : <<y, x>> \notin R
  <2> HIDE DEF R
  <2> QED
    BY <1>1, WFMin
<1>3. x \in Nat /\ x # 0
  OBVIOUS
<1>4. x - 1 \in Nat /\ (x - 1) + 1 = x /\ <<x - 1, x>> \in R
  BY <1>3
<1>5. x - 1 \in S
  BY <1>2, <1>4
<1> QED
  BY <1>4, <1>5

-----------------------------------------------------------------------------
(* A step that takes no mutex from anybody, and starts no sending.           *)
LEMMA HoldsSame ==
  ASSUME FlowInv,
         \A h \in Hdl : w_pc'[h] = "send" =>
            /\ w_pc[h] = "send" /\ m_lock'[h] = m_lock[h] /\ w_i'[h] = w_i[h]
            /\ Len(m_toMetaCon[h]) <= Len(m_toMetaCon'[h]) /\ Len(m_toMetaCon'[h]) \in Nat,
         c_pc' = "match" => c_pc = "match" /\ c_hdl' = c_hdl /\ m_lock'[c_hdl] = m_lock[c_hdl],
         n_pc' \in {"feed.undef", "feed.warn"} =>
            /\ n_pc \in {"feed.undef", "feed.warn"} /\ n_hdl' = n_hdl
            /\ m_lock'[n_hdl] = m_lock[n_hdl]
  PROVE  HoldsInv'
<1>1. \A h \in Hdl : Len(m_toMetaCon[h]) \in Nat /\ w_i[h] \in Nat
  <2>1. m_toMetaCon \in [Hdl -> Seq(Hdl)] /\ w_i \in [Hdl -> Nat]
    BY FlowTypes
  <2> QED
    BY <2>1
<1> QED
  BY <1>1 DEF FlowInv, HoldsInv

(* The workers lock their own objects.                                       *)
LEMMA HoldsByWorker ==
  ASSUME FlowInv, NEW h \in Hdl, Worker(h), UNCHANGED <<controlvars, nvars, clients>>
  PROVE  HoldsInv'
<1>a. UNCHANGED m_toMetaCon
  BY FlowTypes, WorkerLocks
<1>0. /\ UNCHANGED <<c_pc, c_hdl, n_pc, n_hdl, m_toMetaCon>> /\ HoldsInv
      /\ \A g \in Hdl : Len(m_toMetaCon[g]) \in Nat
      /\ c_hdl \in Hdl /\ n_hdl \in Hdl
      /\ m_lock \in [Hdl -> Thread \cup {"free"}] /\ w_i \in [Hdl -> Nat]
      /\ w_pc \in [Hdl -> {"none", "loop", "frame", "send", "stuck", "done"}]
      /\ h \notin {"net", "ctl", "free"}
  <2>1. UNCHANGED <<c_pc, c_hdl, n_pc, n_hdl>>
    BY DEF controlvars, cvars, nvars
  <2>2. HoldsInv /\ h \notin {"net", "ctl", "free"}
    BY HdlAssumption DEF FlowInv
  <2>3. \A g \in Hdl : Len(m_toMetaCon[g]) \in Nat
    <3>1. m_toMetaCon \in [Hdl -> Seq(Hdl)]
      BY FlowTypes
    <3> QED
      BY <3>1
  <2> QED
    BY <1>a, <2>1, <2>2, <2>3, FlowTypes
<1>1. CASE getFrame(h)
  BY <1>0, <1>1, HoldsSame DEF getFrame
<1>2. CASE ForwardFrame(h)
  <2>1. CASE UNCHANGED m_lock /\ w_pc' = [w_pc EXCEPT ![h] = "loop"]
    BY <1>0, <1>2, <2>1, HoldsSame DEF ForwardFrame
  <2>2. CASE Locked(h, h) /\ w_pc' = [w_pc EXCEPT ![h] = "send"] /\ m_toMetaCon[h] # <<>>
    <3>1. Len(m_toMetaCon[h]) >= 1
      BY <1>0, <2>2, FlowTypes
    <3>2. m_lock[h] = "free" /\ w_i' = [w_i EXCEPT ![h] = 1]
      BY <1>2 DEF ForwardFrame, Free
    <3> QED
      BY <1>0, <2>2, <3>1, <3>2 DEF HoldsInv, Locked
  <2> QED
    BY <1>2, <2>1, <2>2 DEF ForwardFrame
<1>3. CASE SentBinary(h)
  <2>0. m_lock[h] = h /\ w_i[h] \in 1..Len(m_toMetaCon[h])
    BY <1>0, <1>3 DEF SentBinary, HoldsInv
  <2>1. CASE w_i[h] < Len(m_toMetaCon[h]) /\ w_i' = [w_i EXCEPT ![h] = @ + 1]
             /\ UNCHANGED <<m_lock, w_pc>>
    BY <1>0, <2>0, <2>1 DEF HoldsInv
  <2>2. CASE Unlocked(h) /\ w_pc' = [w_pc EXCEPT ![h] = "loop"] /\ UNCHANGED w_i
    BY <1>0, <2>0, <2>2 DEF HoldsInv, Unlocked
  <2> QED
    BY <1>3, <2>1, <2>2 DEF SentBinary
<1>4. CASE SentBinaryRelocks(h)
  BY <1>0, <1>4, HoldsSame DEF SentBinaryRelocks
<1>5. CASE EndWorker(h)
  BY <1>0, <1>5, HoldsSame DEF EndWorker
<1> QED
  BY <1>1, <1>2, <1>3, <1>4, <1>5 DEF Worker

(* The links of an object whose worker is sending are left alone, and the    *)
(* maintenance thread takes and gives back its own mutex only.               *)
LEMMA HoldsByMaintain ==
  ASSUME FlowInv, Maintain, UNCHANGED <<nvars, clients>>
  PROVE  /\ HoldsInv'
         /\ \A h \in Hdl : w_pc[h] = "send" => m_toMetaCon'[h] = m_toMetaCon[h]
<1>0. /\ UNCHANGED <<n_pc, n_hdl, w_pc, w_i>> /\ HoldsInv
      /\ \A g \in Hdl : Len(m_toMetaCon[g]) \in Nat
      /\ c_hdl \in Hdl /\ n_hdl \in Hdl /\ c_k \in Nat \ {0}
      /\ m_toMetaCon \in [Hdl -> Seq(Hdl)]
      /\ m_lock \in [Hdl -> Thread \cup {"free"}]
      /\ \A h \in Hdl : h \notin {"net", "ctl", "free"}
  <2>1. UNCHANGED <<n_pc, n_hdl, w_pc, w_i>> /\ HoldsInv
    BY MaintainFrame DEF FlowInv, nvars, worker
  <2>2. m_toMetaCon \in [Hdl -> Seq(Hdl)]
    BY FlowTypes
  <2>3. \A g \in Hdl : Len(m_toMetaCon[g]) \in Nat
    BY <2>2
  <2>4. \A h \in Hdl : h \notin {"net", "ctl", "free"}
    BY HdlAssumption
  <2>5. /\ c_hdl \in Hdl /\ n_hdl \in Hdl /\ c_k \in Nat \ {0}
        /\ m_lock \in [Hdl -> Thread \cup {"free"}]
    BY FlowTypes
  <2> QED
    BY <2>1, <2>2, <2>3, <2>4, <2>5
<1>q. ASSUME UNCHANGED <<m_toMetaCon, m_lock>>,
             c_pc' = "match" => c_pc = "match" /\ c_hdl' = c_hdl
      PROVE  HoldsInv'
  BY <1>0, <1>q, HoldsSame
<1> USE DEF At, Goto, mvars
<1>1. CASE CtlAcquire
  BY <1>1, <1>q DEF CtlAcquire
<1>2. CASE CtlRelease
  BY <1>2, <1>q DEF CtlRelease
<1>3. ASSUME NEW h \in Hdl, CtlVisit(h) PROVE HoldsInv' /\ UNCHANGED m_toMetaCon
  BY <1>3, <1>q DEF CtlVisit
<1>4. CASE CtlGetMetaCon
  BY <1>4, <1>q DEF CtlGetMetaCon
<1>5. CASE CtlScan
  BY <1>5, <1>q DEF CtlScan, NextLink
<1>6. CASE CtlSuccessor
  BY <1>6, <1>q DEF CtlSuccessor, NextLink
<1>7. CASE CtlReplaceMetaCon
  <2>1. m_lock[c_hdl] = "free" /\ m_lock' = [m_lock EXCEPT ![c_hdl] = "ctl"]
        /\ UNCHANGED <<c_hdl, m_toMetaCon>>
    BY <1>7 DEF CtlReplaceMetaCon, Free, Locked
  <2> QED
    BY <1>0, <2>1 DEF HoldsInv
<1>8. CASE CtlMatch
  <2>1. m_lock[c_hdl] = "ctl"
    BY <1>0, <1>8 DEF CtlMatch, HoldsInv
  <2>2. CASE UNCHANGED <<m_toMetaCon, m_lock, c_hdl, c_pc>>
    BY <2>2, <1>q
  <2>3. CASE /\ Unlocked(c_hdl) /\ c_pc' = "scan"
             /\ \/ UNCHANGED m_toMetaCon
                \/ /\ c_k <= Len(m_toMetaCon[c_hdl])
                   /\ m_toMetaCon' = [m_toMetaCon EXCEPT ![c_hdl][c_k] = m_alias2con[c_name]]
    <3>1. \A h \in Hdl : w_pc[h] = "send" => h # c_hdl
      BY <1>0, <2>1 DEF HoldsInv
    <3>2. \A h \in Hdl : w_pc[h] = "send" => m_toMetaCon'[h] = m_toMetaCon[h]
      BY <1>0, <2>3, <3>1
    <3>3. n_pc \in {"feed.undef", "feed.warn"} => n_hdl # c_hdl
      BY <1>0, <2>1 DEF HoldsInv
    <3> QED
      BY <1>0, <2>3, <3>1, <3>2, <3>3 DEF HoldsInv, Unlocked
  <2> QED
    BY <1>8, <2>2, <2>3 DEF CtlMatch, NextLink, queryConUsingAlisa
<1>9. CASE CtlMatchRelocks
  BY <1>9, <1>q DEF CtlMatchRelocks
<1>10. CASE CtlScanned
  BY <1>10, <1>q DEF CtlScanned
<1>11. CASE CtlDestroy
  <2>1. UNCHANGED <<m_lock, c_pc, c_hdl>> /\ c_pc = "drop"
    BY <1>11 DEF CtlDestroy, DestroyOrphan, cvars
  <2>2. \A h \in Hdl : w_pc[h] = "send" => m_toMetaCon'[h] = m_toMetaCon[h]
    BY <1>0, <1>11 DEF CtlDestroy, DestroyOrphan, StopWorker, JoinWorker
  <2> QED
    BY <1>0, <2>1, <2>2 DEF HoldsInv
<1>12. CASE CtlDropped
  BY <1>12, <1>q DEF CtlDropped
<1>13. CASE CtlGetNeed
  BY <1>13, <1>q DEF CtlGetNeed
<1>14. ASSUME NEW a \in Alias, CtlQuery(a) PROVE HoldsInv' /\ UNCHANGED m_toMetaCon
  BY <1>14, <1>q DEF CtlQuery
<1>15. CASE CtlAddMetaCon
  <2>1. m_lock[c_hdl] = "free" /\ c_pc' = "rm" /\ UNCHANGED m_lock
        /\ addMetaCon(c_hdl, m_alias2con[c_name])
    BY <1>15 DEF CtlAddMetaCon, queryConUsingAlisa, Free
  <2>2. \A h \in Hdl : w_pc[h] = "send" => h # c_hdl
    BY <1>0, <2>1 DEF HoldsInv
  <2>3. \A h \in Hdl : w_pc[h] = "send" => m_toMetaCon'[h] = m_toMetaCon[h]
    BY <1>0, <2>1, <2>2 DEF addMetaCon
  <2> QED
    BY <1>0, <2>1, <2>3 DEF HoldsInv
<1>16. CASE CtlRmNeed
  BY <1>16, <1>q DEF CtlRmNeed
<1>17. CASE CtlVisited
  BY <1>17, <1>q DEF CtlVisited
<1> QED
  BY <1>1, <1>2, <1>3, <1>4, <1>5, <1>6, <1>7, <1>8, <1>9, <1>10, <1>11, <1>12, <1>13, <1>14,
      <1>15, <1>16, <1>17 DEF Maintain, CtlAcquire, CtlRelease, CtlGetMetaCon, CtlScan,
      CtlSuccessor, CtlReplaceMetaCon, CtlMatchRelocks, CtlScanned, CtlDropped, CtlGetNeed,
      CtlRmNeed, CtlVisited

(* The handlers take and give back mutexes of objects no worker is sending   *)
(* for, and add links to such objects only.                                  *)
LEMMA HoldsByHandle ==
  ASSUME FlowInv, Handle
  PROVE  /\ HoldsInv'
         /\ \A h \in Hdl : w_pc[h] = "send" => m_toMetaCon'[h] = m_toMetaCon[h]
<1>0. /\ HoldsInv /\ LockInv
      /\ \A g \in Hdl : Len(m_toMetaCon[g]) \in Nat
      /\ c_hdl \in Hdl /\ n_hdl \in Hdl /\ n_tgt \in Hdl
      /\ m_toMetaCon \in [Hdl -> Seq(Hdl)]
      /\ m_lock \in [Hdl -> Thread \cup {"free"}]
      /\ w_pc \in [Hdl -> {"none", "loop", "frame", "send", "stuck", "done"}]
      /\ \A h \in Hdl : h \notin {"net", "ctl", "free"}
  <2>1. HoldsInv /\ LockInv
    BY FlowTypes DEF FlowInv, IInv
  <2>2. m_toMetaCon \in [Hdl -> Seq(Hdl)]
    BY FlowTypes
  <2>3. \A g \in Hdl : Len(m_toMetaCon[g]) \in Nat
    BY <2>2
  <2>4. \A h \in Hdl : h \notin {"net", "ctl", "free"}
    BY HdlAssumption
  <2>5. /\ c_hdl \in Hdl /\ n_hdl \in Hdl /\ n_tgt \in Hdl
        /\ m_lock \in [Hdl -> Thread \cup {"free"}]
        /\ w_pc \in [Hdl -> {"none", "loop", "frame", "send", "stuck", "done"}]
    BY FlowTypes
  <2> QED
    BY <2>1, <2>2, <2>3, <2>4, <2>5
<1>q. ASSUME UNCHANGED <<m_toMetaCon, m_lock, w_pc, w_i, c_pc, c_hdl>>,
             n_pc' \in {"feed.undef", "feed.warn"} =>
                n_pc \in {"feed.undef", "feed.warn"} /\ n_hdl' = n_hdl
      PROVE  HoldsInv'
  BY <1>0, <1>q, HoldsSame
<1> USE DEF In, Continue, Return, mvars, worker, controlvars, cvars
<1>1. CASE OpenClear
  BY <1>1, <1>q DEF OpenClear
<1>2. ASSUME NEW o \in Hdl, OpenCheck(o) PROVE HoldsInv' /\ UNCHANGED m_toMetaCon
  BY <1>2, <1>q DEF OpenCheck
<1>3. CASE OpenDestroy
  <2>1. UNCHANGED <<m_lock, w_pc, w_i, c_pc, c_hdl, n_pc, n_hdl>>
    BY <1>3 DEF OpenDestroy, DestroyOrphan, nvars
  <2>2. \A h \in Hdl : w_pc[h] = "send" => m_toMetaCon'[h] = m_toMetaCon[h]
    BY <1>0, <1>3 DEF OpenDestroy, DestroyOrphan, StopWorker, JoinWorker
  <2> QED
    BY <1>0, <2>1, <2>2 DEF HoldsInv
<1>4. CASE OpenCleared
  BY <1>4, <1>q DEF OpenCleared
<1>5. CASE OpenAdd
  <2>1. /\ UNCHANGED <<m_toMetaCon, m_lock, w_i, c_pc, c_hdl>>
        /\ n_pc' \notin {"feed.undef", "feed.warn"}
        /\ w_pc' = w_pc \/ w_pc' = [w_pc EXCEPT ![n_hdl] = "loop"]
    BY <1>5 DEF OpenAdd, Constructed
  <2> QED
    BY <1>0, <2>1 DEF HoldsInv
<1>6. CASE OpenGreet
  BY <1>6, <1>q DEF OpenGreet
<1>7. CASE CmdQuery
  BY <1>7, <1>q DEF CmdQuery
<1>8. CASE CmdMethod
  BY <1>8, <1>q DEF CmdMethod
<1>9. CASE CmdNext
  BY <1>9, <1>q DEF CmdNext
<1>10. CASE CmdLink
  <2>1. /\ m_lock[n_hdl] = "free" /\ addMetaCon(n_hdl, n_tgt)
        /\ UNCHANGED <<m_lock, w_pc, w_i, c_pc, c_hdl>>
        /\ n_pc' \notin {"feed.undef", "feed.warn"}
    BY <1>10 DEF CmdLink, Free
  <2>2. \A h \in Hdl : w_pc[h] = "send" => m_toMetaCon'[h] = m_toMetaCon[h]
    BY <1>0, <2>1 DEF addMetaCon, HoldsInv
  <2> QED
    BY <1>0, <2>1, <2>2 DEF HoldsInv
<1>11. CASE CmdNeed
  BY <1>11, <1>q DEF CmdNeed
<1>12. CASE CmdNamed
  BY <1>12, <1>q DEF CmdNamed
<1>13. CASE CmdReply
  BY <1>13, <1>q DEF CmdReply
<1>14. CASE FeedQuery
  BY <1>14, <1>q DEF FeedQuery
<1>15. CASE FeedPush
  <2>1. UNCHANGED <<m_toMetaCon, w_pc, w_i, c_pc, c_hdl>> /\ m_lock[n_hdl] = "free"
    BY <1>15 DEF FeedPush, Free
  <2>2. \/ n_pc' = "idle" /\ UNCHANGED m_lock
        \/ n_pc' \in {"feed.undef", "feed.warn"} /\ n_hdl' = n_hdl
           /\ m_lock' = [m_lock EXCEPT ![n_hdl] = "net"]
    BY <1>15 DEF FeedPush, Locked
  <2> QED
    BY <1>0, <2>1, <2>2 DEF HoldsInv
<1>16. CASE FeedWarn
  <2>1. /\ UNCHANGED <<m_toMetaCon, w_pc, w_i, c_pc, c_hdl>> /\ m_lock[n_hdl] = "net"
        /\ n_pc' = "idle" /\ m_lock' = [m_lock EXCEPT ![n_hdl] = "free"]
    BY <1>0, <1>16 DEF FeedWarn, HoldsInv, Unlocked
  <2> QED
    BY <1>0, <2>1 DEF HoldsInv
<1>17. CASE FeedRelocks
  BY <1>17, <1>q DEF FeedRelocks
<1>18. CASE CloseQuery
  BY <1>18, <1>q DEF CloseQuery
<1>19. CASE CloseSet
  BY <1>19, <1>q DEF CloseSet
<1> QED
  BY <1>1, <1>2, <1>3, <1>4, <1>5, <1>6, <1>7, <1>8, <1>9, <1>10, <1>11, <1>12, <1>13, <1>14,
      <1>15, <1>16, <1>17, <1>18, <1>19
  DEF Handle, OpenClear, OpenCleared, OpenAdd, OpenGreet, CmdQuery, CmdMethod, CmdNext, CmdNeed,
      CmdNamed, CmdReply, FeedQuery, FeedPush, FeedWarn, FeedRelocks, CloseQuery, CloseSet

-----------------------------------------------------------------------------
(* Where links and names come from. Links may go all at once, or be replaced *)
(* by links of the same name.                                                *)
FewerLinks ==
    \A h \in Hdl :
       \/ m_toMetaCon'[h] = <<>>
       \/ /\ Len(m_toMetaCon'[h]) = Len(m_toMetaCon[h])
          /\ \A i \in 1..Len(m_toMetaCon[h]) :
                m_alias(m_toMetaCon'[h][i]) = m_alias(m_toMetaCon[h][i])

LEMMA FewerLinked ==
  ASSUME FewerLinks
  PROVE  \A h \in Hdl : \A a \in Alias : LinkedTo(h, a)' => LinkedTo(h, a)
  BY DEF FewerLinks, LinkedTo, m_alias

(* A step that makes no link, leaves the waiting names alone and adds no     *)
(* name to a command or to the copy of the maintenance thread.               *)
LEMMA AskedSame ==
  ASSUME FlowInv, FewerLinks, UNCHANGED <<m_needConnectAlias, asked>>,
         n_pc' \in Naming => n_pc \in Naming /\ UNCHANGED <<n_hdl, n_rest>>,
         c_pc' \in {"query", "add", "rm"} => UNCHANGED <<c_pc, c_hdl, c_name, c_names>>
  PROVE  AskedInv'
  BY FewerLinked DEF FlowInv, AskedInv

(* A link to an object brings its name and no other.                         *)
LEMMA OneNewLink ==
  ASSUME TypeOK, NEW g \in Hdl, NEW o \in Hdl, addMetaCon(g, o)
  PROVE  \A h \in Hdl : \A a \in Alias :
            LinkedTo(h, a)' => LinkedTo(h, a) \/ (h = g /\ a = m_alias(o))
<1> DEFINE links == m_toMetaCon[g]
<1>1. /\ m_toMetaCon \in [Hdl -> Seq(Hdl)] /\ links \in Seq(Hdl)
      /\ m_toMetaCon' = [m_toMetaCon EXCEPT ![g] = Append(links, o)]
  BY DEF TypeOK, MetaConnectionTypeOK, addMetaCon
<1>2. /\ Len(links) \in Nat /\ Len(Append(links, o)) = Len(links) + 1
      /\ Append(links, o)[Len(links) + 1] = o
      /\ \A i \in 1..Len(links) : Append(links, o)[i] = links[i]
  BY <1>1, AppendProperties, LenProperties
<1>3. \A h \in Hdl \ {g} : m_toMetaCon'[h] = m_toMetaCon[h]
  BY <1>1
<1>4. \A i \in 1..Len(m_toMetaCon'[g]) :
         m_toMetaCon'[g][i] = o \/ (i \in 1..Len(links) /\ m_toMetaCon'[g][i] = links[i])
  BY <1>1, <1>2
<1> HIDE DEF links
<1>5. ASSUME NEW h \in Hdl, NEW a \in Alias, LinkedTo(h, a)'
      PROVE  LinkedTo(h, a) \/ (h = g /\ a = m_alias(o))
  BY <1>3, <1>4, <1>5 DEF LinkedTo, m_alias, links
<1> QED
  BY <1>5

(* A list of names has names in it, and what is left of it no others.        *)
LEMMA NamesOf == ASSUME NEW s \in Seq(Alias) PROVE ToSet(s) \subseteq Alias
  BY DEF ToSet

LEMMA NamesLeft ==
  ASSUME NEW s \in Seq(Alias), s # <<>>
  PROVE  Head(s) \in ToSet(s) /\ Head(s) \in Alias /\ ToSet(Tail(s)) \subseteq ToSet(s)
<1>1. /\ Len(s) \in Nat /\ 1 \in 1..Len(s) /\ Head(s) = s[1] /\ DOMAIN s = 1..Len(s)
      /\ DOMAIN Tail(s) = 1..Len(s) - 1
      /\ \A i \in 1..Len(s) - 1 : Tail(s)[i] = s[i + 1] /\ i + 1 \in 1..Len(s)
  OBVIOUS
<1> QED
  BY <1>1 DEF ToSet

(* Destroying an object takes all its links away.                            *)
LEMMA DestroyedLinks ==
  ASSUME FlowInv, DestroyOrphan
  PROVE  FewerLinks
<1>1. m_toMetaCon \in [Hdl -> Seq(Hdl)]
  BY FlowTypes
<1> QED
  BY <1>1 DEF DestroyOrphan, StopWorker, JoinWorker, FewerLinks

(* The workers leave names and links alone.                                  *)
LEMMA AskedByWorker ==
  ASSUME FlowInv, NEW h \in Hdl, Worker(h), UNCHANGED <<controlvars, nvars, clients>>
  PROVE  AskedInv'
<1>1. UNCHANGED <<m_toMetaCon, m_needConnectAlias>>
  BY FlowTypes, WorkerLocks
<1>2. FewerLinks
  BY <1>1 DEF FewerLinks
<1> QED
  BY <1>1, <1>2, AskedSame DEF controlvars, cvars, namevars, nvars, request, clients

(* The maintenance thread heals a link by one of the same name, and links a  *)
(* name that waits.                                                          *)
LEMMA AskedByMaintain ==
  ASSUME FlowInv, Maintain, UNCHANGED <<nvars, clients>>
  PROVE  AskedInv'
<1>0. /\ UNCHANGED <<n_pc, n_hdl, n_rest, asked>>
      /\ AskedInv /\ TypeOK
      /\ c_hdl \in Hdl /\ c_name \in Alias /\ n_hdl \in Hdl
      /\ asked \in [Hdl -> SUBSET Alias]
      /\ m_needConnectAlias \in [Hdl -> SUBSET Alias]
      /\ m_toMetaCon \in [Hdl -> Seq(Hdl)]
  BY FlowTypes DEF FlowInv, nvars, request, clients
<1>s. UNCHANGED m_toMetaCon => FewerLinks
  BY DEF FewerLinks
<1>n. c_pc \in {"match", "add"} =>
         /\ m_alias2con[c_name] \in Hdl /\ m_alias(m_alias2con[c_name]) = c_name
  BY <1>0, FlowTypes DEF IInv, NameInv, RegistryConsistent, TypeOK, ControlModuleTypeOK
<1> USE DEF At, Goto, mvars, settings
<1>1. CASE CtlAcquire
  BY <1>0, <1>1, <1>s, AskedSame DEF CtlAcquire
<1>2. CASE CtlRelease
  BY <1>0, <1>2, <1>s, AskedSame DEF CtlRelease
<1>3. ASSUME NEW h \in Hdl, CtlVisit(h) PROVE AskedInv'
  BY <1>0, <1>3, <1>s, AskedSame DEF CtlVisit
<1>4. CASE CtlGetMetaCon
  BY <1>0, <1>4, <1>s, AskedSame DEF CtlGetMetaCon
<1>5. CASE CtlScan
  BY <1>0, <1>5, <1>s, AskedSame DEF CtlScan, NextLink
<1>6. CASE CtlSuccessor
  BY <1>0, <1>6, <1>s, AskedSame DEF CtlSuccessor, NextLink
<1>7. CASE CtlReplaceMetaCon
  BY <1>0, <1>7, <1>s, AskedSame DEF CtlReplaceMetaCon
<1>8. CASE CtlMatch
  <2>1. /\ c_pc = "match" /\ c_pc' \notin {"query", "add", "rm"}
        /\ UNCHANGED m_needConnectAlias
    BY <1>8 DEF CtlMatch, NextLink
  <2>2. CASE UNCHANGED m_toMetaCon
    BY <1>0, <1>s, <2>1, <2>2, AskedSame
  <2>3. CASE /\ c_k <= Len(m_toMetaCon[c_hdl]) /\ Matches(m_toMetaCon[c_hdl][c_k])
             /\ m_toMetaCon' = [m_toMetaCon EXCEPT ![c_hdl][c_k] = m_alias2con[c_name]]
    <3>1. m_alias(m_toMetaCon[c_hdl][c_k]) = m_alias(m_alias2con[c_name])
      BY <1>n, <2>1, <2>3 DEF Matches
    <3>2. FewerLinks
      BY <1>0, <2>3, <3>1 DEF FewerLinks, m_alias
    <3> QED
      BY <1>0, <2>1, <3>2, AskedSame
  <2> QED
    BY <1>8, <2>2, <2>3 DEF CtlMatch, queryConUsingAlisa
<1>9. CASE CtlMatchRelocks
  BY <1>0, <1>9, <1>s, AskedSame DEF CtlMatchRelocks
<1>10. CASE CtlScanned
  BY <1>0, <1>10, <1>s, AskedSame DEF CtlScanned
<1>11. CASE CtlDestroy
  <2>1. c_pc' = "drop" /\ UNCHANGED m_needConnectAlias
    BY <1>11 DEF CtlDestroy, DestroyOrphan, cvars
  <2> QED
    BY <1>0, <1>11, <2>1, DestroyedLinks, AskedSame DEF CtlDestroy
<1>12. CASE CtlDropped
  BY <1>0, <1>12, <1>s, AskedSame DEF CtlDropped
<1>13. CASE CtlGetNeed
  <2>1. /\ c_pc = "need" /\ c_pc' = "query" /\ c_names' = m_needConnectAlias[c_hdl]
        /\ UNCHANGED <<m_toMetaCon, m_needConnectAlias, c_hdl>>
    BY <1>13 DEF CtlGetNeed
  <2> QED
    BY <1>0, <2>1 DEF AskedInv, LinkedTo, m_alias
<1>14. ASSUME NEW a \in Alias, CtlQuery(a) PROVE AskedInv'
  <2>1. /\ c_pc = "query" /\ a \in c_names /\ c_names' = c_names \ {a}
        /\ UNCHANGED <<m_toMetaCon, m_needConnectAlias, c_hdl>>
        /\ \/ c_pc' = "add" /\ c_name' = a
           \/ c_pc' = "query"
    BY <1>14 DEF CtlQuery
  <2> QED
    BY <1>0, <2>1 DEF AskedInv, LinkedTo, m_alias
<1>15. CASE CtlAddMetaCon
  <2>1. /\ c_pc = "add" /\ c_pc' = "rm"
        /\ UNCHANGED <<c_hdl, c_name, c_names, m_needConnectAlias>>
        /\ addMetaCon(c_hdl, m_alias2con[c_name])
    BY <1>15 DEF CtlAddMetaCon, queryConUsingAlisa, namevars
  <2>2. c_name \in m_needConnectAlias[c_hdl]
    BY <1>0, <2>1 DEF AskedInv
  <2>3. \A h \in Hdl : \A b \in Alias :
           LinkedTo(h, b)' => LinkedTo(h, b) \/ (h = c_hdl /\ b = c_name)
    BY <1>0, <1>n, <2>1, OneNewLink
  <2> QED
    BY <1>0, <2>1, <2>2, <2>3 DEF AskedInv
<1>16. CASE CtlRmNeed
  <2>1. /\ c_pc = "rm" /\ c_pc' = "query" /\ UNCHANGED <<m_toMetaCon, c_hdl, c_names>>
        /\ m_needConnectAlias' = [m_needConnectAlias EXCEPT ![c_hdl] = @ \ {c_name}]
    BY <1>16 DEF CtlRmNeed, rmNeedConnectAlias, namevars
  <2>2. /\ \A h \in Hdl \ {c_hdl} : m_needConnectAlias'[h] = m_needConnectAlias[h]
        /\ m_needConnectAlias'[c_hdl] = m_needConnectAlias[c_hdl] \ {c_name}
    BY <1>0, <2>1
  <2>3. \A h \in Hdl : \A b : LinkedTo(h, b)' = LinkedTo(h, b)
    BY <2>1 DEF LinkedTo, m_alias
  <2> QED
    BY <1>0, <2>1, <2>2, <2>3 DEF AskedInv
<1>17. CASE CtlVisited
  BY <1>0, <1>17, <1>s, AskedSame DEF CtlVisited
<1> QED
  BY <1>1, <1>2, <1>3, <1>4, <1>5, <1>6, <1>7, <1>8, <1>9, <1>10, <1>11, <1>12, <1>13, <1>14,
      <1>15, <1>16, <1>17 DEF Maintain

(* The handlers take a name off a command when they link it or let it wait.  *)
LEMMA AskedByHandle ==
  ASSUME FlowInv, Handle
  PROVE  AskedInv'
<1>0. /\ AskedInv /\ TypeOK /\ RestInv /\ WorkInv
      /\ c_hdl \in Hdl /\ c_name \in Alias /\ n_hdl \in Hdl /\ n_tgt \in Hdl
      /\ n_rest \in Seq(Alias)
      /\ asked \in [Hdl -> SUBSET Alias]
      /\ m_needConnectAlias \in [Hdl -> SUBSET Alias]
      /\ m_toMetaCon \in [Hdl -> Seq(Hdl)]
  BY FlowTypes DEF FlowInv, LifeInv, IInv
<1>q. ASSUME UNCHANGED <<m_toMetaCon, m_needConnectAlias, asked, c_pc, c_hdl, c_name, c_names>>,
             n_pc' \in Naming => n_pc \in Naming /\ UNCHANGED <<n_hdl, n_rest>>
      PROVE  AskedInv'
  BY <1>q, AskedSame DEF FewerLinks
<1> USE DEF In, Continue, Return, mvars, settings, controlvars, cvars, namevars, request, clients
<1>1. CASE OpenClear
  BY <1>1, <1>q DEF OpenClear, Naming
<1>2. ASSUME NEW o \in Hdl, OpenCheck(o) PROVE AskedInv'
  BY <1>2, <1>q DEF OpenCheck, Naming
<1>3. CASE OpenDestroy
  <2>1. /\ UNCHANGED <<c_pc, c_hdl, c_name, c_names, m_needConnectAlias, n_pc, n_hdl, n_rest, asked>>
    BY <1>3 DEF OpenDestroy, DestroyOrphan, nvars
  <2> QED
    BY <1>3, <2>1, DestroyedLinks, AskedSame DEF OpenDestroy
<1>4. CASE OpenCleared
  BY <1>4, <1>q DEF OpenCleared, Naming
<1>5. CASE OpenAdd
  BY <1>5, <1>q DEF OpenAdd, Naming
<1>6. CASE OpenGreet
  BY <1>6, <1>q DEF OpenGreet, Naming
<1>7. CASE CmdQuery
  BY <1>7, <1>q DEF CmdQuery, Naming
<1>8. CASE CmdMethod
  BY <1>8, <1>q DEF CmdMethod, Naming
<1>9. CASE CmdNext
  BY <1>9, <1>q DEF CmdNext, Naming
<1>10. CASE CmdLink
  <2>1. /\ n_pc = "cmd.link" /\ n_pc' = "cmd.next" /\ n_hdl' = n_hdl /\ n_rest' = Tail(n_rest)
        /\ UNCHANGED <<asked, m_needConnectAlias, c_pc, c_hdl, c_name, c_names>>
        /\ addMetaCon(n_hdl, n_tgt)
    BY <1>10 DEF CmdLink
  <2>2. n_rest # <<>> /\ m_alias(n_tgt) = Head(n_rest)
    BY <1>0, <2>1 DEF RestInv, WorkInv
  <2>3. /\ Head(n_rest) \in ToSet(n_rest) /\ Head(n_rest) \in Alias
        /\ ToSet(Tail(n_rest)) \subseteq ToSet(n_rest)
    BY <1>0, <2>2, NamesLeft
  <2>4. ToSet(n_rest) \subseteq asked[n_hdl]
    BY <1>0, <2>1 DEF AskedInv, Naming
  <2>5. \A h \in Hdl : \A b \in Alias :
           LinkedTo(h, b)' => LinkedTo(h, b) \/ (h = n_hdl /\ b = Head(n_rest))
    BY <1>0, <2>1, <2>2, OneNewLink
  <2> QED
    BY <1>0, <2>1, <2>3, <2>4, <2>5 DEF AskedInv
<1>11. CASE CmdNeed
  <2>1. /\ n_pc = "cmd.need" /\ n_pc' = "cmd.next" /\ n_hdl' = n_hdl /\ n_rest' = Tail(n_rest)
        /\ UNCHANGED <<asked, m_toMetaCon, c_pc, c_hdl, c_name, c_names>>
        /\ m_needConnectAlias' = [m_needConnectAlias EXCEPT ![n_hdl] = @ \cup {Head(n_rest)}]
    BY <1>11 DEF CmdNeed, addNeedConnectAlias
  <2>2. n_rest # <<>>
    BY <1>0, <2>1 DEF RestInv
  <2>3. /\ Head(n_rest) \in ToSet(n_rest) /\ Head(n_rest) \in Alias
        /\ ToSet(Tail(n_rest)) \subseteq ToSet(n_rest)
    BY <1>0, <2>2, NamesLeft
  <2>4. /\ \A h \in Hdl \ {n_hdl} : m_needConnectAlias'[h] = m_needConnectAlias[h]
        /\ m_needConnectAlias'[n_hdl] = m_needConnectAlias[n_hdl] \cup {Head(n_rest)}
    BY <1>0, <2>1
  <2>5. \A h \in Hdl : \A b : LinkedTo(h, b)' = LinkedTo(h, b)
    BY <2>1 DEF LinkedTo, m_alias
  <2>6. ToSet(n_rest) \subseteq asked[n_hdl]
    BY <1>0, <2>1 DEF AskedInv, Naming
  <2> QED
    BY <1>0, <2>1, <2>3, <2>4, <2>5, <2>6 DEF AskedInv
<1>12. CASE CmdNamed
  BY <1>12, <1>q DEF CmdNamed, Naming
<1>13. CASE CmdReply
  BY <1>13, <1>q DEF CmdReply, Naming
<1>14. CASE FeedQuery
  BY <1>14, <1>q DEF FeedQuery, Naming
<1>15. CASE FeedPush
  BY <1>15, <1>q DEF FeedPush, Naming
<1>16. CASE FeedWarn
  BY <1>16, <1>q DEF FeedWarn, Naming
<1>17. CASE FeedRelocks
  BY <1>17, <1>q DEF FeedRelocks, Naming
<1>18. CASE CloseQuery
  BY <1>18, <1>q DEF CloseQuery, Naming
<1>19. CASE CloseSet
  BY <1>19, <1>q DEF CloseSet, Naming
<1> QED
  BY <1>1, <1>2, <1>3, <1>4, <1>5, <1>6, <1>7, <1>8, <1>9, <1>10, <1>11, <1>12, <1>13, <1>14,
      <1>15, <1>16, <1>17, <1>18, <1>19 DEF Handle

(* Names come in with a command.                                             *)
LEMMA AskedByOutside ==
  ASSUME FlowInv, Outside
  PROVE  AskedInv'
<1>0. /\ AskedInv /\ asked \in [Hdl -> SUBSET Alias]
      /\ m_needConnectAlias \in [Hdl -> SUBSET Alias]
  BY FlowTypes DEF FlowInv
<1>q. ASSUME UNCHANGED <<m_toMetaCon, m_needConnectAlias, asked, c_pc, c_hdl, c_name, c_names>>,
             n_pc' \notin Naming
      PROVE  AskedInv'
  BY <1>q, AskedSame DEF FewerLinks
<1> USE DEF In, Idle, Handles, mvars, settings, controlvars, cvars, namevars, nvars, request, clients
<1>1. ASSUME NEW h \in Hdl, OnOpen(h) PROVE AskedInv'
  BY <1>1, <1>q DEF OnOpen, Naming
<1>2. ASSUME NEW h \in Hdl, OnFrame(h) PROVE AskedInv'
  BY <1>2, <1>q DEF OnFrame, Naming
<1>3. ASSUME NEW h \in Hdl, OnPeerClose(h) PROVE AskedInv'
  BY <1>3, <1>q DEF OnPeerClose, Naming
<1>4. ASSUME NEW h \in Hdl, OnClose(h) PROVE AskedInv'
  BY <1>4, <1>q DEF OnClose, Naming
<1>5. ASSUME NEW h \in Hdl, NEW text \in Texts[h], OnText(h, text) PROVE AskedInv'
  <2>1. /\ n_hdl' = h /\ n_rest' = RequestedNames(text)
        /\ asked' = [asked EXCEPT ![h] = @ \cup ToSet(text.names)]
        /\ UNCHANGED <<m_toMetaCon, m_needConnectAlias, c_pc, c_hdl, c_name, c_names>>
    BY <1>5 DEF OnText
  <2>2. ToSet(n_rest') \subseteq ToSet(text.names)
    <3>1. n_rest' = text.names \/ n_rest' = <<>>
      BY <2>1 DEF RequestedNames
    <3>2. ToSet(<<>>) = {}
      BY EmptySeq DEF ToSet
    <3> QED
      BY <3>1, <3>2
  <2>3. ToSet(text.names) \subseteq RequestableBy(h)
    BY DEF RequestableBy
  <2>4. \A g \in Hdl : \A b : LinkedTo(g, b)' = LinkedTo(g, b)
    BY <2>1 DEF LinkedTo, m_alias
  <2>5. /\ \A g \in Hdl \ {h} : asked'[g] = asked[g]
        /\ asked'[h] = asked[h] \cup ToSet(text.names)
    BY <1>0, <2>1
  <2> QED
    BY <1>0, <2>1, <2>2, <2>3, <2>4, <2>5 DEF AskedInv
<1> QED
  BY <1>1, <1>2, <1>3, <1>4, <1>5 DEF Outside

LEMMA FlowInit == Init => FlowInv
<1> SUFFICES ASSUME Init PROVE FlowInv
  OBVIOUS
<1> USE DEF Init, MetaConnectionInit, ControlModuleInit
<1>1. LifeInv
  BY LifeInit
<1>2. \A h \in Hdl : \A a : ~LinkedTo(h, a)
  BY DEF LinkedTo
<1>3. HoldsInv
  BY DEF HoldsInv
<1>4. AskedInv
  BY <1>2 DEF AskedInv, Naming
<1> QED
  BY <1>1, <1>3, <1>4 DEF FlowInv

(* Every step keeps it, whatever clients ask for.                            *)
LEMMA FlowStep ==
  ASSUME FlowInv, [Next]_vars
  PROVE  FlowInv'
<1>1. LifeInv'
  BY LifeStep DEF FlowInv
<1>2. CASE Outside
  <2>1. /\ UNCHANGED <<w_pc, w_i, m_lock, m_toMetaCon, c_pc, c_hdl>>
        /\ n_pc' = n_pc \/ n_pc' \in {"open.clear", "cmd.query", "feed.query", "close.query"}
        /\ n_pc = "idle"
    BY <1>2 DEF Outside, OnOpen, OnFrame, OnPeerClose, OnClose, OnText, Handles, Idle, In,
                mvars, worker, controlvars, cvars, nvars
  <2>2. HoldsInv'
    BY <2>1 DEF FlowInv, HoldsInv
  <2> QED
    BY <1>1, <1>2, <2>2, AskedByOutside DEF FlowInv
<1>3. CASE Handle
  BY <1>1, <1>3, HoldsByHandle, AskedByHandle DEF FlowInv
<1>4. CASE Maintain /\ UNCHANGED <<nvars, clients>>
  BY <1>1, <1>4, HoldsByMaintain, AskedByMaintain DEF FlowInv
<1>5. ASSUME NEW h \in Hdl, Worker(h), UNCHANGED <<controlvars, nvars, clients>>
      PROVE  FlowInv'
  BY <1>1, <1>5, HoldsByWorker, AskedByWorker DEF FlowInv
<1>6. CASE UNCHANGED vars
  <2>1. UNCHANGED <<tvars, mvars, controlvars, nvars, clients>>
    BY <1>6 DEF vars
  <2>2. /\ UNCHANGED <<m_needConnectAlias, m_toMetaCon, m_lock, w_pc, w_i>>
        /\ UNCHANGED <<c_pc, c_hdl, c_name, c_names, n_pc, n_hdl, n_rest, asked>>
    BY <2>1 DEF mvars, settings, worker, controlvars, cvars, namevars, nvars, request, clients
  <2>3. HoldsInv'
    BY <2>2 DEF FlowInv, HoldsInv
  <2>4. AskedInv'
    BY <2>2, AskedSame DEF FewerLinks
  <2> QED
    BY <1>1, <2>3, <2>4 DEF FlowInv
<1> QED
  BY <1>2, <1>3, <1>4, <1>5, <1>6 DEF Next, Threads

-----------------------------------------------------------------------------
(* Ranks that go down along what clients ask for.                            *)
Ranks ==
    {rank \in [Alias -> Nat] :
       \A h \in Hdl : \A a \in RequestableBy(h) : rank[a] < rank[UriAlias[h]]}

LEMMA RanksExist == RequestsAcyclic <=> Ranks # {}
  BY DEF RequestsAcyclic, Ranks

(* Links go down.                                                            *)
LEMMA LinksDescend ==
  ASSUME FlowInv, NEW rank \in Ranks, NEW h \in Hdl, NEW i \in 1..Len(m_toMetaCon[h])
  PROVE  /\ m_toMetaCon[h][i] \in Hdl
         /\ rank[UriAlias[m_toMetaCon[h][i]]] < rank[UriAlias[h]]
         /\ m_toMetaCon[h][i] # h
<1> DEFINE o == m_toMetaCon[h][i]
<1>0. m_toMetaCon[h] \in Seq(Hdl)
  BY FlowTypes
<1>1. o \in Hdl
  BY <1>0
<1>2. LinkedTo(h, m_alias(o)) /\ m_alias(o) \in Alias
  BY <1>1, AliasAssumption DEF LinkedTo, m_alias
<1>3. m_alias(o) \in RequestableBy(h)
  BY <1>2 DEF FlowInv, AskedInv
<1>4. rank[UriAlias[o]] < rank[UriAlias[h]]
  BY <1>3 DEF Ranks, m_alias
<1>5. rank[UriAlias[h]] \in Nat
  BY AliasAssumption DEF Ranks
<1>6. o # h
  BY <1>4, <1>5
<1> QED
  BY <1>1, <1>4, <1>6

(* So no thread asks for a mutex it holds, but for the network thread.       *)
LEMMA WorkerNotCaught ==
  ASSUME WaitInv, Ranks # {}, NEW h \in Hdl, Worker(h)
  PROVE  \A g \in Hdl : w_pc'[g] # "stuck"
<1>0. /\ \A g \in Hdl : w_pc[g] # "stuck"
      /\ w_pc \in [Hdl -> {"none", "loop", "frame", "send", "stuck", "done"}]
      /\ FlowInv /\ HoldsInv
  BY FlowTypes DEF WaitInv, NeverCaught, FlowInv
<1>1. CASE getFrame(h)
  BY <1>0, <1>1 DEF getFrame
<1>2. CASE ForwardFrame(h)
  BY <1>0, <1>2 DEF ForwardFrame
<1>3. CASE SentBinary(h)
  BY <1>0, <1>3 DEF SentBinary
<1>4. CASE SentBinaryRelocks(h)
  <2>1. w_pc[h] = "send" /\ m_lock[WorkerTarget(h)] = h
    BY <1>4 DEF SentBinaryRelocks, Relocks
  <2>2. w_i[h] \in 1..Len(m_toMetaCon[h])
    BY <1>0, <2>1 DEF HoldsInv
  <2>3. PICK rank \in Ranks : TRUE
    OBVIOUS
  <2>4. WorkerTarget(h) \in Hdl /\ WorkerTarget(h) # h
    BY <1>0, <2>2, <2>3, LinksDescend DEF WorkerTarget
  <2>5. m_lock[WorkerTarget(h)] # h
    BY <1>0, <2>4, HdlAssumption DEF FlowInv, LifeInv, HeldInv, Free
  <2> QED
    BY <2>1, <2>5
<1>5. CASE EndWorker(h)
  BY <1>0, <1>5 DEF EndWorker
<1> QED
  BY <1>1, <1>2, <1>3, <1>4, <1>5 DEF Worker

LEMMA MaintainNotCaught ==
  ASSUME WaitInv, Ranks # {}, Maintain
  PROVE  c_pc' # "stuck"
<1>0. c_pc # "stuck" /\ FlowInv /\ HoldsInv /\ HeldInv
  BY DEF WaitInv, NeverCaught, FlowInv, LifeInv
<1>1. ~CtlMatchRelocks
  <2> SUFFICES ASSUME CtlMatchRelocks PROVE FALSE
    OBVIOUS
  <2>1. /\ c_pc = "match" /\ c_k <= Len(m_toMetaCon[c_hdl])
        /\ m_lock[m_toMetaCon[c_hdl][c_k]] = "ctl"
    BY DEF CtlMatchRelocks, At, Relocks
  <2>2. c_hdl \in Hdl /\ c_k \in 1..Len(m_toMetaCon[c_hdl])
    BY <1>0, <2>1, FlowTypes
  <2>3. PICK rank \in Ranks : TRUE
    OBVIOUS
  <2>4. PICK o \in Hdl : o = m_toMetaCon[c_hdl][c_k] /\ o # c_hdl
    BY <1>0, <2>2, <2>3, LinksDescend
  <2> QED
    BY <1>0, <2>1, <2>4, HdlAssumption DEF HeldInv, Free
<1> QED
  BY <1>0, <1>1 DEF Maintain, Goto, CtlAcquire, CtlRelease, CtlVisit, CtlGetMetaCon, CtlScan,
     CtlSuccessor, NextLink, CtlReplaceMetaCon, CtlMatch, CtlScanned, CtlDestroy, cvars,
     CtlDropped, CtlGetNeed, CtlQuery, CtlAddMetaCon, CtlRmNeed, CtlVisited

LEMMA HandleNotCaught ==
  ASSUME WaitInv, Handle
  PROVE  c_pc' # "stuck" /\ \A g \in Hdl : w_pc'[g] # "stuck"
<1>0. /\ c_pc # "stuck" /\ \A g \in Hdl : w_pc[g] # "stuck"
      /\ w_pc \in [Hdl -> {"none", "loop", "frame", "send", "stuck", "done"}]
  BY FlowTypes DEF WaitInv, NeverCaught
<1>1. UNCHANGED c_pc
  BY DEF Handle, OpenClear, OpenDestroy, OpenCleared, OpenAdd, OpenGreet, OpenCheck,
     CmdQuery, CmdMethod, CmdNext, CmdLink, CmdNeed, CmdNamed, CmdReply, FeedQuery, FeedPush,
     FeedWarn, FeedRelocks, CloseQuery, CloseSet, controlvars, cvars
<1>2. CASE OpenAdd
  BY <1>0, <1>1, <1>2 DEF OpenAdd, Constructed
<1>3. CASE ~OpenAdd
  <2>1. UNCHANGED w_pc
    BY <1>3 DEF Handle, OpenClear, OpenDestroy, DestroyOrphan, OpenCleared, OpenGreet, OpenCheck,
       CmdQuery, CmdMethod, CmdNext, CmdLink, CmdNeed, CmdNamed, CmdReply, FeedQuery, FeedPush,
       FeedWarn, FeedRelocks, CloseQuery, CloseSet, mvars, worker
  <2> QED
    BY <1>0, <1>1, <2>1
<1> QED
  BY <1>2, <1>3

LEMMA WaitInit == Init => WaitInv
  BY FlowInit DEF WaitInv, NeverCaught, Init, MetaConnectionInit, ControlModuleInit

LEMMA WaitStep ==
  ASSUME RequestsAcyclic, WaitInv, [Next]_vars
  PROVE  WaitInv'
<1>0. Ranks # {}
  BY RanksExist
<1>1. FlowInv'
  BY FlowStep DEF WaitInv
<1>2. c_pc # "stuck" /\ \A h \in Hdl : w_pc[h] # "stuck"
  BY DEF WaitInv, NeverCaught
<1> SUFFICES c_pc' # "stuck" /\ \A h \in Hdl : w_pc'[h] # "stuck"
  BY <1>1 DEF WaitInv, NeverCaught
<1>3. CASE Outside
  <2>1. UNCHANGED <<c_pc, w_pc>>
    BY <1>3 DEF Outside, OnOpen, OnFrame, OnPeerClose, OnClose, OnText, mvars, worker,
                controlvars, cvars
  <2> QED
    BY <1>2, <2>1
<1>4. CASE Handle
  BY <1>4, HandleNotCaught
<1>5. CASE Maintain /\ UNCHANGED <<nvars, clients>>
  BY <1>0, <1>2, <1>5, MaintainNotCaught, MaintainFrame DEF worker
<1>6. ASSUME NEW h \in Hdl, Worker(h), UNCHANGED <<controlvars, nvars, clients>>
      PROVE  c_pc' # "stuck" /\ \A g \in Hdl : w_pc'[g] # "stuck"
  BY <1>0, <1>2, <1>6, WorkerNotCaught DEF controlvars, cvars
<1>7. CASE UNCHANGED vars
  BY <1>2, <1>7 DEF vars, mvars, worker, controlvars, cvars
<1> QED
  BY <1>3, <1>4, <1>5, <1>6, <1>7 DEF Next, Threads

-----------------------------------------------------------------------------
(* Who is inside the critical section of an object and waits there, in a set *)
(* of threads.                                                               *)
Inside(S) ==
    {g \in Hdl : (g \in S /\ w_pc[g] = "send") \/ ("ctl" \in S /\ c_pc = "match" /\ g = c_hdl)}

(* A set of threads that wait for each other, and of which the network       *)
(* thread is not caught by a mutex it holds.                                 *)
Circle(S) ==
    /\ S \subseteq Thread
    /\ \A t \in S : WaitsFor(t) \cap S # {}
    /\ ~("net" \in S /\ n_pc = "stuck")

LEMMA ThreadsDiffer ==
  /\ "net" # "ctl" /\ "net" \notin Hdl /\ "ctl" \notin Hdl /\ "free" \notin Hdl
  /\ \A t \in Thread : t \in Hdl \/ t = "net" \/ t = "ctl"
  BY HdlAssumption DEF Thread

(* The network thread does not wait while it holds the mutex of an object,   *)
(* so who holds one and waits is inside.                                     *)
LEMMA HeldInside ==
  ASSUME WaitInv, NEW S, Circle(S), NEW o \in Hdl, Holder(o) \cap S # {}
  PROVE  o \in Inside(S)
<1>1. PICK t \in S : t = m_lock[o] /\ t # "free"
  BY DEF Holder
<1>2. \/ t = "net" /\ n_pc \in {"feed.undef", "feed.warn", "stuck"}
      \/ t = "ctl" /\ c_hdl = o /\ c_pc = "match"
      \/ t = o /\ w_pc[o] = "send"
  <2>1. HeldInv /\ c_pc # "stuck" /\ w_pc[o] # "stuck"
    BY DEF WaitInv, NeverCaught, FlowInv, LifeInv
  <2>2. \/ m_lock[o] = "net" /\ n_pc \in NetHolds
        \/ m_lock[o] = "ctl" /\ c_hdl = o /\ c_pc \in CtlHolds
        \/ m_lock[o] = o /\ w_pc[o] \in {"send", "stuck"}
    BY <1>1, <2>1 DEF HeldInv, Free
  <2> QED
    BY <1>1, <2>1, <2>2 DEF NetHolds, CtlHolds
<1>3. CASE t = "net"
  <2>1. n_pc \in {"feed.undef", "feed.warn"}
    BY <1>2, <1>3, ThreadsDiffer DEF Circle
  <2>2. NetWaitsFor = {}
    BY <2>1 DEF NetWaitsFor, AskingMaps, AskingObject
  <2>3. WaitsFor("net") = NetWaitsFor
    BY ThreadsDiffer DEF WaitsFor
  <2> QED
    BY <1>1, <1>3, <2>2, <2>3 DEF Circle
<1>4. CASE t = "ctl"
  BY <1>1, <1>2, <1>4, ThreadsDiffer DEF Inside
<1>5. CASE t \in Hdl
  BY <1>1, <1>2, <1>5, ThreadsDiffer DEF Inside
<1> QED
  BY <1>1, <1>3, <1>4, <1>5, ThreadsDiffer DEF Circle

(* A worker in a circle waits for somebody inside, or is inside.             *)
LEMMA WorkerInside ==
  ASSUME WaitInv, NEW S, Circle(S), NEW h \in Hdl, h \in S
  PROVE  Inside(S) # {}
<1>1. WaitsFor(h) = WorkerWaitsFor(h)
  BY ThreadsDiffer DEF WaitsFor
<1>2. WorkerWaitsFor(h) \cap S # {}
  BY <1>1 DEF Circle
<1>3. w_pc[h] # "stuck"
  BY DEF WaitInv, NeverCaught
<1>4. CASE w_pc[h] \in {"loop", "frame"}
  <2>1. WorkerWaitsFor(h) = Holder(h)
    BY <1>4 DEF WorkerWaitsFor
  <2> QED
    BY <1>2, <2>1, HeldInside
<1>5. CASE w_pc[h] = "send"
  BY <1>5 DEF Inside
<1>6. CASE w_pc[h] \notin {"loop", "frame", "send", "stuck"}
  BY <1>2, <1>6 DEF WorkerWaitsFor
<1> QED
  BY <1>3, <1>4, <1>5, <1>6

(* Nobody joins but a worker.                                                *)
LEMMA JoinedInside ==
  ASSUME WaitInv, NEW S, Circle(S), Joined \cap S # {}
  PROVE  Inside(S) # {}
<1>1. PICK o \in Hdl : o \in S
  BY DEF Joined, Orphans
<1> QED
  BY <1>1, WorkerInside

(* So does the maintenance thread, when it is at work.                       *)
LEMMA CtlInside ==
  ASSUME WaitInv, NEW S, Circle(S), "ctl" \in S, c_pc # "idle"
  PROVE  Inside(S) # {}
<1>0. /\ c_pc # "stuck" /\ FlowInv /\ NameInv
      /\ TypeOK /\ c_hdl \in Hdl
  BY FlowTypes DEF WaitInv, NeverCaught, IInv
<1>1. CtlWaitsFor \cap S # {}
  <2>1. WaitsFor("ctl") = CtlWaitsFor
    BY ThreadsDiffer DEF WaitsFor
  <2> QED
    BY <2>1 DEF Circle
<1>2. CASE c_pc = "visit"
  <2>1. CtlWaitsFor = UNION {Holder(o) : o \in c_todo}
    BY <1>2 DEF CtlWaitsFor
  <2>2. PICK o \in c_todo : Holder(o) \cap S # {}
    BY <1>1, <2>1
  <2>3. o \in Hdl
    BY <1>0 DEF TypeOK, ControlModuleTypeOK
  <2> QED
    BY <2>2, <2>3, HeldInside
<1>3. CASE c_pc \in {"copy", "replace", "need", "add", "rm"}
  <2>1. CtlWaitsFor = Holder(c_hdl)
    BY <1>3 DEF CtlWaitsFor
  <2> QED
    BY <1>0, <1>1, <2>1, HeldInside
<1>4. CASE c_pc = "scan"
  <2>1. CASE c_j <= Len(c_inner)
    <3>1. CtlWaitsFor = Holder(c_inner[c_j])
      BY <1>4, <2>1 DEF CtlWaitsFor
    <3>2. c_inner \in Seq(Hdl) /\ c_j \in Nat \ {0}
      BY <1>0 DEF TypeOK, ControlModuleTypeOK
    <3>3. c_inner[c_j] \in Hdl
      BY <2>1, <3>2
    <3> QED
      BY <1>1, <3>1, <3>3, HeldInside
  <2>2. CASE ~(c_j <= Len(c_inner))
    BY <1>1, <1>4, <2>2 DEF CtlWaitsFor
  <2> QED
    BY <2>1, <2>2
<1>5. CASE c_pc = "successor"
  <2>1. CtlWaitsFor = Holder(m_alias2con[c_name])
    BY <1>5 DEF CtlWaitsFor
  <2>2. m_alias2con[c_name] \in Hdl
    <3>1. c_name \in Alias /\ m_alias2con \in [Alias -> Hdl \cup {NoCon}]
      BY <1>0 DEF TypeOK, ControlModuleTypeOK
    <3>2. m_alias2con[c_name] # NoCon
      BY <1>0, <1>5 DEF NameInv, Known, queryConUsingAlisa
    <3> QED
      BY <3>1, <3>2
  <2> QED
    BY <1>1, <2>1, <2>2, HeldInside
<1>6. CASE c_pc = "match"
  BY <1>0, <1>6 DEF Inside
<1>7. CASE c_pc = "drop"
  <2>1. CtlWaitsFor = Joined
    BY <1>7 DEF CtlWaitsFor
  <2> QED
    BY <1>1, <2>1, JoinedInside
<1>8. CASE c_pc = "query"
  BY <1>1, <1>8 DEF CtlWaitsFor
<1>9. c_pc \in {"idle", "visit", "copy", "scan", "successor", "replace", "match",
                 "drop", "need", "query", "add", "rm", "stuck"}
  BY <1>0 DEF TypeOK, ControlModuleTypeOK
<1> QED
  BY <1>0, <1>2, <1>3, <1>4, <1>5, <1>6, <1>7, <1>8, <1>9

(* And the network thread, when it has the lock of the maps.                 *)
LEMMA NetInside ==
  ASSUME WaitInv, NEW S, Circle(S), "net" \in S, n_pc = "open.check"
  PROVE  Inside(S) # {}
<1>1. NetWaitsFor \cap S # {}
  <2>1. WaitsFor("net") = NetWaitsFor
    BY ThreadsDiffer DEF WaitsFor
  <2> QED
    BY <2>1 DEF Circle
<1>2. NetWaitsFor = (UNION {Holder(o) : o \in n_left}) \cup Joined
  BY DEF NetWaitsFor, AskingMaps, AskingObject
<1>3. CASE Joined \cap S # {}
  BY <1>3, JoinedInside
<1>4. ASSUME NEW o \in n_left, Holder(o) \cap S # {} PROVE Inside(S) # {}
  <2>1. o \in Hdl
    BY FlowTypes DEF WaitInv, TypeOK, ServerTypeOK
  <2> QED
    BY <1>4, <2>1, HeldInside
<1>5. (\E o \in n_left : Holder(o) \cap S # {}) \/ Joined \cap S # {}
  <2>1. PICK t \in S : t \in NetWaitsFor
    BY <1>1
  <2>2. t \in Joined \/ \E o \in n_left : t \in Holder(o)
    BY <1>2, <2>1
  <2> QED
    BY <2>1, <2>2
<1> QED
  BY <1>3, <1>4, <1>5

(* Who asks for the lock of the maps waits for one of these two.             *)
LEMMA MapsInside ==
  ASSUME WaitInv, NEW S, Circle(S), MapHolder \cap S # {}
  PROVE  Inside(S) # {}
<1>1. LockInv /\ ctl_lock \in {"free", "net", "ctl"}
  BY FlowTypes DEF WaitInv, IInv, TypeOK, ControlModuleTypeOK
<1>2. \/ ctl_lock = "ctl" /\ "ctl" \in S /\ c_pc # "idle"
      \/ ctl_lock = "net" /\ "net" \in S /\ n_pc = "open.check"
  BY <1>1 DEF MapHolder, LockInv
<1> QED
  BY <1>2, CtlInside, NetInside

LEMMA SomebodyInside ==
  ASSUME WaitInv, NEW S, Circle(S), S # {}
  PROVE  Inside(S) # {}
<1>1. CASE \E h \in Hdl : h \in S
  BY <1>1, WorkerInside
<1>2. CASE "ctl" \in S
  <2>1. CASE c_pc = "idle"
    <3>1. CtlWaitsFor = MapHolder
      BY <2>1 DEF CtlWaitsFor
    <3>2. WaitsFor("ctl") = CtlWaitsFor
      BY ThreadsDiffer DEF WaitsFor
    <3> QED
      BY <1>2, <3>1, <3>2, MapsInside DEF Circle
  <2> QED
    BY <1>2, <2>1, CtlInside
<1>3. CASE "net" \in S
  <2>1. NetWaitsFor \cap S # {} /\ n_pc # "stuck"
    <3>1. WaitsFor("net") = NetWaitsFor
      BY ThreadsDiffer DEF WaitsFor
    <3> QED
      BY <1>3, <3>1 DEF Circle
  <2>2. CASE n_pc \in AskingMaps
    <3>1. NetWaitsFor = MapHolder
      BY <2>2 DEF NetWaitsFor, AskingMaps, AskingObject
    <3> QED
      BY <2>1, <3>1, MapsInside
  <2>3. CASE n_pc \in AskingObject
    <3>1. NetWaitsFor = Holder(n_hdl)
      BY <2>3 DEF NetWaitsFor, AskingMaps, AskingObject
    <3>2. n_hdl \in Hdl
      BY FlowTypes DEF WaitInv
    <3> QED
      BY <2>1, <3>1, <3>2, HeldInside
  <2>4. CASE n_pc = "open.check"
    BY <1>3, <2>4, NetInside
  <2>5. CASE n_pc \notin AskingMaps \cup AskingObject \cup {"open.check", "stuck"}
    BY <2>1, <2>5 DEF NetWaitsFor
  <2> QED
    BY <2>1, <2>2, <2>3, <2>4, <2>5
<1> QED
  BY <1>1, <1>2, <1>3, ThreadsDiffer DEF Circle

(* Whoever is inside waits for somebody inside an object further down.       *)
LEMMA FurtherDown ==
  ASSUME WaitInv, NEW S, Circle(S), NEW rank \in Ranks, NEW g \in Inside(S)
  PROVE  \E o \in Inside(S) : rank[UriAlias[o]] < rank[UriAlias[g]]
<1>0. FlowInv /\ HoldsInv /\ g \in Hdl
  BY DEF WaitInv, FlowInv, Inside
<1>1. CASE g \in S /\ w_pc[g] = "send"
  <2>1. WaitsFor(g) = Holder(WorkerTarget(g))
    BY <1>0, <1>1, ThreadsDiffer DEF WaitsFor, WorkerWaitsFor
  <2>2. w_i[g] \in 1..Len(m_toMetaCon[g])
    BY <1>0, <1>1 DEF HoldsInv
  <2>3. PICK o \in Hdl : o = WorkerTarget(g) /\ rank[UriAlias[o]] < rank[UriAlias[g]]
    BY <1>0, <2>2, LinksDescend DEF WorkerTarget
  <2>4. Holder(o) \cap S # {}
    BY <1>1, <2>1, <2>3 DEF Circle
  <2> QED
    BY <2>3, <2>4, HeldInside
<1>2. CASE "ctl" \in S /\ c_pc = "match" /\ g = c_hdl
  <2>1. WaitsFor("ctl") = CtlWaitsFor
    BY ThreadsDiffer DEF WaitsFor
  <2>2. c_k <= Len(m_toMetaCon[g]) /\ CtlWaitsFor = Holder(m_toMetaCon[g][c_k])
    BY <1>2, <2>1 DEF CtlWaitsFor, Circle
  <2>3. c_k \in 1..Len(m_toMetaCon[g])
    <3>1. c_k \in Nat \ {0} /\ m_toMetaCon \in [Hdl -> Seq(Hdl)]
      BY <1>0, FlowTypes
    <3>2. Len(m_toMetaCon[g]) \in Nat
      BY <1>0, <3>1
    <3> QED
      BY <2>2, <3>1, <3>2
  <2>4. PICK o \in Hdl : o = m_toMetaCon[g][c_k] /\ rank[UriAlias[o]] < rank[UriAlias[g]]
    BY <1>0, <2>3, LinksDescend
  <2>5. Holder(o) \cap S # {}
    BY <1>2, <2>1, <2>2, <2>4 DEF Circle
  <2> QED
    BY <2>4, <2>5, HeldInside
<1> QED
  BY <1>1, <1>2 DEF Inside

(* That cannot go on for ever.                                               *)
LEMMA NoCircle ==
  ASSUME WaitInv, Ranks # {}, NEW S, Circle(S)
  PROVE  S = {}
<1> SUFFICES ASSUME S # {} PROVE FALSE
  OBVIOUS
<1>1. PICK rank \in Ranks : TRUE
  OBVIOUS
<1>2. \A g \in Inside(S) : rank[UriAlias[g]] \in Nat
  BY AliasAssumption DEF Ranks, Inside
<1> DEFINE Above == {n \in Nat : \A g \in Inside(S) : n <= rank[UriAlias[g]]}
<1>3. 0 \in Above
  BY <1>2
<1>4. ASSUME NEW n \in Nat, n \in Above PROVE n + 1 \in Above
  <2>1. ASSUME NEW g \in Inside(S) PROVE n + 1 <= rank[UriAlias[g]]
    <3>1. PICK o \in Inside(S) : rank[UriAlias[o]] < rank[UriAlias[g]]
      BY FurtherDown
    <3>2. n <= rank[UriAlias[o]]
      BY <1>4
    <3> QED
      BY <1>2, <3>1, <3>2
  <2> QED
    BY <2>1
<1>5. Nat \subseteq Above
  <2> HIDE DEF Above
  <2> QED
    BY <1>3, <1>4, SetInduction
<1>6. PICK g : g \in Inside(S)
  BY SomebodyInside
<1>7. rank[UriAlias[g]] + 1 \in Above
  BY <1>2, <1>5, <1>6
<1> QED
  BY <1>2, <1>6, <1>7

(* Where what clients ask for has no circle, threads do not wait for each    *)
(* other in one, whoever connects, sends or goes away meanwhile.             *)
THEOREM NobodyWaitsInACircle ==
  ASSUME RequestsAcyclic
  PROVE  Spec => []NoCircularWait
<1>1. WaitInv => NoCircularWait
  BY RanksExist, NoCircle DEF NoCircularWait, Circle
<1>2. Init => WaitInv
  BY WaitInit
<1>3. WaitInv /\ [Next]_vars => WaitInv'
  BY WaitStep
<1> QED
  BY <1>1, <1>2, <1>3, PTL DEF Spec

=============================================================================
