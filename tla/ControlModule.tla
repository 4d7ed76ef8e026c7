---------------------------- MODULE ControlModule ----------------------------
(* struct ControlModule: the two maps of the admitted connections, and the   *)
(* maintenance thread "ctl" that polls them for ever. In one pass, under the *)
(* lock of the maps, it heals the links of every object that is still open   *)
(* (a closed target is replaced by the object that now has its name) and     *)
(* adds the links that had to wait for their target to connect.              *)
EXTENDS MetaConnection, SequencesExt

CONSTANT NoCon         \* what an alias that is not in m_alias2con maps to

ASSUME NoConAssumption == NoCon \notin Hdl /\ Hdl # {}

VARIABLES
    m_alias2con,       \* from names to objects
    m_hdl2con,         \* the handles that have an object: handle h maps to h
    ctl_lock,          \* the thread that holds the module's m_lock, or "free"
    c_pc,              \* where the maintenance thread is
    c_todo,            \* the objects its pass has still to visit
    c_hdl,             \* the object it visits
    c_inner, c_j,      \* its copy of the object's links, and its place there
    c_k,               \* its place in the links while it replaces one
    c_name,            \* the name it handles
    c_names            \* what is left of its copy of m_needConnectAlias

registry == <<m_alias2con, m_hdl2con>>
scan == <<c_inner, c_j, c_k>>
namevars == <<c_name, c_names>>
cvars == <<c_pc, c_todo, c_hdl, scan, namevars>>
controlvars == <<registry, ctl_lock, cvars>>

AnyHdl == CHOOSE h \in Hdl : TRUE

ControlModuleTypeOK ==
    /\ m_alias2con \in [Alias -> Hdl \cup {NoCon}]
    /\ m_hdl2con \in SUBSET Hdl
    /\ ctl_lock \in {"free", "net", "ctl"}
    /\ c_pc \in {"idle", "visit", "copy", "scan", "successor", "replace", "match",
                 "drop", "need", "query", "add", "rm", "stuck"}
    /\ c_todo \in SUBSET Hdl
    /\ c_hdl \in Hdl
    /\ c_inner \in Seq(Hdl)
    /\ c_j \in Nat \ {0}
    /\ c_k \in Nat \ {0}
    /\ c_name \in Alias
    /\ c_names \in SUBSET Alias

ControlModuleInit ==
    /\ m_alias2con = [a \in Alias |-> NoCon]
    /\ m_hdl2con = {}
    /\ ctl_lock = "free"
    /\ c_pc = "idle"
    /\ c_todo = {}
    /\ c_hdl = AnyHdl
    /\ c_inner = <<>>
    /\ c_j = 1
    /\ c_k = 1
    /\ c_name = Undefined
    /\ c_names = {}

-----------------------------------------------------------------------------
(* The operations on the maps; each is under ctl_lock.                       *)
queryConUsingAlisa(a) == m_alias2con[a]
queryConUsingHdl(h) == h \in m_hdl2con
Known(a) == queryConUsingAlisa(a) # NoCon

Inserted(h) ==
    /\ m_alias2con' = [m_alias2con EXCEPT ![m_alias(h)] = h]
    /\ m_hdl2con' = m_hdl2con \cup {h}

(* AddConnection admits a connection if nobody has its name.                 *)
NameTakenOver(h) == TRUE              \* a bug that would show: it always does
NameFree(h) == ~Known(m_alias(h))

(* clearCon gives up what it finds under a handle and closed.                *)
EvictableOpen(o) == queryConUsingHdl(o)     \* a bug that would show
Evictable(o) == queryConUsingHdl(o) /\ m_status[o] = "CLOSE"

(* Bugs that would show: the handles are left behind; everything is swept,   *)
(* whatever the name.                                                        *)
ClearedNamesOnly(a, o) ==
    /\ m_alias2con' = [b \in Alias |-> IF a \in {b, Undefined} THEN NoCon ELSE m_alias2con[b]]
    /\ UNCHANGED m_hdl2con

ClearedAlways(a, o) ==
    /\ m_alias2con' = [b \in Alias |-> NoCon]
    /\ m_hdl2con' = {}

(* clearCon, once it has found o closed: for a name, that name's entries go; *)
(* for the name "undefined", the two maps are emptied.                       *)
Cleared(a, o) ==
    IF a = Undefined
    THEN /\ m_alias2con' = [b \in Alias |-> NoCon]
         /\ m_hdl2con' = {}
    ELSE /\ m_alias2con' = [m_alias2con EXCEPT ![a] = NoCon]
         /\ m_hdl2con' = m_hdl2con \ {o}

(* An object lives as long as a shared_ptr to it does: one in a map, in some *)
(* object's links, or in the maintenance thread's copy of them.              *)
ReferencedByMaps(o) ==     \* a bug that would show: links do not keep alive
    o \in m_hdl2con \/ o \in ToSet(c_inner)

Referenced(o) ==
    \/ o \in m_hdl2con
    \/ \E a \in Alias : m_alias2con[a] = o
    \/ \E h \in Hdl : o \in ToSet(m_toMetaCon[h])
    \/ o \in ToSet(c_inner)

Orphans == {o \in Hdl : life[o] \in {"live", "stopping"} /\ ~Referenced(o)}

(* Whoever drops the last shared_ptr runs the destructors, one by one; the   *)
(* links of a destroyed object may in turn have been the last to another.    *)
DestroyOrphan ==
    /\ \E o \in Orphans :
          \/ /\ \A p \in Orphans : life[p] = "live"
             /\ StopWorker(o)
          \/ JoinWorker(o)
    /\ UNCHANGED <<tvars, m_status, settings, m_lock, worker, fault, registry, ctl_lock>>

-----------------------------------------------------------------------------
(* The maintenance thread.                                                   *)
At(pc) == Running /\ c_pc = pc
Goto(pc) == c_pc' = pc

CtlAcquire ==
    /\ At("idle") /\ ctl_lock = "free"
    /\ ctl_lock' = "ctl"
    /\ c_todo' = m_hdl2con
    /\ Goto("visit")
    /\ UNCHANGED <<tvars, mvars, registry, c_hdl, scan, namevars>>

CtlReleaseKeepsLock ==     \* a bug that would show
    /\ At("visit") /\ c_todo = {}
    /\ Goto("idle")
    /\ UNCHANGED <<tvars, mvars, registry, ctl_lock, c_todo, c_hdl, scan, namevars>>

CtlRelease ==
    /\ At("visit") /\ c_todo = {}
    /\ ctl_lock' = "free"
    /\ Goto("idle")
    /\ UNCHANGED <<tvars, mvars, registry, c_todo, c_hdl, scan, namevars>>

(* getStatus: only the links of an open object are looked after.             *)
CtlVisit(h) ==
    /\ At("visit") /\ h \in c_todo /\ Free(h)
    /\ c_hdl' = h
    /\ Goto(IF m_status[h] = "OPEN" THEN "copy" ELSE "need")
    /\ UNCHANGED <<tvars, mvars, registry, ctl_lock, c_todo, scan, namevars>>

CtlGetMetaCon ==
    /\ At("copy") /\ Free(c_hdl)
    /\ c_inner' = m_toMetaCon[c_hdl]
    /\ Goto("scan")
    /\ UNCHANGED <<tvars, mvars, registry, ctl_lock, c_todo, c_hdl, c_j, c_k, namevars>>

NextLink ==
    /\ c_j' = c_j + 1
    /\ Goto("scan")

(* Is this target closed, and does its name belong to some object now? The   *)
(* name of an object never changes: getName goes with getStatus.             *)
CtlScan ==
    /\ At("scan") /\ c_j <= Len(c_inner)
    /\ LET to == c_inner[c_j] IN
         /\ Free(to)
         /\ IF m_status[to] = "CLOSE" /\ HasName(to) /\ Known(m_alias(to))
            THEN /\ c_name' = m_alias(to)
                 /\ Goto("successor")
                 /\ UNCHANGED c_j
            ELSE NextLink /\ UNCHANGED c_name
    /\ UNCHANGED <<tvars, mvars, registry, ctl_lock, c_todo, c_hdl, c_inner, c_k, c_names>>

CtlSuccessorInverted ==    \* a bug that would show
    /\ At("successor") /\ Free(queryConUsingAlisa(c_name))
    /\ IF m_status[queryConUsingAlisa(c_name)] = "OPEN"
       THEN NextLink
       ELSE Goto("replace") /\ UNCHANGED c_j
    /\ UNCHANGED <<tvars, mvars, registry, ctl_lock, c_todo, c_hdl, c_inner, c_k, namevars>>

CtlSuccessor ==
    /\ At("successor") /\ Free(queryConUsingAlisa(c_name))
    /\ IF m_status[queryConUsingAlisa(c_name)] = "OPEN"
       THEN Goto("replace") /\ UNCHANGED c_j
       ELSE NextLink
    /\ UNCHANGED <<tvars, mvars, registry, ctl_lock, c_todo, c_hdl, c_inner, c_k, namevars>>

(* replaceMetaCon holds the lock of the object while it asks its targets, in *)
(* order, for their names, and replaces the first that has the name.         *)
CtlReplaceMetaCon ==
    /\ At("replace") /\ Free(c_hdl)
    /\ Locked(c_hdl, "ctl")
    /\ c_k' = 1
    /\ Goto("match")
    /\ UNCHANGED <<tvars, m_status, settings, m_toMetaCon, life, worker, fault, registry,
                   ctl_lock, c_todo, c_hdl, c_inner, c_j, namevars>>

Matches(to) == HasName(to) /\ m_alias(to) = c_name

CtlMatch ==
    /\ At("match")
    /\ LET links == m_toMetaCon[c_hdl] IN
         /\ c_k <= Len(links) => Acquirable(links[c_k], "ctl")
         /\ IF c_k <= Len(links) /\ ~Matches(links[c_k])
            THEN /\ c_k' = c_k + 1
                 /\ UNCHANGED <<m_toMetaCon, m_lock, c_j, c_pc>>
            ELSE /\ m_toMetaCon' = IF c_k <= Len(links)
                        THEN [m_toMetaCon EXCEPT ![c_hdl][c_k] = queryConUsingAlisa(c_name)]
                        ELSE m_toMetaCon
                 /\ Unlocked(c_hdl)
                 /\ NextLink
                 /\ UNCHANGED c_k
    /\ UNCHANGED <<tvars, m_status, settings, life, worker, fault, registry, ctl_lock,
                   c_todo, c_hdl, c_inner, namevars>>

(* The object is among its own targets.                                      *)
CtlMatchRelocks ==
    /\ At("match") /\ c_k <= Len(m_toMetaCon[c_hdl])
    /\ Relocks(m_toMetaCon[c_hdl][c_k], "ctl")
    /\ \/ "blocks" \in Relock /\ Goto("stuck") /\ UNCHANGED fault
       \/ "throws" \in Relock /\ fault' = "relock" /\ UNCHANGED c_pc
    /\ UNCHANGED <<tvars, m_status, settings, m_toMetaCon, m_lock, life, worker, registry,
                   ctl_lock, c_todo, c_hdl, scan, namevars>>

(* The copy of the links goes out of scope.                                  *)
CtlScanned ==
    /\ At("scan") /\ c_j > Len(c_inner)
    /\ c_inner' = <<>>
    /\ c_j' = 1
    /\ c_k' = 1
    /\ Goto("drop")
    /\ UNCHANGED <<tvars, mvars, registry, ctl_lock, c_todo, c_hdl, namevars>>

CtlDestroy ==
    /\ At("drop") /\ DestroyOrphan
    /\ UNCHANGED cvars

CtlDroppedSkipsNeed ==     \* a bug that would show
    /\ At("drop") /\ Orphans = {}
    /\ c_todo' = c_todo \ {c_hdl}
    /\ Goto("visit")
    /\ UNCHANGED <<tvars, mvars, registry, ctl_lock, c_hdl, scan, namevars>>

CtlDropped ==
    /\ At("drop") /\ Orphans = {}
    /\ Goto("need")
    /\ UNCHANGED <<tvars, mvars, registry, ctl_lock, c_todo, c_hdl, scan, namevars>>

CtlGetNeed ==
    /\ At("need") /\ Free(c_hdl)
    /\ c_names' = m_needConnectAlias[c_hdl]
    /\ Goto("query")
    /\ UNCHANGED <<tvars, mvars, registry, ctl_lock, c_todo, c_hdl, scan, c_name>>

(* A bug that would show: a name nobody has yet is removed as well.          *)
CtlQueryForgets(a) ==
    /\ At("query") /\ a \in c_names
    /\ c_names' = c_names \ {a}
    /\ c_name' = a
    /\ Goto(IF Known(a) THEN "add" ELSE "rm")
    /\ UNCHANGED <<tvars, mvars, registry, ctl_lock, c_todo, c_hdl, scan>>

(* The next name of the copy; a name nobody has is left for a later pass.    *)
CtlQuery(a) ==
    /\ At("query") /\ a \in c_names
    /\ c_names' = c_names \ {a}
    /\ IF Known(a) THEN c_name' = a /\ Goto("add") ELSE UNCHANGED <<c_name, c_pc>>
    /\ UNCHANGED <<tvars, mvars, registry, ctl_lock, c_todo, c_hdl, scan>>

CtlAddMetaCon ==
    /\ At("add") /\ Free(c_hdl)
    /\ addMetaCon(c_hdl, queryConUsingAlisa(c_name))
    /\ Goto("rm")
    /\ UNCHANGED <<tvars, m_status, settings, m_lock, life, worker, fault, registry,
                   ctl_lock, c_todo, c_hdl, scan, namevars>>

CtlRmNeed ==
    /\ At("rm") /\ Free(c_hdl)
    /\ rmNeedConnectAlias(c_hdl, c_name)
    /\ Goto("query")
    /\ UNCHANGED <<tvars, m_status, m_method, m_framePool, m_toMetaCon, m_lock, life, worker,
                   fault, registry, ctl_lock, c_todo, c_hdl, scan, namevars>>

CtlVisited ==
    /\ At("query") /\ c_names = {}
    /\ c_todo' = c_todo \ {c_hdl}
    /\ c_hdl' = AnyHdl
    /\ c_name' = Undefined
    /\ Goto("visit")
    /\ UNCHANGED <<tvars, mvars, registry, ctl_lock, scan, c_names>>

Maintain ==
    \/ CtlAcquire \/ CtlRelease
    \/ \E h \in Hdl : CtlVisit(h)
    \/ CtlGetMetaCon \/ CtlScan \/ CtlSuccessor
    \/ CtlReplaceMetaCon \/ CtlMatch \/ CtlMatchRelocks
    \/ CtlScanned \/ CtlDestroy \/ CtlDropped
    \/ CtlGetNeed
    \/ \E a \in Alias : CtlQuery(a)
    \/ CtlAddMetaCon \/ CtlRmNeed \/ CtlVisited

=============================================================================
