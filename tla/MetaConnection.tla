---------------------------- MODULE MetaConnection ----------------------------
(* class metaConnection: one object, with a worker thread and a mutex of its *)
(* own, per connection the server has admitted. An object is named by the    *)
(* handle of its connection. Its methods are called by three kinds of        *)
(* threads: the network thread "net", the maintenance thread "ctl" of the    *)
(* ControlModule, and the worker h of each object h.                         *)
(*                                                                           *)
(* A critical section that only touches its own object is one step, which    *)
(* needs the object's m_lock free. A lock held while another is taken is     *)
(* held across steps, in m_lock.                                             *)
EXTENDS Transport

CONSTANTS
    Alias,             \* the names clients may give themselves
    Undefined,         \* the name "undefined"
    UriAlias,          \* UriAlias[h]: the Alias in the URI of connection h
    FRAMEPOOLMAXSIZE,  \* frames kept before the pool is emptied
    Relock             \* what locking a std::mutex twice does: undefined by
                       \* the standard, so any of these: "blocks", "throws"
                       \* (system_error), "reenters"

ASSUME HdlAssumption == Hdl \cap {"net", "ctl", "free"} = {}
ASSUME AliasAssumption == Undefined \in Alias /\ UriAlias \in [Hdl -> Alias]
ASSUME PoolAssumption == FRAMEPOOLMAXSIZE \in Nat \ {0}
ASSUME RelockAssumption == Relock \subseteq {"blocks", "throws", "reenters"}

VARIABLES
    m_status,            \* "OPEN" or "CLOSE"
    m_method,            \* "UNDEFINED" or "IMG_RETRANSMISSION"
    m_framePool,         \* the frames fed and not yet taken by the worker
    m_toMetaCon,         \* the objects this one forwards to
    m_needConnectAlias,  \* the names it shall forward to once they connect
    m_lock,              \* the thread that holds m_lock, or "free"
    life,                \* "none", "live", "stopping" (in stop()), "freed"
    w_pc, w_frame, w_i,  \* where the worker is, its frame, its next target
    fault                \* "none", or what ended the process

settings == <<m_method, m_framePool, m_needConnectAlias>>
worker == <<w_pc, w_frame, w_i>>
mvars == <<m_status, settings, m_toMetaCon, m_lock, life, worker, fault>>

Thread == Hdl \cup {"net", "ctl"}

MetaConnectionTypeOK ==
    /\ m_status \in [Hdl -> {"OPEN", "CLOSE"}]
    /\ m_method \in [Hdl -> {"UNDEFINED", "IMG_RETRANSMISSION"}]
    /\ m_framePool \in [Hdl -> Seq(Nat)]
    /\ m_toMetaCon \in [Hdl -> Seq(Hdl)]
    /\ m_needConnectAlias \in [Hdl -> SUBSET Alias]
    /\ m_lock \in [Hdl -> Thread \cup {"free"}]
    /\ life \in [Hdl -> {"none", "live", "stopping", "freed"}]
    /\ w_pc \in [Hdl -> {"none", "loop", "frame", "send", "stuck", "done"}]
    /\ w_frame \in [Hdl -> Nat]
    /\ w_i \in [Hdl -> Nat]
    /\ fault \in {"none", "relock", "iterator", "notequal", "null", "badclose"}

MetaConnectionInit ==
    /\ m_status = [h \in Hdl |-> "OPEN"]
    /\ m_method = [h \in Hdl |-> "UNDEFINED"]
    /\ m_framePool = [h \in Hdl |-> <<>>]
    /\ m_toMetaCon = [h \in Hdl |-> <<>>]
    /\ m_needConnectAlias = [h \in Hdl |-> {}]
    /\ m_lock = [h \in Hdl |-> "free"]
    /\ life = [h \in Hdl |-> "none"]
    /\ w_pc = [h \in Hdl |-> "none"]
    /\ w_frame = [h \in Hdl |-> 0]
    /\ w_i = [h \in Hdl |-> 1]
    /\ fault = "none"

-----------------------------------------------------------------------------
(* m_alias, set by setName before any other thread can reach the object; and *)
(* getName, which has no answer for the name "undefined".                    *)
m_alias(h) == UriAlias[h]
HasName(h) == m_alias(h) # Undefined

Running == fault = "none"
Free(h) == m_lock[h] = "free"
Locked(h, t) == m_lock' = [m_lock EXCEPT ![h] = t]
Unlocked(h) == m_lock' = [m_lock EXCEPT ![h] = "free"]

(* Thread t asks for a mutex it already holds; unless that reenters, it does *)
(* not come back.                                                            *)
Relocks(h, t) == m_lock[h] = t
Acquirable(h, t) == Free(h) \/ (Relocks(h, t) /\ "reenters" \in Relock)

(* The constructor: the worker starts at once.                               *)
Constructed(h) ==
    /\ m_status' = [m_status EXCEPT ![h] = "OPEN"]
    /\ life' = [life EXCEPT ![h] = "live"]
    /\ w_pc' = [w_pc EXCEPT ![h] = "loop"]

(* SendTo and SentBinary, under the lock of h: a send that fails marks the   *)
(* object CLOSE, possibly long before its close handler runs.                *)
SendTo(h, m) ==
    IF m_status[h] = "OPEN"
    THEN /\ Sent(h, m)
         /\ m_status' = IF Accepts(h) THEN m_status
                        ELSE [m_status EXCEPT ![h] = "CLOSE"]
    ELSE UNCHANGED <<outbox, m_status>>

(* A bug that would show: the text of the command is stored unseen.          *)
SetMethodAnything(h, method) == m_method' = [m_method EXCEPT ![h] = method]

SetMethod(h, method) ==
    m_method' = IF method = "ImgRetransmission"
                THEN [m_method EXCEPT ![h] = "IMG_RETRANSMISSION"]
                ELSE m_method

addMetaCon(h, to) ==
    m_toMetaCon' = [m_toMetaCon EXCEPT ![h] = Append(@, to)]

addNeedConnectAlias(h, a) ==
    m_needConnectAlias' = [m_needConnectAlias EXCEPT ![h] = @ \cup {a}]

rmNeedConnectAlias(h, a) ==
    m_needConnectAlias' = [m_needConnectAlias EXCEPT ![h] = @ \ {a}]

setStatus(h, status) ==
    m_status' = [m_status EXCEPT ![h] = status]

(* feedFrame before its nested SendTo: which warning, if any, it sends, and  *)
(* the pool it leaves behind for the push.                                   *)
FeedWarning(h) ==
    CASE m_method[h] = "UNDEFINED" -> "undef"
      [] m_method[h] # "UNDEFINED" /\ Len(m_framePool[h]) >= FRAMEPOOLMAXSIZE -> "warn"
      [] OTHER -> "none"

(* A bug that would show: the newest frame first.                            *)
PushFrameInFront(h, k) ==
    m_framePool' = [m_framePool EXCEPT
        ![h] = IF Len(@) >= FRAMEPOOLMAXSIZE THEN <<k>> ELSE <<k>> \o @]

PushFrame(h, k) ==
    m_framePool' = [m_framePool EXCEPT
        ![h] = IF Len(@) >= FRAMEPOOLMAXSIZE THEN <<k>> ELSE Append(@, k)]

-----------------------------------------------------------------------------
(* The worker thread. It looks at m_thrEndLabel, then takes a frame: since   *)
(* the label is a plain bool that another thread writes, it may go on for a  *)
(* while after stop() has set it. With no frame it only yields.              *)
getFrame(h) ==
    /\ Running /\ w_pc[h] = "loop" /\ Free(h) /\ m_framePool[h] # <<>>
    /\ w_frame' = [w_frame EXCEPT ![h] = Head(m_framePool[h])]
    /\ m_framePool' = [m_framePool EXCEPT ![h] = Tail(@)]
    /\ w_pc' = [w_pc EXCEPT ![h] = "frame"]
    /\ UNCHANGED <<tvars, m_status, m_method, m_needConnectAlias, m_toMetaCon,
                   m_lock, life, w_i, fault>>

(* It locks its own object for the whole of the forwarding loop.             *)
ForwardFrame(h) ==
    /\ Running /\ w_pc[h] = "frame" /\ Free(h)
    /\ IF m_method[h] = "IMG_RETRANSMISSION" /\ m_toMetaCon[h] # <<>>
       THEN /\ Locked(h, h)
            /\ w_pc' = [w_pc EXCEPT ![h] = "send"]
       ELSE /\ w_pc' = [w_pc EXCEPT ![h] = "loop"]
            /\ UNCHANGED m_lock
    /\ w_i' = [w_i EXCEPT ![h] = 1]
    /\ UNCHANGED <<tvars, m_status, settings, m_toMetaCon, life, w_frame, fault>>

WorkerTarget(h) == m_toMetaCon[h][w_i[h]]

(* One target's SentBinary, which takes the lock of the target. The worker's *)
(* own lock is released with the last one.                                   *)
SentBinary(h) ==
    /\ Running /\ w_pc[h] = "send" /\ Acquirable(WorkerTarget(h), h)
    /\ SendTo(WorkerTarget(h), FrameMsg(h, w_frame[h]))
    /\ IF w_i[h] < Len(m_toMetaCon[h])
       THEN /\ w_i' = [w_i EXCEPT ![h] = @ + 1]
            /\ UNCHANGED <<m_lock, w_pc>>
       ELSE /\ Unlocked(h)
            /\ w_pc' = [w_pc EXCEPT ![h] = "loop"]
            /\ UNCHANGED w_i
    /\ UNCHANGED <<conn, settings, m_toMetaCon, life, w_frame, fault>>

(* The target is the object itself, whose lock the worker already holds.     *)
SentBinaryRelocks(h) ==
    /\ Running /\ w_pc[h] = "send" /\ Relocks(WorkerTarget(h), h)
    /\ \/ /\ "blocks" \in Relock
          /\ w_pc' = [w_pc EXCEPT ![h] = "stuck"]
          /\ UNCHANGED fault
       \/ /\ "throws" \in Relock
          /\ fault' = "relock"
          /\ UNCHANGED w_pc
    /\ UNCHANGED <<tvars, m_status, settings, m_toMetaCon, m_lock, life, w_frame, w_i>>

(* A bug that would show: the thread starts before the label is initialized. *)
EndWorkerUnasked(h) ==
    /\ Running /\ w_pc[h] = "loop"
    /\ w_pc' = [w_pc EXCEPT ![h] = "done"]
    /\ UNCHANGED <<tvars, m_status, settings, m_toMetaCon, m_lock, life, w_frame,
                   w_i, fault>>

EndWorker(h) ==
    /\ Running /\ w_pc[h] = "loop" /\ life[h] = "stopping"
    /\ w_pc' = [w_pc EXCEPT ![h] = "done"]
    /\ UNCHANGED <<tvars, m_status, settings, m_toMetaCon, m_lock, life, w_frame,
                   w_i, fault>>

Worker(h) ==
    \/ getFrame(h)
    \/ ForwardFrame(h)
    \/ SentBinary(h)
    \/ SentBinaryRelocks(h)
    \/ EndWorker(h)

-----------------------------------------------------------------------------
(* ~metaConnection calls stop(): it raises m_thrEndLabel and joins the       *)
(* worker; the members, and with them the links, go when that has ended.     *)
StopWorker(h) ==
    /\ life[h] = "live"
    /\ life' = [life EXCEPT ![h] = "stopping"]
    /\ UNCHANGED m_toMetaCon

JoinWorker(h) ==
    /\ life[h] = "stopping" /\ w_pc[h] = "done"
    /\ life' = [life EXCEPT ![h] = "freed"]
    /\ m_toMetaCon' = [m_toMetaCon EXCEPT ![h] = <<>>]

=============================================================================
