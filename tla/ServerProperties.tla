--------------------------- MODULE ServerProperties ---------------------------
(* What is checked, and in part proved, of the server.                       *)
EXTENDS ServerEndPoint

(* The two maps say the same: an object found by name is found by its handle *)
(* and has that name, and the other way round, at every point where the lock *)
(* of the maps can be taken (clearCon and AddConnection update them in       *)
(* separate critical sections, and sweep both for the name "undefined").     *)
RegistryConsistent ==
    /\ \A a \in Alias : Known(a) => /\ m_alias2con[a] \in m_hdl2con
                                    /\ m_alias(m_alias2con[a]) = a
    /\ \A h \in m_hdl2con : m_alias2con[m_alias(h)] = h

(* The branches the source takes for impossible: the exception of clearCon   *)
(* for a name without handle, the reply to a command, and the refusal of a   *)
(* frame, from a connection that is open and has no object. They are not     *)
(* reached as long as nobody connects as "undefined".                        *)
UnreachableBranches == fault \notin {"notequal", "null", "badclose"}

(* A connection that was admitted and is still open stays in the maps,       *)
(* whoever connects in the meantime: clearCon, running for one connection,   *)
(* takes out only others that are closed. (Not so where somebody connects as *)
(* "undefined": then it takes out all there are.)                            *)
OpenStaysRegistered ==
    [][\A h \in m_hdl2con : conn[h] = "open" => h \in m_hdl2con']_vars

(* Joining a worker and destroying an object never pulls it away from under  *)
(* someone: what a map, a link or the maintenance thread can still reach has *)
(* not begun to be destroyed, and a destroyed object has no thread left, and *)
(* its mutex is not held.                                                    *)
NoDangling ==
    \A h \in Hdl :
       /\ Referenced(h) => life[h] = "live"
       /\ life[h] = "freed" => w_pc[h] = "done" /\ Free(h)

(* A name a client has asked to forward to is never forgotten: it is the     *)
(* name of a link, or it waits in m_needConnectAlias, even while the         *)
(* maintenance thread turns one into the other and heals links, and while    *)
(* further commands come in.                                                 *)
LinkedTo(h, a) == \E i \in 1..Len(m_toMetaCon[h]) : m_alias(m_toMetaCon[h][i]) = a

RequestKept ==
    \A h \in m_hdl2con : \A a \in asked[h] :
       \/ a \in m_needConnectAlias[h] \/ LinkedTo(h, a)
       \/ n_hdl = h /\ n_pc \in {"cmd.query", "cmd.method"}
       \/ n_hdl = h /\ n_pc \in {"cmd.next", "cmd.link", "cmd.need"} /\ a \in ToSet(n_rest)

(* Names change hands the way AliasRegistry allows: no connection takes over *)
(* the name of one that is open, and none has two.                           *)
Presence == [h \in Hdl |-> CASE conn[h] = "none" -> "new"
                             [] conn[h] = "open" -> "here"
                             [] conn[h] \notin {"none", "open"} -> "gone"]

Registry == INSTANCE AliasRegistry WITH owner <- m_alias2con, presence <- Presence
RegistrySpec == Registry!Spec

(* Frames travel the way Relay allows: from the client that sent them, past  *)
(* its pool, its worker and its links, to the connections that had a name it *)
(* asked for; in order, each at most once.                                   *)
FrameList(msgs) ==
    LET upTo[i \in 0..Len(msgs)] ==
            IF i = 0 THEN <<>>
            ELSE IF msgs[i].kind = "frame"
                 THEN Append(upTo[i - 1], <<msgs[i].src, msgs[i].n>>)
                 ELSE upTo[i - 1]
    IN  upTo[Len(msgs)]

FramesOf(h) == FrameList(outbox[h])

Frames == INSTANCE Relay WITH
    NameOf <- UriAlias,
    wanted <- asked,
    sent <- fed,
    got <- [h \in Hdl |-> FramesOf(h)]
RelaySpec == Frames!Spec

(* What is asked of the clients for it: a name is asked for once, and no     *)
(* command has a name twice. (Otherwise there are two links to one object.)  *)
AsksOnce ==
    [][\A h \in Hdl : cmds'[h] # cmds[h] =>
          IsInjective(n_rest') /\ ToSet(n_rest') \cap asked[h] = {}]_vars

(* For whom a thread has to wait before it can go on: for who holds the mutex*)
(* it asks for, or, in a destructor, for the worker it joins.                *)
Holder(h) == {m_lock[h]} \ {"free"}
MapHolder == {ctl_lock} \ {"free"}
Joined == {o \in Orphans : life[o] = "stopping" /\ w_pc[o] # "done"}

AskingMaps == {"open.clear", "open.add", "cmd.query", "cmd.next", "feed.query", "close.query"}
AskingObject == {"cmd.method", "cmd.link", "cmd.need", "cmd.reply", "feed.push", "close.set"}

NetWaitsFor ==
    CASE n_pc \in AskingMaps -> MapHolder
      [] n_pc \in AskingObject -> Holder(n_hdl)
      [] n_pc = "open.check" -> (UNION {Holder(o) : o \in n_left}) \cup Joined
      [] n_pc = "stuck" -> {"net"}
      [] OTHER -> {}

CtlWaitsFor ==
    CASE c_pc = "idle" -> MapHolder
      [] c_pc = "visit" -> UNION {Holder(o) : o \in c_todo}
      [] c_pc \in {"copy", "replace", "need", "add", "rm"} -> Holder(c_hdl)
      [] c_pc = "scan" /\ c_j <= Len(c_inner) -> Holder(c_inner[c_j])
      [] c_pc = "successor" -> Holder(m_alias2con[c_name])
      [] c_pc = "match" /\ c_k <= Len(m_toMetaCon[c_hdl]) -> Holder(m_toMetaCon[c_hdl][c_k])
      [] c_pc = "drop" -> Joined
      [] c_pc = "stuck" -> {"ctl"}
      [] OTHER -> {}

WorkerWaitsFor(h) ==
    CASE w_pc[h] \in {"loop", "frame"} -> Holder(h)
      [] w_pc[h] = "send" -> Holder(WorkerTarget(h))
      [] w_pc[h] = "stuck" -> {h}
      [] OTHER -> {}

WaitsFor(t) ==
    CASE t = "net" -> NetWaitsFor
      [] t = "ctl" -> CtlWaitsFor
      [] t \in Hdl -> WorkerWaitsFor(t)

(* Threads do not wait for each other in a circle, through the mutexes of    *)
(* objects, that of the maps and the joins under it, as long as what clients *)
(* ask for has no circle: but for the network thread, which warns a client   *)
(* under a mutex it already holds.                                           *)
NoCircularWait ==
    \A S \in SUBSET Thread :
       S # {} /\ (\A t \in S : WaitsFor(t) \cap S # {}) => "net" \in S /\ n_pc = "stuck"

-----------------------------------------------------------------------------
(* Every thread of the server runs. The network thread, when it waits for a  *)
(* mutex that others take and give back again and again, gets it in the end: *)
(* each of their loops yields between two turns. For the other threads it is *)
(* enough that they run when they can.                                       *)
Fairness ==
    /\ SF_vars(Handle)
    /\ WF_vars(Maintain /\ UNCHANGED <<nvars, clients>>)
    /\ \A h \in Hdl : WF_vars(Worker(h) /\ UNCHANGED <<controlvars, nvars, clients>>)

FairSpec == Spec /\ Fairness

(* Only who may send a command ever has a method, links or waiting names.    *)
Commander == {h \in Hdl : Texts[h] # {}}
RequestableBy(h) == UNION {ToSet(text.names) : text \in Texts[h]}

(* The handlers do not block ("on_message not block"): whatever the workers  *)
(* and the maintenance thread hold, the network thread comes back.           *)
HandlerReturns == n_pc # "idle" ~> n_pc = "idle"

(* A client that lost its place and came back under the same name gets the   *)
(* frames again: no link of an open object stays on a closed one whose name  *)
(* has an open owner.                                                        *)
Stale(h, to) ==
    /\ m_status[to] = "CLOSE" /\ HasName(to) /\ Known(m_alias(to))
    /\ m_status[m_alias2con[m_alias(to)]] = "OPEN"

HasStaleLink(h) ==
    /\ h \in m_hdl2con /\ m_status[h] = "OPEN"
    /\ \E i \in 1..Len(m_toMetaCon[h]) : Stale(h, m_toMetaCon[h][i])

LinkHealed == \A h \in Commander : HasStaleLink(h) ~> ~HasStaleLink(h)

(* A name that was asked for before its owner connected becomes a link when  *)
(* it has.                                                                   *)
Awaits(h, a) == h \in m_hdl2con /\ a \in m_needConnectAlias[h] /\ Known(a)

NeedResolved ==
    \A h \in Commander : \A a \in RequestableBy(h) : Awaits(h, a) ~> ~Awaits(h, a)

(* A frame in the pool of an object leaves it: the worker is never kept from *)
(* its own object for good, by its targets or by the maintenance thread.     *)
PoolDrained ==
    \A h \in Commander : (h \in m_hdl2con /\ m_framePool[h] # <<>>) ~> m_framePool[h] = <<>>

=============================================================================
