--------------------------- MODULE ServerInvariant ---------------------------
(* Why RegistryConsistent, UnreachableBranches, OpenStaysRegistered,         *)
(* NoDangling, RequestKept, NoCircularWait and RelaySpec hold: they are not  *)
(* inductive, and what makes them so is spread over all threads: who holds   *)
(* which lock at which point, what a handler knows about its connection,     *)
(* that an object is marked closed only when its connection is past being    *)
(* open, who works on which object, what becomes of the names of a command,  *)
(* and where the frames of a client are.                                     *)
EXTENDS ServerProperties

(* The lock of the maps is held where the code is inside its critical        *)
(* section, by that thread and no other.                                     *)
LockInv ==
    /\ ctl_lock = "ctl" <=> c_pc # "idle"
    /\ ctl_lock = "net" <=> n_pc = "open.check"

(* A name the maintenance thread has found stays in the map for as long as   *)
(* it uses the entry.                                                        *)
NameInv == c_pc \in {"successor", "replace", "match", "add"} => Known(c_name)

(* While a command is about a name, that name is still in the list.          *)
RestInv == n_pc \in {"cmd.link", "cmd.need"} => n_rest # <<>>

(* An object in the maps has a connection, and one that is marked closed has *)
(* a connection that is no longer open.                                      *)
StatusInv ==
    \A h \in m_hdl2con :
       /\ conn[h] # "none"
       /\ m_status[h] = "CLOSE" => conn[h] # "open"

Opening == {"open.clear", "open.check", "open.add"}
Serving == {"cmd.query", "cmd.method", "cmd.next", "cmd.link", "cmd.need", "cmd.reply",
            "feed.query", "feed.push", "feed.undef", "feed.warn"}

(* What a handler knows about the connection it is about.                    *)
HandlerInv ==
    /\ n_pc \in Opening => conn[n_hdl] = "open" /\ n_hdl \notin m_hdl2con
    /\ n_pc \in {"close.query", "close.set"} => conn[n_hdl] = "closed"

(* What clearCon has still to look at for a name is the owner of that name.  *)
LeftInv ==
    (n_pc = "open.check" /\ HasName(n_hdl)) =>
       \A o \in n_left : o \in m_hdl2con /\ m_alias(o) = m_alias(n_hdl)

IInv ==
    /\ TypeOK
    /\ RegistryConsistent
    /\ LockInv
    /\ NameInv
    /\ RestInv
    /\ StatusInv
    /\ HandlerInv
    /\ LeftInv

(* Where nobody connects as "undefined", nothing but its own end takes a     *)
(* connection out of the maps.                                               *)
NobodyNameless == \A h \in Hdl : HasName(h)

ServedInv == n_pc \in Serving => conn[n_hdl] = "open" /\ n_hdl \in m_hdl2con

OpenInv ==
    \A h \in Hdl : conn[h] = "open" /\ h \notin m_hdl2con => n_hdl = h /\ n_pc \in Opening

NamedInv ==
    /\ ServedInv
    /\ OpenInv
    /\ UnreachableBranches

-----------------------------------------------------------------------------
(* Why nothing dangles: whoever works on an object found it in the maps, and *)
(* nobody takes it out of them meanwhile.                                    *)
VisitInv ==
    /\ c_pc # "idle" => c_todo \subseteq m_hdl2con
    /\ c_pc \notin {"idle", "visit"} => c_hdl \in m_hdl2con

Working == {"cmd.method", "cmd.next", "cmd.link", "cmd.need", "cmd.reply",
            "feed.push", "feed.undef", "feed.warn", "close.set", "stuck"}

WorkInv ==
    /\ n_pc \in Working => n_hdl \in m_hdl2con
    /\ n_pc = "cmd.link" => n_tgt \in m_hdl2con /\ m_alias(n_tgt) = Head(n_rest)

(* A lock held across steps is held by the thread whose place says so.       *)
NetHolds == {"feed.undef", "feed.warn", "stuck"}
CtlHolds == {"match", "stuck"}

HeldInv ==
    \A h \in Hdl :
       \/ Free(h)
       \/ m_lock[h] = "net" /\ n_hdl = h /\ n_pc \in NetHolds
       \/ m_lock[h] = "ctl" /\ c_hdl = h /\ c_pc \in CtlHolds
       \/ m_lock[h] = h /\ w_pc[h] \in {"send", "stuck"}

ReachedLive == \A h \in Hdl : Referenced(h) => life[h] = "live"
FreedDone == \A h \in Hdl : life[h] = "freed" => w_pc[h] = "done"

(* A connection that is not yet in the maps has no worker and has asked for  *)
(* nothing.                                                                  *)
FreshInv ==
    \A h \in Hdl : conn[h] = "none" \/ (n_hdl = h /\ n_pc \in Opening) =>
       w_pc[h] = "none" /\ asked[h] = {}

LifeInv ==
    /\ IInv
    /\ VisitInv /\ WorkInv /\ HeldInv /\ FreshInv
    /\ ReachedLive /\ FreedDone

(* Why no request is lost, where clients send the keys the code looks for: a *)
(* name asked for is in the list of the command until it waits or is linked, *)
(* and waits until it is linked.                                             *)
KeysAsCoded == \A h \in Hdl : \A text \in Texts[h] : RequestedNames(text) = text.names

LinkedInv == c_pc = "rm" => LinkedTo(c_hdl, c_name)

Naming == {"cmd.query", "cmd.method", "cmd.next", "cmd.link", "cmd.need"}

Remembered(h, a) ==
    \/ a \in m_needConnectAlias[h]
    \/ LinkedTo(h, a)
    \/ n_hdl = h /\ n_pc \in Naming /\ a \in ToSet(n_rest)

RememberInv == \A h \in m_hdl2con : \A a \in asked[h] : Remembered(h, a)

RequestInv == LifeInv /\ LinkedInv /\ RememberInv

-----------------------------------------------------------------------------
(* Whose mutexes are held, and where links come from. Who is inside an       *)
(* object's critical section holds its mutex, so links do not change under   *)
(* the worker.                                                               *)
HoldsInv ==
    /\ \A h \in Hdl : w_pc[h] = "send" => m_lock[h] = h /\ w_i[h] \in 1..Len(m_toMetaCon[h])
    /\ c_pc = "match" => m_lock[c_hdl] = "ctl"
    /\ n_pc \in {"feed.undef", "feed.warn"} => m_lock[n_hdl] = "net"

(* Names come from commands only: those a client has asked for, and of these *)
(* those of the links, those that wait, those left of a command, and those   *)
(* the maintenance thread has a copy of.                                     *)
AskedInv ==
    /\ \A h \in Hdl : asked[h] \subseteq RequestableBy(h)
    /\ \A h \in Hdl : \A a \in Alias : LinkedTo(h, a) => a \in asked[h]
    /\ \A h \in Hdl : m_needConnectAlias[h] \subseteq asked[h]
    /\ n_pc \in Naming => ToSet(n_rest) \subseteq asked[n_hdl]
    /\ c_pc \in {"query", "add", "rm"} => c_names \subseteq m_needConnectAlias[c_hdl]
    /\ c_pc \in {"add", "rm"} => c_name \in m_needConnectAlias[c_hdl] \ c_names

FlowInv == LifeInv /\ HoldsInv /\ AskedInv

(* Why threads do not wait in a circle: where names have ranks, and clients  *)
(* ask for names of a lower rank than their own only, links lead downwards,  *)
(* and never back to where they start, so that no thread of an object is     *)
(* caught by its own mutex.                                                  *)
RequestsAcyclic ==
    \E rank \in [Alias -> Nat] :
       \A h \in Hdl : \A a \in RequestableBy(h) : rank[a] < rank[UriAlias[h]]

NeverCaught == c_pc # "stuck" /\ \A h \in Hdl : w_pc[h] # "stuck"

WaitInv == FlowInv /\ NeverCaught

(* Why frames travel as Relay says. A name is in one place: left of a command, or waiting, or the name of one *)
(* link; while a waiting name becomes a link it is both for a moment.        *)
OnceInv ==
    /\ \A h \in Hdl : \A i, j \in 1..Len(m_toMetaCon[h]) :
          m_alias(m_toMetaCon[h][i]) = m_alias(m_toMetaCon[h][j]) => i = j
    /\ \A h \in Hdl : \A a \in m_needConnectAlias[h] :
          LinkedTo(h, a) => c_pc = "rm" /\ c_hdl = h /\ c_name = a
    /\ n_pc \in Naming =>
          /\ IsInjective(n_rest)
          /\ \A a \in ToSet(n_rest) :
                a \notin m_needConnectAlias[n_hdl] /\ ~LinkedTo(n_hdl, a)

(* The frames of a client: those fed go up in number from the worker's to    *)
(* the one that is being fed.                                                *)
Feeding == {"feed.query", "feed.push", "feed.undef", "feed.warn"}

PoolInv ==
    \A h \in Hdl :
       LET pool == m_framePool[h] IN
         /\ w_pc[h] \in {"frame", "send"} => w_frame[h] > 0
         /\ w_frame[h] <= fed[h]
         /\ \A i \in 1..Len(pool) : w_frame[h] < pool[i] /\ pool[i] <= fed[h]
         /\ \A i, j \in 1..Len(pool) : i < j => pool[i] < pool[j]
         /\ n_pc \in Feeding /\ n_hdl = h =>
               w_frame[h] < fed[h] /\ \A i \in 1..Len(pool) : pool[i] < fed[h]

(* What a client was sent of h is past: not newer than the worker's frame,   *)
(* and that one only if the worker is done with the links to this client.    *)
Past(h, n, t) ==
    \/ n < w_frame[h]
    \/ /\ n = w_frame[h] /\ w_pc[h] # "frame"
       /\ w_pc[h] = "send" => \A k \in w_i[h]..Len(m_toMetaCon[h]) : m_toMetaCon[h][k] # t

SentInv ==
    \A t \in Hdl : \A i \in 1..Len(outbox[t]) :
       outbox[t][i].kind = "frame" => Past(outbox[t][i].src, outbox[t][i].n, t)

RelayInv == FlowInv /\ OnceInv /\ PoolInv /\ SentInv

=============================================================================
