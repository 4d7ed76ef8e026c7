---------------------------- MODULE ServerEndPoint ----------------------------
(* class ServerEndPoint: the handlers the network thread "net" runs, one     *)
(* after the other, with the objects and the maintenance thread they share   *)
(* state with, and the clients, who connect, send commands and frames, and   *)
(* go away. A handler is a sequence of critical sections; between two of     *)
(* them any other thread may run.                                            *)
EXTENDS ControlModule

CONSTANTS
    Texts,             \* Texts[h]: the SysSetMethod commands client h may send
    FollowsFlow,       \* the clients that wait for the greeting before their
                       \* command and for the OK before their frames
    MaxCmds,           \* bound on the commands of one client
    MaxFrames,         \* bound on the frames of one client
    MaxSent            \* and on both together

(* A command: its method, the keys its two optional fields are sent under,   *)
(* and the names in the second. All texts the code does not look for are one.*)
MethodText == {"ImgRetransmission", "other"}
Text == [method : MethodText, from : {"FromAlisa", "other"}, to : {"ToAlisa", "other"},
         names : Seq(Alias)]

ASSUME TextsAssumption == \A h \in Hdl : Texts[h] \subseteq Text
ASSUME BoundAssumption ==
    /\ MaxCmds \in Nat /\ MaxFrames \in Nat /\ MaxSent \in Nat
    /\ FollowsFlow \subseteq Hdl

VARIABLES
    n_pc,              \* where the network thread is
    n_hdl,             \* the connection its handler is about
    n_left,            \* clearCon: the objects it has still to look at
    n_method, n_rest,  \* sysMessageconduct: the method, the names left
    n_tgt,             \* the object it found for a name
    cmds, fed,         \* how many commands and frames each client has sent
    asked              \* the names each client has asked to forward to

request == <<n_method, n_rest, n_tgt>>
nvars == <<n_pc, n_hdl, n_left, request>>
clients == <<cmds, fed, asked>>
vars == <<tvars, mvars, controlvars, nvars, clients>>

NetPC == {"idle", "open.clear", "open.check", "open.add", "open.greet",
          "cmd.query", "cmd.method", "cmd.next", "cmd.link", "cmd.need", "cmd.reply",
          "feed.query", "feed.push", "feed.undef", "feed.warn",
          "close.query", "close.set", "stuck"}

ServerTypeOK ==
    /\ n_pc \in NetPC
    /\ n_hdl \in Hdl
    /\ n_left \in SUBSET Hdl
    /\ n_method \in MethodText \cup {"none"}
    /\ n_rest \in Seq(Alias)
    /\ n_tgt \in Hdl
    /\ cmds \in [Hdl -> Nat]
    /\ fed \in [Hdl -> Nat]
    /\ asked \in [Hdl -> SUBSET Alias]

Init ==
    /\ TransportInit /\ MetaConnectionInit /\ ControlModuleInit
    /\ n_pc = "idle" /\ n_hdl = AnyHdl /\ n_left = {}
    /\ n_method = "none" /\ n_rest = <<>> /\ n_tgt = AnyHdl
    /\ cmds = [h \in Hdl |-> 0]
    /\ fed = [h \in Hdl |-> 0]
    /\ asked = [h \in Hdl |-> {}]

-----------------------------------------------------------------------------
In(pc) == Running /\ n_pc = pc
Idle == In("idle")
Continue(pc) == n_pc' = pc /\ UNCHANGED n_hdl
Return == n_pc' = "idle" /\ n_hdl' = AnyHdl
Handles(h, pc) == n_pc' = pc /\ n_hdl' = h

Received(h, kind) == \E i \in 1..Len(outbox[h]) : outbox[h][i].kind = kind

(* on_open: AddConnection first runs clearCon for the name, in a critical    *)
(* section of its own.                                                       *)
OnOpen(h) ==
    /\ Idle /\ Upgraded(h) /\ Handles(h, "open.clear")
    /\ UNCHANGED <<outbox, mvars, controlvars, n_left, request, clients>>

OpenClear ==
    /\ In("open.clear") /\ ctl_lock = "free"
    /\ ctl_lock' = "net"
    /\ n_left' = {m_alias2con[a] : a \in IF HasName(n_hdl) THEN {m_alias(n_hdl)} ELSE Alias}
                 \ {NoCon}
    /\ Continue("open.check")
    /\ UNCHANGED <<tvars, mvars, registry, cvars, request, clients>>

(* For the name "undefined" the maps are emptied while a loop runs over them:*)
(* the loop ends, or the iterator into the freed map ends the process.       *)
OpenCheck(o) ==
    /\ In("open.check") /\ o \in n_left /\ Free(o)
    /\ IF Evictable(o)
       THEN /\ Cleared(m_alias(n_hdl), o)
            /\ n_left' = {}
            /\ fault' \in IF HasName(n_hdl) THEN {"none"} ELSE {"none", "iterator"}
       ELSE /\ n_left' = n_left \ {o}
            /\ fault' = IF HasName(n_hdl) /\ ~queryConUsingHdl(o) THEN "notequal" ELSE "none"
            /\ UNCHANGED registry
    /\ UNCHANGED <<tvars, m_status, settings, m_toMetaCon, m_lock, life, worker, ctl_lock,
                   cvars, n_pc, n_hdl, request, clients>>

OpenDestroy ==
    /\ In("open.check") /\ DestroyOrphan
    /\ UNCHANGED <<cvars, nvars, clients>>

OpenCleared ==
    /\ In("open.check") /\ n_left = {} /\ Orphans = {}
    /\ ctl_lock' = "free"
    /\ Continue("open.add")
    /\ UNCHANGED <<tvars, mvars, registry, cvars, n_left, request, clients>>

(* Then it registers the connection, unless the name is still taken.         *)
OpenAdd ==
    /\ In("open.add") /\ ctl_lock = "free"
    /\ IF NameFree(n_hdl)
       THEN /\ Inserted(n_hdl)
            /\ Constructed(n_hdl)
            /\ Continue("open.greet")
            /\ UNCHANGED conn
       ELSE /\ CloseSent(n_hdl)
            /\ Return
            /\ UNCHANGED <<registry, m_status, life, w_pc>>
    /\ UNCHANGED <<outbox, settings, m_toMetaCon, m_lock, w_frame, w_i, fault, ctl_lock,
                   cvars, n_left, request, clients>>

(* "?SysConnectInit=Got", past the object and its lock.                      *)
OpenGreet ==
    /\ In("open.greet")
    /\ Sent(n_hdl, Notice("got", n_hdl))
    /\ Return
    /\ UNCHANGED <<conn, mvars, controlvars, n_left, request, clients>>

-----------------------------------------------------------------------------
(* on_message with a SysSetMethod command. The names count only under the    *)
(* keys the code looks for.                                                  *)
RequestedNames(text) ==
    IF text.from = "FromAlisa" /\ text.to = "ToAlisa" THEN text.names ELSE <<>>

OnText(h, text) ==
    /\ Idle /\ Accepts(h) /\ cmds[h] < MaxCmds /\ cmds[h] + fed[h] < MaxSent
    /\ h \in FollowsFlow => Received(h, "got")
    /\ Handles(h, "cmd.query")
    /\ n_method' = text.method
    /\ n_rest' = RequestedNames(text)
    /\ cmds' = [cmds EXCEPT ![h] = @ + 1]
    /\ asked' = [asked EXCEPT ![h] = @ \cup ToSet(text.names)]
    /\ UNCHANGED <<tvars, mvars, controlvars, n_left, n_tgt, fed>>

(* With no object the reply is sent through a null pointer.                  *)
CmdQuery ==
    /\ In("cmd.query") /\ ctl_lock = "free"
    /\ IF queryConUsingHdl(n_hdl)
       THEN Continue("cmd.method") /\ UNCHANGED fault
       ELSE fault' = "null" /\ UNCHANGED <<n_pc, n_hdl>>
    /\ UNCHANGED <<tvars, m_status, settings, m_toMetaCon, m_lock, life, worker,
                   controlvars, n_left, request, clients>>

CmdMethod ==
    /\ In("cmd.method") /\ Free(n_hdl)
    /\ SetMethod(n_hdl, n_method)
    /\ n_method' = "none"
    /\ Continue("cmd.next")
    /\ UNCHANGED <<tvars, m_status, m_framePool, m_needConnectAlias, m_toMetaCon, m_lock,
                   life, worker, fault, controlvars, n_left, n_rest, n_tgt, clients>>

CmdNext ==
    /\ In("cmd.next") /\ n_rest # <<>> /\ ctl_lock = "free"
    /\ IF Known(Head(n_rest))
       THEN n_tgt' = queryConUsingAlisa(Head(n_rest)) /\ Continue("cmd.link")
       ELSE Continue("cmd.need") /\ UNCHANGED n_tgt
    /\ UNCHANGED <<tvars, mvars, controlvars, n_left, n_method, n_rest, clients>>

CmdLink ==
    /\ In("cmd.link") /\ Free(n_hdl)
    /\ addMetaCon(n_hdl, n_tgt)
    /\ n_rest' = Tail(n_rest)
    /\ n_tgt' = AnyHdl
    /\ Continue("cmd.next")
    /\ UNCHANGED <<tvars, m_status, settings, m_lock, life, worker, fault, controlvars,
                   n_left, n_method, clients>>

CmdNeed ==
    /\ In("cmd.need") /\ Free(n_hdl)
    /\ addNeedConnectAlias(n_hdl, Head(n_rest))
    /\ n_rest' = Tail(n_rest)
    /\ Continue("cmd.next")
    /\ UNCHANGED <<tvars, m_status, m_method, m_framePool, m_toMetaCon, m_lock, life, worker,
                   fault, controlvars, n_left, n_method, n_tgt, clients>>

CmdNamed ==
    /\ In("cmd.next") /\ n_rest = <<>>
    /\ Continue("cmd.reply")
    /\ UNCHANGED <<tvars, mvars, controlvars, n_left, request, clients>>

(* "?SysSetMethod:OK", whatever the method was.                              *)
CmdReply ==
    /\ In("cmd.reply") /\ Free(n_hdl)
    /\ SendTo(n_hdl, Notice("ok", n_hdl))
    /\ Return
    /\ UNCHANGED <<conn, settings, m_toMetaCon, m_lock, life, worker, fault, controlvars,
                   n_left, request, clients>>

-----------------------------------------------------------------------------
(* on_message with anything else: the message is a frame to feed.            *)
OnFrame(h) ==
    /\ Idle /\ Accepts(h) /\ fed[h] < MaxFrames /\ cmds[h] + fed[h] < MaxSent
    /\ h \in FollowsFlow => Received(h, "ok")
    /\ Handles(h, "feed.query")
    /\ fed' = [fed EXCEPT ![h] = @ + 1]
    /\ UNCHANGED <<tvars, mvars, controlvars, n_left, request, cmds, asked>>

(* With no object the connection is closed with a code that may not be sent: *)
(* close() throws, through run() and main().                                 *)
FeedQuery ==
    /\ In("feed.query") /\ ctl_lock = "free"
    /\ IF queryConUsingHdl(n_hdl)
       THEN Continue("feed.push") /\ UNCHANGED fault
       ELSE fault' = "badclose" /\ UNCHANGED <<n_pc, n_hdl>>
    /\ UNCHANGED <<tvars, m_status, settings, m_toMetaCon, m_lock, life, worker,
                   controlvars, n_left, request, clients>>

(* feedFrame. To warn the client it calls SendTo, which locks m_lock again.  *)
FeedPush ==
    /\ In("feed.push") /\ Free(n_hdl)
    /\ CASE m_status[n_hdl] # "OPEN" -> Return /\ UNCHANGED <<m_lock, m_framePool>>
         [] m_status[n_hdl] = "OPEN" /\ FeedWarning(n_hdl) = "none" ->
               PushFrame(n_hdl, fed[n_hdl]) /\ Return /\ UNCHANGED m_lock
         [] m_status[n_hdl] = "OPEN" /\ FeedWarning(n_hdl) # "none" ->
               /\ Locked(n_hdl, "net")
               /\ Continue(IF FeedWarning(n_hdl) = "undef" THEN "feed.undef" ELSE "feed.warn")
               /\ UNCHANGED m_framePool
    /\ UNCHANGED <<tvars, m_status, m_method, m_needConnectAlias, m_toMetaCon, life, worker,
                   fault, controlvars, n_left, request, clients>>

(* The nested SendTo reenters; after the overflow the frame is still pushed. *)
FeedWarn ==
    /\ In("feed.undef") \/ In("feed.warn")
    /\ Acquirable(n_hdl, "net")
    /\ SendTo(n_hdl, Notice(IF n_pc = "feed.warn" THEN "warn" ELSE "undef", n_hdl))
    /\ IF n_pc = "feed.warn" THEN PushFrame(n_hdl, fed[n_hdl]) ELSE UNCHANGED m_framePool
    /\ Unlocked(n_hdl)
    /\ Return
    /\ UNCHANGED <<conn, m_method, m_needConnectAlias, m_toMetaCon, life, worker, fault,
                   controlvars, n_left, request, clients>>

FeedRelocks ==
    /\ In("feed.undef") \/ In("feed.warn")
    /\ \/ "blocks" \in Relock /\ Continue("stuck") /\ UNCHANGED fault
       \/ "throws" \in Relock /\ fault' = "relock" /\ UNCHANGED <<n_pc, n_hdl>>
    /\ UNCHANGED <<tvars, m_status, settings, m_toMetaCon, m_lock, life, worker,
                   controlvars, n_left, request, clients>>

-----------------------------------------------------------------------------
(* The peer starts the closing handshake; and on_close: the connection ends, *)
(* with or without a handshake.                                              *)
OnPeerClose(h) ==
    /\ Idle /\ PeerClosed(h)
    /\ UNCHANGED <<outbox, mvars, controlvars, nvars, clients>>

OnClose(h) ==
    /\ Idle /\ Terminated(h) /\ Handles(h, "close.query")
    /\ UNCHANGED <<outbox, mvars, controlvars, n_left, request, clients>>

CloseQuery ==
    /\ In("close.query") /\ ctl_lock = "free"
    /\ IF queryConUsingHdl(n_hdl) THEN Continue("close.set") ELSE Return
    /\ UNCHANGED <<tvars, mvars, controlvars, n_left, request, clients>>

CloseSet ==
    /\ In("close.set") /\ Free(n_hdl)
    /\ setStatus(n_hdl, "CLOSE")
    /\ Return
    /\ UNCHANGED <<tvars, settings, m_toMetaCon, m_lock, life, worker, fault, controlvars,
                   n_left, request, clients>>

-----------------------------------------------------------------------------
(* What the outside brings, and what the network thread does about it.       *)
Outside ==
    \E h \in Hdl :
       \/ OnOpen(h) \/ OnFrame(h) \/ OnPeerClose(h) \/ OnClose(h)
       \/ \E text \in Texts[h] : OnText(h, text)

Handle ==
    \/ OpenClear \/ OpenDestroy \/ OpenCleared \/ OpenAdd \/ OpenGreet
    \/ \E o \in Hdl : OpenCheck(o)
    \/ CmdQuery \/ CmdMethod \/ CmdNext \/ CmdLink \/ CmdNeed \/ CmdNamed \/ CmdReply
    \/ FeedQuery \/ FeedPush \/ FeedWarn \/ FeedRelocks
    \/ CloseQuery \/ CloseSet

Threads ==
    \/ Handle
    \/ Maintain /\ UNCHANGED <<nvars, clients>>
    \/ \E h \in Hdl : Worker(h) /\ UNCHANGED <<controlvars, nvars, clients>>

Next == Outside \/ Threads

Spec == Init /\ [][Next]_vars

TypeOK ==
    /\ TransportTypeOK /\ MetaConnectionTypeOK /\ ControlModuleTypeOK /\ ServerTypeOK

=============================================================================
