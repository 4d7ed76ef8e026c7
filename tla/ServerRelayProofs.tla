--------------------------- MODULE ServerRelayProofs ---------------------------
(* Frames travel the way Relay allows: the server implements it, where no    *)
(* client asks for a name twice.                                             *)
EXTENDS ServerWaitProofs

(* What the proofs below need to know of the state.                          *)
LEMMA RelayTypes ==
  ASSUME RelayInv
  PROVE  /\ TypeOK /\ LifeInv /\ IInv
         /\ m_toMetaCon \in [Hdl -> Seq(Hdl)]
         /\ m_needConnectAlias \in [Hdl -> SUBSET Alias]
         /\ m_framePool \in [Hdl -> Seq(Nat)]
         /\ w_pc \in [Hdl -> {"none", "loop", "frame", "send", "stuck", "done"}]
         /\ w_frame \in [Hdl -> Nat] /\ w_i \in [Hdl -> Nat]
         /\ outbox \in [Hdl -> Seq(Msg)]
         /\ fed \in [Hdl -> Nat] /\ asked \in [Hdl -> SUBSET Alias]
         /\ n_hdl \in Hdl /\ n_rest \in Seq(Alias) /\ n_tgt \in Hdl
         /\ c_hdl \in Hdl /\ c_name \in Alias /\ c_names \in SUBSET Alias
  BY FlowTypes DEF RelayInv

-----------------------------------------------------------------------------
(* How FrameList goes through the messages.                                  *)
Listed(msgs, F) ==
    F = [i \in 0..Len(msgs) |->
            IF i = 0 THEN <<>>
            ELSE IF msgs[i].kind = "frame"
                 THEN Append(F[i - 1], <<msgs[i].src, msgs[i].n>>)
                 ELSE F[i - 1]]

(* It says what it seems to say.                                             *)
LEMMA FrameListDef ==
  ASSUME NEW msgs \in Seq(Msg)
  PROVE  \E F : Listed(msgs, F) /\ FrameList(msgs) = F[Len(msgs)]
<1> DEFINE part(n, F) ==
      F = [i \in 0..n |->
            IF i = 0 THEN <<>>
            ELSE IF msgs[i].kind = "frame"
                 THEN Append(F[i - 1], <<msgs[i].src, msgs[i].n>>)
                 ELSE F[i - 1]]
    S == {n \in Nat : \E F : part(n, F)}
<1>1. 0 \in S
  <2>1. part(0, [i \in 0..0 |-> <<>>])
    OBVIOUS
  <2> QED
    BY <2>1
<1>2. ASSUME NEW n \in Nat, n \in S PROVE n + 1 \in S
  <2>1. PICK F : part(n, F)
    BY <1>2
  <2> DEFINE x == IF msgs[n + 1].kind = "frame"
                  THEN Append(F[n], <<msgs[n + 1].src, msgs[n + 1].n>>) ELSE F[n]
             G == [i \in 0..n + 1 |-> IF i = n + 1 THEN x ELSE F[i]]
  <2>2. \A i \in 0..n : G[i] = F[i]
    OBVIOUS
  <2>3. part(n + 1, G)
    <3>1. ASSUME NEW i \in 0..n + 1
          PROVE G[i] = IF i = 0 THEN <<>>
                ELSE IF msgs[i].kind = "frame"
                     THEN Append(G[i - 1], <<msgs[i].src, msgs[i].n>>)
                     ELSE G[i - 1]
      <4>1. CASE i = n + 1
        <5>1. G[i] = x /\ i # 0 /\ i - 1 = n /\ G[i - 1] = F[n]
          BY <4>1
        <5> QED
          BY <4>1, <5>1
      <4>2. CASE i \in 0..n
        <5>1. G[i] = F[i] /\ (i # 0 => i - 1 \in 0..n /\ G[i - 1] = F[i - 1])
          BY <4>2, <2>2
        <5>2. F[i] = IF i = 0 THEN <<>>
                ELSE IF msgs[i].kind = "frame"
                     THEN Append(F[i - 1], <<msgs[i].src, msgs[i].n>>)
                     ELSE F[i - 1]
          BY <2>1, <4>2
        <5> HIDE DEF G
        <5> QED
          BY <5>1, <5>2
      <4> QED
        BY <4>1, <4>2
    <3>2. G = [i \in 0..n + 1 |-> G[i]]
      OBVIOUS
    <3> HIDE DEF G
    <3> QED
      BY <3>1, <3>2
  <2>4. \E H : part(n + 1, H)
    <3> HIDE DEF G
    <3> QED
      BY <2>3
  <2> HIDE DEF part
  <2> QED
    BY <2>4
<1>3. Nat \subseteq S
  <2> HIDE DEF S
  <2> QED
    BY <1>1, <1>2, SetInduction
<1>4. \E F : Listed(msgs, F)
  <2>1. Len(msgs) \in Nat
    OBVIOUS
  <2>2. \E F : part(Len(msgs), F)
    <3> HIDE DEF part
    <3> QED
      BY <1>3, <2>1
  <2> QED
    BY <2>2 DEF Listed
<1> QED
  BY <1>4 DEF FrameList, Listed

(* Two lists of the same messages are one.                                   *)
LEMMA ListedSame ==
  ASSUME NEW msgs \in Seq(Msg), NEW more \in Seq(Msg), NEW F, NEW G,
         Listed(msgs, F), Listed(more, G), Len(msgs) <= Len(more),
         \A i \in 1..Len(msgs) : more[i] = msgs[i]
  PROVE  \A i \in 0..Len(msgs) : G[i] = F[i]
<1> DEFINE S == {n \in Nat : n <= Len(msgs) => G[n] = F[n]}
<1>0. Len(msgs) \in Nat /\ Len(more) \in Nat
  OBVIOUS
<1>1. 0 \in S
  BY <1>0 DEF Listed
<1>2. ASSUME NEW n \in Nat, n \in S PROVE n + 1 \in S
  <2> SUFFICES ASSUME n + 1 <= Len(msgs) PROVE G[n + 1] = F[n + 1]
    OBVIOUS
  <2>1. /\ n + 1 \in 1..Len(msgs) /\ n + 1 \in 0..Len(msgs) /\ n + 1 \in 0..Len(more)
        /\ n + 1 # 0 /\ (n + 1) - 1 = n /\ G[n] = F[n]
    BY <1>0, <1>2
  <2>2. more[n + 1] = msgs[n + 1]
    BY <2>1
  <2>3. F[n + 1] = IF msgs[n + 1].kind = "frame"
                   THEN Append(F[n], <<msgs[n + 1].src, msgs[n + 1].n>>) ELSE F[n]
    BY <2>1 DEF Listed
  <2>4. G[n + 1] = IF more[n + 1].kind = "frame"
                   THEN Append(G[n], <<more[n + 1].src, more[n + 1].n>>) ELSE G[n]
    BY <2>1 DEF Listed
  <2> QED
    BY <2>1, <2>2, <2>3, <2>4
<1>3. Nat \subseteq S
  <2> HIDE DEF S
  <2> QED
    BY <1>1, <1>2, SetInduction
<1> QED
  BY <1>0, <1>3

(* One message more: one frame more, if it is one.                           *)
LEMMA FrameListAppend ==
  ASSUME NEW msgs \in Seq(Msg), NEW m \in Msg
  PROVE  FrameList(Append(msgs, m)) =
            IF m.kind = "frame" THEN Append(FrameList(msgs), <<m.src, m.n>>)
            ELSE FrameList(msgs)
<1> DEFINE more == Append(msgs, m)
           k == Len(msgs)
<1>1. more \in Seq(Msg) /\ Len(more) = k + 1 /\ k \in Nat /\ more[k + 1] = m
      /\ \A i \in 1..k : more[i] = msgs[i]
  BY AppendProperties, LenProperties
<1>2. PICK F : Listed(msgs, F) /\ FrameList(msgs) = F[k]
  BY FrameListDef
<1>3. PICK G : Listed(more, G) /\ FrameList(more) = G[k + 1]
  <2> HIDE DEF more
  <2> QED
    BY <1>1, FrameListDef
<1> HIDE DEF more
<1>4. G[k] = F[k]
  BY <1>1, <1>2, <1>3, ListedSame
<1>5. G[k + 1] = IF m.kind = "frame" THEN Append(G[k], <<m.src, m.n>>) ELSE G[k]
  <2>1. k + 1 \in 0..Len(more) /\ k + 1 # 0 /\ (k + 1) - 1 = k
    BY <1>1
  <2>2. G[k + 1] = IF more[k + 1].kind = "frame"
                   THEN Append(G[k], <<more[k + 1].src, more[k + 1].n>>) ELSE G[k]
    BY <1>3, <2>1 DEF Listed
  <2> QED
    BY <1>1, <2>2
<1>6. FrameList(more) = IF m.kind = "frame" THEN Append(FrameList(msgs), <<m.src, m.n>>)
                        ELSE FrameList(msgs)
  BY <1>2, <1>3, <1>4, <1>5
<1> QED
  BY <1>6 DEF more

(* What the frames of a list are: numbers of producers, found in messages.   *)
Stems(msgs, s) ==
    /\ s \in Seq(Hdl \X Nat)
    /\ \A i \in 1..Len(s) : \E j \in 1..Len(msgs) :
          msgs[j].kind = "frame" /\ s[i] = <<msgs[j].src, msgs[j].n>>

(* Each frame of the list is one of the messages.                            *)
LEMMA FrameListFrom ==
  ASSUME NEW msgs \in Seq(Msg)
  PROVE  Stems(msgs, FrameList(msgs))
<1>1. PICK F : Listed(msgs, F) /\ FrameList(msgs) = F[Len(msgs)]
  BY FrameListDef
<1> DEFINE S == {n \in Nat : n <= Len(msgs) => Stems(msgs, F[n])}
<1>0. Len(msgs) \in Nat
  OBVIOUS
<1>2. 0 \in S
  <2>1. F[0] = <<>>
    BY <1>0, <1>1 DEF Listed
  <2>2. Stems(msgs, <<>>)
    BY DEF Stems
  <2> QED
    BY <2>1, <2>2
<1>3. ASSUME NEW n \in Nat, n \in S PROVE n + 1 \in S
  <2> SUFFICES ASSUME n + 1 <= Len(msgs)
               PROVE  Stems(msgs, F[n + 1])
    BY <1>0
  <2> DEFINE m == msgs[n + 1]
  <2>1. /\ n + 1 \in 1..Len(msgs) /\ n + 1 \in 0..Len(msgs) /\ n + 1 # 0 /\ (n + 1) - 1 = n
        /\ Stems(msgs, F[n])
    BY <1>0, <1>3
  <2>2. m \in Msg
    BY <2>1
  <2>3. F[n + 1] = IF m.kind = "frame" THEN Append(F[n], <<m.src, m.n>>) ELSE F[n]
    BY <1>1, <2>1 DEF Listed
  <2>4. CASE m.kind # "frame"
    BY <2>1, <2>3, <2>4
  <2>5. CASE m.kind = "frame"
    <3>1. <<m.src, m.n>> \in Hdl \X Nat
      BY <2>2 DEF Msg
    <3> DEFINE s == F[n]
               x == <<m.src, m.n>>
    <3>2. /\ Append(s, x) \in Seq(Hdl \X Nat) /\ Len(Append(s, x)) = Len(s) + 1
          /\ Append(s, x)[Len(s) + 1] = x /\ \A i \in 1..Len(s) : Append(s, x)[i] = s[i]
      <4> HIDE DEF s, x
      <4>1. s \in Seq(Hdl \X Nat) /\ x \in Hdl \X Nat
        BY <2>1, <3>1 DEF s, x, Stems
      <4> QED
        BY <4>1, AppendProperties, LenProperties
    <3>3. ASSUME NEW i \in 1..Len(Append(s, x))
          PROVE  \E j \in 1..Len(msgs) :
                   msgs[j].kind = "frame" /\ Append(s, x)[i] = <<msgs[j].src, msgs[j].n>>
      <4>0. Len(s) \in Nat /\ i \in 1..Len(s) + 1
        BY <2>1, <3>2 DEF Stems
      <4>1. CASE i = Len(s) + 1
        BY <2>1, <2>5, <3>2, <4>1
      <4>2. CASE i \in 1..Len(s)
        <5>1. Append(s, x)[i] = s[i]
          BY <3>2, <4>2
        <5> QED
          BY <2>1, <4>2, <5>1 DEF Stems
      <4>3. i = Len(s) + 1 \/ i \in 1..Len(s)
        <5> HIDE DEF s
        <5> QED
          BY <4>0
      <4> QED
        BY <4>1, <4>2, <4>3
    <3> QED
      BY <2>3, <2>5, <3>2, <3>3 DEF Stems
  <2> QED
    BY <2>4, <2>5
<1>4. Nat \subseteq S
  <2> HIDE DEF S
  <2> QED
    BY <1>2, <1>3, SetInduction
<1> QED
  BY <1>0, <1>1, <1>4

-----------------------------------------------------------------------------
(* What a step may add to the messages: a notice, or the frame of a worker.  *)
Adds(t, m) == outbox' = [outbox EXCEPT ![t] = Append(@, m)]

NoticeOnly ==
    UNCHANGED outbox \/ \E t \in Hdl : \E m \in Msg : m.kind # "frame" /\ Adds(t, m)

Delivered == [h \in Hdl |-> FramesOf(h)]

(* Notices are not seen in the frames.                                       *)
LEMMA NoticeFrames ==
  ASSUME TypeOK, NoticeOnly
  PROVE  UNCHANGED Delivered
<1>1. CASE UNCHANGED outbox
  BY <1>1 DEF Delivered, FramesOf
<1>2. ASSUME NEW t \in Hdl, NEW m \in Msg, m.kind # "frame", Adds(t, m)
      PROVE  UNCHANGED Delivered
  <2>1. outbox \in [Hdl -> Seq(Msg)]
    BY DEF TypeOK, TransportTypeOK
  <2>2. ASSUME NEW h \in Hdl PROVE FrameList(outbox'[h]) = FrameList(outbox[h])
    <3>1. outbox[h] \in Seq(Msg)
      BY <2>1
    <3>2. FrameList(Append(outbox[h], m)) = FrameList(outbox[h])
      BY <1>2, <3>1, FrameListAppend
    <3>3. outbox'[h] = outbox[h] \/ outbox'[h] = Append(outbox[h], m)
      BY <1>2, <2>1 DEF Adds
    <3> QED
      BY <3>2, <3>3
  <2> QED
    BY <2>2 DEF Delivered, FramesOf
<1> QED
  BY <1>1, <1>2 DEF NoticeOnly

(* A frame that is added is seen at the end of them.                         *)
LEMMA FrameDelivered ==
  ASSUME TypeOK, NEW t \in Hdl, NEW s \in Hdl, NEW n \in Nat, Adds(t, FrameMsg(s, n))
  PROVE  Delivered' = [Delivered EXCEPT ![t] = Append(@, <<s, n>>)]
<1>1. outbox \in [Hdl -> Seq(Msg)] /\ FrameMsg(s, n) \in Msg
  BY DEF TypeOK, TransportTypeOK, FrameMsg, Msg, Kind
<1>2. FrameList(Append(outbox[t], FrameMsg(s, n))) = Append(FrameList(outbox[t]), <<s, n>>)
  <2>1. /\ outbox[t] \in Seq(Msg)
        /\ FrameMsg(s, n).kind = "frame" /\ FrameMsg(s, n).src = s /\ FrameMsg(s, n).n = n
    BY <1>1 DEF FrameMsg
  <2> QED
    BY <1>1, <2>1, FrameListAppend
<1>3. outbox'[t] = Append(outbox[t], FrameMsg(s, n)) /\ \A h \in Hdl \ {t} : outbox'[h] = outbox[h]
  BY <1>1 DEF Adds
<1>4. \A h \in Hdl : Delivered'[h] = IF h = t THEN Append(Delivered[t], <<s, n>>) ELSE Delivered[h]
  BY <1>2, <1>3 DEF Delivered, FramesOf
<1>5. DOMAIN Delivered' = Hdl /\ DOMAIN Delivered = Hdl
      /\ Delivered' = [h \in Hdl |-> Delivered'[h]]
  BY DEF Delivered
<1> HIDE DEF Delivered
<1> QED
  BY <1>4, <1>5

-----------------------------------------------------------------------------
-----------------------------------------------------------------------------
(* The places of names.                                                      *)
OneLinkEach ==
    \A h \in Hdl : \A i, j \in 1..Len(m_toMetaCon[h]) :
       m_alias(m_toMetaCon[h][i]) = m_alias(m_toMetaCon[h][j]) => i = j

LEMMA FewerKept ==
  ASSUME FewerLinks
  PROVE  /\ \A h \in Hdl : \A a \in Alias : LinkedTo(h, a)' => LinkedTo(h, a)
         /\ OneLinkEach => OneLinkEach'
  BY FewerLinked DEF FewerLinks, m_alias, OneLinkEach

(* A step that makes no link, leaves the waiting names alone and adds no     *)
(* name to a command.                                                        *)
LEMMA OnceSame ==
  ASSUME RelayInv, FewerLinks, UNCHANGED <<m_needConnectAlias, asked>>,
         n_pc' \in Naming => n_pc \in Naming /\ UNCHANGED <<n_hdl, n_rest>>,
         UNCHANGED <<c_pc, c_hdl, c_name, c_names>>
  PROVE  OnceInv'
<1>1. /\ \A h \in Hdl : \A a \in Alias : LinkedTo(h, a)' => LinkedTo(h, a)
      /\ OneLinkEach => OneLinkEach'
  BY FewerKept
<1>2. /\ \A h \in Hdl : m_needConnectAlias[h] \subseteq Alias
      /\ n_hdl \in Hdl /\ ToSet(n_rest) \subseteq Alias
  BY RelayTypes, NamesOf
<1> QED
  BY <1>1, <1>2 DEF RelayInv, OnceInv, OneLinkEach

(* The same for a step of the maintenance thread that leaves the name it     *)
(* handles alone, or takes up none.                                          *)
LEMMA OncePass ==
  ASSUME RelayInv, FewerLinks, UNCHANGED <<m_needConnectAlias, asked, n_pc, n_hdl, n_rest>>,
         c_pc # "rm", c_pc' \notin {"query", "add", "rm"}
  PROVE  OnceInv'
<1>1. /\ \A h \in Hdl : \A a \in Alias : LinkedTo(h, a)' => LinkedTo(h, a)
      /\ OneLinkEach => OneLinkEach'
  BY FewerKept
<1>2. /\ \A h \in Hdl : m_needConnectAlias[h] \subseteq Alias
      /\ n_hdl \in Hdl /\ ToSet(n_rest) \subseteq Alias
  BY RelayTypes, NamesOf
<1> QED
  BY <1>1, <1>2 DEF RelayInv, OnceInv, OneLinkEach

(* A link of a new name is the only new one.                                 *)
LEMMA NewLink ==
  ASSUME TypeOK, NEW g \in Hdl, NEW o \in Hdl, addMetaCon(g, o), ~LinkedTo(g, m_alias(o)),
         OneLinkEach
  PROVE  /\ \A h \in Hdl : \A a \in Alias :
               LinkedTo(h, a)' => LinkedTo(h, a) \/ (h = g /\ a = m_alias(o))
         /\ OneLinkEach'
<1> DEFINE links == m_toMetaCon[g]
<1>1. /\ m_toMetaCon \in [Hdl -> Seq(Hdl)] /\ links \in Seq(Hdl)
      /\ m_toMetaCon' = [m_toMetaCon EXCEPT ![g] = Append(links, o)]
  BY DEF TypeOK, MetaConnectionTypeOK, addMetaCon
<1>2. /\ Len(links) \in Nat /\ Len(Append(links, o)) = Len(links) + 1
      /\ Append(links, o)[Len(links) + 1] = o
      /\ \A i \in 1..Len(links) : Append(links, o)[i] = links[i]
  BY <1>1, AppendProperties, LenProperties
<1>3. \A h \in Hdl \ {g} : m_toMetaCon'[h] = m_toMetaCon[h]
  BY <1>1
<1>4. /\ m_toMetaCon'[g][Len(links) + 1] = o
      /\ Len(m_toMetaCon'[g]) = Len(links) + 1
      /\ \A i \in 1..Len(m_toMetaCon'[g]) : i = Len(links) + 1 \/ i \in 1..Len(links)
      /\ \A i \in 1..Len(links) : m_toMetaCon'[g][i] = links[i]
  BY <1>1, <1>2
<1>5. \A i \in 1..Len(links) : m_alias(links[i]) # m_alias(o)
  BY DEF LinkedTo
<1> HIDE DEF links
<1>6. ASSUME NEW h \in Hdl, NEW a \in Alias, LinkedTo(h, a)'
      PROVE  LinkedTo(h, a) \/ (h = g /\ a = m_alias(o))
  BY <1>3, <1>4, <1>6 DEF LinkedTo, m_alias, links
<1>7. ASSUME NEW h \in Hdl, NEW i \in 1..Len(m_toMetaCon'[h]), NEW j \in 1..Len(m_toMetaCon'[h]),
             m_alias(m_toMetaCon'[h][i]) = m_alias(m_toMetaCon'[h][j])
      PROVE  i = j
  <2>1. CASE h # g
    BY <1>3, <1>7, <2>1 DEF OneLinkEach
  <2>2. CASE h = g
    <3>1. \A k, l \in 1..Len(links) : m_alias(links[k]) = m_alias(links[l]) => k = l
      BY DEF OneLinkEach, links
    <3> QED
      BY <1>4, <1>5, <1>7, <2>2, <3>1
  <2> QED
    BY <2>1, <2>2
<1> QED
  BY <1>6, <1>7 DEF OneLinkEach, m_alias

(* The first of a list in which nothing is twice is not in the rest.         *)
LEMMA TailNames ==
  ASSUME NEW s \in Seq(Alias), s # <<>>, IsInjective(s)
  PROVE  /\ Head(s) \in ToSet(s) /\ Head(s) \in Alias
         /\ ToSet(Tail(s)) \subseteq ToSet(s) \ {Head(s)}
         /\ IsInjective(Tail(s))
<1>1. /\ Len(s) \in Nat /\ 1 \in 1..Len(s) /\ Head(s) = s[1] /\ DOMAIN s = 1..Len(s)
      /\ DOMAIN Tail(s) = 1..Len(s) - 1
      /\ \A i \in 1..Len(s) - 1 : Tail(s)[i] = s[i + 1] /\ i + 1 \in 1..Len(s) /\ i + 1 # 1
  OBVIOUS
<1>2. Head(s) \in ToSet(s) /\ Head(s) \in Alias
  BY <1>1 DEF ToSet
<1>3. \A i, j \in 1..Len(s) : s[i] = s[j] => i = j
  BY <1>1 DEF IsInjective
<1>4. ToSet(Tail(s)) \subseteq ToSet(s) \ {Head(s)}
  BY <1>1, <1>3 DEF ToSet
<1>5. \A i, j \in 1..Len(s) - 1 : Tail(s)[i] = Tail(s)[j] => i = j
  BY <1>1, <1>3
<1>6. IsInjective(Tail(s))
  BY <1>1, <1>5 DEF IsInjective
<1> QED
  BY <1>2, <1>4, <1>6

(* The workers leave names alone.                                            *)
LEMMA OnceByWorker ==
  ASSUME RelayInv, NEW h \in Hdl, Worker(h), UNCHANGED <<controlvars, nvars, clients>>
  PROVE  OnceInv'
<1>1. UNCHANGED <<m_toMetaCon, m_needConnectAlias>>
  BY RelayTypes, WorkerLocks
<1>2. FewerLinks
  BY <1>1 DEF FewerLinks
<1> QED
  BY <1>1, <1>2, OnceSame DEF controlvars, cvars, namevars, nvars, request, clients

(* The maintenance thread links a name that waits and is not linked yet, and *)
(* takes it off the waiting ones before it goes on to the next.              *)
LEMMA OnceByMaintain ==
  ASSUME RelayInv, Maintain, UNCHANGED <<nvars, clients>>
  PROVE  OnceInv'
<1>0. /\ UNCHANGED <<n_pc, n_hdl, n_rest, asked>>
      /\ AskedInv /\ OnceInv /\ TypeOK /\ OneLinkEach
      /\ c_hdl \in Hdl /\ c_name \in Alias /\ n_hdl \in Hdl
      /\ asked \in [Hdl -> SUBSET Alias]
      /\ m_needConnectAlias \in [Hdl -> SUBSET Alias]
      /\ m_toMetaCon \in [Hdl -> Seq(Hdl)]
  BY RelayTypes DEF RelayInv, FlowInv, OnceInv, OneLinkEach, nvars, request, clients
<1>s. UNCHANGED m_toMetaCon => FewerLinks
  BY DEF FewerLinks
<1>n. c_pc \in {"match", "add"} =>
         /\ m_alias2con[c_name] \in Hdl /\ m_alias(m_alias2con[c_name]) = c_name
  BY <1>0, RelayTypes DEF IInv, NameInv, RegistryConsistent, TypeOK, ControlModuleTypeOK
<1> USE DEF At, Goto, mvars, settings
<1>1. CASE CtlAcquire
  BY <1>0, <1>1, <1>s, OncePass DEF CtlAcquire
<1>2. CASE CtlRelease
  BY <1>0, <1>2, <1>s, OncePass DEF CtlRelease
<1>3. ASSUME NEW h \in Hdl, CtlVisit(h) PROVE OnceInv'
  BY <1>0, <1>3, <1>s, OncePass DEF CtlVisit
<1>4. CASE CtlGetMetaCon
  BY <1>0, <1>4, <1>s, OncePass DEF CtlGetMetaCon
<1>5. CASE CtlScan
  BY <1>0, <1>5, <1>s, OncePass DEF CtlScan, NextLink
<1>6. CASE CtlSuccessor
  BY <1>0, <1>6, <1>s, OncePass DEF CtlSuccessor, NextLink
<1>7. CASE CtlReplaceMetaCon
  BY <1>0, <1>7, <1>s, OncePass DEF CtlReplaceMetaCon
<1>8. CASE CtlMatch
  <2>1. /\ c_pc = "match" /\ c_pc' \notin {"query", "add", "rm"}
        /\ UNCHANGED m_needConnectAlias
    BY <1>8 DEF CtlMatch, NextLink
  <2>2. CASE UNCHANGED m_toMetaCon
    BY <1>0, <1>s, <2>1, <2>2, OncePass
  <2>3. CASE /\ c_k <= Len(m_toMetaCon[c_hdl]) /\ Matches(m_toMetaCon[c_hdl][c_k])
             /\ m_toMetaCon' = [m_toMetaCon EXCEPT ![c_hdl][c_k] = m_alias2con[c_name]]
    <3>1. m_alias(m_toMetaCon[c_hdl][c_k]) = m_alias(m_alias2con[c_name])
      BY <1>n, <2>1, <2>3 DEF Matches
    <3>2. FewerLinks
      BY <1>0, <2>3, <3>1 DEF FewerLinks, m_alias
    <3> QED
      BY <1>0, <2>1, <3>2, OncePass
  <2> QED
    BY <1>8, <2>2, <2>3 DEF CtlMatch, queryConUsingAlisa
<1>9. CASE CtlMatchRelocks
  BY <1>0, <1>9, <1>s, OncePass DEF CtlMatchRelocks
<1>10. CASE CtlScanned
  BY <1>0, <1>10, <1>s, OncePass DEF CtlScanned
<1>11. CASE CtlDestroy
  <2>1. c_pc = "drop" /\ c_pc' = "drop" /\ UNCHANGED m_needConnectAlias
    BY <1>11 DEF CtlDestroy, DestroyOrphan, cvars
  <2> QED
    BY <1>0, <1>11, <2>1, DestroyedLinks, OncePass DEF CtlDestroy, RelayInv
<1>12. CASE CtlDropped
  BY <1>0, <1>12, <1>s, OncePass DEF CtlDropped
<1>13. CASE CtlGetNeed
  <2>1. /\ c_pc = "need" /\ c_pc' = "query" /\ c_names' = m_needConnectAlias[c_hdl]
        /\ UNCHANGED <<m_toMetaCon, m_needConnectAlias, c_hdl>>
    BY <1>13 DEF CtlGetNeed
  <2> QED
    BY <1>0, <2>1 DEF OnceInv, LinkedTo, m_alias
<1>14. ASSUME NEW a \in Alias, CtlQuery(a) PROVE OnceInv'
  <2>1. /\ c_pc = "query" /\ a \in c_names /\ c_names' = c_names \ {a}
        /\ UNCHANGED <<m_toMetaCon, m_needConnectAlias, c_hdl>>
        /\ \/ c_pc' = "add" /\ c_name' = a
           \/ c_pc' = "query"
    BY <1>14 DEF CtlQuery
  <2> QED
    BY <1>0, <2>1 DEF OnceInv, LinkedTo, m_alias
<1>15. CASE CtlAddMetaCon
  <2>1. /\ c_pc = "add" /\ c_pc' = "rm"
        /\ UNCHANGED <<c_hdl, c_name, c_names, m_needConnectAlias>>
        /\ addMetaCon(c_hdl, m_alias2con[c_name])
    BY <1>15 DEF CtlAddMetaCon, queryConUsingAlisa, namevars
  <2>2. c_name \in m_needConnectAlias[c_hdl] /\ ~LinkedTo(c_hdl, c_name)
    BY <1>0, <2>1 DEF AskedInv, OnceInv
  <2>3. PICK o \in Hdl : o = m_alias2con[c_name]
    BY <1>n, <2>1
  <2>4. PICK a \in Alias : a = c_name
    BY <1>0
  <2>5. m_alias(o) = a /\ addMetaCon(c_hdl, o) /\ ~LinkedTo(c_hdl, m_alias(o))
    BY <1>n, <2>1, <2>2, <2>3, <2>4
  <2>6. PICK g \in Hdl : g = c_hdl
    BY <1>0
  <2>7. /\ \A h \in Hdl : \A b \in Alias :
               LinkedTo(h, b)' => LinkedTo(h, b) \/ (h = g /\ b = a)
        /\ OneLinkEach'
    BY <1>0, <2>5, <2>6, NewLink
  <2>9. ASSUME NEW h \in Hdl, NEW b \in m_needConnectAlias'[h], LinkedTo(h, b)'
        PROVE  c_pc' = "rm" /\ c_hdl' = h /\ c_name' = b
    <3>1. b \in Alias /\ b \in m_needConnectAlias[h]
      BY <1>0, <2>1
    <3>2. ~LinkedTo(h, b)
      BY <1>0, <2>1, <3>1 DEF OnceInv
    <3> QED
      BY <2>1, <2>4, <2>6, <2>7, <2>9, <3>1, <3>2
  <2>10. ASSUME n_pc' \in Naming
         PROVE  /\ IsInjective(n_rest')
                /\ \A b \in ToSet(n_rest') :
                      b \notin m_needConnectAlias'[n_hdl'] /\ ~LinkedTo(n_hdl, b)'
    <3>1. n_pc \in Naming /\ ToSet(n_rest) \subseteq Alias
      <4>1. n_pc \in Naming
        BY <1>0, <2>10
      <4>2. ToSet(n_rest) \subseteq Alias
        BY RelayTypes, NamesOf
      <4> QED
        BY <4>1, <4>2
    <3> QED
      BY <1>0, <2>1, <2>2, <2>4, <2>6, <2>7, <3>1 DEF OnceInv
  <2>11. OnceInv'
    BY <1>0, <2>7, <2>9, <2>10 DEF OnceInv, OneLinkEach, LinkedTo
  <2> QED
    BY <2>11
<1>16. CASE CtlRmNeed
  <2>1. /\ c_pc = "rm" /\ c_pc' = "query" /\ UNCHANGED <<m_toMetaCon, c_hdl, c_names>>
        /\ m_needConnectAlias' = [m_needConnectAlias EXCEPT ![c_hdl] = @ \ {c_name}]
    BY <1>16 DEF CtlRmNeed, rmNeedConnectAlias, namevars
  <2>2. /\ \A h \in Hdl \ {c_hdl} : m_needConnectAlias'[h] = m_needConnectAlias[h]
        /\ m_needConnectAlias'[c_hdl] = m_needConnectAlias[c_hdl] \ {c_name}
    BY <1>0, <2>1
  <2>3. \A h \in Hdl : \A b : LinkedTo(h, b)' = LinkedTo(h, b)
    BY <2>1 DEF LinkedTo, m_alias
  <2>5. ASSUME NEW h \in Hdl, NEW b \in m_needConnectAlias'[h] PROVE ~LinkedTo(h, b)'
    BY <1>0, <2>2, <2>3, <2>5 DEF OnceInv
  <2> QED
    BY <1>0, <2>1, <2>2, <2>3, <2>5 DEF OnceInv, LinkedTo
<1>17. CASE CtlVisited
  BY <1>0, <1>17, <1>s, OncePass DEF CtlVisited
<1> QED
  BY <1>1, <1>2, <1>3, <1>4, <1>5, <1>6, <1>7, <1>8, <1>9, <1>10, <1>11, <1>12, <1>13, <1>14,
      <1>15, <1>16, <1>17 DEF Maintain

(* The handlers take a name off a command when they link it or let it wait.  *)
LEMMA OnceByHandle ==
  ASSUME RelayInv, Handle
  PROVE  OnceInv'
<1>0. /\ AskedInv /\ OnceInv /\ TypeOK /\ OneLinkEach /\ RestInv /\ WorkInv
      /\ c_hdl \in Hdl /\ c_name \in Alias /\ n_hdl \in Hdl /\ n_tgt \in Hdl
      /\ n_rest \in Seq(Alias)
      /\ asked \in [Hdl -> SUBSET Alias]
      /\ m_needConnectAlias \in [Hdl -> SUBSET Alias]
      /\ m_toMetaCon \in [Hdl -> Seq(Hdl)]
  BY RelayTypes DEF RelayInv, FlowInv, LifeInv, IInv, OnceInv, OneLinkEach
<1>q. ASSUME UNCHANGED <<m_toMetaCon, m_needConnectAlias, asked, c_pc, c_hdl, c_name, c_names>>,
             n_pc' \in Naming => n_pc \in Naming /\ UNCHANGED <<n_hdl, n_rest>>
      PROVE  OnceInv'
  BY <1>q, OnceSame DEF FewerLinks
<1> USE DEF In, Continue, Return, mvars, settings, controlvars, cvars, namevars, request, clients
<1>1. CASE OpenClear
  BY <1>1, <1>q DEF OpenClear, Naming
<1>2. ASSUME NEW o \in Hdl, OpenCheck(o) PROVE OnceInv'
  BY <1>2, <1>q DEF OpenCheck, Naming
<1>3. CASE OpenDestroy
  <2>1. /\ UNCHANGED <<c_pc, c_hdl, c_name, c_names, m_needConnectAlias, n_pc, n_hdl, n_rest, asked>>
    BY <1>3 DEF OpenDestroy, DestroyOrphan, nvars
  <2> QED
    BY <1>3, <2>1, DestroyedLinks, OnceSame DEF OpenDestroy, RelayInv
<1>4. CASE OpenCleared
  BY <1>4, <1>q DEF OpenCleared, Naming
<1>5. CASE OpenAdd
  BY <1>5, <1>q DEF OpenAdd, Naming
<1>6. CASE OpenGreet
  BY <1>6, <1>q DEF OpenGreet, Naming
<1>7. CASE CmdQuery
  BY <1>7, <1>q DEF CmdQuery, Naming
<1>8. CASE CmdMethod
  BY <1>8, <1>q DEF CmdMethod, Naming
<1>9. CASE CmdNext
  BY <1>9, <1>q DEF CmdNext, Naming
<1>10. CASE CmdLink
  <2>1. /\ n_pc = "cmd.link" /\ n_pc' = "cmd.next" /\ n_hdl' = n_hdl /\ n_rest' = Tail(n_rest)
        /\ UNCHANGED <<asked, m_needConnectAlias, c_pc, c_hdl, c_name, c_names>>
        /\ addMetaCon(n_hdl, n_tgt)
    BY <1>10 DEF CmdLink
  <2>2. n_rest # <<>> /\ m_alias(n_tgt) = Head(n_rest) /\ IsInjective(n_rest)
    BY <1>0, <2>1 DEF RestInv, WorkInv, OnceInv, Naming
  <2>3. /\ Head(n_rest) \in ToSet(n_rest) /\ Head(n_rest) \in Alias
        /\ ToSet(Tail(n_rest)) \subseteq ToSet(n_rest) \ {Head(n_rest)}
        /\ IsInjective(Tail(n_rest))
    BY <1>0, <2>2, TailNames
  <2>4. PICK a \in Alias : a = Head(n_rest)
    BY <2>3
  <2>5. PICK o \in Hdl : o = n_tgt
    BY <1>0
  <2>6. PICK g \in Hdl : g = n_hdl
    BY <1>0
  <2>7. /\ a \in asked[g] /\ a \notin m_needConnectAlias[g] /\ ~LinkedTo(g, a)
    BY <1>0, <2>1, <2>3, <2>4, <2>6 DEF AskedInv, OnceInv, Naming
  <2>8. m_alias(o) = a /\ addMetaCon(g, o) /\ ~LinkedTo(g, m_alias(o))
    BY <2>1, <2>2, <2>4, <2>5, <2>6, <2>7
  <2>9. /\ \A h \in Hdl : \A b \in Alias :
               LinkedTo(h, b)' => LinkedTo(h, b) \/ (h = g /\ b = a)
        /\ OneLinkEach'
    BY <1>0, <2>8, NewLink
  <2>11. ASSUME NEW h \in Hdl, NEW b \in m_needConnectAlias[h], LinkedTo(h, b)'
         PROVE  c_pc = "rm" /\ c_hdl = h /\ c_name = b
    <3>1. b \in Alias
      BY <1>0
    <3> QED
      BY <1>0, <2>7, <2>9, <2>11, <3>1 DEF OnceInv
  <2>12. ASSUME NEW b \in ToSet(Tail(n_rest))
         PROVE  b \notin m_needConnectAlias[g] /\ ~LinkedTo(g, b)'
    <3>1. b \in ToSet(n_rest) /\ b # a /\ b \in Alias
      BY <1>0, <2>3, <2>4, NamesOf
    <3>2. b \notin m_needConnectAlias[g] /\ ~LinkedTo(g, b)
      BY <1>0, <2>1, <2>6, <3>1 DEF OnceInv, Naming
    <3> QED
      BY <2>9, <3>1, <3>2
  <2> QED
    BY <2>1, <2>3, <2>6, <2>9, <2>11, <2>12 DEF OnceInv, OneLinkEach, LinkedTo
<1>11. CASE CmdNeed
  <2>1. /\ n_pc = "cmd.need" /\ n_pc' = "cmd.next" /\ n_hdl' = n_hdl /\ n_rest' = Tail(n_rest)
        /\ UNCHANGED <<asked, m_toMetaCon, c_pc, c_hdl, c_name, c_names>>
        /\ m_needConnectAlias' = [m_needConnectAlias EXCEPT ![n_hdl] = @ \cup {Head(n_rest)}]
    BY <1>11 DEF CmdNeed, addNeedConnectAlias
  <2>2. n_rest # <<>> /\ IsInjective(n_rest)
    BY <1>0, <2>1 DEF RestInv, OnceInv, Naming
  <2>3. /\ Head(n_rest) \in ToSet(n_rest) /\ Head(n_rest) \in Alias
        /\ ToSet(Tail(n_rest)) \subseteq ToSet(n_rest) \ {Head(n_rest)}
        /\ IsInjective(Tail(n_rest))
    BY <1>0, <2>2, TailNames
  <2>4. /\ \A h \in Hdl \ {n_hdl} : m_needConnectAlias'[h] = m_needConnectAlias[h]
        /\ m_needConnectAlias'[n_hdl] = m_needConnectAlias[n_hdl] \cup {Head(n_rest)}
    BY <1>0, <2>1
  <2>5. \A h \in Hdl : \A b : LinkedTo(h, b)' = LinkedTo(h, b)
    BY <2>1 DEF LinkedTo, m_alias
  <2>6. Head(n_rest) \in asked[n_hdl] /\ ~LinkedTo(n_hdl, Head(n_rest))
        /\ ToSet(n_rest) \subseteq asked[n_hdl]
    BY <1>0, <2>1, <2>3 DEF AskedInv, OnceInv, Naming
  <2>8. \A h \in Hdl : \A b \in m_needConnectAlias'[h] :
           LinkedTo(h, b) => c_pc = "rm" /\ c_hdl = h /\ c_name = b
    BY <1>0, <2>4, <2>6 DEF OnceInv
  <2>9. \A b \in ToSet(Tail(n_rest)) : b \notin m_needConnectAlias'[n_hdl] /\ ~LinkedTo(n_hdl, b)
    BY <1>0, <2>1, <2>3, <2>4 DEF OnceInv, Naming
  <2> QED
    BY <1>0, <2>1, <2>3, <2>5, <2>8, <2>9 DEF OnceInv, LinkedTo
<1>12. CASE CmdNamed
  BY <1>12, <1>q DEF CmdNamed, Naming
<1>13. CASE CmdReply
  BY <1>13, <1>q DEF CmdReply, Naming
<1>14. CASE FeedQuery
  BY <1>14, <1>q DEF FeedQuery, Naming
<1>15. CASE FeedPush
  BY <1>15, <1>q DEF FeedPush, Naming
<1>16. CASE FeedWarn
  BY <1>16, <1>q DEF FeedWarn, Naming
<1>17. CASE FeedRelocks
  BY <1>17, <1>q DEF FeedRelocks, Naming
<1>18. CASE CloseQuery
  BY <1>18, <1>q DEF CloseQuery, Naming
<1>19. CASE CloseSet
  BY <1>19, <1>q DEF CloseSet, Naming
<1> QED
  BY <1>1, <1>2, <1>3, <1>4, <1>5, <1>6, <1>7, <1>8, <1>9, <1>10, <1>11, <1>12, <1>13, <1>14,
      <1>15, <1>16, <1>17, <1>18, <1>19 DEF Handle

(* What is asked of a client's next command: no name twice, none asked for   *)
(* before.                                                                   *)
OnceAsked ==
    \A h \in Hdl : cmds'[h] # cmds[h] =>
       IsInjective(n_rest') /\ ToSet(n_rest') \cap asked[h] = {}

(* Names come in with a command: new ones, each once.                        *)
LEMMA OnceByOutside ==
  ASSUME RelayInv, Outside, OnceAsked
  PROVE  OnceInv'
<1>0. /\ AskedInv /\ OnceInv /\ TypeOK /\ OneLinkEach
      /\ cmds \in [Hdl -> Nat]
      /\ asked \in [Hdl -> SUBSET Alias]
      /\ m_needConnectAlias \in [Hdl -> SUBSET Alias]
  BY RelayTypes DEF RelayInv, FlowInv, OnceInv, OneLinkEach, TypeOK, ServerTypeOK
<1>q. ASSUME UNCHANGED <<m_toMetaCon, m_needConnectAlias, asked, c_pc, c_hdl, c_name, c_names>>,
             n_pc' \notin Naming
      PROVE  OnceInv'
  BY <1>q, OnceSame DEF FewerLinks
<1> USE DEF In, Idle, Handles, mvars, settings, controlvars, cvars, namevars, nvars, request, clients
<1>1. ASSUME NEW h \in Hdl, OnOpen(h) PROVE OnceInv'
  BY <1>1, <1>q DEF OnOpen, Naming
<1>2. ASSUME NEW h \in Hdl, OnFrame(h) PROVE OnceInv'
  BY <1>2, <1>q DEF OnFrame, Naming
<1>3. ASSUME NEW h \in Hdl, OnPeerClose(h) PROVE OnceInv'
  BY <1>3, <1>q DEF OnPeerClose, Naming
<1>4. ASSUME NEW h \in Hdl, OnClose(h) PROVE OnceInv'
  BY <1>4, <1>q DEF OnClose, Naming
<1>5. ASSUME NEW h \in Hdl, NEW text \in Texts[h], OnText(h, text) PROVE OnceInv'
  <2>1. /\ n_hdl' = h /\ n_rest' = RequestedNames(text)
        /\ asked' = [asked EXCEPT ![h] = @ \cup ToSet(text.names)]
        /\ cmds' = [cmds EXCEPT ![h] = @ + 1]
        /\ UNCHANGED <<m_toMetaCon, m_needConnectAlias, c_pc, c_hdl, c_name, c_names>>
    BY <1>5 DEF OnText
  <2>2. text.names \in Seq(Alias)
    BY TextsAssumption DEF Text
  <2>3. ToSet(n_rest') \subseteq ToSet(text.names) /\ ToSet(text.names) \subseteq Alias
    <3>1. n_rest' = text.names \/ n_rest' = <<>>
      BY <2>1 DEF RequestedNames
    <3>2. ToSet(<<>>) = {}
      BY EmptySeq DEF ToSet
    <3> QED
      BY <2>2, <3>1, <3>2 DEF ToSet
  <2>4. IsInjective(n_rest') /\ ToSet(n_rest') \cap asked[h] = {}
    <3>1. cmds'[h] # cmds[h]
      BY <1>0, <2>1
    <3> QED
      BY <3>1 DEF OnceAsked
  <2>5. \A g \in Hdl : \A b : LinkedTo(g, b)' = LinkedTo(g, b)
    BY <2>1 DEF LinkedTo, m_alias
  <2>8. \A b \in ToSet(n_rest') : b \notin m_needConnectAlias[h] /\ ~LinkedTo(h, b)
    BY <1>0, <2>3, <2>4 DEF AskedInv
  <2> QED
    BY <1>0, <2>1, <2>4, <2>5, <2>8 DEF OnceInv, LinkedTo
<1> QED
  BY <1>1, <1>2, <1>3, <1>4, <1>5 DEF Outside

-----------------------------------------------------------------------------
(* What the threads do to the frames on their way.                           *)

(* send() appends to the messages of an open connection, or does nothing.    *)
LEMMA SendAdds ==
  ASSUME NEW t \in Hdl, NEW m \in Msg, Sent(t, m) \/ SendTo(t, m)
  PROVE  UNCHANGED outbox \/ (conn[t] = "open" /\ Adds(t, m))
  BY DEF Sent, SendTo, Accepts, Adds

(* The maintenance thread has nothing to do with frames.                     *)
LEMMA MaintainTells ==
  ASSUME Maintain
  PROVE  UNCHANGED <<outbox, m_framePool>>
<1> USE DEF tvars, mvars, settings
<1>1. CASE CtlAcquire \/ CtlRelease \/ CtlGetMetaCon
  BY <1>1 DEF CtlAcquire, CtlRelease, CtlGetMetaCon
<1>2. ASSUME NEW h \in Hdl, CtlVisit(h) PROVE UNCHANGED <<outbox, m_framePool>>
  BY <1>2 DEF CtlVisit
<1>3. CASE CtlScan \/ CtlSuccessor
  BY <1>3 DEF CtlScan, CtlSuccessor
<1>4. CASE CtlReplaceMetaCon \/ CtlMatch \/ CtlMatchRelocks
  BY <1>4 DEF CtlReplaceMetaCon, CtlMatch, CtlMatchRelocks
<1>5. CASE CtlScanned \/ CtlDestroy \/ CtlDropped
  BY <1>5 DEF CtlScanned, CtlDestroy, DestroyOrphan, CtlDropped
<1>6. ASSUME NEW a \in Alias, CtlQuery(a) PROVE UNCHANGED <<outbox, m_framePool>>
  BY <1>6 DEF CtlQuery
<1>7. CASE CtlGetNeed \/ CtlAddMetaCon \/ CtlRmNeed \/ CtlVisited
  BY <1>7 DEF CtlGetNeed, CtlAddMetaCon, CtlRmNeed, CtlVisited
<1> QED
  BY <1>1, <1>2, <1>3, <1>4, <1>5, <1>6, <1>7 DEF Maintain

(* A handler sends notices, and starts workers that have no frame yet.       *)
HandlerTells ==
    /\ NoticeOnly
    /\ UNCHANGED <<w_frame, w_i, fed, asked>>
    /\ \A h \in Hdl : w_pc'[h] \in {"frame", "send"} => w_pc'[h] = w_pc[h]

LEMMA HandleTells ==
  ASSUME RelayInv, Handle
  PROVE  HandlerTells
<1>0. n_hdl \in Hdl /\ w_pc \in [Hdl -> {"none", "loop", "frame", "send", "stuck", "done"}]
  BY RelayTypes
<1>q. ASSUME UNCHANGED <<outbox, w_pc, w_frame, w_i, fed, asked>> PROVE HandlerTells
  BY <1>q DEF HandlerTells, NoticeOnly
<1>n. ASSUME NEW kind \in {"got", "ok", "undef", "warn"}, NEW h \in Hdl,
             Sent(h, Notice(kind, h)) \/ SendTo(h, Notice(kind, h)),
             UNCHANGED <<w_pc, w_frame, w_i, fed, asked>>
      PROVE  HandlerTells
  <2>1. Notice(kind, h) \in Msg /\ Notice(kind, h).kind # "frame"
    BY NoticeType DEF Notice
  <2>2. UNCHANGED outbox \/ Adds(h, Notice(kind, h))
    BY <1>n, <2>1, SendAdds
  <2> QED
    BY <1>n, <2>1, <2>2 DEF HandlerTells, NoticeOnly
<1> USE DEF mvars, worker, clients, tvars
<1>1. CASE OpenClear
  BY <1>1, <1>q DEF OpenClear
<1>2. ASSUME NEW o \in Hdl, OpenCheck(o) PROVE HandlerTells
  BY <1>2, <1>q DEF OpenCheck
<1>3. CASE OpenDestroy
  BY <1>3, <1>q DEF OpenDestroy, DestroyOrphan
<1>4. CASE OpenCleared
  BY <1>4, <1>q DEF OpenCleared
<1>5. CASE OpenAdd
  <2>1. UNCHANGED <<outbox, w_frame, w_i, fed, asked>>
    BY <1>5 DEF OpenAdd
  <2>2. w_pc' = w_pc \/ w_pc' = [w_pc EXCEPT ![n_hdl] = "loop"]
    BY <1>5 DEF OpenAdd, Constructed
  <2> QED
    BY <1>0, <2>1, <2>2 DEF HandlerTells, NoticeOnly
<1>6. CASE OpenGreet
  BY <1>0, <1>6, <1>n DEF OpenGreet
<1>7. CASE CmdQuery
  BY <1>7, <1>q DEF CmdQuery
<1>8. CASE CmdMethod
  BY <1>8, <1>q DEF CmdMethod
<1>9. CASE CmdNext
  BY <1>9, <1>q DEF CmdNext
<1>10. CASE CmdLink
  BY <1>10, <1>q DEF CmdLink
<1>11. CASE CmdNeed
  BY <1>11, <1>q DEF CmdNeed
<1>12. CASE CmdNamed
  BY <1>12, <1>q DEF CmdNamed
<1>13. CASE CmdReply
  BY <1>0, <1>13, <1>n DEF CmdReply
<1>14. CASE FeedQuery
  BY <1>14, <1>q DEF FeedQuery
<1>15. CASE FeedPush
  BY <1>15, <1>q DEF FeedPush
<1>16. CASE FeedWarn
  <2>1. /\ UNCHANGED <<w_pc, w_frame, w_i, fed, asked>>
        /\ SendTo(n_hdl, Notice("warn", n_hdl)) \/ SendTo(n_hdl, Notice("undef", n_hdl))
    BY <1>16 DEF FeedWarn
  <2> QED
    BY <1>0, <1>n, <2>1
<1>17. CASE FeedRelocks
  BY <1>17, <1>q DEF FeedRelocks
<1>18. CASE CloseQuery
  BY <1>18, <1>q DEF CloseQuery
<1>19. CASE CloseSet
  BY <1>19, <1>q DEF CloseSet
<1> QED
  BY <1>1, <1>2, <1>3, <1>4, <1>5, <1>6, <1>7, <1>8, <1>9, <1>10, <1>11, <1>12, <1>13, <1>14,
      <1>15, <1>16, <1>17, <1>18, <1>19 DEF Handle

(* A worker forwards a frame it has taken, to the targets in order; or, in   *)
(* other steps, sends nothing and forwards nothing to anyone new.            *)
WorkerIdles ==
    /\ UNCHANGED <<outbox, m_framePool, m_toMetaCon, w_frame>>
    /\ \A h \in Hdl : w_pc'[h] = "frame" => w_pc[h] = "frame"
    /\ \A h \in Hdl : w_pc'[h] = "send" => w_pc[h] = "send" /\ w_i'[h] = w_i[h]

LEMMA WorkerTells ==
  ASSUME RelayInv, NEW h \in Hdl, Worker(h), UNCHANGED <<controlvars, nvars, clients>>
  PROVE  getFrame(h) \/ ForwardFrame(h) \/ SentBinary(h) \/ WorkerIdles
<1>0. w_pc \in [Hdl -> {"none", "loop", "frame", "send", "stuck", "done"}]
      /\ w_i \in [Hdl -> Nat]
  BY RelayTypes
<1>1. CASE SentBinaryRelocks(h)
  BY <1>0, <1>1 DEF SentBinaryRelocks, WorkerIdles, tvars, settings
<1>2. CASE EndWorker(h)
  BY <1>0, <1>2 DEF EndWorker, WorkerIdles, tvars, settings
<1> QED
  BY <1>1, <1>2 DEF Worker

-----------------------------------------------------------------------------
(* The frames of a client before they are forwarded. A step that leaves them *)
(* where they are.                                                           *)
LEMMA PoolSame ==
  ASSUME RelayInv, UNCHANGED <<m_framePool, w_frame, fed>>,
         \A h \in Hdl : w_pc'[h] \in {"frame", "send"} => w_pc[h] \in {"frame", "send"},
         n_pc' \in Feeding => n_pc \in Feeding /\ n_hdl' = n_hdl
  PROVE  PoolInv'
  BY DEF RelayInv, FlowInv, PoolInv

(* The frame that is fed is newer than what is in the pool.                  *)
LEMMA PoolPushed ==
  ASSUME RelayInv, n_pc \in Feeding, PushFrame(n_hdl, fed[n_hdl]),
         UNCHANGED <<w_frame, fed>>, n_pc' \notin Feeding,
         \A h \in Hdl : w_pc'[h] \in {"frame", "send"} => w_pc[h] \in {"frame", "send"}
  PROVE  PoolInv'
<1> DEFINE g == n_hdl
           pool == m_framePool[g]
           k == fed[g]
<1>0. /\ PoolInv /\ g \in Hdl /\ pool \in Seq(Nat) /\ k \in Nat
      /\ m_framePool \in [Hdl -> Seq(Nat)]
      /\ fed \in [Hdl -> Nat] /\ w_frame \in [Hdl -> Nat]
  BY RelayTypes DEF RelayInv, FlowInv
<1>1. /\ w_frame[g] < k
      /\ \A i \in 1..Len(pool) : w_frame[g] < pool[i] /\ pool[i] < k
      /\ \A i, j \in 1..Len(pool) : i < j => pool[i] < pool[j]
      /\ w_pc[g] \in {"frame", "send"} => w_frame[g] > 0
  BY <1>0 DEF PoolInv
<1>2. /\ \A h \in Hdl \ {g} : m_framePool'[h] = m_framePool[h]
      /\ m_framePool'[g] = <<k>> \/ m_framePool'[g] = Append(pool, k)
  BY <1>0 DEF PushFrame
<1>3. /\ \A i \in 1..Len(m_framePool'[g]) : w_frame[g] < m_framePool'[g][i] /\ m_framePool'[g][i] <= k
      /\ \A i, j \in 1..Len(m_framePool'[g]) : i < j => m_framePool'[g][i] < m_framePool'[g][j]
  <2>1. CASE m_framePool'[g] = <<k>>
    BY <1>0, <1>1, <2>1
  <2>2. CASE m_framePool'[g] = Append(pool, k)
    <3> HIDE DEF pool, k
    <3>1. /\ Len(pool) \in Nat /\ Len(Append(pool, k)) = Len(pool) + 1
          /\ Append(pool, k)[Len(pool) + 1] = k
          /\ \A i \in 1..Len(pool) : Append(pool, k)[i] = pool[i] /\ pool[i] \in Nat
      BY <1>0, AppendProperties, LenProperties
    <3>2. w_frame[g] \in Nat
      BY <1>0
    <3> DEFINE p == m_framePool'[g]
    <3>3. /\ Len(p) = Len(pool) + 1 /\ p[Len(pool) + 1] = k
          /\ \A i \in 1..Len(p) : i = Len(pool) + 1 \/ (i \in 1..Len(pool) /\ p[i] = pool[i])
      BY <2>2, <3>1
    <3> HIDE DEF p
    <3>4. /\ \A i \in 1..Len(pool) : w_frame[g] < pool[i] /\ pool[i] < k
          /\ \A i, j \in 1..Len(pool) : i < j => pool[i] < pool[j]
          /\ w_frame[g] < k
      BY <1>1 DEF pool, k
    <3>5. k \in Nat
      BY <1>0 DEF k
    <3>6. \A i \in 1..Len(p) : w_frame[g] < p[i] /\ p[i] <= k
      BY <3>1, <3>2, <3>3, <3>4, <3>5
    <3>7. ASSUME NEW i \in 1..Len(p), NEW j \in 1..Len(p), i < j PROVE p[i] < p[j]
      <4>1. i \in 1..Len(pool) /\ p[i] = pool[i]
        BY <3>1, <3>3, <3>7
      <4> QED
        BY <3>3, <3>4, <3>7, <4>1
    <3> QED
      BY <3>6, <3>7 DEF p
  <2> QED
    BY <1>2, <2>1, <2>2
<1>4. ASSUME NEW h \in Hdl
      PROVE  LET p == m_framePool'[h] IN
               /\ w_pc'[h] \in {"frame", "send"} => w_frame'[h] > 0
               /\ w_frame'[h] <= fed'[h]
               /\ \A i \in 1..Len(p) : w_frame'[h] < p[i] /\ p[i] <= fed'[h]
               /\ \A i, j \in 1..Len(p) : i < j => p[i] < p[j]
  <2>1. CASE h = g
    <3>1. w_frame[g] <= k
      BY <1>0, <1>1
    <3> QED
      BY <1>1, <1>3, <2>1, <3>1
  <2>2. CASE h # g
    BY <1>0, <1>2, <2>2 DEF PoolInv
  <2> QED
    BY <2>1, <2>2
<1> QED
  BY <1>4 DEF PoolInv

(* The worker takes the oldest frame.                                        *)
LEMMA PoolTaken ==
  ASSUME RelayInv, NEW h \in Hdl, getFrame(h), UNCHANGED <<nvars, clients>>
  PROVE  PoolInv' /\ w_frame[h] < w_frame'[h]
<1> DEFINE pool == m_framePool[h]
<1>0. /\ PoolInv /\ pool \in Seq(Nat) /\ pool # <<>>
      /\ m_framePool \in [Hdl -> Seq(Nat)]
      /\ fed \in [Hdl -> Nat] /\ w_frame \in [Hdl -> Nat]
      /\ w_pc \in [Hdl -> {"none", "loop", "frame", "send", "stuck", "done"}]
      /\ UNCHANGED <<n_pc, n_hdl, fed>>
  BY RelayTypes DEF RelayInv, FlowInv, getFrame, nvars, clients
<1>1. /\ \A g \in Hdl \ {h} : /\ m_framePool'[g] = m_framePool[g]
                              /\ w_frame'[g] = w_frame[g] /\ w_pc'[g] = w_pc[g]
      /\ m_framePool'[h] = Tail(pool) /\ w_frame'[h] = Head(pool)
  BY <1>0 DEF getFrame
<1>2. /\ \A i \in 1..Len(pool) : w_frame[h] < pool[i] /\ pool[i] <= fed[h]
      /\ \A i, j \in 1..Len(pool) : i < j => pool[i] < pool[j]
      /\ n_pc \in Feeding /\ n_hdl = h => \A i \in 1..Len(pool) : pool[i] < fed[h]
  BY <1>0 DEF PoolInv
<1> HIDE DEF pool
<1>3. /\ Len(pool) \in Nat /\ 1 \in 1..Len(pool) /\ Head(pool) = pool[1]
      /\ Tail(pool) \in Seq(Nat) /\ Len(Tail(pool)) = Len(pool) - 1
      /\ \A i \in 1..Len(pool) : pool[i] \in Nat
      /\ \A i \in 1..Len(Tail(pool)) : Tail(pool)[i] = pool[i + 1] /\ i + 1 \in 1..Len(pool)
                                       /\ 1 < i + 1
  BY <1>0
<1>4. w_frame[h] < w_frame'[h] /\ w_frame'[h] > 0 /\ w_frame'[h] <= fed[h]
      /\ (n_pc \in Feeding /\ n_hdl = h => w_frame'[h] < fed[h])
  <2>1. w_frame[h] \in Nat
    BY <1>0
  <2> QED
    BY <1>1, <1>2, <1>3, <2>1
<1>5. /\ \A i \in 1..Len(Tail(pool)) :
            /\ w_frame'[h] < Tail(pool)[i] /\ Tail(pool)[i] <= fed[h]
            /\ n_pc \in Feeding /\ n_hdl = h => Tail(pool)[i] < fed[h]
      /\ \A i, j \in 1..Len(Tail(pool)) : i < j => Tail(pool)[i] < Tail(pool)[j]
  BY <1>1, <1>2, <1>3
<1>6. ASSUME NEW g \in Hdl
      PROVE  LET p == m_framePool'[g] IN
               /\ w_pc'[g] \in {"frame", "send"} => w_frame'[g] > 0
               /\ w_frame'[g] <= fed'[g]
               /\ \A i \in 1..Len(p) : w_frame'[g] < p[i] /\ p[i] <= fed'[g]
               /\ \A i, j \in 1..Len(p) : i < j => p[i] < p[j]
               /\ n_pc' \in Feeding /\ n_hdl' = g =>
                     w_frame'[g] < fed'[g] /\ \A i \in 1..Len(p) : p[i] < fed'[g]
  <2>1. CASE g = h
    BY <1>0, <1>1, <1>4, <1>5, <2>1
  <2>2. CASE g # h
    BY <1>0, <1>1, <2>2 DEF PoolInv
  <2> QED
    BY <2>1, <2>2
<1> QED
  BY <1>4, <1>6 DEF PoolInv

(* Who does what to the pools.                                               *)
LEMMA PoolByWorker ==
  ASSUME RelayInv, NEW h \in Hdl, Worker(h), UNCHANGED <<controlvars, nvars, clients>>
  PROVE  PoolInv'
<1>0. /\ UNCHANGED <<n_pc, n_hdl, fed>>
      /\ w_pc \in [Hdl -> {"none", "loop", "frame", "send", "stuck", "done"}]
  BY RelayTypes DEF nvars, clients
<1>1. CASE getFrame(h)
  BY <1>1, PoolTaken
<1>2. CASE ForwardFrame(h)
  BY <1>0, <1>2, PoolSame DEF ForwardFrame, settings
<1>3. CASE SentBinary(h)
  BY <1>0, <1>3, PoolSame DEF SentBinary, settings
<1>4. CASE WorkerIdles
  BY <1>0, <1>4, PoolSame DEF WorkerIdles
<1> QED
  BY <1>1, <1>2, <1>3, <1>4, WorkerTells

LEMMA PoolByMaintain ==
  ASSUME RelayInv, Maintain, UNCHANGED <<nvars, clients>>
  PROVE  PoolInv'
<1>1. UNCHANGED <<m_framePool, w_pc, w_frame, fed, n_pc, n_hdl>>
  BY MaintainTells, MaintainFrame DEF worker, nvars, clients
<1> QED
  BY <1>1, PoolSame

LEMMA PoolByHandle ==
  ASSUME RelayInv, Handle
  PROVE  PoolInv'
<1>0. /\ UNCHANGED <<w_frame, fed>>
      /\ \A h \in Hdl : w_pc'[h] \in {"frame", "send"} => w_pc[h] \in {"frame", "send"}
  BY HandleTells DEF HandlerTells
<1>q. ASSUME UNCHANGED m_framePool, n_pc' \in Feeding => n_pc \in Feeding /\ n_hdl' = n_hdl
      PROVE  PoolInv'
  BY <1>0, <1>q, PoolSame
<1>p. ASSUME n_pc \in Feeding, PushFrame(n_hdl, fed[n_hdl]), n_pc' \notin Feeding
      PROVE  PoolInv'
  BY <1>0, <1>p, PoolPushed
<1> USE DEF In, Continue, Return, mvars, settings, nvars
<1>1. CASE OpenClear
  BY <1>1, <1>q DEF OpenClear, Feeding
<1>2. ASSUME NEW o \in Hdl, OpenCheck(o) PROVE PoolInv'
  BY <1>2, <1>q DEF OpenCheck, Feeding
<1>3. CASE OpenDestroy
  BY <1>3, <1>q DEF OpenDestroy, DestroyOrphan, Feeding
<1>4. CASE OpenCleared
  BY <1>4, <1>q DEF OpenCleared, Feeding
<1>5. CASE OpenAdd
  BY <1>5, <1>q DEF OpenAdd, Feeding
<1>6. CASE OpenGreet
  BY <1>6, <1>q DEF OpenGreet, Feeding
<1>7. CASE CmdQuery
  BY <1>7, <1>q DEF CmdQuery, Feeding
<1>8. CASE CmdMethod
  BY <1>8, <1>q DEF CmdMethod, Feeding
<1>9. CASE CmdNext
  BY <1>9, <1>q DEF CmdNext, Feeding
<1>10. CASE CmdLink
  BY <1>10, <1>q DEF CmdLink, Feeding
<1>11. CASE CmdNeed
  BY <1>11, <1>q DEF CmdNeed, Feeding
<1>12. CASE CmdNamed
  BY <1>12, <1>q DEF CmdNamed, Feeding
<1>13. CASE CmdReply
  BY <1>13, <1>q DEF CmdReply, Feeding
<1>14. CASE FeedQuery
  BY <1>14, <1>q DEF FeedQuery, Feeding
<1>15. CASE FeedPush
  <2>1. \/ PushFrame(n_hdl, fed[n_hdl]) /\ n_pc' = "idle"
        \/ UNCHANGED <<m_framePool, n_hdl>>
        \/ UNCHANGED m_framePool /\ n_pc' = "idle"
    BY <1>15 DEF FeedPush
  <2>2. n_pc \in Feeding /\ "idle" \notin Feeding
    BY <1>15 DEF FeedPush, Feeding
  <2> QED
    BY <1>p, <1>q, <2>1, <2>2
<1>16. CASE FeedWarn
  <2>1. PushFrame(n_hdl, fed[n_hdl]) \/ UNCHANGED m_framePool
    BY <1>16 DEF FeedWarn
  <2>2. n_pc \in Feeding /\ n_pc' \notin Feeding
    BY <1>16 DEF FeedWarn, Feeding
  <2> QED
    BY <1>p, <1>q, <2>1, <2>2
<1>17. CASE FeedRelocks
  BY <1>17, <1>q DEF FeedRelocks, Feeding
<1>18. CASE CloseQuery
  BY <1>18, <1>q DEF CloseQuery, Feeding
<1>19. CASE CloseSet
  BY <1>19, <1>q DEF CloseSet, Feeding
<1> QED
  BY <1>1, <1>2, <1>3, <1>4, <1>5, <1>6, <1>7, <1>8, <1>9, <1>10, <1>11, <1>12, <1>13, <1>14,
      <1>15, <1>16, <1>17, <1>18, <1>19 DEF Handle

LEMMA PoolByOutside ==
  ASSUME RelayInv, Outside
  PROVE  PoolInv'
<1>0. fed \in [Hdl -> Nat] /\ m_framePool \in [Hdl -> Seq(Nat)] /\ w_frame \in [Hdl -> Nat]
      /\ PoolInv
  BY RelayTypes DEF RelayInv, FlowInv
<1> USE DEF In, Idle, Handles, mvars, settings, worker, nvars, clients
<1>1. ASSUME NEW h \in Hdl, OnOpen(h) PROVE PoolInv'
  BY <1>1, PoolSame DEF OnOpen, Feeding
<1>2. ASSUME NEW h \in Hdl, OnFrame(h) PROVE PoolInv'
  <2>1. /\ n_pc = "idle" /\ n_hdl' = h /\ fed' = [fed EXCEPT ![h] = @ + 1]
        /\ UNCHANGED <<m_framePool, w_pc, w_frame>>
    BY <1>2 DEF OnFrame
  <2>2. /\ \A g \in Hdl : fed[g] <= fed'[g]
        /\ fed[h] < fed'[h] /\ fed'[h] \in Nat
        /\ \A g \in Hdl : fed[g] \in Nat /\ fed'[g] \in Nat /\ w_frame[g] \in Nat
        /\ \A g \in Hdl : \A i \in 1..Len(m_framePool[g]) : m_framePool[g][i] \in Nat
    BY <1>0, <2>1
  <2> QED
    BY <1>0, <2>1, <2>2 DEF PoolInv
<1>3. ASSUME NEW h \in Hdl, OnPeerClose(h) PROVE PoolInv'
  BY <1>3, PoolSame DEF OnPeerClose, Feeding
<1>4. ASSUME NEW h \in Hdl, OnClose(h) PROVE PoolInv'
  BY <1>4, PoolSame DEF OnClose, Feeding
<1>5. ASSUME NEW h \in Hdl, NEW text \in Texts[h], OnText(h, text) PROVE PoolInv'
  BY <1>5, PoolSame DEF OnText, Feeding
<1> QED
  BY <1>1, <1>2, <1>3, <1>4, <1>5 DEF Outside

-----------------------------------------------------------------------------
(* What was sent is past, in a step that sends no frame.                     *)
LEMMA SentTypes ==
  ASSUME RelayInv
  PROVE  \A t \in Hdl : \A i \in 1..Len(outbox[t]) :
            outbox[t][i].src \in Hdl /\ outbox[t][i].n \in Nat
<1> SUFFICES ASSUME NEW t \in Hdl, NEW i \in 1..Len(outbox[t])
             PROVE  outbox[t][i].src \in Hdl /\ outbox[t][i].n \in Nat
  OBVIOUS
<1>1. outbox[t] \in Seq(Msg)
  BY RelayTypes
<1>2. outbox[t][i] \in Msg
  BY <1>1
<1> QED
  BY <1>2 DEF Msg

LEMMA SentKept ==
  ASSUME RelayInv,
         \A h \in Hdl : \A n \in Nat : \A t \in Hdl : Past(h, n, t) => Past(h, n, t)',
         \A t \in Hdl : \A i \in 1..Len(outbox'[t]) :
            outbox'[t][i].kind = "frame" =>
               i \in 1..Len(outbox[t]) /\ outbox'[t][i] = outbox[t][i]
  PROVE  SentInv'
<1>1. ASSUME NEW s \in Hdl, NEW i \in 1..Len(outbox'[s]), outbox'[s][i].kind = "frame"
      PROVE  Past(outbox[s][i].src, outbox[s][i].n, s)'
  <2>1. i \in 1..Len(outbox[s]) /\ outbox'[s][i] = outbox[s][i]
    BY <1>1
  <2>2. PICK g \in Hdl, n \in Nat : g = outbox[s][i].src /\ n = outbox[s][i].n
    BY <2>1, SentTypes
  <2>3. Past(g, n, s)
    BY <1>1, <2>1, <2>2 DEF RelayInv, FlowInv, SentInv
  <2>4. Past(g, n, s)'
    BY <2>3
  <2> QED
    BY <2>1, <2>2, <2>4 DEF Past
<1> QED
  BY <1>1 DEF SentInv

(* The same where, besides, nothing starts to be sent.                       *)
LEMMA SentSame ==
  ASSUME RelayInv, NoticeOnly, UNCHANGED w_frame,
         \A h \in Hdl : w_pc'[h] = "frame" => w_pc[h] = "frame",
         \A h \in Hdl : w_pc'[h] = "send" =>
            w_pc[h] = "send" /\ w_i'[h] = w_i[h] /\ m_toMetaCon'[h] = m_toMetaCon[h]
  PROVE  SentInv'
<1>0. outbox \in [Hdl -> Seq(Msg)] /\ SentInv
  BY RelayTypes DEF RelayInv, FlowInv
<1>1. ASSUME NEW h \in Hdl, NEW n \in Nat, NEW t \in Hdl, Past(h, n, t) PROVE Past(h, n, t)'
  BY <1>1 DEF Past
<1>2. ASSUME NEW t \in Hdl, NEW i \in 1..Len(outbox'[t]), outbox'[t][i].kind = "frame"
      PROVE  i \in 1..Len(outbox[t]) /\ outbox[t][i] = outbox'[t][i]
  <2>1. CASE UNCHANGED outbox
    BY <2>1
  <2>2. ASSUME NEW g \in Hdl, NEW m \in Msg, m.kind # "frame", Adds(g, m)
        PROVE  i \in 1..Len(outbox[t]) /\ outbox[t][i] = outbox'[t][i]
    <3>1. outbox'[t] = outbox[t] \/ outbox'[t] = Append(outbox[t], m)
      BY <1>0, <2>2 DEF Adds
    <3>2. outbox[t] \in Seq(Msg)
      BY <1>0
    <3>3. /\ Len(outbox[t]) \in Nat /\ Len(Append(outbox[t], m)) = Len(outbox[t]) + 1
          /\ Append(outbox[t], m)[Len(outbox[t]) + 1] = m
          /\ \A j \in 1..Len(outbox[t]) : Append(outbox[t], m)[j] = outbox[t][j]
      BY <3>2, AppendProperties, LenProperties
    <3> QED
      BY <1>2, <2>2, <3>1, <3>3
  <2> QED
    BY <2>1, <2>2 DEF NoticeOnly
<1> QED
  BY <1>1, <1>2, SentKept

(* One target's SentBinary: it says nothing, or the frame to a connection    *)
(* that is open.                                                             *)
LEMMA Forwarded ==
  ASSUME RelayInv, NEW h \in Hdl, SentBinary(h)
  PROVE  \E t \in Hdl :
            /\ t = WorkerTarget(h) /\ w_i[h] \in 1..Len(m_toMetaCon[h])
            /\ w_pc[h] = "send" /\ w_frame[h] \in Nat
            /\ \/ UNCHANGED outbox
               \/ conn[t] = "open" /\ Adds(t, FrameMsg(h, w_frame[h]))
<1>1. w_pc[h] = "send" /\ w_i[h] \in 1..Len(m_toMetaCon[h])
  BY DEF SentBinary, RelayInv, FlowInv, HoldsInv
<1>2. m_toMetaCon[h] \in Seq(Hdl) /\ w_frame[h] \in Nat
  BY RelayTypes
<1>3. PICK t \in Hdl : t = WorkerTarget(h)
  BY <1>1, <1>2 DEF WorkerTarget
<1>4. FrameMsg(h, w_frame[h]) \in Msg
  BY <1>2, FrameMsgType
<1>5. SendTo(t, FrameMsg(h, w_frame[h]))
  BY <1>3 DEF SentBinary
<1>6. UNCHANGED outbox \/ (conn[t] = "open" /\ Adds(t, FrameMsg(h, w_frame[h])))
  BY <1>4, <1>5, SendAdds
<1> QED
  BY <1>1, <1>2, <1>3, <1>6

(* Forwarding a frame, the worker goes on to the next target, and no link is *)
(* to the one it has sent to.                                                *)
LEMMA SentForward ==
  ASSUME RelayInv, NEW h \in Hdl, SentBinary(h)
  PROVE  SentInv'
<1> DEFINE links == m_toMetaCon[h]
<1>0. /\ SentInv /\ outbox \in [Hdl -> Seq(Msg)] /\ links \in Seq(Hdl) /\ Len(links) \in Nat
      /\ w_pc \in [Hdl -> {"none", "loop", "frame", "send", "stuck", "done"}]
      /\ w_i \in [Hdl -> Nat]
  <2>1. SentInv
    BY DEF RelayInv, FlowInv
  <2>2. links \in Seq(Hdl)
    BY RelayTypes
  <2>3. Len(links) \in Nat
    <3> HIDE DEF links
    <3> QED
      BY <2>2
  <2>4. /\ outbox \in [Hdl -> Seq(Msg)] /\ w_i \in [Hdl -> Nat]
        /\ w_pc \in [Hdl -> {"none", "loop", "frame", "send", "stuck", "done"}]
    BY RelayTypes
  <2> QED
    BY <2>1, <2>2, <2>3, <2>4
<1>1. PICK t \in Hdl :
         /\ t = links[w_i[h]] /\ w_i[h] \in 1..Len(links)
         /\ w_pc[h] = "send" /\ w_frame[h] \in Nat
         /\ UNCHANGED outbox \/ Adds(t, FrameMsg(h, w_frame[h]))
  BY Forwarded DEF WorkerTarget
<1>2. /\ UNCHANGED <<m_toMetaCon, w_frame>>
      /\ \A g \in Hdl \ {h} : w_pc'[g] = w_pc[g] /\ w_i'[g] = w_i[g]
      /\ w_pc'[h] = "loop" \/ (w_pc'[h] = "send" /\ w_i'[h] = w_i[h] + 1)
  BY <1>0, <1>1 DEF SentBinary
<1>3. \A k \in 1..Len(links) : links[k] = t => k = w_i[h]
  BY <1>0, <1>1 DEF RelayInv, FlowInv, OnceInv
<1>4. ASSUME NEW g \in Hdl, NEW n \in Nat, NEW s \in Hdl, Past(g, n, s) PROVE Past(g, n, s)'
  <2>1. CASE g # h
    BY <1>2, <1>4, <2>1 DEF Past
  <2>2. CASE g = h
    BY <1>0, <1>1, <1>2, <1>4, <2>2 DEF Past
  <2> QED
    BY <2>1, <2>2
<1>5. Past(h, w_frame[h], t)'
  BY <1>0, <1>1, <1>2, <1>3 DEF Past
<1>6. ASSUME NEW s \in Hdl, NEW i \in 1..Len(outbox'[s]), outbox'[s][i].kind = "frame"
      PROVE  \/ i \in 1..Len(outbox[s]) /\ outbox[s][i] = outbox'[s][i]
             \/ s = t /\ outbox'[s][i].src = h /\ outbox'[s][i].n = w_frame[h]
  <2>1. CASE UNCHANGED outbox
    BY <2>1
  <2>2. CASE Adds(t, FrameMsg(h, w_frame[h]))
    <3> DEFINE m == FrameMsg(h, w_frame[h])
    <3>1. m \in Msg /\ m.src = h /\ m.n = w_frame[h]
      BY <1>1, FrameMsgType DEF FrameMsg
    <3> HIDE DEF m
    <3>2. outbox'[s] = outbox[s] \/ (s = t /\ outbox'[s] = Append(outbox[s], m))
      BY <1>0, <2>2 DEF Adds, m
    <3>3. outbox[s] \in Seq(Msg)
      BY <1>0
    <3>4. /\ Len(outbox[s]) \in Nat /\ Len(Append(outbox[s], m)) = Len(outbox[s]) + 1
          /\ Append(outbox[s], m)[Len(outbox[s]) + 1] = m
          /\ \A j \in 1..Len(outbox[s]) : Append(outbox[s], m)[j] = outbox[s][j]
      BY <3>1, <3>3, AppendProperties, LenProperties
    <3> QED
      BY <3>1, <3>2, <3>4
  <2> QED
    BY <1>1, <2>1, <2>2
<1>7. \A s \in Hdl : \A i \in 1..Len(outbox[s]) : outbox[s][i].src \in Hdl /\ outbox[s][i].n \in Nat
  BY SentTypes
<1>8. ASSUME NEW s \in Hdl, NEW i \in 1..Len(outbox'[s]), outbox'[s][i].kind = "frame"
      PROVE  Past(outbox[s][i].src, outbox[s][i].n, s)'
  <2>1. CASE i \in 1..Len(outbox[s]) /\ outbox[s][i] = outbox'[s][i]
    <3>1. PICK g \in Hdl, n \in Nat : g = outbox[s][i].src /\ n = outbox[s][i].n
      BY <1>7, <2>1
    <3>2. Past(g, n, s)
      BY <1>0, <1>8, <2>1, <3>1 DEF SentInv
    <3>3. Past(g, n, s)'
      BY <1>4, <3>2
    <3> QED
      BY <2>1, <3>1, <3>3 DEF Past
  <2>2. CASE s = t /\ outbox'[s][i].src = h /\ outbox'[s][i].n = w_frame[h]
    BY <1>2, <1>5, <2>2 DEF Past
  <2> QED
    BY <1>6, <1>8, <2>1, <2>2
<1> QED
  BY <1>8 DEF SentInv

LEMMA SentByWorker ==
  ASSUME RelayInv, NEW h \in Hdl, Worker(h), UNCHANGED <<controlvars, nvars, clients>>
  PROVE  SentInv'
<1>0. /\ w_pc \in [Hdl -> {"none", "loop", "frame", "send", "stuck", "done"}]
      /\ w_frame \in [Hdl -> Nat] /\ w_i \in [Hdl -> Nat]
  BY RelayTypes
<1>1. CASE getFrame(h)
  <2>1. w_frame[h] < w_frame'[h]
    BY <1>1, PoolTaken
  <2>2. /\ UNCHANGED <<outbox, m_toMetaCon, w_i>> /\ w_frame'[h] \in Nat /\ w_frame[h] \in Nat
        /\ \A g \in Hdl \ {h} : w_frame'[g] = w_frame[g] /\ w_pc'[g] = w_pc[g]
    <3>1. m_framePool[h] \in Seq(Nat) /\ m_framePool[h] # <<>>
      BY <1>1, RelayTypes DEF getFrame
    <3>2. Head(m_framePool[h]) \in Nat
      BY <3>1
    <3> QED
      BY <1>0, <1>1, <3>2 DEF getFrame, tvars
  <2>3. ASSUME NEW g \in Hdl, NEW n \in Nat, NEW t \in Hdl, Past(g, n, t) PROVE Past(g, n, t)'
    <3>1. CASE g = h
      BY <2>1, <2>2, <2>3, <3>1 DEF Past
    <3>2. CASE g # h
      BY <2>2, <2>3, <3>2 DEF Past
    <3> QED
      BY <3>1, <3>2
  <2> QED
    BY <2>2, <2>3, SentKept
<1>2. CASE ForwardFrame(h)
  <2>1. /\ UNCHANGED <<outbox, m_toMetaCon, w_frame>> /\ w_pc[h] = "frame"
        /\ \A g \in Hdl \ {h} : w_pc'[g] = w_pc[g] /\ w_i'[g] = w_i[g]
    BY <1>0, <1>2 DEF ForwardFrame, tvars
  <2>2. ASSUME NEW g \in Hdl, NEW n \in Nat, NEW t \in Hdl, Past(g, n, t) PROVE Past(g, n, t)'
    BY <2>1, <2>2 DEF Past
  <2> QED
    BY <2>1, <2>2, SentKept
<1>3. CASE SentBinary(h)
  BY <1>3, SentForward
<1>4. CASE WorkerIdles
  BY <1>4, SentSame DEF WorkerIdles, NoticeOnly
<1> QED
  BY <1>1, <1>2, <1>3, <1>4, WorkerTells

LEMMA SentByOthers ==
  ASSUME RelayInv,
         \/ Handle
         \/ Maintain /\ UNCHANGED <<nvars, clients>>
         \/ Outside
  PROVE  SentInv'
<1>1. CASE Handle
  <2>1. HandlerTells /\ \A h \in Hdl : w_pc[h] = "send" => m_toMetaCon'[h] = m_toMetaCon[h]
    BY <1>1, HandleTells, HoldsByHandle DEF RelayInv
  <2> QED
    BY <2>1, SentSame DEF HandlerTells
<1>2. CASE Maintain /\ UNCHANGED <<nvars, clients>>
  <2>1. UNCHANGED <<outbox, w_pc, w_frame, w_i>>
    BY <1>2, MaintainTells, MaintainFrame DEF worker
  <2>2. \A h \in Hdl : w_pc[h] = "send" => m_toMetaCon'[h] = m_toMetaCon[h]
    BY <1>2, HoldsByMaintain DEF RelayInv
  <2> QED
    BY <2>1, <2>2, SentSame DEF NoticeOnly
<1>3. CASE Outside
  <2>1. UNCHANGED <<outbox, w_pc, w_frame, w_i, m_toMetaCon>>
    BY <1>3 DEF Outside, OnOpen, OnFrame, OnPeerClose, OnClose, OnText, mvars, worker, tvars
  <2> QED
    BY <2>1, SentSame DEF NoticeOnly
<1> QED
  BY <1>1, <1>2, <1>3

-----------------------------------------------------------------------------
(* RelayInv holds at the start.                                              *)
LEMMA RelayInit == Init => RelayInv
<1> SUFFICES ASSUME Init PROVE RelayInv
  OBVIOUS
<1> USE DEF Init, TransportInit, MetaConnectionInit, ControlModuleInit
<1>1. FlowInv
  BY FlowInit
<1>5. OnceInv
  BY DEF OnceInv, Naming
<1>6. PoolInv
  <2>1. \A h \in Hdl : /\ m_framePool[h] = <<>> /\ w_frame[h] = 0 /\ fed[h] = 0
                      /\ w_pc[h] = "none"
    OBVIOUS
  <2>2. n_pc \notin Feeding /\ Len(<<>>) = 0
    BY DEF Feeding
  <2> SUFFICES ASSUME NEW h \in Hdl
               PROVE  LET pool == m_framePool[h] IN
                        /\ w_pc[h] \in {"frame", "send"} => w_frame[h] > 0
                        /\ w_frame[h] <= fed[h]
                        /\ \A i \in 1..Len(pool) : w_frame[h] < pool[i] /\ pool[i] <= fed[h]
                        /\ \A i, j \in 1..Len(pool) : i < j => pool[i] < pool[j]
    BY <2>2 DEF PoolInv
  <2> HIDE DEF Init, TransportInit, MetaConnectionInit, ControlModuleInit
  <2>3. \A i \in 1..0 : FALSE
    OBVIOUS
  <2> QED
    BY <2>1, <2>2, <2>3
<1>7. SentInv
  BY DEF SentInv
<1> QED
  BY <1>1, <1>5, <1>6, <1>7 DEF RelayInv

(* And every step keeps it, where the names of commands are new.             *)
LEMMA RelayKeeps ==
  ASSUME RelayInv, [Next]_vars, OnceAsked
  PROVE  RelayInv'
<1>1. FlowInv'
  BY FlowStep DEF RelayInv
<1>2. CASE Outside
  BY <1>1, <1>2, OnceByOutside, PoolByOutside, SentByOthers DEF RelayInv
<1>3. CASE Handle
  BY <1>1, <1>3, OnceByHandle, PoolByHandle, SentByOthers DEF RelayInv
<1>4. CASE Maintain /\ UNCHANGED <<nvars, clients>>
  BY <1>1, <1>4, OnceByMaintain, PoolByMaintain, SentByOthers DEF RelayInv
<1>5. ASSUME NEW h \in Hdl, Worker(h), UNCHANGED <<controlvars, nvars, clients>>
      PROVE  RelayInv'
  BY <1>1, <1>5, OnceByWorker, PoolByWorker, SentByWorker DEF RelayInv
<1>6. CASE UNCHANGED vars
  <2>1. UNCHANGED <<tvars, mvars, controlvars, nvars, clients>>
    BY <1>6 DEF vars
  <2>2. /\ UNCHANGED <<outbox, m_framePool, m_needConnectAlias, m_toMetaCon, w_pc, w_frame, w_i>>
        /\ UNCHANGED <<c_pc, c_hdl, c_name, c_names, n_pc, n_hdl, n_rest, fed, asked>>
    BY <2>1 DEF tvars, mvars, settings, worker, controlvars, cvars, namevars, nvars, request, clients
  <2>3. OnceInv'
    BY <2>2, OnceSame DEF FewerLinks
  <2>4. PoolInv'
    BY <2>2, PoolSame
  <2>5. SentInv'
    BY <2>2, SentSame DEF NoticeOnly
  <2> QED
    BY <1>1, <2>3, <2>4, <2>5 DEF RelayInv
<1> QED
  BY <1>2, <1>3, <1>4, <1>5, <1>6 DEF Next, Threads

-----------------------------------------------------------------------------
(* The server is where Relay starts.                                         *)
LEMMA FramesInit == Init => Frames!Init
<1> SUFFICES ASSUME Init PROVE Frames!Init
  OBVIOUS
<1>1. \A h \in Hdl : FramesOf(h) = <<>>
  <2>1. ASSUME NEW h \in Hdl PROVE FramesOf(h) = <<>>
    <3>1. outbox[h] = <<>> /\ <<>> \in Seq(Msg) /\ Len(<<>>) = 0
      BY DEF Init, TransportInit
    <3>2. PICK F : Listed(<<>>, F) /\ FrameList(<<>>) = F[0]
      BY <3>1, FrameListDef
    <3>3. F[0] = <<>>
      BY <3>1, <3>2 DEF Listed
    <3> QED
      BY <3>1, <3>2, <3>3 DEF FramesOf
  <2> QED
    BY <2>1
<1> QED
  BY <1>1 DEF Init, Frames!Init

(* A worker's SentBinary passes the frame on, to a connection whose name was *)
(* asked for and that has not had it, nor any later one.                     *)
LEMMA PassesOn ==
  ASSUME RelayInv, NEW h \in Hdl, SentBinary(h), UNCHANGED <<fed, asked>>
  PROVE  [Frames!Next]_<<asked, fed, Delivered>>
<1>1. PICK t \in Hdl :
         /\ t = m_toMetaCon[h][w_i[h]] /\ w_i[h] \in 1..Len(m_toMetaCon[h])
         /\ w_pc[h] = "send" /\ w_frame[h] \in Nat
         /\ UNCHANGED outbox \/ Adds(t, FrameMsg(h, w_frame[h]))
  BY Forwarded DEF WorkerTarget
<1>2. CASE UNCHANGED outbox
  BY <1>2 DEF Delivered, FramesOf
<1>3. CASE Adds(t, FrameMsg(h, w_frame[h]))
  <2> DEFINE n == w_frame[h]
  <2>1. Delivered' = [Delivered EXCEPT ![t] = Append(@, <<h, n>>)]
    <3>1. PICK k \in Nat : k = n
      BY <1>1
    <3>2. TypeOK /\ Adds(t, FrameMsg(h, k))
      BY <1>3, <3>1, RelayTypes
    <3>3. Delivered' = [Delivered EXCEPT ![t] = Append(@, <<h, k>>)]
      BY <3>2, FrameDelivered
    <3> QED
      BY <3>1, <3>3
  <2>2. UriAlias[t] \in asked[h]
    <3>1. UriAlias[t] \in Alias /\ LinkedTo(h, UriAlias[t])
      BY <1>1, AliasAssumption DEF LinkedTo, m_alias
    <3> QED
      BY <3>1 DEF RelayInv, FlowInv, AskedInv
  <2>3. n \in 1..fed[h]
    <3>1. fed[h] \in Nat /\ n > 0 /\ n <= fed[h]
      BY <1>1, RelayTypes DEF RelayInv, FlowInv, PoolInv
    <3> QED
      BY <1>1, <3>1
  <2>4. \A i \in 1..Len(Delivered[t]) : Delivered[t][i][1] = h => Delivered[t][i][2] < n
    <3>1. outbox[t] \in Seq(Msg) /\ Delivered[t] = FrameList(outbox[t])
      BY RelayTypes DEF Delivered, FramesOf
    <3>2. Stems(outbox[t], Delivered[t])
      BY <3>1, FrameListFrom
    <3>3. ASSUME NEW i \in 1..Len(Delivered[t]), Delivered[t][i][1] = h
          PROVE  Delivered[t][i][2] < n
      <4>1. PICK j \in 1..Len(outbox[t]) :
               /\ outbox[t][j].kind = "frame"
               /\ Delivered[t][i] = <<outbox[t][j].src, outbox[t][j].n>>
        BY <3>2 DEF Stems
      <4>2. outbox[t][j].src = h /\ Delivered[t][i][2] = outbox[t][j].n
        BY <3>3, <4>1
      <4>3. Past(h, outbox[t][j].n, t)
        BY <4>1, <4>2 DEF RelayInv, FlowInv, SentInv
      <4>4. w_i[h] \in w_i[h]..Len(m_toMetaCon[h])
        BY <1>1, RelayTypes
      <4> QED
        BY <1>1, <4>2, <4>3, <4>4 DEF Past
    <3> QED
      BY <3>3
  <2>5. Frames!PassOn(h, t)
    <3> HIDE DEF n
    <3> QED
      BY <2>1, <2>2, <2>3, <2>4 DEF Frames!PassOn, Frames!Fresh, Delivered
  <2> QED
    BY <2>5 DEF Frames!Next
<1> QED
  BY <1>1, <1>2, <1>3

(* Every step is one of Relay, or leaves its variables as they are.          *)
LEMMA FramesStep ==
  ASSUME RelayInv, [Next]_vars
  PROVE  [Frames!Next]_<<asked, fed, Delivered>>
<1>s. ASSUME NoticeOnly, UNCHANGED <<fed, asked>> PROVE [Frames!Next]_<<asked, fed, Delivered>>
  BY <1>s, RelayTypes, NoticeFrames
<1>1. CASE Outside
  <2>1. UNCHANGED outbox
    BY <1>1 DEF Outside, OnOpen, OnFrame, OnPeerClose, OnClose, OnText, tvars
  <2>2. UNCHANGED Delivered
    BY <2>1 DEF Delivered, FramesOf
  <2>3. ASSUME NEW h \in Hdl, OnFrame(h) PROVE Frames!Produce(h)
    BY <2>2, <2>3 DEF OnFrame, Frames!Produce, Delivered
  <2>4. ASSUME NEW h \in Hdl, NEW text \in Texts[h], OnText(h, text) PROVE Frames!Ask(h)
    <3>1. asked' = [asked EXCEPT ![h] = @ \cup ToSet(text.names)] /\ UNCHANGED fed
      BY <2>4 DEF OnText
    <3>2. text.names \in Seq(Alias)
      BY TextsAssumption DEF Text
    <3>3. ToSet(text.names) \in SUBSET Alias
      BY <3>2, NamesOf
    <3> QED
      BY <2>2, <3>1, <3>3 DEF Frames!Ask, Delivered
  <2>5. ASSUME NEW h \in Hdl, OnOpen(h) \/ OnPeerClose(h) \/ OnClose(h)
        PROVE  UNCHANGED <<asked, fed>>
    BY <2>5 DEF OnOpen, OnPeerClose, OnClose, clients
  <2> QED
    BY <1>1, <2>2, <2>3, <2>4, <2>5 DEF Outside, Frames!Next
<1>2. CASE Handle
  BY <1>2, <1>s, HandleTells DEF HandlerTells
<1>3. CASE Maintain /\ UNCHANGED <<nvars, clients>>
  BY <1>3, <1>s, MaintainTells DEF NoticeOnly, clients
<1>4. ASSUME NEW h \in Hdl, Worker(h), UNCHANGED <<controlvars, nvars, clients>>
      PROVE  [Frames!Next]_<<asked, fed, Delivered>>
  <2>1. UNCHANGED <<fed, asked>>
    BY <1>4 DEF clients
  <2>2. CASE SentBinary(h)
    BY <2>1, <2>2, PassesOn
  <2>3. CASE getFrame(h) \/ ForwardFrame(h) \/ WorkerIdles
    <3>1. UNCHANGED outbox
      BY <2>3 DEF getFrame, ForwardFrame, WorkerIdles, tvars
    <3> QED
      BY <1>s, <2>1, <3>1 DEF NoticeOnly
  <2> QED
    BY <1>4, <2>2, <2>3, WorkerTells
<1>5. CASE UNCHANGED vars
  BY <1>5, <1>s DEF vars, NoticeOnly, tvars, clients
<1> QED
  BY <1>1, <1>2, <1>3, <1>4, <1>5 DEF Next, Threads

(* Frames travel as Relay allows, whatever the threads, the connections and  *)
(* the maintenance do, as long as no client asks for a name a second time: a *)
(* client receives, of another, only frames its name was asked for, in the   *)
(* order they were sent, and each at most once.                              *)
THEOREM FramesRelayed == Spec /\ AsksOnce => RelaySpec
<1>1. RelayInv /\ [Next]_vars /\ [OnceAsked]_vars => RelayInv'
  <2> SUFFICES ASSUME RelayInv, [Next]_vars, [OnceAsked]_vars PROVE RelayInv'
    OBVIOUS
  <2>1. UNCHANGED vars => OnceAsked
    BY DEF vars, clients, OnceAsked
  <2> QED
    BY <2>1, RelayKeeps
<1>2. RelayInv /\ [Next]_vars => [Frames!Next]_<<asked, fed, Delivered>>
  BY FramesStep
<1>3. AsksOnce => [][OnceAsked]_vars
  BY PTL DEF AsksOnce, OnceAsked
<1> QED
  BY <1>1, <1>2, <1>3, RelayInit, FramesInit, PTL DEF Spec, RelaySpec, Frames!Spec, Delivered

-----------------------------------------------------------------------------
(* A client that has sent no command has asked for nothing.                  *)
FirstInv ==
    /\ cmds \in [Hdl -> Nat]
    /\ \A h \in Hdl : cmds[h] = 0 => asked[h] = {}

(* Only a client's own command counts for it, and asks for names.            *)
LEMMA Commands ==
  ASSUME [Next]_vars
  PROVE  \/ UNCHANGED <<cmds, asked>>
         \/ \E h \in Hdl : \E text \in Texts[h] : OnText(h, text)
<1>1. CASE Outside
  BY <1>1 DEF Outside, OnOpen, OnFrame, OnPeerClose, OnClose, clients
<1>2. CASE Handle
  BY <1>2 DEF Handle, OpenClear, OpenDestroy, OpenCleared, OpenAdd, OpenGreet, OpenCheck, CmdQuery,
              CmdMethod, CmdNext, CmdLink, CmdNeed, CmdNamed, CmdReply, FeedQuery, FeedPush,
              FeedWarn, FeedRelocks, CloseQuery, CloseSet, clients
<1> QED
  BY <1>1, <1>2 DEF Next, Threads, vars, clients

(* Where each client sends one command a connection, as all the clients here *)
(* do, and that has no name twice, frames travel as Relay allows.            *)
THEOREM OneCommandRelayed ==
  ASSUME MaxCmds <= 1, \A h \in Hdl : \A text \in Texts[h] : IsInjective(text.names)
  PROVE  Spec => RelaySpec
<1>1. Init => FirstInv
  BY DEF Init, FirstInv
<1>2. FirstInv /\ [Next]_vars => FirstInv'
  <2> SUFFICES ASSUME FirstInv, NEW h \in Hdl, NEW text \in Texts[h], OnText(h, text)
               PROVE  FirstInv'
    BY Commands DEF FirstInv
  <2> QED
    BY DEF FirstInv, OnText
<1>3. FirstInv /\ [Next]_vars => [OnceAsked]_vars
  <2> SUFFICES ASSUME FirstInv, NEW h \in Hdl, NEW text \in Texts[h], OnText(h, text)
               PROVE  OnceAsked
    BY Commands DEF OnceAsked
  <2>1. /\ cmds[h] = 0 /\ n_rest' = RequestedNames(text)
        /\ \A g \in Hdl \ {h} : cmds'[g] = cmds[g]
    BY BoundAssumption DEF FirstInv, OnText
  <2>2. asked[h] = {}
    BY <2>1 DEF FirstInv
  <2>3. IsInjective(n_rest')
    <3>1. n_rest' = text.names \/ n_rest' = <<>>
      BY <2>1 DEF RequestedNames
    <3>2. IsInjective(<<>>)
      BY DEF IsInjective
    <3> QED
      BY <3>1, <3>2
  <2> QED
    BY <2>1, <2>2, <2>3 DEF OnceAsked
<1>4. [][OnceAsked]_vars => AsksOnce
  BY PTL DEF AsksOnce, OnceAsked
<1> QED
  BY <1>1, <1>2, <1>3, <1>4, FramesRelayed, PTL DEF Spec

=============================================================================
