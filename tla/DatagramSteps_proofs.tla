------------------------ MODULE DatagramSteps_proofs ------------------------
(***************************************************************************)
(* Every step of Datagram keeps ServiceInv and is a step of                *)
(* ReliableTransfer, or none at all. The other invariants are assumptions  *)
(* here; Datagram_proofs puts the parts together.                          *)
(***************************************************************************)
EXTENDS DatagramFrames_proofs

\* A frame before and after a step: it keeps its messages, or it has a number
\* that the peer has not received.
SameBusy(n, s) ==
  LET f == m_freeFrames[n][s]
      g == m_freeFrames'[n][s]
  IN /\ Alike(g, f)
     /\ ~ g.is_free => /\ ~ f.is_free
                       /\ g.transaction = f.transaction /\ g.msg_start = f.msg_start

Unheard(n, s) ==
  LET g == m_freeFrames'[n][s]
  IN /\ g.seq \notin received'[Peer[n]]
     /\ \A p \in net' : p.src = n /\ p.seq = g.seq => p.msg_count = 0
     /\ g.msg_count # 0 => g.iov = g.transaction /\ g.first = g.msg_start + 1

\* The headers of node n after a step acknowledge what they did before.
SameAcks(n) ==
  \A h \in Headers(n)' : \E c \in Headers(n) : h.ACKStart = c.ACKStart /\ h.ACKCount = c.ACKCount

LEMMA PostSlotType ==
  ASSUME TypeInv, NEW n \in Node
  PROVE  app[n].slot \in Slots /\ m_freeFrames[n][app[n].slot] \in Frame
BY DEF TypeInv, TypeOK, AppState

\* A step of the sender.
LEMMA SenderLink ==
  ASSUME TypeInv, OnceInv, TypeInv', OnceInv', SameLoad, BusyLoad,
         UNCHANGED <<received, rx, copied, flag>>,
         \A n \in Node : \A s \in Slots : SameBusy(n, s) \/ Unheard(n, s),
         \A p \in net' : \/ p \in net \/ p.msg_count = 0
                         \/ \E s \in Slots : Alike(p, m_freeFrames[p.src][s]),
         \A n \in Node : rx[n] = NoMsg \/ SameAcks(n)
  PROVE  SameLoad' /\ BusyLoad'
<1>1. received' = received /\ rx' = rx /\ copied' = copied /\ flag' = flag
  BY Zenon
<1>2. \A p \in net' : p.src \in Node
  BY Zenon DEF TypeInv, TypeOK, Packet
<1>3. SameLoad'
  <2> SUFFICES ASSUME NEW p \in net', NEW s \in Slots, p.msg_count # 0,
                      m_freeFrames'[p.src][s].seq = p.seq
               PROVE  Alike(p, m_freeFrames'[p.src][s])
    BY Zenon DEF SameLoad, Alike
  <2> DEFINE f == m_freeFrames[p.src][s]
             g == m_freeFrames'[p.src][s]
  <2>1. p.src \in Node /\ ~ Unheard(p.src, s)
    BY Zenon, <1>2 DEF Unheard
  <2>2. Alike(g, f)
    BY Zenon, <2>1 DEF SameBusy
  <2>3. f.seq = p.seq
    BY Zenon, <2>2 DEF Alike
  <2>4. Alike(p, f)
    <3>1. CASE p \in net
      BY Zenon, <2>3, <3>1 DEF SameLoad
    <3>2. CASE \E r \in Slots : Alike(p, m_freeFrames[p.src][r])
      <4>1. PICK r \in Slots : Alike(p, m_freeFrames[p.src][r])
        BY Zenon, <3>2
      <4> DEFINE e == m_freeFrames[p.src][r]
      <4>2. e.seq = p.seq /\ e.msg_count # 0
        BY Zenon, <4>1 DEF Alike
      <4>3. e.seq # 0 /\ Slot(e.seq) = r
        BY Zenon, <2>1, <4>2 DEF OnceInv, RingFit
      <4>4. Slot(f.seq) = s
        BY Zenon, <2>1, <2>3, <4>2, <4>3 DEF OnceInv, RingFit
      <4>5. r = s
        BY Zenon, <2>3, <4>2, <4>3, <4>4
      <4>6. QED
        BY Zenon, <4>1, <4>5
    <3>3. QED
      BY Zenon, <3>1, <3>2
  <2>5. QED
    BY Zenon, <2>2, <2>4 DEF Alike
<1>4. BusyLoad'
  <2> SUFFICES ASSUME NEW n \in Node, NEW s \in Slots, NEW g, g = m_freeFrames'[n][s], ~ g.is_free
      PROVE /\ g.msg_count # 0 => g.iov = g.transaction /\ g.first = g.msg_start + 1
            /\ g.seq \in received'[Peer[n]] => \A i \in Loads(g) : ~ Fresh(n, g.iov, i)'
            /\ Hearing(n, g)' => \A h \in Headers(Peer[n])' : g.seq \notin AckRange(h)
    BY Zenon DEF BusyLoad, Loads, Fresh, Done, Reading, NoMsg, NumMsgs, msgCount, AckRange, Hearing
  <2> DEFINE f == m_freeFrames[n][s]
  <2>1. \A k, i : Fresh(n, k, i)' <=> Fresh(n, k, i)
    BY Zenon, <1>1 DEF Fresh, Done, Reading, NoMsg, NumMsgs, msgCount
  <2>2. CASE Unheard(n, s)
    <3>1. g.seq \notin received'[Peer[n]]
      BY Zenon, <2>2 DEF Unheard
    <3>2. g \in Sent(n)'
      BY Zenon DEF Sent
    <3>3. Fit(n, g)'
      BY Zenon, <3>2 DEF OnceInv, Carried
    <3>4. \A i \in Loads(g) : Fresh(n, g.iov, i)'
      BY Zenon, <3>1, <3>3 DEF Fit, Loads, Fresh, Done, Reading, NoMsg, NumMsgs, msgCount
    <3>5. ~ Hearing(n, g)'
      BY Zenon, <3>4 DEF Hearing, Loads, Fresh, Reading, NoMsg
    <3>6. QED
      BY Zenon, <2>2, <3>1, <3>5 DEF Unheard
  <2>3. CASE SameBusy(n, s)
    <3>1. /\ ~ f.is_free /\ g.transaction = f.transaction /\ g.msg_start = f.msg_start
          /\ g.seq = f.seq /\ g.iov = f.iov /\ g.first = f.first /\ g.msg_count = f.msg_count
      BY Zenon, <2>3 DEF SameBusy, Alike
    <3>2. /\ f.msg_count # 0 => f.iov = f.transaction /\ f.first = f.msg_start + 1
          /\ f.seq \in received[Peer[n]] => \A i \in Loads(f) : ~ Fresh(n, f.iov, i)
          /\ Hearing(n, f) => \A h \in Headers(Peer[n]) : f.seq \notin AckRange(h)
      BY Zenon, <3>1 DEF BusyLoad
    <3> HIDE DEF f
    <3>3. Loads(g) = Loads(f)
      BY Zenon, <3>1 DEF Loads
    <3>4. \A i \in Loads(g) : g.seq \in received'[Peer[n]] => ~ Fresh(n, g.iov, i)'
      BY Zenon, <1>1, <2>1, <3>1, <3>2, <3>3
    <3>5. ASSUME Hearing(n, g)', NEW h \in Headers(Peer[n])' PROVE g.seq \notin AckRange(h)
      <4>1. Hearing(n, f) /\ rx[Peer[n]] # NoMsg
        BY Zenon, <1>1, <3>1, <3>5 DEF Hearing, Loads, Reading, NoMsg
      <4>2. Peer[n] \in Node
        BY Zenon, PeerFacts
      <4>3. PICK c \in Headers(Peer[n]) : h.ACKStart = c.ACKStart /\ h.ACKCount = c.ACKCount
        BY Zenon, <4>1, <4>2 DEF SameAcks
      <4>4. QED
        BY Zenon, <3>1, <3>2, <4>1, <4>3 DEF AckRange
    <3>6. QED
      BY Zenon, <3>1, <3>2, <3>4, <3>5
  <2>4. QED
    BY Zenon, <2>2, <2>3
<1>5. QED
  BY Zenon, <1>3, <1>4

\* Frames stay where they are and datagrams are only taken away.
LEMMA DropLink ==
  ASSUME TypeInv, OnceInv, TypeInv', OnceInv', SameLoad, BusyLoad, net' \subseteq net,
         UNCHANGED <<m_freeFrames, received, rx, copied, flag>>
  PROVE  SameLoad' /\ BusyLoad'
<1>1. \A n \in Node : \A s \in Slots : SameBusy(n, s)
  BY Zenon DEF SameBusy, Alike
<1>2. \A n \in Node : SameAcks(n)
  <2>1. \A n \in Node : \A h \in Headers(n)' : h \in Headers(n)
    BY Zenon DEF Headers
  <2>2. QED
    BY Zenon, <2>1 DEF SameAcks
<1>3. QED
  BY Zenon, <1>1, <1>2, SenderLink

\* A busy frame is sent.
LEMMA SendLink ==
  ASSUME TypeInv, OnceInv, TypeInv', OnceInv', SameLoad, BusyLoad,
         NEW n \in Node, NEW s \in Slots, NEW g, NEW c, ~ m_freeFrames[n][s].is_free,
         Alike(g, m_freeFrames[n][s]),
         ~ g.is_free => /\ g.transaction = m_freeFrames[n][s].transaction
                        /\ g.msg_start = m_freeFrames[n][s].msg_start,
         g.ACKStart = m_freeFrames[n][s].ACKStart, g.ACKCount = m_freeFrames[n][s].ACKCount,
         m_freeFrames' = [m_freeFrames EXCEPT ![n][s] = g],
         net' = net \cup {PacketOf(n, m_freeFrames[n][s], c)},
         UNCHANGED <<received, rx, copied, flag>>
  PROVE  SameLoad' /\ BusyLoad'
<1> DEFINE f == m_freeFrames[n][s]
           q == PacketOf(n, f, c)
<1>1. /\ q.src = n /\ Alike(q, f) /\ q.ACKStart = f.ACKStart /\ q.ACKCount = f.ACKCount
      /\ f \in Headers(n)
  BY Zenon DEF PacketOf, Alike, Headers
<1>2. m_freeFrames'[n][s] = g /\ \A o \in Node : \A r \in Slots :
        ~ (o = n /\ r = s) => m_freeFrames'[o][r] = m_freeFrames[o][r]
  BY DEF TypeInv, TypeOK
<1>3. \A o \in Node : \A r \in Slots : SameBusy(o, r)
  <2> SUFFICES ASSUME NEW o \in Node, NEW r \in Slots PROVE SameBusy(o, r)
    BY Zenon
  <2>1. CASE o = n /\ r = s
    BY Zenon, <1>2, <2>1 DEF SameBusy
  <2>2. CASE ~ (o = n /\ r = s)
    BY Zenon, <1>2, <2>2 DEF SameBusy, Alike
  <2>3. QED
    BY Zenon, <2>1, <2>2
<1> HIDE DEF q
<1>4. \A p \in net' : p \in net \/ p = q
  BY Zenon DEF q
<1>5. \A p \in net' : p \in net \/ \E r \in Slots : Alike(p, m_freeFrames[p.src][r])
  BY Zenon, <1>1, <1>4
<1>6. \A o \in Node : SameAcks(o)
  <2> SUFFICES ASSUME NEW o \in Node, NEW h \in Headers(o)'
               PROVE  \E d \in Headers(o) : h.ACKStart = d.ACKStart /\ h.ACKCount = d.ACKCount
    BY Zenon DEF SameAcks
  <2>1. CASE h \in net' /\ h.src = o
    <3>1. CASE h \in net
      <4>1. h \in Headers(o)
        BY Zenon, <2>1, <3>1 DEF Headers
      <4>2. QED
        BY Zenon, <4>1
    <3>2. CASE h = q
      BY Zenon, <1>1, <2>1, <3>2
    <3>3. QED
      BY Zenon, <1>4, <2>1, <3>1, <3>2
  <2>2. CASE \E r \in Slots : ~ m_freeFrames'[o][r].is_free /\ h = m_freeFrames'[o][r]
    <3>1. PICK r \in Slots : ~ m_freeFrames'[o][r].is_free /\ h = m_freeFrames'[o][r]
      BY Zenon, <2>2
    <3>2. CASE o = n /\ r = s
      <4>1. h = g
        BY Zenon, <1>2, <3>1, <3>2
      <4>2. QED
        BY Zenon, <1>1, <3>2, <4>1
    <3>3. CASE ~ (o = n /\ r = s)
      <4>1. h = m_freeFrames[o][r] /\ h \in Headers(o)
        BY Zenon, <1>2, <3>1, <3>3 DEF Headers
      <4>2. QED
        BY Zenon, <4>1
    <3>4. QED
      BY Zenon, <3>2, <3>3
  <2>3. QED
    BY Zenon, <2>1, <2>2 DEF Headers
<1>7. QED
  BY Zenon, <1>3, <1>5, <1>6, SenderLink

LEMMA PostFrameLink ==
  ASSUME TypeInv, OnceInv, AckInv, TypeInv', OnceInv', SameLoad, BusyLoad,
         NEW n \in Node, PostFrame(n)
  PROVE  SameLoad' /\ BusyLoad'
<1> DEFINE s == app[n].slot
           f == m_freeFrames[n][s]
           g == [f EXCEPT !.send_time = "set", !.sends = @ + 1]
<1>1. /\ app[n].phase = "filled" /\ m_freeFrames' = [m_freeFrames EXCEPT ![n][s] = g]
      /\ net' = net \cup {PacketOf(n, f, f.sends + 1)}
      /\ UNCHANGED <<received, rx, copied, flag>>
  BY Zenon DEF PostFrame
<1>2. s \in Slots /\ f \in Frame
  BY Zenon, PostSlotType
<1>3. /\ Alike(g, f) /\ g.transaction = f.transaction /\ g.msg_start = f.msg_start
      /\ g.ACKStart = f.ACKStart /\ g.ACKCount = f.ACKCount
  BY Zenon, <1>2 DEF Alike, Frame
<1>4. ~ f.is_free
  BY Zenon, <1>1, <1>2 DEF AckInv, PostHolds, HeldByPost
<1> HIDE DEF g, s
<1>5. QED
  BY Zenon, <1>1, <1>2, <1>3, <1>4, SendLink

LEMMA CheckAcksLink ==
  ASSUME TypeInv, OnceInv, TypeInv', OnceInv', SameLoad, BusyLoad, NEW n \in Node, CheckAcks(n)
  PROVE  SameLoad' /\ BusyLoad'
<1> DEFINE G(f) == IF f.msg_count = 0
                   THEN [f EXCEPT !.send_time = "set", !.sends = @ + 1,
                                  !.is_free = TRUE, !.transaction = 0]
                   ELSE [f EXCEPT !.send_time = "set", !.sends = @ + 1]
<1>1. PICK s \in Slots :
        LET f == m_freeFrames[n][s]
        IN /\ ~ f.is_free /\ net' = net \cup {PacketOf(n, f, f.sends + 1)}
           /\ m_freeFrames' = [m_freeFrames EXCEPT ![n][s] = G(f)]
  BY Zenon DEF CheckAcks
<1> DEFINE f == m_freeFrames[n][s]
<1>2. f \in Frame
  BY DEF TypeInv, TypeOK
<1>3. ASSUME NEW e \in Frame
      PROVE /\ Alike(G(e), e) /\ G(e).ACKStart = e.ACKStart /\ G(e).ACKCount = e.ACKCount
            /\ ~ G(e).is_free => G(e).transaction = e.transaction /\ G(e).msg_start = e.msg_start
  <2>1. CASE e.msg_count = 0
    <3> DEFINE b == [e EXCEPT !.send_time = "set", !.sends = @ + 1, !.is_free = TRUE,
                              !.transaction = 0]
    <3>1. Alike(b, e) /\ b.ACKStart = e.ACKStart /\ b.ACKCount = e.ACKCount /\ b.is_free
      BY Zenon DEF Alike, Frame
    <3>2. QED
      BY Zenon, <2>1, <3>1
  <2>2. CASE e.msg_count # 0
    <3> DEFINE b == [e EXCEPT !.send_time = "set", !.sends = @ + 1]
    <3>1. /\ Alike(b, e) /\ b.ACKStart = e.ACKStart /\ b.ACKCount = e.ACKCount
          /\ b.transaction = e.transaction /\ b.msg_start = e.msg_start
      BY Zenon DEF Alike, Frame
    <3>2. QED
      BY Zenon, <2>2, <3>1
  <2>3. QED
    BY Zenon, <2>1, <2>2
<1>4. UNCHANGED <<received, rx, copied, flag>>
  BY Zenon DEF CheckAcks
<1> HIDE DEF G
<1>5. /\ Alike(G(f), f) /\ G(f).ACKStart = f.ACKStart /\ G(f).ACKCount = f.ACKCount
      /\ ~ G(f).is_free => G(f).transaction = f.transaction /\ G(f).msg_start = f.msg_start
  BY Zenon, <1>2, <1>3
<1>6. /\ ~ f.is_free /\ net' = net \cup {PacketOf(n, f, f.sends + 1)}
      /\ m_freeFrames' = [m_freeFrames EXCEPT ![n][s] = G(f)]
  BY Zenon, <1>1
<1>7. QED
  BY Zenon, <1>4, <1>5, <1>6, SendLink

\* getFrame and sendAcks: the socket thread is not in the middle of a frame,
\* and the new frame has no messages yet.
LEMMA ClaimLink ==
  ASSUME TypeInv, OnceInv, TypeInv', OnceInv', SameLoad, BusyLoad,
         NEW n \in Node, NEW x \in Slots, NEW g, g.msg_count = 0, Unlocked(n),
         m_freeFrames' = [m_freeFrames EXCEPT ![n][x] = g],
         \A p \in net' : p \in net \/ (p.src = n /\ p.msg_count = 0),
         UNCHANGED <<received, rx, copied, flag>>
  PROVE  SameLoad' /\ BusyLoad'
<1>1. m_freeFrames'[n][x] = g /\ \A o \in Node : \A r \in Slots :
        ~ (o = n /\ r = x) => m_freeFrames'[o][r] = m_freeFrames[o][r]
  BY DEF TypeInv, TypeOK
<1>2. Unheard(n, x)
  <2>1. /\ g.seq \notin received'[Peer[n]]
        /\ \A c \in Sent(n)' : c.seq = g.seq => c.msg_count = 0
    <3>1. RingFit'
      BY Zenon DEF OnceInv
    <3>2. LET e == m_freeFrames'[n][x] IN
            e.msg_count = 0 => /\ e.seq \notin received'[Peer[n]]
                               /\ \A c \in Sent(n)' : c.seq = e.seq => c.msg_count = 0
      BY Zenon, <3>1 DEF RingFit
    <3>3. QED
      BY Zenon, <1>1, <3>2
  <2>2. \A p \in net' : p.src = n /\ p.seq = g.seq => p.msg_count = 0
    BY Zenon, <2>1 DEF Sent
  <2>3. QED
    BY Zenon, <1>1, <2>1, <2>2 DEF Unheard
<1>3. \A o \in Node : \A r \in Slots : ~ (o = n /\ r = x) => SameBusy(o, r)
  BY Zenon, <1>1 DEF SameBusy, Alike
<1>4. ASSUME NEW o \in Node, o # n PROVE SameAcks(o)
  <2>1. ASSUME NEW h \in Headers(o)' PROVE h \in Headers(o)
    <3>1. CASE h \in net' /\ h.src = o
      BY Zenon, <1>4, <3>1 DEF Headers
    <3>2. CASE \E r \in Slots : ~ m_freeFrames'[o][r].is_free /\ h = m_freeFrames'[o][r]
      <4>1. PICK r \in Slots : ~ m_freeFrames'[o][r].is_free /\ h = m_freeFrames'[o][r]
        BY Zenon, <3>2
      <4>2. m_freeFrames'[o][r] = m_freeFrames[o][r]
        BY Zenon, <1>1, <1>4
      <4>3. QED
        BY Zenon, <4>1, <4>2 DEF Headers
    <3>3. QED
      BY Zenon, <2>1, <3>1, <3>2 DEF Headers
  <2>2. QED
    BY Zenon, <2>1 DEF SameAcks
<1>5. rx[n] = NoMsg
  BY Zenon DEF Unlocked
<1>6. QED
  BY Zenon, <1>2, <1>3, <1>4, <1>5, SenderLink

LEMMA GetFrameLink ==
  ASSUME TypeInv, OnceInv, TypeInv', OnceInv', SameLoad, BusyLoad,
         NEW n \in Node, GetFrame(n), ~ WindowAbort(n)
  PROVE  SameLoad' /\ BusyLoad'
<1> DEFINE f == m_frameSeq[n]
           x == Slot(f)
           g == [NewFrame(n, f) EXCEPT !.transaction = app[n].k, !.msg_start = app[n].msg]
<1>1. /\ m_freeFrames' = [m_freeFrames EXCEPT ![n][x] = g] /\ net' = Alive(n, f)
      /\ Unlocked(n) /\ UNCHANGED <<received, rx, copied, flag>>
  BY Zenon DEF GetFrame
<1>2. g.msg_count = 0
  BY Zenon DEF NewFrame, FreeFrame
<1>3. x \in Slots
  BY Zenon, SlotType DEF TypeInv, TypeOK
<1>4. \A p \in net' : p \in net
  BY Zenon, <1>1 DEF Alive
<1> HIDE DEF g, x
<1>5. QED
  BY Zenon, <1>1, <1>2, <1>3, <1>4, ClaimLink

LEMMA SendAcksLink ==
  ASSUME TypeInv, OnceInv, TypeInv', OnceInv', SameLoad, BusyLoad,
         NEW n \in Node, SendAcks(n), ~ WindowAbort(n)
  PROVE  SameLoad' /\ BusyLoad'
<1> DEFINE f == m_frameSeq[n]
           x == Slot(f)
           g == [NewFrame(n, f) EXCEPT !.is_free = TRUE, !.send_time = "set"]
           q == PacketOf(n, NewFrame(n, f), 1)
<1>1. /\ m_freeFrames' = [m_freeFrames EXCEPT ![n][x] = g] /\ net' = Alive(n, f) \cup {q}
      /\ Unlocked(n) /\ UNCHANGED <<received, rx, copied, flag>>
  BY Zenon DEF SendAcks
<1>2. g.msg_count = 0
  BY Zenon DEF NewFrame, FreeFrame
<1>3. x \in Slots
  BY Zenon, SlotType DEF TypeInv, TypeOK
<1>4. q.src = n /\ q.msg_count = 0
  BY Zenon DEF PacketOf, NewFrame, FreeFrame
<1> HIDE DEF g, x, q
<1>5. \A p \in net' : p \in net \/ (p.src = n /\ p.msg_count = 0)
  BY Zenon, <1>1, <1>4 DEF Alive
<1>6. QED
  BY Zenon, <1>1, <1>2, <1>3, <1>5, ClaimLink

LEMMA FillFrameLink ==
  ASSUME TypeInv, OnceInv, CountInv, AckInv, TypeInv', OnceInv', SameLoad, BusyLoad,
         NEW n \in Node, FillFrame(n)
  PROVE  SameLoad' /\ BusyLoad'
<1> DEFINE s == app[n].slot
           f == m_freeFrames[n][s]
           k == app[n].k
<1>1. PICK c : m_freeFrames' = [m_freeFrames EXCEPT ![n][s] =
                 [f EXCEPT !.msg_count = c, !.iov = k, !.first = app[n].msg + 1]]
  BY Zenon DEF FillFrame
<1>2. /\ net' = net /\ UNCHANGED <<received, rx, copied, flag>> /\ app[n].phase = "got"
  BY Zenon DEF FillFrame
<1>3. s \in Slots /\ f \in Frame
  BY Zenon, PostSlotType
<1> DEFINE g == [f EXCEPT !.msg_count = c, !.iov = k, !.first = app[n].msg + 1]
<1>4. /\ g.seq = f.seq /\ g.iov = k /\ g.first = app[n].msg + 1 /\ g.transaction = f.transaction
      /\ g.msg_start = f.msg_start /\ g.ACKStart = f.ACKStart /\ g.ACKCount = f.ACKCount
      /\ g.is_free = f.is_free
  BY Zenon, <1>3 DEF Frame
<1>5. f.msg_count = 0 /\ ~ f.is_free /\ f.transaction = k /\ f.msg_start = app[n].msg
  <2>1. ~ f.is_free
    BY Zenon, <1>2, <1>3 DEF AckInv, PostHolds, HeldByPost
  <2>2. QED
    BY Zenon, <1>2, <2>1 DEF CountInv, HeldFrame
<1>6. /\ f.seq \notin received[Peer[n]]
      /\ \A p \in net : p.src = n /\ p.seq = f.seq => p.msg_count = 0
  <2>1. /\ f.seq \notin received[Peer[n]]
        /\ \A h \in Sent(n) : h.seq = f.seq => h.msg_count = 0
    BY Zenon, <1>3, <1>5 DEF OnceInv, RingFit
  <2>2. \A p \in net : p.src = n => p \in Sent(n)
    BY Zenon DEF Sent
  <2>3. QED
    BY Zenon, <2>1, <2>2
<1> HIDE DEF g
<1>7. m_freeFrames' = [m_freeFrames EXCEPT ![n][s] = g]
  BY Zenon, <1>1 DEF g
<1> HIDE DEF s
<1>8. m_freeFrames'[n][s] = g /\ \A o \in Node : \A r \in Slots :
        ~ (o = n /\ r = s) => m_freeFrames'[o][r] = m_freeFrames[o][r]
  BY <1>3, <1>7 DEF TypeInv, TypeOK
<1>9. Unheard(n, s)
  BY Zenon, <1>2, <1>4, <1>5, <1>6, <1>8 DEF Unheard
<1>10. \A o \in Node : \A r \in Slots : ~ (o = n /\ r = s) => SameBusy(o, r)
  BY Zenon, <1>8 DEF SameBusy, Alike
<1>11. \A o \in Node : SameAcks(o)
  <2> SUFFICES ASSUME NEW o \in Node, NEW h \in Headers(o)'
               PROVE  \E d \in Headers(o) : h.ACKStart = d.ACKStart /\ h.ACKCount = d.ACKCount
    BY Zenon DEF SameAcks
  <2>1. CASE h \in Headers(o)
    BY Zenon, <2>1
  <2>2. CASE o = n /\ h = g
    <3>1. f \in Headers(n)
      BY Zenon, <1>3, <1>5 DEF Headers
    <3>2. QED
      BY Zenon, <1>4, <2>2, <3>1
  <2>3. QED
    BY Zenon, <1>2, <1>8, <2>1, <2>2 DEF Headers
<1>12. QED
  BY Zenon, <1>2, <1>9, <1>10, <1>11, SenderLink

\* releaseFrame: what is still busy has not changed.
LEMMA StillBusy ==
  ASSUME TypeInv, NEW m \in Node, NEW S, ReleaseFrames(m, S)
  PROVE  /\ \A o \in Node : \A s \in Slots :
              ~ m_freeFrames'[o][s].is_free => m_freeFrames'[o][s] = m_freeFrames[o][s]
         /\ \A o \in Node : \A s \in Slots : Alike(m_freeFrames'[o][s], m_freeFrames[o][s])
<1> DEFINE R(f) == [f EXCEPT !.is_free = TRUE, !.transaction = 0]
           F == [s \in Slots |-> IF s \in S THEN R(m_freeFrames[m][s]) ELSE m_freeFrames[m][s]]
<1>1. m_freeFrames \in [Node -> [Slots -> Frame]]
  BY Zenon DEF TypeInv, TypeOK
<1>2. \A f \in Frame : R(f).is_free
  BY Zenon DEF Frame
<1>3. \A o \in Node : \A s \in Slots : m_freeFrames[o][s] \in Frame
  BY Zenon, <1>1
<1> HIDE DEF R
<1>4. m_freeFrames' = [m_freeFrames EXCEPT ![m] = F]
  BY Zenon DEF ReleaseFrames, R
<1>5. m_freeFrames'[m] = F /\ \A o \in Node \ {m} : m_freeFrames'[o] = m_freeFrames[o]
  BY Zenon, <1>1, <1>4
<1>6. \A s \in Slots : F[s] = R(m_freeFrames[m][s]) \/ F[s] = m_freeFrames[m][s]
  BY Zenon
<1> HIDE DEF F
<1>7. ASSUME NEW o \in Node, NEW s \in Slots, ~ m_freeFrames'[o][s].is_free
      PROVE  m_freeFrames'[o][s] = m_freeFrames[o][s]
  <2>1. CASE o = m
    BY Zenon, <1>2, <1>3, <1>5, <1>6, <1>7, <2>1
  <2>2. CASE o # m
    BY Zenon, <1>5, <2>2
  <2>3. QED
    BY Zenon, <2>1, <2>2
<1>8. QED
  BY Zenon, <1>7, ReleaseAlike

\* What the socket thread takes from a new frame.
LEMMA NewRead ==
  ASSUME TypeInv, OnceInv, NEW m \in Node, NEW p \in net, p.src = Peer[m],
         Unlocked(m), ProcessNew(m, p)
  PROVE  /\ \A o \in Node \ {m} : received'[o] = received[o] /\ rx'[o] = rx[o]
         /\ received[m] \subseteq received'[m] /\ Reading(m) = {}
         /\ \A e \in received'[m] : e \in received[m] \/ (e = p.seq /\ p.msg_count # 0)
         /\ p.msg_count = 0 => Reading(m)' = {}
         /\ p.msg_count # 0 => Reading(m)' = Loads(p) /\ rx'[m].k = p.iov
<1>1. received \in [Node -> SUBSET Nat] /\ rx \in [Node -> [k : TransNo, next : Nat, last : Nat]]
  BY Zenon DEF TypeInv, TypeOK
<1>2. rx[m] = NoMsg /\ Reading(m) = {}
  BY Zenon DEF Unlocked, Reading
<1>3. CASE p.msg_count = 0
  <2>1. rx' = rx /\ received' = received
    BY Zenon, <1>3 DEF ProcessNew
  <2>2. Reading(m)' = {}
    BY Zenon, <1>2, <2>1 DEF Reading, NoMsg
  <2>3. QED
    BY Zenon, <1>2, <1>3, <2>1, <2>2
<1>4. CASE p.msg_count # 0
  <2> DEFINE e == [k |-> p.iov, next |-> p.first, last |-> p.first + p.msg_count - 1]
  <2>1. /\ rx' = [rx EXCEPT ![m] = e]
        /\ received' = [received EXCEPT ![m] = received[m] \cup {p.seq}]
    BY Zenon, <1>4 DEF ProcessNew
  <2>2. e.k = p.iov /\ e.next = p.first /\ e.last = p.first + p.msg_count - 1
    BY Zenon
  <2> HIDE DEF e
  <2>3. /\ rx'[m] = e /\ received'[m] = received[m] \cup {p.seq}
        /\ \A o \in Node \ {m} : received'[o] = received[o] /\ rx'[o] = rx[o]
    BY Zenon, <1>1, <2>1
  <2>4. e # NoMsg
    <3>1. p \in Sent(Peer[m]) /\ Peer[m] \in Node
      BY Zenon, PeerFacts DEF Sent
    <3>2. p.iov \in 1 .. Len(Msgs[Peer[m]])
      BY Zenon, <1>4, <3>1 DEF OnceInv, Carried, Fit, Span
    <3>3. p.iov # 0
      BY <3>2
    <3>4. NoMsg.k = 0
      BY Zenon DEF NoMsg
    <3>5. QED
      BY Zenon, <2>2, <3>3, <3>4
  <2>5. Reading(m)' = Loads(p)
    BY Zenon, <2>2, <2>3, <2>4 DEF Reading, NoMsg, Loads
  <2>6. QED
    BY Zenon, <1>2, <1>4, <2>2, <2>3, <2>5
<1>5. QED
  BY Zenon, <1>3, <1>4

\* ProcessNew: the messages of the frame are before the socket thread, and no
\* header of the receiver acknowledges it yet.
LEMMA ProcessNewLink ==
  ASSUME TypeInv, OnceInv, AckInv, TypeInv', SameLoad, BusyLoad,
         NEW m \in Node, NEW p \in net, p.src = Peer[m], Unlocked(m), net' = net \ {p},
         ProcessNew(m, p), UNCHANGED <<copied, flag>>
  PROVE  SameLoad' /\ BusyLoad'
<1> DEFINE n == Peer[m]
<1>0. n \in Node /\ Peer[n] = m /\ \A o \in Node : Peer[o] \in Node /\ (Peer[o] = m => o = n)
  BY Zenon, PeerFacts
<1>1. /\ \A o \in Node \ {m} : received'[o] = received[o] /\ rx'[o] = rx[o]
      /\ received[m] \subseteq received'[m] /\ Reading(m) = {}
      /\ \A e \in received'[m] : e \in received[m] \/ (e = p.seq /\ p.msg_count # 0)
      /\ p.msg_count = 0 => Reading(m)' = {}
      /\ p.msg_count # 0 => Reading(m)' = Loads(p) /\ rx'[m].k = p.iov
  BY Zenon, NewRead
<1>2. /\ \A o \in Node : \A s \in Slots :
           ~ m_freeFrames'[o][s].is_free => m_freeFrames'[o][s] = m_freeFrames[o][s]
      /\ \A o \in Node : \A s \in Slots : Alike(m_freeFrames'[o][s], m_freeFrames[o][s])
  BY Zenon, StillBusy DEF ProcessNew
<1>3. p \in Sent(n) /\ p.seq \notin received[m]
  <2>1. p \in Sent(n)
    BY Zenon DEF Sent
  <2>2. Fit(n, p)
    BY Zenon, <1>0, <2>1 DEF OnceInv, Carried
  <2>3. m_frameSeqRecord[m][Slot(p.seq)].id # Wire(p.seq)
    BY Zenon DEF ProcessNew
  <2>4. QED
    BY Zenon, <1>0, <2>1, <2>2, <2>3 DEF Fit
<1>4. SameLoad'
  <2> SUFFICES ASSUME NEW q \in net', NEW s \in Slots, q.msg_count # 0,
                      m_freeFrames'[q.src][s].seq = q.seq
               PROVE  Alike(q, m_freeFrames'[q.src][s])
    BY Zenon DEF SameLoad, Alike
  <2>1. q \in net /\ q.src \in Node
    BY Zenon DEF TypeInv, TypeOK, Packet
  <2>2. m_freeFrames[q.src][s].seq = q.seq
    BY Zenon, <1>2, <2>1 DEF Alike
  <2>3. Alike(q, m_freeFrames[q.src][s])
    BY Zenon, <2>1, <2>2 DEF SameLoad
  <2>4. QED
    BY Zenon, <1>2, <2>1, <2>3 DEF Alike
<1>5. \A o \in Node : \A h \in Headers(o)' : h \in Headers(o)
  <2> SUFFICES ASSUME NEW o \in Node, NEW h \in Headers(o)' PROVE h \in Headers(o)
    BY Zenon
  <2>1. CASE h \in net' /\ h.src = o
    BY Zenon, <2>1 DEF Headers
  <2>2. CASE \E s \in Slots : ~ m_freeFrames'[o][s].is_free /\ h = m_freeFrames'[o][s]
    BY Zenon, <1>2, <2>2 DEF Headers
  <2>3. QED
    BY Zenon, <2>1, <2>2 DEF Headers
<1> HIDE DEF n
<1>6. BusyLoad'
  <2> SUFFICES ASSUME NEW o \in Node, NEW s \in Slots, NEW g, g = m_freeFrames'[o][s], ~ g.is_free
      PROVE /\ g.msg_count # 0 => g.iov = g.transaction /\ g.first = g.msg_start + 1
            /\ g.seq \in received'[Peer[o]] => \A i \in Loads(g) : ~ Fresh(o, g.iov, i)'
            /\ Hearing(o, g)' => \A h \in Headers(Peer[o])' : g.seq \notin AckRange(h)
    BY Zenon DEF BusyLoad, Loads, Fresh, Done, Reading, NoMsg, NumMsgs, msgCount, AckRange, Hearing
  <2>1. g = m_freeFrames[o][s] /\ g \in Sent(o)
    BY Zenon, <1>2 DEF Sent
  <2>2. /\ g.msg_count # 0 => g.iov = g.transaction /\ g.first = g.msg_start + 1
        /\ g.seq \in received[Peer[o]] => \A i \in Loads(g) : ~ Fresh(o, g.iov, i)
        /\ Hearing(o, g) => \A h \in Headers(Peer[o]) : g.seq \notin AckRange(h)
    BY Zenon, <2>1 DEF BusyLoad
  <2>3. \A i : Done(<<o, g.iov>>, i)' <=> Done(<<o, g.iov>>, i)
    BY Zenon DEF Done, NumMsgs, msgCount
  <2>4. CASE o # n
    <3>1. Peer[o] \in Node \ {m}
      BY Zenon, <1>0, <2>4
    <3>2. received'[Peer[o]] = received[Peer[o]] /\ rx'[Peer[o]] = rx[Peer[o]]
      BY Zenon, <1>1, <3>1
    <3>3. \A i : Fresh(o, g.iov, i)' <=> Fresh(o, g.iov, i)
      BY Zenon, <2>3, <3>2 DEF Fresh, Reading, NoMsg, Done, NumMsgs, msgCount
    <3>4. Hearing(o, g)' <=> Hearing(o, g)
      BY Zenon, <3>2 DEF Hearing, Reading, NoMsg, Loads
    <3>5. QED
      BY Zenon, <1>0, <1>5, <2>2, <3>2, <3>3, <3>4
  <2>5. CASE o = n
    <3>1. ASSUME g.seq \in received'[m], NEW i \in Loads(g) PROVE ~ Fresh(n, g.iov, i)'
      <4>1. CASE g.seq \in received[m]
        <5>1. ~ Fresh(n, g.iov, i) /\ ~ (i \in Reading(m))
          BY Zenon, <1>0, <1>1, <2>2, <2>5, <3>1, <4>1
        <5>2. Done(<<n, g.iov>>, i)
          BY Zenon, <1>0, <5>1 DEF Fresh
        <5>3. Done(<<n, g.iov>>, i)'
          BY Zenon, <5>2 DEF Done, NumMsgs, msgCount
        <5>4. QED
          BY Zenon, <5>3 DEF Fresh, Done, NumMsgs, msgCount
      <4>2. CASE g.seq \notin received[m]
        <5>1. g.seq = p.seq /\ p.msg_count # 0
          BY Zenon, <1>1, <3>1, <4>2
        <5>2. Alike(p, g)
          BY Zenon, <2>1, <2>5, <5>1 DEF SameLoad, n
        <5>3. rx'[m].k = g.iov /\ i \in Reading(m)'
          BY Zenon, <1>1, <3>1, <5>1, <5>2 DEF Alike, Loads
        <5>4. QED
          BY Zenon, <1>0, <5>3 DEF Fresh, Reading, NoMsg
      <4>3. QED
        BY Zenon, <4>1, <4>2
    <3>2. ASSUME Hearing(n, g)', NEW h \in Headers(m)' PROVE g.seq \notin AckRange(h)
      <4>1. PICK i \in Loads(g) : rx'[m].k = g.iov /\ i \in Reading(m)'
        BY Zenon, <1>0, <3>2 DEF Hearing, Reading, NoMsg, Loads
      <4>2. p.iov = g.iov /\ i \in Loads(p)
        BY Zenon, <1>1, <4>1
      <4>3. g.seq = p.seq
        BY Zenon, <1>0, <1>3, <2>1, <2>5, <4>1, <4>2 DEF OnceInv, OneNumber
      <4>4. AckRange(h) \subseteq received[m]
        <5>1. h \in Headers(m)
          BY Zenon, <1>5
        <5>2. QED
          BY Zenon, <5>1 DEF AckInv, AckRanges, Headers
      <4>5. QED
        BY Zenon, <1>3, <4>3, <4>4
    <3>3. Hearing(o, g)' => \A h \in Headers(Peer[o])' : g.seq \notin AckRange(h)
      BY Zenon, <1>0, <2>5, <3>2 DEF Hearing, Reading, NoMsg, Loads, Headers
    <3>4. g.seq \in received'[Peer[o]] => \A i \in Loads(g) : ~ Fresh(o, g.iov, i)'
      BY Zenon, <1>0, <2>5, <3>1 DEF Fresh, Reading, NoMsg, Done, NumMsgs, msgCount
    <3>5. QED
      BY Zenon, <2>2, <3>3, <3>4
  <2>6. QED
    BY Zenon, <2>4, <2>5
<1>7. QED
  BY Zenon, <1>4, <1>6

\* A header releases only frames whose messages were all handled.
LEMMA ReleasedDone ==
  ASSUME ConservativeTiming, TypeInv, OnceInv, AckInv, BusyLoad, AckedDone,
         NEW m \in Node, NEW p \in net, p.src = Peer[m], ProcessNew(m, p), UNCHANGED <<copied, flag>>
  PROVE  AckedDone'
<1> DEFINE S == Acked(m, p)
<1>1. ASSUME NEW t \in Transaction, NEW s \in FramesOf(m, S, t), NEW i \in MsgsIn(m_freeFrames[m][s])
      PROVE  Done(t, i)
  <2> DEFINE f == m_freeFrames[m][s]
  <2>1. /\ s \in Slots /\ ~ f.is_free /\ Covers(p, Wire(f.seq)) /\ t = <<m, f.transaction>>
    BY Zenon DEF FramesOf, Acked
  <2>2. NumberUsed(m, f.seq)
    BY Zenon, <2>1 DEF AckInv, NumbersUsed
  <2>3. f.seq \in AckRange(p)
    BY Zenon, <2>1, <2>2, WireIsNumber DEF Covers, AckRange
  <2>4. p \in Headers(Peer[m]) /\ f.seq \in received[Peer[m]]
    BY Zenon, <2>3 DEF Headers, AckInv, AckRanges
  <2>5. ~ Hearing(m, f)
    BY Zenon, <2>1, <2>3, <2>4 DEF BusyLoad
  <2>6. f \in Frame
    BY <2>1 DEF TypeInv, TypeOK
  <2>7. f.msg_start \in Nat /\ f.msg_count \in Nat
    BY Zenon, <2>6 DEF Frame
  <2> HIDE DEF f
  <2>8. i \in f.msg_start + 1 .. f.msg_start + f.msg_count
    BY Zenon DEF MsgsIn, f
  <2>9. f.msg_count # 0
    BY <2>7, <2>8
  <2>10. f.iov = f.transaction /\ f.first = f.msg_start + 1
    BY Zenon, <2>1, <2>9 DEF BusyLoad, f
  <2>11. i \in Loads(f)
    <3>1. f.msg_start + f.msg_count = (f.msg_start + 1) + f.msg_count - 1
      BY <2>7
    <3>2. QED
      BY Zenon, <2>8, <2>10, <3>1 DEF Loads
  <2>12. ~ Fresh(m, f.iov, i)
    BY Zenon, <2>1, <2>4, <2>11 DEF BusyLoad, f
  <2>13. QED
    BY Zenon, <2>1, <2>5, <2>10, <2>11, <2>12 DEF Fresh, Hearing
<1>2. ack' = [t \in Transaction |-> ack[t] \cup
        UNION {MsgsIn(m_freeFrames[m][s]) : s \in FramesOf(m, S, t)}]
  BY Zenon DEF ProcessNew, ReleaseFrames
<1> HIDE DEF S
<1>3. ASSUME NEW t \in Transaction, NEW i \in ack'[t] PROVE Done(t, i)
  <2>1. i \in ack[t] \/ \E s \in FramesOf(m, S, t) : i \in MsgsIn(m_freeFrames[m][s])
    BY Zenon, <1>2, <1>3
  <2>2. QED
    BY Zenon, <1>1, <2>1 DEF AckedDone
<1>4. QED
  BY Zenon, <1>3 DEF AckedDone, Done, NumMsgs, msgCount

\* A step that neither posts a transaction nor handles a message.
LEMMA AssembledKept ==
  ASSUME Assembled, UNCHANGED <<flag, copied, m_msgTransactionRecord>>,
         \A n \in Node : app'[n].k = app[n].k,
         \A t \in Transaction : ack[t] = 1 .. msgCount(t) => ack'[t] = 1 .. msgCount(t)
  PROVE  Assembled'
<1>1. \A t : DoneSet(t)' = DoneSet(t)
  BY Zenon DEF DoneSet, Done, NumMsgs, msgCount
<1>2. \A n \in Node : Record(n)' = Record(n)
  BY Zenon DEF Record
<1>3. ASSUME NEW n \in Node, NEW k \in 1 .. Len(Msgs[n]) PROVE Progress(n, k)'
  <2>1. Progress(n, k) /\ <<n, k>> \in Transaction
    BY Zenon, MsgCountType DEF Assembled
  <2>2. ack[<<n, k>>] = 1 .. msgCount(<<n, k>>) => ack'[<<n, k>>] = 1 .. msgCount(<<n, k>>)
    BY Zenon, <2>1
  <2>3. QED
    BY Zenon, <1>1, <1>2, <2>1, <2>2 DEF Progress, NumMsgs, msgCount
<1>4. QED
  BY Zenon, <1>2, <1>3 DEF Assembled

\* What is acknowledged in full was handled in full, and its flag is written.
LEMMA AckedFlag ==
  ASSUME AckedDone, Assembled, NEW n \in Node, NEW k \in 1 .. Len(Msgs[n]),
         k = app[n].k, ack[<<n, k>>] = 1 .. msgCount(<<n, k>>)
  PROVE  flag[<<n, k>>] /\ ~ Record(n).in_use
<1>1. <<n, k>> \in Transaction /\ msgCount(<<n, k>>) \in Nat \ {0}
  BY Zenon, MsgCountType
<1>2. DoneSet(<<n, k>>) = 1 .. msgCount(<<n, k>>)
  BY Zenon, <1>1 DEF DoneSet, AckedDone
<1>3. 1 .. msgCount(<<n, k>>) # {}
  BY <1>1
<1>4. QED
  BY Zenon, <1>2, <1>3 DEF Assembled, Progress

\* StartPost: an application that waits for its transfers posts the next one
\* when the record of reassembly is free.
LEMMA StartPostAssembled ==
  ASSUME CompleteIsAllAcked, TypeInv, OnceInv, CountInv, AckedDone, Assembled, Serial, NEW n \in Node, StartPost(n)
  PROVE  Assembled'
<1> DEFINE c == app[n].k
<1>1. /\ c < Len(Msgs[n]) /\ (c > 0 => Complete(<<n, c>>))
      /\ app' = [app EXCEPT ![n] = [k |-> c + 1, msg |-> 0, phase |-> "loop", slot |-> 0]]
      /\ flag' = flag /\ copied' = copied /\ ack' = ack
      /\ m_msgTransactionRecord' = m_msgTransactionRecord
  BY Zenon DEF StartPost
<1>2. c \in Nat /\ Len(Msgs[n]) \in Nat
  BY AppType, NodeAssumption
<1>3. app'[n].k = c + 1 /\ \A o \in Node \ {n} : app'[o] = app[o]
  <2>1. app \in [Node -> AppState]
    BY Zenon DEF TypeInv, TypeOK
  <2>2. QED
    BY Zenon, <1>1, <2>1
<1>4. \A t : DoneSet(t)' = DoneSet(t)
  BY Zenon, <1>1 DEF DoneSet, Done, NumMsgs, msgCount
<1>5. \A o \in Node : Record(o)' = Record(o)
  BY Zenon, <1>1 DEF Record
<1>6. /\ ~ Record(n).in_use
      /\ c > 0 => flag[<<n, c>>] /\ ack[<<n, c>>] = 1 .. msgCount(<<n, c>>)
  <2>1. CASE c = 0
    <3>1. ~ (c > 0)
      BY <2>1
    <3>2. QED
      BY Zenon, <2>1, <3>1 DEF Assembled
  <2>2. CASE c # 0
    <3>1. c > 0 /\ c \in 1 .. Len(Msgs[n])
      BY <1>1, <1>2, <2>2
    <3>2. <<n, c>> \in Transaction
      BY Zenon, <3>1, MsgCountType
    <3>3. ack[<<n, c>>] = 1 .. msgCount(<<n, c>>)
      BY Zenon, <1>1, <3>1, <3>2 DEF CompleteIsAllAcked
    <3>4. QED
      BY Zenon, <3>1, <3>3, AckedFlag
  <2>3. QED
    BY Zenon, <2>1, <2>2
<1>7. ASSUME NEW k \in 1 .. Len(Msgs[n]) PROVE Progress(n, k)'
  <2>1. Progress(n, k) /\ k \in Nat
    BY DEF Assembled
  <2>2. CASE k < c + 1
    <3>1. k < c \/ (k = c /\ c > 0)
      BY <1>2, <2>2
    <3>2. flag[<<n, k>>] /\ ack[<<n, k>>] = 1 .. msgCount(<<n, k>>)
      BY Zenon, <1>6, <2>1, <3>1 DEF Progress
    <3>3. ~ (k > c + 1) /\ k # c + 1
      BY <1>2, <2>1, <2>2
    <3>4. QED
      BY Zenon, <1>1, <1>3, <3>2, <3>3 DEF Progress, msgCount
  <2>3. CASE k > c + 1
    <3>1. k > c /\ ~ (k < c + 1) /\ k # c + 1
      BY <1>2, <2>1, <2>3
    <3>2. ~ flag[<<n, k>>]
      BY Zenon, <2>1, <3>1 DEF Progress
    <3>3. QED
      BY Zenon, <1>1, <1>3, <3>1, <3>2 DEF Progress
  <2>4. CASE k = c + 1
    <3>1. k > c /\ ~ (k < c + 1) /\ ~ (k > c + 1)
      BY <1>2, <2>4
    <3>2. ~ flag[<<n, k>>]
      BY Zenon, <2>1, <3>1 DEF Progress
    <3>3. \A i \in 1 .. msgCount(<<n, k>>) : ~ Done(<<n, k>>, i)
      BY Zenon, <3>1 DEF OnceInv, UnsentFresh, Unsent, Fresh
    <3>4. DoneSet(<<n, k>>) = {}
      BY Zenon, <3>3 DEF DoneSet
    <3>5. QED
      BY Zenon, <1>1, <1>3, <1>4, <1>5, <1>6, <3>1, <3>2, <3>4 DEF Progress
  <2>5. QED
    BY <1>2, <2>1, <2>2, <2>3, <2>4
<1>8. ASSUME NEW o \in Node \ {n}, NEW k \in 1 .. Len(Msgs[o]) PROVE Progress(o, k)'
  <2>1. Progress(o, k)
    BY Zenon DEF Assembled
  <2>2. QED
    BY Zenon, <1>1, <1>3, <1>4, <1>5, <2>1 DEF Progress, NumMsgs, msgCount
<1>9. c + 1 # 0
  BY <1>2
<1>10. QED
  BY Zenon, <1>3, <1>5, <1>7, <1>8, <1>9 DEF Assembled

\* A message belongs to the transaction that the record is about.
LEMMA CurrentOnly ==
  ASSUME TypeInv, OnceInv, AckedDone, Assembled, NEW n \in Node, NEW k, NEW i,
         Span(n, k, i, i), ~ Done(<<n, k>>, i)
  PROVE  /\ k = app[n].k /\ k \in 1 .. Len(Msgs[n]) /\ i \in 1 .. msgCount(<<n, k>>)
         /\ ~ flag[<<n, k>>]
<1>1. k \in 1 .. Len(Msgs[n]) /\ i \in 1 .. msgCount(<<n, k>>) /\ k <= app[n].k
  BY Zenon DEF Span
<1>2. <<n, k>> \in Transaction
  BY Zenon, <1>1, MsgCountType
<1>3. Progress(n, k)
  BY Zenon, <1>1 DEF Assembled
<1>4. ~ (k < app[n].k)
  BY Zenon, <1>1, <1>2, <1>3 DEF Progress, AckedDone
<1>5. k = app[n].k
  BY <1>1, <1>4, AppType
<1>6. i \notin DoneSet(<<n, k>>)
  BY Zenon DEF DoneSet
<1>7. ~ flag[<<n, k>>]
  BY Zenon, <1>1, <1>3, <1>5, <1>6 DEF Progress
<1>8. QED
  BY Zenon, <1>1, <1>5, <1>7

\* One turn of processFrame's loop: the message is handled, and the flag is
\* written and the record closed exactly with the last one.
Handled(n, k, i, t) ==
  /\ n \in Node /\ k = app[n].k /\ k \in 1 .. Len(Msgs[n])
  /\ i \in 1 .. msgCount(t) /\ i \notin DoneSet(t) /\ ~ flag[t]
  /\ DoneSet(t)' = DoneSet(t) \cup {i}
  /\ \A u \in Transaction : u # t => DoneSet(u)' = DoneSet(u)
  /\ flag' = [flag EXCEPT ![t] = (DoneSet(t)' = 1 .. msgCount(t))]
  /\ Record(n)'.in_use <=> DoneSet(t)' # 1 .. msgCount(t)
  /\ Record(n)'.in_use =>
       NumMsgs(t) # 0 /\ Record(n)'.msgsProcessed = Cardinality(DoneSet(t)')
  /\ \A o \in Node \ {n} : Record(o)' = Record(o)

LEMMA Reassembles ==
  ASSUME Counting, TypeInv, OnceInv, AckedDone, Assembled, NEW m \in Node, ProcessMsg(m), rx' # rx,
         NEW n, n = Peer[m], NEW k, k = rx[m].k, NEW i, i = rx[m].next, NEW t, t = <<n, k>>
  PROVE  Handled(n, k, i, t)
<1> DEFINE num == NumMsgs(t)
           rec == m_msgTransactionRecord[m][0]
           before == IF ~ rec.in_use THEN 0 ELSE rec.msgsProcessed
           after == IF num # 0 THEN before + 1 ELSE before
           c == msgCount(t)
           S == DoneSet(t)
<1>1. /\ n \in Node /\ Peer[n] = m /\ ~ Done(t, i) /\ Span(n, k, i, rx[m].last)
      /\ <<t, i>> \in Message
      /\ \A o \in Node : \A a \in 1 .. Len(Msgs[o]) : \A j \in 1 .. msgCount(<<o, a>>) :
           ~ (o = n /\ a = k /\ j = i) => (Done(<<o, a>>, j)' <=> Done(<<o, a>>, j))
  <2>1. n \in Node /\ Peer[n] = m
    BY Zenon, PeerFacts
  <2>2. QED
    BY Zenon, <2>1, HandleOnce
<1>2. Span(n, k, i, i) /\ t \in Transaction /\ c \in Nat \ {0}
  <2>1. k \in 1 .. Len(Msgs[n]) /\ rx[m].last \in 1 .. c /\ i \in 1 .. rx[m].last
        /\ k <= app[n].k /\ (k = app[n].k => rx[m].last <= app[n].msg)
    BY Zenon, <1>1 DEF Span
  <2>2. c \in Nat \ {0} /\ t \in Transaction
    BY Zenon, <1>1, <2>1, MsgCountType
  <2>3. app[n].msg \in Nat
    BY Zenon, <1>1, AppType
  <2> HIDE DEF c
  <2>4. i \in 1 .. c /\ i \in 1 .. i /\ (k = app[n].k => i <= app[n].msg)
    BY <2>1, <2>2, <2>3
  <2>5. QED
    BY Zenon, <2>1, <2>2, <2>4 DEF Span, c
<1>3. k = app[n].k /\ k \in 1 .. Len(Msgs[n]) /\ i \in 1 .. c /\ ~ flag[t]
  BY Zenon, <1>1, <1>2, CurrentOnly
<1>4. i \notin S /\ S \in SUBSET (1 .. c)
  BY Zenon, <1>1 DEF DoneSet
<1>5. RecordIndex(k) = 0
  BY Zenon, RecordIndexIsZero, RecordType
<1>6. /\ m_msgTransactionRecord' = [m_msgTransactionRecord EXCEPT ![m][0] =
           [in_use |-> ~ Closes(after, num), msgsProcessed |-> after]]
      /\ copied' = [copied EXCEPT ![<<t, i>>] = IF num # 0 THEN @ + 1 ELSE @]
      /\ flag' = [flag EXCEPT ![t] = @ \/ Closes(after, num)]
  BY Zenon, <1>5 DEF ProcessMsg
<1>7. /\ Record(n)' = [in_use |-> ~ Closes(after, num), msgsProcessed |-> after]
      /\ \A o \in Node \ {n} : Record(o)' = Record(o)
  <2>1. \A o \in Node \ {n} : Peer[o] \in Node /\ Peer[o] # m
    BY Zenon, <1>1, PeerFacts
  <2>2. QED
    BY Zenon, <1>1, <1>6, <2>1, RecordType DEF Record
<1>8. /\ before = Cardinality(S) /\ before \in Nat
      /\ num = 0 => S = {} /\ before = 0
  <2>1. Progress(n, k) /\ Record(n) = rec
    BY Zenon, <1>1, <1>3 DEF Assembled, Record
  <2>2. CASE rec.in_use
    <3>1. num # 0 /\ rec.msgsProcessed = Cardinality(S)
      BY Zenon, <1>3, <2>1, <2>2 DEF Progress
    <3>2. QED
      BY Zenon, <2>2, <3>1, RecordType
  <2>3. CASE ~ rec.in_use
    <3>1. S = {} /\ before = 0
      BY Zenon, <1>3, <2>1, <2>3 DEF Progress
    <3>2. 0 \in Nat
      BY Zenon
    <3> HIDE DEF before, S
    <3>3. QED
      BY Zenon, <3>1, <3>2 DEF Counting
  <2>4. QED
    BY Zenon, <2>2, <2>3
<1>9. /\ copied \in [Message -> Nat] /\ flag \in [Transaction -> BOOLEAN]
  BY Zenon DEF TypeInv, TypeOK
<1>10. flag' = [flag EXCEPT ![t] = Closes(after, num)] /\ (flag'[t] <=> Closes(after, num))
  BY Zenon, <1>2, <1>3, <1>6, <1>9 DEF Closes
<1> HIDE DEF S, c, before
<1>20. /\ Cardinality(S \cup {i}) = Cardinality(S) + 1
       /\ (Cardinality(S) + 1 = c) <=> (S \cup {i} = 1 .. c)
  <2>1. c \in Nat \ {0}
    BY Zenon, <1>2
  <2>2. i \in 1 .. c
    BY Zenon, <1>3
  <2>3. S \in SUBSET (1 .. c)
    BY Zenon, <1>4
  <2>4. i \notin S
    BY Zenon, <1>4
  <2>5. CountsUp(c, S, i)
    BY Zenon, <2>1, <2>2, <2>3, <2>4 DEF Counting, RecordCounted
  <2>6. QED
    BY Zenon, <2>5 DEF CountsUp
<1>11. Closes(after, num) <=> S \cup {i} = 1 .. c
  <2>1. CASE num = 0
    <3>1. c = 1
      BY Zenon, <1>2, <2>1 DEF NumMsgs, c
    <3>2. S \cup {i} = 1 .. c
      BY <1>3, <1>8, <2>1, <3>1
    <3>3. QED
      BY Zenon, <1>8, <2>1, <3>2 DEF Closes
  <2>2. CASE num # 0
    <3>1. num = c
      BY Zenon, <2>2 DEF NumMsgs, c
    <3>2. QED
      BY Zenon, <1>8, <1>20, <2>2, <3>1 DEF Closes
  <2>3. QED
    BY Zenon, <2>1, <2>2
<1>12. Done(t, i)'
  <2>1. CASE num = 0
    <3>1. Closes(after, num)
      BY Zenon, <1>8, <2>1 DEF Closes
    <3>2. QED
      BY Zenon, <1>10, <2>1, <3>1 DEF Done, NumMsgs, msgCount
  <2>2. CASE num # 0
    <3>1. copied'[<<t, i>>] = copied[<<t, i>>] + 1 /\ copied[<<t, i>>] \in Nat
      BY Zenon, <1>1, <1>6, <1>9, <2>2
    <3>2. copied'[<<t, i>>] > 0
      BY <3>1
    <3>3. QED
      BY Zenon, <2>2, <3>2 DEF Done, NumMsgs, msgCount
  <2>3. QED
    BY Zenon, <2>1, <2>2
<1> USE DEF c, S
<1>13. \A j \in 1 .. c : Done(t, j)' <=> Done(t, j) \/ j = i
  BY Zenon, <1>1, <1>3, <1>12
<1>14. DoneSet(t)' = S \cup {i}
  BY Zenon, <1>3, <1>13 DEF DoneSet, msgCount
<1>15. ASSUME NEW u \in Transaction, u # t PROVE DoneSet(u)' = DoneSet(u)
  <2>0. PICK o \in Node : u \in {o} \X (1 .. Len(Msgs[o]))
    BY Zenon DEF Transaction
  <2>1. PICK a \in 1 .. Len(Msgs[o]) : u = <<o, a>>
    BY <2>0
  <2>2. ~ (o = n /\ a = k)
    BY Zenon, <1>15, <2>1
  <2>3. \A j \in 1 .. msgCount(u) : Done(u, j)' <=> Done(u, j)
    BY Zenon, <1>1, <2>1, <2>2
  <2>4. QED
    BY Zenon, <2>3 DEF DoneSet, msgCount
<1>16. (Record(n)'.in_use <=> ~ Closes(after, num)) /\ Record(n)'.msgsProcessed = after
  <2> DEFINE closes == Closes(after, num)
  <2>1. Record(n)' = [in_use |-> ~ closes, msgsProcessed |-> after] /\ closes \in BOOLEAN
    BY Zenon, <1>7 DEF Closes
  <2> HIDE DEF after, closes
  <2>2. Record(n)'.in_use = ~ closes /\ Record(n)'.msgsProcessed = after
    BY <2>1
  <2>3. QED
    BY Zenon, <2>2 DEF closes
<1>17. Record(n)'.in_use => num # 0 /\ after = Cardinality(S \cup {i})
  <2>1. num # 0 => Cardinality(S \cup {i}) = before + 1
    BY Zenon, <1>8, <1>20
  <2>2. num = 0 => Closes(after, num)
    BY Zenon, <1>8 DEF Closes
  <2>3. QED
    BY Zenon, <1>16, <2>1, <2>2
<1>18. flag' = [flag EXCEPT ![t] = (DoneSet(t)' = 1 .. c)]
  <2>1. Closes(after, num) = (DoneSet(t)' = 1 .. c)
    BY Zenon, <1>11, <1>14 DEF Closes
  <2>2. QED
    BY Zenon, <1>10, <2>1
<1>19. QED
  BY Zenon, <1>1, <1>3, <1>4, <1>7, <1>11, <1>14, <1>15, <1>16, <1>17, <1>18 DEF Handled

LEMMA MsgAborts ==
  ASSUME TypeInv, OnceInv, NEW m \in Node, ProcessMsg(m), rx' = rx
  PROVE  UNCHANGED <<copied, flag, m_msgTransactionRecord>>
<1> DEFINE i == rx[m].next
<1>1. CASE UNCHANGED <<m_msgTransactionRecord, rx, copied, flag>>
  BY Zenon, <1>1
<1>2. CASE rx' = [rx EXCEPT ![m] = IF i = rx[m].last THEN NoMsg ELSE [rx[m] EXCEPT !.next = i + 1]]
  <2>1. rx \in [Node -> [k : TransNo, next : Nat, last : Nat]] /\ rx[m] # NoMsg
    BY Zenon DEF TypeInv, TypeOK, ProcessMsg, Unlocked
  <2>2. rx[m] = IF i = rx[m].last THEN NoMsg ELSE [rx[m] EXCEPT !.next = i + 1]
    BY Zenon, <1>2, <2>1
  <2>3. rx[m].next = i + 1 /\ i \in Nat
    BY Zenon, <2>1, <2>2
  <2>4. QED
    BY <2>3
<1>3. QED
  BY Zenon, <1>1, <1>2 DEF ProcessMsg

\* What the message that is handled does to the record and to what is done.
LEMMA HandledAssembled ==
  ASSUME Counting, TypeInv, OnceInv, CountInv, AckedDone, Assembled, NEW m \in Node, ProcessMsg(m), rx' # rx,
         NEW n, n = Peer[m], NEW k, k = rx[m].k, NEW i, i = rx[m].next, NEW t, t = <<n, k>>
  PROVE  Assembled' /\ AckedDone'
<1>1. /\ n \in Node /\ k = app[n].k /\ k \in 1 .. Len(Msgs[n])
      /\ DoneSet(t)' = DoneSet(t) \cup {i}
      /\ \A u \in Transaction : u # t => DoneSet(u)' = DoneSet(u)
      /\ flag' = [flag EXCEPT ![t] = (DoneSet(t)' = 1 .. msgCount(t))]
      /\ Record(n)'.in_use <=> DoneSet(t)' # 1 .. msgCount(t)
      /\ Record(n)'.in_use =>
           NumMsgs(t) # 0 /\ Record(n)'.msgsProcessed = Cardinality(DoneSet(t)')
      /\ \A o \in Node \ {n} : Record(o)' = Record(o)
  <2>1. Handled(n, k, i, t)
    BY Zenon, Reassembles
  <2>2. QED
    BY Zenon, <2>1 DEF Handled
<1>2. app' = app /\ ack' = ack
  BY Zenon DEF ProcessMsg
<1>3. t \in Transaction /\ k # 0 /\ k \in Nat /\ ~ (k < k) /\ ~ (k > k)
  <2>1. t \in Transaction
    BY Zenon, <1>1, MsgCountType
  <2>2. k \in Nat /\ k # 0
    BY <1>1
  <2>3. QED
    BY <2>1, <2>2
<1>4. /\ (flag'[t] <=> DoneSet(t)' = 1 .. msgCount(t))
      /\ \A u \in Transaction : u # t => flag'[u] = flag[u]
  <2>1. flag \in [Transaction -> BOOLEAN]
    BY Zenon DEF TypeInv, TypeOK
  <2>2. QED
    BY Zenon, <1>1, <1>3, <2>1
<1>5. Progress(n, k)'
  BY Zenon, <1>1, <1>2, <1>3, <1>4 DEF Progress, NumMsgs, msgCount
<1>6. ASSUME NEW o \in Node, NEW a \in 1 .. Len(Msgs[o]), <<o, a>> # t PROVE Progress(o, a)'
  <2>1. Progress(o, a) /\ <<o, a>> \in Transaction
    BY Zenon, MsgCountType DEF Assembled
  <2>2. DoneSet(<<o, a>>)' = DoneSet(<<o, a>>) /\ flag'[<<o, a>>] = flag[<<o, a>>]
    BY Zenon, <1>1, <1>4, <1>6, <2>1
  <2>3. CASE o = n
    <3>1. a # app[o].k
      BY Zenon, <1>1, <1>6, <2>3
    <3>2. QED
      BY Zenon, <1>2, <2>1, <2>2, <3>1 DEF Progress, msgCount
  <2>4. CASE o # n
    <3>1. Record(o)' = Record(o)
      BY Zenon, <1>1, <2>4
    <3>2. QED
      BY Zenon, <1>2, <2>1, <2>2, <3>1 DEF Progress, NumMsgs, msgCount
  <2>5. QED
    BY Zenon, <2>3, <2>4
<1>7. Assembled'
  <2>1. ASSUME NEW o \in Node, Record(o)'.in_use PROVE app'[o].k # 0
    <3>1. app'[o].k = app[o].k
      BY Zenon, <1>2
    <3>2. CASE o = n
      BY Zenon, <1>1, <1>3, <3>1, <3>2
    <3>3. CASE o # n
      <4>1. Record(o)' = Record(o) /\ (Record(o).in_use => app[o].k # 0)
        BY Zenon, <1>1, <3>3 DEF Assembled
      <4>2. Record(o).in_use
        BY Zenon, <2>1, <4>1
      <4>3. QED
        BY Zenon, <3>1, <4>1, <4>2
    <3>4. QED
      BY Zenon, <3>2, <3>3
  <2>2. ASSUME NEW o \in Node, NEW a \in 1 .. Len(Msgs[o]) PROVE Progress(o, a)'
    <3>1. CASE <<o, a>> = t
      <4>1. o = n /\ a = k
        BY <3>1
      <4>2. QED
        BY Zenon, <1>5, <4>1
    <3>2. CASE <<o, a>> # t
      BY Zenon, <1>6, <3>2
    <3>3. QED
      BY Zenon, <3>1, <3>2
  <2>3. QED
    BY Zenon, <2>1, <2>2 DEF Assembled
<1>8. AckedDone'
  <2> SUFFICES ASSUME NEW u \in Transaction, NEW j \in ack[u] PROVE Done(u, j)'
    BY Zenon, <1>2 DEF AckedDone
  <2>1. j \in 1 .. msgCount(u) /\ Done(u, j)
    BY Zenon DEF CountInv, CountedOnce, AckedDone
  <2>2. j \in DoneSet(u)
    BY Zenon, <2>1 DEF DoneSet
  <2>3. j \in DoneSet(u)'
    BY Zenon, <1>1, <2>2
  <2>4. QED
    BY Zenon, <2>3 DEF DoneSet
<1>9. QED
  BY Zenon, <1>7, <1>8

LEMMA ProcessMsgAssembled ==
  ASSUME Counting, TypeInv, OnceInv, CountInv, AckedDone, Assembled, NEW m \in Node, ProcessMsg(m)
  PROVE  Assembled' /\ AckedDone'
<1>1. CASE rx' = rx
  <2>1. app' = app /\ ack' = ack /\ UNCHANGED <<copied, flag, m_msgTransactionRecord>>
    BY Zenon, <1>1, MsgAborts DEF ProcessMsg
  <2>2. Assembled'
    BY Zenon, <2>1, AssembledKept
  <2>3. AckedDone'
    BY Zenon, <2>1 DEF AckedDone, Done, NumMsgs, msgCount
  <2>4. QED
    BY Zenon, <2>2, <2>3
<1>2. CASE rx' # rx
  BY Zenon, <1>2, HandledAssembled
<1>3. QED
  BY Zenon, <1>1, <1>2

\* The messages of a frame belong to a transaction of its node.
LEMMA LoadRange ==
  ASSUME TypeInv, OnceInv, NEW n \in Node, NEW h \in Sent(n), NEW j \in Loads(h)
  PROVE  h.iov \in 1 .. Len(Msgs[n]) /\ j \in 1 .. msgCount(<<n, h.iov>>)
<1>1. h.msg_count \in Nat /\ h.first \in Nat
  BY Zenon, SentType DEF TypeInv
<1>2. h.msg_count # 0 /\ j >= h.first /\ j <= h.first + h.msg_count - 1 /\ j \in Nat
  BY <1>1 DEF Loads
<1>3. /\ h.iov \in 1 .. Len(Msgs[n]) /\ h.first + h.msg_count - 1 \in 1 .. msgCount(<<n, h.iov>>)
      /\ h.first \in 1 .. h.first + h.msg_count - 1
  BY Zenon, <1>2 DEF OnceInv, Carried, Fit, Span
<1>4. msgCount(<<n, h.iov>>) \in Nat
  BY Zenon, <1>3, MsgCountType
<1>5. j \in 1 .. msgCount(<<n, h.iov>>)
  BY <1>1, <1>2, <1>3, <1>4
<1>6. QED
  BY Zenon, <1>3, <1>5

\* The socket thread goes on to the next message, and is done with this one.
LEMMA HandledRead ==
  ASSUME TypeInv, OnceInv, AckedDone, Assembled, NEW m \in Node, ProcessMsg(m), rx' # rx,
         NEW n, n = Peer[m], NEW k, k = rx[m].k, NEW i, i = rx[m].next
  PROVE  /\ \A o \in Node \ {m} : rx'[o] = rx[o]
         /\ \A j \in Reading(m)' : rx'[m].k = k /\ j \in Reading(m)
         /\ \A j \in Reading(m) : j = i \/ (rx'[m].k = k /\ j \in Reading(m)')
<1>1. rx \in [Node -> [k : TransNo, next : Nat, last : Nat]] /\ rx[m] # NoMsg
  BY Zenon DEF TypeInv, TypeOK, ProcessMsg, Unlocked
<1>2. rx' = [rx EXCEPT ![m] = IF i = rx[m].last THEN NoMsg ELSE [rx[m] EXCEPT !.next = i + 1]]
  BY Zenon DEF ProcessMsg
<1>3. rx'[m] = IF i = rx[m].last THEN NoMsg ELSE [rx[m] EXCEPT !.next = i + 1]
  BY Zenon, <1>1, <1>2
<1>4. rx[m] \in [k : TransNo, next : Nat, last : Nat]
  BY Zenon, <1>1
<1>5. i \in Nat /\ rx[m].last \in Nat /\ Reading(m) = i .. rx[m].last
  BY Zenon, <1>1, <1>4 DEF Reading
<1>6. CASE i = rx[m].last
  <2>1. Reading(m)' = {}
    BY Zenon, <1>3, <1>6 DEF Reading, NoMsg
  <2>2. \A j \in Reading(m) : j = i
    BY <1>5, <1>6
  <2>3. QED
    BY Zenon, <1>1, <1>2, <2>1, <2>2
<1>7. CASE i # rx[m].last
  <2>1. rx'[m].k = k /\ rx'[m].next = i + 1 /\ rx'[m].last = rx[m].last
    BY Zenon, <1>3, <1>4, <1>7
  <2>2. rx'[m] # NoMsg
    <3>1. NoMsg.next = 0 /\ i + 1 # 0
      BY <1>5 DEF NoMsg
    <3>2. QED
      BY Zenon, <2>1, <3>1
  <2>3. Reading(m)' = i + 1 .. rx[m].last
    BY Zenon, <2>1, <2>2 DEF Reading, NoMsg
  <2>4. /\ \A j \in i + 1 .. rx[m].last : j \in i .. rx[m].last
        /\ \A j \in i .. rx[m].last : j = i \/ j \in i + 1 .. rx[m].last
    BY <1>5
  <2>5. QED
    BY Zenon, <1>1, <1>2, <1>5, <2>1, <2>3, <2>4
<1>8. QED
  BY Zenon, <1>6, <1>7

\* What is no longer fresh stays so: the message is handled, or the socket
\* thread still has it before it.
LEMMA HandledLink ==
  ASSUME Counting, TypeInv, OnceInv, AckedDone, Assembled, SameLoad, BusyLoad,
         NEW m \in Node, ProcessMsg(m), rx' # rx,
         NEW n, n = Peer[m], NEW k, k = rx[m].k, NEW i, i = rx[m].next, NEW t, t = <<n, k>>
  PROVE  SameLoad' /\ BusyLoad'
<1>1. m_freeFrames' = m_freeFrames /\ net' = net /\ received' = received
  BY Zenon DEF ProcessMsg
<1>2. /\ n \in Node /\ k \in 1 .. Len(Msgs[n]) /\ DoneSet(t)' = DoneSet(t) \cup {i}
      /\ \A u \in Transaction : u # t => DoneSet(u)' = DoneSet(u)
  <2>1. Handled(n, k, i, t)
    BY Zenon, Reassembles
  <2>2. QED
    BY Zenon, <2>1 DEF Handled
<1>3. /\ \A o \in Node \ {m} : rx'[o] = rx[o]
      /\ \A j \in Reading(m)' : rx'[m].k = k /\ j \in Reading(m)
      /\ \A j \in Reading(m) : j = i \/ (rx'[m].k = k /\ j \in Reading(m)')
  BY Zenon, HandledRead
<1>4. Peer[n] = m /\ \A o \in Node : Peer[o] \in Node /\ (Peer[o] = m => o = n)
  BY Zenon, PeerFacts
<1>5. ASSUME NEW o \in Node, NEW a \in 1 .. Len(Msgs[o]), NEW j \in 1 .. msgCount(<<o, a>>),
             ~ Fresh(o, a, j)
      PROVE  ~ Fresh(o, a, j)'
  <2>1. <<o, a>> \in Transaction
    BY Zenon, MsgCountType
  <2>2. CASE Done(<<o, a>>, j)
    <3>1. j \in DoneSet(<<o, a>>)
      BY Zenon, <2>2 DEF DoneSet
    <3>2. j \in DoneSet(<<o, a>>)'
      BY Zenon, <1>2, <2>1, <3>1
    <3>3. Done(<<o, a>>, j)'
      BY Zenon, <3>2 DEF DoneSet
    <3>4. QED
      BY Zenon, <3>3 DEF Fresh, Done, NumMsgs, msgCount
  <2>3. CASE rx[Peer[o]].k = a /\ j \in Reading(Peer[o])
    <3>1. CASE o = n
      <4>1. a = k /\ j \in Reading(m) /\ <<o, a>> = t
        BY Zenon, <1>4, <2>3, <3>1
      <4>2. CASE j = i
        <5>1. j \in DoneSet(<<o, a>>)'
          BY Zenon, <1>2, <4>1, <4>2
        <5>2. Done(<<o, a>>, j)'
          BY Zenon, <5>1 DEF DoneSet
        <5>3. QED
          BY Zenon, <5>2 DEF Fresh, Done, NumMsgs, msgCount
      <4>3. CASE j # i
        <5>1. rx'[m].k = a /\ j \in Reading(m)'
          BY Zenon, <1>3, <4>1, <4>3
        <5>2. rx'[Peer[o]].k = a /\ j \in Reading(Peer[o])'
          BY Zenon, <1>4, <3>1, <5>1
        <5>3. QED
          BY Zenon, <5>2 DEF Fresh, Reading, NoMsg
      <4>4. QED
        BY Zenon, <4>2, <4>3
    <3>2. CASE o # n
      <4>1. rx'[Peer[o]] = rx[Peer[o]]
        BY Zenon, <1>3, <1>4, <3>2
      <4>2. rx'[Peer[o]].k = a /\ j \in Reading(Peer[o])'
        BY Zenon, <2>3, <4>1 DEF Reading, NoMsg
      <4>3. QED
        BY Zenon, <4>2 DEF Fresh, Reading, NoMsg
    <3>3. QED
      BY Zenon, <3>1, <3>2
  <2>4. QED
    BY Zenon, <1>5, <2>2, <2>3 DEF Fresh
<1>6. ASSUME NEW o \in Node, NEW f, Hearing(o, f)' PROVE Hearing(o, f)
  <2>1. PICK j \in Loads(f) : rx'[Peer[o]].k = f.iov /\ j \in Reading(Peer[o])'
    BY Zenon, <1>6 DEF Hearing, Loads
  <2>2. CASE o = n
    <3>1. j \in Reading(m)' /\ rx'[m].k = f.iov
      BY Zenon, <1>4, <2>1, <2>2
    <3>2. f.iov = k /\ j \in Reading(m)
      BY Zenon, <1>3, <3>1
    <3>3. rx[Peer[o]].k = f.iov /\ j \in Reading(Peer[o])
      BY Zenon, <1>4, <2>2, <3>2
    <3>4. QED
      BY Zenon, <3>3 DEF Hearing
  <2>3. CASE o # n
    <3>1. rx'[Peer[o]] = rx[Peer[o]]
      BY Zenon, <1>3, <1>4, <2>3
    <3>2. rx[Peer[o]].k = f.iov /\ j \in Reading(Peer[o])
      BY Zenon, <2>1, <3>1 DEF Reading, NoMsg
    <3>3. QED
      BY Zenon, <3>2 DEF Hearing
  <2>4. QED
    BY Zenon, <2>2, <2>3
<1>7. SameLoad'
  BY Zenon, <1>1 DEF SameLoad, Alike
<1>8. BusyLoad'
  <2> SUFFICES ASSUME NEW o \in Node, NEW s \in Slots, NEW f, f = m_freeFrames'[o][s], ~ f.is_free
      PROVE /\ f.msg_count # 0 => f.iov = f.transaction /\ f.first = f.msg_start + 1
            /\ f.seq \in received'[Peer[o]] => \A j \in Loads(f) : ~ Fresh(o, f.iov, j)'
            /\ Hearing(o, f)' => \A h \in Headers(Peer[o])' : f.seq \notin AckRange(h)
    BY Zenon DEF BusyLoad, Loads, Fresh, Done, Reading, NoMsg, NumMsgs, msgCount, AckRange, Hearing
  <2>0. f = m_freeFrames[o][s] /\ received' = received /\ Headers(Peer[o])' = Headers(Peer[o])
    BY Zenon, <1>1 DEF Headers
  <2>1. /\ f.msg_count # 0 => f.iov = f.transaction /\ f.first = f.msg_start + 1
        /\ f.seq \in received[Peer[o]] => \A j \in Loads(f) : ~ Fresh(o, f.iov, j)
        /\ Hearing(o, f) => \A h \in Headers(Peer[o]) : f.seq \notin AckRange(h)
    BY Zenon, <2>0 DEF BusyLoad
  <2>2. f \in Sent(o)
    BY Zenon, <2>0 DEF Sent
  <2>3. ASSUME f.seq \in received[Peer[o]], NEW j \in Loads(f) PROVE ~ Fresh(o, f.iov, j)'
    <3>1. ~ Fresh(o, f.iov, j) /\ f.iov \in 1 .. Len(Msgs[o]) /\ j \in 1 .. msgCount(<<o, f.iov>>)
      BY Zenon, <2>1, <2>2, <2>3, LoadRange
    <3>2. QED
      BY Zenon, <1>5, <3>1
  <2>4. QED
    <3>1. f.seq \in received'[Peer[o]] => \A j \in Loads(f) : ~ Fresh(o, f.iov, j)'
      BY Zenon, <2>0, <2>3
    <3>2. Hearing(o, f)' => \A h \in Headers(Peer[o])' : f.seq \notin AckRange(h)
      BY Zenon, <1>6, <2>0, <2>1
    <3>3. QED
      BY Zenon, <2>1, <3>1, <3>2
<1>9. QED
  BY Zenon, <1>7, <1>8

LEMMA ProcessMsgLink ==
  ASSUME Counting, TypeInv, OnceInv, TypeInv', OnceInv', AckedDone, Assembled, SameLoad, BusyLoad,
         NEW m \in Node, ProcessMsg(m)
  PROVE  SameLoad' /\ BusyLoad'
<1>1. CASE rx' = rx
  <2>1. UNCHANGED <<m_freeFrames, received, rx, copied, flag>> /\ net' \subseteq net
    BY Zenon, <1>1, MsgAborts DEF ProcessMsg
  <2>2. QED
    BY Zenon, <2>1, DropLink
<1>2. CASE rx' # rx
  BY Zenon, <1>2, HandledLink
<1>3. QED
  BY Zenon, <1>1, <1>2

\* Posting a transaction sends nothing.
LEMMA StartPostService ==
  ASSUME CompleteIsAllAcked, Serial, TypeInv, OnceInv, CountInv, ServiceInv, TypeInv', OnceInv',
         NEW n \in Node, StartPost(n)
  PROVE  ServiceInv'
<1>1. /\ net' \subseteq net /\ ack' = ack
      /\ UNCHANGED <<m_freeFrames, received, rx, copied, flag>>
  BY Zenon DEF StartPost
<1>2. SameLoad' /\ BusyLoad'
  BY Zenon, <1>1, DropLink DEF ServiceInv
<1>3. AckedDone'
  BY Zenon, <1>1 DEF ServiceInv, AckedDone, Done, NumMsgs, msgCount
<1>4. Assembled'
  BY Zenon, StartPostAssembled DEF ServiceInv
<1>5. QED
  BY Zenon, <1>2, <1>3, <1>4 DEF ServiceInv

\* The steps that put frames together and send them: nothing is posted,
\* handled or acknowledged.
Quiet ==
  /\ UNCHANGED <<flag, copied, m_msgTransactionRecord, ack>>
  /\ \A n \in Node : app'[n].k = app[n].k

LEMMA QuietService ==
  ASSUME ServiceInv, Quiet, SameLoad', BusyLoad'
  PROVE  ServiceInv'
<1>1. ack' = ack /\ flag' = flag /\ copied' = copied
  BY Zenon DEF Quiet
<1>2. AckedDone'
  BY Zenon, <1>1 DEF ServiceInv, AckedDone, Done, NumMsgs, msgCount
<1>3. Assembled'
  BY Zenon, <1>1, AssembledKept DEF ServiceInv, Quiet
<1>4. QED
  BY Zenon, <1>2, <1>3 DEF ServiceInv

LEMMA QuietSteps ==
  ASSUME TypeInv, NEW n \in Node,
         \/ WindowAbort(n) \/ GetFrame(n) \/ FillFrame(n) \/ PostFrame(n)
         \/ CheckAcks(n) \/ SendAcks(n)
  PROVE  Quiet
<1>1. UNCHANGED <<flag, copied, m_msgTransactionRecord, ack>>
  BY Zenon DEF WindowAbort, GetFrame, FillFrame, PostFrame, CheckAcks, SendAcks
<1>2. \/ app' = app
      \/ \E x, y, z : app' = [app EXCEPT ![n] = [app[n] EXCEPT !.phase = x, !.slot = y]]
                      \/ app' = [app EXCEPT ![n] = [app[n] EXCEPT !.phase = x, !.msg = z]]
                      \/ app' = [app EXCEPT ![n] = [app[n] EXCEPT !.phase = x]]
  BY Zenon DEF WindowAbort, GetFrame, FillFrame, PostFrame, CheckAcks, SendAcks
<1>3. app \in [Node -> AppState]
  BY Zenon DEF TypeInv, TypeOK
<1>4. ASSUME NEW o \in Node PROVE app'[o].k = app[o].k
  <2>1. CASE app' = app
    BY Zenon, <2>1
  <2>2. CASE o # n
    BY Zenon, <1>2, <1>3, <2>2
  <2>3. CASE app' # app /\ o = n
    <3>1. PICK x, y, z : \/ app' = [app EXCEPT ![n] = [app[n] EXCEPT !.phase = x, !.slot = y]]
                         \/ app' = [app EXCEPT ![n] = [app[n] EXCEPT !.phase = x, !.msg = z]]
                         \/ app' = [app EXCEPT ![n] = [app[n] EXCEPT !.phase = x]]
      BY Zenon, <1>2, <2>3
    <3>2. \/ app'[n] = [app[n] EXCEPT !.phase = x, !.slot = y]
          \/ app'[n] = [app[n] EXCEPT !.phase = x, !.msg = z]
          \/ app'[n] = [app[n] EXCEPT !.phase = x]
      BY Zenon, <1>3, <3>1
    <3>3. app[n] \in [k : TransNo, msg : Nat, phase : {"idle", "loop", "got", "filled"}, slot : Slots]
      BY Zenon, <1>3 DEF AppState
    <3>4. app'[n].k = app[n].k
      BY Zenon, <3>2, <3>3
    <3>5. QED
      BY Zenon, <2>3, <3>4
  <2>4. QED
    BY Zenon, <2>1, <2>2, <2>3
<1>5. QED
  BY Zenon, <1>1, <1>4 DEF Quiet

\* A frame is received: what it acknowledges was handled.
LEMMA ProcessFrameService ==
  ASSUME ConservativeTiming, TypeInv, OnceInv, CountInv, AckInv, ServiceInv, TypeInv', OnceInv', CountInv',
         NEW m \in Node, ProcessFrame(m)
  PROVE  ServiceInv'
<1>1. PICK p \in net : p.src = Peer[m] /\ net' = net \ {p} /\ (ProcessDup(m, p) \/ ProcessNew(m, p))
  BY Zenon DEF ProcessFrame
<1>2. Unlocked(m) /\ UNCHANGED <<app, copied, flag, m_msgTransactionRecord>>
  BY Zenon DEF ProcessFrame
<1>3. CASE ProcessDup(m, p)
  <2>1. UNCHANGED <<m_freeFrames, rx, received, ack>> /\ net' \subseteq net
    BY Zenon, <1>1, <1>3 DEF ProcessDup
  <2>2. SameLoad' /\ BusyLoad'
    BY Zenon, <1>2, <2>1, DropLink DEF ServiceInv
  <2>3. Quiet
    BY Zenon, <1>2, <2>1 DEF Quiet
  <2>4. QED
    BY Zenon, <2>2, <2>3, QuietService
<1>4. CASE ProcessNew(m, p)
  <2>1. SameLoad' /\ BusyLoad'
    BY Zenon, <1>1, <1>2, <1>4, ProcessNewLink DEF ServiceInv
  <2>2. AckedDone'
    BY Zenon, <1>1, <1>2, <1>4, ReleasedDone DEF ServiceInv
  <2>3. ASSUME NEW t \in Transaction, ack[t] = 1 .. msgCount(t) PROVE ack'[t] = 1 .. msgCount(t)
    <3>1. ack[t] \subseteq ack'[t]
      BY Zenon, <1>4 DEF ProcessNew, ReleaseFrames
    <3>2. ack'[t] \subseteq 1 .. msgCount(t)
      BY Zenon DEF CountInv, CountedOnce, msgCount
    <3>3. QED
      BY Zenon, <2>3, <3>1, <3>2
  <2>4. Assembled'
    BY Zenon, <1>2, <2>3, AssembledKept DEF ServiceInv
  <2>5. QED
    BY Zenon, <2>1, <2>2, <2>4 DEF ServiceInv
<1>5. QED
  BY Zenon, <1>1, <1>3, <1>4

LEMMA InitService == ASSUME Init PROVE ServiceInv
<1>1. /\ net = {} /\ ack = [t \in Transaction |-> {}] /\ flag = [t \in Transaction |-> FALSE]
      /\ copied = [m \in Message |-> 0]
      /\ app = [n \in Node |-> [k |-> 0, msg |-> 0, phase |-> "idle", slot |-> 0]]
      /\ m_freeFrames = [n \in Node |-> [s \in Slots |-> FreeFrame]]
      /\ m_msgTransactionRecord = [n \in Node |-> [i \in 0 .. History - 1 |->
                                     [in_use |-> FALSE, msgsProcessed |-> 0]]]
  BY Zenon DEF Init
<1>2. SameLoad /\ AckedDone
  BY Zenon, <1>1 DEF SameLoad, AckedDone
<1>3. BusyLoad
  <2>1. FreeFrame.is_free
    BY Zenon DEF FreeFrame
  <2>2. QED
    BY Zenon, <1>1, <2>1 DEF BusyLoad
<1>4. \A n \in Node : app[n].k = 0 /\ ~ Record(n).in_use
  <2>1. \A n \in Node : app[n].k = 0 /\ Peer[n] \in Node
    BY Zenon, <1>1, PeerFacts
  <2>2. 0 \in 0 .. History - 1
    BY SizeAssumption
  <2>3. QED
    BY Zenon, <1>1, <2>1, <2>2 DEF Record
<1>5. ASSUME NEW n \in Node, NEW k \in 1 .. Len(Msgs[n]) PROVE Progress(n, k)
  <2>1. ~ (k < 0) /\ k # 0
    OBVIOUS
  <2>2. ~ flag[<<n, k>>]
    BY Zenon, <1>1, MsgCountType
  <2>3. QED
    BY Zenon, <1>4, <2>1, <2>2 DEF Progress
<1>6. Assembled
  BY Zenon, <1>4, <1>5 DEF Assembled
<1>7. QED
  BY Zenon, <1>2, <1>3, <1>6 DEF ServiceInv

\* Every step of the layer keeps what the service rests on.
LEMMA ServiceStep ==
  ASSUME Counting, Usual, TypeInv, OnceInv, CountInv, CompleteIsAllAcked, AckInv, ServiceInv,
         [Next]_vars, TypeInv', OnceInv', CountInv'
  PROVE  ServiceInv'
<1> USE DEF Usual
<1>1. ASSUME NEW n \in Node, NodeStep(n) PROVE ServiceInv'
  <2>1. CASE WindowAbort(n)
    <3>1. net' \subseteq net /\ UNCHANGED <<m_freeFrames, received, rx, copied, flag>>
      BY Zenon, <2>1 DEF WindowAbort
    <3>2. SameLoad' /\ BusyLoad'
      BY Zenon, <3>1, DropLink DEF ServiceInv
    <3>3. QED
      BY Zenon, <2>1, <3>2, QuietSteps, QuietService
  <2>2. CASE ~ WindowAbort(n) /\ (GetFrame(n) \/ FillFrame(n) \/ PostFrame(n) \/ CheckAcks(n) \/ SendAcks(n))
    <3>1. SameLoad' /\ BusyLoad'
      BY Zenon, <2>2, GetFrameLink, FillFrameLink, PostFrameLink, CheckAcksLink, SendAcksLink DEF ServiceInv
    <3>2. Quiet
      BY Zenon, <2>2, QuietSteps
    <3>3. QED
      BY Zenon, <3>1, <3>2, QuietService
  <2>3. CASE StartPost(n)
    BY Zenon, <2>3, StartPostService
  <2>4. CASE ProcessFrame(n)
    BY Zenon, <2>4, ProcessFrameService
  <2>5. CASE ProcessMsg(n)
    <3>1. SameLoad' /\ BusyLoad'
      BY Zenon, <2>5, ProcessMsgLink DEF ServiceInv
    <3>2. Assembled' /\ AckedDone'
      BY Zenon, <2>5, ProcessMsgAssembled DEF ServiceInv
    <3>3. QED
      BY Zenon, <3>1, <3>2 DEF ServiceInv
  <2>6. QED
    BY Zenon, <1>1, <2>1, <2>2, <2>3, <2>4, <2>5 DEF NodeStep, AppStep
<1>2. ASSUME net' \subseteq net, UNCHANGED <<m_freeFrames, received, rx>>, Quiet PROVE ServiceInv'
  <2>1. copied' = copied /\ flag' = flag
    BY Zenon, <1>2 DEF Quiet
  <2>2. SameLoad' /\ BusyLoad'
    BY Zenon, <1>2, <2>1, DropLink DEF ServiceInv
  <2>3. QED
    BY Zenon, <1>2, <2>2, QuietService
<1>3. CASE Lose
  BY Zenon, <1>2, <1>3 DEF Lose, Quiet
<1>4. CASE UNCHANGED vars
  BY Zenon, <1>2, <1>4 DEF vars, Quiet
<1>5. ~ Duplicate
  <2>1. dups \in Nat /\ MaxDup = 0
    BY Zenon DEF TypeInv, TypeOK, ConservativeTiming
  <2>2. ~ (dups < MaxDup)
    BY <2>1
  <2>3. QED
    BY Zenon, <2>2 DEF Duplicate
<1>6. QED
  BY Zenon, <1>1, <1>3, <1>4, <1>5 DEF Next

LEMMA TransactionParts ==
  ASSUME NEW t \in Transaction
  PROVE  /\ t[1] \in Node /\ t[2] \in 1 .. Len(Msgs[t[1]]) /\ t = <<t[1], t[2]>>
         /\ t[2] \in Nat /\ msgCount(t) \in Nat \ {0}
<1>1. t[1] \in Node /\ t[2] \in 1 .. Len(Msgs[t[1]]) /\ t = <<t[1], t[2]>>
  BY DEF Transaction
<1>2. msgCount(t) \in Nat \ {0}
  BY Zenon, <1>1, MsgCountType
<1>3. QED
  BY <1>1, <1>2

LEMMA FlagIsDone ==
  ASSUME AllInv, NEW t \in Transaction
  PROVE  /\ flag[t] => DoneSet(t) = 1 .. msgCount(t)
         /\ Complete(t) => flag[t]
<1> DEFINE n == t[1]
           k == t[2]
<1>1. /\ n \in Node /\ k \in 1 .. Len(Msgs[n]) /\ t = <<n, k>>
      /\ k \in Nat /\ msgCount(t) \in Nat \ {0}
  BY Zenon, TransactionParts
<1>2. 1 .. msgCount(t) # {}
  BY <1>1
<1>3. app[n].k \in Nat
  BY Zenon, <1>1, AppType DEF AllInv
<1> HIDE DEF n, k
<1>4. Progress(n, k)
  BY Zenon, <1>1 DEF AllInv, ServiceInv, Assembled
<1>5. Complete(t) => ack[t] = 1 .. msgCount(t)
  BY Zenon DEF AllInv, CompleteIsAllAcked
<1>6. CASE k < app[n].k
  <2>1. flag[t] /\ ack[t] = 1 .. msgCount(t)
    BY Zenon, <1>1, <1>4, <1>6 DEF Progress
  <2>2. DoneSet(t) = 1 .. msgCount(t)
    BY Zenon, <2>1 DEF DoneSet, AllInv, ServiceInv, AckedDone
  <2>3. QED
    BY Zenon, <2>1, <2>2
<1>7. CASE k > app[n].k
  <2>1. ~ flag[t]
    BY Zenon, <1>1, <1>4, <1>7 DEF Progress
  <2>2. ack[t] = {}
    BY Zenon, <1>1, <1>7 DEF AllInv, CountInv, AckedWasPosted, n, k
  <2>3. QED
    BY Zenon, <1>2, <1>5, <2>1, <2>2
<1>8. CASE k = app[n].k
  <2>1. flag[t] => DoneSet(t) = 1 .. msgCount(t)
    BY Zenon, <1>1, <1>4, <1>8 DEF Progress
  <2>2. Complete(t) => flag[t]
    BY Zenon, <1>1, <1>5, <1>8, AckedFlag DEF AllInv, ServiceInv
  <2>3. QED
    BY Zenon, <2>1, <2>2
<1>9. QED
  BY <1>1, <1>3, <1>6, <1>7, <1>8

LEMMA DeliveredFirst == AllInv => CompleteWasDelivered
BY Zenon, FlagIsDone DEF CompleteWasDelivered

-----------------------------------------------------------------------------
(***************************************************************************)
(* The refinement of ReliableTransfer.                                     *)
(***************************************************************************)

Posted == [n \in Node |-> app[n].k]
Delivered == [t \in Transaction |-> DoneSet(t)]
Finished == [t \in Transaction |-> Complete(t)]
SameService == Posted' = Posted /\ Delivered' = Delivered /\ flag' = flag /\ Finished' = Finished

\* In the mapping a message is delivered when it was handled.
DeliveredTo == [t \in Transaction |->
  IF NumMsgs(t) = 0 THEN (IF flag[t] THEN {1} ELSE {})
  ELSE {i \in 1 .. msgCount(t) : copied[<<t, i>>] > 0}]

LEMMA DeliveredIsDone == DeliveredTo = Delivered
<1>1. ASSUME NEW t \in Transaction, NumMsgs(t) = 0
      PROVE  DoneSet(t) = IF flag[t] THEN {1} ELSE {}
  <2>1. msgCount(t) \in Nat \ {0}
    BY Zenon, TransactionParts
  <2>2. 1 .. msgCount(t) = {1}
    <3>1. msgCount(t) = 1
      BY Zenon, <1>1, <2>1 DEF NumMsgs
    <3>2. QED
      BY <3>1
  <2>3. QED
    BY Zenon, <1>1, <2>2 DEF DoneSet, Done
<1>2. ASSUME NEW t \in Transaction, NumMsgs(t) # 0
      PROVE  DoneSet(t) = {i \in 1 .. msgCount(t) : copied[<<t, i>>] > 0}
  BY Zenon, <1>2 DEF DoneSet, Done
<1>3. QED
  BY Zenon, <1>1, <1>2 DEF DeliveredTo, Delivered

\* post() of the next transaction is Post.
LEMMA PostRefines ==
  ASSUME Counting, AllInv, NEW n \in Node, StartPost(n)
  PROVE  /\ Posted[n] < Len(Msgs[n]) /\ Posted' = [Posted EXCEPT ![n] = @ + 1]
         /\ Delivered' = Delivered /\ flag' = flag /\ Finished' = Finished
<1> DEFINE c == app[n].k
           u == <<n, c + 1>>
<1>1. /\ c < Len(Msgs[n]) /\ flag' = flag /\ copied' = copied
      /\ app' = [app EXCEPT ![n] = [k |-> c + 1, msg |-> 0, phase |-> "loop", slot |-> 0]]
      /\ m_nMessagesRx' = [m_nMessagesRx EXCEPT ![u] = 0]
  BY Zenon DEF StartPost
<1>2. c \in Nat /\ Len(Msgs[n]) \in Nat
  BY AppType, NodeAssumption DEF AllInv
<1>3. app \in [Node -> AppState] /\ m_nMessagesRx \in [Transaction -> Nat]
  BY Zenon DEF AllInv, TypeInv, TypeOK
<1>4. Posted[n] = c /\ Posted' = [Posted EXCEPT ![n] = c + 1]
  BY Zenon, <1>1, <1>3 DEF Posted
<1>5. Delivered' = Delivered
  BY Zenon, <1>1 DEF Delivered, DoneSet, Done, NumMsgs, msgCount
<1>6. c + 1 \in 1 .. Len(Msgs[n]) /\ c + 1 > c
  BY <1>1, <1>2
<1>7. u \in Transaction /\ msgCount(u) # 0
  <2>1. msgCount(u) \in Nat \ {0} /\ u \in Transaction
    BY Zenon, <1>6, MsgCountType
  <2>2. QED
    BY Zenon, <2>1
<1>8. m_nMessagesRx[u] = 0
  <2>1. u[1] = n /\ u[2] = c + 1
    BY Zenon
  <2>2. ack[u] = {} /\ m_nMessagesRx[u] = Cardinality(ack[u])
    BY Zenon, <1>6, <1>7, <2>1 DEF AllInv, CountInv, AckedWasPosted, CountedOnce
  <2>3. QED
    BY Zenon, <2>2 DEF Counting
<1>9. m_nMessagesRx' = m_nMessagesRx
  BY Zenon, <1>1, <1>3, <1>7, <1>8
<1>10. Finished' = Finished
  BY Zenon, <1>9 DEF Finished, Complete, msgCount
<1>11. QED
  BY Zenon, <1>1, <1>4, <1>5, <1>10

\* One turn of processFrame's loop is Deliver.
LEMMA DeliverRefines ==
  ASSUME Counting, AllInv, NEW m \in Node, ProcessMsg(m), rx' # rx,
         NEW n, n = Peer[m], NEW k, k = rx[m].k, NEW i, i = rx[m].next, NEW t, t = <<n, k>>
  PROVE  /\ t \in Transaction /\ t[2] <= Posted[t[1]] /\ i \in 1 .. msgCount(t) /\ i \notin Delivered[t]
         /\ Delivered' = [Delivered EXCEPT ![t] = @ \cup {i}]
         /\ flag' = [flag EXCEPT ![t] = (Delivered'[t] = 1 .. msgCount(t))]
         /\ Posted' = Posted /\ Finished' = Finished
<1>1. Handled(n, k, i, t)
  BY Zenon, Reassembles DEF AllInv, ServiceInv
<1>2. /\ n \in Node /\ k = app[n].k /\ k \in 1 .. Len(Msgs[n])
      /\ i \in 1 .. msgCount(t) /\ i \notin DoneSet(t)
      /\ DoneSet(t)' = DoneSet(t) \cup {i}
      /\ \A u \in Transaction : u # t => DoneSet(u)' = DoneSet(u)
      /\ flag' = [flag EXCEPT ![t] = (DoneSet(t)' = 1 .. msgCount(t))]
  BY Zenon, <1>1 DEF Handled
<1>3. t \in Transaction
  BY Zenon, <1>2, MsgCountType
<1>4. app' = app /\ m_nMessagesRx' = m_nMessagesRx
  BY Zenon DEF ProcessMsg
<1>5. Posted' = Posted /\ Finished' = Finished
  BY Zenon, <1>4 DEF Posted, Finished, Complete, msgCount
<1>6. t[1] = n /\ t[2] = k /\ k <= k
  BY <1>2
<1>7. Posted[t[1]] = k
  BY Zenon, <1>2, <1>6 DEF Posted
<1>8. Delivered[t] = DoneSet(t) /\ Delivered'[t] = DoneSet(t)'
  BY Zenon, <1>3 DEF Delivered
<1>9. Delivered' = [Delivered EXCEPT ![t] = Delivered[t] \cup {i}]
  BY Zenon, <1>2, <1>3, <1>8 DEF Delivered
<1>10. QED
  BY Zenon, <1>2, <1>3, <1>5, <1>6, <1>7, <1>8, <1>9

\* A frame that acknowledges the last messages of a transaction is Finish:
\* only the transaction posted last can have been incomplete.
LEMMA FinishRefines ==
  ASSUME AllInv, AllInv', NEW m \in Node, ProcessFrame(m)
  PROVE  \/ SameService
         \/ \E t \in Transaction :
              /\ flag[t] /\ ~ Finished[t] /\ Finished' = [Finished EXCEPT ![t] = TRUE]
              /\ Posted' = Posted /\ Delivered' = Delivered /\ flag' = flag
<1>1. PICK p \in net : ProcessDup(m, p) \/ ProcessNew(m, p)
  BY Zenon DEF ProcessFrame
<1>2. UNCHANGED <<app, copied, flag>>
  BY Zenon DEF ProcessFrame
<1>3. Posted' = Posted /\ Delivered' = Delivered
  BY Zenon, <1>2 DEF Posted, Delivered, DoneSet, Done, NumMsgs, msgCount
<1>4. \A t \in Transaction : /\ Complete(t) <=> ack[t] = 1 .. msgCount(t)
                             /\ Complete(t)' <=> ack'[t] = 1 .. msgCount(t)
  <2>1. CompleteIsAllAcked /\ CompleteIsAllAcked'
    BY Zenon DEF AllInv
  <2>2. QED
    BY Zenon, <2>1 DEF CompleteIsAllAcked, msgCount
<1>5. CASE ProcessDup(m, p)
  <2>1. ack' = ack
    BY Zenon, <1>5 DEF ProcessDup
  <2>2. Finished' = Finished
    BY Zenon, <1>4, <2>1 DEF Finished, Complete
  <2>3. QED
    BY Zenon, <1>2, <1>3, <2>2 DEF SameService
<1>6. CASE ProcessNew(m, p)
  <2>0. PICK c : c = <<m, app[m].k>>
    BY Zenon
  <2> DEFINE S == Acked(m, p)
  <2>1. ack' = [t \in Transaction |-> ack[t] \cup
          UNION {MsgsIn(m_freeFrames[m][s]) : s \in FramesOf(m, S, t)}]
    BY Zenon, <1>6 DEF ProcessNew, ReleaseFrames
  <2> HIDE DEF S
  <2>2. ASSUME NEW t \in Transaction, t # c PROVE Complete(t)' <=> Complete(t)
    <3>1. /\ t[1] \in Node /\ t[2] \in 1 .. Len(Msgs[t[1]]) /\ t = <<t[1], t[2]>>
          /\ t[2] \in Nat /\ msgCount(t) \in Nat \ {0}
      BY Zenon, TransactionParts
    <3>2. CASE t[1] # m
      <4>1. FramesOf(m, S, t) = {}
        <5>1. \A s \in S : t # <<m, m_freeFrames[m][s].transaction>>
          BY <3>1, <3>2
        <5>2. QED
          BY Zenon, <5>1 DEF FramesOf
      <4>2. ack'[t] = ack[t]
        BY Zenon, <2>1, <4>1
      <4>3. QED
        BY Zenon, <1>4, <4>2
    <3>3. CASE t[1] = m
      <4>1. t[2] # app[m].k /\ app[m].k \in Nat
        BY Zenon, <2>0, <2>2, <3>1, <3>3, AppType DEF AllInv
      <4>2. CASE t[2] < app[m].k
        <5>1. ack[t] = 1 .. msgCount(t)
          <6>1. Progress(m, t[2]) /\ t = <<m, t[2]>>
            BY Zenon, <3>1, <3>3 DEF AllInv, ServiceInv, Assembled
          <6>2. QED
            BY Zenon, <4>2, <6>1 DEF Progress
        <5>2. ack'[t] = 1 .. msgCount(t)
          <6>1. ack[t] \subseteq ack'[t]
            BY Zenon, <2>1
          <6>2. ack'[t] \subseteq 1 .. msgCount(t)
            BY Zenon DEF AllInv, CountInv, CountedOnce, msgCount
          <6>3. QED
            BY Zenon, <5>1, <6>1, <6>2
        <5>3. QED
          BY Zenon, <1>4, <5>1, <5>2
      <4>3. CASE t[2] > app[m].k
        <5>1. ack[t] = {} /\ ack'[t] = {}
          BY Zenon, <1>2, <3>3, <4>3 DEF AllInv, CountInv, AckedWasPosted
        <5>2. QED
          BY Zenon, <1>4, <5>1
      <4>4. QED
        BY <3>1, <4>1, <4>2, <4>3
    <3>4. QED
      BY Zenon, <3>2, <3>3
  <2>3. CASE c \in Transaction /\ ~ Complete(c) /\ Complete(c)'
    <3>1. CompleteWasDelivered'
      BY DeliveredFirst, PTL
    <3>2. flag[c]
      BY Zenon, <1>2, <2>3, <3>1 DEF CompleteWasDelivered
    <3>3. ~ Finished[c] /\ Finished' = [Finished EXCEPT ![c] = TRUE]
      <4>1. \A t \in Transaction : Complete(t)' = IF t = c THEN TRUE ELSE Complete(t)
        BY Zenon, <2>2, <2>3 DEF Complete
      <4> HIDE DEF Complete
      <4>2. QED
        BY Zenon, <2>3, <4>1 DEF Finished
    <3>4. QED
      BY Zenon, <1>2, <1>3, <2>3, <3>2, <3>3
  <2>4. CASE ~ (c \in Transaction /\ ~ Complete(c) /\ Complete(c)')
    <3>1. ASSUME NEW t \in Transaction, Complete(t) PROVE Complete(t)'
      <4>1. ack[t] \subseteq ack'[t] /\ ack[t] = 1 .. msgCount(t)
        BY Zenon, <1>4, <2>1, <3>1
      <4>2. ack'[t] \subseteq 1 .. msgCount(t)
        BY Zenon DEF AllInv, CountInv, CountedOnce, msgCount
      <4>3. QED
        BY Zenon, <1>4, <4>1, <4>2
    <3>2. \A t \in Transaction : Complete(t)' <=> Complete(t)
      BY Zenon, <2>2, <2>4, <3>1
    <3>3. Finished' = Finished
      BY Zenon, <3>2 DEF Finished, Complete
    <3>4. QED
      BY Zenon, <1>2, <1>3, <3>3 DEF SameService
  <2>5. QED
    BY Zenon, <2>3, <2>4
<1>7. QED
  BY Zenon, <1>1, <1>5, <1>6

LEMMA QuietRefines ==
  ASSUME Quiet, m_nMessagesRx' = m_nMessagesRx PROVE SameService
<1>1. Posted' = Posted
  BY Zenon DEF Quiet, Posted
<1>2. Delivered' = Delivered /\ flag' = flag
  BY Zenon DEF Quiet, Delivered, DoneSet, Done, NumMsgs, msgCount
<1>3. Finished' = Finished
  BY Zenon DEF Finished, Complete, msgCount
<1>4. QED
  BY Zenon, <1>1, <1>2, <1>3 DEF SameService

\* The mapping of Datagram's Service, with these names.
LEMMA ServiceTerms ==
  /\ Service!avars = <<Posted, DeliveredTo, flag, Finished>>
  /\ Service!Transfer = Transaction /\ \A t : Service!MsgsOf(t) = 1 .. msgCount(t)
  BY Zenon DEF Service!avars, Service!Transfer, Service!MsgsOf, Posted, DeliveredTo, Finished,
     Transaction, msgCount

LEMMA ServiceNext ==
  ASSUME Counting, Usual, AllInv, AllInv', [Next]_vars
  PROVE  [Service!ANext]_(Service!avars)
<1>1. DeliveredTo = Delivered /\ DeliveredTo' = Delivered'
  <2>1. (DeliveredTo = Delivered)'
    BY DeliveredIsDone, PTL
  <2>2. QED
    BY Zenon, <2>1, DeliveredIsDone
<1>2. ASSUME SameService PROVE UNCHANGED Service!avars
  BY Zenon, <1>1, <1>2 DEF SameService, Service!avars, Posted, DeliveredTo, Finished
<1>3. ASSUME NEW n \in Node, StartPost(n) PROVE Service!ANext
  <2>1. /\ Posted[n] < Len(Msgs[n]) /\ Posted' = [Posted EXCEPT ![n] = Posted[n] + 1]
        /\ DeliveredTo' = DeliveredTo /\ flag' = flag /\ Finished' = Finished
    BY Zenon, <1>1, <1>3, PostRefines
  <2>2. Service!Post(n)
    BY Zenon, <2>1 DEF Service!Post, Posted, DeliveredTo, Finished
  <2>3. QED
    BY Zenon, <2>2 DEF Service!ANext
<1>4. ASSUME NEW m \in Node, ProcessMsg(m) PROVE Service!ANext \/ UNCHANGED Service!avars
  <2>1. CASE rx' = rx
    <3>1. Quiet /\ m_nMessagesRx' = m_nMessagesRx
      BY Zenon, <1>4, <2>1, MsgAborts DEF AllInv, ProcessMsg, Quiet
    <3>2. QED
      BY Zenon, <1>2, <3>1, QuietRefines
  <2>2. CASE rx' # rx
    <3>1. PICK t, i :
            /\ t \in Transaction /\ t[2] <= Posted[t[1]] /\ i \in 1 .. msgCount(t) /\ i \notin DeliveredTo[t]
            /\ DeliveredTo' = [DeliveredTo EXCEPT ![t] = @ \cup {i}]
            /\ flag' = [flag EXCEPT ![t] = (DeliveredTo'[t] = 1 .. msgCount(t))]
            /\ Posted' = Posted /\ Finished' = Finished
      BY Zenon, <1>1, <1>4, <2>2, DeliverRefines
    <3>2. t \in Service!Transfer /\ Service!MsgsOf(t) = 1 .. msgCount(t)
      BY Zenon, <3>1, ServiceTerms
    <3>3. Service!Deliver(t)
      BY Zenon, <3>1, <3>2 DEF Service!Deliver, Posted, DeliveredTo, Finished
    <3>4. QED
      BY Zenon, <3>2, <3>3 DEF Service!ANext
  <2>3. QED
    BY Zenon, <2>1, <2>2
<1>5. ASSUME NEW m \in Node, ProcessFrame(m) PROVE Service!ANext \/ UNCHANGED Service!avars
  <2>1. CASE SameService
    BY Zenon, <1>2, <2>1
  <2>2. CASE ~ SameService
    <3>1. PICK t \in Transaction :
            /\ flag[t] /\ ~ Finished[t] /\ Finished' = [Finished EXCEPT ![t] = TRUE]
            /\ Posted' = Posted /\ DeliveredTo' = DeliveredTo /\ flag' = flag
      BY Zenon, <1>1, <1>5, <2>2, FinishRefines
    <3>2. Service!Finish(t)
      BY Zenon, <3>1 DEF Service!Finish, Posted, DeliveredTo, Finished
    <3>3. QED
      BY Zenon, <3>2, ServiceTerms DEF Service!ANext
  <2>3. QED
    BY Zenon, <2>1, <2>2
<1>6. ASSUME NEW n \in Node, GetFrame(n) \/ FillFrame(n) \/ PostFrame(n) \/ CheckAcks(n) \/ SendAcks(n)
      PROVE  UNCHANGED Service!avars
  <2>1. m_nMessagesRx' = m_nMessagesRx
    BY Zenon, <1>6 DEF WindowAbort, GetFrame, FillFrame, PostFrame, CheckAcks, SendAcks
  <2>2. Quiet
    BY Zenon, <1>6, QuietSteps DEF AllInv
  <2>3. QED
    BY Zenon, <1>2, <2>1, <2>2, QuietRefines
<1>7. CASE Lose \/ Duplicate \/ UNCHANGED vars
  <2>1. Quiet /\ m_nMessagesRx' = m_nMessagesRx
    BY Zenon, <1>7 DEF Lose, Duplicate, vars, Quiet
  <2>2. QED
    BY Zenon, <1>2, <2>1, QuietRefines
<1>8. QED
  BY Zenon, <1>3, <1>4, <1>5, <1>6, <1>7 DEF Next, NodeStep, AppStep

LEMMA ServiceInit == ASSUME Init PROVE Service!AInit
<1>1. /\ flag = [t \in Transaction |-> FALSE] /\ copied = [m \in Message |-> 0]
      /\ app = [n \in Node |-> [k |-> 0, msg |-> 0, phase |-> "idle", slot |-> 0]]
      /\ m_nMessagesRx = [t \in Transaction |-> 0]
  BY Zenon DEF Init
<1>2. Posted = [n \in Node |-> 0]
  BY Zenon, <1>1 DEF Posted
<1>3. DeliveredTo = [t \in Transaction |-> {}]
  <2>1. ASSUME NEW t \in Transaction PROVE DoneSet(t) = {}
    <3>1. \A i \in 1 .. msgCount(t) : copied[<<t, i>>] = 0 /\ ~ flag[t]
      BY Zenon, <1>1, MessageType
    <3>2. ~ (0 > 0)
      OBVIOUS
    <3>3. QED
      BY Zenon, <3>1, <3>2 DEF DoneSet, Done
  <2>2. QED
    BY Zenon, <2>1, DeliveredIsDone DEF Delivered
<1>4. Finished = [t \in Transaction |-> FALSE]
  <2>1. ASSUME NEW t \in Transaction PROVE ~ Complete(t)
    <3>1. m_nMessagesRx[t] = 0 /\ msgCount(t) \in Nat \ {0}
      BY Zenon, <1>1, TransactionParts
    <3>2. QED
      BY Zenon, <3>1 DEF Complete
  <2>2. \A t \in Transaction : Complete(t) = FALSE
    BY Zenon, <2>1 DEF Complete
  <2>3. QED
    BY Zenon, <2>2 DEF Finished
<1>5. QED
  BY Zenon, <1>1, <1>2, <1>3, <1>4, ServiceTerms DEF Service!AInit, Posted, DeliveredTo, Finished
=============================================================================
