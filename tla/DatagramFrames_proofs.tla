----------------------- MODULE DatagramFrames_proofs ------------------------
(***************************************************************************)
(* Every step of Datagram keeps the invariants about the numbers of frames *)
(* and messages, OnceInv, about the assertions of the layer, InPlayInv,    *)
(* and about the count of acknowledged messages, CountInv. The types and   *)
(* the facts about finite sets (Counting) are an assumption here;          *)
(* Datagram_proofs puts the parts together.                                *)
(***************************************************************************)
EXTENDS DatagramInvariants, Integers, TLAPS

\* Every position of the record of received frames and of the ring exists.
LEMMA SlotType == ASSUME NEW f \in Nat PROVE Slot(f) \in Slots
BY SizeAssumption DEF Slot, Slots

\* Every transaction has at least one message.
LEMMA MsgCountType ==
  ASSUME NEW n \in Node, NEW k \in 1 .. Len(Msgs[n])
  PROVE  /\ msgCount(<<n, k>>) \in Nat \ {0}
         /\ <<n, k>> \in Transaction
BY NodeAssumption DEF msgCount, Transaction

\* All identifiers below MAX_TRANSACTION_HISTORY select record 0.
LEMMA RecordIndexIsZero == ASSUME NEW k \in TransNo PROVE RecordIndex(k) = 0
<1>1. History \in Nat /\ History > 0 /\ k \in Nat /\ k < History
  BY SizeAssumption DEF TransNo
<1>2. k \div History = 0
  BY <1>1, Z3
<1>3. QED
  BY <1>1, <1>2 DEF RecordIndex

\* Facts about ranges, records and functions, apart from any state.
LEMMA RangeIsNat == ASSUME NEW b, NEW k \in 1 .. b PROVE k \in Nat
OBVIOUS

LEMMA RangeOfRange ==
  ASSUME NEW b \in Nat, NEW c \in 1 .. b, NEW i \in 1 .. c
  PROVE  i \in Nat /\ c \in Nat /\ i <= c /\ 1 <= i /\ c <= b
OBVIOUS

LEMMA NextInRange == ASSUME NEW c \in Nat, NEW i \in 1 .. c, i # c PROVE i + 1 \in 1 .. c
OBVIOUS

LEMMA LaterApart ==
  ASSUME NEW m \in Nat, NEW c \in Nat, NEW a \in Nat, NEW b \in Nat, b # 0 => a + b - 1 <= m
  PROVE  (a .. a + b - 1) \cap (m + 1 .. m + c) = {}
OBVIOUS

IsReading(r, a, b, c) == r = [k |-> a, next |-> b, last |-> c]
ReadingIs(r, a, b, c) == r.k = a /\ r.next = b /\ r.last = c

LEMMA RecordFields ==
  ASSUME NEW r, NEW a, NEW b, NEW c, IsReading(r, a, b, c) PROVE ReadingIs(r, a, b, c)
BY Zenon DEF IsReading, ReadingIs

IsWritten(G, F, n, x, g) == G = [F EXCEPT ![n][x] = g]
WrittenIs(G, F, n, x, g) ==
  /\ G[n][x] = g
  /\ \A o \in Node : \A s \in Slots : ~ (o = n /\ s = x) => G[o][s] = F[o][s]

LEMMA OnlyOneFrame ==
  ASSUME NEW F \in [Node -> [Slots -> Frame]], NEW n \in Node, NEW x \in Slots, NEW g,
         NEW G, IsWritten(G, F, n, x, g)
  PROVE  WrittenIs(G, F, n, x, g)
BY Zenon DEF IsWritten, WrittenIs

\* Before the number wraps, the header holds the number itself.
LEMMA WireIsNumber ==
  ASSUME ConservativeTiming, NEW n, NEW f, NumberUsed(n, f)
  PROVE  Wire(f) = f
<1>1. f \in Nat /\ f < SeqMod
  BY SizeAssumption DEF NumberUsed, ConservativeTiming
<1>2. QED
  BY <1>1, SizeAssumption DEF Wire

-----------------------------------------------------------------------------
(***************************************************************************)
(* Copies (OnceInv).                                                       *)
(***************************************************************************)

\* Two of the last NFrames numbers that share a position are the same.
LEMMA SlotGap ==
  ASSUME NEW x \in Nat, NEW y \in Nat, NEW m \in Nat, x < m, y < m,
         m <= x + NFrames, m <= y + NFrames, Slot(x) = Slot(y)
  PROVE  x = y
<1> DEFINE N == NFrames
<1>1. N \in Nat /\ N > 0
  BY SizeAssumption
<1>2. x % N = y % N
  BY Zenon DEF Slot
<1> HIDE DEF N
<1>3. x = N * (x \div N) + (x % N) /\ y = N * (y \div N) + (y % N)
      /\ x \div N \in Nat /\ y \div N \in Nat /\ x % N \in Nat
  BY <1>1, Z3
<1>4. x - y < N /\ y - x < N
  BY <1>1 DEF N
<1> DEFINE a == x \div N
           b == y \div N
<1>5. x - y = N * a - N * b /\ a \in Nat /\ b \in Nat
  BY <1>1, <1>2, <1>3
<1> HIDE DEF a, b
<1>6. CASE a = b
  BY <1>1, <1>5, <1>6
<1>7. CASE a > b
  <2>1. N * a >= N * b + N
    BY <1>1, <1>5, <1>7, Z3
  <2>2. QED
    BY <1>1, <1>4, <1>5, <2>1, Z3
<1>8. CASE a < b
  <2>1. N * b >= N * a + N
    BY <1>1, <1>5, <1>8, Z3
  <2>2. QED
    BY <1>1, <1>4, <1>5, <2>1, Z3
<1>9. QED
  BY <1>5, <1>6, <1>7, <1>8

LEMMA PeerFacts ==
  \A n \in Node : Peer[n] \in Node /\ Peer[n] # n /\ Peer[Peer[n]] = n
  BY Zenon, NodeAssumption

LEMMA AppType ==
  ASSUME TypeInv, NEW n \in Node PROVE app[n].k \in Nat /\ app[n].msg \in Nat
<1>1. app[n] \in AppState
  BY Zenon DEF TypeInv, TypeOK
<1>2. app[n].k \in TransNo /\ app[n].msg \in Nat
  BY Zenon, <1>1 DEF AppState
<1>3. ASSUME NEW k \in TransNo PROVE k \in Nat
  BY SizeAssumption DEF TransNo
<1>4. QED
  BY Zenon, <1>2, <1>3

\* What frames have carried is not unsent.
LEMMA NotUnsent ==
  ASSUME TypeInv, NEW n \in Node, NEW k, NEW lo, NEW hi, Span(n, k, lo, hi), NEW i \in lo .. hi
  PROVE  ~ Unsent(n, k, i)
<1> DEFINE a == app[n].k
           c == app[n].msg
<1>1. a \in Nat /\ c \in Nat
  BY Zenon, AppType
<1>2. /\ k \in 1 .. Len(Msgs[n]) /\ hi \in 1 .. msgCount(<<n, k>>) /\ lo \in 1 .. hi
      /\ k <= a /\ (k = a => hi <= c)
  BY Zenon DEF Span
<1>3. k \in Nat /\ hi \in Nat /\ lo \in Nat
  BY Zenon, <1>2, RangeIsNat
<1>4. SUFFICES ~ (k > a \/ (k = a /\ i > c))
  BY Zenon DEF Unsent
<1> HIDE DEF a, c
<1>5. QED
  BY <1>1, <1>2, <1>3

LEMMA MessageType ==
  ASSUME NEW t \in Transaction, NEW i \in 1 .. msgCount(t) PROVE <<t, i>> \in Message
BY DEF Message

LEMMA SentType ==
  ASSUME TypeOK, NEW n \in Node, NEW h \in Sent(n)
  PROVE  h.seq \in Nat /\ h.iov \in Nat /\ h.first \in Nat /\ h.msg_count \in Nat
<1>1. CASE h \in Packet
  BY SizeAssumption, <1>1 DEF Packet, TransNo
<1>2. CASE h \in Frame
  BY SizeAssumption, <1>2 DEF Frame, TransNo
<1>3. h \in Packet \/ h \in Frame
  <2>1. CASE h \in {p \in net : p.src = n}
    BY Zenon, <2>1 DEF TypeOK
  <2>2. CASE \E s \in Slots : h = m_freeFrames[n][s]
    BY <2>2 DEF TypeOK
  <2>3. QED
    BY Zenon, <2>1, <2>2 DEF Sent
<1>4. QED
  BY Zenon, <1>1, <1>2, <1>3

LEMMA FitAlike ==
  ASSUME NEW n \in Node, NEW g, NEW h, Alike(h, g), Fit(n, g)
  PROVE  Fit(n, h)
  BY Zenon DEF Fit, Alike, Loads

\* A step that sends, repeats, loses or releases frames leaves every message
\* under its number.
LEMMA OneNumberKept ==
  ASSUME OneNumber, \A n \in Node : \A h \in Sent(n)' : \E g \in Sent(n) : Alike(h, g)
  PROVE  OneNumber'
<1> SUFFICES ASSUME NEW n \in Node, NEW g \in Sent(n)', NEW h \in Sent(n)',
                    g.iov = h.iov, Loads(g) \cap Loads(h) # {}
             PROVE  g.seq = h.seq
  BY Zenon DEF OneNumber, Loads
<1>1. PICK c \in Sent(n) : Alike(g, c)
  BY Zenon
<1>2. PICK d \in Sent(n) : Alike(h, d)
  BY Zenon
<1>3. c.iov = d.iov /\ Loads(c) = Loads(g) /\ Loads(d) = Loads(h)
  BY Zenon, <1>1, <1>2 DEF Alike, Loads
<1>4. c.seq = d.seq
  BY Zenon, <1>3 DEF OneNumber
<1>5. QED
  BY Zenon, <1>1, <1>2, <1>4 DEF Alike

\* post() moves on: it stays at its message, or goes to a later transaction.
Onward(n) == \/ app'[n].k = app[n].k /\ app'[n].msg = app[n].msg
             \/ app[n].k < app'[n].k

LEMMA OnwardSpan ==
  ASSUME TypeInv, NEW n \in Node, app'[n].k \in Nat, Onward(n)
  PROVE  /\ \A k, lo, hi : Span(n, k, lo, hi) => Span(n, k, lo, hi)'
         /\ \A k \in Nat : \A i : Unsent(n, k, i)' => Unsent(n, k, i)
<1>1. app[n].k \in Nat
  BY SizeAssumption DEF TypeInv, TypeOK, AppState, TransNo
<1>2. ASSUME NEW k, NEW lo, NEW hi, Span(n, k, lo, hi) PROVE Span(n, k, lo, hi)'
  <2>1. k \in Nat /\ k <= app[n].k
    BY Zenon, <1>2, RangeIsNat DEF Span
  <2>2. k <= app'[n].k /\ (k = app'[n].k => k = app[n].k /\ app'[n].msg = app[n].msg)
    BY <1>1, <2>1 DEF Onward
  <2>3. QED
    BY Zenon, <1>2, <2>2 DEF Span, msgCount
<1>3. ASSUME NEW k \in Nat, NEW i, Unsent(n, k, i)' PROVE Unsent(n, k, i)
  BY <1>1, <1>3 DEF Unsent, Onward
<1>4. QED
  BY Zenon, <1>2, <1>3

\* A step that leaves the socket thread alone.
LEMMA ReadKept ==
  ASSUME ReadFit, UNCHANGED <<rx, copied, flag>>,
         \A n \in Node : \A k, lo, hi : Span(n, k, lo, hi) => Span(n, k, lo, hi)'
  PROVE  ReadFit'
<1>1. rx' = rx /\ copied' = copied /\ flag' = flag
  BY Zenon
<1> SUFFICES ASSUME NEW n \in Node, rx[Peer[n]] # NoMsg
    PROVE /\ Span(n, rx[Peer[n]].k, rx[Peer[n]].next, rx[Peer[n]].last)'
          /\ \A i \in Reading(Peer[n])' : ~ Done(<<n, rx[Peer[n]].k>>, i)'
  BY Zenon, <1>1 DEF ReadFit, NoMsg
<1>2. /\ Span(n, rx[Peer[n]].k, rx[Peer[n]].next, rx[Peer[n]].last)
      /\ \A i \in Reading(Peer[n]) : ~ Done(<<n, rx[Peer[n]].k>>, i)
  BY Zenon DEF ReadFit
<1>3. \A i \in Reading(Peer[n])' : ~ Done(<<n, rx[Peer[n]].k>>, i)'
  BY Zenon, <1>1, <1>2 DEF Reading, NoMsg, Done, NumMsgs, msgCount
<1>4. Span(n, rx[Peer[n]].k, rx[Peer[n]].next, rx[Peer[n]].last)'
  <2> DEFINE k == rx[Peer[n]].k
             lo == rx[Peer[n]].next
             hi == rx[Peer[n]].last
  <2>1. k' = k /\ lo' = lo /\ hi' = hi
    BY Zenon, <1>1
  <2>2. Span(n, k, lo, hi)
    BY Zenon, <1>2
  <2>3. /\ k \in 1 .. Len(Msgs[n]) /\ hi \in 1 .. msgCount(<<n, k>>) /\ lo \in 1 .. hi
        /\ k <= app'[n].k /\ (k = app'[n].k => hi <= app'[n].msg)
    <3> HIDE DEF k, lo, hi
    <3>1. \A a, b, c : Span(n, a, b, c) =>
            /\ a \in 1 .. Len(Msgs[n]) /\ c \in 1 .. msgCount(<<n, a>>) /\ b \in 1 .. c
            /\ a <= app'[n].k /\ (a = app'[n].k => c <= app'[n].msg)
      BY Zenon DEF Span, msgCount
    <3>2. QED
      BY Zenon, <2>2, <3>1
  <2>4. QED
    BY Zenon, <2>1, <2>3 DEF Span, msgCount
<1>5. QED
  BY Zenon, <1>3, <1>4

\* A step that hands nothing to the socket thread and claims or fills no frame.
LEMMA QuietOnce ==
  ASSUME TypeInv, OnceInv,
         UNCHANGED <<m_frameSeq, received, m_frameSeqRecord, rx, copied, flag>>,
         \A n \in Node : \A h \in Sent(n)' : \E g \in Sent(n) : Alike(h, g),
         \A n \in Node : \A s \in Slots :
           /\ Alike(m_freeFrames'[n][s], m_freeFrames[n][s])
           /\ m_freeFrames[n][s].is_free => m_freeFrames'[n][s].is_free,
         \A p \in net' : p.seq # 0,
         \A n \in Node : app'[n].k \in Nat /\ Onward(n),
         \A n \in Node : \A s \in Slots : Holds(n, s)' => Holds(n, s),
         \A n \in Node : app'[n].phase = "got" =>
           app[n].phase = "got" /\ app'[n].slot = app[n].slot
  PROVE  OnceInv'
<1>1. /\ m_frameSeq' = m_frameSeq /\ received' = received /\ rx' = rx
      /\ m_frameSeqRecord' = m_frameSeqRecord /\ copied' = copied /\ flag' = flag
  BY Zenon
<1>2. ASSUME NEW n \in Node, NEW k, NEW i
      PROVE  /\ Done(<<n, k>>, i)' <=> Done(<<n, k>>, i)
             /\ Fresh(n, k, i)' <=> Fresh(n, k, i)
             /\ Reading(Peer[n])' = Reading(Peer[n])
  BY Zenon, <1>1 DEF Done, Fresh, Reading, NumMsgs, msgCount, NoMsg
<1>3. ASSUME NEW n \in Node
      PROVE  /\ \A k, lo, hi : Span(n, k, lo, hi) => Span(n, k, lo, hi)'
             /\ \A k \in Nat : \A i : Unsent(n, k, i)' => Unsent(n, k, i)
  BY Zenon, OnwardSpan
<1>4. Carried'
  <2> SUFFICES ASSUME NEW n \in Node, NEW h \in Sent(n)' PROVE Fit(n, h)'
    BY Zenon DEF Carried
  <2>1. PICK g \in Sent(n) : Alike(h, g)
    BY Zenon
  <2>2. Fit(n, h)
    BY Zenon, <2>1, FitAlike DEF OnceInv, Carried
  <2>3. \A i : Fresh(n, h.iov, i) => Fresh(n, h.iov, i)'
    BY Zenon, <1>2
  <2>4. Span(n, h.iov, h.first, h.first + h.msg_count - 1) =>
          Span(n, h.iov, h.first, h.first + h.msg_count - 1)'
    BY Zenon, <1>3
  <2>5. QED
    BY Zenon, <1>1, <2>2, <2>3, <2>4 DEF Fit, Slot, Wire, Loads
<1>5. OneNumber'
  BY Zenon, OneNumberKept DEF OnceInv
<1>6. RingFit'
  <2> SUFFICES ASSUME NEW n \in Node, NEW s \in Slots
      PROVE LET f == m_freeFrames'[n][s] IN
            /\ IF f.seq = 0 THEN f.is_free /\ f.msg_count = 0 /\ ~ Holds(n, s)'
                            ELSE Slot(f.seq) = s
            /\ app'[n].phase = "got" /\ app'[n].slot = s => f.msg_count = 0
            /\ f.msg_count = 0 => /\ f.seq \notin received'[Peer[n]]
                                  /\ \A g \in Sent(n)' : g.seq = f.seq => g.msg_count = 0
    BY Zenon DEF RingFit, Slot
  <2> DEFINE f == m_freeFrames[n][s]
  <2>1. /\ IF f.seq = 0 THEN f.is_free /\ f.msg_count = 0 /\ ~ Holds(n, s) ELSE Slot(f.seq) = s
        /\ app[n].phase = "got" /\ app[n].slot = s => f.msg_count = 0
        /\ f.msg_count = 0 =>
             f.seq \notin received[Peer[n]] /\ \A g \in Sent(n) : g.seq = f.seq => g.msg_count = 0
    BY Zenon DEF OnceInv, RingFit
  <2>2. /\ m_freeFrames'[n][s].seq = f.seq /\ m_freeFrames'[n][s].msg_count = f.msg_count
        /\ f.is_free => m_freeFrames'[n][s].is_free
    BY Zenon DEF Alike
  <2> HIDE DEF f
  <2>3. ASSUME f.msg_count = 0, NEW g \in Sent(n)', g.seq = f.seq PROVE g.msg_count = 0
    <3>1. PICK c \in Sent(n) : Alike(g, c)
      BY Zenon
    <3>2. c.seq = f.seq /\ g.msg_count = c.msg_count
      BY Zenon, <2>3, <3>1 DEF Alike
    <3>3. \A d \in Sent(n) : d.seq = f.seq => d.msg_count = 0
      BY Zenon, <2>1, <2>3
    <3>4. QED
      BY Zenon, <3>2, <3>3
  <2>4. QED
    BY Zenon, <1>1, <2>1, <2>2, <2>3
<1>7. Numbered'
  BY Zenon, <1>1 DEF OnceInv, Numbered
<1>8. ReadFit'
  BY Zenon, <1>1, <1>3, ReadKept DEF OnceInv
<1>9. UnsentFresh'
  <2> SUFFICES ASSUME NEW n \in Node, NEW k \in 1 .. Len(Msgs[n]),
                      NEW i \in 1 .. msgCount(<<n, k>>), Unsent(n, k, i)'
               PROVE  Fresh(n, k, i)'
    BY Zenon DEF UnsentFresh, msgCount
  <2>1. k \in Nat
    BY Zenon, RangeIsNat
  <2>2. Unsent(n, k, i)
    BY Zenon, <1>3, <2>1
  <2>3. QED
    BY Zenon, <1>2, <2>2 DEF OnceInv, UnsentFresh
<1>10. AtMostOnce'
  BY Zenon, <1>1 DEF OnceInv, AtMostOnce
<1>11. QED
  BY Zenon, <1>4, <1>5, <1>6, <1>7, <1>8, <1>9, <1>10 DEF OnceInv

\* Every datagram and frame after a step is like one before.
LEMMA SentAlike ==
  ASSUME \A n \in Node : \A s \in Slots : Alike(m_freeFrames'[n][s], m_freeFrames[n][s]),
         \A p \in net' : p \in net \/ \E g \in Sent(p.src) : Alike(p, g)
  PROVE  \A n \in Node : \A h \in Sent(n)' : \E g \in Sent(n) : Alike(h, g)
<1> SUFFICES ASSUME NEW n \in Node, NEW h \in Sent(n)' PROVE \E g \in Sent(n) : Alike(h, g)
  BY Zenon
<1>1. CASE h \in net' /\ h.src = n
  <2>1. CASE h \in net
    <3>1. h \in Sent(n) /\ Alike(h, h)
      BY Zenon, <1>1, <2>1 DEF Sent, Alike
    <3>2. QED
      BY Zenon, <3>1
  <2>2. QED
    BY Zenon, <1>1, <2>1
<1>2. CASE \E s \in Slots : h = m_freeFrames'[n][s]
  <2>1. PICK s \in Slots : h = m_freeFrames'[n][s]
    BY Zenon, <1>2
  <2>2. m_freeFrames[n][s] \in Sent(n) /\ Alike(h, m_freeFrames[n][s])
    BY Zenon, <2>1 DEF Sent
  <2>3. QED
    BY Zenon, <2>2
<1>3. QED
  BY Zenon, <1>1, <1>2 DEF Sent

\* Sending a frame, for the first time or again.
LEMMA SendOnce ==
  ASSUME TypeInv, OnceInv, NEW n \in Node, NEW s \in Slots, NEW g, NEW c,
         m_freeFrames[n][s].seq # 0,
         Alike(g, m_freeFrames[n][s]), m_freeFrames[n][s].is_free => g.is_free,
         m_freeFrames' = [m_freeFrames EXCEPT ![n][s] = g],
         net' = net \cup {PacketOf(n, m_freeFrames[n][s], c)}
  PROVE  /\ \A o \in Node : \A h \in Sent(o)' : \E d \in Sent(o) : Alike(h, d)
         /\ \A o \in Node : \A r \in Slots :
              /\ Alike(m_freeFrames'[o][r], m_freeFrames[o][r])
              /\ m_freeFrames[o][r].is_free => m_freeFrames'[o][r].is_free
         /\ \A p \in net' : p.seq # 0
<1> DEFINE f == m_freeFrames[n][s]
           q == PacketOf(n, f, c)
<1>1. q.src = n /\ q.seq = f.seq /\ Alike(q, f) /\ f \in Sent(n)
  BY Zenon DEF PacketOf, Alike, Sent
<1>2. m_freeFrames'[n][s] = g /\ \A o \in Node : \A r \in Slots :
        ~ (o = n /\ r = s) => m_freeFrames'[o][r] = m_freeFrames[o][r]
  BY Zenon DEF TypeInv, TypeOK
<1>3. \A o \in Node : \A r \in Slots :
        /\ Alike(m_freeFrames'[o][r], m_freeFrames[o][r])
        /\ m_freeFrames[o][r].is_free => m_freeFrames'[o][r].is_free
  BY Zenon, <1>2 DEF Alike
<1> HIDE DEF q
<1>4. \A p \in net' : p \in net \/ p = q
  BY Zenon DEF q
<1>5. \A p \in net' : p \in net \/ \E d \in Sent(p.src) : Alike(p, d)
  BY Zenon, <1>1, <1>4
<1>6. \A p \in net' : p.seq # 0
  BY Zenon, <1>1, <1>4 DEF OnceInv, Numbered
<1>7. \A o \in Node : \A h \in Sent(o)' : \E d \in Sent(o) : Alike(h, d)
  BY Zenon, <1>3, <1>5, SentAlike
<1>8. QED
  BY Zenon, <1>3, <1>6, <1>7

LEMMA PostFrameOnce ==
  ASSUME TypeInv, OnceInv, NEW n \in Node, PostFrame(n)
  PROVE  OnceInv'
<1> DEFINE s == app[n].slot
           f == m_freeFrames[n][s]
           g == [f EXCEPT !.send_time = "set", !.sends = @ + 1]
<1>1. /\ app[n].phase = "filled" /\ m_freeFrames' = [m_freeFrames EXCEPT ![n][s] = g]
      /\ net' = net \cup {PacketOf(n, f, f.sends + 1)}
      /\ UNCHANGED <<m_frameSeq, received, m_frameSeqRecord, rx, copied, flag>>
  BY Zenon DEF PostFrame
<1>2. s \in Slots /\ f \in Frame
  BY DEF TypeInv, TypeOK, AppState
<1>3. Alike(g, f) /\ (f.is_free => g.is_free)
  BY Zenon, <1>2 DEF Alike, Frame
<1>4. f.seq # 0
  BY Zenon, <1>1, <1>2 DEF OnceInv, RingFit, Holds
<1>5. /\ app'[n].k = app[n].k /\ app'[n].msg = app[n].msg /\ app'[n].slot = s
      /\ app'[n].phase \in {"loop", "idle"}
      /\ \A o \in Node \ {n} : app'[o] = app[o]
  <2> DEFINE ph == IF app[n].msg < msgCount(<<n, app[n].k>>) THEN "loop" ELSE "idle"
  <2>1. app' = [app EXCEPT ![n] = [@ EXCEPT !.phase = ph]] /\ ph \in {"loop", "idle"}
    BY Zenon DEF PostFrame
  <2> HIDE DEF ph
  <2>2. app \in [Node -> AppState]
    BY Zenon DEF TypeInv, TypeOK
  <2>3. QED
    BY Zenon, <2>1, <2>2 DEF AppState
<1>6. \A o \in Node : app'[o].k \in Nat /\ Onward(o)
  <2>1. \A o \in Node : app[o].k \in Nat
    BY SizeAssumption DEF TypeInv, TypeOK, AppState, TransNo
  <2>2. QED
    BY Zenon, <1>5, <2>1 DEF Onward
<1>7. \A o \in Node : app'[o].phase = "got" =>
        app[o].phase = "got" /\ app'[o].slot = app[o].slot
  BY Zenon, <1>5
<1>8. \A o \in Node : \A r \in Slots : Holds(o, r)' => Holds(o, r)
  BY Zenon, <1>5 DEF Holds
<1> HIDE DEF g, f, s
<1>9. /\ \A o \in Node : \A h \in Sent(o)' : \E d \in Sent(o) : Alike(h, d)
      /\ \A o \in Node : \A r \in Slots :
           /\ Alike(m_freeFrames'[o][r], m_freeFrames[o][r])
           /\ m_freeFrames[o][r].is_free => m_freeFrames'[o][r].is_free
      /\ \A p \in net' : p.seq # 0
  BY Zenon, <1>1, <1>2, <1>3, <1>4, SendOnce DEF f
<1>10. QED
  BY Zenon, <1>1, <1>6, <1>7, <1>8, <1>9, QuietOnce

LEMMA CheckAcksOnce ==
  ASSUME TypeInv, OnceInv, NEW n \in Node, CheckAcks(n)
  PROVE  OnceInv'
<1>1. PICK s \in Slots :
        LET f == m_freeFrames[n][s]
            g == IF f.msg_count = 0
                 THEN [f EXCEPT !.send_time = "set", !.sends = @ + 1,
                                !.is_free = TRUE, !.transaction = 0]
                 ELSE [f EXCEPT !.send_time = "set", !.sends = @ + 1]
        IN /\ ~ f.is_free /\ net' = net \cup {PacketOf(n, f, f.sends + 1)}
           /\ m_freeFrames' = [m_freeFrames EXCEPT ![n][s] = g]
  BY Zenon DEF CheckAcks
<1> DEFINE f == m_freeFrames[n][s]
           g == IF f.msg_count = 0
                THEN [f EXCEPT !.send_time = "set", !.sends = @ + 1,
                               !.is_free = TRUE, !.transaction = 0]
                ELSE [f EXCEPT !.send_time = "set", !.sends = @ + 1]
<1>2. f \in Frame
  BY DEF TypeInv, TypeOK
<1>3. Alike(g, f)
  <2>1. Alike([f EXCEPT !.send_time = "set", !.sends = @ + 1], f)
    BY Zenon, <1>2 DEF Alike, Frame
  <2>2. Alike([f EXCEPT !.send_time = "set", !.sends = @ + 1,
                        !.is_free = TRUE, !.transaction = 0], f)
    BY Zenon, <1>2 DEF Alike, Frame
  <2>3. QED
    BY Zenon, <2>1, <2>2
<1>4. f.seq # 0 /\ ~ f.is_free
  BY Zenon, <1>1 DEF OnceInv, RingFit
<1>5. /\ net' = net \cup {PacketOf(n, f, f.sends + 1)}
      /\ m_freeFrames' = [m_freeFrames EXCEPT ![n][s] = g]
  BY Zenon, <1>1
<1>6. UNCHANGED <<m_frameSeq, received, m_frameSeqRecord, rx, copied, flag, app>>
  BY Zenon DEF CheckAcks
<1> HIDE DEF g, f
<1>7. /\ \A o \in Node : \A h \in Sent(o)' : \E d \in Sent(o) : Alike(h, d)
      /\ \A o \in Node : \A r \in Slots :
           /\ Alike(m_freeFrames'[o][r], m_freeFrames[o][r])
           /\ m_freeFrames[o][r].is_free => m_freeFrames'[o][r].is_free
      /\ \A p \in net' : p.seq # 0
  BY Zenon, <1>3, <1>4, <1>5, SendOnce DEF f
<1>8. \A o \in Node : app'[o].k \in Nat /\ Onward(o)
  <2>1. \A o \in Node : app[o].k \in Nat
    BY SizeAssumption DEF TypeInv, TypeOK, AppState, TransNo
  <2>2. QED
    BY Zenon, <1>6, <2>1 DEF Onward
<1>9. QED
  BY Zenon, <1>6, <1>7, <1>8, QuietOnce DEF Holds

\* Quotient and remainder are unique.
IsSplit(N, v, a, r) == v = N * a + r

LEMMA Remainder ==
  ASSUME NEW N \in Nat, N > 0, NEW a \in Nat, NEW b \in Nat,
         NEW r \in 0 .. N - 1, NEW u \in 0 .. N - 1,
         NEW v, IsSplit(N, v, a, r), IsSplit(N, v, b, u)
  PROVE  r = u
<1>0. N * a + r = N * b + u
  BY Zenon DEF IsSplit
<1>1. CASE a = b
  BY <1>0, <1>1
<1>2. CASE a > b
  <2>1. N * a >= N * b + N
    BY <1>2, Z3
  <2>2. QED
    BY <1>0, <2>1, Z3
<1>3. CASE a < b
  <2>1. N * b >= N * a + N
    BY <1>3, Z3
  <2>2. QED
    BY <1>0, <2>1, Z3
<1>4. QED
  BY <1>1, <1>2, <1>3

\* The next number of a position.
LEMMA SlotNext == ASSUME NEW x \in Nat PROVE Slot(x + NFrames) = Slot(x)
<1> DEFINE N == NFrames
           y == x + N
<1>1. N \in Nat /\ N > 0 /\ y \in Nat /\ y = x + N
  BY SizeAssumption
<1> HIDE DEF N, y
<1>2. /\ x = N * (x \div N) + (x % N) /\ x \div N \in Nat /\ x % N \in 0 .. N - 1
      /\ y = N * (y \div N) + (y % N) /\ y \div N \in Nat /\ y % N \in 0 .. N - 1
  BY <1>1, Z3
<1>3. (x \div N) + 1 \in Nat /\ N * ((x \div N) + 1) = N * (x \div N) + N
  BY <1>1, <1>2, Z3
<1>4. IsSplit(N, y, (x \div N) + 1, x % N)
  BY <1>1, <1>2, <1>3, Z3 DEF IsSplit
<1>a. IsSplit(N, y, y \div N, y % N)
  BY Zenon, <1>2 DEF IsSplit
<1>5. x % N = y % N
  BY Zenon, <1>1, <1>2, <1>3, <1>4, <1>a, Remainder
<1>6. QED
  BY Zenon, <1>5 DEF Slot, N, y

\* getFrame and sendAcks claim the next number: its position was free, and no
\* datagram of the position's previous number is left.
LEMMA ClaimOnce ==
  ASSUME TypeInv, OnceInv, ~ LongLived, NEW n \in Node, NEW g,
         g.seq = m_frameSeq[n], g.msg_count = 0, g.first = 0,
         m_freeFrames' = [m_freeFrames EXCEPT ![n][Slot(m_frameSeq[n])] = g],
         m_frameSeq' = [m_frameSeq EXCEPT ![n] = m_frameSeq[n] + 1],
         \A p \in net' : \/ p \in Alive(n, m_frameSeq[n])
                         \/ p.src = n /\ p.seq = m_frameSeq[n] /\ p.msg_count = 0 /\ p.first = 0,
         UNCHANGED <<received, m_frameSeqRecord, rx, copied, flag>>,
         \A o \in Node : app'[o].k = app[o].k /\ app'[o].msg = app[o].msg,
         \A o \in Node : \A s \in Slots :
           Holds(o, s)' => Holds(o, s) \/ (o = n /\ s = Slot(m_frameSeq[n])),
         \A o \in Node : app'[o].phase = "got" =>
           \/ app[o].phase = "got" /\ app'[o].slot = app[o].slot
           \/ o = n /\ app'[o].slot = Slot(m_frameSeq[n])
  PROVE  OnceInv'
<1> DEFINE f == m_frameSeq[n]
           x == Slot(f)
           New(h) == h.seq = f /\ h.msg_count = 0 /\ h.first = 0
<1>0. f \in Nat \ {0} /\ x \in Slots /\ NFrames \in Nat \ {0} /\ m_frameSeq \in [Node -> Nat \ {0}]
  BY Zenon, SizeAssumption, SlotType DEF TypeInv, TypeOK
<1>1. /\ received' = received /\ rx' = rx
      /\ m_frameSeqRecord' = m_frameSeqRecord /\ copied' = copied /\ flag' = flag
  BY Zenon
<1>2. /\ m_freeFrames'[n][x] = g
      /\ \A o \in Node : \A s \in Slots :
           ~ (o = n /\ s = x) => m_freeFrames'[o][s] = m_freeFrames[o][s]
  <2> HIDE DEF x
  <2>1. m_freeFrames \in [Node -> [Slots -> Frame]]
    BY Zenon DEF TypeInv, TypeOK
  <2>2. IsWritten(m_freeFrames', m_freeFrames, n, x, g)
    BY Zenon DEF x, IsWritten
  <2>3. WrittenIs(m_freeFrames', m_freeFrames, n, x, g)
    BY Zenon, <1>0, <2>1, <2>2, OnlyOneFrame
  <2>4. QED
    BY Zenon, <2>3 DEF WrittenIs
<1>3. m_frameSeq'[n] = f + 1 /\ \A o \in Node \ {n} : m_frameSeq'[o] = m_frameSeq[o]
  BY Zenon, <1>0
<1>4. ASSUME NEW o \in Node, NEW k, NEW i
      PROVE  /\ Fresh(o, k, i)' <=> Fresh(o, k, i)
             /\ \A lo, hi : Span(o, k, lo, hi)' <=> Span(o, k, lo, hi)
             /\ Unsent(o, k, i)' <=> Unsent(o, k, i)
  BY Zenon, <1>1 DEF Done, Fresh, Reading, NumMsgs, msgCount, NoMsg, Span, Unsent
<1>5. ASSUME NEW o \in Node, NEW h \in Sent(o)'
      PROVE  \/ /\ h \in Sent(o) /\ h.seq \in Nat
                /\ o = n => h.seq < f /\ (h.seq # 0 => f + 1 <= h.seq + NFrames)
             \/ o = n /\ New(h)
  <2>1. CASE h \in net' /\ h.src = o
    <3>1. CASE h \in Alive(n, f)
      <4>1. h \in net /\ h \in Sent(o) /\ (o = n => h.seq + NFrames # f)
        BY Zenon, <2>1, <3>1 DEF Alive, Sent
      <4>2. h.seq \in Nat
        BY Zenon, <4>1, SentType DEF TypeInv
      <4>3. CASE o = n
        <5>1. h.seq # 0 /\ h.seq < f /\ f <= h.seq + NFrames
          BY Zenon, <4>1, <4>3 DEF OnceInv, Carried, Fit, Numbered
        <5>2. QED
          BY <1>0, <4>1, <4>2, <4>3, <5>1
      <4>4. QED
        BY Zenon, <4>1, <4>2, <4>3
    <3>2. CASE h \notin Alive(n, f)
      BY Zenon, <2>1, <3>2
    <3>3. QED
      BY Zenon, <3>1, <3>2
  <2>2. CASE \E s \in Slots : h = m_freeFrames'[o][s]
    <3>1. PICK s \in Slots : h = m_freeFrames'[o][s]
      BY Zenon, <2>2
    <3>2. CASE o = n /\ s = x
      BY Zenon, <1>2, <3>1, <3>2
    <3>3. CASE ~ (o = n /\ s = x)
      <4>1. h = m_freeFrames[o][s] /\ h \in Sent(o)
        BY Zenon, <1>2, <3>1, <3>3 DEF Sent
      <4>2. h.seq \in Nat
        BY Zenon, <4>1, SentType DEF TypeInv
      <4>3. CASE o = n
        <5>1. CASE h.seq = 0
          BY <1>0, <4>1, <5>1
        <5>2. CASE h.seq # 0
          <6>1. h.seq < f /\ f <= h.seq + NFrames /\ Slot(h.seq) = s
            BY Zenon, <4>1, <4>3, <5>2 DEF OnceInv, Carried, Fit, RingFit
          <6>2. h.seq + NFrames # f
            BY Zenon, <3>3, <4>2, <4>3, <6>1, SlotNext
          <6>3. QED
            BY <1>0, <4>1, <4>2, <6>1, <6>2
        <5>3. QED
          BY Zenon, <5>1, <5>2
      <4>4. QED
        BY Zenon, <4>1, <4>2, <4>3
    <3>4. QED
      BY Zenon, <3>2, <3>3
  <2>3. QED
    BY Zenon, <2>1, <2>2 DEF Sent
<1>6. \A h : New(h) => Loads(h) = {}
  BY DEF Loads
<1>7. f \notin received[Peer[n]] /\ \A o \in Node : Peer[o] \in Node
  <2>1. \A e \in received[Peer[n]] : e < f
    BY Zenon DEF OnceInv, Numbered
  <2>2. ~ (f < f)
    BY <1>0
  <2>3. QED
    BY Zenon, <2>1, <2>2, PeerFacts
<1> HIDE DEF New, f, x
<1>8. Carried'
  <2> SUFFICES ASSUME NEW o \in Node, NEW h \in Sent(o)' PROVE Fit(o, h)'
    BY Zenon DEF Carried
  <2>1. CASE o = n /\ New(h)
    <3>1. h.seq = f /\ h.msg_count = 0 /\ Loads(h) = {}
      BY Zenon, <1>6, <2>1 DEF New
    <3>2. h.seq < m_frameSeq'[o] /\ m_frameSeq'[o] <= h.seq + NFrames
      BY <1>0, <1>3, <2>1, <3>1
    <3>3. h.seq \notin received'[Peer[o]]
      BY Zenon, <1>1, <1>7, <2>1, <3>1
    <3>4. QED
      BY Zenon, <3>1, <3>2, <3>3 DEF Fit, Loads
  <2>2. CASE ~ (o = n /\ New(h))
    <3>1. /\ h \in Sent(o) /\ h.seq \in Nat
          /\ o = n => h.seq < f /\ (h.seq # 0 => f + 1 <= h.seq + NFrames)
      BY Zenon, <1>5, <2>2
    <3>2. Fit(o, h)
      BY Zenon, <3>1 DEF OnceInv, Carried
    <3>3. h.seq # 0 => h.seq < m_frameSeq'[o] /\ m_frameSeq'[o] <= h.seq + NFrames
      <4>1. CASE o = n
        BY <1>0, <1>3, <3>1, <4>1
      <4>2. CASE o # n
        BY Zenon, <1>3, <3>2, <4>2 DEF Fit
      <4>3. QED
        BY Zenon, <4>1, <4>2
    <3>4. \A i : Fresh(o, h.iov, i) => Fresh(o, h.iov, i)'
      BY Zenon, <1>4
    <3>5. Span(o, h.iov, h.first, h.first + h.msg_count - 1) =>
            Span(o, h.iov, h.first, h.first + h.msg_count - 1)'
      BY Zenon, <1>4
    <3>6. QED
      BY Zenon, <1>1, <3>2, <3>3, <3>4, <3>5 DEF Fit, Slot, Wire, Loads
  <2>3. QED
    BY Zenon, <2>1, <2>2
<1>9. OneNumber'
  <2> SUFFICES ASSUME NEW o \in Node, NEW c \in Sent(o)', NEW h \in Sent(o)',
                      c.iov = h.iov, Loads(c) \cap Loads(h) # {}
               PROVE  c.seq = h.seq
    BY Zenon DEF OneNumber, Loads
  <2>1. ~ New(c) /\ ~ New(h)
    BY Zenon, <1>6
  <2>2. c \in Sent(o) /\ h \in Sent(o)
    BY Zenon, <1>5, <2>1
  <2>3. QED
    BY Zenon, <2>2 DEF OnceInv, OneNumber
<1>10. RingFit'
  <2> SUFFICES ASSUME NEW o \in Node, NEW s \in Slots
      PROVE LET e == m_freeFrames'[o][s] IN
            /\ IF e.seq = 0 THEN e.is_free /\ e.msg_count = 0 /\ ~ Holds(o, s)'
                            ELSE Slot(e.seq) = s
            /\ app'[o].phase = "got" /\ app'[o].slot = s => e.msg_count = 0
            /\ e.msg_count = 0 => /\ e.seq \notin received'[Peer[o]]
                                  /\ \A c \in Sent(o)' : c.seq = e.seq => c.msg_count = 0
    BY Zenon DEF RingFit, Slot
  <2>1. CASE o = n /\ s = x
    <3>1. m_freeFrames'[o][s] = g /\ g.seq = f /\ f # 0 /\ Slot(f) = s /\ g.msg_count = 0
      BY Zenon, <1>0, <1>2, <2>1 DEF f, x
    <3>2. ASSUME NEW c \in Sent(n)', c.seq = f PROVE c.msg_count = 0
      <4>1. ~ (c.seq < f)
        BY <1>0, <3>2
      <4>2. QED
        BY Zenon, <1>5, <4>1 DEF New
    <3>3. QED
      BY Zenon, <1>1, <1>7, <2>1, <3>1, <3>2
  <2>2. CASE ~ (o = n /\ s = x)
    <3> DEFINE e == m_freeFrames[o][s]
    <3>1. m_freeFrames'[o][s] = e
      BY Zenon, <1>2, <2>2
    <3>2. /\ IF e.seq = 0 THEN e.is_free /\ e.msg_count = 0 /\ ~ Holds(o, s) ELSE Slot(e.seq) = s
          /\ app[o].phase = "got" /\ app[o].slot = s => e.msg_count = 0
          /\ e.msg_count = 0 => e.seq \notin received[Peer[o]]
          /\ e.msg_count = 0 => \A c \in Sent(o) : c.seq = e.seq => c.msg_count = 0
      BY Zenon DEF OnceInv, RingFit
    <3> HIDE DEF e
    <3>3. Holds(o, s)' => Holds(o, s)
      BY Zenon, <2>2 DEF x, f
    <3>4. app'[o].phase = "got" /\ app'[o].slot = s => app[o].phase = "got" /\ app[o].slot = s
      BY Zenon, <2>2 DEF x, f
    <3>5. e.msg_count = 0 => \A c \in Sent(o)' : c.seq = e.seq => c.msg_count = 0
      BY Zenon, <1>5, <3>2 DEF New
    <3>6. QED
      BY Zenon, <1>1, <3>1, <3>2, <3>3, <3>4, <3>5
  <2>3. QED
    BY Zenon, <2>1, <2>2
<1>11. Numbered'
  <2>1. \A p \in net' : p.seq # 0
    BY Zenon, <1>0 DEF OnceInv, Numbered, Alive, f
  <2>2. ASSUME NEW o \in Node, NEW e \in received[Peer[o]] PROVE e # 0 /\ e < m_frameSeq'[o]
    <3>1. e # 0 /\ e < m_frameSeq[o]
      BY Zenon DEF OnceInv, Numbered
    <3>2. e \in Nat
      BY Zenon, <1>7 DEF TypeInv, TypeOK
    <3>3. m_frameSeq'[o] = m_frameSeq[o] \/ m_frameSeq'[o] = m_frameSeq[o] + 1
      BY Zenon, <1>3 DEF f
    <3>4. QED
      BY <1>0, <3>1, <3>2, <3>3
  <2>3. QED
    BY Zenon, <1>1, <2>1, <2>2 DEF Numbered
<1>12. ReadFit'
  <2>1. \A o \in Node : \A k, lo, hi : Span(o, k, lo, hi) => Span(o, k, lo, hi)'
    BY Zenon DEF Span, msgCount
  <2>2. QED
    BY Zenon, <2>1, ReadKept DEF OnceInv
<1>13. UnsentFresh'
  <2> SUFFICES ASSUME NEW o \in Node, NEW k \in 1 .. Len(Msgs[o]),
                      NEW i \in 1 .. msgCount(<<o, k>>), Unsent(o, k, i)'
               PROVE  Fresh(o, k, i)'
    BY Zenon DEF UnsentFresh, msgCount
  <2>1. QED
    BY Zenon, <1>4 DEF OnceInv, UnsentFresh
<1>14. AtMostOnce'
  BY Zenon, <1>1 DEF OnceInv, AtMostOnce
<1>15. QED
  BY Zenon, <1>8, <1>9, <1>10, <1>11, <1>12, <1>13, <1>14 DEF OnceInv

LEMMA GetFrameOnce ==
  ASSUME TypeInv, OnceInv, ~ LongLived, NEW n \in Node, GetFrame(n), ~ WindowAbort(n)
  PROVE  OnceInv'
<1> DEFINE f == m_frameSeq[n]
           g == [NewFrame(n, f) EXCEPT !.transaction = app[n].k, !.msg_start = app[n].msg]
<1>1. /\ m_frameSeq' = [m_frameSeq EXCEPT ![n] = f + 1]
      /\ m_freeFrames' = [m_freeFrames EXCEPT ![n][Slot(f)] = g]
      /\ app' = [app EXCEPT ![n] = [@ EXCEPT !.phase = "got", !.slot = Slot(f)]]
      /\ net' = Alive(n, f)
      /\ UNCHANGED <<received, m_frameSeqRecord, rx, copied, flag>>
  BY Zenon DEF GetFrame
<1>2. g.seq = f /\ g.msg_count = 0 /\ g.first = 0
  BY Zenon DEF NewFrame, FreeFrame
<1>3. /\ app'[n].k = app[n].k /\ app'[n].msg = app[n].msg /\ app'[n].slot = Slot(f)
      /\ \A o \in Node \ {n} : app'[o] = app[o]
  <2>1. app \in [Node -> AppState]
    BY Zenon DEF TypeInv, TypeOK
  <2>2. QED
    BY Zenon, <1>1, <2>1 DEF AppState
<1>4. \A o \in Node : app'[o].k = app[o].k /\ app'[o].msg = app[o].msg
  BY Zenon, <1>3
<1>5. \A o \in Node : \A s \in Slots :
        Holds(o, s)' => Holds(o, s) \/ (o = n /\ s = Slot(m_frameSeq[n]))
  BY Zenon, <1>3 DEF Holds
<1>6. \A o \in Node : app'[o].phase = "got" =>
        \/ app[o].phase = "got" /\ app'[o].slot = app[o].slot
        \/ o = n /\ app'[o].slot = Slot(m_frameSeq[n])
  BY Zenon, <1>3
<1> HIDE DEF g
<1>7. QED
  BY Zenon, <1>1, <1>2, <1>4, <1>5, <1>6, ClaimOnce

LEMMA SendAcksOnce ==
  ASSUME TypeInv, OnceInv, ~ LongLived, NEW n \in Node, SendAcks(n), ~ WindowAbort(n)
  PROVE  OnceInv'
<1> DEFINE f == m_frameSeq[n]
           g == [NewFrame(n, f) EXCEPT !.is_free = TRUE, !.send_time = "set"]
           q == PacketOf(n, NewFrame(n, f), 1)
<1>1. /\ m_frameSeq' = [m_frameSeq EXCEPT ![n] = f + 1]
      /\ m_freeFrames' = [m_freeFrames EXCEPT ![n][Slot(f)] = g]
      /\ net' = Alive(n, f) \cup {q}
      /\ UNCHANGED <<received, m_frameSeqRecord, rx, copied, flag, app>>
  BY Zenon DEF SendAcks
<1>2. g.seq = f /\ g.msg_count = 0 /\ g.first = 0
  BY Zenon DEF NewFrame, FreeFrame
<1>3. q.src = n /\ q.seq = f /\ q.msg_count = 0 /\ q.first = 0
  BY Zenon DEF PacketOf, NewFrame, FreeFrame
<1> HIDE DEF g, q
<1>4. \A p \in net' : \/ p \in Alive(n, m_frameSeq[n])
                      \/ p.src = n /\ p.seq = m_frameSeq[n] /\ p.msg_count = 0 /\ p.first = 0
  BY Zenon, <1>1, <1>3
<1>5. /\ \A o \in Node : app'[o].k = app[o].k /\ app'[o].msg = app[o].msg
      /\ \A o \in Node : \A s \in Slots : Holds(o, s)' => Holds(o, s)
      /\ \A o \in Node : app'[o].phase = "got" =>
           app[o].phase = "got" /\ app'[o].slot = app[o].slot
  BY Zenon, <1>1 DEF Holds
<1>6. QED
  BY Zenon, <1>1, <1>2, <1>4, <1>5, ClaimOnce

\* FillFrame: the messages that post() stuffs into the frame were in no frame
\* before, and the number of the frame was never sent with messages.
LEMMA FillFrameOnce ==
  ASSUME TypeInv, OnceInv, NEW n \in Node, FillFrame(n)
  PROVE  OnceInv'
<1> DEFINE s == app[n].slot
           f == m_freeFrames[n][s]
           k == app[n].k
           m == app[n].msg
           left == msgCount(<<n, k>>) - m
           count == IF left < MsgsPerFrame THEN left ELSE MsgsPerFrame
           g == [f EXCEPT !.msg_count = count, !.iov = k, !.first = m + 1]
<1>1. /\ k \in 1 .. Len(Msgs[n]) /\ m \in Nat /\ m < msgCount(<<n, k>>)
      /\ s \in Slots /\ app[n].phase = "got" /\ f \in Frame
  <2>1. app[n].phase = "got" /\ app[n] \in AppState
    BY Zenon DEF FillFrame, TypeInv, TypeOK
  <2>2. m \in Nat /\ s \in Slots
    BY Zenon, <2>1 DEF AppState
  <2>3. app[n].phase # "idle" /\ app[n].phase # "filled"
    BY Zenon, <2>1
  <2>4. k \in 1 .. Len(Msgs[n]) /\ m < msgCount(<<n, k>>)
    BY Zenon, <2>3 DEF TypeInv, PostInRange
  <2>5. f \in Frame
    BY <2>2 DEF TypeInv, TypeOK
  <2>6. QED
    BY Zenon, <2>1, <2>2, <2>4, <2>5
<1>2. count \in Nat /\ count > 0 /\ m + count <= msgCount(<<n, k>>)
  <2>1. msgCount(<<n, k>>) \in Nat
    BY Zenon, <1>1, MsgCountType
  <2>2. \A t, e \in Nat, b \in Nat \ {0} : e < t =>
          LET c == IF t - e < b THEN t - e ELSE b IN c \in Nat /\ c > 0 /\ e + c <= t
    OBVIOUS
  <2>3. QED
    BY Zenon, <1>1, <2>1, <2>2, SizeAssumption
<1>3. /\ m_freeFrames' = [m_freeFrames EXCEPT ![n][s] = g]
      /\ app' = [app EXCEPT ![n] = [@ EXCEPT !.phase = "filled", !.msg = m + count]]
      /\ UNCHANGED <<m_frameSeq, received, m_frameSeqRecord, rx, copied, flag, net>>
  BY Zenon DEF FillFrame
<1> HIDE DEF count, left
<1>4. g.seq = f.seq /\ g.msg_count = count /\ g.iov = k /\ g.first = m + 1
  BY Zenon, <1>1 DEF Frame
<1>5. /\ app'[n].k = k /\ app'[n].msg = m + count /\ app'[n].slot = s /\ app'[n].phase = "filled"
      /\ \A o \in Node \ {n} : app'[o] = app[o]
  <2>1. app \in [Node -> AppState]
    BY Zenon DEF TypeInv, TypeOK
  <2>2. QED
    BY Zenon, <1>3, <2>1 DEF AppState
<1>6. m_freeFrames'[n][s] = g /\ \A o \in Node : \A r \in Slots :
        ~ (o = n /\ r = s) => m_freeFrames'[o][r] = m_freeFrames[o][r]
  <2> HIDE DEF g, s
  <2>1. m_freeFrames \in [Node -> [Slots -> Frame]]
    BY Zenon DEF TypeInv, TypeOK
  <2>2. QED
    BY Zenon, <1>1, <1>3, <2>1
<1>7. /\ f.seq # 0 /\ Slot(f.seq) = s /\ f.msg_count = 0 /\ f.seq \notin received[Peer[n]]
      /\ \A c \in Sent(n) : c.seq = f.seq => c.msg_count = 0
      /\ f \in Sent(n) /\ Fit(n, f)
  <2>1. f.msg_count = 0 /\ f.seq # 0 /\ Slot(f.seq) = s
    BY Zenon, <1>1 DEF OnceInv, RingFit, Holds
  <2>2. f.seq \notin received[Peer[n]] /\ \A c \in Sent(n) : c.seq = f.seq => c.msg_count = 0
    BY Zenon, <1>1, <2>1 DEF OnceInv, RingFit
  <2>3. f \in Sent(n)
    BY Zenon, <1>1 DEF Sent
  <2>4. QED
    BY Zenon, <2>1, <2>2, <2>3 DEF OnceInv, Carried
<1>8. /\ m_frameSeq' = m_frameSeq /\ received' = received /\ rx' = rx /\ net' = net
      /\ m_frameSeqRecord' = m_frameSeqRecord /\ copied' = copied /\ flag' = flag
  BY Zenon, <1>3
<1> HIDE DEF g, f, s
<1>9. ASSUME NEW o \in Node, NEW h \in Sent(o)' PROVE h \in Sent(o) \/ (o = n /\ h = g)
  <2>1. CASE h \in {p \in net' : p.src = o}
    BY Zenon, <1>8, <2>1 DEF Sent
  <2>2. CASE h \in {m_freeFrames'[o][r] : r \in Slots}
    <3>1. PICK r \in Slots : h = m_freeFrames'[o][r]
      BY Zenon, <2>2
    <3>2. CASE o = n /\ r = s
      BY Zenon, <1>6, <3>1, <3>2
    <3>3. CASE ~ (o = n /\ r = s)
      <4>1. h = m_freeFrames[o][r]
        BY Zenon, <1>6, <3>1, <3>3
      <4>2. QED
        BY Zenon, <4>1 DEF Sent
    <3>4. QED
      BY Zenon, <3>2, <3>3
  <2>3. QED
    BY Zenon, <1>9, <2>1, <2>2 DEF Sent, Slots
<1>10. ASSUME NEW o \in Node
       PROVE  /\ \A a, lo, hi : Span(o, a, lo, hi) => Span(o, a, lo, hi)'
              /\ \A a \in Nat, i \in Nat : Unsent(o, a, i)' => Unsent(o, a, i)
  <2>1. CASE o = n
    <3>1. ASSUME NEW a, NEW lo, NEW hi, Span(n, a, lo, hi) PROVE Span(n, a, lo, hi)'
      <4>1. /\ a \in 1 .. Len(Msgs[n]) /\ hi \in 1 .. msgCount(<<n, a>>) /\ lo \in 1 .. hi
            /\ a <= k /\ (a = k => hi <= m)
        BY Zenon, <3>1 DEF Span
      <4>2. hi <= m => hi <= m + count
        BY <1>1, <1>2, <4>1
      <4>3. QED
        BY Zenon, <1>5, <4>1, <4>2 DEF Span, msgCount
    <3>2. ASSUME NEW a \in Nat, NEW i \in Nat, Unsent(n, a, i)' PROVE Unsent(n, a, i)
      <4>1. a > k \/ (a = k /\ i > m + count)
        BY Zenon, <1>5, <3>2 DEF Unsent
      <4>2. i > m + count => i > m
        BY <1>1, <1>2
      <4>3. QED
        BY Zenon, <4>1, <4>2 DEF Unsent
    <3>3. QED
      BY Zenon, <2>1, <3>1, <3>2
  <2>2. CASE o # n
    BY Zenon, <1>5, <2>2 DEF Span, Unsent, msgCount
  <2>3. QED
    BY Zenon, <2>1, <2>2
<1>11. ASSUME NEW o \in Node, NEW a, NEW i PROVE Fresh(o, a, i)' <=> Fresh(o, a, i)
  BY Zenon, <1>8 DEF Done, Fresh, Reading, NumMsgs, msgCount, NoMsg
<1>12. Loads(g) = m + 1 .. m + count
  BY <1>1, <1>2, <1>4 DEF Loads
<1>13. \A i \in Loads(g) : Fresh(n, k, i)
  <2> SUFFICES ASSUME NEW i \in Loads(g) PROVE Fresh(n, k, i)
    BY Zenon
  <2>1. msgCount(<<n, k>>) \in Nat
    BY Zenon, <1>1, MsgCountType
  <2>2. i \in 1 .. msgCount(<<n, k>>) /\ i > m
    BY <1>1, <1>2, <1>12, <2>1
  <2>3. QED
    BY Zenon, <1>1, <2>2 DEF OnceInv, UnsentFresh, Unsent
<1>14. Carried'
  <2> SUFFICES ASSUME NEW o \in Node, NEW h \in Sent(o)' PROVE Fit(o, h)'
    BY Zenon DEF Carried
  <2>1. CASE h \in Sent(o)
    <3>1. Fit(o, h)
      BY Zenon, <2>1 DEF OnceInv, Carried
    <3>2. \A i : Fresh(o, h.iov, i) => Fresh(o, h.iov, i)'
      BY Zenon, <1>11
    <3>3. Span(o, h.iov, h.first, h.first + h.msg_count - 1) =>
            Span(o, h.iov, h.first, h.first + h.msg_count - 1)'
      BY Zenon, <1>10
    <3>4. QED
      BY Zenon, <1>8, <3>1, <3>2, <3>3 DEF Fit, Slot, Wire, Loads
  <2>2. CASE o = n /\ h = g
    <3>1. h.seq # 0 => h.seq < m_frameSeq[n] /\ m_frameSeq[n] <= h.seq + NFrames
      BY Zenon, <1>4, <1>7, <2>2 DEF Fit
    <3>2. /\ m + count \in 1 .. msgCount(<<n, k>>) /\ m + 1 \in 1 .. m + count
          /\ k <= app'[n].k /\ m + count <= app'[n].msg
      <4>1. msgCount(<<n, k>>) \in Nat
        BY Zenon, <1>1, MsgCountType
      <4>2. \A t, e, c \in Nat : c > 0 /\ e + c <= t =>
              e + c \in 1 .. t /\ e + 1 \in 1 .. e + c /\ e + c <= e + c
        OBVIOUS
      <4>3. /\ m + count \in 1 .. msgCount(<<n, k>>) /\ m + 1 \in 1 .. m + count
            /\ m + count <= m + count
        <5> HIDE DEF m, k
        <5>1. QED
          BY Zenon, <1>1, <1>2, <4>1, <4>2
      <4>4. k <= k
        <5>1. \A e \in Nat : e <= e
          OBVIOUS
        <5>2. QED
          BY Zenon, <5>1, AppType
      <4>5. QED
        BY Zenon, <1>5, <4>3, <4>4
    <3>3. h.iov = k /\ h.first = m + 1 /\ h.first + h.msg_count - 1 = m + count
      <4>1. h.iov = k /\ h.first = m + 1 /\ h.msg_count = count
        BY Zenon, <1>4, <2>2
      <4>2. (m + 1) + count - 1 = m + count
        BY <1>1, <1>2
      <4>3. QED
        BY Zenon, <4>1, <4>2
    <3>4. Span(o, h.iov, h.first, h.first + h.msg_count - 1)'
      BY Zenon, <1>1, <2>2, <3>2, <3>3 DEF Span, msgCount
    <3>5. \A i \in Loads(h) : Fresh(o, h.iov, i)'
      BY Zenon, <1>11, <1>13, <2>2, <3>3
    <3>6. h.seq \notin received'[Peer[o]]
      BY Zenon, <1>4, <1>7, <1>8, <2>2
    <3>7. QED
      BY Zenon, <1>8, <2>2, <3>1, <3>4, <3>5, <3>6 DEF Fit, Loads
  <2>3. QED
    BY Zenon, <1>9, <2>1, <2>2
<1>15. ASSUME NEW h \in Sent(n), h.iov = k PROVE Loads(h) \cap Loads(g) = {}
  <2>1. h.first \in Nat /\ h.msg_count \in Nat
    BY Zenon, SentType DEF TypeInv
  <2>2. h.msg_count # 0 => h.first + h.msg_count - 1 <= m
    BY Zenon, <1>15 DEF OnceInv, Carried, Fit, Span
  <2>3. Loads(h) = h.first .. h.first + h.msg_count - 1
    BY Zenon DEF Loads
  <2>4. QED
    <3>1. (h.first .. h.first + h.msg_count - 1) \cap (m + 1 .. m + count) = {}
      BY Zenon, <1>1, <1>2, <2>1, <2>2, LaterApart
    <3>2. QED
      BY Zenon, <1>12, <2>3, <3>1
<1>16. OneNumber'
  <2> SUFFICES ASSUME NEW o \in Node, NEW c \in Sent(o)', NEW h \in Sent(o)',
                      c.iov = h.iov, Loads(c) \cap Loads(h) # {}
               PROVE  c.seq = h.seq
    BY Zenon DEF OneNumber, Loads
  <2>1. CASE c \in Sent(o) /\ h \in Sent(o)
    BY Zenon, <2>1 DEF OnceInv, OneNumber
  <2>2. CASE o = n /\ c = g /\ h \in Sent(o)
    BY Zenon, <1>4, <1>15, <2>2
  <2>3. CASE o = n /\ h = g /\ c \in Sent(o)
    BY Zenon, <1>4, <1>15, <2>3
  <2>4. QED
    BY Zenon, <1>9, <2>1, <2>2, <2>3
<1>17. RingFit'
  <2> SUFFICES ASSUME NEW o \in Node, NEW r \in Slots
      PROVE LET e == m_freeFrames'[o][r] IN
            /\ IF e.seq = 0 THEN e.is_free /\ e.msg_count = 0 /\ ~ Holds(o, r)'
                            ELSE Slot(e.seq) = r
            /\ app'[o].phase = "got" /\ app'[o].slot = r => e.msg_count = 0
            /\ e.msg_count = 0 => /\ e.seq \notin received'[Peer[o]]
                                  /\ \A c \in Sent(o)' : c.seq = e.seq => c.msg_count = 0
    BY Zenon DEF RingFit, Slot
  <2>1. CASE o = n /\ r = s
    <3>1. m_freeFrames'[o][r] = g /\ g.seq # 0 /\ Slot(g.seq) = r /\ g.msg_count # 0
      <4>1. count # 0
        BY <1>2
      <4>2. QED
        BY Zenon, <1>4, <1>6, <1>7, <2>1, <4>1
    <3>2. app'[o].phase # "got"
      BY Zenon, <1>5, <2>1
    <3>3. QED
      BY Zenon, <3>1, <3>2
  <2>2. CASE ~ (o = n /\ r = s)
    <3> DEFINE e == m_freeFrames[o][r]
    <3>1. m_freeFrames'[o][r] = e
      BY Zenon, <1>6, <2>2
    <3>2. /\ IF e.seq = 0 THEN e.is_free /\ e.msg_count = 0 /\ ~ Holds(o, r) ELSE Slot(e.seq) = r
          /\ app[o].phase = "got" /\ app[o].slot = r => e.msg_count = 0
          /\ e.msg_count = 0 => e.seq \notin received[Peer[o]]
          /\ e.msg_count = 0 => \A c \in Sent(o) : c.seq = e.seq => c.msg_count = 0
      BY Zenon DEF OnceInv, RingFit
    <3> HIDE DEF e
    <3>3. /\ Holds(o, r)' => Holds(o, r)
          /\ app'[o].phase = "got" => app[o].phase = "got" /\ app'[o].slot = app[o].slot
      <4>1. CASE o = n
        BY Zenon, <1>1, <1>5, <4>1 DEF Holds, s
      <4>2. CASE o # n
        BY Zenon, <1>5, <4>2 DEF Holds
      <4>3. QED
        BY Zenon, <4>1, <4>2
    <3>4. ASSUME o = n PROVE g.seq # e.seq
      <4>1. r # s
        BY Zenon, <2>2, <3>4
      <4>2. CASE e.seq = 0
        BY Zenon, <1>4, <1>7, <4>2
      <4>3. CASE e.seq # 0
        BY Zenon, <1>4, <1>7, <3>2, <4>1, <4>3
      <4>4. QED
        BY Zenon, <4>2, <4>3
    <3>5. e.msg_count = 0 => \A c \in Sent(o)' : c.seq = e.seq => c.msg_count = 0
      BY Zenon, <1>9, <3>2, <3>4
    <3>6. QED
      BY Zenon, <1>8, <3>1, <3>2, <3>3, <3>5
  <2>3. QED
    BY Zenon, <2>1, <2>2
<1>18. Numbered'
  BY Zenon, <1>8 DEF OnceInv, Numbered
<1>19. ReadFit'
  BY Zenon, <1>8, <1>10, ReadKept DEF OnceInv
<1>20. UnsentFresh'
  <2> SUFFICES ASSUME NEW o \in Node, NEW a \in 1 .. Len(Msgs[o]),
                      NEW i \in 1 .. msgCount(<<o, a>>), Unsent(o, a, i)'
               PROVE  Fresh(o, a, i)'
    BY Zenon DEF UnsentFresh, msgCount
  <2>1. a \in Nat /\ i \in Nat
    OBVIOUS
  <2>2. Unsent(o, a, i)
    BY Zenon, <1>10, <2>1
  <2>3. QED
    BY Zenon, <1>11, <2>2 DEF OnceInv, UnsentFresh
<1>21. AtMostOnce'
  BY Zenon, <1>8 DEF OnceInv, AtMostOnce
<1>22. QED
  BY Zenon, <1>14, <1>16, <1>17, <1>18, <1>19, <1>20, <1>21 DEF OnceInv

\* ack, releaseFrame: the frames that are released keep number and messages.
LEMMA ReleaseAlike ==
  ASSUME TypeInv, NEW m \in Node, NEW S, ReleaseFrames(m, S)
  PROVE  \A o \in Node : \A s \in Slots :
           /\ Alike(m_freeFrames'[o][s], m_freeFrames[o][s])
           /\ m_freeFrames[o][s].is_free => m_freeFrames'[o][s].is_free
<1> DEFINE R(f) == [f EXCEPT !.is_free = TRUE, !.transaction = 0]
           F == [s \in Slots |-> IF s \in S THEN R(m_freeFrames[m][s]) ELSE m_freeFrames[m][s]]
<1>1. m_freeFrames \in [Node -> [Slots -> Frame]]
  BY Zenon DEF TypeInv, TypeOK
<1>2. \A f \in Frame : Alike(R(f), f) /\ R(f).is_free
  BY Zenon DEF Alike, Frame
<1>3. \A o \in Node : \A s \in Slots : m_freeFrames[o][s] \in Frame
  BY Zenon, <1>1
<1> HIDE DEF R
<1>4. m_freeFrames' = [m_freeFrames EXCEPT ![m] = F]
  BY Zenon DEF ReleaseFrames, R
<1>5. m_freeFrames'[m] = F /\ \A o \in Node \ {m} : m_freeFrames'[o] = m_freeFrames[o]
  BY Zenon, <1>1, <1>4
<1>6. \A s \in Slots : F[s] = R(m_freeFrames[m][s]) \/ F[s] = m_freeFrames[m][s]
  BY Zenon
<1> HIDE DEF F
<1>7. ASSUME NEW o \in Node, NEW s \in Slots
      PROVE  /\ Alike(m_freeFrames'[o][s], m_freeFrames[o][s])
             /\ m_freeFrames[o][s].is_free => m_freeFrames'[o][s].is_free
  <2>1. CASE o = m /\ F[s] = R(m_freeFrames[m][s])
    <3>1. m_freeFrames'[o][s] = R(m_freeFrames[o][s]) /\ m_freeFrames[o][s] \in Frame
      BY Zenon, <1>3, <1>5, <2>1
    <3>2. QED
      BY Zenon, <1>2, <3>1
  <2>2. CASE m_freeFrames'[o][s] = m_freeFrames[o][s]
    BY Zenon, <2>2 DEF Alike
  <2>3. QED
    BY Zenon, <1>5, <1>6, <2>1, <2>2
<1>8. QED
  BY Zenon, <1>7

\* ProcessNew: a frame the receiver's record does not have was never handled.
LEMMA ProcessNewOnce ==
  ASSUME TypeInv, OnceInv, NEW m \in Node, NEW p \in net, p.src = Peer[m],
         Unlocked(m), net' = net \ {p}, ProcessNew(m, p),
         UNCHANGED <<m_frameSeq, app, copied, flag>>
  PROVE  OnceInv'
<1> DEFINE n == Peer[m]
<1>0. n \in Node /\ Peer[n] = m /\ \A o \in Node : Peer[o] \in Node /\ (Peer[o] = m => o = n)
  BY Zenon, PeerFacts
<1>1. m_frameSeq' = m_frameSeq /\ app' = app /\ copied' = copied /\ flag' = flag
  BY Zenon
<1>2. p \in Sent(n) /\ Fit(n, p) /\ p.seq # 0 /\ p.seq \notin received[m]
  <2>1. p \in Sent(n)
    BY Zenon DEF Sent
  <2>2. Fit(n, p) /\ p.seq # 0
    BY Zenon, <1>0, <2>1 DEF OnceInv, Carried, Numbered
  <2>3. p.seq \notin received[m]
    BY Zenon, <1>0, <2>2 DEF Fit, ProcessNew
  <2>4. QED
    BY Zenon, <2>1, <2>2, <2>3
<1>3. p.seq \in Nat /\ p.iov \in Nat /\ p.first \in Nat /\ p.msg_count \in Nat
  BY Zenon, <1>0, <1>2, SentType DEF TypeInv
<1>4. /\ m_frameSeqRecord'[m][Slot(p.seq)].id = Wire(p.seq)
      /\ \A s \in Slots : s # Slot(p.seq) => m_frameSeqRecord'[m][s] = m_frameSeqRecord[m][s]
      /\ \A o \in Node \ {m} : m_frameSeqRecord'[o] = m_frameSeqRecord[o]
  <2> DEFINE x == Slot(p.seq)
             e == [id |-> Wire(p.seq),
                   acked |-> m_frameSeqRecord[m][x].acked \/ p.msg_count > 0]
  <2>1. x \in Slots
    BY Zenon, <1>3, SlotType
  <2>2. m_frameSeqRecord' = [m_frameSeqRecord EXCEPT ![m][x] = e] /\ e.id = Wire(p.seq)
    BY Zenon DEF ProcessNew
  <2>3. m_frameSeqRecord \in [Node -> [Slots -> [id : Nat, acked : BOOLEAN]]]
    BY Zenon DEF TypeInv, TypeOK
  <2> HIDE DEF x, e
  <2>4. QED
    BY Zenon, <2>1, <2>2, <2>3 DEF x
<1>5. /\ \A o \in Node \ {m} : received'[o] = received[o] /\ rx'[o] = rx[o]
      /\ IF p.msg_count = 0 THEN received'[m] = received[m] /\ rx'[m] = NoMsg
         ELSE /\ received'[m] = received[m] \cup {p.seq}
              /\ rx'[m] = [k |-> p.iov, next |-> p.first, last |-> p.first + p.msg_count - 1]
  <2>1. received \in [Node -> SUBSET Nat] /\ rx \in [Node -> [k : TransNo, next : Nat, last : Nat]]
    BY Zenon DEF TypeInv, TypeOK
  <2>2. rx[m] = NoMsg
    BY Zenon DEF Unlocked
  <2>3. QED
    BY Zenon, <2>1, <2>2 DEF ProcessNew
<1>6. \A o \in Node : \A s \in Slots :
        /\ Alike(m_freeFrames'[o][s], m_freeFrames[o][s])
        /\ m_freeFrames[o][s].is_free => m_freeFrames'[o][s].is_free
  BY Zenon, ReleaseAlike DEF ProcessNew
<1>7. \A o \in Node : \A h \in Sent(o)' : \E g \in Sent(o) : Alike(h, g)
  BY Zenon, <1>6, SentAlike
<1>8. ASSUME NEW o \in Node \ {n}, NEW k, NEW i
      PROVE  /\ received'[Peer[o]] = received[Peer[o]]
             /\ m_frameSeqRecord'[Peer[o]] = m_frameSeqRecord[Peer[o]]
             /\ rx'[Peer[o]] = rx[Peer[o]] /\ Reading(Peer[o])' = Reading(Peer[o])
             /\ Fresh(o, k, i)' <=> Fresh(o, k, i)
  <2>1. Peer[o] \in Node \ {m}
    BY Zenon, <1>0
  <2>2. QED
    BY Zenon, <1>1, <1>4, <1>5, <2>1 DEF Reading, NoMsg, Fresh, Done, NumMsgs, msgCount
<1>9. ASSUME NEW o \in Node, NEW k, NEW i
      PROVE  /\ Done(<<o, k>>, i)' <=> Done(<<o, k>>, i)
             /\ \A lo, hi : Span(o, k, lo, hi)' <=> Span(o, k, lo, hi)
             /\ Unsent(o, k, i)' <=> Unsent(o, k, i)
  BY Zenon, <1>1 DEF Done, NumMsgs, msgCount, Span, Unsent
<1>10. ASSUME NEW k, NEW i, rx'[m].k = k, i \in Reading(m)'
       PROVE  k = p.iov /\ i \in Loads(p) /\ p.seq \in received'[m]
  <2>1. p.msg_count # 0
    BY Zenon, <1>5, <1>10 DEF Reading, NoMsg
  <2>2. IsReading(rx'[m], p.iov, p.first, p.first + p.msg_count - 1) /\ p.seq \in received'[m]
    BY Zenon, <1>5, <2>1 DEF IsReading
  <2>3. rx'[m].k = p.iov /\ rx'[m].next = p.first /\ rx'[m].last = p.first + p.msg_count - 1
    <3>1. ReadingIs(rx'[m], p.iov, p.first, p.first + p.msg_count - 1)
      BY Zenon, <2>2, RecordFields
    <3>2. QED
      BY Zenon, <3>1 DEF ReadingIs
  <2>4. QED
    BY Zenon, <1>10, <2>2, <2>3 DEF Reading, NoMsg, Loads
<1>11. ASSUME NEW i \in Loads(p) PROVE p.msg_count # 0 /\ Fresh(n, p.iov, i)
  <2>1. p.msg_count # 0
    BY <1>3 DEF Loads
  <2>2. QED
    BY Zenon, <1>0, <1>2, <2>1 DEF Fit
<1>12. \A e \in received[m] : e \in received'[m]
  BY Zenon, <1>5
<1>13. \A e \in received'[m] : e \in received[m] \/ (e = p.seq /\ p.msg_count # 0)
  BY Zenon, <1>5
<1> HIDE DEF n
<1>14. Carried'
  <2> SUFFICES ASSUME NEW o \in Node, NEW h \in Sent(o)' PROVE Fit(o, h)'
    BY Zenon DEF Carried
  <2>1. PICK g \in Sent(o) : Alike(h, g)
    BY Zenon, <1>7
  <2>2. Fit(o, g) /\ Fit(o, h)
    BY Zenon, <2>1, FitAlike DEF OnceInv, Carried
  <2>3. Span(o, h.iov, h.first, h.first + h.msg_count - 1) =>
          Span(o, h.iov, h.first, h.first + h.msg_count - 1)'
    BY Zenon, <1>9
  <2>4. CASE o # n
    <3>1. \A i : Fresh(o, h.iov, i) => Fresh(o, h.iov, i)'
      BY Zenon, <1>8, <2>4
    <3>2. received'[Peer[o]] = received[Peer[o]] /\ m_frameSeqRecord'[Peer[o]] = m_frameSeqRecord[Peer[o]]
      BY Zenon, <1>8, <2>4
    <3>3. QED
      BY Zenon, <1>1, <2>2, <2>3, <3>1, <3>2 DEF Fit, Slot, Wire, Loads
  <2>5. CASE o = n
    <3>1. ASSUME h.seq \in received'[m]
          PROVE  m_frameSeqRecord'[m][Slot(h.seq)].id = Wire(h.seq)
      <4>1. CASE h.seq = p.seq
        BY Zenon, <1>4, <4>1
      <4>2. CASE h.seq # p.seq
        <5>1. h.seq \in received[m] /\ m_frameSeqRecord[m][Slot(h.seq)].id = Wire(h.seq)
          BY Zenon, <1>0, <1>13, <2>2, <2>5, <3>1, <4>2 DEF Fit
        <5>2. h.seq # 0 /\ h.seq \in Nat /\ m_frameSeq[n] \in Nat
          <6>1. h.seq \in Nat
            BY Zenon, <2>1, SentType DEF TypeInv, Alike
          <6>2. m_frameSeq[n] \in Nat
            BY Zenon, <1>0 DEF TypeInv, TypeOK
          <6>3. h.seq # 0
            BY Zenon, <1>0, <5>1 DEF OnceInv, Numbered
          <6>4. QED
            BY Zenon, <6>1, <6>2, <6>3
        <5>3. /\ h.seq < m_frameSeq[n] /\ m_frameSeq[n] <= h.seq + NFrames
              /\ p.seq < m_frameSeq[n] /\ m_frameSeq[n] <= p.seq + NFrames
          BY Zenon, <1>2, <2>2, <2>5, <5>2 DEF Fit
        <5>4. Slot(h.seq) # Slot(p.seq)
          BY Zenon, <1>3, <4>2, <5>2, <5>3, SlotGap
        <5>5. Slot(h.seq) \in Slots
          BY Zenon, <5>2, SlotType
        <5>6. QED
          BY Zenon, <1>4, <5>1, <5>4, <5>5
      <4>3. QED
        BY Zenon, <4>1, <4>2
    <3>2. ASSUME h.seq \notin received'[m], NEW i \in Loads(h) PROVE Fresh(n, h.iov, i)'
      <4>1. Fresh(n, h.iov, i)
        BY Zenon, <1>0, <1>12, <2>2, <2>5, <3>2 DEF Fit
      <4>2. ASSUME rx'[m].k = h.iov, i \in Reading(m)' PROVE FALSE
        <5>1. h.iov = p.iov /\ i \in Loads(p) /\ p.seq \in received'[m]
          BY Zenon, <1>10, <4>2
        <5>2. g.iov = p.iov /\ Loads(g) \cap Loads(p) # {}
          BY Zenon, <2>1, <3>2, <5>1 DEF Alike, Loads
        <5>3. g.seq = p.seq
          BY Zenon, <1>2, <2>5, <5>2 DEF OnceInv, OneNumber
        <5>4. QED
          BY Zenon, <2>1, <3>2, <5>1, <5>3 DEF Alike
      <4>3. ~ Done(<<n, h.iov>>, i)'
        BY Zenon, <1>0, <1>9, <4>1 DEF Fresh
      <4>4. QED
        BY Zenon, <1>0, <4>2, <4>3 DEF Fresh, Reading, NoMsg, Done, NumMsgs, msgCount
    <3>3. \A i \in Loads(h) : h.seq \notin received'[m] => Fresh(o, h.iov, i)'
      BY Zenon, <2>5, <3>2 DEF Fresh, Reading, NoMsg, Done, NumMsgs, msgCount
    <3>4. QED
      BY Zenon, <1>0, <1>1, <2>2, <2>3, <2>5, <3>1, <3>3 DEF Fit, Slot, Wire, Loads
  <2>6. QED
    BY Zenon, <2>4, <2>5
<1>15. OneNumber'
  BY Zenon, <1>7, OneNumberKept DEF OnceInv
<1>16. RingFit'
  <2> SUFFICES ASSUME NEW o \in Node, NEW s \in Slots
      PROVE LET f == m_freeFrames'[o][s] IN
            /\ IF f.seq = 0 THEN f.is_free /\ f.msg_count = 0 /\ ~ Holds(o, s)'
                            ELSE Slot(f.seq) = s
            /\ app'[o].phase = "got" /\ app'[o].slot = s => f.msg_count = 0
            /\ f.msg_count = 0 => /\ f.seq \notin received'[Peer[o]]
                                  /\ \A g \in Sent(o)' : g.seq = f.seq => g.msg_count = 0
    BY Zenon DEF RingFit, Slot
  <2> DEFINE f == m_freeFrames[o][s]
  <2>1. /\ IF f.seq = 0 THEN f.is_free /\ f.msg_count = 0 /\ ~ Holds(o, s) ELSE Slot(f.seq) = s
        /\ app[o].phase = "got" /\ app[o].slot = s => f.msg_count = 0
        /\ f.msg_count = 0 => f.seq \notin received[Peer[o]]
        /\ f.msg_count = 0 => \A g \in Sent(o) : g.seq = f.seq => g.msg_count = 0
    BY Zenon DEF OnceInv, RingFit
  <2>2. /\ m_freeFrames'[o][s].seq = f.seq /\ m_freeFrames'[o][s].msg_count = f.msg_count
        /\ f.is_free => m_freeFrames'[o][s].is_free
    BY Zenon, <1>6 DEF Alike
  <2> HIDE DEF f
  <2>3. ASSUME f.msg_count = 0, NEW g \in Sent(o)', g.seq = f.seq PROVE g.msg_count = 0
    <3>1. PICK c \in Sent(o) : Alike(g, c)
      BY Zenon, <1>7
    <3>2. c.seq = f.seq /\ g.msg_count = c.msg_count
      BY Zenon, <2>3, <3>1 DEF Alike
    <3>3. QED
      BY Zenon, <2>1, <2>3, <3>2
  <2>4. ASSUME f.msg_count = 0 PROVE f.seq \notin received'[Peer[o]]
    <3>1. CASE o = n
      BY Zenon, <1>0, <1>2, <1>13, <2>1, <2>4, <3>1
    <3>2. CASE o # n
      BY Zenon, <1>8, <2>1, <2>4, <3>2
    <3>3. QED
      BY Zenon, <3>1, <3>2
  <2>5. Holds(o, s)' <=> Holds(o, s)
    BY Zenon, <1>1 DEF Holds
  <2>6. QED
    BY Zenon, <1>1, <2>1, <2>2, <2>3, <2>4, <2>5
<1>17. Numbered'
  <2>1. \A q \in net' : q.seq # 0
    BY Zenon DEF OnceInv, Numbered
  <2>2. ASSUME NEW o \in Node, NEW e \in received'[Peer[o]] PROVE e # 0 /\ e < m_frameSeq[o]
    <3>1. CASE o = n
      BY Zenon, <1>0, <1>2, <1>13, <3>1 DEF OnceInv, Numbered, Fit
    <3>2. CASE o # n
      BY Zenon, <1>8, <3>2 DEF OnceInv, Numbered
    <3>3. QED
      BY Zenon, <3>1, <3>2
  <2>3. QED
    BY Zenon, <1>1, <2>1, <2>2 DEF Numbered
<1>18. ReadFit'
  <2> SUFFICES ASSUME NEW o \in Node, rx'[Peer[o]] # NoMsg
      PROVE /\ Span(o, rx[Peer[o]].k, rx[Peer[o]].next, rx[Peer[o]].last)'
            /\ \A i \in Reading(Peer[o])' : ~ Done(<<o, rx[Peer[o]].k>>, i)'
    BY Zenon DEF ReadFit, NoMsg
  <2>1. CASE o = n
    <3>1. p.msg_count # 0
      BY Zenon, <1>0, <1>5, <2>1
    <3>2. rx'[m].k = p.iov /\ rx'[m].next = p.first /\ rx'[m].last = p.first + p.msg_count - 1
      <4>1. IsReading(rx'[m], p.iov, p.first, p.first + p.msg_count - 1)
        BY Zenon, <1>5, <3>1 DEF IsReading
      <4>2. ReadingIs(rx'[m], p.iov, p.first, p.first + p.msg_count - 1)
        BY Zenon, <4>1, RecordFields
      <4>3. QED
        BY Zenon, <4>2 DEF ReadingIs
    <3>3. Span(n, p.iov, p.first, p.first + p.msg_count - 1)
      BY Zenon, <1>2, <3>1 DEF Fit
    <3>4. Span(o, rx[Peer[o]].k, rx[Peer[o]].next, rx[Peer[o]].last)'
      BY Zenon, <1>0, <1>1, <2>1, <3>2, <3>3 DEF Span, msgCount
    <3>5. ASSUME NEW i \in Reading(Peer[o])' PROVE ~ Done(<<o, rx[Peer[o]].k>>, i)'
      <4>1. i \in Loads(p)
        BY Zenon, <1>0, <1>10, <2>1, <3>5
      <4>2. ~ Done(<<n, p.iov>>, i)
        BY Zenon, <1>11, <4>1 DEF Fresh
      <4>3. QED
        BY Zenon, <1>0, <1>1, <2>1, <3>2, <4>2 DEF Done, NumMsgs, msgCount
    <3>6. QED
      BY Zenon, <3>4, <3>5
  <2>2. CASE o # n
    <3>1. rx'[Peer[o]] = rx[Peer[o]] /\ Reading(Peer[o])' = Reading(Peer[o])
      BY Zenon, <1>8, <2>2
    <3>2. /\ Span(o, rx[Peer[o]].k, rx[Peer[o]].next, rx[Peer[o]].last)
          /\ \A i \in Reading(Peer[o]) : ~ Done(<<o, rx[Peer[o]].k>>, i)
      BY Zenon, <3>1 DEF OnceInv, ReadFit
    <3>3. QED
      BY Zenon, <1>1, <3>1, <3>2 DEF Span, Done, NumMsgs, msgCount
  <2>3. QED
    BY Zenon, <2>1, <2>2
<1>19. UnsentFresh'
  <2> SUFFICES ASSUME NEW o \in Node, NEW k \in 1 .. Len(Msgs[o]),
                      NEW i \in 1 .. msgCount(<<o, k>>), Unsent(o, k, i)'
               PROVE  Fresh(o, k, i)'
    BY Zenon DEF UnsentFresh, msgCount
  <2>1. Unsent(o, k, i) /\ Fresh(o, k, i)
    BY Zenon, <1>9 DEF OnceInv, UnsentFresh
  <2>2. CASE o = n
    <3>1. ASSUME rx'[m].k = k, i \in Reading(m)' PROVE FALSE
      <4>1. k = p.iov /\ i \in Loads(p) /\ p.msg_count # 0
        BY Zenon, <1>10, <1>11, <3>1
      <4>2. Span(n, p.iov, p.first, p.first + p.msg_count - 1)
        BY Zenon, <1>2, <4>1 DEF Fit
      <4>3. app[n].k \in Nat /\ app[n].msg \in Nat
        BY Zenon, <1>0, AppType
      <4>4. QED
        BY Zenon, <1>0, <2>1, <2>2, <4>1, <4>2, NotUnsent DEF Loads
    <3>2. ~ Done(<<n, k>>, i)'
      BY Zenon, <1>0, <1>9, <2>1, <2>2 DEF Fresh
    <3>3. QED
      BY Zenon, <1>0, <2>2, <3>1, <3>2 DEF Fresh, Reading, NoMsg, Done, NumMsgs, msgCount
  <2>3. CASE o # n
    BY Zenon, <1>8, <2>1, <2>3
  <2>4. QED
    BY Zenon, <2>2, <2>3
<1>20. AtMostOnce'
  BY Zenon, <1>1 DEF OnceInv, AtMostOnce
<1>21. QED
  BY Zenon, <1>14, <1>15, <1>16, <1>17, <1>18, <1>19, <1>20 DEF OnceInv

\* A step that only takes datagrams away, or none.
LEMMA DropOnce ==
  ASSUME TypeInv, OnceInv, net' \subseteq net,
         UNCHANGED <<m_frameSeq, m_freeFrames, received, m_frameSeqRecord, rx, copied, flag, app>>
  PROVE  OnceInv'
<1>1. \A o \in Node : \A r \in Slots :
        /\ Alike(m_freeFrames'[o][r], m_freeFrames[o][r])
        /\ m_freeFrames[o][r].is_free => m_freeFrames'[o][r].is_free
  BY Zenon DEF Alike
<1>2. \A o \in Node : \A h \in Sent(o)' : \E g \in Sent(o) : Alike(h, g)
  BY Zenon, <1>1, SentAlike
<1>3. \A p \in net' : p.seq # 0
  BY Zenon DEF OnceInv, Numbered
<1>4. \A o \in Node : app'[o].k \in Nat /\ Onward(o)
  BY Zenon, AppType DEF Onward
<1>5. \A o \in Node : \A r \in Slots : Holds(o, r)' => Holds(o, r)
  BY Zenon DEF Holds
<1>6. \A o \in Node : app'[o].phase = "got" =>
        app[o].phase = "got" /\ app'[o].slot = app[o].slot
  BY Zenon
<1>7. QED
  BY Zenon, <1>1, <1>2, <1>3, <1>4, <1>5, <1>6, QuietOnce

LEMMA ProcessFrameOnce ==
  ASSUME TypeInv, OnceInv, NEW m \in Node, ProcessFrame(m)
  PROVE  OnceInv'
<1>1. PICK p \in net : p.src = Peer[m] /\ net' = net \ {p} /\ (ProcessDup(m, p) \/ ProcessNew(m, p))
  BY Zenon DEF ProcessFrame
<1>2. Unlocked(m) /\ UNCHANGED <<m_frameSeq, app, copied, flag>>
  BY Zenon DEF ProcessFrame
<1>3. CASE ProcessDup(m, p)
  <2>1. UNCHANGED <<m_freeFrames, m_frameSeqRecord, rx, received>>
    BY Zenon, <1>3 DEF ProcessDup
  <2>2. net' \subseteq net
    BY Zenon, <1>1
  <2>3. QED
    BY Zenon, <1>2, <2>1, <2>2, DropOnce
<1>4. CASE ProcessNew(m, p)
  BY Zenon, <1>1, <1>2, <1>4, ProcessNewOnce
<1>5. QED
  BY Zenon, <1>1, <1>3, <1>4

LEMMA StartPostOnce ==
  ASSUME TypeInv, OnceInv, NEW n \in Node, StartPost(n)
  PROVE  OnceInv'
<1>1. /\ app' = [app EXCEPT ![n] = [k |-> @.k + 1, msg |-> 0, phase |-> "loop", slot |-> 0]]
      /\ UNCHANGED <<m_frameSeq, m_freeFrames, received, m_frameSeqRecord, rx, copied, flag, net>>
  BY Zenon DEF StartPost
<1>2. \A o \in Node : \A r \in Slots :
        /\ Alike(m_freeFrames'[o][r], m_freeFrames[o][r])
        /\ m_freeFrames[o][r].is_free => m_freeFrames'[o][r].is_free
  BY Zenon, <1>1 DEF Alike
<1>3. \A o \in Node : \A h \in Sent(o)' : \E g \in Sent(o) : Alike(h, g)
  BY Zenon, <1>1, <1>2, SentAlike
<1>4. \A p \in net' : p.seq # 0
  BY Zenon, <1>1 DEF OnceInv, Numbered
<1>5. /\ app'[n].k = app[n].k + 1 /\ app'[n].phase = "loop"
      /\ \A o \in Node \ {n} : app'[o] = app[o]
  <2>1. app \in [Node -> AppState]
    BY Zenon DEF TypeInv, TypeOK
  <2>2. QED
    BY Zenon, <1>1, <2>1
<1>6. \A o \in Node : app'[o].k \in Nat /\ Onward(o)
  <2>1. \A i \in Nat : i + 1 \in Nat /\ i < i + 1
    OBVIOUS
  <2>2. QED
    BY Zenon, <1>5, <2>1, AppType DEF Onward
<1>7. \A o \in Node : \A r \in Slots : Holds(o, r)' => Holds(o, r)
  BY Zenon, <1>5 DEF Holds
<1>8. \A o \in Node : app'[o].phase = "got" =>
        app[o].phase = "got" /\ app'[o].slot = app[o].slot
  BY Zenon, <1>5
<1>9. QED
  BY Zenon, <1>1, <1>2, <1>3, <1>4, <1>6, <1>7, <1>8, QuietOnce

\* One turn of processFrame's loop: the message it handles was not handled,
\* and it is the only one whose state changes.
LEMMA HandleOnce ==
  ASSUME TypeInv, OnceInv, NEW m \in Node, ProcessMsg(m), rx' # rx
  PROVE  LET n == Peer[m]
             k == rx[m].k
             i == rx[m].next
         IN /\ <<<<n, k>>, i>> \in Message /\ ~ Done(<<n, k>>, i)
            /\ rx[m] # NoMsg /\ Span(n, k, i, rx[m].last) /\ i \in Reading(m)
            /\ \A o \in Node \ {m} : rx'[o] = rx[o]
            /\ \/ rx'[m] = NoMsg
               \/ /\ rx'[m].k = k /\ rx'[m].next = i + 1 /\ rx'[m].last = rx[m].last
                  /\ i # rx[m].last
            /\ \A o \in Node : \A a \in 1 .. Len(Msgs[o]) : \A j \in 1 .. msgCount(<<o, a>>) :
                 ~ (o = n /\ a = k /\ j = i) => (Done(<<o, a>>, j)' <=> Done(<<o, a>>, j))
            /\ \A x \in Message : copied'[x] = copied[x] \/
                 (x = <<<<n, k>>, i>> /\ NumMsgs(<<n, k>>) # 0 /\ copied'[x] = copied[x] + 1)
<1> DEFINE n == Peer[m]
           k == rx[m].k
           i == rx[m].next
           t == <<n, k>>
           num == NumMsgs(t)
<1>0. n \in Node /\ Peer[n] = m /\ rx[m] # NoMsg
  BY Zenon, PeerFacts DEF ProcessMsg, Unlocked
<1>1. /\ copied' = [copied EXCEPT ![<<t, i>>] = IF num # 0 THEN @ + 1 ELSE @]
      /\ \E c : flag' = [flag EXCEPT ![t] = c]
      /\ rx' = [rx EXCEPT ![m] = IF i = rx[m].last THEN NoMsg ELSE [rx[m] EXCEPT !.next = i + 1]]
  BY Zenon DEF ProcessMsg
<1>2. Span(n, k, i, rx[m].last) /\ \A j \in Reading(m) : ~ Done(t, j)
  BY Zenon, <1>0 DEF OnceInv, ReadFit
<1>3. /\ i \in Nat /\ rx[m].last \in Nat /\ k \in 1 .. Len(Msgs[n]) /\ i <= rx[m].last
      /\ 1 <= i /\ rx[m].last <= msgCount(t) /\ msgCount(t) \in Nat /\ t \in Transaction
  <2>1. /\ k \in 1 .. Len(Msgs[n]) /\ rx[m].last \in 1 .. msgCount(t) /\ i \in 1 .. rx[m].last
    BY Zenon, <1>2 DEF Span
  <2>2. msgCount(t) \in Nat /\ t \in Transaction
    BY Zenon, <1>0, <2>1, MsgCountType
  <2> HIDE DEF t, i, k
  <2>3. QED
    BY Zenon, <2>1, <2>2, RangeOfRange
<1>4. i \in Reading(m) /\ <<t, i>> \in Message
  <2>1. i \in i .. rx[m].last /\ i \in 1 .. msgCount(t)
    <3> HIDE DEF i, t
    <3>1. QED
      BY <1>3
  <2>2. QED
    BY Zenon, <1>0, <1>3, <2>1, MessageType DEF Reading
<1>5. ~ Done(t, i)
  BY Zenon, <1>2, <1>4
<1>6. /\ copied \in [Message -> Nat] /\ flag \in [Transaction -> BOOLEAN]
      /\ rx \in [Node -> [k : TransNo, next : Nat, last : Nat]]
  BY Zenon DEF TypeInv, TypeOK
<1>7. /\ \A o \in Node \ {m} : rx'[o] = rx[o]
      /\ rx'[m] = IF i = rx[m].last THEN NoMsg ELSE [rx[m] EXCEPT !.next = i + 1]
  BY Zenon, <1>1, <1>6
<1>8. \/ rx'[m] = NoMsg
      \/ rx'[m].k = k /\ rx'[m].next = i + 1 /\ rx'[m].last = rx[m].last /\ i # rx[m].last
  <2>1. rx[m] \in [k : TransNo, next : Nat, last : Nat]
    BY Zenon, <1>6
  <2>2. QED
    BY Zenon, <1>7, <2>1
<1>9. \A x \in Message : IF x = <<t, i>> THEN copied'[x] = IF num # 0 THEN copied[x] + 1 ELSE copied[x]
                                         ELSE copied'[x] = copied[x]
  BY Zenon, <1>1, <1>6
<1>10. \A u \in Transaction : u # t => flag'[u] = flag[u]
  BY Zenon, <1>1, <1>6
<1>11. ASSUME NEW o \in Node, NEW a \in 1 .. Len(Msgs[o]), NEW j \in 1 .. msgCount(<<o, a>>),
              ~ (o = n /\ a = k /\ j = i)
       PROVE  Done(<<o, a>>, j)' <=> Done(<<o, a>>, j)
  <2>1. <<o, a>> \in Transaction /\ <<<<o, a>>, j>> \in Message
    BY Zenon, MsgCountType, MessageType
  <2>2. CASE <<o, a>> = t
    <3>1. o = n /\ a = k
      BY Zenon, <2>2
    <3>2. j # i
      BY Zenon, <1>11, <3>1
    <3>3. num # 0
      <4>1. msgCount(t) # 1
        <5> HIDE DEF i, t
        <5>1. QED
          BY <1>3, <2>2, <3>2
      <4>2. QED
        BY <1>3, <4>1 DEF NumMsgs
    <3>4. <<<<o, a>>, j>> # <<t, i>>
      BY Zenon, <3>2
    <3>5. copied'[<<<<o, a>>, j>>] = copied[<<<<o, a>>, j>>]
      BY Zenon, <1>9, <2>1, <3>4
    <3>6. NumMsgs(<<o, a>>) # 0
      BY Zenon, <2>2, <3>3
    <3>7. QED
      BY Zenon, <3>5, <3>6 DEF Done, NumMsgs, msgCount
  <2>3. CASE <<o, a>> # t
    <3>1. <<<<o, a>>, j>> # <<t, i>>
      BY Zenon, <2>3
    <3>2. copied'[<<<<o, a>>, j>>] = copied[<<<<o, a>>, j>>] /\ flag'[<<o, a>>] = flag[<<o, a>>]
      BY Zenon, <1>9, <1>10, <2>1, <2>3, <3>1
    <3>3. QED
      BY Zenon, <3>2 DEF Done, NumMsgs, msgCount
  <2>4. QED
    BY Zenon, <2>2, <2>3
<1>12. QED
  BY Zenon, <1>0, <1>2, <1>4, <1>5, <1>7, <1>8, <1>9, <1>11

LEMMA ProcessMsgOnce ==
  ASSUME TypeInv, OnceInv, NEW m \in Node, ProcessMsg(m)
  PROVE  OnceInv'
<1> DEFINE n == Peer[m]
           k == rx[m].k
           i == rx[m].next
<1>1. /\ m_frameSeq' = m_frameSeq /\ m_freeFrames' = m_freeFrames /\ app' = app /\ net' = net
      /\ m_frameSeqRecord' = m_frameSeqRecord /\ received' = received
  BY Zenon DEF ProcessMsg
<1>2. CASE rx' = rx
  <2>1. copied' = copied /\ flag' = flag
    <3>1. CASE UNCHANGED <<rx, copied, flag>>
      BY Zenon, <3>1
    <3>2. CASE rx' = [rx EXCEPT ![m] = IF i = rx[m].last THEN NoMsg ELSE [rx[m] EXCEPT !.next = i + 1]]
      <4>1. rx \in [Node -> [k : TransNo, next : Nat, last : Nat]] /\ rx[m] # NoMsg
        BY Zenon DEF TypeInv, TypeOK, ProcessMsg, Unlocked
      <4>2. rx[m] = IF i = rx[m].last THEN NoMsg ELSE [rx[m] EXCEPT !.next = i + 1]
        BY Zenon, <1>2, <3>2, <4>1
      <4>3. rx[m].next = i + 1 /\ i \in Nat
        BY Zenon, <4>1, <4>2
      <4>4. QED
        BY <4>3
    <3>3. QED
      BY Zenon, <3>1, <3>2 DEF ProcessMsg
  <2>2. QED
    BY Zenon, <1>1, <1>2, <2>1, DropOnce
<1>3. CASE rx' # rx
  <2>1. /\ <<<<n, k>>, i>> \in Message /\ ~ Done(<<n, k>>, i)
        /\ rx[m] # NoMsg /\ Span(n, k, i, rx[m].last) /\ i \in Reading(m)
        /\ \A o \in Node \ {m} : rx'[o] = rx[o]
        /\ \/ rx'[m] = NoMsg
           \/ /\ rx'[m].k = k /\ rx'[m].next = i + 1 /\ rx'[m].last = rx[m].last
              /\ i # rx[m].last
        /\ \A o \in Node : \A a \in 1 .. Len(Msgs[o]) : \A j \in 1 .. msgCount(<<o, a>>) :
             ~ (o = n /\ a = k /\ j = i) => (Done(<<o, a>>, j)' <=> Done(<<o, a>>, j))
        /\ \A x \in Message : copied'[x] = copied[x] \/
             (x = <<<<n, k>>, i>> /\ NumMsgs(<<n, k>>) # 0 /\ copied'[x] = copied[x] + 1)
    BY Zenon, <1>3, HandleOnce
  <2>2. n \in Node /\ Peer[n] = m /\ \A o \in Node : Peer[o] \in Node /\ (Peer[o] = m => o = n)
    BY Zenon, PeerFacts
  <2>3. i \in Nat /\ rx[m].last \in Nat
    <3>1. rx[m] \in [k : TransNo, next : Nat, last : Nat]
      BY Zenon DEF TypeInv, TypeOK
    <3>2. QED
      BY Zenon, <3>1
  <2>4. ASSUME NEW j \in Reading(m)'
        PROVE  rx'[m].k = k /\ j \in Reading(m) /\ j # i
    <3>1. rx'[m] # NoMsg
      BY Zenon, <2>4 DEF Reading, NoMsg
    <3>2. j \in i + 1 .. rx[m].last /\ rx'[m].k = k
      BY Zenon, <2>1, <2>4, <3>1 DEF Reading, NoMsg
    <3>3. j \in i .. rx[m].last /\ j # i
      BY <2>3, <3>2
    <3>4. QED
      BY Zenon, <2>1, <3>2, <3>3 DEF Reading
  <2>5. ASSUME NEW o \in Node, NEW a \in 1 .. Len(Msgs[o]), NEW j \in 1 .. msgCount(<<o, a>>),
               Fresh(o, a, j)
        PROVE  Fresh(o, a, j)'
    <3>1. ~ (o = n /\ a = k /\ j = i)
      BY Zenon, <2>1, <2>2, <2>5 DEF Fresh
    <3>2. ~ Done(<<o, a>>, j)'
      BY Zenon, <2>1, <2>5, <3>1 DEF Fresh
    <3>3. ASSUME rx'[Peer[o]].k = a, j \in Reading(Peer[o])' PROVE FALSE
      <4>1. CASE o = n
        <5>1. rx'[m].k = k /\ j \in Reading(m)
          BY Zenon, <2>2, <2>4, <3>3, <4>1
        <5>2. QED
          BY Zenon, <2>2, <2>5, <3>3, <4>1, <5>1 DEF Fresh
      <4>2. CASE o # n
        <5>1. Peer[o] \in Node \ {m}
          BY Zenon, <2>2, <4>2
        <5>2. rx'[Peer[o]] = rx[Peer[o]]
          BY Zenon, <2>1, <5>1
        <5>3. j \in Reading(Peer[o]) /\ rx[Peer[o]].k = a
          BY Zenon, <3>3, <5>2 DEF Reading, NoMsg
        <5>4. QED
          BY Zenon, <2>5, <5>3 DEF Fresh
      <4>3. QED
        BY Zenon, <4>1, <4>2
    <3>4. QED
      BY Zenon, <3>2, <3>3 DEF Fresh, Done, Reading, NoMsg, NumMsgs, msgCount
  <2> HIDE DEF n, k, i
  <2>6. Carried'
    <3> SUFFICES ASSUME NEW o \in Node, NEW h \in Sent(o)' PROVE Fit(o, h)'
      BY Zenon DEF Carried
    <3>1. h \in Sent(o)
      BY Zenon, <1>1 DEF Sent
    <3>2. Fit(o, h)
      BY Zenon, <3>1 DEF OnceInv, Carried
    <3>3. Span(o, h.iov, h.first, h.first + h.msg_count - 1) =>
            Span(o, h.iov, h.first, h.first + h.msg_count - 1)'
      BY Zenon, <1>1 DEF Span, msgCount
    <3>4. ASSUME h.seq \notin received[Peer[o]], NEW j \in Loads(h) PROVE Fresh(o, h.iov, j)'
      <4>1. Fresh(o, h.iov, j)
        BY Zenon, <3>2, <3>4 DEF Fit
      <4>2. h.msg_count \in Nat /\ h.first \in Nat
        BY Zenon, <3>1, SentType DEF TypeInv
      <4>3. h.msg_count # 0 /\ j >= h.first /\ j <= h.first + h.msg_count - 1 /\ j \in Nat
        BY <4>2 DEF Loads
      <4>4. /\ h.iov \in 1 .. Len(Msgs[o]) /\ h.first + h.msg_count - 1 \in 1 .. msgCount(<<o, h.iov>>)
            /\ h.first \in 1 .. h.first + h.msg_count - 1
        BY Zenon, <3>2, <4>3 DEF Fit, Span
      <4>5. msgCount(<<o, h.iov>>) \in Nat
        BY Zenon, <4>4, MsgCountType
      <4>6. j \in 1 .. msgCount(<<o, h.iov>>)
        BY <4>2, <4>3, <4>4, <4>5
      <4>7. QED
        BY Zenon, <2>5, <4>1, <4>4, <4>6
    <3>5. QED
      BY Zenon, <1>1, <3>2, <3>3, <3>4 DEF Fit, Slot, Wire, Loads
  <2>7. OneNumber' /\ RingFit' /\ Numbered'
    <3>1. \A o \in Node : Sent(o)' = Sent(o)
      BY Zenon, <1>1 DEF Sent
    <3>2. OneNumber'
      BY Zenon, <3>1, OneNumberKept DEF OnceInv, Alike
    <3>3. RingFit'
      BY Zenon, <1>1, <3>1 DEF OnceInv, RingFit, Slot, Holds
    <3>4. Numbered'
      BY Zenon, <1>1 DEF OnceInv, Numbered
    <3>5. QED
      BY Zenon, <3>2, <3>3, <3>4
  <2>8. ReadFit'
    <3> SUFFICES ASSUME NEW o \in Node, rx'[Peer[o]] # NoMsg
        PROVE /\ Span(o, rx[Peer[o]].k, rx[Peer[o]].next, rx[Peer[o]].last)'
              /\ \A j \in Reading(Peer[o])' : ~ Done(<<o, rx[Peer[o]].k>>, j)'
      BY Zenon DEF ReadFit, NoMsg
    <3>1. /\ rx[Peer[o]] # NoMsg
          /\ Span(o, rx[Peer[o]].k, rx[Peer[o]].next, rx[Peer[o]].last)
          /\ \A j \in Reading(Peer[o]) : ~ Done(<<o, rx[Peer[o]].k>>, j)
          /\ rx'[Peer[o]].k = rx[Peer[o]].k /\ rx'[Peer[o]].last = rx[Peer[o]].last
          /\ rx'[Peer[o]].next \in 1 .. rx[Peer[o]].last
          /\ Reading(Peer[o])' \subseteq Reading(Peer[o])
          /\ o = n => i \notin Reading(Peer[o])'
      <4>1. CASE o = n
        <5>1. rx'[m].k = k /\ rx'[m].next = i + 1 /\ rx'[m].last = rx[m].last /\ i # rx[m].last
          BY Zenon, <2>1, <2>2, <4>1
        <5>2. Span(n, k, i, rx[m].last) /\ i \in 1 .. rx[m].last
          BY Zenon, <2>1 DEF Span
        <5>3. i + 1 \in 1 .. rx[m].last
          BY Zenon, <2>3, <5>1, <5>2, NextInRange
        <5>4. \A j \in Reading(Peer[n]) : ~ Done(<<n, k>>, j)
          BY Zenon, <2>1, <2>2 DEF OnceInv, ReadFit, k
        <5>5. QED
          BY Zenon, <2>1, <2>2, <2>4, <4>1, <5>1, <5>2, <5>3, <5>4 DEF k, i
      <4>2. CASE o # n
        <5>1. Peer[o] \in Node \ {m}
          BY Zenon, <2>2, <4>2
        <5>2. rx'[Peer[o]] = rx[Peer[o]]
          BY Zenon, <2>1, <5>1
        <5>3. /\ Span(o, rx[Peer[o]].k, rx[Peer[o]].next, rx[Peer[o]].last)
              /\ \A j \in Reading(Peer[o]) : ~ Done(<<o, rx[Peer[o]].k>>, j)
          BY Zenon, <5>2 DEF OnceInv, ReadFit
        <5>4. Reading(Peer[o])' = Reading(Peer[o])
          BY Zenon, <5>2 DEF Reading, NoMsg
        <5>5. QED
          BY Zenon, <4>2, <5>2, <5>3, <5>4 DEF Span
      <4>3. QED
        BY Zenon, <4>1, <4>2
    <3>2. Span(o, rx[Peer[o]].k, rx[Peer[o]].next, rx[Peer[o]].last)'
      BY Zenon, <1>1, <3>1 DEF Span, msgCount
    <3>3. ASSUME NEW j \in Reading(Peer[o])' PROVE ~ Done(<<o, rx[Peer[o]].k>>, j)'
      <4> DEFINE a == rx[Peer[o]].k
      <4>1. j \in Reading(Peer[o]) /\ ~ Done(<<o, a>>, j) /\ ~ (o = n /\ j = i)
        BY Zenon, <3>1
      <4>2. /\ a \in 1 .. Len(Msgs[o]) /\ rx[Peer[o]].last \in 1 .. msgCount(<<o, a>>)
            /\ rx[Peer[o]].next \in 1 .. rx[Peer[o]].last
        BY Zenon, <3>1 DEF Span
      <4>3. j \in rx[Peer[o]].next .. rx[Peer[o]].last
        BY Zenon, <3>1, <4>1 DEF Reading
      <4>4. msgCount(<<o, a>>) \in Nat
        BY Zenon, <4>2, MsgCountType
      <4>5. j \in 1 .. msgCount(<<o, a>>)
        BY <4>2, <4>3, <4>4
      <4>6. \A b \in 1 .. Len(Msgs[o]) : j \in 1 .. msgCount(<<o, b>>) =>
              (Done(<<o, b>>, j)' <=> Done(<<o, b>>, j))
        BY Zenon, <2>1, <4>1
      <4>7. QED
        BY Zenon, <3>1, <4>1, <4>2, <4>5, <4>6 DEF Done, NumMsgs, msgCount
    <3>4. QED
      BY Zenon, <3>2, <3>3
  <2>9. UnsentFresh'
    <3> SUFFICES ASSUME NEW o \in Node, NEW a \in 1 .. Len(Msgs[o]),
                        NEW j \in 1 .. msgCount(<<o, a>>), Unsent(o, a, j)'
                 PROVE  Fresh(o, a, j)'
      BY Zenon DEF UnsentFresh, msgCount
    <3>1. Unsent(o, a, j)
      BY Zenon, <1>1 DEF Unsent
    <3>2. QED
      BY Zenon, <2>5, <3>1 DEF OnceInv, UnsentFresh
  <2>10. AtMostOnce'
    <3> SUFFICES ASSUME NEW x \in Message PROVE copied'[x] <= 1
      BY Zenon DEF AtMostOnce
    <3>1. copied[x] <= 1 /\ copied[x] \in Nat
      BY Zenon DEF OnceInv, AtMostOnce, TypeInv, TypeOK
    <3>2. CASE copied'[x] = copied[x]
      BY Zenon, <3>1, <3>2
    <3>3. CASE copied'[x] # copied[x]
      <4>1. x = <<<<n, k>>, i>> /\ NumMsgs(<<n, k>>) # 0 /\ copied'[x] = copied[x] + 1
        BY Zenon, <2>1, <3>3
      <4>2. ~ (copied[x] > 0)
        BY Zenon, <2>1, <4>1 DEF Done
      <4>3. QED
        BY <3>1, <4>1, <4>2
    <3>4. QED
      BY Zenon, <3>2, <3>3
  <2>11. QED
    BY Zenon, <2>6, <2>7, <2>8, <2>9, <2>10 DEF OnceInv
<1>4. QED
  BY Zenon, <1>2, <1>3

LEMMA NetworkOnce ==
  ASSUME TypeInv, OnceInv, Lose \/ Duplicate
  PROVE  OnceInv'
<1>1. CASE Lose
  <2>1. net' \subseteq net
    BY Zenon, <1>1 DEF Lose
  <2>2. QED
    BY Zenon, <1>1, <2>1, DropOnce DEF Lose
<1>2. CASE Duplicate
  <2>1. PICK p \in net : net' = net \cup {[p EXCEPT !.dup = dups + 1]}
    BY Zenon, <1>2 DEF Duplicate
  <2> DEFINE q == [p EXCEPT !.dup = dups + 1]
  <2>2. p \in Packet
    BY Zenon DEF TypeInv, TypeOK
  <2>3. q.src = p.src /\ q.seq = p.seq /\ Alike(q, p)
    BY Zenon, <2>2 DEF Packet, Alike
  <2> HIDE DEF q
  <2>4. \A c \in net' : c \in net \/ c = q
    BY Zenon, <2>1 DEF q
  <2>5. UNCHANGED <<m_frameSeq, m_freeFrames, received, m_frameSeqRecord, rx, copied, flag, app>>
    BY Zenon, <1>2 DEF Duplicate
  <2>6. \A o \in Node : \A r \in Slots :
          /\ Alike(m_freeFrames'[o][r], m_freeFrames[o][r])
          /\ m_freeFrames[o][r].is_free => m_freeFrames'[o][r].is_free
    BY Zenon, <2>5 DEF Alike
  <2>7. \A c \in net' : c \in net \/ \E g \in Sent(c.src) : Alike(c, g)
    <3>1. p \in Sent(q.src)
      BY Zenon, <2>3 DEF Sent
    <3>2. QED
      BY Zenon, <2>3, <2>4, <3>1
  <2>8. \A o \in Node : \A h \in Sent(o)' : \E g \in Sent(o) : Alike(h, g)
    BY Zenon, <2>6, <2>7, SentAlike
  <2>9. \A c \in net' : c.seq # 0
    BY Zenon, <2>3, <2>4 DEF OnceInv, Numbered
  <2>10. \A o \in Node : app'[o].k \in Nat /\ Onward(o)
    BY Zenon, <2>5, AppType DEF Onward
  <2>11. QED
    BY Zenon, <2>5, <2>6, <2>8, <2>9, <2>10, QuietOnce DEF Holds
<1>3. QED
  BY Zenon, <1>1, <1>2

LEMMA InitOnce == ASSUME Init PROVE OnceInv
<1>1. /\ net = {} /\ rx = [n \in Node |-> NoMsg] /\ received = [n \in Node |-> {}]
      /\ app = [n \in Node |-> [k |-> 0, msg |-> 0, phase |-> "idle", slot |-> 0]]
      /\ copied = [m \in Message |-> 0] /\ flag = [t \in Transaction |-> FALSE]
      /\ m_freeFrames = [n \in Node |-> [s \in Slots |-> FreeFrame]]
  BY Zenon DEF Init
<1>2. \A n \in Node : Peer[n] \in Node /\ received[Peer[n]] = {} /\ rx[Peer[n]] = NoMsg
  BY Zenon, <1>1, PeerFacts
<1>3. \A n \in Node : \A s \in Slots : m_freeFrames[n][s] = FreeFrame
  BY Zenon, <1>1
<1>4. \A n \in Node : \A h \in Sent(n) : h = FreeFrame
  BY Zenon, <1>1, <1>3 DEF Sent
<1>5. /\ FreeFrame.seq = 0 /\ FreeFrame.msg_count = 0 /\ FreeFrame.is_free
      /\ Loads(FreeFrame) = {}
  <2>1. /\ FreeFrame.seq = 0 /\ FreeFrame.msg_count = 0 /\ FreeFrame.is_free /\ FreeFrame.first = 0
    BY Zenon DEF FreeFrame
  <2>2. QED
    BY <2>1 DEF Loads
<1>6. \A n \in Node : app[n].phase = "idle" /\ app[n].k = 0
  BY Zenon, <1>1
<1>7. Carried /\ OneNumber /\ Numbered
  BY Zenon, <1>1, <1>2, <1>4, <1>5 DEF Carried, Fit, OneNumber, Numbered
<1>8. RingFit
  <2>1. \A n \in Node : \A s \in Slots : app[n].phase # "got" /\ ~ Holds(n, s)
    BY Zenon, <1>6 DEF Holds
  <2>2. QED
    BY Zenon, <1>2, <1>3, <1>4, <1>5, <2>1 DEF RingFit
<1>9. ReadFit
  BY Zenon, <1>2 DEF ReadFit
<1>10. UnsentFresh
  <2> SUFFICES ASSUME NEW n \in Node, NEW k \in 1 .. Len(Msgs[n]), NEW i \in 1 .. msgCount(<<n, k>>)
               PROVE  Fresh(n, k, i)
    BY Zenon DEF UnsentFresh
  <2>1. <<n, k>> \in Transaction /\ <<<<n, k>>, i>> \in Message
    BY Zenon, MsgCountType, MessageType
  <2>2. flag[<<n, k>>] = FALSE /\ copied[<<<<n, k>>, i>>] = 0
    BY Zenon, <1>1, <2>1
  <2>3. ~ (0 > 0)
    OBVIOUS
  <2>4. QED
    BY Zenon, <1>2, <2>2, <2>3 DEF Fresh, Done, Reading
<1>11. AtMostOnce
  BY <1>1 DEF AtMostOnce
<1>12. QED
  BY Zenon, <1>7, <1>8, <1>9, <1>10, <1>11 DEF OnceInv

LEMMA OnceStep == ASSUME TypeInv, OnceInv, ~ LongLived, [Next]_vars PROVE OnceInv'
<1>1. ASSUME NEW n \in Node, NodeStep(n) PROVE OnceInv'
  <2>1. CASE WindowAbort(n)
    <3>1. /\ net' \subseteq net
          /\ UNCHANGED <<m_frameSeq, m_freeFrames, received, m_frameSeqRecord, rx, copied, flag, app>>
      BY Zenon, <2>1 DEF WindowAbort
    <3>2. QED
      BY Zenon, <3>1, DropOnce
  <2>2. CASE ~ WindowAbort(n)
    BY Zenon, <1>1, <2>2, StartPostOnce, GetFrameOnce, FillFrameOnce, PostFrameOnce, CheckAcksOnce,
       SendAcksOnce, ProcessFrameOnce, ProcessMsgOnce DEF NodeStep, AppStep
  <2>3. QED
    BY Zenon, <2>1, <2>2
<1>2. CASE UNCHANGED vars
  <2>1. /\ net' \subseteq net
        /\ UNCHANGED <<m_frameSeq, m_freeFrames, received, m_frameSeqRecord, rx, copied, flag, app>>
    BY Zenon, <1>2 DEF vars
  <2>2. QED
    BY Zenon, <2>1, DropOnce
<1>3. QED
  BY Zenon, <1>1, <1>2, NetworkOnce DEF Next

-----------------------------------------------------------------------------
(***************************************************************************)
(* The three assertions of the layer.                                      *)
(***************************************************************************)

\* The types of the record of reassembly.
LEMMA RecordType ==
  ASSUME TypeInv, NEW m \in Node
  PROVE  /\ m_msgTransactionRecord \in
              [Node -> [0 .. History - 1 -> [in_use : BOOLEAN, msgsProcessed : Nat]]]
         /\ 0 \in 0 .. History - 1 /\ rx[m].k \in TransNo
         /\ m_msgTransactionRecord[m][0].in_use \in BOOLEAN
         /\ m_msgTransactionRecord[m][0].msgsProcessed \in Nat
<1>1. /\ m_msgTransactionRecord \in
           [Node -> [0 .. History - 1 -> [in_use : BOOLEAN, msgsProcessed : Nat]]]
      /\ rx \in [Node -> [k : TransNo, next : Nat, last : Nat]]
  BY Zenon DEF TypeInv, TypeOK
<1>2. 0 \in 0 .. History - 1
  BY SizeAssumption
<1>3. /\ rx[m] \in [k : TransNo, next : Nat, last : Nat]
      /\ m_msgTransactionRecord[m][0] \in [in_use : BOOLEAN, msgsProcessed : Nat]
  BY Zenon, <1>1, <1>2
<1>4. QED
  BY Zenon, <1>1, <1>2, <1>3

\* The steps that stop a node.
LEMMA AbortSteps ==
  ASSUME [Next]_vars
  PROVE  \/ aborted' = aborted
         \/ \E n \in Node :
              \/ WindowAbort(n) /\ m_frameSeq[n] < MaxSeq
              \/ aborted' = [aborted EXCEPT ![n] = "dup"]
              \/ ProcessMsg(n)
<1>1. ASSUME NEW n \in Node, NodeStep(n), ~ ProcessMsg(n)
      PROVE  \/ aborted' = aborted
             \/ WindowAbort(n) /\ m_frameSeq[n] < MaxSeq
             \/ aborted' = [aborted EXCEPT ![n] = "dup"]
  <2>1. CASE StartPost(n) \/ FillFrame(n) \/ PostFrame(n) \/ CheckAcks(n)
    BY Zenon, <2>1 DEF StartPost, FillFrame, PostFrame, CheckAcks
  <2>2. CASE GetFrame(n) \/ SendAcks(n)
    BY Zenon, <2>2 DEF GetFrame, SendAcks
  <2>3. CASE ProcessFrame(n)
    BY Zenon, <2>3 DEF ProcessFrame, ProcessDup, ProcessNew
  <2>4. QED
    BY Zenon, <1>1, <2>1, <2>2, <2>3 DEF NodeStep, AppStep
<1>2. CASE Lose \/ Duplicate \/ UNCHANGED vars
  BY Zenon, <1>2 DEF Lose, Duplicate, vars
<1>3. QED
  BY Zenon, <1>1, <1>2 DEF Next

\* Only ProcessMsg writes the record and the count.
LEMMA InPlayOthers ==
  ASSUME [Next]_vars
  PROVE  \/ UNCHANGED <<m_msgTransactionRecord, m_frames_in_play>>
         \/ \E n \in Node : ProcessMsg(n)
<1>1. ASSUME NEW n \in Node, NodeStep(n), ~ ProcessMsg(n)
      PROVE  UNCHANGED <<m_msgTransactionRecord, m_frames_in_play>>
  BY Zenon, <1>1 DEF NodeStep, AppStep, StartPost, FillFrame, PostFrame, CheckAcks, GetFrame,
     SendAcks, ProcessFrame, WindowAbort
<1>2. CASE Lose \/ Duplicate \/ UNCHANGED vars
  BY Zenon, <1>2 DEF Lose, Duplicate, vars
<1>3. QED
  BY Zenon, <1>1, <1>2 DEF Next

LEMMA InPlayMsg ==
  ASSUME RoomInPlay, TypeInv, InPlayExact, NEW n \in Node, ProcessMsg(n)
  PROVE  InPlayExact' /\ aborted' = aborted
<1> DEFINE rec == m_msgTransactionRecord[n][0]
           t == <<Peer[n], rx[n].k>>
           inPlay == IF ~ rec.in_use THEN m_frames_in_play[n] + 1 ELSE m_frames_in_play[n]
<1>1. PICK f \in FramesInPlay : m_frames_in_play[n] = f + InPlay(n)
  BY Zenon DEF InPlayExact
<1>2. f \in Nat /\ f + 1 < History /\ History \in Nat
  BY Zenon, SizeAssumption DEF RoomInPlay
<1>3. inPlay = f + 1
  BY <1>1, <1>2 DEF InPlay
<1>4. ~ (inPlay >= History)
  BY <1>2, <1>3
<1>5. RecordIndex(rx[n].k) = 0
  BY Zenon, RecordIndexIsZero, RecordType
<1> DEFINE num == NumMsgs(t)
           before == IF ~ rec.in_use THEN 0 ELSE rec.msgsProcessed
           a == IF num # 0 THEN before + 1 ELSE before
           c == Closes(a, num)
<1>6. /\ c \in BOOLEAN
      /\ m_msgTransactionRecord' = [m_msgTransactionRecord EXCEPT ![n][0] =
           [in_use |-> ~ c, msgsProcessed |-> a]]
      /\ m_frames_in_play' = [m_frames_in_play EXCEPT ![n] = IF c THEN inPlay - 1 ELSE inPlay]
      /\ aborted' = aborted
  <2>1. c \in BOOLEAN
    BY Zenon DEF Closes
  <2>2. QED
    BY Zenon, <1>4, <1>5, <2>1 DEF ProcessMsg
<1> HIDE DEF inPlay, a, c
<1>7. m_frames_in_play \in [Node -> Nat]
  BY Zenon DEF TypeInv, TypeOK
<1>8. /\ m_msgTransactionRecord'[n][0].in_use = ~ c
      /\ \A o \in Node \ {n} : m_msgTransactionRecord'[o] = m_msgTransactionRecord[o]
  BY Zenon, <1>6, RecordType
<1>9. /\ m_frames_in_play'[n] = IF c THEN inPlay - 1 ELSE inPlay
      /\ \A o \in Node \ {n} : m_frames_in_play'[o] = m_frames_in_play[o]
  BY Zenon, <1>6, <1>7
<1>10. m_frames_in_play'[n] = f + InPlay(n)'
  <2>1. CASE c
    <3>1. InPlay(n)' = 0 /\ m_frames_in_play'[n] = inPlay - 1
      BY Zenon, <1>8, <1>9, <2>1 DEF InPlay
    <3>2. QED
      BY <1>2, <1>3, <3>1
  <2>2. CASE ~ c
    <3>1. InPlay(n)' = 1 /\ m_frames_in_play'[n] = inPlay
      BY Zenon, <1>8, <1>9, <2>2 DEF InPlay
    <3>2. QED
      BY Zenon, <1>3, <3>1
  <2>3. QED
    BY Zenon, <2>1, <2>2
<1>11. ASSUME NEW o \in Node PROVE \E e \in FramesInPlay : m_frames_in_play'[o] = e + InPlay(o)'
  <2>1. CASE o = n
    BY Zenon, <1>10, <2>1
  <2>2. CASE o # n
    <3>1. PICK e \in FramesInPlay : m_frames_in_play[o] = e + InPlay(o)
      BY Zenon DEF InPlayExact
    <3>2. m_frames_in_play'[o] = m_frames_in_play[o] /\ InPlay(o)' = InPlay(o)
      BY Zenon, <1>8, <1>9, <2>2 DEF InPlay
    <3>3. QED
      BY Zenon, <3>1, <3>2
  <2>3. QED
    BY Zenon, <2>1, <2>2
<1>12. QED
  BY Zenon, <1>6, <1>11 DEF InPlayExact

LEMMA InPlayStep ==
  ASSUME RoomInPlay, TypeInv, InPlayExact, NoInPlayAbort, [Next]_vars
  PROVE  InPlayExact' /\ NoInPlayAbort'
<1>1. InPlayExact'
  <2>1. CASE UNCHANGED <<m_msgTransactionRecord, m_frames_in_play>>
    BY Zenon, <2>1 DEF InPlayExact, InPlay
  <2>2. QED
    BY Zenon, <2>1, InPlayOthers, InPlayMsg
<1>2. aborted \in [Node -> {"no", "window", "dup", "inplay"}]
  BY Zenon DEF TypeInv, TypeOK
<1>3. ASSUME NEW n \in Node, NEW x, x # "inplay", aborted' = [aborted EXCEPT ![n] = x]
      PROVE  NoInPlayAbort'
  BY Zenon, <1>2, <1>3 DEF NoInPlayAbort
<1>4. "window" # "inplay" /\ "dup" # "inplay"
  BY Zenon
<1>5. ASSUME aborted' = aborted PROVE NoInPlayAbort'
  BY Zenon, <1>5 DEF NoInPlayAbort
<1>6. ASSUME NEW n \in Node, WindowAbort(n) PROVE NoInPlayAbort'
  BY Zenon, <1>3, <1>4, <1>6 DEF WindowAbort
<1>7. ASSUME NEW n \in Node, aborted' = [aborted EXCEPT ![n] = "dup"] PROVE NoInPlayAbort'
  BY Zenon, <1>3, <1>4, <1>7
<1>8. ASSUME NEW n \in Node, ProcessMsg(n) PROVE NoInPlayAbort'
  BY Zenon, <1>5, <1>8, InPlayMsg
<1>9. \/ aborted' = aborted
      \/ \E n \in Node : WindowAbort(n) \/ aborted' = [aborted EXCEPT ![n] = "dup"] \/ ProcessMsg(n)
  BY Zenon, AbortSteps
<1>10. NoInPlayAbort'
  BY Zenon, <1>5, <1>6, <1>7, <1>8, <1>9
<1>11. QED
  BY Zenon, <1>1, <1>10

LEMMA InPlayInit == ASSUME Init PROVE InPlayInv
<1>1. /\ m_frames_in_play \in [Node -> FramesInPlay] /\ aborted = [n \in Node |-> "no"]
      /\ m_msgTransactionRecord = [n \in Node |-> [i \in 0 .. History - 1 |->
                                     [in_use |-> FALSE, msgsProcessed |-> 0]]]
  BY Zenon DEF Init
<1>2. 0 \in 0 .. History - 1
  BY SizeAssumption
<1>3. ASSUME NEW n \in Node PROVE \E f \in FramesInPlay : m_frames_in_play[n] = f + InPlay(n)
  <2>1. InPlay(n) = 0
    BY Zenon, <1>1, <1>2 DEF InPlay
  <2>2. m_frames_in_play[n] \in FramesInPlay /\ m_frames_in_play[n] \in Nat
    BY Zenon, <1>1, SizeAssumption
  <2>3. m_frames_in_play[n] = m_frames_in_play[n] + 0
    BY <2>2
  <2>4. QED
    BY Zenon, <2>1, <2>2, <2>3
<1>4. NoInPlayAbort
  BY Zenon, <1>1 DEF NoInPlayAbort
<1>5. QED
  BY Zenon, <1>3, <1>4 DEF InPlayExact, InPlayInv

-----------------------------------------------------------------------------
(***************************************************************************)
(* CountedOnce: frames are acknowledged early, late, repeatedly, by wrong  *)
(* acknowledgements, or while post() still fills them, and m_nMessagesRx   *)
(* is still the number of messages that have been acknowledged.            *)
(***************************************************************************)

\* No frame is busy before the first post().
LEMMA InitCount == ASSUME Counting PROVE Init => CountInv
<1> SUFFICES ASSUME Init PROVE CountInv
  BY Zenon
<1>1. \A n \in Node : \A s \in Slots : m_freeFrames[n][s].is_free
  BY Zenon DEF Init, FreeFrame
<1>2. \A n \in Node : app[n].slot \in Slots
  BY SizeAssumption DEF Init, Slots
<1>3. \A t \in Transaction : ack[t] = {} /\ m_nMessagesRx[t] = 0
  BY Zenon DEF Init
<1>4. QED
  BY Zenon, <1>1, <1>2, <1>3
  DEF Counting, CountInv, BusyFrame, BusyDisjoint, AckedWasPosted, HeldFrame, CountedOnce

\* Frames s of node n acknowledge the same messages before and after a step.
SameFrame(n, s) ==
  /\ ~ m_freeFrames[n][s].is_free
  /\ m_freeFrames'[n][s].transaction = m_freeFrames[n][s].transaction
  /\ m_freeFrames'[n][s].msg_start = m_freeFrames[n][s].msg_start
  /\ m_freeFrames'[n][s].msg_count = m_freeFrames[n][s].msg_count

\* Every step of the layer keeps the counts right.
LEMMA CountStep == ASSUME Counting PROVE TypeInv /\ CountInv /\ [Next]_vars => CountInv'
\* Facts about numbers, apart from any state.
<1>NextIsLater.
  ASSUME NEW k \in Nat PROVE k + 1 > k
  OBVIOUS
<1>LaterThanNext.
  ASSUME NEW k \in Nat, NEW j \in Nat PROVE j > k + 1 => j > k
  OBVIOUS
<1>EarlierInRange.
  ASSUME NEW k \in Nat, NEW b, NEW j \in 1 .. b, j <= k PROVE j <= k + 1 /\ j # k + 1
  BY <1>EarlierInRange
<1>AtItself.
  ASSUME NEW b, NEW k \in 1 .. b, NEW m \in Nat PROVE k <= k /\ m + 0 = m /\ m <= m
  OBVIOUS
\* The messages of a frame are numbered up to the last one it carries.
<1>MsgsBounded.
  ASSUME NEW f, f.msg_start \in Nat, f.msg_count \in Nat, NEW c \in Nat,
         f.msg_start + f.msg_count <= c
  PROVE  MsgsIn(f) \subseteq 1 .. c /\ \A i \in MsgsIn(f) : i <= c
  BY <1>MsgsBounded DEF MsgsIn
<1>NextTransaction.
  ASSUME NEW n \in Node, NEW k \in Nat, k < Len(Msgs[n]) PROVE <<n, k + 1>> \in Transaction
  <2> USE <1>NextTransaction
  <2>1. Len(Msgs[n]) \in Nat
    BY NodeAssumption
  <2>2. k + 1 \in 1 .. Len(Msgs[n])
    BY <2>1
  <2>3. QED
    BY Zenon, <2>2, MsgCountType
\* What post() works on is numbered.
<1>PostType.
  ASSUME TypeOK, NEW n \in Node PROVE app[n].k \in Nat /\ app[n].msg \in Nat
  <2> USE <1>PostType
  <2>1. app[n] \in AppState
    BY Zenon DEF TypeOK
  <2>2. app[n].k \in TransNo /\ app[n].msg \in Nat
    BY Zenon, <2>1 DEF AppState
  <2>3. ASSUME NEW k \in TransNo PROVE k \in Nat
    BY SizeAssumption DEF TransNo
  <2>4. QED
    BY Zenon, <2>2, <2>3
\* A step that only frees frames, or leaves what they carry alone.
<1>StableStep.
  ASSUME TypeInv, CountInv, ack' = ack, m_nMessagesRx' = m_nMessagesRx,
         \A n \in Node : /\ app'[n].k = app[n].k /\ app'[n].msg = app[n].msg
                         /\ app'[n].phase = "got" =>
                              app[n].phase = "got" /\ app'[n].slot = app[n].slot,
         \A n \in Node : \A s \in Slots : ~ m_freeFrames'[n][s].is_free => SameFrame(n, s)
  PROVE  CountInv'
  <2> USE <1>StableStep
  <2>1. \A n \in Node : app[n].slot \in Slots
    BY Zenon DEF TypeInv, TypeOK, AppState
  <2>2. BusyFrame'
    <3> SUFFICES ASSUME NEW m \in Node, NEW s \in Slots, ~ m_freeFrames'[m][s].is_free
                 PROVE  LET f == m_freeFrames'[m][s] IN
                        /\ f.transaction \in 1 .. Len(Msgs[m])
                        /\ f.transaction <= app'[m].k
                        /\ f.msg_start + f.msg_count <= msgCount(<<m, f.transaction>>)
                        /\ f.transaction = app'[m].k => f.msg_start + f.msg_count <= app'[m].msg
                        /\ MsgsIn(f) \cap ack'[<<m, f.transaction>>] = {}
      BY Zenon DEF BusyFrame, MsgsIn, msgCount
    <3>1. SameFrame(m, s) /\ app'[m].k = app[m].k /\ app'[m].msg = app[m].msg
      BY Zenon
    <3>2. MsgsIn(m_freeFrames'[m][s]) = MsgsIn(m_freeFrames[m][s])
      BY Zenon, <3>1 DEF SameFrame, MsgsIn
    <3>3. QED
      BY Zenon, <3>1, <3>2 DEF CountInv, BusyFrame, SameFrame
  <2>3. BusyDisjoint'
    <3> SUFFICES ASSUME NEW m \in Node, NEW r \in Slots, NEW s \in Slots, r # s,
                        ~ m_freeFrames'[m][r].is_free, ~ m_freeFrames'[m][s].is_free,
                        m_freeFrames'[m][r].transaction = m_freeFrames'[m][s].transaction
                 PROVE  MsgsIn(m_freeFrames'[m][r]) \cap MsgsIn(m_freeFrames'[m][s]) = {}
      BY Zenon DEF BusyDisjoint, MsgsIn
    <3>1. SameFrame(m, r) /\ SameFrame(m, s)
      BY Zenon
    <3>2. /\ MsgsIn(m_freeFrames'[m][r]) = MsgsIn(m_freeFrames[m][r])
          /\ MsgsIn(m_freeFrames'[m][s]) = MsgsIn(m_freeFrames[m][s])
      BY Zenon, <3>1 DEF SameFrame, MsgsIn
    <3>3. QED
      BY Zenon, <3>1, <3>2 DEF CountInv, BusyDisjoint, SameFrame
  <2>4. AckedWasPosted'
    <3>1. \A t \in Transaction : t[1] \in Node
      BY DEF Transaction
    <3>2. QED
      BY Zenon, <3>1 DEF CountInv, AckedWasPosted
  <2>5. HeldFrame'
    <3> SUFFICES ASSUME NEW m \in Node, app'[m].phase = "got",
                        ~ m_freeFrames'[m][app'[m].slot].is_free
                 PROVE  LET f == m_freeFrames'[m][app'[m].slot] IN
                        f.transaction = app'[m].k /\ f.msg_start = app'[m].msg /\ f.msg_count = 0
      BY Zenon DEF HeldFrame
    <3> DEFINE x == app[m].slot
    <3>1. /\ app[m].phase = "got" /\ app'[m].slot = x /\ x \in Slots
          /\ app'[m].k = app[m].k /\ app'[m].msg = app[m].msg
      BY Zenon, <2>1
    <3> HIDE DEF x
    <3>2. SameFrame(m, x)
      BY Zenon, <3>1
    <3>3. /\ m_freeFrames[m][x].transaction = app[m].k /\ m_freeFrames[m][x].msg_start = app[m].msg
          /\ m_freeFrames[m][x].msg_count = 0
      BY Zenon, <3>1, <3>2 DEF CountInv, HeldFrame, SameFrame, x
    <3>4. QED
      BY Zenon, <3>1, <3>2, <3>3 DEF SameFrame
  <2>6. CountedOnce'
    BY Zenon DEF CountInv, CountedOnce, msgCount
  <2>7. QED
    BY Zenon, <2>2, <2>3, <2>4, <2>5, <2>6 DEF CountInv
\* StartPost: nothing of the new transaction is acknowledged.
<1>StartPostCount.
  ASSUME Counting, TypeInv, CountInv, NEW n \in Node, StartPost(n)
  PROVE  CountInv'
  <2> USE <1>StartPostCount
  <2> DEFINE t == <<n, app[n].k + 1>>
  <2>1. /\ app' = [app EXCEPT ![n] = [k |-> app[n].k + 1, msg |-> 0, phase |-> "loop", slot |-> 0]]
        /\ m_nMessagesRx' = [m_nMessagesRx EXCEPT ![t] = 0]
        /\ ack' = ack /\ m_freeFrames' = m_freeFrames
        /\ app[n].k < Len(Msgs[n])
    BY Zenon DEF StartPost
  <2>2. app \in [Node -> AppState] /\ app[n].k \in Nat
    BY Zenon, <1>PostType DEF TypeInv, TypeOK
  <2>3. t \in Transaction
    BY Zenon, <2>1, <2>2, <1>NextTransaction
  <2>4. ack[t] = {}
    <3>1. app[n].k + 1 > app[n].k
      BY Zenon, <2>2, <1>NextIsLater
    <3>2. QED
      BY Zenon, <2>3, <3>1 DEF CountInv, AckedWasPosted
  <2>5. /\ app'[n].k = app[n].k + 1 /\ app'[n].msg = 0 /\ app'[n].phase = "loop"
        /\ \A m \in Node \ {n} : app'[m] = app[m]
    BY Zenon, <2>1, <2>2
  <2>6. BusyFrame'
    <3> SUFFICES ASSUME NEW m \in Node, NEW s \in Slots, ~ m_freeFrames'[m][s].is_free
                 PROVE  LET f == m_freeFrames'[m][s] IN
                        /\ f.transaction \in 1 .. Len(Msgs[m])
                        /\ f.transaction <= app'[m].k
                        /\ f.msg_start + f.msg_count <= msgCount(<<m, f.transaction>>)
                        /\ f.transaction = app'[m].k => f.msg_start + f.msg_count <= app'[m].msg
                        /\ MsgsIn(f) \cap ack'[<<m, f.transaction>>] = {}
      BY Zenon DEF BusyFrame, MsgsIn, msgCount
    <3>1. m_freeFrames[m][s].transaction \in 1 .. Len(Msgs[m])
      BY Zenon, <2>1 DEF CountInv, BusyFrame
    <3>2. CASE m = n
      <4> DEFINE f == m_freeFrames[n][s]
      <4>1. m_freeFrames'[m][s] = f /\ ack' = ack /\ m = n /\ app'[n].k = app[n].k + 1
        BY Zenon, <2>1, <2>5, <3>2
      <4>2. /\ f.transaction <= app[n].k
            /\ f.msg_start + f.msg_count <= msgCount(<<n, f.transaction>>)
            /\ MsgsIn(f) \cap ack[<<n, f.transaction>>] = {}
        BY Zenon, <4>1 DEF CountInv, BusyFrame
      <4>3. f.transaction \in 1 .. Len(Msgs[n])
        BY Zenon, <3>1, <3>2
      <4> HIDE DEF f
      <4>4. f.transaction <= app[n].k + 1 /\ f.transaction # app[n].k + 1
        BY Zenon, <2>2, <4>2, <4>3, <1>EarlierInRange
      <4>5. QED
        BY Zenon, <4>1, <4>2, <4>3, <4>4
    <3>3. CASE m # n
      BY Zenon, <2>1, <2>5, <3>3 DEF CountInv, BusyFrame
    <3>4. QED
      BY Zenon, <3>2, <3>3
  <2>7. BusyDisjoint'
    BY Zenon, <2>1 DEF CountInv, BusyDisjoint, MsgsIn
  <2>8. AckedWasPosted'
    <3> SUFFICES ASSUME NEW u \in Transaction
                 PROVE  /\ u[2] > app'[u[1]].k => ack[u] = {}
                        /\ u[2] = app'[u[1]].k => \A i \in ack[u] : i <= app'[u[1]].msg
      BY Zenon, <2>1 DEF AckedWasPosted
    <3>1. u[1] \in Node /\ u[2] \in Nat /\ u = <<u[1], u[2]>>
      BY NodeAssumption DEF Transaction
    <3>2. CASE u[1] = n
      <4>1. app'[u[1]].k = app[n].k + 1
        BY Zenon, <2>5, <3>2
      <4>2. u[2] > app[n].k + 1 => u[2] > app[n].k
        BY Zenon, <2>2, <3>1, <1>LaterThanNext
      <4>3. u[2] = app[n].k + 1 => u = t
        BY Zenon, <3>1, <3>2
      <4>4. u[2] > app[n].k => ack[u] = {}
        BY Zenon, <3>2 DEF CountInv, AckedWasPosted
      <4>5. QED
        BY Zenon, <2>4, <4>1, <4>2, <4>3, <4>4
    <3>3. CASE u[1] # n
      <4>1. app'[u[1]] = app[u[1]]
        BY Zenon, <2>5, <3>1, <3>3
      <4>2. QED
        BY Zenon, <4>1 DEF CountInv, AckedWasPosted
    <3>4. QED
      BY Zenon, <3>2, <3>3
  <2>9. HeldFrame'
    BY Zenon, <2>1, <2>5 DEF CountInv, HeldFrame
  <2>10. CountedOnce'
    <3>1. \A u \in Transaction : m_nMessagesRx'[u] = Cardinality(ack[u])
      <4> HIDE DEF t
      <4> QED BY Zenon, <2>1, <2>3, <2>4 DEF Counting, CountInv, CountedOnce, TypeInv, TypeOK
    <3>2. QED
      BY Zenon, <2>1, <3>1 DEF CountInv, CountedOnce, msgCount
  <2>11. QED
    BY Zenon, <2>6, <2>7, <2>8, <2>9, <2>10 DEF CountInv
\* GetFrame: the new frame carries nothing yet.
<1>GetFrameCount.
  ASSUME TypeInv, CountInv, NEW n \in Node, GetFrame(n), ~ WindowAbort(n)
  PROVE  CountInv'
  <2> USE <1>GetFrameCount
  <2> DEFINE q == Slot(m_frameSeq[n])
             g == [NewFrame(n, m_frameSeq[n]) EXCEPT !.transaction = app[n].k,
                                                     !.msg_start = app[n].msg]
  <2>1. /\ m_freeFrames' = [m_freeFrames EXCEPT ![n][q] = g]
        /\ app' = [app EXCEPT ![n] = [app[n] EXCEPT !.phase = "got", !.slot = q]]
        /\ ack' = ack /\ m_nMessagesRx' = m_nMessagesRx
        /\ app[n].phase = "loop"
    BY Zenon DEF GetFrame
  <2>2. /\ app \in [Node -> AppState] /\ app[n] \in AppState
        /\ m_freeFrames \in [Node -> [Slots -> Frame]]
        /\ m_freeFrames[n] \in [Slots -> Frame]
        /\ q \in Slots
    BY Zenon, SlotType DEF TypeInv, TypeOK
  <2>3. /\ g.transaction = app[n].k /\ g.msg_start = app[n].msg /\ g.msg_count = 0
    BY Zenon DEF NewFrame, FreeFrame
  <2>4. /\ app'[n].k = app[n].k /\ app'[n].msg = app[n].msg /\ app'[n].slot = q
        /\ \A o \in Node \ {n} : app'[o] = app[o]
    <3> HIDE DEF q
    <3> QED BY Zenon, <2>1, <2>2 DEF AppState
  <2>5. /\ m_freeFrames'[n][q] = g
        /\ \A s \in Slots \ {q} : m_freeFrames'[n][s] = m_freeFrames[n][s]
        /\ \A o \in Node \ {n} : m_freeFrames'[o] = m_freeFrames[o]
    <3> HIDE DEF q, g
    <3> QED BY Zenon, <2>1, <2>2
  <2>6. /\ app[n].k \in 1 .. Len(Msgs[n])
        /\ app[n].msg \in Nat
        /\ app[n].msg <= msgCount(<<n, app[n].k>>)
    <3>1. app[n].k \in 1 .. Len(Msgs[n]) /\ app[n].msg < msgCount(<<n, app[n].k>>)
      BY Zenon, <2>1 DEF TypeInv, PostInRange
    <3>2. <<n, app[n].k>> \in Transaction
      BY <3>1 DEF Transaction
    <3>3. app[n].msg \in Nat
      BY Zenon, <2>2 DEF AppState
    <3>4. QED
      BY <3>1, <3>2, <3>3, MsgCountType
  <2> HIDE DEF q, g
  <2>7. MsgsIn(g) = {}
    BY <2>3, <2>6 DEF MsgsIn
  <2>8. BusyFrame'
    <3> SUFFICES ASSUME NEW m \in Node, NEW s \in Slots, ~ m_freeFrames'[m][s].is_free
                 PROVE  LET f == m_freeFrames'[m][s] IN
                        /\ f.transaction \in 1 .. Len(Msgs[m])
                        /\ f.transaction <= app'[m].k
                        /\ f.msg_start + f.msg_count <= msgCount(<<m, f.transaction>>)
                        /\ f.transaction = app'[m].k => f.msg_start + f.msg_count <= app'[m].msg
                        /\ MsgsIn(f) \cap ack'[<<m, f.transaction>>] = {}
      BY Zenon DEF BusyFrame, MsgsIn, msgCount
    <3>1. CASE m = n /\ s = q
      <4>1. /\ m_freeFrames'[m][s] = g /\ app'[m].k = app[n].k /\ app'[m].msg = app[n].msg
            /\ m = n /\ MsgsIn(g) \cap ack'[<<n, app[n].k>>] = {}
        BY Zenon, <2>4, <2>5, <2>7, <3>1
      <4>2. app[n].k <= app[n].k /\ app[n].msg + 0 = app[n].msg /\ app[n].msg <= app[n].msg
        BY Zenon, <2>6, <1>AtItself
      <4>3. QED
        BY Zenon, <2>3, <2>6, <4>1, <4>2
    <3>2. CASE ~ (m = n /\ s = q)
      <4>1. m_freeFrames'[m][s] = m_freeFrames[m][s] /\ app'[m].k = app[m].k
            /\ app'[m].msg = app[m].msg
        BY Zenon, <2>4, <2>5, <3>2
      <4>2. QED
        BY Zenon, <2>1, <4>1 DEF CountInv, BusyFrame
    <3>3. QED
      BY Zenon, <3>1, <3>2
  <2>9. BusyDisjoint'
    <3> SUFFICES ASSUME NEW m \in Node, NEW r \in Slots, NEW s \in Slots, r # s,
                        ~ m_freeFrames'[m][r].is_free, ~ m_freeFrames'[m][s].is_free,
                        m_freeFrames'[m][r].transaction = m_freeFrames'[m][s].transaction
                 PROVE  MsgsIn(m_freeFrames'[m][r]) \cap MsgsIn(m_freeFrames'[m][s]) = {}
      BY Zenon DEF BusyDisjoint, MsgsIn
    <3>1. CASE m = n /\ (r = q \/ s = q)
      BY Zenon, <2>5, <2>7, <3>1
    <3>2. CASE ~ (m = n /\ (r = q \/ s = q))
      BY <2>5, <3>2 DEF CountInv, BusyDisjoint
    <3>3. QED
      BY Zenon, <3>1, <3>2
  <2>10. AckedWasPosted'
    <3>1. \A t \in Transaction : t[1] \in Node
      BY DEF Transaction
    <3>2. \A o \in Node : app'[o].k = app[o].k /\ app'[o].msg = app[o].msg
      BY Zenon, <2>4
    <3>3. QED
      BY Zenon, <2>1, <3>1, <3>2 DEF CountInv, AckedWasPosted
  <2>11. HeldFrame'
    <3> SUFFICES ASSUME NEW m \in Node, app'[m].phase = "got",
                        ~ m_freeFrames'[m][app'[m].slot].is_free
                 PROVE  LET f == m_freeFrames'[m][app'[m].slot] IN
                        f.transaction = app'[m].k /\ f.msg_start = app'[m].msg /\ f.msg_count = 0
      BY Zenon DEF HeldFrame
    <3>1. CASE m = n
      BY Zenon, <2>3, <2>4, <2>5, <3>1
    <3>2. CASE m # n
      <4>1. app'[m] = app[m] /\ m_freeFrames'[m] = m_freeFrames[m]
        BY Zenon, <2>4, <2>5, <3>2
      <4>2. QED
        BY Zenon, <4>1 DEF CountInv, HeldFrame
    <3>3. QED
      BY Zenon, <3>1, <3>2
  <2>12. CountedOnce'
    BY Zenon, <2>1 DEF CountInv, CountedOnce, msgCount
  <2>13. QED
    BY Zenon, <2>8, <2>9, <2>10, <2>11, <2>12 DEF CountInv
\* FillFrame: if the frame is still busy, it now carries the messages that
\* follow the ones carried or acknowledged so far; if it was released
\* meanwhile, its messages are counted nowhere.
<1>FillFrameCount.
  ASSUME TypeInv, CountInv, NEW n \in Node, FillFrame(n)
  PROVE  CountInv'
  <2> USE <1>FillFrameCount
  <2> DEFINE x == app[n].slot
             left == msgCount(<<n, app[n].k>>) - app[n].msg
             count == IF left < MsgsPerFrame THEN left ELSE MsgsPerFrame
             g == m_freeFrames'[n][x]
  <2>1. /\ m_freeFrames' = [m_freeFrames EXCEPT ![n][x] =
              [m_freeFrames[n][x] EXCEPT !.msg_count = count, !.iov = app[n].k,
                                         !.first = app[n].msg + 1]]
        /\ app' = [app EXCEPT ![n] = [app[n] EXCEPT !.phase = "filled", !.msg = app[n].msg + count]]
        /\ ack' = ack /\ m_nMessagesRx' = m_nMessagesRx
        /\ app[n].phase = "got"
    BY Zenon DEF FillFrame
  <2>2. /\ app \in [Node -> AppState] /\ app[n] \in AppState
        /\ m_freeFrames \in [Node -> [Slots -> Frame]]
        /\ m_freeFrames[n] \in [Slots -> Frame]
    BY Zenon DEF TypeInv, TypeOK
  <2>3. x \in Slots /\ app[n].msg \in Nat /\ app[n].k \in Nat
    BY <2>2 DEF AppState, TransNo
  <2>4. app[n].k \in 1 .. Len(Msgs[n]) /\ app[n].msg < msgCount(<<n, app[n].k>>)
    BY Zenon, <2>1 DEF TypeInv, PostInRange
  <2>5. /\ count \in Nat
        /\ app[n].msg + count <= msgCount(<<n, app[n].k>>)
    <3>1. msgCount(<<n, app[n].k>>) \in Nat
      BY Zenon, <2>4, MsgCountType
    <3>2. left \in Nat /\ app[n].msg + left = msgCount(<<n, app[n].k>>)
      BY <2>3, <2>4, <3>1
    <3> HIDE DEF left
    <3>3. count \in Nat /\ count <= left
      BY <3>2, SizeAssumption
    <3> HIDE DEF count
    <3>4. QED
      BY <2>3, <3>2, <3>3
  <2> HIDE DEF count
  <2>6. /\ app'[n].k = app[n].k /\ app'[n].msg = app[n].msg + count /\ app'[n].phase = "filled"
        /\ \A o \in Node \ {n} : app'[o] = app[o]
    BY Zenon, <2>1, <2>2 DEF AppState
  <2>7. m_freeFrames[n][x] \in Frame
    BY Zenon, <2>2, <2>3
  <2>8. /\ g = [m_freeFrames[n][x] EXCEPT !.msg_count = count, !.iov = app[n].k,
                                         !.first = app[n].msg + 1]
        /\ \A s \in Slots \ {x} : m_freeFrames'[n][s] = m_freeFrames[n][s]
        /\ \A o \in Node \ {n} : m_freeFrames'[o] = m_freeFrames[o]
    BY Zenon, <2>1, <2>2, <2>3
  <2>9. /\ g.is_free = m_freeFrames[n][x].is_free
        /\ g.transaction = m_freeFrames[n][x].transaction
        /\ g.msg_start = m_freeFrames[n][x].msg_start
        /\ g.msg_count = count
    BY Zenon, <2>7, <2>8 DEF Frame
  <2>10. ~ g.is_free => g.transaction = app[n].k /\ g.msg_start = app[n].msg
    BY Zenon, <2>1, <2>9 DEF CountInv, HeldFrame
  <2> HIDE DEF x, g
  <2>11. ~ g.is_free => MsgsIn(g) = app[n].msg + 1 .. app[n].msg + count
    BY Zenon, <2>9, <2>10 DEF MsgsIn
  <2>12. m_freeFrames'[n][x] = g
    BY Zenon DEF g
  <2>13. \A o \in Node : \A s \in Slots : ~ (o = n /\ s = x) =>
           m_freeFrames'[o][s] = m_freeFrames[o][s]
    BY Zenon, <2>8
  <2>14. \A i \in ack[<<n, app[n].k>>] : i \in Nat /\ i <= app[n].msg
    BY Zenon, <2>4, MsgCountType DEF CountInv, AckedWasPosted, TypeInv, TypeOK
  <2>15. BusyFrame'
    <3> SUFFICES ASSUME NEW m \in Node, NEW s \in Slots, ~ m_freeFrames'[m][s].is_free
                 PROVE  LET f == m_freeFrames'[m][s] IN
                        /\ f.transaction \in 1 .. Len(Msgs[m])
                        /\ f.transaction <= app'[m].k
                        /\ f.msg_start + f.msg_count <= msgCount(<<m, f.transaction>>)
                        /\ f.transaction = app'[m].k => f.msg_start + f.msg_count <= app'[m].msg
                        /\ MsgsIn(f) \cap ack'[<<m, f.transaction>>] = {}
      BY Zenon DEF BusyFrame, MsgsIn, msgCount
    <3>1. CASE m = n /\ s = x
      <4>1. MsgsIn(g) \cap ack[<<n, app[n].k>>] = {}
        BY <2>3, <2>5, <2>11, <2>12, <2>14, <3>1
      <4>2. QED
        BY <2>1, <2>3, <2>4, <2>5, <2>6, <2>9, <2>10, <2>12, <3>1, <4>1
    <3>2. CASE ~ (m = n /\ s = x)
      <4>1. m_freeFrames'[m][s] = m_freeFrames[m][s] /\ app'[m].k = app[m].k
        BY Zenon, <2>6, <2>13, <3>2
      <4>2. m_freeFrames[m][s] \in Frame
        BY Zenon, <2>2
      <4>3. \A y \in Nat : y <= app[m].msg => y <= app'[m].msg
        BY <2>3, <2>5, <2>6
      <4>4. m_freeFrames[m][s].msg_start + m_freeFrames[m][s].msg_count \in Nat
        BY <4>2 DEF Frame
      <4>5. QED
        BY Zenon, <2>1, <4>1, <4>3, <4>4 DEF CountInv, BusyFrame
    <3>3. QED
      BY Zenon, <3>1, <3>2
  <2>16. ASSUME NEW s \in Slots, s # x, ~ m_freeFrames[n][s].is_free, ~ g.is_free,
                m_freeFrames[n][s].transaction = g.transaction
         PROVE  MsgsIn(m_freeFrames[n][s]) \cap MsgsIn(g) = {}
    <3>1. m_freeFrames[n][s].msg_start + m_freeFrames[n][s].msg_count <= app[n].msg
      BY Zenon, <2>10, <2>16 DEF CountInv, BusyFrame
    <3>2. m_freeFrames[n][s].msg_start \in Nat /\ m_freeFrames[n][s].msg_count \in Nat
      BY Zenon, <2>2 DEF Frame
    <3>3. \A i \in MsgsIn(m_freeFrames[n][s]) : i \in Int /\ i <= app[n].msg
      BY <2>3, <3>1, <3>2 DEF MsgsIn
    <3>4. \A i \in MsgsIn(g) : i \in Int /\ i > app[n].msg
      BY <2>3, <2>5, <2>11, <2>16
    <3>5. QED
      BY <2>3, <3>3, <3>4
  <2>17. BusyDisjoint'
    <3> SUFFICES ASSUME NEW m \in Node, NEW r \in Slots, NEW s \in Slots, r # s,
                        ~ m_freeFrames'[m][r].is_free, ~ m_freeFrames'[m][s].is_free,
                        m_freeFrames'[m][r].transaction = m_freeFrames'[m][s].transaction
                 PROVE  MsgsIn(m_freeFrames'[m][r]) \cap MsgsIn(m_freeFrames'[m][s]) = {}
      BY Zenon DEF BusyDisjoint, MsgsIn
    <3>1. CASE m = n /\ r = x
      BY Zenon, <2>12, <2>13, <2>16, <3>1
    <3>2. CASE m = n /\ s = x
      BY Zenon, <2>12, <2>13, <2>16, <3>2
    <3>3. CASE ~ (m = n /\ (r = x \/ s = x))
      BY Zenon, <2>13, <3>3 DEF CountInv, BusyDisjoint
    <3>4. QED
      BY Zenon, <3>1, <3>2, <3>3
  <2>18. AckedWasPosted'
    <3> SUFFICES ASSUME NEW u \in Transaction
                 PROVE  /\ u[2] > app'[u[1]].k => ack[u] = {}
                        /\ u[2] = app'[u[1]].k => \A i \in ack[u] : i <= app'[u[1]].msg
      BY Zenon, <2>1 DEF AckedWasPosted
    <3>1. u[1] \in Node /\ u = <<u[1], u[2]>>
      BY DEF Transaction
    <3>2. CASE u[1] = n
      BY <2>3, <2>5, <2>6, <2>14, <3>1, <3>2 DEF CountInv, AckedWasPosted
    <3>3. CASE u[1] # n
      BY Zenon, <2>6, <3>1, <3>3 DEF CountInv, AckedWasPosted
    <3>4. QED
      BY Zenon, <3>2, <3>3
  <2>19. HeldFrame'
    BY Zenon, <2>6, <2>8 DEF CountInv, HeldFrame
  <2>20. CountedOnce'
    BY Zenon, <2>1 DEF CountInv, CountedOnce, msgCount
  <2>21. QED
    BY Zenon, <2>15, <2>17, <2>18, <2>19, <2>20 DEF CountInv
\* Frame::release: what the released frames carry was not acknowledged
\* before, and no two of them carry the same message.
<1>ReleaseCount.
  ASSUME Counting, TypeInv, CountInv, NEW n \in Node, NEW S \in SUBSET Slots,
         \A s \in S : ~ m_freeFrames[n][s].is_free,
         ReleaseFrames(n, S), app' = app
  PROVE  CountInv'
  <2> USE <1>ReleaseCount
  <2>1. \A o \in Node : \A s \in Slots : m_freeFrames[o][s] \in Frame
    BY DEF TypeInv, TypeOK
  <2>2. /\ \A s \in S : m_freeFrames'[n][s].is_free
        /\ \A s \in Slots \ S : m_freeFrames'[n][s] = m_freeFrames[n][s]
        /\ \A o \in Node \ {n} : m_freeFrames'[o] = m_freeFrames[o]
    <3>1. m_freeFrames' = [m_freeFrames EXCEPT ![n] = [s \in Slots |->
            IF s \in S THEN [m_freeFrames[n][s] EXCEPT !.is_free = TRUE, !.transaction = 0]
                       ELSE m_freeFrames[n][s]]]
      BY Zenon DEF ReleaseFrames
    <3>2. m_freeFrames \in [Node -> [Slots -> Frame]]
      BY Zenon DEF TypeInv, TypeOK
    <3>3. \A s \in S : s \in Slots /\ m_freeFrames[n][s] \in Frame
      BY Zenon, <2>1
    <3>4. QED
      BY Zenon, <3>1, <3>2, <3>3 DEF Frame
  <2>3. \A o \in Node : \A s \in Slots : ~ m_freeFrames'[o][s].is_free =>
          /\ m_freeFrames'[o][s] = m_freeFrames[o][s]
          /\ ~ (o = n /\ s \in S)
    BY Zenon, <2>2
  <2>4. ASSUME NEW t \in Transaction
        PROVE  LET U == UNION {MsgsIn(m_freeFrames[n][s]) : s \in FramesOf(n, S, t)} IN
               /\ ack'[t] = ack[t] \cup U
               /\ U \subseteq 1 .. msgCount(t)
               /\ t[1] = n /\ t[2] = app[n].k => \A i \in U : i <= app[n].msg
               /\ t[1] # n => U = {}
               /\ t[2] > app[t[1]].k => U = {}
               /\ m_nMessagesRx'[t] = Cardinality(ack'[t])
    <3> DEFINE H == FramesOf(n, S, t)
               M == [s \in H |-> MsgsIn(m_freeFrames[n][s])]
               U == UNION {MsgsIn(m_freeFrames[n][s]) : s \in FramesOf(n, S, t)}
    <3>1. ack'[t] = ack[t] \cup U
      BY Zenon DEF ReleaseFrames
    <3>2. m_nMessagesRx'[t] = m_nMessagesRx[t] +
            Cardinality(UNION {{s} \X MsgsIn(m_freeFrames[n][s]) : s \in FramesOf(n, S, t)})
      BY Zenon DEF ReleaseFrames
    <3>3. ASSUME NEW s \in H
          PROVE  /\ s \in Slots /\ s \in S /\ ~ m_freeFrames[n][s].is_free
                 /\ t = <<n, m_freeFrames[n][s].transaction>>
                 /\ t[1] = n /\ t[2] = m_freeFrames[n][s].transaction
                 /\ t[2] <= app[n].k
                 /\ M[s] = MsgsIn(m_freeFrames[n][s])
                 /\ M[s] \subseteq 1 .. msgCount(t)
                 /\ M[s] \cap ack[t] = {}
                 /\ t[2] = app[n].k => \A i \in M[s] : i <= app[n].msg
      <4>1. s \in Slots /\ s \in S /\ ~ m_freeFrames[n][s].is_free
        BY Zenon DEF FramesOf
      <4>2. t = <<n, m_freeFrames[n][s].transaction>>
        BY Zenon DEF FramesOf
      <4>3. t[1] = n /\ t[2] = m_freeFrames[n][s].transaction
        BY Zenon, <4>2
      <4>4. M[s] = MsgsIn(m_freeFrames[n][s])
        BY Zenon
      <4> HIDE DEF M, H
      <4>5. /\ m_freeFrames[n][s].transaction \in 1 .. Len(Msgs[n])
            /\ m_freeFrames[n][s].transaction <= app[n].k
            /\ m_freeFrames[n][s].msg_start + m_freeFrames[n][s].msg_count <= msgCount(t)
            /\ m_freeFrames[n][s].transaction = app[n].k =>
                 m_freeFrames[n][s].msg_start + m_freeFrames[n][s].msg_count <= app[n].msg
            /\ M[s] \cap ack[t] = {}
        BY Zenon, <4>1, <4>2, <4>4 DEF CountInv, BusyFrame
      <4>6. msgCount(t) \in Nat /\ app[n].msg \in Nat
        BY Zenon, <4>2, <4>5, MsgCountType DEF TypeInv, TypeOK, AppState
      <4>7. m_freeFrames[n][s].msg_start \in Nat /\ m_freeFrames[n][s].msg_count \in Nat
        BY Zenon, <2>1, <4>1 DEF Frame
      <4>8. M[s] \subseteq 1 .. msgCount(t)
        BY Zenon, <4>4, <4>5, <4>6, <4>7, <1>MsgsBounded
      <4>9. t[2] = app[n].k => \A i \in M[s] : i <= app[n].msg
        BY Zenon, <4>3, <4>4, <4>5, <4>6, <4>7, <1>MsgsBounded
      <4>10. QED
        BY Zenon, <4>1, <4>2, <4>3, <4>4, <4>5, <4>8, <4>9
    <3>4. ASSUME NEW r \in H, NEW s \in H, r # s PROVE M[r] \cap M[s] = {}
      <4>1. m_freeFrames[n][r].transaction = m_freeFrames[n][s].transaction
        BY Zenon, <3>3
      <4> HIDE DEF M, H
      <4>2. QED
        BY Zenon, <3>3, <3>4, <4>1 DEF CountInv, BusyDisjoint
    <3>5. H \in SUBSET Slots
      BY Zenon DEF FramesOf
    <3>6. /\ U = United(H, M)
          /\ UNION {{s} \X MsgsIn(m_freeFrames[n][s]) : s \in FramesOf(n, S, t)} = Pairs(H, M)
      BY Zenon DEF Pairs, United
    <3> HIDE DEF M, H, U
    <3>7. msgCount(t) \in Nat
      BY MsgCountType DEF Transaction
    <3>8. ack[t] \in SUBSET (1 .. msgCount(t)) /\ m_nMessagesRx[t] = Cardinality(ack[t])
      BY Zenon DEF CountInv, CountedOnce
    <3>9. Cardinality(ack[t] \cup U) = Cardinality(ack[t]) + Cardinality(Pairs(H, M))
      <4>1. Apart(msgCount(t), ack[t], H, M)
        <5>1. \A s \in H : M[s] \in SUBSET (1 .. msgCount(t)) /\ M[s] \cap ack[t] = {}
          BY Zenon, <3>3
        <5>2. \A r, s \in H : r # s => M[r] \cap M[s] = {}
          BY Zenon, <3>4
        <5>3. QED
          BY Zenon, <5>1, <5>2 DEF Apart
      <4>2. AddsUp(ack[t], H, M)
        BY Zenon, <3>5, <3>7, <3>8, <4>1 DEF Counting, PairsAdded
      <4>3. QED
        BY Zenon, <3>6, <4>2 DEF AddsUp
    <3>10. m_nMessagesRx'[t] = Cardinality(ack'[t])
      BY Zenon, <3>1, <3>2, <3>6, <3>8, <3>9
    <3>11. U \subseteq 1 .. msgCount(t)
      BY Zenon, <3>3, <3>6 DEF United
    <3>12. /\ t[1] = n /\ t[2] = app[n].k => \A i \in U : i <= app[n].msg
           /\ t[1] # n => U = {}
      BY Zenon, <3>3, <3>6 DEF United
    <3>13. t[2] > app[t[1]].k => U = {}
      <4>1. app[t[1]].k \in Nat /\ t[2] \in Nat
        <5>1. t[1] \in Node /\ t[2] \in Nat
          BY DEF Transaction
        <5>2. app[t[1]] \in AppState
          BY Zenon, <5>1 DEF TypeInv, TypeOK
        <5>3. QED
          BY <5>1, <5>2 DEF AppState, TransNo
      <4>2. ASSUME t[2] > app[t[1]].k, NEW s \in H PROVE FALSE
        <5>1. t[1] = n /\ t[2] <= app[n].k
          BY Zenon, <3>3
        <5>2. QED
          BY <4>1, <4>2, <5>1
      <4>3. QED
        BY Zenon, <3>6, <4>2 DEF United
    <3>14. QED
      BY Zenon, <3>1, <3>10, <3>11, <3>12, <3>13 DEF U
  <2>5. BusyFrame'
    <3> SUFFICES ASSUME NEW m \in Node, NEW s \in Slots, ~ m_freeFrames'[m][s].is_free
                 PROVE  LET f == m_freeFrames'[m][s] IN
                        /\ f.transaction \in 1 .. Len(Msgs[m])
                        /\ f.transaction <= app'[m].k
                        /\ f.msg_start + f.msg_count <= msgCount(<<m, f.transaction>>)
                        /\ f.transaction = app'[m].k => f.msg_start + f.msg_count <= app'[m].msg
                        /\ MsgsIn(f) \cap ack'[<<m, f.transaction>>] = {}
      BY Zenon DEF BusyFrame, MsgsIn, msgCount
    <3> DEFINE f == m_freeFrames[m][s]
               t == <<m, f.transaction>>
    <3>1. m_freeFrames'[m][s] = f /\ ~ (m = n /\ s \in S)
      BY Zenon, <2>3
    <3>2. /\ f.transaction \in 1 .. Len(Msgs[m])
          /\ f.transaction <= app[m].k
          /\ f.msg_start + f.msg_count <= msgCount(t)
          /\ f.transaction = app[m].k => f.msg_start + f.msg_count <= app[m].msg
          /\ MsgsIn(f) \cap ack[t] = {}
      BY Zenon, <3>1 DEF CountInv, BusyFrame
    <3>3. t \in Transaction
      BY Zenon, <3>2, MsgCountType
    <3>4. \A r \in FramesOf(n, S, t) : MsgsIn(f) \cap MsgsIn(m_freeFrames[n][r]) = {}
      <4> SUFFICES ASSUME NEW r \in FramesOf(n, S, t)
                   PROVE  MsgsIn(f) \cap MsgsIn(m_freeFrames[n][r]) = {}
        BY Zenon
      <4>1. r \in S /\ t = <<n, m_freeFrames[n][r].transaction>>
        BY Zenon DEF FramesOf
      <4>2. m = n /\ f.transaction = m_freeFrames[n][r].transaction /\ r # s
        BY Zenon, <3>1, <4>1
      <4> HIDE DEF t
      <4>3. QED
        BY Zenon, <3>1, <4>1, <4>2 DEF CountInv, BusyDisjoint
    <3> HIDE DEF f, t
    <3>5. MsgsIn(f) \cap ack'[t] = {}
      <4>1. ack'[t] = ack[t] \cup UNION {MsgsIn(m_freeFrames[n][r]) : r \in FramesOf(n, S, t)}
        BY Zenon, <2>4, <3>3
      <4>2. MsgsIn(f) \cap UNION {MsgsIn(m_freeFrames[n][r]) : r \in FramesOf(n, S, t)} = {}
        BY Zenon, <3>4
      <4>3. MsgsIn(f) \cap ack[t] = {}
        BY Zenon, <3>2
      <4>4. QED
        BY Zenon, <4>1, <4>2, <4>3
    <3>6. QED
      BY Zenon, <3>1, <3>2, <3>5 DEF t
  <2>6. BusyDisjoint'
    <3> SUFFICES ASSUME NEW m \in Node, NEW r \in Slots, NEW s \in Slots, r # s,
                        ~ m_freeFrames'[m][r].is_free, ~ m_freeFrames'[m][s].is_free,
                        m_freeFrames'[m][r].transaction = m_freeFrames'[m][s].transaction
                 PROVE  MsgsIn(m_freeFrames'[m][r]) \cap MsgsIn(m_freeFrames'[m][s]) = {}
      BY Zenon DEF BusyDisjoint, MsgsIn
    <3>1. m_freeFrames'[m][r] = m_freeFrames[m][r] /\ m_freeFrames'[m][s] = m_freeFrames[m][s]
      BY Zenon, <2>3
    <3>2. QED
      BY Zenon, <3>1 DEF CountInv, BusyDisjoint
  <2>7. AckedWasPosted'
    <3> SUFFICES ASSUME NEW u \in Transaction
                 PROVE  /\ u[2] > app[u[1]].k => ack'[u] = {}
                        /\ u[2] = app[u[1]].k => \A i \in ack'[u] : i <= app[u[1]].msg
      BY Zenon DEF AckedWasPosted
    <3>1. /\ u[2] > app[u[1]].k => ack[u] = {}
          /\ u[2] = app[u[1]].k => \A i \in ack[u] : i <= app[u[1]].msg
      BY Zenon DEF CountInv, AckedWasPosted
    <3>2. QED
      <4> DEFINE U == UNION {MsgsIn(m_freeFrames[n][s]) : s \in FramesOf(n, S, u)}
      <4>1. /\ ack'[u] = ack[u] \cup U
            /\ u[1] = n /\ u[2] = app[n].k => \A i \in U : i <= app[n].msg
            /\ u[1] # n => U = {}
            /\ u[2] > app[u[1]].k => U = {}
        BY Zenon, <2>4
      <4> HIDE DEF U
      <4>2. u[2] > app[u[1]].k => ack'[u] = {}
        BY Zenon, <3>1, <4>1
      <4>3. ASSUME u[2] = app[u[1]].k, NEW i \in ack'[u] PROVE i <= app[u[1]].msg
        BY Zenon, <3>1, <4>1, <4>3
      <4>4. QED
        BY Zenon, <4>2, <4>3
  <2>8. HeldFrame'
    <3>1. \A o \in Node : app[o].slot \in Slots
      BY Zenon DEF TypeInv, TypeOK, AppState
    <3>2. QED
      BY Zenon, <2>3, <3>1 DEF CountInv, HeldFrame
  <2>9. CountedOnce'
    <3>1. \A t \in Transaction : ack[t] \subseteq 1 .. msgCount(t)
      BY Zenon DEF CountInv, CountedOnce
    <3>2. \A t \in Transaction : /\ ack'[t] \subseteq 1 .. msgCount(t)
                                 /\ m_nMessagesRx'[t] = Cardinality(ack'[t])
      BY Zenon, <2>4, <3>1
    <3>3. QED
      BY Zenon, <3>2 DEF CountedOnce, msgCount
  <2>10. QED
    BY Zenon, <2>5, <2>6, <2>7, <2>8, <2>9 DEF CountInv
\* PostFrame, CheckAcks and SendAcks change no busy frame's messages.
<1>SendCount.
  ASSUME TypeInv, CountInv, NEW n \in Node,
         PostFrame(n) \/ CheckAcks(n) \/ SendAcks(n)
  PROVE  CountInv'
  <2> USE <1>SendCount
  <2>1. /\ m_freeFrames \in [Node -> [Slots -> Frame]] /\ app \in [Node -> AppState]
        /\ \A o \in Node : m_freeFrames[o] \in [Slots -> Frame]
        /\ \A o \in Node : \A s \in Slots : m_freeFrames[o][s] \in Frame
        /\ app[n].slot \in Slots /\ app[n] \in AppState
    BY DEF TypeInv, TypeOK, AppState
  <2>2. CASE PostFrame(n)
    <3> DEFINE x == app[n].slot
               g == [m_freeFrames[n][x] EXCEPT !.send_time = "set", !.sends = @ + 1]
    <3>1. \E ph \in {"loop", "idle"} : app' = [app EXCEPT ![n] = [app[n] EXCEPT !.phase = ph]]
      BY Zenon, <2>2 DEF PostFrame
    <3>2. m_freeFrames' = [m_freeFrames EXCEPT ![n][x] = g] /\ ack' = ack
          /\ m_nMessagesRx' = m_nMessagesRx
      BY Zenon, <2>2 DEF PostFrame
    <3>3. /\ g.is_free = m_freeFrames[n][x].is_free
          /\ g.transaction = m_freeFrames[n][x].transaction
          /\ g.msg_start = m_freeFrames[n][x].msg_start
          /\ g.msg_count = m_freeFrames[n][x].msg_count
      BY <2>1 DEF Frame
    <3> HIDE DEF g
    <3>4. \A o \in Node : \A s \in Slots : ~ m_freeFrames'[o][s].is_free => SameFrame(o, s)
      BY Zenon, <2>1, <3>2, <3>3 DEF SameFrame
    <3>5. \A o \in Node : /\ app'[o].k = app[o].k /\ app'[o].msg = app[o].msg
                          /\ app'[o].phase = "got" =>
                               app[o].phase = "got" /\ app'[o].slot = app[o].slot
      BY <2>1, <3>1 DEF AppState
    <3>6. QED
      BY Zenon, <3>2, <3>4, <3>5, <1>StableStep
  <2>3. CASE CheckAcks(n)
    <3>1. PICK s \in Slots :
            m_freeFrames' = [m_freeFrames EXCEPT ![n][s] =
              IF m_freeFrames[n][s].msg_count = 0
              THEN [m_freeFrames[n][s] EXCEPT !.send_time = "set",
                      !.sends = m_freeFrames[n][s].sends + 1, !.is_free = TRUE, !.transaction = 0]
              ELSE [m_freeFrames[n][s] EXCEPT !.send_time = "set",
                      !.sends = m_freeFrames[n][s].sends + 1]]
            /\ ~ m_freeFrames[n][s].is_free
      BY Zenon, <2>3 DEF CheckAcks
    <3> DEFINE g == m_freeFrames'[n][s]
    <3>2. ~ g.is_free => /\ g.transaction = m_freeFrames[n][s].transaction
                         /\ g.msg_start = m_freeFrames[n][s].msg_start
                         /\ g.msg_count = m_freeFrames[n][s].msg_count
      BY <2>1, <3>1 DEF Frame
    <3>3. \A o \in Node : \A r \in Slots : ~ (o = n /\ r = s) =>
            m_freeFrames'[o][r] = m_freeFrames[o][r]
      BY Zenon, <2>1, <3>1
    <3>4. \A o \in Node : \A r \in Slots : ~ m_freeFrames'[o][r].is_free => SameFrame(o, r)
      BY Zenon, <3>1, <3>2, <3>3 DEF SameFrame
    <3>5. app' = app /\ ack' = ack /\ m_nMessagesRx' = m_nMessagesRx
      BY Zenon, <2>3 DEF CheckAcks
    <3>6. QED
      BY Zenon, <3>4, <3>5, <1>StableStep
  <2>4. CASE SendAcks(n)
    <3>1. app' = app /\ ack' = ack /\ m_nMessagesRx' = m_nMessagesRx
      BY Zenon, <2>4 DEF SendAcks, WindowAbort
    <3>2. \A o \in Node : \A s \in Slots : ~ m_freeFrames'[o][s].is_free => SameFrame(o, s)
      <4>1. CASE m_freeFrames' = m_freeFrames
        BY Zenon, <4>1 DEF SameFrame
      <4>2. ASSUME NEW q \in Slots, NEW g, g.is_free,
                   m_freeFrames' = [m_freeFrames EXCEPT ![n][q] = g]
            PROVE  \A o \in Node : \A s \in Slots : ~ m_freeFrames'[o][s].is_free => SameFrame(o, s)
        BY Zenon, <2>1, <4>2 DEF SameFrame
      <4>3. CASE ~ WindowAbort(n)
        <5> DEFINE q == Slot(m_frameSeq[n])
                   g == [NewFrame(n, m_frameSeq[n]) EXCEPT !.is_free = TRUE, !.send_time = "set"]
        <5>1. m_freeFrames' = [m_freeFrames EXCEPT ![n][q] = g]
          BY Zenon, <2>4, <4>3 DEF SendAcks
        <5>2. q \in Slots
          BY Zenon, SlotType DEF TypeInv, TypeOK
        <5>3. g.is_free
          BY Zenon DEF NewFrame, FreeFrame
        <5> HIDE DEF q, g
        <5>4. QED
          BY Zenon, <4>2, <5>1, <5>2, <5>3
      <4>4. QED
        BY Zenon, <4>1, <4>3 DEF WindowAbort
    <3>3. QED
      BY Zenon, <3>1, <3>2, <1>StableStep
  <2>5. QED
    BY Zenon, <2>2, <2>3, <2>4
\* A step that touches neither frames nor counts.
<1>FixedCount.
  ASSUME TypeInv, CountInv, UNCHANGED <<m_freeFrames, app, ack, m_nMessagesRx>>
  PROVE  CountInv'
  <2> USE <1>FixedCount
  <2>1. \A o \in Node : \A s \in Slots : ~ m_freeFrames'[o][s].is_free => SameFrame(o, s)
    BY Zenon DEF SameFrame
  <2>2. QED
    BY Zenon, <2>1, <1>StableStep
<1> SUFFICES ASSUME TypeInv, CountInv, [Next]_vars PROVE CountInv'
  BY Zenon
<1>1. ASSUME NEW n \in Node, StartPost(n) PROVE CountInv'
  BY Zenon, <1>1, <1>StartPostCount
<1>2. ASSUME NEW n \in Node, GetFrame(n) PROVE CountInv'
  <2>1. CASE WindowAbort(n)
    BY Zenon, <2>1, <1>FixedCount DEF WindowAbort
  <2>2. QED
    BY Zenon, <1>2, <2>1, <1>GetFrameCount
<1>3. ASSUME NEW n \in Node, FillFrame(n) PROVE CountInv'
  BY Zenon, <1>3, <1>FillFrameCount
<1>4. ASSUME NEW n \in Node, PostFrame(n) \/ CheckAcks(n) \/ SendAcks(n) PROVE CountInv'
  BY Zenon, <1>4, <1>SendCount
<1>5. ASSUME NEW n \in Node, ProcessFrame(n) PROVE CountInv'
  <2>1. PICK p \in net : ProcessDup(n, p) \/ ProcessNew(n, p)
    BY Zenon, <1>5 DEF ProcessFrame
  <2>2. app' = app
    BY Zenon, <1>5 DEF ProcessFrame
  <2>3. CASE ProcessDup(n, p)
    BY Zenon, <2>2, <2>3, <1>FixedCount DEF ProcessDup
  <2>4. CASE ProcessNew(n, p)
    <3>1. Acked(n, p) \in SUBSET Slots /\ \A s \in Acked(n, p) : ~ m_freeFrames[n][s].is_free
      BY Zenon DEF Acked
    <3>2. ReleaseFrames(n, Acked(n, p))
      BY Zenon, <2>4 DEF ProcessNew
    <3>3. QED
      BY Zenon, <2>2, <3>1, <3>2, <1>ReleaseCount
  <2>5. QED
    BY Zenon, <2>1, <2>3, <2>4
<1>6. ASSUME NEW n \in Node, ProcessMsg(n) PROVE CountInv'
  BY Zenon, <1>6, <1>FixedCount DEF ProcessMsg
<1>7. ASSUME Lose \/ Duplicate PROVE CountInv'
  BY Zenon, <1>7, <1>FixedCount DEF Lose, Duplicate
<1>8. CASE UNCHANGED vars
  BY Zenon, <1>8, <1>FixedCount DEF vars
<1>9. QED
  BY Zenon, <1>1, <1>2, <1>3, <1>4, <1>5, <1>6, <1>7, <1>8 DEF Next, NodeStep, AppStep

\* The count says when all the messages of a transfer are acknowledged.
LEMMA CompleteWhenAcked == ASSUME Counting PROVE CountedOnce => CompleteIsAllAcked
<1> SUFFICES ASSUME CountedOnce, NEW t \in Transaction
             PROVE  m_nMessagesRx[t] = msgCount(t) <=> ack[t] = 1 .. msgCount(t)
  BY Zenon DEF CompleteIsAllAcked, Complete
<1>1. ack[t] \in SUBSET (1 .. msgCount(t)) /\ m_nMessagesRx[t] = Cardinality(ack[t])
  BY Zenon DEF CountedOnce
<1>2. msgCount(t) \in Nat \ {0}
  BY MsgCountType DEF Transaction
<1>3. QED
  BY Zenon, <1>1, <1>2 DEF Counting, AllCounted
=============================================================================
