------------------------- MODULE DatagramAck_proofs -------------------------
(***************************************************************************)
(* Every step of Datagram keeps the types, TypeInv, whatever the network   *)
(* and the timers do, what is known of acknowledgements, AckInv, and of    *)
(* the ring, SilentRing and BusyRing. The facts about sequences and finite *)
(* sets (Counting) are an assumption here.                                 *)
(***************************************************************************)
EXTENDS DatagramInvariants, TLAPS

\* Every position of the record of received frames and of the ring exists.
LEMMA SlotInRing == ASSUME NEW f \in Nat PROVE Slot(f) \in Slots
BY SizeAssumption DEF Slot, Slots

\* 16 bit frame numbers are natural numbers.
LEMMA WireType == ASSUME NEW f \in Nat PROVE Wire(f) \in Nat
BY SizeAssumption DEF Wire

\* All identifiers below MAX_TRANSACTION_HISTORY select record 0.
LEMMA RecordIsZero == ASSUME NEW k \in TransNo PROVE RecordIndex(k) = 0
<1>1. History \in Nat /\ History > 0 /\ k \in Nat /\ k < History
  BY SizeAssumption DEF TransNo
<1>2. k \div History = 0
  BY <1>1, Z3
<1>3. QED
  BY <1>1, <1>2 DEF RecordIndex

\* Every transaction has at least one message.
LEMMA TransactionType ==
  ASSUME NEW n \in Node, NEW k \in 1 .. Len(Msgs[n])
  PROVE  /\ msgCount(<<n, k>>) \in Nat \ {0}
         /\ <<n, k>> \in Transaction
BY NodeAssumption DEF msgCount, Transaction

-----------------------------------------------------------------------------
(***************************************************************************)
(* Types (TypeInv).                                                        *)
(***************************************************************************)

\* The constructors leave every variable in its type.
LEMMA InitTypeInv == Init => TypeInv
<1> SUFFICES ASSUME Init PROVE TypeInv
  BY Zenon
<1>1. 0 \in Slots /\ 0 \in TransNo /\ 0 \in 0 .. History - 1
  BY SizeAssumption DEF Slots, TransNo
<1>2. FreeFrame \in Frame
  BY Zenon, <1>1 DEF FreeFrame, Frame
<1>3. m_freeFrames \in [Node -> [Slots -> Frame]]
  BY Zenon, <1>2 DEF Init
<1>4. m_frameSeq \in [Node -> Nat \ {0}] /\ m_acks \in [Node -> Seq(Nat)]
  BY DEF Init, FirstSeq
<1>5. m_frames_in_play \in [Node -> Nat]
  BY Zenon, SizeAssumption DEF Init
<1>6. /\ rx \in [Node -> [k : TransNo, next : Nat, last : Nat]]
      /\ app \in [Node -> AppState]
  BY Zenon, <1>1 DEF Init, NoMsg, AppState
<1>7. QED
  BY Zenon, <1>1, <1>3, <1>4, <1>5, <1>6 DEF Init, TypeInv, TypeOK, InPlayCounted, PostInRange

\* Every step of the two processes and of the network keeps the types.
LEMMA TypeStep == ASSUME Counting PROVE TypeInv /\ [Next]_vars => TypeInv'
\* A new frame is a frame, and getFrame leaves a queue of acknowledgements.
<1>NewFrameType.
  ASSUME Counting, TypeOK, NEW n \in Node, NEW f \in Nat
  PROVE  /\ NewFrame(n, f) \in Frame
         /\ AcksLeft(n) \in Seq(Nat)
  <2> USE <1>NewFrameType
  <2>1. m_acks[n] \in Seq(Nat)
    BY Zenon DEF TypeOK
  <2>2. FreeFrame \in Frame
    BY SizeAssumption DEF FreeFrame, Frame, TransNo
  <2>3. CASE m_acks[n] = <<>>
    BY Zenon, <2>1, <2>2, <2>3 DEF NewFrame, AcksLeft, Frame
  <2>4. CASE m_acks[n] # <<>>
    <3>1. AckCount(m_acks[n]) \in 1 .. Len(m_acks[n])
      BY Zenon, <2>1, <2>4 DEF Counting, AckCounted
    <3>2. m_acks[n][1] \in Nat /\ AckCount(m_acks[n]) \in Nat
      BY <2>1, <2>4, <3>1
    <3>3. SubSeq(m_acks[n], AckCount(m_acks[n]) + 1, Len(m_acks[n])) \in Seq(Nat)
      BY <2>1, <3>1
    <3>4. QED
      BY Zenon, <2>2, <2>4, <3>2, <3>3 DEF NewFrame, AcksLeft, Frame
  <2>5. QED
    BY Zenon, <2>3, <2>4
\* What the socket sends for a frame is a packet.
<1>PacketType.
  ASSUME NEW n \in Node, NEW f \in Frame, NEW c \in Nat
  PROVE  PacketOf(n, f, c) \in Packet
  BY Zenon DEF PacketOf, Packet, Frame
\* The application thread keeps the types: StartPost.
<1>StartPostType.
  ASSUME TypeInv, NEW n \in Node, StartPost(n) PROVE TypeInv'
  <2> USE <1>StartPostType
  <2>0. app[n].k \in Nat /\ app[n].k < Len(Msgs[n]) /\ Len(Msgs[n]) \in Nat
    <3>1. app[n].k \in TransNo /\ app[n].k < Len(Msgs[n])
      BY Zenon DEF StartPost, TypeInv, TypeOK, AppState
    <3>2. Msgs[n] \in Seq(Nat \ {0}) /\ History \in Nat
      BY Zenon, SizeAssumption, NodeAssumption
    <3>3. Len(Msgs[n]) \in Nat
      BY <3>2
    <3>4. QED
      BY <3>1, <3>2, <3>3 DEF TransNo
  <2>1. app[n].k + 1 \in TransNo
    <3>1. app[n].k \in TransNo /\ app[n].k < Len(Msgs[n])
      BY Zenon DEF StartPost, TypeInv, TypeOK, AppState
    <3>2. Msgs[n] \in Seq(Nat \ {0}) /\ Len(Msgs[n]) < History /\ History \in Nat
      BY Zenon, SizeAssumption, NodeAssumption
    <3>3. Len(Msgs[n]) \in Nat
      BY <3>2
    <3>4. QED
      BY <3>1, <3>2, <3>3 DEF TransNo
  <2>2. 0 \in Slots
    BY SizeAssumption DEF Slots
  <2>3. app' \in [Node -> AppState]
    BY Zenon, <2>1, <2>2 DEF StartPost, TypeInv, TypeOK, AppState
  <2>4. PostInRange'
    <3>1. app[n].k + 1 \in 1 .. Len(Msgs[n])
      BY <2>0
    <3>2. 0 < msgCount(<<n, app[n].k + 1>>)
      BY <3>1, TransactionType
    <3>3. QED
      BY Zenon, <3>1, <3>2 DEF StartPost, TypeInv, TypeOK, AppState, PostInRange
  <2>5. QED
    BY Zenon, <2>3, <2>4 DEF StartPost, TypeInv, TypeOK, InPlayCounted
\* The application thread keeps the types: GetFrame.
<1>GetFrameType.
  ASSUME Counting, TypeInv, NEW n \in Node, GetFrame(n) PROVE TypeInv'
  <2> USE <1>GetFrameType
  <2> DEFINE f == m_frameSeq[n]
  <2>1. f \in Nat /\ f + 1 \in Nat \ {0}
    BY DEF TypeInv, TypeOK
  <2>2. Slot(f) \in Slots
    BY Zenon, <2>1, SlotInRing
  <2>3. CASE WindowAbort(n)
    BY Zenon, <2>3 DEF WindowAbort, TypeInv, TypeOK, InPlayCounted, PostInRange
  <2>4. CASE ~ WindowAbort(n)
    <3>1. /\ NewFrame(n, f) \in Frame
          /\ AcksLeft(n) \in Seq(Nat)
      BY Zenon, <2>1, <1>NewFrameType DEF TypeInv
    <3>2. [NewFrame(n, f) EXCEPT !.transaction = app[n].k, !.msg_start = app[n].msg] \in Frame
      <4>1. app[n].k \in TransNo /\ app[n].msg \in Nat
        BY Zenon DEF TypeInv, TypeOK, AppState
      <4>2. QED
        BY Zenon, <3>1, <4>1 DEF Frame
    <3>3. Alive(n, f) \subseteq Packet
      BY Zenon DEF Alive, TypeInv, TypeOK
    <3>4. /\ m_frameSeq' = [m_frameSeq EXCEPT ![n] = f + 1]
          /\ m_freeFrames' = [m_freeFrames EXCEPT ![n][Slot(f)] =
               [NewFrame(n, f) EXCEPT !.transaction = app[n].k, !.msg_start = app[n].msg]]
          /\ m_acks' = [m_acks EXCEPT ![n] = AcksLeft(n)]
          /\ app' = [app EXCEPT ![n] = [@ EXCEPT !.phase = "got", !.slot = Slot(f)]]
          /\ net' = Alive(n, f)
          /\ UNCHANGED <<m_frameSeqRecord, m_msgTransactionRecord, m_frames_in_play, rx,
                         m_nMessagesRx, ack, copied, flag, lost, dups, aborted,
                         released, received>>
      BY Zenon, <2>4 DEF GetFrame
    <3> HIDE DEF f
    <3>5. m_freeFrames' \in [Node -> [Slots -> Frame]]
      BY Zenon, <2>2, <3>2, <3>4 DEF TypeInv, TypeOK
    <3>6. app' \in [Node -> AppState]
      <4>1. app \in [Node -> AppState]
        BY Zenon DEF TypeInv, TypeOK
      <4>2. [app[n] EXCEPT !.phase = "got", !.slot = Slot(f)] \in AppState
        <5>1. app[n] \in AppState
          BY Zenon, <4>1
        <5>2. QED
          BY Zenon, <2>2, <5>1 DEF AppState
      <4>3. QED
        BY Zenon, <3>4, <4>1, <4>2
    <3>7. PostInRange'
      <4> SUFFICES ASSUME NEW m \in Node, app'[m].phase # "idle"
                   PROVE  /\ app'[m].k \in 1 .. Len(Msgs[m])
                          /\ IF app'[m].phase = "filled"
                             THEN app'[m].msg <= msgCount(<<m, app'[m].k>>)
                             ELSE app'[m].msg < msgCount(<<m, app'[m].k>>)
        BY Zenon DEF PostInRange, msgCount
      <4>1. CASE m = n
        <5>1. /\ app'[n].k = app[n].k /\ app'[n].msg = app[n].msg
              /\ app'[n].phase = "got" /\ app[n].phase = "loop"
          BY <3>4 DEF GetFrame, TypeInv, TypeOK, AppState
        <5>2. QED
          BY Zenon, <4>1, <5>1 DEF TypeInv, PostInRange
      <4>2. CASE m # n
        BY Zenon, <3>4, <4>2 DEF TypeInv, TypeOK, PostInRange
      <4>3. QED
        BY Zenon, <4>1, <4>2
    <3>8. QED
      BY Zenon, <2>1, <3>1, <3>3, <3>4, <3>5, <3>6, <3>7 DEF TypeInv, TypeOK, InPlayCounted
  <2>5. QED
    BY Zenon, <2>3, <2>4
\* Filling a frame changes its messages.
<1>FillFrameRecord.
  ASSUME NEW f \in Frame, NEW c \in Nat, NEW t \in TransNo, NEW i \in Nat
  PROVE  [f EXCEPT !.msg_count = c, !.iov = t, !.first = i] \in Frame
  <2>1. [f EXCEPT !.msg_count = c] \in Frame
    BY Zenon DEF Frame
  <2>2. \A g \in Frame : [g EXCEPT !.iov = t] \in Frame
    BY Zenon DEF Frame
  <2>3. \A g \in Frame : [g EXCEPT !.first = i] \in Frame
    BY Zenon DEF Frame
  <2>4. QED
    BY <2>1, <2>2, <2>3, Zenon
\* Filling a frame changes how far post() has come.
<1>FillAppRecord.
  ASSUME NEW r \in AppState, NEW m \in Nat
  PROVE  /\ [r EXCEPT !.phase = "filled", !.msg = m] \in AppState
         /\ [r EXCEPT !.phase = "filled", !.msg = m].k = r.k
         /\ [r EXCEPT !.phase = "filled", !.msg = m].msg = m
         /\ [r EXCEPT !.phase = "filled", !.msg = m].phase = "filled"
         /\ [r EXCEPT !.phase = "filled", !.msg = m].slot = r.slot
  <2>1. [r EXCEPT !.phase = "filled", !.msg = m] \in AppState
    BY Zenon DEF AppState
  <2>2. QED
    BY <2>1, SMT DEF AppState
\* The application thread keeps the types: FillFrame.
<1>FillFrameType.
  ASSUME TypeInv, NEW n \in Node, FillFrame(n) PROVE TypeInv'
  <2> USE <1>FillFrameType
  <2> DEFINE left == msgCount(<<n, app[n].k>>) - app[n].msg
             count == IF left < MsgsPerFrame THEN left ELSE MsgsPerFrame
  <2>1. /\ app[n].k \in 1 .. Len(Msgs[n])
        /\ app[n].msg \in Nat /\ app[n].msg < msgCount(<<n, app[n].k>>)
        /\ app[n].slot \in Slots
    BY Zenon DEF FillFrame, TypeInv, TypeOK, PostInRange, AppState
  <2>2. /\ count \in Nat
        /\ app[n].msg + count <= msgCount(<<n, app[n].k>>)
    <3>1. msgCount(<<n, app[n].k>>) \in Nat
      BY Zenon, <2>1, TransactionType
    <3>2. \A t, m \in Nat, b \in Nat \ {0} : m < t =>
            LET c == IF t - m < b THEN t - m ELSE b IN c \in Nat /\ m + c <= t
      OBVIOUS
    <3>3. QED
      BY Zenon, <2>1, <3>1, <3>2, SizeAssumption
  <2>3. PICK c \in Nat, m \in Nat :
          /\ m = app[n].msg + c
          /\ m <= msgCount(<<n, app[n].k>>)
          /\ m_freeFrames' = [m_freeFrames EXCEPT ![n][app[n].slot] =
               [@ EXCEPT !.msg_count = c, !.iov = app[n].k, !.first = app[n].msg + 1]]
          /\ app' = [app EXCEPT ![n] = [@ EXCEPT !.phase = "filled", !.msg = m]]
    <3>1. app[n].msg + count \in Nat
      BY <2>1, <2>2
    <3>2. /\ m_freeFrames' = [m_freeFrames EXCEPT ![n][app[n].slot] =
               [@ EXCEPT !.msg_count = count, !.iov = app[n].k, !.first = app[n].msg + 1]]
          /\ app' = [app EXCEPT ![n] = [@ EXCEPT !.phase = "filled", !.msg = app[n].msg + count]]
      BY Zenon DEF FillFrame
    <3> HIDE DEF count
    <3> count \in Nat /\ app[n].msg + count \in Nat
      BY Zenon, <2>2, <3>1
    <3> WITNESS count \in Nat, app[n].msg + count \in Nat
    <3>3. QED
      BY Zenon, <2>2, <3>2
  <2>4. m_freeFrames' \in [Node -> [Slots -> Frame]]
    <3>1. [m_freeFrames[n][app[n].slot] EXCEPT !.msg_count = c, !.iov = app[n].k,
             !.first = app[n].msg + 1] \in Frame
      <4>1. m_freeFrames[n][app[n].slot] \in Frame /\ app[n].k \in TransNo
        BY <2>1 DEF TypeInv, TypeOK, AppState
      <4>2. app[n].msg + 1 \in Nat
        BY <2>1
      <4>3. QED
        BY <4>1, <4>2, <1>FillFrameRecord, Zenon
    <3>2. QED
      BY Zenon, <2>1, <2>3, <3>1 DEF TypeInv, TypeOK
  <2>5. app' \in [Node -> AppState] /\ PostInRange'
    <3>1. app \in [Node -> AppState] /\ app[n] \in AppState
      BY Zenon DEF TypeInv, TypeOK
    <3> DEFINE r == [app[n] EXCEPT !.phase = "filled", !.msg = m]
    <3>2. r \in AppState /\ r.k = app[n].k /\ r.msg = m /\ r.phase = "filled"
      BY <3>1, <1>FillAppRecord, Zenon
    <3>r. app' = [app EXCEPT ![n] = r]
      BY Zenon, <2>3
    <3> HIDE DEF r
    <3>3. app' \in [Node -> AppState] /\ app'[n] = r
      BY Zenon, <3>1, <3>2, <3>r
    <3>4. /\ app'[n].k = app[n].k /\ app'[n].msg = app[n].msg + c
          /\ app'[n].phase = "filled"
      BY Zenon, <2>3, <3>2, <3>3
    <3>5. \A o \in Node \ {n} : app'[o] = app[o]
      BY Zenon, <2>3, <3>1
    <3>6. PostInRange'
      BY <2>1, <2>3, <3>4, <3>5 DEF TypeInv, PostInRange, msgCount
    <3>7. QED
      BY Zenon, <3>3, <3>6
  <2>6. QED
    BY Zenon, <2>4, <2>5 DEF FillFrame, TypeInv, TypeOK, InPlayCounted
\* The application thread keeps the types: PostFrame.
<1>PostFrameType.
  ASSUME TypeInv, NEW n \in Node, PostFrame(n) PROVE TypeInv'
  <2> USE <1>PostFrameType
  <2> DEFINE s == app[n].slot
             f == m_freeFrames[n][s]
  <2>1. s \in Slots /\ f \in Frame
    BY DEF TypeInv, TypeOK, AppState
  <2>2. f.sends + 1 \in Nat
    BY <2>1 DEF Frame
  <2>3. PacketOf(n, f, f.sends + 1) \in Packet
    BY Zenon, <2>1, <2>2, <1>PacketType
  <2>4. [f EXCEPT !.send_time = "set", !.sends = @ + 1] \in Frame
    BY Zenon, <2>1, <2>2 DEF Frame
  <2>5. /\ m_freeFrames' = [m_freeFrames EXCEPT ![n][s] =
             [f EXCEPT !.send_time = "set", !.sends = @ + 1]]
        /\ net' = net \cup {PacketOf(n, f, f.sends + 1)}
    BY Zenon DEF PostFrame
  <2>6. app' \in [Node -> AppState] /\ PostInRange'
    <3> DEFINE ph == IF app[n].msg < msgCount(<<n, app[n].k>>) THEN "loop" ELSE "idle"
    <3>1. /\ app \in [Node -> AppState] /\ app[n] \in AppState
          /\ app' = [app EXCEPT ![n] = [@ EXCEPT !.phase = ph]]
          /\ ph \in {"loop", "idle"}
          /\ ph = "loop" => app[n].msg < msgCount(<<n, app[n].k>>)
          /\ app[n].phase = "filled"
      BY Zenon DEF PostFrame, TypeInv, TypeOK
    <3> HIDE DEF ph
    <3>2. [app[n] EXCEPT !.phase = ph] \in AppState
      BY Zenon, <3>1 DEF AppState
    <3>3. app' \in [Node -> AppState]
      BY Zenon, <3>1, <3>2
    <3>4. /\ app'[n].k = app[n].k /\ app'[n].msg = app[n].msg
          /\ app'[n].phase = ph
      BY Zenon, <3>1 DEF AppState
    <3>5. \A o \in Node \ {n} : app'[o] = app[o]
      BY Zenon, <3>1
    <3>6. PostInRange'
      BY Zenon, <3>1, <3>4, <3>5 DEF TypeInv, PostInRange, msgCount
    <3>7. QED
      BY Zenon, <3>3, <3>6
  <2>7. m_freeFrames' \in [Node -> [Slots -> Frame]]
    BY Zenon, <2>1, <2>4, <2>5 DEF TypeInv, TypeOK
  <2>8. QED
    BY Zenon, <2>3, <2>5, <2>6, <2>7 DEF PostFrame, TypeInv, TypeOK, InPlayCounted
\* The FrameMonitor thread keeps the types: CheckAcks.
<1>CheckAcksType.
  ASSUME TypeInv, NEW n \in Node, CheckAcks(n) PROVE TypeInv'
  <2> USE <1>CheckAcksType
  <2> DEFINE f(s) == m_freeFrames[n][s]
             g(s) == IF f(s).msg_count = 0
                     THEN [f(s) EXCEPT !.send_time = "set", !.sends = @ + 1,
                                       !.is_free = TRUE, !.transaction = 0]
                     ELSE [f(s) EXCEPT !.send_time = "set", !.sends = @ + 1]
  <2>1. PICK s \in Slots :
          /\ net' = net \cup {PacketOf(n, f(s), f(s).sends + 1)}
          /\ m_freeFrames' = [m_freeFrames EXCEPT ![n][s] = g(s)]
    BY Zenon DEF CheckAcks
  <2>2. f(s) \in Frame /\ f(s).sends + 1 \in Nat
    BY DEF TypeInv, TypeOK, Frame
  <2>3. PacketOf(n, f(s), f(s).sends + 1) \in Packet
    BY Zenon, <2>2, <1>PacketType
  <2>4. g(s) \in Frame
    <3>1. 0 \in TransNo
      BY SizeAssumption DEF TransNo
    <3>2. /\ [f(s) EXCEPT !.send_time = "set", !.sends = @ + 1, !.is_free = TRUE,
                           !.transaction = 0] \in Frame
          /\ [f(s) EXCEPT !.send_time = "set", !.sends = @ + 1] \in Frame
      BY Zenon, <2>2, <3>1 DEF Frame
    <3>3. QED
      BY Zenon, <3>2
  <2> HIDE DEF g
  <2>5. m_freeFrames' \in [Node -> [Slots -> Frame]]
    BY Zenon, <2>1, <2>4 DEF TypeInv, TypeOK
  <2>6. QED
    BY Zenon, <2>1, <2>3, <2>5 DEF CheckAcks, TypeInv, TypeOK, InPlayCounted, PostInRange
\* The FrameMonitor thread keeps the types: SendAcks.
<1>SendAcksType.
  ASSUME Counting, TypeInv, NEW n \in Node, SendAcks(n) PROVE TypeInv'
  <2> USE <1>SendAcksType
  <2> DEFINE f == m_frameSeq[n]
  <2>1. f \in Nat /\ f + 1 \in Nat \ {0}
    BY DEF TypeInv, TypeOK
  <2>2. Slot(f) \in Slots
    BY Zenon, <2>1, SlotInRing
  <2>3. CASE WindowAbort(n)
    BY Zenon, <2>3 DEF WindowAbort, TypeInv, TypeOK, InPlayCounted, PostInRange
  <2>4. CASE ~ WindowAbort(n)
    <3>1. /\ NewFrame(n, f) \in Frame
          /\ AcksLeft(n) \in Seq(Nat)
      BY Zenon, <2>1, <1>NewFrameType DEF TypeInv
    <3>2. [NewFrame(n, f) EXCEPT !.is_free = TRUE, !.send_time = "set"] \in Frame
      BY Zenon, <3>1 DEF Frame
    <3>3. Alive(n, f) \subseteq Packet
      BY Zenon DEF Alive, TypeInv, TypeOK
    <3>4. PacketOf(n, NewFrame(n, f), 1) \in Packet
      BY Zenon, <3>1, <1>PacketType
    <3>5. /\ m_frameSeq' = [m_frameSeq EXCEPT ![n] = f + 1]
          /\ m_freeFrames' = [m_freeFrames EXCEPT ![n][Slot(f)] =
               [NewFrame(n, f) EXCEPT !.is_free = TRUE, !.send_time = "set"]]
          /\ m_acks' = [m_acks EXCEPT ![n] = AcksLeft(n)]
          /\ net' = Alive(n, f) \cup {PacketOf(n, NewFrame(n, f), 1)}
          /\ UNCHANGED <<m_frameSeqRecord, m_msgTransactionRecord, m_frames_in_play, rx, app,
                         m_nMessagesRx, ack, copied, flag, lost, dups, aborted,
                         released, received>>
      BY Zenon, <2>4 DEF SendAcks
    <3> HIDE DEF f
    <3>6. m_freeFrames' \in [Node -> [Slots -> Frame]]
      BY Zenon, <2>2, <3>2, <3>5 DEF TypeInv, TypeOK
    <3>7. QED
      BY Zenon, <2>1, <3>1, <3>3, <3>4, <3>5, <3>6 DEF TypeInv, TypeOK, InPlayCounted, PostInRange
  <2>5. QED
    BY Zenon, <2>3, <2>4
\* Releasing frames keeps the types.
<1>ReleaseFramesType.
  ASSUME Counting, TypeOK, NEW n \in Node, NEW S, S \subseteq Slots, ReleaseFrames(n, S)
  PROVE  /\ m_freeFrames' \in [Node -> [Slots -> Frame]]
         /\ m_nMessagesRx' \in [Transaction -> Nat]
         /\ ack' \in [Transaction -> SUBSET Nat]
         /\ released' \in [Node -> SUBSET Nat]
  <2> USE <1>ReleaseFramesType
  <2>1. ASSUME NEW s \in Slots
        PROVE  [m_freeFrames[n][s] EXCEPT !.is_free = TRUE, !.transaction = 0] \in Frame
    <3>1. m_freeFrames[n][s] \in Frame /\ 0 \in TransNo
      BY SizeAssumption DEF TypeOK, TransNo
    <3>2. QED
      BY <3>1, Zenon DEF Frame
  <2>2. m_freeFrames' \in [Node -> [Slots -> Frame]]
    BY Zenon, <2>1 DEF ReleaseFrames, TypeOK
  <2>3. m_nMessagesRx' \in [Transaction -> Nat]
    <3>1. ASSUME NEW t \in Transaction
          PROVE  m_nMessagesRx[t] + Cardinality(UNION {{s} \X MsgsIn(m_freeFrames[n][s]) :
                                                       s \in FramesOf(n, S, t)}) \in Nat
      <4> DEFINE c == Cardinality(UNION {{s} \X MsgsIn(m_freeFrames[n][s]) :
                                         s \in FramesOf(n, S, t)})
      <4>1. c \in Nat
        <5> DEFINE H == FramesOf(n, S, t)
                   M == [s \in H |-> MsgsIn(m_freeFrames[n][s])]
        <5>1. H \in SUBSET Slots
          BY Zenon DEF FramesOf
        <5>2. ASSUME NEW s \in H PROVE \E m \in Nat : M[s] \in SUBSET (1 .. m)
          <6> DEFINE f == m_freeFrames[n][s]
          <6>1. f \in Frame
            <7>1. s \in Slots
              BY Zenon, <5>1
            <7>2. m_freeFrames \in [Node -> [Slots -> Frame]]
              BY Zenon DEF TypeOK
            <7>3. QED
              BY Zenon, <7>1, <7>2
          <6>2. f.msg_start \in Nat /\ f.msg_count \in Nat
            BY Zenon, <6>1 DEF Frame
          <6>3. M[s] = MsgsIn(f)
            BY Zenon
          <6> HIDE DEF f, M
          <6>4. f.msg_start + f.msg_count \in Nat /\ M[s] \in SUBSET (1 .. f.msg_start + f.msg_count)
            BY <6>2, <6>3 DEF MsgsIn
          <6>5. QED
            BY Zenon, <6>4
        <5>3. Cardinality(Pairs(H, M)) \in Nat
          <6> HIDE DEF H, M
          <6>1. QED
            BY Zenon, <5>1, <5>2 DEF Counting, PairsCounted
        <5>4. Pairs(H, M) = UNION {{s} \X MsgsIn(m_freeFrames[n][s]) : s \in FramesOf(n, S, t)}
          BY Zenon DEF Pairs
        <5>5. QED
          BY Zenon, <5>3, <5>4
      <4>2. m_nMessagesRx[t] \in Nat
        BY Zenon DEF TypeOK
      <4> HIDE DEF c
      <4>3. m_nMessagesRx[t] + c \in Nat
        BY <4>1, <4>2
      <4>4. QED
        BY Zenon, <4>3 DEF c
    <3>2. QED
      BY <3>1, Zenon DEF ReleaseFrames
  <2>4. ack' \in [Transaction -> SUBSET Nat]
    <3>1. ASSUME NEW s \in Slots PROVE MsgsIn(m_freeFrames[n][s]) \subseteq Nat
      BY DEF TypeOK, Frame, MsgsIn
    <3>2. ASSUME NEW t \in Transaction
          PROVE  ack[t] \cup UNION {MsgsIn(m_freeFrames[n][s]) : s \in FramesOf(n, S, t)}
                   \in SUBSET Nat
      BY <3>1 DEF TypeOK, FramesOf
    <3>3. QED
      BY <3>2, Zenon DEF ReleaseFrames
  <2>5. released' \in [Node -> SUBSET Nat]
    <3> DEFINE R == {m_freeFrames[n][s].seq : s \in {x \in S : m_freeFrames[n][x].msg_count > 0}}
    <3>1. R \subseteq Nat
      BY DEF TypeOK, Frame
    <3>2. released' = [released EXCEPT ![n] = @ \cup R]
      BY Zenon DEF ReleaseFrames
    <3> HIDE DEF R
    <3>3. QED
      BY Zenon, <3>1, <3>2 DEF TypeOK
  <2>6. QED
    BY Zenon, <2>2, <2>3, <2>4, <2>5
\* The DatagramSocket thread keeps the types: ProcessFrame.
<1>ProcessFrameType.
  ASSUME Counting, TypeInv, NEW n \in Node, ProcessFrame(n) PROVE TypeInv'
  <2> USE <1>ProcessFrameType
  <2>1. PICK p \in net : /\ net' = net \ {p}
                         /\ ProcessDup(n, p) \/ ProcessNew(n, p)
    BY Zenon DEF ProcessFrame
  <2>2. p \in Packet
    BY Zenon DEF TypeInv, TypeOK
  <2>3. p.seq \in Nat /\ Slot(p.seq) \in Slots /\ Wire(p.seq) \in Nat
    BY Zenon, <2>2, SlotInRing, WireType DEF Packet
  <2>a. Append(m_acks[n], Wire(p.seq)) \in Seq(Nat)
    <3>1. m_acks[n] \in Seq(Nat)
      BY Zenon DEF TypeInv, TypeOK
    <3>2. QED
      BY <2>3, <3>1
  <2>4. CASE ProcessDup(n, p)
    <3>1. m_acks' \in [Node -> Seq(Nat)]
      BY Zenon, <2>4, <2>a DEF ProcessDup, TypeInv, TypeOK
    <3>2. aborted' \in [Node -> {"no", "window", "dup", "inplay"}]
      BY Zenon, <2>4 DEF ProcessDup, TypeInv, TypeOK
    <3>3. QED
      BY Zenon, <2>1, <2>4, <3>1, <3>2
      DEF ProcessFrame, ProcessDup, TypeInv, TypeOK, InPlayCounted, PostInRange
  <2>5. CASE ProcessNew(n, p)
    <3>1. /\ m_freeFrames' \in [Node -> [Slots -> Frame]]
          /\ m_nMessagesRx' \in [Transaction -> Nat]
          /\ ack' \in [Transaction -> SUBSET Nat]
          /\ released' \in [Node -> SUBSET Nat]
      <4>1. Acked(n, p) \subseteq Slots
        BY Zenon DEF Acked
      <4>2. QED
        BY Zenon, <2>5, <4>1, <1>ReleaseFramesType DEF ProcessNew, TypeInv
    <3>2. m_frameSeqRecord' \in [Node -> [Slots -> [id : Nat, acked : BOOLEAN]]]
      BY Zenon, <2>3, <2>5 DEF ProcessNew, TypeInv, TypeOK
    <3>3. /\ m_acks' \in [Node -> Seq(Nat)]
          /\ rx' \in [Node -> [k : TransNo, next : Nat, last : Nat]]
          /\ received' \in [Node -> SUBSET Nat]
      <4>1. CASE p.msg_count = 0
        BY Zenon, <2>5, <4>1 DEF ProcessNew, TypeInv, TypeOK
      <4>2. CASE p.msg_count # 0
        <5>1. p.iov \in TransNo /\ p.first \in Nat /\ p.first + p.msg_count - 1 \in Nat
          BY <2>2, <4>2 DEF Packet
        <5> DEFINE m == [k |-> p.iov, next |-> p.first, last |-> p.first + p.msg_count - 1]
        <5>a. m \in [k : TransNo, next : Nat, last : Nat]
          BY <5>1, Zenon
        <5>b. /\ rx' = [rx EXCEPT ![n] = m]
              /\ m_acks' = [m_acks EXCEPT ![n] = Append(@, Wire(p.seq))]
              /\ received' = [received EXCEPT ![n] = @ \cup {p.seq}]
          BY Zenon, <2>5, <4>2 DEF ProcessNew
        <5> HIDE DEF m
        <5>2. rx' \in [Node -> [k : TransNo, next : Nat, last : Nat]]
          BY Zenon, <5>a, <5>b DEF TypeInv, TypeOK
        <5>3. m_acks' \in [Node -> Seq(Nat)] /\ received' \in [Node -> SUBSET Nat]
          BY Zenon, <2>3, <2>a, <5>b DEF TypeInv, TypeOK
        <5>4. QED
          BY Zenon, <5>2, <5>3
      <4>3. QED
        BY Zenon, <4>1, <4>2
    <3>4. QED
      BY Zenon, <2>1, <2>5, <3>1, <3>2, <3>3
      DEF ProcessFrame, ProcessNew, TypeInv, TypeOK, InPlayCounted, PostInRange
  <2>6. QED
    BY Zenon, <2>1, <2>4, <2>5
\* The DatagramSocket thread keeps the types: ProcessMsg.
<1>ProcessMsgType.
  ASSUME TypeInv, NEW n \in Node, ProcessMsg(n) PROVE TypeInv'
  <2> USE <1>ProcessMsgType
  <2> DEFINE t == <<Peer[n], rx[n].k>>
             i == rx[n].next
             rec == m_msgTransactionRecord[n][0]
             num == NumMsgs(t)
             opened == ~ rec.in_use
             inPlay == IF opened THEN m_frames_in_play[n] + 1 ELSE m_frames_in_play[n]
             before == IF opened THEN 0 ELSE rec.msgsProcessed
             after == IF num # 0 THEN before + 1 ELSE before
             closes == Closes(after, num)
  <2>1. rx[n].k \in TransNo /\ i \in Nat /\ 0 \in 0 .. History - 1
    BY SizeAssumption DEF TypeInv, TypeOK
  <2>2. RecordIndex(rx[n].k) = 0
    BY Zenon, <2>1, RecordIsZero
  <2>3. rec \in [in_use : BOOLEAN, msgsProcessed : Nat]
    <3>1. m_msgTransactionRecord[n] \in
            [0 .. History - 1 -> [in_use : BOOLEAN, msgsProcessed : Nat]]
      BY Zenon DEF TypeInv, TypeOK
    <3>2. QED
      BY Zenon, <2>1, <3>1
  <2>4. after \in Nat /\ closes \in BOOLEAN
    BY <2>3 DEF Closes
  <2>5. inPlay \in Nat /\ inPlay > 0
    BY <2>3 DEF TypeInv, TypeOK, InPlayCounted
  <2>6. CASE opened /\ inPlay >= History
    <3>1. /\ aborted' = [aborted EXCEPT ![n] = "inplay"]
          /\ UNCHANGED <<m_msgTransactionRecord, m_frames_in_play, rx, copied, flag>>
      BY Zenon, <2>2, <2>6 DEF ProcessMsg
    <3>2. QED
      BY Zenon, <3>1 DEF ProcessMsg, TypeInv, TypeOK, InPlayCounted, PostInRange
  <2>7. CASE ~(opened /\ inPlay >= History)
    <3>1. /\ m_msgTransactionRecord' = [m_msgTransactionRecord EXCEPT ![n][0] =
               [in_use |-> ~ closes, msgsProcessed |-> after]]
          /\ m_frames_in_play' = [m_frames_in_play EXCEPT ![n] =
               IF closes THEN inPlay - 1 ELSE inPlay]
          /\ copied' = [copied EXCEPT ![<<t, i>>] = IF num # 0 THEN @ + 1 ELSE @]
          /\ flag' = [flag EXCEPT ![t] = @ \/ closes]
          /\ rx' = [rx EXCEPT ![n] = IF i = @.last THEN NoMsg ELSE [@ EXCEPT !.next = i + 1]]
          /\ UNCHANGED aborted
      BY Zenon, <2>2, <2>7 DEF ProcessMsg
    <3>2. [in_use |-> ~ closes, msgsProcessed |-> after] \in [in_use : BOOLEAN, msgsProcessed : Nat]
      BY <2>4, Zenon
    <3>3. (IF closes THEN inPlay - 1 ELSE inPlay) \in Nat
      BY <2>5
    <3>4. (IF i = rx[n].last THEN NoMsg ELSE [rx[n] EXCEPT !.next = i + 1])
            \in [k : TransNo, next : Nat, last : Nat]
      <4>1. i + 1 \in Nat /\ rx[n] \in [k : TransNo, next : Nat, last : Nat]
        BY <2>1 DEF TypeInv, TypeOK
      <4>2. [rx[n] EXCEPT !.next = i + 1] \in [k : TransNo, next : Nat, last : Nat]
        BY <4>1, Zenon
      <4>3. NoMsg \in [k : TransNo, next : Nat, last : Nat]
        BY SizeAssumption DEF NoMsg, TransNo
      <4>4. QED
        BY Zenon, <4>2, <4>3
    <3>5. m_msgTransactionRecord' \in
            [Node -> [0 .. History - 1 -> [in_use : BOOLEAN, msgsProcessed : Nat]]]
      <4> HIDE DEF closes, after
      <4> QED BY Zenon, <2>1, <3>1, <3>2 DEF TypeInv, TypeOK
    <3>6. m_frames_in_play' \in [Node -> Nat]
      <4> HIDE DEF closes, inPlay
      <4> QED BY Zenon, <3>1, <3>3 DEF TypeInv, TypeOK
    <3>7. copied' \in [Message -> Nat] /\ flag' \in [Transaction -> BOOLEAN]
      <4>1. copied \in [Message -> Nat] /\ flag \in [Transaction -> BOOLEAN]
        BY Zenon DEF TypeInv, TypeOK
      <4> DEFINE m == <<t, i>>
                 c == IF num # 0 THEN copied[m] + 1 ELSE copied[m]
      <4>2. m \in Message => c \in Nat
        <5> HIDE DEF m, num
        <5> QED BY <4>1
      <4>3. copied' = [copied EXCEPT ![m] = c]
        BY Zenon, <3>1
      <4>4. copied' \in [Message -> Nat]
        <5> HIDE DEF m, c
        <5> QED BY Zenon, <4>1, <4>2, <4>3
      <4>5. flag' \in [Transaction -> BOOLEAN]
        <5>1. flag' = [flag EXCEPT ![t] = @ \/ closes]
          BY Zenon, <3>1
        <5> HIDE DEF t, closes
        <5>2. QED
          BY <2>4, <4>1, <5>1, Zenon
      <4>6. QED
        BY Zenon, <4>4, <4>5
    <3>8. rx' \in [Node -> [k : TransNo, next : Nat, last : Nat]]
      BY Zenon, <3>1, <3>4 DEF TypeInv, TypeOK
    <3>9. InPlayCounted'
      <4> HIDE DEF closes, inPlay, after
      <4>1. /\ m_msgTransactionRecord'[n][0].in_use = ~ closes
            /\ m_frames_in_play'[n] = IF closes THEN inPlay - 1 ELSE inPlay
            /\ \A m \in Node \ {n} :
                 /\ m_msgTransactionRecord'[m] = m_msgTransactionRecord[m]
                 /\ m_frames_in_play'[m] = m_frames_in_play[m]
        BY Zenon, <2>1, <3>1 DEF TypeInv, TypeOK
      <4>2. QED
        BY Zenon, <2>5, <4>1 DEF TypeInv, InPlayCounted
    <3>10. QED
      BY Zenon, <3>1, <3>5, <3>6, <3>7, <3>8, <3>9 DEF ProcessMsg, TypeInv, TypeOK, PostInRange
  <2>8. QED
    BY Zenon, <2>6, <2>7
\* The network keeps the types: Lose, Duplicate.
<1>NetworkType.
  ASSUME TypeInv, Lose \/ Duplicate PROVE TypeInv'
  <2> USE <1>NetworkType
  <2>1. CASE Lose
    BY <2>1 DEF Lose, TypeInv, TypeOK, InPlayCounted, PostInRange
  <2>2. CASE Duplicate
    <3>1. PICK p \in net : net' = net \cup {[p EXCEPT !.dup = dups + 1]}
      BY Zenon, <2>2 DEF Duplicate
    <3>2. p \in Packet /\ dups + 1 \in Nat
      BY DEF TypeInv, TypeOK
    <3>3. [p EXCEPT !.dup = dups + 1] \in Packet
      BY <3>2, Zenon DEF Packet
    <3>4. QED
      BY Zenon, <2>2, <3>1, <3>2, <3>3 DEF Duplicate, TypeInv, TypeOK, InPlayCounted, PostInRange
  <2>3. QED
    BY Zenon, <2>1, <2>2
<1> SUFFICES ASSUME TypeInv, [Next]_vars PROVE TypeInv'
  BY Zenon
<1>1. ASSUME NEW n \in Node, NodeStep(n) PROVE TypeInv'
  BY Zenon, <1>1, <1>StartPostType, <1>GetFrameType, <1>FillFrameType, <1>PostFrameType, <1>CheckAcksType,
     <1>SendAcksType, <1>ProcessFrameType, <1>ProcessMsgType DEF NodeStep, AppStep
<1>2. CASE Lose \/ Duplicate
  BY Zenon, <1>2, <1>NetworkType
<1>3. CASE UNCHANGED vars
  BY Zenon, <1>3 DEF vars, TypeInv, TypeOK, InPlayCounted, PostInRange, msgCount
<1>4. QED
  BY Zenon, <1>1, <1>2, <1>3 DEF Next

-----------------------------------------------------------------------------
(***************************************************************************)
(* Acknowledgements (AckInv).                                              *)
(***************************************************************************)

\* NumberUsed after a step.
UsedNext(n, f) == f \in Nat \ {0} /\ f < m_frameSeq'[n] /\ f < MaxSeq

\* r is the queue q with the element e added at index c.
GrownBy(q, r, e, c) ==
  /\ \A i \in DOMAIN r : i \in DOMAIN q \/ i = c
  /\ \A i \in DOMAIN q : r[i] = q[i]
  /\ r[c] = e

\* The initial state satisfies the inductive invariant.
LEMMA InitAck == Init => AckInv
<1> SUFFICES ASSUME Init PROVE AckInv
  BY Zenon
<1>1. /\ net = {}
      /\ \A n \in Node : /\ m_acks[n] = <<>> /\ received[n] = {} /\ released[n] = {}
                         /\ aborted[n] = "no" /\ app[n].phase = "idle"
      /\ \A n \in Node : \A s \in Slots : m_freeFrames[n][s].is_free
                                          /\ m_frameSeqRecord[n][s].id = 0
  BY Zenon DEF Init, FreeFrame
<1>2. \A n \in Node : Peer[n] \in Node
  BY Zenon, NodeAssumption
<1>3. AcksDistinct
  BY <1>1 DEF AcksDistinct
<1>4. NumbersUsed /\ OneCopy /\ AckRanges /\ RecordKnown /\ AckOnly
  BY Zenon, <1>1, <1>2 DEF NumbersUsed, OneCopy, AckRanges, RecordKnown, AckOnly
<1>5. PostHolds /\ ReleasedWasReceived /\ NoDupAbort
  BY Zenon, <1>1, <1>2 DEF PostHolds, HeldByPost, ReleasedWasReceived, NoDupAbort
<1>6. QED
  BY Zenon, <1>3, <1>4, <1>5 DEF AckInv

\* Every step of Next keeps the inductive invariant, one case for each action.
LEMMA AckStep == ASSUME ConservativeTiming PROVE TypeInv /\ AckInv /\ [Next]_vars => AckInv'
\* From a queue without duplicates getFrame takes the first number, or the
\* first two when they follow each other; the header names no other number.
<1>QueueTaken.
  ASSUME NEW q \in Seq(Nat), q # <<>>,
         \A i, j \in DOMAIN q : q[i] = q[j] => i = j
  PROVE  /\ AckCount(q) \in 1 .. Len(q)
         /\ \A w \in q[1] .. q[1] + AckCount(q) - 1 : \E i \in DOMAIN q : q[i] = w
  <2> USE <1>QueueTaken
  <2>1. 1 \in 1 .. Len(q) /\ Len(q) \in Nat /\ DOMAIN q = 1 .. Len(q)
    OBVIOUS
  <2>2. CASE Len(q) < 2 \/ q[2] # q[1] + 1
    <3>1. AckCount(q) = 1
      BY Zenon, <2>2 DEF AckCount
    <3>2. q[1] \in Nat /\ 1 \in DOMAIN q
      BY <2>1
    <3>3. QED
      BY <2>1, <3>1, <3>2
  <2>3. CASE ~ (Len(q) < 2 \/ q[2] # q[1] + 1)
    <3> DEFINE Stop(i) == /\ i + 2 > Len(q) \/ q[i + 2] # q[1] + 1
                          /\ \A j \in 2 .. i - 1 : j + 2 <= Len(q) /\ q[j + 2] = q[1] + 1
    <3>1. ~ (4 <= Len(q) /\ q[4] = q[1] + 1)
      BY <2>1, <2>3
    <3>2. Stop(2)
      BY <2>1, <2>3, <3>1
    <3>3. ASSUME NEW i \in 2 .. Len(q), Stop(i) PROVE i = 2
      <4>1. CASE i > 2
        <5>1. 2 \in 2 .. i - 1
          BY <4>1
        <5>2. 2 + 2 <= Len(q) /\ q[2 + 2] = q[1] + 1
          BY Zenon, <3>3, <5>1
        <5>3. QED
          BY <3>1, <5>2
      <4>2. QED
        BY <4>1
    <3>4. AckCount(q) = CHOOSE i \in 2 .. Len(q) : Stop(i)
      BY Zenon, <2>3 DEF AckCount
    <3>5. 2 \in 2 .. Len(q)
      BY <2>1, <2>3
    <3> HIDE DEF Stop
    <3>6. AckCount(q) = 2
      BY Zenon, <3>2, <3>3, <3>4, <3>5
    <3>7. q[1] \in Nat /\ 1 \in DOMAIN q /\ 2 \in DOMAIN q
      BY <2>1, <3>5
    <3>8. QED
      BY <2>1, <2>3, <3>6, <3>7
  <2>4. QED
    BY Zenon, <2>2, <2>3
\* What getFrame leaves in the queue is its tail.
<1>QueueLeft.
  ASSUME TypeInv, AcksDistinct, NEW n \in Node
  PROVE  \E d \in Nat : \A i \in DOMAIN AcksLeft(n) :
           i + d \in DOMAIN m_acks[n] /\ AcksLeft(n)[i] = m_acks[n][i + d]
  <2> USE <1>QueueLeft
  <2> DEFINE q == m_acks[n]
  <2>1. q \in Seq(Nat)
    BY Zenon DEF TypeInv, TypeOK
  <2>2. CASE q = <<>>
    <3>1. AcksLeft(n) = <<>>
      BY Zenon, <2>2 DEF AcksLeft
    <3>2. \A i \in DOMAIN AcksLeft(n) : FALSE
      BY <3>1
    <3>3. 0 \in Nat
      BY Zenon
    <3>4. QED
      BY <3>2, <3>3, Zenon
  <2>3. CASE q # <<>>
    <3>1. AckCount(q) \in 1 .. Len(q) /\ Len(q) \in Nat
      <4>1. \A i, j \in DOMAIN q : q[i] = q[j] => i = j
        BY Zenon DEF AcksDistinct
      <4> HIDE DEF q
      <4>2. QED
        BY <2>1, <2>3, <4>1, <1>QueueTaken
    <3>2. AcksLeft(n) = SubSeq(q, AckCount(q) + 1, Len(q))
      BY Zenon, <2>3 DEF AcksLeft
    <3> HIDE DEF q
    <3>3. ASSUME NEW c \in 1 .. Len(q), NEW i \in DOMAIN SubSeq(q, c + 1, Len(q))
          PROVE  i + c \in DOMAIN q /\ SubSeq(q, c + 1, Len(q))[i] = q[i + c]
      <4>1. c \in Nat /\ c + 1 \in 1 .. Len(q) + 1 /\ Len(q) \in Nat
        BY <3>1
      <4>2. DOMAIN SubSeq(q, c + 1, Len(q)) = 1 .. Len(q) - c
        BY <2>1, <4>1
      <4>3. i \in 1 .. Len(q) - c
        BY Zenon, <4>2
      <4>4. i + c \in DOMAIN q
        BY <2>1, <4>1, <4>3
      <4>5. SubSeq(q, c + 1, Len(q))[i] = q[i + c]
        BY <2>1, <4>1, <4>3
      <4>6. QED
        BY Zenon, <4>4, <4>5
    <3>4. AckCount(q) \in Nat
      BY <3>1
    <3>5. \A i \in DOMAIN AcksLeft(n) :
            i + AckCount(q) \in DOMAIN q /\ AcksLeft(n)[i] = q[i + AckCount(q)]
      BY Zenon, <3>1, <3>2, <3>3
    <3>6. QED
      BY Zenon, <3>4, <3>5 DEF q
  <2>4. QED
    BY Zenon, <2>2, <2>3
\* The header of the next frame acknowledges received frames only.
<1>NewFrameRange.
  ASSUME TypeInv, AcksDistinct, NEW n \in Node, NEW f \in Nat
  PROVE  AckRange(NewFrame(n, f)) \subseteq received[n]
  <2> USE <1>NewFrameRange
  <2> DEFINE q == m_acks[n]
  <2>1. q \in Seq(Nat)
    BY Zenon DEF TypeInv, TypeOK
  <2>2. CASE q = <<>>
    <3>1. NewFrame(n, f).ACKStart = 0 /\ NewFrame(n, f).ACKCount = 0
      BY Zenon, <2>2 DEF NewFrame, FreeFrame
    <3>2. QED
      BY <3>1 DEF AckRange
  <2>3. CASE q # <<>>
    <3>1. NewFrame(n, f).ACKStart = q[1] /\ NewFrame(n, f).ACKCount = AckCount(q)
      BY Zenon, <2>3 DEF NewFrame, FreeFrame
    <3>2. \A i, j \in DOMAIN q : q[i] = q[j] => i = j
      BY Zenon DEF AcksDistinct
    <3>3. \A i \in DOMAIN q : q[i] \in received[n]
      BY Zenon DEF AcksDistinct
    <3> HIDE DEF q
    <3>4. \A w \in q[1] .. q[1] + AckCount(q) - 1 : \E i \in DOMAIN q : q[i] = w
      BY Zenon, <2>1, <2>3, <3>2, <1>QueueTaken
    <3>5. QED
      BY <3>1, <3>3, <3>4 DEF AckRange
  <2>4. QED
    BY Zenon, <2>2, <2>3
\* nextFreeFrame and the piggybacking of acknowledgements, which GetFrame and
\* SendAcks share, leave m_acks distinct.
<1>ClaimQueue.
  ASSUME TypeInv, AcksDistinct, NEW n \in Node,
         m_acks' = [m_acks EXCEPT ![n] = AcksLeft(n)], received' = received
  PROVE  /\ AcksDistinct'
         /\ \A o \in Node : \A i \in DOMAIN m_acks'[o] :
              \E j \in DOMAIN m_acks[o] : m_acks[o][j] = m_acks'[o][i]
  <2> USE <1>ClaimQueue
  <2>1. m_acks \in [Node -> Seq(Nat)]
    BY Zenon DEF TypeInv, TypeOK
  <2>2. m_acks'[n] = AcksLeft(n) /\ \A o \in Node \ {n} : m_acks'[o] = m_acks[o]
    BY Zenon, <2>1
  <2>3. PICK d \in Nat : \A i \in DOMAIN AcksLeft(n) :
          i + d \in DOMAIN m_acks[n] /\ AcksLeft(n)[i] = m_acks[n][i + d]
    BY Zenon, <1>QueueLeft
  <2>4. \A o \in Node : \A i \in DOMAIN m_acks'[o] :
          \E j \in DOMAIN m_acks[o] : m_acks[o][j] = m_acks'[o][i]
    BY <2>2, <2>3
  <2>5. ASSUME NEW i \in DOMAIN AcksLeft(n), NEW j \in DOMAIN AcksLeft(n),
               AcksLeft(n)[i] = AcksLeft(n)[j]
        PROVE  i = j
    <3>1. m_acks[n] \in Seq(Nat) /\ AcksLeft(n) \in {<<>>, SubSeq(m_acks[n], AckCount(m_acks[n]) + 1, Len(m_acks[n]))}
      BY Zenon, <2>1 DEF AcksLeft
    <3>2. i \in Nat /\ j \in Nat
      BY <3>1
    <3>3. i + d = j + d
      BY Zenon, <2>3, <2>5 DEF AcksDistinct
    <3>4. QED
      BY <3>2, <3>3
  <2>6. QED
    BY <2>2, <2>4, <2>5 DEF AcksDistinct
\* Numbers in use stay in use.
<1>NumberKept.
  ASSUME TypeInv, NEW n \in Node, m_frameSeq' = [m_frameSeq EXCEPT ![n] = m_frameSeq[n] + 1],
         NEW o \in Node, NEW f, NumberUsed(o, f)
  PROVE  UsedNext(o, f)
  BY <1>NumberKept DEF TypeInv, TypeOK, NumberUsed, UsedNext
\* Before the number wraps, the header holds the number itself.
<1>HeaderIsNumber.
  ASSUME ConservativeTiming, NEW n, NEW f, NumberUsed(n, f)
  PROVE  Wire(f) = f
  <2> USE <1>HeaderIsNumber
  <2>1. f \in Nat /\ f < SeqMod
    BY SizeAssumption DEF NumberUsed, ConservativeTiming
  <2>2. QED
    BY <2>1, SizeAssumption DEF Wire
\* The types of what the steps below read: datagrams, frames, peers.
<1>AckTypes.
  ASSUME TypeInv
  PROVE  /\ \A n \in Node : /\ Peer[n] \in Node /\ Peer[Peer[n]] = n /\ Peer[n] # n
                            /\ m_frameSeq[n] \in Nat \ {0}
                            /\ m_acks[n] \in Seq(Nat)
                            /\ app[n] \in AppState /\ app[n].slot \in Slots
         /\ \A n \in Node : \A s \in Slots : m_freeFrames[n][s] \in Frame
         /\ \A p \in net : /\ p \in Packet /\ p.src \in Node /\ p.seq \in Nat
                           /\ Slot(p.seq) \in Slots /\ p.msg_count \in Nat
  <2> USE <1>AckTypes
  <2>1. \A p \in net : p \in Packet
    BY Zenon DEF TypeInv, TypeOK
  <2>2. \A p \in net : p.src \in Node /\ p.seq \in Nat /\ p.msg_count \in Nat
    BY Zenon, <2>1 DEF Packet
  <2>3. \A p \in net : Slot(p.seq) \in Slots
    BY Zenon, <2>2, SlotInRing
  <2>4. \A n \in Node : m_freeFrames[n] \in [Slots -> Frame] /\ app[n] \in AppState
    BY Zenon DEF TypeInv, TypeOK
  <2>5. \A n \in Node : app[n].slot \in Slots
    BY Zenon, <2>4 DEF AppState
  <2>6. \A n \in Node : m_frameSeq[n] \in Nat \ {0} /\ m_acks[n] \in Seq(Nat)
    BY Zenon DEF TypeInv, TypeOK
  <2>7. \A n \in Node : Peer[n] \in Node /\ Peer[Peer[n]] = n /\ Peer[n] # n
    BY Zenon, NodeAssumption
  <2>8. \A n \in Node : \A s \in Slots : m_freeFrames[n][s] \in Frame
    BY Zenon, <2>4
  <2>9. QED
    BY Zenon, <2>1, <2>2, <2>3, <2>4, <2>5, <2>6, <2>7, <2>8
\* GetFrame: the frame has a fresh number, and nothing of it was sent.
<1>GetFrameAck.
  ASSUME TypeInv, AckInv, NEW n \in Node, GetFrame(n), ~ WindowAbort(n)
  PROVE  AckInv'
  <2> USE <1>GetFrameAck
  <2> DEFINE f == m_frameSeq[n]
             q == Slot(f)
             g == [NewFrame(n, f) EXCEPT !.transaction = app[n].k, !.msg_start = app[n].msg]
  <2>1. /\ m_frameSeq' = [m_frameSeq EXCEPT ![n] = f + 1]
        /\ m_freeFrames' = [m_freeFrames EXCEPT ![n][q] = g]
        /\ m_acks' = [m_acks EXCEPT ![n] = AcksLeft(n)]
        /\ app' = [app EXCEPT ![n] = [app[n] EXCEPT !.phase = "got", !.slot = q]]
        /\ net' = Alive(n, f)
        /\ UNCHANGED <<m_frameSeqRecord, received, released, aborted>>
        /\ app[n].phase = "loop" /\ f < MaxSeq /\ m_freeFrames[n][q].is_free
    BY Zenon DEF GetFrame
  <2>2. /\ f \in Nat \ {0} /\ q \in Slots /\ app \in [Node -> AppState]
        /\ m_freeFrames \in [Node -> [Slots -> Frame]]
        /\ m_frameSeq \in [Node -> Nat \ {0}]
    BY Zenon, SlotInRing DEF TypeInv, TypeOK
  <2>3. net' \subseteq net
    BY Zenon, <2>1 DEF Alive
  <2>4. /\ g.is_free = FALSE /\ g.seq = f /\ g.send_time = "stale"
        /\ AckRange(g) = AckRange(NewFrame(n, f))
    BY Zenon DEF NewFrame, FreeFrame, AckRange
  <2>5. AckRange(g) \subseteq received[n]
    BY Zenon, <2>2, <2>4, <1>NewFrameRange DEF AckInv
  <2> HIDE DEF g
  <2>6. /\ m_freeFrames'[n][q] = g
        /\ \A o \in Node : \A s \in Slots : ~ (o = n /\ s = q) =>
             m_freeFrames'[o][s] = m_freeFrames[o][s]
    BY Zenon, <2>1, <2>2
  <2>7. /\ app'[n].phase = "got" /\ app'[n].slot = q
        /\ \A o \in Node \ {n} : app'[o] = app[o]
    BY Zenon, <2>1, <2>2 DEF AppState
  <2>8. \A o \in Node : \A x : NumberUsed(o, x) => UsedNext(o, x)
    BY Zenon, <2>1, <1>NumberKept
  <2>9. UsedNext(n, f) /\ ~ NumberUsed(n, f)
    BY <2>1, <2>2 DEF NumberUsed, UsedNext
  <2>10. Slot(f) = q
    BY Zenon
  <2> HIDE DEF f, q
  <2>11. NumbersUsed'
    <3>1. \A p \in net : p.src \in Node
      BY Zenon, <1>AckTypes
    <3>2. \A o \in Node : Peer[o] \in Node
      BY Zenon, <1>AckTypes
    <3>3. \A p \in net' : UsedNext(p.src, p.seq)
      BY Zenon, <2>3, <2>8, <3>1 DEF AckInv, NumbersUsed
    <3>4. \A o \in Node : \A x \in received'[o] : UsedNext(Peer[o], x)
      BY Zenon, <2>1, <2>8, <3>2 DEF AckInv, NumbersUsed
    <3>5. \A o \in Node : \A s \in Slots : ~ m_freeFrames'[o][s].is_free =>
            UsedNext(o, m_freeFrames'[o][s].seq) /\ Slot(m_freeFrames'[o][s].seq) = s
      <4>1. NumbersUsed
        BY Zenon DEF AckInv
      <4>2. SUFFICES ASSUME NEW o \in Node, NEW s \in Slots, ~ m_freeFrames'[o][s].is_free
                     PROVE  /\ UsedNext(o, m_freeFrames'[o][s].seq)
                            /\ Slot(m_freeFrames'[o][s].seq) = s
        BY Zenon
      <4>3. CASE o = n /\ s = q
        BY Zenon, <4>3, <2>4, <2>6, <2>9, <2>10
      <4>4. CASE ~ (o = n /\ s = q)
        BY Zenon, <4>1, <4>2, <4>4, <2>6, <2>8 DEF NumbersUsed
      <4>5. QED
        BY Zenon, <4>3, <4>4
    <3>6. \A o \in Node : \A s \in Slots : m_frameSeqRecord'[o][s].id # 0 =>
            UsedNext(Peer[o], m_frameSeqRecord'[o][s].id) /\ Slot(m_frameSeqRecord'[o][s].id) = s
      BY Zenon, <2>1, <2>8, <3>2 DEF AckInv, NumbersUsed
    <3>7. QED
      BY Zenon, <3>3, <3>4, <3>5, <3>6 DEF NumbersUsed, NumberUsed, UsedNext, Slot
  <2>12. AcksDistinct' /\ \A o \in Node : \A i \in DOMAIN m_acks'[o] :
                            \E j \in DOMAIN m_acks[o] : m_acks[o][j] = m_acks'[o][i]
    BY Zenon, <2>1, <1>ClaimQueue DEF AckInv
  <2>13. OneCopy'
    <3>1. \A p \in net : Peer[p.src] \in Node
      BY Zenon, <1>AckTypes
    <3>2. QED
      BY <2>3, <2>12, <3>1 DEF AckInv, OneCopy
  <2>14. AckRanges'
    BY <2>1, <2>3, <2>5, <2>6 DEF AckInv, AckRanges, AckRange
  <2>15. RecordKnown'
    <3>1. \A p \in net' : m_frameSeqRecord'[Peer[p.src]][Slot(p.seq)].id = p.seq =>
            p.seq \in received'[Peer[p.src]]
      BY Zenon, <2>1, <2>3 DEF AckInv, RecordKnown
    <3>2. m_frameSeqRecord[Peer[n]][q].id # f
      <4>1. NumbersUsed
        BY Zenon DEF AckInv
      <4>2. Peer[n] \in Node /\ Peer[Peer[n]] = n
        BY Zenon, <1>AckTypes
      <4>3. f # 0
        BY Zenon, <2>2
      <4>4. QED
        BY Zenon, <2>2, <2>9, <4>1, <4>2, <4>3 DEF NumbersUsed
    <3>3. \A o \in Node : \A s \in Slots :
            ~ m_freeFrames'[o][s].is_free /\ m_frameSeqRecord'[Peer[o]][s].id = m_freeFrames'[o][s].seq
            => m_freeFrames'[o][s].seq \in received'[Peer[o]]
      BY <2>1, <2>4, <2>6, <3>2 DEF AckInv, RecordKnown
    <3>4. \A o \in Node : \A s \in Slots :
            m_frameSeqRecord'[o][s].id \in received'[o] => m_frameSeqRecord'[o][s].acked
      BY Zenon, <2>1 DEF AckInv, RecordKnown
    <3>5. QED
      BY Zenon, <3>1, <3>3, <3>4 DEF RecordKnown, Slot
  <2>16. AckOnly'
    <3>1. \A p \in net : ~ (p.src = n /\ p.seq = f)
      BY Zenon, <2>9 DEF AckInv, NumbersUsed
    <3>2. \A p \in net : p.src \in Node
      BY Zenon, <1>AckTypes
    <3>3. QED
      BY <2>1, <2>3, <2>4, <2>6, <3>1, <3>2 DEF AckInv, AckOnly
  <2>17. PostHolds'
    <3>1. \A p \in net : ~ (p.src = n /\ p.seq = f)
      BY Zenon, <2>9 DEF AckInv, NumbersUsed
    <3>2. f \notin received[Peer[n]]
      BY Zenon, <2>9, <1>AckTypes DEF AckInv, NumbersUsed
    <3>3. QED
      BY <2>1, <2>3, <2>4, <2>6, <2>7, <3>1, <3>2 DEF AckInv, PostHolds, HeldByPost
  <2>18. ReleasedWasReceived' /\ NoDupAbort'
    BY Zenon, <2>1 DEF AckInv, ReleasedWasReceived, NoDupAbort
  <2>19. QED
    BY Zenon, <2>11, <2>12, <2>13, <2>14, <2>15, <2>16, <2>17, <2>18 DEF AckInv
\* A step that leaves the numbers and the acknowledgements of the ring alone
\* keeps what the invariant says about the ring and the records.
<1>RingKept.
  ASSUME AckInv, UNCHANGED <<m_frameSeq, m_frameSeqRecord, received>>,
         \A o \in Node : \A r \in Slots :
           /\ m_freeFrames'[o][r].is_free = m_freeFrames[o][r].is_free
           /\ m_freeFrames'[o][r].seq = m_freeFrames[o][r].seq
           /\ AckRange(m_freeFrames'[o][r]) = AckRange(m_freeFrames[o][r]),
         \A p \in net' : NumberUsed(p.src, p.seq),
         \A p \in net' : AckRange(p) \subseteq received[p.src],
         \A p \in net' : m_frameSeqRecord[Peer[p.src]][Slot(p.seq)].id = p.seq =>
                           p.seq \in received[Peer[p.src]]
  PROVE  NumbersUsed' /\ AckRanges' /\ RecordKnown'
  <2> USE <1>RingKept
  <2>1. /\ m_frameSeq' = m_frameSeq /\ m_frameSeqRecord' = m_frameSeqRecord
        /\ received' = received
    BY Zenon
  <2>2. ASSUME NEW o \in Node, NEW r \in Slots, ~ m_freeFrames'[o][r].is_free
        PROVE  /\ NumberUsed(o, m_freeFrames'[o][r].seq) /\ Slot(m_freeFrames'[o][r].seq) = r
               /\ AckRange(m_freeFrames'[o][r]) \subseteq received[o]
               /\ m_frameSeqRecord[Peer[o]][r].id = m_freeFrames'[o][r].seq =>
                    m_freeFrames'[o][r].seq \in received[Peer[o]]
    <3>1. /\ ~ m_freeFrames[o][r].is_free /\ m_freeFrames'[o][r].seq = m_freeFrames[o][r].seq
          /\ AckRange(m_freeFrames'[o][r]) = AckRange(m_freeFrames[o][r])
      BY Zenon, <2>2
    <3>2. NumberUsed(o, m_freeFrames[o][r].seq) /\ Slot(m_freeFrames[o][r].seq) = r
      BY Zenon, <3>1 DEF AckInv, NumbersUsed
    <3>3. AckRange(m_freeFrames[o][r]) \subseteq received[o]
      BY Zenon, <3>1 DEF AckInv, AckRanges
    <3>4. m_frameSeqRecord[Peer[o]][r].id = m_freeFrames[o][r].seq =>
            m_freeFrames[o][r].seq \in received[Peer[o]]
      BY Zenon, <3>1 DEF AckInv, RecordKnown
    <3>5. QED
      BY Zenon, <3>1, <3>2, <3>3, <3>4
  <2>3. NumbersUsed'
    <3>1. \A o \in Node : \A e \in received[o] : NumberUsed(Peer[o], e)
      BY Zenon DEF AckInv, NumbersUsed
    <3>2. \A o \in Node : \A r \in Slots : m_frameSeqRecord[o][r].id # 0 =>
            NumberUsed(Peer[o], m_frameSeqRecord[o][r].id) /\ Slot(m_frameSeqRecord[o][r].id) = r
      BY Zenon DEF AckInv, NumbersUsed
    <3>3. \A o \in Node : \A r \in Slots : ~ m_freeFrames'[o][r].is_free =>
            NumberUsed(o, m_freeFrames'[o][r].seq) /\ Slot(m_freeFrames'[o][r].seq) = r
      BY Zenon, <2>2
    <3>4. \A p \in net' : UsedNext(p.src, p.seq)
      BY Zenon, <2>1 DEF UsedNext, NumberUsed
    <3>5. \A o \in Node : \A e \in received'[o] : UsedNext(Peer[o], e)
      BY Zenon, <2>1, <3>1 DEF UsedNext, NumberUsed
    <3>6. \A o \in Node : \A r \in Slots : ~ m_freeFrames'[o][r].is_free =>
            UsedNext(o, m_freeFrames'[o][r].seq) /\ Slot(m_freeFrames'[o][r].seq) = r
      <4>1. \A o \in Node : \A e : NumberUsed(o, e) => UsedNext(o, e)
        BY Zenon, <2>1 DEF UsedNext, NumberUsed
      <4>2. QED
        BY Zenon, <3>3, <4>1
    <3>7. \A o \in Node : \A r \in Slots : m_frameSeqRecord'[o][r].id # 0 =>
            UsedNext(Peer[o], m_frameSeqRecord'[o][r].id) /\ Slot(m_frameSeqRecord'[o][r].id) = r
      <4> SUFFICES ASSUME NEW o \in Node, NEW r \in Slots, m_frameSeqRecord'[o][r].id # 0
                   PROVE  /\ UsedNext(Peer[o], m_frameSeqRecord'[o][r].id)
                          /\ Slot(m_frameSeqRecord'[o][r].id) = r
        BY Zenon
      <4>1. m_frameSeqRecord'[o][r] = m_frameSeqRecord[o][r]
        BY Zenon, <2>1
      <4>2. /\ NumberUsed(Peer[o], m_frameSeqRecord'[o][r].id)
            /\ Slot(m_frameSeqRecord'[o][r].id) = r
        BY Zenon, <3>2, <4>1
      <4>3. QED
        BY Zenon, <2>1, <4>2 DEF UsedNext, NumberUsed
    <3>8. QED
      BY Zenon, <3>4, <3>5, <3>6, <3>7 DEF NumbersUsed, NumberUsed, UsedNext, Slot
  <2>4. AckRanges'
    BY Zenon, <2>1, <2>2 DEF AckRanges, AckRange
  <2>5. RecordKnown'
    <3>1. \A o \in Node : \A r \in Slots :
            m_frameSeqRecord[o][r].id \in received[o] => m_frameSeqRecord[o][r].acked
      BY Zenon DEF AckInv, RecordKnown
    <3>2. QED
      BY Zenon, <2>1, <2>2, <3>1 DEF RecordKnown, Slot
  <2>6. QED
    BY Zenon, <2>3, <2>4, <2>5
\* FillFrame: the frame is the one that GetFrame claimed, and gets data.
<1>FillFrameAck.
  ASSUME TypeInv, AckInv, NEW n \in Node, FillFrame(n)
  PROVE  AckInv'
  <2> USE <1>FillFrameAck
  <2> DEFINE x == app[n].slot
             left == msgCount(<<n, app[n].k>>) - app[n].msg
             count == IF left < MsgsPerFrame THEN left ELSE MsgsPerFrame
             g == m_freeFrames'[n][x]
  <2>1. /\ m_freeFrames' = [m_freeFrames EXCEPT ![n][x] =
              [m_freeFrames[n][x] EXCEPT !.msg_count = count, !.iov = app[n].k,
                                         !.first = app[n].msg + 1]]
        /\ app' = [app EXCEPT ![n] = [app[n] EXCEPT !.phase = "filled", !.msg = app[n].msg + count]]
        /\ app[n].phase = "got"
        /\ UNCHANGED <<m_frameSeq, m_acks, m_frameSeqRecord, net, received, released, aborted>>
    BY Zenon DEF FillFrame
  <2>2. /\ app \in [Node -> AppState] /\ m_freeFrames \in [Node -> [Slots -> Frame]]
        /\ x \in Slots /\ app[n].msg \in Nat /\ m_freeFrames[n][x] \in Frame
    BY Zenon, <1>AckTypes DEF TypeInv, TypeOK, AppState
  <2>3. count > 0
    <3>1. app[n].k \in 1 .. Len(Msgs[n]) /\ app[n].msg < msgCount(<<n, app[n].k>>)
      BY Zenon, <2>1 DEF TypeInv, PostInRange
    <3>2. msgCount(<<n, app[n].k>>) \in Nat
      BY Zenon, <3>1, TransactionType
    <3>3. left \in Nat \ {0}
      BY <2>2, <3>1, <3>2
    <3> HIDE DEF left
    <3>4. QED
      BY <3>3, SizeAssumption
  <2> HIDE DEF count
  <2>4. /\ g = [m_freeFrames[n][x] EXCEPT !.msg_count = count, !.iov = app[n].k,
                                         !.first = app[n].msg + 1]
        /\ \A o \in Node : \A s \in Slots : ~ (o = n /\ s = x) =>
             m_freeFrames'[o][s] = m_freeFrames[o][s]
    BY Zenon, <2>1, <2>2
  <2>5. /\ g.is_free = m_freeFrames[n][x].is_free /\ g.seq = m_freeFrames[n][x].seq
        /\ g.ACKStart = m_freeFrames[n][x].ACKStart /\ g.ACKCount = m_freeFrames[n][x].ACKCount
        /\ g.send_time = m_freeFrames[n][x].send_time /\ g.msg_count = count
    BY Zenon, <2>2, <2>4 DEF Frame
  <2> HIDE DEF g
  <2>6. m_freeFrames'[n][x] = g
    BY Zenon DEF g
  <2>7. /\ app'[n].phase = "filled" /\ app'[n].slot = x
        /\ \A o \in Node \ {n} : app'[o] = app[o]
    BY Zenon, <2>1, <2>2 DEF AppState
  <2> HIDE DEF x
  <2>8. \A o \in Node : \A s \in Slots :
          /\ m_freeFrames'[o][s].is_free = m_freeFrames[o][s].is_free
          /\ m_freeFrames'[o][s].seq = m_freeFrames[o][s].seq
          /\ m_freeFrames'[o][s].send_time = m_freeFrames[o][s].send_time
          /\ AckRange(m_freeFrames'[o][s]) = AckRange(m_freeFrames[o][s])
          /\ HeldByPost(o, s)' <=> HeldByPost(o, s)
          /\ ~ HeldByPost(o, s) => m_freeFrames'[o][s] = m_freeFrames[o][s]
    <3> SUFFICES ASSUME NEW o \in Node, NEW s \in Slots
                 PROVE  /\ m_freeFrames'[o][s].is_free = m_freeFrames[o][s].is_free
                        /\ m_freeFrames'[o][s].seq = m_freeFrames[o][s].seq
                        /\ m_freeFrames'[o][s].send_time = m_freeFrames[o][s].send_time
                        /\ AckRange(m_freeFrames'[o][s]) = AckRange(m_freeFrames[o][s])
                        /\ HeldByPost(o, s)' <=> HeldByPost(o, s)
                        /\ ~ HeldByPost(o, s) => m_freeFrames'[o][s] = m_freeFrames[o][s]
      BY Zenon
    <3>1. HeldByPost(o, s)' <=> HeldByPost(o, s)
      <4>1. CASE o = n
        BY Zenon, <2>1, <2>7, <4>1 DEF HeldByPost, x
      <4>2. CASE o # n
        <5>1. app'[o] = app[o]
          BY Zenon, <2>7, <4>2
        <5>2. QED
          BY Zenon, <5>1 DEF HeldByPost
      <4>3. QED
        BY Zenon, <4>1, <4>2
    <3>2. CASE o = n /\ s = x
      <4>1. HeldByPost(o, s)
        BY Zenon, <2>1, <3>2 DEF HeldByPost, x
      <4>2. AckRange(m_freeFrames'[o][s]) = AckRange(m_freeFrames[o][s])
        BY Zenon, <2>5, <2>6, <3>2 DEF AckRange
      <4>3. QED
        BY Zenon, <2>5, <2>6, <3>1, <3>2, <4>1, <4>2
    <3>3. CASE ~ (o = n /\ s = x)
      <4>1. m_freeFrames'[o][s] = m_freeFrames[o][s]
        BY Zenon, <2>4, <3>3
      <4>2. QED
        BY Zenon, <3>1, <4>1
    <3>4. QED
      BY Zenon, <3>2, <3>3
  <2>9. NumbersUsed' /\ AckRanges' /\ RecordKnown'
    <3>1. /\ \A p \in net' : NumberUsed(p.src, p.seq)
          /\ \A p \in net' : AckRange(p) \subseteq received[p.src]
          /\ \A p \in net' : m_frameSeqRecord[Peer[p.src]][Slot(p.seq)].id = p.seq =>
                               p.seq \in received[Peer[p.src]]
      BY Zenon, <2>1 DEF AckInv, NumbersUsed, AckRanges, RecordKnown
    <3>2. QED
      BY Zenon, <2>1, <2>8, <3>1, <1>RingKept
  <2>10. OneCopy' /\ AcksDistinct'
    BY Zenon, <2>1 DEF AckInv, OneCopy, AcksDistinct
  <2>13. AckOnly'
    BY <2>1, <2>8, <1>AckTypes DEF AckInv, AckOnly
  <2>14. PostHolds'
    <3> SUFFICES ASSUME NEW o \in Node, NEW s \in Slots
                 PROVE  LET f == m_freeFrames'[o][s] IN
                        /\ HeldByPost(o, s)' =>
                             /\ ~ f.is_free /\ f.send_time = "stale"
                             /\ app'[o].phase = "filled" => f.msg_count > 0
                             /\ f.seq \notin received[Peer[o]]
                             /\ \A p \in net : ~ (p.src = o /\ p.seq = f.seq)
                        /\ ~ f.is_free /\ ~ HeldByPost(o, s)' => f.send_time = "set" /\ f.msg_count > 0
      <4>1. received' = received /\ net' = net
        BY Zenon, <2>1
      <4>2. QED
        BY Zenon, <4>1 DEF PostHolds
    <3>1. CASE o = n /\ s = x
      <4>1. HeldByPost(o, s) /\ HeldByPost(o, s)'
        BY Zenon, <2>1, <2>8, <3>1 DEF HeldByPost, x
      <4>2. /\ ~ m_freeFrames[n][x].is_free /\ m_freeFrames[n][x].send_time = "stale"
            /\ m_freeFrames[n][x].seq \notin received[Peer[n]]
            /\ \A p \in net : ~ (p.src = n /\ p.seq = m_freeFrames[n][x].seq)
        BY Zenon, <3>1, <4>1 DEF AckInv, PostHolds
      <4>3. QED
        BY Zenon, <2>3, <2>5, <2>6, <3>1, <4>1, <4>2
    <3>2. CASE ~ (o = n /\ s = x)
      <4>1. m_freeFrames'[o][s] = m_freeFrames[o][s]
        BY Zenon, <2>4, <3>2
      <4>2. HeldByPost(o, s) => app'[o].phase = app[o].phase
        BY Zenon, <2>7, <3>2 DEF HeldByPost, x
      <4>3. HeldByPost(o, s)' <=> HeldByPost(o, s)
        BY Zenon, <2>8
      <4>4. /\ HeldByPost(o, s) =>
                 /\ ~ m_freeFrames[o][s].is_free /\ m_freeFrames[o][s].send_time = "stale"
                 /\ app[o].phase = "filled" => m_freeFrames[o][s].msg_count > 0
                 /\ m_freeFrames[o][s].seq \notin received[Peer[o]]
                 /\ \A p \in net : ~ (p.src = o /\ p.seq = m_freeFrames[o][s].seq)
            /\ ~ m_freeFrames[o][s].is_free /\ ~ HeldByPost(o, s) =>
                 m_freeFrames[o][s].send_time = "set" /\ m_freeFrames[o][s].msg_count > 0
        BY Zenon DEF AckInv, PostHolds
      <4>5. QED
        BY Zenon, <4>1, <4>2, <4>3, <4>4
    <3>3. QED
      BY Zenon, <3>1, <3>2
  <2>15. ReleasedWasReceived' /\ NoDupAbort'
    BY Zenon, <2>1 DEF AckInv, ReleasedWasReceived, NoDupAbort
  <2>16. QED
    BY Zenon, <2>9, <2>10, <2>13, <2>14, <2>15 DEF AckInv
\* Frame s of node n goes to the network, when no copy of it is there and
\* it does not wait in the peer's m_acks.
<1>SendFrameAck.
  ASSUME TypeInv, AckInv, NEW n \in Node, NEW s \in Slots, NEW c,
         ~ m_freeFrames[n][s].is_free, m_freeFrames[n][s].msg_count > 0,
         \A p \in net : ~ (p.src = n /\ p.seq = m_freeFrames[n][s].seq),
         \A i \in DOMAIN m_acks[Peer[n]] : m_acks[Peer[n]][i] # m_freeFrames[n][s].seq,
         \A o \in Node : \A r \in Slots :
           /\ m_freeFrames'[o][r].is_free = m_freeFrames[o][r].is_free
           /\ m_freeFrames'[o][r].seq = m_freeFrames[o][r].seq
           /\ m_freeFrames'[o][r].ACKStart = m_freeFrames[o][r].ACKStart
           /\ m_freeFrames'[o][r].ACKCount = m_freeFrames[o][r].ACKCount,
         net' = net \cup {PacketOf(n, m_freeFrames[n][s], c)},
         UNCHANGED <<m_frameSeq, m_acks, m_frameSeqRecord, received, released, aborted>>
  PROVE  /\ NumbersUsed' /\ OneCopy' /\ AcksDistinct' /\ AckRanges' /\ RecordKnown'
         /\ AckOnly' /\ ReleasedWasReceived' /\ NoDupAbort'
  <2> USE <1>SendFrameAck
  <2> DEFINE f == m_freeFrames[n][s]
             p == PacketOf(n, f, c)
  <2>1. /\ p.src = n /\ p.seq = f.seq /\ p.msg_count = f.msg_count
        /\ p.ACKStart = f.ACKStart /\ p.ACKCount = f.ACKCount
    BY Zenon DEF PacketOf
  <2>2. NumberUsed(n, f.seq) /\ Slot(f.seq) = s
    BY Zenon DEF AckInv, NumbersUsed
  <2> HIDE DEF p, f
  <2>3. net' = net \cup {p}
    BY Zenon DEF p, f
  <2>4. NumbersUsed' /\ AckRanges' /\ RecordKnown'
    <3>1. \A q \in net' : NumberUsed(q.src, q.seq)
      BY Zenon, <2>1, <2>2, <2>3 DEF AckInv, NumbersUsed
    <3>2. AckRange(p) \subseteq received[n]
      BY Zenon, <2>1 DEF AckInv, AckRanges, AckRange, f
    <3>3. \A q \in net : AckRange(q) \subseteq received[q.src]
      BY Zenon DEF AckInv, AckRanges
    <3>4. \A q \in net' : AckRange(q) \subseteq received[q.src]
      BY Zenon, <2>1, <2>3, <3>2, <3>3
    <3>5. m_frameSeqRecord[Peer[n]][Slot(p.seq)].id = p.seq => p.seq \in received[Peer[n]]
      <4>1. m_frameSeqRecord[Peer[n]][s].id = f.seq => f.seq \in received[Peer[n]]
        BY Zenon DEF AckInv, RecordKnown, f
      <4>2. QED
        BY Zenon, <2>1, <2>2, <4>1
    <3>6. \A q \in net : m_frameSeqRecord[Peer[q.src]][Slot(q.seq)].id = q.seq =>
                           q.seq \in received[Peer[q.src]]
      BY Zenon DEF AckInv, RecordKnown
    <3>7. \A q \in net' : m_frameSeqRecord[Peer[q.src]][Slot(q.seq)].id = q.seq =>
                            q.seq \in received[Peer[q.src]]
      BY Zenon, <2>1, <2>3, <3>5, <3>6
    <3>8. \A o \in Node : \A r \in Slots :
            AckRange(m_freeFrames'[o][r]) = AckRange(m_freeFrames[o][r])
      BY Zenon DEF AckRange
    <3>9. QED
      BY Zenon, <3>1, <3>4, <3>7, <3>8, <1>RingKept
  <2>5. OneCopy'
    <3>1. m_acks' = m_acks
      BY Zenon
    <3>2. \A q \in net :
            /\ \A t \in net : q.src = t.src /\ q.seq = t.seq => q = t
            /\ \A i \in DOMAIN m_acks[Peer[q.src]] : m_acks[Peer[q.src]][i] # q.seq
      BY Zenon DEF AckInv, OneCopy
    <3>3. /\ \A q \in net : ~ (q.src = p.src /\ q.seq = p.seq)
          /\ \A i \in DOMAIN m_acks[Peer[p.src]] : m_acks[Peer[p.src]][i] # p.seq
      <4>1. p.src = n /\ p.seq = m_freeFrames[n][s].seq
        BY Zenon, <2>1 DEF f
      <4>2. \A q \in net : ~ (q.src = p.src /\ q.seq = p.seq)
        BY <4>1
      <4>3. \A i \in DOMAIN m_acks[Peer[p.src]] : m_acks[Peer[p.src]][i] # p.seq
        BY Zenon, <4>1
      <4>4. QED
        BY Zenon, <4>2, <4>3
    <3> SUFFICES ASSUME NEW q \in net'
                 PROVE  /\ \A t \in net' : q.src = t.src /\ q.seq = t.seq => q = t
                        /\ \A i \in DOMAIN m_acks'[Peer[q.src]] : m_acks'[Peer[q.src]][i] # q.seq
      BY Zenon DEF OneCopy
    <3>4. CASE q = p
      BY Zenon, <2>3, <3>1, <3>3, <3>4
    <3>5. CASE q \in net
      BY Zenon, <2>3, <3>1, <3>2, <3>3, <3>5
    <3>6. QED
      BY Zenon, <2>3, <3>4, <3>5
  <2>6. AcksDistinct' /\ ReleasedWasReceived' /\ NoDupAbort'
    BY Zenon DEF AckInv, AcksDistinct, ReleasedWasReceived, NoDupAbort
  <2>9. AckOnly'
    <3>1. p.msg_count # 0
      <4>1. f \in Frame /\ f.msg_count > 0
        BY Zenon, <1>AckTypes DEF f
      <4>2. f.msg_count \in Nat
        BY Zenon, <4>1 DEF Frame
      <4>3. f.msg_count # 0
        BY <4>1, <4>2
      <4>4. QED
        BY Zenon, <2>1, <4>3
    <3>2. ASSUME NEW q \in net', q.msg_count = 0
          PROVE  /\ q.seq \notin received[Peer[q.src]]
                 /\ \A r \in Slots : ~ m_freeFrames'[q.src][r].is_free =>
                                       m_freeFrames'[q.src][r].seq # q.seq
      <4>1. q \in net /\ q.src \in Node
        BY Zenon, <2>3, <3>1, <3>2, <1>AckTypes
      <4>2. /\ q.seq \notin received[Peer[q.src]]
            /\ \A r \in Slots : ~ m_freeFrames[q.src][r].is_free =>
                                  m_freeFrames[q.src][r].seq # q.seq
        BY Zenon, <3>2, <4>1 DEF AckInv, AckOnly
      <4>3. QED
        BY Zenon, <4>1, <4>2
    <3>3. QED
      BY Zenon, <3>2 DEF AckOnly
  <2>10. QED
    BY Zenon, <2>4, <2>5, <2>6, <2>9
\* PostFrame: the first transmission of the frame that post() holds.
<1>PostFrameAck.
  ASSUME TypeInv, AckInv, NEW n \in Node, PostFrame(n)
  PROVE  AckInv'
  <2> USE <1>PostFrameAck
  <2>0. PICK x \in Slots : x = app[n].slot
    BY Zenon, <1>AckTypes
  <2> DEFINE f == m_freeFrames[n][x]
             g == [f EXCEPT !.send_time = "set", !.sends = @ + 1]
  <2>1. /\ m_freeFrames' = [m_freeFrames EXCEPT ![n][x] = g]
        /\ net' = net \cup {PacketOf(n, f, f.sends + 1)}
        /\ app[n].phase = "filled"
        /\ \E ph \in {"loop", "idle"} : app' = [app EXCEPT ![n] = [app[n] EXCEPT !.phase = ph]]
        /\ UNCHANGED <<m_frameSeq, m_acks, m_frameSeqRecord, received, released, aborted>>
    BY Zenon, <2>0 DEF PostFrame
  <2>2. /\ app \in [Node -> AppState] /\ m_freeFrames \in [Node -> [Slots -> Frame]]
        /\ x \in Slots /\ f \in Frame
    BY Zenon, <1>AckTypes DEF TypeInv, TypeOK
  <2>3. /\ g.is_free = f.is_free /\ g.seq = f.seq /\ g.ACKStart = f.ACKStart
        /\ g.ACKCount = f.ACKCount /\ g.msg_count = f.msg_count /\ g.send_time = "set"
    BY Zenon, <2>2 DEF Frame
  <2>4. HeldByPost(n, x)
    BY Zenon, <2>0, <2>1 DEF HeldByPost
  <2>5. /\ ~ f.is_free /\ f.msg_count > 0 /\ f.seq \notin received[Peer[n]]
        /\ \A p \in net : ~ (p.src = n /\ p.seq = f.seq)
    BY Zenon, <2>1, <2>2, <2>4 DEF AckInv, PostHolds
  <2>6. \A i \in DOMAIN m_acks[Peer[n]] : m_acks[Peer[n]][i] # f.seq
    BY Zenon, <2>5, <1>AckTypes DEF AckInv, AcksDistinct
  <2> HIDE DEF g
  <2>7. /\ m_freeFrames'[n][x] = g
        /\ \A o \in Node : \A s \in Slots : ~ (o = n /\ s = x) =>
             m_freeFrames'[o][s] = m_freeFrames[o][s]
    BY Zenon, <2>1, <2>2
  <2>8. \A o \in Node : \A r \in Slots :
          /\ m_freeFrames'[o][r].is_free = m_freeFrames[o][r].is_free
          /\ m_freeFrames'[o][r].seq = m_freeFrames[o][r].seq
          /\ m_freeFrames'[o][r].ACKStart = m_freeFrames[o][r].ACKStart
          /\ m_freeFrames'[o][r].ACKCount = m_freeFrames[o][r].ACKCount
    BY Zenon, <2>3, <2>7
  <2>9. /\ NumbersUsed' /\ OneCopy' /\ AcksDistinct' /\ AckRanges' /\ RecordKnown'
        /\ AckOnly' /\ ReleasedWasReceived' /\ NoDupAbort'
    <3>1. /\ net' = net \cup {PacketOf(n, f, f.sends + 1)}
          /\ UNCHANGED <<m_frameSeq, m_acks, m_frameSeqRecord, received, released, aborted>>
      BY Zenon, <2>1
    <3>2. QED
      BY Zenon, <2>5, <2>6, <2>8, <3>1, <1>SendFrameAck
  <2>10. /\ app'[n].phase \in {"loop", "idle"}
         /\ \A o \in Node \ {n} : app'[o] = app[o]
    BY Zenon, <2>1, <2>2 DEF AppState
  <2>11. PostHolds'
    <3> SUFFICES ASSUME NEW o \in Node, NEW s \in Slots
                 PROVE  LET h == m_freeFrames'[o][s]
                            held == app'[o].phase \in {"got", "filled"} /\ s = app'[o].slot IN
                        /\ held => /\ ~ h.is_free /\ h.send_time = "stale"
                                   /\ app'[o].phase = "filled" => h.msg_count > 0
                                   /\ h.seq \notin received[Peer[o]]
                                   /\ \A p \in net' : ~ (p.src = o /\ p.seq = h.seq)
                        /\ ~ h.is_free /\ ~ held => h.send_time = "set" /\ h.msg_count > 0
      BY <2>1 DEF PostHolds, HeldByPost
    <3>1. CASE o = n /\ s = x
      BY Zenon, <2>3, <2>5, <2>7, <2>10, <3>1
    <3>2. CASE o = n /\ s # x
      <4>1. ~ HeldByPost(o, s)
        BY Zenon, <2>0, <3>2 DEF HeldByPost
      <4>2. QED
        BY Zenon, <2>7, <2>10, <3>2, <4>1 DEF AckInv, PostHolds
    <3>3. CASE o # n
      <4> DEFINE p == PacketOf(n, f, f.sends + 1)
      <4>1. p.src # o /\ net' = net \cup {p}
        BY Zenon, <2>1, <3>3 DEF PacketOf
      <4> HIDE DEF p
      <4>2. m_freeFrames'[o][s] = m_freeFrames[o][s] /\ app'[o] = app[o]
        BY Zenon, <2>7, <2>10, <3>3
      <4>3. /\ HeldByPost(o, s) =>
                 /\ ~ m_freeFrames[o][s].is_free /\ m_freeFrames[o][s].send_time = "stale"
                 /\ app[o].phase = "filled" => m_freeFrames[o][s].msg_count > 0
                 /\ m_freeFrames[o][s].seq \notin received[Peer[o]]
                 /\ \A q \in net : ~ (q.src = o /\ q.seq = m_freeFrames[o][s].seq)
            /\ ~ m_freeFrames[o][s].is_free /\ ~ HeldByPost(o, s) =>
                 m_freeFrames[o][s].send_time = "set" /\ m_freeFrames[o][s].msg_count > 0
        BY Zenon DEF AckInv, PostHolds
      <4>4. QED
        BY Zenon, <4>1, <4>2, <4>3 DEF HeldByPost
    <3>4. QED
      BY Zenon, <3>1, <3>2, <3>3
  <2>12. QED
    BY Zenon, <2>9, <2>11 DEF AckInv
\* CheckAcks: under conservative timing only a frame with neither a copy nor
\* an acknowledgement under way is sent again.
<1>CheckAcksAck.
  ASSUME ConservativeTiming, TypeInv, AckInv, NEW n \in Node, CheckAcks(n)
  PROVE  AckInv'
  <2> USE <1>CheckAcksAck
  <2>1. PICK x \in Slots :
          LET f == m_freeFrames[n][x] IN
          /\ ~ f.is_free /\ TimedOut(n, f)
          /\ net' = net \cup {PacketOf(n, f, f.sends + 1)}
          /\ m_freeFrames' = [m_freeFrames EXCEPT ![n][x] =
               IF f.msg_count = 0
               THEN [f EXCEPT !.send_time = "set", !.sends = f.sends + 1,
                              !.is_free = TRUE, !.transaction = 0]
               ELSE [f EXCEPT !.send_time = "set", !.sends = f.sends + 1]]
    BY Zenon DEF CheckAcks
  <2>2. UNCHANGED <<m_frameSeq, m_acks, m_frameSeqRecord, app, received, released, aborted>>
    BY Zenon DEF CheckAcks
  <2> DEFINE f == m_freeFrames[n][x]
             g == [f EXCEPT !.send_time = "set", !.sends = f.sends + 1]
  <2>3. m_freeFrames \in [Node -> [Slots -> Frame]] /\ f \in Frame
    BY Zenon, <1>AckTypes DEF TypeInv, TypeOK
  <2>4. f.send_time # "stale" /\ Lost(n, f.seq)
    BY Zenon, <2>1 DEF TimedOut, ConservativeTiming
  <2>5. ~ HeldByPost(n, x) /\ f.msg_count > 0
    BY Zenon, <2>1, <2>4 DEF AckInv, PostHolds
  <2>6. NumberUsed(n, f.seq) /\ Slot(f.seq) = x
    BY Zenon, <2>1 DEF AckInv, NumbersUsed
  <2>7. Wire(f.seq) = f.seq
    BY Zenon, <2>6, <1>HeaderIsNumber
  <2>8. /\ \A p \in net : ~ (p.src = n /\ p.seq = f.seq)
        /\ \A i \in DOMAIN m_acks[Peer[n]] : m_acks[Peer[n]][i] # f.seq
    BY Zenon, <2>4, <2>7 DEF Lost
  <2>9. m_freeFrames' = [m_freeFrames EXCEPT ![n][x] = g]
    <3>1. f.msg_count # 0
      BY <2>3, <2>5 DEF Frame
    <3>2. QED
      BY Zenon, <2>1, <3>1
  <2>10. /\ g.is_free = f.is_free /\ g.seq = f.seq /\ g.ACKStart = f.ACKStart
         /\ g.ACKCount = f.ACKCount /\ g.msg_count = f.msg_count /\ g.send_time = "set"
    BY Zenon, <2>3 DEF Frame
  <2> HIDE DEF g
  <2>11. /\ m_freeFrames'[n][x] = g
         /\ \A o \in Node : \A s \in Slots : ~ (o = n /\ s = x) =>
              m_freeFrames'[o][s] = m_freeFrames[o][s]
    BY Zenon, <2>3, <2>9
  <2>12. \A o \in Node : \A r \in Slots :
           /\ m_freeFrames'[o][r].is_free = m_freeFrames[o][r].is_free
           /\ m_freeFrames'[o][r].seq = m_freeFrames[o][r].seq
           /\ m_freeFrames'[o][r].ACKStart = m_freeFrames[o][r].ACKStart
           /\ m_freeFrames'[o][r].ACKCount = m_freeFrames[o][r].ACKCount
    BY Zenon, <2>10, <2>11
  <2>13. /\ NumbersUsed' /\ OneCopy' /\ AcksDistinct' /\ AckRanges' /\ RecordKnown'
         /\ AckOnly' /\ ReleasedWasReceived' /\ NoDupAbort'
    BY Zenon, <2>1, <2>2, <2>5, <2>8, <2>12, <1>SendFrameAck
  <2>14. PostHolds'
    <3> SUFFICES ASSUME NEW o \in Node, NEW s \in Slots
                 PROVE  LET h == m_freeFrames'[o][s] IN
                        /\ HeldByPost(o, s) =>
                             /\ ~ h.is_free /\ h.send_time = "stale"
                             /\ app[o].phase = "filled" => h.msg_count > 0
                             /\ h.seq \notin received[Peer[o]]
                             /\ \A p \in net' : ~ (p.src = o /\ p.seq = h.seq)
                        /\ ~ h.is_free /\ ~ HeldByPost(o, s) => h.send_time = "set" /\ h.msg_count > 0
      BY Zenon, <2>2 DEF PostHolds, HeldByPost
    <3>1. CASE o = n /\ s = x
      BY Zenon, <2>5, <2>10, <2>11, <3>1
    <3>2. CASE ~ (o = n /\ s = x)
      <4> DEFINE p == PacketOf(n, f, f.sends + 1)
      <4>1. p.src = n /\ p.seq = f.seq
        BY Zenon DEF PacketOf
      <4>2. m_freeFrames'[o][s] = m_freeFrames[o][s]
        BY Zenon, <2>11, <3>2
      <4>3. ~ m_freeFrames[o][s].is_free => ~ (p.src = o /\ p.seq = m_freeFrames[o][s].seq)
        <5>1. ~ m_freeFrames[o][s].is_free => Slot(m_freeFrames[o][s].seq) = s
          BY Zenon DEF AckInv, NumbersUsed
        <5>2. QED
          BY Zenon, <2>6, <3>2, <4>1, <5>1
      <4>4. net' = net \cup {p}
        BY Zenon, <2>1
      <4> HIDE DEF p
      <4>5. QED
        <5>1. /\ HeldByPost(o, s) =>
                   /\ ~ m_freeFrames[o][s].is_free /\ m_freeFrames[o][s].send_time = "stale"
                   /\ app[o].phase = "filled" => m_freeFrames[o][s].msg_count > 0
                   /\ m_freeFrames[o][s].seq \notin received[Peer[o]]
                   /\ \A q \in net : ~ (q.src = o /\ q.seq = m_freeFrames[o][s].seq)
              /\ ~ m_freeFrames[o][s].is_free /\ ~ HeldByPost(o, s) =>
                   m_freeFrames[o][s].send_time = "set" /\ m_freeFrames[o][s].msg_count > 0
          BY Zenon DEF AckInv, PostHolds
        <5>2. QED
          BY Zenon, <4>2, <4>3, <4>4, <5>1
    <3>3. QED
      BY Zenon, <3>1, <3>2
  <2>15. QED
    BY Zenon, <2>13, <2>14 DEF AckInv
\* SendAcks: a frame with a fresh number that leaves nothing in the ring.
<1>SendAcksAck.
  ASSUME TypeInv, AckInv, NEW n \in Node, SendAcks(n), ~ WindowAbort(n)
  PROVE  AckInv'
  <2> USE <1>SendAcksAck
  <2>0. PICK f \in Nat \ {0}, q \in Slots : f = m_frameSeq[n] /\ q = Slot(f)
    BY Zenon, <1>AckTypes, SlotInRing
  <2> DEFINE h == NewFrame(n, f)
             g == [h EXCEPT !.is_free = TRUE, !.send_time = "set"]
             p == PacketOf(n, h, 1)
  <2>1. /\ m_frameSeq' = [m_frameSeq EXCEPT ![n] = f + 1]
        /\ m_freeFrames' = [m_freeFrames EXCEPT ![n][q] = g]
        /\ m_acks' = [m_acks EXCEPT ![n] = AcksLeft(n)]
        /\ net' = Alive(n, f) \cup {p}
        /\ UNCHANGED <<m_frameSeqRecord, received, released, aborted, app>>
        /\ f < MaxSeq /\ m_freeFrames[n][q].is_free
    BY Zenon, <2>0 DEF SendAcks
  <2>2. /\ m_freeFrames \in [Node -> [Slots -> Frame]] /\ m_frameSeq \in [Node -> Nat \ {0}]
    BY Zenon DEF TypeInv, TypeOK
  <2>3. /\ p.src = n /\ p.seq = f /\ p.msg_count = 0
        /\ AckRange(p) = AckRange(h)
    BY Zenon DEF PacketOf, NewFrame, FreeFrame, AckRange
  <2>4. AckRange(p) \subseteq received[n]
    BY Zenon, <2>3, <1>NewFrameRange DEF AckInv
  <2>5. g.is_free
    BY Zenon DEF NewFrame, FreeFrame
  <2> HIDE DEF g, p
  <2>6. net' \subseteq net \cup {p}
    BY Zenon, <2>1 DEF Alive
  <2>7. /\ m_freeFrames'[n][q] = g
        /\ \A o \in Node : \A s \in Slots : ~ (o = n /\ s = q) =>
             m_freeFrames'[o][s] = m_freeFrames[o][s]
    BY Zenon, <2>1, <2>2
  <2>8. \A o \in Node : \A x : NumberUsed(o, x) => UsedNext(o, x)
    BY Zenon, <2>0, <2>1, <1>NumberKept
  <2>9. UsedNext(n, f) /\ ~ NumberUsed(n, f)
    BY <2>0, <2>1, <2>2 DEF NumberUsed, UsedNext
  <2>10. \A o \in Node : \A s \in Slots : ~ m_freeFrames'[o][s].is_free =>
           m_freeFrames'[o][s] = m_freeFrames[o][s]
    BY Zenon, <2>5, <2>7
  <2>11. /\ \A r \in net : ~ (r.src = n /\ r.seq = f)
         /\ f \notin received[Peer[n]]
         /\ \A s \in Slots : ~ m_freeFrames[n][s].is_free => m_freeFrames[n][s].seq # f
         /\ \A s \in Slots : m_frameSeqRecord[Peer[n]][s].id # f
    <3>1. Peer[n] \in Node /\ Peer[Peer[n]] = n
      BY Zenon, <1>AckTypes
    <3>2. ~ NumberUsed(n, f) /\ f # 0
      BY Zenon, <2>9, <1>AckTypes DEF NumberUsed
    <3>3. \A r \in net : ~ (r.src = n /\ r.seq = f)
      BY Zenon, <3>2 DEF AckInv, NumbersUsed
    <3>4. f \notin received[Peer[n]]
      BY Zenon, <3>1, <3>2 DEF AckInv, NumbersUsed
    <3>5. \A s \in Slots : ~ m_freeFrames[n][s].is_free => m_freeFrames[n][s].seq # f
      BY Zenon, <3>2 DEF AckInv, NumbersUsed
    <3>6. \A s \in Slots : m_frameSeqRecord[Peer[n]][s].id # f
      BY Zenon, <3>1, <3>2 DEF AckInv, NumbersUsed
    <3>7. QED
      BY Zenon, <3>3, <3>4, <3>5, <3>6
  <2>12. NumbersUsed'
    <3>1. \A r \in net : r.src \in Node
      BY Zenon, <1>AckTypes
    <3>2. \A o \in Node : Peer[o] \in Node
      BY Zenon, <1>AckTypes
    <3>3. \A r \in net' : UsedNext(r.src, r.seq)
      BY Zenon, <2>3, <2>6, <2>8, <2>9, <3>1 DEF AckInv, NumbersUsed
    <3>4. \A o \in Node : \A x \in received'[o] : UsedNext(Peer[o], x)
      BY Zenon, <2>1, <2>8, <3>2 DEF AckInv, NumbersUsed
    <3>5. \A o \in Node : \A s \in Slots : ~ m_freeFrames'[o][s].is_free =>
            UsedNext(o, m_freeFrames'[o][s].seq) /\ Slot(m_freeFrames'[o][s].seq) = s
      <4> SUFFICES ASSUME NEW o \in Node, NEW s \in Slots, ~ m_freeFrames'[o][s].is_free
                   PROVE  /\ UsedNext(o, m_freeFrames'[o][s].seq)
                          /\ Slot(m_freeFrames'[o][s].seq) = s
        BY Zenon
      <4>1. m_freeFrames'[o][s] = m_freeFrames[o][s] /\ ~ m_freeFrames[o][s].is_free
        BY Zenon, <2>10
      <4>2. NumberUsed(o, m_freeFrames[o][s].seq) /\ Slot(m_freeFrames[o][s].seq) = s
        BY Zenon, <4>1 DEF AckInv, NumbersUsed
      <4>3. QED
        BY Zenon, <2>8, <4>1, <4>2
    <3>6. \A o \in Node : \A s \in Slots : m_frameSeqRecord'[o][s].id # 0 =>
            UsedNext(Peer[o], m_frameSeqRecord'[o][s].id) /\ Slot(m_frameSeqRecord'[o][s].id) = s
      BY Zenon, <2>1, <2>8, <3>2 DEF AckInv, NumbersUsed
    <3>7. QED
      BY Zenon, <3>3, <3>4, <3>5, <3>6 DEF NumbersUsed, NumberUsed, UsedNext, Slot
  <2>13. AcksDistinct' /\ \A o \in Node : \A i \in DOMAIN m_acks'[o] :
                            \E j \in DOMAIN m_acks[o] : m_acks[o][j] = m_acks'[o][i]
    BY Zenon, <2>1, <1>ClaimQueue DEF AckInv
  <2>14. OneCopy'
    <3>1. \A r \in net : Peer[r.src] \in Node
      BY Zenon, <1>AckTypes
    <3>2. Peer[n] \in Node
      BY Zenon, <1>AckTypes
    <3>3. \A j \in DOMAIN m_acks[Peer[n]] : m_acks[Peer[n]][j] # f
      <4>1. \A j \in DOMAIN m_acks[Peer[n]] : m_acks[Peer[n]][j] \in received[Peer[n]]
        BY Zenon, <3>2 DEF AckInv, AcksDistinct
      <4>2. f \notin received[Peer[n]]
        BY Zenon, <2>11
      <4>3. QED
        BY Zenon, <4>1, <4>2
    <3>4. QED
      <4> SUFFICES ASSUME NEW r \in net'
                   PROVE  /\ \A t \in net' : r.src = t.src /\ r.seq = t.seq => r = t
                          /\ \A i \in DOMAIN m_acks'[Peer[r.src]] : m_acks'[Peer[r.src]][i] # r.seq
        BY Zenon DEF OneCopy
      <4>1. CASE r = p
        <5>1. \A t \in net' : r.src = t.src /\ r.seq = t.seq => r = t
          BY Zenon, <2>3, <2>6, <2>11, <4>1
        <5>2. \A i \in DOMAIN m_acks'[Peer[n]] : m_acks'[Peer[n]][i] # f
          <6>1. \A i \in DOMAIN m_acks'[Peer[n]] :
                  \E j \in DOMAIN m_acks[Peer[n]] : m_acks[Peer[n]][j] = m_acks'[Peer[n]][i]
            BY Zenon, <2>13, <3>2
          <6>2. QED
            BY Zenon, <3>3, <6>1
        <5>3. QED
          BY Zenon, <2>3, <4>1, <5>1, <5>2
      <4>2. CASE r \in net
        <5>1. /\ \A t \in net : r.src = t.src /\ r.seq = t.seq => r = t
              /\ \A j \in DOMAIN m_acks[Peer[r.src]] : m_acks[Peer[r.src]][j] # r.seq
          BY Zenon, <4>2 DEF AckInv, OneCopy
        <5>2. \A t \in net' : r.src = t.src /\ r.seq = t.seq => r = t
          BY Zenon, <2>3, <2>6, <2>11, <4>2, <5>1
        <5>3. \A i \in DOMAIN m_acks'[Peer[r.src]] : m_acks'[Peer[r.src]][i] # r.seq
          <6>1. Peer[r.src] \in Node
            BY Zenon, <3>1, <4>2
          <6>2. \A i \in DOMAIN m_acks'[Peer[r.src]] :
                  \E j \in DOMAIN m_acks[Peer[r.src]] : m_acks[Peer[r.src]][j] = m_acks'[Peer[r.src]][i]
            BY Zenon, <2>13, <6>1
          <6>3. QED
            BY Zenon, <5>1, <6>2
        <5>4. QED
          BY Zenon, <5>2, <5>3
      <4>3. QED
        BY Zenon, <2>6, <4>1, <4>2
  <2>15. AckRanges'
    BY <2>1, <2>3, <2>4, <2>6, <2>10 DEF AckInv, AckRanges, AckRange
  <2>16. RecordKnown'
    <3>1. Slot(f) \in Slots
      BY Zenon, <2>0
    <3>2. \A r \in net' : m_frameSeqRecord'[Peer[r.src]][Slot(r.seq)].id = r.seq =>
            r.seq \in received'[Peer[r.src]]
      <4>1. p.seq = f /\ m_frameSeqRecord[Peer[n]][Slot(f)].id # f
        BY Zenon, <2>3, <2>11, <3>1
      <4>2. \A r \in net : m_frameSeqRecord[Peer[r.src]][Slot(r.seq)].id = r.seq =>
              r.seq \in received[Peer[r.src]]
        BY Zenon DEF AckInv, RecordKnown
      <4>3. m_frameSeqRecord' = m_frameSeqRecord /\ received' = received
        BY Zenon, <2>1
      <4>4. QED
        BY Zenon, <2>3, <2>6, <4>1, <4>2, <4>3
    <3>3. QED
      BY Zenon, <2>1, <2>10, <3>2 DEF AckInv, RecordKnown, Slot
  <2>17. AckOnly'
    <3>1. \A r \in net : r.src \in Node
      BY Zenon, <1>AckTypes
    <3>2. QED
      BY <2>1, <2>3, <2>6, <2>10, <2>11, <3>1 DEF AckInv, AckOnly
  <2>18. PostHolds'
    <3> SUFFICES ASSUME NEW o \in Node, NEW s \in Slots
                 PROVE  LET e == m_freeFrames'[o][s] IN
                        /\ HeldByPost(o, s) =>
                             /\ ~ e.is_free /\ e.send_time = "stale"
                             /\ app[o].phase = "filled" => e.msg_count > 0
                             /\ e.seq \notin received[Peer[o]]
                             /\ \A r \in net' : ~ (r.src = o /\ r.seq = e.seq)
                        /\ ~ e.is_free /\ ~ HeldByPost(o, s) => e.send_time = "set" /\ e.msg_count > 0
      <4>1. app' = app /\ received' = received
        BY Zenon, <2>1
      <4>2. QED
        BY Zenon, <4>1 DEF PostHolds, HeldByPost
    <3>1. CASE HeldByPost(o, s)
      <4>1. /\ ~ m_freeFrames[o][s].is_free /\ m_freeFrames[o][s].send_time = "stale"
            /\ app[o].phase = "filled" => m_freeFrames[o][s].msg_count > 0
            /\ m_freeFrames[o][s].seq \notin received[Peer[o]]
            /\ \A r \in net : ~ (r.src = o /\ r.seq = m_freeFrames[o][s].seq)
        BY Zenon, <3>1 DEF AckInv, PostHolds
      <4>2. m_freeFrames'[o][s] = m_freeFrames[o][s]
        BY Zenon, <2>1, <2>7, <4>1
      <4>3. ~ (p.src = o /\ p.seq = m_freeFrames[o][s].seq)
        BY Zenon, <2>3, <2>11, <4>1
      <4>4. \A r \in net' : ~ (r.src = o /\ r.seq = m_freeFrames[o][s].seq)
        BY Zenon, <2>6, <4>1, <4>3
      <4>5. QED
        BY Zenon, <3>1, <4>1, <4>2, <4>4
    <3>2. CASE ~ HeldByPost(o, s)
      BY Zenon, <2>10, <3>2 DEF AckInv, PostHolds
    <3>3. QED
      BY Zenon, <3>1, <3>2
  <2>19. ReleasedWasReceived' /\ NoDupAbort'
    BY Zenon, <2>1 DEF AckInv, ReleasedWasReceived, NoDupAbort
  <2>20. QED
    BY Zenon, <2>12, <2>13, <2>14, <2>15, <2>16, <2>17, <2>18, <2>19 DEF AckInv
\* Append adds its element at an index of its own.
<1>AppendGrows.
  \A q \in Seq(Nat) : \A e \in Nat : \E c \in Nat : GrownBy(q, Append(q, e), e, c)
  <2> USE <1>AppendGrows
  <2> SUFFICES ASSUME NEW q \in Seq(Nat), NEW e \in Nat
               PROVE  \E c \in Nat : GrownBy(q, Append(q, e), e, c)
    BY Zenon
  <2>1. Len(q) + 1 \in Nat
    OBVIOUS
  <2>2. \A i \in DOMAIN Append(q, e) : i \in DOMAIN q \/ i = Len(q) + 1
    OBVIOUS
  <2>3. \A i \in DOMAIN q : Append(q, e)[i] = q[i]
    OBVIOUS
  <2>4. Append(q, e)[Len(q) + 1] = e
    OBVIOUS
  <2>5. QED
    BY Zenon, <2>1, <2>2, <2>3, <2>4 DEF GrownBy
\* PostHolds survives a step that leaves the ring alone, moves post() where
\* it holds no frame, and at most loses datagrams.
<1>QuietPost.
  ASSUME PostHolds, net' \subseteq net, m_freeFrames' = m_freeFrames, received' = received,
         \A n \in Node : \A s \in Slots : HeldByPost(n, s)' <=> HeldByPost(n, s),
         \A n \in Node : app'[n].phase = "filled" <=> app[n].phase = "filled"
  PROVE  PostHolds'
  <2> USE <1>QuietPost
  <2> SUFFICES ASSUME NEW n \in Node, NEW s \in Slots
               PROVE  LET f == m_freeFrames'[n][s] IN
                      /\ HeldByPost(n, s)' =>
                           /\ ~ f.is_free /\ f.send_time = "stale"
                           /\ app'[n].phase = "filled" => f.msg_count > 0
                           /\ f.seq \notin received'[Peer[n]]
                           /\ \A p \in net' : ~ (p.src = n /\ p.seq = f.seq)
                      /\ ~ f.is_free /\ ~ HeldByPost(n, s)' => f.send_time = "set" /\ f.msg_count > 0
    BY Zenon DEF PostHolds
  <2>1. QED
    BY Zenon DEF PostHolds
\* ProcessDup: the duplicate is of a data frame that was acknowledged, and
\* its number is not in m_acks.
<1>ProcessDupAck.
  ASSUME ConservativeTiming, TypeInv, AckInv, NEW n \in Node, NEW p \in net, p.src = Peer[n],
         net' = net \ {p}, ProcessDup(n, p), UNCHANGED <<m_frameSeq, app>>
  PROVE  AckInv'
  <2> USE <1>ProcessDupAck
  <2>1. /\ p.seq \in Nat /\ NumberUsed(p.src, p.seq) /\ Peer[p.src] = n
        /\ Peer[n] \in Node /\ Slot(p.seq) \in Slots
    BY Zenon, <1>AckTypes DEF AckInv, NumbersUsed
  <2>2. Wire(p.seq) = p.seq
    BY Zenon, <2>1, <1>HeaderIsNumber
  <2>3. m_frameSeqRecord[n][Slot(p.seq)].id = p.seq
    BY Zenon, <2>2 DEF ProcessDup
  <2>4. p.seq \in received[n]
    BY Zenon, <2>1, <2>3 DEF AckInv, RecordKnown
  <2>5. m_frameSeqRecord[n][Slot(p.seq)].acked
    BY Zenon, <2>1, <2>3, <2>4 DEF AckInv, RecordKnown
  <2>6. /\ m_acks' = [m_acks EXCEPT ![n] = Append(m_acks[n], p.seq)] /\ aborted' = aborted
        /\ UNCHANGED <<m_freeFrames, m_frameSeqRecord, released, received>>
    BY Zenon, <2>2, <2>5 DEF ProcessDup
  <2>7. m_acks \in [Node -> Seq(Nat)] /\ m_acks[n] \in Seq(Nat)
    BY Zenon DEF TypeInv, TypeOK
  <2>8. \A i \in DOMAIN m_acks[n] : m_acks[n][i] # p.seq
    BY Zenon, <2>1 DEF AckInv, OneCopy
  <2>9. /\ \A o \in Node \ {n} : m_acks'[o] = m_acks[o]
        /\ m_acks'[n] = Append(m_acks[n], p.seq)
    BY Zenon, <2>6, <2>7
  <2>g. PICK c \in Nat : GrownBy(m_acks[n], m_acks'[n], p.seq, c)
    BY Zenon, <2>1, <2>7, <2>9, <1>AppendGrows
  <2>10. AcksDistinct'
    <3>0. /\ \A i \in DOMAIN m_acks[n] : m_acks[n][i] \in received[n]
          /\ \A i, j \in DOMAIN m_acks[n] : m_acks[n][i] = m_acks[n][j] => i = j
      BY Zenon DEF AckInv, AcksDistinct
    <3>1. \A i \in DOMAIN m_acks'[n] : m_acks'[n][i] \in received[n]
      BY Zenon, <2>4, <2>g, <3>0 DEF GrownBy
    <3>2. \A i, j \in DOMAIN m_acks'[n] : m_acks'[n][i] = m_acks'[n][j] => i = j
      BY Zenon, <2>8, <2>g, <3>0 DEF GrownBy
    <3>3. received' = received
      BY Zenon, <2>6
    <3>4. QED
      BY Zenon, <2>9, <3>1, <3>2, <3>3 DEF AckInv, AcksDistinct
  <2>11. OneCopy'
    <3> SUFFICES ASSUME NEW r \in net'
                 PROVE  /\ \A t \in net' : r.src = t.src /\ r.seq = t.seq => r = t
                        /\ \A i \in DOMAIN m_acks'[Peer[r.src]] : m_acks'[Peer[r.src]][i] # r.seq
      BY Zenon DEF OneCopy
    <3>1. r \in net /\ r # p /\ Peer[r.src] \in Node /\ r.src \in Node
      BY Zenon, <1>AckTypes
    <3>2. \A t \in net' : r.src = t.src /\ r.seq = t.seq => r = t
      BY Zenon, <3>1 DEF AckInv, OneCopy
    <3>3. \A i \in DOMAIN m_acks[Peer[r.src]] : m_acks[Peer[r.src]][i] # r.seq
      BY Zenon, <3>1 DEF AckInv, OneCopy
    <3>4. CASE Peer[r.src] = n
      <4>1. r.src = p.src
        BY Zenon, <3>1, <3>4, <1>AckTypes
      <4>2. r.seq # p.seq
        BY Zenon, <3>1, <4>1 DEF AckInv, OneCopy
      <4>3. \A i \in DOMAIN m_acks'[n] : m_acks'[n][i] # r.seq
        BY Zenon, <2>g, <3>3, <3>4, <4>2 DEF GrownBy
      <4>4. QED
        BY Zenon, <3>2, <3>4, <4>3
    <3>5. CASE Peer[r.src] # n
      BY Zenon, <2>9, <3>1, <3>2, <3>3, <3>5
    <3>6. QED
      BY Zenon, <3>4, <3>5
  <2>12. NumbersUsed' /\ AckRanges' /\ RecordKnown' /\ AckOnly' /\ PostHolds'
    <3>1. net' \subseteq net
      BY Zenon
    <3>2. NumbersUsed'
      BY Zenon, <2>6, <3>1 DEF AckInv, NumbersUsed, NumberUsed, Slot
    <3>3. AckRanges'
      BY Zenon, <2>6, <3>1 DEF AckInv, AckRanges, AckRange
    <3>4. RecordKnown'
      BY Zenon, <2>6, <3>1 DEF AckInv, RecordKnown, Slot
    <3>5. AckOnly'
      BY Zenon, <2>6, <3>1 DEF AckInv, AckOnly
    <3>6. PostHolds'
      <4>1. \A o \in Node : \A s \in Slots : HeldByPost(o, s)' <=> HeldByPost(o, s)
        BY Zenon DEF HeldByPost
      <4>2. \A o \in Node : app'[o].phase = "filled" <=> app[o].phase = "filled"
        BY Zenon
      <4>3. QED
        BY Zenon, <2>6, <3>1, <4>1, <4>2, <1>QuietPost DEF AckInv
    <3>7. QED
      BY Zenon, <3>2, <3>3, <3>4, <3>5, <3>6
  <2>13. ReleasedWasReceived' /\ NoDupAbort'
    BY Zenon, <2>6 DEF AckInv, ReleasedWasReceived, NoDupAbort
  <2>14. QED
    BY Zenon, <2>10, <2>11, <2>12, <2>13 DEF AckInv
\* ProcessNew: the frames that it releases were received by the peer.
<1>ProcessNewAck.
  ASSUME ConservativeTiming, TypeInv, AckInv, NEW n \in Node, NEW p \in net, p.src = Peer[n],
         net' = net \ {p}, ProcessNew(n, p), UNCHANGED <<m_frameSeq, app>>
  PROVE  AckInv'
  <2> USE <1>ProcessNewAck
  <2> DEFINE S == Acked(n, p)
             x == Slot(p.seq)
  <2>1. /\ p.seq \in Nat \ {0} /\ NumberUsed(p.src, p.seq) /\ Peer[p.src] = n
        /\ Peer[n] \in Node /\ x \in Slots /\ p.msg_count \in Nat /\ p \in Packet
    BY Zenon, <1>AckTypes DEF AckInv, NumbersUsed, NumberUsed
  <2>2. Wire(p.seq) = p.seq
    BY Zenon, <2>1, <1>HeaderIsNumber
  <2>3. /\ m_frameSeqRecord' = [m_frameSeqRecord EXCEPT ![n][x] =
             [id |-> p.seq, acked |-> m_frameSeqRecord[n][x].acked \/ p.msg_count > 0]]
        /\ aborted' = aborted
        /\ ReleaseFrames(n, S)
    BY Zenon, <2>2 DEF ProcessNew
  <2>4. /\ p.msg_count = 0 => m_acks' = m_acks /\ received' = received
        /\ p.msg_count # 0 =>
             /\ m_acks' = [m_acks EXCEPT ![n] = Append(m_acks[n], p.seq)]
             /\ received' = [received EXCEPT ![n] = received[n] \cup {p.seq}]
    BY Zenon, <2>2 DEF ProcessNew
  <2>5. ASSUME NEW s \in S
        PROVE  /\ s \in Slots /\ ~ m_freeFrames[n][s].is_free
               /\ m_freeFrames[n][s].seq \in received[Peer[n]]
    <3>1. /\ s \in Slots /\ ~ m_freeFrames[n][s].is_free
          /\ Covers(p, Wire(m_freeFrames[n][s].seq))
      BY Zenon DEF Acked
    <3>2. NumberUsed(n, m_freeFrames[n][s].seq)
      BY Zenon, <3>1 DEF AckInv, NumbersUsed
    <3>3. Wire(m_freeFrames[n][s].seq) = m_freeFrames[n][s].seq
      BY Zenon, <3>2, <1>HeaderIsNumber
    <3>4. m_freeFrames[n][s].seq \in AckRange(p)
      BY Zenon, <3>1, <3>3 DEF Covers, AckRange
    <3>5. QED
      BY Zenon, <3>1, <3>4 DEF AckInv, AckRanges
  <2>6. /\ \A s \in S : m_freeFrames'[n][s].is_free
        /\ \A s \in Slots \ S : m_freeFrames'[n][s] = m_freeFrames[n][s]
        /\ \A o \in Node \ {n} : m_freeFrames'[o] = m_freeFrames[o]
    <3>1. m_freeFrames' = [m_freeFrames EXCEPT ![n] = [s \in Slots |->
            IF s \in S THEN [m_freeFrames[n][s] EXCEPT !.is_free = TRUE, !.transaction = 0]
                       ELSE m_freeFrames[n][s]]]
      BY Zenon, <2>3 DEF ReleaseFrames
    <3>2. m_freeFrames \in [Node -> [Slots -> Frame]]
      BY Zenon DEF TypeInv, TypeOK
    <3>3. \A s \in S : s \in Slots /\ m_freeFrames[n][s] \in Frame
      BY Zenon, <2>5, <1>AckTypes
    <3> HIDE DEF S
    <3>4. QED
      BY Zenon, <3>1, <3>2, <3>3 DEF Frame
  <2>7. released' = [released EXCEPT ![n] = released[n] \cup
          {m_freeFrames[n][s].seq : s \in {y \in S : m_freeFrames[n][y].msg_count > 0}}]
    BY Zenon, <2>3 DEF ReleaseFrames
  <2> HIDE DEF S
  <2>8. \A o \in Node : \A s \in Slots : ~ m_freeFrames'[o][s].is_free =>
          m_freeFrames'[o][s] = m_freeFrames[o][s]
    BY Zenon, <2>6
  <2>9. /\ m_frameSeqRecord'[n][x].id = p.seq
        /\ p.msg_count > 0 => m_frameSeqRecord'[n][x].acked
        /\ \A o \in Node : \A s \in Slots : ~ (o = n /\ s = x) =>
             m_frameSeqRecord'[o][s] = m_frameSeqRecord[o][s]
    <3>1. m_frameSeqRecord \in [Node -> [Slots -> [id : Nat, acked : BOOLEAN]]]
      BY Zenon DEF TypeInv, TypeOK
    <3> HIDE DEF x
    <3>2. QED
      BY Zenon, <2>1, <2>3, <3>1
  <2>10. /\ \A o \in Node : received[o] \subseteq received'[o]
         /\ \A o \in Node \ {n} : received'[o] = received[o]
         /\ received'[n] \subseteq received[n] \cup {p.seq}
         /\ p.msg_count # 0 => p.seq \in received'[n]
         /\ p.msg_count = 0 => received' = received
    <3>1. received \in [Node -> SUBSET Nat]
      BY Zenon DEF TypeInv, TypeOK
    <3>2. QED
      BY Zenon, <2>4, <3>1
  <2>11. \A r \in net' : /\ r \in net /\ r # p /\ r.src \in Node /\ Slot(r.seq) \in Slots
                         /\ Peer[r.src] \in Node
                         /\ Peer[r.src] = n => r.seq # p.seq
    <3>1. \A r \in net' : r \in net /\ r # p /\ r.src \in Node /\ Slot(r.seq) \in Slots
                           /\ Peer[r.src] \in Node
      BY Zenon, <1>AckTypes
    <3>2. \A r \in net' : Peer[r.src] = n => r.src = p.src
      BY Zenon, <3>1, <1>AckTypes
    <3>3. QED
      BY Zenon, <3>1, <3>2 DEF AckInv, OneCopy
  <2>12. NumbersUsed'
    <3>1. \A r \in net' : NumberUsed(r.src, r.seq)
      BY Zenon, <2>11 DEF AckInv, NumbersUsed
    <3>2. \A o \in Node : \A f \in received'[o] : NumberUsed(Peer[o], f)
      <4>1. \A o \in Node : \A f \in received[o] : NumberUsed(Peer[o], f)
        BY Zenon DEF AckInv, NumbersUsed
      <4>2. NumberUsed(Peer[n], p.seq)
        BY Zenon, <2>1
      <4>3. \A f \in received'[n] : f \in received[n] \/ f = p.seq
        BY Zenon, <2>10
      <4>4. ASSUME NEW o \in Node, NEW f \in received'[o] PROVE NumberUsed(Peer[o], f)
        <5>1. CASE o = n
          BY Zenon, <4>1, <4>2, <4>3, <5>1
        <5>2. CASE o # n
          <6>1. f \in received[o]
            BY Zenon, <2>10, <5>2
          <6>2. QED
            BY Zenon, <4>1, <6>1
        <5>3. QED
          BY Zenon, <5>1, <5>2
      <4>5. QED
        BY Zenon, <4>4
    <3>3. \A o \in Node : \A s \in Slots : ~ m_freeFrames'[o][s].is_free =>
            NumberUsed(o, m_freeFrames'[o][s].seq) /\ Slot(m_freeFrames'[o][s].seq) = s
      BY Zenon, <2>8 DEF AckInv, NumbersUsed
    <3>4. \A o \in Node : \A s \in Slots : m_frameSeqRecord'[o][s].id # 0 =>
            /\ NumberUsed(Peer[o], m_frameSeqRecord'[o][s].id)
            /\ Slot(m_frameSeqRecord'[o][s].id) = s
      <4> SUFFICES ASSUME NEW o \in Node, NEW s \in Slots, m_frameSeqRecord'[o][s].id # 0
                   PROVE  /\ NumberUsed(Peer[o], m_frameSeqRecord'[o][s].id)
                          /\ Slot(m_frameSeqRecord'[o][s].id) = s
        BY Zenon
      <4>1. CASE o = n /\ s = x
        BY Zenon, <2>1, <2>9, <4>1
      <4>2. CASE ~ (o = n /\ s = x)
        <5>1. m_frameSeqRecord'[o][s] = m_frameSeqRecord[o][s]
          BY Zenon, <2>9, <4>2
        <5>2. QED
          BY Zenon, <5>1 DEF AckInv, NumbersUsed
      <4>3. QED
        BY Zenon, <4>1, <4>2
    <3>5. QED
      BY Zenon, <3>1, <3>2, <3>3, <3>4 DEF NumbersUsed, NumberUsed, Slot
  <2>13. /\ \A o \in Node \ {n} : m_acks'[o] = m_acks[o]
         /\ p.msg_count = 0 => m_acks'[n] = m_acks[n]
         /\ p.msg_count # 0 => m_acks'[n] = Append(m_acks[n], p.seq)
         /\ m_acks[n] \in Seq(Nat)
    BY Zenon, <2>4 DEF TypeInv, TypeOK
  <2>14. \A i \in DOMAIN m_acks[n] : m_acks[n][i] # p.seq
    BY Zenon, <2>1 DEF AckInv, OneCopy
  <2>c. p.msg_count # 0 => \E c \in Nat : GrownBy(m_acks[n], m_acks'[n], p.seq, c)
    <3>1. p.seq \in Nat
      BY Zenon, <2>1
    <3>2. QED
      BY Zenon, <2>13, <3>1, <1>AppendGrows
  <2>15. AcksDistinct'
    <3>0. /\ \A i \in DOMAIN m_acks[n] : m_acks[n][i] \in received[n]
          /\ \A i, j \in DOMAIN m_acks[n] : m_acks[n][i] = m_acks[n][j] => i = j
      BY Zenon DEF AckInv, AcksDistinct
    <3>1. /\ \A i \in DOMAIN m_acks'[n] : m_acks'[n][i] \in received'[n]
          /\ \A i, j \in DOMAIN m_acks'[n] : m_acks'[n][i] = m_acks'[n][j] => i = j
      <4>1. CASE p.msg_count = 0
        BY Zenon, <2>10, <2>13, <3>0, <4>1
      <4>2. CASE p.msg_count # 0
        <5>1. PICK c \in Nat : GrownBy(m_acks[n], m_acks'[n], p.seq, c)
          BY Zenon, <2>c, <4>2
        <5>2. \A i \in DOMAIN m_acks'[n] : m_acks'[n][i] \in received'[n]
          <6> SUFFICES ASSUME NEW i \in DOMAIN m_acks'[n] PROVE m_acks'[n][i] \in received'[n]
            BY Zenon
          <6>1. CASE i = c
            <7>1. m_acks'[n][i] = p.seq
              BY Zenon, <5>1, <6>1 DEF GrownBy
            <7>2. QED
              BY Zenon, <2>10, <4>2, <7>1
          <6>2. CASE i # c
            <7>1. i \in DOMAIN m_acks[n] /\ m_acks'[n][i] = m_acks[n][i]
              BY Zenon, <5>1, <6>2 DEF GrownBy
            <7>2. QED
              BY Zenon, <2>10, <3>0, <7>1
          <6>3. QED
            BY Zenon, <6>1, <6>2
        <5>3. \A i, j \in DOMAIN m_acks'[n] : m_acks'[n][i] = m_acks'[n][j] => i = j
          BY Zenon, <2>14, <3>0, <5>1 DEF GrownBy
        <5>4. QED
          BY Zenon, <5>2, <5>3
      <4>3. QED
        BY Zenon, <4>1, <4>2
    <3>3. QED
      BY Zenon, <2>10, <2>13, <3>1 DEF AckInv, AcksDistinct
  <2>16. OneCopy'
    <3> SUFFICES ASSUME NEW r \in net'
                 PROVE  /\ \A t \in net' : r.src = t.src /\ r.seq = t.seq => r = t
                        /\ \A i \in DOMAIN m_acks'[Peer[r.src]] : m_acks'[Peer[r.src]][i] # r.seq
      BY Zenon DEF OneCopy
    <3>1. \A t \in net' : r.src = t.src /\ r.seq = t.seq => r = t
      BY Zenon, <2>11 DEF AckInv, OneCopy
    <3>2. \A i \in DOMAIN m_acks[Peer[r.src]] : m_acks[Peer[r.src]][i] # r.seq
      BY Zenon, <2>11 DEF AckInv, OneCopy
    <3>3. CASE Peer[r.src] = n
      <4>1. \A i \in DOMAIN m_acks'[n] : m_acks'[n][i] # r.seq
        <5>1. r.seq # p.seq
          BY Zenon, <2>11, <3>3
        <5>2. CASE p.msg_count = 0
          BY Zenon, <2>13, <3>2, <3>3, <5>2
        <5>3. CASE p.msg_count # 0
          BY Zenon, <2>c, <3>2, <3>3, <5>1, <5>3 DEF GrownBy
        <5>4. QED
          BY Zenon, <5>2, <5>3
      <4>2. QED
        BY Zenon, <3>1, <3>3, <4>1
    <3>4. CASE Peer[r.src] # n
      BY Zenon, <2>11, <2>13, <3>1, <3>2, <3>4
    <3>5. QED
      BY Zenon, <3>3, <3>4
  <2>17. AckRanges'
    <3>1. \A r \in net' : AckRange(r) \subseteq received'[r.src]
      BY Zenon, <2>10, <2>11 DEF AckInv, AckRanges
    <3>2. \A o \in Node : \A s \in Slots : ~ m_freeFrames'[o][s].is_free =>
            AckRange(m_freeFrames'[o][s]) \subseteq received'[o]
      <4> SUFFICES ASSUME NEW o \in Node, NEW s \in Slots, ~ m_freeFrames'[o][s].is_free
                   PROVE  AckRange(m_freeFrames'[o][s]) \subseteq received'[o]
        BY Zenon
      <4>1. m_freeFrames'[o][s] = m_freeFrames[o][s] /\ ~ m_freeFrames[o][s].is_free
        BY Zenon, <2>8
      <4>2. AckRange(m_freeFrames[o][s]) \subseteq received[o]
        BY Zenon, <4>1 DEF AckInv, AckRanges
      <4>3. QED
        BY Zenon, <2>10, <4>1, <4>2
    <3>3. QED
      BY Zenon, <3>1, <3>2 DEF AckRanges, AckRange
  <2>18. RecordKnown'
    <3>1. ASSUME NEW r \in net', m_frameSeqRecord'[Peer[r.src]][Slot(r.seq)].id = r.seq
          PROVE  r.seq \in received'[Peer[r.src]]
      <4>1. r \in net /\ Peer[r.src] \in Node /\ Slot(r.seq) \in Slots
        BY Zenon, <2>11
      <4>2. ~ (Peer[r.src] = n /\ Slot(r.seq) = x)
        BY Zenon, <2>9, <2>11, <3>1
      <4>3. m_frameSeqRecord[Peer[r.src]][Slot(r.seq)].id = r.seq
        BY Zenon, <2>9, <3>1, <4>1, <4>2
      <4>4. r.seq \in received[Peer[r.src]]
        BY Zenon, <4>1, <4>3 DEF AckInv, RecordKnown
      <4>5. QED
        BY Zenon, <2>10, <4>1, <4>4
    <3>2. ASSUME NEW o \in Node, NEW s \in Slots, ~ m_freeFrames'[o][s].is_free,
                 m_frameSeqRecord'[Peer[o]][s].id = m_freeFrames'[o][s].seq
          PROVE  m_freeFrames'[o][s].seq \in received'[Peer[o]]
      <4>1. Peer[o] \in Node /\ (Peer[o] = n => o = p.src)
        BY Zenon, <1>AckTypes
      <4>2. CASE Peer[o] = n /\ s = x
        <5>1. p.msg_count # 0
          <6>1. m_freeFrames'[o][s] = m_freeFrames[o][s]
            BY Zenon, <2>8, <3>2
          <6>2. o = p.src /\ ~ m_freeFrames[o][s].is_free /\ m_freeFrames[o][s].seq = p.seq
            BY Zenon, <2>9, <3>2, <4>1, <4>2, <6>1
          <6>3. QED
            BY Zenon, <6>2 DEF AckInv, AckOnly
        <5>2. QED
          BY Zenon, <2>9, <2>10, <3>2, <4>2, <5>1
      <4>3. CASE ~ (Peer[o] = n /\ s = x)
        <5>1. m_freeFrames'[o][s] = m_freeFrames[o][s]
          BY Zenon, <2>8, <3>2
        <5>2. m_frameSeqRecord[Peer[o]][s].id = m_freeFrames[o][s].seq
          BY Zenon, <2>9, <3>2, <4>1, <4>3, <5>1
        <5>3. m_freeFrames[o][s].seq \in received[Peer[o]]
          BY Zenon, <3>2, <5>1, <5>2 DEF AckInv, RecordKnown
        <5>4. QED
          BY Zenon, <2>10, <4>1, <5>1, <5>3
      <4>4. QED
        BY Zenon, <4>2, <4>3
    <3>3. ASSUME NEW o \in Node, NEW s \in Slots, m_frameSeqRecord'[o][s].id \in received'[o]
          PROVE  m_frameSeqRecord'[o][s].acked
      <4>1. CASE o = n /\ s = x
        <5>1. p.msg_count # 0
          BY Zenon, <2>1, <2>9, <2>10, <3>3, <4>1 DEF AckInv, AckOnly
        <5>2. p.msg_count > 0
          BY <2>1, <5>1
        <5>3. QED
          BY Zenon, <2>9, <4>1, <5>2
      <4>2. CASE ~ (o = n /\ s = x)
        <5>1. m_frameSeqRecord'[o][s] = m_frameSeqRecord[o][s]
          BY Zenon, <2>9, <4>2
        <5>2. o = n => m_frameSeqRecord[o][s].id # p.seq
          BY Zenon, <2>1, <4>2 DEF AckInv, NumbersUsed
        <5>3. m_frameSeqRecord[o][s].id \in received[o]
          BY Zenon, <2>10, <3>3, <5>1, <5>2
        <5>4. QED
          BY Zenon, <5>1, <5>3 DEF AckInv, RecordKnown
      <4>3. QED
        BY Zenon, <4>1, <4>2
    <3>4. QED
      BY Zenon, <3>1, <3>2, <3>3 DEF RecordKnown, Slot
  <2>19. AckOnly'
    <3> SUFFICES ASSUME NEW r \in net', r.msg_count = 0
                 PROVE  /\ r.seq \notin received'[Peer[r.src]]
                        /\ \A s \in Slots : ~ m_freeFrames'[r.src][s].is_free =>
                                             m_freeFrames'[r.src][s].seq # r.seq
      BY Zenon DEF AckOnly
    <3>1. r.seq \notin received[Peer[r.src]]
      BY Zenon, <2>11 DEF AckInv, AckOnly
    <3>2. r.seq \notin received'[Peer[r.src]]
      BY Zenon, <2>10, <2>11, <3>1
    <3>3. QED
      <4>1. r \in net /\ r.src \in Node
        BY Zenon, <2>11
      <4>2. \A s \in Slots : ~ m_freeFrames[r.src][s].is_free => m_freeFrames[r.src][s].seq # r.seq
        BY Zenon, <4>1 DEF AckInv, AckOnly
      <4>3. QED
        BY Zenon, <2>8, <3>2, <4>1, <4>2
  <2>20. PostHolds'
    <3> SUFFICES ASSUME NEW o \in Node, NEW s \in Slots
                 PROVE  LET h == m_freeFrames'[o][s] IN
                        /\ HeldByPost(o, s) =>
                             /\ ~ h.is_free /\ h.send_time = "stale"
                             /\ app[o].phase = "filled" => h.msg_count > 0
                             /\ h.seq \notin received'[Peer[o]]
                             /\ \A r \in net' : ~ (r.src = o /\ r.seq = h.seq)
                        /\ ~ h.is_free /\ ~ HeldByPost(o, s) => h.send_time = "set" /\ h.msg_count > 0
      BY Zenon DEF PostHolds, HeldByPost
    <3>1. CASE HeldByPost(o, s)
      <4>1. /\ ~ m_freeFrames[o][s].is_free /\ m_freeFrames[o][s].send_time = "stale"
            /\ app[o].phase = "filled" => m_freeFrames[o][s].msg_count > 0
            /\ m_freeFrames[o][s].seq \notin received[Peer[o]]
            /\ \A r \in net : ~ (r.src = o /\ r.seq = m_freeFrames[o][s].seq)
        BY Zenon, <3>1 DEF AckInv, PostHolds
      <4>2. m_freeFrames'[o][s] = m_freeFrames[o][s]
        BY Zenon, <2>5, <2>6, <4>1
      <4>3. Peer[o] \in Node /\ (Peer[o] = n => o = p.src)
        BY Zenon, <1>AckTypes
      <4>4. m_freeFrames[o][s].seq \notin received'[Peer[o]]
        BY Zenon, <2>10, <4>1, <4>3
      <4>5. QED
        BY Zenon, <2>11, <3>1, <4>1, <4>2, <4>4
    <3>2. CASE ~ HeldByPost(o, s)
      BY Zenon, <2>8, <3>2 DEF AckInv, PostHolds
    <3>3. QED
      BY Zenon, <3>1, <3>2
  <2>21. ReleasedWasReceived'
    <3>1. released \in [Node -> SUBSET Nat]
      BY Zenon DEF TypeInv, TypeOK
    <3>2. \A o \in Node \ {n} : released'[o] = released[o]
      BY Zenon, <2>7, <3>1
    <3>3. released'[n] \subseteq released[n] \cup received[Peer[n]]
      BY Zenon, <2>5, <2>7, <3>1 DEF S
    <3>4. \A o \in Node : Peer[o] \in Node
      BY Zenon, <1>AckTypes
    <3>5. QED
      BY Zenon, <2>10, <3>2, <3>3, <3>4 DEF AckInv, ReleasedWasReceived
  <2>22. NoDupAbort'
    BY Zenon, <2>3 DEF AckInv, NoDupAbort
  <2>23. QED
    BY Zenon, <2>12, <2>15, <2>16, <2>17, <2>18, <2>19, <2>20, <2>21, <2>22 DEF AckInv
\* A step that at most loses datagrams, moves post() where it holds no frame,
\* or stops a node for another reason than a duplicate.
<1>QuietAck.
  ASSUME TypeInv, AckInv, net' \subseteq net,
         UNCHANGED <<m_frameSeq, m_freeFrames, m_acks, m_frameSeqRecord, received, released>>,
         \A n \in Node : \A s \in Slots : HeldByPost(n, s)' <=> HeldByPost(n, s),
         \A n \in Node : app'[n].phase = "filled" <=> app[n].phase = "filled",
         \A n \in Node : aborted'[n] = "dup" => aborted[n] = "dup"
  PROVE  AckInv'
  <2> USE <1>QuietAck
  <2>1. NumbersUsed' /\ OneCopy' /\ AcksDistinct'
    BY Zenon DEF AckInv, NumbersUsed, NumberUsed, Slot, OneCopy, AcksDistinct
  <2>2. AckRanges' /\ RecordKnown' /\ AckOnly'
    BY Zenon DEF AckInv, AckRanges, AckRange, RecordKnown, Slot, AckOnly
  <2>3. PostHolds'
    BY Zenon, <1>QuietPost DEF AckInv
  <2>4. ReleasedWasReceived' /\ NoDupAbort'
    BY Zenon DEF AckInv, ReleasedWasReceived, NoDupAbort
  <2>5. QED
    BY Zenon, <2>1, <2>2, <2>3, <2>4 DEF AckInv
<1> SUFFICES ASSUME TypeInv, AckInv, [Next]_vars PROVE AckInv'
  BY Zenon
<1>1. ASSUME NEW n \in Node, StartPost(n) PROVE AckInv'
  <2>1. /\ app' = [app EXCEPT ![n] = [k |-> app[n].k + 1, msg |-> 0, phase |-> "loop", slot |-> 0]]
        /\ app[n].phase = "idle"
        /\ UNCHANGED <<m_frameSeq, m_freeFrames, m_acks, m_frameSeqRecord, net, aborted,
                       received, released>>
    BY Zenon, <1>1 DEF StartPost
  <2>2. app \in [Node -> AppState]
    BY Zenon DEF TypeInv, TypeOK
  <2>3. app'[n].phase = "loop" /\ \A o \in Node \ {n} : app'[o] = app[o]
    BY Zenon, <2>1, <2>2
  <2>4. QED
    BY Zenon, <2>1, <2>3, <1>QuietAck DEF HeldByPost
<1>2. ASSUME NEW n \in Node, WindowAbort(n) PROVE AckInv'
  <2>1. \A o \in Node : aborted'[o] = "dup" => aborted[o] = "dup"
    BY Zenon, <1>2 DEF WindowAbort, TypeInv, TypeOK
  <2>2. QED
    BY Zenon, <1>2, <2>1, <1>QuietAck DEF WindowAbort, HeldByPost
<1>3. ASSUME NEW n \in Node, GetFrame(n) PROVE AckInv'
  BY Zenon, <1>2, <1>3, <1>GetFrameAck
<1>4. ASSUME NEW n \in Node, FillFrame(n) PROVE AckInv'
  BY Zenon, <1>4, <1>FillFrameAck
<1>5. ASSUME NEW n \in Node, PostFrame(n) PROVE AckInv'
  BY Zenon, <1>5, <1>PostFrameAck
<1>6. ASSUME NEW n \in Node, CheckAcks(n) PROVE AckInv'
  BY Zenon, <1>6, <1>CheckAcksAck
<1>7. ASSUME NEW n \in Node, SendAcks(n) PROVE AckInv'
  BY Zenon, <1>2, <1>7, <1>SendAcksAck
<1>8. ASSUME NEW n \in Node, ProcessFrame(n) PROVE AckInv'
  <2>1. PICK p \in net : /\ p.src = Peer[n] /\ net' = net \ {p}
                         /\ ProcessDup(n, p) \/ ProcessNew(n, p)
    BY Zenon, <1>8 DEF ProcessFrame
  <2>2. UNCHANGED <<m_frameSeq, app>>
    BY Zenon, <1>8 DEF ProcessFrame
  <2>3. QED
    BY Zenon, <2>1, <2>2, <1>ProcessDupAck, <1>ProcessNewAck
<1>9. ASSUME NEW n \in Node, ProcessMsg(n) PROVE AckInv'
  <2>1. \A o \in Node : aborted'[o] = "dup" => aborted[o] = "dup"
    <3>1. aborted' = aborted \/ aborted' = [aborted EXCEPT ![n] = "inplay"]
      BY Zenon, <1>9 DEF ProcessMsg
    <3>2. QED
      BY Zenon, <3>1 DEF TypeInv, TypeOK
  <2>2. UNCHANGED <<m_frameSeq, m_freeFrames, m_acks, m_frameSeqRecord, received, released,
                    app, net>>
    BY Zenon, <1>9 DEF ProcessMsg
  <2>3. QED
    BY Zenon, <2>1, <2>2, <1>QuietAck DEF HeldByPost
<1>10. ASSUME Lose PROVE AckInv'
  <2>1. net' \subseteq net
    BY Zenon, <1>10 DEF Lose
  <2>2. QED
    BY Zenon, <1>10, <2>1, <1>QuietAck DEF Lose, HeldByPost
<1>11. ~ Duplicate
  BY DEF Duplicate, ConservativeTiming, TypeInv, TypeOK
<1>12. CASE UNCHANGED vars
  BY Zenon, <1>12, <1>QuietAck DEF vars, HeldByPost
<1>13. QED
  BY Zenon, <1>1, <1>3, <1>4, <1>5, <1>6, <1>7, <1>8, <1>9, <1>10, <1>11, <1>12
  DEF Next, NodeStep, AppStep

-----------------------------------------------------------------------------
(***************************************************************************)
(* The ring (SilentRing, BusyRing).                                        *)
(***************************************************************************)

\* The two processes are each other's peers.
LEMMA PeerOfPeer ==
  \A n \in Node : Peer[n] \in Node /\ Peer[n] # n /\ Peer[Peer[n]] = n
BY Zenon, NodeAssumption

\* A node in the middle of post() has something to post.
LEMMA PostIsNotSilent ==
  ASSUME TypeInv, NEW n \in Node, app[n].phase # "idle" PROVE ~ Silent(n)
<1>1. app[n].k \in 1 .. Len(Msgs[n])
  BY Zenon DEF TypeInv, PostInRange
<1>2. QED
  BY <1>1 DEF Silent

\* Nobody acknowledges a silent node.
LEMMA SilentAcks ==
  ASSUME SilentRing, NEW n \in Node, Silent(Peer[n])
  PROVE  m_acks[n] = <<>> /\ \A s \in Slots : ~ m_frameSeqRecord[n][s].acked
<1>1. Peer[n] \in Node /\ Peer[Peer[n]] = n
  BY Zenon, PeerOfPeer
<1>2. /\ m_acks[Peer[Peer[n]]] = <<>>
      /\ \A s \in Slots : ~ m_frameSeqRecord[Peer[Peer[n]]][s].acked
  BY Zenon, <1>1 DEF SilentRing
<1>3. QED
  BY Zenon, <1>1, <1>2

\* The constructors leave all frames free and nothing to acknowledge.
LEMMA InitRing == ASSUME Init PROVE RingInv
<1>1. \A n \in Node : \A s \in Slots : m_freeFrames[n][s].is_free
  BY Zenon DEF Init, FreeFrame
<1>2. \A n \in Node : m_acks[n] = <<>>
  BY Zenon DEF Init
<1>3. \A n \in Node : \A s \in Slots : ~ m_frameSeqRecord[n][s].acked
  BY Zenon DEF Init
<1>4. net = {} /\ \A n \in Node : aborted[n] # "window"
  BY DEF Init
<1>5. SilentRing
  BY Zenon, <1>1, <1>2, <1>3, <1>4, PeerOfPeer DEF SilentRing
<1>6. QED
  BY Zenon, <1>1, <1>4, <1>5 DEF RingInv, BusyRing, BusyAt, RingHolds

\* What a silent node keeps, sends and receives stays so when no frame is
\* claimed by it, nothing with messages is sent by it, and its peer adds
\* nothing to its queue and records.
LEMMA SilentKept ==
  ASSUME SilentRing,
         \A n \in Node : \A s \in Slots : Silent(n) /\ m_freeFrames[n][s].is_free => m_freeFrames'[n][s].is_free,
         \A p \in net' : p \in net \/ ~ Silent(p.src) \/ p.msg_count = 0,
         \A n \in Node : Silent(Peer[n]) /\ m_acks[n] = <<>> => m_acks'[n] = <<>>,
         \A n \in Node : \A s \in Slots : Silent(Peer[n]) /\ ~ m_frameSeqRecord[n][s].acked =>
           ~ m_frameSeqRecord'[n][s].acked
  PROVE  SilentRing'
<1> SUFFICES ASSUME NEW n \in Node, Silent(n)
             PROVE  /\ \A s \in Slots : m_freeFrames'[n][s].is_free
                    /\ \A p \in net' : p.src = n => p.msg_count = 0
                    /\ m_acks'[Peer[n]] = <<>>
                    /\ \A s \in Slots : ~ m_frameSeqRecord'[Peer[n]][s].acked
  BY Zenon DEF SilentRing, Silent
<1>1. \A s \in Slots : m_freeFrames'[n][s].is_free
  BY Zenon DEF SilentRing
<1>2. ASSUME NEW p \in net', p.src = n PROVE p.msg_count = 0
  BY Zenon, <1>2 DEF SilentRing
<1>3. Peer[n] \in Node /\ Silent(Peer[Peer[n]])
  BY Zenon, PeerOfPeer
<1>4. m_acks'[Peer[n]] = <<>>
  BY Zenon, <1>3 DEF SilentRing
<1>5. \A s \in Slots : ~ m_frameSeqRecord'[Peer[n]][s].acked
  BY Zenon, <1>3 DEF SilentRing
<1>6. QED
  BY Zenon, <1>1, <1>2, <1>4, <1>5

\* The application's steps and the timers.
LEMMA SilentSend ==
  ASSUME TypeInv, SilentRing, NEW n \in Node, AppStep(n) \/ CheckAcks(n) \/ SendAcks(n)
  PROVE  SilentRing'
<1>T. /\ m_freeFrames \in [Node -> [Slots -> Frame]]
      /\ m_acks \in [Node -> Seq(Nat)]
  BY Zenon DEF TypeInv, TypeOK
<1>1. CASE StartPost(n) \/ (m_freeFrames' = m_freeFrames /\ net' = net /\ m_acks' = m_acks
                             /\ m_frameSeqRecord' = m_frameSeqRecord)
  <2>1. m_freeFrames' = m_freeFrames /\ net' = net /\ m_acks' = m_acks
        /\ m_frameSeqRecord' = m_frameSeqRecord
    BY Zenon, <1>1 DEF StartPost
  <2>2. QED
    BY Zenon, <2>1, SilentKept
<1>2. ASSUME NEW f, NEW c PROVE PacketOf(n, f, c).src = n
  BY Zenon DEF PacketOf
<1>3. CASE GetFrame(n)
  <2>0. ~ Silent(n)
    BY Zenon, <1>3, PostIsNotSilent DEF GetFrame
  <2>1. CASE WindowAbort(n)
    BY Zenon, <1>1, <2>1 DEF WindowAbort
  <2>2. CASE ~ WindowAbort(n)
    <3>1. \A m \in Node : \A r \in Slots : Silent(m) => m_freeFrames'[m][r] = m_freeFrames[m][r]
      BY Zenon, <1>3, <2>0, <2>2, <1>T DEF GetFrame
    <3>2. \A p \in net' : p \in net
      BY Zenon, <1>3, <2>2 DEF GetFrame, Alive
    <3>3. \A m \in Node : m_acks[m] = <<>> => m_acks'[m] = <<>>
      BY Zenon, <1>3, <2>2, <1>T DEF GetFrame, AcksLeft
    <3>4. m_frameSeqRecord' = m_frameSeqRecord
      BY Zenon, <1>3, <2>2 DEF GetFrame
    <3>5. QED
      BY Zenon, <3>1, <3>2, <3>3, <3>4, SilentKept
  <2>3. QED
    BY Zenon, <2>1, <2>2
<1>4. CASE FillFrame(n)
  <2>0. ~ Silent(n)
    BY Zenon, <1>4, PostIsNotSilent DEF FillFrame
  <2>1. \A m \in Node : \A r \in Slots : Silent(m) => m_freeFrames'[m][r] = m_freeFrames[m][r]
    BY Zenon, <1>4, <2>0, <1>T DEF FillFrame
  <2>2. net' = net /\ m_acks' = m_acks /\ m_frameSeqRecord' = m_frameSeqRecord
    BY Zenon, <1>4 DEF FillFrame
  <2>3. QED
    BY Zenon, <2>1, <2>2, SilentKept
<1>5. CASE PostFrame(n)
  <2>0. ~ Silent(n)
    BY Zenon, <1>5, PostIsNotSilent DEF PostFrame
  <2>1. \A m \in Node : \A r \in Slots : Silent(m) => m_freeFrames'[m][r] = m_freeFrames[m][r]
    BY Zenon, <1>5, <2>0, <1>T DEF PostFrame
  <2>2. \A p \in net' : p \in net \/ p.src = n
    BY Zenon, <1>2, <1>5 DEF PostFrame
  <2>3. m_acks' = m_acks /\ m_frameSeqRecord' = m_frameSeqRecord
    BY Zenon, <1>5 DEF PostFrame
  <2>4. QED
    BY Zenon, <2>0, <2>1, <2>2, <2>3, SilentKept
<1>6. CASE CheckAcks(n)
  <2>0. ~ Silent(n)
    BY Zenon, <1>6 DEF CheckAcks, SilentRing
  <2>1. \A m \in Node : \A r \in Slots : Silent(m) => m_freeFrames'[m][r] = m_freeFrames[m][r]
    BY Zenon, <1>6, <2>0, <1>T DEF CheckAcks
  <2>2. \A p \in net' : p \in net \/ p.src = n
    <3>1. PICK s \in Slots : net' = net \cup {PacketOf(n, m_freeFrames[n][s], m_freeFrames[n][s].sends + 1)}
      BY Zenon, <1>6 DEF CheckAcks
    <3>2. QED
      BY Zenon, <1>2, <3>1
  <2>3. m_acks' = m_acks /\ m_frameSeqRecord' = m_frameSeqRecord
    BY Zenon, <1>6 DEF CheckAcks
  <2>4. QED
    BY Zenon, <2>0, <2>1, <2>2, <2>3, SilentKept
<1>7. CASE SendAcks(n)
  <2>1. CASE WindowAbort(n)
    BY Zenon, <1>1, <2>1 DEF WindowAbort
  <2>2. CASE ~ WindowAbort(n)
    <3> DEFINE f == m_frameSeq[n]
               g == [NewFrame(n, f) EXCEPT !.is_free = TRUE, !.send_time = "set"]
    <3>1. g.is_free
      BY Zenon DEF NewFrame, FreeFrame
    <3>2. m_freeFrames' = [m_freeFrames EXCEPT ![n][Slot(f)] = g]
      BY Zenon, <1>7, <2>2 DEF SendAcks
    <3> HIDE DEF g
    <3>3. \A m \in Node : \A r \in Slots : m_freeFrames[m][r].is_free => m_freeFrames'[m][r].is_free
      BY Zenon, <3>1, <3>2, <1>T
    <3>4. PICK P : P = PacketOf(n, NewFrame(n, f), 1)
      BY Zenon
    <3>5. P.msg_count = 0
      BY Zenon, <3>4 DEF PacketOf, NewFrame, FreeFrame
    <3>6. net' = Alive(n, f) \cup {P}
      BY Zenon, <1>7, <2>2, <3>4 DEF SendAcks
    <3>7. \A p \in net' : p \in net \/ p.msg_count = 0
      BY Zenon, <3>5, <3>6 DEF Alive
    <3>8. \A m \in Node : m_acks[m] = <<>> => m_acks'[m] = <<>>
      BY Zenon, <1>7, <2>2, <1>T DEF SendAcks
    <3>9. m_frameSeqRecord' = m_frameSeqRecord
      BY Zenon, <1>7, <2>2 DEF SendAcks
    <3>10. QED
      BY Zenon, <3>3, <3>7, <3>8, <3>9, SilentKept
  <2>3. QED
    BY Zenon, <2>1, <2>2
<1>8. QED
  BY Zenon, <1>1, <1>3, <1>4, <1>5, <1>6, <1>7 DEF AppStep

\* A frame that arrives.
LEMMA SilentReceive ==
  ASSUME TypeInv, SilentRing, NEW n \in Node, ProcessFrame(n) PROVE SilentRing'
<1>T. /\ m_freeFrames \in [Node -> [Slots -> Frame]]
      /\ m_acks \in [Node -> Seq(Nat)]
      /\ m_frameSeqRecord \in [Node -> [Slots -> [id : Nat, acked : BOOLEAN]]]
  BY Zenon DEF TypeInv, TypeOK
<1>1. PICK p \in net : /\ p.src = Peer[n] /\ net' = net \ {p}
                       /\ ProcessDup(n, p) \/ ProcessNew(n, p)
  BY Zenon DEF ProcessFrame
<1>2. \A q \in net' : q \in net
  BY Zenon, <1>1
<1>3. CASE ProcessDup(n, p)
  <2>1. m_freeFrames' = m_freeFrames /\ m_frameSeqRecord' = m_frameSeqRecord
    BY Zenon, <1>3 DEF ProcessDup
  <2>2. Slot(p.seq) \in Slots
    BY Zenon, <1>1, SlotInRing DEF TypeInv, TypeOK, Packet
  <2>3. ASSUME NEW m \in Node, Silent(Peer[m]) PROVE m_acks'[m] = m_acks[m]
    <3>1. CASE m = n
      <4>1. ~ m_frameSeqRecord[n][Slot(p.seq)].acked
        BY Zenon, <2>2, <2>3, <3>1, SilentAcks
      <4>2. m_acks' = m_acks
        BY Zenon, <1>3, <4>1 DEF ProcessDup
      <4>3. QED
        BY Zenon, <4>2
    <3>2. CASE m # n
      BY Zenon, <1>3, <3>2, <1>T DEF ProcessDup
    <3>3. QED
      BY Zenon, <3>1, <3>2
  <2>4. QED
    BY Zenon, <1>2, <2>1, <2>3, SilentKept
<1>4. CASE ProcessNew(n, p)
  <2>1. \A m \in Node : \A r \in Slots : m_freeFrames[m][r].is_free => m_freeFrames'[m][r].is_free
    <3>1. PICK S : m_freeFrames' = [m_freeFrames EXCEPT ![n] = [s \in Slots |->
            IF s \in S THEN [@[s] EXCEPT !.is_free = TRUE, !.transaction = 0] ELSE @[s]]]
      BY Zenon, <1>4 DEF ProcessNew, ReleaseFrames
    <3>2. \A m \in Node : m # n => m_freeFrames'[m] = m_freeFrames[m]
      BY Zenon, <3>1, <1>T
    <3>3. \A r \in Slots : m_freeFrames'[n][r] = IF r \in S
            THEN [m_freeFrames[n][r] EXCEPT !.is_free = TRUE, !.transaction = 0] ELSE m_freeFrames[n][r]
      BY Zenon, <3>1, <1>T
    <3>4. \A r \in Slots : m_freeFrames[n][r] \in Frame
      BY Zenon, <1>T
    <3>5. \A r \in Slots : m_freeFrames[n][r].is_free => m_freeFrames'[n][r].is_free
      BY Zenon, <3>3, <3>4 DEF Frame
    <3>6. QED
      BY Zenon, <3>2, <3>5
  <2>2. ASSUME NEW m \in Node, Silent(Peer[m])
        PROVE  m_acks'[m] = m_acks[m] /\ \A s \in Slots :
                 ~ m_frameSeqRecord[m][s].acked => ~ m_frameSeqRecord'[m][s].acked
    <3>1. CASE m = n
      <4>1. p.msg_count = 0
        BY Zenon, <1>1, <2>2, <3>1, PeerOfPeer DEF SilentRing
      <4>2. m_acks' = m_acks
        BY Zenon, <1>4, <4>1 DEF ProcessNew
      <4>3. ~ (p.msg_count > 0)
        BY <4>1
      <4>4. m_frameSeqRecord' = [m_frameSeqRecord EXCEPT ![n][Slot(p.seq)] =
              [id |-> Wire(p.seq), acked |-> m_frameSeqRecord[n][Slot(p.seq)].acked \/ p.msg_count > 0]]
        BY Zenon, <1>4 DEF ProcessNew
      <4>5. \A s \in Slots : ~ m_frameSeqRecord[n][s].acked => ~ m_frameSeqRecord'[n][s].acked
        BY Zenon, <4>3, <4>4, <1>T
      <4>6. QED
        BY Zenon, <3>1, <4>2, <4>5
    <3>2. CASE m # n
      BY Zenon, <1>4, <3>2, <1>T DEF ProcessNew
    <3>3. QED
      BY Zenon, <3>1, <3>2
  <2>3. QED
    BY Zenon, <1>2, <2>1, <2>2, SilentKept
<1>5. QED
  BY Zenon, <1>1, <1>3, <1>4

\* A side that posts nothing stays without busy frames and messages.
LEMMA SilentStep == ASSUME TypeInv, SilentRing, [Next]_vars PROVE SilentRing'
<1>1. ASSUME NEW n \in Node, ProcessMsg(n) PROVE SilentRing'
  <2>1. m_freeFrames' = m_freeFrames /\ net' = net /\ m_acks' = m_acks
        /\ m_frameSeqRecord' = m_frameSeqRecord
    BY Zenon, <1>1 DEF ProcessMsg
  <2>2. QED
    BY Zenon, <2>1, SilentKept
<1>2. CASE Lose \/ Duplicate \/ UNCHANGED vars
  <2>1. m_freeFrames' = m_freeFrames /\ m_acks' = m_acks /\ m_frameSeqRecord' = m_frameSeqRecord
    BY Zenon, <1>2 DEF Lose, Duplicate, vars
  <2>2. CASE Lose \/ UNCHANGED vars
    <3>1. \A p \in net' : p \in net
      BY Zenon, <2>2 DEF Lose, vars
    <3>2. QED
      BY Zenon, <2>1, <3>1, SilentKept
  <2>3. CASE Duplicate
    <3>1. PICK p \in net : net' = net \cup {[p EXCEPT !.dup = dups + 1]}
      BY Zenon, <2>3 DEF Duplicate
    <3>2. PICK q : q = [p EXCEPT !.dup = dups + 1]
      BY Zenon
    <3>3. p \in Packet
      BY Zenon DEF TypeInv, TypeOK
    <3>4. q.src = p.src /\ q.msg_count = p.msg_count /\ p.src \in Node
      BY Zenon, <3>2, <3>3 DEF Packet
    <3>5. ~ Silent(q.src) \/ q.msg_count = 0
      BY Zenon, <3>4 DEF SilentRing
    <3>6. \A r \in net' : r \in net \/ ~ Silent(r.src) \/ r.msg_count = 0
      BY Zenon, <3>1, <3>2, <3>5
    <3>7. QED
      BY Zenon, <2>1, <3>6, SilentKept
  <2>4. QED
    BY Zenon, <1>2, <2>2, <2>3
<1>3. QED
  BY Zenon, <1>1, <1>2, SilentSend, SilentReceive DEF Next, NodeStep

\* A frame that is not claimed and keeps its number, its transaction and its
\* messages, while post() of its node does not move.
LEMMA BusyKept ==
  ASSUME NEW n \in Node, NEW s \in Slots, BusyAt(n, s),
         app'[n] = app[n], m_frameSeq'[n] = m_frameSeq[n],
         ~ m_freeFrames'[n][s].is_free =>
           /\ ~ m_freeFrames[n][s].is_free
           /\ m_freeFrames'[n][s].seq = m_freeFrames[n][s].seq
           /\ m_freeFrames'[n][s].transaction = m_freeFrames[n][s].transaction
           /\ m_freeFrames'[n][s].msg_count = m_freeFrames[n][s].msg_count
  PROVE  BusyAt(n, s)'
<1>1. Filling(n)' = Filling(n)
  BY Zenon DEF Filling
<1>2. QED
  BY Zenon, <1>1 DEF BusyAt, Abreast, msgCount

\* The number of a frame, and of the next one, and the messages posted.
LEMMA RingTypes ==
  ASSUME TypeInv, NEW n \in Node
  PROVE  /\ m_frameSeq[n] \in Nat \ {0} /\ app[n].msg \in Nat
         /\ \A s \in Slots : m_freeFrames[n][s] \in Frame /\ m_freeFrames[n][s].seq \in Nat
<1>1. m_frameSeq[n] \in Nat \ {0} /\ app[n] \in AppState
  BY Zenon DEF TypeInv, TypeOK
<1>2. \A s \in Slots : m_freeFrames[n][s] \in Frame
  <2>1. m_freeFrames \in [Node -> [Slots -> Frame]]
    BY Zenon DEF TypeInv, TypeOK
  <2>2. QED
    BY Zenon, <2>1
<1>3. app[n].msg \in Nat
  BY Zenon, <1>1 DEF AppState
<1>4. \A f \in Frame : f.seq \in Nat
  BY Zenon DEF Frame
<1>5. QED
  BY Zenon, <1>1, <1>2, <1>3, <1>4

\* A full frame moves post() on by as many messages as fit.
LEMMA OneFrameOn ==
  ASSUME NEW q \in Nat, NEW z, z = q + 1,
         NEW x \in Nat, NEW m \in Nat, NEW c \in Nat, x <= q, m >= (q - x) * c
  PROVE  m + c >= (z - x) * c
<1>1. PICK d \in Nat : d = q - x
  OBVIOUS
<1>2. z - x = d + 1 /\ m >= d * c
  BY <1>1
<1>3. (d + 1) * c = d * c + c
  BY Z3
<1>4. d * c \in Nat
  BY Z3
<1>5. QED
  BY <1>2, <1>3, <1>4

\* post() starts on a transfer: no frame is busy, since a busy frame holds
\* messages of the last transfer, all of which are acknowledged.
LEMMA BusyStart ==
  ASSUME RingSuffices, TypeInv, CountInv, CompleteIsAllAcked, BusyRing, NEW n \in Node, StartPost(n)
  PROVE  BusyRing'
<1>1. ASSUME NEW s \in Slots, ~ m_freeFrames[n][s].is_free PROVE FALSE
  <2> DEFINE f == m_freeFrames[n][s]
             k == app[n].k
             t == <<n, k>>
  <2>1. f \in Frame /\ app[n].phase = "idle"
    BY Zenon, RingTypes DEF StartPost
  <2>2. f.transaction = k /\ f.msg_count # 0
    BY <1>1, <2>1 DEF BusyRing, BusyAt, Abreast
  <2>3. /\ k \in 1 .. Len(Msgs[n])
        /\ f.msg_start + f.msg_count <= msgCount(t)
        /\ MsgsIn(f) \cap ack[t] = {}
    BY Zenon, <1>1, <2>2 DEF CountInv, BusyFrame
  <2>4. t \in Transaction /\ msgCount(t) \in Nat
    BY Zenon, <2>3, TransactionType
  <2>5. k > 0
    BY <2>3, NodeAssumption
  <2>6. Complete(t)
    BY Zenon, <2>5 DEF StartPost, RingSuffices
  <2>7. ack[t] = 1 .. msgCount(t)
    BY Zenon, <2>4, <2>6 DEF CompleteIsAllAcked
  <2>8. f.msg_start \in Nat /\ f.msg_count \in Nat
    BY Zenon, <2>1 DEF Frame
  <2> HIDE DEF f, t, k
  <2>9. f.msg_start + 1 \in MsgsIn(f) /\ f.msg_start + 1 \in 1 .. msgCount(t)
    BY <2>2, <2>3, <2>4, <2>8 DEF MsgsIn
  <2>10. QED
    BY Zenon, <2>3, <2>7, <2>9
<1>2. m_freeFrames' = m_freeFrames /\ m_frameSeq' = m_frameSeq
      /\ \A m \in Node : m # n => app'[m] = app[m]
  BY Zenon DEF StartPost, TypeInv, TypeOK
<1>3. ASSUME NEW m \in Node, NEW s \in Slots PROVE BusyAt(m, s)'
  <2>1. CASE m = n
    BY Zenon, <1>1, <1>2, <2>1 DEF BusyAt
  <2>2. CASE m # n
    BY Zenon, <1>2, <2>2, BusyKept DEF BusyRing
  <2>3. QED
    BY Zenon, <2>1, <2>2
<1>4. QED
  BY Zenon, <1>3 DEF BusyRing

\* post() claims a frame.
LEMMA BusyClaim ==
  ASSUME TypeInv, BusyRing, NEW n \in Node, GetFrame(n), ~ WindowAbort(n)
  PROVE  BusyRing'
<1> DEFINE q == m_frameSeq[n]
           g == [NewFrame(n, q) EXCEPT !.transaction = app[n].k, !.msg_start = app[n].msg]
<1>T. /\ m_freeFrames \in [Node -> [Slots -> Frame]] /\ app \in [Node -> AppState]
      /\ m_frameSeq \in [Node -> Nat \ {0}]
  BY Zenon DEF TypeInv, TypeOK
<1>0. q \in Nat /\ q # 0 /\ app[n].msg \in Nat /\ MsgsPerFrame \in Nat
  BY Zenon, RingTypes, SizeAssumption
<1>1. g.seq = q /\ g.transaction = app[n].k
  BY Zenon DEF NewFrame, FreeFrame
<1>2. /\ m_freeFrames' = [m_freeFrames EXCEPT ![n][Slot(q)] = g]
      /\ m_frameSeq' = [m_frameSeq EXCEPT ![n] = q + 1]
      /\ app' = [app EXCEPT ![n] = [app[n] EXCEPT !.phase = "got", !.slot = Slot(q)]]
      /\ app[n].phase = "loop"
  BY Zenon DEF GetFrame
<1>3. /\ app'[n].phase = "got" /\ app'[n].slot = Slot(q)
      /\ app'[n].k = app[n].k /\ app'[n].msg = app[n].msg
      /\ m_frameSeq'[n] = q + 1
  BY Zenon, <1>2, <1>T DEF AppState
<1> HIDE DEF g, q
<1>4. Filling(n)' = q /\ Filling(n) = q
  <2>1. Filling(n)' = q
    BY <1>0, <1>3 DEF Filling
  <2>2. Filling(n) = q
    BY <1>2 DEF Filling, q
  <2>3. QED
    BY Zenon, <2>1, <2>2
<1>5. ASSUME NEW m \in Node, NEW s \in Slots PROVE BusyAt(m, s)'
  <2>1. CASE m # n
    <3>1. app'[m] = app[m] /\ m_frameSeq'[m] = m_frameSeq[m] /\ m_freeFrames'[m] = m_freeFrames[m]
      BY Zenon, <1>2, <1>T, <2>1
    <3>2. QED
      BY Zenon, <3>1, BusyKept DEF BusyRing
  <2>2. CASE m = n /\ s = Slot(q)
    <3>1. PICK h : h = g
      BY Zenon
    <3>5. m_freeFrames'[m][s] = h
      BY Zenon, <1>2, <1>T, <2>2, <3>1
    <3>2. q < q + 1 /\ q <= q /\ app[n].msg >= (q - q) * MsgsPerFrame
      BY <1>0
    <3>3. Abreast(n, h)'
      BY Zenon, <1>1, <1>3, <1>4, <3>1, <3>2 DEF Abreast
    <3>4. QED
      BY Zenon, <1>1, <1>3, <2>2, <3>1, <3>5, <3>3 DEF BusyAt
  <2>3. CASE m = n /\ s # Slot(q)
    <3>1. PICK f : f = m_freeFrames[n][s]
      BY Zenon
    <3>2. m_freeFrames'[n][s] = f
      BY Zenon, <1>2, <1>T, <2>3, <3>1
    <3>3. CASE f.is_free
      BY Zenon, <2>3, <3>2, <3>3 DEF BusyAt
    <3>4. CASE ~ f.is_free
      <4>1. Slot(f.seq) = s /\ Abreast(n, f)
        BY Zenon, <3>1, <3>4 DEF BusyRing, BusyAt
      <4>2. f.msg_count # 0
        BY <1>2, <3>1, <3>4 DEF BusyRing, BusyAt
      <4>3. f.seq < q + 1
        <5>1. f.seq < q /\ f.seq \in Nat
          BY Zenon, <3>1, <4>1, RingTypes DEF Abreast, q
        <5>2. QED
          BY <1>0, <5>1
      <4>4. Abreast(n, f)'
        BY Zenon, <1>3, <1>4, <4>1, <4>3 DEF Abreast, msgCount
      <4>5. QED
        BY Zenon, <2>3, <3>2, <4>1, <4>2, <4>4 DEF BusyAt
    <3>5. QED
      BY Zenon, <3>3, <3>4
  <2>4. QED
    BY Zenon, <2>1, <2>2, <2>3
<1>6. QED
  BY Zenon, <1>5 DEF BusyRing

\* post() fills the frame it claimed, up to the last message that fits.
LEMMA BusyFill ==
  ASSUME TypeInv, BusyRing, NEW n \in Node, FillFrame(n) PROVE BusyRing'
<1> DEFINE c == msgCount(<<n, app[n].k>>)
           x == app[n].msg
           left == c - x
           count == IF left < MsgsPerFrame THEN left ELSE MsgsPerFrame
           b == app[n].slot
           g == [m_freeFrames[n][b] EXCEPT !.msg_count = count, !.iov = app[n].k, !.first = x + 1]
<1>T. /\ m_freeFrames \in [Node -> [Slots -> Frame]] /\ app \in [Node -> AppState]
      /\ m_frameSeq \in [Node -> Nat \ {0}]
  BY Zenon DEF TypeInv, TypeOK
<1>0. app[n].phase = "got" /\ app[n].k \in 1 .. Len(Msgs[n]) /\ x < c
  BY DEF FillFrame, TypeInv, PostInRange
<1>1. c \in Nat /\ x \in Nat /\ MsgsPerFrame \in Nat \ {0} /\ b \in Slots
  BY Zenon, <1>0, <1>T, TransactionType, RingTypes, SizeAssumption DEF AppState
<1>2. /\ m_freeFrames' = [m_freeFrames EXCEPT ![n][b] = g]
      /\ app' = [app EXCEPT ![n] = [app[n] EXCEPT !.phase = "filled", !.msg = x + count]]
      /\ m_frameSeq' = m_frameSeq
  BY Zenon DEF FillFrame
<1>3. /\ app'[n].phase = "filled" /\ app'[n].k = app[n].k /\ app'[n].msg = x + count
  BY Zenon, <1>2, <1>T DEF AppState
<1>4. count # 0 /\ (x + count = c \/ count = MsgsPerFrame)
  <2> HIDE DEF c, x
  <2>1. QED
    BY <1>0, <1>1
<1>5. m_freeFrames[n][b] \in Frame
  BY Zenon, <1>1, <1>T
<1>6. g.seq = m_freeFrames[n][b].seq /\ g.transaction = m_freeFrames[n][b].transaction
      /\ g.is_free = m_freeFrames[n][b].is_free /\ g.msg_count = count
  BY Zenon, <1>5 DEF Frame
<1> HIDE DEF g, count
<1>7. PICK q \in Nat : q + 1 = m_frameSeq[n] /\ Filling(n) = q /\ Filling(n)' = q + 1
  <2>1. Filling(n) = m_frameSeq[n] - 1
    BY Zenon, <1>0 DEF Filling
  <2>2. Filling(n)' = m_frameSeq[n]
    BY <1>2, <1>3 DEF Filling
  <2>3. m_frameSeq[n] \in Nat \ {0}
    BY Zenon, <1>T
  <2>4. QED
    BY <2>1, <2>2, <2>3
<1>8. ASSUME NEW f, f.seq \in Nat, Abreast(n, f) PROVE Abreast(n, f)'
  <2>1. f.seq <= q /\ x >= (q - f.seq) * MsgsPerFrame /\ f.transaction = app[n].k /\ f.seq < m_frameSeq[n]
    <3>1. x # c
      BY <1>0, <1>1
    <3>2. QED
      BY Zenon, <1>7, <1>8, <3>1 DEF Abreast
  <2>2. PICK z : z = q + 1
    BY Zenon
  <2>3. f.seq <= q + 1
    BY <1>8, <2>1
  <2>4. app'[n].msg = msgCount(<<n, app'[n].k>>) \/ app'[n].msg >= (z - f.seq) * MsgsPerFrame
    <3>1. CASE x + count = c
      BY Zenon, <1>3, <3>1
    <3>2. CASE count = MsgsPerFrame
      <4>1. x + MsgsPerFrame >= (z - f.seq) * MsgsPerFrame
        <5> HIDE DEF x
        <5>1. QED
          BY Zenon, <1>1, <1>8, <2>1, <2>2, OneFrameOn
      <4>2. QED
        BY Zenon, <1>3, <3>2, <4>1
    <3>3. QED
      BY Zenon, <1>4, <3>1, <3>2
  <2>5. f.transaction = app'[n].k /\ f.seq < m_frameSeq'[n] /\ f.seq <= Filling(n)'
    BY Zenon, <1>2, <1>3, <1>7, <2>1, <2>3
  <2>6. Filling(n)' = z
    BY Zenon, <1>7, <2>2
  <2>7. QED
    BY Zenon, <2>4, <2>5, <2>6 DEF Abreast, msgCount
<1>9. ASSUME NEW m \in Node, NEW s \in Slots PROVE BusyAt(m, s)'
  <2>1. CASE m # n
    <3>1. app'[m] = app[m] /\ m_frameSeq'[m] = m_frameSeq[m] /\ m_freeFrames'[m] = m_freeFrames[m]
      BY Zenon, <1>2, <1>T, <2>1
    <3>2. QED
      BY Zenon, <3>1, BusyKept DEF BusyRing
  <2>2. CASE m = n
    <3>1. PICK f : f = m_freeFrames[n][s]
      BY Zenon
    <3>2. PICK h : h = m_freeFrames'[n][s]
      BY Zenon
    <3>3. /\ h.seq = f.seq /\ h.transaction = f.transaction /\ h.is_free = f.is_free
          /\ f.seq \in Nat
      BY Zenon, <1>1, <1>2, <1>6, <1>T, <3>1, <3>2, RingTypes
    <3>4. CASE f.is_free
      BY Zenon, <2>2, <3>2, <3>3, <3>4 DEF BusyAt
    <3>5. CASE ~ f.is_free
      <4>1. Slot(f.seq) = s /\ Abreast(n, f) /\ (f.msg_count = 0 => b = s)
        BY Zenon, <3>1, <3>5 DEF BusyRing, BusyAt
      <4>2. Abreast(n, h)
        BY Zenon, <3>3, <4>1 DEF Abreast
      <4>3. Abreast(n, h)'
        BY Zenon, <1>8, <3>3, <4>2
      <4>4. h.msg_count # 0
        <5>1. CASE s = b
          BY Zenon, <1>2, <1>4, <1>6, <1>T, <3>2, <5>1
        <5>2. CASE s # b
          BY Zenon, <1>2, <1>T, <3>1, <3>2, <4>1, <5>2
        <5>3. QED
          BY Zenon, <5>1, <5>2
      <4>5. QED
        BY Zenon, <2>2, <3>2, <3>3, <4>1, <4>3, <4>4 DEF BusyAt
    <3>6. QED
      BY Zenon, <3>4, <3>5
  <2>3. QED
    BY Zenon, <2>1, <2>2
<1>10. QED
  BY Zenon, <1>9 DEF BusyRing

\* post() hands over the frame and goes on.
LEMMA BusyPost ==
  ASSUME TypeInv, BusyRing, NEW n \in Node, PostFrame(n) PROVE BusyRing'
<1> DEFINE b == app[n].slot
           g == [m_freeFrames[n][b] EXCEPT !.send_time = "set", !.sends = @ + 1]
<1>T. /\ m_freeFrames \in [Node -> [Slots -> Frame]] /\ app \in [Node -> AppState]
      /\ m_frameSeq \in [Node -> Nat \ {0}]
  BY Zenon DEF TypeInv, TypeOK
<1>1. b \in Slots /\ app[n].phase = "filled"
  BY Zenon, <1>T DEF AppState, PostFrame
<1>2. /\ m_freeFrames' = [m_freeFrames EXCEPT ![n][b] = g] /\ m_frameSeq' = m_frameSeq
      /\ \E p \in {"loop", "idle"} : app' = [app EXCEPT ![n] = [app[n] EXCEPT !.phase = p]]
  BY Zenon DEF PostFrame
<1>3. app'[n].phase \in {"loop", "idle"} /\ app'[n].k = app[n].k /\ app'[n].msg = app[n].msg
      /\ \A m \in Node : m # n => app'[m] = app[m]
  <2>1. PICK p \in {"loop", "idle"} : app' = [app EXCEPT ![n] = [app[n] EXCEPT !.phase = p]]
    BY Zenon, <1>2
  <2>2. PICK w : w = [app[n] EXCEPT !.phase = p]
    BY Zenon
  <2>3. app[n] \in AppState
    BY Zenon, <1>T
  <2>4. w.phase = p /\ w.k = app[n].k /\ w.msg = app[n].msg
    BY <2>2, <2>3 DEF AppState
  <2>5. app'[n] = w /\ \A m \in Node : m # n => app'[m] = app[m]
    BY Zenon, <1>T, <2>1, <2>2
  <2>6. QED
    BY Zenon, <2>4, <2>5
<1>4. m_freeFrames[n][b] \in Frame
  BY Zenon, <1>1, <1>T
<1>5. g.seq = m_freeFrames[n][b].seq /\ g.transaction = m_freeFrames[n][b].transaction
      /\ g.is_free = m_freeFrames[n][b].is_free /\ g.msg_count = m_freeFrames[n][b].msg_count
  BY Zenon, <1>4 DEF Frame
<1> HIDE DEF g
<1>6. Filling(n)' = Filling(n)
  <2>1. Filling(n) = m_frameSeq[n]
    BY <1>1 DEF Filling
  <2>2. Filling(n)' = m_frameSeq'[n]
    BY <1>3 DEF Filling
  <2>3. QED
    BY Zenon, <1>2, <2>1, <2>2
<1>7. ASSUME NEW m \in Node, NEW s \in Slots PROVE BusyAt(m, s)'
  <2>1. CASE m # n
    <3>1. app'[m] = app[m] /\ m_frameSeq'[m] = m_frameSeq[m] /\ m_freeFrames'[m] = m_freeFrames[m]
      BY Zenon, <1>2, <1>3, <1>T, <2>1
    <3>2. QED
      BY Zenon, <3>1, BusyKept DEF BusyRing
  <2>2. CASE m = n
    <3>1. PICK f : f = m_freeFrames[n][s]
      BY Zenon
    <3>2. PICK h : h = m_freeFrames'[n][s]
      BY Zenon
    <3>3. /\ h.seq = f.seq /\ h.transaction = f.transaction /\ h.is_free = f.is_free
          /\ h.msg_count = f.msg_count
      BY Zenon, <1>1, <1>2, <1>5, <1>T, <3>1, <3>2
    <3>4. CASE f.is_free
      BY Zenon, <2>2, <3>2, <3>3, <3>4 DEF BusyAt
    <3>5. CASE ~ f.is_free
      <4>1. Slot(f.seq) = s /\ Abreast(n, f)
        BY Zenon, <3>1, <3>5 DEF BusyRing, BusyAt
      <4>2. f.msg_count # 0
        BY <1>1, <3>1, <3>5 DEF BusyRing, BusyAt
      <4>3. Abreast(n, h)'
        BY Zenon, <1>2, <1>3, <1>6, <3>3, <4>1 DEF Abreast, msgCount
      <4>4. QED
        BY Zenon, <2>2, <3>2, <3>3, <4>1, <4>2, <4>3 DEF BusyAt
    <3>6. QED
      BY Zenon, <3>4, <3>5
  <2>3. QED
    BY Zenon, <2>1, <2>2
<1>8. QED
  BY Zenon, <1>7 DEF BusyRing

\* The timers and the frames that arrive do not claim frames with messages.
\* A frame of acknowledgements is claimed by a node without busy frames.
LEMMA BusyTimers ==
  ASSUME RingSuffices, TypeInv, SilentRing, BusyRing, NEW n \in Node, CheckAcks(n) \/ SendAcks(n)
  PROVE  BusyRing'
<1>T. m_freeFrames \in [Node -> [Slots -> Frame]] /\ m_frameSeq \in [Node -> Nat \ {0}]
  BY Zenon DEF TypeInv, TypeOK
<1>1. CASE CheckAcks(n)
  <2>1. PICK b \in Slots : m_freeFrames' = [m_freeFrames EXCEPT ![n][b] =
          IF m_freeFrames[n][b].msg_count = 0
          THEN [m_freeFrames[n][b] EXCEPT !.send_time = "set", !.sends = @ + 1,
                         !.is_free = TRUE, !.transaction = 0]
          ELSE [m_freeFrames[n][b] EXCEPT !.send_time = "set", !.sends = @ + 1]]
          /\ ~ m_freeFrames[n][b].is_free
    BY Zenon, <1>1 DEF CheckAcks
  <2>2. PICK g : g = m_freeFrames'[n][b]
    BY Zenon
  <2>3. m_freeFrames[n][b] \in Frame
    BY Zenon, <1>T
  <2>4. ~ g.is_free => /\ g.seq = m_freeFrames[n][b].seq
                       /\ g.transaction = m_freeFrames[n][b].transaction
                       /\ g.msg_count = m_freeFrames[n][b].msg_count
    <3>1. CASE m_freeFrames[n][b].msg_count = 0
      <4>1. g = [m_freeFrames[n][b] EXCEPT !.send_time = "set", !.sends = @ + 1,
                         !.is_free = TRUE, !.transaction = 0]
        BY Zenon, <1>T, <2>1, <2>2, <3>1
      <4>2. g.is_free
        BY Zenon, <2>3, <4>1 DEF Frame
      <4>3. QED
        BY Zenon, <4>2
    <3>2. CASE m_freeFrames[n][b].msg_count # 0
      <4>1. g = [m_freeFrames[n][b] EXCEPT !.send_time = "set", !.sends = @ + 1]
        BY Zenon, <1>T, <2>1, <2>2, <3>2
      <4>2. QED
        BY Zenon, <2>3, <4>1 DEF Frame
    <3>3. QED
      BY Zenon, <3>1, <3>2
  <2>5. app' = app /\ m_frameSeq' = m_frameSeq
    BY Zenon, <1>1 DEF CheckAcks
  <2>6. ASSUME NEW m \in Node, NEW s \in Slots PROVE BusyAt(m, s)'
    <3>1. CASE m = n /\ s = b
      BY Zenon, <2>1, <2>2, <2>4, <2>5, <3>1, BusyKept DEF BusyRing
    <3>2. CASE ~ (m = n /\ s = b)
      <4>1. m_freeFrames'[m][s] = m_freeFrames[m][s]
        BY Zenon, <1>T, <2>1, <3>2
      <4>2. QED
        BY Zenon, <2>5, <4>1, BusyKept DEF BusyRing
    <3>3. QED
      BY Zenon, <3>1, <3>2
  <2>7. QED
    BY Zenon, <2>6 DEF BusyRing
<1>2. CASE SendAcks(n)
  <2>1. ~ Silent(Peer[n])
    BY Zenon, <1>2, SilentAcks DEF SendAcks
  <2>2. \A s \in Slots : m_freeFrames[n][s].is_free
    BY Zenon, <2>1 DEF RingSuffices, SilentRing
  <2>3. CASE WindowAbort(n)
    <3>1. app' = app /\ m_frameSeq' = m_frameSeq /\ m_freeFrames' = m_freeFrames
      BY Zenon, <2>3 DEF WindowAbort
    <3>2. QED
      BY Zenon, <3>1, BusyKept DEF BusyRing
  <2>4. CASE ~ WindowAbort(n)
    <3> DEFINE f == m_frameSeq[n]
               g == [NewFrame(n, f) EXCEPT !.is_free = TRUE, !.send_time = "set"]
    <3>1. g.is_free
      BY Zenon DEF NewFrame, FreeFrame
    <3>2. /\ m_freeFrames' = [m_freeFrames EXCEPT ![n][Slot(f)] = g]
          /\ m_frameSeq' = [m_frameSeq EXCEPT ![n] = f + 1] /\ app' = app
      BY Zenon, <1>2, <2>4 DEF SendAcks
    <3> HIDE DEF g
    <3>3. \A s \in Slots : m_freeFrames'[n][s].is_free
      BY Zenon, <1>T, <2>2, <3>1, <3>2
    <3>4. ASSUME NEW m \in Node, m # n PROVE m_freeFrames'[m] = m_freeFrames[m] /\ m_frameSeq'[m] = m_frameSeq[m]
      BY Zenon, <1>T, <3>2, <3>4
    <3>5. ASSUME NEW m \in Node, NEW s \in Slots PROVE BusyAt(m, s)'
      <4>1. CASE m = n
        BY Zenon, <3>3, <4>1 DEF BusyAt
      <4>2. CASE m # n
        BY Zenon, <3>2, <3>4, <4>2, BusyKept DEF BusyRing
      <4>3. QED
        BY Zenon, <4>1, <4>2
    <3>6. QED
      BY Zenon, <3>5 DEF BusyRing
  <2>5. QED
    BY Zenon, <2>3, <2>4
<1>3. QED
  BY Zenon, <1>1, <1>2

LEMMA BusyReceive ==
  ASSUME TypeInv, BusyRing, NEW n \in Node, ProcessFrame(n) PROVE BusyRing'
<1>T. m_freeFrames \in [Node -> [Slots -> Frame]]
  BY Zenon DEF TypeInv, TypeOK
<1>1. app' = app /\ m_frameSeq' = m_frameSeq
  BY Zenon DEF ProcessFrame
<1>2. CASE m_freeFrames' = m_freeFrames
  BY Zenon, <1>1, <1>2, BusyKept DEF BusyRing
<1>3. ASSUME NEW S, m_freeFrames' = [m_freeFrames EXCEPT ![n] = [s \in Slots |->
               IF s \in S THEN [@[s] EXCEPT !.is_free = TRUE, !.transaction = 0] ELSE @[s]]]
      PROVE  BusyRing'
  <2>1. \A m \in Node : m # n => m_freeFrames'[m] = m_freeFrames[m]
    BY Zenon, <1>3, <1>T
  <2>2. \A s \in Slots : m_freeFrames'[n][s] = IF s \in S
          THEN [m_freeFrames[n][s] EXCEPT !.is_free = TRUE, !.transaction = 0] ELSE m_freeFrames[n][s]
    BY Zenon, <1>3, <1>T
  <2>3. ASSUME NEW s \in Slots PROVE m_freeFrames'[n][s].is_free \/ m_freeFrames'[n][s] = m_freeFrames[n][s]
    <3>1. m_freeFrames[n][s] \in Frame
      BY Zenon, <1>T
    <3>2. QED
      BY Zenon, <2>2, <3>1 DEF Frame
  <2>4. ASSUME NEW m \in Node, NEW s \in Slots PROVE BusyAt(m, s)'
    BY Zenon, <1>1, <2>1, <2>3, BusyKept DEF BusyRing
  <2>5. QED
    BY Zenon, <2>4 DEF BusyRing
<1>4. QED
  BY Zenon, <1>2, <1>3 DEF ProcessFrame, ProcessDup, ProcessNew, ReleaseFrames

\* Since a busy frame was claimed, post() has filled every frame up to the
\* next, whatever is lost, late, resent or acknowledged in between.
LEMMA BusyRingStep ==
  ASSUME RingSuffices, TypeInv, CountInv, CompleteIsAllAcked, SilentRing, BusyRing, [Next]_vars
  PROVE  BusyRing'
<1>1. ASSUME app' = app, m_frameSeq' = m_frameSeq, m_freeFrames' = m_freeFrames PROVE BusyRing'
  BY Zenon, <1>1, BusyKept DEF BusyRing
<1>2. ASSUME NEW n \in Node, NodeStep(n) PROVE BusyRing'
  <2>1. CASE GetFrame(n) /\ WindowAbort(n)
    BY Zenon, <1>1, <2>1 DEF WindowAbort
  <2>2. CASE ProcessMsg(n)
    BY Zenon, <1>1, <2>2 DEF ProcessMsg
  <2>3. QED
    BY Zenon, <1>2, <2>1, <2>2, BusyStart, BusyClaim, BusyFill, BusyPost, BusyTimers, BusyReceive
       DEF NodeStep, AppStep
<1>3. CASE Lose \/ Duplicate \/ UNCHANGED vars
  BY Zenon, <1>1, <1>3 DEF Lose, Duplicate, vars
<1>4. QED
  BY Zenon, <1>2, <1>3 DEF Next
=============================================================================
