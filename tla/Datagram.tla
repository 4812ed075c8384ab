------------------------------ MODULE Datagram ------------------------------
(***************************************************************************)
(* The datagram reliability layer of the RDMA drivers                      *)
(* (core/dataplane/rdma_drivers/datagram): two DatagramXferServices, one   *)
(* in each of two processes, carry transactions (a set of data messages    *)
(* and a flag) over an unreliable network.                                 *)
(*                                                                         *)
(* Three threads run in each process.  The application thread executes     *)
(* DatagramXferRequest::post, the FrameMonitor thread resends frames and   *)
(* sends acknowledgements on timeouts, and the DatagramSocket thread       *)
(* handles received frames.  A step of the model is a region that holds    *)
(* the services' mutex, or a region between two such regions.              *)
(***************************************************************************)
EXTENDS Naturals, Sequences, FiniteSets

CONSTANTS
  Node,            \* the two processes
  Peer,            \* [Node -> Node], the process at the other end
  Msgs,            \* [Node -> Seq(Nat)], the number of messages of each
                   \* transaction that the application of a node posts
  MsgsPerFrame,    \* how many messages fit in one frame
  NFrames,         \* FRAME_SEQ_MASK + 1 and MAX_FRAME_HISTORY + 1 (256)
  SeqMod,          \* 2^16, frame sequence numbers are uint16_t
  History,         \* MAX_TRANSACTION_HISTORY (512)
  Serial,          \* a transaction is posted only when the previous one is complete
  EarlyTimeout,    \* a timeout may fire while an acknowledgement can still come
  StaleSendTime,   \* the send_time left in a reused frame is older than the timeout
  LongLived,       \* a datagram may outlive the reuse of its frame
  FramesInPlay,    \* what the memory of m_frames_in_play, which no
                   \* constructor sets, may hold
  MaxSeq,          \* bound: frames a node sends
  MaxSends,        \* bound: transmissions of one frame
  MaxLost,         \* bound: datagrams the network loses
  MaxDup           \* bound: datagrams the network duplicates

ASSUME NodeAssumption ==
  /\ IsFiniteSet(Node)
  /\ Peer \in [Node -> Node]
  /\ \A n \in Node : Peer[n] # n /\ Peer[Peer[n]] = n
  /\ Msgs \in [Node -> Seq(Nat \ {0})]

ASSUME SizeAssumption ==
  /\ MsgsPerFrame \in Nat \ {0}
  /\ NFrames \in Nat \ {0}
  /\ SeqMod \in Nat \ {0}
  /\ SeqMod % NFrames = 0
  /\ NFrames < SeqMod
  /\ History \in Nat \ {0}
  /\ \A n \in Node : Len(Msgs[n]) < History
  /\ FramesInPlay \subseteq Nat
  /\ MaxSeq \in Nat /\ MaxSends \in Nat /\ MaxLost \in Nat /\ MaxDup \in Nat

ASSUME SwitchAssumption ==
  {Serial, EarlyTimeout, StaleSendTime, LongLived} \subseteq BOOLEAN

VARIABLES
  m_frameSeq,              \* next frame number, not yet wrapped to 16 bits
  m_freeFrames,            \* the ring of frames of a node
  m_acks,                  \* frame numbers received and not yet acknowledged
  m_frameSeqRecord,        \* the last frame received in each ring position
  m_msgTransactionRecord,  \* reassembly of transactions at the receiver
  m_frames_in_play,        \* how many of its records are in use
  rx,                      \* the message the socket thread handles next
  app,                     \* where the application thread is in post()
  m_nMessagesRx, ack,      \* of a transaction: messages acknowledged, how many and which
  copied, flag,            \* at the peer: how often a message was copied to memory,
                           \* and whether a transaction's flag was written
  net,                     \* datagrams in flight
  lost, dups,              \* how many the network has lost, and duplicated
  aborted,                 \* the ocpiAssert that stopped a node, or "no"
  released, received       \* history: data frames released by their sender,
                           \* and handled by their receiver

vars == <<m_frameSeq, m_freeFrames, m_acks, m_frameSeqRecord,
          m_msgTransactionRecord, m_frames_in_play, rx, app, m_nMessagesRx, ack,
          copied, flag, net, lost, dups, aborted, released, received>>

-----------------------------------------------------------------------------
Slots == 0 .. NFrames - 1

\* Transactions <<n, k>>: the k-th one that node n posts.
Transaction == UNION {{n} \X (1 .. Len(Msgs[n])) : n \in Node}
msgCount(t) == Msgs[t[1]][t[2]]
Message == UNION {{t} \X (1 .. msgCount(t)) : t \in Transaction}
TransNo == 0 .. History - 1

\* Mutant of Slot: one frame of the ring is never used.
SlotShort(f) == f % (NFrames - 1)

\* The 16 bit frameSeq of the header, and the ring position it selects.
Wire(f) == f % SeqMod
Slot(f) == f % NFrames

NoMsg == [k |-> 0, next |-> 0, last |-> 0]

\* A frame: state of the ring element, its header's acknowledgement, the
\* messages to acknowledge when it is released (transaction, msg_start,
\* msg_count) and the ones its iov points at (transaction iov, from first on).
Frame == [is_free : BOOLEAN, seq : Nat, ACKStart : Nat, ACKCount : Nat,
          transaction : TransNo, msg_start : Nat, msg_count : Nat, iov : TransNo, first : Nat,
          send_time : {"stale", "set"}, sends : Nat]

FreeFrame == [is_free |-> TRUE, seq |-> 0, ACKStart |-> 0, ACKCount |-> 0,
              transaction |-> 0, msg_start |-> 0, msg_count |-> 0, iov |-> 0, first |-> 0,
              send_time |-> "stale", sends |-> 0]

\* A datagram: copy tells one transmission of a frame from the next.
Packet == [src : Node, seq : Nat, ACKStart : Nat, ACKCount : Nat,
           iov : TransNo, first : Nat, msg_count : Nat, copy : Nat, dup : Nat]

\* Mutant of FirstSeq: frame numbers start at 0, which an empty record holds.
FirstSeqZero == 0

\* Frame numbers start at 1: no frame has the id 0 of an empty record.
FirstSeq == 1

Init ==
  /\ m_frameSeq = [n \in Node |-> FirstSeq]
  /\ m_freeFrames = [n \in Node |-> [s \in Slots |-> FreeFrame]]
  /\ m_acks = [n \in Node |-> <<>>]
  /\ m_frameSeqRecord = [n \in Node |-> [s \in Slots |-> [id |-> 0, acked |-> FALSE]]]
  /\ m_msgTransactionRecord =
       [n \in Node |-> [r \in 0 .. History - 1 |-> [in_use |-> FALSE, msgsProcessed |-> 0]]]
  /\ m_frames_in_play \in [Node -> FramesInPlay]
  /\ rx = [n \in Node |-> NoMsg]
  /\ app = [n \in Node |-> [k |-> 0, msg |-> 0, phase |-> "idle", slot |-> 0]]
  /\ m_nMessagesRx = [t \in Transaction |-> 0]
  /\ ack = [t \in Transaction |-> {}]
  /\ copied = [m \in Message |-> 0]
  /\ flag = [t \in Transaction |-> FALSE]
  /\ net = {}
  /\ lost = 0 /\ dups = 0
  /\ aborted = [n \in Node |-> "no"]
  /\ released = [n \in Node |-> {}]
  /\ received = [n \in Node |-> {}]

-----------------------------------------------------------------------------
(***************************************************************************)
(* The sender.                                                             *)
(***************************************************************************)

\* The mutex is free: the socket thread is not between two messages of a frame.
Unlocked(n) == rx[n] = NoMsg

\* How many entries of the queue getFrame takes: the first one, the second
\* if it is the next number, and then (the loop's index stays at 1) one more
\* for as long as the entry two places behind equals that number again.
AckCount(q) ==
  IF Len(q) < 2 \/ q[2] # q[1] + 1 THEN 1
  ELSE CHOOSE i \in 2 .. Len(q) :
         /\ i + 2 > Len(q) \/ q[i + 2] # q[1] + 1
         /\ \A j \in 2 .. i - 1 : j + 2 <= Len(q) /\ q[j + 2] = q[1] + 1

\* getFrame: the frame that nextFreeFrame claims for number f, with the
\* acknowledgements that wait in m_acks piggybacked on its header.
NewFrame(n, f) ==
  [FreeFrame EXCEPT !.is_free = FALSE, !.seq = f,
     !.ACKStart = IF m_acks[n] = <<>> THEN 0 ELSE m_acks[n][1],
     !.ACKCount = IF m_acks[n] = <<>> THEN 0 ELSE AckCount(m_acks[n])]

AcksLeft(n) ==
  IF m_acks[n] = <<>> THEN <<>>
  ELSE SubSeq(m_acks[n], AckCount(m_acks[n]) + 1, Len(m_acks[n]))

\* What the socket sends for a frame.
PacketOf(n, f, c) ==
  [src |-> n, seq |-> f.seq, ACKStart |-> f.ACKStart, ACKCount |-> f.ACKCount,
   iov |-> f.iov, first |-> f.first, msg_count |-> f.msg_count,
   copy |-> c, dup |-> 0]

\* Unless LongLived, no copy of the frame that used the ring position before
\* is still in the network when the position is used again.
Alive(n, f) ==
  IF LongLived THEN net ELSE {p \in net : ~(p.src = n /\ p.seq + NFrames = f)}

\* complete(): every message of the transaction has been acknowledged.
Complete(t) == m_nMessagesRx[t] = msgCount(t)

\* nextFreeFrame's ocpiAssert(f.is_free).
WindowAbort(n) ==
  /\ ~ m_freeFrames[n][Slot(m_frameSeq[n])].is_free
  /\ aborted' = [aborted EXCEPT ![n] = "window"]
  /\ UNCHANGED <<m_frameSeq, m_freeFrames, m_acks, m_frameSeqRecord,
                 m_msgTransactionRecord, m_frames_in_play, rx, app, m_nMessagesRx, ack, copied, flag, net, lost, dups,
                 released, received>>

\* The application calls post() of its next transfer request.
StartPost(n) ==
  /\ aborted[n] = "no"
  /\ app[n].phase = "idle" /\ app[n].k < Len(Msgs[n])
  /\ Serial /\ app[n].k > 0 => Complete(<<n, app[n].k>>)
  /\ app' = [app EXCEPT ![n] = [k |-> @.k + 1, msg |-> 0, phase |-> "loop", slot |-> 0]]
  /\ m_nMessagesRx' = [m_nMessagesRx EXCEPT ![<<n, app[n].k + 1>>] = 0]
  /\ UNCHANGED <<m_frameSeq, m_freeFrames, m_acks, m_frameSeqRecord,
                 m_msgTransactionRecord, m_frames_in_play, rx, ack, copied, flag,
                 net, lost, dups, aborted, released, received>>

\* post() takes a frame for the messages that are left.
GetFrame(n) ==
  /\ aborted[n] = "no"
  /\ app[n].phase = "loop" /\ Unlocked(n) /\ m_frameSeq[n] < MaxSeq
  /\ \/ WindowAbort(n)
     \/ LET f == m_frameSeq[n] IN
        /\ m_freeFrames[n][Slot(f)].is_free
        /\ m_frameSeq' = [m_frameSeq EXCEPT ![n] = f + 1]
        /\ m_freeFrames' = [m_freeFrames EXCEPT ![n][Slot(f)] =
             [NewFrame(n, f) EXCEPT !.transaction = app[n].k, !.msg_start = app[n].msg]]
        /\ m_acks' = [m_acks EXCEPT ![n] = AcksLeft(n)]
        /\ app' = [app EXCEPT ![n] = [@ EXCEPT !.phase = "got", !.slot = Slot(f)]]
        /\ net' = Alive(n, f)
        /\ UNCHANGED <<m_frameSeqRecord, m_msgTransactionRecord, m_frames_in_play, rx, m_nMessagesRx, ack, copied, flag,
                       lost, dups, aborted, released, received>>

\* post() stuffs as many messages into the frame as it can.  The mutex is
\* not held: the frame may be gone meanwhile.
FillFrame(n) ==
  /\ aborted[n] = "no"
  /\ app[n].phase = "got"
  /\ LET left == msgCount(<<n, app[n].k>>) - app[n].msg
         count == IF left < MsgsPerFrame THEN left ELSE MsgsPerFrame
     IN /\ m_freeFrames' = [m_freeFrames EXCEPT ![n][app[n].slot] =
             [@ EXCEPT !.msg_count = count, !.iov = app[n].k, !.first = app[n].msg + 1]]
        /\ app' = [app EXCEPT ![n] = [@ EXCEPT !.phase = "filled", !.msg = app[n].msg + count]]
  /\ UNCHANGED <<m_frameSeq, m_acks, m_frameSeqRecord, m_msgTransactionRecord, m_frames_in_play, rx,
                 m_nMessagesRx, ack, copied, flag, net, lost, dups, aborted, released, received>>

\* post() hands the frame to the socket, and goes on if messages are left.
PostFrame(n) ==
  /\ aborted[n] = "no"
  /\ app[n].phase = "filled"
  /\ LET s == app[n].slot
         f == m_freeFrames[n][s]
     IN /\ m_freeFrames' = [m_freeFrames EXCEPT ![n][s] =
             [f EXCEPT !.send_time = "set", !.sends = @ + 1]]
        /\ net' = net \cup {PacketOf(n, f, f.sends + 1)}
        /\ app' = [app EXCEPT ![n] = [@ EXCEPT !.phase =
             IF app[n].msg < msgCount(<<n, app[n].k>>) THEN "loop" ELSE "idle"]]
  /\ UNCHANGED <<m_frameSeq, m_acks, m_frameSeqRecord, m_msgTransactionRecord, m_frames_in_play, rx,
                 m_nMessagesRx, ack, copied, flag, lost, dups, aborted, released, received>>

-----------------------------------------------------------------------------
(***************************************************************************)
(* The FrameMonitor thread.                                                *)
(***************************************************************************)

\* Mutant of Covers: the range is one number too long.
CoversOneMore(h, w) == w \in h.ACKStart .. h.ACKStart + h.ACKCount

\* The frame numbers that the header of a frame or datagram acknowledges.
Covers(h, w) == w \in h.ACKStart .. h.ACKStart + h.ACKCount - 1

\* No datagram of frame f of node n is in flight, and no acknowledgement of
\* it is in flight, queued at the peer or held in a frame of the peer.
Lost(n, f) ==
  /\ ~ \E p \in net : p.src = n /\ p.seq = f
  /\ ~ \E i \in DOMAIN m_acks[Peer[n]] : m_acks[Peer[n]][i] = Wire(f)
  /\ ~ \E p \in net : p.src = Peer[n] /\ Covers(p, Wire(f))
  /\ ~ \E s \in Slots : LET g == m_freeFrames[Peer[n]][s]
                        IN ~ g.is_free /\ Covers(g, Wire(f))

\* The timeout of checkAcks: between getFrame and post the send_time is the
\* one of the frame's previous use (or was never set).
TimedOut(n, f) ==
  IF f.send_time = "stale" THEN StaleSendTime
  ELSE EarlyTimeout \/ Lost(n, f.seq)

\* checkAcks: post one frame again; a frame without messages is released.
CheckAcks(n) ==
  /\ aborted[n] = "no" /\ Unlocked(n)
  /\ \E s \in Slots :
       LET f == m_freeFrames[n][s] IN
       /\ ~ f.is_free /\ f.sends < MaxSends /\ TimedOut(n, f)
       /\ net' = net \cup {PacketOf(n, f, f.sends + 1)}
       /\ m_freeFrames' = [m_freeFrames EXCEPT ![n][s] =
            IF f.msg_count = 0
            THEN [f EXCEPT !.send_time = "set", !.sends = @ + 1,
                           !.is_free = TRUE, !.transaction = 0]
            ELSE [f EXCEPT !.send_time = "set", !.sends = @ + 1]]
  /\ UNCHANGED <<m_frameSeq, m_acks, m_frameSeqRecord, m_msgTransactionRecord, m_frames_in_play, rx,
                 app, m_nMessagesRx, ack, copied, flag, lost, dups, aborted, released, received>>

\* Mutant of SendAcks: the frame is not released once it is sent.
SendAcksKept(n) ==
  /\ aborted[n] = "no" /\ Unlocked(n)
  /\ m_acks[n] # <<>> /\ m_frameSeq[n] < MaxSeq
  /\ \/ WindowAbort(n)
     \/ LET f == m_frameSeq[n] IN
        /\ m_freeFrames[n][Slot(f)].is_free
        /\ m_frameSeq' = [m_frameSeq EXCEPT ![n] = f + 1]
        /\ m_freeFrames' = [m_freeFrames EXCEPT ![n][Slot(f)] =
             [NewFrame(n, f) EXCEPT !.send_time = "set"]]
        /\ m_acks' = [m_acks EXCEPT ![n] = AcksLeft(n)]
        /\ net' = Alive(n, f) \cup {PacketOf(n, NewFrame(n, f), 1)}
        /\ UNCHANGED <<m_frameSeqRecord, m_msgTransactionRecord, m_frames_in_play, rx, app, m_nMessagesRx, ack, copied, flag,
                       lost, dups, aborted, released, received>>

\* sendAcks: a frame of acknowledgements only, free again once it is sent.
SendAcks(n) ==
  /\ aborted[n] = "no" /\ Unlocked(n)
  /\ m_acks[n] # <<>> /\ m_frameSeq[n] < MaxSeq
  /\ \/ WindowAbort(n)
     \/ LET f == m_frameSeq[n] IN
        /\ m_freeFrames[n][Slot(f)].is_free
        /\ m_frameSeq' = [m_frameSeq EXCEPT ![n] = f + 1]
        /\ m_freeFrames' = [m_freeFrames EXCEPT ![n][Slot(f)] =
             [NewFrame(n, f) EXCEPT !.is_free = TRUE, !.send_time = "set"]]
        /\ m_acks' = [m_acks EXCEPT ![n] = AcksLeft(n)]
        /\ net' = Alive(n, f) \cup {PacketOf(n, NewFrame(n, f), 1)}
        /\ UNCHANGED <<m_frameSeqRecord, m_msgTransactionRecord, m_frames_in_play, rx, app, m_nMessagesRx, ack, copied, flag,
                       lost, dups, aborted, released, received>>

-----------------------------------------------------------------------------
(***************************************************************************)
(* The DatagramSocket thread: processFrame.                                *)
(***************************************************************************)

\* ack, releaseFrame: the busy frames of node n that a header acknowledges.
Acked(n, h) ==
  {s \in Slots : LET f == m_freeFrames[n][s]
                 IN ~ f.is_free /\ Slot(f.seq) = s /\ Covers(h, Wire(f.seq))}

\* Mutant of MsgsIn: the loop runs one message too far.
MsgsInOneMore(f) == f.msg_start + 1 .. f.msg_start + f.msg_count + 1

\* The messages of a frame are msg_start .. msg_start + msg_count - 1,
\* numbered from 1 here.
MsgsIn(f) == f.msg_start + 1 .. f.msg_start + f.msg_count

\* The frames in positions S of node n that carry messages of transaction t.
FramesOf(n, S, t) == {s \in S : t = <<n, m_freeFrames[n][s].transaction>>}

\* Frame::release of the frames in positions S, and DatagramTransaction::ACK
\* of their messages.
ReleaseFrames(n, S) ==
  /\ m_freeFrames' = [m_freeFrames EXCEPT ![n] = [s \in Slots |->
       IF s \in S THEN [@[s] EXCEPT !.is_free = TRUE, !.transaction = 0] ELSE @[s]]]
  /\ m_nMessagesRx' = [t \in Transaction |-> m_nMessagesRx[t] +
       Cardinality(UNION {{s} \X MsgsIn(m_freeFrames[n][s]) : s \in FramesOf(n, S, t)})]
  /\ ack' = [t \in Transaction |-> ack[t] \cup
       UNION {MsgsIn(m_freeFrames[n][s]) : s \in FramesOf(n, S, t)}]
  /\ released' = [released EXCEPT ![n] = @ \cup
       {m_freeFrames[n][s].seq : s \in {x \in S : m_freeFrames[n][x].msg_count > 0}}]

\* Mutant of ProcessDup: a duplicate is dropped and not acknowledged again.
ProcessDupSilently(n, p) ==
  /\ m_frameSeqRecord[n][Slot(p.seq)].id = Wire(p.seq)
  /\ UNCHANGED <<m_acks, aborted, m_freeFrames, m_frameSeqRecord, rx, m_nMessagesRx, ack,
                 released, received>>

\* processFrame of a frame whose number is in the record already: a frame
\* that was acknowledged is acknowledged again, and that is all.
ProcessDup(n, p) ==
  /\ m_frameSeqRecord[n][Slot(p.seq)].id = Wire(p.seq)
  /\ IF m_frameSeqRecord[n][Slot(p.seq)].acked
     THEN m_acks' = [m_acks EXCEPT ![n] = Append(@, Wire(p.seq))] /\ UNCHANGED aborted
     ELSE aborted' = [aborted EXCEPT ![n] = "dup"] /\ UNCHANGED m_acks
  /\ UNCHANGED <<m_freeFrames, m_frameSeqRecord, rx, m_nMessagesRx, ack,
                 released, received>>

\* Mutant of ProcessNew: the record of frames received is not consulted.
ProcessAny(n, p) ==
  /\ ReleaseFrames(n, Acked(n, p))
  /\ m_frameSeqRecord' = [m_frameSeqRecord EXCEPT ![n][Slot(p.seq)] =
       [id |-> Wire(p.seq), acked |-> @.acked \/ p.msg_count > 0]]
  /\ IF p.msg_count = 0
     THEN UNCHANGED <<m_acks, rx, received>>
     ELSE /\ m_acks' = [m_acks EXCEPT ![n] = Append(@, Wire(p.seq))]
          /\ rx' = [rx EXCEPT ![n] = [k |-> p.iov, next |-> p.first,
                                      last |-> p.first + p.msg_count - 1]]
          /\ received' = [received EXCEPT ![n] = @ \cup {p.seq}]
  /\ UNCHANGED aborted

\* processFrame of a new frame, up to its first message.
ProcessNew(n, p) ==
  /\ m_frameSeqRecord[n][Slot(p.seq)].id # Wire(p.seq)
  /\ ReleaseFrames(n, Acked(n, p))
  /\ m_frameSeqRecord' = [m_frameSeqRecord EXCEPT ![n][Slot(p.seq)] =
       [id |-> Wire(p.seq), acked |-> @.acked \/ p.msg_count > 0]]
  /\ IF p.msg_count = 0
     THEN UNCHANGED <<m_acks, rx, received>>
     ELSE /\ m_acks' = [m_acks EXCEPT ![n] = Append(@, Wire(p.seq))]
          /\ rx' = [rx EXCEPT ![n] = [k |-> p.iov, next |-> p.first,
                                      last |-> p.first + p.msg_count - 1]]
          /\ received' = [received EXCEPT ![n] = @ \cup {p.seq}]
  /\ UNCHANGED aborted

ProcessFrame(n) ==
  /\ aborted[n] = "no" /\ Unlocked(n)
  /\ \E p \in net :
       /\ p.src = Peer[n]
       /\ net' = net \ {p}
       /\ ProcessDup(n, p) \/ ProcessNew(n, p)
  /\ UNCHANGED <<m_frameSeq, m_msgTransactionRecord, m_frames_in_play, app, copied, flag,
                 lost, dups>>

\* Mutant of Closes: the flag goes out one message early.
ClosesEarly(processed, num) == processed + 1 >= num

\* The message that completes the count writes the flag.
Closes(processed, num) == processed = num

\* numMsgsInTransaction of the header: a single message says 0, and whatever
\* it carries the receiver writes only its flag.
NumMsgs(t) == IF msgCount(t) = 1 THEN 0 ELSE msgCount(t)

\* transactionId & MAX_TRANSACTION_HISTORY: one bit of the identifier.  The
\* runs and the proofs stay below the identifier History, so at record 0.
RecordIndex(k) == ((k \div History) % 2) * History

\* One turn of processFrame's loop over the messages, the mutex being held.
ProcessMsg(n) ==
  /\ aborted[n] = "no" /\ ~ Unlocked(n)
  /\ LET t == <<Peer[n], rx[n].k>>
         i == rx[n].next
         r == RecordIndex(rx[n].k)
         num == NumMsgs(t)
         opened == ~ m_msgTransactionRecord[n][r].in_use
         inPlay == IF opened THEN m_frames_in_play[n] + 1 ELSE m_frames_in_play[n]
         before == IF opened THEN 0 ELSE m_msgTransactionRecord[n][r].msgsProcessed
         after == IF num # 0 THEN before + 1 ELSE before
         closes == Closes(after, num)
     IN IF opened /\ inPlay >= History
        THEN /\ aborted' = [aborted EXCEPT ![n] = "inplay"]
             /\ UNCHANGED <<m_msgTransactionRecord, m_frames_in_play, rx, copied, flag>>
        ELSE /\ m_msgTransactionRecord' = [m_msgTransactionRecord EXCEPT ![n][r] =
                  [in_use |-> ~ closes, msgsProcessed |-> after]]
             /\ m_frames_in_play' = [m_frames_in_play EXCEPT ![n] =
                  IF closes THEN inPlay - 1 ELSE inPlay]
             /\ copied' = [copied EXCEPT ![<<t, i>>] = IF num # 0 THEN @ + 1 ELSE @]
             /\ flag' = [flag EXCEPT ![t] = @ \/ closes]
             /\ rx' = [rx EXCEPT ![n] = IF i = @.last THEN NoMsg ELSE [@ EXCEPT !.next = i + 1]]
             /\ UNCHANGED aborted
  /\ UNCHANGED <<m_frameSeq, m_freeFrames, m_acks, m_frameSeqRecord, app, m_nMessagesRx, ack, net,
                 lost, dups, released, received>>

-----------------------------------------------------------------------------
(***************************************************************************)
(* The network.                                                            *)
(***************************************************************************)

Lose ==
  /\ lost < MaxLost
  /\ \E p \in net : net' = net \ {p}
  /\ lost' = lost + 1
  /\ UNCHANGED <<m_frameSeq, m_freeFrames, m_acks, m_frameSeqRecord,
                 m_msgTransactionRecord, m_frames_in_play, rx, app, m_nMessagesRx, ack, copied, flag,
                 dups, aborted, released, received>>

Duplicate ==
  /\ dups < MaxDup
  /\ \E p \in net : net' = net \cup {[p EXCEPT !.dup = dups + 1]}
  /\ dups' = dups + 1
  /\ UNCHANGED <<m_frameSeq, m_freeFrames, m_acks, m_frameSeqRecord,
                 m_msgTransactionRecord, m_frames_in_play, rx, app, m_nMessagesRx, ack, copied, flag,
                 lost, aborted, released, received>>

AppStep(n) == StartPost(n) \/ GetFrame(n) \/ FillFrame(n) \/ PostFrame(n)

NodeStep(n) == \/ AppStep(n)
               \/ CheckAcks(n) \/ SendAcks(n)
               \/ ProcessFrame(n) \/ ProcessMsg(n)

Next == \/ \E n \in Node : NodeStep(n)
        \/ Lose \/ Duplicate

Spec == Init /\ [][Next]_vars

\* The three threads of a node are scheduled, and timers keep running.
Fairness == \A n \in Node : /\ WF_vars(AppStep(n))
                            /\ WF_vars(CheckAcks(n)) /\ WF_vars(SendAcks(n))
                            /\ WF_vars(ProcessFrame(n) \/ ProcessMsg(n))

LiveSpec == Spec /\ Fairness

-----------------------------------------------------------------------------
AppState == [k : TransNo, msg : Nat, phase : {"idle", "loop", "got", "filled"}, slot : Slots]

TypeOK ==
  /\ m_frameSeq \in [Node -> Nat \ {0}]
  /\ m_freeFrames \in [Node -> [Slots -> Frame]]
  /\ m_acks \in [Node -> Seq(Nat)]
  /\ m_frameSeqRecord \in [Node -> [Slots -> [id : Nat, acked : BOOLEAN]]]
  /\ m_msgTransactionRecord \in
       [Node -> [0 .. History - 1 -> [in_use : BOOLEAN, msgsProcessed : Nat]]]
  /\ m_frames_in_play \in [Node -> Nat]
  /\ rx \in [Node -> [k : TransNo, next : Nat, last : Nat]]
  /\ app \in [Node -> AppState]
  /\ m_nMessagesRx \in [Transaction -> Nat]
  /\ ack \in [Transaction -> SUBSET Nat]
  /\ copied \in [Message -> Nat]
  /\ flag \in [Transaction -> BOOLEAN]
  /\ net \subseteq Packet
  /\ lost \in Nat /\ dups \in Nat
  /\ aborted \in [Node -> {"no", "window", "dup", "inplay"}]
  /\ released \in [Node -> SUBSET Nat]
  /\ received \in [Node -> SUBSET Nat]

\* A data frame leaves the sender's ring (ack, releaseFrame) only after the
\* receiver has handled it: what was released is never resent, so releasing
\* a frame the peer never saw loses its messages for good.
ReleasedWasReceived == \A n \in Node : released[n] \subseteq received[Peer[n]]

\* No message is copied twice into the receiver's memory, whatever was
\* resent (processFrame: "Dont process dups").
AtMostOnce == \A m \in Message : copied[m] <= 1

\* The flag of a transaction is written only when all its data is there:
\* the flag tells the reader of the buffer that the buffer is full.  Nothing
\* is said of a transfer of one message, of which only the flag is written.
FlagAfterData ==
  \A t \in Transaction : flag[t] /\ NumMsgs(t) # 0 =>
    \A i \in 1 .. msgCount(t) : copied[<<t, i>>] >= 1

\* getStatus reports CompleteSuccess only when the flag has been written at
\* the peer; the sender then reuses the buffer the transfer read from.
CompleteWasDelivered == \A t \in Transaction : Complete(t) => flag[t]

\* m_nMessagesRx counts every acknowledged message once, although frames are
\* acknowledged repeatedly and while post() is still filling them.
CountedOnce ==
  \A t \in Transaction : /\ ack[t] \subseteq 1 .. msgCount(t)
                         /\ m_nMessagesRx[t] = Cardinality(ack[t])

\* processFrame: "programming error, cant have dup without ACK".
NoDupAbort == \A n \in Node : aborted[n] # "dup"

\* nextFreeFrame never comes round to a frame that waits for its
\* acknowledgement: post() claims frames without waiting for a free one, and
\* its assertion on is_free stops the process.
RingHolds == \A n \in Node : aborted[n] # "window"

\* None of the three assertions of the layer fails: the ring of frames never
\* overflows, a duplicate is always of an acknowledged frame, and the count
\* of transactions in play stays in bounds.
NoAbort == \A n \in Node : aborted[n] = "no"

\* Every transfer that the application posts is eventually complete.
AllComplete == <>[](\A t \in Transaction : Complete(t))

\* The driver implements the transfer service: seen through this mapping,
\* every step of the protocol is a step of ReliableTransfer or changes
\* nothing there.  A message that carries only the flag is not copied.
Service == INSTANCE ReliableTransfer WITH
  posted <- [n \in Node |-> app[n].k],
  delivered <- [t \in Transaction |->
    IF NumMsgs(t) = 0 THEN (IF flag[t] THEN {1} ELSE {})
    ELSE {i \in 1 .. msgCount(t) : copied[<<t, i>>] > 0}],
  done <- [t \in Transaction |-> Complete(t)]

ImplementsService == Service!ASpec
=============================================================================
