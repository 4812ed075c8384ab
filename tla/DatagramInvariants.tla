------------------------- MODULE DatagramInvariants -------------------------
(***************************************************************************)
(* The invariants that the proofs about Datagram rest on. Each of them is  *)
(* inductive together with the ones before it, under the assumptions that  *)
(* its section names.                                                      *)
(***************************************************************************)
EXTENDS Datagram

(***************************************************************************)
(* Types, in every environment.                                            *)
(***************************************************************************)

\* m_frames_in_play is not decremented below 0: a transaction record that is
\* in use has been counted.
InPlayCounted ==
  \A n \in Node : m_msgTransactionRecord[n][0].in_use => m_frames_in_play[n] > 0

\* While post() runs it works on a transaction of its node, and there are
\* messages left whenever it takes or fills a frame.
PostInRange ==
  \A n \in Node : app[n].phase # "idle" =>
    /\ app[n].k \in 1 .. Len(Msgs[n])
    /\ IF app[n].phase = "filled" THEN app[n].msg <= msgCount(<<n, app[n].k>>)
                                  ELSE app[n].msg < msgCount(<<n, app[n].k>>)

TypeInv == TypeOK /\ InPlayCounted /\ PostInRange

-----------------------------------------------------------------------------
(***************************************************************************)
(* Facts about sequences and finite sets, of which the steps of the layer  *)
(* use no more than this; CountingHolds of Datagram_proofs proves them.    *)
(***************************************************************************)

\* getFrame acknowledges at least one and at most all of the queued frames.
AckCounted == \A q \in Seq(Nat) : q # <<>> => AckCount(q) \in 1 .. Len(q)

\* The count of the record reaches the number of messages with the last one.
CountsUp(c, S, i) ==
  /\ Cardinality(S \cup {i}) = Cardinality(S) + 1
  /\ (Cardinality(S) + 1 = c) <=> (S \cup {i} = 1 .. c)

RecordCounted ==
  \A c \in Nat \ {0} : \A S \in SUBSET (1 .. c) : \A i \in 1 .. c : i \notin S => CountsUp(c, S, i)

\* All messages are acknowledged when as many are as there are.
AllCounted ==
  \A c \in Nat : \A S \in SUBSET (1 .. c) : Cardinality(S) = c <=> S = 1 .. c

\* What the frames in positions H release, when each carries messages M[s].
Pairs(H, M) == UNION {{s} \X M[s] : s \in H}
United(H, M) == UNION {M[s] : s \in H}

PairsCounted ==
  \A H \in SUBSET Slots : \A M :
    (\A s \in H : \E c \in Nat : M[s] \in SUBSET (1 .. c)) => Cardinality(Pairs(H, M)) \in Nat

\* It adds its number to that of the messages A that were acknowledged before.
Apart(c, A, H, M) ==
  /\ \A s \in H : M[s] \in SUBSET (1 .. c) /\ M[s] \cap A = {}
  /\ \A r, s \in H : r # s => M[r] \cap M[s] = {}
AddsUp(A, H, M) ==
  Cardinality(A \cup United(H, M)) = Cardinality(A) + Cardinality(Pairs(H, M))

PairsAdded ==
  \A c \in Nat : \A A \in SUBSET (1 .. c) : \A H \in SUBSET Slots : \A M :
    Apart(c, A, H, M) => AddsUp(A, H, M)

Counting == /\ Cardinality({}) = 0
            /\ AckCounted /\ RecordCounted /\ AllCounted /\ PairsCounted /\ PairsAdded

-----------------------------------------------------------------------------
(***************************************************************************)
(* The count of acknowledged messages, in every environment.               *)
(***************************************************************************)

\* A busy frame belongs to a transaction that its node has posted; what it
\* carries is not acknowledged yet, and lies before the point where post()
\* continues.
BusyFrame ==
  \A n \in Node : \A s \in Slots :
    LET f == m_freeFrames[n][s] IN
    ~ f.is_free =>
      /\ f.transaction \in 1 .. Len(Msgs[n])
      /\ f.transaction <= app[n].k
      /\ f.msg_start + f.msg_count <= msgCount(<<n, f.transaction>>)
      /\ f.transaction = app[n].k => f.msg_start + f.msg_count <= app[n].msg
      /\ MsgsIn(f) \cap ack[<<n, f.transaction>>] = {}

\* No message is carried by two busy frames.
BusyDisjoint ==
  \A n \in Node : \A r, s \in Slots :
    /\ r # s
    /\ ~ m_freeFrames[n][r].is_free /\ ~ m_freeFrames[n][s].is_free
    /\ m_freeFrames[n][r].transaction = m_freeFrames[n][s].transaction
    => MsgsIn(m_freeFrames[n][r]) \cap MsgsIn(m_freeFrames[n][s]) = {}

\* Nothing is acknowledged beyond the point that post() has reached.
AckedWasPosted ==
  \A t \in Transaction :
    /\ t[2] > app[t[1]].k => ack[t] = {}
    /\ t[2] = app[t[1]].k => \A i \in ack[t] : i <= app[t[1]].msg

\* Between getFrame and the first message, a frame that post() still holds
\* is empty and starts where post() is.
HeldFrame ==
  \A n \in Node : LET f == m_freeFrames[n][app[n].slot] IN
    app[n].phase = "got" /\ ~ f.is_free =>
      f.transaction = app[n].k /\ f.msg_start = app[n].msg /\ f.msg_count = 0

CountInv == BusyFrame /\ BusyDisjoint /\ AckedWasPosted /\ HeldFrame /\ CountedOnce

\* A transfer reports CompleteSuccess (getStatus, complete()) exactly when
\* each of its messages has been acknowledged.
CompleteIsAllAcked == \A t \in Transaction : Complete(t) <=> ack[t] = 1 .. msgCount(t)

-----------------------------------------------------------------------------
(***************************************************************************)
(* Acknowledgements, under the timing that the layer is written for: a     *)
(* frame is sent again only when neither a copy nor an acknowledgement of  *)
(* it can still arrive, and the network duplicates nothing. The claim is   *)
(* for the frames before the 16 bit frame number wraps.                    *)
(***************************************************************************)

ConservativeTiming == ~ EarlyTimeout /\ ~ StaleSendTime /\ MaxDup = 0 /\ MaxSeq <= SeqMod

\* What is in the network, in the ring, in the records and in the history
\* are numbers of frames that nextFreeFrame has given out.
NumberUsed(n, f) == f \in Nat \ {0} /\ f < m_frameSeq[n] /\ f < MaxSeq

NumbersUsed ==
  /\ \A p \in net : NumberUsed(p.src, p.seq)
  /\ \A n \in Node : \A f \in received[n] : NumberUsed(Peer[n], f)
  /\ \A n \in Node : \A s \in Slots :
       /\ ~ m_freeFrames[n][s].is_free =>
            NumberUsed(n, m_freeFrames[n][s].seq) /\ Slot(m_freeFrames[n][s].seq) = s
       /\ m_frameSeqRecord[n][s].id # 0 =>
            NumberUsed(Peer[n], m_frameSeqRecord[n][s].id) /\ Slot(m_frameSeqRecord[n][s].id) = s

\* One copy of a frame at a time, and none while its number waits in m_acks.
OneCopy ==
  \A p \in net :
    /\ \A q \in net : p.src = q.src /\ p.seq = q.seq => p = q
    /\ \A i \in DOMAIN m_acks[Peer[p.src]] : m_acks[Peer[p.src]][i] # p.seq

\* m_acks holds numbers of received frames, each once.
AcksDistinct ==
  \A n \in Node :
    /\ \A i \in DOMAIN m_acks[n] : m_acks[n][i] \in received[n]
    /\ \A i, j \in DOMAIN m_acks[n] : m_acks[n][i] = m_acks[n][j] => i = j

\* Headers acknowledge only frames that were received.
AckRange(h) == h.ACKStart .. h.ACKStart + h.ACKCount - 1

AckRanges ==
  /\ \A p \in net : AckRange(p) \subseteq received[p.src]
  /\ \A n \in Node : \A s \in Slots : ~ m_freeFrames[n][s].is_free =>
       AckRange(m_freeFrames[n][s]) \subseteq received[n]

\* A frame that is recorded and can still arrive carried data.
RecordKnown ==
  /\ \A p \in net :
       m_frameSeqRecord[Peer[p.src]][Slot(p.seq)].id = p.seq => p.seq \in received[Peer[p.src]]
  /\ \A n \in Node : \A s \in Slots :
       LET f == m_freeFrames[n][s] IN
       ~ f.is_free /\ m_frameSeqRecord[Peer[n]][s].id = f.seq => f.seq \in received[Peer[n]]
  /\ \A n \in Node : \A s \in Slots :
       m_frameSeqRecord[n][s].id \in received[n] => m_frameSeqRecord[n][s].acked

\* A frame of acknowledgements only was never received before, and is not
\* in the ring.
AckOnly ==
  \A p \in net : p.msg_count = 0 =>
    /\ p.seq \notin received[Peer[p.src]]
    /\ \A s \in Slots : LET f == m_freeFrames[p.src][s] IN ~ f.is_free => f.seq # p.seq

\* The frame that post() holds is in the ring and was never sent; every
\* other busy frame was sent and carries data.
HeldByPost(n, s) == app[n].phase \in {"got", "filled"} /\ s = app[n].slot

PostHolds ==
  \A n \in Node : \A s \in Slots :
    LET f == m_freeFrames[n][s] IN
    /\ HeldByPost(n, s) => /\ ~ f.is_free /\ f.send_time = "stale"
                           /\ app[n].phase = "filled" => f.msg_count > 0
                           /\ f.seq \notin received[Peer[n]]
                           /\ \A p \in net : ~ (p.src = n /\ p.seq = f.seq)
    /\ ~ f.is_free /\ ~ HeldByPost(n, s) => f.send_time = "set" /\ f.msg_count > 0

AckInv == /\ NumbersUsed /\ OneCopy /\ AcksDistinct /\ AckRanges /\ RecordKnown
          /\ AckOnly /\ PostHolds /\ ReleasedWasReceived /\ NoDupAbort

-----------------------------------------------------------------------------
(***************************************************************************)
(* Copies, whenever the timers fire, whatever is lost, duplicated or       *)
(* reordered, and with frame numbers that wrap. The one assumption is that *)
(* no datagram outlives the reuse of its frame (~ LongLived): an old frame *)
(* of acknowledgements would overwrite the record that tells a frame sent  *)
(* again from a new one.                                                   *)
(***************************************************************************)

\* What carries messages of node n: its datagrams and the frames of its ring.
Sent(n) == {p \in net : p.src = n} \cup {m_freeFrames[n][s] : s \in Slots}

\* The messages of a datagram or frame, and the ones that the socket thread
\* of a node still has to handle.
Loads(h) == h.first .. h.first + h.msg_count - 1
Reading(n) == IF rx[n] = NoMsg THEN {} ELSE rx[n].next .. rx[n].last

\* A message has been handled: its data was copied, or it was only the flag.
Done(t, i) == IF NumMsgs(t) = 0 THEN flag[t] ELSE copied[<<t, i>>] > 0

\* Message i of the k-th transaction of n has not been handled, nor is it
\* about to be.
Fresh(n, k, i) == ~ Done(<<n, k>>, i) /\ ~ (rx[Peer[n]].k = k /\ i \in Reading(Peer[n]))

\* post() has put messages lo .. hi of the k-th transaction into frames, and
\* has not yet done so with message i.
Span(n, k, lo, hi) ==
  /\ k \in 1 .. Len(Msgs[n]) /\ hi \in 1 .. msgCount(<<n, k>>) /\ lo \in 1 .. hi
  /\ k <= app[n].k /\ (k = app[n].k => hi <= app[n].msg)
Unsent(n, k, i) == k > app[n].k \/ (k = app[n].k /\ i > app[n].msg)

\* A number in use is one of the last NFrames that were given out; the record
\* of its position still has it once the frame was received, and before that
\* none of its messages was handled.
Fit(n, h) ==
  /\ h.seq # 0 => h.seq < m_frameSeq[n] /\ m_frameSeq[n] <= h.seq + NFrames
  /\ h.seq \in received[Peer[n]] =>
       m_frameSeqRecord[Peer[n]][Slot(h.seq)].id = Wire(h.seq)
  /\ h.msg_count # 0 => Span(n, h.iov, h.first, h.first + h.msg_count - 1)
  /\ h.seq \notin received[Peer[n]] => \A i \in Loads(h) : Fresh(n, h.iov, i)
Carried == \A n \in Node : \A h \in Sent(n) : Fit(n, h)

\* A message travels under one number only.
OneNumber ==
  \A n \in Node : \A g, h \in Sent(n) :
    g.iov = h.iov /\ Loads(g) \cap Loads(h) # {} => g.seq = h.seq

\* A frame is in the position of its number, and as long as it has no
\* messages nothing was sent with messages under that number.
Holds(n, s) == app[n].phase \in {"got", "filled"} /\ app[n].slot = s

RingFit ==
  \A n \in Node : \A s \in Slots :
    LET f == m_freeFrames[n][s] IN
    /\ IF f.seq = 0 THEN f.is_free /\ f.msg_count = 0 /\ ~ Holds(n, s) ELSE Slot(f.seq) = s
    /\ app[n].phase = "got" /\ app[n].slot = s => f.msg_count = 0
    /\ f.msg_count = 0 =>
         f.seq \notin received[Peer[n]] /\ \A g \in Sent(n) : g.seq = f.seq => g.msg_count = 0

\* The numbers of datagrams and of received frames were given out.
Numbered ==
  /\ \A p \in net : p.seq # 0
  /\ \A n \in Node : \A f \in received[Peer[n]] : f # 0 /\ f < m_frameSeq[n]

\* The messages the socket thread is about to handle were not handled before.
ReadFit ==
  \A n \in Node : rx[Peer[n]] # NoMsg =>
    /\ Span(n, rx[Peer[n]].k, rx[Peer[n]].next, rx[Peer[n]].last)
    /\ \A i \in Reading(Peer[n]) : ~ Done(<<n, rx[Peer[n]].k>>, i)

UnsentFresh ==
  \A n \in Node : \A k \in 1 .. Len(Msgs[n]) : \A i \in 1 .. msgCount(<<n, k>>) :
    Unsent(n, k, i) => Fresh(n, k, i)

OnceInv == /\ Carried /\ OneNumber /\ RingFit /\ Numbered /\ ReadFit /\ UnsentFresh
           /\ AtMostOnce

\* What the invariant says of a datagram or frame is about its number and its
\* messages only.
Alike(h, g) == /\ h.seq = g.seq /\ h.iov = g.iov
               /\ h.first = g.first /\ h.msg_count = g.msg_count

-----------------------------------------------------------------------------
(***************************************************************************)
(* The service, when the timing is as above and the application posts a    *)
(* transaction when the previous one is complete (Serial): the receiver    *)
(* keeps one record of reassembly for all transactions.                    *)
(***************************************************************************)

Usual == ConservativeTiming /\ Serial /\ ~ LongLived

\* The datagrams and busy frames of node n, which carry its acknowledgements.
Headers(n) == {p \in net : p.src = n} \cup
              {m_freeFrames[n][s] : s \in {r \in Slots : ~ m_freeFrames[n][r].is_free}}

\* The socket thread of the peer has a message of frame f of node n before it.
Hearing(n, f) == \E i \in Loads(f) : rx[Peer[n]].k = f.iov /\ i \in Reading(Peer[n])

\* A datagram with messages has those of the frame with its number.
SameLoad ==
  \A p \in net : \A s \in Slots :
    p.msg_count # 0 /\ m_freeFrames[p.src][s].seq = p.seq => Alike(p, m_freeFrames[p.src][s])

\* Of a busy frame: releasing it acknowledges the messages it carries; when
\* it was received they are handled, or the socket thread is about to; no
\* header acknowledges it before they are.
BusyLoad ==
  \A n \in Node : \A s \in Slots :
    LET f == m_freeFrames[n][s] IN
    ~ f.is_free =>
      /\ f.msg_count # 0 => f.iov = f.transaction /\ f.first = f.msg_start + 1
      /\ f.seq \in received[Peer[n]] => \A i \in Loads(f) : ~ Fresh(n, f.iov, i)
      /\ Hearing(n, f) => \A h \in Headers(Peer[n]) : f.seq \notin AckRange(h)

\* What is acknowledged was handled.
AckedDone == \A t \in Transaction : \A i \in ack[t] : Done(t, i)

\* The record of reassembly is about the last transaction that the peer has
\* posted: while it is in use it counts the messages handled, some are
\* missing and the flag is not written; otherwise all was handled, or nothing.
DoneSet(t) == {i \in 1 .. msgCount(t) : Done(t, i)}
Record(n) == m_msgTransactionRecord[Peer[n]][0]

Progress(n, k) ==
  LET t == <<n, k>> IN
  /\ k < app[n].k => flag[t] /\ ack[t] = 1 .. msgCount(t)
  /\ k > app[n].k => ~ flag[t]
  /\ k = app[n].k /\ Record(n).in_use =>
       /\ ~ flag[t] /\ NumMsgs(t) # 0 /\ DoneSet(t) # 1 .. msgCount(t)
       /\ Record(n).msgsProcessed = Cardinality(DoneSet(t))
  /\ k = app[n].k /\ ~ Record(n).in_use =>
       DoneSet(t) = IF flag[t] THEN 1 .. msgCount(t) ELSE {}

Assembled ==
  \A n \in Node : /\ Record(n).in_use => app[n].k # 0
                  /\ \A k \in 1 .. Len(Msgs[n]) : Progress(n, k)

ServiceInv == SameLoad /\ BusyLoad /\ AckedDone /\ Assembled

AllInv == TypeInv /\ CountInv /\ CompleteIsAllAcked /\ AckInv /\ OnceInv /\ ServiceInv

-----------------------------------------------------------------------------
(***************************************************************************)
(* The assertions of the layer, for any application.                       *)
(***************************************************************************)

\* m_frames_in_play is what its memory held at first, and one more while the
\* record of reassembly is in use.
InPlay(n) == IF m_msgTransactionRecord[n][0].in_use THEN 1 ELSE 0
InPlayExact == \A n \in Node : \E f \in FramesInPlay : m_frames_in_play[n] = f + InPlay(n)
NoInPlayAbort == \A n \in Node : aborted[n] # "inplay"

InPlayInv == InPlayExact /\ NoInPlayAbort

\* What the assertion of processFrame asks of that memory.
RoomInPlay == \A f \in FramesInPlay : f + 1 < History

\* The only assertion of the layer that can fail is the one of nextFreeFrame,
\* when the ring wraps onto a frame that the peer has not acknowledged.
OnlyWindowAborts == \A n \in Node : aborted[n] \in {"no", "window"}

-----------------------------------------------------------------------------
(***************************************************************************)
(* The ring, in every environment: the ring goes round any number of       *)
(* times, but a transfer of one direction that fits into it, posted when   *)
(* the one before is complete, never catches up with a busy frame.         *)
(***************************************************************************)

\* One of the two sides posts nothing, and so sends acknowledgements only.
Silent(n) == Msgs[n] = <<>>

RingSuffices ==
  /\ Serial
  /\ \A n \in Node : Silent(n) \/ Silent(Peer[n])
  /\ \A t \in Transaction : msgCount(t) <= NFrames * MsgsPerFrame

\* A silent node keeps no frame and sends none with messages; its peer then
\* has nothing to acknowledge, and claims frames in post() only.
SilentRing ==
  \A n \in Node : Silent(n) =>
    /\ \A s \in Slots : m_freeFrames[n][s].is_free
    /\ \A p \in net : p.src = n => p.msg_count = 0
    /\ m_acks[Peer[n]] = <<>>
    /\ \A s \in Slots : ~ m_frameSeqRecord[Peer[n]][s].acked

\* The number of the next frame that post() fills.
Filling(n) == IF app[n].phase = "got" THEN m_frameSeq[n] - 1 ELSE m_frameSeq[n]

\* A busy frame is of the transfer that was posted last. Since it was claimed
\* post() has filled the frames that come before the next one, or is done.
Abreast(n, f) ==
  /\ f.transaction = app[n].k
  /\ f.seq < m_frameSeq[n] /\ f.seq <= Filling(n)
  /\ \/ app[n].msg = msgCount(<<n, app[n].k>>)
     \/ app[n].msg >= (Filling(n) - f.seq) * MsgsPerFrame

BusyAt(n, s) ==
  LET f == m_freeFrames[n][s] IN
  ~ f.is_free =>
    /\ Slot(f.seq) = s
    /\ f.msg_count = 0 => app[n].phase = "got" /\ app[n].slot = s
    /\ Abreast(n, f)
BusyRing == \A n \in Node : \A s \in Slots : BusyAt(n, s)

RingInv == SilentRing /\ BusyRing /\ RingHolds
=============================================================================
