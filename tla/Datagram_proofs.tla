-------------------------- MODULE Datagram_proofs ---------------------------
(***************************************************************************)
(* What holds of Datagram: the invariants, put together from               *)
(* DatagramAck_proofs, DatagramFrames_proofs and DatagramSteps_proofs,     *)
(* and the theorems that follow from them.                                 *)
(***************************************************************************)
EXTENDS DatagramAck_proofs, DatagramSteps_proofs, WellFoundedInduction, FiniteSetTheorems

-----------------------------------------------------------------------------
(***************************************************************************)
(* The facts about sequences and finite sets that the steps rest on.       *)
(***************************************************************************)

\* A set of naturals that is not empty has a least element.
LEMMA LeastNatural ==
  ASSUME NEW T, T \subseteq Nat, T # {}
  PROVE  \E x \in T : \A y \in T : x <= y
<1>1. PICK x \in T : \A y \in T : ~ (<<y, x>> \in OpToRel(<, Nat))
  BY NatLessThanWellFounded, WFMin, Zenon
<1>2. ASSUME NEW y \in T, y < x PROVE FALSE
  <2>1. <<y, x>> \in OpToRel(<, Nat)
    BY <1>2 DEF OpToRel
  <2>2. QED
    BY Zenon, <1>1, <2>1
<1>3. QED
  BY <1>2

\* getFrame acknowledges at least one and at most all of the queued frames.
LEMMA AckCountType ==
  ASSUME NEW q \in Seq(Nat), q # <<>>
  PROVE  AckCount(q) \in 1 .. Len(q)
<1>0. Len(q) \in Nat /\ Len(q) >= 1
  OBVIOUS
<1>1. CASE Len(q) < 2 \/ q[2] # q[1] + 1
  BY <1>0, <1>1 DEF AckCount
<1>2. CASE ~(Len(q) < 2 \/ q[2] # q[1] + 1)
  <2> DEFINE Stop(i) == i + 2 > Len(q) \/ q[i + 2] # q[1] + 1
             T == {i \in 2 .. Len(q) : Stop(i)}
  <2>1. Len(q) \in T
    BY <1>0, <1>2
  <2>2. PICK i \in T : \A y \in T : i <= y
    <3>1. T \subseteq 2 .. Len(q)
      BY Zenon
    <3>2. 2 .. Len(q) \subseteq Nat
      BY <1>0
    <3> HIDE DEF T
    <3>3. QED
      BY <2>1, <3>1, <3>2, LeastNatural, Zenon
  <2>3. ASSUME NEW j \in 2 .. i - 1 PROVE j + 2 <= Len(q) /\ q[j + 2] = q[1] + 1
    <3>1. j \in 2 .. Len(q) /\ ~(i <= j)
      BY <1>0, <2>2
    <3>2. j \notin T
      BY <2>2, <3>1
    <3>3. QED
      BY <3>1, <3>2
  <2>4. \E x \in 2 .. Len(q) : /\ x + 2 > Len(q) \/ q[x + 2] # q[1] + 1
                               /\ \A j \in 2 .. x - 1 : j + 2 <= Len(q) /\ q[j + 2] = q[1] + 1
    BY Zenon, <2>2, <2>3
  <2>5. AckCount(q) \in 2 .. Len(q)
    BY Zenon, <1>2, <2>4 DEF AckCount
  <2>6. QED
    BY <1>0, <2>5
<1>3. QED
  BY <1>1, <1>2

\* The count of the record reaches the number of messages with the last one.
LEMMA CountsUpByOne ==
  ASSUME NEW c \in Nat \ {0}, NEW S \in SUBSET (1 .. c), NEW i \in 1 .. c, i \notin S
  PROVE  CountsUp(c, S, i)
<1>1. IsFiniteSet(1 .. c) /\ Cardinality(1 .. c) = c
  BY FS_Interval
<1>2. IsFiniteSet(S) /\ Cardinality(S) \in Nat
  BY Zenon, <1>1, FS_Subset, FS_CardinalityType
<1>3. Cardinality(S \cup {i}) = Cardinality(S) + 1
  BY Zenon, <1>2, FS_AddElement
<1>4. S \cup {i} \in SUBSET (1 .. c)
  OBVIOUS
<1>5. Cardinality(1 .. c) = Cardinality(S \cup {i}) => 1 .. c = S \cup {i}
  BY Zenon, <1>1, <1>4, FS_Subset
<1>6. QED
  BY Zenon, <1>1, <1>2, <1>3, <1>5 DEF CountsUp

\* A finite family of finite sets has a finite union.
LEMMA FiniteFamily ==
  ASSUME NEW H, IsFiniteSet(H), NEW g, \A s \in H : IsFiniteSet(g[s])
  PROVE  IsFiniteSet(United(H, g))
<1> DEFINE F == {g[s] : s \in H}
           h == [s \in H |-> g[s]]
<1>1. h \in Surjection(H, F)
  BY DEF Surjection
<1>2. IsFiniteSet(F)
  <2> HIDE DEF F, h
  <2> QED BY <1>1, FS_Surjection, Zenon
<1>3. \A T \in F : IsFiniteSet(T)
  BY Zenon
<1>4. IsFiniteSet(UNION F)
  <2> HIDE DEF F
  <2> QED BY <1>2, <1>3, FS_UNION, Zenon
<1>5. QED
  BY Zenon, <1>4 DEF United

\* The ring has finitely many positions.
LEMMA SlotsFinite == IsFiniteSet(Slots)
BY FS_Interval, SizeAssumption DEF Slots

\* The pairs of finitely many finite sets are finitely many.
LEMMA FinitePairs ==
  ASSUME NEW H, IsFiniteSet(H), NEW M, \A s \in H : IsFiniteSet(M[s])
  PROVE  IsFiniteSet(Pairs(H, M)) /\ Cardinality(Pairs(H, M)) \in Nat
<1> DEFINE g == [s \in H |-> {s} \X M[s]]
<1>1. \A s \in H : g[s] = {s} \X M[s]
  BY Zenon
<1> HIDE DEF g
<1>2. ASSUME NEW s \in H PROVE IsFiniteSet(g[s])
  <2>1. IsFiniteSet({s} \X M[s])
    BY Zenon, FS_Singleton, FS_Product
  <2>2. QED
    BY Zenon, <1>1, <2>1
<1>3. IsFiniteSet(United(H, g))
  BY Zenon, <1>2, FiniteFamily
<1>4. United(H, g) = Pairs(H, M)
  <2>1. ASSUME NEW p PROVE p \in United(H, g) <=> p \in Pairs(H, M)
    <3>1. p \in United(H, g) <=> \E s \in H : p \in g[s]
      BY Zenon DEF United
    <3>2. p \in Pairs(H, M) <=> \E s \in H : p \in {s} \X M[s]
      BY Zenon DEF Pairs
    <3>3. QED
      BY Zenon, <1>1, <3>1, <3>2
  <2>2. QED
    BY Zenon, <2>1
<1>5. QED
  BY Zenon, <1>3, <1>4, FS_CardinalityType

\* The pairs of a disjoint family are as many as the members of its union.
LEMMA DisjointFamily ==
  ASSUME NEW H, IsFiniteSet(H), NEW M, \A s \in H : IsFiniteSet(M[s]),
         \A r, s \in H : r # s => M[r] \cap M[s] = {}
  PROVE  IsFiniteSet(United(H, M)) /\ Cardinality(Pairs(H, M)) = Cardinality(United(H, M))
<1> DEFINE P == Pairs(H, M)
           U == United(H, M)
           f == [p \in P |-> p[2]]
<1>1. IsFiniteSet(U)
  BY Zenon, FiniteFamily
<1>2. IsFiniteSet(P)
  BY Zenon, FinitePairs
<1>A. U = UNION {M[s] : s \in H} /\ P = UNION {{s} \X M[s] : s \in H}
  BY Zenon DEF United, Pairs
<1> HIDE DEF U, P
<1>3. ASSUME NEW p \in P PROVE \E s \in H : p[1] = s /\ p[2] \in M[s] /\ p = <<p[1], p[2]>>
  BY <1>A
<1>4. f \in [P -> U]
  BY <1>3, <1>A
<1>5. ASSUME NEW p \in P, NEW q \in P, p[2] = q[2] PROVE p = q
  <2>1. p[1] \in H /\ q[1] \in H /\ p[2] \in M[p[1]] /\ q[2] \in M[q[1]]
    BY <1>3
  <2>2. p[1] = q[1]
    BY <1>5, <2>1
  <2>3. QED
    BY <1>3, <1>5, <2>2
<1>6. f \in Injection(P, U)
  <2> QED BY <1>4, <1>5 DEF Injection, IsInjective
<1>7. ASSUME NEW u \in U PROVE \E p \in P : f[p] = u
  <2>1. PICK s \in H : u \in M[s]
    BY Zenon, <1>A
  <2>2. <<s, u>> \in P
    BY <1>A, <2>1
  <2>3. f[<<s, u>>] = u
    <3> QED BY <2>2
  <2>4. QED
    BY <2>2, <2>3
<1>8. f \in Surjection(P, U)
  <2> HIDE DEF f
  <2> QED BY <1>4, <1>7 DEF Surjection
<1>9. Cardinality(U) = Cardinality(P)
  <2> HIDE DEF f
  <2>1. ExistsBijection(P, U)
    BY <1>6, <1>8 DEF ExistsBijection, Bijection
  <2>2. QED
    BY <1>2, <2>1, FS_Bijection, Zenon
<1>10. QED
  BY Zenon, <1>1, <1>9 DEF U, P

\* The messages of finitely many frames are finitely many.
LEMMA PairsFinite ==
  ASSUME NEW H \in SUBSET Slots, NEW M, \A s \in H : \E c \in Nat : M[s] \in SUBSET (1 .. c)
  PROVE  /\ IsFiniteSet(H) /\ \A s \in H : IsFiniteSet(M[s])
         /\ Cardinality(Pairs(H, M)) \in Nat
<1>1. IsFiniteSet(H)
  BY Zenon, SlotsFinite, FS_Subset
<1>2. ASSUME NEW s \in H PROVE IsFiniteSet(M[s])
  <2>1. PICK c \in Nat : M[s] \in SUBSET (1 .. c)
    BY Zenon
  <2>2. IsFiniteSet(1 .. c)
    BY <2>1, FS_Interval
  <2>3. QED
    BY Zenon, <2>1, <2>2, FS_Subset
<1>3. QED
  BY Zenon, <1>1, <1>2, FinitePairs

\* Disjoint sets of messages add up.
LEMMA PairsAdd ==
  ASSUME NEW c \in Nat, NEW A \in SUBSET (1 .. c), NEW H \in SUBSET Slots, NEW M, Apart(c, A, H, M)
  PROVE  AddsUp(A, H, M)
<1> DEFINE U == United(H, M)
<1>1. IsFiniteSet(H) /\ \A s \in H : IsFiniteSet(M[s])
  BY Zenon, PairsFinite DEF Apart
<1>2. IsFiniteSet(A) /\ Cardinality(A) \in Nat
  <2>1. IsFiniteSet(1 .. c)
    BY FS_Interval
  <2>2. QED
    BY Zenon, <2>1, FS_Subset, FS_CardinalityType
<1>3. IsFiniteSet(U) /\ Cardinality(Pairs(H, M)) = Cardinality(U)
  <2>1. \A r, s \in H : r # s => M[r] \cap M[s] = {}
    BY Zenon DEF Apart
  <2>2. QED
    BY Zenon, <1>1, <2>1, DisjointFamily
<1>4. A \cap U = {}
  BY Zenon DEF Apart, United
<1> HIDE DEF U
<1>5. Cardinality(U) \in Nat
  BY Zenon, <1>3, FS_CardinalityType
<1>6. Cardinality(A \cup U) = Cardinality(A) + Cardinality(U) - Cardinality(A \cap U)
  BY Zenon, <1>2, <1>3, FS_Union
<1>7. Cardinality(A \cap U) = 0
  BY Zenon, <1>4, FS_EmptySet
<1>8. Cardinality(A \cup U) = Cardinality(A) + Cardinality(U)
  BY <1>2, <1>5, <1>6, <1>7
<1>9. QED
  BY Zenon, <1>3, <1>8 DEF AddsUp, U

LEMMA CountingHolds == Counting
<1>1. Cardinality({}) = 0
  BY Zenon, FS_EmptySet
<1>2. AckCounted
  BY Zenon, AckCountType DEF AckCounted
<1>3. RecordCounted
  BY Zenon, CountsUpByOne DEF RecordCounted
<1>4. AllCounted
  <2> SUFFICES ASSUME NEW c \in Nat, NEW S \in SUBSET (1 .. c)
               PROVE  Cardinality(S) = c <=> S = 1 .. c
    BY Zenon DEF AllCounted
  <2>1. IsFiniteSet(1 .. c) /\ Cardinality(1 .. c) = c
    BY FS_Interval
  <2>2. QED
    BY Zenon, <2>1, FS_Subset
<1>5. PairsCounted
  BY Zenon, PairsFinite DEF PairsCounted
<1>6. PairsAdded
  BY Zenon, PairsAdd DEF PairsAdded
<1>7. QED
  BY Zenon, <1>1, <1>2, <1>3, <1>4, <1>5, <1>6 DEF Counting

-----------------------------------------------------------------------------
(***************************************************************************)
(* The theorems.                                                           *)
(***************************************************************************)

\* The inductive invariant behind type correctness.
THEOREM TypeInvariant == Spec => []TypeInv
<1>1. TypeInv /\ [Next]_vars => TypeInv'
  BY Zenon, TypeStep, CountingHolds
<1>2. QED
  BY <1>1, InitTypeInv, PTL DEF Spec

\* Whatever datagrams the network loses, repeats or delays, and whenever the
\* timers fire, every variable of the datagram layer stays in its type; in
\* particular the unsigned m_frames_in_play never goes below 0.
THEOREM TypeCorrect == Spec => []TypeOK
<1>1. TypeInv => TypeOK
  BY DEF TypeInv
<1>2. QED
  BY <1>1, TypeInvariant, PTL

\* The count of acknowledged messages is exact in every configuration: with
\* timeouts at any moment, duplicated and late datagrams, wrong
\* acknowledgements, and frames released while post() fills them.
THEOREM CountCorrect == Spec => []CountedOnce
<1>1. Init => CountInv
  BY Zenon, InitCount, CountingHolds
<1>2. TypeInv /\ CountInv /\ [Next]_vars => CountInv'
  BY Zenon, CountStep, CountingHolds
<1>3. CountInv => CountedOnce
  BY DEF CountInv
<1>4. QED
  BY <1>1, <1>2, <1>3, TypeInvariant, PTL DEF Spec

\* The count of the transfer tells whether all its messages are acknowledged.
LEMMA CompleteCounted == CountedOnce => CompleteIsAllAcked
BY Zenon, CompleteWhenAcked, CountingHolds

\* getStatus never reports a transfer complete that waits for an
\* acknowledgement, nor one incomplete whose acknowledgements are all in.
THEOREM CompleteCorrect == Spec => []CompleteIsAllAcked
BY CompleteCounted, CountCorrect, PTL

\* Under conservative timing the sender drops a frame from its ring (ack,
\* releaseFrame) only when the peer has handled it, and processFrame's
\* assertion "cant have dup without ACK" never fails.
THEOREM AckCorrect ==
  ASSUME ConservativeTiming
  PROVE  Spec => [](ReleasedWasReceived /\ NoDupAbort)
<1>1. Init => AckInv
  BY InitAck
<1>2. TypeInv /\ AckInv /\ [Next]_vars => AckInv'
  BY AckStep
<1>3. AckInv => ReleasedWasReceived /\ NoDupAbort
  BY DEF AckInv
<1>4. QED
  BY <1>1, <1>2, <1>3, TypeInvariant, PTL DEF Spec

\* What is known of the numbers of frames and messages (OnceInv) holds in every
\* reachable state.
THEOREM OnceInvariant == ASSUME ~ LongLived PROVE Spec => []OnceInv
<1>1. Init => TypeInv /\ OnceInv
  BY Zenon, InitTypeInv, InitOnce
<1>2. TypeInv /\ OnceInv /\ [Next]_vars => (TypeInv /\ OnceInv)'
  BY Zenon, TypeStep, OnceStep, CountingHolds
<1>3. QED
  BY <1>1, <1>2, PTL DEF Spec

\* No message is copied twice into the receiver's memory (processFrame: "Dont
\* process dups"), for every number of nodes and every size of the ring, with
\* timeouts that fire at any moment, frame numbers that wrap around and a
\* network that loses, duplicates and reorders datagrams: it only may not keep
\* one until its frame is used again.
THEOREM CopiedAtMostOnce == ASSUME ~ LongLived PROVE Spec => []AtMostOnce
<1>1. OnceInv => AtMostOnce
  BY Zenon DEF OnceInv
<1>2. QED
  BY <1>1, OnceInvariant, PTL

\* All the invariants together hold in every reachable state.
THEOREM ServiceInvariant == ASSUME Usual PROVE Spec => []AllInv
<1>1. Init => AllInv
  BY Zenon, InitTypeInv, InitCount, InitAck, InitOnce, InitService, CompleteCounted, CountingHolds DEF AllInv, CountInv
<1>2. AllInv /\ [Next]_vars => AllInv'
  <2> SUFFICES ASSUME AllInv, [Next]_vars PROVE AllInv'
    OBVIOUS
  <2>1. TypeInv' /\ CountInv' /\ OnceInv'
    BY Zenon, TypeStep, CountStep, OnceStep, CountingHolds DEF AllInv, Usual
  <2>2. AckInv'
    BY Zenon, AckStep DEF AllInv, Usual
  <2>3. ServiceInv'
    BY Zenon, <2>1, ServiceStep, CountingHolds DEF AllInv
  <2>4. CompleteIsAllAcked'
    <3>1. CountedOnce'
      BY Zenon, <2>1 DEF CountInv
    <3>2. QED
      BY <3>1, CompleteCounted, PTL
  <2>5. QED
    BY Zenon, <2>1, <2>2, <2>3, <2>4 DEF AllInv
<1>3. QED
  BY <1>1, <1>2, PTL DEF Spec

\* processFrame writes the flag of a transaction when the data of all its
\* messages is in the receiver's memory, however the frames were lost, sent
\* again and reordered.
THEOREM FlagIsLast == ASSUME Usual PROVE Spec => []FlagAfterData
<1>1. AllInv => FlagAfterData
  <2> SUFFICES ASSUME AllInv, NEW t \in Transaction, flag[t], NumMsgs(t) # 0, NEW i \in 1 .. msgCount(t)
               PROVE  copied[<<t, i>>] >= 1
    BY Zenon DEF FlagAfterData
  <2>1. Done(t, i)
    BY Zenon, FlagIsDone DEF DoneSet
  <2>2. copied[<<t, i>>] > 0
    BY Zenon, <2>1 DEF Done
  <2>3. copied \in [Message -> Nat] /\ <<t, i>> \in Message
    BY Zenon, MessageType DEF AllInv, TypeInv, TypeOK
  <2>4. copied[<<t, i>>] \in Nat
    BY Zenon, <2>3
  <2>5. QED
    BY <2>2, <2>4
<1>2. QED
  BY <1>1, ServiceInvariant, PTL

\* getStatus reports a transfer complete only after the flag was written at
\* the peer: the application may reuse its buffer.
THEOREM CompleteIsDelivered == ASSUME Usual PROVE Spec => []CompleteWasDelivered
BY DeliveredFirst, ServiceInvariant, PTL

\* The driver gives the service that the transport above it relies on: seen
\* through what was posted, handled and reported complete, every step of the
\* protocol is a step of ReliableTransfer or none at all.
THEOREM ServiceImplemented == ASSUME Usual PROVE Spec => ImplementsService
<1>1. Init => Service!AInit
  BY Zenon, ServiceInit
<1>2. AllInv /\ AllInv' /\ [Next]_vars => [Service!ANext]_(Service!avars)
  BY Zenon, ServiceNext, CountingHolds
<1>3. QED
  BY <1>1, <1>2, ServiceInvariant, PTL DEF Spec, ImplementsService, Service!ASpec

\* The assertions of processFrame, on duplicates and on m_frames_in_play, never
\* fail, however full the ring is.
THEOREM OnlyTheRingAborts ==
  ASSUME ConservativeTiming, RoomInPlay PROVE Spec => []OnlyWindowAborts
<1>1. Init => TypeInv /\ AckInv /\ InPlayInv
  BY Zenon, InitTypeInv, InitAck, InPlayInit
<1>2. TypeInv /\ AckInv /\ InPlayInv /\ [Next]_vars => (TypeInv /\ AckInv /\ InPlayInv)'
  BY Zenon, TypeStep, AckStep, InPlayStep, CountingHolds DEF InPlayInv
<1>3. TypeInv /\ AckInv /\ InPlayInv => OnlyWindowAborts
  <2> SUFFICES ASSUME TypeInv, AckInv, InPlayInv, NEW n \in Node
               PROVE  aborted[n] \in {"no", "window"}
    BY Zenon DEF OnlyWindowAborts
  <2>1. aborted[n] \in {"no", "window", "dup", "inplay"} /\ aborted[n] # "dup" /\ aborted[n] # "inplay"
    BY Zenon DEF TypeInv, TypeOK, AckInv, NoDupAbort, InPlayInv, NoInPlayAbort
  <2>2. QED
    BY Zenon, <2>1
<1>4. QED
  BY <1>1, <1>2, <1>3, PTL DEF Spec

\* post() finds the frame it comes to free: a frame with the same position is
\* a whole lap behind, and a transfer has no more than a lap of messages.
LEMMA RingIsFree ==
  ASSUME RingSuffices, TypeInv, BusyRing, NEW n \in Node, app[n].phase = "loop"
  PROVE  m_freeFrames[n][Slot(m_frameSeq[n])].is_free
<1> DEFINE q == m_frameSeq[n]
           c == msgCount(<<n, app[n].k>>)
<1>1. q \in Nat /\ app[n].msg \in Nat /\ NFrames \in Nat \ {0} /\ MsgsPerFrame \in Nat \ {0}
  BY Zenon, RingTypes, SizeAssumption
<1>2. app[n].k \in 1 .. Len(Msgs[n]) /\ app[n].msg < c
  BY DEF TypeInv, PostInRange
<1>3. c \in Nat /\ c <= NFrames * MsgsPerFrame
  BY Zenon, <1>2, TransactionType DEF RingSuffices
<1>4. Slot(q) \in Slots
  BY Zenon, <1>1, SlotInRing
<1>5. PICK f : f = m_freeFrames[n][Slot(q)]
  BY Zenon
<1>6. ASSUME ~ f.is_free PROVE FALSE
  <2>1. Slot(f.seq) = Slot(q) /\ Abreast(n, f) /\ f.seq \in Nat
    BY Zenon, <1>4, <1>5, <1>6, RingTypes DEF BusyRing, BusyAt
  <2>2. Filling(n) = q
    BY DEF Filling
  <2>3. f.seq < q /\ (app[n].msg = c \/ app[n].msg >= (q - f.seq) * MsgsPerFrame)
    BY Zenon, <2>1, <2>2 DEF Abreast
  <2> HIDE DEF q, c
  <2>4. app[n].msg >= (q - f.seq) * MsgsPerFrame
    BY <1>1, <1>2, <1>3, <2>3
  <2>5. q - f.seq >= NFrames
    <3>1. SUFFICES ASSUME q - f.seq < NFrames PROVE FALSE
      BY <1>1, <2>1
    <3>2. q < q + 1 /\ f.seq < q + 1 /\ q + 1 <= q + NFrames /\ q + 1 <= f.seq + NFrames /\ q + 1 \in Nat
      BY <1>1, <2>1, <2>3, <3>1
    <3>3. f.seq = q
      BY Zenon, <1>1, <2>1, <3>2, SlotGap
    <3>4. QED
      BY <1>1, <2>3, <3>3
  <2>6. PICK d \in Nat : d = q - f.seq - NFrames
    BY <1>1, <2>1, <2>5
  <2>7. (q - f.seq) * MsgsPerFrame = NFrames * MsgsPerFrame + d * MsgsPerFrame
        /\ d * MsgsPerFrame \in Nat /\ NFrames * MsgsPerFrame \in Nat
    <3>1. q - f.seq = NFrames + d
      BY <1>1, <2>1, <2>6
    <3>2. (NFrames + d) * MsgsPerFrame = NFrames * MsgsPerFrame + d * MsgsPerFrame
          /\ d * MsgsPerFrame \in Nat /\ NFrames * MsgsPerFrame \in Nat
      BY <1>1, <2>6, Z3
    <3>3. QED
      BY Zenon, <3>1, <3>2
  <2>8. QED
    BY <1>1, <1>2, <1>3, <2>4, <2>7
<1>7. QED
  BY Zenon, <1>5, <1>6

\* The assertion of nextFreeFrame.
LEMMA RingHoldsStep ==
  ASSUME RingSuffices, TypeInv, SilentRing, BusyRing, RingHolds, [Next]_vars PROVE RingHolds'
<1>1. ASSUME NEW n \in Node, WindowAbort(n), GetFrame(n) \/ SendAcks(n) PROVE FALSE
  <2>1. CASE GetFrame(n)
    BY Zenon, <1>1, <2>1, RingIsFree DEF GetFrame, WindowAbort
  <2>2. CASE SendAcks(n)
    <3>1. Silent(n)
      BY Zenon, <2>2, SilentAcks DEF SendAcks, RingSuffices
    <3>2. Slot(m_frameSeq[n]) \in Slots
      BY Zenon, SlotInRing, RingTypes
    <3>3. QED
      BY Zenon, <1>1, <3>1, <3>2 DEF SilentRing, WindowAbort
  <2>3. QED
    BY Zenon, <1>1, <2>1, <2>2
<1>2. aborted \in [Node -> {"no", "window", "dup", "inplay"}]
  BY Zenon DEF TypeInv, TypeOK
<1>3. ASSUME NEW n \in Node, NEW v, v # "window", aborted' = [aborted EXCEPT ![n] = v]
      PROVE  RingHolds'
  BY Zenon, <1>2, <1>3 DEF RingHolds
<1>4. CASE aborted' = aborted
  BY Zenon, <1>4 DEF RingHolds
<1>5. ASSUME NEW n \in Node, NodeStep(n) PROVE RingHolds'
  <2>1. CASE StartPost(n) \/ FillFrame(n) \/ PostFrame(n) \/ CheckAcks(n)
    BY Zenon, <1>4, <2>1 DEF StartPost, FillFrame, PostFrame, CheckAcks
  <2>2. CASE GetFrame(n)
    BY Zenon, <1>1, <1>4, <2>2 DEF GetFrame
  <2>3. CASE SendAcks(n)
    BY Zenon, <1>1, <1>4, <2>3 DEF SendAcks
  <2>4. CASE ProcessFrame(n)
    BY <1>3, <1>4, <2>4 DEF ProcessFrame, ProcessDup, ProcessNew
  <2>5. CASE ProcessMsg(n)
    BY <1>3, <1>4, <2>5 DEF ProcessMsg
  <2>6. QED
    BY Zenon, <1>5, <2>1, <2>2, <2>3, <2>4, <2>5 DEF NodeStep, AppStep
<1>6. CASE Lose \/ Duplicate \/ UNCHANGED vars
  BY Zenon, <1>4, <1>6 DEF Lose, Duplicate, vars
<1>7. QED
  BY Zenon, <1>5, <1>6 DEF Next

\* nextFreeFrame's ocpiAssert(f.is_free) never fails while transfers go in one
\* direction, one after the other, each with no more messages than the ring
\* has room for: the ring goes round any number of times, in every
\* environment, with timers that fire at any moment, stale send times and
\* a network that loses, duplicates, reorders and keeps datagrams.
THEOREM RingNeverOverruns == ASSUME RingSuffices PROVE Spec => []RingHolds
<1> DEFINE I == TypeInv /\ CountInv /\ RingInv
<1>1. Init => I
  BY Zenon, InitTypeInv, InitCount, InitRing, CountingHolds
<1>2. I /\ [Next]_vars => I'
  <2> SUFFICES ASSUME TypeInv, CountInv, RingInv, [Next]_vars PROVE I'
    BY Zenon
  <2>1. TypeInv' /\ CountInv'
    BY Zenon, TypeStep, CountStep, CountingHolds
  <2>2. CompleteIsAllAcked
    BY Zenon, CompleteCounted DEF CountInv
  <2>3. RingInv'
    BY Zenon, <2>2, SilentStep, BusyRingStep, RingHoldsStep DEF RingInv
  <2>4. QED
    BY Zenon, <2>1, <2>3
<1>3. I => RingHolds
  BY Zenon DEF RingInv
<1> HIDE DEF I
<1>4. QED
  BY <1>1, <1>2, <1>3, PTL DEF Spec

\* No assertion of the layer fails, however often the ring is reused: with
\* timers that fire only for lost frames no duplicate of a frame that was not
\* acknowledged arrives, with room for one more the count of transactions in
\* play stays in bounds, and with transfers of one direction that fit into
\* the ring every position that nextFreeFrame takes is free.
THEOREM NoAssertFails ==
  ASSUME ConservativeTiming, RoomInPlay, RingSuffices PROVE Spec => []NoAbort
<1>1. OnlyWindowAborts /\ RingHolds => NoAbort
  BY Zenon DEF OnlyWindowAborts, RingHolds, NoAbort
<1>2. QED
  BY <1>1, OnlyTheRingAborts, RingNeverOverruns, PTL
=============================================================================
