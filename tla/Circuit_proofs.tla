--------------------------- MODULE Circuit_proofs ---------------------------
(***************************************************************************)
(* Theorems about Circuit, for any numbers of buffers, any inputs, local   *)
(* and remote, and any number of messages: its safety properties, and that *)
(* it implements Channel.  They follow from the inductive invariant IInv,  *)
(* which every step of the workers, of the drivers and of the queue of     *)
(* transfers preserves.                                                    *)
(***************************************************************************)
EXTENDS Circuit, TLAPS, FiniteSetTheorems

\* How many buffers the ring of the inputs has from t on up to u.
Dist(t, u) == IF u >= t THEN u - t ELSE u - t + NIn

\* The number of the last message whose transfer to buffer t has started; it
\* is not positive if there was none.
Last(t) == started - NIn + 1 + Dist(nextTid, t)

\* The buffer an input hands out next.
NextOrd(p) == Succ(NIn, lastOrd[p])

-----------------------------------------------------------------------------
\* The queue holds the last messages sent, in order, in buffers of their own.
Queued ==
  /\ sent = started + Len(queue)
  /\ \A i \in 1 .. Len(queue) :
       /\ inUse[queue[i]] /\ outData[queue[i]] = started + i
       /\ \A j \in 1 .. Len(queue) : queue[i] = queue[j] => i = j

\* A buffer of the worker or of the queue has no transfer and no sharer.
Owned ==
  \A s \in Out : inUse[s] =>
    pending[s] = {} /\ \A p \in Local, t \in In : attached[p][t] # s

\* A transfer that is not complete is that of the one pending template.
Posted ==
  \A s \in Out, p \in Remote, t \in In : xfer[s][p][t] # "idle" => t \in pending[s]

\* An input takes its buffers in the order in which the output fills them.
Ring ==
  \A p \in Inputs :
    LET n == started - Len(received[p])
    IN  /\ 0 <= n /\ n <= NIn
        /\ n # NIn => n = Dist(NextOrd(p), nextTid)
        /\ n = NIn => NextOrd(p) = nextTid

\* A transfer that still writes carries the last message of its buffer, which
\* nobody has been handed.
Flight ==
  \A s \in Out, p \in Remote, t \in In : xfer[s][p][t] \in {"posted", "copied"} =>
    /\ shadow[p][t] /\ ~ full[p][t] /\ ~ credit[p][t]
    /\ outData[s] = Last(t)
    /\ xfer[s][p][t] = "copied" => inData[p][t] = Last(t)
    /\ Len(received[p]) < Last(t)
    /\ \A u \in Out : xfer[u][p][t] \in {"posted", "copied"} => u = s

\* A remote input buffer is free, full, held or waiting for its shadow flag
\* to be cleared.
RemoteBuffers ==
  \A p \in Remote, t \in In :
    /\ full[p][t] => shadow[p][t] /\ ~ credit[p][t] /\ inData[p][t] = Last(t)
    /\ full[p][t] /\ ~ busy[p][t] => Len(received[p]) < Last(t)
    /\ busy[p][t] => full[p][t] /\ Last(t) <= Len(received[p])
    /\ credit[p][t] => shadow[p][t] /\ Last(t) <= Len(received[p])
    /\ ~ shadow[p][t] => Last(t) <= Len(received[p])

\* A local input buffer is free, full or held.
LocalBuffers ==
  \A p \in Local, t \in In :
    /\ full[p][t] <=> attached[p][t] # NULL
    /\ full[p][t] => outData[attached[p][t]] = Last(t)
    /\ full[p][t] /\ ~ busy[p][t] => Len(received[p]) < Last(t)
    /\ busy[p][t] => full[p][t] /\ Last(t) <= Len(received[p])
    /\ ~ full[p][t] => Last(t) <= Len(received[p])

IInv == /\ TypeOK /\ Queued /\ Owned /\ Posted /\ OneTemplate /\ Ring
        /\ Flight /\ RemoteBuffers /\ LocalBuffers /\ InOrder

-----------------------------------------------------------------------------
\* Arithmetic of the ring.
LEMMA RingFacts ==
  /\ NIn \in Nat \ {0} /\ NOut \in Nat \ {0} /\ MaxSends \in Nat
  /\ Local \subseteq Inputs
  /\ 0 \in In /\ 0 \in Out /\ NIn - 1 \in In
  /\ NULL \notin Out
  /\ \A t \in In : Succ(NIn, t) \in In
  /\ \A s \in Out : Succ(NOut, s) \in Out
  BY CircuitAssumption DEF In, Out, NULL, Succ

LEMMA DistFacts ==
  ASSUME NEW t \in In, NEW u \in In
  PROVE  /\ Dist(t, u) \in In
         /\ Dist(t, u) = 0 <=> t = u
         /\ t # u => Dist(u, t) = NIn - Dist(t, u)
         /\ Dist(Succ(NIn, t), u) = IF t = u THEN NIn - 1 ELSE Dist(t, u) - 1
         /\ Dist(t, Succ(NIn, u)) = IF t = Succ(NIn, u) THEN 0 ELSE Dist(t, u) + 1
  BY CircuitAssumption DEF In, Dist, Succ

LEMMA DistInjective ==
  ASSUME NEW n \in In, NEW t \in In, NEW u \in In, Dist(n, t) = Dist(n, u)
  PROVE  t = u
  BY CircuitAssumption DEF In, Dist

\* Distinct buffers carry distinct messages.
LEMMA LastDistinct ==
  ASSUME TypeOK, NEW t \in In, NEW u \in In
  PROVE  Last(t) \in Int /\ (Last(t) = Last(u) => t = u)
<1>1. nextTid \in In /\ started \in Nat /\ NIn \in Nat
  BY Zenon, RingFacts DEF TypeOK
<1>2. Dist(nextTid, t) \in Int /\ Dist(nextTid, u) \in Int
  BY <1>1, DistFacts DEF In
<1>3. QED
  BY <1>1, <1>2, DistInjective DEF Last

\* The buffer that is next to be handed out carries the next message, if it
\* carries a message that was not handed out.
LEMMA NextMessage ==
  ASSUME TypeOK, Ring, NEW p \in Inputs, Len(received[p]) < Last(NextOrd(p))
  PROVE  Last(NextOrd(p)) = Len(received[p]) + 1
<1> DEFINE t == NextOrd(p)
           n == started - Len(received[p])
<1>1. nextTid \in In /\ started \in Nat /\ NIn \in Nat \ {0} /\ t \in In
  BY Zenon, RingFacts DEF TypeOK, NextOrd
<1>2. Len(received[p]) \in Nat
  BY DEF TypeOK
<1>3. /\ 0 <= n /\ n <= NIn
      /\ n # NIn => n = Dist(t, nextTid)
      /\ n = NIn => t = nextTid
  BY Zenon DEF Ring
<1> HIDE DEF t
<1>4. /\ Dist(t, nextTid) \in Int
      /\ Dist(nextTid, t) \in Int
      /\ t = nextTid => Dist(nextTid, t) = 0 /\ Dist(t, nextTid) = 0
      /\ t # nextTid => Dist(nextTid, t) = NIn - Dist(t, nextTid)
  BY <1>1, DistFacts DEF In
<1>5. Last(t) = started - NIn + 1 + Dist(nextTid, t)
  BY Zenon DEF Last
<1>6. QED
  BY SMTT(30), <1>1, <1>2, <1>3, <1>4, <1>5 DEF t

-----------------------------------------------------------------------------
LEMMA InitInv == Init => IInv
<1> SUFFICES ASSUME Init PROVE IInv
  BY Zenon
<1>1. TypeOK
  BY RingFacts DEF Init, TypeOK, XferState
<1>2. Queued /\ Owned /\ Posted /\ OneTemplate /\ InOrder
  BY RingFacts DEF Init, Queued, Owned, Posted, OneTemplate, InOrder
<1>3. \A t \in In : Last(t) <= 0
  BY <1>1, RingFacts, DistFacts DEF Init, Last, In
<1>4. Ring
  <2> SUFFICES ASSUME NEW p \in Inputs
               PROVE  NextOrd(p) = 0 /\ Len(received[p]) = 0
    BY RingFacts, DistFacts DEF Ring, Init
  <2> QED
    BY Zenon, RingFacts DEF Init, NextOrd, Succ
<1>5. Flight
  BY Zenon DEF Init, Flight
<1>6. RemoteBuffers
  BY Zenon, <1>3, RingFacts DEF Init, RemoteBuffers, Remote
<1>7. LocalBuffers
  BY Zenon, <1>3, RingFacts DEF Init, LocalBuffers
<1>8. QED
  BY Zenon, <1>1, <1>2, <1>4, <1>5, <1>6, <1>7 DEF IInv

-----------------------------------------------------------------------------
\* A step that starts no transfer leaves the numbers of the messages.
LEMMA SameLast ==
  ASSUME UNCHANGED <<started, nextTid>>
  PROVE  \A t \in In : Last(t)' = Last(t)
  BY Zenon DEF Last

LEMMA SameRing ==
  ASSUME Ring, UNCHANGED <<started, nextTid, received, lastOrd>>
  PROVE  Ring'
  BY Zenon DEF Ring, NextOrd

LEMMA Stutter == IInv /\ UNCHANGED vars => IInv'
<1> SUFFICES ASSUME IInv, UNCHANGED vars PROVE IInv'
  BY Zenon
<1> USE DEF vars, outVars, inVars
<1>0. \A b \in In : Last(b)' = Last(b)
  BY Zenon, SameLast
<1>1. TypeOK' /\ Queued' /\ Owned' /\ Posted' /\ OneTemplate' /\ InOrder'
  BY DEF IInv, TypeOK, Queued, Owned, Posted, OneTemplate, InOrder
<1>2. Ring'
  BY Zenon, SameRing DEF IInv
<1>3. Flight' /\ RemoteBuffers' /\ LocalBuffers'
  <2>0. Flight /\ RemoteBuffers /\ LocalBuffers
    BY Zenon DEF IInv
  <2>1. Flight'
    <3>1. UNCHANGED <<xfer, full, shadow, credit, outData, inData, received>>
      BY Zenon
    <3> HIDE DEF vars, outVars, inVars
    <3>2. QED
      BY <1>0, <2>0, <3>1 DEF Flight
  <2>2. RemoteBuffers'
    <3>1. UNCHANGED <<full, shadow, credit, inData, busy, received>>
      BY Zenon
    <3> HIDE DEF vars, outVars, inVars
    <3>2. QED
      BY <1>0, <2>0, <3>1 DEF RemoteBuffers
  <2>3. LocalBuffers'
    <3>1. UNCHANGED <<full, busy, attached, outData, received>>
      BY Zenon
    <3> HIDE DEF vars, outVars, inVars
    <3>2. QED
      BY <1>0, <2>0, <3>1 DEF LocalBuffers
  <2>4. QED
    BY Zenon, <2>1, <2>2, <2>3
<1>4. QED
  BY Zenon, <1>1, <1>2, <1>3 DEF IInv

LEMMA StepCopyData ==
  ASSUME IInv, NEW s \in Out, NEW p \in Remote, NEW t \in In, CopyData(s, p, t)
  PROVE  IInv'
<1> USE DEF CopyData, outVars, inVars
<1>0. TypeOK /\ \A b \in In : Last(b)' = Last(b)
  BY Zenon, SameLast DEF IInv
<1>1. TypeOK'
  BY <1>0 DEF TypeOK, XferState
<1>2. Queued' /\ Owned' /\ OneTemplate' /\ InOrder'
  BY DEF IInv, Queued, Owned, OneTemplate, InOrder
<1>3. Posted'
  BY <1>0 DEF IInv, Posted, TypeOK
<1>4. Ring'
  BY Zenon, SameRing DEF IInv
<1>5. Flight'
  BY <1>0 DEF IInv, Flight, TypeOK
<1>6. RemoteBuffers'
  BY <1>0 DEF IInv, RemoteBuffers, Flight, TypeOK
<1>7. LocalBuffers'
  BY <1>0 DEF IInv, LocalBuffers
<1>8. QED
  BY Zenon, <1>1, <1>2, <1>3, <1>4, <1>5, <1>6, <1>7 DEF IInv

LEMMA StepWriteFullFlag ==
  ASSUME IInv, NEW s \in Out, NEW p \in Remote, NEW t \in In,
         WriteFullFlag(s, p, t)
  PROVE  IInv'
<1> USE DEF WriteFullFlag, outVars, inVars
<1>0. TypeOK /\ \A b \in In : Last(b)' = Last(b)
  BY Zenon, SameLast DEF IInv
<1>1. TypeOK'
  BY Zenon, <1>0 DEF TypeOK, XferState, Remote
<1>2. Queued' /\ Owned' /\ OneTemplate' /\ InOrder'
  BY DEF IInv, Queued, Owned, OneTemplate, InOrder
<1>3. Posted'
  BY <1>0 DEF IInv, Posted, TypeOK
<1>4. Ring'
  BY Zenon, SameRing DEF IInv
<1>5. Flight'
  BY SMTT(30), <1>0 DEF IInv, Flight, TypeOK, Remote
<1>6. RemoteBuffers'
  BY SMTT(30), <1>0 DEF IInv, RemoteBuffers, Flight, TypeOK, Remote
<1>7. LocalBuffers'
  BY <1>0 DEF IInv, LocalBuffers, TypeOK, Remote
<1>8. QED
  BY Zenon, <1>1, <1>2, <1>3, <1>4, <1>5, <1>6, <1>7 DEF IInv

LEMMA StepCompleteTransfer ==
  ASSUME IInv, NEW s \in Out, NEW p \in Remote, NEW t \in In,
         CompleteTransfer(s, p, t)
  PROVE  IInv'
<1> USE DEF CompleteTransfer, outVars, inVars
<1>0. TypeOK /\ \A b \in In : Last(b)' = Last(b)
  BY Zenon, SameLast DEF IInv
<1>1. TypeOK'
  BY Zenon, <1>0 DEF TypeOK, XferState
<1>2. Queued' /\ Owned' /\ OneTemplate' /\ InOrder'
  BY DEF IInv, Queued, Owned, OneTemplate, InOrder
<1>3. Posted'
  BY <1>0 DEF IInv, Posted, TypeOK
<1>4. Ring'
  BY Zenon, SameRing DEF IInv
<1>5. Flight'
  BY <1>0 DEF IInv, Flight, TypeOK
<1>6. RemoteBuffers'
  BY <1>0 DEF IInv, RemoteBuffers
<1>7. LocalBuffers'
  BY <1>0 DEF IInv, LocalBuffers
<1>8. QED
  BY Zenon, <1>1, <1>2, <1>3, <1>4, <1>5, <1>6, <1>7 DEF IInv

LEMMA StepWriteEmptyFlag ==
  ASSUME IInv, NEW p \in Remote, NEW t \in In, WriteEmptyFlag(p, t)
  PROVE  IInv'
<1> USE DEF WriteEmptyFlag, outVars, inVars
<1>0. TypeOK /\ \A b \in In : Last(b)' = Last(b)
  BY Zenon, SameLast DEF IInv
<1>1. TypeOK'
  BY Zenon, <1>0 DEF TypeOK
<1>2. Queued' /\ Owned' /\ OneTemplate' /\ InOrder' /\ Posted'
  BY DEF IInv, Queued, Owned, OneTemplate, InOrder, Posted
<1>4. Ring'
  BY Zenon, SameRing DEF IInv
<1>5. Flight'
  BY <1>0 DEF IInv, Flight, TypeOK
<1>6. RemoteBuffers'
  BY <1>0 DEF IInv, RemoteBuffers, TypeOK
<1>7. LocalBuffers'
  BY <1>0 DEF IInv, LocalBuffers
<1>8. QED
  BY Zenon, <1>1, <1>2, <1>4, <1>5, <1>6, <1>7 DEF IInv

\* A buffer the poll finds empty has no reader left.
LEMMA EmptyIsUnread ==
  ASSUME IInv, NEW s \in Out, OutputIsEmpty(s)
  PROVE  /\ \A p \in Remote, t \in In : xfer[s][p][t] = "idle"
         /\ \A p \in Local, t \in In : attached[p][t] # s
<1>1. ASSUME NEW p \in Local, NEW t \in In, attached[p][t] = s
      PROVE  FALSE
  <2>1. <<p, t>> \in Dependents(s)
    BY Zenon, <1>1 DEF Dependents
  <2>2. QED
    BY Zenon, <2>1 DEF OutputIsEmpty
<1>2. \A p \in Remote, t \in In : xfer[s][p][t] = "idle"
  BY Zenon DEF IInv, Posted, OutputIsEmpty, IsComplete
<1>3. QED
  BY Zenon, <1>1, <1>2

LEMMA StepGetNextEmptyOutputBuffer ==
  ASSUME IInv, GetNextEmptyOutputBuffer
  PROVE  IInv'
<1> USE DEF GetNextEmptyOutputBuffer, inVars
<1>0. TypeOK /\ \A b \in In : Last(b)' = Last(b)
  BY Zenon, SameLast DEF IInv
<1>a. lastTid \in Out
  BY Zenon, <1>0 DEF TypeOK
<1>b. /\ \A p \in Remote, t \in In : xfer[lastTid][p][t] = "idle"
      /\ \A p \in Local, t \in In : attached[p][t] # lastTid
  BY Zenon, <1>a, EmptyIsUnread
<1>1. TypeOK'
  BY Zenon, <1>0, RingFacts DEF TypeOK
<1>2. Queued'
  <2>1. \A i \in 1 .. Len(queue) : queue[i] \in Out /\ queue[i] # lastTid
    BY <1>0 DEF IInv, Queued, TypeOK
  <2>2. \A i \in 1 .. Len(queue) :
          inUse'[queue[i]] = inUse[queue[i]] /\ outData'[queue[i]] = outData[queue[i]]
    BY Zenon, <1>0, <2>1 DEF TypeOK
  <2>3. QED
    BY <2>2 DEF IInv, Queued
<1>3. Owned' /\ OneTemplate'
  BY <1>0, <1>b DEF IInv, Owned, OneTemplate, TypeOK
<1>4. Posted'
  BY Zenon, <1>0, <1>b DEF IInv, Posted, TypeOK
<1>5. Ring'
  BY Zenon, SameRing DEF IInv
<1>6. Flight'
  <2>1. \A s \in Out : s # lastTid => outData'[s] = outData[s]
    BY Zenon, <1>0 DEF TypeOK
  <2>2. \A s \in Out, p \in Remote, t \in In :
          xfer[s][p][t] \in {"posted", "copied"} => s # lastTid
    BY Zenon, <1>a, <1>b
  <2>3. QED
    BY <1>0, <2>1, <2>2 DEF IInv, Flight
<1>7. RemoteBuffers'
  BY <1>0 DEF IInv, RemoteBuffers
<1>8. LocalBuffers'
  <2>1. \A p \in Local, t \in In : full[p][t] => 
          attached[p][t] \in Out /\ outData'[attached[p][t]] = outData[attached[p][t]]
    BY <1>0, <1>b DEF IInv, LocalBuffers, TypeOK
  <2>2. QED
    BY <1>0, <2>1 DEF IInv, LocalBuffers
<1>9. InOrder'
  BY Zenon DEF IInv, InOrder
<1>10. QED
  BY Zenon, <1>1, <1>2, <1>3, <1>4, <1>5, <1>6, <1>7, <1>8, <1>9 DEF IInv

LEMMA StepGetNextFullInputBuffer ==
  ASSUME IInv, NEW p \in Inputs, GetNextFullInputBuffer(p)
  PROVE  IInv'
<1> DEFINE t == NextOrd(p)
           r == Len(received[p])
<1>a. /\ ~ InputIsEmpty(p, t) /\ ~ busy[p][t]
      /\ lastOrd' = [lastOrd EXCEPT ![p] = t]
      /\ busy' = [busy EXCEPT ![p][t] = TRUE]
      /\ received' = [received EXCEPT ![p] = Append(@, Data(p, t))]
      /\ UNCHANGED <<outVars, shadow, attached, xfer, credit, full, inData, sent>>
  BY Zenon DEF GetNextFullInputBuffer, NextOrd
<1>0. TypeOK /\ \A b \in In : Last(b)' = Last(b)
  BY Zenon, <1>a, SameLast DEF IInv, outVars
<1>b. t \in In /\ r \in Nat
  BY <1>0, RingFacts DEF TypeOK, NextOrd
<1>c. full[p][t] /\ (p \in Local => attached[p][t] \in Out)
  BY <1>0, <1>a, <1>b DEF InputIsEmpty, IInv, LocalBuffers, TypeOK
<1>d. r < Last(t) /\ Data(p, t) = Last(t)
  BY <1>a, <1>b, <1>c DEF IInv, LocalBuffers, RemoteBuffers, Data, Remote
<1>e. Last(t) = r + 1
  BY Zenon, <1>0, <1>d, NextMessage DEF IInv
<1>f. /\ received' = [received EXCEPT ![p] = Append(@, r + 1)]
      /\ Len(received'[p]) = r + 1
      /\ \A q \in Inputs : q # p => received'[q] = received[q]
  BY <1>0, <1>a, <1>b, <1>d, <1>e DEF TypeOK
<1> HIDE DEF t, r
<1>1. TypeOK'
  BY <1>0, <1>a, <1>b, <1>f DEF TypeOK, outVars
<1>2. Queued' /\ Owned' /\ OneTemplate' /\ Posted'
  BY <1>a DEF IInv, Queued, Owned, OneTemplate, Posted, outVars
<1>3. Ring'
  <2> SUFFICES ASSUME NEW q \in Inputs
               PROVE  LET n == started' - Len(received'[q])
                      IN  /\ 0 <= n /\ n <= NIn
                          /\ n # NIn => n = Dist(NextOrd(q)', nextTid')
                          /\ n = NIn => NextOrd(q)' = nextTid'
    BY Zenon DEF Ring
  <2>0. UNCHANGED <<started, nextTid>>
    BY Zenon, <1>a DEF outVars
  <2>1. CASE q # p
    BY <1>a, <1>f, <2>0, <2>1 DEF IInv, Ring, NextOrd
  <2>2. CASE q = p
    <3>1. NextOrd(p)' = Succ(NIn, t)
      BY Zenon, <1>0, <1>a DEF NextOrd, TypeOK
    <3>2. nextTid \in In /\ started \in Nat /\ NIn \in Nat
      BY Zenon, <1>0, RingFacts DEF TypeOK
    <3>3. Dist(Succ(NIn, t), nextTid) = IF t = nextTid THEN NIn - 1 ELSE Dist(t, nextTid) - 1
      BY Zenon, <1>b, <3>2, DistFacts
    <3>4. LET n == started - r
          IN  /\ 0 <= n /\ n <= NIn
              /\ n # NIn => n = Dist(t, nextTid)
              /\ n = NIn => t = nextTid
      BY Zenon DEF IInv, Ring, t, r
    <3>5. Last(t) = started - NIn + 1 + Dist(nextTid, t)
      BY Zenon DEF Last
    <3>6. /\ Dist(nextTid, t) \in Int /\ Dist(t, nextTid) \in Int
          /\ Dist(nextTid, t) < NIn
          /\ t = nextTid => Dist(nextTid, t) = 0 /\ Dist(t, nextTid) = 0
      <4>1. Dist(nextTid, t) \in In /\ Dist(t, nextTid) \in In
        BY Zenon, <1>b, <3>2, DistFacts
      <4>2. t = nextTid => Dist(nextTid, t) = 0 /\ Dist(t, nextTid) = 0
        BY Zenon, <1>b, <3>2, DistFacts
      <4>3. QED
        BY <3>2, <4>1, <4>2 DEF In
    <3>7. QED
      BY SMTT(30), <1>b, <1>e, <1>f, <2>0, <2>2, <3>1, <3>2, <3>3, <3>4, <3>5, <3>6
  <2>3. QED
    BY Zenon, <2>1, <2>2
<1>g. \A b \in In : Last(b) \in Int /\ (b # t => Last(b) # r + 1)
  BY Zenon, <1>0, <1>b, <1>e, LastDistinct
<1>h. \A q \in Inputs, b \in In :
        /\ Len(received[q]) \in Nat
        /\ Last(b) <= Len(received[q]) => Last(b) <= Len(received'[q])
        /\ Len(received[q]) < Last(b) /\ (q # p \/ b # t)
             => Len(received'[q]) < Last(b)
  BY <1>0, <1>b, <1>f, <1>g DEF r, TypeOK
<1>i. \A q \in Inputs, b \in In :
        busy'[q][b] = (busy[q][b] \/ (q = p /\ b = t))
  BY ZenonT(40), <1>0, <1>a, <1>b DEF TypeOK
<1>4. Flight'
  <2>1. ~ (\E s \in Out : p \in Remote /\ xfer[s][p][t] \in {"posted", "copied"})
    BY Zenon, <1>b, <1>c DEF IInv, Flight
  <2>2. QED
    BY <1>0, <1>a, <1>b, <1>h, <2>1 DEF IInv, Flight, outVars, Remote
<1>j. \A q \in Inputs, b \in In : full[q][b] /\ ~ busy'[q][b] =>
        ~ busy[q][b] /\ (q # p \/ b # t)
  BY Zenon, <1>i
<1>k. Last(t) <= Len(received'[p])
  BY <1>b, <1>e, <1>f
<1>5. RemoteBuffers'
  <2> SUFFICES ASSUME NEW q \in Remote, NEW b \in In
      PROVE /\ full[q][b] => shadow[q][b] /\ ~ credit[q][b] /\ inData[q][b] = Last(b)
            /\ full[q][b] /\ ~ busy'[q][b] => Len(received'[q]) < Last(b)
            /\ busy'[q][b] => full[q][b] /\ Last(b) <= Len(received'[q])
            /\ credit[q][b] => shadow[q][b] /\ Last(b) <= Len(received'[q])
            /\ ~ shadow[q][b] => Last(b) <= Len(received'[q])
    BY <1>0, <1>a DEF RemoteBuffers
  <2>1. q \in Inputs
    BY Zenon DEF Remote
  <2>2. QED
    BY Zenon, <1>c, <1>h, <1>i, <1>j, <1>k, <2>1 DEF IInv, RemoteBuffers
<1>6. LocalBuffers'
  <2> SUFFICES ASSUME NEW q \in Local, NEW b \in In
      PROVE /\ full[q][b] <=> attached[q][b] # NULL
            /\ full[q][b] => outData[attached[q][b]] = Last(b)
            /\ full[q][b] /\ ~ busy'[q][b] => Len(received'[q]) < Last(b)
            /\ busy'[q][b] => full[q][b] /\ Last(b) <= Len(received'[q])
            /\ ~ full[q][b] => Last(b) <= Len(received'[q])
    BY <1>0, <1>a DEF LocalBuffers, outVars
  <2>1. q \in Inputs
    BY Zenon, RingFacts
  <2>2. QED
    BY ZenonT(40), <1>c, <1>h, <1>i, <1>j, <1>k, <2>1 DEF IInv, LocalBuffers
<1>7. InOrder'
  <2>1. \A q \in Inputs : received[q] \in Seq(Nat)
    BY Zenon, <1>0 DEF TypeOK
  <2>2. QED
    BY <1>b, <1>f, <2>1 DEF IInv, InOrder, r
<1>8. QED
  BY Zenon, <1>1, <1>2, <1>3, <1>4, <1>5, <1>6, <1>7 DEF IInv

\* A local buffer that is released leaves the output buffer's inUse as it
\* was: the buffer it detaches from belongs to nobody.
LEMMA StepReleaseInputBuffer ==
  ASSUME IInv, NEW p \in Inputs, NEW t \in In, ReleaseInputBuffer(p, t)
  PROVE  IInv'
<1>a. /\ busy[p][t]
      /\ busy' = [busy EXCEPT ![p][t] = FALSE]
      /\ full' = [full EXCEPT ![p][t] = FALSE]
      /\ UNCHANGED <<pending, lastTid, nextTid, queue, outData, started, shadow,
                     xfer, inData, lastOrd, received, sent>>
  BY Zenon DEF ReleaseInputBuffer
<1>0. TypeOK /\ \A b \in In : Last(b)' = Last(b)
  BY Zenon, <1>a, SameLast DEF IInv
<1>b. \A q \in Inputs, b \in In :
        IF q = p /\ b = t
        THEN ~ busy'[q][b] /\ ~ full'[q][b]
        ELSE busy'[q][b] = busy[q][b] /\ full'[q][b] = full[q][b]
  BY Zenon, <1>0, <1>a DEF TypeOK
<1>c. \/ /\ p \in Local
         /\ attached' = [attached EXCEPT ![p][t] = NULL]
         /\ UNCHANGED <<credit, inUse>>
      \/ /\ p \in Remote
         /\ credit' = [credit EXCEPT ![p][t] = TRUE]
         /\ UNCHANGED <<attached, inUse>>
  <2>1. CASE p \in Local
    <3>1. attached[p][t] \in Out
      BY <1>0, <1>a, <2>1 DEF IInv, LocalBuffers, TypeOK
    <3>2. ~ inUse[attached[p][t]]
      BY Zenon, <2>1, <3>1 DEF IInv, Owned
    <3>3. [inUse EXCEPT ![attached[p][t]] = FALSE] = inUse
      BY Zenon, <1>0, <3>1, <3>2 DEF TypeOK
    <3>4. QED
      BY Zenon, <2>1, <3>3 DEF ReleaseInputBuffer, Remote
  <2>2. CASE p \notin Local
    BY Zenon, <2>2 DEF ReleaseInputBuffer
  <2>3. QED
    BY Zenon, <2>1, <2>2
<1>d. /\ inUse' = inUse
      /\ \A q \in Local, b \in In :
           attached'[q][b] = IF q = p /\ b = t THEN NULL ELSE attached[q][b]
      /\ \A q \in Remote, b \in In :
           IF q = p /\ b = t THEN credit'[q][b] ELSE credit'[q][b] = credit[q][b]
  <2>1. CASE p \in Local
    BY <1>0, <1>c, <2>1 DEF TypeOK, Remote
  <2>2. CASE p \in Remote
    BY SMTT(20), <1>0, <1>c, <2>2 DEF TypeOK, Remote
  <2>3. QED
    BY Zenon, <2>1, <2>2 DEF Remote
<1>1. TypeOK'
  <2>1. busy' \in [Inputs -> [In -> BOOLEAN]] /\ full' \in [Inputs -> [In -> BOOLEAN]]
    BY Zenon, <1>0, <1>a DEF TypeOK
  <2>2. CASE p \in Local
    <3>1. attached' = [attached EXCEPT ![p][t] = NULL] /\ UNCHANGED <<credit, inUse>>
      BY Zenon, <1>c, <2>2 DEF Remote
    <3>2. attached' \in [Local -> [In -> Out \cup {NULL}]]
      BY Zenon, <1>0, <2>2, <3>1 DEF TypeOK
    <3>3. QED
      BY Zenon, <1>0, <1>a, <2>1, <3>1, <3>2 DEF TypeOK
  <2>3. CASE p \in Remote
    <3>1. credit' = [credit EXCEPT ![p][t] = TRUE] /\ UNCHANGED <<attached, inUse>>
      BY Zenon, <1>c, <2>3 DEF Remote
    <3>2. credit' \in [Remote -> [In -> BOOLEAN]]
      BY Zenon, <1>0, <2>3, <3>1 DEF TypeOK
    <3>3. QED
      BY Zenon, <1>0, <1>a, <2>1, <3>1, <3>2 DEF TypeOK
  <2>4. QED
    BY Zenon, <2>2, <2>3 DEF Remote
<1>2. Queued' /\ OneTemplate' /\ Posted' /\ InOrder'
  BY <1>a, <1>d DEF IInv, Queued, OneTemplate, Posted, InOrder
<1>3. Owned'
  BY <1>a, <1>d, RingFacts DEF IInv, Owned
<1>4. Ring'
  BY Zenon, <1>a, SameRing DEF IInv
<1>5. Flight'
  <2> SUFFICES ASSUME NEW s \in Out, NEW q \in Remote, NEW b \in In,
                      xfer[s][q][b] \in {"posted", "copied"}
      PROVE /\ shadow[q][b] /\ ~ full'[q][b] /\ ~ credit'[q][b]
            /\ outData[s] = Last(b)
            /\ xfer[s][q][b] = "copied" => inData[q][b] = Last(b)
            /\ Len(received[q]) < Last(b)
            /\ \A u \in Out : xfer[u][q][b] \in {"posted", "copied"} => u = s
    BY <1>0, <1>a DEF Flight
  <2>1. q \in Inputs
    BY Zenon DEF Remote
  <2>2. ~ full[q][b] /\ ~ busy[q][b]
    BY Zenon DEF IInv, Flight, RemoteBuffers
  <2>3. QED
    BY <1>a, <1>b, <1>d, <2>1, <2>2 DEF IInv, Flight
<1>6. RemoteBuffers'
  <2> SUFFICES ASSUME NEW q \in Remote, NEW b \in In
      PROVE /\ full'[q][b] => shadow[q][b] /\ ~ credit'[q][b] /\ inData[q][b] = Last(b)
            /\ full'[q][b] /\ ~ busy'[q][b] => Len(received[q]) < Last(b)
            /\ busy'[q][b] => full'[q][b] /\ Last(b) <= Len(received[q])
            /\ credit'[q][b] => shadow[q][b] /\ Last(b) <= Len(received[q])
            /\ ~ shadow[q][b] => Last(b) <= Len(received[q])
    BY <1>0, <1>a DEF RemoteBuffers
  <2>1. q \in Inputs
    BY Zenon DEF Remote
  <2>2. CASE q = p /\ b = t
    <3>1. full[p][t] /\ busy[p][t]
      BY Zenon, <1>a, <2>2 DEF IInv, RemoteBuffers
    <3>2. ~ full'[q][b] /\ ~ busy'[q][b]
      BY Zenon, <1>b, <2>1, <2>2
    <3>3. QED
      BY Zenon, <1>d, <2>2, <3>1, <3>2 DEF IInv, RemoteBuffers
  <2>3. CASE ~ (q = p /\ b = t)
    <3>1. busy'[q][b] = busy[q][b] /\ full'[q][b] = full[q][b] /\ credit'[q][b] = credit[q][b]
      BY Zenon, <1>b, <1>d, <2>1, <2>3
    <3>2. QED
      BY Zenon, <3>1 DEF IInv, RemoteBuffers
  <2>4. QED
    BY Zenon, <2>2, <2>3
<1>7. LocalBuffers'
  <2> SUFFICES ASSUME NEW q \in Local, NEW b \in In
      PROVE /\ full'[q][b] <=> attached'[q][b] # NULL
            /\ full'[q][b] => outData[attached'[q][b]] = Last(b)
            /\ full'[q][b] /\ ~ busy'[q][b] => Len(received[q]) < Last(b)
            /\ busy'[q][b] => full'[q][b] /\ Last(b) <= Len(received[q])
            /\ ~ full'[q][b] => Last(b) <= Len(received[q])
    BY <1>0, <1>a DEF LocalBuffers
  <2>1. q \in Inputs
    BY Zenon, RingFacts
  <2>2. CASE q = p /\ b = t
    <3>1. full[p][t] /\ busy[p][t]
      BY Zenon, <1>a, <2>2 DEF IInv, LocalBuffers
    <3>2. ~ full'[q][b] /\ ~ busy'[q][b]
      BY Zenon, <1>b, <2>1, <2>2
    <3>3. QED
      BY Zenon, <1>d, <2>2, <3>1, <3>2 DEF IInv, LocalBuffers
  <2>3. CASE ~ (q = p /\ b = t)
    <3>1. busy'[q][b] = busy[q][b] /\ full'[q][b] = full[q][b] /\ attached'[q][b] = attached[q][b]
      BY Zenon, <1>b, <1>d, <2>1, <2>3
    <3>2. QED
      BY Zenon, <3>1 DEF IInv, LocalBuffers
  <2>4. QED
    BY Zenon, <2>2, <2>3
<1>8. QED
  BY Zenon, <1>1, <1>2, <1>3, <1>4, <1>5, <1>6, <1>7 DEF IInv

\* Starting a transfer gives the next buffer the next number and leaves the
\* numbers of the others.
LEMMA LastAfterStart ==
  ASSUME TypeOK, started' = started + 1, nextTid' = Succ(NIn, nextTid)
  PROVE  \A t \in In : Last(t)' = IF t = nextTid THEN started + 1 ELSE Last(t)
<1> SUFFICES ASSUME NEW t \in In
             PROVE  Last(t)' = IF t = nextTid THEN started + 1 ELSE Last(t)
  BY Zenon
<1>1. nextTid \in In /\ started \in Nat /\ NIn \in Nat
  BY Zenon, RingFacts DEF TypeOK
<1>2. Last(t)' = started' - NIn + 1 + Dist(nextTid', t)
  BY Zenon DEF Last
<1>3. Dist(nextTid', t) = IF t = nextTid THEN NIn - 1 ELSE Dist(nextTid, t) - 1
  BY Zenon, <1>1, DistFacts
<1>4. Dist(nextTid, t) \in Int
  BY <1>1, DistFacts DEF In
<1>5. QED
  BY <1>1, <1>2, <1>3, <1>4 DEF Last

\* What starting the transfer of buffer s changes, element by element.
Starts(s) ==
  /\ ~ inUse'[s] /\ \A u \in Out \ {s} : inUse'[u] = inUse[u]
  /\ pending'[s] = pending[s] \cup {nextTid}
  /\ \A u \in Out \ {s} : pending'[u] = pending[u]
  /\ \A p \in Remote : shadow'[p][nextTid]
  /\ \A p \in Remote, t \in In \ {nextTid} : shadow'[p][t] = shadow[p][t]
  /\ \A p \in Remote, t \in In : full'[p][t] = full[p][t]
  /\ \A p \in Local : full'[p][nextTid]
  /\ \A p \in Local, t \in In \ {nextTid} : full'[p][t] = full[p][t]
  /\ \A p \in Local : attached'[p][nextTid] = s
  /\ \A p \in Local, t \in In \ {nextTid} : attached'[p][t] = attached[p][t]
  /\ \A p \in Remote : xfer'[s][p][nextTid] = "posted"
  /\ \A p \in Remote, t \in In \ {nextTid} : xfer'[s][p][t] = xfer[s][p][t]
  /\ \A u \in Out \ {s} : xfer'[u] = xfer[u]
  /\ nextTid' = Succ(NIn, nextTid)
  /\ started' = started + 1

LEMMA StartPointwise ==
  ASSUME TypeOK, NEW s \in Out, StartBufferTransfer(s)
  PROVE  /\ Starts(s)
         /\ inUse' \in [Out -> BOOLEAN]
         /\ pending' \in [Out -> SUBSET In]
         /\ nextTid' \in In
         /\ shadow' \in [Remote -> [In -> BOOLEAN]]
         /\ attached' \in [Local -> [In -> Out \cup {NULL}]]
         /\ xfer' \in [Out -> [Remote -> [In -> XferState]]]
         /\ full' \in [Inputs -> [In -> BOOLEAN]]
         /\ started' \in Nat
<1> USE DEF StartBufferTransfer
<1>0. nextTid \in In /\ nextTid' \in In /\ started \in Nat /\ started' \in Nat
  BY RingFacts DEF TypeOK
<1>1. /\ inUse' \in [Out -> BOOLEAN]
      /\ pending' \in [Out -> SUBSET In]
      /\ ~ inUse'[s] /\ \A u \in Out \ {s} : inUse'[u] = inUse[u]
      /\ pending'[s] = pending[s] \cup {nextTid}
      /\ \A u \in Out \ {s} : pending'[u] = pending[u]
  BY Zenon, <1>0 DEF TypeOK
<1>2. /\ shadow' \in [Remote -> [In -> BOOLEAN]]
      /\ \A p \in Remote : shadow'[p][nextTid]
      /\ \A p \in Remote, t \in In \ {nextTid} : shadow'[p][t] = shadow[p][t]
  BY Zenon, <1>0 DEF TypeOK
<1>3. /\ attached' \in [Local -> [In -> Out \cup {NULL}]]
      /\ \A p \in Local : attached'[p][nextTid] = s
      /\ \A p \in Local, t \in In \ {nextTid} : attached'[p][t] = attached[p][t]
  BY Zenon, <1>0 DEF TypeOK
<1>4. /\ full' \in [Inputs -> [In -> BOOLEAN]]
      /\ \A p \in Local : full'[p][nextTid]
      /\ \A p \in Local, t \in In \ {nextTid} : full'[p][t] = full[p][t]
      /\ \A p \in Remote, t \in In : full'[p][t] = full[p][t]
  BY Zenon, <1>0, RingFacts DEF TypeOK, Remote
<1>5. /\ xfer' \in [Out -> [Remote -> [In -> XferState]]]
      /\ \A p \in Remote : xfer'[s][p][nextTid] = "posted"
      /\ \A p \in Remote, t \in In \ {nextTid} : xfer'[s][p][t] = xfer[s][p][t]
      /\ \A u \in Out \ {s} : xfer'[u] = xfer[u]
  <2> DEFINE f == [p \in Remote |-> [xfer[s][p] EXCEPT ![nextTid] = "posted"]]
  <2>1. /\ f \in [Remote -> [In -> XferState]]
        /\ \A p \in Remote : f[p][nextTid] = "posted"
        /\ \A p \in Remote, t \in In \ {nextTid} : f[p][t] = xfer[s][p][t]
    BY <1>0 DEF TypeOK, XferState
  <2>2. xfer' = [xfer EXCEPT ![s] = f]
    BY Zenon
  <2> HIDE DEF f
  <2>3. xfer' \in [Out -> [Remote -> [In -> XferState]]]
    BY Zenon, <2>1, <2>2 DEF TypeOK
  <2>4. xfer'[s] = f /\ \A u \in Out \ {s} : xfer'[u] = xfer[u]
    BY Zenon, <2>2 DEF TypeOK
  <2>5. QED
    BY <2>1, <2>3, <2>4
<1>6. nextTid' = Succ(NIn, nextTid) /\ started' = started + 1
  BY Zenon
<1> HIDE DEF StartBufferTransfer
<1>7. QED
  BY Zenon, <1>0, <1>1, <1>2, <1>3, <1>4, <1>5, <1>6 DEF Starts

\* A free buffer's last message was handed out.
LEMMA FreeWasReceived ==
  ASSUME IInv, CanProduce, NEW p \in Inputs
  PROVE  Last(nextTid) <= Len(received[p])
<1>1. nextTid \in In
  BY Zenon DEF IInv, TypeOK
<1>2. QED
  BY Zenon, <1>1 DEF IInv, CanProduce, InputIsFree, RemoteBuffers, LocalBuffers, Remote

LEMMA StartKeeps ==
  ASSUME IInv, NEW s \in Out, inUse[s], CanProduce, Starts(s),
         outData'[s] = started + 1,
         \A u \in Out : u # s => outData'[u] = outData[u],
         UNCHANGED <<lastOrd, received, busy, credit, inData>>
  PROVE  Owned' /\ Posted' /\ OneTemplate' /\ Ring' /\ Flight' /\ RemoteBuffers'
         /\ LocalBuffers'
<1>0. /\ TypeOK
      /\ \A t \in In : Last(t)' = IF t = nextTid THEN started + 1 ELSE Last(t)
  BY Zenon, LastAfterStart DEF IInv, Starts
<1>a. nextTid \in In /\ started \in Nat
  BY Zenon, <1>0 DEF TypeOK
<1>b. /\ pending[s] = {}
      /\ \A p \in Remote, t \in In : xfer[s][p][t] = "idle"
      /\ \A p \in Local, t \in In : attached[p][t] # s
  BY DEF IInv, Owned, Posted
<1>s. /\ \A p \in Remote : shadow'[p][nextTid]
      /\ \A p \in Remote, t \in In \ {nextTid} : shadow'[p][t] = shadow[p][t]
      /\ \A p \in Remote, t \in In : full'[p][t] = full[p][t]
  BY Zenon DEF Starts
<1>t. /\ \A p \in Local : full'[p][nextTid]
      /\ \A p \in Local, t \in In \ {nextTid} : full'[p][t] = full[p][t]
      /\ \A p \in Local : attached'[p][nextTid] = s
      /\ \A p \in Local, t \in In \ {nextTid} : attached'[p][t] = attached[p][t]
  BY Zenon DEF Starts
<1>u. /\ \A p \in Remote : xfer'[s][p][nextTid] = "posted"
      /\ \A p \in Remote, t \in In \ {nextTid} : xfer'[s][p][t] = xfer[s][p][t]
      /\ \A u \in Out \ {s} : xfer'[u] = xfer[u]
  BY Zenon DEF Starts
<1>1. Owned'
  BY <1>b DEF IInv, Owned, Starts
<1>2. Posted'
  BY <1>b DEF IInv, Posted, Starts
<1>3. OneTemplate'
  BY <1>b DEF IInv, OneTemplate, Starts
<1>4. Ring'
  <2> SUFFICES ASSUME NEW p \in Inputs
               PROVE  LET n == started' - Len(received[p])
                      IN  /\ 0 <= n /\ n <= NIn
                          /\ n # NIn => n = Dist(NextOrd(p), nextTid')
                          /\ n = NIn => NextOrd(p) = nextTid'
    BY Zenon DEF Ring, NextOrd
  <2>1. Len(received[p]) \in Nat /\ NIn \in Nat \ {0} /\ NextOrd(p) \in In
    BY <1>0, RingFacts DEF TypeOK, NextOrd
  <2>2. Last(nextTid) = started - NIn + 1
    <3>1. Dist(nextTid, nextTid) = 0
      BY Zenon, <1>a, DistFacts
    <3>2. QED
      BY <1>a, <2>1, <3>1 DEF Last
  <2>3. Last(nextTid) <= Len(received[p])
    BY Zenon, FreeWasReceived
  <2>4. LET n == started - Len(received[p])
        IN  /\ 0 <= n /\ n <= NIn
            /\ n # NIn => n = Dist(NextOrd(p), nextTid)
    BY Zenon DEF IInv, Ring
  <2>5. started - Len(received[p]) < NIn
        /\ started - Len(received[p]) = Dist(NextOrd(p), nextTid)
    BY <1>a, <2>1, <2>2, <2>3, <2>4
  <2>6. nextTid' = Succ(NIn, nextTid) /\ started' = started + 1
    BY Zenon DEF Starts
  <2>7. Dist(NextOrd(p), Succ(NIn, nextTid)) =
          IF NextOrd(p) = Succ(NIn, nextTid) THEN 0
                                             ELSE Dist(NextOrd(p), nextTid) + 1
    <3>1. \A t, u \in In : Dist(t, Succ(NIn, u)) =
            IF t = Succ(NIn, u) THEN 0 ELSE Dist(t, u) + 1
      BY DistFacts
    <3>2. QED
      BY Zenon, <1>a, <2>1, <3>1
  <2>8. NextOrd(p) = Succ(NIn, nextTid) <=> Dist(NextOrd(p), nextTid) = NIn - 1
    BY <1>a, <2>1 DEF In, Succ, Dist
  <2> DEFINE o == NextOrd(p)
             v == Succ(NIn, nextTid)
  <2> HIDE DEF o, v
  <2>9. /\ nextTid' = v
        /\ Dist(o, v) = IF o = v THEN 0 ELSE Dist(o, nextTid) + 1
        /\ o = v <=> Dist(o, nextTid) = NIn - 1
        /\ started - Len(received[p]) = Dist(o, nextTid)
        /\ started' = started + 1 /\ 0 <= started - Len(received[p])
    BY Zenon, <2>4, <2>5, <2>6, <2>7, <2>8 DEF o, v
  <2>10. LET n == started' - Len(received[p])
         IN  /\ 0 <= n /\ n <= NIn
             /\ n # NIn => n = Dist(o, nextTid')
             /\ n = NIn => o = nextTid'
    <3>0. Dist(o, nextTid) \in Int
      <4>1. Dist(o, nextTid) \in In
        BY Zenon, <1>a, <2>1, DistFacts DEF o
      <4>2. QED
        BY <4>1 DEF In
    <3>1. started' - Len(received[p]) = Dist(o, nextTid) + 1
      <4>1. started' = started + 1 /\ started - Len(received[p]) = Dist(o, nextTid)
        BY Zenon, <2>9
      <4>2. QED
        BY <1>a, <2>1, <3>0, <4>1
    <3>2. CASE o = v
      BY <1>a, <2>1, <2>9, <3>0, <3>1, <3>2
    <3>3. CASE o # v
      <4>1. Dist(o, nextTid') = Dist(o, nextTid) + 1 /\ Dist(o, nextTid) # NIn - 1
        BY Zenon, <2>9, <3>3
      <4>2. 0 <= Dist(o, nextTid) /\ Dist(o, nextTid) < NIn
        BY Zenon, <2>5, <2>9
      <4>3. QED
        BY <2>1, <3>0, <3>1, <4>1, <4>2
    <3>4. QED
      BY Zenon, <3>2, <3>3
  <2>11. QED
    BY Zenon, <2>10 DEF o
<1>c. \A p \in Inputs : Len(received[p]) <= started /\ Len(received[p]) \in Nat
  BY <1>0, <1>a DEF IInv, Ring, TypeOK
<1>d. \A p \in Remote : ~ shadow[p][nextTid] /\ ~ full[p][nextTid]
         /\ ~ busy[p][nextTid] /\ ~ credit[p][nextTid]
  BY Zenon, <1>a DEF IInv, CanProduce, InputIsFree, RemoteBuffers, Remote
<1>e. \A p \in Local : ~ full[p][nextTid] /\ ~ busy[p][nextTid]
  BY Zenon, <1>a, RingFacts DEF IInv, CanProduce, InputIsFree, LocalBuffers
<1>f. \A u \in Out, p \in Remote : xfer[u][p][nextTid] \notin {"posted", "copied"}
  BY Zenon, <1>a, <1>d DEF IInv, Flight
<1>5. Flight'
  <2> SUFFICES ASSUME NEW u \in Out, NEW p \in Remote, NEW t \in In,
                      xfer'[u][p][t] \in {"posted", "copied"}
      PROVE /\ shadow'[p][t] /\ ~ full'[p][t] /\ ~ credit'[p][t]
            /\ outData'[u] = Last(t)'
            /\ xfer'[u][p][t] = "copied" => inData'[p][t] = Last(t)'
            /\ Len(received'[p]) < Last(t)'
            /\ \A v \in Out : xfer'[v][p][t] \in {"posted", "copied"} => v = u
    BY Zenon DEF Flight
  <2>0. p \in Inputs
    BY Zenon DEF Remote
  <2>1. CASE t = nextTid
    <3>1. \A v \in Out : xfer'[v][p][t] \in {"posted", "copied"} => v = s
      BY Zenon, <1>f, <1>u, <2>1
    <3>2. u = s /\ xfer'[u][p][t] = "posted"
      BY Zenon, <1>u, <2>1, <3>1
    <3>3. shadow'[p][t] /\ ~ full'[p][t] /\ ~ credit'[p][t] /\ Last(t)' = started + 1
      BY Zenon, <1>0, <1>a, <1>d, <1>s, <2>1
    <3>4. QED
      BY <1>a, <1>c, <2>0, <3>1, <3>2, <3>3
  <2>2. CASE t # nextTid
    <3>1. /\ \A v \in Out : xfer'[v][p][t] = xfer[v][p][t]
          /\ shadow'[p][t] = shadow[p][t] /\ full'[p][t] = full[p][t]
          /\ Last(t)' = Last(t)
      <4>1. t \in In \ {nextTid} /\ Last(t)' = Last(t)
        BY Zenon, <1>0, <2>2
      <4>2. xfer'[s][p][t] = xfer[s][p][t] /\ \A v \in Out \ {s} : xfer'[v] = xfer[v]
        BY Zenon, <1>u, <4>1
      <4>3. shadow'[p][t] = shadow[p][t] /\ full'[p][t] = full[p][t]
        BY Zenon, <1>s, <4>1
      <4>4. ASSUME NEW v \in Out PROVE xfer'[v][p][t] = xfer[v][p][t]
        BY Zenon, <4>2
      <4>5. QED
        BY Zenon, <4>1, <4>3, <4>4
    <3>2. u # s
      BY Zenon, <1>b, <3>1
    <3>3. QED
      <4>1. xfer[u][p][t] \in {"posted", "copied"}
        BY Zenon, <3>1
      <4>2. /\ shadow[p][t] /\ ~ full[p][t] /\ ~ credit[p][t] /\ outData[u] = Last(t)
            /\ xfer[u][p][t] = "copied" => inData[p][t] = Last(t)
            /\ Len(received[p]) < Last(t)
            /\ \A v \in Out : xfer[v][p][t] \in {"posted", "copied"} => v = u
        BY Zenon, <4>1 DEF IInv, Flight
      <4>3. QED
        BY Zenon, <3>1, <3>2, <4>2
  <2>3. QED
    BY Zenon, <2>1, <2>2
<1>6. RemoteBuffers'
  <2> SUFFICES ASSUME NEW p \in Remote, NEW t \in In
      PROVE /\ full'[p][t] => shadow'[p][t] /\ ~ credit'[p][t] /\ inData'[p][t] = Last(t)'
            /\ full'[p][t] /\ ~ busy'[p][t] => Len(received'[p]) < Last(t)'
            /\ busy'[p][t] => full'[p][t] /\ Last(t)' <= Len(received'[p])
            /\ credit'[p][t] => shadow'[p][t] /\ Last(t)' <= Len(received'[p])
            /\ ~ shadow'[p][t] => Last(t)' <= Len(received'[p])
    BY Zenon DEF RemoteBuffers
  <2>1. CASE t = nextTid
    <3>1. shadow'[p][t] /\ ~ full'[p][t] /\ ~ busy'[p][t] /\ ~ credit'[p][t]
      BY Zenon, <1>a, <1>d, <1>s, <2>1
    <3>2. QED
      BY Zenon, <3>1
  <2>2. CASE t # nextTid
    <3>0. t \in In \ {nextTid}
      BY Zenon, <2>2
    <3>1. /\ shadow'[p][t] = shadow[p][t] /\ full'[p][t] = full[p][t]
          /\ Last(t)' = Last(t)
      BY Zenon, <1>0, <1>s, <3>0, <2>2
    <3>2. QED
      BY Zenon, <3>1 DEF IInv, RemoteBuffers
  <2>3. QED
    BY Zenon, <2>1, <2>2
<1>7. LocalBuffers'
  <2> SUFFICES ASSUME NEW p \in Local, NEW t \in In
      PROVE /\ full'[p][t] <=> attached'[p][t] # NULL
            /\ full'[p][t] => outData'[attached'[p][t]] = Last(t)'
            /\ full'[p][t] /\ ~ busy'[p][t] => Len(received'[p]) < Last(t)'
            /\ busy'[p][t] => full'[p][t] /\ Last(t)' <= Len(received'[p])
            /\ ~ full'[p][t] => Last(t)' <= Len(received'[p])
    BY Zenon DEF LocalBuffers
  <2>0. p \in Inputs
    BY Zenon, RingFacts
  <2>1. CASE t = nextTid
    <3>1. full'[p][t] /\ attached'[p][t] = s /\ s # NULL /\ ~ busy'[p][t]
      BY Zenon, <1>e, <1>t, <2>1, RingFacts
    <3>2. QED
      BY <1>0, <1>a, <1>c, <2>0, <2>1, <3>1
  <2>2. CASE t # nextTid
    <3>0. t \in In \ {nextTid}
      BY Zenon, <2>2
    <3>1. /\ attached'[p][t] = attached[p][t] /\ full'[p][t] = full[p][t]
          /\ Last(t)' = Last(t)
      BY Zenon, <1>0, <1>t, <2>2, <3>0
    <3>2. full[p][t] => attached[p][t] \in Out /\ attached[p][t] # s
      BY <1>0, <1>b DEF IInv, LocalBuffers, TypeOK
    <3>3. QED
      <4>1. full[p][t] => outData'[attached'[p][t]] = outData[attached[p][t]]
        BY Zenon, <3>1, <3>2
      <4>2. /\ full[p][t] <=> attached[p][t] # NULL
            /\ full[p][t] => outData[attached[p][t]] = Last(t)
            /\ full[p][t] /\ ~ busy[p][t] => Len(received[p]) < Last(t)
            /\ busy[p][t] => full[p][t] /\ Last(t) <= Len(received[p])
            /\ ~ full[p][t] => Last(t) <= Len(received[p])
        BY Zenon DEF IInv, LocalBuffers
      <4>3. QED
        BY Zenon, <3>1, <4>1, <4>2
  <2>3. QED
    BY Zenon, <2>1, <2>2
<1>8. QED
  BY Zenon, <1>1, <1>2, <1>3, <1>4, <1>5, <1>6, <1>7

LEMMA StepSendOutputBuffer ==
  ASSUME IInv, NEW s \in Out, SendOutputBuffer(s)
  PROVE  IInv'
<1>a. /\ inUse[s] /\ \A i \in 1 .. Len(queue) : queue[i] # s
      /\ outData' = [outData EXCEPT ![s] = sent + 1]
      /\ sent' = sent + 1
      /\ UNCHANGED <<lastTid, credit, inData, busy, lastOrd, received>>
  BY Zenon DEF SendOutputBuffer, HasOutputBuffer, inVars
<1>b. TypeOK /\ Queued /\ sent = started + Len(queue)
  BY Zenon DEF IInv, Queued
<1>c. queue \in Seq(Out) /\ started \in Nat /\ sent \in Nat /\ Len(queue) \in Nat
  BY <1>b DEF TypeOK
<1>d. /\ outData' \in [Out -> Nat] /\ outData'[s] = sent + 1
      /\ \A u \in Out : u # s => outData'[u] = outData[u]
  BY <1>a, <1>b, <1>c DEF TypeOK
<1>e. InOrder'
  BY Zenon, <1>a DEF IInv, InOrder
<1>1. CASE queue = <<>> /\ CanProduce
  <2>1. StartBufferTransfer(s) /\ queue' = queue /\ sent = started
    BY <1>1, <1>b, <1>c DEF SendOutputBuffer, CanTransferBuffer
  <2>2. Starts(s)
    BY Zenon, <1>b, <2>1, StartPointwise
  <2>3. Owned' /\ Posted' /\ OneTemplate' /\ Ring' /\ Flight' /\ RemoteBuffers'
        /\ LocalBuffers'
    BY Zenon, <1>1, <1>a, <1>d, <2>1, <2>2, StartKeeps
  <2>4. TypeOK'
    <3>1. /\ inUse' \in [Out -> BOOLEAN] /\ pending' \in [Out -> SUBSET In]
          /\ nextTid' \in In /\ shadow' \in [Remote -> [In -> BOOLEAN]]
          /\ attached' \in [Local -> [In -> Out \cup {NULL}]]
          /\ xfer' \in [Out -> [Remote -> [In -> XferState]]]
          /\ full' \in [Inputs -> [In -> BOOLEAN]] /\ started' \in Nat
      BY Zenon, <1>b, <2>1, StartPointwise
    <3>2. QED
      BY <1>a, <1>b, <1>c, <1>d, <2>1, <3>1 DEF TypeOK
  <2>5. Queued'
    <3>1. Len(queue') = Len(queue) /\ Len(queue) = 0 /\ started' = started + 1
      BY Zenon, <1>1, <2>1, <2>2 DEF Starts
    <3>2. sent' = started' + Len(queue')
      BY <1>a, <1>b, <1>c, <3>1
    <3>3. 1 .. Len(queue') = {}
      BY <3>1
    <3>4. QED
      BY Zenon, <3>2, <3>3 DEF Queued
  <2>6. QED
    BY Zenon, <1>e, <2>3, <2>4, <2>5 DEF IInv
<1>2. CASE ~ (queue = <<>> /\ CanProduce)
  <2>1. /\ queue' = Append(queue, s)
        /\ UNCHANGED <<inUse, pending, nextTid, started, shadow, attached, xfer, full>>
    BY Zenon, <1>2 DEF SendOutputBuffer, CanTransferBuffer
  <2>2. /\ \A b \in In : Last(b)' = Last(b)
        /\ \A p \in Remote, t \in In : xfer[s][p][t] = "idle"
        /\ \A p \in Local, t \in In : attached[p][t] # s
    <3>1. \A b \in In : Last(b)' = Last(b)
      BY Zenon, <2>1, SameLast
    <3>2. /\ pending[s] = {} /\ \A p \in Local, t \in In : attached[p][t] # s
      BY Zenon, <1>a DEF IInv, Owned
    <3>3. \A p \in Remote, t \in In : xfer[s][p][t] = "idle"
      BY Zenon, <3>2 DEF IInv, Posted
    <3>4. QED
      BY Zenon, <3>1, <3>2, <3>3
  <2>3. TypeOK'
    BY <1>a, <1>b, <1>c, <1>d, <2>1 DEF TypeOK
  <2>4. Queued'
    <3>1. /\ Len(queue') = Len(queue) + 1 /\ queue'[Len(queue) + 1] = s
          /\ \A i \in 1 .. Len(queue) : queue'[i] = queue[i] /\ queue[i] \in Out
      BY <1>c, <2>1
    <3>2. \A i \in 1 .. Len(queue) :
            inUse[queue[i]] /\ outData'[queue[i]] = started + i
      BY Zenon, <1>a, <1>b, <1>d, <3>1 DEF Queued
    <3>3. \A i \in 1 .. Len(queue') :
            inUse'[queue'[i]] /\ outData'[queue'[i]] = started' + i
      <4> SUFFICES ASSUME NEW i \in 1 .. Len(queue')
                   PROVE  inUse'[queue'[i]] /\ outData'[queue'[i]] = started' + i
        BY Zenon
      <4>1. CASE i \in 1 .. Len(queue)
        BY Zenon, <2>1, <3>1, <3>2, <4>1
      <4>2. CASE i = Len(queue) + 1
        <5>1. queue'[i] = s /\ outData'[s] = started + i
          BY <1>b, <1>c, <1>d, <3>1, <4>2
        <5>2. QED
          BY Zenon, <1>a, <2>1, <5>1
      <4>3. QED
        BY <1>c, <3>1, <4>1, <4>2
    <3>4. \A i, j \in 1 .. Len(queue') : queue'[i] = queue'[j] => i = j
      BY <1>a, <1>b, <1>c, <3>1 DEF Queued
    <3>5. sent' = started' + Len(queue')
      BY <1>a, <1>b, <1>c, <2>1, <3>1
    <3>6. QED
      BY Zenon, <3>3, <3>4, <3>5 DEF Queued
  <2>5. Owned' /\ Posted' /\ OneTemplate'
    <3>1. Owned'
      BY <2>1 DEF IInv, Owned
    <3>2. Posted'
      BY Zenon, <2>1 DEF IInv, Posted
    <3>3. OneTemplate'
      BY Zenon, <2>1 DEF IInv, OneTemplate
    <3>4. QED
      BY Zenon, <3>1, <3>2, <3>3
  <2>6. Ring'
    BY Zenon, <1>a, <2>1, SameRing DEF IInv
  <2>7. Flight'
    BY <1>a, <1>d, <2>1, <2>2 DEF IInv, Flight
  <2>8. RemoteBuffers'
    BY <1>a, <2>1, <2>2 DEF IInv, RemoteBuffers
  <2>9. LocalBuffers'
    <3>1. \A p \in Local, t \in In : full[p][t] =>
            outData'[attached[p][t]] = outData[attached[p][t]]
      BY <1>b, <1>d, <2>2 DEF IInv, LocalBuffers, TypeOK
    <3>2. QED
      BY <1>a, <2>1, <2>2, <3>1 DEF IInv, LocalBuffers
  <2>10. QED
    BY Zenon, <1>e, <2>3, <2>4, <2>5, <2>6, <2>7, <2>8, <2>9 DEF IInv
<1>3. QED
  BY Zenon, <1>1, <1>2

LEMMA StepCheckQueuedTransfers ==
  ASSUME IInv, CheckQueuedTransfers
  PROVE  IInv'
<1> DEFINE s == Head(queue)
<1>a. /\ queue # <<>> /\ CanProduce /\ StartBufferTransfer(s) /\ queue' = Tail(queue)
      /\ UNCHANGED <<lastTid, outData, credit, inData, busy, lastOrd, received, sent>>
  BY Zenon DEF CheckQueuedTransfers, CanTransferBuffer, inVars
<1>b. TypeOK /\ Queued /\ sent = started + Len(queue)
  BY Zenon DEF IInv, Queued
<1>c. queue \in Seq(Out) /\ started \in Nat /\ sent \in Nat /\ Len(queue) \in Nat \ {0}
  BY <1>a, <1>b DEF TypeOK
<1>d. /\ s = queue[1] /\ s \in Out
      /\ Len(queue') = Len(queue) - 1 /\ queue' \in Seq(Out)
      /\ \A i \in 1 .. Len(queue') : i + 1 \in 1 .. Len(queue) /\ queue'[i] = queue[i + 1]
      /\ 1 \in 1 .. Len(queue)
  BY <1>a, <1>c
<1> HIDE DEF s
<1>e. inUse[s] /\ outData'[s] = started + 1
  BY Zenon, <1>a, <1>b, <1>d DEF Queued
<1>f. Starts(s)
  BY Zenon, <1>a, <1>b, <1>d, StartPointwise
<1>1. Owned' /\ Posted' /\ OneTemplate' /\ Ring' /\ Flight' /\ RemoteBuffers'
      /\ LocalBuffers'
  BY Zenon, <1>a, <1>d, <1>e, <1>f, StartKeeps
<1>2. TypeOK'
  <2>1. /\ inUse' \in [Out -> BOOLEAN] /\ pending' \in [Out -> SUBSET In]
        /\ nextTid' \in In /\ shadow' \in [Remote -> [In -> BOOLEAN]]
        /\ attached' \in [Local -> [In -> Out \cup {NULL}]]
        /\ xfer' \in [Out -> [Remote -> [In -> XferState]]]
        /\ full' \in [Inputs -> [In -> BOOLEAN]] /\ started' \in Nat
    BY Zenon, <1>a, <1>b, <1>d, StartPointwise
  <2>2. QED
    BY Zenon, <1>a, <1>b, <1>d, <2>1 DEF TypeOK
<1>3. Queued'
  <2>1. started' = started + 1 /\ \A u \in Out \ {s} : inUse'[u] = inUse[u]
    BY Zenon, <1>f DEF Starts
  <2>2. sent' = started' + Len(queue')
    BY <1>a, <1>b, <1>c, <1>d, <2>1
  <2>3. ASSUME NEW i \in 1 .. Len(queue')
        PROVE  /\ inUse'[queue'[i]] /\ outData'[queue'[i]] = started' + i
               /\ \A j \in 1 .. Len(queue') : queue'[i] = queue'[j] => i = j
    <3>1. i \in Nat /\ i + 1 \in 1 .. Len(queue) /\ i + 1 # 1 /\ queue'[i] = queue[i + 1]
      BY <1>d, <2>3
    <3>2. inUse[queue[i + 1]] /\ outData[queue[i + 1]] = started + (i + 1)
          /\ queue[i + 1] # s /\ queue[i + 1] \in Out
      BY <1>b, <1>c, <1>d, <3>1 DEF Queued
    <3>3. inUse'[queue'[i]] /\ outData'[queue'[i]] = started' + i
      BY <1>a, <1>c, <2>1, <3>1, <3>2
    <3>4. ASSUME NEW j \in 1 .. Len(queue'), queue'[i] = queue'[j]
          PROVE  i = j
      <4>1. j \in Nat /\ j + 1 \in 1 .. Len(queue) /\ queue'[j] = queue[j + 1]
        BY <1>d, <3>4
      <4>2. i + 1 = j + 1
        BY Zenon, <1>b, <3>1, <3>4, <4>1 DEF Queued
      <4>3. QED
        BY <3>1, <4>1, <4>2
    <3>5. QED
      BY Zenon, <3>3, <3>4
  <2>4. QED
    BY Zenon, <2>2, <2>3 DEF Queued
<1>4. InOrder'
  BY Zenon, <1>a DEF IInv, InOrder
<1>5. QED
  BY Zenon, <1>1, <1>2, <1>3, <1>4 DEF IInv

LEMMA NextInv == IInv /\ [Next]_vars => IInv'
<1> SUFFICES ASSUME IInv, [Next]_vars PROVE IInv'
  BY Zenon
<1>1. CASE GetNextEmptyOutputBuffer
  BY Zenon, <1>1, StepGetNextEmptyOutputBuffer
<1>2. CASE \E s \in Out : SendOutputBuffer(s)
  BY Zenon, <1>2, StepSendOutputBuffer
<1>3. CASE CheckQueuedTransfers
  BY Zenon, <1>3, StepCheckQueuedTransfers
<1>4. CASE \E s \in Out, p \in Remote, t \in In :
             CopyData(s, p, t) \/ WriteFullFlag(s, p, t) \/ CompleteTransfer(s, p, t)
  BY Zenon, <1>4, StepCopyData, StepWriteFullFlag, StepCompleteTransfer
<1>5. CASE \E p \in Remote, t \in In : WriteEmptyFlag(p, t)
  BY Zenon, <1>5, StepWriteEmptyFlag
<1>6. CASE \E p \in Inputs : GetNextFullInputBuffer(p)
  BY Zenon, <1>6, StepGetNextFullInputBuffer
<1>7. CASE \E p \in Inputs, t \in In : ReleaseInputBuffer(p, t)
  BY Zenon, <1>7, StepReleaseInputBuffer
<1>8. CASE UNCHANGED vars
  BY Zenon, <1>8, Stutter
<1>9. QED
  BY Zenon, <1>1, <1>2, <1>3, <1>4, <1>5, <1>6, <1>7, <1>8 DEF Next

\* The flags, the queue and the numbers of the messages agree in every state
\* of a connection, which is why the properties below hold.
THEOREM Invariance == Spec => []IInv
<1>1. QED
  BY InitInv, NextInv, PTL DEF Spec

\* Workers and driver only ever put values of the right type into the
\* connection's state.
THEOREM Types == Spec => []TypeOK
<1>1. IInv => TypeOK
  BY Zenon DEF IInv
<1>2. QED
  BY <1>1, Invariance, PTL

\* Every input's worker is handed messages 1, 2, 3... in this order by
\* getNextFullInputBuffer, with any numbers of buffers and any inputs.
THEOREM Ordered == Spec => []InOrder
<1>1. IInv => InOrder
  BY Zenon DEF IInv
<1>2. QED
  BY <1>1, Invariance, PTL

\* OutputBuffer::isEmpty gives the worker no buffer that is still read.
THEOREM Exclusive == Spec => []WriterAlone
<1>1. IInv => WriterAlone
  BY DEF IInv, Owned, Posted, WriterAlone, HasOutputBuffer
<1>2. QED
  BY <1>1, Invariance, PTL

\* canProduce starts no transfer into a buffer that another transfer writes
\* or a worker reads.
THEOREM NeverOverrun == Spec => []NoOverrun
<1>1. IInv => NoOverrun
  BY Zenon DEF IInv, Flight, RemoteBuffers, NoOverrun
<1>2. QED
  BY <1>1, Invariance, PTL

\* The list OutputBuffer::isEmpty scans has at most one entry.
THEOREM AtMostOneTemplate == Spec => []OneTemplate
<1>1. IInv => OneTemplate
  BY Zenon DEF IInv
<1>2. QED
  BY <1>1, Invariance, PTL

-----------------------------------------------------------------------------
LEMMA HeldStep ==
  ASSUME IInv, Next, NEW p \in Inputs, NEW t \in In, busy[p][t], busy'[p][t]
  PROVE  Data(p, t)' = Data(p, t)
<1>0. TypeOK
  BY Zenon DEF IInv
<1>1. CASE p \in Remote
  <2>1. full[p][t]
    BY Zenon, <1>1 DEF IInv, RemoteBuffers
  <2>2. \A s \in Out : xfer[s][p][t] # "posted"
    BY Zenon, <1>1, <2>1 DEF IInv, Flight
  <2>3. inData'[p][t] = inData[p][t]
    <3>1. CASE \E s \in Out, q \in Remote, u \in In : CopyData(s, q, u)
      BY <1>0, <1>1, <2>2, <3>1 DEF CopyData, TypeOK
    <3>2. CASE ~ \E s \in Out, q \in Remote, u \in In : CopyData(s, q, u)
      BY Zenon, <3>2 DEF Next, GetNextEmptyOutputBuffer, SendOutputBuffer, CheckQueuedTransfers,
           WriteFullFlag, CompleteTransfer, WriteEmptyFlag, GetNextFullInputBuffer,
           ReleaseInputBuffer
    <3>3. QED
      BY Zenon, <3>1, <3>2
  <2>4. QED
    BY Zenon, <1>1, <2>3 DEF Data, Remote
<1>2. CASE p \in Local
  <2> DEFINE s == attached[p][t]
  <2>1. full[p][t] /\ s \in Out
    BY <1>0, <1>2 DEF IInv, LocalBuffers, TypeOK
  <2>2. ~ inUse[s]
    BY Zenon, <1>2, <2>1 DEF IInv, Owned
  <2> HIDE DEF s
  <2>3. attached'[p][t] = s /\ outData'[s] = outData[s]
    <3>1. CASE GetNextEmptyOutputBuffer
      <4>1. lastTid # s
        BY <1>0, <1>2, <3>1, EmptyIsUnread DEF GetNextEmptyOutputBuffer, TypeOK, s
      <4>2. QED
        BY Zenon, <1>0, <2>1, <3>1, <4>1 DEF GetNextEmptyOutputBuffer, TypeOK, s
    <3>2. CASE CanProduce /\ \E u \in Out : StartBufferTransfer(u) /\ outData'[s] = outData[s]
      <4>1. t # nextTid
        BY Zenon, <1>2, <2>1, <3>2 DEF CanProduce, InputIsFree
      <4>2. PICK u \in Out : StartBufferTransfer(u) /\ outData'[s] = outData[s]
        BY Zenon, <3>2
      <4>3. Starts(u)
        BY Zenon, <1>0, <4>2, StartPointwise
      <4>4. \A q \in Local, b \in In \ {nextTid} : attached'[q][b] = attached[q][b]
        BY Zenon, <4>3 DEF Starts
      <4>5. attached'[p][t] = s
        BY Zenon, <1>2, <4>1, <4>4 DEF s
      <4>6. QED
        BY Zenon, <4>2, <4>5 DEF s
    <3>3. CASE \E u \in Out : SendOutputBuffer(u)
      <4>1. PICK u \in Out : SendOutputBuffer(u)
        BY Zenon, <3>3
      <4>2. outData'[s] = outData[s]
        BY Zenon, <1>0, <2>1, <2>2, <4>1 DEF SendOutputBuffer, HasOutputBuffer, TypeOK
      <4>3. QED
        BY Zenon, <3>2, <4>1, <4>2 DEF SendOutputBuffer, CanTransferBuffer, s
    <3>4. CASE CheckQueuedTransfers
      <4>1. Head(queue) \in Out
        BY <1>0, <3>4 DEF CheckQueuedTransfers, TypeOK
      <4>2. QED
        BY Zenon, <3>2, <3>4, <4>1 DEF CheckQueuedTransfers, CanTransferBuffer
    <3>5. CASE \E q \in Inputs, u \in In : ReleaseInputBuffer(q, u)
      <4>1. PICK q \in Inputs, u \in In : ReleaseInputBuffer(q, u)
        BY Zenon, <3>5
      <4>2. q # p \/ u # t
        BY Zenon, <1>0, <4>1 DEF ReleaseInputBuffer, TypeOK
      <4>3. QED
        BY <1>0, <1>2, <4>1, <4>2 DEF ReleaseInputBuffer, TypeOK, s
    <3>6. CASE \/ \E u \in Out, q \in Remote, b \in In :
                    CopyData(u, q, b) \/ WriteFullFlag(u, q, b) \/ CompleteTransfer(u, q, b)
               \/ \E q \in Remote, b \in In : WriteEmptyFlag(q, b)
               \/ \E q \in Inputs : GetNextFullInputBuffer(q)
      BY ZenonT(30), <3>6 DEF CopyData, WriteFullFlag, CompleteTransfer, WriteEmptyFlag,
           GetNextFullInputBuffer, outVars, s
    <3>7. QED
      BY Zenon, <3>1, <3>3, <3>4, <3>5, <3>6 DEF Next
  <2>4. QED
    BY Zenon, <1>2, <2>3 DEF Data, s
<1>3. QED
  BY Zenon, <1>1, <1>2 DEF Remote

\* No step of any other worker or of the driver changes what a worker reads
\* in an input buffer it holds.
THEOREM Intact == Spec => HeldIntact
<1>1. IInv /\ [Next]_vars =>
        [\A p \in Inputs, t \in In :
           busy[p][t] /\ busy'[p][t] => Data(p, t)' = Data(p, t)]_vars
  BY Zenon, HeldStep
<1>2. QED
  BY <1>1, Invariance, PTL DEF Spec, HeldIntact

-----------------------------------------------------------------------------
\* A worker that still holds a buffer finds room in the queue.
LEMMA QueueHasRoom ==
  ASSUME IInv, NEW s \in Out, HasOutputBuffer(s)
  PROVE  Len(queue) < NOut
<1> DEFINE n == Len(queue)
           f == [i \in 1 .. n + 1 |-> IF i = n + 1 THEN s ELSE queue[i]]
<1>1. queue \in Seq(Out) /\ n \in Nat /\ NOut \in Nat
  <2>1. queue \in Seq(Out)
    BY Zenon DEF IInv, TypeOK
  <2>2. QED
    BY <2>1, RingFacts
<1> HIDE DEF n
<1>2. \A i \in 1 .. n : queue[i] \in Out /\ queue[i] # s
  <2>1. \A i \in 1 .. n : queue[i] # s
    BY Zenon DEF HasOutputBuffer, n
  <2>2. \A i \in 1 .. n : queue[i] \in Out
    BY <1>1 DEF n
  <2>3. QED
    BY Zenon, <2>1, <2>2
<1>3. f \in [1 .. n + 1 -> Out]
  BY <1>1, <1>2
<1>4. \A i, j \in 1 .. n + 1 : f[i] = f[j] => i = j
  <2>1. \A i, j \in 1 .. n : queue[i] = queue[j] => i = j
    BY Zenon DEF IInv, Queued, n
  <2>2. QED
    BY <1>1, <1>2, <2>1
<1>5. /\ IsFiniteSet(1 .. n + 1) /\ Cardinality(1 .. n + 1) = n + 1
      /\ IsFiniteSet(Out) /\ Cardinality(Out) = NOut
  <2>1. /\ 1 \in Int /\ n + 1 \in Int /\ 0 \in Int /\ NOut - 1 \in Int
        /\ ~ (1 > n + 1) /\ ~ (0 > NOut - 1)
        /\ (n + 1) - 1 + 1 = n + 1 /\ (NOut - 1) - 0 + 1 = NOut
    BY <1>1, RingFacts
  <2>2. IsFiniteSet(1 .. n + 1) /\ Cardinality(1 .. n + 1) = n + 1
    BY Zenon, <2>1, FS_Interval
  <2>3. IsFiniteSet(Out) /\ Cardinality(Out) = NOut
    BY Zenon, <2>1, FS_Interval DEF Out
  <2>4. QED
    BY Zenon, <2>2, <2>3
<1> HIDE DEF f
<1>6. ~ (Cardinality(Out) < Cardinality(1 .. n + 1))
  <2> SUFFICES ASSUME Cardinality(Out) < Cardinality(1 .. n + 1) PROVE FALSE
    BY Zenon
  <2>1. \E x, y \in 1 .. n + 1 : x # y /\ f[x] = f[y]
    BY Zenon, <1>3, <1>5, FS_PigeonHole
  <2>2. QED
    BY Zenon, <1>4, <2>1
<1>7. QED
  BY <1>1, <1>5, <1>6 DEF n

\* Sends and deliveries of the connection are those of the channel, and every
\* other step is invisible to the workers.
THEOREM Refinement == Spec => ImplementsChannel
<1>1. Init => Abstract!CInit
  BY Zenon DEF Init, Abstract!CInit
<1>2. IInv /\ [Next]_vars => [Abstract!CNext]_Abstract!cvars
  <2> SUFFICES ASSUME IInv, [Next]_vars PROVE [Abstract!CNext]_Abstract!cvars
    BY Zenon
  <2>0. TypeOK
    BY Zenon DEF IInv
  <2>1. CASE \E s \in Out : SendOutputBuffer(s)
    <3>1. PICK s \in Out : SendOutputBuffer(s)
      BY Zenon, <2>1
    <3>2. Len(queue) < NOut /\ sent' = sent + 1 /\ received' = received
      BY Zenon, <3>1, QueueHasRoom DEF SendOutputBuffer, inVars
    <3>3. ASSUME NEW p \in Inputs
          PROVE  sent < Len(received[p]) + (NOut + NIn)
      <4> DEFINE q == Len(queue)
                 r == Len(received[p])
      <4>1. started \in Nat /\ q \in Nat /\ r \in Nat /\ NIn \in Nat /\ NOut \in Nat
        BY <2>0, RingFacts DEF TypeOK
      <4>2. started - r <= NIn
        BY Zenon DEF IInv, Ring
      <4>3. sent = started + q
        BY Zenon DEF IInv, Queued
      <4>4. q < NOut
        BY Zenon, <3>2
      <4> HIDE DEF q, r
      <4>5. started + q < r + (NOut + NIn)
        BY <4>1, <4>2, <4>4
      <4>6. QED
        BY Zenon, <4>3, <4>5 DEF r
    <3>4. QED
      BY Zenon, <3>2, <3>3 DEF Abstract!CNext, Abstract!CSend
  <2>2. CASE \E p \in Inputs : GetNextFullInputBuffer(p)
    <3>1. PICK p \in Inputs : GetNextFullInputBuffer(p)
      BY Zenon, <2>2
    <3> DEFINE t == NextOrd(p)
    <3>2. /\ ~ InputIsEmpty(p, t) /\ ~ busy[p][t] /\ sent' = sent
          /\ received' = [received EXCEPT ![p] = Append(@, Data(p, t))]
      BY Zenon, <3>1 DEF GetNextFullInputBuffer, NextOrd
    <3>3. t \in In /\ Len(received[p]) \in Nat /\ started \in Nat /\ sent \in Nat
          /\ Len(queue) \in Nat
      BY <2>0, RingFacts DEF TypeOK, NextOrd
    <3>4. full[p][t] /\ Len(received[p]) < Last(t) /\ Data(p, t) = Last(t)
      <4>1. CASE p \in Local
        BY Zenon, <3>2, <3>3, <4>1 DEF InputIsEmpty, IInv, LocalBuffers, Data
      <4>2. CASE p \in Remote
        BY Zenon, <3>2, <3>3, <4>2 DEF InputIsEmpty, IInv, RemoteBuffers, Data, Remote
      <4>3. QED
        BY Zenon, <4>1, <4>2 DEF Remote
    <3>5. Data(p, t) = Len(received[p]) + 1
      BY Zenon, <2>0, <3>4, NextMessage DEF IInv
    <3>6. Len(received[p]) < sent
      <4>1. Last(t) <= started
        <5>1. nextTid \in In /\ NIn \in Nat /\ Dist(nextTid, t) \in In
          BY Zenon, <2>0, <3>3, RingFacts, DistFacts DEF TypeOK
        <5>2. QED
          BY <3>3, <5>1 DEF Last, In
      <4>2. sent = started + Len(queue)
        BY Zenon DEF IInv, Queued
      <4>3. QED
        BY <3>3, <3>4, <3>5, <4>1, <4>2
    <3>7. QED
      BY Zenon, <3>2, <3>5, <3>6 DEF Abstract!CNext, Abstract!CReceive
  <2>3. CASE \/ GetNextEmptyOutputBuffer
             \/ CheckQueuedTransfers
             \/ \E s \in Out, p \in Remote, t \in In :
                  CopyData(s, p, t) \/ WriteFullFlag(s, p, t) \/ CompleteTransfer(s, p, t)
             \/ \E p \in Remote, t \in In : WriteEmptyFlag(p, t)
             \/ \E p \in Inputs, t \in In : ReleaseInputBuffer(p, t)
             \/ UNCHANGED vars
    BY ZenonT(30), <2>3 DEF GetNextEmptyOutputBuffer, CheckQueuedTransfers, CopyData, WriteFullFlag,
         CompleteTransfer, WriteEmptyFlag, ReleaseInputBuffer, vars, inVars, Abstract!cvars
  <2>4. QED
    BY Zenon, <2>1, <2>2, <2>3 DEF Next
<1>3. QED
  BY <1>1, <1>2, Invariance, PTL DEF Spec, ImplementsChannel, Abstract!CSpec
=============================================================================
