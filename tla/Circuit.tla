------------------------------ MODULE Circuit ------------------------------
(***************************************************************************)
(* A connection of the data plane: one output port whose NOut buffers are  *)
(* filled by a worker, and input ports with NIn buffers each, in other     *)
(* processes or in the same one.  The output side decides by flags alone   *)
(* whether a transfer may start: a shadow flag for each remote input       *)
(* buffer, set when a transfer to it is posted and cleared by a remote     *)
(* write of the process that empties the buffer.  Inputs that live in the  *)
(* output's process are not copied to: their buffers are attached to the   *)
(* output buffer (zero copy) and it is free when the last one detaches.    *)
(*                                                                         *)
(* Buffers are numbered from 0, as in the code.  A message is its number   *)
(* in the order of the sends; 0 stands for whatever a worker is writing    *)
(* into a buffer it has been given.  A transfer copies the data, then      *)
(* writes the full flag, and is reported complete only then, which is what *)
(* ReliableTransfer promises.                                              *)
(***************************************************************************)
EXTENDS Integers, Sequences

CONSTANTS
  NOut,       \* buffers of the output port
  NIn,        \* buffers of each input port
  Inputs,     \* the input ports
  Local,      \* those that live in the output's process
  MaxSends    \* bound on the messages sent

ASSUME CircuitAssumption ==
  /\ NOut \in Nat \ {0} /\ NIn \in Nat \ {0} /\ MaxSends \in Nat
  /\ Inputs # {} /\ Local \subseteq Inputs

VARIABLES
  \* the output side
  inUse,      \* an output buffer belongs to the worker or to the queue
  pending,    \* the transfer templates an output buffer waits for, by input tid
  lastTid,    \* the output buffer to hand out next
  nextTid,    \* the input buffer the next transfer goes to
  queue,      \* output buffers sent, whose transfer could not start
  outData,    \* the memory of the output buffers
  shadow,     \* the output side's flag of a remote input buffer: it is full
  attached,   \* the output buffer a local input buffer shares, or NULL
  \* in flight
  xfer,       \* the state of the transfer of template <<s, t>> to an input
  credit,     \* the write that clears a shadow flag is posted
  \* the input sides
  full,       \* an input buffer's own flag
  busy,       \* an input buffer belongs to the worker
  lastOrd,    \* the input buffer handed out last
  inData,     \* the memory of the input buffers
  \* history
  sent,       \* how many messages were sent
  started,    \* how many of them have left the queue
  received    \* what each input's worker was handed

outVars == <<inUse, pending, lastTid, nextTid, queue, outData, started>>
inVars == <<busy, lastOrd, received>>
vars == <<outVars, shadow, attached, xfer, credit, full, inData, inVars, sent>>

Out == 0 .. NOut - 1
In == 0 .. NIn - 1
Remote == Inputs \ Local
NULL == -1

\* Mutant of Succ: the identifier does not wrap.
SuccNoWrap(n, x) == x + 1

\* The successor of x in a ring of n buffers.
Succ(n, x) == IF x = n - 1 THEN 0 ELSE x + 1

-----------------------------------------------------------------------------
\* A connected circuit.  lastOrd starts at MAXBUFORD, whose successor is 0.
Init ==
  /\ inUse = [s \in Out |-> FALSE]
  /\ pending = [s \in Out |-> {}]
  /\ lastTid = 0
  /\ nextTid = 0
  /\ queue = <<>>
  /\ outData = [s \in Out |-> 0]
  /\ shadow = [p \in Remote |-> [t \in In |-> FALSE]]
  /\ attached = [p \in Local |-> [t \in In |-> NULL]]
  /\ xfer = [s \in Out |-> [p \in Remote |-> [t \in In |-> "idle"]]]
  /\ credit = [p \in Remote |-> [t \in In |-> FALSE]]
  /\ full = [p \in Inputs |-> [t \in In |-> FALSE]]
  /\ busy = [p \in Inputs |-> [t \in In |-> FALSE]]
  /\ lastOrd = [p \in Inputs |-> NIn - 1]
  /\ inData = [p \in Remote |-> [t \in In |-> 0]]
  /\ sent = 0
  /\ started = 0
  /\ received = [p \in Inputs |-> <<>>]

\* The input buffers that share an output buffer's memory.
Dependents(s) == {pt \in Local \X In : attached[pt[1]][pt[2]] = s}

\* Every transfer of a template has completed.
IsComplete(s, t) == \A p \in Remote : xfer[s][p][t] = "idle"

\* Mutant of OutputIsEmpty: transfers may still read the buffer.
OutputIsEmptyUnsent(s) == Dependents(s) = {}

\* Mutant of OutputIsEmpty: inputs may still share the buffer.
OutputIsEmptyShared(s) == \A t \in pending[s] : IsComplete(s, t)

\* Mutant of OutputIsEmpty: completed templates are not dropped.
OutputIsEmptyPending(s) == Dependents(s) = {} /\ pending[s] = {}

OutputIsEmpty(s) ==
  /\ Dependents(s) = {}
  /\ \A t \in pending[s] : IsComplete(s, t)

\* Mutant of InputIsFree: a remote buffer is always free.
InputIsFreeLocal(p, t) == p \in Remote \/ (~ full[p][t] /\ attached[p][t] = NULL)

\* The flag the output side reads: the shadow's, or the local buffer's own.
InputIsFree(p, t) == IF p \in Local THEN ~ full[p][t] /\ attached[p][t] = NULL
                                    ELSE ~ shadow[p][t]

CanProduce == \A p \in Inputs : InputIsFree(p, nextTid)

\* A buffer does not overtake those of the queue.
CanTransferBuffer(queued) == (queued \/ queue = <<>>) /\ CanProduce

-----------------------------------------------------------------------------
\* Mutant of GetNextEmptyOutputBuffer: the templates stay on the list.
GetNextEmptyListed ==
  /\ OutputIsEmpty(lastTid) /\ ~ inUse[lastTid]
  /\ inUse' = [inUse EXCEPT ![lastTid] = TRUE]
  /\ outData' = [outData EXCEPT ![lastTid] = 0]
  /\ lastTid' = Succ(NOut, lastTid)
  /\ UNCHANGED <<pending, nextTid, queue, started, shadow, attached, xfer, credit,
                 full, inData, inVars, sent>>

\* The output's worker asks for a buffer: the poll of isEmpty drops the
\* completed templates.  From here on the worker writes the memory.
GetNextEmptyOutputBuffer ==
  /\ OutputIsEmpty(lastTid) /\ ~ inUse[lastTid]
  /\ inUse' = [inUse EXCEPT ![lastTid] = TRUE]
  /\ pending' = [pending EXCEPT ![lastTid] = {}]
  /\ outData' = [outData EXCEPT ![lastTid] = 0]
  /\ lastTid' = Succ(NOut, lastTid)
  /\ UNCHANGED <<nextTid, queue, started, shadow, attached, xfer, credit,
                 full, inData, inVars, sent>>

\* The part of startBufferTransfer and produce common to both its callers.
StartBufferTransfer(s) ==
  /\ inUse' = [inUse EXCEPT ![s] = FALSE]
  /\ shadow' = [p \in Remote |-> [shadow[p] EXCEPT ![nextTid] = TRUE]]
  /\ full' = [p \in Inputs |-> IF p \in Local
                               THEN [full[p] EXCEPT ![nextTid] = TRUE]
                               ELSE full[p]]
  /\ attached' = [p \in Local |-> [attached[p] EXCEPT ![nextTid] = s]]
  /\ xfer' = [xfer EXCEPT ![s] =
                [p \in Remote |-> [xfer[s][p] EXCEPT ![nextTid] = "posted"]]]
  /\ pending' = [pending EXCEPT ![s] = @ \cup {nextTid}]
  /\ nextTid' = Succ(NIn, nextTid)
  /\ started' = started + 1

\* The worker may hold several buffers and send them in any order.
HasOutputBuffer(s) == inUse[s] /\ \A i \in 1 .. Len(queue) : queue[i] # s

\* Mutant of SendOutputBuffer: a buffer overtakes those of the queue.
SendOvertakes(s) ==
  /\ sent < MaxSends
  /\ HasOutputBuffer(s)
  /\ outData' = [outData EXCEPT ![s] = sent + 1]
  /\ sent' = sent + 1
  /\ IF CanProduce
     THEN StartBufferTransfer(s) /\ UNCHANGED queue
     ELSE /\ queue' = Append(queue, s)
          /\ UNCHANGED <<inUse, pending, nextTid, started, shadow, attached,
                         xfer, full>>
  /\ UNCHANGED <<lastTid, credit, inData, inVars>>

SendOutputBuffer(s) ==
  /\ sent < MaxSends
  /\ HasOutputBuffer(s)
  /\ outData' = [outData EXCEPT ![s] = sent + 1]
  /\ sent' = sent + 1
  /\ IF CanTransferBuffer(FALSE)
     THEN StartBufferTransfer(s) /\ UNCHANGED queue
     ELSE /\ queue' = Append(queue, s)
          /\ UNCHANGED <<inUse, pending, nextTid, started, shadow, attached,
                         xfer, full>>
  /\ UNCHANGED <<lastTid, credit, inData, inVars>>

\* Mutant of CheckQueuedTransfers: the last of the queue is left there.
CheckQueuedButLast ==
  /\ Len(queue) > 1 /\ CanProduce
  /\ StartBufferTransfer(Head(queue))
  /\ queue' = Tail(queue)
  /\ UNCHANGED <<lastTid, outData, credit, inData, inVars, sent>>

\* Mutant of CheckQueuedTransfers: the buffer queued last goes first.
CheckQueuedLast ==
  /\ queue # <<>> /\ CanProduce
  /\ StartBufferTransfer(queue[Len(queue)])
  /\ queue' = SubSeq(queue, 1, Len(queue) - 1)
  /\ UNCHANGED <<lastTid, outData, credit, inData, inVars, sent>>

\* The dispatch thread starts the transfer at the head of the queue.
CheckQueuedTransfers ==
  /\ queue # <<>> /\ CanTransferBuffer(TRUE)
  /\ StartBufferTransfer(Head(queue))
  /\ queue' = Tail(queue)
  /\ UNCHANGED <<lastTid, outData, credit, inData, inVars, sent>>

-----------------------------------------------------------------------------
\* The data transfer driver carries out a posted transfer.
CopyData(s, p, t) ==
  /\ xfer[s][p][t] = "posted"
  /\ xfer' = [xfer EXCEPT ![s][p][t] = "copied"]
  /\ inData' = [inData EXCEPT ![p][t] = outData[s]]
  /\ UNCHANGED <<outVars, shadow, attached, credit, full, inVars, sent>>

WriteFullFlag(s, p, t) ==
  /\ xfer[s][p][t] = "copied"
  /\ xfer' = [xfer EXCEPT ![s][p][t] = "flagged"]
  /\ full' = [full EXCEPT ![p][t] = TRUE]
  /\ UNCHANGED <<outVars, shadow, attached, credit, inData, inVars, sent>>

\* getStatus of the transfer request: the driver reports that it is complete.
CompleteTransfer(s, p, t) ==
  /\ xfer[s][p][t] = "flagged"
  /\ xfer' = [xfer EXCEPT ![s][p][t] = "idle"]
  /\ UNCHANGED <<outVars, shadow, attached, credit, full, inData, inVars, sent>>

WriteEmptyFlag(p, t) ==
  /\ credit[p][t]
  /\ credit' = [credit EXCEPT ![p][t] = FALSE]
  /\ shadow' = [shadow EXCEPT ![p][t] = FALSE]
  /\ UNCHANGED <<outVars, attached, xfer, full, inData, inVars, sent>>

-----------------------------------------------------------------------------
\* What an input's worker finds in a buffer: the output's memory if attached.
Data(p, t) == IF p \in Local THEN outData[attached[p][t]] ELSE inData[p][t]

InputIsEmpty(p, t) == /\ p \in Local => attached[p][t] = NULL
                      /\ ~ full[p][t]

GetNextFullInputBuffer(p) ==
  LET t == Succ(NIn, lastOrd[p])
  IN  /\ ~ InputIsEmpty(p, t) /\ ~ busy[p][t]
      /\ lastOrd' = [lastOrd EXCEPT ![p] = t]
      /\ busy' = [busy EXCEPT ![p][t] = TRUE]
      /\ received' = [received EXCEPT ![p] = Append(@, Data(p, t))]
      /\ UNCHANGED <<outVars, shadow, attached, xfer, credit, full, inData, sent>>

\* The worker releases one of the buffers it holds, in any order: consume
\* detaches a local buffer, and posts the empty flag to a remote output.
ReleaseInputBuffer(p, t) ==
  /\ busy[p][t]
  /\ busy' = [busy EXCEPT ![p][t] = FALSE]
  /\ full' = [full EXCEPT ![p][t] = FALSE]
  /\ \/ /\ p \in Local
        /\ attached' = [attached EXCEPT ![p][t] = NULL]
        /\ inUse' = IF Dependents(attached[p][t]) = {<<p, t>>}
                    THEN [inUse EXCEPT ![attached[p][t]] = FALSE]
                    ELSE inUse
        /\ UNCHANGED credit
     \/ /\ p \in Remote
        /\ credit' = [credit EXCEPT ![p][t] = TRUE]
        /\ UNCHANGED <<attached, inUse>>
  /\ UNCHANGED <<pending, lastTid, nextTid, queue, outData, started, shadow,
                 xfer, inData, lastOrd, received, sent>>

-----------------------------------------------------------------------------
Next ==
  \/ GetNextEmptyOutputBuffer
  \/ \E s \in Out : SendOutputBuffer(s)
  \/ CheckQueuedTransfers
  \/ \E s \in Out, p \in Remote, t \in In :
       CopyData(s, p, t) \/ WriteFullFlag(s, p, t) \/ CompleteTransfer(s, p, t)
  \/ \E p \in Remote, t \in In : WriteEmptyFlag(p, t)
  \/ \E p \in Inputs : GetNextFullInputBuffer(p)
  \/ \E p \in Inputs, t \in In : ReleaseInputBuffer(p, t)

Spec == Init /\ [][Next]_vars

\* The container threads dispatch again and again, the driver carries out
\* what is posted, and the consuming workers take and release their inputs.
Fairness ==
  /\ WF_vars(CheckQueuedTransfers)
  /\ \A s \in Out, p \in Remote, t \in In :
       WF_vars(CopyData(s, p, t) \/ WriteFullFlag(s, p, t)
               \/ CompleteTransfer(s, p, t))
  /\ \A p \in Remote, t \in In : WF_vars(WriteEmptyFlag(p, t))
  /\ \A p \in Inputs : WF_vars(GetNextFullInputBuffer(p))
  /\ \A p \in Inputs, t \in In : WF_vars(ReleaseInputBuffer(p, t))

FairSpec == Spec /\ Fairness

-----------------------------------------------------------------------------
XferState == {"idle", "posted", "copied", "flagged"}

\* Every variable keeps its type; lists of templates and queues stay within
\* the buffers of the port.
TypeOK ==
  /\ inUse \in [Out -> BOOLEAN]
  /\ pending \in [Out -> SUBSET In]
  /\ lastTid \in Out /\ nextTid \in In
  /\ queue \in Seq(Out)
  /\ outData \in [Out -> Nat]
  /\ shadow \in [Remote -> [In -> BOOLEAN]]
  /\ attached \in [Local -> [In -> Out \cup {NULL}]]
  /\ xfer \in [Out -> [Remote -> [In -> XferState]]]
  /\ credit \in [Remote -> [In -> BOOLEAN]]
  /\ full \in [Inputs -> [In -> BOOLEAN]]
  /\ busy \in [Inputs -> [In -> BOOLEAN]]
  /\ lastOrd \in [Inputs -> In]
  /\ inData \in [Remote -> [In -> Nat]]
  /\ sent \in Nat /\ started \in Nat
  /\ received \in [Inputs -> Seq(Nat)]

\* Every consumer is handed the messages in the order of the sends, none
\* missing and none twice, though getNextFullInputBuffer looks at one flag
\* and reads no sequence number, and workers release in any order.
InOrder == \A p \in Inputs : \A i \in 1 .. Len(received[p]) : received[p][i] = i

\* While a worker writes an output buffer, no transfer still reads it and no
\* co-located input shares it: OutputBuffer::isEmpty may not report a buffer
\* empty before the slowest of its readers is done.
WriterAlone ==
  \A s \in Out : HasOutputBuffer(s) =>
    /\ \A p \in Remote, t \in In : xfer[s][p][t] = "idle"
    /\ \A p \in Local, t \in In : attached[p][t] # s

\* A transfer in flight goes to a buffer nobody reads, and it is the only one
\* that goes there: the shadow flag never says empty too early, however late
\* completions and empty flags arrive.
NoOverrun ==
  \A s \in Out, p \in Remote, t \in In : xfer[s][p][t] \in {"posted", "copied"} =>
    /\ ~ full[p][t] /\ ~ busy[p][t] /\ ~ credit[p][t] /\ shadow[p][t]
    /\ \A u \in Out \ {s} : xfer[u][p][t] \notin {"posted", "copied"}

\* What a worker reads in an input buffer does not change under it between
\* getNextFullInputBuffer and the release, whether the memory is the input's
\* own or the output's.
HeldIntact ==
  [][\A p \in Inputs, t \in In :
       busy[p][t] /\ busy'[p][t] => Data(p, t)' = Data(p, t)]_vars

\* An output buffer never waits for two templates.  OutputBuffer::isEmpty
\* restarts its scan with i=0 and the loop's i++ then skips an entry, which
\* is harmless only for a list of one.
OneTemplate ==
  \A s \in Out : \A t, u \in pending[s] : t = u

\* Every message sent reaches every consumer, as long as the consuming
\* workers keep releasing what they are handed.
AllDelivered ==
  \A p \in Inputs, k \in 1 .. MaxSends : sent >= k ~> Len(received[p]) >= k

\* An output buffer the worker has sent comes back to it: no completion, no
\* detach and no queued transfer is forgotten.
BufferReturns ==
  \A s \in Out : (pending[s] # {} \/ (inUse[s] /\ ~ HasOutputBuffer(s)))
                   ~> (OutputIsEmpty(s) /\ ~ inUse[s])

\* The connection is a bounded first-in first-out channel to every consumer.
Abstract == INSTANCE Channel WITH Capacity <- NOut + NIn

ImplementsChannel == Abstract!CSpec
=============================================================================
