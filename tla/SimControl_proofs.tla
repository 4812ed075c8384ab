-------------------------- MODULE SimControl_proofs --------------------------
(***************************************************************************)
(* What clients, server and simulator promise each other.  The first part  *)
(* holds for any number of clients; the others are about one client, the   *)
(* case the server is written for: it remembers one client's last command, *)
(* and forwards responses of the simulator to the last requester.          *)
(***************************************************************************)
EXTENDS SimControl, TLAPS

Kinds == Commands \cup {"get", "set"}
Request == [id : Nat, tag : Nat, kind : Kinds, val : Values]
Results == {"O", "E", "X"}
Response == [client : Clients, id : Nat, tag : Nat, code : {"OK", "ERROR"},
             val : Values \cup Results]
Piece == [client : Clients, packet : Request]
Last == [have : {TRUE}, client : Clients, id : Nat, tag : Nat, val : Results]

ClientTypes ==
  /\ toServer \in [Clients -> Seq(Request)]
  /\ toClient \in [Clients -> Seq(Response)]
  /\ conn \in {"none", "listening", "open", "eof", "dropped"}
  /\ pc \in [Clients -> {"idle", "receiving", "transfer", "sent"}]
  /\ request \in [Clients -> Request]
  /\ m_failed \in [Clients -> BOOLEAN]
  /\ answer \in [Clients -> Response \cup {NoAnswer}]
  /\ known \in [Clients -> SUBSET (Values \cup Results)]

ServerTypes ==
  /\ running \in BOOLEAN /\ lastCommand.have \in BOOLEAN
  /\ lastCommand.have => lastCommand \in Last
  /\ lastCommand.val \in Results /\ lastCommand.id \in Nat
  /\ m_respQueue \in Seq(Clients)
  /\ m_req \in Seq(Piece)
  /\ m_resp \in Seq(Response)
  /\ emulated \in Values /\ simulated \in Values
  /\ m_xferSrvr \in BOOLEAN /\ m_xferSckt \in {"none", "open", "done"}
  /\ m_xferSize \in BOOLEAN
  /\ executed \subseteq Clients \X Nat

Types == ClientTypes /\ ServerTypes

-----------------------------------------------------------------------------
(* The steps of a client, by what they do to the packets.                   *)

\* request sends its first packet.
Starts(c) ==
  \E kind \in Kinds, v \in Values :
    /\ Begin(c, kind, v) /\ conn' = conn
    /\ IF kind = "R" THEN pc[c] = "sent" /\ conn \in {"eof", "dropped"} ELSE pc[c] = "idle"

Drops(c) == toClient[c] # <<>> /\ toClient' = [toClient EXCEPT ![c] = Tail(@)]

\* It sends the packet again, or gives up.
Retries(c) ==
  /\ pc[c] = "receiving" /\ Attempt(c, request[c], n[c])
  /\ toClient' = toClient \/ Drops(c)
  /\ UNCHANGED <<request, conn, opened, answer, known>>

\* It takes no notice of a response.
Ignores(c) ==
  /\ pc[c] = "receiving" /\ Drops(c)
  /\ UNCHANGED <<toServer, conn, pc, request, m_failed, answer, known>>

\* It returns with a response.
Accepts(c) ==
  /\ pc[c] = "receiving" /\ Drops(c)
  /\ Head(toClient[c]).tag = request[c].tag /\ Head(toClient[c]).code = "OK"
  /\ Return(c, Head(toClient[c]))
  /\ UNCHANGED <<toServer, m_failed, request, conn>>

\* load ends when its connection was dropped.
Throws(c) ==
  /\ pc[c] = "sent" /\ conn = "dropped" /\ pc' = [pc EXCEPT ![c] = "idle"]
  /\ UNCHANGED <<toServer, toClient, conn, request, m_failed, answer, known>>

LEMMA DeviceCases ==
  ASSUME NEW c \in Clients, DeviceNext(c)
  PROVE  Starts(c) \/ Retries(c) \/ Ignores(c) \/ Accepts(c) \/ SendFile(c) \/ Throws(c)
<1>1. Reset \in Values /\ \A v \in Writes : v \in Values
  BY NetAssumption
<1>2. {"get", "set", "F", "L", "R"} \subseteq Kinds
  BY DEF Kinds, Commands
<1>3. CASE Access(c)
  <2>1. PICK kind \in {"get", "set"}, v \in Values : Begin(c, kind, v)
    BY Zenon, <1>1, <1>3 DEF Access
  <2>2. kind \in Kinds /\ kind # "R"
    BY <2>1, <1>2
  <2>3. QED
    BY Zenon, <1>3, <2>1, <2>2 DEF Access, Starts
<1>4. CASE Open(c)
  <2>1. "F" \in Kinds /\ "F" # "R"
    BY <1>2
  <2>2. QED
    BY Zenon, <1>1, <1>4, <2>1 DEF Open, Starts
<1>5. CASE Load(c)
  <2>1. "L" \in Kinds /\ "L" # "R"
    BY <1>2
  <2>2. QED
    BY Zenon, <1>1, <1>5, <2>1 DEF Load, Starts
<1>6. CASE Receive(c)
  BY Zenon, <1>6 DEF Receive, Drops, Retries, Ignores, Accepts
<1>7. CASE Timeout(c)
  BY Zenon, <1>7 DEF Timeout, Retries
<1>8. CASE SendFile(c)
  BY Zenon, <1>8
<1>9. CASE Run(c)
  <2>1. "R" \in Kinds
    BY <1>2
  <2>2. QED
    BY Zenon, <1>1, <1>9, <2>1 DEF Run, Starts, Throws
<1>10. QED
  BY Zenon, <1>3, <1>4, <1>5, <1>6, <1>7, <1>8, <1>9 DEF DeviceNext

-----------------------------------------------------------------------------
(* The steps of the server.                                                 *)

Takes(c, p) ==
  /\ toServer[c] # <<>> /\ p = Head(toServer[c])
  /\ toServer' = [toServer EXCEPT ![c] = Tail(@)]

Answers(c, p) == toClient' = toClient \/ toClient' = [toClient EXCEPT ![c] = Append(@, p)]

\* A command that was executed is answered again.
Replays(c, p) ==
  /\ p.kind \in Commands /\ ~ Fresh(c, p)
  /\ Answers(c, [client |-> c, id |-> lastCommand.id, tag |-> lastCommand.tag,
                 code |-> "OK", val |-> lastCommand.val])
  /\ UNCHANGED <<conn, running, simVars, xferVars, cmdVars, emulated>>

\* A command comes too early.
Skips(c, p) ==
  /\ p.kind \in Commands /\ Fresh(c, p) /\ NotYet(p)
  /\ lastCommand' = [have |-> TRUE, client |-> c, id |-> lastCommand.id,
                     tag |-> p.tag, val |-> lastCommand.val]
  /\ ignored' = ignored \cup {<<c, p.id>>}
  /\ UNCHANGED <<toClient, conn, running, simVars, xferVars, emulated, executed, repeated>>

\* A command is executed.
Executes(c, p, result) ==
  /\ p.kind \in Commands /\ Fresh(c, p) /\ ~ NotYet(p)
  /\ \/ p.kind = "F" /\ result = "O" /\ DoFlush
     \/ p.kind = "L" /\ DoLoad(result)
     \/ p.kind = "R" /\ DoRun(result)
  /\ lastCommand' = [have |-> TRUE, client |-> c, id |-> p.id, tag |-> p.tag, val |-> result]
  /\ Answers(c, [client |-> c, id |-> p.id, tag |-> p.tag, code |-> "OK", val |-> result])
  /\ executed' = executed \cup {<<c, p.id>>}
  /\ repeated' = repeated \cup ({<<c, p.id>>} \cap executed)
  /\ UNCHANGED <<ignored, emulated>>

\* A register access is passed on to the simulator.
Forwards(c, p) ==
  /\ p.kind \notin Commands /\ running
  /\ m_req' = Append(m_req, [client |-> c, packet |-> p])
  /\ m_respQueue' = Append(m_respQueue, c)
  /\ UNCHANGED <<toClient, m_resp, emulated, simulated, conn, running, xferVars, cmdVars>>

\* A register access is answered by the emulated device.
Emulates(c, p) ==
  /\ p.kind \notin Commands /\ ~ running
  /\ emulated' = IF p.kind = "set" THEN p.val ELSE emulated
  /\ Answers(c, [client |-> c, id |-> p.id, tag |-> p.tag, code |-> "OK",
                 val |-> IF p.kind = "get" THEN emulated' ELSE Reset])
  /\ UNCHANGED <<simVars, conn, running, xferVars, cmdVars>>

Handles(c, p) ==
  \/ Replays(c, p) \/ Skips(c, p) \/ (\E result \in Results : Executes(c, p, result))
  \/ Forwards(c, p) \/ Emulates(c, p)

LEMMA ServerCases ==
  ASSUME NEW c \in Clients, ReceiveExt(c)
  PROVE  \E p : Takes(c, p) /\ Handles(c, p)
<1> DEFINE p == Head(toServer[c])
<1>1. Takes(c, p)
  BY Zenon DEF ReceiveExt, Takes
<1>2. \A packet : SendResponse(c, packet) => Answers(c, packet)
  BY Zenon DEF SendResponse, Answers
<1>3. \/ p.kind \in Commands /\ DoServer(c, p) /\ UNCHANGED emulated
      \/ /\ p.kind \notin Commands
         /\ IF running THEN SendToSim(c, p) ELSE DoEmulate(c, p)
         /\ UNCHANGED <<conn, running, xferVars, cmdVars>>
  BY Zenon DEF ReceiveExt
<1> HIDE DEF p
<1>4. CASE p.kind \in Commands /\ DoServer(c, p) /\ UNCHANGED emulated
  <2>1. CASE ~ Fresh(c, p)
    <3>1. Replays(c, p)
      BY Zenon, <1>2, <1>4, <2>1 DEF DoServer, Replays
    <3>2. QED BY Zenon, <1>1, <3>1 DEF Handles
  <2>2. CASE Fresh(c, p) /\ NotYet(p)
    <3>1. Skips(c, p)
      BY Zenon, <1>4, <2>2 DEF DoServer, Skips
    <3>2. QED BY Zenon, <1>1, <3>1 DEF Handles
  <2>3. CASE Fresh(c, p) /\ ~ NotYet(p)
    <3>1. PICK result \in Results :
            /\ \/ p.kind = "F" /\ result = "O" /\ DoFlush
               \/ p.kind = "L" /\ DoLoad(result)
               \/ p.kind = "R" /\ DoRun(result)
            /\ lastCommand' = [have |-> TRUE, client |-> c, id |-> p.id, tag |-> p.tag, val |-> result]
            /\ SendResponse(c, [client |-> c, id |-> p.id, tag |-> p.tag, code |-> "OK", val |-> result])
      BY Zenon, <1>4, <2>3 DEF DoServer, Results
    <3>2. /\ executed' = executed \cup {<<c, p.id>>}
          /\ repeated' = repeated \cup ({<<c, p.id>>} \cap executed)
          /\ UNCHANGED ignored
      BY Zenon, <1>4, <2>3 DEF DoServer
    <3>3. Executes(c, p, result)
      BY Zenon, <1>2, <1>4, <2>3, <3>1, <3>2 DEF Executes
    <3>4. QED BY Zenon, <1>1, <3>3 DEF Handles
  <2>4. QED BY Zenon, <2>1, <2>2, <2>3
<1>5. CASE /\ p.kind \notin Commands
           /\ IF running THEN SendToSim(c, p) ELSE DoEmulate(c, p)
           /\ UNCHANGED <<conn, running, xferVars, cmdVars>>
  <2>1. CASE running
    <3>1. Forwards(c, p)
      BY Zenon, <1>5, <2>1 DEF SendToSim, Forwards
    <3>2. QED BY Zenon, <1>1, <3>1 DEF Handles
  <2>2. CASE ~ running
    <3>1. Emulates(c, p)
      BY Zenon, <1>2, <1>5, <2>2 DEF DoEmulate, Emulates
    <3>2. QED BY Zenon, <1>1, <3>1 DEF Handles
  <2>3. QED BY Zenon, <2>1, <2>2
<1>6. QED BY Zenon, <1>3, <1>4, <1>5

\* What the three commands do to the rest of the server.
LEMMA CommandEffect ==
  ASSUME NEW result \in Results, NEW p,
         \/ p.kind = "F" /\ result = "O" /\ DoFlush
         \/ p.kind = "L" /\ DoLoad(result)
         \/ p.kind = "R" /\ DoRun(result),
         running \in BOOLEAN
  PROVE  /\ m_respQueue' = m_respQueue
         /\ \/ m_req' = <<>> /\ m_resp' = <<>>
            \/ m_req' = <<Head(m_req)>> /\ m_resp' = <<>> /\ p.kind = "F" /\ running /\ m_req # <<>>
            \/ UNCHANGED <<m_req, m_resp>> /\ (p.kind = "L" => ~ running) /\ p.kind # "F"
         /\ running' = IF p.kind = "L" THEN FALSE ELSE IF p.kind = "R" /\ result = "O" THEN TRUE ELSE running
         /\ simulated' = IF p.kind = "R" /\ result = "O" THEN Reset ELSE simulated
         /\ (p.kind = "L" /\ result = "X" /\ m_xferSize' = TRUE) \/ (m_xferSize' = m_xferSize /\ result # "X")
<1>1. "F" # "L" /\ "F" # "R" /\ "L" # "R" /\ "O" # "X" /\ "E" # "X" /\ "O" # "E"
  OBVIOUS
<1>2. CASE p.kind = "F" /\ result = "O" /\ DoFlush
  BY Zenon, <1>1, <1>2 DEF DoFlush, FlushSim, InHand
<1>3. CASE p.kind = "L" /\ DoLoad(result)
  BY Zenon, <1>1, <1>3 DEF DoLoad, FlushSim
<1>4. CASE p.kind = "R" /\ DoRun(result)
  BY Zenon, <1>1, <1>4 DEF DoRun
<1>5. QED BY Zenon, <1>2, <1>3, <1>4

-----------------------------------------------------------------------------
(* Types, and the queue of requesters, for any number of clients.           *)

Elems(s) == {s[i] : i \in 1 .. Len(s)}

LEMMA AppendFacts ==
  ASSUME NEW S, NEW s \in Seq(S), NEW x \in S
  PROVE  /\ Append(s, x) \in Seq(S) /\ Len(Append(s, x)) = Len(s) + 1
         /\ Elems(Append(s, x)) = Elems(s) \cup {x}
BY DEF Elems

LEMMA TailFacts ==
  ASSUME NEW S, NEW s \in Seq(S), s # <<>>
  PROVE  /\ Tail(s) \in Seq(S) /\ Len(s) = Len(Tail(s)) + 1 /\ Len(Tail(s)) \in Nat
         /\ Head(s) \in S /\ Head(s) \in Elems(s) /\ Elems(Tail(s)) \subseteq Elems(s)
<1>1. /\ Tail(s) \in Seq(S) /\ Len(s) = Len(Tail(s)) + 1 /\ Len(Tail(s)) \in Nat
      /\ Head(s) = s[1] /\ 1 \in 1 .. Len(s) /\ \A i \in 1 .. Len(s) : s[i] \in S
      /\ \A i \in 1 .. Len(Tail(s)) : Tail(s)[i] = s[i + 1] /\ i + 1 \in 1 .. Len(s)
  OBVIOUS
<1>2. Head(s) \in Elems(s)
  BY <1>1 DEF Elems
<1>3. Elems(Tail(s)) \subseteq Elems(s)
  <2> SUFFICES ASSUME NEW i \in 1 .. Len(Tail(s)) PROVE Tail(s)[i] \in Elems(s)
    BY Zenon DEF Elems
  <2>1. QED BY Zenon, <1>1 DEF Elems
<1>4. QED BY Zenon, <1>1, <1>2, <1>3

LEMMA TagType ==
  ASSUME NEW k \in Nat
  PROVE  k % TagMod \in Nat /\ k % TagMod < TagMod
BY NetAssumption

\* A new request.
NewRequest(c, kind, v) ==
  [id |-> request[c].id + 1, tag |-> (request[c].tag + 1) % TagMod, kind |-> kind, val |-> v]

LEMMA NewType ==
  ASSUME Types, NEW c \in Clients, NEW kind \in Kinds, NEW v \in Values
  PROVE  NewRequest(c, kind, v) \in Request
<1>1. request[c].id + 1 \in Nat /\ request[c].tag + 1 \in Nat
  BY DEF Types, ClientTypes, Request
<1>2. (request[c].tag + 1) % TagMod \in Nat
  BY Zenon, <1>1, TagType
<1>3. QED
  BY <1>1, <1>2 DEF NewRequest, Request

LEMMA AttemptTypes ==
  ASSUME Types, NEW c \in Clients, NEW r \in Request, NEW k, Attempt(c, r, k)
  PROVE  /\ toServer' \in [Clients -> Seq(Request)]
         /\ pc' \in [Clients -> {"idle", "receiving", "transfer", "sent"}]
         /\ m_failed' \in [Clients -> BOOLEAN]
<1>1. /\ toServer \in [Clients -> Seq(Request)] /\ m_failed \in [Clients -> BOOLEAN]
      /\ pc \in [Clients -> {"idle", "receiving", "transfer", "sent"}]
  BY Zenon DEF Types, ClientTypes
<1>2. Append(toServer[c], r) \in Seq(Request)
  BY Zenon, <1>1, AppendFacts
<1>3. toServer' = toServer \/ toServer' = [toServer EXCEPT ![c] = Append(@, r)]
  BY Zenon DEF Attempt, SendRequest
<1>4. pc' = [pc EXCEPT ![c] = "receiving"] \/ pc' = [pc EXCEPT ![c] = "idle"]
  BY Zenon DEF Attempt
<1>5. m_failed' = m_failed \/ \E b \in BOOLEAN : m_failed' = [m_failed EXCEPT ![c] = ~ b]
  BY Zenon DEF Attempt
<1>6. toServer' \in [Clients -> Seq(Request)]
  BY Zenon, <1>1, <1>2, <1>3
<1>7. pc' \in [Clients -> {"idle", "receiving", "transfer", "sent"}]
  BY <1>1, <1>4
<1>8. m_failed' \in [Clients -> BOOLEAN]
  BY Zenon, <1>1, <1>5
<1>9. QED BY Zenon, <1>6, <1>7, <1>8

LEMMA DropTypes ==
  ASSUME Types, NEW c \in Clients, Drops(c)
  PROVE  toClient' \in [Clients -> Seq(Response)] /\ Head(toClient[c]) \in Response
<1>1. toClient \in [Clients -> Seq(Response)]
  BY Zenon DEF Types, ClientTypes
<1>2. Tail(toClient[c]) \in Seq(Response) /\ Head(toClient[c]) \in Response
  BY Zenon, <1>1, TailFacts DEF Drops
<1>3. QED BY Zenon, <1>1, <1>2 DEF Drops

LEMMA ClientTypesStep ==
  ASSUME Types, NEW c \in Clients, DeviceNext(c)
  PROVE  ClientTypes'
<1> USE DEF Types, ClientTypes
<1>1. CASE Starts(c)
  <2>1. PICK kind \in Kinds, v \in Values : Begin(c, kind, v) /\ conn' = conn
    BY Zenon, <1>1 DEF Starts
  <2>2. /\ request' = [request EXCEPT ![c] = NewRequest(c, kind, v)] /\ toClient' = toClient
        /\ answer' = [answer EXCEPT ![c] = NoAnswer] /\ Attempt(c, NewRequest(c, kind, v), 0)
        /\ known' = [known EXCEPT ![c] = CASE kind = "set" -> known[c] \cup {v}
                                           [] kind \in {"L", "R"} -> Values
                                           [] OTHER -> known[c]]
    BY Zenon, <2>1 DEF Begin, NewRequest
  <2>3. NewRequest(c, kind, v) \in Request
    BY Zenon, NewType
  <2>4. request' \in [Clients -> Request]
    BY Zenon, <2>2, <2>3
  <2>5. known' \in [Clients -> SUBSET (Values \cup Results)]
    BY <2>2
  <2>6. QED BY Zenon, <2>1, <2>2, <2>3, <2>4, <2>5, AttemptTypes
<1>2. CASE Retries(c)
  <2>1. request[c] \in Request
    BY Zenon
  <2>2. QED BY Zenon, <1>2, <2>1, AttemptTypes, DropTypes DEF Retries
<1>3. CASE Ignores(c)
  BY Zenon, <1>3, DropTypes DEF Ignores
<1>4. CASE Accepts(c)
  <2> DEFINE p == Head(toClient[c])
  <2>1. toClient' \in [Clients -> Seq(Response)] /\ p \in Response /\ Return(c, p)
        /\ UNCHANGED <<toServer, m_failed, request, conn>>
    BY Zenon, <1>4, DropTypes DEF Accepts
  <2> HIDE DEF p
  <2>2. pc' \in [Clients -> {"idle", "receiving", "transfer", "sent"}]
    BY <2>1 DEF Return
  <2>3. answer' \in [Clients -> Response \cup {NoAnswer}]
    BY Zenon, <2>1 DEF Return
  <2>4. p.val \in Values \cup Results /\ request[c].val \in Values \cup Results /\ Reset \in Values
    BY <2>1, NetAssumption DEF Response, Request
  <2>5. known' \in [Clients -> SUBSET (Values \cup Results)]
    BY <2>1, <2>4 DEF Return
  <2>6. QED BY Zenon, <2>1, <2>2, <2>3, <2>5
<1>5. CASE SendFile(c)
  <2>1. pc' \in [Clients -> {"idle", "receiving", "transfer", "sent"}]
    BY <1>5 DEF SendFile
  <2>2. conn' \in {"none", "listening", "open", "eof", "dropped"}
    BY <1>5 DEF SendFile
  <2>3. QED BY Zenon, <1>5, <2>1, <2>2 DEF SendFile
<1>6. CASE Throws(c)
  <2>1. pc' \in [Clients -> {"idle", "receiving", "transfer", "sent"}]
    BY <1>6 DEF Throws
  <2>2. QED BY Zenon, <1>6, <2>1 DEF Throws
<1>7. QED BY Zenon, <1>1, <1>2, <1>3, <1>4, <1>5, <1>6, DeviceCases

LEMMA AnswerTypes ==
  ASSUME Types, NEW c \in Clients, NEW p \in Response, Answers(c, p)
  PROVE  toClient' \in [Clients -> Seq(Response)]
<1>1. toClient \in [Clients -> Seq(Response)]
  BY Zenon DEF Types, ClientTypes
<1>2. Append(toClient[c], p) \in Seq(Response)
  BY Zenon, <1>1, AppendFacts
<1>3. QED BY Zenon, <1>1, <1>2 DEF Answers

LEMMA TakeTypes ==
  ASSUME Types, NEW c \in Clients, NEW p, Takes(c, p)
  PROVE  toServer' \in [Clients -> Seq(Request)] /\ p \in Request
<1>1. toServer \in [Clients -> Seq(Request)]
  BY Zenon DEF Types, ClientTypes
<1>2. Tail(toServer[c]) \in Seq(Request) /\ p \in Request
  BY Zenon, <1>1, TailFacts DEF Takes
<1>3. QED BY Zenon, <1>1, <1>2 DEF Takes

\* conn and the transfer's state after a command.
LEMMA XferTypes ==
  ASSUME Types, NEW c \in Clients, NEW p, NEW result \in Results, Executes(c, p, result)
  PROVE  /\ conn' \in {"none", "listening", "open", "eof", "dropped"}
         /\ m_xferSrvr' \in BOOLEAN /\ m_xferSckt' \in {"none", "open", "done"}
         /\ m_xferSize' \in BOOLEAN
<1> USE DEF Types, ClientTypes, ServerTypes
<1>1. CASE DoFlush
  <2>1. conn' \in {conn, "dropped"} /\ m_xferSckt' = "none"
    BY Zenon, <1>1 DEF DoFlush, Dropped
  <2>2. m_xferSrvr' \in BOOLEAN /\ m_xferSize' \in BOOLEAN
    BY Zenon, <1>1 DEF DoFlush
  <2>3. conn' \in {"none", "listening", "open", "eof", "dropped"} /\ m_xferSckt' \in {"none", "open", "done"}
    BY <2>1
  <2>4. QED BY Zenon, <2>2, <2>3
<1>2. CASE DoLoad(result)
  <2>1. conn' \in {conn, "dropped", "listening"} /\ m_xferSckt' \in {"none", m_xferSckt}
    BY Zenon, <1>2 DEF DoLoad, Dropped
  <2>2. m_xferSrvr' \in BOOLEAN /\ m_xferSize' \in BOOLEAN
    BY Zenon, <1>2 DEF DoLoad
  <2>3. conn' \in {"none", "listening", "open", "eof", "dropped"} /\ m_xferSckt' \in {"none", "open", "done"}
    BY <2>1
  <2>4. QED BY Zenon, <2>2, <2>3
<1>3. CASE DoRun(result)
  <2>1. m_xferSckt' \in {"none", "open", "done"}
    BY <1>3 DEF DoRun
  <2>2. QED BY Zenon, <1>3, <2>1 DEF DoRun
<1>4. QED BY Zenon, <1>1, <1>2, <1>3 DEF Executes

LEMMA ReceiveTypes ==
  ASSUME Types, NEW c \in Clients, NEW p, Takes(c, p), Handles(c, p), UNCHANGED devVars
  PROVE  Types'
<1>1. toServer' \in [Clients -> Seq(Request)] /\ p \in Request
  BY Zenon, TakeTypes
<1>2. p.id \in Nat /\ p.tag \in Nat /\ p.val \in Values
  BY <1>1 DEF Request
<1>3. UNCHANGED <<pc, request, m_failed, answer, known>>
  BY Zenon DEF devVars
<1>4. CASE Replays(c, p)
  <2>1. lastCommand.have
    BY Zenon, <1>4 DEF Replays, Fresh
  <2>2. [client |-> c, id |-> lastCommand.id, tag |-> lastCommand.tag, code |-> "OK",
         val |-> lastCommand.val] \in Response
    <3>1. lastCommand \in Last
      BY Zenon, <2>1 DEF Types, ServerTypes
    <3>2. QED BY <3>1 DEF Last, Response
  <2>3. toClient' \in [Clients -> Seq(Response)]
    BY Zenon, <1>4, <2>2, AnswerTypes DEF Replays
  <2>4. UNCHANGED <<conn, running, m_respQueue, m_req, m_resp, simulated, m_xferSrvr, m_xferSckt,
                    m_xferSize, lastCommand, executed, emulated>>
    BY Zenon, <1>4 DEF Replays, simVars, xferVars, cmdVars
  <2>5. QED BY Zenon, <1>1, <1>3, <2>3, <2>4 DEF Types, ClientTypes, ServerTypes
<1>5. CASE Skips(c, p)
  <2>1. UNCHANGED <<toClient, conn, running, m_respQueue, m_req, m_resp, simulated, m_xferSrvr,
                    m_xferSckt, m_xferSize, executed, emulated>>
    BY Zenon, <1>5 DEF Skips, simVars, xferVars
  <2>2. lastCommand.id \in Nat /\ lastCommand.val \in Results
    BY Zenon DEF Types, ServerTypes
  <2>3. lastCommand' \in Last
    BY <1>2, <1>5, <2>2 DEF Skips, Last
  <2>4. lastCommand'.have \in BOOLEAN /\ lastCommand'.val \in Results /\ lastCommand'.id \in Nat
    BY Zenon, <1>5, <2>2 DEF Skips
  <2>5. QED BY Zenon, <1>1, <1>3, <2>1, <2>3, <2>4 DEF Types, ClientTypes, ServerTypes
<1>6. ASSUME NEW result \in Results, Executes(c, p, result) PROVE Types'
  <2>1. [client |-> c, id |-> p.id, tag |-> p.tag, code |-> "OK", val |-> result] \in Response
    BY <1>2 DEF Response
  <2>2. toClient' \in [Clients -> Seq(Response)]
    BY Zenon, <1>6, <2>1, AnswerTypes DEF Executes
  <2>3. /\ lastCommand' \in Last
        /\ lastCommand'.have \in BOOLEAN /\ lastCommand'.val \in Results /\ lastCommand'.id \in Nat
    <3>1. lastCommand' \in Last
      BY <1>2, <1>6 DEF Executes, Last
    <3>2. lastCommand'.have \in BOOLEAN /\ lastCommand'.val \in Results /\ lastCommand'.id \in Nat
      BY Zenon, <1>2, <1>6 DEF Executes
    <3>3. QED BY Zenon, <3>1, <3>2
  <2>4. running \in BOOLEAN /\ <<>> \in Seq(Piece) /\ <<>> \in Seq(Response) /\ Reset \in Values
    BY NetAssumption DEF Types, ServerTypes
  <2>5. /\ m_respQueue' = m_respQueue /\ running' \in BOOLEAN /\ simulated' \in Values
        /\ m_req' \in Seq(Piece) /\ m_resp' \in Seq(Response)
    <3>1. m_req # <<>> => <<Head(m_req)>> \in Seq(Piece)
      BY DEF Types, ServerTypes
    <3>2. QED BY Zenon, <1>6, <2>4, <3>1, CommandEffect DEF Executes, Types, ServerTypes
  <2>6. executed' \subseteq Clients \X Nat
    BY <1>2, <1>6 DEF Executes, Types, ServerTypes
  <2>7. emulated' = emulated
    BY Zenon, <1>6 DEF Executes
  <2>8. /\ conn' \in {"none", "listening", "open", "eof", "dropped"}
        /\ m_xferSrvr' \in BOOLEAN /\ m_xferSckt' \in {"none", "open", "done"} /\ m_xferSize' \in BOOLEAN
    BY Zenon, <1>6, XferTypes
  <2>9. QED BY Zenon, <1>1, <1>3, <2>2, <2>3, <2>5, <2>6, <2>7, <2>8 DEF Types, ClientTypes, ServerTypes
<1>7. CASE Forwards(c, p)
  <2>1. UNCHANGED <<toClient, conn, running, m_resp, simulated, m_xferSrvr, m_xferSckt,
                    m_xferSize, lastCommand, executed, emulated>>
    BY Zenon, <1>7 DEF Forwards, xferVars, cmdVars
  <2>2. [client |-> c, packet |-> p] \in Piece
    BY <1>1 DEF Piece
  <2>3. m_req' \in Seq(Piece) /\ m_respQueue' \in Seq(Clients)
    BY Zenon, <1>7, <2>2, AppendFacts DEF Forwards, Types, ServerTypes
  <2>4. QED BY Zenon, <1>1, <1>3, <2>1, <2>3 DEF Types, ClientTypes, ServerTypes
<1>8. CASE Emulates(c, p)
  <2>1. emulated' \in Values
    BY Zenon, <1>2, <1>8 DEF Emulates, Types, ServerTypes
  <2>2. [client |-> c, id |-> p.id, tag |-> p.tag, code |-> "OK",
         val |-> IF p.kind = "get" THEN emulated' ELSE Reset] \in Response
    BY <1>2, <2>1, NetAssumption DEF Response
  <2>3. toClient' \in [Clients -> Seq(Response)]
    BY Zenon, <1>8, <2>2, AnswerTypes DEF Emulates
  <2>4. UNCHANGED <<conn, running, m_respQueue, m_req, m_resp, simulated, m_xferSrvr, m_xferSckt,
                    m_xferSize, lastCommand, executed>>
    BY Zenon, <1>8 DEF Emulates, simVars, xferVars, cmdVars
  <2>5. QED BY Zenon, <1>1, <1>3, <2>1, <2>3, <2>4 DEF Types, ClientTypes, ServerTypes
<1>9. QED BY Zenon, <1>4, <1>5, <1>6, <1>7, <1>8 DEF Handles

LEMMA ResponseTypes ==
  ASSUME Types, DoResponse, UNCHANGED devVars
  PROVE  Types'
<1>1. /\ m_resp # <<>> /\ m_resp' = Tail(m_resp) /\ m_resp \in Seq(Response) /\ m_respQueue \in Seq(Clients)
      /\ UNCHANGED <<toServer, conn, running, emulated, m_req, simulated, m_xferSrvr, m_xferSckt,
                     m_xferSize, lastCommand, executed, pc, request, m_failed, answer, known>>
  BY Zenon DEF DoResponse, devVars, xferVars, cmdVars, Types, ServerTypes
<1>2. m_resp' \in Seq(Response) /\ Head(m_resp) \in Response
  BY Zenon, <1>1, TailFacts
<1>3. m_respQueue' \in Seq(Clients) /\ toClient' \in [Clients -> Seq(Response)]
  <2>1. CASE m_respQueue = <<>>
    BY Zenon, <2>1 DEF DoResponse, Types, ClientTypes, ServerTypes
  <2>2. CASE m_respQueue # <<>>
    <3>1. m_respQueue[Len(m_respQueue)] \in Clients
      BY <1>1, <2>2
    <3>2. m_respQueue' \in Seq(Clients)
      BY Zenon, <1>1, <2>2, TailFacts DEF DoResponse
    <3>3. Answers(m_respQueue[Len(m_respQueue)], Head(m_resp))
      BY Zenon, <2>2 DEF DoResponse, SendResponse, Answers
    <3>4. QED BY Zenon, <1>2, <3>1, <3>2, <3>3, AnswerTypes
  <2>3. QED BY Zenon, <2>1, <2>2
<1>4. QED BY Zenon, <1>1, <1>2, <1>3 DEF Types, ClientTypes, ServerTypes

LEMMA SimulateTypes ==
  ASSUME Types, Simulate, UNCHANGED devVars
  PROVE  Types'
<1>1. /\ m_req # <<>> /\ m_req' = Tail(m_req) /\ m_req \in Seq(Piece) /\ m_resp \in Seq(Response)
      /\ UNCHANGED <<toServer, toClient, conn, running, emulated, m_respQueue, m_xferSrvr, m_xferSckt,
                     m_xferSize, lastCommand, executed, pc, request, m_failed, answer, known>>
  BY Zenon DEF Simulate, devVars, xferVars, cmdVars, Types, ServerTypes
<1>2. m_req' \in Seq(Piece) /\ Head(m_req) \in Piece
  BY Zenon, <1>1, TailFacts
<1> DEFINE p == Head(m_req).packet
<1>3. p \in Request /\ Head(m_req).client \in Clients /\ simulated \in Values
  BY <1>2 DEF Piece, Types, ServerTypes
<1>4. PICK code \in {"OK", "ERROR"} :
        /\ simulated' \in {IF p.kind = "set" THEN p.val ELSE simulated, simulated}
        /\ m_resp' = Append(m_resp, [client |-> Head(m_req).client, id |-> p.id, tag |-> p.tag, code |-> code,
                                     val |-> IF p.kind = "get" THEN simulated' ELSE Reset])
  BY Zenon DEF Simulate
<1> HIDE DEF p
<1>5. p.id \in Nat /\ p.tag \in Nat /\ p.val \in Values
  BY <1>3 DEF Request
<1>6. simulated' \in Values
  BY Zenon, <1>3, <1>4, <1>5
<1>7. [client |-> Head(m_req).client, id |-> p.id, tag |-> p.tag, code |-> code,
       val |-> IF p.kind = "get" THEN simulated' ELSE Reset] \in Response
  BY <1>3, <1>5, <1>6, NetAssumption DEF Response
<1>8. m_resp' \in Seq(Response)
  BY Zenon, <1>1, <1>4, <1>7, AppendFacts
<1>9. QED BY Zenon, <1>1, <1>2, <1>6, <1>8 DEF Types, ClientTypes, ServerTypes

LEMMA XferStepTypes ==
  ASSUME Types, Accept \/ DoXfer, UNCHANGED devVars
  PROVE  Types'
<1>1. UNCHANGED <<toServer, toClient, running, emulated, m_respQueue, m_req, m_resp, simulated,
                  m_xferSize, lastCommand, executed, pc, request, m_failed, answer, known>>
  BY Zenon DEF Accept, DoXfer, devVars, simVars, cmdVars
<1>2. conn' \in {conn, "dropped", "eof"} /\ m_xferSckt' \in {m_xferSckt, "none", "open", "done"}
  BY Zenon DEF Accept, DoXfer
<1>3. m_xferSrvr' \in BOOLEAN
  BY Zenon DEF Accept, DoXfer, Types, ServerTypes
<1>4. conn' \in {"none", "listening", "open", "eof", "dropped"} /\ m_xferSckt' \in {"none", "open", "done"}
  BY <1>2 DEF Types, ClientTypes, ServerTypes
<1>5. QED BY Zenon, <1>1, <1>3, <1>4 DEF Types, ClientTypes, ServerTypes

LEMMA TypesStep ==
  ASSUME Types, [Next]_vars
  PROVE  Types'
<1>1. ASSUME NEW c \in Clients, DeviceNext(c), UNCHANGED serverVars PROVE Types'
  <2>1. ClientTypes'
    BY Zenon, <1>1, ClientTypesStep
  <2>2. UNCHANGED <<running, lastCommand, m_respQueue, m_req, m_resp, emulated, simulated, m_xferSrvr,
                    m_xferSckt, m_xferSize, executed>>
    BY Zenon, <1>1 DEF serverVars, simVars, xferVars, cmdVars
  <2>3. QED BY Zenon, <2>1, <2>2 DEF Types, ServerTypes
<1>2. ASSUME NEW c \in Clients, ReceiveExt(c), UNCHANGED devVars PROVE Types'
  BY Zenon, <1>2, ServerCases, ReceiveTypes
<1>3. CASE UNCHANGED vars
  <2>1. UNCHANGED <<running, lastCommand, m_respQueue, m_req, m_resp, emulated, simulated, m_xferSrvr,
                    m_xferSckt, m_xferSize, executed>>
    BY Zenon, <1>3 DEF vars, serverVars, simVars, xferVars, cmdVars
  <2>2. UNCHANGED <<toServer, toClient, conn, pc, request, m_failed, answer, known>>
    BY Zenon, <1>3 DEF vars, netVars, devVars
  <2>3. QED BY Zenon, <2>1, <2>2 DEF Types, ServerTypes, ClientTypes
<1>4. QED
  BY Zenon, <1>1, <1>2, <1>3, ResponseTypes, SimulateTypes, XferStepTypes DEF Next, ServerNext

LEMMA TypesInit ==
  ASSUME Init
  PROVE  Types
<1>1. ClientTypes
  <2>1. Reset \in Values /\ <<>> \in Seq(Request) /\ <<>> \in Seq(Response) /\ "get" \in Kinds
    BY NetAssumption DEF Kinds
  <2>2. [id |-> 0, tag |-> 0, kind |-> "get", val |-> Reset] \in Request
    BY <2>1 DEF Request
  <2>3. /\ toServer = [c \in Clients |-> <<>>] /\ toClient = [c \in Clients |-> <<>>] /\ conn = "none"
        /\ pc = [c \in Clients |-> "idle"] /\ m_failed = [c \in Clients |-> FALSE]
        /\ request = [c \in Clients |-> [id |-> 0, tag |-> 0, kind |-> "get", val |-> Reset]]
        /\ answer = [c \in Clients |-> NoAnswer] /\ known = [c \in Clients |-> {Reset}]
    BY Zenon DEF Init, DeviceInit
  <2>4. m_failed \in [Clients -> BOOLEAN] /\ toServer \in [Clients -> Seq(Request)] /\ toClient \in [Clients -> Seq(Response)]
        /\ request \in [Clients -> Request] /\ answer \in [Clients -> Response \cup {NoAnswer}]
    BY Zenon, <2>1, <2>2, <2>3
  <2>5. pc \in [Clients -> {"idle", "receiving", "transfer", "sent"}] /\ conn \in {"none", "listening", "open", "eof", "dropped"}
        /\ known \in [Clients -> SUBSET (Values \cup Results)]
    BY <2>1, <2>3
  <2>6. QED BY Zenon, <2>4, <2>5 DEF ClientTypes
<1>2. ServerTypes
  <2>1. running \in BOOLEAN /\ lastCommand.have = FALSE /\ m_xferSrvr \in BOOLEAN /\ m_xferSize \in BOOLEAN
        /\ lastCommand.have \in BOOLEAN /\ lastCommand.val = "O" /\ lastCommand.id = 0
    BY Zenon DEF Init, ServerInit
  <2>2. lastCommand.val \in Results /\ lastCommand.id \in Nat
    BY <2>1 DEF Results
  <2>3. m_respQueue \in Seq(Clients) /\ m_req \in Seq(Piece) /\ m_resp \in Seq(Response)
        /\ emulated \in Values /\ simulated \in Values /\ m_xferSckt \in {"none", "open", "done"}
        /\ executed \subseteq Clients \X Nat
    BY NetAssumption DEF Init, ServerInit
  <2>4. QED BY Zenon, <2>1, <2>2, <2>3 DEF ServerTypes
<1>3. QED BY Zenon, <1>1, <1>2 DEF Types

LEMMA TypesHold == Spec => []Types
<1>1. Init => Types
  BY Zenon, TypesInit
<1>2. Types /\ [Next]_vars => Types'
  BY Zenon, TypesStep
<1>3. QED BY <1>1, <1>2, PTL DEF Spec

LEMMA RequesterStep ==
  ASSUME Types, RequesterKnown, [Next]_vars
  PROVE  RequesterKnown'
<1>1. m_respQueue \in Seq(Clients) /\ m_req \in Seq(Piece) /\ m_resp \in Seq(Response) /\ running \in BOOLEAN
  BY Zenon DEF Types, ServerTypes
<1>2. Len(m_respQueue) \in Nat /\ Len(m_req) \in Nat /\ Len(m_resp) \in Nat
  BY <1>1
<1>3. ASSUME UNCHANGED <<m_respQueue, m_req, m_resp>> PROVE RequesterKnown'
  BY Zenon, <1>3 DEF RequesterKnown
<1>4. ASSUME NEW c \in Clients, NEW p, Takes(c, p), Handles(c, p) PROVE RequesterKnown'
  <2>1. CASE Replays(c, p) \/ Skips(c, p) \/ Emulates(c, p)
    BY Zenon, <1>3, <2>1 DEF Replays, Skips, Emulates, simVars
  <2>2. ASSUME NEW result \in Results, Executes(c, p, result) PROVE RequesterKnown'
    <3>1. /\ m_respQueue' = m_respQueue
          /\ \/ m_req' = <<>> /\ m_resp' = <<>>
             \/ m_req' = <<Head(m_req)>> /\ m_resp' = <<>> /\ m_req # <<>>
             \/ UNCHANGED <<m_req, m_resp>>
      BY Zenon, <1>1, <2>2, CommandEffect DEF Executes
    <3>2. CASE m_req' = <<>> /\ m_resp' = <<>>
      BY <1>2, <3>1, <3>2 DEF RequesterKnown
    <3>3. CASE m_req' = <<Head(m_req)>> /\ m_resp' = <<>> /\ m_req # <<>>
      <4>1. Len(m_req') = 1 /\ Len(m_req) > 0
        BY <1>1, <3>3
      <4>2. QED BY <1>2, <3>1, <3>3, <4>1 DEF RequesterKnown
    <3>4. QED BY Zenon, <1>3, <3>1, <3>2, <3>3
  <2>3. CASE Forwards(c, p)
    <3>1. p \in Request
      BY Zenon, <1>4, TakeTypes
    <3>2. [client |-> c, packet |-> p] \in Piece
      BY <3>1 DEF Piece
    <3>3. Len(m_req') = Len(m_req) + 1 /\ Len(m_respQueue') = Len(m_respQueue) + 1 /\ m_resp' = m_resp
      BY Zenon, <1>1, <2>3, <3>2, AppendFacts DEF Forwards
    <3>4. QED BY <1>2, <3>3 DEF RequesterKnown
  <2>4. QED BY Zenon, <1>4, <2>1, <2>2, <2>3 DEF Handles
<1>5. CASE DoResponse
  <2>1. m_resp # <<>> /\ m_resp' = Tail(m_resp) /\ m_req' = m_req
    BY Zenon, <1>5 DEF DoResponse
  <2>2. Len(m_resp) = Len(m_resp') + 1 /\ Len(m_resp') \in Nat
    BY Zenon, <1>1, <2>1, TailFacts
  <2>3. m_respQueue # <<>>
    BY <1>2, <2>2 DEF RequesterKnown
  <2>4. m_respQueue' = Tail(m_respQueue)
    BY Zenon, <1>5, <2>3 DEF DoResponse
  <2>5. Len(m_respQueue) = Len(m_respQueue') + 1 /\ Len(m_respQueue') \in Nat
    BY Zenon, <1>1, <2>3, <2>4, TailFacts
  <2>6. QED BY <1>2, <2>1, <2>2, <2>5 DEF RequesterKnown
<1>6. CASE Simulate
  <2>1. m_req # <<>> /\ m_req' = Tail(m_req) /\ m_respQueue' = m_respQueue
        /\ \E x : m_resp' = Append(m_resp, x)
    BY Zenon, <1>6 DEF Simulate
  <2>2. Len(m_req) = Len(m_req') + 1 /\ Len(m_req') \in Nat
    BY Zenon, <1>1, <2>1, TailFacts
  <2>3. Len(m_resp') = Len(m_resp) + 1
    BY <1>1, <2>1
  <2>4. QED BY <1>2, <2>1, <2>2, <2>3 DEF RequesterKnown
<1>7. CASE Accept \/ DoXfer \/ UNCHANGED serverVars
  BY Zenon, <1>3, <1>7 DEF Accept, DoXfer, serverVars, simVars
<1>8. UNCHANGED vars => UNCHANGED serverVars
  BY Zenon DEF vars
<1>9. QED
  BY Zenon, <1>4, <1>5, <1>6, <1>7, <1>8, ServerCases DEF Next, ServerNext

\* For any number of clients, the server never ends because a response of the
\* simulator finds no requester: flush empties both pipes, but for a request
\* the simulator has in hand, and keeps the queue of requesters, so that the
\* queue is never the shorter one.
THEOREM RequesterAlwaysKnown == Spec => []RequesterKnown
<1>1. Init => RequesterKnown
  <2>1. Init => Len(m_respQueue) = 0 /\ Len(m_req) = 0 /\ Len(m_resp) = 0
    BY DEF Init, ServerInit
  <2>2. QED BY <2>1 DEF RequesterKnown
<1>2. Types /\ RequesterKnown /\ [Next]_vars => RequesterKnown'
  BY Zenon, RequesterStep
<1>3. QED BY <1>1, <1>2, TypesHold, PTL DEF Spec

-----------------------------------------------------------------------------
(* One client: its packets on the way, and the commands that were executed. *)

Rising(s) == \A i, j \in 1 .. Len(s) : i <= j => s[i].id <= s[j].id
Done(c, p) == <<c, p.id>> \in executed

\* The packets that are on their way, and the one that may be sent again.
OnWay(c) == Elems(toServer[c])
Future(c) == OnWay(c) \cup {request[c]}

\* Packets arrive in the order of their requests, and equal numbers mean
\* equal packets.  A command that was executed and may arrive again is the
\* last one that was executed, and the server knows its tag.
Sending(c) ==
  /\ Rising(toServer[c])
  /\ \A p \in OnWay(c) : p.id \in 1 .. request[c].id
  /\ \A p, q \in Future(c) : p.id = q.id => p = q
  /\ \A p \in Future(c) : \A e \in executed : e[2] <= p.id
  /\ \A p \in Future(c) : Done(c, p) => ~ Fresh(c, p)

SendInv == repeated = {} /\ \A c \in Clients : Sending(c)

LEMMA RisingAppend ==
  ASSUME NEW s \in Seq(Request), Rising(s), NEW r \in Request, \A p \in Elems(s) : p.id <= r.id
  PROVE  Rising(Append(s, r))
<1>1. \A p \in Request : p.id \in Nat
  BY DEF Request
<1>2. /\ Len(Append(s, r)) = Len(s) + 1 /\ Len(s) \in Nat /\ Append(s, r)[Len(s) + 1] = r
      /\ \A i \in 1 .. Len(s) : Append(s, r)[i] = s[i] /\ s[i] \in Request
  OBVIOUS
<1> SUFFICES ASSUME NEW i \in 1 .. Len(Append(s, r)), NEW j \in 1 .. Len(Append(s, r)), i <= j
             PROVE  Append(s, r)[i].id <= Append(s, r)[j].id
  BY Zenon DEF Rising
<1>3. CASE j \in 1 .. Len(s)
  <2>1. i \in 1 .. Len(s)
    BY <1>2, <1>3
  <2>2. QED BY Zenon, <1>2, <1>3, <2>1 DEF Rising
<1>4. CASE j = Len(s) + 1
  <2>1. CASE i \in 1 .. Len(s)
    BY Zenon, <1>2, <1>4, <2>1 DEF Elems
  <2>2. CASE i = Len(s) + 1
    BY <1>1, <1>2, <1>4, <2>2
  <2>3. QED BY <1>2, <2>1, <2>2
<1>5. QED BY <1>2, <1>3, <1>4

LEMMA RisingTail ==
  ASSUME NEW s \in Seq(Request), Rising(s), s # <<>>
  PROVE  Rising(Tail(s)) /\ \A p \in Elems(s) : Head(s).id <= p.id
<1>1. /\ Len(s) = Len(Tail(s)) + 1 /\ Len(Tail(s)) \in Nat /\ Head(s) = s[1] /\ 1 \in 1 .. Len(s)
      /\ \A i \in 1 .. Len(Tail(s)) : Tail(s)[i] = s[i + 1] /\ i + 1 \in 1 .. Len(s)
      /\ \A i \in 1 .. Len(s) : 1 <= i
  OBVIOUS
<1>2. \A p \in Elems(s) : Head(s).id <= p.id
  BY Zenon, <1>1 DEF Elems, Rising
<1>3. ASSUME NEW i \in 1 .. Len(Tail(s)), NEW j \in 1 .. Len(Tail(s)), i <= j
      PROVE  Tail(s)[i].id <= Tail(s)[j].id
  <2>1. i + 1 <= j + 1
    BY <1>3
  <2>2. QED BY Zenon, <1>1, <2>1 DEF Rising
<1>4. QED BY Zenon, <1>2, <1>3 DEF Rising

\* The packets on the way after request has sent one, or failed to.
LEMMA AttemptMoves ==
  ASSUME Types, NEW c \in Clients, NEW r \in Request, NEW k, Attempt(c, r, k),
         Rising(toServer[c]), \A p \in OnWay(c) : p.id <= r.id
  PROVE  /\ OnWay(c)' \subseteq OnWay(c) \cup {r} /\ OnWay(c) \subseteq OnWay(c)'
         /\ Rising(toServer[c])'
<1>1. toServer \in [Clients -> Seq(Request)]
  BY Zenon DEF Types, ClientTypes
<1>2. toServer' = toServer \/ toServer' = [toServer EXCEPT ![c] = Append(@, r)]
  BY Zenon DEF Attempt, SendRequest
<1>3. CASE toServer' = toServer
  BY Zenon, <1>3 DEF OnWay
<1>4. CASE toServer' = [toServer EXCEPT ![c] = Append(@, r)]
  <2>1. toServer'[c] = Append(toServer[c], r) /\ toServer[c] \in Seq(Request)
    BY Zenon, <1>1, <1>4
  <2>2. Elems(Append(toServer[c], r)) = OnWay(c) \cup {r} /\ Rising(Append(toServer[c], r))
    <3>1. Elems(Append(toServer[c], r)) = Elems(toServer[c]) \cup {r}
      BY <2>1, AppendFacts
    <3>2. \A p \in Elems(toServer[c]) : p.id <= r.id
      BY Zenon DEF OnWay
    <3>3. Rising(Append(toServer[c], r))
      BY Zenon, <2>1, <3>2, RisingAppend
    <3>4. QED BY Zenon, <3>1, <3>3 DEF OnWay
  <2>3. OnWay(c)' = OnWay(c) \cup {r} /\ Rising(toServer[c])'
    BY Zenon, <2>1, <2>2 DEF OnWay
  <2>4. QED BY Zenon, <2>3
<1>5. QED BY Zenon, <1>2, <1>3, <1>4

\* A new request has a number that no packet has.
IsNew(c, r) ==
  /\ r \in Request /\ r.id = request[c].id + 1 /\ r.id \in Nat
  /\ \A p \in Future(c) : p \in Request /\ p.id <= request[c].id /\ p.id <= r.id /\ p.id # r.id
  /\ \A e \in executed : e[2] <= r.id /\ e[2] # r.id

LEMMA NewNumber ==
  ASSUME Types, NEW c \in Clients, NEW kind \in Kinds, NEW v \in Values, Sending(c)
  PROVE  IsNew(c, NewRequest(c, kind, v))
<1>1. request[c] \in Request /\ request[c].id \in Nat /\ toServer[c] \in Seq(Request)
  <2>1. request[c] \in Request /\ toServer[c] \in Seq(Request)
    BY Zenon DEF Types, ClientTypes
  <2>2. QED BY Zenon, <2>1 DEF Request
<1>2. \A p \in OnWay(c) : p \in Request
  BY <1>1 DEF OnWay, Elems
<1>3. \A p \in Future(c) : p \in Request /\ p.id \in Nat
  BY Zenon, <1>1, <1>2 DEF Future, Request
<1> DEFINE r == NewRequest(c, kind, v)
<1>4. r \in Request /\ r.id = request[c].id + 1
  BY Zenon, NewType DEF NewRequest
<1>5. r.id \in Nat
  BY <1>1, <1>4
<1> HIDE DEF r
<1>6. \A p \in Future(c) : p.id <= request[c].id
  BY <1>1 DEF Sending, Future
<1>7. \A p \in Future(c) : p.id <= r.id /\ p.id # r.id
  BY <1>1, <1>3, <1>4, <1>6
<1>8. \A e \in executed : e[2] \in Nat /\ e[2] <= request[c].id
  BY DEF Types, ServerTypes, Sending, Future
<1>9. \A e \in executed : e[2] <= r.id /\ e[2] # r.id
  BY <1>1, <1>4, <1>8
<1>10. IsNew(c, r)
  BY Zenon, <1>3, <1>4, <1>5, <1>6, <1>7, <1>9 DEF IsNew
<1>11. QED BY Zenon, <1>10 DEF r

LEMMA SendingStarts ==
  ASSUME Types, NEW c \in Clients, Sending(c), UNCHANGED serverVars, Starts(c)
  PROVE  Sending(c)'
<1>1. PICK kind \in Kinds, v \in Values : Begin(c, kind, v)
  BY Zenon DEF Starts
<1> DEFINE r == NewRequest(c, kind, v)
<1>2. /\ r \in Request /\ r.id = request[c].id + 1 /\ r.id \in Nat
      /\ \A p \in Future(c) : p \in Request /\ p.id <= request[c].id /\ p.id <= r.id /\ p.id # r.id
      /\ \A e \in executed : e[2] <= r.id /\ e[2] # r.id
  BY Zenon, NewNumber DEF IsNew
<1>3. request \in [Clients -> Request] /\ request' = [request EXCEPT ![c] = r] /\ Attempt(c, r, 0)
  BY Zenon, <1>1 DEF Begin, NewRequest, Types, ClientTypes
<1>4. request'[c] = r
  BY Zenon, <1>3
<1> HIDE DEF r
<1>5. \A p \in OnWay(c) : p \in Future(c)
  BY Zenon DEF Future
<1>6. OnWay(c)' \subseteq OnWay(c) \cup {r} /\ Rising(toServer[c])'
  BY Zenon, <1>2, <1>3, <1>5, AttemptMoves DEF Sending
<1>7. \A p \in Future(c)' : p \in OnWay(c) \/ p = r
  BY Zenon, <1>4, <1>6 DEF Future
<1>8. executed' = executed /\ lastCommand' = lastCommand
  BY Zenon DEF serverVars, cmdVars
<1>9. \A p \in OnWay(c)' : p.id \in 1 .. request'[c].id
  <2>1. request[c].id \in Nat /\ \A p \in OnWay(c) : p.id \in 1 .. request[c].id
    BY <1>2, <1>3 DEF Sending, Request
  <2>2. r.id \in 1 .. r.id /\ \A p \in OnWay(c) : p.id \in 1 .. r.id
    BY <1>2, <2>1
  <2>3. QED BY Zenon, <1>4, <1>6, <2>2
<1>10. \A p, q \in Future(c)' : p.id = q.id => p = q
  BY Zenon, <1>2, <1>5, <1>7 DEF Sending
<1>11. \A p \in Future(c)' : \A e \in executed' : e[2] <= p.id
  BY Zenon, <1>2, <1>5, <1>7, <1>8 DEF Sending
<1>12. \A p \in Future(c)' : Done(c, p)' => ~ Fresh(c, p)'
  <2> SUFFICES ASSUME NEW p \in Future(c)', <<c, p.id>> \in executed PROVE ~ Fresh(c, p)
    BY Zenon, <1>8 DEF Done, Fresh
  <2>1. p # r
    <3>1. <<c, p.id>>[2] = p.id
      OBVIOUS
    <3>2. QED BY Zenon, <1>2, <3>1
  <2>2. QED BY Zenon, <1>5, <1>7, <2>1 DEF Sending, Done
<1>13. QED BY Zenon, <1>6, <1>9, <1>10, <1>11, <1>12 DEF Sending

LEMMA SendingRetries ==
  ASSUME Types, NEW c \in Clients, Sending(c), UNCHANGED serverVars, Retries(c), request[c].id # 0
  PROVE  Sending(c)'
<1>1. request[c] \in Request /\ request'[c] = request[c] /\ Attempt(c, request[c], n[c])
  BY Zenon DEF Retries, Types, ClientTypes
<1>2. request[c].id \in Nat /\ \A p \in OnWay(c) : p.id <= request[c].id
  BY <1>1 DEF Request, Sending
<1>3. OnWay(c)' \subseteq Future(c) /\ Rising(toServer[c])'
  BY Zenon, <1>1, <1>2, AttemptMoves DEF Sending, Future
<1>4. \A p \in Future(c)' : p \in Future(c)
  BY Zenon, <1>1, <1>3 DEF Future
<1>5. executed' = executed /\ lastCommand' = lastCommand
  BY Zenon DEF serverVars, cmdVars
<1>6. \A p \in OnWay(c)' : p.id \in 1 .. request'[c].id
  <2>1. request[c].id \in 1 .. request[c].id
    BY <1>2
  <2>2. QED BY Zenon, <1>1, <1>3, <2>1 DEF Future, Sending
<1>7. \A p \in Future(c)' : Done(c, p)' => ~ Fresh(c, p)'
  BY Zenon, <1>4, <1>5 DEF Done, Fresh, Sending
<1>8. \A p \in Future(c)' : \A e \in executed' : e[2] <= p.id
  BY Zenon, <1>4, <1>5 DEF Sending
<1>9. QED BY Zenon, <1>3, <1>4, <1>6, <1>7, <1>8 DEF Sending

\* A packet that arrives: those behind it have numbers that are no smaller.
LEMMA Arrives ==
  ASSUME Types, NEW c \in Clients, Sending(c), UNCHANGED devVars, NEW p, Takes(c, p)
  PROVE  /\ p \in OnWay(c) /\ p \in Request /\ p.id \in Nat /\ Rising(toServer[c])'
         /\ OnWay(c)' \subseteq OnWay(c) /\ Future(c)' \subseteq Future(c)
         /\ \A q \in Future(c) : p.id <= q.id
         /\ request' = request
<1>1. toServer \in [Clients -> Seq(Request)] /\ request' = request
  BY Zenon DEF Types, ClientTypes, devVars
<1>2. toServer[c] \in Seq(Request) /\ toServer[c] # <<>> /\ p = Head(toServer[c]) /\ toServer'[c] = Tail(toServer[c])
  BY Zenon, <1>1 DEF Takes
<1>3. p \in Request /\ p \in Elems(toServer[c]) /\ Elems(Tail(toServer[c])) \subseteq Elems(toServer[c])
  BY Zenon, <1>2, TailFacts
<1>4. Rising(Tail(toServer[c])) /\ \A q \in Elems(toServer[c]) : p.id <= q.id
  BY Zenon, <1>2, RisingTail DEF Sending
<1>5. p.id \in Nat
  BY <1>3 DEF Request
<1>6. p.id <= request[c].id
  <2>1. p.id \in 1 .. request[c].id
    BY Zenon, <1>3 DEF Sending, OnWay
  <2>2. QED BY <2>1
<1>7. OnWay(c)' \subseteq OnWay(c)
  BY Zenon, <1>2, <1>3 DEF OnWay
<1>8. \A q \in Future(c) : p.id <= q.id
  BY Zenon, <1>4, <1>6 DEF Future, OnWay
<1>9. QED BY Zenon, <1>1, <1>2, <1>3, <1>4, <1>5, <1>7, <1>8 DEF OnWay, Future

LEMMA SendingHandles ==
  ASSUME Types, NEW c \in Clients, Sending(c), repeated = {}, UNCHANGED devVars,
         NEW p, Takes(c, p), Handles(c, p)
  PROVE  Sending(c)' /\ repeated' = {}
<1>1. /\ p \in OnWay(c) /\ p \in Request /\ p.id \in Nat /\ Rising(toServer[c])'
      /\ OnWay(c)' \subseteq OnWay(c) /\ Future(c)' \subseteq Future(c)
      /\ \A q \in Future(c) : p.id <= q.id
      /\ request' = request
  BY Zenon, Arrives
<1>2. \A q \in Future(c) : q.id \in Nat
  <2>1. request[c] \in Request /\ toServer[c] \in Seq(Request)
    BY Zenon DEF Types, ClientTypes
  <2>2. \A q \in OnWay(c) : q \in Request
    BY <2>1 DEF OnWay, Elems
  <2>3. QED BY Zenon, <2>1, <2>2 DEF Future, Request
<1>3. p \in Future(c)
  BY Zenon, <1>1 DEF Future
<1>4. ASSUME NEW q \in Future(c), <<c, q.id>> \in executed PROVE q = p
  <2>1. <<c, q.id>>[2] = q.id
    OBVIOUS
  <2>2. q.id <= p.id /\ p.id <= q.id
    BY Zenon, <1>1, <1>3, <1>4, <2>1 DEF Sending
  <2>3. q.id = p.id
    BY <1>1, <1>2, <2>2
  <2>4. QED BY Zenon, <1>3, <2>3 DEF Sending
<1>5. /\ Rising(toServer[c])'
      /\ \A q \in OnWay(c)' : q.id \in 1 .. request'[c].id
      /\ \A q, t \in Future(c)' : q.id = t.id => q = t
  BY Zenon, <1>1 DEF Sending
<1>6. CASE UNCHANGED cmdVars
  <2>1. executed' = executed /\ lastCommand' = lastCommand /\ repeated' = {}
    BY Zenon, <1>6 DEF cmdVars
  <2>2. \A q \in Future(c)' : Done(c, q)' => ~ Fresh(c, q)'
    BY Zenon, <1>1, <2>1 DEF Done, Fresh, Sending
  <2>3. \A q \in Future(c)' : \A e \in executed' : e[2] <= q.id
    BY Zenon, <1>1, <2>1 DEF Sending
  <2>4. QED BY Zenon, <1>5, <2>1, <2>2, <2>3 DEF Sending
<1>7. CASE /\ lastCommand'.have /\ lastCommand'.client = c /\ lastCommand'.tag = p.tag
           /\ Fresh(c, p)
           /\ executed' = executed \/ executed' = executed \cup {<<c, p.id>>}
           /\ repeated' = repeated \/ repeated' = repeated \cup ({<<c, p.id>>} \cap executed)
  <2>1. <<c, p.id>> \notin executed
    BY Zenon, <1>3, <1>7 DEF Sending, Done
  <2>2. repeated' = {}
    BY <1>7, <2>1
  <2>3. ASSUME NEW q \in Future(c)', <<c, q.id>> \in executed' PROVE q = p
    <3>1. q \in Future(c)
      BY Zenon, <1>1
    <3>2. <<c, q.id>> \in executed \/ <<c, q.id>> = <<c, p.id>>
      BY Zenon, <1>7, <2>3
    <3>3. <<c, q.id>> = <<c, p.id>> => q.id = p.id
      OBVIOUS
    <3>4. QED BY Zenon, <1>3, <1>4, <3>1, <3>2, <3>3 DEF Sending
  <2>4. \A q \in Future(c)' : Done(c, q)' => ~ Fresh(c, q)'
    BY Zenon, <1>7, <2>3 DEF Done, Fresh
  <2>5. ASSUME NEW q \in Future(c)', NEW e \in executed' PROVE e[2] <= q.id
    <3>1. <<c, p.id>>[2] = p.id
      OBVIOUS
    <3>2. CASE e \in executed
      BY Zenon, <1>1, <3>2 DEF Sending
    <3>3. CASE e = <<c, p.id>>
      BY Zenon, <1>1, <3>1, <3>3
    <3>4. QED BY Zenon, <1>7, <3>2, <3>3
  <2>6. QED BY Zenon, <1>5, <2>2, <2>4, <2>5 DEF Sending
<1>8. CASE Replays(c, p) \/ Forwards(c, p) \/ Emulates(c, p)
  BY Zenon, <1>6, <1>8 DEF Replays, Forwards, Emulates
<1>9. CASE Skips(c, p)
  BY Zenon, <1>7, <1>9 DEF Skips
<1>10. ASSUME NEW result \in Results, Executes(c, p, result) PROVE Sending(c)' /\ repeated' = {}
  BY Zenon, <1>7, <1>10 DEF Executes
<1>11. QED BY Zenon, <1>8, <1>9, <1>10 DEF Handles

LEMMA SendingSame ==
  ASSUME NEW c \in Clients, Sending(c), UNCHANGED <<toServer, request, executed, lastCommand>>
  PROVE  Sending(c)'
<1>1. OnWay(c)' = OnWay(c) /\ Future(c)' = Future(c)
  BY Zenon DEF OnWay, Future
<1>2. \A p : (Done(c, p)' <=> Done(c, p)) /\ (Fresh(c, p)' <=> Fresh(c, p))
  BY Zenon DEF Done, Fresh
<1>3. QED BY Zenon, <1>1, <1>2 DEF Sending

OneClient == \A c, d \in Clients : c = d

\* A request that waits has a number.
Waiting == \A c \in Clients : pc[c] = "receiving" => request[c].id # 0

LEMMA WaitingStep ==
  ASSUME Types, Waiting, [Next]_vars
  PROVE  Waiting'
<1>1. ASSUME NEW c \in Clients, DeviceNext(c) PROVE Waiting'
  <2>1. pc \in [Clients -> {"idle", "receiving", "transfer", "sent"}] /\ request \in [Clients -> Request]
    BY Zenon DEF Types, ClientTypes
  <2>2. CASE Starts(c)
    <3>1. PICK kind \in Kinds, v \in Values : Begin(c, kind, v)
      BY Zenon, <2>2 DEF Starts
    <3>2. request' = [request EXCEPT ![c] = NewRequest(c, kind, v)] /\ (\E x : pc' = [pc EXCEPT ![c] = x])
      BY Zenon, <3>1 DEF Begin, NewRequest, Attempt
    <3>3. request'[c].id = request[c].id + 1 /\ request[c].id \in Nat
      <4>1. request[c] \in Request /\ request'[c] = NewRequest(c, kind, v)
        BY Zenon, <2>1, <3>2
      <4>2. request[c].id \in Nat
        BY <4>1 DEF Request
      <4>3. NewRequest(c, kind, v).id = request[c].id + 1
        BY Zenon DEF NewRequest
      <4>4. QED BY Zenon, <4>1, <4>2, <4>3
    <3>4. request'[c].id # 0
      BY <3>3
    <3>5. \A d \in Clients \ {c} : request'[d] = request[d] /\ pc'[d] = pc[d]
      BY Zenon, <2>1, <3>2
    <3>6. QED BY Zenon, <3>4, <3>5 DEF Waiting
  <2>3. CASE Retries(c)
    <3>1. request' = request /\ pc[c] = "receiving" /\ (\E x : pc' = [pc EXCEPT ![c] = x])
      BY Zenon, <2>3 DEF Retries, Attempt
    <3>2. QED BY Zenon, <2>1, <3>1 DEF Waiting
  <2>4. CASE Ignores(c)
    BY Zenon, <2>4 DEF Ignores, Waiting
  <2>5. CASE Accepts(c) \/ SendFile(c) \/ Throws(c)
    <3>1. request' = request /\ \E x \in {"idle", "transfer", "sent"} : pc' = [pc EXCEPT ![c] = x]
      BY Zenon, <2>5 DEF Accepts, SendFile, Throws, Return
    <3>2. PICK x \in {"idle", "transfer", "sent"} : pc' = [pc EXCEPT ![c] = x]
      BY Zenon, <3>1
    <3>3. x # "receiving"
      OBVIOUS
    <3>4. QED BY Zenon, <2>1, <3>1, <3>2, <3>3 DEF Waiting
  <2>6. QED BY Zenon, <1>1, <2>2, <2>3, <2>4, <2>5, DeviceCases
<1>2. CASE UNCHANGED devVars
  BY Zenon, <1>2 DEF devVars, Waiting
<1>3. QED BY Zenon, <1>1, <1>2 DEF Next, vars

LEMMA SendStep ==
  ASSUME OneClient, Types, Waiting, SendInv, [Next]_vars
  PROVE  SendInv'
<1>1. ASSUME NEW c \in Clients, Sending(c)', repeated' = {} PROVE SendInv'
  BY Zenon, <1>1 DEF SendInv, OneClient
<1>2. ASSUME UNCHANGED <<toServer, request, executed, lastCommand, repeated>> PROVE SendInv'
  BY Zenon, <1>2, SendingSame DEF SendInv
<1>3. ASSUME NEW c \in Clients, DeviceNext(c), UNCHANGED serverVars PROVE SendInv'
  <2>1. Sending(c) /\ repeated' = {} /\ executed' = executed /\ lastCommand' = lastCommand /\ repeated' = repeated
    BY Zenon, <1>3 DEF SendInv, serverVars, cmdVars
  <2>2. CASE Starts(c)
    BY Zenon, <1>1, <1>3, <2>1, <2>2, SendingStarts
  <2>3. CASE Retries(c)
    <3>1. request[c].id # 0
      BY Zenon, <2>3 DEF Retries, Waiting
    <3>2. QED BY Zenon, <1>1, <1>3, <2>1, <2>3, <3>1, SendingRetries
  <2>4. CASE Ignores(c) \/ Accepts(c) \/ SendFile(c) \/ Throws(c)
    <3>1. UNCHANGED <<toServer, request>>
      BY Zenon, <2>4 DEF Ignores, Accepts, SendFile, Throws
    <3>2. QED BY Zenon, <1>2, <2>1, <3>1
  <2>5. QED BY Zenon, <1>3, <2>2, <2>3, <2>4, DeviceCases
<1>4. ASSUME NEW c \in Clients, ReceiveExt(c), UNCHANGED devVars PROVE SendInv'
  <2>1. PICK p : Takes(c, p) /\ Handles(c, p)
    BY Zenon, <1>4, ServerCases
  <2>2. Sending(c) /\ repeated = {}
    BY Zenon DEF SendInv
  <2>3. QED BY Zenon, <1>1, <1>4, <2>1, <2>2, SendingHandles
<1>5. CASE (DoResponse \/ Accept \/ DoXfer \/ Simulate) /\ UNCHANGED devVars
  <2>1. UNCHANGED <<toServer, request, executed, lastCommand, repeated>>
    BY Zenon, <1>5 DEF DoResponse, Accept, DoXfer, Simulate, devVars, cmdVars
  <2>2. QED BY Zenon, <1>2, <2>1
<1>6. CASE UNCHANGED vars
  <2>1. UNCHANGED <<toServer, request, executed, lastCommand, repeated>>
    BY Zenon, <1>6 DEF vars, netVars, devVars, serverVars, cmdVars
  <2>2. QED BY Zenon, <1>2, <2>1
<1>7. QED BY Zenon, <1>3, <1>4, <1>5, <1>6 DEF Next, ServerNext

LEMMA SendInit ==
  ASSUME Init
  PROVE  SendInv /\ Waiting
<1>1. /\ toServer = [c \in Clients |-> <<>>] /\ pc = [c \in Clients |-> "idle"]
      /\ executed = {} /\ repeated = {}
  BY Zenon DEF Init, DeviceInit, ServerInit
<1>2. ASSUME NEW c \in Clients PROVE Sending(c)
  <2>1. toServer[c] = <<>>
    BY Zenon, <1>1
  <2>2. OnWay(c) = {} /\ Rising(toServer[c])
    BY <2>1 DEF OnWay, Elems, Rising
  <2>3. Future(c) = {request[c]}
    BY Zenon, <2>2 DEF Future
  <2>4. QED BY Zenon, <1>1, <2>2, <2>3 DEF Sending, Done
<1>3. Waiting
  BY <1>1 DEF Waiting
<1>4. QED BY Zenon, <1>1, <1>2, <1>3 DEF SendInv

LEMMA SendHolds == ASSUME OneClient PROVE Spec => [](Types /\ Waiting /\ SendInv)
<1>1. Init => Waiting /\ SendInv
  BY Zenon, SendInit
<1>2. Types /\ Waiting /\ [Next]_vars => Waiting'
  BY Zenon, WaitingStep
<1>3. Types /\ Waiting /\ SendInv /\ [Next]_vars => SendInv'
  BY Zenon, SendStep
<1>4. QED BY <1>1, <1>2, <1>3, TypesHold, PTL DEF Spec

\* With one client, whatever is lost and however often a command is sent
\* again, and even when tags come back, no command is executed twice.
THEOREM CommandsOnce == ASSUME OneClient PROVE Spec => []CommandOnce
<1>1. SendInv => CommandOnce
  BY Zenon DEF SendInv, CommandOnce
<1>2. QED BY <1>1, SendHolds, PTL

-----------------------------------------------------------------------------
(* One client that makes no more requests than there are tags.              *)

Piped == {m_req[i].packet : i \in 1 .. Len(m_req)}
Waits(c) == Elems(toClient[c])
Responses(c) == Waits(c) \cup Elems(m_resp)

\* The tag of a request, as long as tags do not come back.
Tagged(p) == p.tag = IF p.id = TagMod THEN 0 ELSE p.id

\* The client's call has ended well, or goes on after an answer.
Settled(c) == pc[c] \in {"transfer", "sent"} \/ (pc[c] = "idle" /\ ~ m_failed[c])

\* Every packet and response belongs to a request, and has its tag.
Numbered(c) ==
  /\ request[c].id <= MaxRequests
  /\ \A p \in Future(c) : Tagged(p)
  /\ \A p \in Piped : /\ p.id \in 1 .. request[c].id /\ Tagged(p) /\ p.kind \notin Commands
                      /\ p.id = request[c].id => p = request[c]
  /\ \A p \in Responses(c) : p.id \in 1 .. request[c].id /\ Tagged(p)
  /\ \A p \in Elems(m_resp) : p.id = request[c].id => request[c].kind \notin Commands

\* A command is answered after it was executed, and its client goes on only
\* then.
Answered(c) ==
  /\ lastCommand.have => /\ lastCommand.id \in 1 .. request[c].id /\ Tagged(lastCommand)
                         /\ Done(c, lastCommand)
                         /\ lastCommand.val = "X" => m_xferSize
  /\ \A p \in Waits(c) :
       p.id = request[c].id /\ request[c].kind \in Commands =>
         Done(c, p) /\ (p.val = "X" => m_xferSize)
  /\ \A p \in Future(c) :
       p.kind \in Commands /\ (p.id < request[c].id \/ Settled(c)) => Done(c, p)

\* The transfer of an executable: the connection is open while load waits
\* for its end, and R comes after it.
Transfer(c) ==
  /\ m_xferSrvr => conn \in {"listening", "open"}
  /\ m_xferSckt = "open" => conn = "open" /\ ~ m_xferSrvr
  /\ conn = "open" => pc[c] = "sent"
  /\ pc[c] \in {"transfer", "sent"} => request[c].kind = "L" /\ m_xferSize
  /\ \A p \in Future(c) : p.kind = "R" => m_xferSize /\ ~ m_xferSrvr

Agreed(c) == Numbered(c) /\ Answered(c) /\ Transfer(c)
AnswerInv == ignored = {} /\ \A c \in Clients : Agreed(c)

FewRequests == MaxRequests <= TagMod

LEMMA TagOf ==
  ASSUME NEW k \in 1 .. TagMod
  PROVE  k % TagMod = IF k = TagMod THEN 0 ELSE k
<1>1. TagMod \in Nat \ {0}
  BY NetAssumption
<1>2. CASE k = TagMod
  BY <1>1, <1>2
<1>3. CASE k < TagMod
  BY <1>1, <1>3
<1>4. QED BY <1>1, <1>2, <1>3

LEMMA SameTag ==
  ASSUME FewRequests, NEW p, NEW q, NEW k \in Nat, k <= MaxRequests, p.id \in 1 .. k, q.id \in 1 .. k,
         Tagged(p), Tagged(q), p.tag = q.tag
  PROVE  p.id = q.id
BY NetAssumption, DeviceAssumption DEF FewRequests, Tagged

LEMMA NewTagged ==
  ASSUME FewRequests, Types, NEW c \in Clients, NEW kind, NEW v, request[c].id < MaxRequests, Tagged(request[c])
  PROVE  Tagged(NewRequest(c, kind, v))
<1>1. request[c].id \in Nat /\ request[c].tag \in Nat
  <2>1. request[c] \in Request
    BY Zenon DEF Types, ClientTypes
  <2>2. QED BY <2>1 DEF Request
<1>2. TagMod \in Nat /\ MaxRequests \in Nat
  BY NetAssumption, DeviceAssumption
<1>3. request[c].tag = request[c].id /\ request[c].id + 1 \in 1 .. TagMod
  BY <1>1, <1>2 DEF FewRequests, Tagged
<1>4. (request[c].tag + 1) % TagMod = IF request[c].id + 1 = TagMod THEN 0 ELSE request[c].id + 1
  BY Zenon, <1>3, TagOf
<1>5. NewRequest(c, kind, v).id = request[c].id + 1 /\ NewRequest(c, kind, v).tag = (request[c].tag + 1) % TagMod
  BY Zenon DEF NewRequest
<1>6. QED BY Zenon, <1>4, <1>5 DEF Tagged

\* How the sets of packets and responses change.
LEMMA DropMoves ==
  ASSUME Types, NEW c \in Clients, Drops(c)
  PROVE  Waits(c)' \subseteq Waits(c) /\ Head(toClient[c]) \in Waits(c)
<1>1. toClient \in [Clients -> Seq(Response)]
  BY Zenon DEF Types, ClientTypes
<1>2. toClient[c] \in Seq(Response) /\ toClient[c] # <<>> /\ toClient'[c] = Tail(toClient[c])
  BY Zenon, <1>1 DEF Drops
<1>3. Elems(Tail(toClient[c])) \subseteq Elems(toClient[c]) /\ Head(toClient[c]) \in Elems(toClient[c])
  BY Zenon, <1>2, TailFacts
<1>4. QED BY Zenon, <1>2, <1>3 DEF Waits

LEMMA AppendElems ==
  ASSUME NEW S, NEW s \in Seq(S), NEW x
  PROVE  Elems(Append(s, x)) = Elems(s) \cup {x}
<1>1. s \in Seq(S \cup {x})
  OBVIOUS
<1>2. QED BY <1>1, AppendFacts

LEMMA AnswerMoves ==
  ASSUME Types, NEW c \in Clients, NEW p, Answers(c, p)
  PROVE  \A q \in Waits(c)' : q \in Waits(c) \/ q = p
<1>1. toClient \in [Clients -> Seq(Response)]
  BY Zenon DEF Types, ClientTypes
<1>2. CASE toClient' = toClient
  BY Zenon, <1>2 DEF Waits
<1>3. CASE toClient' = [toClient EXCEPT ![c] = Append(@, p)]
  <2>1. toClient[c] \in Seq(Response) /\ toClient'[c] = Append(toClient[c], p)
    BY Zenon, <1>1, <1>3
  <2>2. Elems(Append(toClient[c], p)) = Elems(toClient[c]) \cup {p}
    BY <2>1, AppendElems
  <2>3. QED BY Zenon, <2>1, <2>2 DEF Waits
<1>4. QED BY Zenon, <1>2, <1>3 DEF Answers

LEMMA PipeMoves ==
  ASSUME Types
  PROVE  /\ \A e \in Piece : m_req' = Append(m_req, e) => Piped' = Piped \cup {e.packet}
         /\ m_req # <<>> /\ m_req' = Tail(m_req) => Piped' \subseteq Piped /\ Head(m_req).packet \in Piped
         /\ m_req' = <<>> => Piped' = {}
         /\ m_req # <<>> /\ m_req' = <<Head(m_req)>> => Piped' \subseteq Piped
         /\ m_req' = m_req => Piped' = Piped
<1>1. m_req \in Seq(Piece)
  BY Zenon DEF Types, ServerTypes
<1>2. ASSUME NEW e \in Piece, m_req' = Append(m_req, e) PROVE Piped' = Piped \cup {e.packet}
  BY <1>1, <1>2 DEF Piped
<1>3. ASSUME m_req # <<>>, m_req' = Tail(m_req) PROVE Piped' \subseteq Piped /\ Head(m_req).packet \in Piped
  BY <1>1, <1>3 DEF Piped
<1>4. m_req' = <<>> => Piped' = {}
  BY DEF Piped
<1>5. m_req' = m_req => Piped' = Piped
  BY DEF Piped
<1>6. ASSUME m_req # <<>>, m_req' = <<Head(m_req)>> PROVE Piped' \subseteq Piped
  BY <1>1, <1>6 DEF Piped
<1>7. QED BY Zenon, <1>2, <1>3, <1>4, <1>5, <1>6

\* A step of the client leaves the server alone.
ServerSame(c) ==
  /\ Piped' = Piped /\ m_resp' = m_resp
  /\ executed' = executed /\ lastCommand' = lastCommand
  /\ UNCHANGED <<m_xferSrvr, m_xferSckt, m_xferSize>>

LEMMA ServerKept ==
  ASSUME Types, UNCHANGED serverVars, NEW c
  PROVE  ServerSame(c)
<1>1. /\ m_req' = m_req /\ m_resp' = m_resp /\ executed' = executed /\ lastCommand' = lastCommand
      /\ UNCHANGED <<m_xferSrvr, m_xferSckt, m_xferSize>>
  BY Zenon DEF serverVars, cmdVars, simVars, xferVars
<1>2. QED BY Zenon, <1>1, PipeMoves DEF ServerSame

LEMMA AgreedStarts ==
  ASSUME FewRequests, Types, NEW c \in Clients, Sending(c), Agreed(c), UNCHANGED serverVars, Starts(c)
  PROVE  Agreed(c)'
<1>1. PICK kind \in Kinds, v \in Values :
        /\ Begin(c, kind, v) /\ conn' = conn
        /\ IF kind = "R" THEN pc[c] = "sent" /\ conn \in {"eof", "dropped"} ELSE pc[c] = "idle"
  BY Zenon DEF Starts
<1> DEFINE r == NewRequest(c, kind, v)
<1>2. /\ r \in Request /\ r.id = request[c].id + 1 /\ r.id \in Nat
      /\ \A p \in Future(c) : p \in Request /\ p.id <= request[c].id /\ p.id <= r.id /\ p.id # r.id
  BY Zenon, NewNumber DEF IsNew
<1>3. /\ request \in [Clients -> Request] /\ request' = [request EXCEPT ![c] = r] /\ Attempt(c, r, 0)
      /\ ~ m_failed[c] /\ request[c].id < MaxRequests /\ toClient' = toClient
  BY Zenon, <1>1 DEF Begin, NewRequest, Types, ClientTypes
<1>4. request'[c] = r /\ request[c] \in Request
  BY Zenon, <1>3
<1>5. request[c] \in Future(c) /\ \A p \in OnWay(c) : p \in Future(c)
  BY Zenon DEF Future
<1>6. Tagged(r)
  BY Zenon, <1>3, <1>5, NewTagged DEF Agreed, Numbered
<1>7. r.kind = kind
  BY Zenon DEF NewRequest
<1>8. /\ pc \in [Clients -> {"idle", "receiving", "transfer", "sent"}]
      /\ m_failed \in [Clients -> BOOLEAN]
  BY Zenon DEF Types, ClientTypes
<1> HIDE DEF r
<1>9. OnWay(c)' \subseteq OnWay(c) \cup {r}
  BY Zenon, <1>2, <1>3, <1>5, AttemptMoves DEF Sending
<1>10. \A p \in Future(c)' : p \in OnWay(c) \/ p = r
  BY Zenon, <1>4, <1>9 DEF Future
<1>11. ServerSame(c)
  BY Zenon, ServerKept
<1>12. Waits(c)' = Waits(c) /\ Responses(c)' = Responses(c)
  BY Zenon, <1>3, <1>11 DEF ServerSame, Waits, Responses
<1>13. pc'[c] \in {"receiving", "idle"} /\ (r.kind \in Commands => ~ Settled(c)')
  <2>1. CASE pc' = [pc EXCEPT ![c] = "receiving"]
    <3>1. pc'[c] = "receiving"
      BY Zenon, <1>8, <2>1
    <3>2. QED BY <3>1 DEF Settled
  <2>2. CASE pc' = [pc EXCEPT ![c] = "idle"] /\ \E b \in BOOLEAN : (b => r.kind \notin Commands) /\ m_failed' = [m_failed EXCEPT ![c] = ~ b]
    <3>1. pc'[c] = "idle" /\ (r.kind \in Commands => m_failed'[c])
      BY Zenon, <1>8, <2>2
    <3>2. "idle" \notin {"transfer", "sent"}
      OBVIOUS
    <3>3. QED BY Zenon, <3>1, <3>2 DEF Settled
  <2>3. QED BY Zenon, <1>3, <2>1, <2>2 DEF Attempt
<1>14. request[c].id \in Nat /\ \A i \in 1 .. request[c].id : i \in 1 .. r.id /\ i # r.id
  <2>1. request[c].id \in Nat
    BY <1>4 DEF Request
  <2>2. QED BY <1>2, <2>1
<1>15. Numbered(c)'
  <2>1. r.id <= MaxRequests
    BY <1>2, <1>3, <1>14, DeviceAssumption
  <2>2. \A p \in Future(c)' : Tagged(p)
    BY Zenon, <1>5, <1>6, <1>10 DEF Agreed, Numbered
  <2>3. \A p \in Piped' : p.id \in 1 .. r.id /\ Tagged(p) /\ p.kind \notin Commands /\ p.id # r.id
    BY Zenon, <1>11, <1>14 DEF Agreed, Numbered, ServerSame
  <2>4. \A p \in Responses(c)' : p.id \in 1 .. r.id /\ Tagged(p) /\ p.id # r.id
    BY Zenon, <1>12, <1>14 DEF Agreed, Numbered
  <2>5. \A p \in Elems(m_resp)' : p \in Responses(c)'
    BY Zenon DEF Responses
  <2>6. QED BY Zenon, <1>4, <2>1, <2>2, <2>3, <2>4, <2>5 DEF Numbered, Tagged
<1>16. Answered(c)'
  <2>1. \A p : Done(c, p)' <=> Done(c, p)
    BY Zenon, <1>11 DEF ServerSame, Done
  <2>2. lastCommand'.have => /\ lastCommand'.id \in 1 .. r.id /\ Tagged(lastCommand)'
                             /\ Done(c, lastCommand)'
                             /\ lastCommand'.val = "X" => m_xferSize'
    BY Zenon, <1>11, <1>14 DEF Agreed, Answered, ServerSame, Done, Tagged
  <2>3. \A p \in Waits(c)' : p.id # r.id
    BY Zenon, <1>12, <1>14 DEF Agreed, Numbered, Responses
  <2>4. Settled(c)
    <3>1. pc[c] = "idle" \/ pc[c] = "sent"
      BY Zenon, <1>1
    <3>2. "sent" \in {"transfer", "sent"}
      OBVIOUS
    <3>3. QED BY Zenon, <1>3, <3>1, <3>2 DEF Settled
  <2>5. ASSUME NEW p \in Future(c)', p.kind \in Commands, p.id < r.id \/ Settled(c)' PROVE Done(c, p)
    <3>1. CASE p \in OnWay(c)
      BY Zenon, <1>5, <2>4, <2>5, <3>1 DEF Agreed, Answered
    <3>2. CASE p = r
      <4>1. ~ (r.id < r.id)
        BY <1>2
      <4>2. QED BY Zenon, <1>13, <2>5, <3>2, <4>1
    <3>3. QED BY Zenon, <1>10, <3>1, <3>2
  <2>6. QED BY Zenon, <1>4, <2>1, <2>2, <2>3, <2>5 DEF Answered
<1>17. Transfer(c)'
  <2>1. conn # "open"
    <3>1. CASE kind = "R"
      BY <1>1, <3>1
    <3>2. CASE kind # "R"
      BY <1>1, <3>2 DEF Agreed, Transfer
    <3>3. QED BY <3>1, <3>2
  <2>2. ASSUME NEW p \in Future(c)', p.kind = "R" PROVE m_xferSize' /\ ~ m_xferSrvr'
    <3>1. CASE p \in OnWay(c)
      BY Zenon, <1>5, <1>11, <2>2, <3>1 DEF Agreed, Transfer, ServerSame
    <3>2. CASE p = r
      <4>1. pc[c] = "sent" /\ conn \in {"eof", "dropped"}
        BY Zenon, <1>1, <1>7, <2>2, <3>2
      <4>2. pc[c] \in {"transfer", "sent"} /\ conn \notin {"listening", "open"}
        BY <4>1
      <4>3. QED BY Zenon, <1>11, <4>2 DEF Agreed, Transfer, ServerSame
    <3>3. QED BY Zenon, <1>10, <3>1, <3>2
  <2>3. pc'[c] \notin {"transfer", "sent"}
    BY <1>13
  <2>4. QED BY Zenon, <1>1, <1>11, <2>1, <2>2, <2>3 DEF Agreed, Transfer, ServerSame
<1>18. QED BY Zenon, <1>15, <1>16, <1>17 DEF Agreed

\* Every other step of the client: no new packet, no new response.
LEMMA AgreedFewer ==
  ASSUME Types, NEW c \in Clients, Sending(c), Agreed(c), UNCHANGED serverVars,
         request'[c] = request[c], Future(c)' \subseteq Future(c), Waits(c)' \subseteq Waits(c),
         Settled(c)' => Settled(c) \/ request[c].kind \notin Commands \/ Done(c, request[c]),
         Transfer(c)'
  PROVE  Agreed(c)'
<1>1. ServerSame(c)
  BY Zenon, ServerKept
<1>2. Responses(c)' \subseteq Responses(c) /\ Elems(m_resp)' = Elems(m_resp)
  BY Zenon, <1>1 DEF ServerSame, Responses
<1>3. Numbered(c)'
  BY Zenon, <1>1, <1>2 DEF Agreed, Numbered, ServerSame, Tagged
<1>4. \A p : Done(c, p)' <=> Done(c, p)
  BY Zenon, <1>1 DEF ServerSame, Done
<1>5. ASSUME NEW p \in Future(c)', p.kind \in Commands, p.id < request[c].id \/ Settled(c)' PROVE Done(c, p)
  <2>1. p \in Future(c)
    BY Zenon
  <2>2. CASE p.id < request[c].id
    BY Zenon, <1>5, <2>1, <2>2 DEF Agreed, Answered
  <2>3. CASE ~ (p.id < request[c].id) /\ Settled(c)'
    <3>1. request[c] \in Future(c) /\ request[c] \in Request
      BY Zenon DEF Future, Types, ClientTypes
    <3>2. p.id = request[c].id
      <4>1. CASE p \in OnWay(c)
        <5>1. p.id \in 1 .. request[c].id /\ request[c].id \in Nat
          BY Zenon, <3>1, <4>1 DEF Sending, Request
        <5>2. QED BY <2>3, <5>1
      <4>2. QED BY Zenon, <2>1, <4>1 DEF Future
    <3>3. p = request[c]
      BY Zenon, <2>1, <3>1, <3>2 DEF Sending
    <3>4. QED BY Zenon, <1>5, <2>1, <2>3, <3>3 DEF Agreed, Answered
  <2>4. QED BY Zenon, <1>5, <2>2, <2>3
<1>6. Answered(c)'
  BY Zenon, <1>1, <1>4, <1>5 DEF Agreed, Answered, ServerSame, Tagged
<1>7. QED BY Zenon, <1>3, <1>6 DEF Agreed

\* The response that a request returns with is the response to it.
LEMMA OwnAnswer ==
  ASSUME FewRequests, Types, NEW c \in Clients, Agreed(c), NEW p \in Waits(c), p.tag = request[c].tag
  PROVE  p.id = request[c].id
<1>1. p \in Responses(c) /\ request[c] \in Future(c) /\ request[c] \in Request
  BY Zenon DEF Responses, Future, Types, ClientTypes
<1>2. request[c].id \in Nat /\ request[c].id <= MaxRequests /\ Tagged(request[c]) /\ p.id \in 1 .. request[c].id /\ Tagged(p)
  BY Zenon, <1>1 DEF Agreed, Numbered, Request
<1>3. request[c].id \in 1 .. request[c].id
  BY <1>2
<1>4. QED BY Zenon, <1>2, <1>3, SameTag

LEMMA AgreedClient ==
  ASSUME FewRequests, Types, Waiting, NEW c \in Clients, Sending(c), Agreed(c), UNCHANGED serverVars, DeviceNext(c)
  PROVE  Agreed(c)'
<1>1. /\ pc \in [Clients -> {"idle", "receiving", "transfer", "sent"}] /\ m_failed \in [Clients -> BOOLEAN]
      /\ request[c] \in Request
  BY Zenon DEF Types, ClientTypes
<1>2. UNCHANGED <<m_xferSrvr, m_xferSckt, m_xferSize>>
  BY Zenon DEF serverVars, xferVars
<1>3. toClient' = toClient \/ Drops(c) => Waits(c)' \subseteq Waits(c)
  BY Zenon, DropMoves DEF Waits
<1>4. UNCHANGED <<toServer, request>> => Future(c)' \subseteq Future(c) /\ request'[c] = request[c]
  BY Zenon DEF Future, OnWay
<1>5. \A p \in Future(c) : p.kind = "R" => m_xferSize /\ ~ m_xferSrvr
  BY Zenon DEF Agreed, Transfer
<1>6. CASE Starts(c)
  BY Zenon, <1>6, AgreedStarts
<1>7. CASE Retries(c)
  <2>1. /\ request'[c] = request[c] /\ Attempt(c, request[c], n[c]) /\ pc[c] = "receiving" /\ conn' = conn
        /\ toClient' = toClient \/ Drops(c)
    BY Zenon, <1>7 DEF Retries
  <2>2. request[c].id \in Nat /\ \A p \in OnWay(c) : p.id <= request[c].id
    BY <1>1 DEF Request, Sending
  <2>3. OnWay(c)' \subseteq Future(c)
    BY Zenon, <1>1, <2>1, <2>2, AttemptMoves DEF Sending, Future
  <2>4. Future(c)' \subseteq Future(c)
    BY Zenon, <2>1, <2>3 DEF Future
  <2>5. pc'[c] \in {"receiving", "idle"} /\ (request[c].kind \in Commands => ~ Settled(c)')
    <3>1. CASE pc' = [pc EXCEPT ![c] = "receiving"]
      <4>1. pc'[c] = "receiving"
        BY Zenon, <1>1, <3>1
      <4>2. QED BY <4>1 DEF Settled
    <3>2. CASE pc' = [pc EXCEPT ![c] = "idle"] /\ \E b \in BOOLEAN : (b => request[c].kind \notin Commands) /\ m_failed' = [m_failed EXCEPT ![c] = ~ b]
      <4>1. pc'[c] = "idle" /\ (request[c].kind \in Commands => m_failed'[c])
        BY Zenon, <1>1, <3>2
      <4>2. "idle" \notin {"transfer", "sent"}
        OBVIOUS
      <4>3. QED BY Zenon, <4>1, <4>2 DEF Settled
    <3>3. QED BY Zenon, <2>1, <3>1, <3>2 DEF Attempt
  <2>6. Transfer(c)'
    <3>1. conn # "open" /\ pc'[c] \notin {"transfer", "sent"}
      BY <2>1, <2>5 DEF Agreed, Transfer
    <3>2. QED BY Zenon, <1>2, <2>1, <2>4, <3>1 DEF Agreed, Transfer
  <2>7. QED BY Zenon, <1>3, <2>1, <2>4, <2>5, <2>6, AgreedFewer
<1>8. CASE Ignores(c)
  <2>1. UNCHANGED <<toServer, request, pc, m_failed, conn>> /\ Drops(c)
    BY Zenon, <1>8 DEF Ignores
  <2>2. Transfer(c)' /\ (Settled(c)' => Settled(c))
    BY Zenon, <1>2, <1>4, <2>1 DEF Agreed, Transfer, Settled
  <2>3. QED BY Zenon, <1>3, <1>4, <2>1, <2>2, AgreedFewer
<1>9. CASE Accepts(c)
  <2>1. UNCHANGED <<toServer, request, conn>> /\ Drops(c) /\ pc[c] = "receiving" /\ Head(toClient[c]).tag = request[c].tag
    BY Zenon, <1>9 DEF Accepts
  <2>2. PICK p : p = Head(toClient[c])
    BY Zenon
  <2>3. p \in Waits(c) /\ p.id = request[c].id
    BY Zenon, <2>1, <2>2, DropMoves, OwnAnswer
  <2>4. request[c].kind \in Commands => Done(c, request[c])
    BY Zenon, <2>3 DEF Agreed, Answered, Done
  <2>5. pc'[c] = IF request[c].kind = "L" /\ p.val = "X" THEN "transfer" ELSE "idle"
    BY Zenon, <1>1, <1>9, <2>2 DEF Accepts, Return
  <2>6. pc'[c] \in {"transfer", "sent"} => request[c].kind = "L" /\ p.val = "X"
    BY <2>5
  <2>7. "L" \in Commands
    BY DEF Commands
  <2>8. pc'[c] \in {"transfer", "sent"} => request[c].kind = "L" /\ m_xferSize
    BY Zenon, <2>3, <2>6, <2>7 DEF Agreed, Answered
  <2>9. conn # "open"
    BY <2>1 DEF Agreed, Transfer
  <2>10. Transfer(c)'
    BY Zenon, <1>2, <1>4, <2>1, <2>8, <2>9 DEF Agreed, Transfer
  <2>11. QED BY Zenon, <1>3, <1>4, <2>1, <2>4, <2>10, AgreedFewer
<1>10. CASE SendFile(c)
  <2>1. /\ UNCHANGED <<toServer, request, toClient>> /\ pc[c] = "transfer"
        /\ conn' = IF conn = "listening" THEN "open" ELSE conn
    BY Zenon, <1>10 DEF SendFile
  <2>2. pc'[c] = IF conn = "listening" THEN "sent" ELSE "idle"
    BY Zenon, <1>1, <1>10 DEF SendFile
  <2>3. conn # "open" /\ pc[c] \in {"transfer", "sent"}
    BY <2>1 DEF Agreed, Transfer
  <2>4. Settled(c)
    BY Zenon, <2>3 DEF Settled
  <2>5. /\ conn' = "open" => pc'[c] = "sent"
        /\ conn \in {"listening", "open"} => conn' \in {"listening", "open"}
    BY <2>1, <2>2, <2>3
  <2>6. Transfer(c)'
    BY Zenon, <1>2, <1>4, <2>1, <2>3, <2>5 DEF Agreed, Transfer
  <2>7. QED BY Zenon, <1>3, <1>4, <2>1, <2>4, <2>6, AgreedFewer
<1>11. CASE Throws(c)
  <2>1. UNCHANGED <<toServer, request, toClient, conn>> /\ pc[c] = "sent" /\ conn = "dropped" /\ pc' = [pc EXCEPT ![c] = "idle"]
    BY Zenon, <1>11 DEF Throws
  <2>2. pc'[c] = "idle"
    BY Zenon, <1>1, <2>1
  <2>3. conn # "open" /\ pc[c] \in {"transfer", "sent"} /\ pc'[c] \notin {"transfer", "sent"}
    BY <2>1, <2>2
  <2>4. Settled(c)
    BY Zenon, <2>3 DEF Settled
  <2>5. Transfer(c)'
    BY Zenon, <1>2, <1>4, <2>1, <2>3 DEF Agreed, Transfer
  <2>6. QED BY Zenon, <1>3, <1>4, <2>1, <2>4, <2>5, AgreedFewer
<1>12. QED BY Zenon, <1>6, <1>7, <1>8, <1>9, <1>10, <1>11, DeviceCases

\* What a step of the server may add.
MayAnswer(c, q) ==
  /\ q.id \in 1 .. request[c].id /\ Tagged(q)
  /\ q.id = request[c].id /\ request[c].kind \in Commands =>
       <<c, q.id>> \in executed' /\ (q.val = "X" => m_xferSize')

MayKeep(c, q) ==
  q.id \in 1 .. request[c].id /\ Tagged(q) /\ <<c, q.id>> \in executed' /\ (q.val = "X" => m_xferSize')

LEMMA AgreedMore ==
  ASSUME Types, NEW c \in Clients, Sending(c), Agreed(c), UNCHANGED devVars, Future(c)' \subseteq Future(c),
         \A q \in Piped' : q \in Piped \/ (q \in OnWay(c) /\ q.kind \notin Commands),
         \A q \in Elems(m_resp)' : q \in Elems(m_resp) \/ \E p \in Piped : q.id = p.id /\ q.tag = p.tag,
         \A q \in Waits(c)' : q \in Waits(c) \/ q \in Elems(m_resp) \/ MayAnswer(c, q),
         executed \subseteq executed', m_xferSize => m_xferSize',
         lastCommand' = lastCommand \/ MayKeep(c, lastCommand'),
         Transfer(c)'
  PROVE  Agreed(c)'
<1>1. request' = request /\ pc' = pc /\ m_failed' = m_failed
  BY Zenon DEF devVars
<1>2. request[c] \in Future(c) /\ \A p \in OnWay(c) : p \in Future(c)
  BY Zenon DEF Future
<1>3. \A q \in Piped' : /\ q.id \in 1 .. request[c].id /\ Tagged(q) /\ q.kind \notin Commands
                        /\ q.id = request[c].id => q = request[c]
  BY Zenon, <1>2 DEF Sending, Agreed, Numbered
<1>4. \A q \in Elems(m_resp)' : /\ q.id \in 1 .. request[c].id /\ Tagged(q)
                                /\ q.id = request[c].id => request[c].kind \notin Commands
  <2> SUFFICES ASSUME NEW q \in Elems(m_resp)'
               PROVE  /\ q.id \in 1 .. request[c].id /\ Tagged(q)
                      /\ q.id = request[c].id => request[c].kind \notin Commands
    BY Zenon
  <2>1. CASE q \in Elems(m_resp)
    BY Zenon, <2>1 DEF Agreed, Numbered, Responses
  <2>2. ASSUME NEW p \in Piped, q.id = p.id, q.tag = p.tag
        PROVE  /\ q.id \in 1 .. request[c].id /\ Tagged(q)
               /\ q.id = request[c].id => request[c].kind \notin Commands
    BY Zenon, <2>2 DEF Agreed, Numbered, Tagged
  <2>3. QED BY Zenon, <2>1, <2>2
<1>5. \A q \in Waits(c)' : q.id \in 1 .. request[c].id /\ Tagged(q)
  BY Zenon DEF Agreed, Numbered, Responses, MayAnswer
<1>6. \A q \in Responses(c)' : q.id \in 1 .. request[c].id /\ Tagged(q)
  BY Zenon, <1>4, <1>5 DEF Responses
<1>7. Numbered(c)'
  BY Zenon, <1>1, <1>3, <1>4, <1>6 DEF Agreed, Numbered, Tagged
<1>8. \A q : Done(c, q) => <<c, q.id>> \in executed'
  BY Zenon DEF Done
<1>9. \A q \in Waits(c)' :
        q.id = request[c].id /\ request[c].kind \in Commands => <<c, q.id>> \in executed' /\ (q.val = "X" => m_xferSize')
  <2> SUFFICES ASSUME NEW q \in Waits(c)', q.id = request[c].id, request[c].kind \in Commands
               PROVE  <<c, q.id>> \in executed' /\ (q.val = "X" => m_xferSize')
    BY Zenon
  <2>1. CASE q \in Waits(c)
    BY Zenon, <1>8, <2>1 DEF Agreed, Answered
  <2>2. CASE q \in Elems(m_resp)
    BY Zenon, <2>2 DEF Agreed, Numbered
  <2>3. CASE MayAnswer(c, q)
    BY Zenon, <2>3 DEF MayAnswer, Done
  <2>4. QED BY Zenon, <2>1, <2>2, <2>3
<1>10. lastCommand'.have => /\ lastCommand'.id \in 1 .. request[c].id /\ Tagged(lastCommand')
                            /\ <<c, lastCommand'.id>> \in executed'
                            /\ lastCommand'.val = "X" => m_xferSize'
  BY Zenon, <1>8 DEF Agreed, Answered, MayKeep, Done
<1>11. \A p \in Future(c)' :
         p.kind \in Commands /\ (p.id < request[c].id \/ Settled(c)) => <<c, p.id>> \in executed'
  BY Zenon, <1>8 DEF Agreed, Answered
<1>12. Answered(c)'
  BY Zenon, <1>1, <1>9, <1>10, <1>11 DEF Answered, Done, Tagged, Settled
<1>13. QED BY Zenon, <1>7, <1>12 DEF Agreed

\* A command that was not executed is the request its client waits for.
LEMMA FreshIsRequest ==
  ASSUME Types, NEW c \in Clients, Sending(c), Agreed(c), UNCHANGED devVars,
         NEW p, Takes(c, p), p.kind \in Commands, Fresh(c, p)
  PROVE  p = request[c] /\ ~ Settled(c) /\ \A q \in Future(c) : q = p
<1>1. p \in OnWay(c) /\ p.id \in Nat /\ \A q \in Future(c) : p.id <= q.id
  BY Zenon, Arrives
<1>2. p \in Future(c) /\ request[c] \in Future(c)
  BY Zenon, <1>1 DEF Future
<1>3. ~ Done(c, p)
  BY Zenon, <1>2 DEF Sending
<1>4. ~ (p.id < request[c].id) /\ ~ Settled(c)
  BY Zenon, <1>2, <1>3 DEF Agreed, Answered
<1>5. request[c].id \in Nat /\ p.id \in 1 .. request[c].id
  <2>1. request[c] \in Request
    BY Zenon DEF Types, ClientTypes
  <2>2. QED BY Zenon, <1>1, <2>1 DEF Request, Sending
<1>6. p.id = request[c].id
  BY <1>4, <1>5
<1>7. p = request[c]
  BY Zenon, <1>2, <1>6 DEF Sending
<1>8. \A q \in OnWay(c) : q.id = p.id
  <2>1. \A q \in OnWay(c) : q.id \in 1 .. request[c].id /\ p.id <= q.id
    BY Zenon, <1>1 DEF Sending, Future
  <2>2. QED BY <1>5, <1>6, <2>1
<1>9. \A q \in Future(c) : q = p
  BY Zenon, <1>2, <1>7, <1>8 DEF Sending, Future
<1>10. QED BY Zenon, <1>4, <1>7, <1>9

\* What a command does to the transfer, when the client waits for its answer.
LEMMA TransferExecutes ==
  ASSUME Types, NEW c \in Clients, Transfer(c), UNCHANGED devVars, ~ Settled(c),
         NEW p, \A q \in Future(c)' : q = p, NEW result \in Results,
         \/ p.kind = "F" /\ result = "O" /\ DoFlush
         \/ p.kind = "L" /\ DoLoad(result)
         \/ p.kind = "R" /\ DoRun(result) /\ m_xferSize /\ ~ m_xferSrvr
  PROVE  Transfer(c)'
<1>1. request' = request /\ pc' = pc
  BY Zenon DEF devVars
<1>2. pc[c] \notin {"transfer", "sent"}
  BY Zenon DEF Settled
<1>3. "sent" \in {"transfer", "sent"} /\ "F" # "R" /\ "L" # "R" /\ "none" # "open" /\ "listening" # "open" /\ "dropped" # "open"
      /\ "listening" \in {"listening", "open"}
  OBVIOUS
<1>4. conn # "open"
  BY Zenon, <1>2, <1>3 DEF Transfer
<1>5. m_xferSckt # "open" /\ Dropped # "open"
  BY Zenon, <1>3, <1>4 DEF Transfer, Dropped
<1>6. ASSUME conn' # "open", m_xferSckt' # "open", m_xferSrvr' => conn' \in {"listening", "open"},
             p.kind = "R" => m_xferSize' /\ ~ m_xferSrvr'
      PROVE  Transfer(c)'
  BY Zenon, <1>1, <1>2, <1>6 DEF Transfer
<1>7. CASE p.kind = "F" /\ DoFlush
  BY Zenon, <1>3, <1>5, <1>6, <1>7 DEF DoFlush
<1>8. CASE p.kind = "L" /\ DoLoad(result)
  <2>1. /\ m_xferSckt' = IF running THEN "none" ELSE m_xferSckt
        /\ \/ m_xferSrvr' = (m_xferSrvr /\ ~ running) /\ conn' = IF running THEN Dropped ELSE conn
           \/ conn' = "listening"
    BY Zenon, <1>8 DEF DoLoad
  <2>2. m_xferSckt' # "open" /\ conn' # "open"
    BY Zenon, <1>3, <1>4, <1>5, <2>1
  <2>3. m_xferSrvr' => conn' \in {"listening", "open"}
    BY Zenon, <1>3, <2>1 DEF Transfer
  <2>4. QED BY Zenon, <1>3, <1>6, <1>8, <2>2, <2>3
<1>9. CASE p.kind = "R" /\ DoRun(result) /\ m_xferSize /\ ~ m_xferSrvr
  <2>1. conn' = conn /\ m_xferSrvr' = m_xferSrvr /\ m_xferSize' = m_xferSize /\ m_xferSckt' = "none"
    BY Zenon, <1>9 DEF DoRun
  <2>2. QED BY Zenon, <1>3, <1>4, <1>6, <1>9, <2>1
<1>10. QED BY Zenon, <1>7, <1>8, <1>9

LEMMA AgreedHandles ==
  ASSUME Types, NEW c \in Clients, Sending(c), Agreed(c), ignored = {}, UNCHANGED devVars,
         NEW p, Takes(c, p), Handles(c, p)
  PROVE  Agreed(c)' /\ ignored' = {}
<1>1. /\ p \in OnWay(c) /\ p \in Request /\ Future(c)' \subseteq Future(c) /\ request' = request
  BY Zenon, Arrives
<1>2. p \in Future(c)
  BY Zenon, <1>1 DEF Future
<1>3. p.id \in 1 .. request[c].id /\ Tagged(p)
  BY Zenon, <1>1, <1>2 DEF Sending, Agreed, Numbered
<1>4. p.id = request[c].id => p = request[c]
  BY Zenon, <1>2 DEF Sending, Future
<1>5. request' = request /\ pc' = pc /\ m_failed' = m_failed
  BY Zenon DEF devVars
<1>6. ASSUME UNCHANGED <<conn, m_xferSrvr, m_xferSckt, m_xferSize>> PROVE Transfer(c)'
  BY Zenon, <1>1, <1>5, <1>6 DEF Agreed, Transfer
<1>7. CASE Replays(c, p)
  <2>1. /\ UNCHANGED <<conn, m_xferSrvr, m_xferSckt, m_xferSize, m_req, m_resp, executed, lastCommand, ignored>>
        /\ lastCommand.have
    BY Zenon, <1>7 DEF Replays, xferVars, simVars, cmdVars, Fresh
  <2>2. PICK q : q = [client |-> c, id |-> lastCommand.id, tag |-> lastCommand.tag, code |-> "OK", val |-> lastCommand.val]
    BY Zenon
  <2>3. q.id = lastCommand.id /\ q.tag = lastCommand.tag /\ q.val = lastCommand.val
    BY Zenon, <2>2
  <2>4. MayAnswer(c, q)
    BY Zenon, <2>1, <2>3 DEF MayAnswer, Agreed, Answered, Done, Tagged
  <2>5. \A t \in Waits(c)' : t \in Waits(c) \/ t = q
    BY Zenon, <1>7, <2>2, AnswerMoves DEF Replays
  <2>6. Piped' = Piped
    BY Zenon, <2>1, PipeMoves
  <2>7. QED BY Zenon, <1>1, <1>6, <2>1, <2>4, <2>5, <2>6, AgreedMore
<1>8. CASE Skips(c, p)
  <2>1. NotYet(p) /\ p.kind = "R" /\ (~ m_xferSize \/ m_xferSrvr)
    BY Zenon, <1>8 DEF Skips, NotYet
  <2>2. QED BY Zenon, <1>2, <2>1 DEF Agreed, Transfer
<1>9. ASSUME NEW result \in Results, Executes(c, p, result) PROVE Agreed(c)' /\ ignored' = {}
  <2>1. p = request[c] /\ ~ Settled(c) /\ \A q \in Future(c) : q = p
    BY Zenon, <1>9, FreshIsRequest DEF Executes
  <2>2. /\ executed' = executed \cup {<<c, p.id>>} /\ ignored' = ignored
        /\ lastCommand' = [have |-> TRUE, client |-> c, id |-> p.id, tag |-> p.tag, val |-> result]
    BY Zenon, <1>9 DEF Executes
  <2>3. running \in BOOLEAN
    BY Zenon DEF Types, ServerTypes
  <2>4. /\ \/ m_req' = <<>> /\ m_resp' = <<>>
           \/ m_req' = <<Head(m_req)>> /\ m_resp' = <<>> /\ m_req # <<>>
           \/ UNCHANGED <<m_req, m_resp>>
        /\ (p.kind = "L" /\ result = "X" /\ m_xferSize' = TRUE) \/ (m_xferSize' = m_xferSize /\ result # "X")
    BY Zenon, <1>9, <2>3, CommandEffect DEF Executes
  <2>5. Piped' \subseteq Piped /\ Elems(m_resp)' \subseteq Elems(m_resp)
    <3>1. CASE m_req' = <<>> /\ m_resp' = <<>>
      BY <3>1, PipeMoves DEF Elems
    <3>2. CASE m_req' = <<Head(m_req)>> /\ m_resp' = <<>> /\ m_req # <<>>
      <4>1. Elems(m_resp)' \subseteq Elems(m_resp)
        BY <3>2 DEF Elems
      <4>2. QED BY Zenon, <3>2, <4>1, PipeMoves
    <3>3. CASE UNCHANGED <<m_req, m_resp>>
      BY Zenon, <3>3, PipeMoves
    <3>4. QED BY Zenon, <2>4, <3>1, <3>2, <3>3
  <2>6. m_xferSize => m_xferSize'
    BY Zenon, <2>4
  <2>7. result = "X" => m_xferSize'
    BY Zenon, <2>4
  <2>8. Transfer(c)'
    <3>1. p.kind = "R" => m_xferSize /\ ~ m_xferSrvr
      BY Zenon, <1>2 DEF Agreed, Transfer
    <3>2. \A q \in Future(c)' : q = p
      BY Zenon, <1>1, <2>1
    <3>3. \/ p.kind = "F" /\ result = "O" /\ DoFlush
          \/ p.kind = "L" /\ DoLoad(result)
          \/ p.kind = "R" /\ DoRun(result) /\ m_xferSize /\ ~ m_xferSrvr
      BY Zenon, <1>9, <3>1 DEF Executes
    <3>4. QED BY Zenon, <2>1, <3>2, <3>3, TransferExecutes DEF Agreed
  <2>9. PICK q : q = [client |-> c, id |-> p.id, tag |-> p.tag, code |-> "OK", val |-> result]
    BY Zenon
  <2>10. q.id = p.id /\ q.tag = p.tag /\ q.val = result
    BY Zenon, <2>9
  <2>11. lastCommand'.id = p.id /\ lastCommand'.tag = p.tag /\ lastCommand'.val = result
    BY Zenon, <2>2
  <2>12. MayAnswer(c, q)
    BY Zenon, <1>3, <2>2, <2>7, <2>10 DEF MayAnswer, Tagged
  <2>13. MayKeep(c, lastCommand')
    BY Zenon, <1>3, <2>2, <2>7, <2>11 DEF MayKeep, Tagged
  <2>14. \A t \in Waits(c)' : t \in Waits(c) \/ t = q
    BY Zenon, <1>9, <2>9, AnswerMoves DEF Executes
  <2>15. executed \subseteq executed'
    BY Zenon, <2>2
  <2>16. Agreed(c)'
    BY Zenon, <1>1, <2>5, <2>6, <2>8, <2>12, <2>13, <2>14, <2>15, AgreedMore
  <2>17. QED BY Zenon, <2>2, <2>16
<1>10. CASE Forwards(c, p)
  <2>1. /\ UNCHANGED <<toClient, conn, m_xferSrvr, m_xferSckt, m_xferSize, m_resp, executed, lastCommand, ignored>>
        /\ m_req' = Append(m_req, [client |-> c, packet |-> p]) /\ p.kind \notin Commands
    BY Zenon, <1>10 DEF Forwards, xferVars, cmdVars
  <2>2. PICK e : e = [client |-> c, packet |-> p]
    BY Zenon
  <2>3. e \in Piece /\ e.packet = p
    BY <1>1, <2>2 DEF Piece
  <2>4. Piped' = Piped \cup {p}
    BY Zenon, <2>1, <2>2, <2>3, PipeMoves
  <2>5. \A q \in Piped' : q \in Piped \/ (q \in OnWay(c) /\ q.kind \notin Commands)
    BY Zenon, <1>1, <2>1, <2>4
  <2>6. Waits(c)' = Waits(c)
    BY Zenon, <2>1 DEF Waits
  <2>7. QED BY Zenon, <1>1, <1>6, <2>1, <2>5, <2>6, AgreedMore
<1>11. CASE Emulates(c, p)
  <2>1. /\ UNCHANGED <<conn, m_xferSrvr, m_xferSckt, m_xferSize, m_req, m_resp, executed, lastCommand, ignored>>
        /\ p.kind \notin Commands
    BY Zenon, <1>11 DEF Emulates, xferVars, simVars, cmdVars
  <2>2. PICK q : q = [client |-> c, id |-> p.id, tag |-> p.tag, code |-> "OK",
                      val |-> IF p.kind = "get" THEN emulated' ELSE Reset]
    BY Zenon
  <2>3. q.id = p.id /\ q.tag = p.tag
    BY Zenon, <2>2
  <2>4. MayAnswer(c, q)
    BY Zenon, <1>3, <1>4, <2>1, <2>3 DEF MayAnswer, Tagged
  <2>5. \A t \in Waits(c)' : t \in Waits(c) \/ t = q
    BY Zenon, <1>11, <2>2, AnswerMoves DEF Emulates
  <2>6. Piped' = Piped
    BY Zenon, <2>1, PipeMoves
  <2>7. QED BY Zenon, <1>1, <1>6, <2>1, <2>4, <2>5, <2>6, AgreedMore
<1>12. QED BY Zenon, <1>7, <1>8, <1>9, <1>10, <1>11 DEF Handles

\* With one client, the simulator's responses are for it.
LEMMA ForwardMoves ==
  ASSUME OneClient, Types, NEW c \in Clients, DoResponse
  PROVE  /\ Elems(m_resp)' \subseteq Elems(m_resp) /\ Responses(c)' \subseteq Responses(c)
         /\ \A q \in Waits(c)' : q \in Waits(c) \/ q \in Elems(m_resp)
<1>1. m_resp \in Seq(Response) /\ m_respQueue \in Seq(Clients) /\ m_resp # <<>> /\ m_resp' = Tail(m_resp)
  BY Zenon DEF DoResponse, Types, ServerTypes
<1>2. Head(m_resp) \in Elems(m_resp) /\ Elems(Tail(m_resp)) \subseteq Elems(m_resp)
  BY Zenon, <1>1, TailFacts
<1>3. \A q \in Waits(c)' : q \in Waits(c) \/ q = Head(m_resp)
  <2>1. CASE m_respQueue = <<>>
    BY Zenon, <2>1 DEF DoResponse, Waits
  <2>2. CASE m_respQueue # <<>>
    <3>1. m_respQueue[Len(m_respQueue)] \in Clients
      BY <1>1, <2>2
    <3>2. m_respQueue[Len(m_respQueue)] = c
      BY Zenon, <3>1 DEF OneClient
    <3>3. Answers(m_respQueue[Len(m_respQueue)], Head(m_resp))
      BY Zenon, <2>2 DEF DoResponse, SendResponse, Answers
    <3>4. QED BY Zenon, <3>2, <3>3, AnswerMoves
  <2>3. QED BY Zenon, <2>1, <2>2
<1>4. QED BY Zenon, <1>1, <1>2, <1>3 DEF Responses

LEMMA AgreedRest ==
  ASSUME OneClient, Types, NEW c \in Clients, Sending(c), Agreed(c), UNCHANGED devVars,
         DoResponse \/ Simulate \/ Accept \/ DoXfer
  PROVE  Agreed(c)'
<1>1. request' = request /\ pc' = pc /\ m_failed' = m_failed /\ toServer' = toServer
      /\ executed' = executed /\ lastCommand' = lastCommand /\ m_xferSize' = m_xferSize
  BY Zenon DEF devVars, DoResponse, Simulate, Accept, DoXfer, cmdVars, xferVars
<1>2. Future(c)' = Future(c)
  BY Zenon, <1>1 DEF Future, OnWay
<1>3. ASSUME UNCHANGED <<conn, m_xferSrvr, m_xferSckt>> PROVE Transfer(c)'
  BY Zenon, <1>1, <1>2, <1>3 DEF Agreed, Transfer
<1>4. m_resp \in Seq(Response) /\ m_req \in Seq(Piece) /\ m_respQueue \in Seq(Clients)
  BY Zenon DEF Types, ServerTypes
<1>5. CASE DoResponse
  <2>1. /\ m_resp # <<>> /\ m_resp' = Tail(m_resp) /\ m_req' = m_req
        /\ UNCHANGED <<conn, m_xferSrvr, m_xferSckt>>
    BY Zenon, <1>5 DEF DoResponse, xferVars
  <2>2. Elems(m_resp)' \subseteq Elems(m_resp) /\ \A q \in Waits(c)' : q \in Waits(c) \/ q \in Elems(m_resp)
    BY Zenon, <1>5, ForwardMoves
  <2>3. Piped' = Piped
    BY Zenon, <2>1, PipeMoves
  <2>4. QED BY Zenon, <1>1, <1>2, <1>3, <2>1, <2>2, <2>3, AgreedMore
<1>6. CASE Simulate
  <2>1. /\ m_req # <<>> /\ m_req' = Tail(m_req) /\ UNCHANGED <<toClient, conn, m_xferSrvr, m_xferSckt>>
    BY Zenon, <1>6 DEF Simulate, xferVars
  <2>2. PICK p : p = Head(m_req).packet
    BY Zenon
  <2>3. Piped' \subseteq Piped /\ p \in Piped
    BY Zenon, <2>1, <2>2, PipeMoves
  <2>4. PICK x : m_resp' = Append(m_resp, x) /\ x.id = p.id /\ x.tag = p.tag
    <3>1. PICK code :
            m_resp' = Append(m_resp, [client |-> Head(m_req).client, id |-> p.id, tag |-> p.tag, code |-> code,
                                      val |-> IF p.kind = "get" THEN simulated' ELSE Reset])
      BY Zenon, <1>6, <2>2 DEF Simulate
    <3>2. PICK x : x = [client |-> Head(m_req).client, id |-> p.id, tag |-> p.tag, code |-> code,
                        val |-> IF p.kind = "get" THEN simulated' ELSE Reset]
      BY Zenon
    <3>3. x.id = p.id /\ x.tag = p.tag
      BY Zenon, <3>2
    <3>4. QED BY Zenon, <3>1, <3>2, <3>3
  <2>5. Elems(m_resp') = Elems(m_resp) \cup {x}
    BY <1>4, <2>4, AppendElems
  <2>6. \A q \in Elems(m_resp)' : q \in Elems(m_resp) \/ \E t \in Piped : q.id = t.id /\ q.tag = t.tag
    BY Zenon, <2>3, <2>4, <2>5
  <2>7. Waits(c)' = Waits(c)
    BY Zenon, <2>1 DEF Waits
  <2>8. QED BY Zenon, <1>1, <1>2, <1>3, <2>1, <2>3, <2>6, <2>7, AgreedMore
<1>7. CASE Accept \/ DoXfer
  <2>1. UNCHANGED <<toClient, m_req, m_resp>>
    BY Zenon, <1>7 DEF Accept, DoXfer, simVars
  <2>2. Piped' = Piped /\ Waits(c)' = Waits(c)
    BY Zenon, <2>1, PipeMoves DEF Waits
  <2>3. Transfer(c)'
    <3>1. "dropped" # "open" /\ "eof" # "open" /\ "none" # "open" /\ "done" # "open"
      OBVIOUS
    <3>2. CASE Accept
      <4>1. /\ conn = "open" /\ m_xferSrvr /\ ~ m_xferSrvr'
            /\ (m_xferSckt' = "open" /\ conn' = conn) \/ (conn' = "dropped" /\ m_xferSckt' = m_xferSckt)
        BY Zenon, <3>2 DEF Accept
      <4>2. QED BY Zenon, <1>1, <1>2, <3>1, <4>1 DEF Agreed, Transfer
    <3>3. CASE DoXfer
      <4>1. /\ m_xferSckt = "open" /\ m_xferSrvr' = m_xferSrvr
            /\ \/ conn' = conn /\ m_xferSckt' = m_xferSckt
               \/ m_xferSckt' = "none" /\ conn' = "dropped"
               \/ m_xferSckt' = "done" /\ conn' = "eof"
        BY Zenon, <3>3 DEF DoXfer
      <4>2. QED BY Zenon, <1>1, <1>2, <3>1, <4>1 DEF Agreed, Transfer
    <3>4. QED BY Zenon, <1>7, <3>2, <3>3
  <2>4. QED BY Zenon, <1>1, <1>2, <2>1, <2>2, <2>3, AgreedMore
<1>8. QED BY Zenon, <1>5, <1>6, <1>7

LEMMA AnswerStep ==
  ASSUME OneClient, FewRequests, Types, Waiting, SendInv, AnswerInv, [Next]_vars
  PROVE  AnswerInv'
<1>1. ASSUME NEW c \in Clients, Agreed(c)', ignored' = {} PROVE AnswerInv'
  BY Zenon, <1>1 DEF AnswerInv, OneClient
<1>2. ignored = {} /\ \A c \in Clients : Sending(c) /\ Agreed(c)
  BY Zenon DEF SendInv, AnswerInv
<1>3. ASSUME NEW c \in Clients, DeviceNext(c), UNCHANGED serverVars PROVE AnswerInv'
  <2>1. ignored' = {}
    BY Zenon, <1>2, <1>3 DEF serverVars, cmdVars
  <2>2. QED BY Zenon, <1>1, <1>2, <1>3, <2>1, AgreedClient
<1>4. ASSUME NEW c \in Clients, ReceiveExt(c), UNCHANGED devVars PROVE AnswerInv'
  <2>1. PICK p : Takes(c, p) /\ Handles(c, p)
    BY Zenon, <1>4, ServerCases
  <2>2. QED BY Zenon, <1>1, <1>2, <1>4, <2>1, AgreedHandles
<1>5. CASE (DoResponse \/ Simulate \/ Accept \/ DoXfer) /\ UNCHANGED devVars
  <2>1. ignored' = {}
    BY Zenon, <1>2, <1>5 DEF DoResponse, Simulate, Accept, DoXfer, cmdVars
  <2>2. \A c \in Clients : Agreed(c)'
    BY Zenon, <1>2, <1>5, AgreedRest
  <2>3. QED BY Zenon, <2>1, <2>2 DEF AnswerInv
<1>6. CASE UNCHANGED vars
  <2>1. UNCHANGED <<toServer, toClient, conn, pc, request, m_failed, m_req, m_resp, executed, lastCommand, ignored,
                    m_xferSrvr, m_xferSckt, m_xferSize>>
    BY Zenon, <1>6 DEF vars, netVars, devVars, serverVars, simVars, cmdVars, xferVars
  <2>2. ASSUME NEW c \in Clients PROVE Agreed(c)'
    <3>1. /\ Future(c)' = Future(c) /\ Piped' = Piped /\ Waits(c)' = Waits(c) /\ Responses(c)' = Responses(c)
          /\ Settled(c)' <=> Settled(c)
          /\ Elems(m_resp)' = Elems(m_resp) /\ request'[c] = request[c]
      BY Zenon, <2>1, PipeMoves DEF Future, OnWay, Waits, Responses, Settled
    <3>2. Numbered(c)'
      BY Zenon, <1>2, <2>1, <3>1 DEF Agreed, Numbered, Tagged
    <3>3. Answered(c)'
      BY Zenon, <1>2, <2>1, <3>1 DEF Agreed, Answered, Done, Tagged
    <3>4. Transfer(c)'
      BY Zenon, <1>2, <2>1, <3>1 DEF Agreed, Transfer
    <3>5. QED BY Zenon, <3>2, <3>3, <3>4 DEF Agreed
  <2>3. QED BY Zenon, <1>2, <2>1, <2>2 DEF AnswerInv
<1>7. QED BY Zenon, <1>3, <1>4, <1>5, <1>6 DEF Next, ServerNext

LEMMA AnswerInit ==
  ASSUME Init
  PROVE  AnswerInv
<1>1. /\ toServer = [c \in Clients |-> <<>>] /\ toClient = [c \in Clients |-> <<>>] /\ m_req = <<>> /\ m_resp = <<>>
      /\ request = [c \in Clients |-> [id |-> 0, tag |-> 0, kind |-> "get", val |-> Reset]]
      /\ pc = [c \in Clients |-> "idle"] /\ conn = "none" /\ ignored = {}
      /\ lastCommand = [have |-> FALSE, id |-> 0, val |-> "O"] /\ m_xferSrvr = FALSE /\ m_xferSckt = "none"
  BY Zenon DEF Init, DeviceInit, ServerInit
<1>2. ASSUME NEW c \in Clients PROVE Agreed(c)
  <2>1. toServer[c] = <<>> /\ toClient[c] = <<>> /\ pc[c] = "idle"
        /\ request[c] = [id |-> 0, tag |-> 0, kind |-> "get", val |-> Reset]
    BY Zenon, <1>1
  <2>2. OnWay(c) = {} /\ Waits(c) = {} /\ Elems(m_resp) = {} /\ Piped = {}
    BY <1>1, <2>1 DEF OnWay, Waits, Elems, Piped
  <2>3. Future(c) = {request[c]} /\ Responses(c) = {}
    BY Zenon, <2>2 DEF Future, Responses
  <2>4. request[c].id = 0 /\ request[c].tag = 0 /\ request[c].kind = "get"
    BY <2>1
  <2>5. "get" \notin Commands /\ "get" # "R"
    BY DEF Commands
  <2>6. request[c].id <= MaxRequests /\ Tagged(request[c])
    BY <2>4, DeviceAssumption DEF Tagged
  <2>7. Numbered(c)
    BY Zenon, <2>2, <2>3, <2>6 DEF Numbered
  <2>8. ~ lastCommand.have
    BY Zenon, <1>1
  <2>9. Answered(c)
    BY Zenon, <2>2, <2>3, <2>4, <2>5, <2>8 DEF Answered
  <2>10. pc[c] \notin {"transfer", "sent"} /\ conn # "open" /\ m_xferSckt # "open"
    BY <1>1, <2>1
  <2>11. Transfer(c)
    BY Zenon, <1>1, <2>3, <2>4, <2>5, <2>10 DEF Transfer
  <2>12. QED BY Zenon, <2>7, <2>9, <2>11 DEF Agreed
<1>3. QED BY Zenon, <1>1, <1>2 DEF AnswerInv

LEMMA AnswerHolds == ASSUME OneClient, FewRequests PROVE Spec => [](Types /\ Waiting /\ SendInv /\ AnswerInv)
<1>1. Init => AnswerInv
  BY Zenon, AnswerInit
<1>2. Types /\ Waiting /\ SendInv /\ AnswerInv /\ [Next]_vars => AnswerInv'
  BY Zenon, AnswerStep
<1>3. QED BY <1>1, <1>2, SendHolds, PTL DEF Spec

\* With one client that makes no more requests than there are tags, the
\* server never leaves R without an answer: R is sent after the transfer's
\* connection was closed, so that the server has accepted or given it up.
THEOREM RunIsAnswered == ASSUME OneClient, FewRequests PROVE Spec => []RunAnswered
<1>1. AnswerInv => RunAnswered
  BY Zenon DEF AnswerInv, RunAnswered
<1>2. QED BY <1>1, AnswerHolds, PTL

\* What a step may do to the client's answer.
LEMMA AnswerKept ==
  ASSUME OneClient, FewRequests, Types, AnswerInv, [Next]_vars, NEW c \in Clients, Returns(c)
  PROVE  /\ Accepts(c) /\ answer'[c] = Head(toClient[c]) /\ Head(toClient[c]) \in Waits(c)
         /\ Head(toClient[c]).code = "OK" /\ Head(toClient[c]).client = c /\ Head(toClient[c]).id = request[c].id
<1>0. answer \in [Clients -> Response \cup {NoAnswer}] /\ answer'[c] # NoAnswer
  BY Zenon DEF Types, ClientTypes, Returns
<1>1. answer' # answer
  BY Zenon DEF Returns
<1>2. PICK d \in Clients : DeviceNext(d)
  BY Zenon, <1>1 DEF Next, vars, devVars
<1>3. d = c
  BY Zenon, <1>2 DEF OneClient
<1>4. Accepts(c)
  <2>1. ~ Retries(c) /\ ~ Ignores(c) /\ ~ SendFile(c) /\ ~ Throws(c)
    BY Zenon, <1>1 DEF Retries, Ignores, SendFile, Throws
  <2>2. ~ Starts(c)
    BY Zenon, <1>0 DEF Starts, Begin
  <2>3. QED BY Zenon, <1>2, <1>3, <2>1, <2>2, DeviceCases
<1>5. /\ Drops(c) /\ Head(toClient[c]).tag = request[c].tag /\ Head(toClient[c]).code = "OK"
      /\ answer' = [answer EXCEPT ![c] = Head(toClient[c])]
  BY Zenon, <1>4 DEF Accepts, Return
<1>6. answer'[c] = Head(toClient[c])
  BY Zenon, <1>0, <1>5
<1>7. Head(toClient[c]) \in Waits(c) /\ Head(toClient[c]) \in Response
  BY Zenon, <1>5, DropMoves, DropTypes
<1>8. Head(toClient[c]).client \in Clients
  BY <1>7 DEF Response
<1>9. Head(toClient[c]).client = c
  BY Zenon, <1>8 DEF OneClient
<1>10. Head(toClient[c]).id = request[c].id
  BY Zenon, <1>5, <1>7, OwnAnswer DEF AnswerInv
<1>11. QED BY Zenon, <1>4, <1>5, <1>6, <1>7, <1>9, <1>10

\* With one client that makes no more requests than there are tags, a request
\* returns with the response to it, whatever was lost, late or repeated.
THEOREM AnswersOwnRequest == ASSUME OneClient, FewRequests PROVE Spec => AnswersRequest
<1> DEFINE Own == \A c \in Clients :
       Returns(c) => answer'[c].client = c /\ answer'[c].id = request[c].id
<1>1. Types /\ AnswerInv /\ [Next]_vars => Own
  BY Zenon, AnswerKept
<1>2. Types /\ AnswerInv /\ [Next]_vars => [Own]_vars
  BY Zenon, <1>1
<1> HIDE DEF Own
<1>3. Spec => [][Own]_vars
  BY <1>2, AnswerHolds, PTL DEF Spec
<1>4. QED BY <1>3, PTL DEF AnswersRequest, Own

-----------------------------------------------------------------------------
(* What the register holds, and what the client knows of it.                *)

Stream(c) == OnWay(c) \cup Piped
Register == IF running THEN simulated ELSE emulated

\* The request was executed, or a response to it is on its way.
Handled(c) == Done(c, request[c]) \/ \E p \in Responses(c) : p.id = request[c].id

\* Register accesses reach the register in the order of their requests: the
\* simulator's pipe is ahead of the network, and empty when nobody reads it.
\* Once a request was handled, nothing older is on its way, but what a flush
\* leaves in the simulator's hand.
Piping(c) ==
  /\ ~ running => m_req = <<>>
  /\ \A i, j \in 1 .. Len(m_req) : i <= j => m_req[i].packet.id <= m_req[j].packet.id
  /\ \A p \in Piped : \A q \in OnWay(c) : p.id <= q.id
  /\ Handled(c) => /\ \A q \in OnWay(c) : q.id = request[c].id
                   /\ request[c].kind # "F" => \A q \in Piped : q.id = request[c].id

\* A response to the request says what the register holds.
Fits(c, p) ==
  p.id = request[c].id =>
    /\ request[c].kind = "get" => p.val = Register
    /\ request[c].kind = "set" => Register = request[c].val
    /\ request[c].kind = "R" /\ p.val = "O" => Register = Reset

\* The register holds what the client knows of, and so it is when packets on
\* their way are handled.
Holding(c) ==
  /\ known[c] \subseteq Values /\ Register \in known[c]
  /\ \A p \in Stream(c) : p.kind = "set" => p.val \in known[c]
  /\ request[c].kind = "set" => request[c].val \in known[c]
  /\ \A p \in Responses(c) : p.code = "OK" => Fits(c, p)
  /\ lastCommand.have /\ lastCommand.id = request[c].id /\ request[c].kind = "R" /\ lastCommand.val = "O" =>
       Register = Reset
  /\ request[c].kind = "L" => known[c] = Values
  /\ request[c].kind = "R" /\ ~ Done(c, request[c]) => known[c] = Values /\ ~ running
  /\ request[c].kind = "R" /\ pc[c] = "receiving" => known[c] = Values
  /\ request[c].kind = "L" /\ Done(c, request[c]) => ~ running

ReadInv == \A c \in Clients : Piping(c) /\ Holding(c)

\* Equal numbers mean equal packets, also in the pipe.
LEMMA StreamRequest ==
  ASSUME NEW c \in Clients, Sending(c), Agreed(c)
  PROVE  \A q \in Stream(c) : q.id = request[c].id => q = request[c]
BY Zenon DEF Stream, Sending, Future, Agreed, Numbered

LEMMA StreamNumbers ==
  ASSUME Types, NEW c \in Clients, Sending(c), Agreed(c)
  PROVE  /\ request[c] \in Request /\ request[c].id \in Nat
         /\ \A q \in Stream(c) : q.id \in 1 .. request[c].id /\ q.id \in Nat /\ q.id <= request[c].id
         /\ \A q \in Responses(c) : q.id \in 1 .. request[c].id
<1>1. request[c] \in Request
  BY Zenon DEF Types, ClientTypes
<1>2. request[c].id \in Nat
  BY <1>1 DEF Request
<1>3. \A q \in Stream(c) : q.id \in 1 .. request[c].id
  BY Zenon DEF Stream, Sending, Agreed, Numbered
<1>4. \A q \in Responses(c) : q.id \in 1 .. request[c].id
  BY Zenon DEF Agreed, Numbered
<1>5. \A q \in Stream(c) : q.id \in Nat /\ q.id <= request[c].id
  BY <1>2, <1>3
<1>6. QED BY Zenon, <1>1, <1>2, <1>3, <1>4, <1>5

\* Steps that add no packet, or the request again, and no response.
LEMMA PipingFewer ==
  ASSUME Types, NEW c \in Clients, Sending(c), Agreed(c), Piping(c),
         request'[c] = request[c], executed' = executed, m_req' = m_req, running' = running,
         OnWay(c)' \subseteq Future(c), Responses(c)' \subseteq Responses(c)
  PROVE  Piping(c)'
<1>1. Piped' = Piped
  BY Zenon, PipeMoves
<1>2. \A p \in Piped' : \A q \in OnWay(c)' : p.id <= q.id
  <2>1. \A p \in Piped : p.id <= request[c].id
    BY Zenon, StreamNumbers DEF Stream
  <2>2. QED BY Zenon, <1>1, <2>1 DEF Future, Piping
<1>3. Handled(c)' => Handled(c)
  BY Zenon DEF Handled, Done
<1>4. Handled(c)' => /\ \A q \in OnWay(c)' : q.id = request[c].id
                     /\ request[c].kind # "F" => \A q \in Piped' : q.id = request[c].id
  BY Zenon, <1>1, <1>3 DEF Piping, Future
<1>5. QED BY Zenon, <1>2, <1>4 DEF Piping

LEMMA HoldingFewer ==
  ASSUME Types, NEW c \in Clients, Holding(c), UNCHANGED <<executed, m_req, running, simulated, emulated, lastCommand>>,
         request'[c] = request[c], known'[c] = known[c],
         OnWay(c)' \subseteq Future(c), Responses(c)' \subseteq Responses(c),
         pc'[c] = "receiving" => pc[c] = "receiving"
  PROVE  Holding(c)'
<1>1. Piped' = Piped /\ Register' = Register
  BY Zenon, PipeMoves DEF Register
<1>2. \A p \in Stream(c)' : p.kind = "set" => p.val \in known[c]
  BY Zenon, <1>1 DEF Stream, Future, Holding
<1>3. \A p : Fits(c, p)' <=> Fits(c, p)
  BY Zenon, <1>1 DEF Fits
<1>4. \A p \in Responses(c)' : p.code = "OK" => Fits(c, p)'
  BY Zenon, <1>3 DEF Holding
<1>5. QED BY Zenon, <1>1, <1>2, <1>4 DEF Holding, Done

LEMMA ReadStarts ==
  ASSUME Types, NEW c \in Clients, Sending(c), Agreed(c), Piping(c), Holding(c), UNCHANGED serverVars, Starts(c)
  PROVE  Piping(c)' /\ Holding(c)'
<1>1. PICK kind \in Kinds, v \in Values :
        Begin(c, kind, v) /\ IF kind = "R" THEN pc[c] = "sent" ELSE pc[c] = "idle"
  BY Zenon DEF Starts
<1> DEFINE r == NewRequest(c, kind, v)
<1>2. /\ r \in Request /\ r.id = request[c].id + 1 /\ r.id \in Nat
      /\ \A p \in Future(c) : p \in Request /\ p.id <= request[c].id /\ p.id <= r.id /\ p.id # r.id
      /\ \A e \in executed : e[2] <= r.id /\ e[2] # r.id
  BY Zenon, NewNumber DEF IsNew
<1>3. /\ request \in [Clients -> Request] /\ request' = [request EXCEPT ![c] = r] /\ Attempt(c, r, 0)
      /\ toClient' = toClient /\ known \in [Clients -> SUBSET (Values \cup Results)]
      /\ known' = [known EXCEPT ![c] = CASE kind = "set" -> @ \cup {v}
                                         [] kind \in {"L", "R"} -> Values
                                         [] OTHER -> @]
  BY Zenon, <1>1 DEF Begin, NewRequest, Types, ClientTypes
<1>4. request'[c] = r /\ request[c] \in Request
  BY Zenon, <1>3
<1>5. r.kind = kind /\ r.val = v
  BY Zenon DEF NewRequest
<1> HIDE DEF r
<1>6. /\ UNCHANGED <<m_req, m_resp, running, simulated, emulated, executed, lastCommand>>
      /\ Piped' = Piped /\ Register' = Register /\ Waits(c)' = Waits(c)
  <2>1. UNCHANGED <<m_req, m_resp, running, simulated, emulated, executed, lastCommand>>
    BY Zenon DEF serverVars, simVars, cmdVars
  <2>2. QED BY Zenon, <1>3, <2>1, PipeMoves DEF Register, Waits
<1>7. Responses(c)' = Responses(c)
  BY Zenon, <1>6 DEF Responses
<1>8. OnWay(c)' \subseteq OnWay(c) \cup {r}
  <2>1. \A p \in OnWay(c) : p \in Future(c)
    BY Zenon DEF Future
  <2>2. QED BY Zenon, <1>2, <1>3, <2>1, AttemptMoves DEF Sending
<1>9. request[c].id \in Nat /\ \A i \in 1 .. request[c].id : i <= r.id /\ i # r.id
  <2>1. request[c].id \in Nat
    BY <1>4 DEF Request
  <2>2. QED BY <1>2, <2>1
<1>10. <<c, r.id>> \notin executed' /\ ~ Handled(c)'
  <2>1. <<c, r.id>>[2] = r.id
    OBVIOUS
  <2>2. <<c, r.id>> \notin executed
    BY Zenon, <1>2, <2>1
  <2>3. \A p \in Responses(c) : p.id # r.id
    BY Zenon, <1>9, StreamNumbers
  <2>4. QED BY Zenon, <1>4, <1>6, <1>7, <2>2, <2>3 DEF Done, Handled
<1>11. Piping(c)'
  <2>1. \A p \in Piped : p.id <= r.id
    BY Zenon, <1>9, StreamNumbers DEF Stream
  <2>2. \A p \in Piped' : \A q \in OnWay(c)' : p.id <= q.id
    BY Zenon, <1>6, <1>8, <2>1 DEF Piping
  <2>3. QED BY Zenon, <1>6, <1>10, <2>2 DEF Piping
<1>12. /\ known'[c] \subseteq Values /\ known[c] \subseteq known'[c]
       /\ kind = "set" => v \in known'[c]
       /\ kind \in {"L", "R"} => known'[c] = Values
  <2>1. known'[c] = CASE kind = "set" -> known[c] \cup {v}
                      [] kind \in {"L", "R"} -> Values
                      [] OTHER -> known[c]
    BY Zenon, <1>3
  <2>2. known[c] \subseteq Values
    BY Zenon DEF Holding
  <2>3. QED BY <2>1, <2>2
<1>13. Holding(c)'
  <2>1. "L" \in {"L", "R"} /\ "R" \in {"L", "R"} /\ "L" \in Commands /\ "sent" \in {"transfer", "sent"}
    BY DEF Commands
  <2>2. \A p \in Stream(c)' : p.kind = "set" => p.val \in known'[c]
    BY Zenon, <1>5, <1>6, <1>8, <1>12 DEF Stream, Holding
  <2>3. \A p \in Responses(c)' : p.id # r.id
    BY Zenon, <1>7, <1>9, StreamNumbers
  <2>4. lastCommand.have => lastCommand.id # r.id
    BY Zenon, <1>9 DEF Agreed, Answered
  <2>5. r.kind = "R" => ~ running
    <3>1. SUFFICES ASSUME kind = "R" PROVE ~ running
      BY Zenon, <1>5
    <3>2. pc[c] \in {"transfer", "sent"} /\ request[c] \in Future(c)
      BY Zenon, <1>1, <2>1, <3>1 DEF Future
    <3>3. request[c].kind = "L" /\ Settled(c)
      BY Zenon, <3>2 DEF Agreed, Transfer, Settled
    <3>4. Done(c, request[c])
      BY Zenon, <2>1, <3>2, <3>3 DEF Agreed, Answered
    <3>5. QED BY Zenon, <3>3, <3>4 DEF Holding
  <2>6. Register' \in known'[c]
    BY Zenon, <1>6, <1>12 DEF Holding
  <2>7. \A p \in Responses(c)' : Fits(c, p)'
    BY Zenon, <1>4, <2>3 DEF Fits
  <2>8. QED BY Zenon, <1>4, <1>5, <1>6, <1>10, <1>12, <2>1, <2>2, <2>4, <2>5, <2>6, <2>7 DEF Holding, Done
<1>14. QED BY Zenon, <1>11, <1>13

LEMMA ReadReturns ==
  ASSUME FewRequests, Types, NEW c \in Clients, Sending(c), Agreed(c), Piping(c), Holding(c),
         UNCHANGED serverVars, Accepts(c)
  PROVE  Piping(c)' /\ Holding(c)'
<1>1. /\ UNCHANGED <<toServer, request>> /\ Drops(c) /\ pc[c] = "receiving" /\ Head(toClient[c]).tag = request[c].tag
      /\ Head(toClient[c]).code = "OK"
  BY Zenon DEF Accepts
<1>2. PICK p : p = Head(toClient[c])
  BY Zenon
<1>3. p \in Waits(c) /\ p.id = request[c].id /\ p.code = "OK" /\ Waits(c)' \subseteq Waits(c)
  BY Zenon, <1>1, <1>2, DropMoves, OwnAnswer
<1>4. /\ UNCHANGED <<m_req, m_resp, running, simulated, emulated, executed, lastCommand>>
      /\ Piped' = Piped /\ Register' = Register
  <2>1. UNCHANGED <<m_req, m_resp, running, simulated, emulated, executed, lastCommand>>
    BY Zenon DEF serverVars, simVars, cmdVars
  <2>2. QED BY Zenon, <2>1, PipeMoves DEF Register
<1>5. /\ Responses(c)' \subseteq Responses(c) /\ OnWay(c)' = OnWay(c) /\ OnWay(c) \subseteq Future(c)
      /\ Stream(c)' = Stream(c)
  BY Zenon, <1>1, <1>3, <1>4 DEF Responses, OnWay, Future, Stream
<1>6. Piping(c)'
  BY Zenon, <1>1, <1>4, <1>5, PipingFewer
<1>7. Fits(c, p) /\ Handled(c)
  BY Zenon, <1>3 DEF Holding, Handled, Responses
<1>8. request[c].kind # "F" => \A q \in Stream(c) : q = request[c]
  BY Zenon, <1>7, StreamRequest DEF Piping, Stream
<1>9. known'[c] = CASE request[c].kind = "get" -> {p.val}
                    [] request[c].kind = "set" -> {request[c].val}
                    [] request[c].kind = "R" /\ p.val = "O" -> {Reset}
                    [] OTHER -> known[c]
  <2>1. known \in [Clients -> SUBSET (Values \cup Results)]
    BY Zenon DEF Types, ClientTypes
  <2>2. QED BY Zenon, <1>2, <2>1 DEF Accepts, Return
<1>10. request[c].kind = "R" => pc'[c] # "receiving" /\ Done(c, request[c])
  <2>1. pc \in [Clients -> {"idle", "receiving", "transfer", "sent"}] /\ "idle" # "receiving" /\ "transfer" # "receiving"
    BY Zenon DEF Types, ClientTypes
  <2>2. pc'[c] = "idle" \/ pc'[c] = "transfer"
    BY Zenon, <2>1 DEF Accepts, Return
  <2>3. "R" \in Commands
    BY DEF Commands
  <2>4. request[c].kind = "R" => Done(c, request[c])
    BY Zenon, <1>3, <2>3 DEF Agreed, Answered, Done
  <2>5. QED BY Zenon, <2>1, <2>2, <2>4
<1>11. Register \in Values /\ Register \in known[c] /\ known[c] \subseteq Values
  BY Zenon DEF Holding
<1>12. "get" # "set" /\ "get" # "R" /\ "get" # "L" /\ "set" # "R" /\ "set" # "L" /\ "R" # "L"
  OBVIOUS
<1>13. /\ known'[c] \subseteq Values /\ Register \in known'[c]
       /\ request[c].kind = "set" => request[c].val \in known'[c]
       /\ request[c].kind = "L" => known'[c] = known[c]
  <2>1. CASE request[c].kind = "get"
    <3>1. known'[c] = {p.val} /\ p.val = Register
      BY <1>3, <1>7, <1>9, <2>1 DEF Fits
    <3>2. QED BY Zenon, <1>11, <1>12, <2>1, <3>1
  <2>2. CASE request[c].kind = "set"
    <3>1. known'[c] = {request[c].val} /\ request[c].val = Register
      BY <1>3, <1>7, <1>9, <2>2 DEF Fits
    <3>2. QED BY Zenon, <1>11, <1>12, <2>2, <3>1
  <2>3. CASE request[c].kind = "R" /\ p.val = "O"
    <3>1. known'[c] = {Reset} /\ Reset = Register
      BY <1>3, <1>7, <1>9, <2>3 DEF Fits
    <3>2. QED BY Zenon, <1>11, <1>12, <2>3, <3>1
  <2>4. CASE request[c].kind # "get" /\ request[c].kind # "set" /\ ~ (request[c].kind = "R" /\ p.val = "O")
    <3>1. known'[c] = known[c]
      BY <1>9, <2>4
    <3>2. QED BY Zenon, <1>11, <2>4, <3>1
  <2>5. QED BY Zenon, <2>1, <2>2, <2>3, <2>4
<1>14. request'[c] = request[c]
  BY Zenon, <1>1
<1>15. \A q \in Responses(c)' : q.code = "OK" => Fits(c, q)'
  BY Zenon, <1>4, <1>5, <1>14 DEF Holding, Fits
<1>16. \A q \in Stream(c)' : q.kind = "set" => q.val \in known'[c]
  <2>1. CASE request[c].kind = "F"
    <3>1. known'[c] = known[c]
      BY <1>9, <2>1
    <3>2. QED BY Zenon, <1>5, <3>1 DEF Holding
  <2>2. CASE request[c].kind # "F"
    BY Zenon, <1>5, <1>8, <1>13, <2>2
  <2>3. QED BY Zenon, <2>1, <2>2
<1>17. Holding(c)'
  BY Zenon, <1>4, <1>10, <1>13, <1>14, <1>15, <1>16 DEF Holding, Done
<1>18. QED BY Zenon, <1>6, <1>17

LEMMA ReadClient ==
  ASSUME FewRequests, Types, NEW c \in Clients, Sending(c), Agreed(c), Piping(c), Holding(c),
         UNCHANGED serverVars, DeviceNext(c)
  PROVE  Piping(c)' /\ Holding(c)'
<1>1. CASE Starts(c)
  BY Zenon, <1>1, ReadStarts
<1>2. CASE Accepts(c)
  BY Zenon, <1>2, ReadReturns
<1>3. UNCHANGED <<m_req, m_resp, running, simulated, emulated, executed, lastCommand>>
  BY Zenon DEF serverVars, simVars, cmdVars
<1>4. toClient' = toClient \/ Drops(c) => Responses(c)' \subseteq Responses(c)
  <2>1. toClient' = toClient \/ Drops(c) => Waits(c)' \subseteq Waits(c)
    BY Zenon, DropMoves DEF Waits
  <2>2. QED BY Zenon, <1>3, <2>1 DEF Responses
<1>5. /\ pc \in [Clients -> {"idle", "receiving", "transfer", "sent"}]
      /\ request[c] \in Request
  BY Zenon DEF Types, ClientTypes
<1>6. ASSUME UNCHANGED <<request, known>>, OnWay(c)' \subseteq Future(c), toClient' = toClient \/ Drops(c),
             pc'[c] = "receiving" => pc[c] = "receiving"
      PROVE  Piping(c)' /\ Holding(c)'
  <2>1. request'[c] = request[c] /\ known'[c] = known[c] /\ Responses(c)' \subseteq Responses(c)
    BY Zenon, <1>4, <1>6
  <2>2. Piping(c)'
    BY Zenon, <1>3, <1>6, <2>1, PipingFewer
  <2>3. Holding(c)'
    BY Zenon, <1>3, <1>6, <2>1, HoldingFewer
  <2>4. QED BY Zenon, <2>2, <2>3
<1>7. CASE Retries(c)
  <2>1. request' = request /\ known' = known /\ pc[c] = "receiving" /\ Attempt(c, request[c], n[c])
        /\ (toClient' = toClient \/ Drops(c))
    BY Zenon, <1>7 DEF Retries
  <2>2. \A p \in OnWay(c) : p.id <= request[c].id
    BY Zenon, StreamNumbers DEF Stream
  <2>3. OnWay(c)' \subseteq Future(c)
    BY Zenon, <1>5, <2>1, <2>2, AttemptMoves DEF Sending, Future
  <2>4. QED BY Zenon, <1>6, <2>1, <2>3
<1>8. CASE Ignores(c) \/ SendFile(c) \/ Throws(c)
  <2>1. UNCHANGED <<request, known, toServer>> /\ (toClient' = toClient \/ Drops(c))
    BY Zenon, <1>8 DEF Ignores, SendFile, Throws
  <2>2. OnWay(c)' \subseteq Future(c)
    BY Zenon, <2>1 DEF OnWay, Future
  <2>3. pc'[c] = "receiving" => pc[c] = "receiving"
    <3>1. "sent" # "receiving" /\ "idle" # "receiving"
      OBVIOUS
    <3>2. QED BY Zenon, <1>5, <1>8, <3>1 DEF Ignores, SendFile, Throws
  <2>4. QED BY Zenon, <1>6, <2>1, <2>2, <2>3
<1>9. QED BY Zenon, <1>1, <1>2, <1>7, <1>8, DeviceCases

\* A server step leaves the client alone.
ClientSame(c) == request'[c] = request[c] /\ known'[c] = known[c] /\ pc'[c] = pc[c]

LEMMA ClientKept ==
  ASSUME UNCHANGED devVars, NEW c
  PROVE  ClientSame(c)
BY Zenon DEF devVars, ClientSame

LEMMA ReadReplays ==
  ASSUME FewRequests, Types, NEW c \in Clients, Sending(c), Agreed(c), Piping(c), Holding(c), UNCHANGED devVars,
         NEW p, Takes(c, p), Replays(c, p)
  PROVE  Piping(c)' /\ Holding(c)'
<1>1. p \in OnWay(c) /\ OnWay(c)' \subseteq OnWay(c) /\ ClientSame(c)
  BY Zenon, Arrives, ClientKept
<1>2. /\ UNCHANGED <<m_req, m_resp, running, simulated, emulated, executed, lastCommand>>
      /\ lastCommand.have /\ lastCommand.tag = p.tag /\ p.kind \in Commands
  BY Zenon DEF Replays, simVars, cmdVars, Fresh
<1>3. Piped' = Piped /\ Register' = Register
  BY Zenon, <1>2, PipeMoves DEF Register
<1>4. PICK q : q = [client |-> c, id |-> lastCommand.id, tag |-> lastCommand.tag, code |-> "OK", val |-> lastCommand.val]
  BY Zenon
<1>5. q.id = lastCommand.id /\ q.val = lastCommand.val
  BY Zenon, <1>4
<1>6. \A t \in Responses(c)' : t \in Responses(c) \/ t = q
  <2>1. \A t \in Waits(c)' : t \in Waits(c) \/ t = q
    BY Zenon, <1>4, AnswerMoves DEF Replays
  <2>2. QED BY Zenon, <1>2, <2>1 DEF Responses
<1>7. lastCommand.id = p.id
  <2>1. p \in Future(c)
    BY Zenon, <1>1 DEF Future
  <2>2. /\ request[c].id \in Nat /\ request[c].id <= MaxRequests /\ p.id \in 1 .. request[c].id /\ Tagged(p)
        /\ lastCommand.id \in 1 .. request[c].id /\ Tagged(lastCommand)
    BY Zenon, <1>1, <1>2, <2>1, StreamNumbers DEF Sending, Agreed, Numbered, Answered
  <2>3. QED BY Zenon, <1>2, <2>2, SameTag
<1>8. q.id = request[c].id => Done(c, request[c]) /\ request[c].kind \in Commands
  <2>1. p.id = request[c].id => p = request[c]
    BY Zenon, <1>1, StreamRequest DEF Stream
  <2>2. QED BY Zenon, <1>2, <1>5, <1>7, <2>1 DEF Agreed, Answered, Done
<1>9. Handled(c)' => Handled(c)
  BY Zenon, <1>1, <1>2, <1>6, <1>8 DEF Handled, Done, ClientSame
<1>10. \A t \in Stream(c)' : t \in Stream(c)
  BY Zenon, <1>1, <1>3 DEF Stream
<1>11. Piping(c)'
  BY Zenon, <1>1, <1>2, <1>3, <1>9, <1>10 DEF Piping, ClientSame
<1>12. Fits(c, q)
  <2>1. "get" \notin Commands /\ "set" \notin Commands
    BY DEF Commands
  <2>2. QED BY Zenon, <1>2, <1>5, <1>8, <2>1 DEF Fits, Holding
<1>13. \A t \in Responses(c)' : t.code = "OK" => Fits(c, t)'
  BY Zenon, <1>1, <1>3, <1>6, <1>12 DEF Holding, Fits, ClientSame
<1>14. Holding(c)'
  BY Zenon, <1>1, <1>2, <1>3, <1>10, <1>13 DEF Holding, Done, ClientSame
<1>15. QED BY Zenon, <1>11, <1>14

LEMMA ReadExecutes ==
  ASSUME Types, NEW c \in Clients, Sending(c), Agreed(c), Piping(c), Holding(c), UNCHANGED devVars,
         NEW p, Takes(c, p), NEW result \in Results, Executes(c, p, result)
  PROVE  Piping(c)' /\ Holding(c)'
<1>1. /\ p = request[c] /\ (\A q \in Future(c) : q = p) /\ OnWay(c)' \subseteq OnWay(c) /\ ClientSame(c)
      /\ p.kind \in Commands
  BY Zenon, FreshIsRequest, Arrives, ClientKept DEF Executes
<1>2. ~ Done(c, request[c])
  BY Zenon, <1>1 DEF Executes, Sending, Future
<1>3. /\ \/ p.kind = "F" /\ result = "O" /\ DoFlush
         \/ p.kind = "L" /\ DoLoad(result)
         \/ p.kind = "R" /\ DoRun(result)
      /\ executed' = executed \cup {<<c, p.id>>} /\ emulated' = emulated
      /\ lastCommand' = [have |-> TRUE, client |-> c, id |-> p.id, tag |-> p.tag, val |-> result]
  BY Zenon DEF Executes
<1>4. running \in BOOLEAN /\ emulated \in Values /\ simulated \in Values /\ Reset \in Values
  BY Zenon, NetAssumption DEF Types, ServerTypes
<1>5. /\ \/ m_req' = <<>> /\ m_resp' = <<>>
         \/ m_req' = <<Head(m_req)>> /\ m_resp' = <<>> /\ p.kind = "F" /\ running /\ m_req # <<>>
         \/ UNCHANGED <<m_req, m_resp>> /\ (p.kind = "L" => ~ running) /\ p.kind # "F"
      /\ running' = IF p.kind = "L" THEN FALSE ELSE IF p.kind = "R" /\ result = "O" THEN TRUE ELSE running
      /\ simulated' = IF p.kind = "R" /\ result = "O" THEN Reset ELSE simulated
  BY Zenon, <1>3, <1>4, CommandEffect
<1>6. p.kind = "F" \/ p.kind = "L" \/ p.kind = "R"
  BY Zenon, <1>3
<1>7. p.kind = "R" => known[c] = Values /\ ~ running
  BY Zenon, <1>1, <1>2 DEF Holding
<1>8. m_req' = <<>> \/ (m_req' = <<Head(m_req)>> /\ p.kind = "F" /\ running /\ running' /\ m_req # <<>>)
  <2>1. CASE UNCHANGED <<m_req, m_resp>> /\ ~ running
    BY Zenon, <2>1 DEF Piping
  <2>2. "F" # "L" /\ "F" # "R"
    OBVIOUS
  <2>3. QED BY Zenon, <1>5, <1>6, <1>7, <2>1, <2>2
<1>9. /\ Piped' \subseteq Piped /\ (p.kind # "F" => Piped' = {})
      /\ \A i, j \in 1 .. Len(m_req') : i <= j => m_req'[i].packet.id <= m_req'[j].packet.id
  <2>1. CASE m_req' = <<>>
    BY <2>1, PipeMoves
  <2>2. CASE m_req' = <<Head(m_req)>> /\ p.kind = "F" /\ m_req # <<>>
    <3>1. m_req \in Seq(Piece)
      BY Zenon DEF Types, ServerTypes
    <3>2. Head(m_req).packet.id \in Nat
      <4>1. Head(m_req) \in Piece
        BY Zenon, <2>2, <3>1, TailFacts
      <4>2. Head(m_req).packet \in Request
        BY <4>1 DEF Piece
      <4>3. QED BY <4>2 DEF Request
    <3>3. \A i, j \in 1 .. Len(m_req') : i <= j => m_req'[i].packet.id <= m_req'[j].packet.id
      BY <2>2, <3>2
    <3>4. QED BY Zenon, <2>2, <3>3, PipeMoves
  <2>3. QED BY Zenon, <1>8, <2>1, <2>2
<1>10. (\A q \in OnWay(c)' : q = p) /\ \A q \in Stream(c)' : q \in Stream(c)
  BY Zenon, <1>1, <1>9 DEF Stream, Future
<1>11. Piping(c)'
  <2>1. \A i \in Piped' : \A j \in OnWay(c)' : i.id <= j.id
    BY Zenon, <1>1, <1>9 DEF Piping
  <2>2. ~ running' => m_req' = <<>>
    BY Zenon, <1>8
  <2>3. request[c].kind # "F" => \A q \in Piped' : q.id = request[c].id
    BY Zenon, <1>1, <1>9
  <2>4. QED BY Zenon, <1>1, <1>9, <1>10, <2>1, <2>2, <2>3 DEF Piping, ClientSame
<1>12. \A q \in Responses(c) : q.id # request[c].id
  BY Zenon, <1>1, <1>2 DEF Responses, Agreed, Numbered, Answered, Done
<1>13. PICK x : x = [client |-> c, id |-> p.id, tag |-> p.tag, code |-> "OK", val |-> result]
  BY Zenon
<1>14. x.val = result
  BY Zenon, <1>13
<1>15. \A q \in Responses(c)' : q \in Responses(c) \/ q = x
  <2>1. \A q \in Waits(c)' : q \in Waits(c) \/ q = x
    BY Zenon, <1>13, AnswerMoves DEF Executes
  <2>2. Elems(m_resp)' \subseteq Elems(m_resp)
    <3>1. CASE m_resp' = <<>>
      BY <3>1 DEF Elems
    <3>2. QED BY Zenon, <1>5, <3>1
  <2>3. QED BY Zenon, <2>1, <2>2 DEF Responses
<1>16. "get" \notin Commands /\ "set" \notin Commands /\ "R" # "L" /\ "F" # "R" /\ "F" # "L"
  BY DEF Commands
<1>17. p.kind = "R" /\ result = "O" => Register' = Reset
  BY Zenon, <1>5, <1>16 DEF Register
<1>18. \A q \in Responses(c)' : Fits(c, q)'
  <2> SUFFICES ASSUME NEW q \in Responses(c)', q.id = request[c].id
               PROVE  request[c].kind = "R" /\ q.val = "O" => Register' = Reset
    BY Zenon, <1>1, <1>16 DEF Fits, ClientSame
  <2>1. q = x
    BY Zenon, <1>12, <1>15
  <2>2. QED BY Zenon, <1>1, <1>14, <1>17, <2>1
<1>19. Register' \in known[c]
  <2>1. Register' \in Values
    BY Zenon, <1>3, <1>4, <1>5 DEF Register
  <2>2. p.kind = "F" => Register' = Register
    BY Zenon, <1>3, <1>5, <1>16 DEF Register
  <2>3. QED BY Zenon, <1>1, <1>6, <1>7, <2>1, <2>2 DEF Holding
<1>20. lastCommand'.val = result /\ <<c, p.id>> \in executed'
  BY Zenon, <1>3
<1>21. p.kind = "L" => ~ running'
  BY Zenon, <1>5
<1>22. \A q \in Stream(c)' : q.kind = "set" => q.val \in known[c]
  BY Zenon, <1>10 DEF Holding
<1>23. Holding(c)'
  BY Zenon, <1>1, <1>16, <1>17, <1>18, <1>19, <1>20, <1>21, <1>22 DEF Holding, Done, ClientSame
<1>24. QED BY Zenon, <1>11, <1>23

LEMMA ReadForwards ==
  ASSUME Types, NEW c \in Clients, Sending(c), Agreed(c), Piping(c), Holding(c), UNCHANGED devVars,
         NEW p, Takes(c, p), Forwards(c, p)
  PROVE  Piping(c)' /\ Holding(c)'
<1>1. p \in OnWay(c) /\ p \in Request /\ OnWay(c)' \subseteq OnWay(c) /\ (\A q \in Future(c) : p.id <= q.id) /\ ClientSame(c)
  BY Zenon, Arrives, ClientKept
<1>2. /\ UNCHANGED <<toClient, m_resp, running, simulated, emulated, executed, lastCommand>> /\ running
      /\ m_req' = Append(m_req, [client |-> c, packet |-> p])
  BY Zenon DEF Forwards, cmdVars
<1>3. PICK e : e = [client |-> c, packet |-> p]
  BY Zenon
<1>4. e \in Piece /\ e.packet = p /\ m_req' = Append(m_req, e)
  BY <1>1, <1>2, <1>3 DEF Piece
<1>5. Piped' = Piped \cup {p} /\ Register' = Register /\ Responses(c)' = Responses(c)
  BY Zenon, <1>2, <1>4, PipeMoves DEF Register, Responses, Waits
<1>6. \A q \in Stream(c)' : q \in Stream(c)
  BY Zenon, <1>1, <1>5 DEF Stream
<1>7. \A i, j \in 1 .. Len(m_req') : i <= j => m_req'[i].packet.id <= m_req'[j].packet.id
  <2>1. m_req \in Seq(Piece)
    BY Zenon DEF Types, ServerTypes
  <2>2. /\ Len(m_req') = Len(m_req) + 1 /\ Len(m_req) \in Nat /\ m_req'[Len(m_req) + 1] = e
        /\ \A i \in 1 .. Len(m_req) : m_req'[i] = m_req[i]
    BY <1>4, <2>1
  <2>3. \A i \in 1 .. Len(m_req) : m_req[i].packet.id <= p.id
    BY Zenon, <1>1 DEF Piping, Piped
  <2>4. p.id <= p.id
    BY <1>1 DEF Request
  <2> SUFFICES ASSUME NEW i \in 1 .. Len(m_req'), NEW j \in 1 .. Len(m_req'), i <= j
               PROVE  m_req'[i].packet.id <= m_req'[j].packet.id
    BY Zenon
  <2>5. CASE j \in 1 .. Len(m_req)
    <3>1. i \in 1 .. Len(m_req)
      BY <2>2, <2>5
    <3>2. QED BY Zenon, <2>2, <2>5, <3>1 DEF Piping
  <2>6. CASE j = Len(m_req) + 1
    <3>1. i \in 1 .. Len(m_req) \/ i = Len(m_req) + 1
      BY <2>2
    <3>2. QED BY Zenon, <1>4, <2>2, <2>3, <2>4, <2>6, <3>1
  <2>7. QED BY <2>2, <2>5, <2>6
<1>8. \A q \in Piped' : \A t \in OnWay(c)' : q.id <= t.id
  BY Zenon, <1>1, <1>5 DEF Piping, Future
<1>9. Handled(c)' <=> Handled(c)
  BY Zenon, <1>1, <1>2, <1>5 DEF Handled, Done, ClientSame
<1>10. Piping(c)'
  <2>1. Handled(c) => /\ \A q \in OnWay(c)' : q.id = request[c].id
                      /\ request[c].kind # "F" => \A q \in Piped' : q.id = request[c].id
    BY Zenon, <1>1, <1>5 DEF Piping
  <2>2. QED BY Zenon, <1>1, <1>2, <1>7, <1>8, <1>9, <2>1 DEF Piping, ClientSame
<1>11. \A q \in Responses(c)' : q.code = "OK" => Fits(c, q)'
  BY Zenon, <1>1, <1>5 DEF Holding, Fits, ClientSame
<1>12. Holding(c)'
  BY Zenon, <1>1, <1>2, <1>5, <1>6, <1>11 DEF Holding, Done, ClientSame
<1>13. QED BY Zenon, <1>10, <1>12

\* A register access is carried out, by the emulated or the simulated device,
\* which answers a read with what the register holds then.
LEMMA ReadServes ==
  ASSUME Types, NEW c \in Clients, Sending(c), Agreed(c), Piping(c), Holding(c), UNCHANGED devVars,
         UNCHANGED <<running, executed, lastCommand>>,
         NEW p \in Stream(c), p.kind \notin Commands,
         \A q \in Stream(c)' : q \in Stream(c) /\ p.id <= q.id, OnWay(c)' \subseteq OnWay(c),
         NEW x, x.id = p.id, p.kind = "get" => x.val = Register', \A t \in Responses(c)' : t \in Responses(c) \/ t = x,
         (p.kind = "set" /\ Register' = p.val) \/ Register' = Register,
         x.code = "OK" /\ p.kind = "set" => Register' = p.val,
         ~ running' => m_req' = <<>>,
         \A i, j \in 1 .. Len(m_req') : i <= j => m_req'[i].packet.id <= m_req'[j].packet.id,
         \A i \in Piped' : \A j \in OnWay(c)' : i.id <= j.id
  PROVE  Piping(c)' /\ Holding(c)'
<1>1. ClientSame(c)
  BY Zenon, ClientKept
<1>2. /\ request[c].id \in Nat /\ p.id \in Nat
      /\ \A q \in Stream(c) : q.id \in Nat /\ q.id <= request[c].id
  BY Zenon, StreamNumbers
<1>3. (Handled(c) /\ request[c].kind # "F") \/ p.id = request[c].id =>
        p = request[c] /\ \A q \in Stream(c)' : q.id = request[c].id
  <2>1. CASE p.id = request[c].id
    <3>1. \A q \in Stream(c)' : p.id <= q.id /\ q.id \in Nat /\ q.id <= request[c].id
      BY Zenon, <1>2
    <3>2. \A q \in Stream(c)' : q.id = request[c].id
      BY <1>2, <2>1, <3>1
    <3>3. QED BY Zenon, <2>1, <3>2, StreamRequest
  <2>2. CASE Handled(c) /\ request[c].kind # "F"
    <3>1. p.id = request[c].id
      BY Zenon, <2>2 DEF Piping, Stream
    <3>2. QED BY Zenon, <2>1, <3>1
  <2>3. QED BY Zenon, <2>1, <2>2
<1>4. Handled(c)' => Handled(c) \/ p.id = request[c].id
  BY Zenon, <1>1 DEF Handled, Done, ClientSame
<1>5. Piping(c)'
  <2>1. Handled(c)' => /\ \A q \in OnWay(c)' : q.id = request[c].id
                       /\ request[c].kind # "F" => \A q \in Piped' : q.id = request[c].id
    BY Zenon, <1>3, <1>4 DEF Piping, Stream
  <2>2. QED BY Zenon, <1>1, <2>1 DEF Piping, ClientSame
<1>6. "R" \in Commands /\ "get" # "set" /\ "F" # "R" /\ "F" # "get" /\ "F" # "set"
  BY DEF Commands
<1>7. ASSUME NEW t \in Responses(c)', t.code = "OK", t.id = request[c].id
      PROVE  /\ request[c].kind = "get" => t.val = Register'
             /\ request[c].kind = "set" => Register' = request[c].val
             /\ request[c].kind # "R"
  <2>0. CASE request[c].kind = "F"
    BY Zenon, <1>6, <2>0
  <2>1. CASE t \in Responses(c) /\ request[c].kind # "F"
    <3>1. p = request[c]
      BY Zenon, <1>3, <1>7, <2>1 DEF Handled
    <3>2. Fits(c, t)
      BY Zenon, <1>7, <2>1 DEF Holding
    <3>3. QED BY Zenon, <1>6, <1>7, <3>1, <3>2 DEF Fits
  <2>2. CASE t = x
    <3>1. p = request[c]
      BY Zenon, <1>3, <1>7, <2>2
    <3>2. QED BY Zenon, <1>6, <1>7, <2>2, <3>1
  <2>3. QED BY Zenon, <2>0, <2>1, <2>2
<1>8. \A t \in Responses(c)' : t.code = "OK" => Fits(c, t)'
  BY Zenon, <1>1, <1>7 DEF Fits, ClientSame
<1>9. Register' \in known[c]
  BY Zenon DEF Holding
<1>10. lastCommand.have /\ lastCommand.id = request[c].id => request[c].kind # "R"
  <2>1. lastCommand.have /\ lastCommand.id = request[c].id => Handled(c)
    BY Zenon DEF Agreed, Answered, Done, Handled
  <2>2. QED BY Zenon, <1>3, <1>6, <2>1
<1>11. \A q \in Stream(c)' : q.kind = "set" => q.val \in known[c]
  BY Zenon DEF Holding
<1>12. Holding(c)'
  BY Zenon, <1>1, <1>8, <1>9, <1>10, <1>11 DEF Holding, Done, ClientSame
<1>13. QED BY Zenon, <1>5, <1>12

LEMMA ReadEmulates ==
  ASSUME Types, NEW c \in Clients, Sending(c), Agreed(c), Piping(c), Holding(c), UNCHANGED devVars,
         NEW p, Takes(c, p), Emulates(c, p)
  PROVE  Piping(c)' /\ Holding(c)'
<1>1. p \in OnWay(c) /\ OnWay(c)' \subseteq OnWay(c) /\ (\A q \in Future(c) : p.id <= q.id)
  BY Zenon, Arrives
<1>2. /\ UNCHANGED <<m_req, m_resp, running, simulated, executed, lastCommand>> /\ ~ running /\ p.kind \notin Commands
      /\ emulated' = IF p.kind = "set" THEN p.val ELSE emulated
  BY Zenon DEF Emulates, simVars, cmdVars
<1>3. m_req = <<>> /\ m_req' = <<>>
  BY Zenon, <1>2 DEF Piping
<1>4. Piped' = {} /\ Len(m_req') = 0
  BY <1>3, PipeMoves
<1>5. Register' = emulated' /\ Register = emulated
  BY Zenon, <1>2 DEF Register
<1>6. PICK x : x = [client |-> c, id |-> p.id, tag |-> p.tag, code |-> "OK",
                    val |-> IF p.kind = "get" THEN emulated' ELSE Reset]
  BY Zenon
<1>7. x.id = p.id /\ (p.kind = "get" => x.val = Register')
  BY Zenon, <1>5, <1>6
<1>8. \A t \in Responses(c)' : t \in Responses(c) \/ t = x
  <2>1. \A t \in Waits(c)' : t \in Waits(c) \/ t = x
    BY Zenon, <1>6, AnswerMoves DEF Emulates
  <2>2. QED BY Zenon, <1>2, <2>1 DEF Responses
<1>9. p \in Stream(c) /\ \A q \in Stream(c)' : q \in Stream(c) /\ p.id <= q.id
  BY Zenon, <1>1, <1>4 DEF Stream, Future
<1>10. \A i, j \in 1 .. Len(m_req') : i <= j => m_req'[i].packet.id <= m_req'[j].packet.id
  BY <1>4
<1>11. /\ (p.kind = "set" /\ Register' = p.val) \/ Register' = Register
       /\ p.kind = "set" => Register' = p.val
  BY Zenon, <1>2, <1>5
<1>12. QED BY Zenon, <1>1, <1>2, <1>3, <1>4, <1>7, <1>8, <1>9, <1>10, <1>11, ReadServes

LEMMA ReadSimulates ==
  ASSUME Types, NEW c \in Clients, Sending(c), Agreed(c), Piping(c), Holding(c), UNCHANGED devVars, Simulate
  PROVE  Piping(c)' /\ Holding(c)'
<1>1. /\ m_req # <<>> /\ m_req' = Tail(m_req) /\ running
      /\ UNCHANGED <<toServer, toClient, running, emulated, executed, lastCommand>>
  BY Zenon DEF Simulate, cmdVars
<1>2. PICK p : p = Head(m_req).packet
  BY Zenon
<1>3. PICK code \in {"OK", "ERROR"} :
        /\ \/ code = "OK" /\ simulated' = IF p.kind = "set" THEN p.val ELSE simulated
           \/ code = "ERROR" /\ simulated' \in {IF p.kind = "set" THEN p.val ELSE simulated, simulated}
        /\ m_resp' = Append(m_resp, [client |-> Head(m_req).client, id |-> p.id, tag |-> p.tag, code |-> code,
                                     val |-> IF p.kind = "get" THEN simulated' ELSE Reset])
  BY Zenon, <1>2 DEF Simulate
<1>4. PICK x : x = [client |-> Head(m_req).client, id |-> p.id, tag |-> p.tag, code |-> code,
                    val |-> IF p.kind = "get" THEN simulated' ELSE Reset]
  BY Zenon
<1>5. Register' = simulated' /\ Register = simulated
  BY Zenon, <1>1 DEF Register
<1>6. x.id = p.id /\ (p.kind = "get" => x.val = Register') /\ x.code = code
  BY Zenon, <1>4, <1>5
<1>7. m_req \in Seq(Piece) /\ m_resp \in Seq(Response)
  BY Zenon DEF Types, ServerTypes
<1>8. Piped' \subseteq Piped /\ p \in Piped
  BY Zenon, <1>1, <1>2, PipeMoves
<1>9. /\ Len(m_req) = Len(m_req') + 1 /\ Len(m_req') \in Nat /\ Head(m_req) = m_req[1] /\ 1 \in 1 .. Len(m_req)
      /\ \A i \in 1 .. Len(m_req') : m_req'[i] = m_req[i + 1] /\ i + 1 \in 1 .. Len(m_req)
      /\ \A i \in 1 .. Len(m_req) : 1 <= i
  BY <1>1, <1>7
<1>10. \A i, j \in 1 .. Len(m_req') : i <= j => m_req'[i].packet.id <= m_req'[j].packet.id
  <2> SUFFICES ASSUME NEW i \in 1 .. Len(m_req'), NEW j \in 1 .. Len(m_req'), i <= j
               PROVE  m_req'[i].packet.id <= m_req'[j].packet.id
    BY Zenon
  <2>1. i + 1 <= j + 1
    OBVIOUS
  <2>2. QED BY Zenon, <1>9, <2>1 DEF Piping
<1>11. OnWay(c)' = OnWay(c)
  BY Zenon, <1>1 DEF OnWay
<1>12. \A i \in Piped' : \A j \in OnWay(c)' : i.id <= j.id
  BY Zenon, <1>8, <1>11 DEF Piping
<1>13. \A q \in Piped : p.id <= q.id
  BY Zenon, <1>2, <1>9 DEF Piping, Piped
<1>14. p \in Stream(c) /\ \A q \in Stream(c)' : q \in Stream(c) /\ p.id <= q.id
  BY Zenon, <1>8, <1>11, <1>13 DEF Stream, Piping
<1>15. p.kind \notin Commands
  BY Zenon, <1>8 DEF Agreed, Numbered
<1>16. \A t \in Responses(c)' : t \in Responses(c) \/ t = x
  <2>1. Elems(m_resp') = Elems(m_resp) \cup {x}
    BY <1>3, <1>4, <1>7, AppendElems
  <2>2. Waits(c)' = Waits(c)
    BY Zenon, <1>1 DEF Waits
  <2>3. QED BY Zenon, <2>1, <2>2 DEF Responses
<1>17. (p.kind = "set" /\ Register' = p.val) \/ Register' = Register
  BY Zenon, <1>3, <1>5
<1>18. x.code = "OK" /\ p.kind = "set" => Register' = p.val
  <2>1. "OK" # "ERROR"
    OBVIOUS
  <2>2. QED BY Zenon, <1>3, <1>5, <1>6, <2>1
<1>19. QED BY Zenon, <1>1, <1>6, <1>10, <1>11, <1>12, <1>14, <1>15, <1>16, <1>17, <1>18, ReadServes

LEMMA ReadRest ==
  ASSUME OneClient, Types, NEW c \in Clients, Sending(c), Agreed(c), Piping(c), Holding(c), UNCHANGED devVars,
         DoResponse \/ Accept \/ DoXfer
  PROVE  Piping(c)' /\ Holding(c)'
<1>1. UNCHANGED <<toServer, m_req, running, simulated, emulated, executed, lastCommand>> /\ ClientSame(c)
  BY Zenon, ClientKept DEF DoResponse, Accept, DoXfer, simVars, cmdVars
<1>2. OnWay(c)' \subseteq Future(c)
  BY Zenon, <1>1 DEF OnWay, Future
<1>3. Responses(c)' \subseteq Responses(c)
  <2>1. CASE DoResponse
    BY Zenon, <2>1, ForwardMoves
  <2>2. CASE Accept \/ DoXfer
    <3>1. UNCHANGED <<toClient, m_resp>>
      BY Zenon, <2>2 DEF Accept, DoXfer, simVars
    <3>2. QED BY Zenon, <3>1 DEF Responses, Waits
  <2>3. QED BY Zenon, <2>1, <2>2
<1>4. Piping(c)'
  BY Zenon, <1>1, <1>2, <1>3, PipingFewer DEF ClientSame
<1>5. Holding(c)'
  BY Zenon, <1>1, <1>2, <1>3, HoldingFewer DEF ClientSame
<1>6. QED BY Zenon, <1>4, <1>5

LEMMA ReadStep ==
  ASSUME OneClient, FewRequests, Types, SendInv, AnswerInv, ReadInv, [Next]_vars
  PROVE  ReadInv'
<1>1. ASSUME NEW c \in Clients, Piping(c)' /\ Holding(c)' PROVE ReadInv'
  BY Zenon, <1>1 DEF ReadInv, OneClient
<1>2. \A c \in Clients : Sending(c) /\ Agreed(c) /\ Piping(c) /\ Holding(c)
  BY Zenon DEF SendInv, AnswerInv, ReadInv
<1>3. ASSUME NEW c \in Clients, DeviceNext(c), UNCHANGED serverVars PROVE ReadInv'
  BY Zenon, <1>1, <1>2, <1>3, ReadClient
<1>4. ASSUME NEW c \in Clients, ReceiveExt(c), UNCHANGED devVars PROVE ReadInv'
  <2>1. PICK p : Takes(c, p) /\ Handles(c, p)
    BY Zenon, <1>4, ServerCases
  <2>2. CASE Replays(c, p)
    BY Zenon, <1>1, <1>2, <1>4, <2>1, <2>2, ReadReplays
  <2>3. CASE Skips(c, p)
    <3>1. p \in Future(c) /\ p.kind = "R" /\ (~ m_xferSize \/ m_xferSrvr)
      BY Zenon, <1>2, <1>4, <2>1, <2>3, Arrives DEF Skips, NotYet, Future
    <3>2. QED BY Zenon, <1>2, <3>1 DEF Agreed, Transfer
  <2>4. ASSUME NEW result \in Results, Executes(c, p, result) PROVE ReadInv'
    BY Zenon, <1>1, <1>2, <1>4, <2>1, <2>4, ReadExecutes
  <2>5. CASE Forwards(c, p)
    BY Zenon, <1>1, <1>2, <1>4, <2>1, <2>5, ReadForwards
  <2>6. CASE Emulates(c, p)
    BY Zenon, <1>1, <1>2, <1>4, <2>1, <2>6, ReadEmulates
  <2>7. QED BY Zenon, <2>1, <2>2, <2>3, <2>4, <2>5, <2>6 DEF Handles
<1>5. CASE Simulate /\ UNCHANGED devVars
  <2>1. \A c \in Clients : Piping(c)' /\ Holding(c)'
    BY Zenon, <1>2, <1>5, ReadSimulates
  <2>2. QED BY Zenon, <2>1 DEF ReadInv
<1>6. CASE (DoResponse \/ Accept \/ DoXfer) /\ UNCHANGED devVars
  <2>1. \A c \in Clients : Piping(c)' /\ Holding(c)'
    BY Zenon, <1>2, <1>6, ReadRest
  <2>2. QED BY Zenon, <2>1 DEF ReadInv
<1>7. CASE UNCHANGED vars
  <2>1. UNCHANGED <<toServer, toClient, pc, request, known, m_req, m_resp, running, simulated, emulated, executed, lastCommand>>
    BY Zenon, <1>7 DEF vars, netVars, devVars, serverVars, simVars, cmdVars
  <2>2. ASSUME NEW c \in Clients PROVE Piping(c)' /\ Holding(c)'
    <3>1. OnWay(c)' \subseteq Future(c) /\ Responses(c)' \subseteq Responses(c) /\ request'[c] = request[c]
          /\ known'[c] = known[c] /\ (pc'[c] = "receiving" => pc[c] = "receiving")
      BY Zenon, <2>1 DEF OnWay, Future, Responses, Waits
    <3>2. Piping(c)'
      BY Zenon, <1>2, <2>1, <3>1, PipingFewer
    <3>3. Holding(c)'
      BY Zenon, <1>2, <2>1, <3>1, HoldingFewer
    <3>4. QED BY Zenon, <3>2, <3>3
  <2>3. QED BY Zenon, <2>2 DEF ReadInv
<1>8. QED BY Zenon, <1>3, <1>4, <1>5, <1>6, <1>7 DEF Next, ServerNext

LEMMA ReadInit ==
  ASSUME Init
  PROVE  ReadInv
<1>1. /\ toServer = [c \in Clients |-> <<>>] /\ toClient = [c \in Clients |-> <<>>] /\ m_req = <<>> /\ m_resp = <<>>
      /\ request = [c \in Clients |-> [id |-> 0, tag |-> 0, kind |-> "get", val |-> Reset]]
      /\ known = [c \in Clients |-> {Reset}] /\ emulated = Reset /\ simulated = Reset /\ executed = {}
      /\ lastCommand = [have |-> FALSE, id |-> 0, val |-> "O"]
  BY Zenon DEF Init, DeviceInit, ServerInit
<1>2. ASSUME NEW c \in Clients PROVE Piping(c) /\ Holding(c)
  <2>1. toServer[c] = <<>> /\ toClient[c] = <<>> /\ known[c] = {Reset}
        /\ request[c] = [id |-> 0, tag |-> 0, kind |-> "get", val |-> Reset]
    BY Zenon, <1>1
  <2>2. OnWay(c) = {} /\ Waits(c) = {} /\ Elems(m_resp) = {} /\ Piped = {} /\ Len(m_req) = 0
    BY <1>1, <2>1 DEF OnWay, Waits, Elems, Piped
  <2>3. Stream(c) = {} /\ Responses(c) = {}
    BY Zenon, <2>2 DEF Stream, Responses
  <2>4. request[c].kind = "get"
    BY <2>1
  <2>5. "get" # "set" /\ "get" # "L" /\ "get" # "R"
    OBVIOUS
  <2>6. \A i, j \in 1 .. Len(m_req) : i <= j => m_req[i].packet.id <= m_req[j].packet.id
    BY <2>2
  <2>7. Piping(c)
    BY Zenon, <1>1, <2>2, <2>3, <2>6 DEF Piping
  <2>8. Register \in known[c] /\ known[c] \subseteq Values
    BY Zenon, <1>1, <2>1, NetAssumption DEF Register
  <2>9. Holding(c)
    BY Zenon, <2>3, <2>4, <2>5, <2>8 DEF Holding
  <2>10. QED BY Zenon, <2>7, <2>9
<1>3. QED BY Zenon, <1>2 DEF ReadInv

LEMMA ReadHolds == ASSUME OneClient, FewRequests PROVE Spec => [](Types /\ AnswerInv /\ ReadInv)
<1>1. Init => ReadInv
  BY Zenon, ReadInit
<1>2. Types /\ SendInv /\ AnswerInv /\ ReadInv /\ [Next]_vars => ReadInv'
  BY Zenon, ReadStep
<1>3. QED BY <1>1, <1>2, AnswerHolds, PTL DEF Spec

\* With one client that makes no more requests than there are tags, a read
\* that succeeds returns the value of the last write that succeeded, or of
\* one that failed since: through emulation, load and simulation, and
\* whatever was lost or carried out twice.
THEOREM ReadsAreOwnWrites == ASSUME OneClient, FewRequests PROVE Spec => ReadsOwnWrites
<1> DEFINE Reads == \A c \in Clients :
       Returns(c) /\ request[c].kind = "get" => answer'[c].val \in known[c]
<1>1. ASSUME Types, AnswerInv, ReadInv, [Next]_vars, NEW c \in Clients, Returns(c), request[c].kind = "get"
      PROVE  answer'[c].val \in known[c]
  <2>1. /\ answer'[c] = Head(toClient[c]) /\ Head(toClient[c]) \in Waits(c)
        /\ Head(toClient[c]).code = "OK" /\ Head(toClient[c]).id = request[c].id
    BY Zenon, <1>1, AnswerKept
  <2>2. Fits(c, Head(toClient[c])) /\ Register \in known[c]
    BY Zenon, <1>1, <2>1 DEF ReadInv, Holding, Responses
  <2>3. QED BY Zenon, <1>1, <2>1, <2>2 DEF Fits
<1>2. Types /\ AnswerInv /\ ReadInv /\ [Next]_vars => [Reads]_vars
  BY Zenon, <1>1
<1> HIDE DEF Reads
<1>3. Spec => [][Reads]_vars
  BY <1>2, ReadHolds, PTL DEF Spec
<1>4. QED BY <1>3, PTL DEF ReadsOwnWrites, Reads
==============================================================================
