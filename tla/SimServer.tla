----------------------------- MODULE SimServer ------------------------------
(***************************************************************************)
(* The simulator server, OCPI::HDL::Sim::Sim: one thread that answers      *)
(* server commands itself, forwards register accesses to the simulator's   *)
(* process over named pipes, or emulates a device while no simulator runs. *)
(*                                                                         *)
(* The simulator is external: it takes requests from its pipe in order and *)
(* answers each of them, with an error when the worker reports one.  The   *)
(* credits that let its clock advance are left out, as is a simulator that *)
(* ends by itself, which ends the server too.                              *)
(***************************************************************************)
EXTENDS ControlNet

VARIABLES
  up,            \* the server's loop runs
  running,       \* s_pid: there is a simulator
  lastCommand,   \* m_haveTag, m_lastClient and m_serverResponse
  m_respQueue,   \* whom the simulator's responses are for
  m_req,         \* the pipe to the simulator, and the request it has in hand
  m_resp,        \* the pipe from it
  emulated,      \* the register of the emulated device
  simulated,     \* the register of the simulated device
  m_exec,        \* the executable's name is set
  m_xferSrvr,    \* a socket waits for the transfer's connection
  m_xferSckt,    \* the transfer's socket: "none", "open" or "done"
  m_xferSize,    \* a size was announced
  whole,         \* m_xferCount = m_xferSize
  m_xferError,   \* an error of the transfer is to be reported
  \* history
  executed,      \* the commands that were executed
  repeated,      \* those that were executed again
  ignored        \* commands that were left without an answer

xferVars == <<m_exec, m_xferSrvr, m_xferSckt, m_xferSize, whole, m_xferError>>
cmdVars == <<lastCommand, executed, repeated, ignored>>
simVars == <<m_respQueue, m_req, m_resp, simulated>>
serverVars == <<up, running, emulated, cmdVars, simVars, xferVars>>

\* run: with an executable on the command line the simulator is started.
ServerInit ==
  /\ up = TRUE /\ running \in BOOLEAN
  /\ lastCommand = [have |-> FALSE, id |-> 0, val |-> "O"]
  /\ m_respQueue = <<>> /\ m_req = <<>> /\ m_resp = <<>>
  /\ emulated = Reset /\ simulated = Reset
  /\ m_exec = running /\ m_xferSrvr = FALSE /\ m_xferSckt = "none"
  /\ m_xferSize = FALSE /\ whole = FALSE /\ m_xferError = FALSE
  /\ executed = {} /\ repeated = {} /\ ignored = {}

-----------------------------------------------------------------------------
\* Mutant of FlushSim: the queue of the requesters is emptied as well, the
\* responses on their way are not.
FlushSimQueue(kept) ==
  /\ m_respQueue' = <<>>
  /\ m_req' = kept
  /\ UNCHANGED m_resp

\* flush: empty both pipes, but for what is kept.  m_respQueue keeps its
\* entries.
FlushSim(kept) ==
  /\ m_req' = kept /\ m_resp' = <<>>
  /\ UNCHANGED m_respQueue

\* A simulator that runs may have taken its next request from the pipe: flush
\* does not reach that one, and it will be answered.
InHand == {<<>>} \cup (IF running /\ m_req # <<>> THEN {<<Head(m_req)>>} ELSE {})

\* flush: delete the sockets of a transfer, which drops the connection.
Dropped == IF m_xferSrvr \/ m_xferSckt # "none" THEN "dropped" ELSE conn

DoFlush ==
  /\ \E kept \in InHand : FlushSim(kept)
  /\ m_exec' = FALSE /\ m_xferSrvr' = FALSE /\ m_xferSckt' = "none"
  /\ conn' = Dropped
  /\ UNCHANGED <<running, simulated, m_xferSize, whole, m_xferError>>

\* The command L: shut down the simulator, which flushes, then loadRun.  It
\* refuses a badly formed name or opens a socket for the file.
DoLoad(result) ==
  /\ m_xferError' = FALSE
  /\ running' = FALSE
  /\ IF running THEN FlushSim(<<>>) ELSE UNCHANGED <<m_respQueue, m_req, m_resp>>
  /\ \/ /\ result = "E"
        /\ m_exec' = (m_exec /\ ~running)
        /\ m_xferSrvr' = (m_xferSrvr /\ ~running)
        /\ m_xferSckt' = IF running THEN "none" ELSE m_xferSckt
        /\ conn' = IF running THEN Dropped ELSE conn
        /\ UNCHANGED <<m_xferSize, whole>>
     \/ /\ result = "X"
        /\ m_exec' = TRUE
        /\ m_xferSize' = TRUE /\ whole' = FALSE
        /\ m_xferSrvr' = TRUE
        /\ m_xferSckt' = IF running THEN "none" ELSE m_xferSckt
        /\ conn' = "listening"
  /\ UNCHANGED simulated

\* The command R reports an error of the transfer, or that it is short.
RunRefused == m_xferError \/ ~whole

\* The command R: finishLoadRun starts the simulator if the file is good.
DoRun(result) ==
  /\ (result = "O" /\ m_exec /\ ~RunRefused) \/ result = "E"
  /\ running' = (running \/ result = "O")
  /\ simulated' = IF result = "O" THEN Reset ELSE simulated
  /\ m_xferSckt' = "none"
  /\ UNCHANGED <<conn, m_respQueue, m_req, m_resp, m_exec, m_xferSrvr,
                 m_xferSize, whole, m_xferError>>

\* Mutant of Fresh: the tag of the last command is not remembered.
FreshAlways(c, p) == TRUE

\* doServer acts on a command unless it repeats its client's last one.
Fresh(c, p) ==
  ~(lastCommand.have /\ lastCommand.tag = p.tag /\ lastCommand.client = c)

\* R finds nothing in progress, or the transfer not even connected.
NotYet(p) == p.kind = "R" /\ ~m_xferError /\ (~m_xferSize \/ m_xferSrvr)

\* doServer.  A command that is NotYet leaves its tag with the response of
\* the command before it.
DoServer(c, p) ==
  IF ~Fresh(c, p)
  THEN /\ SendResponse(c,
            [client |-> c, id |-> lastCommand.id, tag |-> lastCommand.tag,
             code |-> "OK", val |-> lastCommand.val])
       /\ UNCHANGED <<conn, running, simVars, xferVars, cmdVars>>
  ELSE IF NotYet(p)
  THEN /\ lastCommand' = [have |-> TRUE, client |-> c, id |-> lastCommand.id,
                          tag |-> p.tag, val |-> lastCommand.val]
       /\ ignored' = ignored \cup {<<c, p.id>>}
       /\ UNCHANGED <<toClient, faults, conn, running, simVars, xferVars, executed,
                      repeated>>
  ELSE /\ \E result \in {"O", "E", "X"} :
            /\ \/ p.kind = "F" /\ result = "O" /\ DoFlush
               \/ p.kind = "L" /\ DoLoad(result)
               \/ p.kind = "R" /\ DoRun(result)
            /\ lastCommand' = [have |-> TRUE, client |-> c, id |-> p.id,
                               tag |-> p.tag, val |-> result]
            /\ SendResponse(c,
                 [client |-> c, id |-> p.id, tag |-> p.tag, code |-> "OK",
                  val |-> result])
       /\ executed' = executed \cup {<<c, p.id>>}
       /\ repeated' = repeated \cup ({<<c, p.id>>} \cap executed)
       /\ UNCHANGED ignored

\* sendToSim.
SendToSim(c, p) ==
  /\ m_req' = Append(m_req, [client |-> c, packet |-> p])
  /\ m_respQueue' = Append(m_respQueue, c)
  /\ UNCHANGED <<toClient, faults, m_resp, emulated, simulated>>

\* doEmulate.
DoEmulate(c, p) ==
  /\ emulated' = IF p.kind = "set" THEN p.val ELSE emulated
  /\ SendResponse(c,
       [client |-> c, id |-> p.id, tag |-> p.tag, code |-> "OK",
        val |-> IF p.kind = "get" THEN emulated' ELSE Reset])
  /\ UNCHANGED simVars

\* receiveExt: a datagram of client c is read and dealt with.
ReceiveExt(c) ==
  /\ up /\ toServer[c] # <<>>
  /\ toServer' = [toServer EXCEPT ![c] = Tail(@)]
  /\ LET p == Head(toServer[c]) IN
     \/ /\ p.kind \in Commands
        /\ DoServer(c, p)
        /\ UNCHANGED emulated
     \/ /\ p.kind \notin Commands
        /\ IF running THEN SendToSim(c, p) ELSE DoEmulate(c, p)
        /\ UNCHANGED <<conn, running, xferVars, cmdVars>>
  /\ UNCHANGED up

\* The simulator executes a request.  A write that is answered with an error
\* may have had its effect.
Simulate ==
  /\ running /\ m_req # <<>>
  /\ m_req' = Tail(m_req)
  /\ LET p == Head(m_req).packet
         written == IF p.kind = "set" THEN p.val ELSE simulated
     IN \E code \in {"OK", "ERROR"} :
        /\ \/ code = "OK" /\ simulated' = written /\ NoFault
           \/ code = "ERROR" /\ simulated' \in {written, simulated} /\ Fault
        /\ m_resp' = Append(m_resp,
             [client |-> Head(m_req).client, id |-> p.id, tag |-> p.tag,
              code |-> code, val |-> IF p.kind = "get" THEN simulated' ELSE Reset])
  /\ UNCHANGED <<toServer, toClient, conn, up, running, emulated,
                 m_respQueue, xferVars, cmdVars>>

\* doResponse sends a response to the client at the back of the queue and
\* removes the one at its front.  An empty queue ends the server.
DoResponse ==
  /\ up /\ m_resp # <<>>
  /\ m_resp' = Tail(m_resp)
  /\ up' = (m_respQueue # <<>>)
  /\ IF m_respQueue = <<>> THEN UNCHANGED <<toClient, faults, m_respQueue>>
     ELSE /\ SendResponse(m_respQueue[Len(m_respQueue)], Head(m_resp))
          /\ m_respQueue' = Tail(m_respQueue)
  /\ UNCHANGED <<toServer, conn, running, emulated, m_req, simulated,
                 xferVars, cmdVars>>

-----------------------------------------------------------------------------
\* doit accepts the connection of a transfer; the local copy of the file may
\* be impossible to create.
Accept ==
  /\ up /\ m_xferSrvr /\ conn = "open"
  /\ \/ /\ m_xferSckt' = "open"
        /\ NoFault
        /\ UNCHANGED <<conn, m_xferError>>
     \/ /\ Fault
        /\ m_xferError' = TRUE
        /\ conn' = "dropped"
        /\ UNCHANGED m_xferSckt
  /\ m_xferSrvr' = FALSE
  /\ UNCHANGED <<toServer, toClient, up, running, emulated, simVars, m_exec,
                 m_xferSize, whole, cmdVars>>

\* Mutant of DoXfer: the end of the file is not passed on.
DoXferNoShutdown ==
  /\ up /\ m_xferSckt = "open"
  /\ \/ ~whole /\ whole' = TRUE /\ UNCHANGED m_xferSckt
     \/ whole /\ m_xferSckt' = "done" /\ UNCHANGED whole
  /\ UNCHANGED <<netVars, up, running, emulated, simVars, m_exec, m_xferSrvr,
                 m_xferSize, m_xferError, cmdVars>>

\* doXfer: the file arrives; a write of the local copy may fail; at the end
\* of the file the server shuts down its side of the connection.
DoXfer ==
  /\ up /\ m_xferSckt = "open"
  /\ \/ /\ ~whole
        /\ whole' = TRUE
        /\ NoFault
        /\ UNCHANGED <<conn, m_xferSckt, m_xferError>>
     \/ /\ ~whole
        /\ Fault
        /\ m_xferError' = TRUE
        /\ m_xferSckt' = "none"
        /\ conn' = "dropped"
        /\ UNCHANGED whole
     \/ /\ whole
        /\ m_xferSckt' = "done"
        /\ conn' = "eof"
        /\ NoFault
        /\ UNCHANGED <<whole, m_xferError>>
  /\ UNCHANGED <<toServer, toClient, up, running, emulated, simVars, m_exec,
                 m_xferSrvr, m_xferSize, cmdVars>>

ServerNext ==
  \/ \E c \in Clients : ReceiveExt(c)
  \/ DoResponse \/ Accept \/ DoXfer
=============================================================================
