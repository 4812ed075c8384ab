----------------------------- MODULE SimControl -----------------------------
(***************************************************************************)
(* Clients, the network, the simulator server and the simulator.           *)
(***************************************************************************)
EXTENDS NetDevice, SimServer

vars == <<netVars, devVars, serverVars>>

Init ==
  /\ toServer = [c \in Clients |-> <<>>]
  /\ toClient = [c \in Clients |-> <<>>]
  /\ conn = "none" /\ faults = 0
  /\ DeviceInit /\ ServerInit

Next ==
  \/ \E c \in Clients : DeviceNext(c) /\ UNCHANGED serverVars
  \/ ServerNext /\ UNCHANGED devVars
  \/ Simulate /\ UNCHANGED devVars

Spec == Init /\ [][Next]_vars

\* What the client's thread does inside a call and the server's loop go on.
\* No call has to be made, and the simulator may hang.
InCall(c) == Receive(c) \/ Timeout(c) \/ SendFile(c) \/ Run(c)

Fairness ==
  /\ \A c \in Clients : WF_vars(InCall(c) /\ UNCHANGED serverVars)
  /\ WF_vars(ServerNext /\ UNCHANGED devVars)

FairSpec == Spec /\ Fairness

-----------------------------------------------------------------------------
\* A step in which the request of a client returns with a response.
Returns(c) == answer[c] = NoAnswer /\ answer'[c] # NoAnswer

\* A request returns with the response that was made for it, not with a late
\* response to an earlier request (NetDriver.cxx: the loop of request, the
\* replay in doServer).
AnswersRequest ==
  [][\A c \in Clients :
       Returns(c) => answer'[c].client = c /\ answer'[c].id = request[c].id]_vars

\* A server command is executed at most once, however often its client sends
\* it (SimServer.cxx: m_haveTag, m_lastClient).
CommandOnce == repeated = {}

\* The server answers a command only when it has executed that command.  Its
\* commands are "essentially a separate channel with its own tags"
\* (SimServer.cxx:670), so that a tag it has seen means a repetition.
AnsweredIsExecuted ==
  [][\A c \in Clients :
       LET p == Head(toServer[c]) IN
       /\ toServer[c] # <<>> /\ toServer'[c] = Tail(toServer[c])
       /\ p.kind \in Commands /\ toClient'[c] # toClient[c]
       => <<c, p.id>> \in executed']_vars

\* The server finds a requester for every response of the simulator, so that
\* it does not end with "Response client queue empty".
RequesterKnown == Len(m_respQueue) >= Len(m_req) + Len(m_resp)

\* The command R never meets a transfer that is not connected, which is left
\* unanswered and would be answered, when it is sent again, with the response
\* to L.
RunAnswered == ignored = {}

\* A read that succeeds returns what the register holds as far as its client
\* can tell: the last value written successfully, or one of the values whose
\* write failed since.
ReadsOwnWrites ==
  [][\A c \in Clients :
       Returns(c) /\ request[c].kind = "get" => answer'[c].val \in known[c]]_vars

\* We forward responses from the sim back to the requester
\* (SimServer.cxx:146): a response is only ever on its way to the client
\* whose request it answers.
RelevantClient ==
  \A c \in Clients : \A i \in 1 .. Len(toClient[c]) :
    toClient[c][i].client = c

\* Every call ends: a request returns or fails, a load ends.
CallsEnd == \A c \in Clients : []<>(pc[c] = "idle")
=============================================================================
