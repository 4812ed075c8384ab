----------------------------- MODULE NetDevice ------------------------------
(***************************************************************************)
(* A client: OCPI::HDL::Net::Device, whose request sends a packet, waits   *)
(* for the response and sends it again, and OCPI::HDL::Sim::Device, which  *)
(* announces itself with the command F when it is constructed and loads an *)
(* executable with L, a file transfer and R.                               *)
(***************************************************************************)
EXTENDS ControlNet

CONSTANTS
  RETRIES,       \* how often a request is sent
  Loaders,       \* the clients that load executables
  MaxRequests    \* bound on the requests of a client

\* Two clients that load at the same time are not modelled.
ASSUME DeviceAssumption ==
  /\ RETRIES \in Nat \ {0} /\ MaxRequests \in Nat
  /\ Loaders \subseteq Clients
  /\ \A c, d \in Loaders : c = d

VARIABLES
  pc,            \* where the client's thread is
  request,       \* m_request: the request being made, or the last one
  n,             \* how often it was sent
  m_failed,      \* the device is given up
  opened,        \* the constructor has completed
  \* history
  answer,        \* the response that the last request returned with, if it did
  known          \* what the register may hold, as far as the client can tell

devVars == <<pc, request, n, m_failed, opened, answer, known>>

NoAnswer == [id |-> 0, val |-> Reset]

DeviceInit ==
  /\ pc = [c \in Clients |-> "idle"]
  /\ request = [c \in Clients |->
       [id |-> 0, tag |-> 0, kind |-> "get", val |-> Reset]]
  /\ n = [c \in Clients |-> 0]
  /\ m_failed = [c \in Clients |-> FALSE]
  /\ opened = [c \in Clients |-> FALSE]
  /\ answer = [c \in Clients |-> NoAnswer]
  /\ known = [c \in Clients |-> {Reset}]

-----------------------------------------------------------------------------
\* The head of the loop of request: send the packet once more, or give up
\* when the retries are used up or the socket refuses it.  A caller that has
\* passed a status pointer, which no command does, finds the error there;
\* otherwise giving up throws, and the device is not used again.
Attempt(c, r, k) ==
  \/ /\ k < RETRIES
     /\ SendRequest(c, r)
     /\ n' = [n EXCEPT ![c] = k + 1]
     /\ pc' = [pc EXCEPT ![c] = "receiving"]
     /\ UNCHANGED m_failed
  \/ /\ \E withStatus \in BOOLEAN :
          /\ withStatus => r.kind \notin Commands
          /\ m_failed' = [m_failed EXCEPT ![c] = ~withStatus]
     /\ n' = [n EXCEPT ![c] = 0]
     /\ pc' = [pc EXCEPT ![c] = "idle"]
     /\ UNCHANGED toServer
     /\ IF k = RETRIES THEN NoFault ELSE Fault

\* Mutant of Begin: the tag is not advanced for a register access.
BeginSameTag(c, kind, val) ==
  LET r == [id |-> request[c].id + 1,
            tag |-> IF kind = "get" THEN request[c].tag
                    ELSE (request[c].tag + 1) % TagMod,
            kind |-> kind, val |-> val]
  IN /\ ~m_failed[c]
     /\ request[c].id < MaxRequests
     /\ request' = [request EXCEPT ![c] = r]
     /\ known' = [known EXCEPT ![c] =
          CASE kind = "set" -> @ \cup {val}
            [] kind \in {"L", "R"} -> Values
            [] OTHER -> @]
     /\ answer' = [answer EXCEPT ![c] = NoAnswer]
     /\ Attempt(c, r, 0)
     /\ UNCHANGED <<toClient, opened>>

\* The start of request.
Begin(c, kind, val) ==
  LET r == [id |-> request[c].id + 1, tag |-> (request[c].tag + 1) % TagMod,
            kind |-> kind, val |-> val]
  IN /\ ~m_failed[c]
     /\ request[c].id < MaxRequests
     /\ request' = [request EXCEPT ![c] = r]
     /\ known' = [known EXCEPT ![c] =
          CASE kind = "set" -> @ \cup {val}
            [] kind \in {"L", "R"} -> Values
            [] OTHER -> @]
     /\ answer' = [answer EXCEPT ![c] = NoAnswer]
     /\ Attempt(c, r, 0)
     /\ UNCHANGED <<toClient, opened>>

\* get and set, with the register the model has.
Access(c) ==
  /\ pc[c] = "idle"
  /\ \/ Begin(c, "get", Reset)
     \/ \E v \in Writes : Begin(c, "set", v)
  /\ UNCHANGED conn

\* Sim::Device::Device: "flush all state - I am a new master".  It follows
\* the register accesses of the base class' constructor.
Open(c) ==
  /\ pc[c] = "idle" /\ ~opened[c]
  /\ Begin(c, "F", Reset)
  /\ UNCHANGED conn

\* Sim::Device::load.
Load(c) ==
  /\ c \in Loaders
  /\ pc[c] = "idle" /\ opened[c]
  /\ request[c].id + 1 < MaxRequests
  /\ Begin(c, "L", Reset)
  /\ UNCHANGED conn

\* request returns with the response p, and its caller goes on.
Return(c, p) ==
  LET kind == request[c].kind IN
  /\ answer' = [answer EXCEPT ![c] = p]
  /\ pc' = [pc EXCEPT ![c] =
       IF kind = "L" /\ p.val = "X" THEN "transfer" ELSE "idle"]
  /\ opened' = [opened EXCEPT ![c] = @ \/ kind = "F"]
  /\ known' = [known EXCEPT ![c] =
       CASE kind = "get" -> {p.val}
         [] kind = "set" -> {request[c].val}
         [] kind = "R" /\ p.val = "O" -> {Reset}
         [] OTHER -> @]
  /\ n' = [n EXCEPT ![c] = 0]

\* Mutant of Receive: the response's tag is not compared.
ReceiveAnyTag(c) ==
  /\ pc[c] = "receiving" /\ toClient[c] # <<>>
  /\ toClient' = [toClient EXCEPT ![c] = Tail(@)]
  /\ LET p == Head(toClient[c]) IN
     \/ /\ p.code = "OK"
        /\ Return(c, p)
        /\ UNCHANGED <<toServer, faults, m_failed>>
     \/ /\ p.code # "OK"
        /\ Attempt(c, request[c], n[c])
        /\ UNCHANGED <<opened, answer, known>>
  /\ UNCHANGED <<request, conn>>

\* The body of the receive loop: a packet with another tag is ignored, a
\* response that is not OK ends the wait and the request is sent again.
Receive(c) ==
  /\ pc[c] = "receiving" /\ toClient[c] # <<>>
  /\ toClient' = [toClient EXCEPT ![c] = Tail(@)]
  /\ LET p == Head(toClient[c]) IN
     \/ /\ p.tag # request[c].tag
        /\ UNCHANGED <<toServer, faults, pc, n, m_failed, opened, answer, known>>
     \/ /\ p.tag = request[c].tag /\ p.code = "OK"
        /\ Return(c, p)
        /\ UNCHANGED <<toServer, faults, m_failed>>
     \/ /\ p.tag = request[c].tag /\ p.code # "OK"
        /\ Attempt(c, request[c], n[c])
        /\ UNCHANGED <<opened, answer, known>>
  /\ UNCHANGED <<request, conn>>

\* Nothing arrived for the time a request waits; a response may be on its way.
Timeout(c) ==
  /\ pc[c] = "receiving"
  /\ Attempt(c, request[c], n[c])
  /\ UNCHANGED <<toClient, conn, request, opened, answer, known>>

-----------------------------------------------------------------------------
\* load connects to the port the server named, sends the file and shuts down
\* its side of the connection.  A connection that is refused throws.
SendFile(c) ==
  /\ pc[c] = "transfer"
  /\ conn' = IF conn = "listening" THEN "open" ELSE conn
  /\ pc' = [pc EXCEPT ![c] = IF conn = "listening" THEN "sent" ELSE "idle"]
  /\ UNCHANGED <<toServer, toClient, faults, request, n, m_failed, opened,
                 answer, known>>

\* Mutant of Run: load does not wait for the server's end of file.
RunAtOnce(c) ==
  /\ pc[c] = "sent"
  /\ Begin(c, "R", Reset)
  /\ UNCHANGED conn

\* The end of file, or a connection the server has dropped, ends the wait
\* in recv, and load sends R.  Reading a dropped connection may also throw.
Run(c) ==
  /\ pc[c] = "sent"
  /\ \/ /\ conn \in {"eof", "dropped"}
        /\ Begin(c, "R", Reset)
     \/ /\ conn = "dropped"
        /\ pc' = [pc EXCEPT ![c] = "idle"]
        /\ UNCHANGED <<toServer, toClient, faults, request, n, m_failed,
                       opened, answer, known>>
  /\ UNCHANGED conn

DeviceNext(c) ==
  \/ Access(c) \/ Open(c) \/ Load(c)
  \/ Receive(c) \/ Timeout(c)
  \/ SendFile(c) \/ Run(c)
=============================================================================
