--------------------------- MODULE PropertyServer ---------------------------
(***************************************************************************)
(* The programs property_server and property_client around their TCP       *)
(* sessions: in each, a main thread that takes commands and a network      *)
(* thread that runs the handlers of asioIOContext.  They share tcpServer,  *)
(* its mSession and the variables session and connected, or tcpClient and  *)
(* its mSession; only connected is atomic.                                 *)
(*                                                                         *)
(* A message is posted by a main thread and sent by the posted function;   *)
(* how it travels is TcpSession's part.                                    *)
(***************************************************************************)
EXTENDS Naturals, FiniteSets

CONSTANTS Clients,   \* processes that run property_client
          None,      \* a null session
          Commands   \* bound on the write_property commands to a process

ASSUME NoneAssumption == None \notin Clients
ASSUME CommandsAssumption == Commands \in Nat

VARIABLES main,       \* the main thread of the server
          factory,    \* the session CHandlerFactory was made with
          stopped,    \* asioIOContext.stop() was called
          net,        \* the network thread of the server
          accepting,  \* an accept is pending
          mSession,   \* CTCPServer::mSession: the client it leads to, or None
          active,     \* its socket is open and a read is pending
          connected,  \* the flag the main thread waits for
          session,    \* the pointer to the session in main
          posted,     \* messages posted by the server
          sent,       \* those whose function has run
          tcp,        \* [Clients -> the server's end of the connection]
          refused,    \* history: clients whose connection the server closed
          clientMain, \* [Clients -> main thread]
          clientNet,  \* [Clients -> network thread]
          hasSession  \* [Clients -> BOOLEAN]: CTCPClient::mSession is set

mains == <<main, factory, stopped>>
handed == <<mSession, active, connected, session>>
queue == <<posted, sent>>
links == <<tcp, refused>>
server == <<mains, net, accepting, handed, queue>>
vars == <<server, links, clientMain, clientNet, hasSession>>
-----------------------------------------------------------------------------
Init == /\ main = "waiting" /\ factory = None /\ stopped = FALSE
        /\ net = "starting" /\ accepting = FALSE
        /\ mSession = None /\ active = FALSE
        /\ connected = FALSE /\ session = None
        /\ posted = 0 /\ sent = 0
        /\ tcp = [c \in Clients |-> "none"]
        /\ refused = {}
        /\ clientMain = [c \in Clients |-> "commands"]
        /\ clientNet = [c \in Clients |-> "connecting"]
        /\ hasSession = [c \in Clients |-> FALSE]

(* The acceptor exists, so that the kernel completes connections.          *)
Listening == /\ net \in {"running", "accepted", "announced", "returned"}
             /\ main \notin {"returned", "failed"}

(* The process of a client has ended, and its socket with it.              *)
Gone(c) == clientMain[c] \in {"returned", "crashed"}
-----------------------------------------------------------------------------
(* The network thread of the server makes tcpServer, which starts to       *)
(* accept, and runs the handlers; or binding the port throws.              *)
Start == /\ net = "starting"
         /\ \/ net' = "running" /\ accepting' = TRUE
            \/ net' = "failed" /\ UNCHANGED accepting
         /\ UNCHANGED <<mains, handed, queue, links, clientMain, clientNet,
                        hasSession>>

Accepting(c) == /\ net = "running" /\ ~stopped /\ accepting
                /\ tcp[c] = "backlog"

(* A connection that is gone may make the accept fail: the next one.       *)
AcceptFails(c) ==
    /\ Accepting(c) /\ Gone(c)
    /\ tcp' = [tcp EXCEPT ![c] = "closed"]
    /\ UNCHANGED <<server, refused, clientMain, clientNet, hasSession>>

(* Mutant: a later connection takes the place of the session.              *)
AcceptLatest(c) ==
    /\ Accepting(c)
    /\ net' = "accepted"
    /\ accepting' = FALSE
    /\ mSession' = c
    /\ tcp' = [tcp EXCEPT ![c] = "served"]
    /\ UNCHANGED <<mains, active, connected, session, queue, refused, clientMain,
                   clientNet, hasSession>>

(* The handler of an accepted connection makes the session ...             *)
Accept(c) ==
    /\ Accepting(c) /\ mSession = None
    /\ net' = "accepted"
    /\ accepting' = FALSE
    /\ mSession' = c
    /\ tcp' = [tcp EXCEPT ![c] = "served"]
    /\ UNCHANGED <<mains, active, connected, session, queue, refused, clientMain,
                   clientNet, hasSession>>

(* Mutant: the flag is not set.                                            *)
AnnounceSilently ==
    /\ net = "accepted"
    /\ net' = "announced"
    /\ UNCHANGED <<mains, accepting, handed, queue, links, clientMain, clientNet,
                   hasSession>>

(* ... calls connectionSuccessHandler, which announces the session ...     *)
Announce == /\ net = "accepted"
            /\ net' = "announced"
            /\ connected' = TRUE
            /\ UNCHANGED <<mains, accepting, mSession, active, session, queue,
                           links, clientMain, clientNet, hasSession>>

(* Mutant: the session is not started, so that nothing is read.            *)
HandOverUnread ==
    /\ net = "announced"
    /\ net' = "running"
    /\ session' = mSession
    /\ accepting' = TRUE
    /\ UNCHANGED <<mains, mSession, active, connected, queue, links, clientMain,
                   clientNet, hasSession>>

(* ... before it stores it, starts to read and accepts more connections.   *)
HandOver == /\ net = "announced"
            /\ net' = "running"
            /\ session' = mSession
            /\ active' = TRUE
            /\ accepting' = TRUE
            /\ UNCHANGED <<mains, mSession, connected, queue, links, clientMain,
                           clientNet, hasSession>>

(* Mutant: the handler goes on with the connection it has closed.          *)
RefuseAndGoOn(c) ==
    /\ Accepting(c) /\ mSession # None
    /\ net' = "accepted"
    /\ accepting' = FALSE
    /\ mSession' = c
    /\ tcp' = [tcp EXCEPT ![c] = "closed"]
    /\ refused' = refused \cup {c}
    /\ UNCHANGED <<mains, active, connected, session, queue, clientMain,
                   clientNet, hasSession>>

(* There is a session: the handler closes the connection and returns.      *)
Refuse(c) ==
    /\ Accepting(c) /\ mSession # None
    /\ accepting' = FALSE
    /\ tcp' = [tcp EXCEPT ![c] = "closed"]
    /\ refused' = refused \cup {c}
    /\ UNCHANGED <<mains, net, handed, queue, clientMain, clientNet, hasSession>>

(* The client is gone: the read or a write fails, which stops the session. *)
SessionFails ==
    /\ net = "running" /\ ~stopped
    /\ active /\ Gone(mSession)
    /\ active' = FALSE
    /\ UNCHANGED <<mains, net, accepting, mSession, connected, session, queue,
                   links, clientMain, clientNet, hasSession>>

(* A posted function runs; on a closed socket the message is lost.         *)
RunPosted ==
    /\ net = "running" /\ ~stopped
    /\ sent < posted
    /\ sent' = sent + 1
    /\ UNCHANGED <<mains, net, accepting, handed, posted, links, clientMain,
                   clientNet, hasSession>>

(* Mutant: no read is pending, or is waited for.                           *)
RunReturnsIdle ==
    /\ net = "running"
    /\ stopped \/ (~accepting /\ sent = posted)
    /\ net' = "returned"
    /\ UNCHANGED <<mains, accepting, handed, queue, links, clientMain, clientNet,
                   hasSession>>

(* run() returns when it was stopped or has nothing left to wait for.      *)
RunReturns ==
    /\ net = "running"
    /\ stopped \/ (~accepting /\ ~active /\ sent = posted)
    /\ net' = "returned"
    /\ UNCHANGED <<mains, accepting, handed, queue, links, clientMain, clientNet,
                   hasSession>>

NetStep == \/ Start \/ Announce \/ HandOver \/ SessionFails \/ RunPosted
           \/ RunReturns
           \/ \E c \in Clients : Accept(c) \/ AcceptFails(c) \/ Refuse(c)
-----------------------------------------------------------------------------
(* The main thread of the server sees the flag and makes the factory.      *)
SeeConnected ==
    /\ main = "waiting" /\ connected
    /\ main' = "preparing"
    /\ factory' = session
    /\ UNCHANGED <<stopped, net, accepting, handed, queue, links, clientMain,
                   clientNet, hasSession>>

(* The state is written, an empty one when it could not be initialized; or *)
(* the parser throws, and the block is left whose variables include the    *)
(* future of the network thread, which is waited for.                      *)
WriteState ==
    /\ main = "preparing"
    /\ \/ main' = "commands" /\ posted' = posted + 1
       \/ main' = "unwinding" /\ UNCHANGED posted
    /\ UNCHANGED <<factory, stopped, net, accepting, handed, sent, links,
                   clientMain, clientNet, hasSession>>

WriteProperty ==
    /\ main = "commands" /\ posted <= Commands
    /\ posted' = posted + 1
    /\ UNCHANGED <<mains, net, accepting, handed, sent, links, clientMain,
                   clientNet, hasSession>>

(* Mutant: the network thread is not stopped.                              *)
ExitJoining ==
    /\ main = "commands"
    /\ main' = "stopping"
    /\ UNCHANGED <<factory, stopped, net, accepting, handed, queue, links,
                   clientMain, clientNet, hasSession>>

Exit == /\ main = "commands"
        /\ main' = "stopping" /\ stopped' = TRUE
        /\ UNCHANGED <<factory, net, accepting, handed, queue, links, clientMain,
                       clientNet, hasSession>>

(* The network thread has returned: the process ends with its sockets.     *)
Join == /\ main \in {"stopping", "unwinding"} /\ net = "returned"
        /\ main' = IF main = "stopping" THEN "returned" ELSE "failed"
        /\ tcp' = [c \in Clients |->
                      IF tcp[c] = "none" THEN "none" ELSE "closed"]
        /\ UNCHANGED <<factory, stopped, net, accepting, handed, queue, refused,
                       clientMain, clientNet, hasSession>>

MainStep == SeeConnected \/ WriteState \/ Join
-----------------------------------------------------------------------------
(* The network thread of a client connects.  Once the kernel of the server *)
(* has answered there is a session, whether or not the server accepts; if  *)
(* the host cannot be resolved or refuses, the thread ends without one.    *)
Connect(c) ==
    /\ clientNet[c] = "connecting" /\ clientMain[c] = "commands"
    /\ \/ /\ Listening
          /\ clientNet' = [clientNet EXCEPT ![c] = "running"]
          /\ hasSession' = [hasSession EXCEPT ![c] = TRUE]
          /\ tcp' = [tcp EXCEPT ![c] = "backlog"]
       \/ /\ clientNet' = [clientNet EXCEPT ![c] = "returned"]
          /\ UNCHANGED <<hasSession, tcp>>
    /\ UNCHANGED <<server, refused, clientMain>>

(* run() returns: stopped, or the session has ended.                       *)
ClientRunReturns(c) ==
    /\ clientNet[c] # "returned"
    /\ clientMain[c] = "stopping" \/ tcp[c] = "closed"
    /\ clientNet' = [clientNet EXCEPT ![c] = "returned"]
    /\ UNCHANGED <<server, links, clientMain, hasSession>>

(* write_property goes through the session; without one the process dies.  *)
ClientWriteProperty(c) ==
    /\ clientMain[c] = "commands" /\ ~hasSession[c]
    /\ clientMain' = [clientMain EXCEPT ![c] = "crashed"]
    /\ UNCHANGED <<server, links, clientNet, hasSession>>

ClientExit(c) ==
    /\ clientMain[c] = "commands"
    /\ clientMain' = [clientMain EXCEPT ![c] = "stopping"]
    /\ UNCHANGED <<server, links, clientNet, hasSession>>

ClientJoin(c) ==
    /\ clientMain[c] = "stopping" /\ clientNet[c] = "returned"
    /\ clientMain' = [clientMain EXCEPT ![c] = "returned"]
    /\ UNCHANGED <<server, links, clientNet, hasSession>>

ClientStep(c) == Connect(c) \/ ClientRunReturns(c) \/ ClientJoin(c)
-----------------------------------------------------------------------------
Next == \/ NetStep \/ MainStep \/ WriteProperty \/ Exit
        \/ \E c \in Clients :
              ClientStep(c) \/ ClientWriteProperty(c) \/ ClientExit(c)

Spec == Init /\ [][Next]_vars

(* Threads go on; what is typed into a process is up to its user.          *)
FairSpec == /\ Spec
            /\ WF_vars(NetStep) /\ WF_vars(MainStep)
            /\ \A c \in Clients : WF_vars(ClientStep(c))
-----------------------------------------------------------------------------
TypeOK ==
    /\ main \in {"waiting", "preparing", "commands", "stopping", "unwinding",
                 "returned", "failed"}
    /\ net \in {"starting", "running", "accepted", "announced", "returned",
                "failed"}
    /\ {factory, mSession, session} \subseteq Clients \cup {None}
    /\ {stopped, accepting, active, connected} \subseteq BOOLEAN
    /\ posted \in Nat /\ sent \in 0..posted
    /\ tcp \in [Clients -> {"none", "backlog", "served", "closed"}]
    /\ refused \subseteq Clients
    /\ clientMain \in [Clients -> {"commands", "stopping", "returned", "crashed"}]
    /\ clientNet \in [Clients -> {"connecting", "running", "returned"}]
    /\ hasSession \in [Clients -> BOOLEAN]

(* Two threads share mSession without a lock: the main thread, which takes *)
(* it from the server for every message, does so only after the network    *)
(* thread has set it, and by then for good.  The pointer in main is set    *)
(* after the flag that announces it: the handler factory may be made with  *)
(* none, but never with one of another client.                             *)
ServerHasSession == /\ main # "waiting" => connected /\ mSession # None
                    /\ {factory, session} \subseteq {None, mSession}

(* The process of the server has ended.                                    *)
Ended == main \in {"returned", "failed"}

(* Whatever the clients do and whenever they leave, the first one accepted *)
(* is served, and keeps its connection as long as the server runs; of the  *)
(* others the server closes no connection but those it has refused.        *)
OneClientServed ==
    /\ \A c \in Clients : tcp[c] = "served" => c = mSession
    /\ mSession # None => tcp[mSession] = "served" \/ Ended
    /\ mSession \notin refused
    /\ \A c \in Clients : tcp[c] = "closed" => c \in refused \/ Gone(c) \/ Ended

(* "Accept more connections.": between two handlers an accept is pending,  *)
(* unless the network thread has been told to stop.                        *)
KeepsAccepting == net = "running" /\ ~stopped => accepting

(* The network thread gives up only when it was told to or when the one    *)
(* client that was served has ended: its read keeps run() from returning,  *)
(* though nothing is accepted any more and nothing is left to be sent.     *)
RunsWhileServing ==
    net = "returned" => stopped \/ \E c \in Clients : mSession = c /\ Gone(c)

(* A client that was accepted first and stays is sent the state, unless    *)
(* the server is stopped or its data cannot be parsed.                     *)
StateReachesClient ==
    \A c \in Clients :
        mSession = c ~> \/ sent > 0 \/ stopped \/ Gone(c)
                        \/ main \in {"unwinding", "failed"}

(* What the main thread posts is sent, however long it waits between two   *)
(* commands, unless the server is stopped or the client has ended by then: *)
(* a message posted after that may stay in the queue for good.             *)
PostedIsSent ==
    \A n \in 1..(Commands + 1) :
        posted >= n ~> \/ sent >= n \/ stopped
                       \/ \E c \in Clients : mSession = c /\ Gone(c)

(* The command to exit ends a process, whatever its network thread does.   *)
ExitReturns == /\ main = "stopping" ~> main = "returned"
               /\ \A c \in Clients : clientMain[c] = "stopping" ~> Gone(c)
=============================================================================
