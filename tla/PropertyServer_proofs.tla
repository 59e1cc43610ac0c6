------------------------ MODULE PropertyServer_proofs ------------------------
(***************************************************************************)
(* The two threads of the server and any number of clients: what the       *)
(* server relies on without a lock holds for every interleaving.           *)
(***************************************************************************)
EXTENDS PropertyServer, TLAPS

\* Types, for any number of clients and commands.
THEOREM TypeInvariance == Spec => []TypeOK
  <1>. USE DEF mains, handed, queue, links, server
  <1>1. Init => TypeOK
    <2>. SUFFICES ASSUME Init PROVE TypeOK
      OBVIOUS
    <2>1. {factory, mSession, session} \subseteq Clients \cup {None}
      BY DEF Init
    <2>2. {stopped, accepting, active, connected} \subseteq BOOLEAN
      BY Zenon DEF Init
    <2>3. posted \in Nat /\ sent \in 0..posted
      BY DEF Init
    <2>4. /\ tcp \in [Clients -> {"none", "backlog", "served", "closed"}]
          /\ clientMain \in [Clients -> {"commands", "stopping", "returned", "crashed"}]
          /\ clientNet \in [Clients -> {"connecting", "running", "returned"}]
          /\ hasSession \in [Clients -> BOOLEAN]
      BY DEF Init
    <2>. QED
      BY <2>1, <2>2, <2>3, <2>4 DEF Init, TypeOK
  <1>2. TypeOK /\ [Next]_vars => TypeOK'
    <2>. SUFFICES ASSUME TypeOK, [Next]_vars PROVE TypeOK'
      OBVIOUS
    <2>. USE DEF TypeOK
    <2>1. CASE UNCHANGED vars
      BY <2>1 DEF vars
    <2>2. CASE Start
      BY <2>2 DEF Start
    <2>3. CASE Announce
      BY <2>3 DEF Announce
    <2>4. CASE HandOver
      BY <2>4 DEF HandOver
    <2>5. CASE SessionFails
      BY <2>5 DEF SessionFails
    <2>6. CASE RunPosted
      BY <2>6 DEF RunPosted
    <2>7. CASE RunReturns
      BY <2>7 DEF RunReturns
    <2>8. ASSUME NEW c \in Clients, Accept(c) PROVE TypeOK'
      BY <2>8 DEF Accept, Accepting
    <2>9. ASSUME NEW c \in Clients, AcceptFails(c) PROVE TypeOK'
      BY <2>9 DEF AcceptFails
    <2>10. ASSUME NEW c \in Clients, Refuse(c) PROVE TypeOK'
      BY <2>10 DEF Refuse
    <2>11. CASE SeeConnected
      BY <2>11 DEF SeeConnected
    <2>12. CASE WriteState
      BY <2>12 DEF WriteState
    <2>13. CASE Join
      BY <2>13 DEF Join
    <2>14. CASE WriteProperty
      BY <2>14 DEF WriteProperty
    <2>15. CASE Exit
      BY <2>15 DEF Exit
    <2>16. ASSUME NEW c \in Clients, Connect(c) PROVE TypeOK'
      BY <2>16 DEF Connect
    <2>17. ASSUME NEW c \in Clients, ClientRunReturns(c) PROVE TypeOK'
      BY <2>17 DEF ClientRunReturns
    <2>18. ASSUME NEW c \in Clients, ClientJoin(c) PROVE TypeOK'
      BY <2>18 DEF ClientJoin
    <2>19. ASSUME NEW c \in Clients, ClientWriteProperty(c) PROVE TypeOK'
      BY <2>19 DEF ClientWriteProperty
    <2>20. ASSUME NEW c \in Clients, ClientExit(c) PROVE TypeOK'
      BY <2>20 DEF ClientExit
    <2>. QED
      BY <2>1, <2>2, <2>3, <2>4, <2>5, <2>6, <2>7, <2>8, <2>9, <2>10, <2>11,
         <2>12, <2>13, <2>14, <2>15, <2>16, <2>17, <2>18, <2>19, <2>20
         DEF Next, NetStep, MainStep, ClientStep
  <1>. QED
    BY <1>1, <1>2, PTL DEF Spec

-----------------------------------------------------------------------------
(***************************************************************************)
(* The strengthening: what the phases of the two threads say of the        *)
(* session, and where the connections of the clients are.                  *)
(***************************************************************************)

PhasesAgree ==
    /\ main # "waiting" => connected
    /\ connected => mSession # None
    /\ net \in {"accepted", "announced"} => mSession # None
    /\ session \in {None, mSession} /\ factory \in {None, mSession}
    /\ net = "starting" => mSession = None
    /\ net = "running" /\ mSession = None => accepting
    /\ net = "running" /\ mSession # None => active \/ Gone(mSession)
    /\ net = "returned" => stopped \/ (mSession # None /\ Gone(mSession))

ConnectionsAgree ==
    /\ \A c \in Clients : clientNet[c] = "connecting" => tcp[c] = "none"
    /\ \A c \in Clients : tcp[c] = "served" => c = mSession
    /\ mSession # None => tcp[mSession] \in {"served", "closed"}
    /\ mSession # None => tcp[mSession] = "served" \/ Ended
    /\ mSession = None => refused = {}
    /\ mSession \notin refused
    /\ \A c \in Clients : tcp[c] = "closed" => c \in refused \/ Gone(c) \/ Ended

LEMMA StepKeepsAgreement ==
    ASSUME TypeOK, PhasesAgree, ConnectionsAgree, [Next]_vars
    PROVE  PhasesAgree' /\ ConnectionsAgree'
  <1>. USE NoneAssumption DEF TypeOK, mains, handed, queue, links, server, Gone, Ended
  <1>1. CASE UNCHANGED vars
    BY <1>1 DEF vars, PhasesAgree, ConnectionsAgree
  <1>2. CASE Start
    BY <1>2 DEF Start, PhasesAgree, ConnectionsAgree
  <1>3. CASE Announce
    BY <1>3 DEF Announce, PhasesAgree, ConnectionsAgree
  <1>4. CASE HandOver
    BY <1>4 DEF HandOver, PhasesAgree, ConnectionsAgree
  <1>5. CASE SessionFails
    BY <1>5 DEF SessionFails, PhasesAgree, ConnectionsAgree
  <1>6. CASE RunPosted
    BY <1>6 DEF RunPosted, PhasesAgree, ConnectionsAgree
  <1>7. CASE RunReturns
    BY <1>7 DEF RunReturns, PhasesAgree, ConnectionsAgree
  <1>8. ASSUME NEW c \in Clients, Accept(c)
        PROVE  PhasesAgree' /\ ConnectionsAgree'
    <2>1. PhasesAgree'
      BY <1>8 DEF Accept, Accepting, PhasesAgree
    <2>2. ConnectionsAgree'
      BY <1>8 DEF Accept, Accepting, ConnectionsAgree
    <2>. QED
      BY <2>1, <2>2
  <1>9. ASSUME NEW c \in Clients, AcceptFails(c)
        PROVE  PhasesAgree' /\ ConnectionsAgree'
    BY <1>9 DEF AcceptFails, Accepting, PhasesAgree, ConnectionsAgree
  <1>10. ASSUME NEW c \in Clients, Refuse(c)
         PROVE  PhasesAgree' /\ ConnectionsAgree'
    <2>1. PhasesAgree'
      BY <1>10 DEF Refuse, Accepting, PhasesAgree
    <2>2. c # mSession
      BY <1>10 DEF Refuse, Accepting, ConnectionsAgree
    <2>3. ConnectionsAgree'
      BY <1>10, <2>2 DEF Refuse, Accepting, ConnectionsAgree
    <2>. QED
      BY <2>1, <2>3
  <1>11. CASE SeeConnected
    BY <1>11 DEF SeeConnected, PhasesAgree, ConnectionsAgree
  <1>12. CASE WriteState
    BY <1>12 DEF WriteState, PhasesAgree, ConnectionsAgree
  <1>13. CASE Join
    BY <1>13 DEF Join, PhasesAgree, ConnectionsAgree
  <1>14. CASE WriteProperty
    BY <1>14 DEF WriteProperty, PhasesAgree, ConnectionsAgree
  <1>15. CASE Exit
    BY <1>15 DEF Exit, PhasesAgree, ConnectionsAgree
  <1>16. ASSUME NEW c \in Clients, Connect(c)
         PROVE  PhasesAgree' /\ ConnectionsAgree'
    <2>1. PhasesAgree'
      BY <1>16 DEF Connect, PhasesAgree
    <2>2. tcp[c] = "none" /\ c # mSession
      BY <1>16 DEF Connect, ConnectionsAgree
    <2>3. ConnectionsAgree'
      BY <1>16, <2>2 DEF Connect, ConnectionsAgree
    <2>. QED
      BY <2>1, <2>3
  <1>17. ASSUME NEW c \in Clients, ClientRunReturns(c)
         PROVE  PhasesAgree' /\ ConnectionsAgree'
    BY <1>17 DEF ClientRunReturns, PhasesAgree, ConnectionsAgree
  <1>18. ASSUME NEW c \in Clients,
                ClientJoin(c) \/ ClientWriteProperty(c) \/ ClientExit(c)
         PROVE  PhasesAgree' /\ ConnectionsAgree'
    BY <1>18 DEF ClientJoin, ClientWriteProperty, ClientExit, PhasesAgree,
                 ConnectionsAgree
  <1>. QED
    BY <1>1, <1>2, <1>3, <1>4, <1>5, <1>6, <1>7, <1>8, <1>9, <1>10, <1>11, <1>12,
       <1>13, <1>14, <1>15, <1>16, <1>17, <1>18
       DEF Next, NetStep, MainStep, ClientStep

LEMMA AgreementInvariance == Spec => [](PhasesAgree /\ ConnectionsAgree)
  <1>1. Init => PhasesAgree /\ ConnectionsAgree
    BY NoneAssumption DEF Init, PhasesAgree, ConnectionsAgree
  <1>2. TypeOK /\ (PhasesAgree /\ ConnectionsAgree) /\ [Next]_vars
            => (PhasesAgree /\ ConnectionsAgree)'
    BY StepKeepsAgreement
  <1>. QED
    BY <1>1, <1>2, TypeInvariance, PTL DEF Spec

\* The main thread of the server never goes through a null session, however
\* many clients come and go while the network thread runs, and what it holds
\* is the session of the client that is served.
THEOREM ServerHasSessionInvariance == Spec => []ServerHasSession
  <1>1. PhasesAgree => ServerHasSession
    BY DEF PhasesAgree, ServerHasSession
  <1>. QED
    BY <1>1, AgreementInvariance, PTL

\* The first client is served until the server ends, and the server closes
\* no connection but those it refuses, for any number of clients.
THEOREM OneClientServedInvariance == Spec => []OneClientServed
  <1>1. ConnectionsAgree => OneClientServed
    BY DEF ConnectionsAgree, OneClientServed
  <1>. QED
    BY <1>1, AgreementInvariance, PTL

\* The network thread does not return under a client that is being served,
\* whatever connections are refused and whatever is posted meanwhile.
THEOREM RunsWhileServingInvariance == Spec => []RunsWhileServing
  <1>1. TypeOK /\ PhasesAgree => RunsWhileServing
    BY DEF TypeOK, PhasesAgree, RunsWhileServing
  <1>. QED
    BY <1>1, TypeInvariance, AgreementInvariance, PTL
=============================================================================
