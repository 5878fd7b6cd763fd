-------------------------- MODULE ProtoServerProofs --------------------------
(***************************************************************************)
(* Proofs about ProtoServer, for every set of connections and commands.    *)
(***************************************************************************)
EXTENDS ProtoServer, TLAPS

USE DEF Events, Packets, peers, history, vars

-----------------------------------------------------------------------------
(* Types *)

\* Writing some of the answers leaves a sequence of answers.
LEMMA RestType ==
    ASSUME NEW S, NEW s \in Seq(S), NEW n \in Nat
    PROVE  SubSeq(s, n + 1, Len(s)) \in Seq(S)
OBVIOUS

\* Every handler answers with a sequence of packets.
LEMMA HandlerType ==
    ASSUME NEW cmd, NEW answer \in Handler(cmd)
    PROVE  answer \in Seq(Packets)
<1>1. \A r \in CallbackResult(cmd) : r \in Packets
  BY DEF CallbackResult
<1>2. \A p, q \in Packets : <<p>> \in Seq(Packets) /\ <<p, q>> \in Seq(Packets)
  OBVIOUS
<1>3. PlainHandler(cmd) \subseteq Seq(Packets)
  BY <1>1, <1>2 DEF PlainHandler
<1>4. ValueHandler(cmd) \subseteq Seq(Packets)
  BY <1>1, <1>2 DEF ValueHandler
<1>5. StatHandler(cmd) \subseteq Seq(Packets)
  BY <1>1, <1>2 DEF StatHandler
<1>. QED  BY <1>3, <1>4, <1>5 DEF Handler

\* Giving a client back keeps the types of what it assigns.
LEMMA DestroyType ==
    ASSUME TypeOK, DestroyClient, handling \in Clients
    PROVE  /\ socket' \in [Clients -> {"none", "pending", "open", "closed"}]
           /\ inbox' \in [Clients -> Seq(Commands)]
           /\ outbox' \in [Clients -> Seq(Packets)]
           /\ handling' \in Clients \cup {NoClient}
           /\ step' \in {"idle", "connect", "work", "schedule"}
BY DEF TypeOK, DestroyClient

\* Every step keeps the types.
LEMMA TypeStep ==
    ASSUME TypeOK, HandlesOpenClient, [Next]_vars
    PROVE  TypeOK'
<1>h. step # "idle" => handling \in Clients
  BY DEF TypeOK, HandlesOpenClient
<1>1. CASE Run \/ RunFails
  BY <1>1 DEF TypeOK, Run, RunFails
<1>2. ASSUME NEW e \in Events, On(e) PROVE TypeOK'
  BY <1>2 DEF TypeOK, On
<1>3. ASSUME NEW c \in Clients,
             PeerConnects(c) \/ PeerStalls(c) \/ PeerReads(c) \/ PeerHangsUp(c)
      PROVE  TypeOK'
  BY <1>3 DEF TypeOK, PeerConnects, PeerStalls, PeerReads, PeerHangsUp
<1>4. ASSUME NEW c \in Clients, NEW cmd \in Commands, PeerSends(c, cmd) PROVE TypeOK'
  <2>1. inbox' \in [Clients -> Seq(Commands)]
    BY <1>4 DEF TypeOK, PeerSends
  <2>2. sent' \in [Clients -> Nat] /\ \A d \in Clients : sent'[d] <= MaxSent[d]
    <3>0. sent[c] \in Nat /\ MaxSent[c] \in Nat /\ sent[c] < MaxSent[c]
      <4>1. sent[c] < MaxSent[c]
        BY <1>4 DEF PeerSends
      <4>2. sent[c] \in Nat
        BY DEF TypeOK
      <4>3. MaxSent[c] \in Nat
        BY ConstantsAssumption DEF ConstantsAssumption
      <4>. QED  BY <4>1, <4>2, <4>3
    <3>1. sent[c] + 1 \in Nat /\ sent[c] + 1 <= MaxSent[c]
      BY <3>0
    <3>2. sent' = [sent EXCEPT ![c] = sent[c] + 1]
      BY <1>4 DEF PeerSends
    <3>. QED  BY <3>1, <3>2 DEF TypeOK
  <2>. QED  BY <1>4, <2>1, <2>2 DEF TypeOK, PeerSends
<1>5. ASSUME NEW c \in Clients, Accept(c) PROVE TypeOK'
  BY <1>5 DEF TypeOK, Accept
<1>6. ASSUME NEW c \in Clients, AcceptFails(c) PROVE TypeOK'
  BY <1>6 DEF TypeOK, AcceptFails
<1>7. ASSUME NEW c \in Clients, Dispatch(c) PROVE TypeOK'
  <2>1. events' \in [Clients -> Nat]
    BY <1>7 DEF TypeOK, Dispatch
  <2>. QED  BY <1>7, <2>1 DEF TypeOK, Dispatch
<1>8. CASE ConnectAccepted
  <2>1. connects' \in [Clients -> Nat]
    BY <1>8, <1>h DEF TypeOK, ConnectAccepted
  <2>. QED  BY <1>8, <1>h, <2>1 DEF TypeOK, ConnectAccepted
<1>9. CASE ConnectRejected
  <2>1. connects' \in [Clients -> Nat]
    BY <1>9, <1>h DEF TypeOK, ConnectRejected
  <2>2. DestroyClient /\ handling \in Clients
    BY <1>9, <1>h DEF ConnectRejected
  <2>. QED  BY <1>9, <2>1, <2>2, DestroyType DEF TypeOK, ConnectRejected, DestroyClient
<1>10. CASE Command
  <2>1. PICK answer \in Handler(Head(inbox[handling])) :
            outbox' = [outbox EXCEPT ![handling] = @ \o answer]
    BY <1>10 DEF Command
  <2>2. answer \in Seq(Packets)
    BY <2>1, HandlerType
  <2>h. handling \in Clients
    BY <1>10, <1>h DEF Command
  <2>a. outbox[handling] \in Seq(Packets)
    BY <2>h DEF TypeOK
  <2>b. outbox[handling] \o answer \in Seq(Packets)
    BY <2>2, <2>a
  <2>3. outbox' \in [Clients -> Seq(Packets)]
    BY <2>h, <2>1, <2>b DEF TypeOK
  <2>4. inbox' \in [Clients -> Seq(Commands)]
    BY <1>10, <1>h DEF TypeOK, Command
  <2>. QED  BY <1>10, <1>h, <2>3, <2>4 DEF TypeOK, Command
<1>11. CASE WorkError
  <2>1. DestroyClient /\ handling \in Clients
    BY <1>11, <1>h DEF WorkError
  <2>. QED  BY <1>11, <2>1, DestroyType DEF TypeOK, WorkError, DestroyClient
<1>12. CASE WorkDone
  <2>h. handling \in Clients
    BY <1>12, <1>h DEF WorkDone
  <2>1. PICK n \in Writable(handling) :
            outbox' = [outbox EXCEPT ![handling] = SubSeq(@, n + 1, Len(@))]
    BY <1>12 DEF WorkDone
  <2>2. n \in Nat /\ outbox[handling] \in Seq(Packets)
    BY <2>h, <2>1 DEF TypeOK, Writable
  <2>3. SubSeq(outbox[handling], n + 1, Len(outbox[handling])) \in Seq(Packets)
    BY <2>2, RestType
  <2>4. outbox' \in [Clients -> Seq(Packets)]
    BY <2>h, <2>1, <2>3 DEF TypeOK
  <2>5. flags' \in [Clients -> SUBSET {"READ", "WRITE"}]
    BY <1>12, <2>h DEF TypeOK, WorkDone
  <2>. QED  BY <1>12, <2>4, <2>5 DEF TypeOK, WorkDone
<1>13. CASE Schedule
  BY <1>13, <1>h DEF TypeOK, Schedule
<1>14. CASE ScheduleWarns
  BY <1>14, <1>h DEF TypeOK, ScheduleWarns
<1>15. CASE UNCHANGED vars
  BY <1>15 DEF TypeOK
<1>. QED
  BY <1>1, <1>2, <1>3, <1>4, <1>5, <1>6, <1>7, <1>8, <1>9, <1>10, <1>11, <1>12, <1>13,
     <1>14, <1>15 DEF Next, Handle

-----------------------------------------------------------------------------
(* The one-shot events *)

\* Giving the client at hand back leaves no event behind.
LEMMA DestroyKeepsEvents ==
    ASSUME TypeOK, EventInv, DestroyClient, handling \in Clients, unscheduled' = unscheduled
    PROVE  EventInv'
BY ConstantsAssumption
   DEF TypeOK, EventInv, OneEventPerClient, HandlesOpenClient, DestroyClient

\* Every step keeps the correspondence of events and clients.
LEMMA EventStep ==
    ASSUME TypeOK, EventInv, [Next]_vars
    PROVE  EventInv'
<1>. USE DEF EventInv, OneEventPerClient, HandlesOpenClient
<1>h. step # "idle" => handling \in Clients
  BY DEF TypeOK
<1>1. CASE Run \/ RunFails
  BY <1>1 DEF Run, RunFails
<1>2. ASSUME NEW e \in Events, On(e) PROVE EventInv'
  BY <1>2 DEF On
<1>3. ASSUME NEW c \in Clients, PeerConnects(c) PROVE EventInv'
  BY <1>3 DEF TypeOK, PeerConnects
<1>4. ASSUME NEW c \in Clients, PeerStalls(c) \/ PeerReads(c) \/ PeerHangsUp(c)
      PROVE  EventInv'
  BY <1>4 DEF PeerStalls, PeerReads, PeerHangsUp
<1>5. ASSUME NEW c \in Clients, NEW cmd \in Commands, PeerSends(c, cmd) PROVE EventInv'
  BY <1>5 DEF PeerSends
<1>6. ASSUME NEW c \in Clients, Accept(c) PROVE EventInv'
  BY <1>6, ConstantsAssumption DEF TypeOK, Accept
<1>7. ASSUME NEW c \in Clients, AcceptFails(c) PROVE EventInv'
  BY <1>7 DEF TypeOK, AcceptFails
<1>8. ASSUME NEW c \in Clients, Dispatch(c) PROVE EventInv'
  BY <1>8, ConstantsAssumption DEF TypeOK, Dispatch
<1>9. CASE ConnectAccepted
  BY <1>9 DEF ConnectAccepted
<1>10. CASE ConnectRejected
  <2>1. DestroyClient /\ handling \in Clients /\ unscheduled' = unscheduled
    BY <1>10, <1>h DEF ConnectRejected
  <2>. QED  BY <2>1, DestroyKeepsEvents
<1>11. CASE Command
  BY <1>11 DEF Command
<1>12. CASE WorkError
  <2>1. DestroyClient /\ handling \in Clients /\ unscheduled' = unscheduled
    BY <1>12, <1>h DEF WorkError
  <2>. QED  BY <2>1, DestroyKeepsEvents
<1>13. CASE WorkDone
  BY <1>13 DEF WorkDone
<1>14. CASE Schedule
  BY <1>14, <1>h, ConstantsAssumption DEF TypeOK, Schedule
<1>15. CASE ScheduleWarns
  BY <1>15, <1>h, ConstantsAssumption DEF TypeOK, ScheduleWarns
<1>16. CASE UNCHANGED vars
  BY <1>16
<1>. QED
  BY <1>1, <1>2, <1>3, <1>4, <1>5, <1>6, <1>7, <1>8, <1>9, <1>10, <1>11, <1>12, <1>13,
     <1>14, <1>15, <1>16 DEF Next, Handle

-----------------------------------------------------------------------------
(* ON_CONNECT *)

\* Every step keeps the order of ON_CONNECT and the command handlers.
LEMMA GateStep ==
    ASSUME TypeOK, HandlesOpenClient, GateInv, [Next]_vars
    PROVE  GateInv'
<1>. USE DEF GateInv
<1>h. step # "idle" => handling \in Clients /\ socket[handling] = "open"
  BY DEF TypeOK, HandlesOpenClient
<1>1. CASE Run \/ RunFails
  BY <1>1 DEF Run, RunFails
<1>2. ASSUME NEW e \in Events, On(e) PROVE GateInv'
  BY <1>2 DEF On
<1>3. ASSUME NEW c \in Clients, PeerConnects(c) PROVE GateInv'
  BY <1>3 DEF TypeOK, PeerConnects
<1>4. ASSUME NEW c \in Clients, PeerStalls(c) \/ PeerReads(c) \/ PeerHangsUp(c)
      PROVE  GateInv'
  BY <1>4 DEF PeerStalls, PeerReads, PeerHangsUp
<1>5. ASSUME NEW c \in Clients, NEW cmd \in Commands, PeerSends(c, cmd) PROVE GateInv'
  BY <1>5 DEF PeerSends
<1>6. ASSUME NEW c \in Clients, Accept(c) PROVE GateInv'
  BY <1>6 DEF TypeOK, HandlesOpenClient, Accept
<1>7. ASSUME NEW c \in Clients, AcceptFails(c) PROVE GateInv'
  BY <1>7 DEF TypeOK, AcceptFails
<1>8. ASSUME NEW c \in Clients, Dispatch(c) PROVE GateInv'
  BY <1>8 DEF TypeOK, Dispatch
<1>9. CASE ConnectAccepted
  <2>a. connects[handling] = 0 /\ handling \in Clients
    BY <1>9, <1>h DEF TypeOK, ConnectAccepted
  <2>. DEFINE Once == \A c \in Clients :
                 connects'[c] <= 1 /\ (c # handling => connects'[c] = connects[c])
  <2>b. ASSUME "connect" \in callbacks PROVE Once
    <3>1. connects' = [connects EXCEPT ![handling] = @ + 1]
      BY <1>9, <2>b DEF ConnectAccepted
    <3>. QED  BY <2>a, <3>1 DEF TypeOK
  <2>c. ASSUME "connect" \notin callbacks PROVE Once
    <3>1. connects' = [connects EXCEPT ![handling] = @ + 0]
      BY <1>9, <2>c DEF ConnectAccepted
    <3>. QED  BY <2>a, <3>1 DEF TypeOK
  <2>1. Once
    BY <2>b, <2>c
  <2>. QED  BY <1>9, <1>h, <2>1 DEF TypeOK, ConnectAccepted
<1>10. CASE ConnectRejected
  <2>a. connects[handling] = 0 /\ handling \in Clients
    BY <1>10, <1>h DEF TypeOK, ConnectRejected
  <2>b. connects' = [connects EXCEPT ![handling] = @ + 1]
    BY <1>10 DEF ConnectRejected
  <2>1. \A c \in Clients : connects'[c] <= 1 /\ (c # handling => connects'[c] = connects[c])
    BY <2>a, <2>b DEF TypeOK
  <2>. QED  BY <1>10, <1>h, <2>1 DEF TypeOK, ConnectRejected, DestroyClient
<1>11. CASE Command
  BY <1>11 DEF Command
<1>12. CASE WorkError
  BY <1>12, <1>h DEF TypeOK, WorkError, DestroyClient
<1>13. CASE WorkDone
  BY <1>13 DEF WorkDone
<1>14. CASE Schedule
  BY <1>14 DEF Schedule
<1>15. CASE ScheduleWarns
  BY <1>15 DEF ScheduleWarns
<1>16. CASE UNCHANGED vars
  BY <1>16
<1>. QED
  BY <1>1, <1>2, <1>3, <1>4, <1>5, <1>6, <1>7, <1>8, <1>9, <1>10, <1>11, <1>12, <1>13,
     <1>14, <1>15, <1>16 DEF Next, Handle

-----------------------------------------------------------------------------
(* Theorems *)

\* The event loop always has exactly one one-shot event for a client that waits for one, and
\* none for a client that was given back: the handler never meets a freed client.
THEOREM EventsFollowClients == Spec => [](TypeOK /\ EventInv)
<1>1. Init => TypeOK /\ EventInv
  BY ConstantsAssumption DEF Init, TypeOK, EventInv, OneEventPerClient, HandlesOpenClient
<1>2. TypeOK /\ EventInv /\ [Next]_vars => TypeOK' /\ EventInv'
  BY TypeStep, EventStep DEF EventInv
<1>. QED  BY <1>1, <1>2, PTL DEF Spec

\* The state of the loop, of the sockets and of the protocol clients is always well formed:
\* in particular the answers of a handler are packets, and libevent's count of events of a
\* client never goes below zero.
THEOREM TypeCorrect == Spec => []TypeOK
BY EventsFollowClients, PTL

\* ON_CONNECT has accepted a client before any of its commands reaches a handler, and is
\* asked about it once, for every interleaving of clients and registrations.
THEOREM ConnectDecidesFirst == Spec => []ConnectGate
<1>1. Init => GateInv
  BY DEF Init, GateInv
<1>2. TypeOK /\ EventInv /\ GateInv /\ [Next]_vars => GateInv'
  BY GateStep DEF EventInv
<1>3. GateInv => ConnectGate
  BY DEF GateInv, ConnectGate
<1>. QED  BY <1>1, <1>2, <1>3, EventsFollowClients, PTL DEF Spec
=============================================================================
