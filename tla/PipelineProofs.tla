--------------------------- MODULE PipelineProofs ---------------------------
(* Proofs about Pipeline, for every set of clients and descriptors, every   *)
(* ring size and spin limit, and any number of stops and starts.            *)
EXTENDS Pipeline, FiniteSetTheorems, SequenceTheorems, WellFoundedInduction, TLAPS

ConnType == [client : Client \cup {0}, in : Seq(Client), out : SUBSET Client]

GwOK ==
    /\ gw \in [pc : {"done", "poll", "serve", "decode", "push", "reports"},
               ready : SUBSET Fd, fd : Fd \cup {NoFd}, closed : BOOLEAN,
               cmd : Client \cup {0}, spins : Nat]
    /\ gw.pc \in {"decode", "push"} => gw.fd \in Fd
    /\ gw.pc = "push" => gw.cmd \in Client
EnOK ==
    /\ en \in [pc : {"done", "pop", "push"}, todo : Seq(Client), spins : Nat]
    /\ en.pc = "push" => en.todo # <<>>
NetOK ==
    /\ sock \in [Fd -> {"free", "pending", "open"}]
    /\ wire \in [Fd -> Seq(Client)] /\ hungup \subseteq Fd
ConnOK == conn \in [Fd -> ConnType]
RouteOK == route \in [Client -> Fd \cup {NoFd}]
RingOK == inbound \in Seq(Client) /\ exec \in Seq(Client)
CountOK == counters \in [commands : Nat, inboundDrops : Nat, clients : Int]
ToldOK ==
    told \in [spoke : [Fd -> SUBSET Client], shared : SUBSET Client, sent : Nat,
              connects : Nat, starts : Nat, decoded : Nat]

TypeOK ==
    /\ run \in {"stopped", "running", "stopping"}
    /\ GwOK /\ EnOK /\ NetOK /\ ConnOK /\ RouteOK /\ RingOK /\ CountOK /\ ToldOK

\* stop() returns, and start() begins, with the gateway thread gone.
StoppedIsDone == run = "stopped" => gw.pc = "done"

\* What the gateway may still serve in this pass is open; a peer it knows to be gone
\* has nothing left to receive.
ServedIsOpen ==
    /\ \A fd \in gw.ready : sock[fd] = "open"
    /\ gw.pc \in {"decode", "push"} => sock[gw.fd] = "open"
    /\ gw.pc \in {"decode", "push"} /\ gw.closed
          => gw.fd \in hungup /\ wire[gw.fd] = <<>>

\* Whatever is on a connection was said on it, and ids said on one connection share it.
SaidHere ==
    \A fd \in Fd :
        /\ wire[fd] \in Seq(told.spoke[fd]) /\ conn[fd].in \in Seq(told.spoke[fd])
        /\ conn[fd].client \in told.spoke[fd] \cup {0}
        /\ \A c, d \in told.spoke[fd] : c # d => c \in told.shared

\* The route of an id that is alone on its connections leads to an open connection that
\* spoke for it and is known by it.
Sole == Client \ ({0} \cup told.shared)
RoutesLive ==
    \A c \in Sole : route[c] # NoFd =>
        /\ sock[route[c]] = "open"
        /\ c \in told.spoke[route[c]]
        /\ conn[route[c]].client # 0

-----------------------------------------------------------------------------
(* Sequences and numbers.                                                   *)

\* The least of some natural numbers is one of them: the descriptor POSIX gives out
\* is a free one.
LEMMA FreeMin ==
  ASSUME NEW S, S \subseteq Nat, S # {}
  PROVE  Min(S) \in S
<1>. DEFINE R == OpToRel(<, Nat)
<1>1. IsWellFoundedOn(R, Nat)
  BY NatLessThanWellFounded
<1>2. R = {p \in Nat \X Nat : p[1] < p[2]}
  BY Zenon DEF OpToRel
<1>3. PICK m \in S : \A n \in S : <<n, m>> \notin R
  <2>. HIDE DEF R
  <2>. QED  BY <1>1, WFMin, Zenon
<1>4. \A n \in S : m =< n
  <2>. SUFFICES ASSUME NEW n \in S  PROVE m =< n
    OBVIOUS
  <2>1. ~(n < m)
    BY <1>2, <1>3
  <2>. QED  BY <2>1
<1>. QED
  BY <1>4 DEF Min

\* What is a sequence of some things is one of those and more.
LEMMA SeqOfMore ==
  ASSUME NEW S, NEW T, S \subseteq T, NEW s \in Seq(S)
  PROVE  s \in Seq(T)
OBVIOUS

-----------------------------------------------------------------------------
(* Types.                                                                   *)

USE DEF ring, net

\* The state before the first start() has its types.
LEMMA InitType == Init => TypeOK
<1>1. 0 \in Nat /\ <<>> \in Seq(Client) /\ NewConn \in ConnType
  BY EmptySeq DEF NewConn, ConnType
<1>2. Init => GwOK /\ EnOK
  BY <1>1 DEF Init, GwOK, EnOK, Idle, Waiting
<1>3. Init => NetOK /\ ConnOK /\ RouteOK /\ RingOK /\ CountOK /\ ToldOK
  BY <1>1 DEF Init, NetOK, ConnOK, RouteOK, RingOK, CountOK, ToldOK
<1>. QED
  BY <1>2, <1>3 DEF Init, TypeOK

\* What an action of Clients does to the types.
LEMMA ClientsType ==
  ASSUME TypeOK, NEW fd \in Fd,
         Connect(fd) \/ HangUp(fd) \/ (\E c \in Client : Send(fd, c))
  PROVE  TypeOK'
<1>1. NetOK'
  <2>1. CASE Connect(fd)
    <3>1. sock' \in [Fd -> {"free", "pending", "open"}]
      BY <2>1 DEF TypeOK, NetOK, Connect
    <3>. QED  BY <2>1, <3>1 DEF TypeOK, NetOK, Connect
  <2>2. CASE HangUp(fd)
    BY <2>2 DEF TypeOK, NetOK, HangUp
  <2>3. ASSUME NEW c \in Client, Send(fd, c)  PROVE NetOK'
    <3>1. Append(wire[fd], c) \in Seq(Client)
      BY DEF TypeOK, NetOK
    <3>2. wire' \in [Fd -> Seq(Client)]
      BY <2>3, <3>1 DEF TypeOK, NetOK, Send
    <3>. QED  BY <2>3, <3>2 DEF TypeOK, NetOK, Send
  <2>. QED  BY <2>1, <2>2, <2>3
<1>2. ToldOK'
  <2>1. CASE Connect(fd)
    BY <2>1 DEF TypeOK, ToldOK, Connect
  <2>2. CASE HangUp(fd)
    BY <2>2 DEF TypeOK, ToldOK, HangUp
  <2>3. ASSUME NEW c \in Client, Send(fd, c)  PROVE ToldOK'
    <3>. DEFINE spoke == [told.spoke EXCEPT ![fd] = @ \cup {c}]
                shared == IF told.spoke[fd] \subseteq {c} THEN told.shared
                          ELSE told.shared \cup told.spoke[fd] \cup {c}
    <3>1. spoke \in [Fd -> SUBSET Client] /\ shared \in SUBSET Client
      BY DEF TypeOK, ToldOK
    <3>2. told' = [spoke |-> spoke, shared |-> shared, sent |-> told.sent + 1,
                   connects |-> told.connects, starts |-> told.starts,
                   decoded |-> told.decoded]
      BY <2>3 DEF Send, TypeOK, ToldOK
    <3>. HIDE DEF spoke, shared
    <3>. QED  BY <3>1, <3>2 DEF TypeOK, ToldOK
  <2>. QED  BY <2>1, <2>2, <2>3
<1>3. UNCHANGED <<run, gw, en, conn, route, ring, counters>>
  BY DEF Connect, HangUp, Send
<1>. QED
  BY <1>1, <1>2, <1>3 DEF TypeOK, GwOK, EnOK, ConnOK, RouteOK, RingOK, CountOK

\* What a step of the gateway thread does to the types.
LEMMA GatewayType == TypeOK /\ Gateway => TypeOK'
<1>. SUFFICES ASSUME TypeOK, Gateway  PROVE TypeOK'
  OBVIOUS
<1>. USE DEF TypeOK
<1>1. CASE Poll
  <2>1. GwOK'
    BY <1>1 DEF Poll, GwOK, Idle, Fds
  <2>. QED  BY <1>1, <2>1 DEF Poll, EnOK, NetOK, ConnOK, RouteOK, RingOK, CountOK, ToldOK
<1>2. CASE Accept
  <2>1. NetOK'
    BY <1>2 DEF Accept, NetOK
  <2>2. ConnOK'
    <3>1. NewConn \in ConnType
      BY EmptySeq DEF NewConn, ConnType
    <3>. QED  BY <1>2, <3>1 DEF Accept, ConnOK
  <2>3. CountOK'
    <3>1. IsFiniteSet(Fds("pending"))
      BY PipelineAssumption, FS_Subset DEF PipelineAssumption, Fds
    <3>2. Cardinality(Fds("pending")) \in Nat
      BY <3>1, FS_CardinalityType
    <3>. QED  BY <1>2, <3>2 DEF Accept, CountOK
  <2>. QED  BY <1>2, <2>1, <2>2, <2>3 DEF Accept, GwOK, EnOK, RouteOK, RingOK, ToldOK
<1>3. ASSUME NEW fd \in Fd, Receive(fd)  PROVE TypeOK'
  <2>. DEFINE shut == fd \in hungup
  <2>0. shut \in BOOLEAN
    OBVIOUS
  <2>a. gw' = [gw EXCEPT !.pc = "decode", !.fd = fd, !.closed = shut]
    BY <1>3 DEF Receive
  <2>. HIDE DEF shut
  <2>1. GwOK'
    BY <2>0, <2>a DEF GwOK
  <2>2. NetOK'
    BY <1>3, EmptySeq DEF Receive, NetOK
  <2>3. ConnOK'
    <3>1. conn[fd].in \o wire[fd] \in Seq(Client)
      BY ConcatProperties DEF ConnOK, NetOK, ConnType
    <3>2. conn' = [conn EXCEPT ![fd] = [@ EXCEPT !.in = conn[fd].in \o wire[fd]]]
      BY <1>3 DEF Receive
    <3>3. [conn[fd] EXCEPT !.in = conn[fd].in \o wire[fd]] \in ConnType
      BY <3>1 DEF ConnOK, ConnType
    <3>. QED  BY <3>2, <3>3 DEF ConnOK
  <2>. QED  BY <1>3, <2>1, <2>2, <2>3 DEF Receive, EnOK, RouteOK, RingOK, CountOK, ToldOK
<1>4. CASE Decode
  <2>. DEFINE c == Head(conn[gw.fd].in)
              rest == [conn[gw.fd] EXCEPT !.in = Tail(@), !.client = c]
  <2>1. gw.fd \in Fd /\ conn[gw.fd] \in ConnType /\ conn[gw.fd].in # <<>>
    BY <1>4 DEF Decode, GwOK, ConnOK
  <2>2. c \in Client /\ rest \in ConnType
    BY <2>1, HeadTailProperties DEF ConnType
  <2>3. conn' = [conn EXCEPT ![gw.fd] = rest]
    BY <1>4 DEF Decode
  <2>4. gw' = [gw EXCEPT !.pc = "push", !.cmd = c] /\ route' = [route EXCEPT ![c] = gw.fd]
    BY <1>4 DEF Decode
  <2>5. told' = [told EXCEPT !.decoded = @ + 1] /\ UNCHANGED <<run, en, net, ring, counters>>
    BY <1>4 DEF Decode
  <2>. HIDE DEF c, rest
  <2>6. GwOK'
    BY <2>1, <2>2, <2>4 DEF GwOK
  <2>7. ConnOK' /\ RouteOK'
    BY <2>1, <2>2, <2>3, <2>4 DEF ConnOK, RouteOK
  <2>8. ToldOK'
    BY <2>5 DEF ToldOK
  <2>. QED  BY <2>5, <2>6, <2>7, <2>8 DEF EnOK, NetOK, RingOK, CountOK
<1>5. CASE PushCommand
  <2>1. GwOK'
    BY <1>5 DEF PushCommand, Decoding, GwOK
  <2>2. RingOK'
    BY <1>5 DEF PushCommand, RingOK, GwOK
  <2>. QED  BY <1>5, <2>1, <2>2 DEF PushCommand, EnOK, NetOK, ConnOK, RouteOK, CountOK, ToldOK
<1>6. CASE SpinForRoom
  <2>1. GwOK'
    BY <1>6 DEF SpinForRoom, GwOK
  <2>. QED  BY <1>6, <2>1 DEF SpinForRoom, EnOK, NetOK, ConnOK, RouteOK, RingOK, CountOK, ToldOK
<1>7. CASE DropCommand
  <2>1. GwOK'
    BY <1>7 DEF DropCommand, Decoding, GwOK
  <2>2. CountOK'
    BY <1>7 DEF DropCommand, CountOK
  <2>. QED  BY <1>7, <2>1, <2>2 DEF DropCommand, EnOK, NetOK, ConnOK, RouteOK, RingOK, ToldOK
<1>8. CASE Served
  <2>1. GwOK'
    BY <1>8 DEF Served, NextReady, Idle, GwOK
  <2>. QED  BY <1>8, <2>1 DEF Served, EnOK, NetOK, ConnOK, RouteOK, RingOK, CountOK, ToldOK
<1>9. CASE Close
  <2>1. gw.fd \in Fd /\ conn[gw.fd].client \in Client \cup {0}
    BY <1>9 DEF Close, GwOK, ConnOK, ConnType
  <2>2. GwOK'
    BY <1>9 DEF Close, NextReady, Idle, GwOK
  <2>3. NetOK'
    BY <1>9, <2>1 DEF Close, NetOK
  <2>4. ConnOK'
    <3>1. NewConn \in ConnType
      BY EmptySeq DEF NewConn, ConnType
    <3>. QED  BY <1>9, <2>1, <3>1 DEF Close, ConnOK
  <2>5. RouteOK'
    BY <1>9, <2>1 DEF Close, Unrouted, RouteOK
  <2>6. CountOK'
    BY <1>9 DEF Close, CountOK
  <2>7. ToldOK'
    <3>. DEFINE spoke == [told.spoke EXCEPT ![gw.fd] = {}]
    <3>1. spoke \in [Fd -> SUBSET Client]
      BY <2>1 DEF ToldOK
    <3>2. told' = [told EXCEPT !.spoke = spoke]
      BY <1>9 DEF Close
    <3>. HIDE DEF spoke
    <3>. QED  BY <3>1, <3>2 DEF ToldOK
  <2>. QED  BY <1>9, <2>2, <2>3, <2>4, <2>5, <2>6, <2>7 DEF Close, EnOK, RingOK
<1>10. CASE AllServed
  <2>1. GwOK'
    BY <1>10 DEF AllServed, Idle, GwOK
  <2>. QED  BY <1>10, <2>1 DEF AllServed, EnOK, NetOK, ConnOK, RouteOK, RingOK, CountOK, ToldOK
<1>11. CASE SendReport
  <2>. DEFINE c == Head(exec)
  <2>1. c \in Client /\ Tail(exec) \in Seq(Client)
    BY <1>11, HeadTailProperties DEF SendReport, RingOK
  <2>2. RingOK'
    BY <1>11, <2>1 DEF SendReport, RingOK
  <2>3. ConnOK'
    <3>1. CASE HasWay(c) /\ conn' = [conn EXCEPT ![route[c]].out = @ \cup {c}]
      <4>1. route[c] \in Fd
        BY <2>1, <3>1 DEF HasWay, RouteOK
      <4>2. [conn[route[c]] EXCEPT !.out = @ \cup {c}] \in ConnType
        BY <2>1, <4>1 DEF ConnOK, ConnType
      <4>. QED  BY <3>1, <4>1, <4>2 DEF ConnOK
    <3>2. CASE UNCHANGED conn
      BY <3>2 DEF ConnOK
    <3>. QED  BY <1>11, <3>1, <3>2 DEF SendReport
  <2>. QED  BY <1>11, <2>2, <2>3 DEF SendReport, GwOK, EnOK, NetOK, RouteOK, CountOK, ToldOK
<1>12. CASE Flush
  <2>1. GwOK'
    BY <1>12 DEF Flush, Idle, GwOK
  <2>2. ConnOK'
    <3>1. PICK blocked \in SUBSET {fd \in Fds("open") : conn[fd].out # {}} :
             conn' = [fd \in Fd |-> IF fd \in blocked THEN conn[fd]
                                    ELSE [conn[fd] EXCEPT !.out = {}]]
      BY <1>12 DEF Flush
    <3>2. \A fd \in Fd : conn[fd] \in ConnType /\ [conn[fd] EXCEPT !.out = {}] \in ConnType
      BY DEF ConnOK, ConnType
    <3>. QED  BY <3>1, <3>2 DEF ConnOK
  <2>. QED  BY <1>12, <2>1, <2>2 DEF Flush, EnOK, NetOK, RouteOK, RingOK, CountOK, ToldOK
<1>13. CASE GatewayExit
  <2>1. GwOK'
    BY <1>13 DEF GatewayExit, Idle, GwOK
  <2>2. NetOK' /\ RouteOK'
    BY <1>13, EmptySeq DEF GatewayExit, NetOK, RouteOK
  <2>3. ConnOK'
    <3>1. NewConn \in ConnType
      BY EmptySeq DEF NewConn, ConnType
    <3>. QED  BY <1>13, <3>1 DEF GatewayExit, ConnOK
  <2>4. ToldOK'
    BY <1>13 DEF GatewayExit, ToldOK
  <2>. QED  BY <1>13, <2>1, <2>2, <2>3, <2>4 DEF GatewayExit, EnOK, RingOK, CountOK
<1>. QED
  BY <1>1, <1>2, <1>3, <1>4, <1>5, <1>6, <1>7, <1>8, <1>9, <1>10, <1>11, <1>12, <1>13
  DEF Gateway

\* Taking one of several reports off the list leaves some.
LEMMA TailLeavesSome ==
  ASSUME NEW S, NEW s \in Seq(S), s # <<>>, Len(s) # 1
  PROVE  Tail(s) # <<>>
<1>1. Len(Tail(s)) = Len(s) - 1
  BY HeadTailProperties
<1>2. Len(Tail(s)) # 0
  BY <1>1, LenProperties
<1>3. Len(<<>>) = 0
  OBVIOUS
<1>. QED
  <2>. SUFFICES ASSUME Tail(s) = <<>>  PROVE FALSE
    OBVIOUS
  <2>1. Len(Tail(s)) = Len(<<>>)
    OBVIOUS
  <2>. QED  BY <1>2, <1>3, <2>1

\* What a step of the engine thread does to the types.
LEMMA EngineType == TypeOK /\ Engine => TypeOK'
<1>. SUFFICES ASSUME TypeOK, Engine  PROVE TypeOK'
  OBVIOUS
<1>. USE DEF TypeOK
<1>1. UNCHANGED <<run, gw, net, conn, route, told>>
  BY DEF Engine, Process, PushReport, SpinForReport, DropReport, EngineExit
<1>2. EnOK' /\ RingOK' /\ CountOK'
  <2>1. CASE Process
    <3>1. Head(inbound) \in Client /\ Tail(inbound) \in Seq(Client)
      BY <2>1, HeadTailProperties DEF Process, RingOK
    <3>2. PICK others \in {<<>>} \cup {<<m>> : m \in Client \ {Head(inbound)}} :
             en' = [Waiting("push") EXCEPT !.todo = <<Head(inbound)>> \o others]
      BY <2>1 DEF Process
    <3>3. others \in Seq(Client) /\ <<Head(inbound)>> \in Seq(Client)
      <4>1. CASE others = <<>>
        BY <3>1, <4>1, EmptySeq
      <4>2. CASE others # <<>>
        <5>1. PICK m \in Client : others = <<m>>
          BY <3>2, <4>2
        <5>. QED  BY <3>1, <5>1
      <4>. QED  BY <4>1, <4>2
    <3>4. <<Head(inbound)>> \o others \in Seq(Client) /\ <<Head(inbound)>> \o others # <<>>
      BY <3>3
    <3>5. EnOK'
      BY <3>2, <3>4 DEF EnOK, Waiting
    <3>. QED  BY <2>1, <3>1, <3>5 DEF Process, RingOK, CountOK
  <2>2. ASSUME en.pc = "push"  PROVE Pushed \in [pc : {"pop", "push"}, todo : Seq(Client), spins : Nat]
                                     /\ (Pushed.pc = "push" => Pushed.todo # <<>>)
                                     /\ Head(en.todo) \in Client
    <3>1. en.todo \in Seq(Client) /\ en.todo # <<>>
      BY <2>2 DEF EnOK
    <3>2. Head(en.todo) \in Client /\ Tail(en.todo) \in Seq(Client)
      BY <3>1, HeadTailProperties
    <3>3. Len(en.todo) # 1 => Tail(en.todo) # <<>>
      BY <3>1, TailLeavesSome
    <3>. QED  BY <3>2, <3>3 DEF EnOK, Pushed
  <2>3. CASE PushReport
    <3>1. en.pc = "push" /\ en' = Pushed /\ exec' = Append(exec, Head(en.todo))
          /\ UNCHANGED <<inbound, counters>>
      BY <2>3 DEF PushReport
    <3>2. EnOK'
      BY <3>1, <2>2 DEF EnOK
    <3>3. RingOK'
      BY <2>2, <3>1 DEF RingOK
    <3>4. CountOK'
      BY <3>1 DEF CountOK
    <3>. QED  BY <3>2, <3>3, <3>4
  <2>4. CASE SpinForReport
    <3>1. EnOK'
      BY <2>4 DEF SpinForReport, EnOK
    <3>. QED  BY <2>4, <3>1 DEF SpinForReport, RingOK, CountOK
  <2>5. CASE DropReport
    <3>1. en.pc = "push" /\ en' = Pushed /\ UNCHANGED <<ring, counters>>
      BY <2>5 DEF DropReport
    <3>2. EnOK'
      BY <3>1, <2>2 DEF EnOK
    <3>. QED  BY <3>1, <3>2 DEF RingOK, CountOK
  <2>6. CASE EngineExit
    BY <2>6, EmptySeq DEF EngineExit, Waiting, EnOK, RingOK, CountOK
  <2>. QED  BY <2>1, <2>3, <2>4, <2>5, <2>6 DEF Engine
<1>. QED
  BY <1>1, <1>2 DEF GwOK, NetOK, ConnOK, RouteOK, ToldOK

\* start(), stop() and its join keep the types.
LEMMA LifecycleType == TypeOK /\ (Start \/ Stop \/ Joined) => TypeOK'
<1>. SUFFICES ASSUME TypeOK, Start \/ Stop \/ Joined  PROVE TypeOK'
  OBVIOUS
<1>. USE DEF TypeOK
<1>1. GwOK' /\ EnOK'
  <2>1. CASE Start
    BY <2>1, EmptySeq DEF Start, Idle, Waiting, GwOK, EnOK
  <2>. QED  BY <2>1 DEF Stop, Joined, GwOK, EnOK
<1>2. ToldOK'
  BY DEF Start, Stop, Joined, ToldOK
<1>3. run' \in {"stopped", "running", "stopping"} /\ UNCHANGED <<net, conn, route, ring, counters>>
  BY DEF Start, Stop, Joined
<1>. QED
  BY <1>1, <1>2, <1>3 DEF NetOK, ConnOK, RouteOK, RingOK, CountOK

\* A step of the pipeline keeps the types.
LEMMA TypeStep == TypeOK /\ [Next]_vars => TypeOK'
<1>. SUFFICES ASSUME TypeOK, [Next]_vars  PROVE TypeOK'
  OBVIOUS
<1>1. CASE UNCHANGED vars
  BY <1>1 DEF vars, TypeOK, GwOK, EnOK, NetOK, ConnOK, RouteOK, RingOK, CountOK, ToldOK
<1>. QED
  BY <1>1, ClientsType, GatewayType, EngineType, LifecycleType DEF Next

\* Every variable keeps its type, over any number of connections, stops and starts:
\* in particular the engine is never in push_exec with nothing left to push.
THEOREM PipelineTypes == Spec => []TypeOK
BY InitType, TypeStep, PTL DEF Spec

-----------------------------------------------------------------------------
(* No command is lost without being counted.                                *)

CountInv == TypeOK /\ StoppedIsDone /\ CommandsAccounted

\* A thread of the gateway exists only while the server runs or stops.
LEMMA StoppedStep == StoppedIsDone /\ [Next]_vars => StoppedIsDone'
<1>. SUFFICES ASSUME StoppedIsDone, [Next]_vars, run' = "stopped"  PROVE gw'.pc = "done"
  BY DEF StoppedIsDone
<1>. USE DEF StoppedIsDone
<1>1. CASE Gateway
  <2>1. run = "stopped" /\ gw.pc = "done"
    BY <1>1 DEF Gateway, Poll, Accept, Receive, Decode, PushCommand, SpinForRoom,
                DropCommand, Served, Close, AllServed, SendReport, Flush, GatewayExit
  <2>. QED
    BY <1>1, <2>1 DEF Gateway, Poll, Accept, Receive, Decode, PushCommand, SpinForRoom,
                      DropCommand, Served, Close, AllServed, SendReport, Flush, GatewayExit
<1>2. CASE Engine
  BY <1>2 DEF Engine, Process, PushReport, SpinForReport, DropReport, EngineExit
<1>3. CASE Start \/ Stop \/ Joined
  BY <1>3 DEF Start, Stop, Joined
<1>4. CASE \E fd \in Fd : Connect(fd) \/ HangUp(fd) \/ (\E c \in Client : Send(fd, c))
  BY <1>4 DEF Connect, HangUp, Send
<1>5. CASE UNCHANGED vars
  BY <1>5 DEF vars
<1>. QED
  BY <1>1, <1>2, <1>3, <1>4, <1>5 DEF Next

\* A step that takes no command off a connection, into the ring, out of it or out of
\* the way keeps the account.
LEMMA AccountKept ==
  ASSUME CommandsAccounted, told'.decoded = told.decoded, UNCHANGED inbound,
         counters'.commands = counters.commands,
         counters'.inboundDrops = counters.inboundDrops,
         gw'.pc = "push" <=> gw.pc = "push"
  PROVE  CommandsAccounted'
BY DEF CommandsAccounted

\* The four steps that move a command, and the rest, keep the account.
LEMMA AccountStep == CountInv /\ [Next]_vars => CommandsAccounted'
<1>. SUFFICES ASSUME CountInv, [Next]_vars  PROVE CommandsAccounted'
  OBVIOUS
<1>0. TypeOK /\ CommandsAccounted /\ StoppedIsDone
  BY DEF CountInv
<1>1. /\ told.decoded \in Nat /\ counters.commands \in Nat /\ counters.inboundDrops \in Nat
      /\ inbound \in Seq(Client) /\ Len(inbound) \in Nat
  BY <1>0, LenProperties DEF TypeOK, ToldOK, CountOK, RingOK
<1>2. CASE \E fd \in Fd : Connect(fd) \/ HangUp(fd) \/ (\E c \in Client : Send(fd, c))
  <2>1. UNCHANGED <<inbound, counters, gw>>
    BY <1>2 DEF Connect, HangUp, Send
  <2>2. told'.decoded = told.decoded
    BY <1>0, <1>2 DEF Connect, HangUp, Send, TypeOK, ToldOK
  <2>. QED  BY <1>0, <2>1, <2>2, AccountKept
<1>3. CASE Gateway
  <2>1. CASE Poll \/ SpinForRoom \/ Served \/ AllServed \/ SendReport \/ Flush
             \/ \E fd \in Fd : Receive(fd)
    <3>1. UNCHANGED <<inbound, counters, told>>
      BY <2>1 DEF Poll, SpinForRoom, Served, AllServed, SendReport, Flush, Receive
    <3>2. gw'.pc = "push" <=> gw.pc = "push"
      <4>1. CASE SpinForRoom \/ \E fd \in Fd : Receive(fd)
        BY <1>0, <4>1 DEF SpinForRoom, Receive, TypeOK, GwOK
      <4>2. CASE Poll
        BY <4>2 DEF Poll, Idle
      <4>3. CASE Served \/ AllServed \/ SendReport \/ Flush
        BY <4>3 DEF Served, AllServed, SendReport, Flush, NextReady, Idle
      <4>. QED  BY <2>1, <4>1, <4>2, <4>3
    <3>. QED  BY <1>0, <3>1, <3>2, AccountKept
  <2>2. CASE Accept
    BY <1>0, <2>2, AccountKept DEF Accept, TypeOK, CountOK
  <2>3. CASE Close
    <3>1. UNCHANGED inbound /\ counters'.commands = counters.commands
          /\ counters'.inboundDrops = counters.inboundDrops
      BY <1>0, <2>3 DEF Close, TypeOK, CountOK
    <3>2. told'.decoded = told.decoded
      BY <1>0, <2>3 DEF Close, TypeOK, ToldOK
    <3>3. gw'.pc = "push" <=> gw.pc = "push"
      BY <2>3 DEF Close, NextReady, Idle
    <3>. QED  BY <1>0, <3>1, <3>2, <3>3, AccountKept
  <2>4. CASE GatewayExit
    <3>1. told'.decoded = told.decoded
      BY <1>0, <2>4 DEF GatewayExit, TypeOK, ToldOK
    <3>. QED  BY <1>0, <2>4, <3>1, AccountKept DEF GatewayExit, Idle
  <2>5. CASE Decode
    <3>1. told'.decoded = told.decoded + 1
      BY <1>0, <2>5 DEF Decode, TypeOK, ToldOK
    <3>2. gw.pc # "push" /\ gw'.pc = "push"
      BY <1>0, <2>5 DEF Decode, TypeOK, GwOK
    <3>3. UNCHANGED <<inbound, counters>>
      BY <2>5 DEF Decode
    <3>. QED  BY <1>0, <1>1, <3>1, <3>2, <3>3 DEF CommandsAccounted
  <2>6. CASE PushCommand
    <3>1. gw.pc = "push" /\ gw.cmd \in Client /\ gw'.pc # "push"
      BY <1>0, <2>6 DEF PushCommand, Decoding, TypeOK, GwOK
    <3>2. Len(inbound') = Len(inbound) + 1
      BY <1>1, <2>6, <3>1, AppendProperties DEF PushCommand
    <3>3. UNCHANGED <<told, counters>>
      BY <2>6 DEF PushCommand
    <3>. QED  BY <1>0, <1>1, <3>1, <3>2, <3>3 DEF CommandsAccounted
  <2>7. CASE DropCommand
    <3>1. gw.pc = "push" /\ gw'.pc # "push"
      BY <1>0, <2>7 DEF DropCommand, Decoding, TypeOK, GwOK
    <3>2. counters'.inboundDrops = counters.inboundDrops + 1
          /\ counters'.commands = counters.commands
      BY <1>0, <2>7 DEF DropCommand, TypeOK, CountOK
    <3>3. UNCHANGED <<told, inbound>>
      BY <2>7 DEF DropCommand
    <3>. QED  BY <1>0, <1>1, <3>1, <3>2, <3>3 DEF CommandsAccounted
  <2>. QED
    BY <1>3, <2>1, <2>2, <2>3, <2>4, <2>5, <2>6, <2>7 DEF Gateway
<1>4. CASE Engine
  <2>1. CASE Process
    <3>1. Len(inbound') = Len(inbound) - 1
      BY <1>1, <2>1, HeadTailProperties DEF Process
    <3>2. counters'.commands = counters.commands + 1
          /\ counters'.inboundDrops = counters.inboundDrops
      BY <1>0, <2>1 DEF Process, TypeOK, CountOK
    <3>3. UNCHANGED <<told, gw>>
      BY <2>1 DEF Process
    <3>. QED  BY <1>0, <1>1, <3>1, <3>2, <3>3 DEF CommandsAccounted
  <2>2. CASE PushReport \/ SpinForReport \/ DropReport \/ EngineExit
    <3>1. UNCHANGED <<told, gw, inbound, counters>>
      BY <2>2 DEF PushReport, SpinForReport, DropReport, EngineExit
    <3>. QED  BY <1>0, <3>1, AccountKept
  <2>. QED  BY <1>4, <2>1, <2>2 DEF Engine
<1>5. CASE Start
  <2>1. told'.decoded = told.decoded
    BY <1>0, <1>5 DEF Start, TypeOK, ToldOK
  <2>2. gw.pc # "push" /\ gw'.pc # "push"
    BY <1>0, <1>5 DEF Start, StoppedIsDone, Idle
  <2>. QED  BY <1>0, <1>5, <2>1, <2>2, AccountKept DEF Start
<1>6. CASE Stop \/ Joined \/ UNCHANGED vars
  <2>1. UNCHANGED <<told, gw, inbound, counters>>
    BY <1>6 DEF Stop, Joined, vars
  <2>. QED  BY <1>0, <2>1, AccountKept
<1>. QED
  BY <1>2, <1>3, <1>4, <1>5, <1>6 DEF Next

\* Backpressure is never silent: every command taken off a connection was processed, is
\* on its way or was counted as a drop, through any number of stop() and start(), which
\* leave commands in the ring (run_gateway's push loop, run_engine's pop).
THEOREM PipelineAccounts == Spec => []CommandsAccounted
<1>1. Init => CountInv
  <2>1. Init => StoppedIsDone /\ CommandsAccounted
    BY DEF Init, StoppedIsDone, CommandsAccounted, Idle
  <2>. QED  BY <2>1, InitType DEF CountInv
<1>2. CountInv /\ [Next]_vars => CountInv'
  BY TypeStep, StoppedStep, AccountStep DEF CountInv
<1>3. CountInv => CommandsAccounted
  BY DEF CountInv
<1>. QED
  BY <1>1, <1>2, <1>3, PTL DEF Spec
-----------------------------------------------------------------------------
(* Reports of an id that shares no connection reach a connection of its.    *)

Routed == ServedIsOpen /\ SaidHere /\ RoutesLive /\ SoleIdKeepsItsReports
RouteInv == TypeOK /\ Routed

\* A step that moves no socket, connection or route, and serves nothing new, keeps
\* what is known of the routes.
LEMMA RoutedKept ==
  ASSUME Routed, UNCHANGED <<net, conn, route>>,
         told'.spoke = told.spoke, told'.shared = told.shared,
         gw'.ready \subseteq gw.ready,
         gw'.pc \in {"decode", "push"} =>
             gw.pc \in {"decode", "push"} /\ gw'.fd = gw.fd /\ gw'.closed = gw.closed
  PROVE  Routed'
<1>1. ServedIsOpen'
  BY DEF Routed, ServedIsOpen
<1>2. SaidHere' /\ RoutesLive' /\ SoleIdKeepsItsReports'
  BY DEF Routed, SaidHere, RoutesLive, Sole, SoleIdKeepsItsReports
<1>. QED
  BY <1>1, <1>2 DEF Routed

\* Steps of clients: what they say is theirs, and only said on open or waiting sockets.
LEMMA RoutedClients ==
  ASSUME RouteInv, NEW fd \in Fd,
         Connect(fd) \/ HangUp(fd) \/ (\E c \in Client : Send(fd, c))
  PROVE  Routed'
<1>0. TypeOK /\ ServedIsOpen /\ SaidHere /\ RoutesLive /\ SoleIdKeepsItsReports
  BY DEF RouteInv, Routed
<1>1. CASE Connect(fd)
  <2>1. told'.spoke = told.spoke /\ told'.shared = told.shared
        /\ UNCHANGED <<gw, wire, hungup, conn, route>>
    BY <1>0, <1>1 DEF Connect, TypeOK, ToldOK
  <2>2. sock[fd] = "free"
    <3>1. Fds("free") \subseteq Nat /\ Fds("free") # {} /\ fd = Min(Fds("free"))
      BY <1>1, PipelineAssumption DEF Connect, PipelineAssumption, Fds
    <3>2. fd \in Fds("free")
      BY <1>1, <3>1, FreeMin
    <3>. QED  BY <3>2 DEF Fds
  <2>3. \A g \in Fd : sock[g] = "open" => sock'[g] = "open"
    BY <1>0, <1>1, <2>2 DEF Connect, TypeOK, NetOK
  <2>4. ServedIsOpen' /\ RoutesLive'
    BY <1>0, <2>1, <2>3 DEF ServedIsOpen, RoutesLive, Sole, TypeOK, GwOK, RouteOK
  <2>. QED  BY <1>0, <2>1, <2>4 DEF Routed, SaidHere, SoleIdKeepsItsReports
<1>2. CASE HangUp(fd)
  <2>1. hungup \subseteq hungup' /\ UNCHANGED <<gw, sock, wire, conn, route, told>>
    BY <1>2 DEF HangUp
  <2>2. ServedIsOpen'
    BY <1>0, <2>1 DEF ServedIsOpen
  <2>. QED  BY <1>0, <2>1, <2>2 DEF Routed, SaidHere, RoutesLive, Sole, SoleIdKeepsItsReports
<1>3. ASSUME NEW c \in Client, Send(fd, c)  PROVE Routed'
  <2>1. /\ fd \notin hungup
        /\ wire' = [wire EXCEPT ![fd] = Append(@, c)]
        /\ UNCHANGED <<gw, sock, hungup, conn, route>>
    BY <1>3 DEF Send
  <2>2. /\ told'.spoke = [told.spoke EXCEPT ![fd] = @ \cup {c}]
        /\ told'.shared = IF told.spoke[fd] \subseteq {c} THEN told.shared
                          ELSE told.shared \cup told.spoke[fd] \cup {c}
    BY <1>0, <1>3 DEF Send, TypeOK, ToldOK
  <2>3. told.spoke \in [Fd -> SUBSET Client] /\ wire \in [Fd -> Seq(Client)]
    BY <1>0 DEF TypeOK, ToldOK, NetOK
  <2>4. \A g \in Fd : told.spoke[g] \subseteq told'.spoke[g]
    BY <2>2, <2>3
  <2>5. ServedIsOpen'
    <3>1. \A g \in hungup : wire'[g] = wire[g]
      BY <1>0, <2>1, <2>3 DEF TypeOK, NetOK
    <3>. QED  BY <1>0, <2>1, <3>1 DEF ServedIsOpen
  <2>6. SaidHere'
    <3>. SUFFICES ASSUME NEW g \in Fd
                  PROVE  /\ wire'[g] \in Seq(told'.spoke[g])
                         /\ conn[g].in \in Seq(told'.spoke[g])
                         /\ conn[g].client \in told'.spoke[g] \cup {0}
                         /\ \A d, e \in told'.spoke[g] : d # e => d \in told'.shared
      BY <2>1 DEF SaidHere
    <3>1. wire[g] \in Seq(told'.spoke[g]) /\ conn[g].in \in Seq(told'.spoke[g])
      BY <1>0, <2>4, SeqOfMore DEF SaidHere
    <3>2. conn[g].client \in told'.spoke[g] \cup {0}
      BY <1>0, <2>4 DEF SaidHere
    <3>3. \A d, e \in told'.spoke[g] : d # e => d \in told'.shared
      <4>1. CASE g = fd
        BY <2>2, <2>3, <4>1
      <4>2. CASE g # fd
        BY <1>0, <2>2, <2>3, <4>2 DEF SaidHere
      <4>. QED  BY <4>1, <4>2
    <3>4. wire'[g] \in Seq(told'.spoke[g])
      <4>1. CASE g = fd
        <5>1. c \in told'.spoke[g] /\ wire'[g] = Append(wire[g], c)
          BY <2>1, <2>2, <2>3, <4>1
        <5>. DEFINE T == told'.spoke[g]
        <5>2. c \in T /\ wire[g] \in Seq(T)
          BY <3>1, <5>1
        <5>. HIDE DEF T
        <5>3. Append(wire[g], c) \in Seq(T)
          BY <5>2
        <5>. QED  BY <5>1, <5>3 DEF T
      <4>2. CASE g # fd
        BY <2>1, <2>3, <3>1, <4>2
      <4>. QED  BY <4>1, <4>2
    <3>. QED  BY <3>1, <3>2, <3>3, <3>4
  <2>7. told.shared \subseteq told'.shared
    BY <2>2
  <2>8. RoutesLive' /\ SoleIdKeepsItsReports'
    BY <1>0, <2>1, <2>4, <2>7 DEF RoutesLive, Sole, SoleIdKeepsItsReports, TypeOK, RouteOK
  <2>. QED  BY <2>5, <2>6, <2>8 DEF Routed
<1>. QED
  BY <1>1, <1>2, <1>3

\* Steps of the gateway that take from a connection or open one: what is decoded was
\* said here, and its route leads to the connection it came from.
LEMMA RoutedReading ==
  ASSUME RouteInv,
         Poll \/ Accept \/ (\E fd \in Fd : Receive(fd)) \/ Decode
  PROVE  Routed'
<1>0. TypeOK /\ ServedIsOpen /\ SaidHere /\ RoutesLive /\ SoleIdKeepsItsReports
  BY DEF RouteInv, Routed
<1>a. conn \in [Fd -> ConnType] /\ wire \in [Fd -> Seq(Client)] /\ route \in [Client -> Fd \cup {NoFd}]
  BY <1>0 DEF TypeOK, NetOK, ConnOK, RouteOK
<1>1. CASE Poll
  <2>1. gw'.pc = "serve" /\ gw'.ready \subseteq Fds("open") /\ UNCHANGED <<net, conn, route, told>>
    BY <1>1 DEF Poll, Idle
  <2>2. ServedIsOpen'
    BY <2>1 DEF ServedIsOpen, Fds
  <2>. QED  BY <1>0, <2>1, <2>2 DEF Routed, SaidHere, RoutesLive, Sole, SoleIdKeepsItsReports
<1>2. CASE Accept
  <2>1. /\ sock' = [fd \in Fd |-> IF sock[fd] = "pending" THEN "open" ELSE sock[fd]]
        /\ conn' = [fd \in Fd |-> IF sock[fd] = "pending" THEN NewConn ELSE conn[fd]]
        /\ UNCHANGED <<gw, wire, hungup, route, told>>
    BY <1>2 DEF Accept
  <2>2. NewConn.in = <<>> /\ NewConn.client = 0 /\ NewConn.out = {}
    BY DEF NewConn
  <2>3. \A fd \in Fd : sock[fd] = "open" => sock'[fd] = "open" /\ conn'[fd] = conn[fd]
    BY <2>1
  <2>a. gw.ready \subseteq Fd /\ (gw.pc \in {"decode", "push"} => gw.fd \in Fd)
    BY <1>0 DEF TypeOK, GwOK
  <2>b. ServedIsOpen'
    BY <1>0, <2>1, <2>3, <2>a DEF ServedIsOpen
  <2>4. RoutesLive'
    <3>1. \A c \in Client : route[c] # NoFd => route[c] \in Fd
      BY <1>a
    <3>. QED  BY <1>0, <2>1, <2>3, <3>1 DEF RoutesLive, Sole
  <2>5. SaidHere'
    <3>. SUFFICES ASSUME NEW fd \in Fd
                  PROVE  /\ conn'[fd].in \in Seq(told.spoke[fd])
                         /\ conn'[fd].client \in told.spoke[fd] \cup {0}
      BY <1>0, <2>1 DEF SaidHere
    <3>1. CASE sock[fd] = "pending"
      <4>1. conn'[fd] = NewConn
        BY <2>1, <3>1
      <4>. QED  BY <2>2, <4>1, EmptySeq
    <3>2. CASE sock[fd] # "pending"
      <4>1. conn'[fd] = conn[fd]
        BY <2>1, <3>2
      <4>. QED  BY <1>0, <4>1 DEF SaidHere
    <3>. QED  BY <3>1, <3>2
  <2>6. SoleIdKeepsItsReports'
    BY <1>0, <2>1, <2>2 DEF SoleIdKeepsItsReports
  <2>. QED  BY <2>b, <2>4, <2>5, <2>6 DEF Routed
<1>3. ASSUME NEW fd \in Fd, Receive(fd)  PROVE Routed'
  <2>1. /\ conn' = [conn EXCEPT ![fd].in = @ \o wire[fd]]
        /\ wire' = [wire EXCEPT ![fd] = <<>>]
        /\ UNCHANGED <<sock, hungup, route, told>>
    BY <1>3 DEF Receive
  <2>2. /\ gw'.fd = fd /\ gw'.closed = (fd \in hungup) /\ gw'.ready = gw.ready
        /\ fd \in gw.ready
    BY <1>0, <1>3 DEF Receive, TypeOK, GwOK
  <2>3. \A g \in Fd : conn'[g].client = conn[g].client /\ conn'[g].out = conn[g].out
    BY <1>a, <2>1 DEF ConnType
  <2>4. ServedIsOpen'
    BY <1>0, <1>a, <2>1, <2>2 DEF ServedIsOpen
  <2>5. SaidHere'
    <3>. SUFFICES ASSUME NEW g \in Fd
                  PROVE  wire'[g] \in Seq(told.spoke[g]) /\ conn'[g].in \in Seq(told.spoke[g])
      BY <1>0, <2>1, <2>3 DEF SaidHere
    <3>. DEFINE T == told.spoke[g]
    <3>1. wire[g] \in Seq(T) /\ conn[g].in \in Seq(T)
      BY <1>0 DEF SaidHere
    <3>2. wire'[g] = wire[g] \/ wire'[g] = <<>>
      BY <1>a, <2>1
    <3>3. conn'[g].in = conn[g].in \/ conn'[g].in = conn[g].in \o wire[g]
      BY <1>a, <2>1 DEF ConnType
    <3>. HIDE DEF T
    <3>4. conn[g].in \o wire[g] \in Seq(T)
      BY <3>1, ConcatProperties
    <3>5. wire'[g] \in Seq(T)
      BY <3>1, <3>2, EmptySeq
    <3>6. conn'[g].in \in Seq(T)
      BY <3>1, <3>3, <3>4
    <3>. QED  BY <3>5, <3>6 DEF T
  <2>6. RoutesLive' /\ SoleIdKeepsItsReports'
    BY <1>0, <1>a, <2>1, <2>3 DEF RoutesLive, Sole, SoleIdKeepsItsReports
  <2>. QED  BY <2>4, <2>5, <2>6 DEF Routed
<1>4. CASE Decode
  <2>. DEFINE here == gw.fd
              c == Head(conn[here].in)
  <2>1. /\ conn' = [conn EXCEPT ![here].in = Tail(@), ![here].client = c]
        /\ route' = [route EXCEPT ![c] = here]
        /\ gw' = [gw EXCEPT !.pc = "push", !.cmd = c]
        /\ conn[here].in # <<>> /\ gw.pc = "decode"
        /\ UNCHANGED net
    BY <1>4 DEF Decode
  <2>2. here \in Fd /\ sock[here] = "open"
    BY <1>0, <2>1 DEF TypeOK, GwOK, ServedIsOpen
  <2>3. told'.spoke = told.spoke /\ told'.shared = told.shared
    BY <1>0, <1>4 DEF Decode, TypeOK, ToldOK
  <2>4. c \in told.spoke[here] /\ Tail(conn[here].in) \in Seq(told.spoke[here])
    BY <1>0, <2>1, <2>2, HeadTailProperties DEF SaidHere
  <2>5. c \in Client
    BY <1>0, <2>2, <2>4 DEF TypeOK, ToldOK
  <2>. HIDE DEF c
  <2>6. conn'[here].in = Tail(conn[here].in) /\ conn'[here].client = c
        /\ conn'[here].out = conn[here].out
    BY <1>a, <2>1, <2>2 DEF ConnType
  <2>7. \A g \in Fd \ {here} : conn'[g] = conn[g]
    BY <1>a, <2>1
  <2>8. ServedIsOpen'
    BY <1>0, <2>1 DEF ServedIsOpen, TypeOK, GwOK
  <2>9. SaidHere'
    <3>. SUFFICES ASSUME NEW g \in Fd
                  PROVE  /\ conn'[g].in \in Seq(told.spoke[g])
                         /\ conn'[g].client \in told.spoke[g] \cup {0}
      BY <1>0, <2>1, <2>3 DEF SaidHere
    <3>1. CASE g = here
      BY <2>4, <2>6, <3>1
    <3>2. CASE g # here
      <4>1. conn'[g] = conn[g]
        BY <2>7, <3>2
      <4>. QED  BY <1>0, <4>1 DEF SaidHere
    <3>. QED  BY <3>1, <3>2
  <2>10. RoutesLive'
    <3>. SUFFICES ASSUME NEW d \in Sole, route'[d] # NoFd
                  PROVE  /\ sock[route'[d]] = "open"
                         /\ d \in told.spoke[route'[d]]
                         /\ conn'[route'[d]].client # 0
      BY <2>1, <2>3 DEF RoutesLive, Sole
    <3>0. d \in Client /\ d # 0 /\ d \notin told.shared
      BY DEF Sole
    <3>1. CASE d = c
      BY <1>a, <2>1, <2>2, <2>4, <2>5, <2>6, <3>0, <3>1
    <3>2. CASE d # c
      <4>1. route'[d] = route[d] /\ route[d] \in Fd
        BY <1>a, <2>1, <3>0, <3>2
      <4>2. /\ sock[route[d]] = "open" /\ d \in told.spoke[route[d]]
            /\ conn[route[d]].client # 0
        BY <1>0, <4>1 DEF RoutesLive
      <4>3. route[d] # here
        BY <1>0, <2>2, <2>4, <3>0, <3>2, <4>2 DEF SaidHere
      <4>. QED  BY <2>7, <4>1, <4>2, <4>3
    <3>. QED  BY <3>1, <3>2
  <2>11. SoleIdKeepsItsReports'
    BY <1>0, <2>3, <2>6, <2>7 DEF SoleIdKeepsItsReports
  <2>. QED  BY <2>8, <2>9, <2>10, <2>11 DEF Routed
<1>. QED
  BY <1>1, <1>2, <1>3, <1>4

\* Closing a connection takes away the route to it of an id that was alone on it: it is
\* the one of its last command, as all its commands bore that id.
LEMMA RoutedClose == ASSUME RouteInv, Close  PROVE Routed'
<1>. DEFINE here == gw.fd
            c == conn[here].client
<1>0. TypeOK /\ ServedIsOpen /\ SaidHere /\ RoutesLive /\ SoleIdKeepsItsReports
  BY DEF RouteInv, Routed
<1>1. /\ conn \in [Fd -> ConnType] /\ route \in [Client -> Fd \cup {NoFd}]
      /\ sock \in [Fd -> {"free", "pending", "open"}] /\ told.spoke \in [Fd -> SUBSET Client]
      /\ gw.ready \subseteq Fd /\ here \in Fd
  BY <1>0 DEF TypeOK, GwOK, NetOK, ConnOK, RouteOK, ToldOK, Close
<1>2. /\ conn' = [conn EXCEPT ![here] = NewConn]
      /\ sock' = [sock EXCEPT ![here] = "free"]
      /\ route' = IF c = 0 THEN route ELSE [route EXCEPT ![c] = NoFd]
      /\ UNCHANGED wire /\ gw.pc = "decode" /\ gw.closed
  BY DEF Close, Unrouted
<1>3. told'.spoke = [told.spoke EXCEPT ![here] = {}] /\ told'.shared = told.shared
  BY <1>0 DEF Close, TypeOK, ToldOK
<1>4. wire[here] = <<>>
  BY <1>0, <1>2 DEF ServedIsOpen
<1>5. NewConn.in = <<>> /\ NewConn.client = 0 /\ NewConn.out = {}
  BY DEF NewConn
<1>6. \A g \in Fd \ {here} : conn'[g] = conn[g] /\ sock'[g] = sock[g]
                             /\ told'.spoke[g] = told.spoke[g]
  BY <1>1, <1>2, <1>3
<1>7. conn'[here] = NewConn /\ told'.spoke[here] = {}
  BY <1>1, <1>2, <1>3
<1>8. ServedIsOpen'
  <2>1. gw'.pc = "serve" /\ gw'.ready = gw.ready \ {here}
    BY DEF Close, NextReady, Idle
  <2>. QED  BY <1>0, <1>1, <1>6, <2>1 DEF ServedIsOpen
<1>9. SaidHere'
  <2>. SUFFICES ASSUME NEW g \in Fd
                PROVE  /\ wire[g] \in Seq(told'.spoke[g]) /\ conn'[g].in \in Seq(told'.spoke[g])
                       /\ conn'[g].client \in told'.spoke[g] \cup {0}
                       /\ \A d, e \in told'.spoke[g] : d # e => d \in told'.shared
    BY <1>2 DEF SaidHere
  <2>1. CASE g = here
    BY <1>4, <1>5, <1>7, <2>1, EmptySeq
  <2>2. CASE g # here
    BY <1>0, <1>3, <1>6, <2>2 DEF SaidHere
  <2>. QED  BY <2>1, <2>2
<1>10. RoutesLive'
  <2>. SUFFICES ASSUME NEW d \in Sole, route'[d] # NoFd
                PROVE  /\ sock'[route'[d]] = "open"
                       /\ d \in told'.spoke[route'[d]]
                       /\ conn'[route'[d]].client # 0
    BY <1>3 DEF RoutesLive, Sole
  <2>0. d \in Client /\ d # 0 /\ d \notin told.shared
    BY DEF Sole
  <2>1. route'[d] = route[d] /\ route[d] \in Fd
    BY <1>1, <1>2, <2>0
  <2>2. ASSUME route[d] = here  PROVE FALSE
    <3>1. c # 0 /\ d \in told.spoke[here] /\ c \in told.spoke[here]
      BY <1>0, <1>1, <2>1, <2>2 DEF RoutesLive, SaidHere
    <3>2. d = c
      BY <1>0, <1>1, <2>0, <3>1 DEF SaidHere
    <3>. QED  BY <1>1, <1>2, <2>0, <3>1, <3>2
  <2>. QED  BY <1>0, <1>6, <2>1, <2>2 DEF RoutesLive
<1>11. SoleIdKeepsItsReports'
  BY <1>0, <1>3, <1>5, <1>6, <1>7 DEF SoleIdKeepsItsReports
<1>. QED
  BY <1>8, <1>9, <1>10, <1>11 DEF Routed

\* What the gateway does with reports, and its return: a report follows a route.
LEMMA RoutedWriting ==
  ASSUME RouteInv, SendReport \/ Flush \/ GatewayExit
  PROVE  Routed'
<1>0. TypeOK /\ ServedIsOpen /\ SaidHere /\ RoutesLive /\ SoleIdKeepsItsReports
  BY DEF RouteInv, Routed
<1>a. conn \in [Fd -> ConnType] /\ route \in [Client -> Fd \cup {NoFd}]
  BY <1>0 DEF TypeOK, ConnOK, RouteOK
<1>1. ASSUME UNCHANGED <<net, route, told>>, gw'.pc \notin {"decode", "push"},
             gw'.ready = gw.ready,
             \A g \in Fd : /\ conn'[g].in = conn[g].in /\ conn'[g].client = conn[g].client
                           /\ conn'[g].out \ told.spoke[g] \subseteq {0} \cup told.shared
      PROVE  Routed'
  <2>1. ServedIsOpen' /\ SoleIdKeepsItsReports'
    BY <1>0, <1>1 DEF ServedIsOpen, SoleIdKeepsItsReports
  <2>2. SaidHere'
    BY <1>0, <1>1 DEF SaidHere
  <2>3. RoutesLive'
    <3>1. \A c \in Client : route[c] # NoFd => route[c] \in Fd
      BY <1>a
    <3>. QED  BY <1>0, <1>1, <3>1 DEF RoutesLive, Sole
  <2>. QED  BY <2>1, <2>2, <2>3 DEF Routed
<1>2. CASE SendReport
  <2>. DEFINE c == Head(exec)
  <2>1. c \in Client
    BY <1>0, <1>2, HeadTailProperties DEF SendReport, TypeOK, RingOK
  <2>2. UNCHANGED <<gw, net, route, told>> /\ gw.pc = "reports"
    BY <1>2 DEF SendReport
  <2>3. \A g \in Fd : /\ conn'[g].in = conn[g].in /\ conn'[g].client = conn[g].client
                      /\ conn'[g].out \ told.spoke[g] \subseteq {0} \cup told.shared
    <3>1. CASE HasWay(c) /\ conn' = [conn EXCEPT ![route[c]].out = @ \cup {c}]
      <4>. HIDE DEF c
      <4>1. c \in told.spoke[route[c]] \cup {0} \cup told.shared
        BY <1>0, <2>1, <3>1 DEF RoutesLive, Sole, HasWay
      <4>2. \A g \in Fd : /\ conn'[g].in = conn[g].in /\ conn'[g].client = conn[g].client
                          /\ conn'[g].out = IF g = route[c] THEN conn[g].out \cup {c}
                                                            ELSE conn[g].out
        BY <1>a, <3>1 DEF ConnType
      <4>3. \A g \in Fd : conn[g].out \ told.spoke[g] \subseteq {0} \cup told.shared
        BY <1>0 DEF SoleIdKeepsItsReports
      <4>4. \A g \in Fd : conn'[g].out \ told.spoke[g] \subseteq {0} \cup told.shared
        <5>. SUFFICES ASSUME NEW g \in Fd, NEW d \in conn'[g].out, d \notin told.spoke[g]
                      PROVE  d \in {0} \cup told.shared
          OBVIOUS
        <5>1. CASE d \in conn[g].out
          BY <4>3, <5>1
        <5>2. CASE d \notin conn[g].out
          <6>1. g = route[c] /\ d = c
            BY <4>2, <5>2
          <6>. QED  BY <4>1, <6>1
        <5>. QED  BY <5>1, <5>2
      <4>. QED  BY <4>2, <4>4
    <3>2. CASE UNCHANGED conn
      BY <1>0, <3>2 DEF SoleIdKeepsItsReports
    <3>. QED  BY <1>2, <3>1, <3>2 DEF SendReport
  <2>. QED  BY <1>1, <2>2, <2>3
<1>3. CASE Flush
  <2>1. PICK blocked \in SUBSET {fd \in Fds("open") : conn[fd].out # {}} :
           conn' = [fd \in Fd |-> IF fd \in blocked THEN conn[fd]
                                  ELSE [conn[fd] EXCEPT !.out = {}]]
    BY <1>3 DEF Flush
  <2>2. \A g \in Fd : /\ conn'[g].in = conn[g].in /\ conn'[g].client = conn[g].client
                      /\ conn'[g].out = conn[g].out \/ conn'[g].out = {}
    BY <1>a, <2>1 DEF ConnType
  <2>3. gw'.pc = "poll" /\ gw'.ready = {} /\ UNCHANGED <<net, route, told>>
    BY <1>3 DEF Flush, Idle
  <2>4. ServedIsOpen'
    BY <2>3 DEF ServedIsOpen
  <2>5. SaidHere' /\ SoleIdKeepsItsReports'
    BY <1>0, <2>2, <2>3 DEF SaidHere, SoleIdKeepsItsReports
  <2>6. RoutesLive'
    <3>1. \A c \in Client : route[c] # NoFd => route[c] \in Fd
      BY <1>a
    <3>. QED  BY <1>0, <2>2, <2>3, <3>1 DEF RoutesLive, Sole
  <2>. QED  BY <2>4, <2>5, <2>6 DEF Routed
<1>4. CASE GatewayExit
  <2>1. /\ wire' = [fd \in Fd |-> <<>>] /\ conn' = [fd \in Fd |-> NewConn]
        /\ route' = [c \in Client |-> NoFd] /\ gw'.pc = "done" /\ gw'.ready = {}
    BY <1>4 DEF GatewayExit, Idle
  <2>2. told'.spoke = [fd \in Fd |-> {}]
    BY <1>0, <1>4 DEF GatewayExit, TypeOK, ToldOK
  <2>3. NewConn.in = <<>> /\ NewConn.client = 0 /\ NewConn.out = {}
    BY DEF NewConn
  <2>4. ServedIsOpen' /\ RoutesLive' /\ SoleIdKeepsItsReports'
    BY <2>1, <2>2, <2>3 DEF ServedIsOpen, RoutesLive, Sole, SoleIdKeepsItsReports
  <2>5. SaidHere'
    BY <2>1, <2>2, <2>3, EmptySeq DEF SaidHere
  <2>. QED  BY <2>4, <2>5 DEF Routed
<1>. QED
  BY <1>2, <1>3, <1>4

\* Every step keeps what is known of the routes.
LEMMA RoutedStep ==
  ASSUME RouteInv, [Next]_vars
  PROVE  Routed'
<1>0. TypeOK /\ Routed
  BY DEF RouteInv
<1>a. /\ gw.pc = "push" => Decoding.pc = "decode" /\ Decoding.ready = gw.ready
                           /\ Decoding.fd = gw.fd /\ Decoding.closed = gw.closed
      /\ NextReady.pc = "serve" /\ NextReady.ready = gw.ready \ {gw.fd}
  BY <1>0 DEF TypeOK, GwOK, Decoding, NextReady, Idle
<1>1. CASE \E fd \in Fd : Connect(fd) \/ HangUp(fd) \/ (\E c \in Client : Send(fd, c))
  BY <1>1, RoutedClients
<1>2. CASE Poll \/ Accept \/ (\E fd \in Fd : Receive(fd)) \/ Decode
  BY <1>2, RoutedReading
<1>3. CASE Close
  BY <1>3, RoutedClose
<1>4. CASE SendReport \/ Flush \/ GatewayExit
  BY <1>4, RoutedWriting
<1>5. CASE PushCommand \/ DropCommand \/ SpinForRoom \/ Served \/ AllServed
  <2>1. UNCHANGED <<net, conn, route, told>>
    BY <1>5 DEF PushCommand, DropCommand, SpinForRoom, Served, AllServed
  <2>2. /\ gw'.ready \subseteq gw.ready
        /\ gw'.pc \in {"decode", "push"} =>
             gw.pc \in {"decode", "push"} /\ gw'.fd = gw.fd /\ gw'.closed = gw.closed
    <3>1. CASE PushCommand \/ DropCommand
      BY <1>a, <3>1 DEF PushCommand, DropCommand
    <3>2. CASE SpinForRoom
      BY <1>0, <3>2 DEF SpinForRoom, TypeOK, GwOK
    <3>3. CASE Served \/ AllServed
      BY <1>a, <3>3 DEF Served, AllServed, Idle
    <3>. QED  BY <1>5, <3>1, <3>2, <3>3
  <2>. QED  BY <1>0, <2>1, <2>2, RoutedKept
<1>6. CASE Engine \/ Stop \/ Joined \/ UNCHANGED vars
  <2>1. UNCHANGED <<gw, net, conn, route, told>>
    BY <1>6 DEF Engine, Process, PushReport, SpinForReport, DropReport, EngineExit,
                Stop, Joined, vars
  <2>. QED  BY <1>0, <2>1, RoutedKept
<1>7. CASE Start
  <2>1. UNCHANGED <<net, conn, route>> /\ gw'.pc = "poll" /\ gw'.ready = {}
    BY <1>7 DEF Start, Idle
  <2>2. told'.spoke = told.spoke /\ told'.shared = told.shared
    BY <1>0, <1>7 DEF Start, TypeOK, ToldOK
  <2>. QED  BY <1>0, <2>1, <2>2, RoutedKept
<1>. QED
  BY <1>1, <1>2, <1>3, <1>4, <1>5, <1>6, <1>7 DEF Next, Gateway

\* The reports of an id other than 0 that has shared no connection with another id
\* since the gateway started are only written to a connection that spoke for it: routes
\* outlive the commands that made them and descriptors are used again, by connections
\* of any ids, but Close erases the route of its last command's id.  (Id 0 is the
\* gateway's "nobody yet", and the route of a shared id may stay: NoMisdelivery fails.)
THEOREM SoleIdDelivers == Spec => []SoleIdKeepsItsReports
<1>1. Init => RouteInv
  <2>1. NewConn.in = <<>> /\ NewConn.client = 0 /\ NewConn.out = {}
    BY DEF NewConn
  <2>2. Init => ServedIsOpen /\ RoutesLive
    BY DEF Init, ServedIsOpen, RoutesLive, Sole, Idle
  <2>3. Init => SaidHere /\ SoleIdKeepsItsReports
    <3>. SUFFICES ASSUME Init  PROVE SaidHere /\ SoleIdKeepsItsReports
      OBVIOUS
    <3>1. \A fd \in Fd : wire[fd] = <<>> /\ conn[fd] = NewConn /\ told.spoke[fd] = {}
      BY DEF Init
    <3>2. SaidHere
      BY <2>1, <3>1, EmptySeq DEF SaidHere
    <3>. QED  BY <2>1, <3>1, <3>2 DEF SoleIdKeepsItsReports
  <2>. QED  BY <2>2, <2>3, InitType DEF RouteInv, Routed
<1>2. RouteInv /\ [Next]_vars => RouteInv'
  BY TypeStep, RoutedStep DEF RouteInv
<1>3. RouteInv => SoleIdKeepsItsReports
  BY DEF RouteInv, Routed
<1>. QED
  BY <1>1, <1>2, <1>3, PTL DEF Spec
=============================================================================
