------------------------------ MODULE Pipeline ------------------------------
(***************************************************************************)
(* The order path of ServerPipeline (src/src/engine_server.cpp): clients,  *)
(* the gateway thread, the engine thread and the two rings between them,   *)
(* through start() and stop().  A ring is a bounded queue (SpscRing        *)
(* implements one); the engine is what it emits: for each command, reports *)
(* to its client and perhaps to the owner of an order it met.              *)
(***************************************************************************)
EXTENDS Integers, SequencesExt

CONSTANTS
    Client,             \* ClientIds on the wire; 0 is the gateway's "none"
    Fd, NoFd,           \* descriptors, and no descriptor
    RingSize,           \* commands, or reports, a ring holds
    SpinLimit,          \* stands for 4096 and 8192 tries
    MaxCommands, MaxConnects, MaxStarts   \* bounds of the model

ASSUME PipelineAssumption ==
    /\ Client \subseteq Nat /\ NoFd \notin Fd
    /\ Fd \subseteq Nat /\ IsFiniteSet(Fd)
    /\ RingSize \in Nat \ {0} /\ SpinLimit \in Nat
    /\ {MaxCommands, MaxConnects, MaxStarts} \subseteq Nat

VARIABLES
    run,        \* stopped, running, or stopping: the stop flag is set
    gw,         \* the gateway thread: pc, ready fds, fd, closed, cmd, spins
    en,         \* the engine thread: pc, reports still to push, spins
    sock,       \* sock[fd]: free, pending (not accepted yet) or open
    wire,       \* wire[fd]: commands (their client ids) sent and not received
    hungup,     \* fds whose client has closed its end
    conn,       \* conns: client, in and out (whose reports) of each fd
    route,      \* route: client id to fd
    inbound, exec,      \* the rings, oldest first
    counters,   \* commands, inbound_drops, clients
    told        \* history: ids each connection used, ids that had a connection
                \* in common, commands sent and decoded, connects, starts

ring == <<inbound, exec>>
net == <<sock, wire, hungup>>
vars == <<run, gw, en, net, conn, route, ring, counters, told>>

Idle(pc) == [pc |-> pc, ready |-> {}, fd |-> NoFd, closed |-> FALSE, cmd |-> 0, spins |-> 0]
Waiting(pc) == [pc |-> pc, todo |-> <<>>, spins |-> 0]
NewConn == [client |-> 0, in |-> <<>>, out |-> {}]
Fds(state) == {fd \in Fd : sock[fd] = state}
Full(queue) == Len(queue) = RingSize

Init ==
    /\ run = "stopped" /\ gw = Idle("done") /\ en = Waiting("done")
    /\ sock = [fd \in Fd |-> "free"] /\ wire = [fd \in Fd |-> <<>>] /\ hungup = {}
    /\ conn = [fd \in Fd |-> NewConn] /\ route = [c \in Client |-> NoFd]
    /\ inbound = <<>> /\ exec = <<>>
    /\ counters = [commands |-> 0, inboundDrops |-> 0, clients |-> 0]
    /\ told = [spoke |-> [fd \in Fd |-> {}], shared |-> {}, sent |-> 0, connects |-> 0,
               starts |-> 0, decoded |-> 0]

-----------------------------------------------------------------------------
(* Clients.  What one does while the server stops, it could have done just *)
(* before the flag was set.                                                *)

\* The descriptor is the lowest free one, as POSIX gives them.
Connect(fd) ==
    /\ run = "running" /\ Fds("free") # {} /\ fd = Min(Fds("free"))
    /\ told.connects < MaxConnects
    /\ sock' = [sock EXCEPT ![fd] = "pending"]
    /\ told' = [told EXCEPT !.connects = @ + 1]
    /\ UNCHANGED <<run, gw, en, wire, hungup, conn, route, ring, counters>>

\* run_flow draws the client id of every command anew.
Send(fd, c) ==
    /\ run = "running" /\ sock[fd] # "free" /\ fd \notin hungup /\ told.sent < MaxCommands
    /\ wire' = [wire EXCEPT ![fd] = Append(@, c)]
    /\ told' = [told EXCEPT !.sent = @ + 1, !.spoke[fd] = @ \cup {c},
                            !.shared = IF told.spoke[fd] \subseteq {c} THEN @
                                       ELSE @ \cup told.spoke[fd] \cup {c}]
    /\ UNCHANGED <<run, gw, en, sock, hungup, conn, route, ring, counters>>

HangUp(fd) ==
    /\ run = "running" /\ sock[fd] # "free" /\ fd \notin hungup
    /\ hungup' = hungup \cup {fd}
    /\ UNCHANGED <<run, gw, en, sock, wire, conn, route, ring, counters, told>>

-----------------------------------------------------------------------------
(* run_gateway.  One pass: poll, serve the ready descriptors in any order, *)
(* drain the exec ring, flush.                                             *)

Poll ==
    /\ gw.pc = "poll" /\ run = "running"
    /\ gw' = [Idle("serve") EXCEPT
                !.ready = {fd \in Fds("open") : wire[fd] # <<>> \/ fd \in hungup}]
    /\ UNCHANGED <<run, en, net, conn, route, ring, counters, told>>

\* The listener is ready: accept everybody who waits.  Descriptors a later
\* accept gives out are not in `ready`.
Accept ==
    /\ gw.pc = "serve" /\ Fds("pending") # {}
    /\ sock' = [fd \in Fd |-> IF sock[fd] = "pending" THEN "open" ELSE sock[fd]]
    /\ conn' = [fd \in Fd |-> IF sock[fd] = "pending" THEN NewConn ELSE conn[fd]]
    /\ counters' = [counters EXCEPT !.clients = @ + Cardinality(Fds("pending"))]
    /\ UNCHANGED <<run, gw, en, wire, hungup, route, ring, told>>

\* Read until nothing is left; a peer that closed is noticed after its data.
Receive(fd) ==
    /\ gw.pc = "serve" /\ fd \in gw.ready
    /\ conn' = [conn EXCEPT ![fd].in = @ \o wire[fd]]
    /\ wire' = [wire EXCEPT ![fd] = <<>>]
    /\ gw' = [gw EXCEPT !.pc = "decode", !.fd = fd, !.closed = fd \in hungup]
    /\ UNCHANGED <<run, en, sock, hungup, route, ring, counters, told>>

Decode ==
    /\ gw.pc = "decode" /\ conn[gw.fd].in # <<>>
    /\ LET c == Head(conn[gw.fd].in) IN
       /\ conn' = [conn EXCEPT ![gw.fd].in = Tail(@), ![gw.fd].client = c]
       /\ route' = [route EXCEPT ![c] = gw.fd]
       /\ gw' = [gw EXCEPT !.pc = "push", !.cmd = c]
    /\ told' = [told EXCEPT !.decoded = @ + 1]
    /\ UNCHANGED <<run, en, net, ring, counters>>

Decoding == [gw EXCEPT !.pc = "decode", !.cmd = 0, !.spins = 0]

PushCommand ==
    /\ gw.pc = "push" /\ ~Full(inbound)
    /\ inbound' = Append(inbound, gw.cmd)
    /\ gw' = Decoding
    /\ UNCHANGED <<run, en, net, conn, route, exec, counters, told>>

\* Mutant: the gateway waits for room for as long as it takes.
SpinForRoomForEver ==
    /\ gw.pc = "push" /\ Full(inbound)
    /\ UNCHANGED vars
SpinForRoom ==
    /\ gw.pc = "push" /\ Full(inbound) /\ gw.spins < SpinLimit
    /\ gw' = [gw EXCEPT !.spins = @ + 1]
    /\ UNCHANGED <<run, en, net, conn, route, ring, counters, told>>

\* Mutant: the command goes, the counter stays.
DropCommandSilently ==
    /\ gw.pc = "push" /\ Full(inbound) /\ gw.spins = SpinLimit
    /\ gw' = Decoding
    /\ UNCHANGED <<run, en, net, conn, route, ring, counters, told>>
DropCommand ==
    /\ gw.pc = "push" /\ Full(inbound) /\ gw.spins = SpinLimit
    /\ counters' = [counters EXCEPT !.inboundDrops = @ + 1]
    /\ gw' = Decoding
    /\ UNCHANGED <<run, en, net, conn, route, ring, told>>

NextReady == [Idle("serve") EXCEPT !.ready = gw.ready \ {gw.fd}]

Served ==
    /\ gw.pc = "decode" /\ conn[gw.fd].in = <<>> /\ ~gw.closed
    /\ gw' = NextReady
    /\ UNCHANGED <<run, en, net, conn, route, ring, counters, told>>

\* Only the id of the connection's last command loses its route.
\* Mutant: none does.
UnroutedNever(c) == route
Unrouted(c) == IF c = 0 THEN route ELSE [route EXCEPT ![c] = NoFd]

Close ==
    /\ gw.pc = "decode" /\ conn[gw.fd].in = <<>> /\ gw.closed
    /\ route' = Unrouted(conn[gw.fd].client)
    /\ conn' = [conn EXCEPT ![gw.fd] = NewConn]
    /\ sock' = [sock EXCEPT ![gw.fd] = "free"]
    /\ hungup' = hungup \ {gw.fd}
    /\ counters' = [counters EXCEPT !.clients = @ - 1]
    /\ told' = [told EXCEPT !.spoke[gw.fd] = {}]
    /\ gw' = NextReady
    /\ UNCHANGED <<run, en, wire, ring>>

AllServed ==
    /\ gw.pc = "serve" /\ gw.ready = {}
    /\ gw' = Idle("reports")
    /\ UNCHANGED <<run, en, net, conn, route, ring, counters, told>>

HasWay(c) == route[c] # NoFd /\ sock[route[c]] = "open"

SendReport ==
    /\ gw.pc = "reports" /\ exec # <<>>
    /\ exec' = Tail(exec)
    /\ LET c == Head(exec) IN
       \/ HasWay(c) /\ conn' = [conn EXCEPT ![route[c]].out = @ \cup {c}]
       \/ ~HasWay(c) /\ UNCHANGED conn
    /\ UNCHANGED <<run, gw, en, net, route, inbound, counters, told>>

\* A socket takes all there is to write, or would block.
Flush ==
    /\ gw.pc = "reports" /\ exec = <<>>
    /\ \E blocked \in SUBSET {fd \in Fds("open") : conn[fd].out # {}} :
          conn' = [fd \in Fd |-> IF fd \in blocked THEN conn[fd]
                                 ELSE [conn[fd] EXCEPT !.out = {}]]
    /\ gw' = Idle("poll")
    /\ UNCHANGED <<run, en, net, route, ring, counters, told>>

\* The flag is read at the top of the loop; returning closes every socket and
\* leaves both rings as they are.
GatewayExit ==
    /\ gw.pc = "poll" /\ run = "stopping"
    /\ gw' = Idle("done")
    /\ sock' = [fd \in Fd |-> "free"] /\ wire' = [fd \in Fd |-> <<>>] /\ hungup' = {}
    /\ conn' = [fd \in Fd |-> NewConn] /\ route' = [c \in Client |-> NoFd]
    /\ told' = [told EXCEPT !.spoke = [fd \in Fd |-> {}], !.shared = {}]
    /\ UNCHANGED <<run, en, ring, counters>>

Gateway ==
    \/ Poll \/ Accept \/ (\E fd \in Fd : Receive(fd)) \/ Decode
    \/ PushCommand \/ SpinForRoom \/ DropCommand \/ Served \/ Close \/ AllServed
    \/ SendReport \/ Flush \/ GatewayExit
-----------------------------------------------------------------------------
(* run_engine and push_exec.                                               *)

Process ==
    /\ en.pc = "pop" /\ run = "running" /\ inbound # <<>>
    /\ inbound' = Tail(inbound)
    /\ LET c == Head(inbound) IN
       \E others \in {<<>>} \cup {<<m>> : m \in Client \ {c}} :
          en' = [Waiting("push") EXCEPT !.todo = <<c>> \o others]
    /\ counters' = [counters EXCEPT !.commands = @ + 1]
    /\ UNCHANGED <<run, gw, net, conn, route, exec, told>>

Pushed == [en EXCEPT !.todo = Tail(@), !.spins = 0,
                     !.pc = IF Len(en.todo) = 1 THEN "pop" ELSE "push"]

PushReport ==
    /\ en.pc = "push" /\ ~Full(exec)
    /\ exec' = Append(exec, Head(en.todo))
    /\ en' = Pushed
    /\ UNCHANGED <<run, gw, net, conn, route, inbound, counters, told>>

SpinForReport ==
    /\ en.pc = "push" /\ Full(exec) /\ en.spins < SpinLimit
    /\ en' = [en EXCEPT !.spins = @ + 1]
    /\ UNCHANGED <<run, gw, net, conn, route, ring, counters, told>>

DropReport ==
    /\ en.pc = "push" /\ Full(exec) /\ en.spins = SpinLimit
    /\ en' = Pushed
    /\ UNCHANGED <<run, gw, net, conn, route, ring, counters, told>>

EngineExit ==
    /\ en.pc = "pop" /\ run = "stopping"
    /\ en' = Waiting("done")
    /\ UNCHANGED <<run, gw, net, conn, route, ring, counters, told>>

Engine == Process \/ PushReport \/ SpinForReport \/ DropReport \/ EngineExit

-----------------------------------------------------------------------------
(* start() and stop().                                                     *)

Start ==
    /\ run = "stopped" /\ told.starts < MaxStarts
    /\ run' = "running"
    /\ gw' = Idle("poll") /\ en' = Waiting("pop")
    /\ told' = [told EXCEPT !.starts = @ + 1]
    /\ UNCHANGED <<net, conn, route, ring, counters>>

Stop ==
    /\ run = "running"
    /\ run' = "stopping"
    /\ UNCHANGED <<gw, en, net, conn, route, ring, counters, told>>

Joined ==
    /\ run = "stopping" /\ gw.pc = "done" /\ en.pc = "done"
    /\ run' = "stopped"
    /\ UNCHANGED <<gw, en, net, conn, route, ring, counters, told>>

Next ==
    \/ \E fd \in Fd : Connect(fd) \/ HangUp(fd) \/ (\E c \in Client : Send(fd, c))
    \/ Gateway \/ Engine
    \/ Start \/ Stop \/ Joined

Spec == Init /\ [][Next]_vars

\* Both threads busy-poll and never block; stop() returns once they have.
FairSpec == Spec /\ WF_vars(Gateway) /\ WF_vars(Engine) /\ WF_vars(Joined)

-----------------------------------------------------------------------------
\* Every command taken off a connection is processed, is on its way or was counted
\* as a drop, over any number of stop() and start(): backpressure is never silent
\* (docs/adr/0006: the gateway "drops and counts the command").
CommandsAccounted ==
    told.decoded = counters.commands + counters.inboundDrops + Len(inbound)
                   + (IF gw.pc = "push" THEN 1 ELSE 0)

\* Execution reports go to the client (engine_server.cpp: "engine -> client execution
\* reports"): to a connection that spoke for it.  Close erases the route of the
\* connection's last id only, and descriptors are used again.
NoMisdelivery ==
    \A fd \in Fd : conn[fd].out \subseteq told.spoke[fd]

\* Whatever others do, the reports of an id other than 0 that has shared no connection
\* with another id since the gateway started are only written to a connection that
\* spoke for it, though routes outlive the commands that made them, the ready list is
\* from before the pass, and descriptors are used again.
SoleIdKeepsItsReports ==
    \A fd \in Fd : conn[fd].out \ told.spoke[fd] \subseteq {0} \cup told.shared

\* stop() returns: however full the rings are, neither thread waits for the other.
StopReturns == run = "stopping" ~> run = "stopped"
=============================================================================
