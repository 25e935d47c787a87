----------------------------- MODULE WebSocket -----------------------------
(***************************************************************************)
(* The WebSocket server (websocket/server.go, client.go, groups.go) and    *)
(* the broadcast driver over it (broadcast/drivers/websocket.go): the      *)
(* admission of connections, the run loop that registers, unregisters and  *)
(* broadcasts, the fan-out goroutine, the two pumps of a client, the end   *)
(* of its send state, groups, the subscriptions of one channel of the      *)
(* driver, and Shutdown.  An element of Clients is one connection.  The    *)
(* run loop reads the register, unregister and broadcast channels, each in *)
(* order but in any order between them, as Go's select does.               *)
(***************************************************************************)
EXTENDS Naturals, Sequences, FiniteSets, SequencesExt

CONSTANTS
    Sockets, Groups,
    MaxConnections,  \* config.MaxConnections
    SendCap,         \* capacity of a client's send queue
    MaxCasts,        \* bound: broadcasts of the server and of the driver
    MaxParked,       \* bound: bounded sends waiting at once, per client
    MaxJoins         \* bound: JoinGroup, LeaveAllGroups and Subscribe calls

VARIABLES
    server,     \* "new", "running", "stopped" or "closed" (closeConnections ran)
    conn,       \* conn[c]: how far HandleConnection or HandleRaw is with c
    active,     \* activeConns
    sock,       \* sock[c]: the connection is open
    reader,     \* reader[c], the read pump: "off", "reading", "leaving", "done"
    writer,     \* writer[c], the write pump: "off", "writing", "ending", "closing", "done"
    sendq,      \* sendq[c]: how many messages c's send queue holds
    send,       \* send[c]: "open", "marked" (the closed flag is set), "closed"
    parked,     \* parked[c]: the SendMessageCtx calls in client.senders
    regs, unregs, casts,   \* the register and unregister channels; messages in broadcast
    members,    \* s.clients
    runLoop,    \* the run loop: "off", "select", "closing", "signal" or "done"
    gone,       \* the client whose send state the run loop is ending
    fanq,       \* fanoutQ: the client snapshots of its broadcasts
    fansig,     \* fanoutSig holds its token
    fan,        \* the fan-out: "off", "wait", "drain" or "done"
    casting,        \* the clients left of the broadcast in delivery
    sgroups,    \* s.groups[g]
    cgroups,    \* client.Groups of c
    leaveAll,   \* a LeaveAllGroups call: its phase, client and groups
    subs,       \* the driver's subscribers
    targets,    \* the subscribers left of a driver broadcast
    castCount, joins,
    overtaken,  \* history: clients whose unregister was read before their register
    crossed     \* history: a JoinGroup ran inside a LeaveAllGroups of its client

connVars  == <<conn, active, sock, reader, writer>>
sendVars  == <<sendq, send, parked>>
chanVars  == <<regs, unregs, casts>>
loopVars  == <<members, runLoop, gone, overtaken>>
fanVars   == <<fanq, fansig, fan, casting>>
groupVars == <<sgroups, cgroups, leaveAll, crossed>>
driverVars == <<subs, targets>>
countVars == <<castCount, joins>>
wsVars == <<server, connVars, sendVars, chanVars, loopVars, fanVars, groupVars, driverVars, countVars>>

NotLeaving == [phase |-> "none", client |-> {}, groups |-> {}]

WsInit ==
    /\ server = "new" /\ active = 0
    /\ conn = [c \in Sockets |-> "none"] /\ sock = [c \in Sockets |-> FALSE]
    /\ reader = [c \in Sockets |-> "off"] /\ writer = [c \in Sockets |-> "off"]
    /\ sendq = [c \in Sockets |-> 0] /\ send = [c \in Sockets |-> "open"]
    /\ parked = [c \in Sockets |-> 0]
    /\ regs = <<>> /\ unregs = <<>> /\ casts = 0
    /\ members = {} /\ runLoop = "off" /\ gone = {} /\ overtaken = {}
    /\ fanq = <<>> /\ fansig = FALSE /\ fan = "off" /\ casting = {}
    /\ sgroups = [g \in Groups |-> {}] /\ cgroups = [c \in Sockets |-> {}]
    /\ leaveAll = NotLeaving /\ crossed = FALSE
    /\ subs = {} /\ targets = {} /\ castCount = 0 /\ joins = 0

(* stopChan is closed. *)
Stopped == server \in {"stopped", "closed"}

-----------------------------------------------------------------------------
(* The life of the server *)

StartServer ==
    /\ server = "new" /\ server' = "running" /\ runLoop' = "select" /\ fan' = "wait"
    /\ UNCHANGED <<connVars, sendVars, chanVars, members, gone, overtaken, fanq, fansig, casting, groupVars,
                   driverVars, countVars>>

StopServer ==
    /\ ~Stopped /\ server' = "stopped"
    /\ UNCHANGED <<connVars, sendVars, chanVars, loopVars, fanVars, groupVars, driverVars, countVars>>

(* Shutdown's drain closes the connections of the clients registered then, *)
(* once.                                                                   *)
CloseConnections ==
    /\ server = "stopped" /\ server' = "closed"
    /\ sock' = [c \in Sockets |-> sock[c] /\ c \notin members]
    /\ UNCHANGED <<conn, active, reader, writer, sendVars, chanVars, loopVars, fanVars, groupVars,
                   driverVars, countVars>>

-----------------------------------------------------------------------------
(* Admission *)

(* HandleConnection and HandleRaw take the slot first and compare the count *)
(* that includes it with the limit.                                         *)
Arrive(c) ==
    /\ server = "running" /\ conn[c] = "none"
    /\ active' = active + 1
    /\ conn' = [conn EXCEPT ![c] = IF active + 1 <= MaxConnections THEN "counted" ELSE "refused"]
    /\ UNCHANGED <<server, sock, reader, writer, sendVars, chanVars, loopVars, fanVars, groupVars,
                   driverVars, countVars>>

(* A connection over the limit, not authorised, not upgraded, or met by the *)
(* end of the server gives its slot (and its pump slots) back.              *)
Refuse(c) ==
    /\ conn[c] \in {"refused", "counted", "admitted"}
    /\ active' = active - 1 /\ conn' = [conn EXCEPT ![c] = "over"]
    /\ UNCHANGED <<server, sock, reader, writer, sendVars, chanVars, loopVars, fanVars, groupVars,
                   driverVars, countVars>>

(* The pump slots are reserved under the running check. *)
ReservePumps(c) ==
    /\ conn[c] = "counted" /\ server = "running" /\ conn' = [conn EXCEPT ![c] = "admitted"]
    /\ UNCHANGED <<server, active, sock, reader, writer, sendVars, chanVars, loopVars, fanVars, groupVars,
                   driverVars, countVars>>

(* The upgraded client is put on the register channel ... *)
SendRegister(c) ==
    /\ conn[c] = "admitted" /\ conn' = [conn EXCEPT ![c] = "registering"]
    /\ sock' = [sock EXCEPT ![c] = TRUE] /\ regs' = Append(regs, c)
    /\ UNCHANGED <<server, active, reader, writer, sendVars, unregs, casts, loopVars, fanVars, groupVars,
                   driverVars, countVars>>

(* ... and only then are its pumps started. *)
StartPumps(c) ==
    /\ conn[c] = "registering" /\ conn' = [conn EXCEPT ![c] = "pumping"]
    /\ reader' = [reader EXCEPT ![c] = "reading"] /\ writer' = [writer EXCEPT ![c] = "writing"]
    /\ UNCHANGED <<server, active, sock, sendVars, chanVars, loopVars, fanVars, groupVars, driverVars,
                   countVars>>

(* HandleRaw hands the upgraded connection and its release to the caller. *)
HandOut(c) ==
    /\ conn[c] = "counted" /\ conn' = [conn EXCEPT ![c] = "raw"] /\ sock' = [sock EXCEPT ![c] = TRUE]
    /\ UNCHANGED <<server, active, reader, writer, sendVars, chanVars, loopVars, fanVars, groupVars,
                   driverVars, countVars>>

(* The caller closes the raw connection, then calls release. *)
ReleaseRaw(c) ==
    /\ conn[c] = "raw" /\ conn' = [conn EXCEPT ![c] = "over"] /\ sock' = [sock EXCEPT ![c] = FALSE]
    /\ active' = active - 1
    /\ UNCHANGED <<server, reader, writer, sendVars, chanVars, loopVars, fanVars, groupVars, driverVars,
                   countVars>>

-----------------------------------------------------------------------------
(* The pumps *)

(* The peer goes away, its pong is late, or the application closes it. *)
Disconnect(c) ==
    /\ conn[c] \in {"registering", "pumping"} /\ sock[c] /\ sock' = [sock EXCEPT ![c] = FALSE]
    /\ UNCHANGED <<server, conn, active, reader, writer, sendVars, chanVars, loopVars, fanVars, groupVars,
                   driverVars, countVars>>

ReaderTo(c, phase) ==
    /\ reader' = [reader EXCEPT ![c] = phase]
    /\ UNCHANGED <<server, conn, active, writer, sendVars, regs, casts, loopVars, fanVars, groupVars,
                   driverVars, countVars>>

(* ReadJSON fails on the closed connection. *)
ReaderEnds(c) == reader[c] = "reading" /\ ~sock[c] /\ ReaderTo(c, "leaving") /\ UNCHANGED <<sock, unregs>>

(* The rate limit is exceeded, or a handler panics. *)
ReaderBreaks(c) == reader[c] = "reading" /\ sock[c] /\ ReaderTo(c, "leaving") /\ UNCHANGED <<sock, unregs>>

(* readPump's deferred exit: unregister or the stop channel, then Close. *)
ReaderLeaves(c) ==
    /\ reader[c] = "leaving" /\ ReaderTo(c, "done") /\ sock' = [sock EXCEPT ![c] = FALSE]
    /\ \/ unregs' = Append(unregs, c)
       \/ Stopped /\ UNCHANGED unregs

Write(c) ==
    /\ writer[c] = "writing" /\ sock[c] /\ sendq[c] > 0 /\ sendq' = [sendq EXCEPT ![c] = @ - 1]
    /\ UNCHANGED <<server, connVars, send, parked, chanVars, loopVars, fanVars, groupVars, driverVars,
                   countVars>>

(* A write or a ping fails, the drained queue is closed, or the server     *)
(* stops: writePump closes the connection ...                              *)
WriterEnds(c) ==
    /\ writer[c] = "writing" /\ (~sock[c] \/ (send[c] = "closed" /\ sendq[c] = 0) \/ Stopped)
    /\ writer' = [writer EXCEPT ![c] = "ending"] /\ sock' = [sock EXCEPT ![c] = FALSE]
    /\ UNCHANGED <<server, conn, active, reader, sendVars, chanVars, loopVars, fanVars, groupVars,
                   driverVars, countVars>>

(* ... and calls closeSend, which returns at once when another call has    *)
(* marked the client.                                                      *)
WriterMarks(c) ==
    /\ writer[c] = "ending"
    /\ IF send[c] = "open"
       THEN send' = [send EXCEPT ![c] = "marked"] /\ writer' = [writer EXCEPT ![c] = "closing"]
       ELSE writer' = [writer EXCEPT ![c] = "done"] /\ UNCHANGED send
    /\ UNCHANGED <<server, conn, active, sock, reader, sendq, parked, chanVars, loopVars, fanVars,
                   groupVars, driverVars, countVars>>

(* client.senders.Wait returns. *)
SendersLeft(c) == parked[c] = 0

WriterCloses(c) ==
    /\ writer[c] = "closing" /\ SendersLeft(c)
    /\ send' = [send EXCEPT ![c] = "closed"] /\ writer' = [writer EXCEPT ![c] = "done"]
    /\ UNCHANGED <<server, conn, active, sock, reader, sendq, parked, chanVars, loopVars, fanVars,
                   groupVars, driverVars, countVars>>

-----------------------------------------------------------------------------
(* Sends *)

(* trySend: the queue after a send that never blocks. *)
TrySend(c) == IF send[c] = "open" /\ sendq[c] < SendCap THEN sendq[c] + 1 ELSE sendq[c]

(* SendMessageCtx enters client.senders while the client is not marked. *)
Park(c) ==
    /\ conn[c] = "pumping" /\ send[c] = "open" /\ parked[c] < MaxParked
    /\ parked' = [parked EXCEPT ![c] = @ + 1]
    /\ UNCHANGED <<server, connVars, sendq, send, chanVars, loopVars, fanVars, groupVars, driverVars,
                   countVars>>

(* It enqueues when there is room, or its context or the client ends. *)
Unpark(c) ==
    /\ parked[c] > 0 /\ parked' = [parked EXCEPT ![c] = @ - 1]
    /\ \/ sendq[c] < SendCap /\ sendq' = [sendq EXCEPT ![c] = @ + 1]
       \/ UNCHANGED sendq
    /\ UNCHANGED <<server, connVars, send, chanVars, loopVars, fanVars, groupVars, driverVars, countVars>>

-----------------------------------------------------------------------------
(* The run loop *)

(* handleRegister: the client is known and gets its welcome. *)
HandleRegister ==
    /\ runLoop = "select" /\ regs # <<>> /\ regs' = Tail(regs)
    /\ members' = members \cup {Head(regs)}
    /\ sendq' = [sendq EXCEPT ![Head(regs)] = TrySend(Head(regs))]
    /\ UNCHANGED <<server, connVars, send, parked, unregs, casts, runLoop, gone, overtaken, fanVars, groupVars,
                   driverVars, countVars>>

(* handleUnregister takes c out of the groups the client knows of. *)
ForgetGroups(c) == [g \in Groups |-> IF g \in cgroups[c] THEN sgroups[g] \ {c} ELSE sgroups[g]]

(* purgeClient *)
Purge(c) == subs \ {c}

(* handleUnregister: a client that is not registered is taken for one that *)
(* was unregistered before; another leaves the maps and its groups, the    *)
(* listeners purge it, and closeSend is called.                            *)
HandleUnregister ==
    /\ runLoop = "select" /\ unregs # <<>> /\ unregs' = Tail(unregs)
    /\ LET c == Head(unregs) IN
        IF c \notin members
        THEN overtaken' = overtaken \cup {c} /\ UNCHANGED <<members, sgroups, subs, send, runLoop, gone>>
        ELSE /\ members' = members \ {c} /\ sgroups' = ForgetGroups(c) /\ subs' = Purge(c)
             /\ send' = IF send[c] = "open" THEN [send EXCEPT ![c] = "marked"] ELSE send
             /\ runLoop' = "closing" /\ gone' = {c} /\ UNCHANGED overtaken
    /\ UNCHANGED <<server, connVars, sendq, parked, regs, casts, fanVars, cgroups, leaveAll, crossed, targets,
                   countVars>>

(* Bug: the slot is not given back when writePump has ended the send state. *)
LoopClosesOwn ==
    /\ runLoop = "closing"
    /\ \E c \in gone :
        \/ /\ send[c] = "marked" /\ writer[c] # "closing" /\ SendersLeft(c)
           /\ send' = [send EXCEPT ![c] = "closed"] /\ active' = active - 1
        \/ (send[c] = "closed" \/ writer[c] = "closing") /\ UNCHANGED <<send, active>>
    /\ runLoop' = "select" /\ gone' = {}
    /\ UNCHANGED <<server, conn, sock, reader, writer, sendq, parked, chanVars, members, overtaken, fanVars,
                   groupVars, driverVars, countVars>>

(* The end of handleUnregister: its closeSend waits for the parked sends   *)
(* if it was the one to mark the client, and the slot is given back.       *)
LoopCloses ==
    /\ runLoop = "closing"
    /\ \E c \in gone :
        \/ /\ send[c] = "marked" /\ writer[c] # "closing" /\ SendersLeft(c)
           /\ send' = [send EXCEPT ![c] = "closed"]
        \/ (send[c] = "closed" \/ writer[c] = "closing") /\ UNCHANGED send
    /\ active' = active - 1 /\ runLoop' = "select" /\ gone' = {}
    /\ UNCHANGED <<server, conn, sock, reader, writer, sendq, parked, chanVars, members, overtaken, fanVars,
                   groupVars, driverVars, countVars>>

(* Broadcast puts a message on the broadcast channel of a live server. *)
Broadcast ==
    /\ ~Stopped /\ castCount < MaxCasts /\ castCount' = castCount + 1 /\ casts' = casts + 1
    /\ UNCHANGED <<server, connVars, sendVars, regs, unregs, loopVars, fanVars, groupVars, driverVars, joins>>

(* handleBroadcast queues the snapshot of the clients ... *)
HandleBroadcast ==
    /\ runLoop = "select" /\ casts > 0 /\ casts' = casts - 1
    /\ fanq' = Append(fanq, members) /\ runLoop' = "signal"
    /\ UNCHANGED <<server, connVars, sendVars, regs, unregs, members, gone, overtaken, fansig, fan, casting,
                   groupVars, driverVars, countVars>>

(* ... and, the queue's lock given up, leaves a token for the fan-out. *)
SignalFanout ==
    /\ runLoop = "signal" /\ runLoop' = "select" /\ fansig' = TRUE
    /\ UNCHANGED <<server, connVars, sendVars, chanVars, members, gone, overtaken, fanq, fan, casting,
                   groupVars, driverVars, countVars>>

LoopStops ==
    /\ runLoop = "select" /\ Stopped /\ runLoop' = "done"
    /\ UNCHANGED <<server, connVars, sendVars, chanVars, members, gone, overtaken, fanVars, groupVars,
                   driverVars, countVars>>

-----------------------------------------------------------------------------
(* The fan-out *)

FanWakes ==
    /\ fan = "wait" /\ fansig /\ fansig' = FALSE /\ fan' = "drain"
    /\ UNCHANGED <<server, connVars, sendVars, chanVars, loopVars, fanq, casting, groupVars, driverVars, countVars>>

FanStops ==
    /\ fan = "wait" /\ Stopped /\ fan' = "done"
    /\ UNCHANGED <<server, connVars, sendVars, chanVars, loopVars, fanq, fansig, casting, groupVars, driverVars,
                   countVars>>

(* drainFanout: the next broadcast is begun; with none left it returns,    *)
(* and once the server stops the rest is discarded.                        *)
FanNext ==
    /\ fan = "drain" /\ casting = {}
    /\ IF fanq = <<>> \/ Stopped
       THEN fanq' = <<>> /\ fan' = "wait" /\ UNCHANGED casting
       ELSE casting' = Head(fanq) /\ fanq' = Tail(fanq) /\ UNCHANGED fan
    /\ UNCHANGED <<server, connVars, sendVars, chanVars, loopVars, fansig, groupVars, driverVars, countVars>>

(* deliver: sendOrDrop to one client of the snapshot. *)
Deliver ==
    /\ \E c \in casting : casting' = casting \ {c} /\ sendq' = [sendq EXCEPT ![c] = TrySend(c)]
    /\ UNCHANGED <<server, connVars, send, parked, chanVars, loopVars, fanq, fansig, fan, groupVars,
                   driverVars, countVars>>

-----------------------------------------------------------------------------
(* Groups *)

GroupStep == UNCHANGED <<server, connVars, sendVars, chanVars, loopVars, fanVars, driverVars, castCount>>

JoinGroup(c, g) ==
    /\ c \in members /\ joins < MaxJoins /\ joins' = joins + 1
    /\ sgroups' = [sgroups EXCEPT ![g] = @ \cup {c}] /\ cgroups' = [cgroups EXCEPT ![c] = @ \cup {g}]
    /\ crossed' = (crossed \/ c \in leaveAll.client)
    /\ UNCHANGED leaveAll /\ GroupStep

LeaveGroup(c, g) ==
    /\ c \in members /\ (c \in sgroups[g] \/ g \in cgroups[c])
    /\ sgroups' = [sgroups EXCEPT ![g] = @ \ {c}] /\ cgroups' = [cgroups EXCEPT ![c] = @ \ {g}]
    /\ UNCHANGED <<leaveAll, crossed, joins>> /\ GroupStep

(* LeaveAllGroups: the server's groups of c are read, the client's set is  *)
(* cleared, and c is taken out of the groups read, each under its own lock.*)
LeaveAllGroups(c) ==
    /\ leaveAll = NotLeaving /\ c \in members /\ joins < MaxJoins /\ joins' = joins + 1
    /\ leaveAll' = [phase |-> "client", client |-> {c}, groups |-> {g \in Groups : c \in sgroups[g]}]
    /\ UNCHANGED <<sgroups, cgroups, crossed>> /\ GroupStep

LeaveAllClient ==
    /\ leaveAll.phase = "client" /\ leaveAll' = [leaveAll EXCEPT !.phase = "server"]
    /\ cgroups' = [c \in Sockets |-> IF c \in leaveAll.client THEN {} ELSE cgroups[c]]
    /\ UNCHANGED <<sgroups, crossed, joins>> /\ GroupStep

LeaveAllServer ==
    /\ leaveAll.phase = "server" /\ leaveAll' = NotLeaving
    /\ sgroups' = [g \in Groups |-> IF g \in leaveAll.groups THEN sgroups[g] \ leaveAll.client ELSE sgroups[g]]
    /\ UNCHANGED <<cgroups, crossed, joins>> /\ GroupStep

-----------------------------------------------------------------------------
(* The broadcast driver *)

DriverStep == UNCHANGED <<server, connVars, send, parked, chanVars, loopVars, fanVars, groupVars>>

(* handleSubscribe and handleUnsubscribe run on the client's read pump, and *)
(* answer with a send that does not wait.                                   *)
Subscribe(c) ==
    /\ reader[c] = "reading" /\ joins < MaxJoins /\ joins' = joins + 1
    /\ subs' = subs \cup {c} /\ sendq' = [sendq EXCEPT ![c] = TrySend(c)]
    /\ UNCHANGED <<targets, castCount>> /\ DriverStep

Unsubscribe(c) ==
    /\ reader[c] = "reading" /\ c \in subs
    /\ subs' = subs \ {c} /\ sendq' = [sendq EXCEPT ![c] = TrySend(c)]
    /\ UNCHANGED <<targets, countVars>> /\ DriverStep

(* BroadcastCtx sends to a snapshot of the subscribers ... *)
DriverBroadcast ==
    /\ targets = {} /\ subs # {} /\ castCount < MaxCasts /\ castCount' = castCount + 1
    /\ targets' = subs
    /\ UNCHANGED <<subs, sendq, joins>> /\ DriverStep

(* ... one after the other, and purges one that reports itself gone. *)
DriverSend(c) ==
    /\ c \in targets /\ targets' = targets \ {c}
    /\ sendq' = [sendq EXCEPT ![c] = TrySend(c)]
    /\ subs' = IF send[c] = "open" THEN subs ELSE Purge(c)
    /\ UNCHANGED countVars /\ DriverStep

-----------------------------------------------------------------------------
Admission(c) ==
    \/ Arrive(c) \/ Refuse(c) \/ ReservePumps(c) \/ SendRegister(c) \/ StartPumps(c)
    \/ HandOut(c) \/ ReleaseRaw(c)

ReaderStep(c) == ReaderEnds(c) \/ ReaderLeaves(c)

WriterStep(c) == WriterEnds(c) \/ WriterMarks(c) \/ WriterCloses(c)

GroupCall ==
    \/ \E c \in Sockets, g \in Groups : JoinGroup(c, g) \/ LeaveGroup(c, g)
    \/ \E c \in Sockets : LeaveAllGroups(c)
    \/ LeaveAllClient \/ LeaveAllServer

DriverCall ==
    \/ \E c \in Sockets : Subscribe(c) \/ Unsubscribe(c) \/ DriverSend(c)
    \/ DriverBroadcast

WsNext ==
    \/ StartServer \/ StopServer \/ CloseConnections
    \/ \E c \in Sockets : Admission(c) \/ ReaderStep(c) \/ WriterStep(c) \/ Write(c)
                       \/ Disconnect(c) \/ ReaderBreaks(c) \/ Park(c) \/ Unpark(c)
    \/ Broadcast \/ HandleRegister \/ HandleUnregister \/ LoopCloses \/ LoopStops
    \/ HandleBroadcast \/ SignalFanout \/ FanWakes \/ FanStops \/ FanNext \/ Deliver
    \/ GroupCall \/ DriverCall

WsSpec == WsInit /\ [][WsNext]_wsVars

(* Goroutines run, Go's select serves every ready case in the end, an      *)
(* admitted request goes on, and a bounded send has a deadline.  Nothing   *)
(* says that a peer disconnects or that Shutdown is called.                *)
WsFairness ==
    /\ \A c \in Sockets :
        /\ WF_wsVars(SendRegister(c) \/ (conn[c] = "admitted" /\ Refuse(c))) /\ WF_wsVars(StartPumps(c))
        /\ WF_wsVars(ReaderStep(c)) /\ WF_wsVars(WriterStep(c)) /\ WF_wsVars(Unpark(c))
    /\ WF_wsVars(HandleRegister) /\ WF_wsVars(HandleUnregister) /\ WF_wsVars(LoopCloses)
    /\ WF_wsVars(HandleBroadcast) /\ WF_wsVars(SignalFanout) /\ WF_wsVars(LoopStops)
    /\ WF_wsVars(FanWakes) /\ SF_wsVars(FanStops) /\ WF_wsVars(FanNext) /\ WF_wsVars(Deliver)
    /\ WF_wsVars(CloseConnections)

WsLiveSpec == WsSpec /\ WsFairness

-----------------------------------------------------------------------------
(* Properties *)

(* Who holds a slot: a connection HandleConnection or HandleRaw is at work *)
(* with, and a client that waits for its registration, is registered or is *)
(* being unregistered.                                                     *)
SlotHolders ==
    {c \in Sockets : conn[c] \in {"counted", "refused", "admitted", "raw"}}
        \cup ToSet(regs) \cup members \cup gone

(* The variables have their types. *)
WsTypeOK ==
    /\ \A c \in Sockets : sendq[c] \in 0..SendCap /\ parked[c] \in 0..MaxParked
    /\ members \subseteq Sockets /\ active \in 0..Cardinality(Sockets)

(* activeConns is the number of slots held, however refusals, raw          *)
(* releases, unregisters and the two ends of a send state interleave: no   *)
(* slot is given back twice or forgotten (HandleConnection, HandleRaw,     *)
(* handleUnregister).                                                      *)
SlotsAccounted == active = Cardinality(SlotHolders)

(* The connections past the limit's check never outnumber MaxConnections,  *)
(* though the slot is taken before the check and other requests are        *)
(* between the two (HandleConnection, HandleRaw).                          *)
WithinLimit ==
    Cardinality(SlotHolders \ {c \in Sockets : conn[c] = "refused"}) <= MaxConnections

(* A client's queue is closed only when no bounded send is parked on it,   *)
(* whichever of writePump and handleUnregister ends the send state first:  *)
(* a send never panics on a closed channel (closeSend, SendMessageCtx).    *)
NoSendOnClosed == \A c \in Sockets : send[c] = "closed" => parked[c] = 0

(* The groups of the server and of the clients agree and hold registered   *)
(* clients only, outside a LeaveAllGroups call and unless a JoinGroup came *)
(* between its phases (JoinGroup, LeaveGroup, handleUnregister).           *)
GroupsAgree ==
    leaveAll = NotLeaving /\ ~crossed =>
        /\ \A c \in members, g \in Groups : c \in sgroups[g] <=> g \in cgroups[c]
        /\ \A g \in Groups : sgroups[g] \subseteq members

(* A subscriber of the driver has a read pump, or its unregister is still  *)
(* to come and purges it, or the server stopped, or its unregister was     *)
(* read before its register (purgeClient, handleSubscribe).                *)
SubscribersConnected ==
    ~Stopped => \A c \in subs \ overtaken : reader[c] = "done" => c \in ToSet(unregs)

(* The tables of the hub agree with the connections there are: the slots,  *)
(* the send queues, the groups and the subscriptions.                      *)
HubConsistent == SlotsAccounted /\ WithinLimit /\ NoSendOnClosed /\ GroupsAgree /\ SubscribersConnected

(* "activeConns counts live clients plus admitted connections pending      *)
(* registration": on a running server a registered client whose read pump  *)
(* has ended is about to be unregistered (handleUnregister).               *)
CountsLiveClients ==
    server = "running" => \A c \in members : reader[c] = "done" => c \in ToSet(unregs)

(* Once the server stops, the run loop, the fan-out and every pump end,    *)
(* those of clients that were being admitted or not yet registered too, so *)
(* that Shutdown's drain is over (Shutdown, readPump, writePump).          *)
ShutdownDrains ==
    Stopped ~> /\ runLoop \in {"off", "done"} /\ fan \in {"off", "done"}
               /\ \A c \in Sockets : /\ conn[c] \notin {"admitted", "registering"}
                                     /\ reader[c] \in {"off", "done"} /\ writer[c] \in {"off", "done"}

(* A broadcast the run loop queued is begun, whatever else goes on, unless *)
(* the server stops: the one token of fanoutSig loses no wake-up           *)
(* (handleBroadcast, fanoutLoop, drainFanout).                             *)
BroadcastsFanOut == (fanq # <<>>) ~> (fanq = <<>> \/ Stopped)
=============================================================================
