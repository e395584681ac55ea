------------------------------ MODULE DeliveryHub ------------------------------
(****************************************************************************)
(* The in-memory hub that carries realtime events to the WebSocket clients  *)
(* (real_time/hub.go), with the goroutines that use it: one handler and one *)
(* writer goroutine per WebSocket connection (adapters/http/ws.go), and the *)
(* HTTP handlers that push an event or replace a group's member list.       *)
(*                                                                          *)
(* The hub is guarded by one sync.RWMutex.  A section that holds the mutex  *)
(* and cannot block inside it is one action; Broadcast, which takes the     *)
(* read lock again for every device while it already holds it, is several.  *)
(* Go's RWMutex admits no new reader once a writer waits, which is what     *)
(* writerWaiting models.                                                    *)
(*                                                                          *)
(* Abstractions: a channel is the number of events in it; the device list   *)
(* of a user is kept as the number of times each device is in it (the order *)
(* in which a push visits the list is left open); a member list is a set.   *)
(****************************************************************************)
EXTENDS Naturals, FiniteSets

CONSTANTS
    Conns,      \* WebSocket connections, each one served by its own handler
    Callers,    \* HTTP handlers that use the hub once
    Devices, Users, Groups,
    DeviceOf,   \* the device named by the access token of a connection
    UserOf,     \* the user a device belongs to
    ChanCap,    \* capacity of a connection's channel (32 in the code)
    None        \* no connection, no process

Procs == Conns \cup Callers

ASSUME HubAssumption ==
    /\ IsFiniteSet(Conns)
    /\ DeviceOf \in [Conns -> Devices]
    /\ UserOf \in [Devices -> Users]
    /\ ChanCap \in Nat \ {0}
    /\ Conns \cap Callers = {}
    /\ None \notin Procs

VARIABLES
    devices,        \* deviceID -> connection
    userIdx,        \* userID -> how often each device is in its list
    groupIdx,       \* groupID -> list of userIDs
    writerWaiting,  \* the process inside mtx.Lock(), or None
    readers,        \* processes holding the outer read lock of Broadcast
    queued,         \* number of events in each connection's outCh
    closed,         \* connections whose outCh is closed
    pc,             \* where each handler is
    visit,          \* devices a Broadcast or a push still has to reach
    lookup,         \* users whose device list a push still has to read
    link,           \* state of each connection's socket
    writer          \* state of each connection's writer goroutine

hub  == <<devices, userIdx, groupIdx>>
mtx  == <<writerWaiting, readers>>
chan == <<queued, closed>>
push == <<visit, lookup>>
sock == <<link, writer>>
vars == <<hub, mtx, chan, pc, push, sock>>

NoDevice == [d \in Devices |-> 0]

-----------------------------------------------------------------------------
(* Control points of a handler, in the order of the code. *)

Broadcasting == {"announce", "farewell"}
Pushing      == {"reply", "request"}
ConnPC   == {"connect", "register", "greet", "announce", "sync", "serve", "reply",
             "leave", "farewell", "close", "unregister", "gone"}
CallerPC == {"idle", "request", "set", "done", "panicked"}

Init ==
    /\ devices = [d \in Devices |-> None]
    /\ userIdx = [u \in Users |-> NoDevice]
    /\ groupIdx = [g \in Groups |-> {}]
    /\ writerWaiting = None
    /\ readers = {}
    /\ queued = [c \in Conns |-> 0]
    /\ closed = {}
    /\ pc = [p \in Procs |-> IF p \in Conns THEN "connect" ELSE "idle"]
    /\ visit = [p \in Procs |-> NoDevice]
    /\ lookup = [p \in Procs |-> {}]
    /\ link = [c \in Conns |-> "up"]
    /\ writer = [c \in Conns |-> "none"]

GoTo(p, label) == pc' = [pc EXCEPT ![p] = label]

-----------------------------------------------------------------------------
(* The mutex. *)

\* mtx.Lock() is called: from now on no new reader is admitted.
RequestLock(p) ==
    /\ writerWaiting = None
    /\ writerWaiting' = p
    /\ UNCHANGED <<hub, readers, chan, pc, push, sock>>

\* The lock is granted while readers hold it.
ExclusiveAmongReaders(p) ==
    /\ writerWaiting = p
    /\ writerWaiting' = None
    /\ UNCHANGED readers

\* The section between Lock and Unlock, which runs once every reader has left.
Exclusive(p) ==
    /\ writerWaiting = p
    /\ readers = {}
    /\ writerWaiting' = None
    /\ UNCHANGED readers

\* A read lock is granted at once unless a writer waits.
CanRLock == writerWaiting = None

-----------------------------------------------------------------------------
(* The hub's own state changes. *)

RegisterIn(c) ==
    LET d == DeviceOf[c] IN
    /\ devices' = [devices EXCEPT ![d] = c]
    /\ userIdx' = [userIdx EXCEPT ![UserOf[d]][d] = @ + 1]

\* Faulty variants, here and below, show that the properties notice them: the
\* device stays in the list of its user.
UnregisterKeepingList(d) ==
    IF devices[d] = None
    THEN UNCHANGED <<devices, userIdx>>
    ELSE devices' = [devices EXCEPT ![d] = None] /\ UNCHANGED userIdx

\* Only one of its entries is taken out.
UnregisterOneEntry(d) ==
    IF devices[d] = None
    THEN UNCHANGED <<devices, userIdx>>
    ELSE /\ devices' = [devices EXCEPT ![d] = None]
         /\ userIdx' = [userIdx EXCEPT ![UserOf[d]][d] = @ - 1]

UnregisterIn(d) ==
    IF devices[d] = None
    THEN UNCHANGED <<devices, userIdx>>
    ELSE /\ devices' = [devices EXCEPT ![d] = None]
         /\ userIdx' = [userIdx EXCEPT ![UserOf[d]][d] = 0]

\* What one PushToDevice finds and does: the send panics on a closed channel,
\* and is dropped when the device is offline or its channel is full.
SendPanics(d) == devices[d] \in closed

\* The event is not dropped when the channel is full.
EnqueueUnbounded(d) ==
    LET c == devices[d] IN
    IF c # None
    THEN queued' = [queued EXCEPT ![c] = @ + 1]
    ELSE UNCHANGED queued

Enqueue(d) ==
    LET c == devices[d] IN
    IF c # None /\ queued[c] < ChanCap
    THEN queued' = [queued EXCEPT ![c] = @ + 1]
    ELSE UNCHANGED queued

-----------------------------------------------------------------------------
(* A WebSocket handler. *)

\* The token is validated and the connection upgraded.
Connect(c) ==
    /\ pc[c] = "connect"
    /\ GoTo(c, "register")
    /\ UNCHANGED <<hub, mtx, chan, push, sock>>

RegisterLock(c) ==
    /\ pc[c] = "register"
    /\ RequestLock(c)

Register(c) ==
    /\ pc[c] = "register"
    /\ Exclusive(c)
    /\ RegisterIn(c)
    /\ GoTo(c, "greet")
    /\ UNCHANGED <<groupIdx, chan, push, sock>>

\* hub.Broadcast takes the read lock and starts to range over the devices;
\* the online status before the initial sync, the offline status at the end.
BroadcastBegin(c) ==
    /\ pc[c] \in {"greet", "leave"}
    /\ CanRLock
    /\ readers' = readers \cup {c}
    /\ visit' = [visit EXCEPT ![c] = [d \in Devices |-> IF devices[d] = None THEN 0 ELSE 1]]
    /\ GoTo(c, IF pc[c] = "greet" THEN "announce" ELSE "farewell")
    /\ UNCHANGED <<hub, writerWaiting, chan, lookup, sock>>

\* One PushToDevice of the loop: the nested RLock waits for a waiting writer.
BroadcastStep(c, d) ==
    /\ pc[c] \in Broadcasting
    /\ visit[c][d] > 0
    /\ CanRLock
    /\ ~SendPanics(d)
    /\ Enqueue(d)
    /\ visit' = [visit EXCEPT ![c][d] = 0]
    /\ UNCHANGED <<hub, mtx, closed, pc, lookup, sock>>

\* The send panics. The nested read lock is released by its defer; the one
\* Broadcast holds is not. The handler unwinds through its deferred calls.
BroadcastPanic(c, d) ==
    /\ pc[c] \in Broadcasting
    /\ visit[c][d] > 0
    /\ CanRLock
    /\ SendPanics(d)
    /\ visit' = [visit EXCEPT ![c] = NoDevice]
    /\ GoTo(c, "close")
    /\ UNCHANGED <<hub, mtx, chan, lookup, sock>>

\* The read lock is not released.
BroadcastEndHolding(c) ==
    /\ pc[c] \in Broadcasting
    /\ visit[c] = NoDevice
    /\ GoTo(c, IF pc[c] = "announce" THEN "sync" ELSE "close")
    /\ UNCHANGED <<hub, mtx, chan, push, sock>>

BroadcastEnd(c) ==
    /\ pc[c] \in Broadcasting
    /\ visit[c] = NoDevice
    /\ readers' = readers \ {c}
    /\ GoTo(c, IF pc[c] = "announce" THEN "sync" ELSE "close")
    /\ UNCHANGED <<hub, writerWaiting, chan, push, sock>>

\* The initial sync is written by the handler itself (an error is logged
\* only), then the writer goroutine is started and the reader entered.
InitialSync(c) ==
    /\ pc[c] = "sync"
    /\ writer' = [writer EXCEPT ![c] = "running"]
    /\ GoTo(c, "serve")
    /\ UNCHANGED <<hub, mtx, chan, push, link>>

\* The channel is closed before the offline status is sent.
ReadFailsClosing(c) ==
    /\ pc[c] = "serve"
    /\ link[c] = "broken"
    /\ closed' = closed \cup {c}
    /\ GoTo(c, "leave")
    /\ UNCHANGED <<hub, mtx, queued, push, sock>>

\* ReadMessage fails, or the reader could not write a pong.
ReadFails(c) ==
    /\ pc[c] = "serve"
    /\ link[c] = "broken"
    /\ GoTo(c, "leave")
    /\ UNCHANGED <<hub, mtx, chan, push, sock>>

\* cancel() and close(outCh): the first deferred calls after the farewell.
CloseChannel(c) ==
    /\ pc[c] = "close"
    /\ closed' = closed \cup {c}
    /\ GoTo(c, "unregister")
    /\ UNCHANGED <<hub, mtx, queued, push, sock>>

UnregisterLock(c) ==
    /\ pc[c] = "unregister"
    /\ RequestLock(c)

\* hub.Unregister(devUUID), then conn.Close().
Unregister(c) ==
    /\ pc[c] = "unregister"
    /\ Exclusive(c)
    /\ UnregisterIn(DeviceOf[c])
    /\ GoTo(c, "gone")
    /\ link' = [link EXCEPT ![c] = "broken"]
    /\ UNCHANGED <<groupIdx, chan, push, writer>>

-----------------------------------------------------------------------------
(* Pushes to a device, a user or a group: by the reader of a connection (an *)
(* acknowledgement or a typing event) and by an HTTP handler.               *)

Busy(p) == IF p \in Conns THEN "reply" ELSE "request"
Ready(p) == pc[p] = IF p \in Conns THEN "serve" ELSE "idle"

StartPushToDevice(p, d) ==
    /\ Ready(p)
    /\ visit' = [visit EXCEPT ![p][d] = 1]
    /\ GoTo(p, Busy(p))
    /\ UNCHANGED <<hub, mtx, chan, lookup, sock>>

StartPushToUser(p, u) ==
    /\ Ready(p)
    /\ p \in Conns
    /\ lookup' = [lookup EXCEPT ![p] = {u}]
    /\ GoTo(p, Busy(p))
    /\ UNCHANGED <<hub, mtx, chan, visit, sock>>

StartPushToGroup(p, g) ==
    /\ Ready(p)
    /\ p \in Conns
    /\ CanRLock
    /\ lookup' = [lookup EXCEPT ![p] = groupIdx[g]]
    /\ GoTo(p, Busy(p))
    /\ UNCHANGED <<hub, mtx, chan, visit, sock>>

\* PushToUser copies the device list under the read lock, then lets it go.
ReadUserDevices(p, u) ==
    /\ pc[p] \in Pushing
    /\ visit[p] = NoDevice
    /\ u \in lookup[p]
    /\ CanRLock
    /\ lookup' = [lookup EXCEPT ![p] = @ \ {u}]
    /\ visit' = [visit EXCEPT ![p] = userIdx[u]]
    /\ UNCHANGED <<hub, mtx, chan, pc, sock>>

PushToDevice(p, d) ==
    /\ pc[p] \in Pushing
    /\ visit[p][d] > 0
    /\ CanRLock
    /\ ~SendPanics(d)
    /\ Enqueue(d)
    /\ visit' = [visit EXCEPT ![p][d] = @ - 1]
    /\ UNCHANGED <<hub, mtx, closed, pc, lookup, sock>>

\* A panic in the reader skips the offline status, whose defer is not yet
\* registered; net/http recovers the panic of an HTTP handler.
PushPanic(p, d) ==
    /\ pc[p] \in Pushing
    /\ visit[p][d] > 0
    /\ CanRLock
    /\ SendPanics(d)
    /\ visit' = [visit EXCEPT ![p] = NoDevice]
    /\ lookup' = [lookup EXCEPT ![p] = {}]
    /\ GoTo(p, IF p \in Conns THEN "close" ELSE "panicked")
    /\ UNCHANGED <<hub, mtx, chan, sock>>

PushEnd(p) ==
    /\ pc[p] \in Pushing
    /\ visit[p] = NoDevice
    /\ lookup[p] = {}
    /\ GoTo(p, IF p \in Conns THEN "serve" ELSE "done")
    /\ UNCHANGED <<hub, mtx, chan, push, sock>>

\* SetGroupMembers, called by the group service after it listed the members.
SetMembersLock(p) ==
    /\ p \in Callers
    /\ pc[p] = "idle"
    /\ writerWaiting = None
    /\ writerWaiting' = p
    /\ GoTo(p, "set")
    /\ UNCHANGED <<hub, readers, chan, push, sock>>

SetGroupMembers(p, g, members) ==
    /\ pc[p] = "set"
    /\ Exclusive(p)
    /\ groupIdx' = [groupIdx EXCEPT ![g] = members]
    /\ GoTo(p, "done")
    /\ UNCHANGED <<devices, userIdx, chan, push, sock>>

-----------------------------------------------------------------------------
(* The writer goroutine and the socket. *)

\* One event is taken from outCh and written; a failed write ends the writer.
\* A closed channel still yields what it holds, then ends the writer.
WriterTakes(c) ==
    /\ writer[c] = "running"
    /\ queued[c] > 0
    /\ queued' = [queued EXCEPT ![c] = @ - 1]
    /\ writer' = [writer EXCEPT ![c] = IF link[c] = "up" THEN "running" ELSE "ended"]
    /\ UNCHANGED <<hub, mtx, closed, pc, push, link>>

\* The context is cancelled (before the channel is closed), the channel is
\* closed and empty, or the heartbeat could not be written.
WriterEnds(c) ==
    /\ writer[c] = "running"
    /\ c \in closed \/ link[c] = "broken"
    /\ writer' = [writer EXCEPT ![c] = "ended"]
    /\ UNCHANGED <<hub, mtx, chan, pc, push, link>>

LinkBreaks(c) ==
    /\ link[c] = "up"
    /\ pc[c] # "connect"
    /\ link' = [link EXCEPT ![c] = "broken"]
    /\ UNCHANGED <<hub, mtx, chan, pc, push, writer>>

-----------------------------------------------------------------------------
\* What the server does by itself once a client connected or called.
HandlerStep(c) ==
    \/ RegisterLock(c) \/ Register(c)
    \/ BroadcastBegin(c) \/ BroadcastEnd(c)
    \/ \E d \in Devices : BroadcastStep(c, d) \/ BroadcastPanic(c, d)
    \/ InitialSync(c) \/ ReadFails(c) \/ CloseChannel(c)
    \/ UnregisterLock(c) \/ Unregister(c)

PushStep(p) ==
    \/ \E u \in Users : ReadUserDevices(p, u)
    \/ \E d \in Devices : PushToDevice(p, d) \/ PushPanic(p, d)
    \/ PushEnd(p)
    \/ \E g \in Groups, members \in SUBSET Users : SetGroupMembers(p, g, members)

\* What clients and callers decide.
ClientStep ==
    \/ \E c \in Conns : Connect(c) \/ LinkBreaks(c)
    \/ \E p \in Procs, d \in Devices : StartPushToDevice(p, d)
    \/ \E p \in Procs, u \in Users : StartPushToUser(p, u)
    \/ \E p \in Procs, g \in Groups : StartPushToGroup(p, g)
    \/ \E p \in Callers : SetMembersLock(p)

Next ==
    \/ \E c \in Conns : HandlerStep(c) \/ WriterTakes(c) \/ WriterEnds(c)
    \/ \E p \in Procs : PushStep(p)
    \/ ClientStep

\* The scheduler runs every goroutine that can run; clients owe nothing.
Fairness ==
    /\ \A c \in Conns : WF_vars(HandlerStep(c)) /\ WF_vars(WriterTakes(c) \/ WriterEnds(c))
    /\ \A c \in Conns : SF_vars(ReadFails(c))  \* a dead socket has finitely many frames left
    /\ \A p \in Procs : WF_vars(PushStep(p))

Spec == Init /\ [][Next]_vars
FairSpec == Spec /\ Fairness

-----------------------------------------------------------------------------
(* Properties. *)

\* A handler that entered the hub and has not run its last deferred call.
Live(c) == pc[c] \notin {"connect", "register", "gone"}

\* Every variable holds a value of its kind, and no channel holds more than
\* its capacity (hub.go:85-90 drops the event instead).
TypeOK ==
    /\ devices \in [Devices -> Conns \cup {None}]
    /\ userIdx \in [Users -> [Devices -> Nat]]
    /\ groupIdx \in [Groups -> SUBSET Users]
    /\ writerWaiting \in Procs \cup {None}
    /\ readers \subseteq Conns
    /\ queued \in [Conns -> 0..ChanCap]
    /\ closed \subseteq Conns
    /\ pc \in [Procs -> ConnPC \cup CallerPC]
    /\ visit \in [Procs -> [Devices -> Nat]]
    /\ lookup \in [Procs -> SUBSET Users]
    /\ link \in [Conns -> {"up", "broken"}]
    /\ writer \in [Conns -> {"none", "running", "ended"}]

\* The two indexes of the hub name the same devices: a device is in the list
\* of its user, and of no other, exactly while it has a connection
\* (Register and Unregister, hub.go:39-74, whatever handlers overlap).
IndexAgrees ==
    \A d \in Devices, u \in Users :
        (userIdx[u][d] > 0) <=> (devices[d] # None /\ UserOf[d] = u)

\* A device that reconnects is listed once per registration (hub.go:49), but
\* never more often than it has handlers still inside the hub, so that the
\* list does not grow with the number of reconnections.
LiveOn(d) == {c \in Conns : DeviceOf[c] = d /\ Live(c)}

IndexBounded == \A d \in Devices : userIdx[UserOf[d]][d] <= Cardinality(LiveOn(d))

\* The connection the hub has for a device belongs to a handler that is still
\* going to unregister it, and its channel is closed only in the window
\* between the two deferred calls of ws.go:113-114.
RegisteredIsLive ==
    \A d \in Devices : devices[d] # None =>
        /\ DeviceOf[devices[d]] = d
        /\ Live(devices[d])
        /\ devices[d] \in closed => pc[devices[d]] = "unregister"

\* The hub is frozen: a Broadcast holds the read lock and waits for it again
\* behind a writer (hub.go:122-124), or a handler that panicked in Broadcast
\* took the read lock with it (hub.go:126 is not deferred).
Frozen ==
    \E c \in readers :
        \/ pc[c] \in Broadcasting /\ visit[c] # NoDevice /\ writerWaiting # None
        \/ pc[c] \in {"close", "unregister"}

\* Nothing thaws a frozen hub: it stays so until the process is restarted.
FreezeIsForever == [][Frozen => Frozen']_vars

\* The two causes above are the only ones: unless the hub freezes, every
\* registration, broadcast, push, membership change and unregistration that
\* was begun comes to its end, however they interleave.
UsesHub(p) == pc[p] \in {"register", "greet", "announce", "reply", "request", "set",
                         "leave", "farewell", "close", "unregister"}
CallsFinish == \A p \in Procs : UsesHub(p) ~> (~UsesHub(p) \/ Frozen)

\* What the code says of itself, and does not keep.

\* "send status over the hub" (ws.go:121): a handler that connected gets its
\* online status out and goes on to serve its client.
StatusIsSent == \A c \in Conns : (pc[c] = "greet") ~> (pc[c] \in {"sync", "serve"})

\* "Channel of output messages from hub -> current WS" (ws.go:107): while the
\* only live handler of a device serves it, the hub's connection is that one.
CurrentIsRegistered ==
    \A c \in Conns :
        /\ pc[c] = "serve"
        /\ \A b \in Conns \ {c} : DeviceOf[b] = DeviceOf[c] => ~Live(b)
        => devices[DeviceOf[c]] = c

=============================================================================
