--------------------------- MODULE DeliveryHubProofs ---------------------------
(* What the hub keeps, and how it freezes, for any number of connections.   *)
EXTENDS DeliveryHub, FiniteSetTheorems, TLAPS

\* A channel is closed by the handler that leaves, and by nobody earlier.
ClosedLate == \A c \in closed : pc[c] \in {"unregister", "gone"}

IInv == TypeOK /\ ClosedLate /\ IndexAgrees /\ RegisteredIsLive

-----------------------------------------------------------------------------
\* The initial hub is empty, so every part of the invariant holds of it.
LEMMA InitIInv == Init => IInv
<1> SUFFICES ASSUME Init PROVE IInv
  OBVIOUS
<1> USE HubAssumption DEF Init, NoDevice, Procs
<1>1. TypeOK
  BY DEF TypeOK, ConnPC, CallerPC
<1>2. ClosedLate
  BY DEF ClosedLate
<1>3. IndexAgrees
  BY DEF IndexAgrees
<1>4. RegisteredIsLive
  BY DEF RegisteredIsLive, Live
<1> QED BY <1>1, <1>2, <1>3, <1>4 DEF IInv

-----------------------------------------------------------------------------
\* A step that leaves the hub's maps and the closed channels alone, and takes
\* no handler out of the hub or back from its last two steps, keeps IInv.
Quiet ==
    /\ UNCHANGED <<devices, userIdx, closed>>
    /\ \A c \in Conns : Live(c) => Live(c)'
    /\ \A c \in Conns : pc[c] \in {"unregister", "gone"} => pc'[c] = pc[c]

\* A step that leaves the indexes alone and ends no handler keeps the invariant.
LEMMA QuietStep ==
    ASSUME IInv, TypeOK', Quiet
    PROVE  IInv'
<1>1. ClosedLate'
  BY DEF IInv, TypeOK, ClosedLate, Quiet
<1>2. IndexAgrees'
  BY DEF IInv, IndexAgrees, Quiet
<1>3. RegisteredIsLive'
  <2> SUFFICES ASSUME NEW d \in Devices, devices'[d] # None
               PROVE  /\ DeviceOf[devices'[d]] = d
                      /\ pc'[devices'[d]] \notin {"connect", "register", "gone"}
                      /\ devices'[d] \in closed' => pc'[devices'[d]] = "unregister"
    BY DEF RegisteredIsLive, Live
  <2>1. /\ devices'[d] = devices[d]
        /\ devices[d] \in Conns
        /\ DeviceOf[devices[d]] = d
        /\ Live(devices[d])
        /\ devices[d] \in closed => pc[devices[d]] = "unregister"
    BY DEF IInv, TypeOK, RegisteredIsLive, Quiet
  <2> QED BY <2>1 DEF Quiet, Live
<1> QED BY <1>1, <1>2, <1>3 DEF IInv

\* A send never lifts a channel over its capacity.
LEMMA EnqueueBound ==
    ASSUME TypeOK, NEW d \in Devices, Enqueue(d)
    PROVE  queued' \in [Conns -> 0..ChanCap]
<1>1. CASE devices[d] # None /\ queued[devices[d]] < ChanCap
  <2> DEFINE c == devices[d]
  <2>1. c \in Conns /\ queued[c] \in 0..ChanCap /\ queued[c] + 1 \in 0..ChanCap
    BY <1>1, HubAssumption DEF TypeOK
  <2>2. queued' = [queued EXCEPT ![c] = queued[c] + 1]
    BY <1>1 DEF Enqueue
  <2> HIDE DEF c
  <2> QED BY <2>1, <2>2 DEF TypeOK
<1>2. CASE ~(devices[d] # None /\ queued[devices[d]] < ChanCap)
  BY <1>2 DEF Enqueue, TypeOK
<1> QED BY <1>1, <1>2

\* Unregister leaves well-formed maps, and no trace of the device in them.
LEMMA UnregisterMaps ==
    ASSUME TypeOK, NEW d \in Devices, UnregisterIn(d)
    PROVE  /\ devices' \in [Devices -> Conns \cup {None}]
           /\ userIdx' \in [Users -> [Devices -> Nat]]
           /\ devices'[d] = None
           /\ \A e \in Devices \ {d} : devices'[e] = devices[e]
           /\ \A u \in Users, e \in Devices :
                userIdx'[u][e] = IF devices[d] # None /\ u = UserOf[d] /\ e = d
                                 THEN 0 ELSE userIdx[u][e]
<1> USE HubAssumption DEF TypeOK
<1>1. CASE devices[d] = None
  BY <1>1 DEF UnregisterIn
<1>2. CASE devices[d] # None
  <2>1. /\ devices' = [devices EXCEPT ![d] = None]
        /\ userIdx' = [userIdx EXCEPT ![UserOf[d]] = [userIdx[UserOf[d]] EXCEPT ![d] = 0]]
        /\ UserOf[d] \in Users
    BY <1>2 DEF UnregisterIn
  <2>2. [userIdx[UserOf[d]] EXCEPT ![d] = 0] \in [Devices -> Nat]
    BY <2>1
  <2>3. userIdx' \in [Users -> [Devices -> Nat]]
    BY <2>1, <2>2
  <2>4. ASSUME NEW u \in Users, NEW e \in Devices
        PROVE  userIdx'[u][e] = IF u = UserOf[d] /\ e = d THEN 0 ELSE userIdx[u][e]
    BY <2>1
  <2> QED BY <1>2, <2>1, <2>3, <2>4
<1> QED BY <1>1, <1>2

\* The type invariant survives every step.
LEMMA TypeStep ==
    ASSUME TypeOK, [Next]_vars
    PROVE  TypeOK'
<1> USE HubAssumption DEF TypeOK, Procs, NoDevice, GoTo, CanRLock, ConnPC, CallerPC,
        hub, mtx, chan, push, sock
<1>1. CASE \E c \in Conns : HandlerStep(c)
  <2> PICK c \in Conns : HandlerStep(c)
    BY <1>1
  <2>1. CASE RegisterLock(c) \/ UnregisterLock(c)
    BY <2>1 DEF RegisterLock, UnregisterLock, RequestLock
  <2>2. CASE Register(c)
    BY <2>2 DEF Register, Exclusive, RegisterIn
  <2>3. CASE BroadcastBegin(c)
    BY <2>3 DEF BroadcastBegin
  <2>4. CASE BroadcastEnd(c)
    BY <2>4 DEF BroadcastEnd
  <2>5. CASE \E d \in Devices : BroadcastStep(c, d)
    <3> PICK d \in Devices : BroadcastStep(c, d)
      BY <2>5
    <3>1. queued' \in [Conns -> 0..ChanCap]
      BY EnqueueBound DEF BroadcastStep
    <3> QED BY <3>1 DEF BroadcastStep
  <2>6. CASE \E d \in Devices : BroadcastPanic(c, d)
    BY <2>6 DEF BroadcastPanic
  <2>7. CASE InitialSync(c)
    BY <2>7 DEF InitialSync
  <2>8. CASE ReadFails(c) \/ CloseChannel(c)
    <3>1. CASE ReadFails(c)
      BY <3>1 DEF ReadFails
    <3>2. CASE CloseChannel(c)
      BY <3>2 DEF CloseChannel
    <3> QED BY <2>8, <3>1, <3>2
  <2>9. CASE Unregister(c)
    BY <2>9, UnregisterMaps DEF Unregister, Exclusive
  <2> QED BY <2>1, <2>2, <2>3, <2>4, <2>5, <2>6, <2>7, <2>8, <2>9 DEF HandlerStep
<1>2. CASE \E c \in Conns : WriterTakes(c)
  <2> PICK c \in Conns : WriterTakes(c)
    BY <1>2
  <2>1. queued[c] \in 0..ChanCap /\ queued[c] - 1 \in 0..ChanCap
    BY DEF WriterTakes
  <2>2. queued' \in [Conns -> 0..ChanCap]
    BY <2>1 DEF WriterTakes
  <2>3. writer' \in [Conns -> {"none", "running", "ended"}]
    BY DEF WriterTakes
  <2> QED BY <2>2, <2>3 DEF WriterTakes
<1>6. CASE \E c \in Conns : WriterEnds(c)
  BY <1>6 DEF WriterEnds
<1>3. CASE \E p \in Procs : PushStep(p)
  <2> PICK p \in Procs : PushStep(p)
    BY <1>3
  <2>1. CASE \E u \in Users : ReadUserDevices(p, u)
    BY <2>1 DEF ReadUserDevices
  <2>2. CASE \E d \in Devices : PushToDevice(p, d)
    <3> PICK d \in Devices : PushToDevice(p, d)
      BY <2>2
    <3>1. queued' \in [Conns -> 0..ChanCap]
      BY EnqueueBound DEF PushToDevice
    <3>2. visit[p][d] - 1 \in Nat
      BY DEF PushToDevice
    <3>3. visit' \in [Procs -> [Devices -> Nat]]
      BY <3>2 DEF PushToDevice
    <3> QED BY <3>1, <3>3 DEF PushToDevice
  <2>3. CASE \E d \in Devices : PushPanic(p, d)
    BY <2>3 DEF PushPanic
  <2>4. CASE PushEnd(p)
    BY <2>4 DEF PushEnd
  <2>5. CASE \E g \in Groups, members \in SUBSET Users : SetGroupMembers(p, g, members)
    BY <2>5 DEF SetGroupMembers, Exclusive
  <2> QED BY <2>1, <2>2, <2>3, <2>4, <2>5 DEF PushStep
<1>4. CASE ClientStep
  <2>1. CASE \E c \in Conns : Connect(c) \/ LinkBreaks(c)
    BY <2>1, ZenonT(40) DEF Connect, LinkBreaks
  <2>2. CASE \E p \in Procs, d \in Devices : StartPushToDevice(p, d)
    BY <2>2 DEF StartPushToDevice, Busy
  <2>3. CASE \E p \in Procs, u \in Users : StartPushToUser(p, u)
    BY <2>3 DEF StartPushToUser, Busy
  <2>4. CASE \E p \in Procs, g \in Groups : StartPushToGroup(p, g)
    BY <2>4 DEF StartPushToGroup, Busy
  <2>5. CASE \E p \in Callers : SetMembersLock(p)
    BY <2>5 DEF SetMembersLock
  <2> QED BY <1>4, <2>1, <2>2, <2>3, <2>4, <2>5 DEF ClientStep
<1>5. CASE UNCHANGED vars
  BY <1>5 DEF vars
<1> QED BY <1>1, <1>2, <1>3, <1>4, <1>5, <1>6 DEF Next

\* Three steps change the hub's maps or close a channel; the rest is quiet.
LEMMA StepKinds ==
    ASSUME TypeOK, [Next]_vars
    PROVE  (\E c \in Conns : Register(c) \/ Unregister(c) \/ CloseChannel(c)) \/ Quiet
<1> USE HubAssumption
<1>1. ASSUME NEW c \in Conns, HandlerStep(c),
             ~Register(c), ~Unregister(c), ~CloseChannel(c)
      PROVE  Quiet
  <2> USE DEF Quiet, Live, TypeOK, Procs, GoTo, hub, mtx, chan, push, sock
  <2>1. CASE RegisterLock(c) \/ UnregisterLock(c)
    BY <2>1 DEF RegisterLock, UnregisterLock, RequestLock
  <2>2. CASE BroadcastBegin(c) \/ BroadcastEnd(c)
    BY <2>2 DEF BroadcastBegin, BroadcastEnd, Broadcasting
  <2>3. CASE \E d \in Devices : BroadcastStep(c, d) \/ BroadcastPanic(c, d)
    BY <2>3 DEF BroadcastStep, BroadcastPanic, Broadcasting
  <2>4. CASE InitialSync(c) \/ ReadFails(c)
    BY <2>4 DEF InitialSync, ReadFails
  <2> QED BY <1>1, <2>1, <2>2, <2>3, <2>4 DEF HandlerStep
<1>2. ASSUME NEW c \in Conns, WriterTakes(c) \/ WriterEnds(c) PROVE Quiet
  BY <1>2 DEF WriterTakes, WriterEnds, Quiet, Live, hub, mtx, chan, push, sock
<1>3. ASSUME NEW p \in Procs, PushStep(p) PROVE Quiet
  <2> USE DEF Quiet, Live, TypeOK, Procs, GoTo, Pushing, hub, mtx, chan, push, sock
  <2>1. CASE \E u \in Users : ReadUserDevices(p, u)
    BY <2>1 DEF ReadUserDevices
  <2>2. CASE \E d \in Devices : PushToDevice(p, d) \/ PushPanic(p, d)
    BY <2>2 DEF PushToDevice, PushPanic
  <2>3. CASE PushEnd(p)
    BY <2>3 DEF PushEnd
  <2>4. CASE \E g \in Groups, members \in SUBSET Users : SetGroupMembers(p, g, members)
    BY <2>4 DEF SetGroupMembers
  <2> QED BY <1>3, <2>1, <2>2, <2>3, <2>4 DEF PushStep
<1>4. ASSUME ClientStep PROVE Quiet
  <2> USE DEF Quiet, Live, TypeOK, Procs, GoTo, Busy, Ready, hub, mtx, chan, push, sock
  <2>1. CASE \E c \in Conns : Connect(c) \/ LinkBreaks(c)
    BY <2>1 DEF Connect, LinkBreaks
  <2>2. CASE \E p \in Procs, d \in Devices : StartPushToDevice(p, d)
    BY <2>2 DEF StartPushToDevice
  <2>3. CASE \E p \in Procs, u \in Users : StartPushToUser(p, u)
    BY <2>3 DEF StartPushToUser
  <2>4. CASE \E p \in Procs, g \in Groups : StartPushToGroup(p, g)
    BY <2>4 DEF StartPushToGroup
  <2>5. CASE \E p \in Callers : SetMembersLock(p)
    BY <2>5 DEF SetMembersLock
  <2> QED BY <1>4, <2>1, <2>2, <2>3, <2>4, <2>5 DEF ClientStep
<1>5. CASE UNCHANGED vars
  BY <1>5 DEF Quiet, Live, vars, hub, chan
<1> QED BY <1>1, <1>2, <1>3, <1>4, <1>5 DEF Next

\* The three steps that are not quiet keep the invariant as well.
LEMMA NextIInv ==
    ASSUME IInv, [Next]_vars
    PROVE  IInv'
<1>0. TypeOK /\ TypeOK'
  BY TypeStep DEF IInv
<1> USE <1>0, HubAssumption
<1>1. ASSUME NEW c \in Conns, Register(c) PROVE IInv'
  <2> USE <1>1 DEF Register, RegisterIn, Exclusive, GoTo, chan
  <2>1. pc[c] = "register" /\ pc' = [pc EXCEPT ![c] = "greet"] /\ c \in Procs
    BY DEF Procs
  <2>2. c \notin closed
    BY <2>1 DEF IInv, ClosedLate
  <2>3. ClosedLate'
    BY <2>1, <2>2 DEF IInv, TypeOK, ClosedLate
  <2>4. IndexAgrees'
    BY DEF IInv, TypeOK, IndexAgrees, Procs
  <2>5. RegisteredIsLive'
    <3> SUFFICES ASSUME NEW d \in Devices, devices'[d] # None
                 PROVE  /\ DeviceOf[devices'[d]] = d
                        /\ pc'[devices'[d]] \notin {"connect", "register", "gone"}
                        /\ devices'[d] \in closed' => pc'[devices'[d]] = "unregister"
      BY DEF RegisteredIsLive, Live
    <3>1. CASE d = DeviceOf[c]
      BY <2>1, <2>2, <3>1 DEF TypeOK, Live
    <3>2. CASE d # DeviceOf[c]
      BY <2>1, <3>2 DEF IInv, TypeOK, RegisteredIsLive, Live
    <3> QED BY <3>1, <3>2
  <2> QED BY <2>3, <2>4, <2>5 DEF IInv
<1>2. ASSUME NEW c \in Conns, Unregister(c) PROVE IInv'
  <2> USE <1>2 DEF Unregister, Exclusive, GoTo, chan
  <2>0. DeviceOf[c] \in Devices /\ UnregisterIn(DeviceOf[c])
    OBVIOUS
  <2>1. pc[c] = "unregister" /\ pc' = [pc EXCEPT ![c] = "gone"] /\ c \in Procs
    BY DEF Procs
  <2>2. ClosedLate'
    BY <2>1 DEF IInv, TypeOK, ClosedLate
  <2>3. IndexAgrees'
    BY <2>0, UnregisterMaps, SMTT(20) DEF IInv, TypeOK, IndexAgrees
  <2>4. RegisteredIsLive'
    <3> SUFFICES ASSUME NEW d \in Devices, devices'[d] # None
                 PROVE  /\ DeviceOf[devices'[d]] = d
                        /\ pc'[devices'[d]] \notin {"connect", "register", "gone"}
                        /\ devices'[d] \in closed' => pc'[devices'[d]] = "unregister"
      BY DEF RegisteredIsLive, Live
    <3>1. devices'[d] = devices[d] /\ d # DeviceOf[c]
      BY <2>0, UnregisterMaps
    <3> QED BY <2>1, <3>1 DEF IInv, TypeOK, RegisteredIsLive, Live
  <2> QED BY <2>2, <2>3, <2>4 DEF IInv
<1>3. ASSUME NEW c \in Conns, CloseChannel(c) PROVE IInv'
  <2> USE <1>3 DEF CloseChannel, GoTo, hub
  <2>1. pc[c] = "close" /\ pc' = [pc EXCEPT ![c] = "unregister"] /\ c \in Procs
    BY DEF Procs
  <2>2. ClosedLate'
    BY <2>1 DEF IInv, TypeOK, ClosedLate
  <2>3. IndexAgrees'
    BY DEF IInv, IndexAgrees
  <2>4. RegisteredIsLive'
    <3> SUFFICES ASSUME NEW d \in Devices, devices'[d] # None
                 PROVE  /\ DeviceOf[devices'[d]] = d
                        /\ pc'[devices'[d]] \notin {"connect", "register", "gone"}
                        /\ devices'[d] \in closed' => pc'[devices'[d]] = "unregister"
      BY DEF RegisteredIsLive, Live
    <3>1. devices[d] \in Conns /\ devices[d] \in Procs
      BY DEF TypeOK, Procs
    <3> QED BY <2>1, <3>1 DEF IInv, TypeOK, RegisteredIsLive, Live
  <2> QED BY <2>2, <2>3, <2>4 DEF IInv
<1> QED BY <1>1, <1>2, <1>3, StepKinds, QuietStep

-----------------------------------------------------------------------------
\* Registering, overwriting and unregistering handlers leave the two indexes of
\* the hub in agreement, for any number of handlers that overlap (hub.go:39-74).
THEOREM IndexesAgree == Spec => []IndexAgrees
<1>1. Spec => []IInv
  BY InitIInv, NextIInv, PTL DEF Spec
<1> QED BY <1>1, PTL DEF IInv

\* The hub never keeps the connection of a handler that is gone, and a closed
\* channel is reachable only while its handler waits to unregister.
THEOREM NoDeadConnection == Spec => []RegisteredIsLive
<1>1. Spec => []IInv
  BY InitIInv, NextIInv, PTL DEF Spec
<1> QED BY <1>1, PTL DEF IInv

\* A device is listed at most once for each of its handlers in the hub: a
\* registration adds one entry and one live handler, and the handler that
\* leaves takes every entry with it, or finds none (hub.go:39-74).
THEOREM ListIsBounded == Spec => []IndexBounded
<1>1. Init => IndexBounded
  <2> SUFFICES ASSUME Init, NEW d \in Devices
               PROVE  userIdx[UserOf[d]][d] <= Cardinality(LiveOn(d))
    BY DEF IndexBounded
  <2>1. userIdx[UserOf[d]][d] = 0
    BY HubAssumption DEF Init, NoDevice
  <2>2. Cardinality(LiveOn(d)) \in Nat
    BY HubAssumption, FS_Subset, FS_CardinalityType DEF LiveOn
  <2> QED BY <2>1, <2>2
<1>2. ASSUME IInv, IndexBounded, [Next]_vars
      PROVE  IndexBounded'
  <2> SUFFICES ASSUME NEW d \in Devices
               PROVE  userIdx'[UserOf[d]][d] <= Cardinality(LiveOn(d)')
    BY DEF IndexBounded
  <2> DEFINE n == userIdx[UserOf[d]][d]
  <2>1. TypeOK /\ UserOf[d] \in Users /\ n \in Nat
    BY <1>2, HubAssumption DEF IInv, TypeOK
  <2>2. n <= Cardinality(LiveOn(d))
    BY <1>2 DEF IndexBounded
  <2>3. /\ IsFiniteSet(LiveOn(d)) /\ IsFiniteSet(LiveOn(d)')
        /\ Cardinality(LiveOn(d)) \in Nat /\ Cardinality(LiveOn(d)') \in Nat
    <3>1. LiveOn(d) \in SUBSET Conns /\ LiveOn(d)' \in SUBSET Conns
      BY DEF LiveOn
    <3> QED BY <3>1, HubAssumption, FS_Subset, FS_CardinalityType
  <2>4. ASSUME LiveOn(d) \subseteq LiveOn(d)', userIdx'[UserOf[d]][d] = n
        PROVE  userIdx'[UserOf[d]][d] <= Cardinality(LiveOn(d)')
    <3>1. Cardinality(LiveOn(d)) <= Cardinality(LiveOn(d)')
      BY <2>3, <2>4, FS_Subset
    <3> QED BY <2>1, <2>2, <2>3, <2>4, <3>1
  <2>5. ASSUME NEW c \in Conns, Register(c)
        PROVE  userIdx'[UserOf[d]][d] <= Cardinality(LiveOn(d)')
    <3> USE HubAssumption DEF Register, RegisterIn, Exclusive, GoTo, Procs
    <3>1. /\ pc[c] = "register" /\ pc'[c] = "greet"
          /\ \A b \in Conns \ {c} : pc'[b] = pc[b]
      BY <2>1, <2>5 DEF TypeOK
    <3>2. CASE DeviceOf[c] = d
      <4>1. LiveOn(d)' = LiveOn(d) \cup {c} /\ c \notin LiveOn(d)
        BY <3>1, <3>2 DEF LiveOn, Live
      <4>2. Cardinality(LiveOn(d)') = Cardinality(LiveOn(d)) + 1
        BY <4>1, <2>3, FS_AddElement
      <4>3. userIdx'[UserOf[d]][d] = n + 1
        BY <2>1, <2>5, <3>2 DEF TypeOK
      <4> QED BY <2>1, <2>2, <2>3, <4>2, <4>3
    <3>3. CASE DeviceOf[c] # d
      <4>1. LiveOn(d) \subseteq LiveOn(d)'
        BY <3>1, <3>3 DEF LiveOn, Live
      <4>2. userIdx'[UserOf[d]][d] = n
        BY <2>1, <2>5, <3>3 DEF TypeOK
      <4> QED BY <2>4, <4>1, <4>2
    <3> QED BY <3>2, <3>3
  <2>6. ASSUME NEW c \in Conns, Unregister(c)
        PROVE  userIdx'[UserOf[d]][d] <= Cardinality(LiveOn(d)')
    <3>0. DeviceOf[c] \in Devices /\ UnregisterIn(DeviceOf[c])
      BY <2>6, HubAssumption DEF Unregister
    <3>1. CASE DeviceOf[c] = d
      <4>1. userIdx'[UserOf[d]][d] = 0
        BY <1>2, <2>1, <3>0, <3>1, UnregisterMaps DEF IInv, IndexAgrees
      <4> QED BY <2>3, <4>1
    <3>2. CASE DeviceOf[c] # d
      <4>1. \A b \in Conns \ {c} : pc'[b] = pc[b]
        BY <2>1, <2>6 DEF Unregister, GoTo, TypeOK, Procs
      <4>2. LiveOn(d) \subseteq LiveOn(d)'
        BY <3>2, <4>1 DEF LiveOn, Live
      <4>3. userIdx'[UserOf[d]][d] = n
        BY <2>1, <3>0, <3>2, UnregisterMaps
      <4> QED BY <2>4, <4>2, <4>3
    <3> QED BY <3>1, <3>2
  <2>7. ASSUME NEW c \in Conns, CloseChannel(c)
        PROVE  userIdx'[UserOf[d]][d] <= Cardinality(LiveOn(d)')
    <3>1. LiveOn(d) \subseteq LiveOn(d)'
      BY <2>1, <2>7 DEF CloseChannel, GoTo, TypeOK, Procs, LiveOn, Live
    <3> QED BY <2>4, <2>7, <3>1 DEF CloseChannel, hub
  <2>8. ASSUME Quiet
        PROVE  userIdx'[UserOf[d]][d] <= Cardinality(LiveOn(d)')
    <3>1. LiveOn(d) \subseteq LiveOn(d)'
      BY <2>8 DEF Quiet, LiveOn
    <3> QED BY <2>4, <2>8, <3>1 DEF Quiet
  <2> QED BY <1>2, <2>1, <2>5, <2>6, <2>7, <2>8, StepKinds
<1>3. Spec => []IInv
  BY InitIInv, NextIInv, PTL DEF Spec
<1> QED BY <1>1, <1>2, <1>3, PTL DEF Spec

\* No channel ever holds more than its capacity, and every variable a value of
\* its kind (hub.go:85-90).
THEOREM TypesHold == Spec => []TypeOK
<1>1. Spec => []IInv
  BY InitIInv, NextIInv, PTL DEF Spec
<1> QED BY <1>1, PTL DEF IInv

\* A frozen hub stays frozen: the reader that waits behind the writer cannot
\* go on, and the writer cannot enter before the reader leaves; a read lock
\* lost to a panic is never given back (hub.go:121-126).
THEOREM FreezeIsPermanent == Spec => FreezeIsForever
<1>1. ASSUME TypeOK, [Next]_vars, Frozen
      PROVE  Frozen'
  <2> PICK c \in readers : \/ pc[c] \in Broadcasting /\ visit[c] # NoDevice /\ writerWaiting # None
                           \/ pc[c] \in {"close", "unregister"}
    BY <1>1 DEF Frozen
  <2> USE <1>1, HubAssumption
  <2>1. c \in Conns /\ c \in Procs
    BY DEF TypeOK, Procs
  <2> SUFFICES /\ c \in readers'
               /\ \/ pc'[c] \in Broadcasting /\ visit'[c] # NoDevice /\ writerWaiting' # None
                  \/ pc'[c] \in {"close", "unregister"}
    BY DEF Frozen
  <2> USE <2>1 DEF TypeOK, Procs, GoTo, CanRLock, hub, mtx, chan, push, sock
  <2>2. CASE \E b \in Conns : HandlerStep(b)
    <3> PICK b \in Conns : HandlerStep(b)
      BY <2>2
    <3>1. CASE RegisterLock(b) \/ UnregisterLock(b)
      BY <3>1 DEF RegisterLock, UnregisterLock, RequestLock
    <3>2. CASE Register(b) \/ Unregister(b)
      BY <3>2 DEF Register, Unregister, Exclusive
    <3>3. CASE BroadcastBegin(b)
      BY <3>3 DEF BroadcastBegin, Broadcasting
    <3>4. CASE BroadcastEnd(b)
      BY <3>4 DEF BroadcastEnd, Broadcasting
    <3>5. CASE \E d \in Devices : BroadcastStep(b, d)
      BY <3>5 DEF BroadcastStep, Broadcasting
    <3>6. CASE \E d \in Devices : BroadcastPanic(b, d)
      BY <3>6 DEF BroadcastPanic, Broadcasting
    <3>7. CASE InitialSync(b) \/ ReadFails(b)
      BY <3>7 DEF InitialSync, ReadFails, Broadcasting
    <3>8. CASE CloseChannel(b)
      BY <3>8 DEF CloseChannel, Broadcasting
    <3> QED BY <3>1, <3>2, <3>3, <3>4, <3>5, <3>6, <3>7, <3>8 DEF HandlerStep
  <2>3. CASE \E b \in Conns : WriterTakes(b) \/ WriterEnds(b)
    BY <2>3 DEF WriterTakes, WriterEnds
  <2>4. CASE \E p \in Procs : PushStep(p)
    <3> PICK p \in Procs : PushStep(p)
      BY <2>4
    <3>1. CASE \E u \in Users : ReadUserDevices(p, u)
      BY <3>1 DEF ReadUserDevices, Pushing, Broadcasting
    <3>2. CASE \E d \in Devices : PushToDevice(p, d) \/ PushPanic(p, d)
      BY <3>2 DEF PushToDevice, PushPanic, Pushing, Broadcasting
    <3>3. CASE PushEnd(p)
      BY <3>3 DEF PushEnd, Pushing, Broadcasting
    <3>4. CASE \E g \in Groups, members \in SUBSET Users : SetGroupMembers(p, g, members)
      BY <3>4 DEF SetGroupMembers, Exclusive
    <3> QED BY <3>1, <3>2, <3>3, <3>4 DEF PushStep
  <2>5. CASE ClientStep
    <3> USE DEF Ready, Broadcasting
    <3>1. CASE \E b \in Conns : Connect(b) \/ LinkBreaks(b)
      BY <3>1 DEF Connect, LinkBreaks
    <3>2. CASE \E p \in Procs, d \in Devices : StartPushToDevice(p, d)
      BY <3>2 DEF StartPushToDevice
    <3>3. CASE \E p \in Procs, u \in Users : StartPushToUser(p, u)
      BY <3>3 DEF StartPushToUser
    <3>4. CASE \E p \in Procs, g \in Groups : StartPushToGroup(p, g)
      BY <3>4 DEF StartPushToGroup
    <3>5. CASE \E p \in Callers : SetMembersLock(p)
      BY <3>5 DEF SetMembersLock
    <3> QED BY <2>5, <3>1, <3>2, <3>3, <3>4, <3>5 DEF ClientStep
  <2>6. CASE UNCHANGED vars
    BY <2>6 DEF vars
  <2> QED BY <2>2, <2>3, <2>4, <2>5, <2>6 DEF Next
<1>2. Spec => []TypeOK
  BY InitIInv, TypeStep, PTL DEF Spec, IInv
<1> QED BY <1>1, <1>2, PTL DEF Spec, FreezeIsForever

=============================================================================
