------------------------- MODULE MessageDeliveryProofs -------------------------
(****************************************************************************)
(* Theorems about MessageDelivery, for any number of requests, devices,     *)
(* users and messages: nothing is announced or received that is not stored, *)
(* receipts are true, the table loses nothing and implements Mailbox, and a *)
(* sender that was told of success has its rows.                            *)
(****************************************************************************)
EXTENDS MessageDelivery, FiniteSetTheorems, TLAPS

-----------------------------------------------------------------------------
(* The inductive invariant. *)

\* A request that still saves knows its sender; one that announces has an event.
PhaseOK ==
    \A r \in Requests :
        /\ job[r].phase \in {"save", "gather"} \/ job[r].left # {} => job[r].dev \in Devices
        /\ job[r].phase \in {"push", "append"} => job[r].cur \in Events

\* What an event says of the table.
NewKinds == {"message:new", "group:message:new"}

Holds(e) ==
    /\ e.msg \in Stored
    /\ e.kind \in NewKinds => row[e.msg].to = e.dev
    /\ e.kind = "message:delivered" => row[e.msg].delivered
    /\ e.kind = "message:read" => row[e.msg].read

\* The events a request is about to announce.
ToTell(r) ==
    job[r].rest \cup {e \in Events : job[r].phase \in {"push", "append"} /\ e = job[r].cur}

EventsHold ==
    /\ \A d \in Devices : \A e \in wire[d] : Holds(e) /\ e.dev = d
    /\ \A e \in log : Holds(e)
    /\ \A r \in Requests : \A e \in ToTell(r) : Holds(e)

SeenIsStored == \A d \in Devices : \A m \in seen[d] : m \in Stored /\ row[m].to = d

\* What a request acknowledges is stored, for one device, and marked once the
\* update is over.
AckOne(r) ==
    /\ \A m \in job[r].delivered \cup job[r].read :
         /\ m \in Stored
         /\ \A n \in job[r].delivered \cup job[r].read : row[m].to = row[n].to
    /\ job[r].phase \in {"markread", "load"} => \A m \in job[r].delivered : row[m].delivered
    /\ job[r].phase = "load" => \A m \in job[r].read : row[m].read

AckOK == \A r \in Requests : AckOne(r)

IInv == TypeOK /\ PhaseOK /\ EventsHold /\ SeenIsStored /\ AckOK

-----------------------------------------------------------------------------
(* Types. *)

\* Everything a request is made of has its type.
LEMMA IdleTyped == Idle \in Jobs
  BY DEF Idle, Jobs, Phases, Finished

\* A request that is replaced by one of the right type.
JobOK(j) ==
    /\ j \in Jobs
    /\ j.phase \in {"save", "gather"} \/ j.left # {} => j.dev \in Devices
    /\ j.phase \in {"push", "append"} => j.cur \in Events

\* A request that is given a job of its kind keeps all of them of theirs.
LEMMA JobStep ==
  ASSUME TypeOK, PhaseOK, NEW r \in Requests, NEW j, JobOK(j), job' = [job EXCEPT ![r] = j]
  PROVE  job' \in [Requests -> Jobs] /\ PhaseOK'
  BY DEF TypeOK, PhaseOK, JobOK

\* The job of every request is of its kind.
LEMMA JobsOK ==
  ASSUME TypeOK, PhaseOK, NEW r \in Requests
  PROVE  JobOK(job[r])
  BY DEF TypeOK, PhaseOK, JobOK

\* A request that has returned.
LEMMA EndsOK ==
  ASSUME TypeOK, PhaseOK, NEW r \in Requests, Ends(r, "ok")
  PROVE  job' \in [Requests -> Jobs] /\ PhaseOK'
  <1> DEFINE j == [Idle EXCEPT !.op = job[r].op, !.phase = "ok",
                               !.targets = job[r].targets, !.mine = job[r].mine]
  <1>1. JobOK(j)
    BY JobsOK DEF JobOK, Idle, Jobs, Phases, Finished
  <1>2. job' = [job EXCEPT ![r] = j]
    BY DEF Ends
  <1> HIDE DEF j
  <1> QED BY <1>1, <1>2, JobStep

\* A request that goes on with another event.
LEMMA TellsOK ==
  ASSUME TypeOK, PhaseOK, NEW r \in Requests, NEW e \in Events, NEW rest \in SUBSET Events,
         job' = [job EXCEPT ![r].phase = "push", ![r].cur = e, ![r].rest = rest]
  PROVE  job' \in [Requests -> Jobs] /\ PhaseOK'
  <1> DEFINE j == [job[r] EXCEPT !.phase = "push", !.cur = e, !.rest = rest]
  <1>1. JobOK(j)
    BY JobsOK, ZenonT(40) DEF JobOK, Jobs, Phases
  <1>2. job' = [job EXCEPT ![r] = j]
    BY DEF TypeOK, Jobs
  <1> HIDE DEF j
  <1> QED BY <1>1, <1>2, JobStep

\* A batch has one new id for every device it is for.
LEMMA NewIdsTyped ==
  ASSUME TypeOK, NEW r \in Requests, NEW to \in Assignments(job[r].targets), StoreAll(r, to)
  PROVE  /\ Cardinality(job[r].targets) \in Nat
         /\ DOMAIN to = next..next'-1
         /\ next' \in next..MaxMsgs + 1
         /\ DOMAIN to \subseteq Ids
         /\ \A m \in DOMAIN to : to[m] \in Devices
  <1>1. job[r].targets \subseteq Devices
    BY DEF TypeOK, Jobs
  <1>2. IsFiniteSet(job[r].targets)
    BY <1>1, FS_Subset, DeliveryAssumption DEF DeliveryAssumption
  <1>3. Cardinality(job[r].targets) \in Nat
    BY <1>2, FS_CardinalityType
  <1>4. next \in 1..MaxMsgs + 1 /\ MaxMsgs \in Nat
    BY DeliveryAssumption DEF DeliveryAssumption, TypeOK
  <1>5. next' = next + Cardinality(job[r].targets) /\ next + Cardinality(job[r].targets) - 1 <= MaxMsgs
    BY DEF StoreAll
  <1>6. DOMAIN to = next..next + Cardinality(job[r].targets) - 1
    BY DEF Assignments, NewIds
  <1>7. \A m \in DOMAIN to : to[m] \in job[r].targets
    BY DEF Assignments
  <1> QED BY <1>1, <1>3, <1>4, <1>5, <1>6, <1>7 DEF Ids

\* A send or a forward begins with a job of its kind, also to nobody.
LEMMA TypeOfSendTo ==
  ASSUME TypeOK, PhaseOK, NEW r \in Requests, NEW op \in {"send", "forward"},
         NEW d \in Devices, NEW u \in Users, SendTo(r, op, d, u)
  PROVE  job' \in [Requests -> Jobs] /\ PhaseOK'
  <1>1. CASE ActiveOf(u) = {}
    <2>1. JobOK([Idle EXCEPT !.phase = "error"])
      BY DEF JobOK, Idle, Jobs, Phases, Finished
    <2>2. job' = [job EXCEPT ![r] = [Idle EXCEPT !.phase = "error"]]
      BY <1>1 DEF SendTo
    <2> QED BY <2>1, <2>2, JobStep
  <1>2. CASE ActiveOf(u) # {}
    <2> DEFINE j == [Idle EXCEPT !.op = op, !.phase = "save", !.dev = d,
                                 !.targets = ActiveOf(u), !.left = ActiveOf(u)]
    <2>1. JobOK(j)
      BY DEF JobOK, Idle, Jobs, Phases, ActiveOf, Active
    <2>2. job' = [job EXCEPT ![r] = j]
      BY <1>2 DEF SendTo
    <2> HIDE DEF j
    <2> QED BY <2>1, <2>2, JobStep
  <1> QED BY <1>1, <1>2

\* Steps that leave the table alone and begin or end a request.
LEMMA TypeOfCalls ==
  ASSUME TypeOK, PhaseOK, NEW r \in Requests, Call(r)
  PROVE  TypeOK' /\ PhaseOK'
  <1>1. ASSUME NEW d \in Devices, NEW u \in Users, Send(r, d, u)
        PROVE  TypeOK' /\ PhaseOK'
    BY <1>1, TypeOfSendTo DEF Send, TypeOK
  <1>2. ASSUME NEW d \in Devices, NEW m \in Ids, NEW u \in Users, Forward(r, d, m, u)
        PROVE  TypeOK' /\ PhaseOK'
    BY <1>2, TypeOfSendTo DEF Forward, TypeOK
  <1>3. ASSUME NEW d \in Devices, NEW members \in SUBSET Users, SendGroup(r, d, members)
        PROVE  TypeOK' /\ PhaseOK'
    BY <1>3, IdleTyped DEF TypeOK, PhaseOK, SendGroup, Idle, Jobs, Phases, Finished
  <1>4. ASSUME NEW d \in Devices, NEW delivered \in SUBSET seen[d], NEW read \in SUBSET seen[d],
               Ack(r, d, delivered, read)
        PROVE  TypeOK' /\ PhaseOK'
    BY <1>4, IdleTyped, ZenonT(40) DEF TypeOK, PhaseOK, Ack, Idle, Jobs, Phases, Finished
  <1> QED BY <1>1, <1>2, <1>3, <1>4 DEF Call

\* The steps of a request.
LEMMA TypeOfWork ==
  ASSUME TypeOK, PhaseOK, NEW r \in Requests, Work(r)
  PROVE  TypeOK' /\ PhaseOK'
  <1>a. MaxMsgs \in Nat /\ UserOf \in [Devices -> Users] /\ Online \subseteq Devices
    BY DeliveryAssumption DEF DeliveryAssumption
  <1>1. ASSUME NEW d \in Devices, Save(r, d)
        PROVE  TypeOK' /\ PhaseOK'
    <2>1. next \in Ids /\ next' \in 1..MaxMsgs + 1
      BY <1>1, <1>a DEF Save, TypeOK, Ids
    <2>2. Row(job[r].dev, d) \in Rows
      BY <1>1 DEF Save, PhaseOK, In, Row, Rows
    <2>3. SavedEvent(r, next, d) \in Events
      BY <1>1, <1>a, <2>1 DEF Save, PhaseOK, In, SavedEvent, NewMessage, Event, Events, EventKinds
    <2> DEFINE label == IF job[r].op = "forward" THEN "append" ELSE "push"
               j == [job[r] EXCEPT !.left = @ \ {d}, !.mine = @ \cup {next},
                                   !.cur = SavedEvent(r, next, d), !.phase = label]
    <2>4. JobOK(j)
      <3>1. label \in {"push", "append"}
        OBVIOUS
      <3>2. job[r].dev \in Devices
        BY <1>1 DEF Save, In, PhaseOK
      <3> HIDE DEF label
      <3> QED BY <2>1, <2>3, <3>1, <3>2, JobsOK, ZenonT(40) DEF JobOK, Jobs, Phases
    <2>5. job' = [job EXCEPT ![r] = j]
      BY <1>1 DEF Save, TypeOK, Jobs
    <2> HIDE DEF j
    <2>6. job' \in [Requests -> Jobs] /\ PhaseOK'
      BY <2>4, <2>5, JobStep
    <2>7. row' \in [Ids -> Rows \cup {None}]
      BY <1>1, <2>1, <2>2 DEF Save, TypeOK
    <2> QED BY <1>1, <2>1, <2>6, <2>7 DEF Save, TypeOK
  <1>2. ASSUME NEW d \in Devices, SaveFails(r, d)
        PROVE  TypeOK' /\ PhaseOK'
    <2>1. Row(job[r].dev, d) \in Rows
      BY <1>2 DEF SaveFails, PhaseOK, In, Row, Rows
    <2>2. row' \in [Ids -> Rows \cup {None}] /\ next' \in 1..MaxMsgs + 1
      <3>1. CASE UNCHANGED <<row, next>>
        BY <3>1 DEF TypeOK
      <3>2. CASE /\ next <= MaxMsgs
                 /\ row' = [row EXCEPT ![next] = Row(job[r].dev, d)]
                 /\ next' = next + 1
        BY <3>2, <1>a, <2>1 DEF TypeOK, Ids
      <3> QED BY <1>2, <3>1, <3>2 DEF SaveFails
    <2> QED BY <1>2, <2>2, IdleTyped DEF SaveFails, Fails, TypeOK, PhaseOK, Idle, Jobs, Phases, Finished
  <1>3. ASSUME NEW u \in Users, GatherMember(r, u)
        PROVE  TypeOK' /\ PhaseOK'
    <2> DEFINE j == [job[r] EXCEPT !.members = @ \ {u}, !.targets = @ \cup ActiveOf(u)]
    <2>1. JobOK(j)
      BY JobsOK DEF JobOK, Jobs, ActiveOf, Active
    <2>2. job' = [job EXCEPT ![r] = j]
      BY <1>3 DEF GatherMember, TypeOK, Jobs
    <2> HIDE DEF j
    <2>3. job' \in [Requests -> Jobs] /\ PhaseOK'
      BY <2>1, <2>2, JobStep
    <2> QED BY <1>3, <2>3 DEF GatherMember, TypeOK
  <1>4. ASSUME NEW to \in Assignments(job[r].targets), StoreAll(r, to), In(r, "gather")
        PROVE  row' \in [Ids -> Rows \cup {None}] /\ next' \in 1..MaxMsgs + 1
    <2>1. /\ next' \in next..MaxMsgs + 1
          /\ \A m \in DOMAIN to : to[m] \in Devices
      BY <1>4, NewIdsTyped
    <2>2. job[r].dev \in Devices
      BY <1>4 DEF PhaseOK, In
    <2>3. \A m \in DOMAIN to : Row(job[r].dev, to[m]) \in Rows
      BY <2>1, <2>2 DEF Row, Rows
    <2> QED BY <1>4, <1>a, <2>1, <2>3 DEF StoreAll, TypeOK
  <1>5. ASSUME SaveMany(r)
        PROVE  TypeOK' /\ PhaseOK'
    <2>1. PICK to \in Assignments(job[r].targets) :
            /\ StoreAll(r, to)
            /\ IF job[r].targets = {}
               THEN Ends(r, "ok")
               ELSE \E first \in GroupEvents(to) :
                      job' = [job EXCEPT ![r].phase = "push", ![r].mine = DOMAIN to,
                                         ![r].cur = first, ![r].rest = GroupEvents(to) \ {first}]
      BY <1>5 DEF SaveMany
    <2>2. row' \in [Ids -> Rows \cup {None}] /\ next' \in 1..MaxMsgs + 1
      BY <1>4, <1>5, <2>1 DEF SaveMany
    <2>3. DOMAIN to \subseteq Ids /\ \A m \in DOMAIN to : to[m] \in Devices
      BY <2>1, NewIdsTyped
    <2>4. GroupEvents(to) \subseteq Events
      BY <1>a, <2>3 DEF GroupEvents, NewMessage, Event, Events, EventKinds
    <2>5. CASE job[r].targets = {}
      BY <1>5, <2>1, <2>2, <2>5, EndsOK DEF SaveMany, TypeOK
    <2>6. CASE job[r].targets # {}
      <3>1. PICK first \in GroupEvents(to) :
              job' = [job EXCEPT ![r].phase = "push", ![r].mine = DOMAIN to,
                                 ![r].cur = first, ![r].rest = GroupEvents(to) \ {first}]
        BY <2>1, <2>6
      <3> DEFINE j == [job[r] EXCEPT !.phase = "push", !.mine = DOMAIN to,
                                     !.cur = first, !.rest = GroupEvents(to) \ {first}]
      <3>2. JobOK(j)
        BY <2>3, <2>4, JobsOK, ZenonT(40) DEF JobOK, Jobs, Phases
      <3>3. job' = [job EXCEPT ![r] = j]
        BY <3>1 DEF TypeOK, Jobs
      <3> HIDE DEF j
      <3>4. job' \in [Requests -> Jobs] /\ PhaseOK'
        BY <3>2, <3>3, JobStep
      <3> QED BY <1>5, <2>2, <3>4 DEF SaveMany, TypeOK
    <2> QED BY <2>5, <2>6
  <1>6. ASSUME GroupFails(r)
        PROVE  TypeOK' /\ PhaseOK'
    <2>1. row' \in [Ids -> Rows \cup {None}] /\ next' \in 1..MaxMsgs + 1
      BY <1>4, <1>6 DEF GroupFails, TypeOK
    <2> QED BY <1>6, <2>1, IdleTyped DEF GroupFails, Fails, TypeOK, PhaseOK, Idle, Jobs, Phases, Finished
  <1>7. ASSUME Push(r)
        PROVE  TypeOK' /\ PhaseOK'
    <2> DEFINE j == [job[r] EXCEPT !.phase = "append"]
    <2>1. job[r].phase = "push" /\ job[r].cur \in Events
      BY <1>7 DEF Push, In, PhaseOK
    <2>2. JobOK(j)
      BY <2>1, JobsOK DEF JobOK, Jobs, Phases
    <2>3. job' = [job EXCEPT ![r] = j]
      BY <1>7 DEF Push, TypeOK, Jobs
    <2> HIDE DEF j
    <2>4. job' \in [Requests -> Jobs] /\ PhaseOK'
      BY <2>2, <2>3, JobStep
    <2>5. wire' \in [Devices -> SUBSET Events]
      BY <1>7, <2>1 DEF Push, TypeOK
    <2> QED BY <1>7, <2>4, <2>5 DEF Push, TypeOK
  <1>8. ASSUME PushPanics(r)
        PROVE  TypeOK' /\ PhaseOK'
    BY <1>8, IdleTyped DEF PushPanics, TypeOK, PhaseOK, Idle, Jobs, Phases, Finished
  <1>9. ASSUME AppendEvent(r)
        PROVE  TypeOK' /\ PhaseOK'
    <2>1. job' \in [Requests -> Jobs] /\ PhaseOK'
      <3>1. ASSUME NEW e \in job[r].rest,
                   job' = [job EXCEPT ![r].phase = "push", ![r].cur = e, ![r].rest = @ \ {e}]
            PROVE  job' \in [Requests -> Jobs] /\ PhaseOK'
        <4>1. e \in Events /\ job[r].rest \ {e} \in SUBSET Events
          BY DEF TypeOK, Jobs
        <4> QED BY <3>1, <4>1, TellsOK
      <3>2. ASSUME job[r].left # {}, job' = [job EXCEPT ![r].phase = "save", ![r].cur = None]
            PROVE  job' \in [Requests -> Jobs] /\ PhaseOK'
        <4> DEFINE j == [job[r] EXCEPT !.phase = "save", !.cur = None]
        <4>1. JobOK(j)
          BY <3>2, JobsOK DEF JobOK, Jobs, Phases
        <4>2. job' = [job EXCEPT ![r] = j]
          BY <3>2 DEF TypeOK, Jobs
        <4> HIDE DEF j
        <4> QED BY <4>1, <4>2, JobStep
      <3> QED BY <1>9, <3>1, <3>2, EndsOK DEF AppendEvent, GoOn, Announceable
    <2> QED BY <1>9, <2>1 DEF AppendEvent, TypeOK, PhaseOK, In
  <1>10. ASSUME MarkDelivered(r) \/ MarkRead(r)
         PROVE  TypeOK' /\ PhaseOK'
    <2>1. row' \in [Ids -> Rows \cup {None}]
      <3>1. \A m \in Stored : m \in Ids /\ row[m] \in Rows
        BY <1>a DEF TypeOK, Stored, Ids
      <3>2. \A m \in Stored : /\ [row[m] EXCEPT !.delivered = TRUE] \in Rows
                             /\ [row[m] EXCEPT !.read = TRUE] \in Rows
        BY <3>1 DEF Rows
      <3>3. row \in [Ids -> Rows \cup {None}]
        BY DEF TypeOK
      <3>4. CASE MarkDelivered(r)
        BY <3>2, <3>3, <3>4 DEF MarkDelivered
      <3>5. CASE MarkRead(r)
        BY <3>2, <3>3, <3>5 DEF MarkRead
      <3> QED BY <1>10, <3>4, <3>5
    <2>2. PICK label \in {"markread", "load"} : job' = [job EXCEPT ![r].phase = label]
      BY <1>10 DEF MarkDelivered, MarkRead
    <2> DEFINE j == [job[r] EXCEPT !.phase = label]
    <2>3. JobOK(j)
      BY JobsOK DEF JobOK, Jobs, Phases
    <2>4. job' = [job EXCEPT ![r] = j]
      BY <2>2 DEF TypeOK, Jobs
    <2> HIDE DEF j
    <2>5. job' \in [Requests -> Jobs] /\ PhaseOK'
      BY <2>3, <2>4, JobStep
    <2> QED BY <1>10, <2>1, <2>5 DEF MarkDelivered, MarkRead, TypeOK
  <1>11. ASSUME MarkFails(r)
         PROVE  TypeOK' /\ PhaseOK'
    BY <1>11, IdleTyped DEF MarkFails, Fails, TypeOK, PhaseOK, Idle, Jobs, Phases, Finished
  <1>12. ASSUME LoadAcked(r)
         PROVE  TypeOK' /\ PhaseOK'
    <2>1. Receipts(r) \subseteq Events
      BY <1>a DEF Receipts, Receipt, Event, Events, EventKinds, Stored, TypeOK, Jobs, Rows, Ids
    <2>2. CASE Receipts(r) = {}
      BY <1>12, <2>2, EndsOK DEF LoadAcked, TypeOK
    <2>3. CASE Receipts(r) # {}
      <3>1. PICK e \in Receipts(r) :
              job' = [job EXCEPT ![r].phase = "push", ![r].cur = e, ![r].rest = Receipts(r) \ {e}]
        BY <1>12, <2>3 DEF LoadAcked
      <3>2. e \in Events /\ Receipts(r) \ {e} \in SUBSET Events
        BY <2>1
      <3>3. job' \in [Requests -> Jobs] /\ PhaseOK'
        BY <3>1, <3>2, TellsOK
      <3> QED BY <1>12, <3>3 DEF LoadAcked, TypeOK
    <2> QED BY <2>2, <2>3
  <1>13. ASSUME LoadFails(r)
         PROVE  TypeOK' /\ PhaseOK'
    BY <1>13, EndsOK DEF LoadFails, TypeOK
  <1> QED BY <1>1, <1>2, <1>3, <1>5, <1>6, <1>7, <1>8, <1>9, <1>10, <1>11, <1>12, <1>13 DEF Work

\* Clients, connections and restarts keep the kinds.
LEMMA TypeOfRest ==
  ASSUME TypeOK, PhaseOK
  PROVE  /\ \A d \in Devices : Fetch(d) \/ Disconnect(d) \/ ComeOrGo(d) => TypeOK' /\ PhaseOK'
         /\ \A d \in Devices : \A e \in wire[d] : Receive(d, e) => TypeOK' /\ PhaseOK'
         /\ Restart => TypeOK' /\ PhaseOK'
  <1>1. ASSUME NEW d \in Devices, Fetch(d)
        PROVE  TypeOK' /\ PhaseOK'
    <2>1. Page(d) \subseteq Ids
      BY DeliveryAssumption DEF DeliveryAssumption, Page, Pending, Stored, TypeOK, Ids
    <2> QED BY <1>1, <2>1 DEF Fetch, TypeOK, PhaseOK
  <1>2. ASSUME NEW d \in Devices, Disconnect(d) \/ ComeOrGo(d)
        PROVE  TypeOK' /\ PhaseOK'
    BY <1>2 DEF Disconnect, ComeOrGo, TypeOK, PhaseOK
  <1>3. ASSUME NEW d \in Devices, NEW e \in wire[d], Receive(d, e)
        PROVE  TypeOK' /\ PhaseOK'
    BY <1>3 DEF Receive, TypeOK, PhaseOK, Events
  <1>4. ASSUME Restart
        PROVE  TypeOK' /\ PhaseOK'
    BY <1>4, IdleTyped DEF Restart, TypeOK, PhaseOK, Idle, Jobs, Phases, Finished
  <1> QED BY <1>1, <1>2, <1>3, <1>4

\* Every step keeps the kinds of the variables and of the jobs.
LEMMA TypesStep ==
  ASSUME TypeOK, PhaseOK, [Next]_vars
  PROVE  TypeOK' /\ PhaseOK'
  <1>1. CASE Next
    BY <1>1, TypeOfCalls, TypeOfWork, TypeOfRest DEF Next
  <1>2. CASE UNCHANGED vars
    BY <1>2 DEF vars, TypeOK, PhaseOK
  <1> QED BY <1>1, <1>2

-----------------------------------------------------------------------------
(* The table. *)

\* What a step may do to the rows there are.
RowsGain ==
    \A m \in Stored :
        /\ m \in Stored' /\ row'[m].to = row[m].to /\ row'[m].from = row[m].from
        /\ row[m].delivered => row'[m].delivered
        /\ row[m].read => row'[m].read

\* A table that is not touched gains nothing and loses nothing.
LEMMA SameRows ==
  ASSUME UNCHANGED <<row, next>>
  PROVE  RowsGain /\ Stored' = Stored
  BY DEF RowsGain, Stored

\* What an insert stores is a row.
LEMMA RowTyped ==
  ASSUME NEW f \in Devices, NEW d \in Devices
  PROVE  Row(f, d) \in Rows
  BY DEF Row, Rows

\* The insert of one message.
LEMMA SaveRow ==
  ASSUME TypeOK, NEW f \in Devices, NEW d \in Devices, next <= MaxMsgs,
         row' = [row EXCEPT ![next] = Row(f, d)], next' = next + 1
  PROVE  /\ RowsGain
         /\ Stored' = Stored \cup {next}
         /\ next \in Ids \ Stored
         /\ row' = [row EXCEPT ![next] = Row(f, d)]
         /\ row'[next] = Row(f, d)
  <1>1. MaxMsgs \in Nat /\ None \notin Rows
    BY DeliveryAssumption DEF DeliveryAssumption
  <1>2. Row(f, d) # None
    BY <1>1, RowTyped
  <1>3. next \in Ids /\ row \in [Ids -> Rows \cup {None}] /\ next \in Nat
    BY <1>1 DEF TypeOK, Ids
  <1>4. \A m \in Ids \ {next} : row'[m] = row[m]
    BY <1>3
  <1>5. row'[next] = Row(f, d)
    BY <1>3
  <1>6. Stored \subseteq Ids \ {next}
    BY <1>1, <1>3 DEF Stored, Ids
  <1>7. Stored' = Stored \cup {next}
    BY <1>1, <1>2, <1>3, <1>4, <1>5 DEF Stored, Ids
  <1>8. RowsGain
    BY <1>4, <1>6, <1>7 DEF RowsGain
  <1> QED BY <1>3, <1>5, <1>6, <1>7, <1>8

\* The ids up to b are those up to a and those from there on.
LEMMA Ranges ==
  ASSUME NEW a \in Nat \ {0}, NEW b \in Nat \ {0}, a <= b, NEW m
  PROVE  m \in 1..b-1 <=> m \in 1..a-1 \/ m \in a..b-1
  OBVIOUS

\* The insert of a batch.
LEMMA BatchRows ==
  ASSUME TypeOK, PhaseOK, NEW r \in Requests, In(r, "gather"),
         NEW to \in Assignments(job[r].targets), StoreAll(r, to)
  PROVE  /\ RowsGain
         /\ Stored' = Stored \cup DOMAIN to
         /\ DOMAIN to \cap Stored = {}
         /\ DOMAIN to \subseteq Ids
         /\ \A m \in DOMAIN to : row'[m] = Row(job[r].dev, to[m]) /\ to[m] \in Devices
         /\ \A m \in Stored : row'[m] = row[m]
  <1>1. MaxMsgs \in Nat /\ None \notin Rows
    BY DeliveryAssumption DEF DeliveryAssumption
  <1>2. /\ DOMAIN to = next..next'-1
        /\ next' \in next..MaxMsgs + 1
        /\ DOMAIN to \subseteq Ids
        /\ \A m \in DOMAIN to : to[m] \in Devices
    BY NewIdsTyped
  <1>3. next \in 1..MaxMsgs + 1
    BY DEF TypeOK
  <1>4. \A m \in DOMAIN to : row'[m] = Row(job[r].dev, to[m])
    BY <1>2 DEF StoreAll
  <1>5. \A m \in DOMAIN to : row'[m] # None
    BY <1>1, <1>2, <1>4, RowTyped DEF PhaseOK, In
  <1>6. \A m \in Ids \ DOMAIN to : row'[m] = row[m]
    BY DEF StoreAll
  <1>7. Stored \subseteq Ids /\ DOMAIN to \cap Stored = {}
    BY <1>1, <1>2, <1>3 DEF Stored, Ids
  <1>8. ASSUME NEW m \in Ids
        PROVE  m \in Stored' <=> m \in Stored \cup DOMAIN to
    <2>1. CASE m \in DOMAIN to
      BY <1>1, <1>2, <1>3, <1>5, <2>1 DEF Stored
    <2>2. CASE m \notin DOMAIN to
      <3>a. m \notin next..next'-1
        BY <1>2, <2>2
      <3>b. next \in Nat \ {0} /\ next' \in Nat \ {0} /\ next <= next'
        BY <1>1, <1>2, <1>3
      <3>1. m \in 1..next'-1 <=> m \in 1..next-1
        BY <3>a, <3>b, Ranges
      <3>2. row'[m] = row[m]
        BY <1>6, <2>2
      <3> QED BY <2>2, <3>1, <3>2 DEF Stored
    <2> QED BY <2>1, <2>2
  <1>9. Stored' \subseteq Ids
    BY <1>1, <1>2, <1>3 DEF Stored, Ids
  <1>10. Stored' = Stored \cup DOMAIN to
    BY <1>2, <1>7, <1>8, <1>9
  <1>11. \A m \in Stored : row'[m] = row[m]
    BY <1>6, <1>7
  <1> QED BY <1>2, <1>4, <1>7, <1>10, <1>11 DEF RowsGain

\* The updates of an acknowledgement.
LEMMA MarkRows ==
  ASSUME TypeOK, NEW r \in Requests, MarkDelivered(r) \/ MarkRead(r)
  PROVE  /\ RowsGain
         /\ Stored' = Stored
         /\ MarkDelivered(r) =>
              \A m \in Stored : /\ row'[m].delivered = (row[m].delivered \/ m \in job[r].delivered)
                                 /\ row'[m].to = row[m].to
         /\ MarkRead(r) =>
              \A m \in Stored : /\ row'[m].delivered = row[m].delivered
                                 /\ row'[m].read = (row[m].read \/ m \in job[r].read)
                                 /\ row'[m].to = row[m].to
  <1>1. MaxMsgs \in Nat /\ None \notin Rows /\ next \in 1..MaxMsgs + 1
    BY DeliveryAssumption DEF DeliveryAssumption, TypeOK
  <1>2. \A m \in Stored : m \in Ids /\ row[m] \in Rows
    BY <1>1 DEF TypeOK, Stored, Ids
  <1>3. next' = next
    BY DEF MarkDelivered, MarkRead
  <1>4. \A m \in Ids \ Stored : row'[m] = row[m]
    BY DEF MarkDelivered, MarkRead
  <1>5. CASE MarkDelivered(r)
    <2>1. \A m \in Stored : row'[m] = IF m \in job[r].delivered
                                      THEN [row[m] EXCEPT !.delivered = TRUE] ELSE row[m]
      BY <1>2, <1>5 DEF MarkDelivered
    <2>2. \A m \in Stored : /\ row'[m] \in Rows
                            /\ row'[m].delivered = (row[m].delivered \/ m \in job[r].delivered)
                            /\ row'[m].read = row[m].read
                            /\ row'[m].to = row[m].to /\ row'[m].from = row[m].from
      BY <1>2, <2>1 DEF Rows
    <2>3. Stored' = Stored
      BY <1>1, <1>3, <1>4, <2>2 DEF Stored, Ids
    <2>4. ~MarkRead(r)
      BY <1>5 DEF MarkDelivered, MarkRead, In
    <2> QED BY <2>2, <2>3, <2>4 DEF RowsGain
  <1>6. CASE MarkRead(r)
    <2>1. \A m \in Stored : row'[m] = IF m \in job[r].read
                                      THEN [row[m] EXCEPT !.read = TRUE] ELSE row[m]
      BY <1>2, <1>6 DEF MarkRead
    <2>2. \A m \in Stored : /\ row'[m] \in Rows
                            /\ row'[m].delivered = row[m].delivered
                            /\ row'[m].read = (row[m].read \/ m \in job[r].read)
                            /\ row'[m].to = row[m].to /\ row'[m].from = row[m].from
      BY <1>2, <2>1 DEF Rows
    <2>3. Stored' = Stored
      BY <1>1, <1>3, <1>4, <2>2 DEF Stored, Ids
    <2>4. ~MarkDelivered(r)
      BY <1>6 DEF MarkDelivered, MarkRead, In
    <2> QED BY <2>2, <2>3, <2>4 DEF RowsGain
  <1> QED BY <1>5, <1>6

\* A statement that failed may have been committed.
LEMMA FailedRows ==
  ASSUME TypeOK, PhaseOK, NEW r \in Requests,
         (\E d \in Devices : SaveFails(r, d)) \/ GroupFails(r)
  PROVE  RowsGain
  <1>1. CASE UNCHANGED <<row, next>>
    BY <1>1, SameRows
  <1>2. ASSUME NEW d \in Devices, SaveFails(r, d), ~UNCHANGED <<row, next>>
        PROVE  RowsGain
    <2>1. job[r].dev \in Devices
      BY <1>2 DEF SaveFails, In, PhaseOK
    <2> QED BY <1>2, <2>1, SaveRow DEF SaveFails
  <1>3. ASSUME GroupFails(r), ~UNCHANGED <<row, next>>
        PROVE  RowsGain
    BY <1>3, BatchRows DEF GroupFails
  <1> QED BY <1>1, <1>2, <1>3

\* No step takes a row or a mark away.
LEMMA RowsStep ==
  ASSUME TypeOK, PhaseOK, [Next]_vars
  PROVE  RowsGain
  <1>1. CASE UNCHANGED <<row, next>>
    BY <1>1, SameRows
  <1>2. ASSUME NEW r \in Requests, Call(r)
        PROVE  UNCHANGED <<row, next>>
    BY <1>2 DEF Call, Send, Forward, SendGroup, Ack
  <1>3. ASSUME NEW r \in Requests, Work(r), ~UNCHANGED <<row, next>>
        PROVE  RowsGain
    <2>1. ASSUME NEW d \in Devices, Save(r, d)
          PROVE  RowsGain
      <3>1. job[r].dev \in Devices
        BY <2>1 DEF Save, In, PhaseOK
      <3> QED BY <2>1, <3>1, SaveRow DEF Save
    <2>2. ASSUME SaveMany(r)
          PROVE  RowsGain
      BY <2>2, BatchRows DEF SaveMany
    <2>3. CASE MarkDelivered(r) \/ MarkRead(r)
      BY <2>3, MarkRows
    <2>4. ~ \/ \E u \in Users : GatherMember(r, u)
            \/ Push(r) \/ PushPanics(r) \/ AppendEvent(r) \/ MarkFails(r)
            \/ LoadAcked(r) \/ LoadFails(r)
      BY <1>3 DEF GatherMember, Push, PushPanics, AppendEvent, MarkFails, LoadAcked, LoadFails
    <2> QED BY <1>3, <2>1, <2>2, <2>3, <2>4, FailedRows DEF Work
  <1>4. ASSUME Next, ~UNCHANGED <<row, next>>
        PROVE  \E r \in Requests : Work(r)
    BY <1>2, <1>4 DEF Next, Fetch, Disconnect, ComeOrGo, Receive, Restart
  <1> QED BY <1>1, <1>3, <1>4 DEF vars

-----------------------------------------------------------------------------
(* What events, clients and acknowledgements say of the table. *)

\* What an event says of the table stays true.
LEMMA HoldsOn ==
  ASSUME RowsGain, NEW e, Holds(e)
  PROVE  Holds(e)'
  BY DEF RowsGain, Holds

\* What a step may do to the jobs, to the wires, to the clients and to the log
\* for the facts to stay true.
JobsTell ==
    \A q \in Requests : AckOne(q)' /\ \A e \in ToTell(q)' : e \in ToTell(q) \/ Holds(e)'

WiresTell ==
    \A d \in Devices : \A e \in wire'[d] :
        e \in wire[d] \/ (e.dev = d /\ \E r \in Requests : e \in ToTell(r))

ClientsHear ==
    \A d \in Devices : \A m \in seen'[d] : m \in seen[d] \/ (m \in Stored /\ row[m].to = d)

LogTells == \A e \in log' : e \in log \/ \E r \in Requests : e \in ToTell(r)

\* Events, clients and acknowledgements go on telling what is so.
LEMMA FactsStep ==
  ASSUME EventsHold, SeenIsStored, RowsGain, JobsTell, WiresTell, ClientsHear, LogTells
  PROVE  EventsHold' /\ SeenIsStored' /\ AckOK'
  <1>1. ASSUME NEW d \in Devices, NEW e \in wire'[d]
        PROVE  Holds(e)' /\ e.dev = d
    BY HoldsOn DEF WiresTell, EventsHold
  <1>2. ASSUME NEW e \in log'
        PROVE  Holds(e)'
    BY HoldsOn DEF LogTells, EventsHold
  <1>3. ASSUME NEW r \in Requests, NEW e \in ToTell(r)'
        PROVE  Holds(e)'
    BY HoldsOn DEF JobsTell, EventsHold
  <1>4. SeenIsStored'
    BY DEF SeenIsStored, ClientsHear, RowsGain
  <1>5. AckOK'
    BY DEF AckOK, JobsTell
  <1> QED BY <1>1, <1>2, <1>3, <1>4, <1>5 DEF EventsHold

\* A request the step does not touch, and one that has nothing more to say.
LEMMA SameJob ==
  ASSUME RowsGain, AckOK, NEW q \in Requests, job'[q] = job[q]
  PROVE  AckOne(q)' /\ ToTell(q)' = ToTell(q)
  BY DEF AckOK, AckOne, ToTell, RowsGain

\* A request with nothing to announce or to mark tells nothing.
LEMMA QuietJob ==
  ASSUME NEW q \in Requests, job'[q].rest = {}, job'[q].phase \notin {"push", "append"},
         job'[q].delivered = {}, job'[q].read = {}
  PROVE  AckOne(q)' /\ ToTell(q)' = {}
  BY DEF AckOne, ToTell

\* A step of one request is a matter of what that request tells.
LEMMA OneJob ==
  ASSUME RowsGain, AckOK, NEW r \in Requests,
         \A q \in Requests \ {r} : job'[q] = job[q],
         AckOne(r)', \A e \in ToTell(r)' : e \in ToTell(r) \/ Holds(e)'
  PROVE  JobsTell
  BY SameJob DEF JobsTell

\* What is acknowledged stays so while the request goes on.
LEMMA AckKept ==
  ASSUME RowsGain, AckOK, NEW r \in Requests,
         job'[r].delivered = job[r].delivered, job'[r].read = job[r].read,
         job'[r].phase \notin {"markread", "load"}
  PROVE  AckOne(r)'
  BY DEF AckOK, AckOne, RowsGain

\* The event a request is about to push or append is one it tells.
LEMMA CurIsTold ==
  ASSUME PhaseOK, NEW r \in Requests, job[r].phase \in {"push", "append"}
  PROVE  job[r].cur \in ToTell(r)
  BY DEF PhaseOK, ToTell

\* A request that is replaced by one with nothing to announce or to mark.
Quiet(j) ==
    j.rest = {} /\ j.delivered = {} /\ j.read = {} /\ j.phase \notin {"push", "append"}

\* A request that has nothing to tell leaves the facts as they are.
LEMMA QuietStep ==
  ASSUME TypeOK, RowsGain, AckOK, NEW r \in Requests, NEW j, Quiet(j),
         job' = [job EXCEPT ![r] = j]
  PROVE  JobsTell
  <1>1. job'[r] = j /\ \A q \in Requests \ {r} : job'[q] = job[q]
    BY DEF TypeOK
  <1>2. AckOne(r)' /\ ToTell(r)' = {}
    BY <1>1, QuietJob DEF Quiet
  <1> QED BY <1>1, <1>2, OneJob

\* A request that returns, with or without error.
LEMMA ReturnTells ==
  ASSUME TypeOK, RowsGain, AckOK, NEW r \in Requests,
         Ends(r, "ok") \/ Fails(r) \/ job' = [job EXCEPT ![r] = [Idle EXCEPT !.phase = "dead"]]
  PROVE  JobsTell
  <1>1. CASE Ends(r, "ok")
    <2> DEFINE j == [Idle EXCEPT !.op = job[r].op, !.phase = "ok",
                                 !.targets = job[r].targets, !.mine = job[r].mine]
    <2>1. Quiet(j)
      BY DEF Quiet, Idle
    <2>2. job' = [job EXCEPT ![r] = j]
      BY <1>1 DEF Ends
    <2> HIDE DEF j
    <2> QED BY <2>1, <2>2, QuietStep
  <1>2. CASE Fails(r)
    <2>1. Quiet([Idle EXCEPT !.phase = "error"])
      BY DEF Quiet, Idle
    <2> QED BY <1>2, <2>1, QuietStep DEF Fails
  <1>3. CASE job' = [job EXCEPT ![r] = [Idle EXCEPT !.phase = "dead"]]
    <2>1. Quiet([Idle EXCEPT !.phase = "dead"])
      BY DEF Quiet, Idle
    <2> QED BY <1>3, <2>1, QuietStep
  <1> QED BY <1>1, <1>2, <1>3

\* A send or a forward begins with nothing to tell.
LEMMA SendToTells ==
  ASSUME TypeOK, RowsGain, AckOK, NEW r \in Requests, NEW op, NEW d, NEW u, SendTo(r, op, d, u)
  PROVE  JobsTell
  <1>1. CASE ActiveOf(u) = {}
    <2>1. Quiet([Idle EXCEPT !.phase = "error"])
      BY DEF Quiet, Idle
    <2>2. job' = [job EXCEPT ![r] = [Idle EXCEPT !.phase = "error"]]
      BY <1>1 DEF SendTo
    <2> QED BY <2>1, <2>2, QuietStep
  <1>2. CASE ActiveOf(u) # {}
    <2> DEFINE j == [Idle EXCEPT !.op = op, !.phase = "save", !.dev = d,
                                 !.targets = ActiveOf(u), !.left = ActiveOf(u)]
    <2>1. Quiet(j)
      BY DEF Quiet, Idle
    <2>2. job' = [job EXCEPT ![r] = j]
      BY <1>2 DEF SendTo
    <2> HIDE DEF j
    <2> QED BY <2>1, <2>2, QuietStep
  <1> QED BY <1>1, <1>2

\* So does every call of a client.
LEMMA CallTells ==
  ASSUME TypeOK, RowsGain, AckOK, SeenIsStored, NEW r \in Requests, Call(r)
  PROVE  JobsTell /\ WiresTell /\ ClientsHear /\ LogTells
  <1>1. WiresTell /\ ClientsHear /\ LogTells
    BY DEF Call, Send, Forward, SendGroup, Ack, WiresTell, ClientsHear, LogTells
  <1>2. ASSUME NEW d \in Devices, NEW members \in SUBSET Users, SendGroup(r, d, members)
        PROVE  JobsTell
    <2> DEFINE j == [Idle EXCEPT !.op = "group", !.phase = "gather", !.dev = d, !.members = members]
    <2>1. Quiet(j)
      BY DEF Quiet, Idle
    <2>2. job' = [job EXCEPT ![r] = j]
      BY <1>2 DEF SendGroup
    <2> HIDE DEF j
    <2> QED BY <2>1, <2>2, QuietStep
  <1>3. ASSUME NEW d \in Devices, NEW delivered \in SUBSET seen[d], NEW read \in SUBSET seen[d],
               Ack(r, d, delivered, read)
        PROVE  JobsTell
    <2>1. /\ job'[r].rest = {} /\ job'[r].phase = "mark"
          /\ job'[r].delivered = delivered /\ job'[r].read = read
      BY <1>3 DEF Ack, Idle, TypeOK
    <2>2. \A m \in delivered \cup read : m \in Stored' /\ row'[m].to = d
      BY DEF SeenIsStored, RowsGain
    <2>3. AckOne(r)' /\ ToTell(r)' = {}
      BY <2>1, <2>2 DEF AckOne, ToTell
    <2>4. \A q \in Requests \ {r} : job'[q] = job[q]
      BY <1>3 DEF Ack, TypeOK
    <2> QED BY <2>3, <2>4, OneJob
  <1> QED BY <1>1, <1>2, <1>3, SendToTells DEF Call, Send, Forward

\* The request and its events when a message has been saved.
LEMMA SaveTells ==
  ASSUME TypeOK, PhaseOK, RowsGain, AckOK, NEW r \in Requests, NEW d \in Devices, Save(r, d)
  PROVE  JobsTell
  <1>1. /\ job'[r].rest = job[r].rest /\ job'[r].phase \in {"push", "append"}
        /\ job'[r].delivered = job[r].delivered /\ job'[r].read = job[r].read
        /\ job'[r].cur = SavedEvent(r, next, d)
        /\ \A q \in Requests \ {r} : job'[q] = job[q]
    BY DEF Save, TypeOK, Jobs
  <1>2. next \in Stored' /\ row'[next] = Row(job[r].dev, d)
    BY SaveRow DEF Save, In, PhaseOK
  <1>3. ASSUME NEW e, e = SavedEvent(r, next, d)
        PROVE  Holds(e)'
    BY <1>2, <1>3 DEF SavedEvent, NewMessage, Event, Holds, NewKinds, Row
  <1>4. AckOne(r)'
    BY <1>1, AckKept
  <1>5. \A e \in ToTell(r)' : e \in ToTell(r) \/ Holds(e)'
    BY <1>1, <1>3 DEF ToTell
  <1> QED BY <1>1, <1>4, <1>5, OneJob

\* A batch that is stored is told row by row.
LEMMA SaveManyTells ==
  ASSUME TypeOK, PhaseOK, RowsGain, AckOK, NEW r \in Requests, SaveMany(r)
  PROVE  JobsTell
  <1>1. PICK to \in Assignments(job[r].targets) :
          /\ StoreAll(r, to)
          /\ IF job[r].targets = {}
             THEN Ends(r, "ok")
             ELSE \E first \in GroupEvents(to) :
                    job' = [job EXCEPT ![r].phase = "push", ![r].mine = DOMAIN to,
                                       ![r].cur = first, ![r].rest = GroupEvents(to) \ {first}]
    BY DEF SaveMany
  <1>a. StoreAll(r, to) /\ In(r, "gather")
    BY <1>1 DEF SaveMany
  <1>2. \A m \in DOMAIN to : m \in Stored' /\ row'[m] = Row(job[r].dev, to[m])
    BY <1>a, BatchRows
  <1>3. ASSUME NEW e \in GroupEvents(to)
        PROVE  Holds(e)'
    <2>1. PICK m \in DOMAIN to : e = NewMessage("group:message:new", m, to[m])
      BY DEF GroupEvents
    <2>2. e.msg = m /\ e.dev = to[m] /\ e.kind = "group:message:new"
      BY <2>1 DEF NewMessage, Event
    <2>a. m \in Stored' /\ row'[m] = Row(job[r].dev, to[m])
      BY <1>2, <2>1
    <2>b. Row(job[r].dev, to[m]).to = to[m]
      BY DEF Row
    <2>3. m \in Stored' /\ row'[m].to = to[m]
      BY <2>a, <2>b
    <2> QED BY <2>2, <2>3 DEF Holds, NewKinds
  <1>4. CASE job[r].targets = {}
    BY <1>1, <1>4, ReturnTells
  <1>5. CASE job[r].targets # {}
    <2>1. PICK first \in GroupEvents(to) :
            job' = [job EXCEPT ![r].phase = "push", ![r].mine = DOMAIN to,
                               ![r].cur = first, ![r].rest = GroupEvents(to) \ {first}]
      BY <1>1, <1>5
    <2>2. /\ job'[r].rest = GroupEvents(to) \ {first} /\ job'[r].cur = first
          /\ job'[r].phase = "push"
          /\ job'[r].delivered = job[r].delivered /\ job'[r].read = job[r].read
          /\ \A q \in Requests \ {r} : job'[q] = job[q]
      BY <2>1 DEF TypeOK, Jobs
    <2>3. AckOne(r)'
      BY <2>2, AckKept
    <2>4. \A e \in ToTell(r)' : e \in ToTell(r) \/ Holds(e)'
      BY <1>3, <2>2 DEF ToTell
    <2> QED BY <2>2, <2>3, <2>4, OneJob
  <1> QED BY <1>4, <1>5

\* A request that goes on to the next event, to the next device, or returns.
LEMMA GoOnTells ==
  ASSUME TypeOK, PhaseOK, RowsGain, AckOK, NEW r \in Requests, GoOn(r)
  PROVE  JobsTell
  <1>1. ASSUME NEW e \in job[r].rest,
               job' = [job EXCEPT ![r].phase = "push", ![r].cur = e, ![r].rest = @ \ {e}]
        PROVE  JobsTell
    <2>1. /\ job'[r].rest = job[r].rest \ {e} /\ job'[r].cur = e /\ job'[r].phase = "push"
          /\ job'[r].delivered = job[r].delivered /\ job'[r].read = job[r].read
          /\ \A q \in Requests \ {r} : job'[q] = job[q]
      BY <1>1 DEF TypeOK, Jobs
    <2>2. AckOne(r)'
      BY <2>1, AckKept
    <2>3. \A f \in ToTell(r)' : f \in ToTell(r)
      BY <2>1 DEF ToTell
    <2> QED BY <2>1, <2>2, <2>3, OneJob
  <1>2. ASSUME job' = [job EXCEPT ![r].phase = "save", ![r].cur = None]
        PROVE  JobsTell
    <2>1. /\ job'[r].rest = job[r].rest /\ job'[r].phase = "save"
          /\ job'[r].delivered = job[r].delivered /\ job'[r].read = job[r].read
          /\ \A q \in Requests \ {r} : job'[q] = job[q]
      BY <1>2 DEF TypeOK, Jobs
    <2>2. AckOne(r)'
      BY <2>1, AckKept
    <2>3. \A f \in ToTell(r)' : f \in ToTell(r)
      BY <2>1 DEF ToTell
    <2> QED BY <2>1, <2>2, <2>3, OneJob
  <1> QED BY <1>1, <1>2, ReturnTells DEF GoOn, Announceable

\* Both updates of an acknowledgement.
LEMMA MarkTells ==
  ASSUME TypeOK, PhaseOK, RowsGain, AckOK, NEW r \in Requests, MarkDelivered(r) \/ MarkRead(r)
  PROVE  JobsTell
  <1>1. /\ job'[r].rest = job[r].rest /\ job'[r].phase \in {"markread", "load"}
        /\ job'[r].delivered = job[r].delivered /\ job'[r].read = job[r].read
        /\ \A q \in Requests \ {r} : job'[q] = job[q]
    BY DEF MarkDelivered, MarkRead, TypeOK, Jobs
  <1>2. AckOne(r)
    BY DEF AckOK
  <1>3. \A m \in job[r].delivered \cup job[r].read :
          /\ m \in Stored'
          /\ \A n \in job[r].delivered \cup job[r].read : row'[m].to = row'[n].to
    BY <1>2 DEF AckOne, RowsGain
  <1>4. CASE MarkDelivered(r)
    <2>1. job'[r].phase = "markread"
      BY <1>4 DEF MarkDelivered, TypeOK, Jobs
    <2>2. \A m \in job[r].delivered : row'[m].delivered
      BY <1>2, <1>4, MarkRows DEF AckOne
    <2>3. AckOne(r)'
      BY <1>1, <1>3, <2>1, <2>2 DEF AckOne
    <2>4. \A e \in ToTell(r)' : e \in ToTell(r)
      BY <1>1, <2>1 DEF ToTell
    <2> QED BY <1>1, <2>3, <2>4, OneJob
  <1>5. CASE MarkRead(r)
    <2>1. job'[r].phase = "load" /\ job[r].phase = "markread"
      BY <1>5 DEF MarkRead, In, TypeOK, Jobs
    <2>2. \A m \in job[r].delivered : row'[m].delivered
      BY <1>2, <2>1 DEF AckOne, RowsGain
    <2>3. \A m \in job[r].read : row'[m].read
      BY <1>2, <1>5, MarkRows DEF AckOne
    <2>4. AckOne(r)'
      BY <1>1, <1>3, <2>1, <2>2, <2>3 DEF AckOne
    <2>5. \A e \in ToTell(r)' : e \in ToTell(r)
      BY <1>1, <2>1 DEF ToTell
    <2> QED BY <1>1, <2>4, <2>5, OneJob
  <1> QED BY <1>4, <1>5

\* The receipts of what was marked.
LEMMA LoadTells ==
  ASSUME TypeOK, PhaseOK, RowsGain, AckOK, NEW r \in Requests, LoadAcked(r)
  PROVE  JobsTell
  <1>1. CASE Receipts(r) = {}
    BY <1>1, ReturnTells DEF LoadAcked
  <1>2. CASE Receipts(r) # {}
    <2>1. PICK first \in Receipts(r) :
            job' = [job EXCEPT ![r].phase = "push", ![r].cur = first,
                               ![r].rest = Receipts(r) \ {first}]
      BY <1>2 DEF LoadAcked
    <2>2. /\ job'[r].rest = Receipts(r) \ {first} /\ job'[r].cur = first
          /\ job'[r].phase = "push"
          /\ job'[r].delivered = job[r].delivered /\ job'[r].read = job[r].read
          /\ \A q \in Requests \ {r} : job'[q] = job[q]
      BY <2>1 DEF TypeOK, Jobs
    <2>3. ASSUME NEW e \in Receipts(r)
          PROVE  Holds(e)
      <3>1. /\ \A m \in job[r].delivered : row[m].delivered
            /\ \A m \in job[r].read : row[m].read
        BY DEF LoadAcked, In, AckOK, AckOne
      <3>2. CASE \E m \in job[r].delivered \cap Stored : e = Receipt("message:delivered", m)
        BY <3>1, <3>2 DEF Receipt, Event, Holds, NewKinds
      <3>3. CASE \E m \in job[r].read \cap Stored : e = Receipt("message:read", m)
        BY <3>1, <3>3 DEF Receipt, Event, Holds, NewKinds
      <3> QED BY <3>2, <3>3 DEF Receipts
    <2>4. AckOne(r)'
      BY <2>2, AckKept
    <2>5. \A e \in ToTell(r)' : e \in ToTell(r) \/ Holds(e)'
      BY <2>2, <2>3, HoldsOn DEF ToTell
    <2> QED BY <2>2, <2>4, <2>5, OneJob
  <1> QED BY <1>1, <1>2

\* The steps of a request.
LEMMA WorkTells ==
  ASSUME TypeOK, PhaseOK, EventsHold, AckOK, RowsGain, NEW r \in Requests, Work(r)
  PROVE  JobsTell /\ WiresTell /\ ClientsHear /\ LogTells
  <1>1. ASSUME NEW d \in Devices, Save(r, d)
        PROVE  JobsTell /\ WiresTell /\ ClientsHear /\ LogTells
    BY <1>1, SaveTells DEF Save, WiresTell, ClientsHear, LogTells
  <1>2. ASSUME NEW d \in Devices, SaveFails(r, d)
        PROVE  JobsTell /\ WiresTell /\ ClientsHear /\ LogTells
    BY <1>2, ReturnTells DEF SaveFails, WiresTell, ClientsHear, LogTells
  <1>3. ASSUME NEW u \in Users, GatherMember(r, u)
        PROVE  JobsTell /\ WiresTell /\ ClientsHear /\ LogTells
    <2>1. /\ job'[r].rest = job[r].rest /\ job'[r].phase = "gather"
          /\ job'[r].delivered = job[r].delivered /\ job'[r].read = job[r].read
          /\ \A q \in Requests \ {r} : job'[q] = job[q]
      BY <1>3 DEF GatherMember, In, TypeOK, Jobs
    <2>2. AckOne(r)'
      BY <2>1, AckKept
    <2>3. \A e \in ToTell(r)' : e \in ToTell(r)
      BY <2>1 DEF ToTell
    <2>4. JobsTell
      BY <2>1, <2>2, <2>3, OneJob
    <2> QED BY <1>3, <2>4 DEF GatherMember, WiresTell, ClientsHear, LogTells
  <1>4. CASE SaveMany(r)
    BY <1>4, SaveManyTells DEF SaveMany, WiresTell, ClientsHear, LogTells
  <1>5. CASE GroupFails(r)
    BY <1>5, ReturnTells DEF GroupFails, WiresTell, ClientsHear, LogTells
  <1>6. CASE Push(r)
    <2>1. /\ job'[r].rest = job[r].rest /\ job'[r].cur = job[r].cur
          /\ job'[r].phase = "append" /\ job[r].phase = "push"
          /\ job'[r].delivered = job[r].delivered /\ job'[r].read = job[r].read
          /\ \A q \in Requests \ {r} : job'[q] = job[q]
      BY <1>6 DEF Push, In, TypeOK, Jobs
    <2>2. AckOne(r)'
      BY <2>1, AckKept
    <2>3. \A e \in ToTell(r)' : e \in ToTell(r)
      BY <2>1 DEF ToTell
    <2>4. JobsTell
      BY <2>1, <2>2, <2>3, OneJob
    <2>5. WiresTell
      <3>1. job[r].cur \in ToTell(r)
        BY <2>1, CurIsTold
      <3>2. ASSUME NEW d \in Devices, NEW e \in wire'[d], e \notin wire[d]
            PROVE  e = job[r].cur /\ e.dev = d
        BY <1>6, <3>2 DEF Push, TypeOK
      <3> QED BY <3>1, <3>2 DEF WiresTell
    <2> QED BY <1>6, <2>4, <2>5 DEF Push, ClientsHear, LogTells
  <1>7. CASE PushPanics(r)
    BY <1>7, ReturnTells DEF PushPanics, WiresTell, ClientsHear, LogTells
  <1>8. CASE AppendEvent(r)
    <2>1. job[r].cur \in ToTell(r)
      BY <1>8, CurIsTold DEF AppendEvent, In
    <2>2. LogTells
      BY <1>8, <2>1 DEF AppendEvent, LogTells
    <2>3. JobsTell
      BY <1>8, GoOnTells DEF AppendEvent
    <2> QED BY <1>8, <2>2, <2>3 DEF AppendEvent, WiresTell, ClientsHear
  <1>9. CASE MarkDelivered(r) \/ MarkRead(r)
    BY <1>9, MarkTells DEF MarkDelivered, MarkRead, WiresTell, ClientsHear, LogTells
  <1>10. CASE MarkFails(r)
    BY <1>10, ReturnTells DEF MarkFails, WiresTell, ClientsHear, LogTells
  <1>11. CASE LoadAcked(r)
    BY <1>11, LoadTells DEF LoadAcked, WiresTell, ClientsHear, LogTells
  <1>12. CASE LoadFails(r)
    BY <1>12, ReturnTells DEF LoadFails, WiresTell, ClientsHear, LogTells
  <1> QED BY <1>1, <1>2, <1>3, <1>4, <1>5, <1>6, <1>7, <1>8, <1>9, <1>10, <1>11, <1>12 DEF Work

\* The steps of clients, connections and the server.
LEMMA RestTells ==
  ASSUME TypeOK, EventsHold, AckOK, RowsGain,
         \/ \E d \in Devices : Fetch(d) \/ Disconnect(d) \/ ComeOrGo(d)
         \/ \E d \in Devices : \E e \in wire[d] : Receive(d, e)
         \/ Restart
         \/ UNCHANGED vars
  PROVE  JobsTell /\ WiresTell /\ ClientsHear /\ LogTells
  <1>1. ASSUME UNCHANGED job
        PROVE  JobsTell
    BY <1>1, SameJob DEF JobsTell
  <1>2. ASSUME NEW d \in Devices, Fetch(d)
        PROVE  JobsTell /\ WiresTell /\ ClientsHear /\ LogTells
    <2>1. ClientsHear
      <3>1. \A m \in Page(d) : m \in Stored /\ row[m].to = d
        BY DEF Page, Pending
      <3> QED BY <1>2, <3>1 DEF Fetch, ClientsHear, TypeOK
    <2> QED BY <1>1, <1>2, <2>1 DEF Fetch, WiresTell, LogTells
  <1>3. ASSUME NEW d \in Devices, Disconnect(d) \/ ComeOrGo(d)
        PROVE  JobsTell /\ WiresTell /\ ClientsHear /\ LogTells
    BY <1>1, <1>3 DEF Disconnect, ComeOrGo, WiresTell, ClientsHear, LogTells, TypeOK
  <1>4. ASSUME NEW d \in Devices, NEW e \in wire[d], Receive(d, e)
        PROVE  JobsTell /\ WiresTell /\ ClientsHear /\ LogTells
    <2>1. e.kind \in NewKinds => e.msg \in Stored /\ row[e.msg].to = d
      BY DEF EventsHold, Holds
    <2>2. ClientsHear
      BY <1>4, <2>1 DEF Receive, NewKinds, ClientsHear, TypeOK
    <2>3. WiresTell
      BY <1>4 DEF Receive, WiresTell, TypeOK
    <2> QED BY <1>1, <1>4, <2>2, <2>3 DEF Receive, LogTells
  <1>5. CASE Restart
    <2>1. ASSUME NEW q \in Requests
          PROVE  AckOne(q)' /\ ToTell(q)' \subseteq ToTell(q)
      <3>1. CASE job[q].phase \in Finished
        BY <1>5, <3>1, SameJob DEF Restart
      <3>2. CASE job[q].phase \notin Finished
        <4>1. job'[q] = [Idle EXCEPT !.phase = "dead"]
          BY <1>5, <3>2 DEF Restart
        <4>2. Quiet([Idle EXCEPT !.phase = "dead"])
          BY DEF Quiet, Idle
        <4> QED BY <4>1, <4>2, QuietJob DEF Quiet
      <3> QED BY <3>1, <3>2
    <2>2. JobsTell
      BY <2>1 DEF JobsTell
    <2> QED BY <1>5, <2>2 DEF Restart, WiresTell, ClientsHear, LogTells
  <1>6. CASE UNCHANGED vars
    BY <1>1, <1>6 DEF vars, WiresTell, ClientsHear, LogTells
  <1> QED BY <1>2, <1>3, <1>4, <1>5, <1>6

-----------------------------------------------------------------------------
(* The invariant is inductive. *)

\* The invariant holds before the first request.
LEMMA IInvInit ==
  ASSUME Init
  PROVE  IInv
  <1>1. TypeOK
    BY IdleTyped, DeliveryAssumption DEF Init, TypeOK, DeliveryAssumption, Ids
  <1>2. PhaseOK
    BY DEF Init, PhaseOK, Idle
  <1>3. EventsHold
    BY DEF Init, EventsHold, ToTell, Idle
  <1>4. SeenIsStored /\ AckOK
    BY DEF Init, SeenIsStored, AckOK, AckOne, Idle
  <1> QED BY <1>1, <1>2, <1>3, <1>4 DEF IInv

\* Every step keeps the invariant.
LEMMA IInvStep ==
  ASSUME IInv, [Next]_vars
  PROVE  IInv'
  <1>1. TypeOK /\ PhaseOK /\ EventsHold /\ SeenIsStored /\ AckOK
    BY DEF IInv
  <1>2. TypeOK' /\ PhaseOK'
    BY <1>1, TypesStep
  <1>3. RowsGain
    BY <1>1, RowsStep
  <1>4. JobsTell /\ WiresTell /\ ClientsHear /\ LogTells
    BY <1>1, <1>3, CallTells, WorkTells, RestTells DEF Next
  <1>5. EventsHold' /\ SeenIsStored' /\ AckOK'
    BY <1>1, <1>3, <1>4, FactsStep
  <1> QED BY <1>2, <1>5 DEF IInv

\* The invariant holds for ever.
LEMMA Inductive == Spec => []IInv
  BY IInvInit, IInvStep, PTL DEF Spec

\* Every variable keeps its type whatever requests overlap, fail or are cut
\* off by a restart.
THEOREM StateIsTyped == Spec => []TypeOK
  <1>1. IInv => TypeOK
    BY DEF IInv
  <1> QED BY Inductive, <1>1, PTL

\* No client holds, and no event announces, a message that is not stored for
\* the device it went to (service.go:218-247, 544-569).
THEOREM NothingUnstoredIsHeard == Spec => []HeardIsStored
  <1>1. ASSUME IInv
        PROVE  HeardIsStored
    <2>1. ASSUME NEW d \in Devices, NEW m \in Heard(d)
          PROVE  m \in Stored /\ row[m].to = d
      <3>1. CASE m \in seen[d]
        BY <1>1, <3>1 DEF IInv, SeenIsStored
      <3>2. CASE m \notin seen[d]
        <4>1. PICK e \in wire[d] : e.kind \in NewKinds /\ m = e.msg
          BY <3>2, <2>1 DEF Heard, NewKinds
        <4> QED BY <1>1, <4>1 DEF IInv, EventsHold, Holds
      <3> QED BY <3>1, <3>2
    <2>2. \A e \in log : e.msg \in Stored
      BY <1>1 DEF IInv, EventsHold, Holds
    <2> QED BY <2>1, <2>2 DEF HeardIsStored
  <1> QED BY Inductive, <1>1, PTL

\* A receipt on the wire or in the log tells of a mark that is in the table,
\* however many requests acknowledge the same message (service.go:337-439).
THEOREM ReceiptsAreTrue == Spec => []ReceiptIsTrue
  <1>1. ASSUME IInv
        PROVE  ReceiptIsTrue
    <2>1. \A e \in log : Holds(e)
      BY <1>1 DEF IInv, EventsHold
    <2>2. \A d \in Devices : \A e \in wire[d] : Holds(e)
      BY <1>1 DEF IInv, EventsHold
    <2> QED BY <2>1, <2>2 DEF ReceiptIsTrue, Holds
  <1> QED BY Inductive, <1>1, PTL

\* No step takes a mark back, gives a row to another device or removes it
\* (message_repo_pg.go:170-191).
THEOREM TableOnlyGains == Spec => RowsOnlyGain
  <1>1. ASSUME IInv, [Next]_vars
        PROVE  RowsGain
    BY <1>1, RowsStep DEF IInv
  <1>2. IInv /\ [Next]_vars => [RowsGain]_vars
    BY <1>1
  <1>3. Spec => [][RowsGain]_vars
    BY Inductive, <1>2, PTL DEF Spec
  <1> QED BY <1>3 DEF RowsOnlyGain, RowsGain

-----------------------------------------------------------------------------
(* The table is a mailbox for each device. *)

Acked(d) == {m \in Stored : row[m].to = d /\ row[m].delivered}

\* A table that keeps its marks is the mailbox it was.
LEMMA MailStutters ==
  ASSUME Stored' = Stored,
         \A m \in Stored : row'[m].to = row[m].to /\ row'[m].delivered = row[m].delivered
  PROVE  UNCHANGED Mail!vars
  <1>1. \A d \in Devices : Pending(d)' = Pending(d) /\ Acked(d)' = Acked(d)
    BY DEF Pending, Acked
  <1> QED BY <1>1 DEF Mail!vars, Acked

\* New rows are put into the mailboxes of the devices they are for.
LEMMA MailPuts ==
  ASSUME NEW new, Stored' = Stored \cup new, new \cap Stored = {}, Stored' \subseteq Ids,
         \A m \in Stored : row'[m] = row[m],
         \A m \in new : row'[m].delivered = FALSE
  PROVE  Mail!Put
  <1> DEFINE box == [d \in Devices |-> Pending(d)]
             done == [d \in Devices |-> Acked(d)]
  <1>1. \A d \in Devices : Acked(d)' = Acked(d)
    BY DEF Acked
  <1>2. \A d \in Devices : Pending(d)' = Pending(d) \cup {m \in new : row'[m].to = d}
    BY DEF Pending
  <1>3. \A d \in Devices : Pending(d) \subseteq Stored /\ Acked(d) \subseteq Stored
    BY DEF Pending, Acked
  <1>4. \A d, e \in Devices : d # e => Pending(d)' \cap Pending(e)' = {}
    BY DEF Pending
  <1>5. box' \in [Devices -> SUBSET Ids]
    BY DEF Pending
  <1>6. UNION {box[d] \cup done[d] : d \in Devices} \subseteq Stored
    BY <1>3
  <1>7. \A d \in Devices : box[d] \subseteq box'[d] /\ (box'[d] \ box[d]) \cap Stored = {}
    BY <1>2
  <1>8. \A d, e \in Devices : d # e => box'[d] \cap box'[e] = {}
    BY <1>4
  <1>9. done' = done
    BY <1>1
  <1> QED BY <1>5, <1>6, <1>7, <1>8, <1>9 DEF Mail!Put, Mail!Used, Acked

\* An acknowledgement takes messages out of the mailbox of one device.
LEMMA MailTakes ==
  ASSUME NEW d \in Devices, NEW ms, Stored' = Stored,
         \A m \in ms \cap Stored : row[m].to = d,
         \A m \in Stored : row[m].delivered \in BOOLEAN,
         \A m \in Stored : /\ row'[m].delivered = (row[m].delivered \/ m \in ms)
                           /\ row'[m].to = row[m].to
  PROVE  Mail!Take(d)
  <1> DEFINE box == [e \in Devices |-> Pending(e)]
             done == [e \in Devices |-> Acked(e)]
             taken == Pending(d) \cap ms
  <1>1. Pending(d)' = Pending(d) \ taken /\ Acked(d)' = Acked(d) \cup taken
    BY DEF Pending, Acked
  <1>2. ASSUME NEW e \in Devices \ {d}
        PROVE  Pending(e)' = Pending(e) /\ Acked(e)' = Acked(e)
    <2>1. \A m \in Stored : row[m].to = e => m \notin ms
      OBVIOUS
    <2>2. \A m \in Stored : row[m].to = e => (row'[m].delivered = row[m].delivered)
      BY <2>1
    <2> QED BY <2>2 DEF Pending, Acked
  <1>3. box' = [box EXCEPT ![d] = @ \ taken]
    BY <1>1, <1>2
  <1>4. done' = [done EXCEPT ![d] = @ \cup taken]
    BY <1>1, <1>2
  <1>5. taken \in SUBSET box[d]
    OBVIOUS
  <1> HIDE DEF taken
  <1> QED BY <1>3, <1>4, <1>5 DEF Mail!Take, Acked

\* Every step puts into mailboxes, takes from one, or leaves them.
LEMMA MailStep ==
  ASSUME IInv, [Next]_vars
  PROVE  [Mail!Next]_(Mail!vars)
  <1>1. TypeOK /\ PhaseOK /\ AckOK /\ TypeOK'
    BY IInvStep DEF IInv
  <1>2. Stored' \subseteq Ids
    BY <1>1, DeliveryAssumption DEF DeliveryAssumption, TypeOK, Stored, Ids
  <1>3. CASE UNCHANGED <<row, next>>
    BY <1>3, SameRows, MailStutters
  <1>4. ASSUME NEW f \in Devices, NEW d \in Devices, next <= MaxMsgs,
               row' = [row EXCEPT ![next] = Row(f, d)], next' = next + 1
        PROVE  Mail!Put
    <2>1. /\ Stored' = Stored \cup {next} /\ next \in Ids \ Stored
          /\ row'[next] = Row(f, d)
      BY <1>1, <1>4, SaveRow
    <2>2. \A m \in Stored : row'[m] = row[m]
      BY <1>1, <1>2, <1>4, <2>1 DEF TypeOK
    <2>3. \A m \in {next} : row'[m].delivered = FALSE
      BY <2>1 DEF Row
    <2>4. {next} \cap Stored = {}
      BY <2>1
    <2> QED BY <1>2, <2>1, <2>2, <2>3, <2>4, MailPuts
  <1>5. ASSUME NEW r \in Requests, In(r, "gather"),
               NEW to \in Assignments(job[r].targets), StoreAll(r, to)
        PROVE  Mail!Put
    <2>1. /\ Stored' = Stored \cup DOMAIN to
          /\ DOMAIN to \cap Stored = {}
          /\ \A m \in DOMAIN to : row'[m] = Row(job[r].dev, to[m])
          /\ \A m \in Stored : row'[m] = row[m]
      BY <1>1, <1>5, BatchRows
    <2>2. ASSUME NEW m \in DOMAIN to
          PROVE  row'[m].delivered = FALSE
      <3>1. row'[m] = Row(job[r].dev, to[m])
        BY <2>1
      <3>2. Row(job[r].dev, to[m]).delivered = FALSE
        BY DEF Row
      <3> QED BY <3>1, <3>2
    <2> QED BY <1>2, <2>1, <2>2, MailPuts
  <1>6. ASSUME NEW r \in Requests, MarkDelivered(r)
        PROVE  (\E d \in Devices : Mail!Take(d)) \/ UNCHANGED Mail!vars
    <2>1. /\ Stored' = Stored
          /\ \A m \in Stored : /\ row'[m].delivered = (row[m].delivered \/ m \in job[r].delivered)
                                /\ row'[m].to = row[m].to
      BY <1>1, <1>6, MarkRows
    <2>2. AckOne(r)
      BY <1>1 DEF AckOK
    <2>a. \A m \in Stored : row[m] \in Rows
      BY <1>1, DeliveryAssumption DEF DeliveryAssumption, TypeOK, Stored, Ids
    <2>b. \A m \in Stored : row[m].delivered \in BOOLEAN /\ row[m].to \in Devices
      BY <2>a DEF Rows
    <2>3. CASE job[r].delivered = {}
      BY <2>1, <2>3, <2>b, MailStutters
    <2>4. CASE job[r].delivered # {}
      <3>1. PICK n \in job[r].delivered : TRUE
        BY <2>4
      <3>2. n \in Stored /\ \A m \in job[r].delivered : row[m].to = row[n].to
        BY <2>2, <3>1 DEF AckOne
      <3>3. PICK d \in Devices : d = row[n].to
        BY <2>b, <3>2
      <3>4. \A m \in job[r].delivered \cap Stored : row[m].to = d
        BY <3>2, <3>3
      <3>5. Mail!Take(d)
        BY <2>1, <2>b, <3>4, MailTakes
      <3> QED BY <3>5
    <2> QED BY <2>3, <2>4
  <1>7. ASSUME NEW r \in Requests, MarkRead(r)
        PROVE  UNCHANGED Mail!vars
    BY <1>1, <1>7, MarkRows, MailStutters
  <1>8. ASSUME NEW r \in Requests, Work(r), ~UNCHANGED <<row, next>>
        PROVE  Mail!Next \/ UNCHANGED Mail!vars
    <2>1. ASSUME NEW d \in Devices, Save(r, d) \/ SaveFails(r, d)
          PROVE  Mail!Put
      <3>1. job[r].dev \in Devices
        BY <1>1, <2>1 DEF Save, SaveFails, In, PhaseOK
      <3> QED BY <1>4, <1>8, <2>1, <3>1 DEF Save, SaveFails
    <2>2. ASSUME SaveMany(r) \/ GroupFails(r)
          PROVE  Mail!Put
      BY <1>5, <1>8, <2>2 DEF SaveMany, GroupFails
    <2>3. ~ \/ \E u \in Users : GatherMember(r, u)
            \/ Push(r) \/ PushPanics(r) \/ AppendEvent(r) \/ MarkFails(r)
            \/ LoadAcked(r) \/ LoadFails(r)
      BY <1>8 DEF GatherMember, Push, PushPanics, AppendEvent, MarkFails, LoadAcked, LoadFails
    <2> QED BY <1>6, <1>7, <1>8, <2>1, <2>2, <2>3 DEF Work, Mail!Next
  <1>9. ASSUME NEW r \in Requests, Call(r)
        PROVE  UNCHANGED <<row, next>>
    BY <1>9 DEF Call, Send, Forward, SendGroup, Ack
  <1>10. ASSUME Next, ~UNCHANGED <<row, next>>
         PROVE  \E r \in Requests : Work(r)
    BY <1>9, <1>10 DEF Next, Fetch, Disconnect, ComeOrGo, Receive, Restart
  <1> QED BY <1>3, <1>8, <1>10 DEF vars

\* What waits for a device is a mailbox: a message enters one mailbox once,
\* leaves it only when its device acknowledges it, and never comes back.
THEOREM MailboxImplemented == Spec => ImplementsMailbox
  <1>1. ASSUME Init
        PROVE  Mail!Init
    <2>1. Stored = {}
      BY <1>1 DEF Init, Stored
    <2> QED BY <2>1 DEF Mail!Init, Pending
  <1>2. IInv /\ [Next]_vars => [Mail!Next]_(Mail!vars)
    BY MailStep
  <1> QED BY Inductive, <1>1, <1>2, PTL DEF Spec, ImplementsMailbox, Mail!Spec

-----------------------------------------------------------------------------
(* Who got an answer without error has its rows. *)

\* A request that has no device left has a row of its own for every device.
Owns(r) ==
    /\ job[r].mine \subseteq 1..next - 1
    /\ job[r].phase # "gather" =>
         \A d \in job[r].targets \ job[r].left :
            \E m \in job[r].mine : m \in Stored /\ row[m].to = d
    /\ job[r].phase \in {"mark", "markread", "load", "ok"} => job[r].left = {}

OwnOK ==
    \A r \in Requests : Owns(r) /\ \A q \in Requests \ {r} : job[q].mine \cap job[r].mine = {}

\* Ids are only given out.
LEMMA NextGrows ==
  ASSUME IInv, [Next]_vars
  PROVE  next \in Nat /\ next' \in Nat /\ next <= next'
  <1>1. TypeOK /\ TypeOK' /\ MaxMsgs \in Nat
    BY IInvStep, DeliveryAssumption DEF IInv, DeliveryAssumption
  <1>2. next \in Nat /\ next' \in Nat
    BY <1>1 DEF TypeOK
  <1>3. ASSUME NEW r \in Requests, NEW to \in Assignments(job[r].targets), StoreAll(r, to)
        PROVE  next <= next'
    BY <1>1, <1>2, <1>3, NewIdsTyped
  <1>4. ASSUME NEW r \in Requests, Work(r)
        PROVE  next <= next'
    <2>1. ASSUME SaveMany(r) \/ GroupFails(r)
          PROVE  next <= next'
      <3>1. (\E to \in Assignments(job[r].targets) : StoreAll(r, to)) \/ next' = next
        BY <2>1 DEF SaveMany, GroupFails
      <3>2. CASE next' = next
        BY <1>2, <3>2
      <3> QED BY <1>3, <3>1, <3>2
    <2>2. ASSUME NEW d \in Devices, Save(r, d) \/ SaveFails(r, d)
          PROVE  next <= next'
      BY <1>2, <2>2 DEF Save, SaveFails
    <2>3. CASE next' = next
      BY <1>2, <2>3
    <2> QED BY <1>4, <2>1, <2>2, <2>3
          DEF Work, GatherMember, Push, PushPanics, AppendEvent, MarkDelivered, MarkRead,
              MarkFails, LoadAcked, LoadFails
  <1>5. CASE next' = next
    BY <1>2, <1>5
  <1> QED BY <1>2, <1>4, <1>5
        DEF Next, vars, Call, Send, Forward, SendGroup, Ack, Fetch, Disconnect, ComeOrGo,
            Receive, Restart

\* Requests that got no new id, and one that did.
LEMMA NoneOwnsMore ==
  ASSUME OwnOK, \A q \in Requests : Owns(q)' /\ job'[q].mine \subseteq job[q].mine
  PROVE  OwnOK'
  BY DEF OwnOK

\* A request that does not move owns what it owned.
LEMMA SameOwns ==
  ASSUME OwnOK, RowsGain, next \in Nat, next' \in Nat, next <= next',
         NEW q \in Requests, job'[q] = job[q]
  PROVE  Owns(q)'
  BY DEF OwnOK, Owns, RowsGain

\* The ids drawn so far and those drawn next have none in common.
LEMMA Apart ==
  ASSUME NEW a \in Nat, NEW b \in Nat
  PROVE  \A m \in 1..a - 1 : m \notin a..b - 1
  OBVIOUS

\* Ids drawn from a on are among those up to b.
LEMMA Above ==
  ASSUME NEW n, NEW a \in 1..n, NEW b \in Nat
  PROVE  a..b - 1 \subseteq 1..b - 1
  OBVIOUS

\* A step of one request is a matter of what it comes to own: new ids only.
LEMMA OneOwns ==
  ASSUME OwnOK, RowsGain, next \in Nat, next' \in Nat, next <= next', NEW r \in Requests,
         \A q \in Requests \ {r} : job'[q] = job[q],
         Owns(r)', job'[r].mine \subseteq job[r].mine \cup (next..next'-1)
  PROVE  OwnOK'
  <1>1. \A q \in Requests \ {r} : Owns(q)'
    BY SameOwns
  <1>2. \A q \in Requests : job[q].mine \subseteq 1..next - 1
    BY DEF OwnOK, Owns
  <1>3. \A m \in 1..next - 1 : m \notin next..next' - 1
    BY Apart
  <1>4. ASSUME NEW q \in Requests, NEW p \in Requests \ {q}
        PROVE  job'[p].mine \cap job'[q].mine = {}
    <2>1. job[p].mine \cap job[q].mine = {}
      BY DEF OwnOK
    <2>2. CASE q = r
      BY <1>2, <1>3, <2>1, <2>2
    <2>3. CASE p = r
      BY <1>2, <1>3, <2>1, <2>3
    <2>4. CASE p # r /\ q # r
      BY <2>1, <2>4
    <2> QED BY <2>2, <2>3, <2>4
  <1> QED BY <1>1, <1>4 DEF OwnOK

\* A request that stored nothing owns nothing.
LEMMA EmptyOwns ==
  ASSUME NEW r \in Requests, job'[r].mine = {}, job'[r].targets = {}, job'[r].left = {}
  PROVE  Owns(r)'
  BY DEF Owns

\* A request that only moves on.
LEMMA MoveOwns ==
  ASSUME OwnOK, RowsGain, next \in Nat, next' \in Nat, next <= next', NEW r \in Requests,
         \A q \in Requests \ {r} : job'[q] = job[q],
         job'[r].mine = job[r].mine, job'[r].targets = job[r].targets,
         job'[r].phase = "gather" \/ job[r].phase # "gather" \/ job[r].targets = {},
         job'[r].left = job[r].left \/ (job[r].left = {} /\ job'[r].left = {}),
         job'[r].phase \in {"mark", "markread", "load", "ok"} => job'[r].left = {}
  PROVE  OwnOK'
  <1>1. Owns(r)
    BY DEF OwnOK
  <1>2. Owns(r)'
    BY <1>1 DEF Owns, RowsGain
  <1> QED BY <1>2, OneOwns

\* A request that begins, fails or is cut off.
LEMMA EmptyStep ==
  ASSUME TypeOK, OwnOK, RowsGain, next \in Nat, next' \in Nat, next <= next',
         NEW r \in Requests, NEW j, job' = [job EXCEPT ![r] = j],
         j.mine = {}, j.targets = {}, j.left = {}
  PROVE  OwnOK'
  <1>1. job'[r] = j /\ \A q \in Requests \ {r} : job'[q] = job[q]
    BY DEF TypeOK
  <1>2. Owns(r)'
    BY <1>1, EmptyOwns
  <1> QED BY <1>1, <1>2, OneOwns

\* A request that failed or was cut off owns nothing any more.
LEMMA FailOwns ==
  ASSUME TypeOK, OwnOK, RowsGain, next \in Nat, next' \in Nat, next <= next',
         NEW r \in Requests,
         Fails(r) \/ job' = [job EXCEPT ![r] = [Idle EXCEPT !.phase = "dead"]]
  PROVE  OwnOK'
  <1>1. PICK label \in {"error", "dead"} : job' = [job EXCEPT ![r] = [Idle EXCEPT !.phase = label]]
    BY DEF Fails
  <1> DEFINE j == [Idle EXCEPT !.phase = label]
  <1>2. j.mine = {} /\ j.targets = {} /\ j.left = {}
    BY DEF Idle
  <1>3. job' = [job EXCEPT ![r] = j]
    BY <1>1
  <1> HIDE DEF j
  <1> QED BY <1>2, <1>3, EmptyStep

\* A request that returns has no device left.
LEMMA EndOwns ==
  ASSUME TypeOK, OwnOK, RowsGain, next \in Nat, next' \in Nat, next <= next',
         NEW r \in Requests, Ends(r, "ok"), job[r].phase # "gather" \/ job[r].targets = {},
         job[r].left = {} \/ job[r].targets = {}
  PROVE  OwnOK'
  <1> DEFINE j == [Idle EXCEPT !.op = job[r].op, !.phase = "ok",
                               !.targets = job[r].targets, !.mine = job[r].mine]
  <1>1. j.mine = job[r].mine /\ j.targets = job[r].targets /\ j.left = {} /\ j.phase = "ok"
    BY DEF Idle
  <1>2. job' = [job EXCEPT ![r] = j]
    BY DEF Ends
  <1>3. job'[r] = j /\ \A q \in Requests \ {r} : job'[q] = job[q]
    BY <1>2 DEF TypeOK
  <1> HIDE DEF j
  <1>4. Owns(r)
    BY DEF OwnOK
  <1>5. Owns(r)'
    BY <1>1, <1>3, <1>4 DEF Owns, RowsGain
  <1> QED BY <1>1, <1>3, <1>5, OneOwns

\* A call of a client begins without rows of its own.
LEMMA CallOwns ==
  ASSUME TypeOK, OwnOK, RowsGain, next \in Nat, next' \in Nat, next <= next',
         NEW r \in Requests, Call(r)
  PROVE  OwnOK'
  <1>1. ASSUME NEW op, NEW d, NEW u, SendTo(r, op, d, u)
        PROVE  OwnOK'
    <2>1. CASE ActiveOf(u) = {}
      <3>1. Fails(r)
        BY <1>1, <2>1 DEF SendTo, Fails
      <3> QED BY <3>1, FailOwns
    <2>2. CASE ActiveOf(u) # {}
      <3> DEFINE j == [Idle EXCEPT !.op = op, !.phase = "save", !.dev = d,
                                   !.targets = ActiveOf(u), !.left = ActiveOf(u)]
      <3>1. j.mine = {} /\ j.targets = j.left /\ j.phase = "save"
        BY DEF Idle
      <3>2. job' = [job EXCEPT ![r] = j]
        BY <1>1, <2>2 DEF SendTo
      <3>3. job'[r] = j /\ \A q \in Requests \ {r} : job'[q] = job[q]
        BY <3>2 DEF TypeOK
      <3> HIDE DEF j
      <3>4. Owns(r)'
        BY <3>1, <3>3 DEF Owns
      <3> QED BY <3>1, <3>3, <3>4, OneOwns
    <2> QED BY <2>1, <2>2
  <1>2. ASSUME NEW d \in Devices, NEW members \in SUBSET Users, SendGroup(r, d, members)
        PROVE  OwnOK'
    <2> DEFINE j == [Idle EXCEPT !.op = "group", !.phase = "gather", !.dev = d, !.members = members]
    <2>1. j.mine = {} /\ j.targets = {} /\ j.left = {}
      BY DEF Idle
    <2>2. job' = [job EXCEPT ![r] = j]
      BY <1>2 DEF SendGroup
    <2> HIDE DEF j
    <2> QED BY <2>1, <2>2, EmptyStep
  <1>3. ASSUME NEW d \in Devices, NEW delivered \in SUBSET seen[d], NEW read \in SUBSET seen[d],
               Ack(r, d, delivered, read)
        PROVE  OwnOK'
    <2> DEFINE j == [Idle EXCEPT !.op = "ack", !.phase = "mark",
                                 !.delivered = delivered, !.read = read]
    <2>1. j.mine = {} /\ j.targets = {} /\ j.left = {}
      BY DEF Idle
    <2>2. job' = [job EXCEPT ![r] = j]
      BY <1>3 DEF Ack
    <2> HIDE DEF j
    <2> QED BY <2>1, <2>2, EmptyStep
  <1> QED BY <1>1, <1>2, <1>3 DEF Call, Send, Forward

\* The insert for one device gives the request its row.
LEMMA SaveOwns ==
  ASSUME TypeOK, PhaseOK, OwnOK, RowsGain, next \in Nat, next' \in Nat, next <= next',
         NEW r \in Requests, NEW d \in Devices, Save(r, d)
  PROVE  OwnOK'
  <1>1. /\ job'[r].mine = job[r].mine \cup {next} /\ job'[r].left = job[r].left \ {d}
        /\ job'[r].targets = job[r].targets /\ job'[r].phase \in {"push", "append"}
        /\ job[r].phase = "save"
        /\ \A q \in Requests \ {r} : job'[q] = job[q]
    BY DEF Save, In, TypeOK, Jobs
  <1>2. next' = next + 1
    BY DEF Save
  <1>3. next \in Stored' /\ row'[next] = Row(job[r].dev, d)
    BY SaveRow DEF Save, In, PhaseOK
  <1>4. row'[next].to = d
    BY <1>3 DEF Row
  <1>5. Owns(r)
    BY DEF OwnOK
  <1>6. job'[r].mine \subseteq 1..next' - 1 /\ next \in next..next'-1
    <2>1. job[r].mine \subseteq 1..next - 1
      BY <1>5 DEF Owns
    <2>2. next \in 1..MaxMsgs + 1
      BY DEF TypeOK
    <2>3. next \in 1..next /\ 1..next - 1 \subseteq 1..next /\ next' - 1 = next /\ next \in next..next
      BY <1>2, <2>2, DeliveryAssumption DEF DeliveryAssumption
    <2> QED BY <1>1, <2>1, <2>3
  <1>7. ASSUME NEW e \in job'[r].targets \ job'[r].left
        PROVE  \E m \in job'[r].mine : m \in Stored' /\ row'[m].to = e
    <2>1. CASE e = d
      BY <1>1, <1>3, <1>4, <2>1
    <2>2. CASE e # d
      BY <1>1, <1>5, <2>2 DEF Owns, RowsGain
    <2> QED BY <2>1, <2>2
  <1>8. Owns(r)'
    BY <1>1, <1>6, <1>7 DEF Owns
  <1> QED BY <1>1, <1>6, <1>8, OneOwns

\* The batch gives the request a row for every device it gathered.
LEMMA SaveManyOwns ==
  ASSUME TypeOK, PhaseOK, OwnOK, RowsGain, next \in Nat, next' \in Nat, next <= next',
         NEW r \in Requests, SaveMany(r)
  PROVE  OwnOK'
  <1>1. PICK to \in Assignments(job[r].targets) :
          /\ StoreAll(r, to)
          /\ IF job[r].targets = {}
             THEN Ends(r, "ok")
             ELSE \E first \in GroupEvents(to) :
                    job' = [job EXCEPT ![r].phase = "push", ![r].mine = DOMAIN to,
                                       ![r].cur = first, ![r].rest = GroupEvents(to) \ {first}]
    BY DEF SaveMany
  <1>2. CASE job[r].targets = {}
    BY <1>1, <1>2, EndOwns
  <1>3. CASE job[r].targets # {}
    <2>1. PICK first \in GroupEvents(to) :
            job' = [job EXCEPT ![r].phase = "push", ![r].mine = DOMAIN to,
                               ![r].cur = first, ![r].rest = GroupEvents(to) \ {first}]
      BY <1>1, <1>3
    <2>2. /\ job'[r].mine = DOMAIN to /\ job'[r].targets = job[r].targets
          /\ job'[r].left = job[r].left /\ job'[r].phase = "push"
          /\ \A q \in Requests \ {r} : job'[q] = job[q]
      BY <2>1 DEF TypeOK, Jobs
    <2>3. StoreAll(r, to) /\ In(r, "gather")
      BY <1>1 DEF SaveMany
    <2>4. \A m \in DOMAIN to : m \in Stored' /\ row'[m] = Row(job[r].dev, to[m])
      BY <2>3, BatchRows
    <2>5. DOMAIN to = next..next' - 1
      BY <2>3, NewIdsTyped
    <2>6. DOMAIN to \subseteq 1..next' - 1
      <3>1. next \in 1..MaxMsgs + 1
        BY DEF TypeOK
      <3>2. next..next' - 1 \subseteq 1..next' - 1
        BY <3>1, Above
      <3> QED BY <2>5, <3>2
    <2>7. ASSUME NEW d \in job[r].targets
          PROVE  \E m \in DOMAIN to : m \in Stored' /\ row'[m].to = d
      <3>1. PICK m \in DOMAIN to : to[m] = d
        BY DEF Assignments
      <3>2. m \in Stored' /\ row'[m] = Row(job[r].dev, to[m])
        BY <2>4, <3>1
      <3>3. Row(job[r].dev, to[m]).to = d
        BY <3>1 DEF Row
      <3> QED BY <3>1, <3>2, <3>3
    <2>8. Owns(r)'
      BY <2>2, <2>6, <2>7 DEF Owns
    <2> QED BY <2>2, <2>5, <2>8, OneOwns
  <1> QED BY <1>2, <1>3

\* The loop goes on, or ends with no device left.
LEMMA GoOnOwns ==
  ASSUME TypeOK, OwnOK, RowsGain, next \in Nat, next' \in Nat, next <= next',
         NEW r \in Requests, In(r, "append"), GoOn(r)
  PROVE  OwnOK'
  <1>1. ASSUME NEW e, NEW label \in {"push", "save"}, NEW rest,
               \/ job' = [job EXCEPT ![r].phase = label, ![r].cur = e, ![r].rest = rest]
               \/ job' = [job EXCEPT ![r].phase = label, ![r].cur = e]
        PROVE  OwnOK'
    <2>1. /\ job'[r].mine = job[r].mine /\ job'[r].targets = job[r].targets
          /\ job'[r].left = job[r].left /\ job'[r].phase = label
          /\ \A q \in Requests \ {r} : job'[q] = job[q]
      BY <1>1 DEF TypeOK, Jobs
    <2> QED BY <2>1, MoveOwns DEF In
  <1>2. CASE job[r].rest # {}
    <2>1. PICK e \in Announceable(r) :
            job' = [job EXCEPT ![r].phase = "push", ![r].cur = e, ![r].rest = @ \ {e}]
      BY <1>2 DEF GoOn
    <2>2. job' = [job EXCEPT ![r].phase = "push", ![r].cur = e, ![r].rest = job[r].rest \ {e}]
      BY <2>1 DEF TypeOK
    <2> QED BY <1>1, <2>2
  <1>3. CASE job[r].rest = {} /\ job[r].left # {}
    BY <1>1, <1>3 DEF GoOn
  <1>4. CASE job[r].rest = {} /\ job[r].left = {}
    BY <1>4, EndOwns DEF GoOn, In
  <1> QED BY <1>2, <1>3, <1>4

\* A step of the work of a request keeps what requests own apart.
LEMMA WorkOwns ==
  ASSUME TypeOK, PhaseOK, OwnOK, RowsGain, next \in Nat, next' \in Nat, next <= next',
         NEW r \in Requests, Work(r)
  PROVE  OwnOK'
  <1>a. Owns(r)
    BY DEF OwnOK
  <1>1. ASSUME NEW u \in Users, GatherMember(r, u)
        PROVE  OwnOK'
    <2>1. /\ job'[r].mine = job[r].mine /\ job'[r].left = job[r].left /\ job'[r].phase = "gather"
          /\ \A q \in Requests \ {r} : job'[q] = job[q]
      BY <1>1 DEF GatherMember, In, TypeOK, Jobs
    <2>2. Owns(r)'
      BY <1>a, <2>1 DEF Owns
    <2> QED BY <2>1, <2>2, OneOwns
  <1>2. ASSUME NEW label \in {"append", "markread", "load"},
               job[r].phase \in {"push", "mark", "markread"},
               label = "append" <=> job[r].phase = "push",
               job' = [job EXCEPT ![r].phase = label]
        PROVE  OwnOK'
    <2>1. /\ job'[r].mine = job[r].mine /\ job'[r].targets = job[r].targets
          /\ job'[r].left = job[r].left /\ job'[r].phase = label
          /\ \A q \in Requests \ {r} : job'[q] = job[q]
      BY <1>2 DEF TypeOK, Jobs
    <2>2. label # "append" => job[r].left = {}
      BY <1>a, <1>2 DEF Owns
    <2> QED BY <1>2, <2>1, <2>2, MoveOwns
  <1>3. CASE Push(r)
    BY <1>2, <1>3 DEF Push, In
  <1>4. CASE MarkDelivered(r) \/ MarkRead(r)
    BY <1>2, <1>4 DEF MarkDelivered, MarkRead, In
  <1>5. CASE LoadAcked(r)
    <2>1. job[r].phase = "load" /\ job[r].left = {}
      BY <1>a, <1>5 DEF LoadAcked, In, Owns
    <2>2. CASE Ends(r, "ok")
      BY <2>1, <2>2, EndOwns
    <2>3. CASE ~Ends(r, "ok")
      <3>1. PICK e \in Receipts(r) :
              job' = [job EXCEPT ![r].phase = "push", ![r].cur = e, ![r].rest = Receipts(r) \ {e}]
        BY <1>5, <2>3 DEF LoadAcked
      <3>2. /\ job'[r].mine = job[r].mine /\ job'[r].targets = job[r].targets
            /\ job'[r].left = job[r].left /\ job'[r].phase = "push"
            /\ \A q \in Requests \ {r} : job'[q] = job[q]
        BY <3>1 DEF TypeOK, Jobs
      <3> QED BY <2>1, <3>2, MoveOwns
    <2> QED BY <2>2, <2>3
  <1>6. CASE LoadFails(r)
    <2>1. job[r].phase = "load" /\ job[r].left = {}
      BY <1>a, <1>6 DEF LoadFails, In, Owns
    <2> QED BY <1>6, <2>1, EndOwns DEF LoadFails
  <1>7. CASE AppendEvent(r)
    BY <1>7, GoOnOwns DEF AppendEvent
  <1>8. CASE (\E d \in Devices : SaveFails(r, d)) \/ GroupFails(r) \/ PushPanics(r) \/ MarkFails(r)
    BY <1>8, FailOwns DEF SaveFails, GroupFails, PushPanics, MarkFails
  <1> QED BY <1>1, <1>3, <1>4, <1>5, <1>6, <1>7, <1>8, SaveOwns, SaveManyOwns DEF Work

\* Every step keeps what requests own apart.
LEMMA OwnStep ==
  ASSUME IInv, OwnOK, [Next]_vars
  PROVE  OwnOK'
  <1>1. /\ TypeOK /\ PhaseOK
        /\ next \in Nat /\ next' \in Nat /\ next <= next'
    BY NextGrows DEF IInv
  <1>2. RowsGain
    BY <1>1, RowsStep
  <1>3. ASSUME NEW q \in Requests, job'[q] = job[q]
        PROVE  Owns(q)'
    BY <1>1, <1>2, <1>3, SameOwns
  <1>4. CASE UNCHANGED job
    BY <1>3, <1>4, NoneOwnsMore
  <1>5. CASE Restart
    <2>1. ASSUME NEW q \in Requests
          PROVE  Owns(q)' /\ job'[q].mine \subseteq job[q].mine
      <3>1. CASE job[q].phase \in Finished
        BY <1>3, <1>5, <3>1 DEF Restart
      <3>2. CASE job[q].phase \notin Finished
        <4>1. job'[q] = [Idle EXCEPT !.phase = "dead"]
          BY <1>5, <3>2 DEF Restart
        <4>2. job'[q].mine = {} /\ job'[q].targets = {} /\ job'[q].left = {}
          BY <4>1 DEF Idle
        <4> QED BY <4>2, EmptyOwns
      <3> QED BY <3>1, <3>2
    <2> QED BY <2>1, NoneOwnsMore
  <1>6. ASSUME NEW r \in Requests, Call(r) \/ Work(r)
        PROVE  OwnOK'
    BY <1>1, <1>2, <1>6, CallOwns, WorkOwns
  <1> QED BY <1>4, <1>5, <1>6 DEF Next, vars, Fetch, Disconnect, ComeOrGo, Receive

\* A sender that got an answer without error has a row of its own for every
\* device the recipients had (service.go:167-247, 499-546).
THEOREM SuccessMeansStored == Spec => []OkMeansStored
  <1>1. Init => OwnOK
    BY DEF Init, OwnOK, Owns, Idle
  <1>2. IInv /\ OwnOK /\ [Next]_vars => OwnOK'
    BY OwnStep
  <1>3. ASSUME OwnOK
        PROVE  OkMeansStored
    BY <1>3 DEF OwnOK, Owns, OkMeansStored, In
  <1> QED BY Inductive, <1>1, <1>2, <1>3, PTL DEF Spec

=============================================================================
