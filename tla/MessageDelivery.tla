---------------------------- MODULE MessageDelivery ----------------------------
(****************************************************************************)
(* The way of an encrypted message from a send request to the device it is  *)
(* for: app/messages/service.go over the messages table                     *)
(* (adapters/postgres/message_repo_pg.go), the realtime push and the sync   *)
(* log.  A request is a goroutine; every database statement, push and       *)
(* append of it is one step, any of which can fail, so that requests        *)
(* interleave and stop half-way.                                            *)
(*                                                                          *)
(* Abstractions: a message is its id, and ids are numbered in the order of  *)
(* created_at; content, media, quotes and the mime policy are left out (a   *)
(* request they reject changes nothing).  The sync log is the set of events *)
(* in it, its order is the subject of SyncLog; a push is queued, dropped or *)
(* panics, as DeliveryHub explains.                                         *)
(****************************************************************************)
EXTENDS Naturals, FiniteSets

CONSTANTS
    Requests,   \* slots for the requests in progress
    Devices, Users,
    UserOf,     \* the user a device belongs to
    MaxMsgs,    \* bound: ids given out
    PageSize,   \* largest number of messages one fetch returns (500)
    Ops,        \* the operations clients use
    Routes,     \* which device writes to which user other than its own
    Guests,     \* devices that are registered and deactivated meanwhile
    Online,     \* devices with a connection to the hub now and then
    Faults,     \* whether the database fails, pushes panic, the server restarts
    None

Ids == 1..MaxMsgs
Rows == [from : Devices, to : Devices, delivered : BOOLEAN, read : BOOLEAN]

ASSUME DeliveryAssumption ==
    /\ UserOf \in [Devices -> Users]
    /\ MaxMsgs \in Nat
    /\ PageSize \in Nat \ {0}
    /\ Routes \subseteq Devices \X Users
    /\ Guests \subseteq Devices
    /\ Online \subseteq Devices
    /\ IsFiniteSet(Devices)
    /\ None \notin Users \cup Devices \cup Rows
    /\ Faults \in BOOLEAN

VARIABLES
    row,        \* the messages table: the row of each id, or None
    next,       \* the next id
    status,     \* each device: not yet registered, active, or deactivated
    wire,       \* events queued for or on the socket of each device
    seen,       \* messages each client has received, by push or fetch
    log,        \* events in the sync log
    job         \* what each request is doing

vars == <<row, next, status, wire, seen, log, job>>

-----------------------------------------------------------------------------
(* Rows, events and requests. *)

Row(from, to) == [from |-> from, to |-> to, delivered |-> FALSE, read |-> FALSE]

Stored == {m \in 1..next - 1 : row[m] # None}

\* An event about message m: pushed to one device, or to none, and appended
\* to the log of one user.
Event(kind, m, dev, user) == [kind |-> kind, msg |-> m, dev |-> dev, user |-> user]

EventKinds == {"message:new", "group:message:new", "message:forwarded",
               "message:delivered", "message:read"}

NewMessage(kind, m, d) == Event(kind, m, d, UserOf[d])
Receipt(kind, m) == Event(kind, m, row[m].from, UserOf[row[m].from])

Finished == {"idle", "ok", "error", "dead"}
Phases == Finished \cup {"gather", "save", "mark", "markread", "load", "push", "append"}

\* A request: its operation and caller, the devices it is for and those it
\* still has to save for, the ids it stored, the event it is announcing and
\* those it still has to, the members still to look up, and what it marks.
Idle == [op |-> None, phase |-> "idle", dev |-> None, targets |-> {}, left |-> {},
         mine |-> {}, cur |-> None, rest |-> {}, members |-> {},
         delivered |-> {}, read |-> {}]

Init ==
    /\ row = [m \in Ids |-> None]
    /\ next = 1
    /\ status = [d \in Devices |-> IF d \in Guests THEN "new" ELSE "active"]
    /\ wire = [d \in Devices |-> {}]
    /\ seen = [d \in Devices |-> {}]
    /\ log = {}
    /\ job = [r \in Requests |-> Idle]

In(r, phase) == job[r].phase = phase

\* A slot takes a new request once the last one is finished.
Free(r, op) == op \in Ops /\ job[r].phase \in Finished

\* Bound on the ids: a request that needs n is begun only while all that were
\* begun can still get theirs.
Claims == {c \in Requests \X Devices :
              \/ c[2] \in job[c[1]].left
              \/ In(c[1], "gather") /\ (c[2] \in job[c[1]].targets \/ UserOf[c[2]] \in job[c[1]].members)}
Room(users) ==
    next - 1 + Cardinality(Claims) + Cardinality({d \in Devices : UserOf[d] \in users}) <= MaxMsgs

\* The request keeps the phase it was in as its result.
EndsUnnamed(r, result) ==
    job' = [job EXCEPT ![r] = [Idle EXCEPT !.op = job[r].op, !.phase = "finished"]]

\* The request returns; what a sender was told of is kept for the properties.
Ends(r, result) ==
    job' = [job EXCEPT ![r] = [Idle EXCEPT !.op = job[r].op, !.phase = result,
                                           !.targets = job[r].targets, !.mine = job[r].mine]]
Fails(r) == job' = [job EXCEPT ![r] = [Idle EXCEPT !.phase = "error"]]

-----------------------------------------------------------------------------
(* Sending. *)

Active == {d \in Devices : status[d] = "active"}
ActiveOf(u) == {d \in Active : UserOf[d] = u}

\* The loop over the recipient's devices is entered with at least one of them.
SendTo(r, op, d, u) ==
    job' = [job EXCEPT ![r] = IF ActiveOf(u) = {}
                              THEN [Idle EXCEPT !.phase = "error"]
                              ELSE [Idle EXCEPT !.op = op, !.phase = "save", !.dev = d,
                                                !.targets = ActiveOf(u), !.left = ActiveOf(u)]]

Send(r, d, u) ==
    /\ Free(r, "send") /\ Room({u})
    /\ d \in Active /\ <<d, u>> \in Routes
    /\ SendTo(r, "send", d, u)
    /\ UNCHANGED <<row, next, status, wire, seen, log>>

\* ForwardToUser loads the message first, then does as Send does.
Forward(r, d, m, u) ==
    /\ Free(r, "forward") /\ Room({u})
    /\ d \in Active /\ <<d, u>> \in Routes
    /\ m \in seen[d] \cap Stored
    /\ SendTo(r, "forward", d, u)
    /\ UNCHANGED <<row, next, status, wire, seen, log>>

\* What is announced of a saved message: a forward tells the actor only.
SavedEvent(r, m, d) ==
    IF job[r].op = "forward"
    THEN Event("message:forwarded", m, None, UserOf[job[r].dev])
    ELSE NewMessage("message:new", m, d)

\* Faulty variants, here and below, show that the properties notice them: the
\* message is announced although it was not stored.
SaveUnchecked(r, d) ==
    /\ In(r, "save")
    /\ d \in job[r].left
    /\ next <= MaxMsgs
    /\ next' = next + 1
    /\ job' = [job EXCEPT ![r].left = @ \ {d},
                          ![r].mine = @ \cup {next},
                          ![r].cur = SavedEvent(r, next, d),
                          ![r].phase = IF job[r].op = "forward" THEN "append" ELSE "push"]
    /\ UNCHANGED <<row, status, wire, seen, log>>

\* The loop body up to Save, for one device.
Save(r, d) ==
    /\ In(r, "save")
    /\ d \in job[r].left
    /\ next <= MaxMsgs
    /\ row' = [row EXCEPT ![next] = Row(job[r].dev, d)]
    /\ next' = next + 1
    /\ job' = [job EXCEPT ![r].left = @ \ {d},
                          ![r].mine = @ \cup {next},
                          ![r].cur = SavedEvent(r, next, d),
                          ![r].phase = IF job[r].op = "forward" THEN "append" ELSE "push"]
    /\ UNCHANGED <<status, wire, seen, log>>

\* An error for one device is taken for a device without one.
SaveFailsSilently(r, d) ==
    /\ Faults
    /\ In(r, "save")
    /\ d \in job[r].left
    /\ Ends(r, "ok")
    /\ UNCHANGED <<row, next, status, wire, seen, log>>

\* Save returns an error and so does the request, what it saved for other
\* devices stays. The statement may still have been committed.
SaveFails(r, d) ==
    /\ Faults
    /\ In(r, "save")
    /\ d \in job[r].left
    /\ \/ UNCHANGED <<row, next>>
       \/ /\ next <= MaxMsgs
          /\ row' = [row EXCEPT ![next] = Row(job[r].dev, d)]
          /\ next' = next + 1
    /\ Fails(r)
    /\ UNCHANGED <<status, wire, seen, log>>

\* SendGroupMessage gets the members from the caller and loads the active
\* devices of one after the other.
SendGroup(r, d, members) ==
    /\ Free(r, "group") /\ Room(members)
    /\ d \in Active /\ UserOf[d] \in members
    /\ \A u \in members \ {UserOf[d]} : <<d, u>> \in Routes
    /\ job' = [job EXCEPT ![r] = [Idle EXCEPT !.op = "group", !.phase = "gather",
                                              !.dev = d, !.members = members]]
    /\ UNCHANGED <<row, next, status, wire, seen, log>>

GatherMember(r, u) ==
    /\ In(r, "gather")
    /\ u \in job[r].members
    /\ job' = [job EXCEPT ![r].members = @ \ {u}, ![r].targets = @ \cup ActiveOf(u)]
    /\ UNCHANGED <<row, next, status, wire, seen, log>>

\* SaveMany sends one batch, which the database commits as a whole: a new
\* row for every device gathered.
NewIds(n) == next..next + n - 1

Assignments(targets) ==
    {to \in [NewIds(Cardinality(targets)) -> targets] :
        \A d \in targets : \E m \in DOMAIN to : to[m] = d}

\* The batch is not one transaction: what comes before an error stays, and the
\* error is not noticed.
StoreSome(r, to) ==
    /\ next + Cardinality(job[r].targets) - 1 <= MaxMsgs
    /\ \E stored \in SUBSET DOMAIN to :
         row' = [m \in Ids |-> IF m \in stored THEN Row(job[r].dev, to[m]) ELSE row[m]]
    /\ next' = next + Cardinality(job[r].targets)

StoreAll(r, to) ==
    /\ next + Cardinality(job[r].targets) - 1 <= MaxMsgs
    /\ row' = [m \in Ids |-> IF m \in DOMAIN to THEN Row(job[r].dev, to[m]) ELSE row[m]]
    /\ next' = next + Cardinality(job[r].targets)

GroupEvents(to) == {NewMessage("group:message:new", m, to[m]) : m \in DOMAIN to}

SaveMany(r) ==
    /\ In(r, "gather")
    /\ job[r].members = {}
    /\ \E to \in Assignments(job[r].targets) :
        /\ StoreAll(r, to)
        /\ IF job[r].targets = {}
           THEN Ends(r, "ok")
           ELSE \E first \in GroupEvents(to) :
                  job' = [job EXCEPT ![r].phase = "push", ![r].mine = DOMAIN to,
                                     ![r].cur = first, ![r].rest = GroupEvents(to) \ {first}]
    /\ UNCHANGED <<status, wire, seen, log>>

\* A member's devices cannot be loaded, or the batch fails: nothing is saved,
\* unless the error hides a commit.
GroupFails(r) ==
    /\ Faults
    /\ In(r, "gather")
    /\ \/ UNCHANGED <<row, next>>
       \/ /\ job[r].members = {}
          /\ \E to \in Assignments(job[r].targets) : StoreAll(r, to)
    /\ Fails(r)
    /\ UNCHANGED <<status, wire, seen, log>>

-----------------------------------------------------------------------------
(* Announcing: the push to a device, then the sync log. *)

Push(r) ==
    /\ In(r, "push")
    /\ \/ /\ job[r].cur.dev \in Online
          /\ wire' = [wire EXCEPT ![job[r].cur.dev] = @ \cup {job[r].cur}]
       \/ UNCHANGED wire
    /\ job' = [job EXCEPT ![r].phase = "append"]
    /\ UNCHANGED <<row, next, status, seen, log>>

\* The hub sends on a channel that is being torn down.
PushPanics(r) ==
    /\ Faults
    /\ In(r, "push")
    /\ job' = [job EXCEPT ![r] = [Idle EXCEPT !.phase = "dead"]]
    /\ UNCHANGED <<row, next, status, wire, seen, log>>

\* Receipts of one message go out in order: delivered, then read.
Announceable(r) ==
    {e \in job[r].rest :
        e.kind = "message:read" =>
            \A f \in job[r].rest : f.msg = e.msg => f.kind # "message:delivered"}

\* The loop goes on with the next event or device, or the request is done.
GoOn(r) ==
    IF job[r].rest # {}
    THEN \E e \in Announceable(r) :
            job' = [job EXCEPT ![r].phase = "push", ![r].cur = e, ![r].rest = @ \ {e}]
    ELSE IF job[r].left # {}
         THEN job' = [job EXCEPT ![r].phase = "save", ![r].cur = None]
         ELSE Ends(r, "ok")

\* An error of Append is logged only.
AppendEvent(r) ==
    /\ In(r, "append")
    /\ \/ log' = log \cup {job[r].cur}
       \/ Faults /\ UNCHANGED log
    /\ GoOn(r)
    /\ UNCHANGED <<row, next, status, wire, seen>>

-----------------------------------------------------------------------------
(* Receiving and acknowledging. *)

Pending(d) == {m \in Stored : row[m].to = d /\ ~row[m].delivered}

\* The page is too short by one.
PageOffByOne(d) == {m \in Pending(d) : Cardinality({n \in Pending(d) : n < m}) < PageSize - 1}

\* The PageSize oldest: those with fewer than PageSize older ones.
Page(d) == {m \in Pending(d) : Cardinality({n \in Pending(d) : n < m}) < PageSize}

\* FetchPending, from the initial sync of a connection or over HTTP.
Fetch(d) ==
    /\ "fetch" \in Ops
    /\ seen' = [seen EXCEPT ![d] = @ \cup Page(d)]
    /\ UNCHANGED <<row, next, status, wire, log, job>>

\* A queued event arrives, or is lost with the connection.
Receive(d, e) ==
    /\ e \in wire[d]
    /\ wire' = [wire EXCEPT ![d] = @ \ {e}]
    /\ seen' = [seen EXCEPT ![d] = IF e.kind \in {"message:new", "group:message:new"}
                                   THEN @ \cup {e.msg} ELSE @]
    /\ UNCHANGED <<row, next, status, log, job>>

Disconnect(d) ==
    /\ wire[d] # {}
    /\ wire' = [wire EXCEPT ![d] = {}]
    /\ UNCHANGED <<row, next, status, seen, log, job>>

\* A client acknowledges messages it has received, as often as it likes.
Ack(r, d, delivered, read) ==
    /\ Free(r, "ack")
    /\ delivered \cup read \subseteq seen[d]
    /\ delivered \cup read # {}
    /\ job' = [job EXCEPT ![r] = [Idle EXCEPT !.op = "ack", !.phase = "mark",
                                              !.delivered = delivered, !.read = read]]
    /\ UNCHANGED <<row, next, status, wire, seen, log>>

\* The update sets the columns it does not name to their defaults.
MarkDeliveredResetting(r) ==
    /\ In(r, "mark")
    /\ row' = [m \in Ids |-> IF m \in job[r].delivered \cap Stored
                             THEN [row[m] EXCEPT !.delivered = TRUE, !.read = FALSE] ELSE row[m]]
    /\ job' = [job EXCEPT ![r].phase = "markread"]
    /\ UNCHANGED <<next, status, wire, seen, log>>

\* The mark is set or taken back.
MarkDeliveredToggling(r) ==
    /\ In(r, "mark")
    /\ row' = [m \in Ids |-> IF m \in job[r].delivered \cap Stored
                             THEN [row[m] EXCEPT !.delivered = ~@] ELSE row[m]]
    /\ job' = [job EXCEPT ![r].phase = "markread"]
    /\ UNCHANGED <<next, status, wire, seen, log>>

\* Both updates touch only rows that have no time stamp yet.
MarkDelivered(r) ==
    /\ In(r, "mark")
    /\ row' = [m \in Ids |-> IF m \in job[r].delivered \cap Stored
                             THEN [row[m] EXCEPT !.delivered = TRUE] ELSE row[m]]
    /\ job' = [job EXCEPT ![r].phase = "markread"]
    /\ UNCHANGED <<next, status, wire, seen, log>>

MarkRead(r) ==
    /\ In(r, "markread")
    /\ row' = [m \in Ids |-> IF m \in job[r].read \cap Stored
                             THEN [row[m] EXCEPT !.read = TRUE] ELSE row[m]]
    /\ job' = [job EXCEPT ![r].phase = "load"]
    /\ UNCHANGED <<next, status, wire, seen, log>>

\* A failed update is taken for one of rows already marked.
MarkFailsSilently(r) ==
    /\ Faults
    /\ In(r, "mark") \/ In(r, "markread")
    /\ job' = [job EXCEPT ![r].phase = IF In(r, "mark") THEN "markread" ELSE "load"]
    /\ UNCHANGED <<row, next, status, wire, seen, log>>

MarkFails(r) ==
    /\ Faults
    /\ \/ In(r, "mark") /\ job[r].delivered # {}
       \/ In(r, "markread") /\ job[r].read # {}
    /\ Fails(r)
    /\ UNCHANGED <<row, next, status, wire, seen, log>>

\* The messages are loaded and the receipts for their senders made.
Receipts(r) ==
    {Receipt("message:delivered", m) : m \in job[r].delivered \cap Stored}
        \cup {Receipt("message:read", m) : m \in job[r].read \cap Stored}

LoadAcked(r) ==
    /\ In(r, "load")
    /\ IF Receipts(r) = {}
       THEN Ends(r, "ok")
       ELSE \E e \in Receipts(r) :
              /\ e.kind = "message:read" => e.msg \notin job[r].delivered
              /\ job' = [job EXCEPT ![r].phase = "push", ![r].cur = e,
                                    ![r].rest = Receipts(r) \ {e}]
    /\ UNCHANGED <<row, next, status, wire, seen, log>>

\* They cannot be loaded: the request succeeds without any receipt.
LoadFails(r) ==
    /\ Faults
    /\ In(r, "load")
    /\ Ends(r, "ok")
    /\ UNCHANGED <<row, next, status, wire, seen, log>>

-----------------------------------------------------------------------------
(* The environment. *)

\* A device is registered meanwhile, and deactivated for good.
ComeOrGo(d) ==
    /\ d \in Guests
    /\ status[d] # "out"
    /\ status' = [status EXCEPT ![d] = IF @ = "new" THEN "active" ELSE "out"]
    /\ UNCHANGED <<row, next, wire, seen, log, job>>

\* The server stops: requests and queued events are gone, tables stay.
Restart ==
    /\ Faults
    /\ job' = [r \in Requests |-> IF job[r].phase \in Finished THEN job[r]
                                  ELSE [Idle EXCEPT !.phase = "dead"]]
    /\ wire' = [d \in Devices |-> {}]
    /\ UNCHANGED <<row, next, status, seen, log>>

\* The steps of a request that was begun.
Work(r) ==
    \/ \E d \in Devices : Save(r, d) \/ SaveFails(r, d)
    \/ \E u \in Users : GatherMember(r, u)
    \/ SaveMany(r) \/ GroupFails(r)
    \/ Push(r) \/ PushPanics(r) \/ AppendEvent(r)
    \/ MarkDelivered(r) \/ MarkRead(r) \/ MarkFails(r)
    \/ LoadAcked(r) \/ LoadFails(r)

Call(r) ==
    \/ \E d \in Devices, u \in Users : Send(r, d, u)
    \/ \E d \in Devices, m \in Ids, u \in Users : Forward(r, d, m, u)
    \/ \E d \in Devices, members \in SUBSET Users : SendGroup(r, d, members)
    \/ \E d \in Devices : \E delivered, read \in SUBSET seen[d] : Ack(r, d, delivered, read)

Next ==
    \/ \E r \in Requests : Call(r) \/ Work(r)
    \/ \E d \in Devices : Fetch(d) \/ Disconnect(d) \/ ComeOrGo(d)
    \/ \E d \in Devices : \E e \in wire[d] : Receive(d, e)
    \/ Restart

Spec == Init /\ [][Next]_vars

\* Goroutines run, a client comes back to fetch and, whenever it can get a
\* request through, acknowledges all it has received.
Fairness ==
    /\ \A r \in Requests : WF_vars(Work(r))
    /\ \A d \in Devices : WF_vars(Fetch(d))
    /\ \A d \in Devices : SF_vars(\E r \in Requests : Ack(r, d, seen[d], {}))

FairSpec == Spec /\ Fairness
-----------------------------------------------------------------------------
(* Properties. *)

\* Every variable holds a value of its kind.
Events == [kind : EventKinds, msg : Ids, dev : Devices \cup {None}, user : Users]
Jobs == [op : {"send", "forward", "group", "ack", None}, phase : Phases,
         dev : Devices \cup {None}, targets : SUBSET Devices, left : SUBSET Devices,
         mine : SUBSET Ids, cur : Events \cup {None}, rest : SUBSET Events,
         members : SUBSET Users, delivered : SUBSET Ids, read : SUBSET Ids]

TypeOK ==
    /\ row \in [Ids -> Rows \cup {None}]
    /\ next \in 1..MaxMsgs + 1
    /\ status \in [Devices -> {"new", "active", "out"}]
    /\ wire \in [Devices -> SUBSET Events]
    /\ seen \in [Devices -> SUBSET Ids]
    /\ log \subseteq Events
    /\ job \in [Requests -> Jobs]

\* No client ever holds, and no event announces, a message that is not in the
\* table under the device it was pushed to: a push or an append always comes
\* after the commit (service.go:218-247, 544-569), also when the request or
\* the server dies in between, so that an acknowledgement always finds its row.
Heard(d) == seen[d] \cup {e.msg : e \in {f \in wire[d] : f.kind \in {"message:new", "group:message:new"}}}

HeardIsStored ==
    /\ \A d \in Devices : \A m \in Heard(d) : m \in Stored /\ row[m].to = d
    /\ \A e \in log : e.msg \in Stored

\* A sender that got an answer without error has a row for every device the
\* recipients had when they were looked up (service.go:167-247, 499-546), and
\* these rows are its own.
OkMeansStored ==
    \A r \in Requests : In(r, "ok") /\ job[r].op # "ack" =>
        /\ \A d \in job[r].targets : \E m \in job[r].mine : m \in Stored /\ row[m].to = d
        /\ \A q \in Requests \ {r} : job[q].mine \cap job[r].mine = {}

\* A receipt, on the wire or in the log, tells of a mark that is in the table:
\* it is made after the update and never survives its failure, although
\* several requests acknowledge the same message (service.go:337-439).
ReceiptIsTrue ==
    \A e \in log \cup UNION {wire[d] : d \in Devices} :
        /\ e.kind = "message:delivered" => row[e.msg].delivered
        /\ e.kind = "message:read" => row[e.msg].read

\* Marks are never taken back, rows never change hands or vanish.
RowsOnlyGain ==
    [][\A m \in Stored :
        /\ m \in Stored' /\ row'[m].to = row[m].to /\ row'[m].from = row[m].from
        /\ row[m].delivered => row'[m].delivered
        /\ row[m].read => row'[m].read]_vars

\* What is waiting for a device is a mailbox: see Mailbox.
Mail == INSTANCE Mailbox WITH
    box <- [d \in Devices |-> Pending(d)],
    done <- [d \in Devices |-> {m \in Stored : row[m].to = d /\ row[m].delivered}]

ImplementsMailbox == Mail!Spec

\* However many pushes are dropped or lost with their connection, and however
\* small the page, every stored message is fetched and acknowledged in the end
\* by a device that keeps coming back: no message starves behind others in
\* ORDER BY created_at LIMIT (message_repo_pg.go:86-168, service.go:263-312).
MailboxDrains ==
    \A m \in Ids : (m \in Stored) ~> (row[m] # None /\ row[m].delivered)

=============================================================================
