-------------------------------- MODULE SyncLog --------------------------------
(****************************************************************************)
(* The per-user log of sync events (sync_event_repo_pg.go) and the two ways *)
(* a client follows it (app/sync/service.go): a full sync reads the list of *)
(* chats and then the last event id as cursor, a delta sync reads the       *)
(* events behind the cursor, a page at a time.                              *)
(*                                                                          *)
(* An append takes its id from the sequence of the BIGSERIAL column when    *)
(* the statement runs, and is visible once it commits; appends run on       *)
(* connections of their own.                                                *)
(*                                                                          *)
(* An event announces a message, whose row is saved before the append       *)
(* (messages/service.go:218-247, 805-818), or something that adds no row to *)
(* the messages: a receipt, an edit or a deletion (updated before the       *)
(* append), a reaction or a pin (updated after it, see MessageMarks), a     *)
(* change of a group.  Of all this the chat list shows one message of each  *)
(* chat, the last, and a count of the unread ones.                          *)
(****************************************************************************)
EXTENDS Naturals, FiniteSets

CONSTANTS
    Changes,    \* changes to announce, each by one append
    Users,
    UserOf,     \* the user whose log an append goes to
    ChatOf,     \* the two users of the chat a message is in; {} of what is no message
    Made,       \* created_at of the message
    Clients,    \* clients that follow a log
    ClientUser,
    Limit,      \* page size of a delta sync
    Faults      \* whether appends fail

MaxId == Cardinality(Changes)
Ids == 1..MaxId

ASSUME SyncAssumption ==
    /\ IsFiniteSet(Changes)
    /\ UserOf \in [Changes -> Users]
    /\ ChatOf \in [Changes -> SUBSET Users]
    /\ \A c \in Changes : ChatOf[c] = {} \/ UserOf[c] \in ChatOf[c]
    /\ Made \in [Changes -> Nat]
    /\ ClientUser \in [Clients -> Users]
    /\ Limit \in Nat \ {0}
    /\ Faults \in BOOLEAN

VARIABLES
    lastId,     \* the sequence
    id,         \* id of each change's event, 0 before it has one
    phase,      \* of each change: "new", "saved", "open", "committed", "failed"
    client,     \* "idle", or "listed" between the two reads of a full sync
    cursor,     \* the client's cursor
    known,      \* changes the client knows of
    late,       \* history: events committed behind a committed larger id
    before,     \* history: events committed when the full sync under way read the chats
    window,     \* history: events committed between the two reads of the last one
    passed      \* history: events committed then that the list need not show

vars == <<lastId, id, phase, client, cursor, known, late, before, window, passed>>
log == <<lastId, id, phase>>
readers == <<client, cursor, known, before, window, passed>>

Init ==
    /\ lastId = 0
    /\ id = [c \in Changes |-> 0]
    /\ phase = [c \in Changes |-> "new"]
    /\ client = [p \in Clients |-> "idle"]
    /\ cursor = [p \in Clients |-> 0]
    /\ known = [p \in Clients |-> {}]
    /\ late = {}
    /\ before = [p \in Clients |-> {}]
    /\ window = [p \in Clients |-> {}]
    /\ passed = [p \in Clients |-> {}]

Committed(u) == {c \in Changes : phase[c] = "committed" /\ UserOf[c] = u}

IsMessage(c) == ChatOf[c] # {}

\* The row of a message is committed by a statement of its own, after created_at
\* was drawn: rows are not saved in the order of their times, and may share one.
SaveChange(c) ==
    /\ IsMessage(c) /\ phase[c] = "new"
    /\ phase' = [phase EXCEPT ![c] = "saved"]
    /\ UNCHANGED <<lastId, id, late, readers>>

\* Append: the INSERT draws an id, and commits later or fails and leaves a gap.
Append(c) ==
    /\ phase[c] = (IF IsMessage(c) THEN "saved" ELSE "new")
    /\ lastId' = lastId + 1
    /\ id' = [id EXCEPT ![c] = lastId + 1]
    /\ phase' = [phase EXCEPT ![c] = "open"]
    /\ UNCHANGED <<late, readers>>

Commit(c) ==
    /\ phase[c] = "open"
    /\ phase' = [phase EXCEPT ![c] = "committed"]
    /\ late' = IF \E b \in Committed(UserOf[c]) : id[b] > id[c] THEN late \cup {c} ELSE late
    /\ UNCHANGED <<lastId, id, readers>>

AppendFails(c) ==
    /\ Faults
    /\ phase[c] = "open"
    /\ phase' = [phase EXCEPT ![c] = "failed"]
    /\ UNCHANGED <<lastId, id, late, readers>>

\* The rows of messages.
Saved == {m \in Changes : IsMessage(m) /\ phase[m] # "new"}

\* Faulty variants, here and below, show that the properties notice them: the
\* first message of a chat.
Oldest(chat) ==
    {m \in Saved : ChatOf[m] = chat /\ \A b \in Saved : ChatOf[b] = chat => Made[m] <= Made[b]}

\* The messages of a chat that none is later than.
Latest(chat) ==
    {m \in Saved : ChatOf[m] = chat /\ \A b \in Saved : ChatOf[b] = chat => Made[b] <= Made[m]}

\* Every user's chats are listed.
AllChats(u) == {ChatOf[m] : m \in Saved}

\* Messages are grouped by the other of their two users, group messages too.
ChatsOf(u) == {ChatOf[m] : m \in {b \in Saved : u \in ChatOf[b]}}

\* Nothing else shows a client these events: they are no messages, or not the
\* last of their chat, or share its time.
NeedNotShow(u) ==
    {c \in Committed(u) :
        IsMessage(c) => \E b \in Saved \ {c} : ChatOf[b] = ChatOf[c] /\ Made[b] >= Made[c]}

\* Full begins: the client starts over with the last message of each chat, any
\* of those with the same time. (Edited, it shows its new text; nothing tells
\* the client so, and the edit counts as not shown. The unread count, and the
\* names and flags beside each chat, are of no change in particular.)
ListChats(p) ==
    LET u == ClientUser[p] IN
    /\ client[p] = "idle"
    /\ \E last \in [ChatsOf(u) -> Saved] :
        /\ \A chat \in ChatsOf(u) : last[chat] \in Latest(chat)
        /\ known' = [known EXCEPT ![p] = {last[chat] : chat \in ChatsOf(u)}]
    /\ client' = [client EXCEPT ![p] = "listed"]
    /\ before' = [before EXCEPT ![p] = Committed(u)]
    /\ passed' = [passed EXCEPT ![p] = NeedNotShow(u)]
    /\ window' = [window EXCEPT ![p] = {}]
    /\ UNCHANGED <<log, cursor, late>>

\* The last id over all users' events, of those not yet committed as well.
LastIdDrawn(u) == lastId

\* GetLastID: COALESCE(MAX(id), 0).
LastId(u) ==
    IF Committed(u) = {} THEN 0
    ELSE CHOOSE i \in Ids :
            /\ \E c \in Committed(u) : id[c] = i
            /\ \A c \in Committed(u) : id[c] <= i

ReadCursor(p) ==
    /\ client[p] = "listed"
    /\ cursor' = [cursor EXCEPT ![p] = LastId(ClientUser[p])]
    /\ client' = [client EXCEPT ![p] = "idle"]
    /\ window' = [window EXCEPT ![p] = Committed(ClientUser[p]) \ before[p]]
    /\ before' = [before EXCEPT ![p] = {}]
    /\ UNCHANGED <<log, known, late, passed>>

\* The event at the cursor is listed again.
BehindOrAt(p) == {c \in Committed(ClientUser[p]) : id[c] >= cursor[p]}

\* Delta: the first Limit events with an id above the cursor, in order; the
\* new cursor is the largest id among them.
Behind(p) == {c \in Committed(ClientUser[p]) : id[c] > cursor[p]}
\* A page in no order.
AnyPage(p) == IF Behind(p) = {} THEN {} ELSE {CHOOSE c \in Behind(p) : TRUE}

NextPage(p) == {c \in Behind(p) : Cardinality({b \in Behind(p) : id[b] < id[c]}) < Limit}

Delta(p) ==
    /\ client[p] = "idle"
    /\ NextPage(p) # {}
    /\ known' = [known EXCEPT ![p] = @ \cup NextPage(p)]
    /\ \E c \in NextPage(p) :
        /\ \A b \in NextPage(p) : id[b] <= id[c]
        /\ cursor' = [cursor EXCEPT ![p] = id[c]]
    /\ UNCHANGED <<log, client, late, before, window, passed>>

Next ==
    \/ \E c \in Changes : SaveChange(c) \/ Append(c) \/ Commit(c) \/ AppendFails(c)
    \/ \E p \in Clients : ListChats(p) \/ ReadCursor(p) \/ Delta(p)

\* A client polls; statements that were sent come back.
Fairness ==
    /\ \A c \in Changes : WF_vars(Commit(c) \/ AppendFails(c))
    /\ \A p \in Clients : WF_vars(ReadCursor(p)) /\ SF_vars(Delta(p))

Spec == Init /\ [][Next]_vars
FairSpec == Spec /\ Fairness

-----------------------------------------------------------------------------
(* Properties. *)

\* Every variable holds a value of its kind, and no two events share an id.
TypeOK ==
    /\ lastId \in 0..MaxId
    /\ id \in [Changes -> 0..MaxId]
    /\ \A b, c \in Changes : b # c /\ id[b] = id[c] => id[b] = 0
    /\ phase \in [Changes -> {"new", "saved", "open", "committed", "failed"}]
    /\ client \in [Clients -> {"idle", "listed"}]
    /\ cursor \in [Clients -> 0..MaxId]
    /\ known \in [Clients -> SUBSET Changes]
    /\ late \subseteq Changes
    /\ before \in [Clients -> SUBSET Changes]
    /\ window \in [Clients -> SUBSET Changes]
    /\ passed \in [Clients -> SUBSET Changes]

\* What a client has passed by without learning of it.
Missed(p) == {c \in Committed(ClientUser[p]) :
                client[p] = "idle" /\ id[c] <= cursor[p] /\ c \notin known[p]}

\* A client misses an event for three reasons only: the event committed after
\* one with a larger id (sync_event_repo_pg.go:20-41); it committed during a full
\* sync between its two reads (sync/service.go:56-61); or the full sync passed it,
\* as the chat list shows no more than the last message of each chat
\* (message_repo_pg.go:194-237). Paging, polling, failed appends and other users'
\* events never cost it one, and a full sync never the last message of a chat.
MissedHasCause == \A p \in Clients : Missed(p) \subseteq late \cup window[p] \cup passed[p]

\* A client is told of events of its own user's log and of messages of its own
\* user's chats alone, and of none that was not made, although ids are drawn from
\* one sequence for all users' appends and the chats are found among all users'
\* messages (sync_event_repo_pg.go:44-75, message_repo_pg.go:194-218).
ToldOnlyOwn ==
    \A p \in Clients : \A c \in known[p] :
        /\ UserOf[c] = ClientUser[p] \/ ClientUser[p] \in ChatOf[c]
        /\ phase[c] # "new"

\* The cursor of a client that does not start over never goes back, and a
\* delta sync returns no event it returned before (sync/service.go:92-109).
CursorAdvances ==
    [][\A p \in Clients : cursor'[p] # cursor[p] /\ client[p] = "idle" =>
        /\ cursor'[p] > cursor[p]
        /\ \A c \in known'[p] \ known[p] : id[c] > cursor[p] /\ id[c] <= cursor'[p]]_vars

\* A client that keeps polling learns of every event that was not overtaken,
\* did not fall into a full sync and was not passed by it, however small its
\* pages; after its last full sync, that is every event to come.
CatchesUp ==
    \A p \in Clients, c \in Changes :
        (c \in Committed(ClientUser[p]))
            ~> (c \in known[p] \/ c \in late \cup window[p] \cup passed[p])

\* "Append adds event for user and returns cursor ID", "ListSince returns event
\* > after for user" (ports/sync_event_repo.go:20-22): an id is a cursor, behind
\* which nothing comes any more. What a full sync passes by is left aside.
CursorCoversLog == \A p \in Clients : Missed(p) \subseteq window[p] \cup passed[p]

=============================================================================
