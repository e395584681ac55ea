------------------------------- MODULE History -------------------------------
(****************************************************************************)
(* Reading back through the messages of a chat, of a group or of a search,  *)
(* page by page (GetChatHistory, GetGroupMessages and SearchMessages of     *)
(* adapters/postgres/message_repo_pg.go with their handlers): a client asks *)
(* for the newest messages, then for those before the last one it was given,*)
(* and stops at a page that is not full, while messages are being stored.   *)
(*                                                                          *)
(* Abstractions: a row is its id, its created_at and whether the user who   *)
(* reads sent it; the rows are those that the query selects but for the     *)
(* time.  created_at is read before the insert, which may be late, so a row *)
(* may be stored with any time; copies of a message for several devices may *)
(* have the same one.                                                       *)
(****************************************************************************)
EXTENDS Integers, FiniteSets

CONSTANTS
    MaxRows,       \* bound: rows
    Times,         \* bound: the values of created_at, numbers above 0
    Asked,         \* the limits that are asked for; None for none, or none that is a number
    DefaultLimit,  \* the handlers' limit when none is asked for (50 in the code)
    SearchLimit,   \* the search's instead of one out of bounds (100 in the code)
    Cap,           \* the largest limit of a search or of a group (500 in the code)
    None

VARIABLES
    rows,    \* the stored rows
    query,   \* what the client pages through, or "none" before it begins
    limit,   \* the limit the database is given
    before,  \* the created_at of the last row of its last page
    page,    \* its last page
    shown,   \* what it has been shown
    ties,    \* the values it has asked for rows before
    owing    \* the rows there were at the beginning and it was not shown

vars == <<rows, query, limit, before, page, shown, ties, owing>>

Queries == {"chat", "group", "search"}

Init ==
    /\ rows = {}
    /\ query = "none"
    /\ limit = 0
    /\ before = 0
    /\ page = {}
    /\ shown = {}
    /\ ties = {}
    /\ owing = {}

\* A request for messages stores one.
Store(at, own) ==
    /\ Cardinality(rows) < MaxRows
    /\ rows' = rows \cup {[id |-> Cardinality(rows), at |-> at, own |-> own]}
    /\ UNCHANGED <<query, limit, before, page, shown, ties, owing>>

\* The limit of the statement, from what the request asks for.
LimitOf(q, asked) ==
    IF asked # None /\ asked > 0 /\ (q = "chat" \/ asked <= Cap) THEN asked
    ELSE IF asked # None /\ q = "search" THEN SearchLimit
    ELSE DefaultLimit

-----------------------------------------------------------------------------
(* The statements. *)

\* Faulty variants, here and below, show that the properties notice them: all
\* queries have the condition of the chat's, or take in the time itself.
SelectedUngrouped(q, t) == {r \in rows : r.own \/ r.at < t}
SelectedThrough(q, t) == {r \in rows : r.at <= t}

\* The rows before t.  In the chat's condition the OR of the two directions is
\* not in parentheses: before applies to the peer's messages only.
Selected(q, t) == {r \in rows : r.at < t \/ (q = "chat" /\ r.own)}

\* ORDER BY created_at LIMIT n, the oldest first.
PagesOldest(set, n) ==
    {p \in SUBSET set :
        /\ Cardinality(p) = (IF Cardinality(set) < n THEN Cardinality(set) ELSE n)
        /\ \A r \in p, s \in set \ p : r.at <= s.at}

\* ORDER BY created_at DESC LIMIT n: rows of one time come in any order.
Pages(set, n) ==
    {p \in SUBSET set :
        /\ Cardinality(p) = (IF Cardinality(set) < n THEN Cardinality(set) ELSE n)
        /\ \A r \in p, s \in set \ p : r.at >= s.at}

Oldest(p) == CHOOSE t \in Times : (\E r \in p : r.at = t) /\ (\A r \in p : r.at >= t)

-----------------------------------------------------------------------------
(* The client. *)

Show(p) ==
    /\ page' = p
    /\ shown' = shown \cup p
    /\ before' = IF p = {} THEN before ELSE Oldest(p)

\* The first page, without a time.
FirstPage(q, asked) ==
    /\ query = "none"
    /\ query' = q
    /\ limit' = LimitOf(q, asked)
    /\ \E p \in Pages(rows, limit') : Show(p) /\ owing' = rows \ p
    /\ ties' = {}
    /\ UNCHANGED rows

Full == Cardinality(page) = limit

NextPage ==
    /\ query # "none"
    /\ Full
    /\ \E p \in Pages(Selected(query, before), limit) : Show(p) /\ owing' = owing \ p
    /\ ties' = ties \cup {before}
    /\ UNCHANGED <<rows, query, limit>>

Next ==
    \/ \E at \in Times, own \in BOOLEAN : Store(at, own)
    \/ \E q \in Queries, asked \in Asked : FirstPage(q, asked)
    \/ NextPage

Spec == Init /\ [][Next]_vars

-----------------------------------------------------------------------------
(* Properties. *)

\* Every variable holds a value of its kind.
TypeOK ==
    /\ \A r \in rows : r.id \in 0..(MaxRows - 1) /\ r.at \in Times /\ r.own \in BOOLEAN
    /\ query \in Queries \cup {"none"}
    /\ limit \in Nat
    /\ before \in Times \cup {0}
    /\ page \subseteq shown /\ shown \subseteq rows
    /\ ties \subseteq Times
    /\ owing \subseteq rows

\* A client that has come to a page that is not full was shown every message
\* there was when it began, except some that were stored with the very time at
\* which a page ended (message_repo_pg.go:349-359, 527-542 and
\* 688-706).
SkippedOnlyByTie ==
    query # "none" /\ ~Full => \A r \in owing : r.at \in ties

\* Rows that a page shows again, or that are not before the time asked for.
Stale(p) == {r \in p : r \in shown \/ r.at >= before}

\* A page goes further back, with messages that were not shown before, except in
\* a chat (message_repo_pg.go:527-540): there a page may have the reader's own
\* messages in it again, and one that is full of them, since the reader wrote a
\* page of messages after the time asked for, leaves him where he is for ever.
GoesBackButForOwn ==
    [][NextPage =>
        /\ Stale(page') # {} => query = "chat" /\ \A r \in Stale(page') : r.own
        /\ Full' /\ before' >= before =>
              Cardinality({r \in rows : r.own /\ r.at >= before}) >= limit]_vars
=============================================================================
