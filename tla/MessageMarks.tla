----------------------------- MODULE MessageMarks -----------------------------
(****************************************************************************)
(* What users do to a stored message: edit it, delete it for all, react to  *)
(* it and pin it (app/messages/service.go over                              *)
(* adapters/postgres/message_repo_pg.go).  A request runs one update of the *)
(* row and appends one event to the user's own sync log; each may fail, and *)
(* a failed append is ignored.                                              *)
(*                                                                          *)
(* Abstractions: a reaction and a pin are marks a user puts on a message or *)
(* takes off it.  Of the log the model keeps what its latest event says of  *)
(* each mark, and which edits and deletions it tells of; the order of its   *)
(* ids is SyncLog's.  Deleting for oneself is left out: it hands the two    *)
(* ids to the statement in the wrong order, and no row is ever found.       *)
(****************************************************************************)
EXTENDS Naturals

CONSTANTS
    Requests,  \* slots for the requests in progress
    Users,
    Msgs,      \* the stored messages
    Ids,       \* the ids requests name, those of messages among them
    Emojis,
    Texts,     \* what a message may be edited to
    MaxBegun,  \* bound: requests in all
    None

VARIABLES
    marks,     \* each user's reaction to a message and his pin on it
    pinnedAt,  \* the messages that have a time of pinning
    deleted,   \* the messages deleted for all
    text,      \* what a message was last edited to, or None
    heard,     \* what a user's log last said of his marks, or "nothing"
    news,      \* the edits and deletions it tells of
    request,   \* what each request is doing
    begun,     \* requests so far
    disturbed  \* marks of which log and row may tell different things

vars == <<marks, pinnedAt, deleted, text, heard, news, request, begun, disturbed>>

Kinds == {"reaction", "pin"}
Marks == [user : Users, msg : Ids, kind : Kinds]

\* What a mark may be.
Values(kind) == IF kind = "pin" THEN {"pinned", None} ELSE Emojis \cup {None}

\* A request: its user and message, what it changes and to what, and whether
\* nothing interfered with it so far.
Free == [phase |-> "free"]
Ask(phase, u, m, kind, v) ==
    [phase |-> phase, user |-> u, msg |-> m, kind |-> kind, value |-> v, clean |-> TRUE]
Mark(c) == [user |-> request[c].user, msg |-> request[c].msg, kind |-> request[c].kind]

Init ==
    /\ marks = [k \in Marks |-> None]
    /\ pinnedAt = {}
    /\ deleted = {}
    /\ text = [m \in Msgs |-> None]
    /\ heard = [k \in Marks |-> "nothing"]
    /\ news = {}
    /\ request = [c \in Requests |-> Free]
    /\ begun = 0
    /\ disturbed = {}

Begin(c) ==
    /\ request[c].phase = "free"
    /\ begun < MaxBegun
    /\ begun' = begun + 1

In(c, phase) == request[c].phase = phase
Ends(c) == request' = [request EXCEPT ![c] = Free]

-----------------------------------------------------------------------------
(* Reactions and pins: told first, then done. *)

OnMark(c) == ~In(c, "free") /\ request[c].kind \in Kinds
Rivals(k) == {c \in Requests : OnMark(c) /\ Mark(c) = k}

\* A request that meets another one for the same mark disturbs it, and is
\* disturbed by it.
BeginMark(c, k, v) ==
    /\ Begin(c)
    /\ request' = [b \in Requests |->
          IF b = c THEN [Ask("tell", k.user, k.msg, k.kind, v) EXCEPT !.clean = Rivals(k) = {}]
          ELSE IF b \in Rivals(k) THEN [request[b] EXCEPT !.clean = FALSE]
          ELSE request[b]]
    /\ UNCHANGED <<marks, pinnedAt, deleted, text, heard, news, disturbed>>

TellMark(c) ==
    /\ In(c, "tell")
    /\ OnMark(c)
    /\ \/ /\ heard' = [heard EXCEPT ![Mark(c)] = request[c].value]
          /\ request' = [request EXCEPT ![c].phase = "write"]
       \/ /\ UNCHANGED heard
          /\ request' = [request EXCEPT ![c].phase = "write", ![c].clean = FALSE]
    /\ UNCHANGED <<marks, pinnedAt, deleted, text, news, begun, disturbed>>

\* Faulty variants, here and below, show that the properties notice them: a
\* mark that is there is not replaced, the whole column is written, or the time
\* of a pin is not.
SetMarkOnce(k, v) ==
    /\ marks' = IF k.msg \in Msgs /\ (marks[k] = None \/ v = None)
                THEN [marks EXCEPT ![k] = v] ELSE marks
    /\ pinnedAt' = pinnedAt \cup ({k.msg} \cap Msgs)

SetMarkAlone(k, v) ==
    /\ marks' = [j \in Marks |-> IF j = k THEN v
                                 ELSE IF j.msg = k.msg /\ j.kind = k.kind THEN None
                                 ELSE marks[j]]
    /\ pinnedAt' = pinnedAt \cup ({k.msg} \cap Msgs)

SetMarkUntimed(k, v) ==
    /\ marks' = IF k.msg \in Msgs THEN [marks EXCEPT ![k] = v] ELSE marks
    /\ UNCHANGED pinnedAt

\* The update changes the user's entry in the row, if there is a row.  The time
\* of a pin is that of the first one, and stays when the last one goes.
SetMark(k, v) ==
    /\ marks' = IF k.msg \in Msgs THEN [marks EXCEPT ![k] = v] ELSE marks
    /\ pinnedAt' = IF k.kind = "pin" /\ v = "pinned" /\ k.msg \in Msgs
                   THEN pinnedAt \cup {k.msg} ELSE pinnedAt

WriteMark(c) ==
    /\ In(c, "write")
    /\ OnMark(c)
    /\ SetMark(Mark(c), request[c].value)
    /\ disturbed' = IF request[c].clean THEN disturbed \ {Mark(c)} ELSE disturbed \cup {Mark(c)}
    /\ Ends(c)
    /\ UNCHANGED <<deleted, text, heard, news, begun>>

\* The update fails, with or without effect, or the request is cut off; its
\* event stays.
MarkFails(c) ==
    /\ OnMark(c)
    /\ UNCHANGED <<marks, pinnedAt>> \/ (In(c, "write") /\ SetMark(Mark(c), request[c].value))
    /\ disturbed' = disturbed \cup {Mark(c)}
    /\ Ends(c)
    /\ UNCHANGED <<deleted, text, heard, news, begun>>

-----------------------------------------------------------------------------
(* Edits and deletions: done first, then told. *)

BeginChange(c, u, m, kind, v) ==
    /\ Begin(c)
    /\ request' = [request EXCEPT ![c] = Ask("write", u, m, kind, v)]
    /\ UNCHANGED <<marks, pinnedAt, deleted, text, heard, news, disturbed>>

Edit(m, v) == text' = IF m \in Msgs THEN [text EXCEPT ![m] = v] ELSE text
DeleteForAll(m) == deleted' = deleted \cup ({m} \cap Msgs)

\* No row is there to change for an id that is not a message's.
Change(c) ==
    \/ request[c].kind = "edit" /\ Edit(request[c].msg, request[c].value) /\ UNCHANGED deleted
    \/ request[c].kind = "delete" /\ DeleteForAll(request[c].msg) /\ UNCHANGED text

\* An error of the update is not looked at.
WriteChangeUnchecked(c) ==
    /\ In(c, "write")
    /\ ~OnMark(c)
    /\ Change(c) \/ UNCHANGED <<deleted, text>>
    /\ request' = [request EXCEPT ![c].phase = "tell"]
    /\ UNCHANGED <<marks, pinnedAt, heard, news, begun, disturbed>>

WriteChange(c) ==
    /\ In(c, "write")
    /\ ~OnMark(c)
    /\ Change(c)
    /\ request' = [request EXCEPT ![c].phase = "tell"]
    /\ UNCHANGED <<marks, pinnedAt, heard, news, begun, disturbed>>

TellChange(c) ==
    /\ In(c, "tell")
    /\ ~OnMark(c)
    /\ news' = news \cup {[user |-> request[c].user, msg |-> request[c].msg, kind |-> request[c].kind]}
    /\ Ends(c)
    /\ UNCHANGED <<marks, pinnedAt, deleted, text, heard, begun, disturbed>>

\* The update fails, with or without effect, or the append does.
ChangeFails(c) ==
    /\ ~In(c, "free")
    /\ ~OnMark(c)
    /\ UNCHANGED <<deleted, text>> \/ (In(c, "write") /\ Change(c))
    /\ Ends(c)
    /\ UNCHANGED <<marks, pinnedAt, heard, news, begun, disturbed>>

-----------------------------------------------------------------------------
Next ==
    \E c \in Requests :
        \/ \E k \in Marks : \E v \in Values(k.kind) : BeginMark(c, k, v)
        \/ TellMark(c) \/ WriteMark(c) \/ MarkFails(c)
        \/ \E u \in Users, m \in Ids :
             \/ \E v \in Texts : BeginChange(c, u, m, "edit", v)
             \/ BeginChange(c, u, m, "delete", None)
        \/ WriteChange(c) \/ TellChange(c) \/ ChangeFails(c)

Spec == Init /\ [][Next]_vars

-----------------------------------------------------------------------------
(* Properties. *)

\* Every variable holds a value of its kind, and what a pin is shown with is
\* there: a pinned message has a time of pinning.
Records ==
    {Free} \cup [phase : {"tell", "write"}, user : Users, msg : Ids,
                 kind : Kinds \cup {"edit", "delete"},
                 value : Emojis \cup Texts \cup {"pinned", None}, clean : BOOLEAN]

TypeOK ==
    /\ marks \in [Marks -> Emojis \cup {"pinned", None}]
    /\ heard \in [Marks -> Emojis \cup {"pinned", None, "nothing"}]
    /\ \A k \in Marks :
         /\ marks[k] \in Values(k.kind)
         /\ heard[k] \in Values(k.kind) \cup {"nothing"}
         /\ k.kind = "pin" /\ marks[k] = "pinned" => k.msg \in pinnedAt
    /\ pinnedAt \subseteq Msgs /\ deleted \subseteq Msgs
    /\ text \in [Msgs -> Texts \cup {None}]
    /\ \A n \in news : n.user \in Users /\ n.msg \in Ids /\ n.kind \in {"edit", "delete"}
    /\ request \in [Requests -> Records]
    /\ begun \in 0..MaxBegun
    /\ disturbed \subseteq Marks

\* The events that tell of reactions and pins before they are made
\* (service.go:724-731, 745-751, 835-841 and 854-860) tell the truth once the
\* request is through: what a user's devices last heard of his mark is what the
\* row holds, unless two of his requests for that mark overlapped or one of
\* them was cut off, failed, or could not be told of.
LogTellsRow ==
    \A k \in Marks :
        k.msg \in Msgs /\ k \notin disturbed /\ Rivals(k) = {} /\ heard[k] # "nothing" =>
            marks[k] = heard[k]

\* Edits and deletions are told of after they are made, and never unmade: a log
\* that tells of one is right at every moment, whatever else happens to the
\* message and its other requests (service.go:668-677 and 699-708).
NewsIsTrue ==
    \A n \in news : n.msg \in Msgs =>
        IF n.kind = "edit" THEN text[n.msg] # None ELSE n.msg \in deleted

\* A user's reaction and pin are changed by his own requests only: no statement
\* on the arrays and the object of a row touches the entry of another user,
\* however they interleave (message_repo_pg.go:619-650).
MarksAreOnesOwn ==
    [][\A k \in Marks : marks'[k] # marks[k] =>
         \E c \in Requests : OnMark(c) /\ Mark(c) = k /\ In(c, "write")]_vars

\* Both orders of telling and doing leave the log true (service.go:655-861).
LogIsRight == LogTellsRow /\ NewsIsTrue
=============================================================================
