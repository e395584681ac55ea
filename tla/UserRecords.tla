----------------------------- MODULE UserRecords -----------------------------
(****************************************************************************)
(* What the server keeps for one user: the profile, a row that is read,     *)
(* changed and written back whole (app/profile); his row of flags of one    *)
(* chat, of which each request writes one column (app/chats); and the       *)
(* contacts, a row each (app/contact).  Every request is a goroutine.       *)
(*                                                                          *)
(* The profile and the contacts are changed by requests of the user's       *)
(* devices.  The flags are not: the handler passes its two ids in the wrong *)
(* order (http/chats.go:78), so a request writes the row of the peer it     *)
(* names, and the user's own row is written by requests of his peer.  The   *)
(* user's requests do the same to the peer's row, which is not here.        *)
(*                                                                          *)
(* A change is told in the order in which its statement runs.               *)
(*                                                                          *)
(* The three tables are one function from fields to values: the fields of   *)
(* the profile, the flags of one chat, and the other users, whose value     *)
(* says whether they are contacts.  Phone hashes are the users they belong  *)
(* to; a user never goes away.  Nor does a contact: the route of a removal  *)
(* names its parameter id, the handler asks for contact_user_id, finds      *)
(* nothing and answers 400 (http/contacts.go:16, 49).                       *)
(****************************************************************************)
CONSTANTS
    Requests,  \* slots for the requests in progress
    Profile,   \* the fields of the profile
    Texts,     \* what a field of the profile may hold
    Flags,     \* the flags of a chat, in the user's row
    Peers,     \* the other users
    None

VARIABLES
    stored,    \* the value of each field
    change,    \* what each request is doing
    told       \* what was told of each field to the user, or to his peer of a flag: the
               \* value last written with success, None when that is in doubt

vars == <<stored, change, told>>

Fields == Profile \cup Flags \cup Peers
ValuesOf(f) == IF f \in Profile THEN Texts \cup {None} ELSE BOOLEAN
Default(f) == IF f \in Profile THEN None ELSE FALSE
NoFields == [f \in {} |-> None]

\* A request: the profile it read, the fields it was given, and the contacts it
\* still has to add.
Idle == [kind |-> "idle", copy |-> NoFields, given |-> NoFields, left |-> {}]

Init ==
    /\ stored = [f \in Fields |-> Default(f)]
    /\ change = [r \in Requests |-> Idle]
    /\ told = [f \in Fields |-> None]

Free(r) == change[r].kind = "idle"
Becomes(r, rec) == change' = [change EXCEPT ![r] = rec]

\* Another request has read the profile and is going to write it.
ProfileHeld(r) == \E q \in Requests \ {r} : change[q].kind = "profile"

\* A request wrote the fields in new and was told so; they are in doubt while
\* another one is going to write what it read of them.
Acknowledged(r, new) ==
    told' = [f \in Fields |->
        CASE f \notin DOMAIN new -> told[f]
          [] f \in DOMAIN new \cap Profile /\ ProfileHeld(r) -> None
          [] OTHER -> new[f]]

\* It may have written them, and was told of an error.
Doubtful(new) == told' = [f \in Fields |-> IF f \in DOMAIN new THEN None ELSE told[f]]

Put(new) == stored' = [f \in Fields |-> IF f \in DOMAIN new THEN new[f] ELSE stored[f]]

-----------------------------------------------------------------------------
(* The profile. *)

\* The row is read.
LoadProfile(r, given) ==
    /\ Free(r)
    /\ Becomes(r, [Idle EXCEPT !.kind = "profile", !.given = given,
                               !.copy = [f \in Profile |-> stored[f]]])
    /\ UNCHANGED <<stored, told>>

Over(copy, given) ==
    [f \in DOMAIN copy |-> IF f \in DOMAIN given THEN given[f] ELSE copy[f]]

\* Faulty variants, here and below, show that the properties notice them: a
\* field that is not given becomes empty.
ChangedClearing(r) == Over([f \in Profile |-> None], change[r].given)

Changed(r) == Over(change[r].copy, change[r].given)

\* All of its fields are written, the given ones and those that were read.
UpdateProfile(r) ==
    /\ change[r].kind = "profile"
    /\ Put(Changed(r))
    /\ Acknowledged(r, change[r].given)
    /\ Becomes(r, Idle)

\* The update fails, with or without effect.
UpdateFails(r) ==
    /\ change[r].kind = "profile"
    /\ Put(Changed(r)) \/ UNCHANGED stored
    /\ Doubtful(change[r].given)
    /\ Becomes(r, Idle)

-----------------------------------------------------------------------------
(* Chat flags and single contacts: one statement each. *)

One(f, v) == [g \in {f} |-> v]

Statement(r, f, v) ==
    /\ Free(r)
    /\ Put(One(f, v))
    /\ Acknowledged(r, One(f, v))
    /\ UNCHANGED change

\* The columns that are not given get their defaults.
SetFlagWhole(r, f, v) ==
    /\ f \in Flags /\ Free(r)
    /\ Put([g \in Flags |-> IF g = f THEN v ELSE FALSE])
    /\ Acknowledged(r, One(f, v))
    /\ UNCHANGED change

\* An upsert of one column, at the request of the peer.
SetFlag(r, f, v) == f \in Flags /\ Statement(r, f, v)

\* An insert that lets a row stand that is there already.
AddContact(r, p) == Statement(r, p, TRUE)

\* One of them fails, with or without effect.
StatementFails(r, f, v) ==
    /\ f \in Flags \/ v = TRUE
    /\ Free(r)
    /\ Put(One(f, v)) \/ UNCHANGED stored
    /\ Doubtful(One(f, v))
    /\ UNCHANGED change

-----------------------------------------------------------------------------
(* Adding the contacts of an address book, one after the other. *)

\* The hashes nobody has, and the user's own, are passed over.
BeginSync(r, known) ==
    /\ Free(r)
    /\ Becomes(r, [Idle EXCEPT !.kind = "sync", !.left = known])
    /\ UNCHANGED <<stored, told>>

\* The lookup or the insert of one may fail, and nobody is told either way.
SyncOne(r, p) ==
    /\ change[r].kind = "sync"
    /\ p \in change[r].left
    /\ Put(One(p, TRUE)) \/ UNCHANGED stored
    /\ Becomes(r, [change[r] EXCEPT !.left = @ \ {p}])
    /\ UNCHANGED told

EndSync(r) ==
    /\ change[r].kind = "sync"
    /\ change[r].left = {}
    /\ Becomes(r, Idle)
    /\ UNCHANGED <<stored, told>>

-----------------------------------------------------------------------------
Given == UNION {[S -> Texts] : S \in SUBSET Profile}

Next ==
    \E r \in Requests :
        \/ \E given \in Given : LoadProfile(r, given)
        \/ UpdateProfile(r) \/ UpdateFails(r)
        \/ \E f \in Flags, v \in BOOLEAN : SetFlag(r, f, v)
        \/ \E p \in Peers : AddContact(r, p)
        \/ \E f \in Flags \cup Peers, v \in BOOLEAN : StatementFails(r, f, v)
        \/ \E known \in SUBSET Peers : BeginSync(r, known)
        \/ \E p \in Peers : SyncOne(r, p)
        \/ EndSync(r)

Spec == Init /\ [][Next]_vars

-----------------------------------------------------------------------------
(* Properties. *)

\* Every variable holds a value of its kind.
TypeOK ==
    /\ DOMAIN stored = Fields /\ DOMAIN told = Fields
    /\ \A f \in Fields :
         stored[f] \in ValuesOf(f) /\ told[f] \in ValuesOf(f) \cup {None}
    /\ \A r \in Requests :
         /\ change[r].kind \in {"idle", "profile", "sync"}
         /\ change[r].given \in Given \cup {NoFields}
         /\ change[r].left \subseteq Peers

\* A change that was answered with success stays until that field is changed
\* again, unless another change of the profile was under way when it was made
\* (profile/service.go:72-95: the row is written whole, with what was read before)
\* or a later one failed.  Requests for the flags of a row, whoever they come
\* from, never undo each other (chat_state_repo_pg.go:19-53), and an address book
\* with failures in it never costs a contact (contact/service.go:78-93).
LostByOverlapOnly ==
    \A f \in Fields : told[f] # None => stored[f] = told[f]
=============================================================================
