------------------------------ MODULE MCServices ------------------------------
(* The services none of which reads what another one writes, each on its    *)
(* own: a behaviour chooses one, and the others stay as they began.  Their  *)
(* steps would only interleave, and no property here is about two.          *)
(* MessageMarks is extended, and the others are instantiated beside it.     *)
EXTENDS MessageMarks, Integers, FiniteSets, Sequences, TLC

CONSTANTS
    Calls, Devices, Batch, MaxUploads,
    Conns, TTL,
    Uploads, MaxSize, MaxBody,
    Profile, Flags, Peers,
    MaxRows, Times, Asked, DefaultLimit, SearchLimit, Cap,
    Plus, Other, Digits, Zero, Seven, Typed, MinDigits, MaxUsers

VARIABLES
    service,
    active, signed, uploads, stock, used, given, lost, call,
    ttl, pc, writer, due, why, owed,
    stage, feeder, body, claimed, fed, hashed, broken, file, row,
    stored, change, told,
    rows, query, limit, before, page, shown, ties, owing,
    users, sought, left, found, there, failed

\* Every text of up to three symbols, and some with a second digit.
MCDigits == {Zero, Seven}
MCTyped ==
    UNION {[1..n -> {Plus, Zero, Other}] : n \in 1..3}
        \cup {<<Seven>>, <<Plus, Seven>>, <<Zero, Seven>>, <<Zero, Zero, Seven>>}

Keys == INSTANCE PreKeys
Online == INSTANCE Presence
Files == INSTANCE Attachments
Own == INSTANCE UserRecords
Past == INSTANCE History
Finding == INSTANCE UserSearch WITH query <- sought

ASSUME ServicesAssumption ==
    /\ None \notin Int \cup Devices \cup Texts \cup {"pinned"}
    /\ Batch \in Nat
    /\ TTL \in Nat /\ TTL > 1
    /\ MaxSize \in Nat /\ MaxBody \in Nat
    /\ Msgs \subseteq Ids /\ MaxBegun \in Nat
    /\ Profile \cap (Flags \cup Peers) = {} /\ Flags \cap Peers = {}
    /\ MaxRows \in Nat /\ Cap \in Nat
    /\ {DefaultLimit, SearchLimit} \cup Times \subseteq Nat \ {0}
    /\ Asked \subseteq Int \cup {None}
    /\ {Plus, Other} \cap Digits = {} /\ Plus # Other /\ Zero \in Digits
    /\ \A s \in Typed : s \in Seq(Digits \cup {Plus, Other})
    /\ None \notin Seq(Digits \cup {Plus, Other})
    /\ MinDigits \in Nat \ {0}

keysVars == <<active, signed, uploads, stock, used, given, lost, call>>
onlineVars == <<ttl, pc, writer, due, why, owed>>
filesVars == <<stage, feeder, body, claimed, fed, hashed, broken, file, row>>
recordsVars == <<stored, change, told>>
pastVars == <<rows, query, limit, before, page, shown, ties, owing>>
findingVars == <<users, sought, left, found, there, failed>>
allVars == <<service, keysVars, onlineVars, filesVars, recordsVars, pastVars, findingVars,
             vars>>

ServicesInit ==
    /\ service \in {"keys", "online", "files", "records", "past", "marking", "finding"}
    /\ Keys!Init /\ Online!Init /\ Files!Init /\ Own!Init /\ Past!Init /\ Finding!Init
    /\ Init

ServicesNext ==
    /\ UNCHANGED service
    /\ \/ service = "keys" /\ Keys!Next
       \/ service # "keys" /\ UNCHANGED keysVars
    /\ \/ service = "online" /\ Online!Next
       \/ service # "online" /\ UNCHANGED onlineVars
    /\ \/ service = "files" /\ Files!Next
       \/ service # "files" /\ UNCHANGED filesVars
    /\ \/ service = "records" /\ Own!Next
       \/ service # "records" /\ UNCHANGED recordsVars
    /\ \/ service = "past" /\ Past!Next
       \/ service # "past" /\ UNCHANGED pastVars
    /\ \/ service = "marking" /\ Next
       \/ service # "marking" /\ UNCHANGED vars
    /\ \/ service = "finding" /\ Finding!Next
       \/ service # "finding" /\ UNCHANGED findingVars

ServicesSpec == ServicesInit /\ [][ServicesNext]_allVars

Symmetry == Permutations(Requests)

-----------------------------------------------------------------------------
\* Every variable of the chosen service holds a value of its kind; those of the
\* others hold what they began with.
TypesHold ==
    /\ service = "keys"    => Keys!TypeOK
    /\ service = "online"  => Online!TypeOK
    /\ service = "files"   => Files!TypeOK
    /\ service = "records" => Own!TypeOK
    /\ service = "past"    => Past!TypeOK
    /\ service = "marking" => TypeOK
    /\ service = "finding" => Finding!TypeOK

\* The properties below are stated, with the code they are about, in the module
\* each comes from; those of MessageMarks are its own.  A one-time key is taken
\* once, and the table knows it.
KeysAreSpentOnce == Keys!KeysAreSpentOnce

\* No one-time key is newer than the identity key of its device's row.
NotAheadOfRow == Keys!NotAheadOfRow

\* A user is shown online while he is connected, but for three reasons, and
\* offline when he is not, unless a handler left early.
PresenceIsTrue == Online!PresenceIsTrue

\* One goroutine writes to a socket at a time, but for the answer to a ping.
SoleWriter == Online!SoleWriter

\* A row of an attachment tells of the file beside it, no file outgrows the limit
\* by more than one unit, and a feeder is left behind by a failed save only.
UploadIsTold == Files!UploadIsTold

\* An acknowledged change of a record is lost to an overlap only.
LostByOverlapOnly == Own!LostByOverlapOnly

\* Paging back to the end skips a message only at a tie.
SkippedOnlyByTie == Past!SkippedOnlyByTie

\* A page goes further back, but for the reader's own messages of a chat.
GoesBackButForOwn == Past!GoesBackButForOwn

\* A number leads to the one user who has it, but for its form and failures.
NumberNamesUser == Finding!NumberNamesUser
=============================================================================
