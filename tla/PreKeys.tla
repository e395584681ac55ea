-------------------------------- MODULE PreKeys --------------------------------
(****************************************************************************)
(* The one-time pre-keys of a user's devices: uploads that fill the table   *)
(* and bundles that take one key per device out of it (app/keys/service.go  *)
(* over adapters/postgres/otpk_repo_pg.go and the key columns of the        *)
(* devices table).  A call is a goroutine; every statement or transaction   *)
(* of it is one step, any of which can fail.                                *)
(*                                                                          *)
(* Abstractions: a key is the device, the upload and the place in the       *)
(* upload it came from, which is also the order of created_at.  An upload   *)
(* is numbered by its update of the device row, the clock being read right  *)
(* after it.  A call cut off by its client or by a restart is one that      *)
(* fails.                                                                   *)
(****************************************************************************)
EXTENDS Naturals, FiniteSets

CONSTANTS
    Calls,      \* slots for the calls in progress
    Devices,    \* the devices of one user
    Batch,      \* bound: keys in one upload
    MaxUploads, \* bound: uploads
    None

VARIABLES
    active,     \* the active devices
    signed,     \* the upload whose identity and signed key a device row holds
    uploads,    \* uploads so far
    stock,      \* the one_time_prekeys table
    used,       \* the keys in it whose used_at is set
    given,      \* the keys handed to clients
    lost,       \* the keys taken by bundles that failed
    call        \* what each call is doing

vars == <<active, signed, uploads, stock, used, given, lost, call>>

Key(d, upload, n) == [dev |-> d, upload |-> upload, n |-> n]
Keys == [dev : Devices, upload : Nat, n : 1..Batch]

Finished == {"idle", "ok", "error"}
Phases == Finished \cup {"update", "insert", "take", "mark", "answer"}

\* A call: the device and number of an upload; for a bundle the signed keys it
\* has listed, the devices it still has to take a key for, the key it has
\* locked and those it has taken.
Idle == [phase |-> "idle", dev |-> None, upload |-> 0, list |-> [d \in Devices |-> 0],
         left |-> {}, locked |-> {}, got |-> {}]

Init ==
    /\ active = Devices
    /\ signed = [d \in Devices |-> 0]
    /\ uploads = 0
    /\ stock = {}
    /\ used = {}
    /\ given = {}
    /\ lost = {}
    /\ call = [c \in Calls |-> Idle]

In(c, phase) == call[c].phase = phase
Free(c) == call[c].phase \in Finished
Ends(c, result) == call' = [call EXCEPT ![c] = [Idle EXCEPT !.phase = result]]

-----------------------------------------------------------------------------
(* Uploading. *)

\* The device is loaded; the row of one that is out cannot be read.
BeginUpload(c, d) ==
    /\ Free(c)
    /\ d \in active
    /\ call' = [call EXCEPT ![c] = [Idle EXCEPT !.phase = "update", !.dev = d]]
    /\ UNCHANGED <<active, signed, uploads, stock, used, given, lost>>

\* Faulty variants, here and below, show that the properties notice them: the
\* row keeps its keys.
ReplaceNothing(c) ==
    /\ uploads < MaxUploads
    /\ uploads' = uploads + 1
    /\ UNCHANGED signed

\* The identity key and the signed key of the row are replaced.
Replace(c) ==
    /\ uploads < MaxUploads
    /\ uploads' = uploads + 1
    /\ signed' = [signed EXCEPT ![call[c].dev] = uploads + 1]

UpdateKeys(c) ==
    /\ In(c, "update")
    /\ Replace(c)
    /\ call' = [call EXCEPT ![c].phase = "insert", ![c].upload = uploads + 1]
    /\ UNCHANGED <<active, stock, used, given, lost>>

NewKeys(c, n) == {Key(call[c].dev, call[c].upload, i) : i \in 1..n}

\* One batch, which the database commits as a whole or not at all; an error of
\* it, where it is seen, is logged only.
InsertKeys(c) ==
    /\ In(c, "insert")
    /\ \E n \in 0..Batch : stock' = stock \cup NewKeys(c, n)
    /\ Ends(c, "ok")
    /\ UNCHANGED <<active, signed, uploads, used, given, lost>>

\* The update fails, with or without effect, or the call is cut off.
UploadFails(c) ==
    /\ In(c, "update") \/ In(c, "insert")
    /\ \/ UNCHANGED <<signed, uploads>>
       \/ In(c, "update") /\ Replace(c)
    /\ Ends(c, "error")
    /\ UNCHANGED <<active, stock, used, given, lost>>

-----------------------------------------------------------------------------
(* Taking a bundle. *)

\* Where the loop over the listed devices goes on with some of them left.
Loop(left) == IF left = {} THEN "answer" ELSE "take"

\* ListActiveByUser: the devices with their signed keys.
ListDevices(c) ==
    /\ Free(c)
    /\ call' = [call EXCEPT ![c] = [Idle EXCEPT !.phase = Loop(active),
                                                !.list = signed, !.left = active]]
    /\ UNCHANGED <<active, signed, uploads, stock, used, given, lost>>

Locked == UNION {call[c].locked : c \in Calls}
Unused(d) == {k \in stock \ used : k.dev = d}

\* The rows are not locked.
AvailableToAll(d) == Unused(d)

\* The rows that FOR UPDATE SKIP LOCKED leaves of a device's unused keys.
Available(d) == Unused(d) \ Locked

Older(j, k) == j.upload < k.upload \/ (j.upload = k.upload /\ j.n < k.n)
Oldest(keys) == {k \in keys : \A j \in keys : ~Older(j, k)}

\* The select of one device, in a transaction of its own: the oldest key that
\* is left is locked.
SelectKey(c, d) ==
    /\ In(c, "take")
    /\ d \in call[c].left
    /\ \E k \in Oldest(Available(d)) :
         call' = [call EXCEPT ![c].phase = "mark", ![c].locked = {k}, ![c].left = @ \ {d}]
    /\ UNCHANGED <<active, signed, uploads, stock, used, given, lost>>

\* It returns no row: the device is in the bundle without a one-time key.
NoKeyLeft(c, d) ==
    /\ In(c, "take")
    /\ d \in call[c].left
    /\ Available(d) = {}
    /\ call' = [call EXCEPT ![c].phase = Loop(call[c].left \ {d}), ![c].left = @ \ {d}]
    /\ UNCHANGED <<active, signed, uploads, stock, used, given, lost>>

\* The key is marked and the transaction committed.
MarkUsed(c) ==
    /\ In(c, "mark")
    /\ used' = used \cup call[c].locked
    /\ call' = [call EXCEPT ![c].phase = Loop(call[c].left),
                            ![c].locked = {}, ![c].got = @ \cup call[c].locked]
    /\ UNCHANGED <<active, signed, uploads, stock, given, lost>>

Answer(c) ==
    /\ In(c, "answer")
    /\ given' = given \cup call[c].got
    /\ Ends(c, "ok")
    /\ UNCHANGED <<active, signed, uploads, stock, used, lost>>

\* The keys taken so far are put back.
BundleFailsReturning(c) ==
    /\ call[c].phase \in {"take", "mark", "answer"}
    /\ used' = used \ call[c].got
    /\ lost' = lost \cup call[c].got
    /\ Ends(c, "error")
    /\ UNCHANGED <<active, signed, uploads, stock, given>>

\* A statement fails or the call is cut off: the transaction is rolled back,
\* unless the error hides a commit, and the bundle is dropped with the keys of
\* the devices before.
BundleFails(c) ==
    /\ call[c].phase \in {"take", "mark", "answer"}
    /\ \E k \in {{}, call[c].locked} :
         /\ used' = used \cup k
         /\ lost' = lost \cup call[c].got \cup k
    /\ Ends(c, "error")
    /\ UNCHANGED <<active, signed, uploads, stock, given>>

-----------------------------------------------------------------------------
\* A device is deactivated meanwhile.
Deactivate(d) ==
    /\ d \in active
    /\ active' = active \ {d}
    /\ UNCHANGED <<signed, uploads, stock, used, given, lost, call>>

Upload(c) ==
    \/ \E d \in Devices : BeginUpload(c, d)
    \/ UpdateKeys(c) \/ InsertKeys(c) \/ UploadFails(c)

Bundle(c) ==
    \/ ListDevices(c)
    \/ \E d \in Devices : SelectKey(c, d) \/ NoKeyLeft(c, d)
    \/ MarkUsed(c) \/ Answer(c) \/ BundleFails(c)

Next ==
    \/ \E c \in Calls : Upload(c) \/ Bundle(c)
    \/ \E d \in Devices : Deactivate(d)

Spec == Init /\ [][Next]_vars

-----------------------------------------------------------------------------
(* Properties. *)

\* Every variable holds a value of its kind, and a key is used only when it is
\* in the table.
CallRecords == [phase : Phases, dev : Devices \cup {None}, upload : Nat,
                list : [Devices -> Nat], left : SUBSET Devices,
                locked : SUBSET Keys, got : SUBSET Keys]

TypeOK ==
    /\ active \subseteq Devices
    /\ signed \in [Devices -> Nat]
    /\ uploads \in Nat
    /\ stock \subseteq Keys
    /\ used \subseteq stock
    /\ given \subseteq Keys /\ lost \subseteq Keys
    /\ call \in [Calls -> CallRecords]

\* A one-time key is taken by one bundle only, however many bundles of the user
\* run at the same time, fail after the commit of a key or are cut off
\* (otpk_repo_pg.go:35-69): no two bundles hold one, none holds one that a
\* client was given or that went down with another bundle.
TakenOnce ==
    /\ given \cap lost = {}
    /\ \A c \in Calls :
         /\ call[c].got \cap (given \cup lost) = {}
         /\ \A b \in Calls \ {c} : call[b].got \cap call[c].got = {}

\* What used_at says is what happened: every used key was handed out, is in a
\* bundle that is being made, or was lost with one that failed, and none of
\* these can be handed out again (service.go:94-98).
UsedIsTaken == used = given \cup lost \cup UNION {call[c].got : c \in Calls}

\* The keys of an upload come after its identity key: a bundle holds a
\* one-time key of a later upload than the identity key it shows only when the
\* device row was replaced since the bundle listed it (service.go:63-77).
NotAheadOfRow ==
    /\ \A k \in stock : k.upload <= signed[k.dev]
    /\ \A c \in Calls : \A k \in call[c].got :
         k.upload > call[c].list[k.dev] => signed[k.dev] > call[c].list[k.dev]

\* However bundles and uploads overlap and fail, a key is taken once and the
\* table knows what became of it (otpk_repo_pg.go:35-69, service.go:94-98).
KeysAreSpentOnce == TakenOnce /\ UsedIsTaken
=============================================================================
