----------------------------- MODULE Attachments -----------------------------
(****************************************************************************)
(* Uploading an attachment (app/attachments/service.go over                 *)
(* adapters/storage/local_storage.go): a goroutine, the feeder, reads the   *)
(* request's body, hands it through a pipe to the handler, which writes the *)
(* file, and hashes it; then the row is inserted.  Downloads change nothing *)
(* and are left out, and nothing deletes a file or a row.                   *)
(*                                                                          *)
(* Abstractions: a body is a number of units, each read, handed over and    *)
(* written in one piece; a file and a hash are the number of units they     *)
(* hold, the units being taken in order.  Every upload has an id and a file *)
(* of its own.  A type the policy refuses ends the request at once.         *)
(****************************************************************************)
EXTENDS Naturals

CONSTANTS
    Uploads,  \* the uploads, one per new id
    MaxSize,  \* the largest size allowed, in units
    MaxBody,  \* bound: the largest body that is sent
    None

VARIABLES
    stage,    \* what the handler of each upload is doing, or how it ended
    feeder,   \* what its feeder is doing
    body,     \* the size of the body
    claimed,  \* Content-Length, or None
    fed,      \* units the feeder has read
    hashed,   \* units it has hashed
    broken,   \* uploads whose body could not be read to its end
    file,     \* units in the file, or None
    row       \* the row of the attachments table, or None

vars == <<stage, feeder, body, claimed, fed, hashed, broken, file, row>>

Ended == {"created", "notSaved", "notRecorded", "stopped"}
Stages == Ended \cup {"new", "create", "copy", "write", "record"}
FeederStages == {"none", "read", "hand", "hash", "closed"}

Init ==
    /\ stage = [u \in Uploads |-> "new"]
    /\ feeder = [u \in Uploads |-> "none"]
    /\ body = [u \in Uploads |-> 0]
    /\ claimed = [u \in Uploads |-> None]
    /\ fed = [u \in Uploads |-> 0]
    /\ hashed = [u \in Uploads |-> 0]
    /\ broken = {}
    /\ file = [u \in Uploads |-> None]
    /\ row = [u \in Uploads |-> None]

Handler(u, to) == stage' = [stage EXCEPT ![u] = to]
Feeder(u, to) == feeder' = [feeder EXCEPT ![u] = to]

\* The feeder is started with the request.
BeginUpload(u, size, length) ==
    /\ stage[u] = "new"
    /\ body' = [body EXCEPT ![u] = size]
    /\ claimed' = [claimed EXCEPT ![u] = length]
    /\ Handler(u, "create")
    /\ Feeder(u, "read")
    /\ UNCHANGED <<fed, hashed, broken, file, row>>

-----------------------------------------------------------------------------
(* The feeder. *)

\* Faulty variants, here and below, show that the properties notice them: there
\* is no limit.
ReadableUnlimited(u) == body[u]

\* What the limited reader lets through: one unit more than is allowed, and
\* nobody looks whether it was used.
Readable(u) == IF body[u] > MaxSize THEN MaxSize + 1 ELSE body[u]

ReadUnit(u) ==
    /\ feeder[u] = "read"
    /\ fed[u] < Readable(u)
    /\ fed' = [fed EXCEPT ![u] = @ + 1]
    /\ Feeder(u, "hand")
    /\ UNCHANGED <<stage, body, claimed, hashed, broken, file, row>>

\* The end of the body or of what is let through; the pipe is closed.
ReadEnd(u) ==
    /\ feeder[u] = "read"
    /\ fed[u] = Readable(u)
    /\ Feeder(u, "closed")
    /\ UNCHANGED <<stage, body, claimed, fed, hashed, broken, file, row>>

\* The body cannot be read, or the server closed it when the handler had
\* returned: it is logged, and the pipe is closed as at its end.
ReadBreaks(u) ==
    /\ feeder[u] = "read"
    /\ broken' = broken \cup {u}
    /\ Feeder(u, "closed")
    /\ UNCHANGED <<stage, body, claimed, fed, hashed, file, row>>

\* After the pipe, the hash.
Hash(u) ==
    /\ feeder[u] = "hash"
    /\ hashed' = [hashed EXCEPT ![u] = @ + 1]
    /\ Feeder(u, "read")
    /\ UNCHANGED <<stage, body, claimed, fed, broken, file, row>>

-----------------------------------------------------------------------------
(* The handler. *)

CreateFile(u) ==
    /\ stage[u] = "create"
    /\ file' = [file EXCEPT ![u] = 0]
    /\ Handler(u, "copy")
    /\ UNCHANGED <<feeder, body, claimed, fed, hashed, broken, row>>

\* The pipe: the feeder waits until its unit is taken.
TakeUnit(u) ==
    /\ stage[u] = "copy"
    /\ feeder[u] = "hand"
    /\ Handler(u, "write")
    /\ Feeder(u, "hash")
    /\ UNCHANGED <<body, claimed, fed, hashed, broken, file, row>>

WriteUnit(u) ==
    /\ stage[u] = "write"
    /\ file' = [file EXCEPT ![u] = @ + 1]
    /\ Handler(u, "copy")
    /\ UNCHANGED <<feeder, body, claimed, fed, hashed, broken, row>>

\* The handler and not the feeder is the one that is limited.
SavedLimiting(u) ==
    /\ stage[u] = "copy"
    /\ feeder[u] = "closed" \/ file[u] = MaxSize
    /\ Handler(u, "record")
    /\ UNCHANGED <<feeder, body, claimed, fed, hashed, broken, file, row>>

\* The pipe is closed: the file is complete, for all the handler can tell.
Saved(u) ==
    /\ stage[u] = "copy"
    /\ feeder[u] = "closed"
    /\ Handler(u, "record")
    /\ UNCHANGED <<feeder, body, claimed, fed, hashed, broken, file, row>>

\* An error of the copy is not returned.
SaveFailsSilently(u) ==
    /\ stage[u] = "write"
    /\ Handler(u, "record")
    /\ UNCHANGED <<feeder, body, claimed, fed, hashed, broken, file, row>>

\* The directory or the file cannot be made, or not be written to: the request
\* ends and leaves the file as it is, and the pipe open.
SaveFails(u) ==
    /\ stage[u] \in {"create", "write"}
    /\ Handler(u, "notSaved")
    /\ UNCHANGED <<feeder, body, claimed, fed, hashed, broken, file, row>>

InsertRow(u) == row' = [row EXCEPT ![u] = [size |-> claimed[u], hash |-> hashed[u]]]

Record(u) ==
    /\ stage[u] = "record"
    /\ InsertRow(u)
    /\ Handler(u, "created")
    /\ UNCHANGED <<feeder, body, claimed, fed, hashed, broken, file>>

\* The insert fails, with or without effect; the file stays.
RecordFails(u) ==
    /\ stage[u] = "record"
    /\ InsertRow(u) \/ UNCHANGED row
    /\ Handler(u, "notRecorded")
    /\ UNCHANGED <<feeder, body, claimed, fed, hashed, broken, file>>

Restart ==
    /\ stage' = [u \in Uploads |-> IF stage[u] \in Ended \cup {"new"}
                                   THEN stage[u] ELSE "stopped"]
    /\ feeder' = [u \in Uploads |-> IF feeder[u] = "none" THEN "none" ELSE "closed"]
    /\ UNCHANGED <<body, claimed, fed, hashed, broken, file, row>>

Next ==
    \/ \E u \in Uploads :
         \/ \E size \in 0..MaxBody : \E length \in {size, None} : BeginUpload(u, size, length)
         \/ ReadUnit(u) \/ ReadEnd(u) \/ ReadBreaks(u) \/ Hash(u)
         \/ CreateFile(u) \/ TakeUnit(u) \/ WriteUnit(u) \/ Saved(u) \/ SaveFails(u)
         \/ Record(u) \/ RecordFails(u)
    \/ Restart

Spec == Init /\ [][Next]_vars

-----------------------------------------------------------------------------
(* Properties. *)

\* Every variable holds a value of its kind.
Sizes == 0..MaxBody

TypeOK ==
    /\ stage \in [Uploads -> Stages]
    /\ feeder \in [Uploads -> FeederStages]
    /\ body \in [Uploads -> Sizes]
    /\ claimed \in [Uploads -> Sizes \cup {None}]
    /\ fed \in [Uploads -> Sizes]
    /\ hashed \in [Uploads -> Sizes]
    /\ broken \subseteq Uploads
    /\ file \in [Uploads -> Sizes \cup {None}]
    /\ row \in [Uploads -> [size : Sizes \cup {None}, hash : Sizes] \cup {None}]

\* A row tells of the file beside it: its hash is that of all that the file
\* holds, although two goroutines made the two, and its size is the file's
\* unless the body broke or was longer than the limit, which neither the client
\* nor the row is told (service.go:99-131).
RowTellsFile ==
    \A u \in Uploads : row[u] # None =>
        /\ row[u].hash = file[u]
        /\ row[u].size \in {file[u], None} \/ u \in broken \/ body[u] > MaxSize + 1

\* No file outgrows the limit by more than the one unit that was meant to show
\* that it does (service.go:99-102).
FilesLimited == \A u \in Uploads : file[u] # None => file[u] <= MaxSize + 1

\* A feeder outlives its request only when the file could not be made or
\* written; it then waits for a reader for ever (service.go:107-117).
FeederLeftForCause ==
    \A u \in Uploads : stage[u] \in Ended /\ feeder[u] # "closed" => stage[u] = "notSaved"

\* What an upload leaves behind is what it told, however its two goroutines, its
\* failures and a restart fall (service.go:99-139).
UploadIsTold == RowTellsFile /\ FilesLimited /\ FeederLeftForCause
=============================================================================
