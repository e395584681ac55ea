---------------------------- MODULE ServicesProofs ----------------------------
(****************************************************************************)
(* The services of MCServices: what holds of each of them, for any number   *)
(* of requests, devices, connections, uploads, messages and users.          *)
(*                                                                          *)
(* Each service has an inductive invariant over its own variables: that it  *)
(* holds at first, that every step of the service keeps it, and that it     *)
(* gives the type and the properties.  The last part takes these together:  *)
(* a step of ServicesSpec is for each service a step of its own or none, so *)
(* each invariant holds of ServicesSpec, and so do the properties the run   *)
(* checks.  MessageMarks has its proofs in MessageMarksProofs.              *)
(****************************************************************************)
EXTENDS MCServices, MessageMarksProofs, WellFoundedInduction, FiniteSetTheorems,
        SequenceTheorems, TLAPS

-----------------------------------------------------------------------------
(* Pre-keys. *)

\* What the constants are taken to be.
KeyBounds == Batch \in Nat /\ None \notin Devices

\* The keys of a call that makes no bundle are none, and a locked key is locked
\* by one call and not used yet.
KeysHeld ==
    \A c \in Calls :
        /\ call[c].got # {} \/ call[c].locked # {} => call[c].phase \in {"take", "mark", "answer"}
        /\ call[c].locked \subseteq stock \ used
        /\ \A b \in Calls \ {c} : call[b].locked \cap call[c].locked = {}

\* UsedIsTaken, key by key.
KeysAccounted ==
    \A k : k \in used <=> k \in given \/ k \in lost \/ \E c \in Calls : k \in call[c].got

\* Uploads are numbered as their rows are replaced, and their keys come later.
KeysNumbered ==
    /\ \A d \in Devices : signed[d] <= uploads
    /\ \A c \in Calls :
         /\ call[c].phase \in {"update", "insert"} => call[c].dev \in Devices
         /\ call[c].phase = "insert" => call[c].upload <= signed[call[c].dev]
    /\ \A k \in stock : k.upload <= signed[k.dev]

KeysInv == Keys!TypeOK /\ KeysHeld /\ KeysAccounted /\ Keys!TakenOnce /\ KeysNumbered

\* A step of call c leaves the other calls alone.
KeysOthers(c) == \A b \in Calls \ {c} : call'[b] = call[b]

\* Before any call nothing is there.
LEMMA KeysInitIInv == ASSUME KeyBounds, Keys!Init PROVE KeysInv
<1> USE DEF KeyBounds, Keys!Init, Keys!Idle
<1>1. Keys!TypeOK
  BY DEF Keys!TypeOK, Keys!CallRecords, Keys!Phases, Keys!Finished
<1>2. KeysHeld /\ KeysAccounted /\ Keys!TakenOnce
  BY DEF KeysHeld, KeysAccounted, Keys!TakenOnce
<1>3. KeysNumbered
  BY DEF KeysNumbered
<1> QED BY <1>1, <1>2, <1>3 DEF KeysInv

\* Where the loop over the devices may be.
LEMMA LoopPhase == \A s : Keys!Loop(s) \in {"take", "answer"}
  BY DEF Keys!Loop

\* A call begins with no keys.
LEMMA KeysBeginStep ==
    ASSUME KeyBounds, KeysInv, NEW c \in Calls,
           Keys!ListDevices(c) \/ \E d \in Devices : Keys!BeginUpload(c, d)
    PROVE  KeysInv'
<1>0. /\ call[c].got = {} /\ call[c].locked = {}
      /\ UNCHANGED <<active, signed, uploads, stock, used, given, lost>>
  BY DEF Keys!ListDevices, Keys!BeginUpload, Keys!Free, Keys!Finished, KeysInv, KeysHeld
<1>1. /\ KeysOthers(c) /\ call' \in [Calls -> Keys!CallRecords]
      /\ call'[c].got = {} /\ call'[c].locked = {}
      /\ call'[c].phase # "insert" /\ (call'[c].phase = "update" => call'[c].dev \in Devices)
  <2>1. CASE Keys!ListDevices(c)
    <3>1. PICK phase \in {"take", "answer"} :
            call' = [call EXCEPT ![c] =
                       [Keys!Idle EXCEPT !.phase = phase, !.list = signed, !.left = active]]
      BY <2>1, LoopPhase DEF Keys!ListDevices
    <3>2. phase \in Keys!Phases /\ signed \in [Devices -> Nat] /\ active \in SUBSET Devices
      BY DEF KeysInv, Keys!TypeOK, Keys!Phases
    <3> QED BY <3>1, <3>2 DEF Keys!Idle, KeysInv, Keys!TypeOK, Keys!CallRecords, KeysOthers
  <2>2. ASSUME NEW d \in Devices, Keys!BeginUpload(c, d)
        PROVE  /\ KeysOthers(c) /\ call' \in [Calls -> Keys!CallRecords]
               /\ call'[c].got = {} /\ call'[c].locked = {}
               /\ call'[c].phase = "update" /\ call'[c].dev \in Devices
    BY <2>2 DEF Keys!BeginUpload, Keys!Idle, KeysInv, Keys!TypeOK, Keys!CallRecords,
       Keys!Phases, KeysOthers
  <2> QED BY <2>1, <2>2
<1>3. Keys!TypeOK'
  BY <1>0, <1>1 DEF KeysInv, Keys!TypeOK
<1>4. (KeysHeld /\ KeysAccounted /\ Keys!TakenOnce)'
  BY <1>0, <1>1 DEF KeysInv, KeysHeld, KeysAccounted, Keys!TakenOnce, KeysOthers
<1>5. KeysNumbered'
  BY <1>0, <1>1 DEF KeysInv, KeysNumbered, KeysOthers
<1> QED BY <1>3, <1>4, <1>5 DEF KeysInv

\* A step of an upload.
LEMMA KeysUploadStep ==
    ASSUME KeyBounds, KeysInv, NEW c \in Calls,
           Keys!UpdateKeys(c) \/ Keys!InsertKeys(c) \/ Keys!UploadFails(c)
    PROVE  KeysInv'
<1> USE DEF Keys!UpdateKeys, Keys!InsertKeys, Keys!UploadFails, Keys!Replace, Keys!In,
            Keys!Ends, Keys!Idle
<1>0. /\ call[c].got = {} /\ call[c].locked = {} /\ UNCHANGED <<used, given, lost>>
      /\ call[c].dev \in Devices /\ call[c].upload \in Nat
  BY DEF KeysInv, KeysHeld, KeysNumbered, Keys!TypeOK, Keys!CallRecords
<1>1. Keys!TypeOK'
  <2>1. \A n \in 0..Batch : Keys!NewKeys(c, n) \subseteq Keys!Keys
    BY <1>0 DEF KeyBounds, Keys!NewKeys, Keys!Key, Keys!Keys
  <2>2. stock' \subseteq Keys!Keys /\ stock \subseteq stock'
    BY <2>1 DEF KeysInv, Keys!TypeOK
  <2>3. signed' \in [Devices -> Nat] /\ uploads' \in Nat
    BY <1>0 DEF KeysInv, Keys!TypeOK
  <2>4. call' \in [Calls -> Keys!CallRecords]
    <3>1. CASE Keys!UpdateKeys(c)
      <4>1. PICK n \in Nat : call' = [call EXCEPT ![c].phase = "insert", ![c].upload = n]
        BY <3>1, <2>3 DEF KeysInv, Keys!TypeOK
      <4>2. /\ call[c] \in Keys!CallRecords /\ call \in [Calls -> Keys!CallRecords]
            /\ "insert" \in Keys!Phases
        BY DEF KeysInv, Keys!TypeOK, Keys!Phases
      <4> HIDE DEF Keys!UpdateKeys, Keys!InsertKeys, Keys!UploadFails, Keys!Replace,
      Keys!In, Keys!Ends, Keys!Idle
      <4> QED BY <4>1, <4>2 DEF Keys!CallRecords
    <3>2. ASSUME NEW result \in Keys!Finished, Keys!Ends(c, result)
          PROVE  call' \in [Calls -> Keys!CallRecords]
      BY <3>2 DEF KeysInv, Keys!TypeOK, Keys!CallRecords, Keys!Phases, Keys!Finished
    <3> QED BY <3>1, <3>2 DEF Keys!Finished
  <2> QED BY <2>2, <2>3, <2>4, <1>0 DEF KeysInv, Keys!TypeOK
<1>2. KeysOthers(c) /\ call'[c].got = {} /\ call'[c].locked = {} /\ stock \subseteq stock'
  BY <1>0 DEF KeysInv, Keys!TypeOK, Keys!CallRecords, KeysOthers
<1>3. (KeysHeld /\ KeysAccounted /\ Keys!TakenOnce)'
  BY <1>0, <1>2 DEF KeysInv, KeysHeld, KeysAccounted, Keys!TakenOnce, KeysOthers
<1>4. KeysNumbered'
  <2>1. /\ uploads \in Nat /\ uploads' \in Nat /\ uploads <= uploads'
        /\ \A d \in Devices : /\ signed[d] \in Nat /\ signed'[d] \in Nat
                              /\ signed[d] <= signed'[d] /\ signed'[d] <= uploads'
    BY <1>0 DEF KeysInv, Keys!TypeOK, KeysNumbered
  <2>2. \A k \in stock' : k.dev \in Devices /\ k.upload <= signed'[k.dev]
    BY <1>0, <2>1 DEF KeysInv, Keys!TypeOK, KeysNumbered, Keys!NewKeys, Keys!Key, Keys!Keys
  <2>3. \A b \in Calls \ {c} :
          /\ call'[b].phase \in {"update", "insert"} => call'[b].dev \in Devices
          /\ call'[b].phase = "insert" => call'[b].upload <= signed'[call'[b].dev]
    BY <1>2, <2>1 DEF KeysInv, Keys!TypeOK, Keys!CallRecords, KeysNumbered, KeysOthers
  <2>4. /\ call'[c].phase \in {"update", "insert"} => call'[c].dev \in Devices
        /\ call'[c].phase = "insert" => call'[c].upload <= signed'[call'[c].dev]
    BY <1>0, <2>1 DEF KeysInv, Keys!TypeOK, Keys!CallRecords
  <2> QED BY <2>1, <2>2, <2>3, <2>4 DEF KeysNumbered
<1> QED BY <1>1, <1>3, <1>4 DEF KeysInv

\* A step of a bundle leaves the uploads alone.
LEMMA KeysBundleNumbered ==
    ASSUME KeysInv, NEW c \in Calls, KeysOthers(c), call'[c].phase \notin {"update", "insert"},
           UNCHANGED <<signed, uploads, stock>>
    PROVE  KeysNumbered'
  BY DEF KeysInv, KeysNumbered, KeysOthers

\* The select of one device locks a key that nobody else has.
LEMMA KeysSelectStep ==
    ASSUME KeyBounds, KeysInv, NEW c \in Calls, NEW d \in Devices, Keys!SelectKey(c, d)
    PROVE  KeysInv'
<1>0. /\ UNCHANGED <<active, signed, uploads, stock, used, given, lost>>
      /\ call[c] \in Keys!CallRecords /\ call[c].phase = "take"
  BY DEF KeysInv, Keys!TypeOK, Keys!SelectKey, Keys!In
<1>1. PICK k \in Keys!Available(d) :
        call' = [call EXCEPT ![c].phase = "mark", ![c].locked = {k}, ![c].left = @ \ {d}]
  BY DEF Keys!SelectKey, Keys!Oldest
<1>2. k \in stock \ used /\ k \in Keys!Keys /\ \A b \in Calls : k \notin call[b].locked
  BY <1>1 DEF Keys!Available, Keys!Unused, Keys!Locked, KeysInv, Keys!TypeOK
<1>3. /\ KeysOthers(c)
      /\ call'[c].phase = "mark" /\ call'[c].locked = {k} /\ call'[c].got = call[c].got
      /\ call' \in [Calls -> Keys!CallRecords]
  BY <1>0, <1>1, <1>2 DEF KeysInv, Keys!TypeOK, Keys!CallRecords, Keys!Phases, KeysOthers
<1>4. Keys!TypeOK'
  BY <1>0, <1>3 DEF KeysInv, Keys!TypeOK
<1>5. (KeysHeld /\ KeysAccounted /\ Keys!TakenOnce)'
  BY <1>0, <1>2, <1>3 DEF KeysInv, KeysHeld, KeysAccounted, Keys!TakenOnce, KeysOthers
<1> QED BY <1>0, <1>3, <1>4, <1>5, KeysBundleNumbered DEF KeysInv

\* A device without a key changes nothing but the devices that are left.
LEMMA KeysNoKeyStep ==
    ASSUME KeyBounds, KeysInv, NEW c \in Calls, NEW d \in Devices, Keys!NoKeyLeft(c, d)
    PROVE  KeysInv'
<1>0. /\ UNCHANGED <<active, signed, uploads, stock, used, given, lost>>
      /\ call[c] \in Keys!CallRecords /\ call[c].phase = "take"
  BY DEF KeysInv, Keys!TypeOK, Keys!NoKeyLeft, Keys!In
<1>1. PICK phase \in {"take", "answer"} :
        call' = [call EXCEPT ![c].phase = phase, ![c].left = @ \ {d}]
  BY LoopPhase DEF Keys!NoKeyLeft
<1>2. /\ KeysOthers(c)
      /\ call'[c].phase = phase /\ call'[c].locked = call[c].locked /\ call'[c].got = call[c].got
      /\ call' \in [Calls -> Keys!CallRecords]
  BY <1>0, <1>1 DEF KeysInv, Keys!TypeOK, Keys!CallRecords, Keys!Phases, KeysOthers
<1>3. Keys!TypeOK'
  BY <1>0, <1>2 DEF KeysInv, Keys!TypeOK
<1>4. (KeysHeld /\ KeysAccounted /\ Keys!TakenOnce)'
  BY <1>0, <1>2 DEF KeysInv, KeysHeld, KeysAccounted, Keys!TakenOnce, KeysOthers
<1> QED BY <1>0, <1>2, <1>3, <1>4, KeysBundleNumbered DEF KeysInv

\* A key goes from the locked ones to those the call has, and is used.
LEMMA KeysMarkStep ==
    ASSUME KeyBounds, KeysInv, NEW c \in Calls, Keys!MarkUsed(c)
    PROVE  KeysInv'
<1>0. /\ UNCHANGED <<active, signed, uploads, stock, given, lost>>
      /\ used' = used \cup call[c].locked
      /\ call[c] \in Keys!CallRecords
  BY DEF KeysInv, Keys!TypeOK, Keys!MarkUsed, Keys!In
<1>1. PICK phase \in {"take", "answer"} :
        call' = [call EXCEPT ![c].phase = phase,
                             ![c].locked = {}, ![c].got = @ \cup call[c].locked]
  BY LoopPhase DEF Keys!MarkUsed
<1>2. /\ KeysOthers(c)
      /\ call'[c].phase = phase /\ call'[c].locked = {}
      /\ call'[c].got = call[c].got \cup call[c].locked
      /\ call' \in [Calls -> Keys!CallRecords]
  BY <1>0, <1>1 DEF KeysInv, Keys!TypeOK, Keys!CallRecords, Keys!Phases, KeysOthers
<1>3. Keys!TypeOK'
  BY <1>0, <1>2 DEF KeysInv, Keys!TypeOK, KeysHeld
<1>4. \A k \in call[c].locked :
         k \notin given /\ k \notin lost /\ \A b \in Calls : k \notin call[b].got
  BY DEF KeysInv, KeysHeld, KeysAccounted
<1>5. KeysHeld'
  BY <1>0, <1>2 DEF KeysInv, KeysHeld, KeysOthers
<1>6. KeysAccounted' /\ Keys!TakenOnce'
  BY <1>0, <1>2, <1>4 DEF KeysInv, KeysAccounted, Keys!TakenOnce, KeysOthers
<1> QED BY <1>0, <1>2, <1>3, <1>5, <1>6, KeysBundleNumbered DEF KeysInv

\* The keys of a bundle are handed out.
LEMMA KeysAnswerStep ==
    ASSUME KeyBounds, KeysInv, NEW c \in Calls, Keys!Answer(c)
    PROVE  KeysInv'
<1>0. /\ UNCHANGED <<active, signed, uploads, stock, used, lost>>
      /\ given' = given \cup call[c].got
      /\ call[c] \in Keys!CallRecords
  BY DEF KeysInv, Keys!TypeOK, Keys!Answer
<1>1. /\ KeysOthers(c)
      /\ call'[c].phase = "ok" /\ call'[c].locked = {} /\ call'[c].got = {}
      /\ call' \in [Calls -> Keys!CallRecords]
  BY <1>0 DEF KeyBounds, Keys!Answer, Keys!Ends, Keys!Idle, KeysInv, Keys!TypeOK,
     Keys!CallRecords, Keys!Phases, Keys!Finished, KeysOthers
<1>2. Keys!TypeOK'
  BY <1>0, <1>1 DEF KeysInv, Keys!TypeOK, Keys!CallRecords
<1>3. (KeysHeld /\ KeysAccounted /\ Keys!TakenOnce)'
  BY <1>0, <1>1 DEF KeysInv, KeysHeld, KeysAccounted, Keys!TakenOnce, KeysOthers
<1> QED BY <1>0, <1>1, <1>2, <1>3, KeysBundleNumbered DEF KeysInv

\* A bundle fails, and what it has or may have taken is lost.
LEMMA KeysFailStep ==
    ASSUME KeyBounds, KeysInv, NEW c \in Calls, Keys!BundleFails(c)
    PROVE  KeysInv'
<1>0. /\ UNCHANGED <<active, signed, uploads, stock, given>>
      /\ call[c] \in Keys!CallRecords
  BY DEF KeysInv, Keys!TypeOK, Keys!BundleFails
<1>1. PICK k \in {{}, call[c].locked} :
        used' = used \cup k /\ lost' = lost \cup call[c].got \cup k
  BY DEF Keys!BundleFails
<1>2. /\ KeysOthers(c)
      /\ call'[c].phase = "error" /\ call'[c].locked = {} /\ call'[c].got = {}
      /\ call' \in [Calls -> Keys!CallRecords]
  BY <1>0 DEF KeyBounds, Keys!BundleFails, Keys!Ends, Keys!Idle, KeysInv, Keys!TypeOK,
     Keys!CallRecords, Keys!Phases, Keys!Finished, KeysOthers
<1>3. Keys!TypeOK'
  BY <1>0, <1>1, <1>2 DEF KeysInv, Keys!TypeOK, Keys!CallRecords, KeysHeld
<1>4. \A j \in call[c].locked :
         j \notin given /\ j \notin lost /\ \A b \in Calls : j \notin call[b].got
  BY DEF KeysInv, KeysHeld, KeysAccounted
<1>5. KeysHeld'
  BY <1>0, <1>1, <1>2 DEF KeysInv, KeysHeld, KeysOthers
<1>6. KeysAccounted' /\ Keys!TakenOnce'
  BY <1>0, <1>1, <1>2, <1>4 DEF KeysInv, KeysAccounted, Keys!TakenOnce, KeysOthers
<1> QED BY <1>0, <1>2, <1>3, <1>5, <1>6, KeysBundleNumbered DEF KeysInv

\* Every step keeps the invariant.
LEMMA KeysStepIInv == ASSUME KeyBounds, KeysInv, [Keys!Next]_keysVars PROVE KeysInv'
<1>1. CASE UNCHANGED keysVars
  BY <1>1 DEF keysVars, KeysInv, Keys!TypeOK, KeysHeld, KeysAccounted, Keys!TakenOnce,
     KeysNumbered
<1>2. ASSUME NEW d \in Devices, Keys!Deactivate(d) PROVE KeysInv'
  BY <1>2 DEF Keys!Deactivate, KeysInv, Keys!TypeOK, KeysHeld, KeysAccounted,
     Keys!TakenOnce, KeysNumbered
<1>3. ASSUME NEW c \in Calls, Keys!Upload(c) PROVE KeysInv'
  BY <1>3, KeysBeginStep, KeysUploadStep DEF Keys!Upload
<1>4. ASSUME NEW c \in Calls, Keys!Bundle(c) PROVE KeysInv'
  BY <1>4, KeysBeginStep, KeysSelectStep, KeysNoKeyStep, KeysMarkStep, KeysAnswerStep,
     KeysFailStep DEF Keys!Bundle
<1> QED BY <1>1, <1>2, <1>3, <1>4 DEF Keys!Next

\* What the bundles were given is what the clients, the failed bundles and the
\* calls have.
LEMMA KeysIInvSuffices == ASSUME KeysInv PROVE Keys!TypeOK /\ Keys!TakenOnce /\ Keys!UsedIsTaken
<1>1. Keys!UsedIsTaken
  BY DEF KeysInv, KeysAccounted, Keys!UsedIsTaken
<1> QED BY <1>1 DEF KeysInv

\* A key that a call has came to the table after its device's row was replaced.
LEMMA KeysIInvOrders == ASSUME KeysInv PROVE Keys!NotAheadOfRow
<1>1. ASSUME NEW c \in Calls, NEW k \in call[c].got,
             k.upload > call[c].list[k.dev]
      PROVE  signed[k.dev] > call[c].list[k.dev]
  <2>1. k \in stock /\ k \in Keys!Keys /\ k.upload <= signed[k.dev]
    BY DEF KeysInv, KeysAccounted, Keys!TypeOK, KeysNumbered
  <2>2. k.upload \in Nat /\ k.dev \in Devices /\ signed[k.dev] \in Nat
        /\ call[c].list[k.dev] \in Nat
    BY <2>1 DEF KeysInv, Keys!TypeOK, Keys!Keys, Keys!CallRecords
  <2> QED BY <1>1, <2>1, <2>2
<1> QED BY <1>1 DEF Keys!NotAheadOfRow, KeysInv, KeysNumbered

-----------------------------------------------------------------------------
(* Attachments. *)

\* What the constants are taken to be: sizes are numbers, and None is not one.
FileBounds == MaxSize \in Nat /\ MaxBody \in Nat /\ None \notin Nat

FilesTyped ==
    /\ stage \in [Uploads -> Files!Stages]
    /\ feeder \in [Uploads -> Files!FeederStages]
    /\ body \in [Uploads -> Files!Sizes]
    /\ claimed \in [Uploads -> Files!Sizes \cup {None}]
    /\ fed \in [Uploads -> Nat]
    /\ hashed \in [Uploads -> Nat]
    /\ broken \subseteq Uploads
    /\ file \in [Uploads -> Nat \cup {None}]
    /\ row \in [Uploads -> [size : Files!Sizes \cup {None}, hash : Nat] \cup {None}]

\* The unit that the feeder has read and not yet hashed, and whether the handler
\* has it already.
FilesUnhashed(u) == IF feeder[u] \in {"hand", "hash"} THEN 1 ELSE 0
FilesTaken(u) == IF feeder[u] = "hash" THEN 1 ELSE 0

\* What was read is at least what was hashed and what was written, and is no
\* more than the limit lets through.
FilesCounts(u) ==
    /\ fed[u] <= Files!Readable(u)
    /\ hashed[u] <= fed[u]
    /\ feeder[u] # "closed" => fed[u] = hashed[u] + FilesUnhashed(u)
    /\ file[u] # None => file[u] <= fed[u]

\* Where the handler and its feeder are to each other.
FilesPaired(u) ==
    /\ stage[u] = "new" => feeder[u] = "none"
    /\ stage[u] \in {"new", "create"} => file[u] = None /\ hashed[u] = 0 /\ feeder[u] # "hash"
    /\ stage[u] \in {"copy", "write", "record", "created", "notRecorded"} => file[u] # None
    /\ stage[u] = "copy" => file[u] = hashed[u] + FilesTaken(u)
    /\ stage[u] = "write" => file[u] + 1 = hashed[u] + FilesTaken(u)
    /\ stage[u] \in {"record", "created", "notRecorded"} =>
          feeder[u] = "closed" /\ file[u] = hashed[u]
    /\ stage[u] = "stopped" => feeder[u] = "closed"
    /\ feeder[u] = "none" => stage[u] = "new"

\* A feeder that is done has read all it can, or failed to.
FilesEnding(u) ==
    /\ claimed[u] \in {body[u], None} \/ stage[u] = "new"
    /\ feeder[u] = "closed" /\ stage[u] \notin {"notSaved", "stopped"} =>
          fed[u] = hashed[u] /\ (u \in broken \/ fed[u] = Files!Readable(u))
    /\ row[u] # None =>
          stage[u] \in {"created", "notRecorded"} /\ row[u].size = claimed[u]
             /\ row[u].hash = hashed[u]

FilesGood(u) == FilesCounts(u) /\ FilesPaired(u) /\ FilesEnding(u)

FilesInv == FilesTyped /\ \A u \in Uploads : FilesGood(u)

\* Before any upload nothing is there.
LEMMA FilesInitIInv == ASSUME FileBounds, Files!Init PROVE FilesInv
<1>1. FilesTyped
  BY DEF FileBounds, Files!Init, FilesTyped, Files!Stages, Files!Ended, Files!FeederStages,
     Files!Sizes
<1>2. ASSUME NEW u \in Uploads PROVE FilesGood(u)
  BY DEF FileBounds, Files!Init, FilesGood, FilesCounts, FilesPaired, FilesEnding,
     Files!Readable, FilesUnhashed, FilesTaken, Files!Ended
<1> QED BY <1>1, <1>2 DEF FilesInv

\* A step that leaves an upload alone keeps what holds of it.
FilesSame(u) ==
    /\ stage'[u] = stage[u] /\ feeder'[u] = feeder[u]
    /\ body'[u] = body[u] /\ claimed'[u] = claimed[u]
    /\ fed'[u] = fed[u] /\ hashed'[u] = hashed[u]
    /\ u \in broken' <=> u \in broken
    /\ file'[u] = file[u] /\ row'[u] = row[u]

\* An upload that did not move is as good as it was.
LEMMA FilesSameStep == ASSUME NEW u, FilesGood(u), FilesSame(u) PROVE FilesGood(u)'
  BY DEF FilesGood, FilesSame, FilesCounts, FilesPaired, FilesEnding, Files!Readable,
     FilesUnhashed, FilesTaken

\* The request begins.
LEMMA FilesBeginStep ==
    ASSUME FileBounds, FilesInv, NEW u \in Uploads, NEW size \in Files!Sizes,
           NEW length \in {size, None}, Files!BeginUpload(u, size, length)
    PROVE  FilesInv'
<1> USE DEF Files!BeginUpload, Files!Handler, Files!Feeder
<1>1. FilesTyped'
  BY DEF FileBounds, FilesInv, FilesTyped, Files!Stages, Files!FeederStages, Files!Sizes
<1>2. ASSUME NEW v \in Uploads \ {u} PROVE FilesGood(v)'
  BY FilesSameStep DEF FilesInv, FilesTyped, FilesGood, FilesSame
<1>3. FilesGood(u)'
  BY DEF FileBounds, FilesInv, FilesTyped, Files!Sizes, FilesGood, FilesCounts,
     FilesPaired, FilesEnding, Files!Readable, FilesUnhashed, FilesTaken
<1> QED BY <1>1, <1>2, <1>3 DEF FilesInv

\* A step of the feeder of one upload.
FilesFeederStep(u) == Files!ReadUnit(u) \/ Files!ReadEnd(u) \/ Files!ReadBreaks(u) \/ Files!Hash(u)

\* The feeder of an upload keeps the invariant.
LEMMA FilesFeederSteps ==
    ASSUME FileBounds, FilesInv, NEW u \in Uploads, FilesFeederStep(u) PROVE FilesInv'
<1> USE DEF FilesFeederStep, Files!ReadUnit, Files!ReadEnd, Files!ReadBreaks, Files!Hash,
            Files!Feeder
<1>1. FilesTyped'
  BY DEF FilesInv, FilesTyped, Files!FeederStages
<1>2. ASSUME NEW v \in Uploads \ {u} PROVE FilesGood(v)'
  BY FilesSameStep DEF FilesInv, FilesTyped, FilesGood, FilesSame
<1>3. FilesGood(u)'
  BY DEF FileBounds, FilesInv, FilesTyped, Files!Sizes, FilesGood, FilesCounts,
     FilesPaired, FilesEnding, Files!Readable, FilesUnhashed, FilesTaken
<1> QED BY <1>1, <1>2, <1>3 DEF FilesInv

\* A step of the handler of one upload.
FilesHandlerStep(u) ==
    \/ Files!CreateFile(u) \/ Files!TakeUnit(u) \/ Files!WriteUnit(u) \/ Files!Saved(u)
    \/ Files!SaveFails(u) \/ Files!Record(u) \/ Files!RecordFails(u)

\* The handler of an upload keeps the invariant.
LEMMA FilesHandlerSteps ==
    ASSUME FileBounds, FilesInv, NEW u \in Uploads, FilesHandlerStep(u) PROVE FilesInv'
<1> USE DEF FilesHandlerStep, Files!CreateFile, Files!TakeUnit, Files!WriteUnit,
            Files!Saved, Files!SaveFails, Files!Record,
            Files!RecordFails, Files!InsertRow, Files!Handler, Files!Feeder
<1>1. FilesTyped'
  BY DEF FileBounds, FilesInv, FilesTyped, FilesGood, FilesPaired, Files!Stages,
     Files!Ended, Files!FeederStages
<1>2. ASSUME NEW v \in Uploads \ {u} PROVE FilesGood(v)'
  BY FilesSameStep DEF FilesInv, FilesTyped, FilesGood, FilesSame
<1>3. FilesGood(u)'
  BY DEF FileBounds, FilesInv, FilesTyped, Files!Sizes, FilesGood, FilesCounts,
     FilesPaired, FilesEnding, Files!Readable, FilesUnhashed, FilesTaken
<1> QED BY <1>1, <1>2, <1>3 DEF FilesInv

\* The server stops.
LEMMA FilesRestartStep == ASSUME FileBounds, FilesInv, Files!Restart PROVE FilesInv'
<1>1. FilesTyped'
  BY DEF FilesInv, FilesTyped, Files!Restart, Files!Stages, Files!Ended, Files!FeederStages
<1>2. ASSUME NEW u \in Uploads PROVE FilesGood(u)'
  BY DEF FileBounds, FilesInv, FilesTyped, Files!Sizes, Files!Restart, Files!Ended,
     FilesGood, FilesCounts, FilesPaired, FilesEnding, Files!Readable,
         FilesUnhashed, FilesTaken
<1> QED BY <1>1, <1>2 DEF FilesInv

\* Every step keeps the invariant.
LEMMA FilesStepIInv == ASSUME FileBounds, FilesInv, [Files!Next]_filesVars PROVE FilesInv'
<1>1. CASE UNCHANGED filesVars
  BY <1>1 DEF filesVars, FilesInv, FilesTyped, FilesGood, FilesCounts, FilesPaired,
     FilesEnding, Files!Readable, FilesUnhashed, FilesTaken
<1>2. CASE Files!Restart
  BY <1>2, FilesRestartStep
<1>3. ASSUME NEW u \in Uploads, FilesFeederStep(u) \/ FilesHandlerStep(u) PROVE FilesInv'
  BY <1>3, FilesFeederSteps, FilesHandlerSteps
<1>4. ASSUME NEW u \in Uploads, NEW size \in 0..MaxBody, NEW length \in {size, None},
             Files!BeginUpload(u, size, length)
      PROVE  FilesInv'
  BY <1>4, FilesBeginStep DEF Files!Sizes
<1> QED BY <1>1, <1>2, <1>3, <1>4 DEF Files!Next, FilesFeederStep, FilesHandlerStep

\* What the invariant says of sizes is what the properties ask for.
LEMMA FilesIInvSuffices ==
    ASSUME FileBounds, FilesInv
    PROVE  Files!TypeOK /\ Files!RowTellsFile /\ Files!FilesLimited /\ Files!FeederLeftForCause
<1>1. ASSUME NEW u \in Uploads
      PROVE  /\ fed[u] \in Files!Sizes /\ hashed[u] \in Files!Sizes
             /\ file[u] \in Files!Sizes \cup {None}
             /\ row[u] # None => row[u] \in [size : Files!Sizes \cup {None}, hash : Files!Sizes]
             /\ file[u] # None => file[u] <= MaxSize + 1
  BY DEF FileBounds, FilesInv, FilesTyped, FilesGood, FilesCounts, FilesEnding,
     Files!Readable, Files!Sizes
<1>2. Files!TypeOK
  BY <1>1 DEF Files!TypeOK, FilesInv, FilesTyped
<1>3. Files!RowTellsFile
  BY DEF Files!RowTellsFile, FileBounds, FilesInv, FilesTyped, FilesGood, FilesCounts,
     FilesPaired, FilesEnding, Files!Readable, Files!Sizes
<1>4. Files!FilesLimited
  BY <1>1 DEF Files!FilesLimited
<1>5. Files!FeederLeftForCause
  BY DEF Files!FeederLeftForCause, FilesInv, FilesTyped, FilesGood, FilesPaired, Files!Ended
<1> QED BY <1>2, <1>3, <1>4, <1>5

-----------------------------------------------------------------------------
(* Presence. *)

\* What the constant is taken to be: the key outlives a heartbeat.
OnlineBounds == TTL \in Nat /\ TTL > 1

\* There is no writer before the handler is served, and none is due that is not
\* running.
WriterStarts == \A c \in Conns : pc[c] \in {"mark", "greet", "sync"} => writer[c] = "none"

\* Without a cause, the key lives while a handler is present, and outlives the
\* next heartbeat unless its writer is about to refresh it.
KeyLives ==
    \A c \in Conns : why = {} /\ Online!Present(c) =>
        /\ ttl > 0
        /\ c \notin due /\ writer[c] # "ended" => ttl > 1

\* A key that is there is somebody's, or was left behind.
KeyIsSomebodys == ttl > 0 => owed \/ \E c \in Conns : Online!Present(c)

OnlineKinds ==
    /\ ttl \in 0..TTL
    /\ pc \in [Conns -> Online!HandlerPC]
    /\ writer \in [Conns -> Online!WriterPC]
    /\ due \subseteq {c \in Conns : Online!Running(c)}
    /\ why \subseteq {"left", "failed", "slow"}

OnlineInv == OnlineKinds /\ owed \in BOOLEAN /\ WriterStarts /\ KeyLives /\ KeyIsSomebodys

\* Before any connection there is no key.
LEMMA OnlineInitInv == ASSUME OnlineBounds, Online!Init PROVE OnlineInv
<1> USE DEF OnlineBounds, Online!Init
<1>1. OnlineKinds
  BY DEF OnlineKinds, Online!HandlerPC, Online!WriterPC
<1>2. WriterStarts /\ KeyLives /\ KeyIsSomebodys
  BY DEF WriterStarts, KeyLives, KeyIsSomebodys, Online!Present
<1>3. owed \in BOOLEAN
  OBVIOUS
<1> QED BY <1>1, <1>2, <1>3 DEF OnlineInv

\* Every step keeps the invariant.
LEMMA OnlineStepInv == ASSUME OnlineBounds, OnlineInv, [Online!Next]_onlineVars PROVE OnlineInv'
<1> USE DEF OnlineBounds, OnlineInv, OnlineKinds, Online!HandlerPC, Online!WriterPC,
            Online!Running,
            Online!Present, WriterStarts, KeyLives, KeyIsSomebodys, Online!GoTo, Online!SetKey,
            Online!KeepKey, Online!Blame, Online!RefreshKey, Online!DeleteKey, Online!Stops
<1>1. ASSUME NEW c \in Conns, Online!Connect(c) PROVE OnlineInv'
  BY <1>1 DEF Online!Connect
<1>2. ASSUME NEW c \in Conns, Online!SetOnline(c) PROVE OnlineInv'
  <2>1. OnlineKinds'
    <3>1. ttl' \in 0..TTL
      BY <1>2 DEF Online!SetOnline
    <3>2. pc' \in [Conns -> Online!HandlerPC] /\ writer' \in [Conns -> Online!WriterPC]
      BY <1>2 DEF Online!SetOnline
    <3>3. due' \subseteq {b \in Conns : Online!Running(b)'}
      BY <1>2 DEF Online!SetOnline
    <3>4. why' \subseteq {"left", "failed", "slow"}
      BY <1>2 DEF Online!SetOnline
    <3> QED BY <3>1, <3>2, <3>3, <3>4
  <2>2. owed' \in BOOLEAN
    BY <1>2 DEF Online!SetOnline
  <2>3. WriterStarts'
    BY <1>2 DEF Online!SetOnline
  <2>4. KeyLives'
    BY <1>2 DEF Online!SetOnline
  <2>5. KeyIsSomebodys'
    BY <1>2 DEF Online!SetOnline
  <2> QED BY <2>1, <2>2, <2>3, <2>4, <2>5
<1>3. ASSUME NEW c \in Conns, Online!Greet(c) PROVE OnlineInv'
  <2>1. OnlineKinds'
    BY <1>3 DEF Online!Greet
  <2>2. owed' \in BOOLEAN
    BY <1>3 DEF Online!Greet
  <2>3. WriterStarts'
    BY <1>3 DEF Online!Greet
  <2>4. KeyLives'
    BY <1>3 DEF Online!Greet
  <2>5. KeyIsSomebodys'
    BY <1>3 DEF Online!Greet
  <2> QED BY <2>1, <2>2, <2>3, <2>4, <2>5
<1>4. ASSUME NEW c \in Conns, Online!InitialSync(c) PROVE OnlineInv'
  BY <1>4 DEF Online!InitialSync
<1>5. ASSUME NEW c \in Conns, Online!Ping(c) PROVE OnlineInv'
  BY <1>5 DEF Online!Ping
<1>6. ASSUME NEW c \in Conns, Online!Pong(c) PROVE OnlineInv'
  BY <1>6 DEF Online!Pong
<1>7. ASSUME NEW c \in Conns, Online!ReaderEnds(c) PROVE OnlineInv'
  <2>1. OnlineKinds'
    BY <1>7 DEF Online!ReaderEnds
  <2>2. owed' \in BOOLEAN
    BY <1>7 DEF Online!ReaderEnds
  <2>3. WriterStarts'
    BY <1>7 DEF Online!ReaderEnds
  <2>4. KeyLives'
    BY <1>7 DEF Online!ReaderEnds
  <2>5. KeyIsSomebodys'
    BY <1>7 DEF Online!ReaderEnds
  <2> QED BY <2>1, <2>2, <2>3, <2>4, <2>5
<1>8. ASSUME NEW c \in Conns, Online!SetOffline(c) PROVE OnlineInv'
  <2>1. OnlineKinds'
    <3>1. ttl' \in 0..TTL
      BY <1>8 DEF Online!SetOffline
    <3>2. pc' \in [Conns -> Online!HandlerPC] /\ writer' \in [Conns -> Online!WriterPC]
      BY <1>8 DEF Online!SetOffline
    <3>3. due' \subseteq {b \in Conns : Online!Running(b)'}
      BY <1>8 DEF Online!SetOffline
    <3>4. why' \subseteq {"left", "failed", "slow"}
      BY <1>8 DEF Online!SetOffline
    <3> QED BY <3>1, <3>2, <3>3, <3>4
  <2>2. owed' \in BOOLEAN
    BY <1>8 DEF Online!SetOffline
  <2>3. WriterStarts'
    BY <1>8 DEF Online!SetOffline
  <2>4. KeyLives'
    BY <1>8 DEF Online!SetOffline
  <2>5. KeyIsSomebodys'
    BY <1>8 DEF Online!SetOffline
  <2> QED BY <2>1, <2>2, <2>3, <2>4, <2>5
<1>9. ASSUME NEW c \in Conns, Online!Farewell(c) PROVE OnlineInv'
  BY <1>9 DEF Online!Farewell
<1>10. ASSUME NEW c \in Conns, Online!Unwind(c) PROVE OnlineInv'
  BY <1>10 DEF Online!Unwind
<1>11. ASSUME NEW c \in Conns, Online!Heartbeat(c) PROVE OnlineInv'
  <2>1. OnlineKinds'
    <3>1. ttl' \in 0..TTL
      BY <1>11 DEF Online!Heartbeat
    <3>2. pc' \in [Conns -> Online!HandlerPC] /\ writer' \in [Conns -> Online!WriterPC]
      BY <1>11 DEF Online!Heartbeat
    <3>3. due' \subseteq {b \in Conns : Online!Running(b)'}
      BY <1>11 DEF Online!Heartbeat
    <3>4. why' \subseteq {"left", "failed", "slow"}
      BY <1>11 DEF Online!Heartbeat
    <3> QED BY <3>1, <3>2, <3>3, <3>4
  <2>2. owed' \in BOOLEAN
    BY <1>11 DEF Online!Heartbeat
  <2>3. WriterStarts'
    BY <1>11 DEF Online!Heartbeat
  <2>4. KeyLives'
    BY <1>11 DEF Online!Heartbeat
  <2>5. KeyIsSomebodys'
    BY <1>11 DEF Online!Heartbeat
  <2> QED BY <2>1, <2>2, <2>3, <2>4, <2>5
<1>12. ASSUME NEW c \in Conns, Online!TakeEvent(c) PROVE OnlineInv'
  BY <1>12 DEF Online!TakeEvent
<1>13. ASSUME NEW c \in Conns, Online!FrameDone(c) PROVE OnlineInv'
  BY <1>13 DEF Online!FrameDone
<1>14. ASSUME NEW c \in Conns, Online!WriterEnds(c) PROVE OnlineInv'
  BY <1>14 DEF Online!WriterEnds
<1>15. ASSUME NEW c \in Conns, Online!WritesCollide(c) PROVE OnlineInv'
  <2>1. OnlineKinds'
    <3>1. CASE Online!Stops
      BY <3>1
    <3>2. CASE Online!GoTo(c, "unwind") /\ UNCHANGED <<ttl, writer, due, why>>
      BY <3>2, <1>15 DEF Online!WritesCollide
    <3> QED BY <1>15, <3>1, <3>2 DEF Online!WritesCollide
  <2>2. owed' \in BOOLEAN
    BY <1>15 DEF Online!WritesCollide
  <2>3. WriterStarts'
    BY <1>15 DEF Online!WritesCollide
  <2>4. KeyLives'
    BY <1>15 DEF Online!WritesCollide
  <2>5. KeyIsSomebodys'
    BY <1>15 DEF Online!WritesCollide
  <2> QED BY <2>1, <2>2, <2>3, <2>4, <2>5
<1>16. CASE Online!Restart
  BY <1>16 DEF Online!Restart
<1>17. CASE Online!Tick
  BY <1>17 DEF Online!Tick, Online!Slow
<1>18. CASE UNCHANGED onlineVars
  BY <1>18 DEF onlineVars
<1> QED BY <1>1, <1>2, <1>3, <1>4, <1>5, <1>6, <1>7, <1>8, <1>9, <1>10, <1>11, <1>12,
           <1>13, <1>14, <1>15, <1>16, <1>17, <1>18 DEF Online!Next

\* A handler that is served has a writer and is present; when nobody is
\* connected, nobody is present.
LEMMA OnlineInvSuffices == OnlineInv => Online!TypeOK /\ PresenceIsTrue /\ SoleWriter
<1> SUFFICES ASSUME OnlineInv PROVE Online!TypeOK /\ PresenceIsTrue /\ SoleWriter
  OBVIOUS
<1> USE DEF OnlineInv, OnlineKinds
<1>1. Online!TypeOK
  BY DEF Online!TypeOK
<1>2. Online!OfflineForCause
  BY DEF Online!OfflineForCause, KeyLives, Online!Present
<1>3. Online!OnlineMeansConnected
  BY DEF Online!OnlineMeansConnected, KeyIsSomebodys, Online!Present
<1>4. SoleWriter
  BY DEF SoleWriter, Online!SoleWriter, WriterStarts
<1> QED BY <1>1, <1>2, <1>3, <1>4 DEF PresenceIsTrue, Online!PresenceIsTrue

-----------------------------------------------------------------------------
(* The user's own records. *)

\* What the constants are taken to be: each table has fields of its own.
OwnBounds == Profile \cap (Flags \cup Peers) = {} /\ Flags \cap Peers = {}

Profiles == [Profile -> Texts \cup {None}]
Changes == [kind : {"idle", "profile", "sync"}, copy : Profiles \cup {Own!NoFields},
            given : Own!Given \cup {Own!NoFields}, left : SUBSET Peers]

OwnKinds ==
    /\ stored \in [Own!Fields -> Texts \cup {None} \cup BOOLEAN]
    /\ told \in [Own!Fields -> Texts \cup {None} \cup BOOLEAN]
    /\ \A f \in Own!Fields :
          stored[f] \in Own!ValuesOf(f) /\ told[f] \in Own!ValuesOf(f) \cup {None}
    /\ \A p \in Peers : told[p] \in {None, TRUE}
    /\ change \in [Requests -> Changes]
    /\ \A r \in Requests : change[r].kind = "profile" =>
          change[r].copy \in Profiles /\ change[r].given \in Own!Given

\* What was told of a field can be relied on.
Relied(f) == told[f] # None

\* What a request read of the profile is what is relied on.
CopiesHold ==
    \A r \in Requests : change[r].kind = "profile" =>
        \A f \in Profile : Relied(f) => change[r].copy[f] = told[f]

OwnInv == OwnKinds /\ LostByOverlapOnly /\ CopiesHold

\* Before any request nothing was told.
LEMMA OwnInitInv == ASSUME OwnBounds, Own!Init PROVE OwnInv
<1> USE DEF OwnBounds, Own!Init
<1>1. OwnKinds
  BY DEF OwnKinds, Own!ValuesOf, Own!Default, Own!Fields, Changes, Own!Idle
<1>2. LostByOverlapOnly /\ CopiesHold
  BY DEF LostByOverlapOnly, Own!LostByOverlapOnly, CopiesHold, Own!Idle
<1> QED BY <1>1, <1>2 DEF OwnInv

\* The fields a request was given are fields of the profile.
LEMMA GivenFields ==
    ASSUME NEW given_ \in Own!Given
    PROVE  /\ DOMAIN given_ \subseteq Profile /\ \A f \in DOMAIN given_ : given_[f] \in Texts
BY DEF Own!Given

\* What an update writes: the fields given and, for the rest, what was read.
LEMMA ChangedFields ==
    ASSUME OwnInv, NEW r \in Requests, change[r].kind = "profile"
    PROVE  /\ DOMAIN Own!Changed(r) = Profile
           /\ DOMAIN change[r].given \subseteq Profile
           /\ \A f \in Profile :
                /\ Own!Changed(r)[f] \in Texts \cup {None}
                /\ f \in DOMAIN change[r].given => Own!Changed(r)[f] = change[r].given[f]
                /\ f \notin DOMAIN change[r].given => Own!Changed(r)[f] = change[r].copy[f]
<1>1. change[r].copy \in Profiles /\ change[r].given \in Own!Given
  BY DEF OwnInv, OwnKinds
<1>2. /\ DOMAIN change[r].given \subseteq Profile
      /\ \A f \in DOMAIN change[r].given : change[r].given[f] \in Texts
  BY <1>1, GivenFields
<1> QED BY <1>1, <1>2 DEF Own!Changed, Own!Over, Profiles

\* A request that has read the profile has what is stored.
LEMMA LoadProfileStep ==
    ASSUME OwnBounds, OwnInv, NEW r \in Requests, NEW g \in Own!Given, Own!LoadProfile(r, g)
    PROVE  OwnInv'
<1> DEFINE rec == [Own!Idle EXCEPT !.kind = "profile", !.given = g,
                                  !.copy = [f \in Profile |-> stored[f]]]
<1>1. /\ change' = [change EXCEPT ![r] = rec] /\ UNCHANGED <<stored, told>>
  BY DEF Own!LoadProfile, Own!Becomes
<1>2. rec \in Changes /\ rec.kind = "profile" /\ rec.given = g /\ rec.copy \in Profiles
      /\ \A f \in Profile : rec.copy[f] = stored[f]
  BY DEF OwnInv, OwnKinds, Own!ValuesOf, Own!Fields, Changes, Own!Idle, Profiles
<1> HIDE DEF rec
<1>3. OwnKinds'
  BY <1>1, <1>2 DEF OwnInv, OwnKinds
<1>4. CopiesHold'
  BY <1>1, <1>2 DEF OwnInv, OwnKinds, CopiesHold, Relied, LostByOverlapOnly,
     Own!LostByOverlapOnly, Own!Fields
<1> QED BY <1>1, <1>3, <1>4 DEF OwnInv, LostByOverlapOnly, Own!LostByOverlapOnly

\* A request that is over, or has contacts left to add, holds no profile.
LEMMA OwnRecords ==
    ASSUME OwnInv, NEW r \in Requests, NEW known \in SUBSET Peers
    PROVE  /\ Own!Idle \in Changes /\ Own!Idle.kind = "idle"
           /\ [Own!Idle EXCEPT !.kind = "sync", !.left = known] \in Changes
           /\ change[r].kind = "sync" => [change[r] EXCEPT !.left = @ \ known] \in Changes
BY DEF Own!Idle, Changes, OwnInv, OwnKinds

\* The update of the profile, when it is answered with success.
LEMMA UpdateProfileStep ==
    ASSUME OwnBounds, OwnInv, NEW r \in Requests, Own!UpdateProfile(r)
    PROVE  OwnInv'
<1> DEFINE given_ == change[r].given
           new == Own!Changed(r)
<1>0. /\ change[r].kind = "profile" /\ change' = [change EXCEPT ![r] = Own!Idle]
      /\ Own!Idle \in Changes /\ Own!Idle.kind = "idle"
  BY OwnRecords DEF Own!UpdateProfile, Own!Becomes
<1>1. /\ DOMAIN new = Profile /\ DOMAIN given_ \subseteq Profile
      /\ \A f \in Profile :
            /\ new[f] \in Texts \cup {None}
            /\ f \in DOMAIN given_ => new[f] = given_[f]
            /\ f \notin DOMAIN given_ => new[f] = change[r].copy[f]
  BY <1>0, ChangedFields
<1>2. /\ stored' = [f \in Own!Fields |-> IF f \in DOMAIN new THEN new[f] ELSE stored[f]]
      /\ told' = [f \in Own!Fields |->
                     CASE f \notin DOMAIN given_ -> told[f]
                       [] f \in DOMAIN given_ \cap Profile /\ Own!ProfileHeld(r) -> None
                       [] OTHER -> given_[f]]
  BY DEF Own!UpdateProfile, Own!Put, Own!Acknowledged
<1>3. \A f \in DOMAIN given_ : given_[f] \in Texts
  BY <1>0, GivenFields DEF OwnInv, OwnKinds
<1> HIDE DEF given_, new
<1>4. \A f \in Profile : f \in Own!Fields /\ Own!ValuesOf(f) = Texts \cup {None}
  BY DEF Own!Fields, Own!ValuesOf
<1>5. OwnKinds'
  <2>1. \A f \in Own!Fields :
           stored'[f] \in Own!ValuesOf(f) /\ told'[f] \in Own!ValuesOf(f) \cup {None}
    BY <1>1, <1>2, <1>3, <1>4 DEF OwnInv, OwnKinds
  <2>2. \A f \in Own!Fields : Own!ValuesOf(f) \subseteq Texts \cup {None} \cup BOOLEAN
    BY DEF Own!ValuesOf
  <2>3. /\ stored' \in [Own!Fields -> Texts \cup {None} \cup BOOLEAN]
        /\ told' \in [Own!Fields -> Texts \cup {None} \cup BOOLEAN]
    BY <1>2, <2>1, <2>2
  <2>5. change' \in [Requests -> Changes]
    BY <1>0 DEF OwnInv, OwnKinds
  <2>6. \A q \in Requests : change'[q].kind = "profile" => change'[q] = change[q]
    BY <1>0 DEF OwnInv, OwnKinds
  <2>7. \A p \in Peers : told'[p] \in {None, TRUE}
    BY <1>1, <1>2 DEF OwnBounds, OwnInv, OwnKinds, Own!Fields
  <2> QED BY <2>1, <2>3, <2>5, <2>6, <2>7 DEF OwnInv, OwnKinds
<1>6. \A f \in Own!Fields :
         f \notin DOMAIN given_ => told'[f] = told[f] /\ (Relied(f)' => Relied(f))
  BY <1>2 DEF Relied
<1>9. ASSUME NEW f \in DOMAIN given_
      PROVE  IF Own!ProfileHeld(r) THEN told'[f] = None ELSE told'[f] = given_[f]
  <2>1. f \in Own!Fields /\ f \in DOMAIN given_ \cap Profile
    BY <1>1, <1>4
  <2>2. CASE Own!ProfileHeld(r)
    BY <1>2, <2>1, <2>2
  <2>3. CASE ~Own!ProfileHeld(r)
    BY <1>2, <2>1, <2>3
  <2> QED BY <2>2, <2>3
<1>7. LostByOverlapOnly'
  <2> SUFFICES ASSUME NEW f \in Own!Fields, Relied(f)' PROVE stored'[f] = told'[f]
    BY DEF LostByOverlapOnly, Own!LostByOverlapOnly, Relied
  <2>1. CASE f \in DOMAIN given_
    BY <1>1, <1>2, <1>9, <2>1 DEF Relied
  <2>2. CASE f \in Profile \ DOMAIN given_
    BY <1>0, <1>1, <1>2, <1>6, <2>2 DEF OwnInv, CopiesHold
  <2>3. CASE f \notin Profile
    BY <1>1, <1>2, <1>6, <2>3 DEF OwnInv, LostByOverlapOnly, Own!LostByOverlapOnly, Relied
  <2> QED BY <2>1, <2>2, <2>3
<1>8. CopiesHold'
  <2> SUFFICES ASSUME NEW q \in Requests, change'[q].kind = "profile",
                      NEW f \in Profile, Relied(f)'
               PROVE  change'[q].copy[f] = told'[f]
    BY DEF CopiesHold
  <2>1. q # r /\ change'[q] = change[q]
    BY <1>0 DEF OwnInv, OwnKinds
  <2>2. Own!ProfileHeld(r)
    BY <2>1 DEF Own!ProfileHeld
  <2>3. f \notin DOMAIN given_
    BY <1>9, <2>2 DEF Relied
  <2> QED BY <1>4, <1>6, <2>1, <2>3 DEF OwnInv, CopiesHold
<1> QED BY <1>5, <1>7, <1>8 DEF OwnInv

\* The update of the profile, when it fails.
LEMMA UpdateFailsStep ==
    ASSUME OwnBounds, OwnInv, NEW r \in Requests, Own!UpdateFails(r)
    PROVE  OwnInv'
<1> DEFINE given_ == change[r].given
           new == Own!Changed(r)
<1>0. /\ change[r].kind = "profile" /\ change' = [change EXCEPT ![r] = Own!Idle]
      /\ Own!Idle \in Changes /\ Own!Idle.kind = "idle"
  BY OwnRecords DEF Own!UpdateFails, Own!Becomes
<1>1. /\ DOMAIN new = Profile /\ DOMAIN given_ \subseteq Profile
      /\ \A f \in Profile :
            /\ new[f] \in Texts \cup {None}
            /\ f \notin DOMAIN given_ => new[f] = change[r].copy[f]
  BY <1>0, ChangedFields
<1>2. /\ \/ stored' = [f \in Own!Fields |-> IF f \in DOMAIN new THEN new[f] ELSE stored[f]]
         \/ stored' = stored
      /\ told' = [f \in Own!Fields |-> IF f \in DOMAIN given_ THEN None ELSE told[f]]
  BY DEF Own!UpdateFails, Own!Put, Own!Doubtful
<1> HIDE DEF given_, new
<1>4. \A f \in Profile : f \in Own!Fields /\ Own!ValuesOf(f) = Texts \cup {None}
  BY DEF Own!Fields, Own!ValuesOf
<1>5. OwnKinds'
  <2>1. \A f \in Own!Fields : stored'[f] \in Own!ValuesOf(f)
    BY <1>1, <1>2, <1>4 DEF OwnInv, OwnKinds
  <2>2. \A f \in Own!Fields : Own!ValuesOf(f) \subseteq Texts \cup {None} \cup BOOLEAN
    BY DEF Own!ValuesOf
  <2>3. stored' \in [Own!Fields -> Texts \cup {None} \cup BOOLEAN]
    BY <1>2, <2>1, <2>2 DEF OwnInv, OwnKinds
  <2>5. change' \in [Requests -> Changes]
    BY <1>0 DEF OwnInv, OwnKinds
  <2>6. \A q \in Requests : change'[q].kind = "profile" => change'[q] = change[q]
    BY <1>0 DEF OwnInv, OwnKinds
  <2>4. \A f \in Own!Fields : told'[f] \in {None, told[f]}
    BY <1>2
  <2>7. \A p \in Peers : told'[p] \in {None, TRUE}
    BY <2>4 DEF OwnInv, OwnKinds, Own!Fields
  <2>8. told' \in [Own!Fields -> Texts \cup {None} \cup BOOLEAN]
    BY <1>2, <2>4 DEF OwnInv, OwnKinds
  <2>9. \A f \in Own!Fields : told'[f] \in Own!ValuesOf(f) \cup {None}
    BY <2>4 DEF OwnInv, OwnKinds
  <2> QED BY <2>1, <2>3, <2>5, <2>6, <2>7, <2>8, <2>9 DEF OwnInv, OwnKinds
<1>6. \A f \in Own!Fields :
         Relied(f)' => Relied(f) /\ f \notin DOMAIN given_ /\ told'[f] = told[f]
  BY <1>2 DEF Relied
<1>7. LostByOverlapOnly'
  <2> SUFFICES ASSUME NEW f \in Own!Fields, Relied(f)' PROVE stored'[f] = told'[f]
    BY DEF LostByOverlapOnly, Own!LostByOverlapOnly, Relied
  <2>1. stored[f] = told[f]
    BY <1>6 DEF OwnInv, LostByOverlapOnly, Own!LostByOverlapOnly, Relied
  <2>2. CASE f \in Profile
    BY <1>0, <1>1, <1>2, <1>6, <2>1, <2>2 DEF OwnInv, CopiesHold
  <2>3. CASE f \notin Profile
    BY <1>1, <1>2, <2>1, <2>3
  <2> QED BY <2>2, <2>3
<1>8. CopiesHold'
  BY <1>0, <1>2, <1>4, <1>6 DEF OwnInv, OwnKinds, CopiesHold
<1> QED BY <1>5, <1>7, <1>8 DEF OwnInv

\* A statement that writes one flag or contact, or has no effect.
LEMMA OneFieldStep ==
    ASSUME OwnBounds, OwnInv, NEW f \in Flags \cup Peers, NEW v \in BOOLEAN,
           f \in Peers => v = TRUE,
           stored' = stored \/ Own!Put(Own!One(f, v)),
           NEW w \in {v, None, told[f]},
           told' = [g \in Own!Fields |-> IF g = f THEN w ELSE told[g]],
           Relied(f)' => stored'[f] = told'[f],
           change' \in [Requests -> Changes],
           \A q \in Requests : change'[q].kind = "profile" => change'[q] = change[q]
    PROVE  OwnInv'
<1>1. f \in Own!Fields /\ f \notin Profile /\ Own!ValuesOf(f) = BOOLEAN
  BY DEF OwnBounds, Own!Fields, Own!ValuesOf
<1>2. stored' = stored \/ stored' = [g \in Own!Fields |-> IF g = f THEN v ELSE stored[g]]
  BY DEF Own!Put, Own!One
<1>3. \A g \in Own!Fields \ {f} :
         stored'[g] = stored[g] /\ told'[g] = told[g] /\ (Relied(g)' => Relied(g))
  BY <1>2 DEF Relied
<1>4. OwnKinds'
  <2>1. \A g \in Own!Fields :
           stored'[g] \in Own!ValuesOf(g) /\ told'[g] \in Own!ValuesOf(g) \cup {None}
    BY <1>1, <1>2 DEF OwnInv, OwnKinds
  <2>2. /\ stored' \in [Own!Fields -> Texts \cup {None} \cup BOOLEAN]
        /\ told' \in [Own!Fields -> Texts \cup {None} \cup BOOLEAN]
    BY <1>2 DEF OwnInv, OwnKinds
  <2>3. \A p \in Peers : told'[p] \in {None, TRUE}
    BY DEF OwnInv, OwnKinds, Own!Fields
  <2> QED BY <1>1, <2>1, <2>2, <2>3 DEF OwnInv, OwnKinds
<1>5. LostByOverlapOnly'
  BY <1>3 DEF OwnInv, LostByOverlapOnly, Own!LostByOverlapOnly, Relied
<1>6. CopiesHold'
  <2> SUFFICES ASSUME NEW q \in Requests, change'[q].kind = "profile",
                      NEW g \in Profile, Relied(g)'
               PROVE  change'[q].copy[g] = told'[g]
    BY DEF CopiesHold
  <2>1. g \in Own!Fields \ {f}
    BY <1>1 DEF Own!Fields
  <2>2. change'[q] = change[q] /\ Relied(g) /\ told'[g] = told[g]
    BY <1>3, <2>1
  <2> QED BY <2>2 DEF OwnInv, CopiesHold
<1> QED BY <1>4, <1>5, <1>6 DEF OwnInv

\* One that is answered with success.
LEMMA StatementStep ==
    ASSUME OwnBounds, OwnInv, NEW r \in Requests, NEW f \in Flags \cup Peers, NEW v \in BOOLEAN,
           f \in Peers => v = TRUE, Own!Statement(r, f, v)
    PROVE  OwnInv'
<1>1. f \notin Profile /\ f \in Own!Fields
  BY DEF OwnBounds, Own!Fields
<1>2. /\ Own!Put(Own!One(f, v)) /\ change' = change
      /\ told' = [g \in Own!Fields |-> IF g = f THEN v ELSE told[g]]
  BY <1>1 DEF Own!Statement, Own!Acknowledged, Own!One
<1>3. stored'[f] = v /\ told'[f] = v
  BY <1>1, <1>2 DEF Own!Put, Own!One
<1> QED BY <1>2, <1>3, OneFieldStep DEF OwnInv, OwnKinds

\* One that fails.
LEMMA StatementFailsStep ==
    ASSUME OwnBounds, OwnInv, NEW r \in Requests, NEW f \in Flags \cup Peers, NEW v \in BOOLEAN,
           Own!StatementFails(r, f, v)
    PROVE  OwnInv'
<1>1. /\ Own!Put(Own!One(f, v)) \/ stored' = stored
      /\ change' = change /\ told' = [g \in Own!Fields |-> IF g = f THEN None ELSE told[g]]
      /\ f \in Peers => v = TRUE
  BY DEF OwnBounds, Own!StatementFails, Own!Doubtful, Own!One
<1>2. ~Relied(f)'
  BY <1>1 DEF Own!Fields, Relied
<1> QED BY <1>1, <1>2, OneFieldStep DEF OwnInv, OwnKinds

\* A contact of the address book; one that was told the user is there already.
LEMMA SyncOneStep ==
    ASSUME OwnBounds, OwnInv, NEW r \in Requests, NEW p \in Peers, Own!SyncOne(r, p)
    PROVE  OwnInv'
<1>1. p \in Own!Fields /\ told[p] \in {None, TRUE}
  BY DEF OwnInv, OwnKinds, Own!Fields
<1>2. /\ Own!Put(Own!One(p, TRUE)) \/ stored' = stored
      /\ change' = [change EXCEPT ![r] = [change[r] EXCEPT !.left = @ \ {p}]]
      /\ change[r].kind = "sync" /\ told' = told
  BY DEF Own!SyncOne, Own!Becomes
<1>3. [change[r] EXCEPT !.left = @ \ {p}] \in Changes
      /\ [change[r] EXCEPT !.left = @ \ {p}].kind = "sync"
  BY <1>2 DEF OwnInv, OwnKinds, Changes
<1>4. Relied(p)' => stored'[p] = told'[p]
  <2> SUFFICES ASSUME Relied(p)' PROVE stored'[p] = told'[p]
    OBVIOUS
  <2>1. told[p] = TRUE /\ stored[p] = told[p]
    BY <1>1, <1>2 DEF Relied, OwnInv, LostByOverlapOnly, Own!LostByOverlapOnly
  <2>2. stored' = stored \/ stored'[p] = TRUE
    BY <1>1, <1>2 DEF Own!Put, Own!One
  <2> QED BY <1>2, <2>1, <2>2
<1>5. /\ change' \in [Requests -> Changes]
      /\ \A q \in Requests : change'[q].kind = "profile" => change'[q] = change[q]
  BY <1>2, <1>3 DEF OwnInv, OwnKinds
<1>6. told' = [g \in Own!Fields |-> IF g = p THEN told[p] ELSE told[g]]
  BY <1>2 DEF OwnInv, OwnKinds
<1> QED BY <1>2, <1>4, <1>5, <1>6, OneFieldStep

\* A request that has nothing to write begins or ends.
LEMMA QuietStep ==
    ASSUME OwnInv, NEW r \in Requests,
           Own!EndSync(r) \/ \E known \in SUBSET Peers : Own!BeginSync(r, known)
    PROVE  OwnInv'
<1>1. PICK rec \in Changes : rec.kind # "profile" /\ change' = [change EXCEPT ![r] = rec]
  <2>1. CASE Own!EndSync(r)
    BY <2>1, OwnRecords DEF Own!EndSync, Own!Becomes
  <2>2. ASSUME NEW known \in SUBSET Peers, Own!BeginSync(r, known)
        PROVE  \E rec \in Changes : rec.kind # "profile" /\ change' = [change EXCEPT ![r] = rec]
    BY <2>2 DEF Own!BeginSync, Own!Becomes, Own!Idle, Changes
  <2> QED BY <2>1, <2>2
<1>2. UNCHANGED <<stored, told>>
  BY DEF Own!EndSync, Own!BeginSync
<1>3. OwnKinds'
  BY <1>1, <1>2 DEF OwnInv, OwnKinds
<1>4. LostByOverlapOnly' /\ CopiesHold'
  BY <1>1, <1>2 DEF OwnInv, OwnKinds, LostByOverlapOnly, Own!LostByOverlapOnly, CopiesHold,
     Relied
<1> QED BY <1>3, <1>4 DEF OwnInv

\* Every step keeps the invariant.
LEMMA OwnStepInv == ASSUME OwnBounds, OwnInv, [Own!Next]_recordsVars PROVE OwnInv'
<1>1. ASSUME NEW r \in Requests, NEW g \in Own!Given, Own!LoadProfile(r, g) PROVE OwnInv'
  BY <1>1, LoadProfileStep
<1>2. ASSUME NEW r \in Requests, Own!UpdateProfile(r) \/ Own!UpdateFails(r) PROVE OwnInv'
  BY <1>2, UpdateProfileStep, UpdateFailsStep
<1>3. ASSUME NEW r \in Requests, NEW f \in Flags, NEW v \in BOOLEAN,
             Own!SetFlag(r, f, v)
      PROVE  OwnInv'
  BY <1>3, StatementStep DEF Own!SetFlag, OwnBounds
<1>4. ASSUME NEW r \in Requests, NEW p \in Peers, Own!AddContact(r, p) PROVE OwnInv'
  BY <1>4, StatementStep DEF Own!AddContact
<1>5. ASSUME NEW r \in Requests, NEW f \in Flags \cup Peers, NEW v \in BOOLEAN,
             Own!StatementFails(r, f, v)
      PROVE  OwnInv'
  BY <1>5, StatementFailsStep
<1>6. ASSUME NEW r \in Requests, NEW known \in SUBSET Peers, Own!BeginSync(r, known) PROVE OwnInv'
  BY <1>6, QuietStep
<1>7. ASSUME NEW r \in Requests, NEW p \in Peers, Own!SyncOne(r, p) PROVE OwnInv'
  BY <1>7, SyncOneStep
<1>8. ASSUME NEW r \in Requests, Own!EndSync(r) PROVE OwnInv'
  BY <1>8, QuietStep
<1>9. CASE UNCHANGED recordsVars
  BY <1>9 DEF recordsVars, OwnInv, OwnKinds, LostByOverlapOnly, Own!LostByOverlapOnly,
     CopiesHold, Relied
<1> QED BY <1>1, <1>2, <1>3, <1>4, <1>5, <1>6, <1>7, <1>8, <1>9 DEF Own!Next

\* The invariant has the types.
LEMMA OwnInvSuffices == OwnInv => Own!TypeOK /\ LostByOverlapOnly
BY DEF OwnInv, OwnKinds, Own!TypeOK, Changes

-----------------------------------------------------------------------------
(* The least number of a set, for the two services that count. *)

\* A set of natural numbers has a least one.
LEMMA LeastNumber ==
    ASSUME NEW S \in SUBSET Nat, S # {}
    PROVE  \E m \in S : \A k \in S : m <= k
<1> DEFINE R == {ss \in Nat \X Nat : ss[1] < ss[2]}
<1>1. IsWellFoundedOn(R, Nat)
  BY NatLessThanWellFounded DEF OpToRel
<1> HIDE DEF R
<1>2. PICK m \in S : \A k \in S : ~ (<<k, m>> \in R)
  BY <1>1, WFMin
<1>3. \A k \in S : ~(k < m)
  BY <1>2 DEF R
<1> QED BY <1>2, <1>3

-----------------------------------------------------------------------------
(* History. *)

\* The operator that the instances bring with them is the one known here.
LEMMA PastCounts == \A S : Past!Cardinality(S) = Cardinality(S)
BY DEF Past!Cardinality, Cardinality

\* What the constants are taken to be: limits and times are numbers above 0.
PastBounds ==
    /\ MaxRows \in Nat /\ Cap \in Nat /\ None \notin Int
    /\ {DefaultLimit, SearchLimit} \cup Times \subseteq Nat \ {0}
    /\ Asked \subseteq Int \cup {None}

PastRows == [id : 0..(MaxRows - 1), at : Times, own : BOOLEAN]

PastKinds ==
    /\ rows \subseteq PastRows
    /\ IsFiniteSet(rows)
    /\ query \in Past!Queries \cup {"none"}
    /\ limit \in Nat
    /\ query # "none" => limit > 0
    /\ before \in Times \cup {0}
    /\ page \subseteq shown /\ shown \subseteq rows
    /\ query = "none" => shown = {}
    /\ page # {} => before \in Times
    /\ ties \subseteq Times
    /\ owing \subseteq rows

\* What is still owed is not newer than the place the client is at, or has a
\* time at which a page ended.
OwedIsBehind ==
    query # "none" => \A r \in owing : r.at \in ties \/ (Past!Full /\ r.at <= before)

\* The reader's own messages that are not older than the place he is at.
OwnFrom(t) == {r \in rows : r.own /\ r.at >= t}

\* What was shown is not older than the place the client is at, except for a
\* chat whose reader stays where he is for ever.
ShownIsAhead ==
    query # "none" /\ Past!Full =>
        \/ \A r \in shown : r.at >= before \/ (query = "chat" /\ r.own)
        \/ query = "chat" /\ Cardinality(OwnFrom(before)) >= limit

PastInv == PastKinds /\ OwedIsBehind /\ ShownIsAhead

\* The limit of a statement is a number above 0.
LEMMA LimitIsPositive ==
    ASSUME PastBounds, NEW q \in Past!Queries, NEW a \in Asked
    PROVE  Past!LimitOf(q, a) \in Nat /\ Past!LimitOf(q, a) > 0
<1>1. a # None => a \in Int
  BY DEF PastBounds
<1> QED BY <1>1 DEF PastBounds, Past!LimitOf

\* A page is the newest rows of a set, and is full unless it is all of them.
LEMMA PageFacts ==
    ASSUME NEW set_, IsFiniteSet(set_), NEW n \in Nat, NEW p \in Past!Pages(set_, n)
    PROVE  /\ p \subseteq set_ /\ IsFiniteSet(p) /\ Cardinality(p) \in Nat
           /\ \A r \in p : \A s \in set_ \ p : r.at >= s.at
           /\ Cardinality(p) <= n /\ (Cardinality(p) = n \/ p = set_)
           /\ n > 0 /\ Cardinality(p) = n => p # {}
<1>1. p \subseteq set_ /\ \A r \in p : \A s \in set_ \ p : r.at >= s.at
  BY DEF Past!Pages
<1>2. Cardinality(p) = IF Cardinality(set_) < n THEN Cardinality(set_) ELSE n
  BY PastCounts DEF Past!Pages
<1>3. IsFiniteSet(p) /\ Cardinality(p) \in Nat /\ Cardinality(set_) \in Nat
  BY <1>1, FS_Subset, FS_CardinalityType
<1>4. Cardinality(p) = Cardinality(set_) => p = set_
  BY <1>1, FS_Subset
<1>5. p = {} => Cardinality(p) = 0
  BY FS_EmptySet
<1> QED BY <1>1, <1>2, <1>3, <1>4, <1>5

\* The oldest row of a page tells the time from which to read on.
LEMMA OldestFacts ==
    ASSUME PastBounds, NEW p \in SUBSET PastRows, p # {}
    PROVE  /\ Past!Oldest(p) \in Times /\ Past!Oldest(p) \in Nat
           /\ \E r \in p : r.at = Past!Oldest(p)
           /\ \A r \in p : r.at \in Nat /\ r.at >= Past!Oldest(p)
<1> DEFINE S == {r.at : r \in p}
<1>1. S \subseteq Times /\ S \subseteq Nat /\ S # {}
  BY DEF PastBounds, PastRows
<1>2. PICK m \in S : \A k \in S : m <= k
  BY <1>1, LeastNumber
<1>3. \E t \in Times : (\E r \in p : r.at = t) /\ (\A r \in p : r.at >= t)
  BY <1>1, <1>2
<1>4. /\ Past!Oldest(p) \in Times
      /\ \E r \in p : r.at = Past!Oldest(p)
      /\ \A r \in p : r.at >= Past!Oldest(p)
  BY <1>3 DEF Past!Oldest
<1> QED BY <1>1, <1>4

\* Before the first page nothing is shown or owed.
LEMMA PastInitInv == ASSUME PastBounds, Past!Init PROVE PastInv
<1>1. IsFiniteSet({})
  BY FS_EmptySet
<1> QED BY <1>1 DEF PastBounds, Past!Init, PastInv, PastKinds, OwedIsBehind, ShownIsAhead

\* A message that is stored is nobody's debt, and a page stays as full as it is.
LEMMA StoreStep ==
    ASSUME PastBounds, PastInv, NEW at \in Times, NEW own \in BOOLEAN, Past!Store(at, own)
    PROVE  PastInv'
<1> DEFINE new == [id |-> Cardinality(rows), at |-> at, own |-> own]
<1>1. /\ rows' = rows \cup {new}
      /\ Cardinality(rows) < MaxRows
      /\ UNCHANGED <<query, limit, before, page, shown, ties, owing>>
  BY PastCounts DEF Past!Store
<1>2. Cardinality(rows) \in Nat /\ IsFiniteSet(rows')
  BY <1>1, FS_AddElement, FS_CardinalityType DEF PastInv, PastKinds
<1>3. new \in PastRows
  BY <1>1, <1>2 DEF PastBounds, PastRows
<1> HIDE DEF new
<1>4. PastKinds'
  BY <1>1, <1>2, <1>3 DEF PastInv, PastKinds
<1>5. OwedIsBehind'
  BY <1>1, PastCounts DEF PastInv, OwedIsBehind, Past!Full
<1>6. Cardinality(OwnFrom(before)) <= Cardinality(OwnFrom(before)')
      /\ Cardinality(OwnFrom(before)) \in Nat /\ Cardinality(OwnFrom(before)') \in Nat
  <2>1. OwnFrom(before) \subseteq OwnFrom(before)' /\ OwnFrom(before)' \subseteq rows'
    BY <1>1 DEF OwnFrom
  <2>2. IsFiniteSet(OwnFrom(before)')
    BY <1>2, <2>1, FS_Subset
  <2> QED BY <2>1, <2>2, FS_Subset, FS_CardinalityType
<1>7. ShownIsAhead'
  BY <1>1, <1>6, PastCounts DEF PastInv, PastKinds, ShownIsAhead, Past!Full
<1> QED BY <1>4, <1>5, <1>7 DEF PastInv

\* What showing a page does to the client's place.
LEMMA ShowFacts ==
    ASSUME PastBounds, PastInv, NEW p \in SUBSET rows, Past!Show(p)
    PROVE  /\ page' = p /\ shown' = shown \cup p
           /\ p = {} => before' = before
           /\ p # {} => /\ before' \in Times /\ before' \in Nat
                        /\ \E r \in p : r.at = before'
                        /\ \A r \in p : r.at >= before'
<1>1. p \in SUBSET PastRows
  BY DEF PastInv, PastKinds
<1>2. page' = p /\ shown' = shown \cup p /\ before' = IF p = {} THEN before ELSE Past!Oldest(p)
  BY DEF Past!Show
<1> QED BY <1>1, <1>2, OldestFacts

\* The first page has the newest rows.
LEMMA FirstPageStep ==
    ASSUME PastBounds, PastInv, NEW q \in Past!Queries, NEW a \in Asked, Past!FirstPage(q, a)
    PROVE  PastInv'
<1>1. /\ query' = q /\ limit' = Past!LimitOf(q, a) /\ ties' = {} /\ rows' = rows
  BY DEF Past!FirstPage
<1>2. limit' \in Nat /\ limit' > 0
  BY <1>1, LimitIsPositive
<1>3. PICK p \in Past!Pages(rows, limit') : Past!Show(p) /\ owing' = rows \ p
  BY DEF Past!FirstPage
<1>4. IsFiniteSet(rows) /\ rows \subseteq PastRows
  BY DEF PastInv, PastKinds
<1>5. /\ p \subseteq rows /\ Cardinality(p) \in Nat
      /\ \A r \in p : \A s \in rows \ p : r.at >= s.at
      /\ Cardinality(p) = limit' \/ p = rows
      /\ Cardinality(p) = limit' => p # {}
  BY <1>2, <1>4, PageFacts
<1>6. /\ page' = p /\ shown' = shown \cup p
      /\ p = {} => before' = before
      /\ p # {} => /\ before' \in Times /\ before' \in Nat
                   /\ \E r \in p : r.at = before'
                   /\ \A r \in p : r.at >= before'
  BY <1>3, <1>5, ShowFacts
<1>7. Past!Full' <=> Cardinality(p) = limit'
  BY <1>6, PastCounts DEF Past!Full
<1>8. PastKinds'
  <2>1. query = "none"
    BY DEF Past!FirstPage
  <2>2. q # "none"
    BY DEF Past!Queries
  <2>3. shown' = p /\ page' = p
    BY <1>6, <2>1 DEF PastInv, PastKinds
  <2>4. before' \in Times \cup {0} /\ (p # {} => before' \in Times)
    BY <1>6 DEF PastInv, PastKinds
  <2> QED BY <1>1, <1>2, <1>3, <1>4, <1>5, <2>2, <2>3, <2>4 DEF PastKinds
<1>9. OwedIsBehind'
  <2> SUFFICES ASSUME NEW r \in owing' PROVE Past!Full' /\ r.at <= before'
    BY DEF OwedIsBehind
  <2>1. r \in rows \ p
    BY <1>3
  <2>2. Cardinality(p) = limit' /\ p # {}
    BY <1>5, <2>1
  <2>3. PICK s \in p : s.at = before'
    BY <1>6, <2>2
  <2>4. s.at >= r.at /\ r.at \in Nat /\ s.at \in Nat
    BY <1>4, <1>5, <2>1 DEF PastBounds, PastRows
  <2> QED BY <1>7, <2>2, <2>3, <2>4
<1>10. ShownIsAhead'
  <2>1. shown' = p
    BY <1>6 DEF PastInv, PastKinds, Past!FirstPage
  <2> QED BY <1>5, <1>6, <1>7, <2>1 DEF ShownIsAhead
<1> QED BY <1>8, <1>9, <1>10 DEF PastInv

\* A further page p: what it has, and the place the client is at after it.
FurtherPage(p) ==
    /\ UNCHANGED <<rows, query, limit>> /\ query # "none" /\ Past!Full /\ limit > 0
    /\ page' = p /\ shown' = shown \cup p /\ owing' = owing \ p
    /\ ties' = ties \cup {before} /\ before \in Times
    /\ IsFiniteSet(p) /\ Cardinality(p) \in Nat /\ Cardinality(p) <= limit
    /\ Past!Full' <=> Cardinality(p) = limit
    /\ \A r \in p : r.at < before \/ (query = "chat" /\ r.own)
    /\ \A r \in rows \ p : r.at < before \/ (query = "chat" /\ r.own) =>
          Past!Full' /\ \A s \in p : s.at >= r.at
    /\ p = {} => before' = before /\ ~Past!Full'
    /\ p # {} => /\ before' \in Times /\ before' \in Nat
                 /\ \E r \in p : r.at = before'
                 /\ \A r \in p : r.at >= before'

\* What a further page is.
LEMMA NextPageFacts ==
    ASSUME PastBounds, PastInv, Past!NextPage
    PROVE  \E p \in SUBSET rows : FurtherPage(p)
<1> DEFINE selected == Past!Selected(query, before)
<1>1. /\ UNCHANGED <<rows, query, limit>> /\ query # "none" /\ Past!Full
      /\ ties' = ties \cup {before}
  BY DEF Past!NextPage
<1>2. PICK p \in Past!Pages(selected, limit) : Past!Show(p) /\ owing' = owing \ p
  BY DEF Past!NextPage
<1>3. selected = {r \in rows : r.at < before \/ (query = "chat" /\ r.own)}
  BY DEF Past!Selected
<1>4. limit \in Nat /\ limit > 0 /\ IsFiniteSet(rows) /\ IsFiniteSet(selected)
  BY <1>1, <1>3, FS_Subset DEF PastInv, PastKinds
<1> HIDE DEF selected
<1>5. /\ p \subseteq selected /\ IsFiniteSet(p) /\ Cardinality(p) \in Nat /\ Cardinality(p) <= limit
      /\ \A r \in p : \A s \in selected \ p : r.at >= s.at
      /\ Cardinality(p) = limit \/ p = selected
      /\ Cardinality(p) = limit => p # {}
  BY <1>2, <1>4, PageFacts
<1>6. p \in SUBSET rows
  BY <1>3, <1>5
<1>7. /\ page' = p /\ shown' = shown \cup p
      /\ p = {} => before' = before
      /\ p # {} => /\ before' \in Times /\ before' \in Nat
                   /\ \E r \in p : r.at = before'
                   /\ \A r \in p : r.at >= before'
  BY <1>2, <1>6, ShowFacts
<1>8. Past!Full' <=> Cardinality(p) = limit
  BY <1>1, <1>7, PastCounts DEF Past!Full
<1>9. before \in Times
  <2>1. page # {}
    BY <1>1, <1>4, PastCounts, FS_EmptySet DEF Past!Full
  <2> QED BY <2>1 DEF PastInv, PastKinds
<1>10. \A r \in rows \ p : r.at < before \/ (query = "chat" /\ r.own) =>
          Past!Full' /\ \A s \in p : s.at >= r.at
  BY <1>3, <1>5, <1>8
<1>11. \A r \in p : r.at < before \/ (query = "chat" /\ r.own)
  BY <1>3, <1>5
<1> QED BY <1>1, <1>2, <1>4, <1>5, <1>6, <1>7, <1>8, <1>9, <1>10, <1>11 DEF FurtherPage

\* The times of rows and places are numbers.
LEMMA PastTimes ==
    ASSUME PastBounds, PastInv
    PROVE  before \in Nat /\ \A r \in rows : r.at \in Nat
BY DEF PastBounds, PastInv, PastKinds, PastRows

\* A full page of which no row is before the place asked for is all the reader's
\* own: there are enough of them for as many pages as he asks for.
LEMMA FullOfOwn ==
    ASSUME PastBounds, PastInv, NEW p \in SUBSET rows, NEW t \in Nat,
           \A r \in p : r.own /\ r.at >= t, Cardinality(p) = limit
    PROVE  Cardinality(OwnFrom(t)) >= limit
<1>1. p \subseteq OwnFrom(t) /\ OwnFrom(t) \subseteq rows
  BY DEF OwnFrom
<1>2. IsFiniteSet(OwnFrom(t)) /\ limit \in Nat
  BY <1>1, FS_Subset DEF PastInv, PastKinds
<1> QED BY <1>1, <1>2, FS_Subset, FS_CardinalityType

\* A page goes further back, or is full of the reader's own messages.
LEMMA PageGoesBack ==
    ASSUME PastBounds, PastInv, Past!NextPage
    PROVE  /\ Past!Stale(page') # {} => query = "chat" /\ \A r \in Past!Stale(page') : r.own
           /\ Past!Full' /\ before' >= before =>
                 query = "chat" /\ \A r \in page' : r.own /\ r.at >= before
           /\ Past!Full' /\ before' >= before => Cardinality(OwnFrom(before)) >= limit
<1> USE DEF FurtherPage
<1>1. PICK p \in SUBSET rows : FurtherPage(p)
  BY NextPageFacts
<1>2. before \in Nat /\ \A r \in rows : r.at \in Nat
  BY PastTimes
<1>3. ASSUME Past!Full', before' >= before
      PROVE  query = "chat" /\ \A r \in p : r.own /\ r.at >= before
  BY <1>1, <1>2, <1>3
<1>4. ASSUME Past!Full', before' >= before PROVE Cardinality(OwnFrom(before)) >= limit
  BY <1>1, <1>2, <1>3, <1>4, FullOfOwn
<1>5. ASSUME NEW r \in Past!Stale(p) PROVE query = "chat" /\ r.own
  <2>1. r \in p /\ r \in rows /\ (r \in shown \/ r.at >= before)
    BY <1>5 DEF Past!Stale
  <2>2. CASE r.at >= before
    BY <1>1, <1>2, <2>1, <2>2
  <2>3. CASE r \in shown /\ ~(r.at >= before)
    <3>1. \/ query = "chat" /\ r.own
          \/ query = "chat" /\ Cardinality(OwnFrom(before)) >= limit
      BY <1>1, <2>3 DEF PastInv, ShownIsAhead
    <3>2. SUFFICES ASSUME query = "chat", Cardinality(OwnFrom(before)) >= limit, ~r.own PROVE FALSE
      BY <3>1
    <3>3. OwnFrom(before) \subseteq p
      BY <1>1, <1>2, <2>1, <2>3, <3>2 DEF OwnFrom
    <3>4. OwnFrom(before) \subseteq p \ {r}
      BY <3>2, <3>3 DEF OwnFrom
    <3>5. IsFiniteSet(p \ {r}) /\ Cardinality(p \ {r}) = Cardinality(p) - 1
      BY <1>1, <2>1, FS_RemoveElement
    <3>6. Cardinality(OwnFrom(before)) <= Cardinality(p) - 1
      BY <3>4, <3>5, FS_Subset
    <3>7. Cardinality(OwnFrom(before)) \in Nat /\ limit \in Nat
      BY <3>4, <3>5, FS_Subset, FS_CardinalityType DEF PastInv, PastKinds
    <3> QED BY <1>1, <3>2, <3>6, <3>7
  <2> QED BY <1>2, <2>1, <2>2, <2>3
<1> QED BY <1>1, <1>3, <1>4, <1>5

\* A further page shows what is owed, or ends at a time as old.
LEMMA NextPageStep == ASSUME PastBounds, PastInv, Past!NextPage PROVE PastInv'
<1> USE DEF FurtherPage
<1>1. PICK p \in SUBSET rows : FurtherPage(p)
  BY NextPageFacts
<1>2. before \in Nat /\ \A r \in rows : r.at \in Nat
  BY PastTimes
<1>3. PastKinds'
  BY <1>1 DEF PastInv, PastKinds
<1>4. OwedIsBehind'
  <2> SUFFICES ASSUME NEW r \in owing' PROVE r.at \in ties' \/ (Past!Full' /\ r.at <= before')
    BY DEF OwedIsBehind
  <2>1. r \in owing /\ r \in rows \ p
    BY <1>1 DEF PastInv, PastKinds
  <2>2. r.at \in ties \/ r.at <= before
    BY <1>1, <2>1 DEF PastInv, OwedIsBehind
  <2>3. CASE r.at \in ties \/ r.at = before
    BY <1>1, <2>3
  <2>4. CASE r.at < before
    BY <1>1, <2>1, <2>4
  <2> QED BY <1>2, <2>1, <2>2, <2>3, <2>4
<1>5. ShownIsAhead'
  <2> SUFFICES ASSUME Past!Full'
               PROVE  \/ \A r \in shown' : r.at >= before' \/ (query = "chat" /\ r.own)
                      \/ query = "chat" /\ Cardinality(OwnFrom(before)') >= limit
    BY <1>1 DEF ShownIsAhead
  <2>1. CASE before' >= before
    <3>1. query = "chat" /\ \A r \in p : r.own
      BY <1>1, <2>1, PageGoesBack
    <3>2. PICK t \in Nat : t = before' /\ \A r \in p : r.own /\ r.at >= t
      BY <1>1, <3>1
    <3>3. Cardinality(OwnFrom(t)) >= limit
      BY <1>1, <3>2, FullOfOwn
    <3>4. OwnFrom(before)' = OwnFrom(t)
      BY <1>1, <3>2 DEF OwnFrom
    <3> QED BY <3>1, <3>3, <3>4
  <2>2. CASE before' < before
    <3>1. CASE \A r \in shown : r.at >= before \/ (query = "chat" /\ r.own)
      <4>1. \A r \in shown : r \in rows
        BY DEF PastInv, PastKinds
      <4> QED BY <1>1, <1>2, <2>2, <3>1, <4>1
    <3>2. CASE query = "chat" /\ Cardinality(OwnFrom(before)) >= limit
      <4>1. PICK r \in p : r.at < before
        BY <1>1, <1>2, <2>2
      <4>2. OwnFrom(before) \subseteq p \ {r}
        BY <1>1, <1>2, <3>2, <4>1 DEF OwnFrom
      <4>3. IsFiniteSet(p \ {r}) /\ Cardinality(p \ {r}) = Cardinality(p) - 1
        BY <1>1, FS_RemoveElement
      <4>4. Cardinality(OwnFrom(before)) <= Cardinality(p) - 1
            /\ Cardinality(OwnFrom(before)) \in Nat /\ limit \in Nat
        BY <4>2, <4>3, FS_Subset, FS_CardinalityType DEF PastInv, PastKinds
      <4> QED BY <1>1, <3>2, <4>4
    <3> QED BY <1>1, <3>1, <3>2 DEF PastInv, ShownIsAhead
  <2> QED BY <1>1, <1>2, <2>1, <2>2
<1> QED BY <1>3, <1>4, <1>5 DEF PastInv

\* Every step keeps the invariant.
LEMMA PastStepInv == ASSUME PastBounds, PastInv, [Past!Next]_pastVars PROVE PastInv'
<1>1. CASE UNCHANGED pastVars
  BY <1>1 DEF pastVars, PastInv, PastKinds, OwedIsBehind, ShownIsAhead, Past!Full, OwnFrom
<1> QED BY <1>1, StoreStep, FirstPageStep, NextPageStep DEF Past!Next

\* A page that is not full leaves ties only.
LEMMA PastInvSuffices == PastInv => Past!TypeOK /\ SkippedOnlyByTie
<1>1. PastInv => Past!TypeOK
  BY DEF PastInv, PastKinds, PastRows, Past!TypeOK
<1>2. PastInv => SkippedOnlyByTie
  BY DEF PastInv, OwedIsBehind, SkippedOnlyByTie, Past!SkippedOnlyByTie
<1> QED BY <1>1, <1>2

-----------------------------------------------------------------------------
(* User search. *)

\* The same operator, once more.
LEMMA FindingCounts == \A S : Finding!Cardinality(S) = Cardinality(S)
BY DEF Finding!Cardinality, Cardinality

\* What the symbols are taken to be, and that a number has digits.
FindingBounds ==
    /\ {Plus, Other} \cap Digits = {} /\ Plus # Other /\ Zero \in Digits
    /\ \A s \in Typed : s \in Seq(Digits \cup {Plus, Other})
    /\ None \notin Seq(Digits \cup {Plus, Other})
    /\ MinDigits \in Nat \ {0}

\* Texts of digits, and texts of any symbols.
DigitTexts == Seq(Digits)
SymbolTexts == Seq(Digits \cup {Plus, Other})

\* The numbers from 1 to n.
LEMMA UpTo ==
    ASSUME NEW n \in Nat
    PROVE  IsFiniteSet(1..n) /\ Cardinality(1..n) = n
<1>1. 1 \in Int /\ n \in Int /\ (1 > n => n = 0)
  OBVIOUS
<1>2. IsFiniteSet(1..n) /\ Cardinality(1..n) = IF 1 > n THEN 0 ELSE n - 1 + 1
  BY <1>1, FS_Interval
<1> QED BY <1>1, <1>2

\* The places of the digits up to one are finitely many, and one more at a digit.
LEMMA PlacesFacts ==
    ASSUME NEW s \in SymbolTexts
    PROVE  /\ Finding!Places(s) = {i \in 1..Len(s) : s[i] \in Digits}
           /\ IsFiniteSet(Finding!Places(s)) /\ Cardinality(Finding!Places(s)) \in Nat
           /\ Cardinality(Finding!Places(s)) <= Len(s)
           /\ \A i \in 0..Len(s) :
                 /\ IsFiniteSet({j \in Finding!Places(s) : j <= i})
                 /\ Finding!Rank(s, i) \in Nat
                 /\ Finding!Rank(s, i) = Cardinality({j \in Finding!Places(s) : j <= i})
<1>1. Finding!Places(s) = {i \in 1..Len(s) : s[i] \in Digits}
  BY DEF Finding!Places, Finding!IsDigit
<1>2. Len(s) \in Nat
  BY DEF SymbolTexts
<1>3. IsFiniteSet(1..Len(s)) /\ Cardinality(1..Len(s)) = Len(s)
  BY <1>2, UpTo, Zenon
<1>4. /\ IsFiniteSet(Finding!Places(s)) /\ Cardinality(Finding!Places(s)) \in Nat
      /\ Cardinality(Finding!Places(s)) <= Len(s)
  BY <1>1, <1>3, FS_Subset, FS_CardinalityType
<1>5. ASSUME NEW i \in 0..Len(s)
      PROVE  /\ IsFiniteSet({j \in Finding!Places(s) : j <= i})
             /\ Finding!Rank(s, i) \in Nat
             /\ Finding!Rank(s, i) = Cardinality({j \in Finding!Places(s) : j <= i})
  BY <1>4, FS_Subset, FS_CardinalityType, FindingCounts DEF Finding!Rank
<1> QED BY <1>1, <1>4, <1>5

\* Among numbers up to n, and for every k up to how many they are, one is the k-th.
LEMMA CountingUp ==
    ASSUME NEW n \in Nat, NEW P \in SUBSET (1..n), NEW k \in Nat, 0 < k, k <= Cardinality(P)
    PROVE  \E m \in P : Cardinality({j \in P : j <= m}) = k
<1> DEFINE Upto(i) == {j \in P : j <= i}
           S == {i \in 0..n : Cardinality(Upto(i)) >= k}
<1>0. \A j \in P : j \in Nat /\ 0 < j /\ j <= n
  OBVIOUS
<1>1. IsFiniteSet(P) /\ Cardinality(P) \in Nat
  <2>1. IsFiniteSet(1..n)
    BY UpTo, Zenon
  <2> QED BY <2>1, FS_Subset, FS_CardinalityType
<1>2. \A i \in 0..n : IsFiniteSet(Upto(i)) /\ Cardinality(Upto(i)) \in Nat
  <2> TAKE i \in 0..n
  <2>1. Upto(i) \subseteq P
    OBVIOUS
  <2> QED BY <1>1, <2>1, FS_Subset, FS_CardinalityType
<1>3. Upto(n) = P /\ Upto(0) = {}
  <2>1. \A j \in P : j <= n /\ ~(j <= 0)
    BY <1>0
  <2> QED BY <2>1
<1>4. \A i \in 1..n : i - 1 \in 0..n
  OBVIOUS
<1>5. \A i \in (1..n) \ P : Upto(i) = Upto(i - 1)
  <2> SUFFICES ASSUME NEW i \in 1..n, i \notin P, NEW j \in P PROVE j <= i <=> j <= i - 1
    OBVIOUS
  <2> QED BY <1>0
<1>6. \A i \in P : Upto(i) = Upto(i - 1) \cup {i} /\ i \notin Upto(i - 1)
  <2> TAKE i \in P
  <2>1. \A j \in P : j <= i <=> j <= i - 1 \/ j = i
    BY <1>0
  <2>2. ~(i <= i - 1)
    BY <1>0
  <2> QED BY <2>1, <2>2
<1> HIDE DEF Upto
<1>7. n \in S /\ S \subseteq 0..n
  BY <1>3
<1>8. PICK m \in S : \A i \in S : m <= i
  <2>1. S \in SUBSET Nat /\ S # {}
    BY <1>7
  <2> QED BY <2>1, LeastNumber
<1>9. m # 0
  BY <1>3, <1>8, FS_EmptySet
<1>10. m \in 1..n /\ m - 1 \in 0..n /\ Cardinality(Upto(m)) >= k
  BY <1>4, <1>8, <1>9
<1>11. Cardinality(Upto(m - 1)) < k
  BY <1>2, <1>8, <1>10
<1>12. m \in P
  BY <1>2, <1>5, <1>10, <1>11
<1>13. Cardinality(Upto(m)) = Cardinality(Upto(m - 1)) + 1
  BY <1>2, <1>6, <1>10, <1>12, FS_AddElement
<1>14. Cardinality(Upto(m)) = k
  BY <1>2, <1>10, <1>11, <1>13
<1> QED BY <1>12, <1>14 DEF Upto

\* For every k up to the number of digits there is one that is the k-th.
LEMMA RankIsReached ==
    ASSUME NEW s \in SymbolTexts, NEW k \in 1..Cardinality(Finding!Places(s))
    PROVE  \E i \in Finding!Places(s) : Finding!Rank(s, i) = k
<1>1. /\ Finding!Places(s) \in SUBSET (1..Len(s)) /\ Len(s) \in Nat
      /\ Cardinality(Finding!Places(s)) \in Nat
  BY PlacesFacts DEF SymbolTexts
<1>2. k \in Nat /\ 0 < k /\ k <= Cardinality(Finding!Places(s))
  BY <1>1
<1>3. PICK m \in Finding!Places(s) : Cardinality({j \in Finding!Places(s) : j <= m}) = k
  BY <1>1, <1>2, CountingUp
<1>4. m \in 0..Len(s)
  BY <1>1
<1>5. Finding!Rank(s, m) = k
  BY <1>3, <1>4, PlacesFacts
<1> QED BY <1>5

\* The digits of a text are digits.
LEMMA DigitsAreDigits ==
    ASSUME NEW s \in SymbolTexts
    PROVE  /\ Finding!DigitsOf(s) \in DigitTexts
           /\ Len(Finding!DigitsOf(s)) = Cardinality(Finding!Places(s))
<1> DEFINE n == Cardinality(Finding!Places(s))
           At(k) == CHOOSE i \in Finding!Places(s) : Finding!Rank(s, i) = k
<1>1. n \in Nat
  BY PlacesFacts
<1>2. \A k \in 1..n : At(k) \in Finding!Places(s)
  BY RankIsReached
<1>3. \A k \in 1..n : s[At(k)] \in Digits
  BY <1>2, PlacesFacts
<1>4. Finding!DigitsOf(s) = [k \in 1..n |-> s[At(k)]]
  BY FindingCounts DEF Finding!DigitsOf
<1> HIDE DEF n, At
<1>5. [k \in 1..n |-> s[At(k)]] \in [1..n -> Digits]
  BY <1>3
<1>6. [k \in 1..n |-> s[At(k)]] \in Seq(Digits) /\ Len([k \in 1..n |-> s[At(k)]]) = n
  BY <1>1, <1>5
<1> QED BY <1>4, <1>6 DEF DigitTexts, n

\* A text of digits behind a beginning of o symbols that are none.
LEMMA DigitsBehind ==
    ASSUME NEW s \in SymbolTexts, NEW o \in Nat, o <= Len(s),
           \A i \in 1..Len(s) : s[i] \in Digits <=> i > o
    PROVE  Finding!DigitsOf(s) = [k \in 1..(Len(s) - o) |-> s[k + o]]
<1>1. Len(s) \in Nat
  BY DEF SymbolTexts
<1>2. Finding!Places(s) = (o + 1)..Len(s)
  <2>1. Finding!Places(s) = {i \in 1..Len(s) : s[i] \in Digits}
    BY PlacesFacts
  <2>2. Finding!Places(s) = {i \in 1..Len(s) : i > o}
    BY <2>1
  <2> QED BY <1>1, <2>2
<1>3. Cardinality(Finding!Places(s)) = Len(s) - o
  <2>1. CASE o = Len(s)
    <3>1. Finding!Places(s) = {}
      BY <1>1, <1>2, <2>1
    <3> QED BY <1>1, <2>1, <3>1, FS_EmptySet
  <2>2. CASE o < Len(s)
    BY <1>1, <1>2, <2>2, FS_Interval
  <2> QED BY <1>1, <2>1, <2>2
<1>4. ASSUME NEW i \in Finding!Places(s) PROVE Finding!Rank(s, i) = i - o
  <2>1. i \in (o + 1)..Len(s)
    BY <1>2
  <2>2. {j \in Finding!Places(s) : j <= i} = (o + 1)..i
    BY <1>1, <1>2, <2>1
  <2>3. Cardinality((o + 1)..i) = i - o
    BY <1>1, <2>1, FS_Interval
  <2>4. i \in 0..Len(s)
    BY <1>1, <2>1
  <2> QED BY <2>2, <2>3, <2>4, PlacesFacts
<1>5. ASSUME NEW k \in 1..(Len(s) - o)
      PROVE  (CHOOSE i \in Finding!Places(s) : Finding!Rank(s, i) = k) = k + o
  <2> DEFINE c == CHOOSE i \in Finding!Places(s) : Finding!Rank(s, i) = k
  <2>1. c \in Finding!Places(s) /\ Finding!Rank(s, c) = k
    BY <1>3, RankIsReached
  <2> HIDE DEF c
  <2>2. c - o = k /\ c \in (o + 1)..Len(s)
    BY <1>2, <1>4, <2>1
  <2>3. c = k + o
    BY <1>1, <2>2
  <2> QED BY <2>3 DEF c
<1>6. Finding!DigitsOf(s) =
        [k \in 1..(Len(s) - o) |-> s[CHOOSE i \in Finding!Places(s) : Finding!Rank(s, i) = k]]
  BY <1>3, FindingCounts DEF Finding!DigitsOf
<1> QED BY <1>5, <1>6

\* A text with a plus sign before it.
LEMMA PlusFacts ==
    ASSUME FindingBounds, NEW t \in DigitTexts
    PROVE  /\ t \in SymbolTexts /\ <<Plus>> \o t \in SymbolTexts
           /\ Len(<<Plus>> \o t) = Len(t) + 1 /\ Len(t) \in Nat
           /\ (<<Plus>> \o t)[1] = Plus
           /\ \A k \in 1..Len(t) : (<<Plus>> \o t)[k + 1] = t[k] /\ t[k] \in Digits
           /\ Finding!International(<<Plus>> \o t) /\ ~Finding!International(t)
           /\ Tail(<<Plus>> \o t) = t
<1>1. Plus \notin Digits
  BY DEF FindingBounds
<1>2. t \in Seq(Digits)
  BY DEF DigitTexts
<1>3. t \in Seq(Digits \cup {Plus, Other})
  BY <1>2
<1>4. /\ <<Plus>> \o t \in Seq(Digits \cup {Plus, Other})
      /\ Len(<<Plus>> \o t) = Len(t) + 1 /\ Len(t) \in Nat
      /\ (<<Plus>> \o t)[1] = Plus
      /\ \A k \in 1..Len(t) : (<<Plus>> \o t)[k + 1] = t[k] /\ t[k] \in Digits
  BY <1>2, <1>3
<1>5. Finding!International(<<Plus>> \o t)
  BY <1>3, <1>4 DEF Finding!International
<1>6. ~Finding!International(t)
  BY <1>1, <1>2 DEF Finding!International
<1>7. Tail(<<Plus>> \o t) = t
  BY <1>3, <1>4
<1> QED BY <1>3, <1>4, <1>5, <1>6, <1>7 DEF SymbolTexts

\* Digits are their own, and a plus sign before them adds none.
LEMMA DigitsOfDigits ==
    ASSUME FindingBounds, NEW t \in DigitTexts
    PROVE  Finding!DigitsOf(t) = t /\ Finding!DigitsOf(<<Plus>> \o t) = t
<1> DEFINE u == <<Plus>> \o t
<1>1. /\ t \in SymbolTexts /\ u \in SymbolTexts
      /\ Len(u) = Len(t) + 1 /\ Len(t) \in Nat /\ u[1] = Plus
      /\ \A k \in 1..Len(t) : u[k + 1] = t[k] /\ t[k] \in Digits
  BY PlusFacts
<1>2. t = [k \in 1..Len(t) |-> t[k]]
  BY DEF DigitTexts
<1>3. Finding!DigitsOf(t) = [k \in 1..(Len(t) - 0) |-> t[k + 0]]
  <2>1. \A i \in 1..Len(t) : t[i] \in Digits <=> i > 0
    BY <1>1
  <2> QED BY <1>1, <2>1, DigitsBehind
<1> HIDE DEF u
<1>4. Finding!DigitsOf(u) = [k \in 1..(Len(u) - 1) |-> u[k + 1]]
  <2>1. Plus \notin Digits
    BY DEF FindingBounds
  <2>2. ASSUME NEW i \in 1..Len(u) PROVE u[i] \in Digits <=> i > 1
    <3>1. CASE i = 1
      BY <1>1, <2>1, <3>1
    <3>2. CASE i > 1
      <4>1. i - 1 \in 1..Len(t) /\ (i - 1) + 1 = i
        BY <1>1, <3>2
      <4> QED BY <1>1, <3>2, <4>1
    <3> QED BY <1>1, <3>1, <3>2
  <2>3. 1 \in Nat /\ 1 <= Len(u)
    BY <1>1
  <2> QED BY <1>1, <2>2, <2>3, DigitsBehind
<1>5. Finding!DigitsOf(t) = t
  BY <1>1, <1>2, <1>3
<1>6. [k \in 1..(Len(u) - 1) |-> u[k + 1]] = [k \in 1..Len(t) |-> t[k]]
  BY <1>1
<1>7. Finding!DigitsOf(u) = t
  BY <1>2, <1>4, <1>6
<1> QED BY <1>5, <1>7 DEF u

\* A number that is not decorated is a plus sign and its digits.
LEMMA PlainIsKnown ==
    ASSUME FindingBounds, NEW u \in SymbolTexts, Finding!International(u), ~Finding!Decorated(u)
    PROVE  u = <<Plus>> \o Finding!DigitsOf(u)
<1>1. u # <<>> /\ u[1] = Plus /\ Len(u) \in Nat /\ Len(u) >= 1
  BY DEF Finding!International, SymbolTexts
<1>2. /\ Finding!Places(u) = {i \in 1..Len(u) : u[i] \in Digits}
      /\ Cardinality(Finding!Places(u)) \in Nat
  BY PlacesFacts
<1>3. Len(Finding!DigitsOf(u)) = Cardinality(Finding!Places(u))
  BY DigitsAreDigits
<1>4. Cardinality(Finding!Places(u)) >= Len(u) - 1
  BY <1>1, <1>2, <1>3 DEF Finding!Decorated
<1>5. Finding!Places(u) = 2..Len(u)
  <2>1. Finding!Places(u) \subseteq 2..Len(u)
    BY <1>1, <1>2 DEF FindingBounds
  <2>2. IsFiniteSet(2..Len(u)) /\ Cardinality(2..Len(u)) = Len(u) - 1
    BY <1>1, FS_Interval
  <2>3. Cardinality(Finding!Places(u)) = Cardinality(2..Len(u))
    BY <1>1, <1>2, <1>4, <2>1, <2>2, FS_Subset
  <2> QED BY <2>1, <2>2, <2>3, FS_Subset
<1>6. \A i \in 1..Len(u) : u[i] \in Digits <=> i > 1
  BY <1>1, <1>2, <1>5
<1>7. Finding!DigitsOf(u) = [k \in 1..(Len(u) - 1) |-> u[k + 1]]
  BY <1>1, <1>6, DigitsBehind
<1> DEFINE t == Finding!DigitsOf(u)
<1>8. /\ t \in Seq(Digits) /\ Len(t) = Len(u) - 1
      /\ \A k \in 1..Len(t) : t[k] = u[k + 1]
  <2>1. t \in Seq(Digits)
    BY DigitsAreDigits DEF DigitTexts
  <2>2. Len(t) = Len(u) - 1
    BY <1>1, <1>7, <2>1
  <2> QED BY <1>7, <2>1, <2>2
<1> HIDE DEF t
<1>9. /\ Len(<<Plus>> \o t) = Len(t) + 1 /\ <<Plus>> \o t \in SymbolTexts
      /\ (<<Plus>> \o t)[1] = Plus
      /\ \A k \in 1..Len(t) : (<<Plus>> \o t)[k + 1] = t[k]
  BY <1>8, PlusFacts DEF DigitTexts
<1>10. ASSUME NEW i \in 1..Len(u) PROVE u[i] = (<<Plus>> \o t)[i]
  <2>1. CASE i = 1
    BY <1>1, <1>9, <2>1
  <2>2. CASE i > 1
    <3>1. i - 1 \in 1..Len(t) /\ (i - 1) + 1 = i
      BY <1>1, <1>8, <2>2
    <3> QED BY <1>8, <1>9, <3>1
  <2>3. i = 1 \/ i > 1
    BY <1>1
  <2> QED BY <2>1, <2>2, <2>3
<1>11. Len(<<Plus>> \o t) = Len(u)
  BY <1>1, <1>8, <1>9
<1>12. u = <<Plus>> \o t
  BY <1>9, <1>10, <1>11, SeqEqual DEF SymbolTexts
<1> QED BY <1>12 DEF t

\* Digits behind two zeros.
LEMMA ZerosFacts ==
    ASSUME FindingBounds, NEW d \in DigitTexts, Finding!HasPrefix00(d)
    PROVE  /\ SubSeq(d, 3, Len(d)) \in DigitTexts
           /\ d = <<Zero, Zero>> \o SubSeq(d, 3, Len(d))
<1>1. d \in Seq(Digits) /\ Len(d) \in Nat /\ Len(d) >= 2 /\ d[1] = Zero /\ d[2] = Zero
  BY DEF DigitTexts, Finding!HasPrefix00
<1> DEFINE e == SubSeq(d, 3, Len(d))
<1>2. e \in Seq(Digits) /\ Len(e) = Len(d) - 2
      /\ \A k \in 1..Len(e) : e[k] = d[k + 2]
  <2>1. \A i \in 3..Len(d) : d[i] \in Digits
    BY <1>1
  <2>2. /\ SubSeq(d, 3, Len(d)) \in Seq(Digits)
        /\ Len(SubSeq(d, 3, Len(d))) = IF 3 <= Len(d) THEN Len(d) - 3 + 1 ELSE 0
        /\ \A i \in 1..(Len(d) - 3 + 1) : SubSeq(d, 3, Len(d))[i] = d[3 + i - 1]
    <3>1. 3 \in Int /\ Len(d) \in Int
      BY <1>1
    <3> QED BY <2>1, <3>1, SubSeqProperties
  <2>3. \A k \in 1..(Len(d) - 3 + 1) : 3 + k - 1 = k + 2
    BY <1>1
  <2> HIDE DEF e
  <2>4. e \in Seq(Digits) /\ (\A k \in 1..(Len(d) - 3 + 1) : e[k] = d[k + 2])
        /\ Len(e) = IF 3 <= Len(d) THEN Len(d) - 3 + 1 ELSE 0
    BY <2>2, <2>3 DEF e
  <2>5. Len(e) = Len(d) - 2
    <3>1. PICK n \in Nat : n = Len(d) /\ n >= 2
      BY <1>1
    <3>2. (IF 3 <= n THEN n - 3 + 1 ELSE 0) = n - 2
      BY <3>1
    <3> QED BY <2>4, <3>1, <3>2
  <2>6. Len(d) - 3 + 1 = Len(e)
    BY <1>1, <2>5
  <2> QED BY <2>4, <2>5, <2>6
<1>3. <<Zero, Zero>> \in Seq(Digits) /\ Len(<<Zero, Zero>>) = 2
  BY DEF FindingBounds
<1> HIDE DEF e
<1>4. /\ <<Zero, Zero>> \o e \in Seq(Digits) /\ Len(<<Zero, Zero>> \o e) = Len(d)
      /\ (<<Zero, Zero>> \o e)[1] = Zero /\ (<<Zero, Zero>> \o e)[2] = Zero
      /\ \A k \in 3..Len(d) : (<<Zero, Zero>> \o e)[k] = e[k - 2]
  BY <1>1, <1>2, <1>3
<1>5. ASSUME NEW i \in 1..Len(d) PROVE d[i] = (<<Zero, Zero>> \o e)[i]
  <2>1. CASE i \in {1, 2}
    BY <1>1, <1>4, <2>1
  <2>2. CASE i \in 3..Len(d)
    <3>1. i - 2 \in 1..Len(e) /\ (i - 2) + 2 = i
      BY <1>1, <1>2, <2>2
    <3> QED BY <1>2, <1>4, <2>2, <3>1
  <2>3. i \in {1, 2} \/ i \in 3..Len(d)
    BY <1>1
  <2> QED BY <2>1, <2>2, <2>3
<1>6. d = <<Zero, Zero>> \o e
  BY <1>1, <1>4, <1>5, SeqEqual
<1> QED BY <1>2, <1>6 DEF e, DigitTexts

\* The forms that are looked for have the digits that were typed, less the zeros
\* that stand for a plus sign; without such zeros the plus sign is one of them.
LEMMA CandidateForms ==
    ASSUME FindingBounds, NEW s \in SymbolTexts
    PROVE  /\ \A n \in Finding!Candidates(s) :
                 \/ Finding!DigitsOf(n) = Finding!DigitsOf(s)
                 \/ <<Zero, Zero>> \o Finding!DigitsOf(n) = Finding!DigitsOf(s)
           /\ Finding!DigitsOf(s) # <<>> /\ ~Finding!HasPrefix00(Finding!DigitsOf(s)) =>
                 <<Plus>> \o Finding!DigitsOf(s) \in Finding!Candidates(s)
<1> DEFINE d == Finding!DigitsOf(s)
           c == Finding!Cleaned(s)
           n == Finding!Dialled(c)
           e == SubSeq(d, 3, Len(d))
<1>1. d \in DigitTexts
  BY DigitsAreDigits
<1>2. c = d \/ c = <<Plus>> \o d
  BY DEF Finding!Cleaned
<1>3. Finding!Candidates(s) =
        IF c = <<>> THEN {}
        ELSE {n, IF Finding!International(n) THEN Tail(n) ELSE <<Plus>> \o n} \ {<<>>}
  BY DEF Finding!Candidates
<1>4. n = IF Finding!HasPrefix00(c) THEN <<Plus>> \o SubSeq(c, 3, Len(c)) ELSE c
  BY DEF Finding!Dialled
<1> HIDE DEF c, n, d
<1>5. <<Plus>> \o d # <<>> /\ ~Finding!HasPrefix00(<<Plus>> \o d)
  <2>1. Plus # Zero
    BY DEF FindingBounds
  <2> QED BY <1>1, <2>1, PlusFacts DEF Finding!HasPrefix00, Finding!International
<1>6. CASE c = <<Plus>> \o d
  <2>1. n = <<Plus>> \o d
    BY <1>4, <1>5, <1>6
  <2>2. Finding!Candidates(s) = {<<Plus>> \o d, d} \ {<<>>}
    BY <1>1, <1>3, <1>5, <1>6, <2>1, PlusFacts
  <2>3. Finding!DigitsOf(d) = d /\ Finding!DigitsOf(<<Plus>> \o d) = d
    BY <1>1, DigitsOfDigits
  <2> QED BY <1>5, <2>2, <2>3 DEF d
<1>7. CASE c = d /\ Finding!HasPrefix00(d)
  <2>1. e \in DigitTexts /\ d = <<Zero, Zero>> \o e
    BY <1>1, <1>7, ZerosFacts
  <2>2. n = <<Plus>> \o e
    BY <1>4, <1>7
  <2> HIDE DEF e
  <2>3. Finding!Candidates(s) \subseteq {<<Plus>> \o e, e}
    BY <1>3, <2>1, <2>2, PlusFacts
  <2>4. Finding!DigitsOf(e) = e /\ Finding!DigitsOf(<<Plus>> \o e) = e
    BY <2>1, DigitsOfDigits
  <2> QED BY <1>7, <2>1, <2>3, <2>4 DEF d
<1>8. CASE c = d /\ ~Finding!HasPrefix00(d)
  <2>1. n = d /\ ~Finding!International(d)
    BY <1>1, <1>4, <1>8, PlusFacts
  <2>2. Finding!Candidates(s) = IF d = <<>> THEN {} ELSE {d, <<Plus>> \o d} \ {<<>>}
    BY <1>3, <1>8, <2>1
  <2>3. Finding!DigitsOf(d) = d /\ Finding!DigitsOf(<<Plus>> \o d) = d
    BY <1>1, DigitsOfDigits
  <2> QED BY <1>5, <2>2, <2>3 DEF d
<1> QED BY <1>2, <1>6, <1>7, <1>8

\* What is stored for a user.
Numbers == {u \in SymbolTexts : Finding!International(u) /\ Len(Finding!DigitsOf(u)) >= MinDigits}

FindingKinds ==
    /\ users \subseteq Numbers
    /\ there \subseteq users
    /\ found \in users \cup {None}
    /\ found # None => left = {}
    /\ failed \in BOOLEAN
    /\ sought.by \in {"none", "number", "id", "nickname"}
    /\ sought.by = "none" => found = None /\ left = {}
    /\ sought.by = "number" => sought.for \in Typed

\* A search by number looks for the forms of the text that was typed, and those
\* it has done with were nobody's when it began.
FormsAreTried ==
    sought.by = "number" =>
        /\ found # None => found \in Finding!Candidates(sought.for)
        /\ left \subseteq Finding!Candidates(sought.for)
        /\ found = None /\ ~failed =>
              \A n \in Finding!Candidates(sought.for) \ left : n \notin there

FindingInv == FindingKinds /\ FormsAreTried

\* Nobody is registered and nothing was looked for.
LEMMA FindingInitInv == ASSUME FindingBounds, Finding!Init PROVE FindingInv
BY DEF FindingBounds, Finding!Init, Finding!NoQuery, FindingInv, FindingKinds, FormsAreTried

\* The number of a user who registers has its plus sign and enough digits.
LEMMA NormalIsNumber ==
    ASSUME FindingBounds, NEW s \in Typed, Len(Finding!DigitsOf(s)) >= MinDigits
    PROVE  Finding!Normal(s) \in Numbers
<1>1. s \in SymbolTexts
  BY DEF FindingBounds, SymbolTexts
<1>2. CASE Finding!International(s)
  BY <1>1, <1>2 DEF Finding!Normal, Numbers
<1>3. CASE ~Finding!International(s)
  <2>1. PICK d \in DigitTexts : d = Finding!DigitsOf(s)
    BY <1>1, DigitsAreDigits
  <2>2. /\ <<Plus>> \o d \in SymbolTexts /\ Finding!International(<<Plus>> \o d)
        /\ Finding!DigitsOf(<<Plus>> \o d) = d
    BY PlusFacts, DigitsOfDigits
  <2>3. Finding!Normal(s) = <<Plus>> \o d
    BY <1>3, <2>1 DEF Finding!Normal
  <2> QED BY <2>1, <2>2, <2>3 DEF Numbers
<1> QED BY <1>2, <1>3

\* Every step keeps the invariant.
LEMMA FindingStepInv ==
    ASSUME FindingBounds, FindingInv, [Finding!Next]_findingVars PROVE FindingInv'
<1> USE DEF FindingInv, FindingKinds, FormsAreTried
<1>1. ASSUME NEW s \in Typed, Finding!Register(s) PROVE FindingInv'
  <2>1. Finding!Normal(s) \in Numbers
    BY <1>1, NormalIsNumber DEF Finding!Register
  <2> QED BY <1>1, <2>1 DEF Finding!Register
<1>2. ASSUME NEW s \in Typed, Finding!SearchNumber(s) PROVE FindingInv'
  BY <1>2 DEF Finding!SearchNumber, Finding!BeginSearch, Finding!NoQuery
<1>3. ASSUME NEW u \in users, Finding!SearchNickname(u) PROVE FindingInv'
  BY <1>3 DEF Finding!SearchNickname, Finding!BeginSearch, Finding!NoQuery
<1>4. ASSUME NEW u \in users, NEW asker \in users, Finding!SearchId(asker, u) PROVE FindingInv'
  BY <1>4 DEF Finding!SearchId, Finding!BeginSearch, Finding!NoQuery
<1>5. ASSUME NEW n \in left, Finding!Lookup(n) PROVE FindingInv'
  <2>1. None \notin users
    BY DEF FindingBounds, Numbers, SymbolTexts
  <2> QED BY <1>5, <2>1 DEF Finding!Lookup
<1>6. ASSUME NEW n \in left, Finding!LookupFails(n) PROVE FindingInv'
  BY <1>6 DEF Finding!LookupFails
<1>7. CASE UNCHANGED findingVars
  BY <1>7 DEF findingVars
<1> QED BY <1>1, <1>2, <1>3, <1>4, <1>5, <1>6, <1>7 DEF Finding!Next

\* Users without a decoration are known by their digits, and the forms that were
\* tried are those of the text.
LEMMA FindingInvSuffices ==
    ASSUME FindingBounds, FindingInv PROVE Finding!TypeOK /\ NumberNamesUser
<1>1. Finding!TypeOK
  BY DEF FindingInv, FindingKinds, Numbers, Finding!TypeOK
<1>2. Finding!OneUserPerNumber
  <2> SUFFICES ASSUME NEW u \in users, NEW v \in users,
                      Finding!DigitsOf(u) = Finding!DigitsOf(v),
                      ~Finding!Decorated(u), ~Finding!Decorated(v)
               PROVE  u = v
    BY DEF Finding!OneUserPerNumber
  <2>1. /\ u \in SymbolTexts /\ Finding!International(u)
        /\ v \in SymbolTexts /\ Finding!International(v)
    BY DEF FindingInv, FindingKinds, Numbers
  <2>2. u = <<Plus>> \o Finding!DigitsOf(u) /\ v = <<Plus>> \o Finding!DigitsOf(v)
    BY <2>1, PlainIsKnown
  <2> QED BY <2>2
<1>3. sought.by = "number" => sought.for \in SymbolTexts
  BY DEF FindingBounds, FindingInv, FindingKinds, SymbolTexts
<1>4. Finding!FoundIsAsked
  BY <1>3, CandidateForms DEF FindingInv, FormsAreTried, Finding!FoundIsAsked
<1>5. Finding!MissedForCause
  <2> SUFFICES ASSUME sought.by = "number", left = {}, found = None, NEW u \in there,
                      Finding!DigitsOf(u) = Finding!DigitsOf(sought.for),
                      ~failed, ~Finding!Decorated(u),
                      ~Finding!HasPrefix00(Finding!DigitsOf(u))
               PROVE  FALSE
    BY DEF Finding!MissedForCause
  <2>1. /\ u \in SymbolTexts /\ Finding!International(u)
        /\ Len(Finding!DigitsOf(u)) >= MinDigits
    BY DEF FindingInv, FindingKinds, Numbers
  <2>2. u = <<Plus>> \o Finding!DigitsOf(u)
    BY <2>1, PlainIsKnown
  <2>3. Finding!DigitsOf(u) # <<>>
    BY <2>1 DEF FindingBounds
  <2>4. PICK s \in SymbolTexts : s = sought.for
    BY <1>3
  <2>5. PICK d : d = Finding!DigitsOf(u) /\ d = Finding!DigitsOf(s)
    BY <2>4
  <2>6. d # <<>> /\ ~Finding!HasPrefix00(d)
    BY <2>3, <2>5
  <2>7. <<Plus>> \o Finding!DigitsOf(s) \in Finding!Candidates(s)
    BY <2>5, <2>6, CandidateForms
  <2>8. u \in Finding!Candidates(sought.for)
    BY <2>2, <2>4, <2>5, <2>7
  <2> QED BY <2>8 DEF FindingInv, FormsAreTried
<1> QED BY <1>1, <1>2, <1>4, <1>5 DEF NumberNamesUser, Finding!NumberNamesUser

-----------------------------------------------------------------------------
(* The services together. *)

\* A behaviour of the services together is one of each service alone: whichever
\* is chosen, the others stay as they began.
THEOREM ServicesImplement ==
    ServicesSpec =>
        /\ Keys!Spec /\ Files!Spec /\ Online!Spec /\ Own!Spec
        /\ Past!Spec /\ Finding!Spec /\ Spec
<1>1. ServicesInit =>
        /\ Keys!Init /\ Files!Init /\ Online!Init /\ Own!Init
        /\ Past!Init /\ Finding!Init /\ Init
  BY DEF ServicesInit
<1> USE DEF ServicesNext, allVars
<1>2. [ServicesNext]_allVars => [Keys!Next]_(Keys!vars)
  BY DEF keysVars, Keys!vars
<1>3. [ServicesNext]_allVars => [Files!Next]_(Files!vars)
  BY DEF filesVars, Files!vars
<1>4. [ServicesNext]_allVars => [Online!Next]_(Online!vars)
  BY DEF onlineVars, Online!vars
<1>5. [ServicesNext]_allVars => [Own!Next]_(Own!vars)
  BY DEF recordsVars, Own!vars
<1>6. [ServicesNext]_allVars => [Past!Next]_(Past!vars)
  BY DEF pastVars, Past!vars
<1>7. [ServicesNext]_allVars => [Finding!Next]_(Finding!vars)
  BY DEF findingVars, Finding!vars
<1>8. [ServicesNext]_allVars => [Next]_vars
  OBVIOUS
<1> QED BY <1>1, <1>2, <1>3, <1>4, <1>5, <1>6, <1>7, <1>8, PTL
        DEF ServicesSpec, Keys!Spec, Files!Spec, Online!Spec, Own!Spec, Past!Spec,
            Finding!Spec, Spec

\* The constants are what each service takes them to be.
LEMMA BoundsHold ==
    /\ KeyBounds /\ FileBounds /\ OnlineBounds /\ OwnBounds
    /\ PastBounds /\ FindingBounds /\ Bounds
BY ServicesAssumption
   DEF KeyBounds, FileBounds, OnlineBounds, OwnBounds, PastBounds, FindingBounds, Bounds

\* The invariant of the pre-keys holds.
LEMMA KeysInvariance == ServicesSpec => []KeysInv
<1>1. Keys!Init => KeysInv
  BY BoundsHold, KeysInitIInv
<1>2. KeysInv /\ [Keys!Next]_(Keys!vars) => KeysInv'
  BY BoundsHold, KeysStepIInv DEF Keys!vars, keysVars
<1> QED BY <1>1, <1>2, ServicesImplement, PTL DEF Keys!Spec

\* The invariant of the uploads holds.
LEMMA FilesInvariance == ServicesSpec => []FilesInv
<1>1. Files!Init => FilesInv
  BY BoundsHold, FilesInitIInv
<1>2. FilesInv /\ [Files!Next]_(Files!vars) => FilesInv'
  BY BoundsHold, FilesStepIInv DEF Files!vars, filesVars
<1> QED BY <1>1, <1>2, ServicesImplement, PTL DEF Files!Spec

\* The invariant of presence holds.
LEMMA OnlineInvariance == ServicesSpec => []OnlineInv
<1>1. Online!Init => OnlineInv
  BY BoundsHold, OnlineInitInv
<1>2. OnlineInv /\ [Online!Next]_(Online!vars) => OnlineInv'
  BY BoundsHold, OnlineStepInv DEF Online!vars, onlineVars
<1> QED BY <1>1, <1>2, ServicesImplement, PTL DEF Online!Spec

\* The invariant of the user's records holds.
LEMMA OwnInvariance == ServicesSpec => []OwnInv
<1>1. Own!Init => OwnInv
  BY BoundsHold, OwnInitInv
<1>2. OwnInv /\ [Own!Next]_(Own!vars) => OwnInv'
  BY BoundsHold, OwnStepInv DEF Own!vars, recordsVars
<1> QED BY <1>1, <1>2, ServicesImplement, PTL DEF Own!Spec

\* The invariant of the history holds.
LEMMA PastInvariance == ServicesSpec => []PastInv
<1>1. Past!Init => PastInv
  BY BoundsHold, PastInitInv
<1>2. PastInv /\ [Past!Next]_(Past!vars) => PastInv'
  BY BoundsHold, PastStepInv DEF Past!vars, pastVars
<1> QED BY <1>1, <1>2, ServicesImplement, PTL DEF Past!Spec

\* The invariant of the search holds.
LEMMA FindingInvariance == ServicesSpec => []FindingInv
<1>1. Finding!Init => FindingInv
  BY BoundsHold, FindingInitInv
<1>2. FindingInv /\ [Finding!Next]_(Finding!vars) => FindingInv'
  BY BoundsHold, FindingStepInv DEF Finding!vars, findingVars
<1> QED BY <1>1, <1>2, ServicesImplement, PTL DEF Finding!Spec

\* Whichever service is chosen, its variables hold values of their kinds.
THEOREM ServicesAreTyped == ServicesSpec => []TypesHold
<1>1. KeysInv => Keys!TypeOK
  BY KeysIInvSuffices
<1>2. FilesInv => Files!TypeOK
  BY BoundsHold, FilesIInvSuffices
<1>3. OnlineInv => Online!TypeOK
  BY OnlineInvSuffices
<1>4. OwnInv => Own!TypeOK
  BY OwnInvSuffices
<1>5. PastInv => Past!TypeOK
  BY PastInvSuffices
<1>6. FindingInv => Finding!TypeOK
  BY BoundsHold, FindingInvSuffices
<1>7. Keys!TypeOK /\ Files!TypeOK /\ Online!TypeOK /\ Own!TypeOK
        /\ Past!TypeOK /\ Finding!TypeOK /\ TypeOK => TypesHold
  BY DEF TypesHold
<1>8. Spec => []TypeOK
  <2>1. Spec => [](TypeOK /\ LogIsRight)
    BY BoundsHold, LogIsTrue
  <2> QED BY <2>1, PTL
<1> QED BY <1>1, <1>2, <1>3, <1>4, <1>5, <1>6, <1>7, <1>8, KeysInvariance, FilesInvariance,
           OnlineInvariance, OwnInvariance, PastInvariance, FindingInvariance,
           ServicesImplement, PTL

\* A one-time key is taken by one bundle only, and what used_at says is what
\* became of it (otpk_repo_pg.go:35-69), for any number of calls, devices,
\* uploads and keys.
THEOREM KeysAreTakenOnce == ServicesSpec => []KeysAreSpentOnce
<1>1. KeysInv => KeysAreSpentOnce
  BY KeysIInvSuffices DEF KeysAreSpentOnce, Keys!KeysAreSpentOnce
<1> QED BY <1>1, KeysInvariance, PTL

\* No one-time key is newer than the identity key of its device's row
\* (keys/service.go:63-98).
THEOREM KeysFollowTheirRow == ServicesSpec => []NotAheadOfRow
<1>1. KeysInv => NotAheadOfRow
  BY KeysIInvOrders DEF NotAheadOfRow
<1> QED BY <1>1, KeysInvariance, PTL

\* A row tells of the file beside it, no file outgrows the limit by more than a
\* unit, and a feeder is left behind by a failed save only (service.go:99-131,
\* local_storage.go:31-48), for any number of uploads that overlap.
THEOREM UploadsAreTold == ServicesSpec => []UploadIsTold
<1>1. FilesInv => UploadIsTold
  BY BoundsHold, FilesIInvSuffices DEF UploadIsTold, Files!UploadIsTold
<1> QED BY <1>1, FilesInvariance, PTL

\* A user is shown online while a connection of his is served, unless another one
\* left, a command failed or a connection had no writer for a whole heartbeat, and
\* offline when he has none, unless a handler went without deleting the key
\* (ws.go:117-216, presence.go:22-32): for any number of connections and any time
\* to live that outlasts a heartbeat.
THEOREM OnlineIsConnected == ServicesSpec => []PresenceIsTrue
<1>1. OnlineInv => PresenceIsTrue
  BY OnlineInvSuffices
<1> QED BY <1>1, OnlineInvariance, PTL

\* One goroutine writes to a socket at a time, but for the answer to a ping
\* (ws.go:135-141 and 270).
THEOREM WritersAreAlone == ServicesSpec => []SoleWriter
<1>1. OnlineInv => SoleWriter
  BY OnlineInvSuffices
<1> QED BY <1>1, OnlineInvariance, PTL

\* A change of the profile, of a flag or of the contacts that was answered with
\* success stays until that field is changed again, unless a change of the profile
\* overlapped it or a later one failed (profile/service.go:72-95,
\* chat_state_repo_pg.go:19-53, contact/service.go:78-93): for any number of
\* requests and fields, whoever writes the flags of the user's row.
THEOREM ChangesAreKept == ServicesSpec => []LostByOverlapOnly
<1>1. OwnInv => LostByOverlapOnly
  BY OwnInvSuffices
<1> QED BY <1>1, OwnInvariance, PTL

\* Paging back to the end skips a message only where it has the very time at which
\* a page ended (message_repo_pg.go:349-359, 527-542 and 688-706), for any number
\* of messages and any limits.
THEOREM PagesSkipAtTies == ServicesSpec => []SkippedOnlyByTie
<1>1. PastInv => SkippedOnlyByTie
  BY PastInvSuffices
<1> QED BY <1>1, PastInvariance, PTL

\* A further page goes back, but for the reader's own messages of a chat, which
\* come again, and come for ever once they fill a page
\* (message_repo_pg.go:527-540).
THEOREM PagesGoBack == ServicesSpec => GoesBackButForOwn
<1>1. PastInv /\ [Past!Next]_(Past!vars) =>
        [Past!NextPage =>
           /\ Past!Stale(page') # {} => query = "chat" /\ \A r \in Past!Stale(page') : r.own
           /\ Past!Full' /\ before' >= before =>
                 Past!Cardinality({r \in rows : r.own /\ r.at >= before}) >= limit]_(Past!vars)
  BY BoundsHold, PageGoesBack, PastCounts DEF OwnFrom
<1> QED BY <1>1, PastInvariance, ServicesImplement, PTL
        DEF Past!Spec, GoesBackButForOwn, Past!GoesBackButForOwn

\* A number, however it is typed, leads to the one user who has it, but for the
\* forms and failures named (auth/service.go:279-291, search.go:66-155), for
\* numbers of any length and any number of users.
THEOREM NumbersNameUsers == ServicesSpec => []NumberNamesUser
<1>1. FindingInv => NumberNamesUser
  BY BoundsHold, FindingInvSuffices
<1> QED BY <1>1, FindingInvariance, PTL
=============================================================================
