----------------------------- MODULE SyncLogProofs -----------------------------
(* What a client of the sync log may count on, for any number of changes,   *)
(* users and clients and for pages of any size.                             *)
EXTENDS SyncLog, FiniteSetTheorems, WellFoundedInduction, TLAPS

Drawn == {c \in Changes : phase[c] \in {"open", "committed", "failed"}}

\* An id is drawn once, from a sequence that counts the events that have one.
Sequence ==
    /\ lastId \in Nat /\ lastId = Cardinality(Drawn)
    /\ id \in [Changes -> Nat]
    /\ \A c \in Changes : (c \in Drawn /\ id[c] \in 1..lastId) \/ (c \notin Drawn /\ id[c] = 0)
    /\ \A b, c \in Drawn : id[b] = id[c] => b = c

Kinds ==
    /\ phase \in [Changes -> {"new", "saved", "open", "committed", "failed"}]
    /\ client \in [Clients -> {"idle", "listed"}]
    /\ cursor \in [Clients -> Nat]
    /\ known \in [Clients -> SUBSET Changes]
    /\ late \subseteq Changes
    /\ before \in [Clients -> SUBSET Changes]
    /\ window \in [Clients -> SUBSET Changes]
    /\ passed \in [Clients -> SUBSET Changes]

\* A cursor is the id of an event that is in the client's log.
AtEvent(p) == cursor[p] = 0 \/ \E c \in Committed(ClientUser[p]) : id[c] = cursor[p]

\* What is behind an idle client's cursor is known to it, was overtaken, or was
\* passed by its last full sync; one under way shows or passes what it found.
Covered(p) ==
    IF client[p] = "idle"
    THEN \A c \in Committed(ClientUser[p]) :
            id[c] <= cursor[p] => c \in known[p] \cup late \cup window[p] \cup passed[p]
    ELSE before[p] \subseteq known[p] \cup passed[p]

Own(p) ==
    \A c \in known[p] :
        /\ UserOf[c] = ClientUser[p] \/ ClientUser[p] \in ChatOf[c]
        /\ phase[c] # "new"

IInv == Sequence /\ Kinds /\ \A p \in Clients : AtEvent(p) /\ Covered(p) /\ Own(p)

-----------------------------------------------------------------------------
\* A set of numbers that has a bound has a largest member.
LEMMA Largest ==
    ASSUME NEW n \in Nat, NEW T, T \subseteq 0..n, T # {}
    PROVE  \E m \in T : \A k \in T : k <= m
<1> DEFINE D == {n - k : k \in T}
<1>1. D \subseteq Nat /\ D # {}
  <2>1. \A k \in T : n - k \in Nat
    OBVIOUS
  <2> QED BY <2>1
<1>2. PICK d \in D : \A e \in D : <<e, d>> \notin OpToRel(<, Nat)
  BY <1>1, WFMin, NatLessThanWellFounded, Zenon
<1>3. \A e \in D : ~(e < d)
  BY <1>1, <1>2, Zenon DEF OpToRel
<1>4. PICK m \in T : d = n - m
  OBVIOUS
<1>5. ASSUME NEW k \in T PROVE k <= m
  <2>1. n - k \in D
    OBVIOUS
  <2> QED BY <1>3, <1>4, <2>1
<1> QED BY <1>5

\* The ids that are drawn are among Ids, of which there are enough.
LEMMA Enough ==
    ASSUME Sequence
    PROVE  MaxId \in Nat /\ lastId <= MaxId /\ IsFiniteSet(Drawn)
           /\ \A c \in Changes : id[c] \in 0..MaxId
<1>1. IsFiniteSet(Drawn) /\ Cardinality(Drawn) <= Cardinality(Changes) /\ Cardinality(Changes) \in Nat
  BY SyncAssumption, FS_Subset, FS_CardinalityType DEF Drawn
<1> QED BY <1>1 DEF Sequence, MaxId

\* GetLastID is the id of an event in the log, and none there is larger.
LEMMA LastIsLargest ==
    ASSUME IInv, NEW u
    PROVE  /\ Committed(u) = {} => LastId(u) = 0
           /\ Committed(u) # {} => \E c \in Committed(u) : /\ id[c] = LastId(u)
                                                           /\ \A b \in Committed(u) : id[b] <= id[c]
<1>1. CASE Committed(u) = {}
  BY <1>1 DEF LastId
<1>2. CASE Committed(u) # {}
  <2> DEFINE T == {id[c] : c \in Committed(u)}
  <2>1. \A c \in Committed(u) : c \in Changes /\ c \in Drawn /\ id[c] \in 1..lastId
    BY DEF Committed, IInv, Sequence, Drawn
  <2>2. T \subseteq 0..lastId /\ T # {} /\ lastId \in Nat
    BY <1>2, <2>1 DEF IInv, Sequence
  <2>3. PICK m \in T : \A k \in T : k <= m
    BY <2>2, Largest
  <2>4. m \in Ids
    BY <2>1, Enough DEF IInv, Sequence, Ids
  <2>5. /\ \E c \in Committed(u) : id[c] = m
        /\ \A c \in Committed(u) : id[c] <= m
    BY <2>3
  <2>6. /\ \E c \in Committed(u) : id[c] = LastId(u)
        /\ \A c \in Committed(u) : id[c] <= LastId(u)
    BY <1>2, <2>4, <2>5, Zenon DEF LastId
  <2> QED BY <1>2, <2>6
<1> QED BY <1>1, <1>2

-----------------------------------------------------------------------------
\* Nothing is drawn or known before the first append.
LEMMA InitIInv == Init => IInv
<1> SUFFICES ASSUME Init PROVE IInv
  OBVIOUS
<1>1. Sequence
  <2>1. Drawn = {}
    BY DEF Init, Drawn
  <2> QED BY <2>1, FS_EmptySet DEF Init, Sequence
<1>2. Kinds
  BY DEF Init, Kinds
<1>3. ASSUME NEW p \in Clients PROVE AtEvent(p) /\ Covered(p) /\ Own(p)
  <2>1. Committed(ClientUser[p]) = {}
    BY DEF Init, Committed
  <2> QED BY <2>1 DEF Init, AtEvent, Covered, Own
<1> QED BY <1>1, <1>2, <1>3 DEF IInv

\* A step of the log that commits nothing leaves the clients what they have.
LEMMA UncommittedStep ==
    ASSUME IInv, Sequence', Kinds', UNCHANGED <<late, readers>>,
           \A c \in Changes : phase'[c] = "committed" <=> phase[c] = "committed",
           \A c \in Changes : phase[c] = "committed" => id'[c] = id[c],
           \A c \in Changes : phase[c] # "new" => phase'[c] # "new"
    PROVE  IInv'
<1> USE DEF readers
<1>1. ASSUME NEW u PROVE Committed(u)' = Committed(u)
  BY DEF Committed
<1>2. ASSUME NEW u, NEW c \in Committed(u) PROVE id'[c] = id[c] /\ c \in Changes
  BY DEF Committed
<1>3. ASSUME NEW p \in Clients PROVE AtEvent(p)' /\ Covered(p)' /\ Own(p)'
  <2>1. AtEvent(p) /\ Covered(p) /\ Own(p) /\ known[p] \subseteq Changes
    BY DEF IInv, Kinds
  <2>2. AtEvent(p)'
    BY <1>1, <1>2, <2>1 DEF AtEvent
  <2>3. Covered(p)'
    BY <1>1, <1>2, <2>1 DEF Covered
  <2>4. Own(p)'
    BY <2>1 DEF Own
  <2> QED BY <2>2, <2>3, <2>4
<1> QED BY <1>3 DEF IInv

\* A change that is saved has no id yet.
LEMMA SaveChangeStep == ASSUME IInv, NEW c \in Changes, SaveChange(c) PROVE IInv'
<1>1. Kinds /\ Sequence
  BY DEF IInv
<1>2. \A b \in Changes : phase'[b] = IF b = c THEN "saved" ELSE phase[b]
  BY <1>1 DEF SaveChange, Kinds
<1>3. Drawn' = Drawn
  BY <1>2 DEF SaveChange, Drawn
<1>4. Sequence'
  BY <1>1, <1>3 DEF SaveChange, Sequence
<1>5. Kinds'
  BY <1>1 DEF SaveChange, Kinds, readers
<1> QED BY <1>2, <1>4, <1>5, UncommittedStep DEF SaveChange

\* An append draws the next id.
LEMMA AppendStep == ASSUME IInv, NEW c \in Changes, Append(c) PROVE IInv'
<1>1. Kinds /\ Sequence
  BY DEF IInv
<1>2. \A b \in Changes : /\ phase'[b] = IF b = c THEN "open" ELSE phase[b]
                         /\ id'[b] = IF b = c THEN lastId + 1 ELSE id[b]
  BY <1>1 DEF Append, Kinds, Sequence
<1>3. Drawn' = Drawn \cup {c} /\ c \notin Drawn
  BY <1>2 DEF Append, Drawn
<1>4. Cardinality(Drawn') = Cardinality(Drawn) + 1
  BY <1>1, <1>3, Enough, FS_AddElement
<1>5. Sequence'
  <2>1. lastId' = lastId + 1 /\ lastId' \in Nat /\ lastId' = Cardinality(Drawn')
    BY <1>1, <1>4 DEF Append, Sequence
  <2>2. id' \in [Changes -> Nat]
    BY <1>1 DEF Append, Sequence
  <2>3. \A b \in Changes : (b \in Drawn' /\ id'[b] \in 1..lastId') \/ (b \notin Drawn' /\ id'[b] = 0)
    BY <1>1, <1>2, <1>3, <2>1 DEF Sequence
  <2>4. \A b \in Drawn : id[b] <= lastId /\ id[b] \in Nat
    BY <1>1 DEF Sequence, Drawn
  <2>5. \A a, b \in Drawn' : id'[a] = id'[b] => a = b
    BY <1>1, <1>2, <1>3, <2>1, <2>4 DEF Sequence, Drawn
  <2> QED BY <2>1, <2>2, <2>3, <2>5 DEF Sequence
<1>6. Kinds'
  BY <1>1 DEF Append, Kinds, readers
<1> QED BY <1>2, <1>5, <1>6, UncommittedStep DEF Append

\* A failed append leaves its id unused.
LEMMA AppendFailsStep == ASSUME IInv, NEW c \in Changes, AppendFails(c) PROVE IInv'
<1>1. Kinds /\ Sequence
  BY DEF IInv
<1>2. \A b \in Changes : phase'[b] = IF b = c THEN "failed" ELSE phase[b]
  BY <1>1 DEF AppendFails, Kinds
<1>3. Drawn' = Drawn
  BY <1>2 DEF AppendFails, Drawn
<1>4. Sequence'
  BY <1>1, <1>3 DEF AppendFails, Sequence
<1>5. Kinds'
  BY <1>1 DEF AppendFails, Kinds, readers
<1> QED BY <1>2, <1>4, <1>5, UncommittedStep DEF AppendFails

\* A commit behind a cursor is a commit behind the event at the cursor.
LEMMA CommitStep == ASSUME IInv, NEW c \in Changes, Commit(c) PROVE IInv'
<1>1. Kinds /\ Sequence
  BY DEF IInv
<1>2. /\ \A b \in Changes : phase'[b] = IF b = c THEN "committed" ELSE phase[b]
      /\ phase[c] = "open" /\ UNCHANGED <<lastId, id, client, cursor, known, before, window, passed>>
  BY <1>1 DEF Commit, Kinds, readers
<1>3. Drawn' = Drawn
  BY <1>2 DEF Drawn
<1>4. Sequence'
  BY <1>1, <1>2, <1>3 DEF Sequence
<1>5. Kinds' /\ late \subseteq late'
  BY <1>1, <1>2 DEF Commit, Kinds
<1>6. ASSUME NEW u
      PROVE  /\ Committed(u) \subseteq Committed(u)' /\ Committed(u)' \subseteq Committed(u) \cup {c}
             /\ c \notin Committed(u) /\ (c \in Committed(u)' => u = UserOf[c])
  BY <1>2 DEF Committed
<1>7. ASSUME NEW p \in Clients PROVE AtEvent(p)' /\ Covered(p)' /\ Own(p)'
  <2> DEFINE u == ClientUser[p]
  <2>1. AtEvent(p) /\ Covered(p) /\ Own(p) /\ known[p] \subseteq Changes
    BY <1>1 DEF IInv, Kinds
  <2>2. AtEvent(p)'
    BY <1>2, <1>6, <2>1 DEF AtEvent
  <2>3. ASSUME c \in Committed(u)', id[c] <= cursor[p] PROVE c \in late'
    <3>1. id[c] \in Nat /\ id[c] > 0 /\ cursor[p] \in Nat
      BY <1>1, <1>2 DEF Kinds, Sequence, Drawn
    <3>2. PICK b \in Committed(u) : id[b] = cursor[p]
      BY <2>1, <2>3, <3>1 DEF AtEvent
    <3>3. b # c /\ b \in Drawn /\ c \in Drawn /\ id[b] \in Nat
      BY <1>1, <1>2, <1>6, <3>2 DEF Committed, Drawn, Sequence
    <3>4. id[b] > id[c]
      BY <1>1, <2>3, <3>1, <3>2, <3>3 DEF Sequence
    <3>5. b \in Committed(UserOf[c])
      BY <1>6, <2>3, <3>2
    <3> QED BY <3>4, <3>5 DEF Commit
  <2>4. Covered(p)'
    BY <1>2, <1>5, <1>6, <2>1, <2>3 DEF Covered
  <2>5. Own(p)'
    BY <1>2, <2>1 DEF Own
  <2> QED BY <2>2, <2>4, <2>5
<1> QED BY <1>4, <1>5, <1>7 DEF IInv

-----------------------------------------------------------------------------
\* A step of the client p leaves the log and the other clients alone.
LEMMA ClientStep ==
    ASSUME IInv, Kinds', NEW p \in Clients, UNCHANGED <<log, late>>,
           \A q \in Clients \ {p} : /\ client'[q] = client[q] /\ cursor'[q] = cursor[q]
                                    /\ known'[q] = known[q] /\ before'[q] = before[q]
                                    /\ window'[q] = window[q] /\ passed'[q] = passed[q],
           AtEvent(p)', Covered(p)', Own(p)'
    PROVE  IInv'
<1>1. Sequence'
  BY DEF IInv, Sequence, Drawn, log
<1>2. ASSUME NEW u PROVE Committed(u)' = Committed(u)
  BY DEF Committed, log
<1>3. ASSUME NEW q \in Clients \ {p} PROVE AtEvent(q)' /\ Covered(q)' /\ Own(q)'
  <2>1. AtEvent(q) /\ Covered(q) /\ Own(q)
    BY DEF IInv
  <2>2. AtEvent(q)'
    BY <1>2, <2>1 DEF AtEvent, log
  <2>3. Covered(q)'
    BY <1>2, <2>1 DEF Covered, log
  <2>4. Own(q)'
    BY <2>1 DEF Own, log
  <2> QED BY <2>2, <2>3, <2>4
<1> QED BY <1>1, <1>3 DEF IInv

\* The only last message of a chat is in the list.
LEMMA LastIsShown ==
    ASSUME NEW u, NEW c \in Committed(u), UserOf[c] = u, c \notin NeedNotShow(u),
           NEW last \in [ChatsOf(u) -> Saved], \A chat \in ChatsOf(u) : last[chat] \in Latest(chat)
    PROVE  c \in {last[chat] : chat \in ChatsOf(u)}
<1>1. /\ IsMessage(c) /\ c \in Changes /\ phase[c] # "new"
      /\ \A b \in Saved \ {c} : ChatOf[b] = ChatOf[c] => ~(Made[b] >= Made[c])
  BY DEF NeedNotShow, Committed
<1>2. c \in Saved /\ u \in ChatOf[c]
  BY <1>1, SyncAssumption DEF Saved, IsMessage
<1>3. ChatOf[c] \in ChatsOf(u)
  BY <1>2 DEF ChatsOf
<1>4. last[ChatOf[c]] \in Latest(ChatOf[c])
  BY <1>3
<1>5. last[ChatOf[c]] = c
  BY <1>1, <1>2, <1>4, SyncAssumption DEF Latest, Saved
<1> QED BY <1>3, <1>5

\* The list shows the last messages of the user's chats, and passes the rest.
LEMMA ListChatsStep == ASSUME IInv, NEW p \in Clients, ListChats(p) PROVE IInv'
<1> DEFINE u == ClientUser[p]
<1>1. Kinds /\ AtEvent(p)
  BY DEF IInv
<1>2. PICK last \in [ChatsOf(u) -> Saved] :
        /\ \A chat \in ChatsOf(u) : last[chat] \in Latest(chat)
        /\ known' = [known EXCEPT ![p] = {last[chat] : chat \in ChatsOf(u)}]
  BY DEF ListChats
<1>3. /\ known'[p] = {last[chat] : chat \in ChatsOf(u)} /\ client'[p] = "listed"
      /\ before'[p] = Committed(u) /\ passed'[p] = NeedNotShow(u)
      /\ cursor'[p] = cursor[p] /\ UNCHANGED <<log, late>>
      /\ \A q \in Clients \ {p} : /\ client'[q] = client[q] /\ cursor'[q] = cursor[q]
                                  /\ known'[q] = known[q] /\ before'[q] = before[q]
                                  /\ window'[q] = window[q] /\ passed'[q] = passed[q]
  BY <1>1, <1>2 DEF ListChats, Kinds
<1>4. /\ Saved \subseteq Changes /\ {last[chat] : chat \in ChatsOf(u)} \subseteq Saved
      /\ Committed(u) \subseteq Changes /\ NeedNotShow(u) \subseteq Changes
  BY <1>2 DEF Saved, Committed, NeedNotShow
<1>5. Kinds'
  BY <1>1, <1>2, <1>4 DEF ListChats, Kinds, log
<1>6. Committed(u)' = Committed(u)
  BY <1>3 DEF Committed, log
<1>7. AtEvent(p)'
  BY <1>1, <1>3, <1>6 DEF AtEvent, log
<1>8. Own(p)'
  <2>1. ASSUME NEW chat \in ChatsOf(u)
        PROVE  /\ last[chat] \in Changes /\ phase[last[chat]] # "new"
               /\ ChatOf[last[chat]] = chat /\ u \in chat
    BY <1>2 DEF ChatsOf, Latest, Saved
  <2> QED BY <1>3, <2>1 DEF Own, log
<1>9. before'[p] \subseteq known'[p] \cup passed'[p]
  <2>1. ASSUME NEW c \in Committed(u), c \notin NeedNotShow(u) PROVE c \in known'[p]
    <3>1. UserOf[c] = u
      BY DEF Committed
    <3> QED BY <1>2, <1>3, <2>1, <3>1, LastIsShown
  <2> QED BY <1>3, <2>1
<1>10. Covered(p)'
  BY <1>3, <1>9 DEF Covered
<1> QED BY <1>3, <1>5, <1>7, <1>8, <1>10, ClientStep

\* What the cursor covers was in the chats, or came between the two reads.
LEMMA ReadCursorStep == ASSUME IInv, NEW p \in Clients, ReadCursor(p) PROVE IInv'
<1> DEFINE u == ClientUser[p]
<1>1. Kinds /\ Covered(p) /\ Own(p)
  BY DEF IInv
<1>2. /\ cursor'[p] = LastId(u) /\ client[p] = "listed" /\ client'[p] = "idle" /\ known'[p] = known[p]
      /\ window'[p] = Committed(u) \ before[p] /\ passed'[p] = passed[p] /\ UNCHANGED <<log, late>>
      /\ \A q \in Clients \ {p} : /\ client'[q] = client[q] /\ cursor'[q] = cursor[q]
                                  /\ known'[q] = known[q] /\ before'[q] = before[q]
                                  /\ window'[q] = window[q] /\ passed'[q] = passed[q]
  BY <1>1 DEF ReadCursor, Kinds
<1>3. Committed(u)' = Committed(u)
  BY <1>2 DEF Committed, log
<1>4. LastId(u) \in Nat /\ (LastId(u) = 0 \/ \E c \in Committed(u) : id[c] = LastId(u))
  <2>1. LastId(u) = 0 \/ \E c \in Committed(u) : id[c] = LastId(u)
    BY LastIsLargest
  <2>2. \A c \in Committed(u) : id[c] \in Nat
    BY DEF IInv, Sequence, Committed
  <2> QED BY <2>1, <2>2
<1>5. Kinds'
  BY <1>1, <1>4 DEF ReadCursor, Kinds, Committed, log
<1>6. AtEvent(p)'
  BY <1>2, <1>3, <1>4 DEF AtEvent, log
<1>7. Covered(p)'
  BY <1>1, <1>2, <1>3 DEF Covered
<1>8. Own(p)'
  BY <1>1, <1>2 DEF Own, log
<1> QED BY <1>2, <1>5, <1>6, <1>7, <1>8, ClientStep

\* Of what is behind the cursor, a page has everything up to its last event.
LEMMA PageIsWhole ==
    ASSUME IInv, NEW p \in Clients, NEW c \in NextPage(p), NEW b \in Behind(p), id[b] <= id[c]
    PROVE  b \in NextPage(p)
<1> DEFINE Below(x) == {a \in Behind(p) : id[a] < id[x]}
<1>1. Behind(p) \subseteq Changes /\ \A a \in Changes : id[a] \in Nat
  BY DEF Behind, Committed, IInv, Sequence
<1>2. c \in Behind(p) /\ Cardinality(Below(c)) < Limit
  BY DEF NextPage
<1>3. Below(b) \subseteq Below(c)
  BY <1>1, <1>2
<1>4. IsFiniteSet(Below(c))
  BY <1>1, SyncAssumption, FS_Subset
<1>5. /\ Cardinality(Below(b)) <= Cardinality(Below(c))
      /\ Cardinality(Below(b)) \in Nat /\ Cardinality(Below(c)) \in Nat
  BY <1>3, <1>4, FS_Subset, FS_CardinalityType
<1>6. Cardinality(Below(b)) < Limit
  BY <1>2, <1>5, SyncAssumption
<1> QED BY <1>6 DEF NextPage

\* A page moves the cursor to its last event and leaves nothing out before it.
LEMMA DeltaStep == ASSUME IInv, NEW p \in Clients, Delta(p) PROVE IInv'
<1> DEFINE u == ClientUser[p]
<1>1. Kinds /\ Covered(p) /\ Own(p) /\ Sequence
  BY DEF IInv
<1>2. PICK c \in NextPage(p) : /\ \A b \in NextPage(p) : id[b] <= id[c]
                               /\ cursor' = [cursor EXCEPT ![p] = id[c]]
  BY DEF Delta
<1>3. NextPage(p) \subseteq Behind(p) /\ Behind(p) \subseteq Committed(u) /\ Committed(u) \subseteq Changes
  BY DEF NextPage, Behind, Committed
<1>4. /\ cursor'[p] = id[c] /\ client[p] = "idle" /\ client'[p] = "idle"
      /\ known'[p] = known[p] \cup NextPage(p) /\ window'[p] = window[p] /\ passed'[p] = passed[p]
      /\ UNCHANGED <<log, late>>
      /\ \A q \in Clients \ {p} : /\ client'[q] = client[q] /\ cursor'[q] = cursor[q]
                                  /\ known'[q] = known[q] /\ before'[q] = before[q]
                                  /\ window'[q] = window[q] /\ passed'[q] = passed[q]
  BY <1>1, <1>2 DEF Delta, Kinds
<1>5. Committed(u)' = Committed(u) /\ id' = id
  BY <1>4 DEF Committed, log
<1>6. \A b \in Changes : id[b] \in Nat
  BY <1>1 DEF Sequence
<1>7. Kinds'
  BY <1>1, <1>2, <1>3, <1>6 DEF Delta, Kinds, log
<1>8. AtEvent(p)'
  BY <1>3, <1>4, <1>5 DEF AtEvent
<1>9. ASSUME NEW b \in Committed(u), id[b] <= id[c]
      PROVE  b \in known'[p] \cup late \cup window[p] \cup passed[p]
  <2>1. CASE id[b] <= cursor[p]
    BY <1>1, <1>4, <2>1 DEF Covered
  <2>2. CASE ~(id[b] <= cursor[p])
    <3>1. b \in Behind(p)
      BY <1>1, <1>3, <1>6, <2>2 DEF Behind, Kinds
    <3> QED BY <1>4, <1>9, <3>1, PageIsWhole
  <2> QED BY <2>1, <2>2
<1>10. Covered(p)'
  BY <1>4, <1>5, <1>9 DEF Covered
<1>11. Own(p)'
  <2>1. \A b \in Committed(u) : UserOf[b] = u /\ phase[b] # "new"
    BY DEF Committed
  <2> QED BY <1>1, <1>3, <1>4, <2>1 DEF Own, log
<1> QED BY <1>4, <1>7, <1>8, <1>10, <1>11, ClientStep

-----------------------------------------------------------------------------
\* Every step keeps the invariant.
LEMMA StepIInv == IInv /\ [Next]_vars => IInv'
<1> SUFFICES ASSUME IInv, [Next]_vars PROVE IInv'
  OBVIOUS
<1>1. ASSUME NEW c \in Changes, SaveChange(c) \/ Append(c) \/ Commit(c) \/ AppendFails(c) PROVE IInv'
  BY <1>1, SaveChangeStep, AppendStep, CommitStep, AppendFailsStep
<1>2. ASSUME NEW p \in Clients, ListChats(p) \/ ReadCursor(p) \/ Delta(p) PROVE IInv'
  BY <1>2, ListChatsStep, ReadCursorStep, DeltaStep
<1>3. CASE UNCHANGED vars
  <2>1. Sequence' /\ Kinds'
    BY <1>3 DEF vars, IInv, Sequence, Drawn, Kinds
  <2> QED BY <1>3, <2>1, UncommittedStep DEF vars, readers
<1> QED BY <1>1, <1>2, <1>3 DEF Next

\* The invariant says what the invariants of the runs ask for.
LEMMA IInvSuffices == IInv => TypeOK /\ MissedHasCause /\ ToldOnlyOwn
<1> SUFFICES ASSUME IInv PROVE TypeOK /\ MissedHasCause /\ ToldOnlyOwn
  OBVIOUS
<1>1. /\ lastId \in 0..MaxId /\ id \in [Changes -> 0..MaxId]
      /\ \A b, c \in Changes : b # c /\ id[b] = id[c] => id[b] = 0
  BY Enough DEF IInv, Sequence
<1>2. cursor \in [Clients -> 0..MaxId]
  <2>1. ASSUME NEW p \in Clients PROVE cursor[p] \in 0..MaxId
    BY Enough DEF IInv, AtEvent, Committed
  <2> QED BY <2>1 DEF IInv, Kinds
<1>3. TypeOK
  BY <1>1, <1>2 DEF IInv, Kinds, TypeOK
<1>4. MissedHasCause
  BY DEF IInv, Covered, MissedHasCause, Missed
<1>5. ToldOnlyOwn
  BY DEF IInv, Own, ToldOnlyOwn
<1> QED BY <1>3, <1>4, <1>5

\* The invariant holds throughout.
LEMMA Invariance == Spec => []IInv
BY InitIInv, StepIInv, PTL DEF Spec

\* Whatever appends overlap, fail and commit in whatever order, a client misses
\* an event only if it was overtaken by a later one, fell between the two reads of
\* a full sync, or was passed by that full sync for being no message, or not the
\* one last message of its chat (sync_event_repo_pg.go:20-75, sync/service.go:56-109,
\* message_repo_pg.go:194-237).
THEOREM LogIsFollowed == Spec => [](TypeOK /\ MissedHasCause)
BY Invariance, IInvSuffices, PTL

\* A client is told of events of its own user's log and messages of its own user's
\* chats alone, and of none before it was made, in full syncs and pages of any size
\* (sync_event_repo_pg.go:44-75, message_repo_pg.go:194-218).
THEOREM OthersAreNotTold == Spec => []ToldOnlyOwn
BY Invariance, IInvSuffices, PTL

\* A page moves a cursor forward, and shows what lies between its old and its
\* new place, whatever the other clients and the appends do
\* (sync/service.go:92-109).
THEOREM CursorsAdvance == Spec => CursorAdvances
<1> DEFINE Advances == \A p \in Clients : cursor'[p] # cursor[p] /\ client[p] = "idle" =>
        /\ cursor'[p] > cursor[p]
        /\ \A c \in known'[p] \ known[p] : id[c] > cursor[p] /\ id[c] <= cursor'[p]
<1>1. ASSUME IInv, [Next]_vars PROVE [Advances]_vars
  <2>1. SUFFICES ASSUME NEW p \in Clients, cursor'[p] # cursor[p], client[p] = "idle"
        PROVE  /\ cursor'[p] > cursor[p]
               /\ \A c \in known'[p] \ known[p] : id[c] > cursor[p] /\ id[c] <= cursor'[p]
    OBVIOUS
  <2>2. Kinds
    BY <1>1 DEF IInv
  <2>3. Delta(p)
    <3>1. PICK q \in Clients : ReadCursor(q) \/ Delta(q)
      BY <1>1, <2>1 DEF Next, vars, SaveChange, Append, Commit, AppendFails, ListChats, log, readers
    <3>2. q = p
      BY <2>1, <2>2, <3>1 DEF ReadCursor, Delta, Kinds
    <3> QED BY <2>1, <3>1, <3>2 DEF ReadCursor
  <2>4. PICK c \in NextPage(p) : /\ \A b \in NextPage(p) : id[b] <= id[c]
                                 /\ cursor' = [cursor EXCEPT ![p] = id[c]]
    BY <2>3 DEF Delta
  <2>5. cursor'[p] = id[c] /\ known'[p] = known[p] \cup NextPage(p)
    BY <2>2, <2>3, <2>4 DEF Delta, Kinds
  <2>6. \A b \in NextPage(p) : id[b] > cursor[p]
    BY DEF NextPage, Behind
  <2> QED BY <2>4, <2>5, <2>6
<1> QED BY <1>1, Invariance, PTL DEF Spec, CursorAdvances

=============================================================================
