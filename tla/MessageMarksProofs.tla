-------------------------- MODULE MessageMarksProofs --------------------------
(* The log and the marks, edits and deletions it tells of, for any number   *)
(* of requests, users and messages.                                         *)
EXTENDS MessageMarks, TLAPS

\* What the constants are taken to be.
Bounds == Msgs \subseteq Ids /\ None \notin Texts /\ None # "pinned" /\ MaxBegun \in Nat

\* A request for a mark has a value of its kind, one for an edit a text.
Meant ==
    \A c \in Requests : ~In(c, "free") =>
        /\ OnMark(c) => request[c].value \in Values(request[c].kind)
        /\ request[c].kind = "edit" => request[c].value \in Texts

\* A change that is going to be told of is made.
Made ==
    \A c \in Requests : In(c, "tell") /\ ~OnMark(c) /\ request[c].msg \in Msgs =>
        IF request[c].kind = "edit" THEN text[request[c].msg] # None
        ELSE request[c].msg \in deleted

\* A request that nothing interfered with is the only one for its mark, and what
\* the log last said of the mark is what it said.
CleanIsAlone ==
    \A c \in Requests : OnMark(c) /\ request[c].clean =>
        /\ \A b \in Requests : OnMark(b) /\ Mark(b) = Mark(c) => b = c
        /\ In(c, "write") => heard[Mark(c)] = request[c].value

\* Log and row agree on a mark that was not disturbed, up to the moment at which
\* a request has told of the next one.
Agrees ==
    \A k \in Marks :
        /\ k.msg \in Msgs /\ k \notin disturbed /\ heard[k] # "nothing"
        /\ \A c \in Requests : OnMark(c) /\ Mark(c) = k => In(c, "tell") /\ request[c].clean
        => marks[k] = heard[k]

IInv == TypeOK /\ Meant /\ Made /\ NewsIsTrue /\ CleanIsAlone /\ Agrees

-----------------------------------------------------------------------------
\* Before any request nothing is marked and nothing told.
LEMMA InitIInv == ASSUME Bounds, Init PROVE IInv
<1> USE DEF Bounds, Init
<1>1. TypeOK
  BY DEF TypeOK, Marks, Kinds, Values, Records
<1>2. \A c \in Requests : In(c, "free") /\ ~In(c, "tell") /\ ~OnMark(c)
  BY DEF In, Free, OnMark
<1>3. Meant /\ Made /\ NewsIsTrue /\ CleanIsAlone
  BY <1>2 DEF Meant, Made, NewsIsTrue, CleanIsAlone
<1>4. Agrees
  BY DEF Agrees
<1> QED BY <1>1, <1>3, <1>4 DEF IInv

\* The shapes of a request that is under way.
AskedRecords ==
    [phase : {"tell", "write"}, user : Users, msg : Ids, kind : Kinds \cup {"edit", "delete"},
     value : Emojis \cup Texts \cup {"pinned", None}, clean : BOOLEAN]

\* A request under way is for a mark, or for the text of a message.
LEMMA Shapes ==
    ASSUME TypeOK, NEW c \in Requests, ~In(c, "free")
    PROVE  request[c] \in AskedRecords /\ (OnMark(c) <=> request[c].kind \in Kinds)
                /\ (In(c, "tell") <=> ~In(c, "write"))
  BY DEF TypeOK, Records, AskedRecords, In, OnMark, Free

\* The mark a request is for is one.
LEMMA MarkIsMark ==
    ASSUME TypeOK, NEW c \in Requests, OnMark(c) PROVE Mark(c) \in Marks
  BY Shapes DEF AskedRecords, OnMark, Mark, Marks

-----------------------------------------------------------------------------
\* Edits and deletions leave the marks alone.
Unmarked ==
    /\ UNCHANGED <<marks, pinnedAt, heard, disturbed>>
    /\ \A c \in Requests : (OnMark(c) \/ OnMark(c)') => request'[c] = request[c]

\* A step that leaves the marks alone keeps what is said of them.
LEMMA UnmarkedStep ==
    ASSUME IInv, Unmarked PROVE CleanIsAlone' /\ Agrees'
<1>1. \A c \in Requests : OnMark(c)' <=> OnMark(c)
  BY DEF Unmarked, OnMark, In
<1>2. \A c \in Requests : OnMark(c) => request'[c] = request[c] /\ Mark(c)' = Mark(c)
  BY DEF Unmarked, Mark
<1>3. \A c \in Requests : \A p : OnMark(c) => (In(c, p)' <=> In(c, p))
  BY <1>2 DEF In
<1>4. CleanIsAlone'
  BY <1>1, <1>2, <1>3 DEF IInv, CleanIsAlone, Unmarked
<1>5. Agrees'
  BY <1>1, <1>2, <1>3 DEF IInv, Agrees, Unmarked, Marks
<1> QED BY <1>4, <1>5

\* The requests of the step other than c stay as they are.
Others(c) == \A b \in Requests \ {c} : request'[b] = request[b]

\* What a request says of itself stays with it.
LEMMA StillSays ==
    ASSUME NEW b \in Requests, request'[b] = request[b]
    PROVE  /\ OnMark(b)' <=> OnMark(b)
           /\ Mark(b)' = Mark(b)
           /\ \A p : In(b, p)' <=> In(b, p)
  BY DEF OnMark, In, Mark

\* A request for an edit or a deletion begins.
LEMMA BeginChangeStep ==
    ASSUME Bounds, IInv, NEW c \in Requests, NEW u \in Users, NEW m \in Ids,
           NEW kind \in {"edit", "delete"}, NEW v \in Texts \cup {None},
           kind = "edit" => v \in Texts,
           BeginChange(c, u, m, kind, v)
    PROVE  IInv'
<1> DEFINE rec == [phase |-> "write", user |-> u, msg |-> m, kind |-> kind, value |-> v,
                   clean |-> TRUE]
<1>0. /\ request' = [request EXCEPT ![c] = rec]
      /\ request[c].phase = "free" /\ begun < MaxBegun /\ begun' = begun + 1
      /\ UNCHANGED <<marks, pinnedAt, deleted, text, heard, news, disturbed>>
  BY DEF BeginChange, Begin, Ask
<1>1. rec \in AskedRecords /\ rec.phase = "write" /\ rec.kind = kind /\ rec.value = v
  BY DEF AskedRecords
<1> HIDE DEF rec
<1>2. Others(c) /\ request'[c] = rec /\ request' \in [Requests -> Records]
  BY <1>0, <1>1 DEF IInv, TypeOK, Others, Records, AskedRecords
<1>3. ~OnMark(c) /\ ~OnMark(c)' /\ ~In(c, "tell")' /\ ~In(c, "free")'
  BY <1>0, <1>1, <1>2 DEF OnMark, In, Kinds
<1>4. TypeOK'
  BY <1>0, <1>2 DEF Bounds, IInv, TypeOK
<1>5. Meant'
  BY <1>1, <1>2, <1>3, StillSays DEF IInv, Meant, Others
<1>6. Made' /\ NewsIsTrue'
  BY <1>0, <1>2, <1>3, StillSays DEF IInv, Made, NewsIsTrue, Others
<1>7. Unmarked
  BY <1>0, <1>2, <1>3, StillSays DEF Unmarked, Others
<1> QED BY <1>4, <1>5, <1>6, <1>7, UnmarkedStep DEF IInv

\* An edit or a deletion takes none back.
LEMMA ChangeKeeps ==
    ASSUME Bounds, IInv, NEW c \in Requests, In(c, "write"), ~OnMark(c), Change(c)
    PROVE  /\ text' \in [Msgs -> Texts \cup {None}] /\ deleted' \subseteq Msgs
           /\ \A m \in Msgs : text[m] # None => text'[m] # None
           /\ deleted \subseteq deleted'
           /\ request[c].msg \in Msgs =>
                IF request[c].kind = "edit" THEN text'[request[c].msg] # None
                ELSE request[c].msg \in deleted'
<1>1. request[c] \in AskedRecords /\ ~In(c, "free")
  BY Shapes DEF IInv, In
<1>2. CASE request[c].kind = "edit"
  <2>1. request[c].value \in Texts
    BY <1>1, <1>2 DEF IInv, Meant
  <2> QED BY <1>2, <2>1 DEF Bounds, Change, Edit, IInv, TypeOK
<1>3. CASE request[c].kind = "delete"
  BY <1>3 DEF Change, DeleteForAll, IInv, TypeOK
<1> QED BY <1>1, <1>2, <1>3 DEF OnMark, AskedRecords, In, Change

\* The update of an edit or a deletion.
LEMMA WriteChangeStep ==
    ASSUME Bounds, IInv, NEW c \in Requests, WriteChange(c) PROVE IInv'
<1>0. /\ In(c, "write") /\ ~OnMark(c) /\ Change(c)
      /\ request' = [request EXCEPT ![c].phase = "tell"]
      /\ UNCHANGED <<marks, pinnedAt, heard, news, begun, disturbed>>
  BY DEF WriteChange
<1>1. request[c] \in AskedRecords /\ request \in [Requests -> Records]
  BY <1>0, Shapes DEF IInv, TypeOK, In
<1>2. /\ Others(c) /\ request' \in [Requests -> Records] /\ request'[c].phase = "tell"
      /\ request'[c].kind = request[c].kind /\ request'[c].msg = request[c].msg
      /\ request'[c].value = request[c].value
  BY <1>0, <1>1 DEF Others, AskedRecords, Records
<1>3. ~OnMark(c)' /\ ~In(c, "free")'
  BY <1>0, <1>1, <1>2 DEF OnMark, In, AskedRecords
<1>4. TypeOK'
  BY <1>0, <1>2, ChangeKeeps DEF IInv, TypeOK
<1>5. Meant'
  BY <1>0, <1>2, <1>3, StillSays DEF IInv, Meant, Others, In
<1>6. Made'
  BY <1>0, <1>2, <1>3, StillSays, ChangeKeeps DEF IInv, Made, Others
<1>7. NewsIsTrue'
  BY <1>0, ChangeKeeps DEF IInv, NewsIsTrue
<1>8. Unmarked
  BY <1>0, <1>2, <1>3, StillSays DEF Unmarked, Others
<1> QED BY <1>4, <1>5, <1>6, <1>7, <1>8, UnmarkedStep DEF IInv

\* A request for an edit or a deletion ends: it was told of, or it failed.
LEMMA EndChangeStep ==
    ASSUME Bounds, IInv, NEW c \in Requests, TellChange(c) \/ ChangeFails(c) PROVE IInv'
<1>0. /\ ~In(c, "free") /\ ~OnMark(c)
      /\ request' = [request EXCEPT ![c] = Free]
      /\ UNCHANGED <<marks, pinnedAt, heard, begun, disturbed>>
  BY DEF TellChange, ChangeFails, Ends, In
<1>1. Others(c) /\ request' \in [Requests -> Records] /\ request'[c] = Free
  BY <1>0 DEF IInv, TypeOK, Others, Records
<1>2. In(c, "free")' /\ ~In(c, "tell")' /\ ~OnMark(c)'
  BY <1>1 DEF In, Free, OnMark
<1>3. /\ text' \in [Msgs -> Texts \cup {None}] /\ deleted' \subseteq Msgs
      /\ \A m \in Msgs : text[m] # None => text'[m] # None
      /\ deleted \subseteq deleted'
  BY <1>0, ChangeKeeps DEF TellChange, ChangeFails, IInv, TypeOK
<1>4. \A n \in news' : n \in news \/
        /\ n = [user |-> request[c].user, msg |-> request[c].msg, kind |-> request[c].kind]
        /\ In(c, "tell") /\ request[c] \in AskedRecords /\ UNCHANGED <<text, deleted>>
  BY <1>0, Shapes DEF TellChange, ChangeFails, IInv
<1>5. TypeOK'
  BY <1>0, <1>1, <1>3, <1>4 DEF IInv, TypeOK, AskedRecords, OnMark
<1>6. Meant' /\ Made'
  BY <1>1, <1>2, <1>3, StillSays DEF IInv, Meant, Made, Others
<1>7. NewsIsTrue'
  BY <1>0, <1>3, <1>4 DEF IInv, NewsIsTrue, Made
<1>8. Unmarked
  BY <1>0, <1>1, <1>2, StillSays DEF Unmarked, Others
<1> QED BY <1>5, <1>6, <1>7, <1>8, UnmarkedStep DEF IInv

-----------------------------------------------------------------------------
\* Marks leave the edits and deletions alone.
Unchanging ==
    /\ UNCHANGED <<deleted, text, news>>
    /\ \A c \in Requests : ~OnMark(c)' /\ ~In(c, "free")' => request'[c] = request[c]

\* A step that leaves the messages alone keeps what is said of them.
LEMMA UnchangingStep ==
    ASSUME IInv, Unchanging PROVE Made' /\ NewsIsTrue'
<1>1. ASSUME NEW c \in Requests, In(c, "tell")', ~OnMark(c)'
      PROVE  request'[c] = request[c] /\ In(c, "tell") /\ ~OnMark(c)
  <2>1. ~In(c, "free")'
    BY <1>1 DEF In
  <2> QED BY <1>1, <2>1, StillSays DEF Unchanging
<1>2. Made'
  BY <1>1 DEF IInv, Made, Unchanging
<1> QED BY <1>2 DEF IInv, NewsIsTrue, Unchanging

\* A request for a mark begins, and meets those for the same mark.
LEMMA BeginMarkStep ==
    ASSUME Bounds, IInv, NEW c \in Requests, NEW k \in Marks, NEW v \in Values(k.kind),
           BeginMark(c, k, v)
    PROVE  IInv'
<1> DEFINE alone == Rivals(k) = {}
           rec == [phase |-> "tell", user |-> k.user, msg |-> k.msg, kind |-> k.kind,
                   value |-> v, clean |-> alone]
<1>0. /\ request[c].phase = "free" /\ begun < MaxBegun /\ begun' = begun + 1
      /\ UNCHANGED <<marks, pinnedAt, deleted, text, heard, news, disturbed>>
      /\ ~OnMark(c)
  BY DEF BeginMark, Begin, OnMark, In
<1>1. k.user \in Users /\ k.msg \in Ids /\ k.kind \in Kinds
        /\ k = [user |-> k.user, msg |-> k.msg, kind |-> k.kind]
        /\ v \in Emojis \cup {"pinned", None}
  BY DEF Marks, Values
<1>2. request'[c] = rec /\ request'[c] \in AskedRecords
  BY <1>0, <1>1 DEF BeginMark, Ask, AskedRecords
<1>3. \A b \in Requests \ {c} :
        IF b \in Rivals(k) THEN request'[b] = [request[b] EXCEPT !.clean = FALSE]
        ELSE request'[b] = request[b]
  BY DEF BeginMark
<1>4. \A b \in Rivals(k) : b # c /\ OnMark(b) /\ Mark(b) = k /\ request[b] \in AskedRecords
                              /\ ~In(b, "free")
  BY <1>0, Shapes DEF Rivals, OnMark, IInv
<1>5. \A b \in Rivals(k) :
        /\ request'[b] \in AskedRecords /\ request'[b].clean = FALSE
        /\ request'[b].phase = request[b].phase /\ request'[b].user = request[b].user
        /\ request'[b].msg = request[b].msg /\ request'[b].kind = request[b].kind
        /\ request'[b].value = request[b].value
  <2> TAKE b \in Rivals(k)
  <2>1. b \in Requests \ {c} /\ request[b] \in AskedRecords
    BY <1>4 DEF Rivals
  <2>2. request'[b] = [request[b] EXCEPT !.clean = FALSE]
    BY <1>3, <2>1
  <2> QED BY <2>1, <2>2 DEF AskedRecords
<1>6. /\ OnMark(c)' /\ Mark(c)' = k /\ In(c, "tell")' /\ ~In(c, "write")' /\ ~In(c, "free")'
      /\ request'[c].clean => Rivals(k) = {}
      /\ request'[c].value = v /\ request'[c].kind = k.kind
  <2>1. /\ request'[c].phase = "tell" /\ request'[c].user = k.user /\ request'[c].msg = k.msg
        /\ request'[c].kind = k.kind /\ request'[c].value = v /\ request'[c].clean = alone
    BY <1>2
  <2> HIDE DEF rec
  <2>2. Mark(c)' = k
    BY <2>1, <1>1 DEF Mark
  <2>3. OnMark(c)' /\ In(c, "tell")' /\ ~In(c, "write")' /\ ~In(c, "free")'
    BY <2>1, <1>1 DEF OnMark, In
  <2> QED BY <2>1, <2>2, <2>3
<1> HIDE DEF rec, alone
<1>7. \A b \in Requests \ {c} :
        /\ OnMark(b)' <=> OnMark(b)
        /\ Mark(b)' = Mark(b) \/ ~OnMark(b)
        /\ In(b, "tell")' <=> In(b, "tell")
        /\ In(b, "write")' <=> In(b, "write")
        /\ In(b, "free")' <=> In(b, "free")
        /\ ~OnMark(b) => request'[b] = request[b]
        /\ OnMark(b) => request'[b].kind = request[b].kind /\ request'[b].value = request[b].value
        /\ OnMark(b) /\ request'[b].clean => request[b].clean /\ b \notin Rivals(k)
  <2> SUFFICES ASSUME NEW b \in Requests \ {c}
               PROVE  /\ OnMark(b)' <=> OnMark(b)
                      /\ Mark(b)' = Mark(b) \/ ~OnMark(b)
                      /\ In(b, "tell")' <=> In(b, "tell")
                      /\ In(b, "write")' <=> In(b, "write")
                      /\ In(b, "free")' <=> In(b, "free")
                      /\ ~OnMark(b) => request'[b] = request[b]
                      /\ OnMark(b) =>
                           request'[b].kind = request[b].kind /\ request'[b].value = request[b].value
                      /\ OnMark(b) /\ request'[b].clean => request[b].clean /\ b \notin Rivals(k)
    OBVIOUS
  <2>1. CASE b \in Rivals(k)
    BY <2>1, <1>4, <1>5 DEF OnMark, Mark, In
  <2>2. CASE b \notin Rivals(k)
    BY <2>2, <1>3, StillSays
  <2> QED BY <2>1, <2>2
<1>8. TypeOK'
  <2>1. \A b \in Requests : request'[b] \in Records
    <3>1. \A b \in Requests : request'[b] \in AskedRecords \/ request'[b] = request[b]
      BY <1>2, <1>3, <1>5
    <3> QED BY <3>1 DEF IInv, TypeOK, Records, AskedRecords
  <2>2. request' \in [Requests -> Records]
    BY <2>1 DEF BeginMark
  <2> QED BY <1>0, <2>2 DEF Bounds, IInv, TypeOK
<1>9. Meant'
  BY <1>1, <1>6, <1>7 DEF IInv, Meant, Kinds
<1>10. Unchanging
  BY <1>0, <1>6, <1>7 DEF Unchanging
<1>11. CleanIsAlone'
  <2> SUFFICES ASSUME NEW a \in Requests, OnMark(a)', request'[a].clean
               PROVE  /\ \A b \in Requests : OnMark(b)' /\ Mark(b)' = Mark(a)' => b = a
                      /\ In(a, "write")' => heard'[Mark(a)'] = request'[a].value
    BY DEF CleanIsAlone
  <2>1. CASE a = c
    BY <2>1, <1>6, <1>7 DEF Rivals
  <2>2. CASE a # c
    <3>1. OnMark(a) /\ request[a].clean /\ Mark(a)' = Mark(a) /\ Mark(a) # k
            /\ request'[a].value = request[a].value /\ (In(a, "write")' <=> In(a, "write"))
      BY <2>2, <1>7 DEF Rivals
    <3> QED BY <2>2, <3>1, <1>0, <1>6, <1>7 DEF IInv, CleanIsAlone
  <2> QED BY <2>1, <2>2
<1>12. Agrees'
  <2> SUFFICES ASSUME NEW j \in Marks, j.msg \in Msgs, j \notin disturbed', heard'[j] # "nothing",
                      \A b \in Requests : OnMark(b)' /\ Mark(b)' = j => In(b, "tell")' /\ request'[b].clean
               PROVE  marks'[j] = heard'[j]
    BY DEF Agrees
  <2>1. \A b \in Requests : OnMark(b) /\ Mark(b) = j => In(b, "tell") /\ request[b].clean
    BY <1>0, <1>7
  <2> QED BY <2>1, <1>0 DEF IInv, Agrees
<1> QED BY <1>8, <1>9, <1>10, <1>11, <1>12, UnchangingStep DEF IInv

\* The event of a mark is appended, or the append fails.
LEMMA TellMarkStep ==
    ASSUME Bounds, IInv, NEW c \in Requests, TellMark(c) PROVE IInv'
<1>0. /\ In(c, "tell") /\ OnMark(c) /\ ~In(c, "free") /\ request[c] \in AskedRecords
      /\ Mark(c) \in Marks /\ request[c].value \in Values(request[c].kind)
      /\ UNCHANGED <<marks, pinnedAt, deleted, text, news, begun, disturbed>>
  BY Shapes, MarkIsMark DEF TellMark, In, OnMark, IInv, Meant
<1>1. /\ request' \in [Requests -> Records] /\ Others(c) /\ request'[c] \in AskedRecords
      /\ request'[c].phase = "write" /\ request'[c].user = request[c].user
      /\ request'[c].msg = request[c].msg /\ request'[c].kind = request[c].kind
      /\ request'[c].value = request[c].value
      /\ request'[c].clean => request[c].clean
      /\ request'[c].clean => heard' = [heard EXCEPT ![Mark(c)] = request[c].value]
  BY <1>0 DEF TellMark, IInv, TypeOK, Records, AskedRecords, Others
<1>2. /\ OnMark(c)' /\ Mark(c)' = Mark(c) /\ In(c, "write")' /\ ~In(c, "tell")' /\ ~In(c, "free")'
  BY <1>0, <1>1 DEF OnMark, Mark, In
<1>3. /\ \A j \in Marks \ {Mark(c)} : heard'[j] = heard[j]
      /\ heard' \in [Marks -> Emojis \cup {"pinned", None, "nothing"}]
      /\ \A j \in Marks : heard'[j] \in Values(j.kind) \cup {"nothing"}
      /\ request'[c].clean => heard'[Mark(c)] = request[c].value
  <2>1. Mark(c).kind = request[c].kind /\ request[c].value \in Emojis \cup {"pinned", None}
    BY <1>0 DEF Mark, Values
  <2>2. CASE heard' = [heard EXCEPT ![Mark(c)] = request[c].value]
    BY <2>1, <2>2, <1>0 DEF IInv, TypeOK
  <2>3. CASE UNCHANGED heard /\ ~request'[c].clean
    BY <2>3, <1>0 DEF IInv, TypeOK
  <2> QED BY <2>2, <2>3, <1>0 DEF TellMark, IInv, TypeOK, Records, AskedRecords
<1>4. TypeOK'
  BY <1>0, <1>1, <1>3 DEF IInv, TypeOK
<1>5. Meant'
  BY <1>0, <1>1, <1>2, StillSays DEF IInv, Meant, Others, OnMark, Kinds
<1>6. Unchanging
  BY <1>0, <1>1, <1>2 DEF Unchanging, Others
<1>7. CleanIsAlone'
  <2> SUFFICES ASSUME NEW a \in Requests, OnMark(a)', request'[a].clean
               PROVE  /\ \A b \in Requests : OnMark(b)' /\ Mark(b)' = Mark(a)' => b = a
                      /\ In(a, "write")' => heard'[Mark(a)'] = request'[a].value
    BY DEF CleanIsAlone
  <2>1. OnMark(a) /\ request[a].clean /\ Mark(a)' = Mark(a)
    BY <1>0, <1>1, <1>2, StillSays DEF Others
  <2>2. \A b \in Requests : OnMark(b)' => OnMark(b) /\ Mark(b)' = Mark(b)
    BY <1>0, <1>1, <1>2, StillSays DEF Others
  <2>3. \A b \in Requests : OnMark(b)' /\ Mark(b)' = Mark(a)' => b = a
    BY <2>1, <2>2 DEF IInv, CleanIsAlone
  <2>4. CASE a = c
    BY <2>3, <2>4, <1>1, <1>2, <1>3
  <2>5. CASE a # c
    <3>1. Mark(a) # Mark(c) /\ Mark(a) \in Marks /\ request'[a] = request[a]
            /\ (In(a, "write")' <=> In(a, "write"))
      BY <2>1, <2>5, <1>0, <1>1, MarkIsMark, StillSays DEF IInv, CleanIsAlone, Others
    <3> QED BY <2>1, <2>3, <3>1, <1>3 DEF IInv, CleanIsAlone
  <2> QED BY <2>4, <2>5
<1>8. Agrees'
  <2> SUFFICES ASSUME NEW j \in Marks, j.msg \in Msgs, j \notin disturbed', heard'[j] # "nothing",
                      \A b \in Requests : OnMark(b)' /\ Mark(b)' = j => In(b, "tell")' /\ request'[b].clean
               PROVE  marks'[j] = heard'[j]
    BY DEF Agrees
  <2>1. j # Mark(c)
    BY <1>2
  <2>2. \A b \in Requests : OnMark(b) /\ Mark(b) = j => In(b, "tell") /\ request[b].clean
    BY <2>1, <1>1, StillSays DEF Others
  <2> QED BY <2>1, <2>2, <1>0, <1>3 DEF IInv, Agrees
<1> QED BY <1>4, <1>5, <1>6, <1>7, <1>8, UnchangingStep DEF IInv

\* A request for a mark ends, and a mark it was not alone with, or may not have
\* written, is disturbed.
LEMMA EndMarkStep ==
    ASSUME Bounds, IInv, NEW c \in Requests, WriteMark(c) \/ MarkFails(c) PROVE IInv'
<1>0. /\ OnMark(c) /\ ~In(c, "free") /\ request[c] \in AskedRecords /\ Mark(c) \in Marks
      /\ request[c].value \in Values(request[c].kind) /\ Mark(c).kind = request[c].kind
      /\ request' = [request EXCEPT ![c] = Free]
      /\ UNCHANGED <<deleted, text, heard, news, begun>>
  BY Shapes, MarkIsMark DEF WriteMark, MarkFails, Ends, OnMark, Mark, IInv, Meant
<1>1. Others(c) /\ request' \in [Requests -> Records] /\ request'[c] = Free
  BY <1>0 DEF IInv, TypeOK, Others, Records
<1>2. In(c, "free")' /\ ~OnMark(c)' /\ ~In(c, "tell")'
  BY <1>1 DEF In, Free, OnMark
<1>3. /\ marks' \in [Marks -> Emojis \cup {"pinned", None}]
      /\ \A j \in Marks : marks'[j] \in Values(j.kind)
      /\ \A j \in Marks \ {Mark(c)} : marks'[j] = marks[j]
      /\ pinnedAt \subseteq pinnedAt' /\ pinnedAt' \subseteq Msgs
      /\ \A j \in Marks : j.kind = "pin" /\ marks'[j] = "pinned" => j.msg \in pinnedAt'
  <2>1. request[c].value \in Emojis \cup {"pinned", None}
    BY <1>0 DEF Values
  <2>2. CASE UNCHANGED <<marks, pinnedAt>>
    BY <2>2 DEF IInv, TypeOK
  <2>3. CASE SetMark(Mark(c), request[c].value)
    BY <2>1, <2>3, <1>0 DEF SetMark, IInv, TypeOK
  <2> QED BY <2>2, <2>3 DEF WriteMark, MarkFails
<1>4. \/ disturbed' = disturbed \cup {Mark(c)}
      \/ /\ disturbed' = disturbed \ {Mark(c)}
         /\ In(c, "write") /\ request[c].clean
         /\ Mark(c).msg \in Msgs => marks'[Mark(c)] = request[c].value
  BY <1>0 DEF WriteMark, MarkFails, SetMark, IInv, TypeOK
<1>5. TypeOK'
  BY <1>0, <1>1, <1>3, <1>4 DEF IInv, TypeOK
<1>6. Meant'
  BY <1>1, <1>2, StillSays DEF IInv, Meant, Others
<1>7. Unchanging
  BY <1>0, <1>1, <1>2 DEF Unchanging, Others
<1>8. CleanIsAlone'
  BY <1>0, <1>1, <1>2, StillSays DEF IInv, CleanIsAlone, Others
<1>9. Agrees'
  <2> SUFFICES ASSUME NEW j \in Marks, j.msg \in Msgs, j \notin disturbed', heard'[j] # "nothing",
                      \A b \in Requests : OnMark(b)' /\ Mark(b)' = j => In(b, "tell")' /\ request'[b].clean
               PROVE  marks'[j] = heard'[j]
    BY DEF Agrees
  <2>1. CASE j = Mark(c)
    BY <2>1, <1>0, <1>4 DEF IInv, CleanIsAlone
  <2>2. CASE j # Mark(c)
    <3>1. \A b \in Requests : OnMark(b) /\ Mark(b) = j => In(b, "tell") /\ request[b].clean
      BY <2>2, <1>1, StillSays DEF Others
    <3> QED BY <2>2, <3>1, <1>0, <1>3, <1>4 DEF IInv, Agrees
  <2> QED BY <2>1, <2>2
<1> QED BY <1>5, <1>6, <1>7, <1>8, <1>9, UnchangingStep DEF IInv

-----------------------------------------------------------------------------
\* Every step keeps the invariant.
LEMMA StepIInv == ASSUME Bounds, IInv, [Next]_vars PROVE IInv'
<1>1. CASE UNCHANGED vars
  <2>1. \A c \in Requests : request'[c] = request[c]
    BY <1>1 DEF vars
  <2>2. Unmarked /\ Unchanging /\ UNCHANGED begun
    BY <1>1 DEF vars, Unmarked, Unchanging
  <2>3. TypeOK'
    BY <1>1 DEF vars, IInv, TypeOK
  <2>4. Meant'
    BY <2>1, StillSays DEF IInv, Meant
  <2>5. Made' /\ NewsIsTrue' /\ CleanIsAlone' /\ Agrees'
    BY <2>2, UnmarkedStep, UnchangingStep
  <2> QED BY <2>3, <2>4, <2>5 DEF IInv
<1>2. CASE Next
  <2>1. PICK c \in Requests :
          \/ \E k \in Marks : \E v \in Values(k.kind) : BeginMark(c, k, v)
          \/ TellMark(c) \/ WriteMark(c) \/ MarkFails(c)
          \/ \E u \in Users, m \in Ids :
               \/ \E v \in Texts : BeginChange(c, u, m, "edit", v)
               \/ BeginChange(c, u, m, "delete", None)
          \/ WriteChange(c) \/ TellChange(c) \/ ChangeFails(c)
    BY <1>2 DEF Next
  <2>2. ASSUME NEW u \in Users, NEW m \in Ids,
               \/ \E v \in Texts : BeginChange(c, u, m, "edit", v)
               \/ BeginChange(c, u, m, "delete", None)
        PROVE  IInv'
    <3>1. ASSUME NEW v \in Texts, BeginChange(c, u, m, "edit", v) PROVE IInv'
      BY <3>1, BeginChangeStep
    <3>2. CASE BeginChange(c, u, m, "delete", None)
      BY <3>2, BeginChangeStep
    <3> QED BY <2>2, <3>1, <3>2
  <2> QED BY <2>1, <2>2, BeginMarkStep, TellMarkStep, EndMarkStep, WriteChangeStep, EndChangeStep
<1> QED BY <1>1, <1>2

\* A mark changes only in a step of a request for it.
LEMMA MarksStep ==
    ASSUME IInv, [Next]_vars
    PROVE  \A k \in Marks : marks'[k] # marks[k] =>
              \E c \in Requests : OnMark(c) /\ Mark(c) = k /\ In(c, "write")
<1>1. CASE UNCHANGED marks
  BY <1>1
<1>2. ASSUME NEW c \in Requests, OnMark(c), In(c, "write"), SetMark(Mark(c), request[c].value)
      PROVE  \A k \in Marks : marks'[k] # marks[k] => Mark(c) = k
  BY <1>2 DEF SetMark, IInv, TypeOK
<1>3. UNCHANGED marks \/
        \E c \in Requests : OnMark(c) /\ In(c, "write") /\ SetMark(Mark(c), request[c].value)
  BY DEF Next, vars, BeginMark, TellMark, WriteMark, MarkFails, BeginChange, WriteChange,
         TellChange, ChangeFails
<1> QED BY <1>1, <1>2, <1>3

-----------------------------------------------------------------------------
\* Events that were appended before the row was written, and events appended
\* after it, tell what the row holds, but for the marks that were disturbed
\* (service.go:655-752 and 825-861), for any number of users and requests.
THEOREM LogIsTrue == ASSUME Bounds PROVE Spec => [](TypeOK /\ LogIsRight)
<1>1. Init => IInv
  BY InitIInv
<1>2. IInv /\ [Next]_vars => IInv'
  BY StepIInv
<1>3. IInv => TypeOK /\ LogIsRight
  BY DEF IInv, Agrees, LogIsRight, LogTellsRow, Rivals
<1> QED BY <1>1, <1>2, <1>3, PTL DEF Spec

\* No user's request touches the mark of another (message_repo_pg.go:619-650).
THEOREM MarksAreKept == ASSUME Bounds PROVE Spec => MarksAreOnesOwn
<1>1. Init => IInv
  BY InitIInv
<1>2. IInv /\ [Next]_vars => IInv'
  BY StepIInv
<1>3. IInv /\ [Next]_vars => [\A k \in Marks : marks'[k] # marks[k] =>
         \E c \in Requests : OnMark(c) /\ Mark(c) = k /\ In(c, "write")]_vars
  BY MarksStep
<1> QED BY <1>1, <1>2, <1>3, PTL DEF Spec, MarksAreOnesOwn
=============================================================================
