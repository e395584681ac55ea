------------------------------ MODULE GroupsProofs ------------------------------
(* Who is in a group and who hears of it, for any number of users, groups   *)
(* and overlapping calls.                                                   *)
EXTENDS Groups, TLAPS

Records == [op : {"create", "add", "remove", "history", None},
            pc : Finished \cup Changing \cup {"owner", "role", "target", "insert", "update", "append"},
            actor : Users \cup {None}, group : Groups \cup {None}, target : Users \cup {None},
            left : SUBSET Users, list : SUBSET Users, overlap : BOOLEAN]

Kinds ==
    /\ TypeOK
    /\ call \in [Calls -> Records]

\* What is so while a call is at some place: before the owner of a group is
\* added nobody is in it; who changes it is its owner, and not the one that is
\* added; a call that was never disturbed is alone and has the list as it is.
Stage(c) ==
    LET k == call[c] IN
    /\ k.pc \notin Finished => k.actor \in Users /\ k.group \in Groups /\ k.target \in Users
    /\ k.pc = "owner" =>
         /\ k.group \in groups /\ k.target = k.actor /\ MembersOf(k.group) = {}
         /\ \A d \in Calls : call[d].pc = "owner" /\ call[d].group = k.group => d = c
    /\ k.pc = "members" => HasRole(k.group, k.actor, "owner")
    /\ k.pc \in {"target", "insert", "update"} =>
         HasRole(k.group, k.actor, "owner") /\ k.actor # k.target
    /\ k.pc \in Changing \cup {"append"} => k.target \in MembersOf(k.group)
    /\ k.pc \notin Finished \cup {"set", "append"} => k.list = {}
    /\ k.pc = "set" => k.list \subseteq MembersOf(k.group)
    /\ k.pc \in Changing /\ ~k.overlap =>
         Others(c, k.group) = {} /\ (k.pc = "set" => k.list = MembersOf(k.group))

\* The hub knows the members, or a call is on its way to tell it.
Known(g) ==
    g \in groups \ blurred =>
        \/ hubList[g] = MembersOf(g)
        \/ \E c \in Calls : call[c].group = g /\ call[c].pc \in Changing

IInv ==
    /\ Kinds
    /\ OneOwner
    /\ OnlyMembersHear
    /\ \A c \in Calls : Stage(c)
    /\ \A g \in Groups : Known(g)

-----------------------------------------------------------------------------
(* The table. *)

\* What a step of the table must keep: nobody leaves, and no owner is replaced.
Kept ==
    /\ \A h : MembersOf(h) \subseteq MembersOf(h)'
    /\ \A h, a : HasRole(h, a, "owner") => HasRole(h, a, "owner")'

\* The members of a group and its owner, in terms of the rows.
LEMMA Members ==
    /\ \A h, a : a \in MembersOf(h) <=> \E r \in rows : r.group = h /\ r.user = a
    /\ \A h, a : IsMember(h, a) <=> a \in MembersOf(h)
    /\ \A h, a : HasRole(h, a, "owner") => a \in MembersOf(h)
<1>1. \A h, a : a \in MembersOf(h) <=> \E r \in rows : r.group = h /\ r.user = a
  BY DEF MembersOf
<1>2. \A h, a : HasRole(h, a, "owner") => \E r \in rows : r.group = h /\ r.user = a
  BY DEF HasRole, Row
<1> QED BY <1>1, <1>2 DEF IsMember

\* A row is what it says.
LEMMA Rows ==
    ASSUME Kinds
    PROVE  /\ \A r \in rows : r = Row(r.group, r.user, r.role)
           /\ \A r \in rows : r.group \in groups /\ r.user \in Users /\ r.role \in {"owner", "member"}
           /\ \A h, a, b : /\ Row(h, a, b).group = h
                           /\ Row(h, a, b).user = a
                           /\ Row(h, a, b).role = b
  BY DEF Kinds, TypeOK, Row

\* The first row of a group is its owner's; a later one is not for the owner.
LEMMA UpsertStep ==
    ASSUME Kinds, OneOwner, NEW g \in groups, NEW u \in Users, NEW role \in {"owner", "member"},
           Upsert(g, u, role),
           \/ role = "owner" /\ MembersOf(g) = {}
           \/ role = "member" /\ \E a \in Users \ {u} : HasRole(g, a, "owner")
    PROVE  /\ rows' \subseteq [group : groups, user : Users, role : {"owner", "member"}]
           /\ OneOwner' /\ Kept
           /\ \A h : MembersOf(h)' = IF h = g THEN MembersOf(g) \cup {u} ELSE MembersOf(h)
           /\ HasRole(g, u, role)'
<1> DEFINE n == Row(g, u, role)
<1>1. /\ rows' = {r \in rows : ~(r.group = g /\ r.user = u)} \cup {n}
      /\ n.group = g /\ n.user = u /\ n.role = role
      /\ n \in [group : groups, user : Users, role : {"owner", "member"}]
  BY Rows DEF Upsert, Row
<1>2. HasRole(g, u, role)'
  BY <1>1 DEF HasRole, Row
<1> HIDE DEF n
<1>3. rows' \subseteq [group : groups, user : Users, role : {"owner", "member"}]
  BY <1>1 DEF Kinds, TypeOK
<1>4. \A r \in rows' : r = n \/ (r \in rows /\ ~(r.group = g /\ r.user = u))
  BY <1>1
<1>5. \A r \in rows : r \in rows' \/ (r.group = g /\ r.user = u)
  BY <1>1
<1>6. ASSUME NEW h PROVE MembersOf(h)' = IF h = g THEN MembersOf(g) \cup {u} ELSE MembersOf(h)
  <2>1. MembersOf(h)' = {r.user : r \in {s \in rows' : s.group = h}}
    BY DEF MembersOf
  <2>2. MembersOf(h) = {r.user : r \in {s \in rows : s.group = h}} /\ n \in rows'
    BY <1>1 DEF MembersOf
  <2>3. CASE h = g
    BY <1>1, <1>4, <1>5, <2>1, <2>2, <2>3
  <2>4. CASE h # g
    BY <1>1, <1>4, <1>5, <2>1, <2>2, <2>4
  <2> QED BY <2>3, <2>4
<1>7. CASE role = "owner" /\ MembersOf(g) = {}
  <2>1. \A r \in rows : r.group # g
    BY <1>7, Members
  <2>2. OneOwner'
    BY <1>1, <1>4, <1>5, <1>7, <2>1 DEF OneOwner
  <2>3. \A h, a : HasRole(h, a, "owner") => HasRole(h, a, "owner")'
    BY <1>5, <2>1, Rows DEF HasRole
  <2> QED BY <1>2, <1>3, <1>6, <2>2, <2>3 DEF Kept
<1>8. CASE role = "member" /\ \E a \in Users \ {u} : HasRole(g, a, "owner")
  <2>1. PICK a \in Users \ {u} : HasRole(g, a, "owner")
    BY <1>8
  <2>2. PICK o \in rows : o.group = g /\ o.user = a /\ o.role = "owner"
    BY <2>1, Rows DEF HasRole
  <2>3. o \in rows' /\ n.role = "member"
    BY <1>1, <1>8, <2>1, <2>2
  <2>4. \A r \in rows : r.group = g /\ r.role = "owner" => r = o
    BY <2>2 DEF OneOwner
  <2>5. \A r, q \in rows' : r.group = q.group /\ r.user = q.user => r = q
    BY <1>1, <1>4 DEF OneOwner
  <2>6. \A r, q \in rows' : r.group = q.group /\ r.role = "owner" /\ q.role = "owner" => r = q
    BY <1>4, <2>3 DEF OneOwner
  <2>7. \A r \in rows' : \E q \in rows' : q.group = r.group /\ q.role = "owner"
    <3>1. SUFFICES ASSUME NEW r \in rows' PROVE \E q \in rows' : q.group = r.group /\ q.role = "owner"
      OBVIOUS
    <3>2. CASE r.group = g
      BY <2>2, <2>3, <3>2
    <3>3. CASE r.group # g
      <4>1. r \in rows
        BY <1>1, <1>4, <3>3
      <4>2. PICK q \in rows : q.group = r.group /\ q.role = "owner"
        BY <4>1 DEF OneOwner
      <4> QED BY <1>5, <3>3, <4>2
    <3> QED BY <3>2, <3>3
  <2>8. OneOwner'
    BY <2>5, <2>6, <2>7 DEF OneOwner
  <2>9. ASSUME NEW h, NEW b, HasRole(h, b, "owner") PROVE HasRole(h, b, "owner")'
    <3>1. PICK r \in rows : r = Row(h, b, "owner") /\ r.group = h /\ r.user = b /\ r.role = "owner"
      BY <2>9, Rows DEF HasRole
    <3>2. r \in rows'
      <4>1. CASE h = g
        BY <2>3, <2>4, <3>1, <4>1
      <4>2. CASE h # g
        BY <1>5, <3>1, <4>2
      <4> QED BY <4>1, <4>2
    <3> QED BY <3>1, <3>2 DEF HasRole, Row
  <2> QED BY <1>2, <1>3, <1>6, <2>8, <2>9 DEF Kept
<1> QED BY <1>7, <1>8

\* Who hears of a group was a member, and nobody stops to be one.
LEMMA HearStep ==
    ASSUME OnlyMembersHear, Kept, UNCHANGED <<hubList, log>>
    PROVE  OnlyMembersHear'
<1>1. \A g : MembersOf(g) \subseteq MembersOf(g)'
  BY DEF Kept
<1>2. \A g, u : IsMember(g, u) => u \in MembersOf(g)'
  BY <1>1, Members
<1>3. \A g, u : u \in MembersOf(g)' => IsMember(g, u)'
  BY DEF MembersOf, IsMember
<1> QED BY <1>1, <1>2, <1>3 DEF OnlyMembersHear

-----------------------------------------------------------------------------
(* Calls. *)

Entering(c) == call'[c].pc \in Changing /\ ~(call[c].pc \in Changing /\ call'[c].group = call[c].group)

\* A call that another one did not touch, but to note that it was disturbed.
Spared(d) ==
    /\ \/ call'[d] = call[d]
       \/ call'[d] = [call[d] EXCEPT !.overlap = TRUE]
    /\ call[d].overlap => call'[d].overlap

\* What a call that was not touched keeps.
LEMMA SparedFields ==
    ASSUME Kinds, NEW d \in Calls, Spared(d)
    PROVE  /\ call'[d].pc = call[d].pc /\ call'[d].actor = call[d].actor
           /\ call'[d].group = call[d].group /\ call'[d].target = call[d].target
           /\ call'[d].list = call[d].list
           /\ call[d].overlap => call'[d].overlap
  BY DEF Kinds, Spared, Records

\* What a step of the call c must see to for the others.
LEMMA OthersStep ==
    ASSUME IInv, NEW c \in Calls, groups \subseteq groups', Kept,
           \A d \in Calls \ {c} : Spared(d),
           \A g : MembersOf(g)' # MembersOf(g) =>
               \A d \in Calls \ {c} : call[d].group = g =>
                   call[d].pc # "owner" /\ (call[d].pc \in Changing => call'[d].overlap),
           \A d \in Calls \ {c} : call[d].pc = "owner" =>
               ~(call'[c].pc = "owner" /\ call'[c].group = call[d].group),
           Entering(c) => \A d \in Calls \ {c} :
               call[d].group = call'[c].group /\ call[d].pc \in Changing => call'[d].overlap
    PROVE  \A d \in Calls \ {c} : Stage(d)'
<1> SUFFICES ASSUME NEW d \in Calls \ {c} PROVE Stage(d)'
  OBVIOUS
<1> DEFINE k == call[d]
<1> DEFINE l == call'[d]
<1>1. Kinds /\ Stage(d)
  BY DEF IInv
<1>2. /\ l.pc = k.pc /\ l.actor = k.actor /\ l.group = k.group /\ l.target = k.target
      /\ l.list = k.list /\ (k.overlap => l.overlap)
  BY <1>1, SparedFields
<1>3. \A e \in Calls \ {c} : call'[e].pc = call[e].pc /\ call'[e].group = call[e].group
  BY <1>1, SparedFields
<1>4. /\ \A h : MembersOf(h) \subseteq MembersOf(h)'
      /\ \A h, a : HasRole(h, a, "owner") => HasRole(h, a, "owner")'
  BY DEF Kept
<1>5. PICK g, a : g = k.group /\ a = k.actor
  OBVIOUS
<1> DEFINE n == MembersOf(g)'
<1>6. /\ MembersOf(g) \subseteq n
      /\ n # MembersOf(g) => k.pc # "owner" /\ (k.pc \in Changing => l.overlap)
  BY <1>4, <1>5
<1>7. k.pc = "owner" => \A e \in Calls : call'[e].pc = "owner" /\ call'[e].group = g => e = d
  BY <1>1, <1>3, <1>5 DEF Stage
<1>8. k.pc \in Changing /\ ~l.overlap => Others(d, g)' = {}
  <2>1. SUFFICES ASSUME k.pc \in Changing, ~l.overlap, NEW e \in Calls \ {d},
                        call'[e].group = g, call'[e].pc \in Changing
        PROVE FALSE
    BY DEF Others
  <2>2. ~(call[e].group = g /\ call[e].pc \in Changing)
    BY <1>1, <1>2, <1>5, <2>1 DEF Stage, Others
  <2>3. e = c
    BY <1>3, <2>1, <2>2
  <2>4. Entering(c)
    BY <2>1, <2>2, <2>3 DEF Entering
  <2> QED BY <1>5, <2>1, <2>3, <2>4
<1> HIDE DEF l, n
<1>9. /\ l.pc \notin Finished => l.actor \in Users /\ l.group \in Groups /\ l.target \in Users
      /\ l.pc = "owner" => l.group \in groups' /\ l.target = l.actor /\ n = {}
      /\ l.pc = "members" => HasRole(g, a, "owner")'
      /\ l.pc \in {"target", "insert", "update"} => HasRole(g, a, "owner")' /\ l.actor # l.target
      /\ l.pc \in Changing \cup {"append"} => l.target \in n
      /\ l.pc \notin Finished \cup {"set", "append"} => l.list = {}
      /\ l.pc = "set" => l.list \subseteq n
      /\ l.pc \in Changing /\ ~l.overlap /\ l.pc = "set" => l.list = n
  BY <1>1, <1>2, <1>4, <1>5, <1>6 DEF Stage
<1>10. l.group = g /\ l.actor = a
  BY <1>2, <1>5
<1> QED BY <1>2, <1>7, <1>8, <1>9, <1>10 DEF Stage, l, n

\* What a step of the call c that leaves the hub alone must see to.
LEMMA TableStep ==
    ASSUME IInv, NEW c \in Calls, Kinds', OneOwner', OnlyMembersHear', Stage(c)',
           groups \subseteq groups', Kept, hubList' = hubList, blurred \subseteq blurred',
           \A d \in Calls \ {c} : Spared(d),
           \A g : MembersOf(g)' # MembersOf(g) =>
               /\ \A d \in Calls \ {c} : call[d].group = g =>
                      call[d].pc # "owner" /\ (call[d].pc \in Changing => call'[d].overlap)
               /\ g \in blurred' \/ (call'[c].group = g /\ call'[c].pc \in Changing),
           \A d \in Calls \ {c} : call[d].pc = "owner" =>
               ~(call'[c].pc = "owner" /\ call'[c].group = call[d].group),
           Entering(c) => \A d \in Calls \ {c} :
               call[d].group = call'[c].group /\ call[d].pc \in Changing => call'[d].overlap,
           call[c].pc \in Changing => call'[c].pc \in Changing /\ call'[c].group = call[c].group,
           \A g \in groups' \ groups : hubList[g] = MembersOf(g)'
    PROVE  IInv'
<1>1. \A d \in Calls \ {c} : Stage(d)'
  BY OthersStep
<1>2. \A d \in Calls : call[d].pc \in Changing => call'[d].pc \in Changing /\ call'[d].group = call[d].group
  BY SparedFields DEF IInv
<1>3. ASSUME NEW g \in Groups, g \in groups' \ blurred' 
      PROVE  hubList'[g] = MembersOf(g)' \/ \E d \in Calls : call'[d].group = g /\ call'[d].pc \in Changing
  <2>1. CASE g \in groups /\ MembersOf(g)' = MembersOf(g)
    <3>1. Known(g) /\ g \in groups \ blurred
      BY <1>3, <2>1 DEF IInv
    <3> QED BY <1>2, <2>1, <3>1 DEF Known
  <2>2. CASE g \in groups /\ MembersOf(g)' # MembersOf(g)
    BY <1>3, <2>2
  <2>3. CASE g \notin groups
    BY <1>3, <2>3
  <2> QED BY <2>1, <2>2, <2>3
<1>4. \A g \in Groups : Known(g)'
  BY <1>3 DEF Known
<1> QED BY <1>1, <1>4 DEF IInv

\* A step of the call c that moves it and nothing else.
LEMMA CallStep ==
    ASSUME IInv, NEW c \in Calls, Kinds', Stage(c)', UNCHANGED <<groups, rows, hubList, log, blurred>>,
           \A d \in Calls \ {c} : Spared(d), call'[c].pc # "owner", ~Entering(c),
           call[c].pc \in Changing => call'[c].pc \in Changing /\ call'[c].group = call[c].group
    PROVE  IInv'
<1>1. /\ \A g : MembersOf(g)' = MembersOf(g)
      /\ \A g, u : IsMember(g, u)' <=> IsMember(g, u)
      /\ \A g, u : HasRole(g, u, "owner")' <=> HasRole(g, u, "owner")
  BY DEF MembersOf, IsMember, HasRole
<1>2. Kept
  BY <1>1 DEF Kept
<1>3. OneOwner' /\ OnlyMembersHear'
  BY <1>1 DEF IInv, OneOwner, OnlyMembersHear
<1> QED BY <1>1, <1>2, <1>3, TableStep

\* What the fields of a call become.
LEMMA Goes ==
    ASSUME Kinds, NEW c \in Calls, NEW l, GoTo(c, l)
    PROVE  /\ call'[c].pc = l /\ call'[c].actor = call[c].actor /\ call'[c].group = call[c].group
           /\ call'[c].target = call[c].target /\ call'[c].list = call[c].list
           /\ call'[c].left = call[c].left /\ call'[c].overlap = call[c].overlap
           /\ call'[c].op = call[c].op
           /\ \A d \in Calls \ {c} : call'[d] = call[d] /\ Spared(d)
  BY DEF Kinds, GoTo, Spared, Records

\* A call that is moved stays a call.
LEMMA GoesKinds ==
    ASSUME Kinds, NEW c \in Calls, GoTo(c, "target") \/ GoTo(c, "insert") \/ GoTo(c, "update")
                                   \/ GoTo(c, "error") \/ GoTo(c, "ok") \/ GoTo(c, "append"),
           UNCHANGED <<groups, rows, hubList, log, blurred>>
    PROVE  Kinds'
<1>1. call' \in [Calls -> Records]
  BY DEF Kinds, GoTo, Finished, Records
<1>2. \A d \in Calls : call'[d].left \subseteq Users /\ call'[d].list \subseteq Users
  BY <1>1 DEF Records
<1> QED BY <1>1, <1>2 DEF Kinds, TypeOK

\* A call that is not made yet is one that is over.
LEMMA IdleKind == Idle \in Records /\ Idle.list = {}
  BY DEF Idle, Records, Finished

\* A call begins: on a new group of which nobody is a member, ...
LEMMA CreateGroupStep ==
    ASSUME IInv, NEW c \in Calls, NEW u \in Users, NEW g \in Groups, NEW members \in SUBSET Users,
           CreateGroup(c, u, g, members)
    PROVE  IInv'
<1> DEFINE new == [Idle EXCEPT !.op = "create", !.pc = "owner", !.actor = u,
                               !.group = g, !.target = u, !.left = members]
<1>1. Kinds
  BY DEF IInv
<1>2. /\ new.pc = "owner" /\ new.actor = u /\ new.group = g /\ new.target = u
      /\ new \in Records /\ new.list = {}
  BY IdleKind DEF Records
<1> HIDE DEF new
<1>4. /\ call' = [call EXCEPT ![c] = new] /\ groups' = groups \cup {g} /\ g \notin groups
      /\ UNCHANGED <<rows, hubList, log, blurred>>
  BY DEF CreateGroup, new
<1>5. call' \in [Calls -> Records] /\ call'[c] = new /\ \A d \in Calls \ {c} : call'[d] = call[d] /\ Spared(d)
  BY <1>1, <1>2, <1>4 DEF Kinds, Spared
<1>6. \A d \in Calls : call'[d].left \subseteq Users /\ call'[d].list \subseteq Users
  BY <1>5 DEF Records
<1>7. Kinds'
  BY <1>1, <1>4, <1>5, <1>6 DEF Kinds, TypeOK
<1>8. /\ \A h : MembersOf(h)' = MembersOf(h)
      /\ \A h, a : IsMember(h, a)' <=> IsMember(h, a)
      /\ \A h, a : HasRole(h, a, "owner")' <=> HasRole(h, a, "owner")
  BY <1>4 DEF MembersOf, IsMember, HasRole
<1>9. Kept /\ OneOwner' /\ OnlyMembersHear'
  BY <1>4, <1>8 DEF Kept, IInv, OneOwner, OnlyMembersHear
<1>10. MembersOf(g) = {} /\ hubList[g] = {}
  <2>1. \A a : a \notin MembersOf(g)
    BY <1>1, <1>4, Members, Rows
  <2> QED BY <2>1 DEF IInv, OnlyMembersHear
<1>11. \A d \in Calls : call[d].pc = "owner" => call[d].group # g
  BY <1>4 DEF IInv, Stage
<1>12. Stage(c)'
  <2>1. \A d \in Calls : call'[d].pc = "owner" /\ call'[d].group = g => d = c
    BY <1>5, <1>11
  <2>2. MembersOf(new.group)' = {} /\ new.group = g
    BY <1>2, <1>8, <1>10
  <2> QED BY <1>2, <1>4, <1>5, <2>1, <2>2 DEF Stage, Finished, Changing
<1>13. ~Entering(c) /\ call[c].pc \notin Changing
  BY <1>2, <1>5 DEF Entering, Changing, CreateGroup, Free, Finished
<1> QED BY <1>2, <1>4, <1>5, <1>7, <1>8, <1>9, <1>10, <1>11, <1>12, <1>13, TableStep

\* ... or on one of those there are.
LEMMA BeginStep ==
    ASSUME IInv, NEW c \in Calls, Free(c),
           NEW new \in Records, new.pc \in {"role", "ok", "error"}, new.list = {},
           new.pc = "role" => new.actor \in Users /\ new.group \in Groups /\ new.target \in Users,
           call' = [call EXCEPT ![c] = new],
           UNCHANGED <<groups, rows, hubList, log, blurred>>
    PROVE  IInv'
<1>1. Kinds
  BY DEF IInv
<1>5. call' \in [Calls -> Records] /\ call'[c] = new /\ \A d \in Calls \ {c} : call'[d] = call[d] /\ Spared(d)
  BY <1>1 DEF Kinds, Spared
<1>6. \A d \in Calls : call'[d].left \subseteq Users /\ call'[d].list \subseteq Users
  BY <1>5 DEF Records
<1>7. Kinds'
  BY <1>1, <1>5, <1>6 DEF Kinds, TypeOK
<1>8. Stage(c)'
  BY <1>5 DEF Stage, Finished, Changing
<1>9. ~Entering(c) /\ call[c].pc \notin Changing /\ new.pc # "owner"
  BY <1>5 DEF Entering, Changing, Free, Finished
<1> QED BY <1>5, <1>7, <1>8, <1>9, CallStep

\* The actor is found to be the owner, or the call is over.
LEMMA CheckRoleStep == ASSUME IInv, NEW c \in Calls, CheckRole(c) PROVE IInv'
<1> DEFINE owns == HasRole(call[c].group, call[c].actor, "owner") /\ call[c].actor # call[c].target
<1>1. Kinds /\ Stage(c) /\ call[c].pc = "role"
  BY DEF IInv, CheckRole, At
<1>2. PICK g, a : g = call[c].group /\ a = call[c].actor
  OBVIOUS
<1>3. PICK l \in {"target", "error"} : /\ GoTo(c, l) 
                                       /\ l = "target" => HasRole(g, a, "owner") /\ a # call[c].target
  BY <1>2 DEF CheckRole
<1>4. HasRole(g, a, "owner")' <=> HasRole(g, a, "owner")
  BY DEF CheckRole, HasRole
<1>5. Kinds'
  BY <1>1, <1>3, GoesKinds DEF CheckRole
<1>6. Stage(c)'
  BY <1>1, <1>2, <1>3, <1>4, Goes DEF Stage, Finished, Changing
<1> QED BY <1>1, <1>3, <1>5, <1>6, Goes, CallStep DEF CheckRole, Entering, Changing

\* The target is no member to be added, or one to be removed.
LEMMA CheckTargetStep == ASSUME IInv, NEW c \in Calls, CheckTarget(c) PROVE IInv'
<1>1. Kinds /\ Stage(c) /\ call[c].pc = "target"
  BY DEF IInv, CheckTarget, At
<1>2. PICK g, a : g = call[c].group /\ a = call[c].actor
  OBVIOUS
<1>3. PICK l \in {"insert", "update", "error"} : GoTo(c, l) 
  BY DEF CheckTarget
<1>4. HasRole(g, a, "owner")' <=> HasRole(g, a, "owner")
  BY DEF CheckTarget, HasRole
<1>5. Kinds'
  BY <1>1, <1>3, GoesKinds DEF CheckTarget
<1>6. Stage(c)'
  BY <1>1, <1>2, <1>3, <1>4, Goes DEF Stage, Finished, Changing
<1> QED BY <1>1, <1>3, <1>5, <1>6, Goes, CallStep DEF CheckTarget, Entering, Changing

\* Nobody is removed.
LEMMA UpdateMemberStep == ASSUME IInv, NEW c \in Calls, UpdateMember(c) PROVE IInv'
<1>1. Kinds /\ Stage(c) /\ call[c].pc = "update" /\ GoTo(c, "error")
  BY DEF IInv, UpdateMember, At
<1>2. Kinds'
  BY <1>1, GoesKinds DEF UpdateMember
<1>3. Stage(c)'
  BY <1>1, Goes DEF Stage, Finished, Changing
<1> QED BY <1>1, <1>2, <1>3, Goes, CallStep DEF UpdateMember, Entering, Changing

-----------------------------------------------------------------------------
(* The steps that change the table. *)

\* A call that enters the table tells the others there, and knows of them.
LEMMA Enters ==
    ASSUME Kinds, NEW c \in Calls, NEW g, g = call[c].group, NEW l \in {"members", "list"},
           EntersTable(c, l)
    PROVE  /\ call' \in [Calls -> Records]
           /\ call'[c].pc = l /\ call'[c].actor = call[c].actor /\ call'[c].group = g
           /\ call'[c].target = call[c].target /\ call'[c].list = call[c].list
           /\ ~call'[c].overlap => Others(c, g) = {}
           /\ \A d \in Calls \ {c} : Spared(d)
           /\ \A d \in Calls \ {c} :
                call[d].group = g /\ call[d].pc \in Changing => call'[d].overlap
<1> DEFINE new == [call[c] EXCEPT !.pc = l, !.overlap = Others(c, g) # {}]
<1>1. /\ call'[c] = new
      /\ \A d \in Others(c, g) : call'[d] = [call[d] EXCEPT !.overlap = TRUE]
      /\ \A d \in Calls \ {c} : d \notin Others(c, g) => call'[d] = call[d]
  BY DEF EntersTable, Others
<1>2. /\ call[c] \in Records /\ new \in Records /\ new.pc = l /\ new.actor = call[c].actor
      /\ new.group = g /\ new.target = call[c].target /\ new.list = call[c].list
      /\ (new.overlap <=> Others(c, g) # {})
  <2>1. call[c] \in Records
    BY DEF Kinds
  <2> QED BY <2>1, ZenonT(40) DEF Records, Changing
<1> HIDE DEF new
<1>3. \A d \in Calls : [call[d] EXCEPT !.overlap = TRUE] \in Records
                       /\ [call[d] EXCEPT !.overlap = TRUE].overlap = TRUE
  BY ZenonT(40) DEF Kinds, Records
<1>4. \A d \in Calls : call'[d] \in Records
  BY <1>1, <1>2, <1>3 DEF Kinds
<1>5. call' \in [Calls -> Records]
  BY <1>4 DEF EntersTable
<1>6. \A d \in Calls \ {c} : Spared(d)
  BY <1>1, <1>3 DEF Spared
<1> QED BY <1>1, <1>2, <1>3, <1>5, <1>6 DEF Others

\* Who inserts a row may do so, and no other call is about to add the owner.
LEMMA Insertion ==
    ASSUME IInv, NEW c \in Calls, NEW g, NEW u, g = call[c].group, u = call[c].target,
           NEW role, \/ call[c].pc = "owner" /\ role = "owner"
                     \/ call[c].pc = "insert" /\ role = "member",
           Upsert(g, u, role)
    PROVE  /\ g \in groups /\ u \in Users /\ role \in {"owner", "member"}
           /\ rows' \subseteq [group : groups, user : Users, role : {"owner", "member"}]
           /\ OneOwner' /\ Kept
           /\ \A h : MembersOf(h)' = IF h = g THEN MembersOf(g) \cup {u} ELSE MembersOf(h)
           /\ HasRole(g, u, role)'
           /\ \A d \in Calls \ {c} : call[d].group = g => call[d].pc # "owner"
<1>1. Kinds /\ OneOwner /\ \A d \in Calls : Stage(d)
  BY DEF IInv
<1>2. u \in Users /\ role \in {"owner", "member"}
  BY <1>1 DEF Stage, Finished
<1>3. CASE call[c].pc = "owner" /\ role = "owner"
  <2>1. g \in groups /\ MembersOf(g) = {}
    BY <1>1, <1>3 DEF Stage
  <2>2. \A d \in Calls \ {c} : call[d].group = g => call[d].pc # "owner"
    BY <1>1, <1>3 DEF Stage
  <2> QED BY <1>1, <1>2, <1>3, <2>1, <2>2, UpsertStep
<1>4. CASE call[c].pc = "insert" /\ role = "member"
  <2>1. PICK a : a = call[c].actor /\ HasRole(g, a, "owner") /\ a # u /\ a \in Users
    BY <1>1, <1>4 DEF Stage, Finished
  <2>2. g \in groups /\ a \in MembersOf(g)
    BY <1>1, <2>1, Members, Rows DEF HasRole
  <2>3. \A d \in Calls \ {c} : call[d].group = g => call[d].pc # "owner"
    BY <1>1, <2>2 DEF Stage
  <2> QED BY <1>1, <1>2, <1>4, <2>1, <2>2, <2>3, UpsertStep
<1> QED BY <1>3, <1>4

\* A call adds the one it is for, and from then on is to tell the hub.
LEMMA EntersStep ==
    ASSUME IInv, NEW c \in Calls, NEW g, NEW u, g = call[c].group, u = call[c].target,
           NEW l, NEW role, \/ call[c].pc = "owner" /\ role = "owner" /\ l = "members"
                            \/ call[c].pc = "insert" /\ role = "member" /\ l = "list",
           Upsert(g, u, role), EntersTable(c, l), UNCHANGED <<groups, hubList, log, blurred>>
    PROVE  IInv'
<1>1. Kinds /\ Stage(c) /\ l \in {"members", "list"} /\ OnlyMembersHear
  BY DEF IInv
<1>2. /\ call' \in [Calls -> Records]
      /\ call'[c].pc = l /\ call'[c].actor = call[c].actor /\ call'[c].group = g
      /\ call'[c].target = u /\ call'[c].list = call[c].list
      /\ ~call'[c].overlap => Others(c, g) = {}
      /\ \A d \in Calls \ {c} : Spared(d)
      /\ \A d \in Calls \ {c} : call[d].group = g /\ call[d].pc \in Changing => call'[d].overlap
  BY <1>1, Enters
<1>3. /\ g \in groups /\ u \in Users /\ role \in {"owner", "member"}
      /\ rows' \subseteq [group : groups, user : Users, role : {"owner", "member"}]
      /\ OneOwner' /\ Kept
      /\ \A h : MembersOf(h)' = IF h = g THEN MembersOf(g) \cup {u} ELSE MembersOf(h)
      /\ HasRole(g, u, role)'
      /\ \A d \in Calls \ {c} : call[d].group = g => call[d].pc # "owner"
  BY Insertion
<1>4. \A d \in Calls : call'[d].left \subseteq Users /\ call'[d].list \subseteq Users
  BY <1>2 DEF Records
<1>5. Kinds'
  BY <1>1, <1>2, <1>3, <1>4 DEF Kinds, TypeOK
<1>6. OnlyMembersHear'
  BY <1>1, <1>3, HearStep
<1>7. ~call'[c].overlap => Others(c, g)' = {}
  <2>1. \A d \in Calls \ {c} : call'[d].pc = call[d].pc /\ call'[d].group = call[d].group
    BY <1>1, <1>2, SparedFields
  <2> QED BY <1>2, <2>1 DEF Others
<1>8. Stage(c)'
  <2>1. call[c].pc = "owner" => call[c].actor = u
    BY <1>1 DEF Stage
  <2>2. call[c].actor \in Users /\ g \in Groups
    BY <1>1 DEF Stage, Finished
  <2>3. PICK a : a = call[c].actor
    OBVIOUS
  <2>4. l = "members" => HasRole(g, a, "owner")'
    BY <1>3, <2>1, <2>3
  <2>5. u \in MembersOf(g)'
    BY <1>3
  <2>6. call'[c].list = {}
    BY <1>1, <1>2 DEF Stage, Finished
  <2> QED BY <1>1, <1>2, <1>7, <2>2, <2>3, <2>4, <2>5, <2>6 DEF Stage, Finished, Changing
<1>9. call'[c].pc \in Changing /\ call'[c].pc # "owner" /\ call[c].pc \notin Changing
  BY <1>2 DEF Changing
<1> QED BY <1>2, <1>3, <1>5, <1>6, <1>8, <1>9, TableStep DEF Entering

\* The owner is the first member of a group.
LEMMA AddOwnerStep == ASSUME IInv, NEW c \in Calls, AddOwner(c) PROVE IInv'
<1>1. PICK g, u : g = call[c].group /\ u = call[c].target
  OBVIOUS
<1>2. call[c].actor = u /\ call[c].pc = "owner"
  BY <1>1 DEF IInv, Stage, AddOwner, At
<1> QED BY <1>1, <1>2, EntersStep DEF AddOwner

\* The owner of a group adds a member.
LEMMA InsertMemberStep == ASSUME IInv, NEW c \in Calls, InsertMember(c) PROVE IInv'
<1>1. PICK g, u : g = call[c].group /\ u = call[c].target
  OBVIOUS
<1> QED BY <1>1, EntersStep DEF InsertMember, At

\* The members listed by the owner are added one by one, the owner left out.
LEMMA AddListedStep == ASSUME IInv, NEW c \in Calls, NEW u \in Users, AddListed(c, u) PROVE IInv'
<1> DEFINE new == [call[c] EXCEPT !.left = @ \ {u}]
<1>1. Kinds /\ OneOwner /\ OnlyMembersHear /\ Stage(c) /\ call[c].pc = "members"
  BY DEF IInv, AddListed, At
<1>2. PICK g, a : g = call[c].group /\ a = call[c].actor
  OBVIOUS
<1>3. /\ new \in Records /\ new.pc = "members" /\ new.actor = a /\ new.group = g
      /\ new.target = call[c].target /\ new.list = call[c].list /\ new.overlap = call[c].overlap
  BY <1>1, <1>2 DEF Kinds, Records
<1> HIDE DEF new
<1>4. call' = [call EXCEPT ![c] = new] /\ UNCHANGED <<groups, hubList, log, blurred>>
  BY DEF AddListed, new
<1>5. /\ call'[c] = new /\ call' \in [Calls -> Records]
      /\ \A d \in Calls \ {c} : call'[d] = call[d] /\ Spared(d)
  BY <1>1, <1>3, <1>4 DEF Kinds, Spared
<1>6. \A d \in Calls : call'[d].left \subseteq Users /\ call'[d].list \subseteq Users
  BY <1>5 DEF Records
<1>7. Others(c, g)' = Others(c, g)
  BY <1>5 DEF Others
<1>8. call'[c].pc \in Changing /\ call'[c].pc # "owner" /\ call[c].pc \in Changing /\ ~Entering(c)
  BY <1>1, <1>2, <1>3, <1>5 DEF Changing, Entering
<1>9. HasRole(g, a, "owner") /\ a \in Users /\ g \in Groups /\ call[c].target \in MembersOf(g)
      /\ call[c].list = {} /\ call[c].target \in Users
  BY <1>1, <1>2 DEF Stage, Finished, Changing
<1>10. ASSUME Kept PROVE Stage(c)'
  <2>1. /\ HasRole(g, a, "owner")' /\ call[c].target \in MembersOf(g)'
    BY <1>9, <1>10 DEF Kept
  <2>2. ~new.overlap => Others(c, g)' = {}
    BY <1>1, <1>2, <1>3, <1>7, <1>8 DEF Stage
  <2> QED BY <1>3, <1>5, <1>9, <2>1, <2>2 DEF Stage, Finished, Changing
<1>11. CASE UNCHANGED rows
  <2>1. Kinds'
    BY <1>1, <1>4, <1>5, <1>6, <1>11 DEF Kinds, TypeOK
  <2>2. Kept
    BY <1>11 DEF Kept, MembersOf, HasRole
  <2> QED BY <1>2, <1>3, <1>4, <1>5, <1>8, <1>10, <1>11, <2>1, <2>2, CallStep
<1>12. CASE u # a /\ Upsert(g, u, "member")
  <2>1. g \in groups /\ a \in MembersOf(g)
    BY <1>1, <1>9, Members, Rows DEF HasRole
  <2>2. /\ rows' \subseteq [group : groups, user : Users, role : {"owner", "member"}]
        /\ OneOwner' /\ Kept
        /\ \A h : MembersOf(h)' = IF h = g THEN MembersOf(g) \cup {u} ELSE MembersOf(h)
    BY <1>1, <1>9, <1>12, <2>1, UpsertStep
  <2>3. Kinds'
    BY <1>1, <1>4, <1>5, <1>6, <2>2 DEF Kinds, TypeOK
  <2>4. OnlyMembersHear'
    BY <1>1, <1>4, <2>2, HearStep
  <2>5. ASSUME NEW d \in Calls \ {c}, call[d].group = g
        PROVE  call[d].pc # "owner" /\ (call[d].pc \in Changing => call'[d].overlap)
    <3>1. Stage(d) /\ call'[d] = call[d] /\ call[d] \in Records
      BY <1>1, <1>5 DEF IInv, Kinds
    <3>2. c \in Others(d, g)
      BY <1>2, <1>8 DEF Others
    <3> QED BY <2>1, <2>5, <3>1, <3>2 DEF Stage, Records
  <2>6. \A h : MembersOf(h)' # MembersOf(h) =>
           /\ \A d \in Calls \ {c} : call[d].group = h =>
                  call[d].pc # "owner" /\ (call[d].pc \in Changing => call'[d].overlap)
           /\ h \in blurred' \/ (call'[c].group = h /\ call'[c].pc \in Changing)
    BY <1>3, <1>5, <1>8, <2>2, <2>5
  <2>7. call'[c].group = call[c].group /\ groups' = groups /\ hubList' = hubList /\ blurred' = blurred
    BY <1>2, <1>3, <1>4, <1>5
  <2> QED BY <1>5, <1>8, <1>10, <2>2, <2>3, <2>4, <2>6, <2>7, TableStep
<1> QED BY <1>2, <1>11, <1>12 DEF AddListed

\* The list is read, and is the members as they are unless that failed.
LEMMA ReadMembersStep == ASSUME IInv, NEW c \in Calls, ReadMembers(c) PROVE IInv'
<1>1. Kinds /\ Stage(c) /\ call[c].pc \in {"members", "list"}
  BY DEF IInv, ReadMembers, At
<1>2. PICK g : g = call[c].group
  OBVIOUS
<1>3. PICK new : /\ call' = [call EXCEPT ![c] = new] /\ new \in Records
                 /\ new.pc = "set" /\ new.actor = call[c].actor /\ new.group = g
                 /\ new.target = call[c].target
                 /\ new.list \subseteq MembersOf(g)
                 /\ ~new.overlap => ~call[c].overlap /\ new.list = MembersOf(g)
  <2>1. MembersOf(g) \subseteq Users /\ call[c].list = {} /\ call[c] \in Records
    BY <1>1, Rows, Members DEF Kinds, Stage, Finished
  <2>2. CASE call' = [call EXCEPT ![c].list = MembersOf(call[c].group), ![c].pc = "set"]
    <3> DEFINE n == [call[c] EXCEPT !.list = MembersOf(g), !.pc = "set"]
    <3>1. call' = [call EXCEPT ![c] = n]
      BY <1>1, <1>2, <2>2 DEF Kinds
    <3>2. /\ n \in Records /\ n.pc = "set" /\ n.actor = call[c].actor /\ n.group = g
          /\ n.target = call[c].target /\ n.list = MembersOf(g) /\ n.overlap = call[c].overlap
      BY <1>2, <2>1 DEF Records, Changing
    <3> HIDE DEF n
    <3> QED BY <3>1, <3>2
  <2>3. CASE call' = [call EXCEPT ![c].overlap = TRUE, ![c].pc = "set"]
    <3> DEFINE n == [call[c] EXCEPT !.overlap = TRUE, !.pc = "set"]
    <3>1. call' = [call EXCEPT ![c] = n]
      BY <1>1, <2>3 DEF Kinds
    <3>2. /\ n \in Records /\ n.pc = "set" /\ n.actor = call[c].actor /\ n.group = g
          /\ n.target = call[c].target /\ n.list = {} /\ n.overlap = TRUE
      BY <1>2, <2>1 DEF Records, Changing
    <3> HIDE DEF n
    <3> QED BY <3>1, <3>2
  <2> QED BY <2>2, <2>3 DEF ReadMembers
<1>4. UNCHANGED <<groups, rows, hubList, log, blurred>>
  BY DEF ReadMembers
<1>5. /\ call'[c] = new /\ call' \in [Calls -> Records]
      /\ \A d \in Calls \ {c} : call'[d] = call[d] /\ Spared(d)
  BY <1>1, <1>3 DEF Kinds, Spared
<1>6. \A d \in Calls : call'[d].left \subseteq Users /\ call'[d].list \subseteq Users
  BY <1>5 DEF Records
<1>7. Kinds'
  BY <1>1, <1>4, <1>5, <1>6 DEF Kinds, TypeOK
<1>8. Others(c, g)' = Others(c, g) /\ MembersOf(g)' = MembersOf(g)
  BY <1>4, <1>5 DEF Others, MembersOf
<1>9. Stage(c)'
  <2>1. call[c].target \in MembersOf(g) /\ g \in Groups /\ call[c].target \in Users /\ call[c].actor \in Users
    BY <1>1, <1>2 DEF Stage, Finished, Changing
  <2>2. ~new.overlap => Others(c, g)' = {} /\ new.list = MembersOf(g)
    BY <1>1, <1>2, <1>3, <1>8 DEF Stage, Changing
  <2> QED BY <1>3, <1>5, <1>8, <2>1, <2>2 DEF Stage, Finished, Changing
<1>10. call'[c].pc \in Changing /\ call'[c].pc # "owner" /\ ~Entering(c)
  BY <1>1, <1>2, <1>3, <1>5 DEF Entering, Changing
<1> QED BY <1>2, <1>3, <1>4, <1>5, <1>7, <1>9, <1>10, CallStep

\* Handing the list over ends what a call has to tell the hub.
LEMMA SetGroupMembersStep == ASSUME IInv, NEW c \in Calls, SetGroupMembers(c) PROVE IInv'
<1>1. Kinds /\ Stage(c) /\ call[c].pc = "set" /\ OneOwner /\ OnlyMembersHear
  BY DEF IInv, SetGroupMembers, At
<1>2. PICK g : g = call[c].group
  OBVIOUS
<1>3. GoTo(c, "append") /\ UNCHANGED <<groups, rows, log>>
  BY DEF SetGroupMembers
<1>4. /\ call'[c].pc = "append" /\ call'[c].actor = call[c].actor /\ call'[c].group = g
      /\ call'[c].target = call[c].target
      /\ \A d \in Calls \ {c} : call'[d] = call[d] /\ Spared(d)
  BY <1>1, <1>2, <1>3, Goes
<1>5. /\ \A h : MembersOf(h)' = MembersOf(h)
      /\ \A h, u : IsMember(h, u)' <=> IsMember(h, u)
      /\ \A h, u : HasRole(h, u, "owner")' <=> HasRole(h, u, "owner")
  BY <1>3 DEF MembersOf, IsMember, HasRole
<1>6. /\ call[c].target \in MembersOf(g) /\ call[c].list \subseteq MembersOf(g) /\ g \in Groups
      /\ call[c].actor \in Users /\ call[c].target \in Users
      /\ ~call[c].overlap => call[c].list = MembersOf(g)
  BY <1>1, <1>2 DEF Stage, Changing, Finished
<1>7. g \in groups
  BY <1>1, <1>6, Members, Rows
<1>8. MembersOf(g) \subseteq Users
  BY <1>1, Members, Rows
<1>9. /\ hubList' = [hubList EXCEPT ![g] = call[c].list]
      /\ blurred' = IF call[c].overlap THEN blurred \cup {g} ELSE blurred \ {g}
  BY <1>2 DEF SetGroupMembers
<1>10. call' \in [Calls -> Records]
  BY <1>1, <1>3 DEF Kinds, GoTo, Records
<1>11. \A d \in Calls : call'[d].left \subseteq Users /\ call'[d].list \subseteq Users
  BY <1>10 DEF Records
<1>12. Kinds'
  <2>1. hubList' \in [Groups -> SUBSET Users] /\ blurred' \subseteq groups
    BY <1>1, <1>6, <1>7, <1>8, <1>9 DEF Kinds, TypeOK
  <2> QED BY <1>1, <1>3, <1>10, <1>11, <2>1 DEF Kinds, TypeOK
<1>13. hubList'[g] = call[c].list /\ \A h \in Groups \ {g} : hubList'[h] = hubList[h]
  BY <1>1, <1>6, <1>9 DEF Kinds, TypeOK
<1>14. OneOwner' /\ OnlyMembersHear'
  <2>1. \A h \in Groups : hubList'[h] \subseteq MembersOf(h)'
    BY <1>1, <1>5, <1>6, <1>13 DEF OnlyMembersHear
  <2> QED BY <1>1, <1>3, <1>5, <2>1 DEF OneOwner, OnlyMembersHear
<1>15. Stage(c)'
  BY <1>4, <1>5, <1>6 DEF Stage, Finished, Changing
<1>16. \A d \in Calls \ {c} : Stage(d)'
  <2>1. Kept
    BY <1>5 DEF Kept
  <2> QED BY <1>3, <1>4, <1>5, <2>1, OthersStep DEF Entering, Changing
<1>17. ASSUME NEW h \in Groups PROVE Known(h)'
  <2>1. CASE h = g
    <3>1. h \notin blurred' => hubList'[h] = MembersOf(h)'
      BY <1>5, <1>6, <1>9, <1>13, <2>1
    <3> QED BY <3>1 DEF Known
  <2>2. CASE h # g
    <3>1. Known(h) /\ hubList'[h] = hubList[h] /\ (h \in blurred' <=> h \in blurred) /\ groups' = groups
      BY <1>3, <1>9, <1>13, <2>2 DEF IInv
    <3>2. \A d \in Calls : call[d].group = h => call'[d] = call[d]
      BY <1>2, <1>4, <2>2
    <3> QED BY <1>5, <3>1, <3>2 DEF Known
  <2> QED BY <2>1, <2>2
<1> QED BY <1>12, <1>14, <1>15, <1>16, <1>17 DEF IInv

\* The event tells of a membership that is there.
LEMMA AppendEventStep == ASSUME IInv, NEW c \in Calls, AppendEvent(c) PROVE IInv'
<1>1. Kinds /\ Stage(c) /\ call[c].pc = "append" /\ OneOwner /\ OnlyMembersHear
  BY DEF IInv, AppendEvent, At
<1>2. PICK g, u : g = call[c].group /\ u = call[c].target
  OBVIOUS
<1>3. GoTo(c, "ok") /\ UNCHANGED <<groups, rows, hubList, blurred>>
  BY DEF AppendEvent
<1>4. PICK kind \in {"group:created", "group:member:add"} :
        log' = log \/ log' = log \cup {[kind |-> kind, group |-> g, user |-> u]}
  <2>1. CASE UNCHANGED log
    BY <2>1
  <2>2. CASE ~UNCHANGED log
    BY <1>2, <2>2 DEF AppendEvent
  <2> QED BY <2>1, <2>2
<1>5. u \in MembersOf(g) /\ g \in groups /\ u \in Users /\ IsMember(g, u)
  <2>1. u \in MembersOf(g)
    BY <1>1, <1>2 DEF Stage
  <2> QED BY <1>1, <2>1, Members, Rows
<1>6. /\ \A h : MembersOf(h)' = MembersOf(h)
      /\ \A h, a : IsMember(h, a)' <=> IsMember(h, a)
      /\ \A h, a : HasRole(h, a, "owner")' <=> HasRole(h, a, "owner")
  BY <1>3 DEF MembersOf, IsMember, HasRole
<1>7. /\ call'[c].pc = "ok" /\ \A d \in Calls \ {c} : call'[d] = call[d] /\ Spared(d)
  BY <1>1, <1>3, Goes
<1>8. call' \in [Calls -> Records]
  BY <1>1, <1>3 DEF Kinds, GoTo, Records, Finished
<1>9. \A d \in Calls : call'[d].left \subseteq Users /\ call'[d].list \subseteq Users
  BY <1>8 DEF Records
<1>10. log' \subseteq [kind : {"group:created", "group:member:add"}, group : groups, user : Users]
  BY <1>1, <1>4, <1>5 DEF Kinds, TypeOK
<1>11. Kinds'
  BY <1>1, <1>3, <1>8, <1>9, <1>10 DEF Kinds, TypeOK
<1>12. OneOwner' /\ Kept
  BY <1>1, <1>3, <1>6 DEF OneOwner, Kept
<1>13. OnlyMembersHear'
  <2>1. \A e \in log' : IsMember(e.group, e.user)
    BY <1>1, <1>4, <1>5 DEF OnlyMembersHear
  <2> QED BY <1>1, <1>3, <1>6, <2>1 DEF OnlyMembersHear
<1>14. Stage(c)'
  BY <1>7 DEF Stage, Finished, Changing
<1>15. ~Entering(c) /\ call'[c].pc # "owner" /\ call[c].pc \notin Changing
  BY <1>1, <1>7 DEF Entering, Changing
<1> QED BY <1>3, <1>6, <1>7, <1>11, <1>12, <1>13, <1>14, <1>15, TableStep

\* A call that fails may have added whom it was to add.
LEMMA CallFailsStep == ASSUME IInv, NEW c \in Calls, CallFails(c) PROVE IInv'
<1>1. /\ Kinds /\ OneOwner /\ OnlyMembersHear /\ UNCHANGED <<groups, hubList, log>>
      /\ call[c].pc \in {"owner", "role", "target", "insert"}
  BY DEF IInv, CallFails
<1>2. PICK g, u : g = call[c].group /\ u = call[c].target
  OBVIOUS
<1> DEFINE over == [call[c] EXCEPT !.pc = "error"]
<1>3. over \in Records /\ over.pc = "error"
  BY <1>1 DEF Kinds, Records, Finished
<1> HIDE DEF over
<1>4. /\ call'[c] = over /\ DOMAIN call' = Calls /\ call' = [d \in Calls |-> call'[d]]
      /\ \A d \in Calls \ {c} : call'[d] = [call[d] EXCEPT !.overlap = @ \/ d \in Others(c, g)]
  BY <1>2 DEF CallFails, over
<1>5. ASSUME NEW d \in Calls \ {c}
      PROVE  Spared(d) /\ call'[d] \in Records /\ (d \in Others(c, g) => call'[d].overlap)
  <2>1. call[d] \in Records
    BY <1>1 DEF Kinds
  <2>2. CASE d \in Others(c, g)
    <3>1. call'[d] = [call[d] EXCEPT !.overlap = TRUE]
      BY <1>4, <2>2
    <3> QED BY <2>1, <3>1 DEF Records, Spared
  <2>3. CASE d \notin Others(c, g)
    <3>1. call'[d] = [call[d] EXCEPT !.overlap = @]
      BY <1>4, <2>1, <2>3 DEF Records
    <3>2. call'[d] = call[d]
      BY <2>1, <3>1 DEF Records
    <3> QED BY <2>1, <2>3, <3>2 DEF Spared
  <2> QED BY <2>2, <2>3
<1>6. call' \in [Calls -> Records]
  BY <1>3, <1>4, <1>5
<1>7. \A d \in Calls : call'[d].left \subseteq Users /\ call'[d].list \subseteq Users
  BY <1>6 DEF Records
<1>8. Stage(c)' /\ call'[c].pc = "error" /\ call'[c].pc # "owner" /\ ~Entering(c) /\ call[c].pc \notin Changing
  BY <1>1, <1>3, <1>4 DEF Stage, Finished, Changing, Entering
<1>9. CASE UNCHANGED <<rows, blurred>>
  <2>1. Kinds'
    BY <1>1, <1>6, <1>7, <1>9 DEF Kinds, TypeOK
  <2> QED BY <1>1, <1>5, <1>8, <1>9, <2>1, CallStep
<1>10. ASSUME NEW role, \/ call[c].pc = "owner" /\ role = "owner"
                        \/ call[c].pc = "insert" /\ role = "member",
              Upsert(g, u, role), blurred' = blurred \cup {g}
       PROVE  IInv'
  <2>1. /\ g \in groups
        /\ rows' \subseteq [group : groups, user : Users, role : {"owner", "member"}]
        /\ OneOwner' /\ Kept
        /\ \A h : MembersOf(h)' = IF h = g THEN MembersOf(g) \cup {u} ELSE MembersOf(h)
        /\ \A d \in Calls \ {c} : call[d].group = g => call[d].pc # "owner"
    BY <1>2, <1>10, Insertion
  <2>2. Kinds'
    BY <1>1, <1>6, <1>7, <1>10, <2>1 DEF Kinds, TypeOK
  <2>3. OnlyMembersHear'
    BY <1>1, <2>1, HearStep
  <2>4. \A h : MembersOf(h)' # MembersOf(h) =>
           /\ \A d \in Calls \ {c} : call[d].group = h =>
                  call[d].pc # "owner" /\ (call[d].pc \in Changing => call'[d].overlap)
           /\ h \in blurred'
    BY <1>5, <1>10, <2>1 DEF Others
  <2> QED BY <1>1, <1>5, <1>8, <1>10, <2>1, <2>2, <2>3, <2>4, TableStep
<1>11. CASE /\ At(c, "owner") \/ At(c, "insert")
            /\ Upsert(g, u, IF At(c, "owner") THEN "owner" ELSE "member")
            /\ blurred' = blurred \cup {g}
  <2>1. CASE At(c, "owner")
    BY <1>10, <1>11, <2>1 DEF At
  <2>2. CASE ~At(c, "owner")
    BY <1>10, <1>11, <2>2 DEF At
  <2> QED BY <2>1, <2>2
<1> QED BY <1>2, <1>9, <1>11 DEF CallFails

\* After a restart no call is under way, and nothing is promised of a group.
LEMMA RestartStep == IInv /\ Restart => IInv'
<1> SUFFICES ASSUME IInv, Restart PROVE IInv'
  OBVIOUS
<1> DEFINE dead == [Idle EXCEPT !.pc = "dead"]
<1>1. Kinds /\ OneOwner /\ OnlyMembersHear /\ UNCHANGED <<groups, rows, log>>
  BY DEF IInv, Restart
<1>2. dead \in Records /\ dead.pc = "dead"
  BY IdleKind DEF Records, Finished
<1> HIDE DEF dead
<1>3. call' = [c \in Calls |-> IF Free(c) THEN call[c] ELSE dead] /\ blurred' = groups
      /\ hubList' = [g \in Groups |-> {}]
  BY DEF Restart, dead
<1>4. call' \in [Calls -> Records] /\ \A c \in Calls : call'[c].pc \in Finished
  BY <1>1, <1>2, <1>3 DEF Kinds, Free, Finished
<1>5. \A c \in Calls : call'[c].left \subseteq Users /\ call'[c].list \subseteq Users
  BY <1>4 DEF Records
<1>6. Kinds'
  BY <1>1, <1>3, <1>4, <1>5 DEF Kinds, TypeOK
<1>7. OneOwner' /\ OnlyMembersHear'
  BY <1>1, <1>3 DEF OneOwner, OnlyMembersHear, MembersOf, IsMember
<1>8. \A c \in Calls : Stage(c)'
  BY <1>4 DEF Stage, Finished, Changing
<1>9. \A g \in Groups : Known(g)'
  BY <1>1, <1>3 DEF Known
<1> QED BY <1>6, <1>7, <1>8, <1>9 DEF IInv

-----------------------------------------------------------------------------
\* There is no group before the first is created.
LEMMA InitIInv == Init => IInv
<1> SUFFICES ASSUME Init PROVE IInv
  OBVIOUS
<1>1. \A c \in Calls : call[c] = Idle /\ call[c].pc = "idle"
  BY DEF Init, Idle
<1>2. call \in [Calls -> Records]
  BY IdleKind DEF Init
<1>3. \A c \in Calls : call[c].left \subseteq Users /\ call[c].list \subseteq Users
  BY <1>2 DEF Records
<1>4. Kinds
  BY <1>2, <1>3 DEF Init, Kinds, TypeOK
<1>5. OneOwner /\ OnlyMembersHear
  BY DEF Init, OneOwner, OnlyMembersHear
<1>6. \A c \in Calls : Stage(c)
  BY <1>1 DEF Stage, Finished, Changing
<1>7. \A g \in Groups : Known(g)
  BY DEF Init, Known
<1> QED BY <1>4, <1>5, <1>6, <1>7 DEF IInv

\* Every step keeps the invariant.
LEMMA StepIInv == IInv /\ [Next]_vars => IInv'
<1> SUFFICES ASSUME IInv, [Next]_vars PROVE IInv'
  OBVIOUS
<1>1. ASSUME NEW c \in Calls, NEW u \in Users, NEW g \in Groups, NEW members \in SUBSET Users,
             CreateGroup(c, u, g, members)
      PROVE  IInv'
  BY <1>1, CreateGroupStep
<1>2. ASSUME NEW c \in Calls, NEW u \in Users, NEW target \in Users, NEW g \in Groups,
             AddMember(c, u, g, target) \/ RemoveMember(c, u, g, target)
      PROVE  IInv'
  <2>1. ASSUME NEW op \in {"add", "remove"}, Free(c),
               call' = [call EXCEPT ![c] = [Idle EXCEPT !.op = op, !.pc = "role", !.actor = u,
                                                        !.group = g, !.target = target]],
               UNCHANGED <<groups, rows, hubList, log, blurred>>
        PROVE  IInv'
    <3> DEFINE new == [Idle EXCEPT !.op = op, !.pc = "role", !.actor = u, !.group = g, !.target = target]
    <3>1. /\ new \in Records /\ new.pc = "role" /\ new.list = {}
          /\ new.actor = u /\ new.group = g /\ new.target = target
      BY IdleKind DEF Records
    <3>2. call' = [call EXCEPT ![c] = new]
      BY <2>1
    <3> HIDE DEF new
    <3> QED BY <2>1, <3>1, <3>2, BeginStep
  <2> QED BY <1>2, <2>1 DEF AddMember, RemoveMember
<1>3. ASSUME NEW c \in Calls, NEW u \in Users, NEW g \in Groups, FetchHistory(c, u, g) PROVE IInv'
  <2>1. PICK l \in {"ok", "error"} : l = IF EnsureMember(u, g) THEN "ok" ELSE "error"
    OBVIOUS
  <2> DEFINE new == [Idle EXCEPT !.op = "history", !.actor = u, !.group = g, !.pc = l]
  <2>2. new \in Records /\ new.pc = l /\ new.list = {}
    BY IdleKind DEF Records, Finished
  <2>3. call' = [call EXCEPT ![c] = new]
    BY <1>3, <2>1 DEF FetchHistory
  <2> HIDE DEF new
  <2> QED BY <1>3, <2>2, <2>3, BeginStep DEF FetchHistory
<1>4. ASSUME NEW c \in Calls, NEW u \in Users, AddListed(c, u) PROVE IInv'
  BY <1>4, AddListedStep
<1>5. ASSUME NEW c \in Calls,
             AddOwner(c) \/ CheckRole(c) \/ CheckTarget(c) \/ InsertMember(c) \/ UpdateMember(c)
             \/ ReadMembers(c) \/ SetGroupMembers(c) \/ AppendEvent(c) \/ CallFails(c)
      PROVE  IInv'
  BY <1>5, AddOwnerStep, CheckRoleStep, CheckTargetStep, InsertMemberStep, UpdateMemberStep,
     ReadMembersStep, SetGroupMembersStep, AppendEventStep, CallFailsStep
<1>6. CASE Restart
  BY <1>6, RestartStep
<1>7. CASE UNCHANGED vars
  <2> USE <1>7 DEF vars
  <2>1. Kinds' /\ OneOwner' /\ OnlyMembersHear'
    BY DEF IInv, Kinds, TypeOK, OneOwner, OnlyMembersHear, MembersOf, IsMember
  <2>2. ASSUME NEW c \in Calls PROVE Stage(c)'
    <3>1. Stage(c)
      BY DEF IInv
    <3> QED BY <3>1 DEF Stage, MembersOf, HasRole, Others
  <2>3. ASSUME NEW g \in Groups PROVE Known(g)'
    <3>1. Known(g)
      BY DEF IInv
    <3> QED BY <3>1 DEF Known, MembersOf
  <2> QED BY <2>1, <2>2, <2>3 DEF IInv
<1> QED BY <1>1, <1>2, <1>3, <1>4, <1>5, <1>6, <1>7 DEF Next

\* The invariant is about calls as well; what it says of the rest is what is
\* asked for.
LEMMA IInvSuffices == IInv => TypeOK /\ OneOwner /\ OnlyMembersHear /\ HubKnowsMembers
<1> SUFFICES ASSUME IInv PROVE HubKnowsMembers
  BY DEF IInv, Kinds
<1>1. groups \subseteq Groups
  BY DEF IInv, Kinds, TypeOK
<1> QED BY <1>1 DEF IInv, Known, HubKnowsMembers

\* The invariant holds throughout.
LEMMA Invariance == Spec => []IInv
BY InitIInv, StepIInv, PTL DEF Spec

\* Whatever creations and additions overlap, fail or are cut off, a group has
\* one owner and no member twice (groups/service.go:60-149, 225-292).
THEOREM GroupsAreKept == Spec => [](TypeOK /\ OneOwner)
BY Invariance, IInvSuffices, PTL

\* Members alone hear of a group, in the hub and in the log
\* (groups/service.go:133-149).
THEOREM StrangersHearNothing == Spec => []OnlyMembersHear
BY Invariance, IInvSuffices, PTL

\* The hub knows every member once the calls on the group are over, unless one
\* of them was disturbed (groups/service.go:266-278).
THEOREM MembersHear == Spec => []HubKnowsMembers
BY Invariance, IInvSuffices, PTL

=============================================================================
