--------------------------------- MODULE Groups ---------------------------------
(****************************************************************************)
(* Groups and their members: app/groups/service.go over the group_members   *)
(* table (adapters/postgres/group_member_repo_pg.go), with the copy of each *)
(* member list that the hub keeps in memory (real_time/hub.go) and the      *)
(* membership check of adapters/http/groups.go.  A call is a goroutine,     *)
(* each statement and each use of the hub one step.                         *)
(*                                                                          *)
(* Abstractions: users exist and are active (nothing deactivates a user);   *)
(* names, avatars and dates are left out; nothing makes an admin or makes a *)
(* row inactive, so a row is a role and every member is active.             *)
(****************************************************************************)
EXTENDS Naturals, FiniteSets

CONSTANTS
    Users, Groups, Calls,
    Faults,     \* whether statements fail and the server restarts
    None

ASSUME GroupsAssumption ==
    /\ Faults \in BOOLEAN
    /\ None \notin Users \cup Groups

VARIABLES
    groups,     \* rows of the groups table
    rows,       \* rows of group_members: group, user, role
    hubList,    \* the hub's groupIdx
    log,        \* events in the sync log: kind, group, user
    call,       \* what each call is doing
    blurred     \* history: groups whose last update of the hub was disturbed

vars == <<groups, rows, hubList, log, call, blurred>>

Row(g, u, role) == [group |-> g, user |-> u, role |-> role]

\* A call: who makes it, on which group and user, the users still to be added,
\* the list it read, and whether another call was changing the group meanwhile.
Idle == [op |-> None, pc |-> "idle", actor |-> None, group |-> None, target |-> None,
         left |-> {}, list |-> {}, overlap |-> FALSE]

Init ==
    /\ groups = {}
    /\ rows = {}
    /\ hubList = [g \in Groups |-> {}]
    /\ log = {}
    /\ call = [c \in Calls |-> Idle]
    /\ blurred = {}

-----------------------------------------------------------------------------
(* The group_members table. *)

\* IsMember, whatever the ids it is given stand for.
IsMember(gid, uid) == \E r \in rows : r.group = gid /\ r.user = uid

HasRole(gid, uid, role) == Row(gid, uid, role) \in rows

MembersOf(g) == {r.user : r \in {s \in rows : s.group = g}}

\* AddMember inserts the row or replaces the role of the one there is.
Upsert(g, u, role) ==
    rows' = {r \in rows : ~(r.group = g /\ r.user = u)} \cup {Row(g, u, role)}

-----------------------------------------------------------------------------
(* Calls. *)

At(c, label) == call[c].pc = label
GoTo(c, label) == call' = [call EXCEPT ![c].pc = label]
Finished == {"idle", "ok", "error", "dead"}
Free(c) == call[c].pc \in Finished

\* Between the first change of the table and the update of the hub.
Changing == {"members", "list", "set"}
Others(c, g) == {b \in Calls \ {c} : call[b].group = g /\ call[b].pc \in Changing}

\* The call starts to change the group.
EntersTable(c, label) ==
    LET g == call[c].group IN
    call' = [b \in Calls |->
        CASE b = c -> [call[c] EXCEPT !.pc = label, !.overlap = Others(c, g) # {}]
          [] b \in Others(c, g) -> [call[b] EXCEPT !.overlap = TRUE]
          [] OTHER -> call[b]]

CreateGroup(c, u, g, members) ==
    /\ Free(c)
    /\ g \notin groups
    /\ groups' = groups \cup {g}
    /\ call' = [call EXCEPT ![c] = [Idle EXCEPT !.op = "create", !.pc = "owner", !.actor = u,
                                                !.group = g, !.target = u, !.left = members]]
    /\ UNCHANGED <<rows, hubList, log, blurred>>

AddOwner(c) ==
    /\ At(c, "owner")
    /\ Upsert(call[c].group, call[c].actor, "owner")
    /\ EntersTable(c, "members")
    /\ UNCHANGED <<groups, hubList, log, blurred>>

\* Faulty variants, here and below, show that the properties notice them: the
\* creator is added once more if the request lists it.
AddListedAll(c, u) ==
    /\ At(c, "members")
    /\ u \in call[c].left
    /\ Upsert(call[c].group, u, "member") \/ (Faults /\ UNCHANGED rows)
    /\ call' = [call EXCEPT ![c].left = @ \ {u}]
    /\ UNCHANGED <<groups, hubList, log, blurred>>

\* The optional members, the creator among them skipped; errors are ignored.
AddListed(c, u) ==
    /\ At(c, "members")
    /\ u \in call[c].left
    /\ IF u = call[c].actor
       THEN UNCHANGED rows
       ELSE \/ Upsert(call[c].group, u, "member")
            \/ Faults /\ UNCHANGED rows
    /\ call' = [call EXCEPT ![c].left = @ \ {u}]
    /\ UNCHANGED <<groups, hubList, log, blurred>>

AddMember(c, actor, g, target) ==
    /\ Free(c)
    /\ call' = [call EXCEPT ![c] = [Idle EXCEPT !.op = "add", !.pc = "role", !.actor = actor,
                                                !.group = g, !.target = target]]
    /\ UNCHANGED <<groups, rows, hubList, log, blurred>>

RemoveMember(c, actor, g, target) ==
    /\ Free(c)
    /\ call' = [call EXCEPT ![c] = [Idle EXCEPT !.op = "remove", !.pc = "role", !.actor = actor,
                                                !.group = g, !.target = target]]
    /\ UNCHANGED <<groups, rows, hubList, log, blurred>>

\* GetRole of the actor, who may not name itself.
CheckRole(c) ==
    /\ At(c, "role")
    /\ GoTo(c, IF HasRole(call[c].group, call[c].actor, "owner") /\ call[c].actor # call[c].target
               THEN "target" ELSE "error")
    /\ UNCHANGED <<groups, rows, hubList, log, blurred>>

\* IsMember of the target: it must be one to be removed, and none to be added.
CheckTarget(c) ==
    LET member == IsMember(call[c].group, call[c].target) IN
    /\ At(c, "target")
    /\ GoTo(c, CASE call[c].op = "add" /\ ~member -> "insert"
                 [] call[c].op = "remove" /\ member -> "update"
                 [] OTHER -> "error")
    /\ UNCHANGED <<groups, rows, hubList, log, blurred>>

\* An error of the insert is ignored, as it is for the optional members.
InsertMemberUnchecked(c) ==
    /\ At(c, "insert")
    /\ Upsert(call[c].group, call[c].target, "member") \/ (Faults /\ UNCHANGED rows)
    /\ EntersTable(c, "list")
    /\ UNCHANGED <<groups, hubList, log, blurred>>

\* The hub is not told.
InsertMemberUntold(c) ==
    /\ At(c, "insert")
    /\ Upsert(call[c].group, call[c].target, "member")
    /\ EntersTable(c, "append")
    /\ UNCHANGED <<groups, hubList, log, blurred>>

InsertMember(c) ==
    /\ At(c, "insert")
    /\ Upsert(call[c].group, call[c].target, "member")
    /\ EntersTable(c, "list")
    /\ UNCHANGED <<groups, hubList, log, blurred>>

\* The UPDATE of RemoveMember has two parameters and is given three values,
\* which the driver refuses.
UpdateMember(c) ==
    /\ At(c, "update")
    /\ GoTo(c, "error")
    /\ UNCHANGED <<groups, rows, hubList, log, blurred>>

\* The table is read back; if that fails, the list is empty.
ReadMembers(c) ==
    /\ At(c, "list") \/ (At(c, "members") /\ call[c].left = {})
    /\ \/ call' = [call EXCEPT ![c].list = MembersOf(call[c].group), ![c].pc = "set"]
       \/ Faults /\ call' = [call EXCEPT ![c].overlap = TRUE, ![c].pc = "set"]
    /\ UNCHANGED <<groups, rows, hubList, log, blurred>>

SetGroupMembers(c) ==
    LET g == call[c].group IN
    /\ At(c, "set")
    /\ hubList' = [hubList EXCEPT ![g] = call[c].list]
    /\ blurred' = IF call[c].overlap THEN blurred \cup {g} ELSE blurred \ {g}
    /\ GoTo(c, "append")
    /\ UNCHANGED <<groups, rows, log>>

\* An error of Append is logged only.
AppendEvent(c) ==
    /\ At(c, "append")
    /\ \/ log' = log \cup {[kind |-> IF call[c].op = "create" THEN "group:created" ELSE "group:member:add",
                            group |-> call[c].group, user |-> call[c].target]}
       \/ Faults /\ UNCHANGED log
    /\ GoTo(c, "ok")
    /\ UNCHANGED <<groups, rows, hubList, blurred>>

\* A statement that fails ends its call; an insert may have taken effect.
CallFails(c) ==
    /\ Faults
    /\ call[c].pc \in {"owner", "role", "target", "insert"}
    /\ \/ UNCHANGED <<rows, blurred>>
       \/ /\ At(c, "owner") \/ At(c, "insert")
          /\ Upsert(call[c].group, call[c].target, IF At(c, "owner") THEN "owner" ELSE "member")
          /\ blurred' = blurred \cup {call[c].group}
    /\ call' = [b \in Calls |-> IF b = c THEN [call[c] EXCEPT !.pc = "error"]
                                ELSE [call[b] EXCEPT !.overlap = @ \/ b \in Others(c, call[c].group)]]
    /\ UNCHANGED <<groups, hubList, log>>

\* EnsureMember looks for the row of a user in a group.
EnsureMember(gid, uid) == IsMember(gid, uid)

\* fetchGroupMessages gives it the user id first, and the group id second.
FetchHistory(c, u, g) ==
    /\ Free(c)
    /\ call' = [call EXCEPT ![c] = [Idle EXCEPT !.op = "history", !.actor = u, !.group = g,
                                                !.pc = IF EnsureMember(u, g) THEN "ok" ELSE "error"]]
    /\ UNCHANGED <<groups, rows, hubList, log, blurred>>

\* The hub starts with no lists, and nothing loads them.
Restart ==
    /\ Faults
    /\ hubList' = [g \in Groups |-> {}]
    /\ blurred' = groups
    /\ call' = [c \in Calls |-> IF Free(c) THEN call[c] ELSE [Idle EXCEPT !.pc = "dead"]]
    /\ UNCHANGED <<groups, rows, log>>

Next ==
    \/ \E c \in Calls, u \in Users, g \in Groups, members \in SUBSET Users :
         CreateGroup(c, u, g, members)
    \/ \E c \in Calls, u, target \in Users, g \in Groups :
         AddMember(c, u, g, target) \/ RemoveMember(c, u, g, target)
    \/ \E c \in Calls, u \in Users : AddListed(c, u)
    \/ \E c \in Calls : AddOwner(c) \/ CheckRole(c) \/ CheckTarget(c) \/ InsertMember(c)
                        \/ UpdateMember(c) \/ ReadMembers(c) \/ SetGroupMembers(c)
                        \/ AppendEvent(c) \/ CallFails(c)
    \/ \E c \in Calls, u \in Users, g \in Groups : FetchHistory(c, u, g)
    \/ Restart

Spec == Init /\ [][Next]_vars

-----------------------------------------------------------------------------
(* Properties. *)

\* Every variable holds a value of its kind.
TypeOK ==
    /\ groups \subseteq Groups
    /\ rows \subseteq [group : groups, user : Users, role : {"owner", "member"}]
    /\ hubList \in [Groups -> SUBSET Users]
    /\ log \subseteq [kind : {"group:created", "group:member:add"}, group : groups, user : Users]
    /\ \A c \in Calls : call[c].left \subseteq Users /\ call[c].list \subseteq Users
    /\ blurred \subseteq groups

\* A user has one row in a group, and a group never has two owners nor loses
\* the one it has, although adding a member replaces the role of a row that
\* is there and is decided on a check made earlier (group_member_repo_pg.go:
\* 21-26, groups/service.go:101-124, 250-267).
OneOwner ==
    /\ \A r, s \in rows : r.group = s.group /\ r.user = s.user => r = s
    /\ \A r, s \in rows : r.group = s.group /\ r.role = "owner" /\ s.role = "owner" => r = s
    /\ \A r \in rows : \E s \in rows : s.group = r.group /\ s.role = "owner"

\* The hub pushes to members only, and an event tells of a membership that is
\* in the table, whichever calls overlap or die (groups/service.go:133-149).
OnlyMembersHear ==
    /\ \A g \in Groups : hubList[g] \subseteq MembersOf(g)
    /\ \A e \in log : IsMember(e.group, e.user)

\* The hub knows every member once the calls on the group are over, unless two
\* of them overlapped, reading the table failed or the server was restarted
\* since the last one (groups/service.go:266-278: the list is read in one
\* statement and handed to the hub later).
HubKnowsMembers ==
    \A g \in groups \ blurred :
        (\A c \in Calls : call[c].group = g => call[c].pc \notin Changing \cup {"owner"})
            => hubList[g] = MembersOf(g)

=============================================================================
