---------------------------- MODULE SessionsProofs ----------------------------
(****************************************************************************)
(* What Sessions promises of every number of users, devices and calls.  The *)
(* invariant tells, call by call, what the rows and tokens a call has read  *)
(* still guarantee: rows are never deleted, never change hands and never    *)
(* become active again, and a token about to be stored is not spent.        *)
(****************************************************************************)
EXTENDS Sessions, TLAPS

Ops == {"verify", "refresh", "request", "deactivate", "delete"}
Labels == Finished \cup {"user", "newuser", "device", "newdevice", "check", "persist",
                         "active", "revoked", "target", "out", "revoke"}

CallRecords ==
    [op : Ops \cup {None}, pc : Labels, user : Users \cup {None}, dev : Devices \cup {None},
     token : Tokens \cup {None}, target : Devices \cup {None}, new : Tokens \cup {None},
     late : SUBSET {"out", "spent"}]

Kinds ==
    /\ users \subseteq Users
    /\ device \in [Devices -> Rows \cup {None}]
    /\ revoked \subseteq Devices
    /\ now \in Times
    /\ call \in [Calls -> CallRecords]
    /\ held \subseteq Tokens
    /\ spent \subseteq Tokens

\* A token names the owner of its device.
Owned(t) == Exists(t.dev) /\ device[t.dev].user = t.user

\* A device that was shut out.
IsOut(d) == Exists(d) /\ ~device[d].active

\* What a call registering a device knows.
Registering(r) ==
    /\ r.pc \in {"user", "newuser", "device", "newdevice"} => r.user \in Users /\ r.late = {}
    /\ r.pc = "newdevice" => r.dev \in Devices

\* What a refresh knows: the token it presents was given to a client.
Refreshing(r) ==
    r.pc = "check" => /\ r.token \in held
                      /\ r.dev = r.token.dev
                      /\ r.user = r.token.user

\* What a call that answers with tokens knows of the one it will store.
Issuing(r) ==
    /\ r.pc = "persist" => /\ r.new \in Tokens
                           /\ r.new.dev = r.dev
                           /\ Owned(r.new)
                           /\ r.new \notin spent
    /\ r.pc # "persist" => r.new = None

\* What a request that passes the middleware knows.
Requesting(r) ==
    /\ r.pc \in {"active", "revoked"} => r.dev \in Devices /\ (r.op = "request" <=> r.target = None)
    /\ r.pc \in {"target", "out", "revoke"} => r.target \in Devices
    /\ r.pc = "out" => Exists(r.target)

\* A call that came too late is still before the check that refuses it, and
\* what it came too late for has not been undone.
Refused(r) ==
    /\ "out" \in r.late => r.pc \in {"check", "active"} /\ IsOut(r.dev)
    /\ "spent" \in r.late => r.pc = "check" /\ r.token \in spent

CallOK(r) == Registering(r) /\ Refreshing(r) /\ Issuing(r) /\ Requesting(r) /\ Refused(r)

\* The token in a row is one of its device, and not spent.
RowOK(d) ==
    Exists(d) => /\ device[d].hash \in Tokens => device[d].hash.dev = d
                 /\ device[d].hash \notin spent

IInv ==
    /\ Kinds
    /\ \A c \in Calls : CallOK(call[c])
    /\ \A d \in Devices : RowOK(d)
    /\ \A t \in held : Owned(t)
    /\ \A t \in spent : t.at < now

-----------------------------------------------------------------------------
(* Calls and rows. *)

\* What a call comes too late for, when it begins.
LEMMA TooLateFacts ==
    ASSUME NEW op, NEW d, NEW t
    PROVE  /\ TooLate(op, d, t) \subseteq {"out", "spent"}
           /\ "out" \in TooLate(op, d, t) <=> op # "verify" /\ IsOut(d)
           /\ "spent" \in TooLate(op, d, t) <=> t \in spent
<1>1. "out" \in TooLate(op, d, t) <=> op # "verify" /\ Exists(d) /\ ~Active(d)
  BY DEF TooLate
<1>2. "spent" \in TooLate(op, d, t) <=> t \in spent
  BY DEF TooLate
<1> QED BY <1>1, <1>2 DEF TooLate, IsOut, Active

\* The record of a call that is not under way.
LEMMA IdleKind == Idle \in CallRecords /\ Idle.pc = "idle" /\ Idle.new = None /\ Idle.late = {}
BY DEF Idle, CallRecords, Labels, Finished

\* No step deletes a row, gives it to another user or activates it.
RowsKept ==
    \A d \in Devices : Exists(d) =>
        /\ device'[d] # None
        /\ device'[d].user = device[d].user
        /\ ~device[d].active => ~device'[d].active

\* What a call knows stays true as long as the token it will store is not spent.
LEMMA CallKept ==
    ASSUME NEW r \in CallRecords, CallOK(r), Kinds, RowsKept, held \subseteq held',
           spent \subseteq spent', r.pc = "persist" => r.new \notin spent'
    PROVE  CallOK(r)'
<1>1. r.token \in Tokens => r.token.dev \in Devices
  BY DEF Tokens
<1>2. r.new \in Tokens => r.new.dev \in Devices
  BY DEF Tokens
<1>3. Refreshing(r)' /\ Registering(r)'
  BY DEF CallOK, Refreshing, Registering
<1>4. Issuing(r)'
  BY <1>2 DEF CallOK, Issuing, Owned, Exists, RowsKept
<1>5. Requesting(r)'
  BY DEF CallOK, Requesting, RowsKept, Exists
<1>6. Refused(r)'
  <2>1. "out" \in r.late => r.dev \in Devices
    <3>1. held \subseteq Tokens
      BY DEF Kinds
    <3> QED BY <1>1, <3>1 DEF CallOK, Refused, Refreshing, Requesting
  <2> QED BY <2>1 DEF CallOK, Refused, IsOut, Exists, RowsKept
<1> QED BY <1>3, <1>4, <1>5, <1>6 DEF CallOK

\* What a step of one call leaves alone.
OthersStay ==
    /\ users' \subseteq Users
    /\ revoked' \subseteq Devices
    /\ UNCHANGED <<device, now, held, spent>>

\* A step of one call that leaves the rest alone.
LEMMA CallMoves ==
    ASSUME IInv, NEW c \in Calls,
           \E r \in CallRecords : CallOK(r) /\ call' = [call EXCEPT ![c] = r],
           OthersStay
    PROVE  IInv'
<1>1. PICK r \in CallRecords : CallOK(r) /\ call' = [call EXCEPT ![c] = r]
  OBVIOUS
<1>2. Kinds'
  BY <1>1 DEF IInv, Kinds, OthersStay
<1>3. RowsKept
  BY DEF RowsKept, Exists, OthersStay
<1>4. ASSUME NEW s \in CallRecords, CallOK(s) PROVE CallOK(s)'
  BY <1>3, <1>4, CallKept DEF IInv, CallOK, Issuing, OthersStay
<1>5. ASSUME NEW b \in Calls PROVE CallOK(call[b])'
  <2>1. PICK s \in CallRecords : s = call'[b] /\ CallOK(s)
    BY <1>1, <1>5 DEF IInv, Kinds
  <2> QED BY <2>1, <1>4 DEF CallOK, Registering, Refreshing, Issuing, Requesting, Refused
<1>6. (\A d \in Devices : RowOK(d))' /\ (\A t \in held : Owned(t))' /\ (\A t \in spent : t.at < now)'
  BY DEF IInv, RowOK, Owned, Exists, OthersStay
<1> QED BY <1>2, <1>5, <1>6 DEF IInv

\* A call that fails.
LEMMA FailsKeeps ==
    ASSUME IInv, NEW c \in Calls, Fails(c), OthersStay
    PROVE  IInv'
<1> DEFINE r == [Idle EXCEPT !.pc = "error"]
<1>1. r \in CallRecords
  BY DEF Idle, CallRecords, Labels, Finished
<1>2. CallOK(r)
  BY DEF Idle, CallOK, Registering, Refreshing, Issuing, Requesting, Refused
<1>3. call' = [call EXCEPT ![c] = r]
  BY DEF Fails
<1> HIDE DEF r
<1> QED BY <1>1, <1>2, <1>3, CallMoves

\* A call that succeeds came too late for nothing.
LEMMA SucceedsKeeps ==
    ASSUME IInv, NEW c \in Calls, Succeeds(c), call[c].late = {},
           OthersStay
    PROVE  IInv'
<1> DEFINE r == [Idle EXCEPT !.pc = "ok", !.late = call[c].late]
<1>1. r \in CallRecords
  BY DEF Idle, CallRecords, Labels, Finished
<1>2. CallOK(r)
  BY DEF Idle, CallOK, Registering, Refreshing, Issuing, Requesting, Refused
<1>3. call' = [call EXCEPT ![c] = r]
  BY DEF Succeeds
<1> HIDE DEF r
<1> QED BY <1>1, <1>2, <1>3, CallMoves

\* A call that goes on, with all that it knows and what the next statement needs.
LEMMA GoesOnKeeps ==
    ASSUME IInv, NEW c \in Calls, NEW label \in Labels, GoTo(c, label),
           CallOK([call[c] EXCEPT !.pc = label]),
           OthersStay
    PROVE  IInv'
<1> DEFINE r == [call[c] EXCEPT !.pc = label]
<1>1. r \in CallRecords
  BY DEF IInv, Kinds, CallRecords
<1>2. call' = [call EXCEPT ![c] = r]
  BY DEF GoTo
<1> HIDE DEF r
<1>3. CallOK(r)
  BY DEF r
<1> QED BY <1>1, <1>2, <1>3, CallMoves

\* A call that begins.
LEMMA BeginKeeps ==
    ASSUME IInv, NEW c \in Calls, NEW op \in Ops, NEW label \in Labels, NEW u \in Users,
           NEW d \in Devices \cup {None}, NEW t \in Tokens \cup {None},
           NEW target \in Devices \cup {None}, Begin(c, op, label, u, d, t, target),
           label \in {"user", "check", "active"},
           label = "user" => op = "verify" /\ t = None,
           label = "check" => t \in held /\ d = t.dev /\ u = t.user,
           label = "active" => t = None /\ d \in Devices /\ (op = "request" <=> target = None),
           OthersStay
    PROVE  IInv'
<1> DEFINE late == TooLate(op, d, t)
           r == [Idle EXCEPT !.op = op, !.pc = label, !.user = u, !.dev = d, !.token = t,
                             !.target = target, !.late = late]
<1>1. /\ late \subseteq {"out", "spent"}
      /\ "out" \in late <=> op # "verify" /\ IsOut(d)
      /\ "spent" \in late <=> t \in spent
  BY TooLateFacts
<1>2. None \notin spent
  BY SessionsAssumption DEF IInv, Kinds
<1>3. call' = [call EXCEPT ![c] = r]
  BY DEF Begin
<1> HIDE DEF late
<1>4. r \in CallRecords
  BY <1>1 DEF Idle, CallRecords
<1>5. CallOK(r)
  <2>1. label = "user" => late = {}
    BY <1>1, <1>2
  <2> QED BY <1>1, <1>2, <2>1 DEF Idle, CallOK, Registering, Refreshing, Issuing, Requesting, Refused
<1> HIDE DEF r
<1> QED BY <1>3, <1>4, <1>5, CallMoves

\* What is issued is new and names the owner of the device.
LEMMA IssuedOK ==
    ASSUME IInv, NEW d \in Devices, NEW u \in Users
    PROVE  /\ Generate(d, u) \in Tokens /\ Generate(d, u).dev = d /\ Generate(d, u).user = u
           /\ Generate(d, u) \notin spent
<1>1. Generate(d, u) \in Tokens /\ Generate(d, u).dev = d /\ Generate(d, u).user = u
      /\ Generate(d, u).at = now
  BY DEF Generate, Tokens, IInv, Kinds
<1>2. now < now => FALSE
  BY SessionsAssumption DEF IInv, Kinds, Times
<1> QED BY <1>1, <1>2 DEF IInv

\* A call that goes on to answer with a pair.
LEMMA IssueKeeps ==
    ASSUME IInv, NEW c \in Calls, NEW d \in Devices, NEW u \in Users, Issue(c, d, u),
           Exists(d), device[d].user = u, call[c].late = {},
           OthersStay
    PROVE  IInv'
<1> DEFINE t == Generate(d, u)
           r == [Idle EXCEPT !.pc = "persist", !.dev = d, !.late = call[c].late, !.new = t]
<1>1. t \in Tokens /\ t.dev = d /\ t.user = u /\ t \notin spent
  BY IssuedOK
<1>2. call' = [call EXCEPT ![c] = r]
  BY DEF Issue
<1> HIDE DEF t
<1>3. r \in CallRecords
  BY <1>1 DEF Idle, CallRecords, Labels
<1>4. CallOK(r)
  BY <1>1 DEF Idle, CallOK, Registering, Refreshing, Issuing, Requesting, Refused, Owned
<1> HIDE DEF r
<1> QED BY <1>2, <1>3, <1>4, CallMoves

\* A step of one call that changes rows or tokens.
LEMMA RowMoves ==
    ASSUME IInv, NEW c \in Calls, RowsKept, held \subseteq held', spent \subseteq spent',
           \E r \in CallRecords : CallOK(r)' /\ call' = [call EXCEPT ![c] = r],
           \A b \in Calls \ {c} : At(b, "persist") => call[b].new \notin spent'
    PROVE  call' \in [Calls -> CallRecords] /\ \A b \in Calls : CallOK(call[b])'
<1>1. PICK r \in CallRecords : CallOK(r)' /\ call' = [call EXCEPT ![c] = r]
  OBVIOUS
<1>2. call' \in [Calls -> CallRecords]
  BY <1>1 DEF IInv, Kinds
<1>3. ASSUME NEW b \in Calls PROVE CallOK(call[b])'
  <2>1. CASE b = c
    BY <1>1, <2>1 DEF IInv, Kinds, CallOK, Registering, Refreshing, Issuing, Requesting, Refused
  <2>2. CASE b # c
    <3>1. PICK s \in CallRecords : s = call[b]
      BY DEF IInv, Kinds
    <3>2. call'[b] = s
      BY <1>1, <2>2, <3>1 DEF IInv, Kinds
    <3>3. CallOK(s)
      BY <3>1 DEF IInv
    <3>4. s.pc = "persist" => s.new \notin spent'
      BY <2>2, <3>1 DEF At
    <3>5. CallOK(s)'
      BY <3>3, <3>4, CallKept DEF IInv
    <3> QED BY <3>2, <3>5 DEF CallOK, Registering, Refreshing, Issuing, Requesting, Refused
  <2> QED BY <2>1, <2>2
<1> QED BY <1>2, <1>3

-----------------------------------------------------------------------------
(* The invariant, action by action. *)

\* In the first state nothing is known and nothing to be known.
LEMMA InitIInv == Init => IInv
<1> SUFFICES ASSUME Init PROVE IInv
  OBVIOUS
<1>1. Kinds
  BY IdleKind, SessionsAssumption DEF Init, Kinds, Times
<1>2. ASSUME NEW c \in Calls PROVE CallOK(call[c])
  BY IdleKind DEF Init, CallOK, Registering, Refreshing, Issuing, Requesting, Refused
<1>3. ASSUME NEW d \in Devices PROVE RowOK(d)
  BY DEF Init, RowOK, Exists
<1> QED BY <1>1, <1>2, <1>3 DEF IInv, Init

\* A registration begins with its user and, it may be, a device.
LEMMA VerifyKeeps ==
    ASSUME IInv, NEW c \in Calls, NEW u \in Users, NEW d \in Devices \cup {None}, Verify(c, u, d)
    PROVE  IInv'
<1>1. OthersStay
  BY DEF Verify, OthersStay, IInv, Kinds
<1>2. Begin(c, "verify", "user", u, d, None, None)
  BY DEF Verify
<1>3. "verify" \in Ops /\ "user" \in Labels
  BY DEF Ops, Labels
<1> QED BY <1>1, <1>2, <1>3, BeginKeeps

\* The user is looked up by its phone and, if it has no row, given one.
LEMMA UserKeeps ==
    ASSUME IInv, NEW c \in Calls, GetUser(c) \/ CreateUser(c)
    PROVE  IInv'
<1>1. OthersStay
  <2>1. CallOK(call[c]) /\ Kinds
    BY DEF IInv
  <2> QED BY <2>1 DEF GetUser, CreateUser, OthersStay, CallOK, Registering, At, Kinds
<1>2. call[c].pc \in {"user", "newuser"}
  BY DEF GetUser, CreateUser, At
<1>3. CASE Fails(c)
  BY <1>1, <1>3, FailsKeeps
<1>4. CASE \E label \in {"device", "newuser"} : GoTo(c, label)
  <2>1. PICK label \in {"device", "newuser"} : GoTo(c, label)
    BY <1>4
  <2>2. CallOK(call[c]) /\ call[c] \in CallRecords
    BY DEF IInv, Kinds
  <2>3. CallOK([call[c] EXCEPT !.pc = label])
    BY <1>2, <2>2 DEF CallOK, Registering, Refreshing, Issuing, Requesting, Refused, CallRecords
  <2>4. label \in Labels
    BY DEF Labels
  <2> QED BY <1>1, <2>1, <2>3, <2>4, GoesOnKeeps
<1> QED BY <1>3, <1>4 DEF GetUser, CreateUser

\* A row is used only by its owner.
LEMMA GetDeviceKeeps ==
    ASSUME IInv, NEW c \in Calls, GetDevice(c)
    PROVE  IInv'
<1>1. OthersStay
  BY DEF GetDevice, OthersStay, IInv, Kinds
<1>2. /\ call[c].pc = "device" /\ call[c].dev \in Devices /\ call[c].user \in Users
      /\ call[c].late = {} /\ CallOK(call[c]) /\ call[c] \in CallRecords
  BY DEF GetDevice, At, IInv, Kinds, CallRecords, CallOK, Registering
<1>3. CASE Fails(c)
  BY <1>1, <1>3, FailsKeeps
<1>4. CASE GoTo(c, "newdevice")
  <2>1. CallOK([call[c] EXCEPT !.pc = "newdevice"])
    BY <1>2 DEF CallOK, Registering, Refreshing, Issuing, Requesting, Refused, CallRecords
  <2>2. "newdevice" \in Labels
    BY DEF Labels
  <2> QED BY <1>1, <1>4, <2>1, <2>2, GoesOnKeeps
<1>5. CASE Exists(call[c].dev) /\ device[call[c].dev].user = call[c].user
           /\ Issue(c, call[c].dev, call[c].user)
  <2>1. PICK d \in Devices, u \in Users : d = call[c].dev /\ u = call[c].user
    BY <1>2
  <2> QED BY <1>1, <1>2, <1>5, <2>1, IssueKeeps
<1> QED BY <1>3, <1>4, <1>5 DEF GetDevice

\* A row is made where there is none, for the user of the call.
LEMMA CreateDeviceKeeps ==
    ASSUME IInv, NEW c \in Calls, NEW d \in Devices, CreateDevice(c, d)
    PROVE  IInv'
<1>1. /\ call[c].pc \in {"device", "newdevice"} /\ call[c].user \in Users
      /\ call[c].late = {} /\ call[c] \in CallRecords
  BY DEF CreateDevice, At, IInv, Kinds, CallRecords, CallOK, Registering
<1>2. CASE Exists(d)
  <2>1. OthersStay /\ Fails(c)
    BY <1>2 DEF CreateDevice, OthersStay, IInv, Kinds
  <2> QED BY <2>1, FailsKeeps
<1>3. CASE ~Exists(d)
  <2>0. PICK u \in Users : u = call[c].user
    BY <1>1
  <2>1. PICK t \in Tokens : t = Generate(d, u)
    BY IssuedOK
  <2> DEFINE row == [user |-> u, active |-> TRUE, hash |-> Empty]
             r == [Idle EXCEPT !.pc = "persist", !.dev = d, !.late = {}, !.new = t]
  <2>2. /\ device' = [device EXCEPT ![d] = row] /\ call' = [call EXCEPT ![c] = r]
        /\ UNCHANGED <<users, revoked, now, held, spent>>
    BY <1>1, <1>3, <2>0, <2>1 DEF CreateDevice, Issue
  <2>3. row \in Rows /\ row # None /\ Empty \notin Tokens /\ Empty \notin spent
    <3>1. row \in Rows
      BY DEF Rows
    <3>2. None \notin Rows /\ Empty \notin Tokens
      BY SessionsAssumption
    <3> HIDE DEF row
    <3> QED BY <3>1, <3>2 DEF IInv, Kinds
  <2>4. t.dev = d /\ t.user = u /\ t \notin spent
    BY <2>1, IssuedOK
  <2>5. device'[d] = row /\ \A e \in Devices \ {d} : device'[e] = device[e]
    BY <2>2 DEF IInv, Kinds
  <2>6. RowsKept
    BY <1>3, <2>5 DEF RowsKept, Exists
  <2>7. r \in CallRecords /\ r.pc = "persist" /\ r.new = t /\ r.dev = d /\ r.late = {}
    BY DEF Idle, CallRecords, Labels
  <2> HIDE DEF r
  <2>8. CallOK(r)'
    BY <2>2, <2>3, <2>4, <2>5, <2>7
       DEF CallOK, Registering, Refreshing, Issuing, Requesting, Refused, Owned, Exists
  <2>9. \A b \in Calls \ {c} : At(b, "persist") => call[b].new \notin spent'
    BY <2>2 DEF IInv, CallOK, Issuing, At
  <2>10. call' \in [Calls -> CallRecords] /\ \A b \in Calls : CallOK(call[b])'
    BY <2>2, <2>6, <2>7, <2>8, <2>9, RowMoves
  <2>11. Kinds'
    BY <2>2, <2>3, <2>10 DEF Kinds, IInv
  <2>12. ASSUME NEW e \in Devices PROVE RowOK(e)'
    BY <2>2, <2>3, <2>5 DEF RowOK, Exists, IInv
  <2>13. ASSUME NEW h \in held PROVE Owned(h)'
    <3>1. h.dev \in Devices
      BY DEF IInv, Kinds, Tokens
    <3> QED BY <1>3, <2>5, <3>1 DEF IInv, Owned, Exists
  <2> QED BY <2>2, <2>10, <2>11, <2>12, <2>13 DEF IInv
<1> QED BY <1>2, <1>3

\* A refresh begins with a token a client was given.
LEMMA RefreshKeeps ==
    ASSUME IInv, NEW c \in Calls, NEW t \in held, Refresh(c, t)
    PROVE  IInv'
<1>1. OthersStay
  BY DEF Refresh, OthersStay, IInv, Kinds
<1>2. Begin(c, "refresh", "check", t.user, t.dev, t, None)
  BY DEF Refresh
<1>3. "refresh" \in Ops /\ "check" \in Labels /\ t \in Tokens /\ t.user \in Users /\ t.dev \in Devices
  BY DEF Ops, Labels, Tokens, IInv, Kinds
<1> QED BY <1>1, <1>2, <1>3, BeginKeeps

\* A refresh that passes the check has the token of a device that is not out,
\* which is not spent.
LEMMA CheckTokenKeeps ==
    ASSUME IInv, NEW c \in Calls, CheckToken(c)
    PROVE  IInv'
<1>1. OthersStay
  BY DEF CheckToken, OthersStay, IInv, Kinds
<1>2. CASE Fails(c)
  BY <1>1, <1>2, FailsKeeps
<1>3. CASE /\ Active(call[c].dev)
           /\ device[call[c].dev].hash = call[c].token
           /\ Issue(c, call[c].dev, call[c].user)
  <2>1. call[c].pc = "check" /\ CallOK(call[c]) /\ call[c] \in CallRecords
    BY DEF CheckToken, At, IInv, Kinds
  <2>2. PICK t \in held : t = call[c].token /\ t.dev = call[c].dev /\ t.user = call[c].user
    BY <2>1 DEF CallOK, Refreshing
  <2>3. t.dev \in Devices /\ t.user \in Users
    BY DEF IInv, Kinds, Tokens
  <2>4. Owned(t) /\ RowOK(t.dev)
    BY <2>3 DEF IInv
  <2>5. call[c].late = {}
    BY <1>3, <2>1, <2>2, <2>4 DEF CallOK, Refused, IsOut, Active, RowOK, CallRecords
  <2>6. Issue(c, t.dev, t.user)
    BY <1>3, <2>2
  <2> QED BY <1>1, <2>3, <2>4, <2>5, <2>6, IssueKeeps DEF Owned
<1> QED BY <1>2, <1>3 DEF CheckToken

\* The token stored is not spent, and the one it replaces is spent only when no
\* call can store it again.
LEMMA PersistKeeps ==
    ASSUME IInv, NEW c \in Calls, Persist(c)
    PROVE  IInv'
<1> DEFINE r == [Idle EXCEPT !.pc = "ok", !.late = {}]
<1>1. call[c].pc = "persist" /\ CallOK(call[c]) /\ call[c] \in CallRecords
  BY DEF Persist, At, IInv, Kinds
<1>2. PICK t \in Tokens : t = call[c].new
  BY <1>1 DEF CallOK, Issuing
<1>3. PICK d \in Devices : d = call[c].dev
  BY <1>1, <1>2 DEF CallOK, Issuing, Tokens
<1>4. t.dev = d /\ Exists(d) /\ device[d].user = t.user /\ t \notin spent /\ call[c].late = {}
  BY <1>1, <1>2, <1>3 DEF CallOK, Issuing, Owned, Refused, CallRecords
<1>5. /\ call' = [call EXCEPT ![c] = r] /\ held' = held \cup {t}
      /\ UNCHANGED <<users, revoked, now>>
  BY <1>2, <1>4 DEF Persist, Succeeds
<1>6. r \in CallRecords
  BY DEF Idle, CallRecords, Labels, Finished
<1>7. CallOK(r)'
  BY DEF Idle, CallOK, Registering, Refreshing, Issuing, Requesting, Refused
<1> HIDE DEF r
<1>8. device[d] \in Rows
  BY <1>4 DEF IInv, Kinds, Exists
<1>9. \/ UNCHANGED <<device, spent>>
      \/ /\ device' = [device EXCEPT ![d].hash = t]
         /\ \/ spent' = spent
            \/ /\ device[d].hash \in Tokens /\ Replaces(c, device[d].hash)
               /\ spent' = spent \cup {device[d].hash}
  BY <1>2, <1>3 DEF Persist
<1>10. /\ RowsKept /\ spent \subseteq spent' /\ spent' \subseteq Tokens
       /\ device' \in [Devices -> Rows \cup {None}]
  <2>1. CASE UNCHANGED <<device, spent>>
    BY <2>1 DEF RowsKept, Exists, IInv, Kinds
  <2>2. CASE device' = [device EXCEPT ![d].hash = t]
    <3>1. [device[d] EXCEPT !.hash = t] \in Rows
      BY <1>8 DEF Rows
    <3>2. None \notin Rows
      BY SessionsAssumption
    <3>3. device'[d] = [device[d] EXCEPT !.hash = t] /\ \A e \in Devices \ {d} : device'[e] = device[e]
      BY <2>2 DEF IInv, Kinds
    <3>4. RowsKept
      BY <1>8, <3>1, <3>2, <3>3 DEF RowsKept, Exists, Rows
    <3>5. device' \in [Devices -> Rows \cup {None}]
      BY <2>2, <3>1 DEF IInv, Kinds
    <3> QED BY <1>9, <3>4, <3>5 DEF IInv, Kinds
  <2> QED BY <1>9, <2>1, <2>2
<1>11. \A b \in Calls \ {c} : At(b, "persist") => call[b].new \notin spent'
  BY <1>9 DEF IInv, CallOK, Issuing, At, Replaces
<1>12. call' \in [Calls -> CallRecords] /\ \A b \in Calls : CallOK(call[b])'
  BY <1>5, <1>6, <1>7, <1>10, <1>11, RowMoves
<1>13. Kinds'
  BY <1>5, <1>10, <1>12 DEF Kinds, IInv
<1>14. \A s \in spent' : s.at < now'
  BY <1>5, <1>9 DEF IInv, Replaces
<1>15. ASSUME NEW h \in held' PROVE Owned(h)'
  <2>1. h.dev \in Devices /\ Owned(h)
    BY <1>4, <1>5 DEF IInv, Kinds, Tokens, Owned
  <2> QED BY <1>10, <2>1 DEF RowsKept, Owned, Exists
<1>16. ASSUME NEW e \in Devices PROVE RowOK(e)'
  <2>1. CASE UNCHANGED <<device, spent>>
    BY <2>1 DEF IInv, RowOK, Exists
  <2>2. CASE device' = [device EXCEPT ![d].hash = t] /\ e = d
    <3>1. device'[d].hash = t
      BY <1>8, <2>2 DEF IInv, Kinds, Rows
    <3>2. t \notin spent'
      BY <1>2, <1>4, <1>9 DEF Replaces
    <3> QED BY <1>4, <2>2, <3>1, <3>2 DEF RowOK
  <2>3. CASE device' = [device EXCEPT ![d].hash = t] /\ e # d
    <3>1. device'[e] = device[e] /\ RowOK(e) /\ RowOK(d)
      BY <2>3 DEF IInv, Kinds
    <3>2. device[d].hash \in Tokens => device[d].hash.dev = d
      BY <1>4 DEF IInv, RowOK
    <3>3. device[e].hash \in Tokens /\ Exists(e) => device[e].hash.dev = e
      BY <3>1 DEF RowOK
    <3> QED BY <1>9, <2>3, <3>1, <3>2, <3>3 DEF RowOK, Exists
  <2> QED BY <1>9, <2>1, <2>2, <2>3
<1> QED BY <1>12, <1>13, <1>14, <1>15, <1>16 DEF IInv

\* A request begins with the claims of a token a client was given.
LEMMA RequestKeeps ==
    ASSUME IInv, NEW c \in Calls, NEW op \in {"request", "deactivate", "delete"}, NEW t \in held,
           NEW target \in Devices \cup {None}, Request(c, op, t, target)
    PROVE  IInv'
<1>1. OthersStay
  BY DEF Request, OthersStay, IInv, Kinds
<1>2. Begin(c, op, "active", t.user, t.dev, None, target) /\ (op = "request" <=> target = None)
  BY DEF Request
<1>3. op \in Ops /\ "active" \in Labels /\ t.user \in Users /\ t.dev \in Devices
  BY DEF Ops, Labels, Tokens, IInv, Kinds
<1> QED BY <1>1, <1>2, <1>3, BeginKeeps

\* No device that is out passes the check of its row.
LEMMA CheckActiveKeeps ==
    ASSUME IInv, NEW c \in Calls, CheckActive(c)
    PROVE  IInv'
<1>1. OthersStay
  BY DEF CheckActive, OthersStay, IInv, Kinds
<1>2. CASE Fails(c)
  BY <1>1, <1>2, FailsKeeps
<1>3. CASE Active(call[c].dev) /\ GoTo(c, "revoked")
  <2>1. CallOK(call[c]) /\ call[c] \in CallRecords /\ call[c].pc = "active"
    BY DEF CheckActive, At, IInv, Kinds
  <2>2. CallOK([call[c] EXCEPT !.pc = "revoked"])
    BY <1>3, <2>1 DEF CallOK, Registering, Refreshing, Issuing, Requesting, Refused, IsOut,
                      Active, CallRecords
  <2>3. "revoked" \in Labels
    BY DEF Labels
  <2> QED BY <1>1, <1>3, <2>2, <2>3, GoesOnKeeps
<1> QED BY <1>2, <1>3 DEF CheckActive

\* What passes the middleware is answered, or has a device to shut out.
LEMMA CheckRevokedKeeps ==
    ASSUME IInv, NEW c \in Calls, CheckRevoked(c)
    PROVE  IInv'
<1>1. OthersStay
  BY DEF CheckRevoked, OthersStay, IInv, Kinds
<1>2. CallOK(call[c]) /\ call[c] \in CallRecords /\ call[c].pc = "revoked"
  BY DEF CheckRevoked, At, IInv, Kinds
<1>3. CASE Fails(c)
  BY <1>1, <1>3, FailsKeeps
<1>4. CASE Succeeds(c)
  <2>1. call[c].late = {}
    BY <1>2 DEF CallOK, Refused, CallRecords
  <2> QED BY <1>1, <1>4, <2>1, SucceedsKeeps
<1>5. CASE call[c].op # "request" /\ GoTo(c, "target")
  <2>1. CallOK([call[c] EXCEPT !.pc = "target"])
    BY <1>2, <1>5 DEF CallOK, Registering, Refreshing, Issuing, Requesting, Refused, CallRecords
  <2>2. "target" \in Labels
    BY DEF Labels
  <2> QED BY <1>1, <1>5, <2>1, <2>2, GoesOnKeeps
<1> QED BY <1>3, <1>4, <1>5 DEF CheckRevoked

\* The device to shut out has a row.
LEMMA GetTargetKeeps ==
    ASSUME IInv, NEW c \in Calls, GetTarget(c)
    PROVE  IInv'
<1>1. OthersStay
  BY DEF GetTarget, OthersStay, IInv, Kinds
<1>2. CASE Fails(c)
  BY <1>1, <1>2, FailsKeeps
<1>3. CASE Exists(call[c].target) /\ GoTo(c, "out")
  <2>1. CallOK(call[c]) /\ call[c] \in CallRecords /\ call[c].pc = "target"
    BY DEF GetTarget, At, IInv, Kinds
  <2>2. CallOK([call[c] EXCEPT !.pc = "out"])
    BY <1>3, <2>1 DEF CallOK, Registering, Refreshing, Issuing, Requesting, Refused, CallRecords
  <2>3. "out" \in Labels
    BY DEF Labels
  <2> QED BY <1>1, <1>3, <2>2, <2>3, GoesOnKeeps
<1> QED BY <1>2, <1>3 DEF GetTarget

\* Shutting a device out changes its row, and not whose it is.
LEMMA ShutOutKeeps ==
    ASSUME IInv, NEW c \in Calls, ShutOut(c)
    PROVE  IInv'
<1>1. CallOK(call[c]) /\ call[c] \in CallRecords /\ call[c].pc = "out"
  BY DEF ShutOut, At, IInv, Kinds
<1>2. PICK d \in Devices : d = call[c].target /\ Exists(d)
  BY <1>1 DEF CallOK, Requesting
<1>3. call[c].late = {}
  BY <1>1 DEF CallOK, Refused, CallRecords
<1> DEFINE r == [Idle EXCEPT !.pc = "revoke", !.target = d, !.late = {}]
<1>4. r \in CallRecords
  BY DEF Idle, CallRecords, Labels
<1>5. CallOK(r)'
  BY DEF Idle, CallOK, Registering, Refreshing, Issuing, Requesting, Refused
<1>6. /\ call' = [call EXCEPT ![c] = r]
      /\ UNCHANGED <<users, revoked, now, held, spent>>
  BY <1>2, <1>3 DEF ShutOut
<1> HIDE DEF r
<1>7. device[d] \in Rows
  BY <1>2 DEF IInv, Kinds, Exists
<1>8. PICK hash \in {Null, device[d].hash} :
        device' = [device EXCEPT ![d] = [[device[d] EXCEPT !.active = FALSE] EXCEPT !.hash = hash]]
  BY <1>2 DEF ShutOut, IInv, Kinds
<1> DEFINE row == [[device[d] EXCEPT !.active = FALSE] EXCEPT !.hash = hash]
<1>9. row \in Rows /\ row.user = device[d].user /\ row.active = FALSE /\ row.hash = hash
  BY <1>7 DEF Rows
<1> HIDE DEF row
<1>10. row # None /\ Null \notin Tokens
  BY <1>9, SessionsAssumption
<1>11. device'[d] = row /\ \A e \in Devices \ {d} : device'[e] = device[e]
  BY <1>8 DEF IInv, Kinds, row
<1>12. RowsKept
  BY <1>9, <1>10, <1>11 DEF RowsKept, Exists
<1>13. \A b \in Calls \ {c} : At(b, "persist") => call[b].new \notin spent'
  BY <1>6 DEF IInv, CallOK, Issuing, At
<1>14. call' \in [Calls -> CallRecords] /\ \A b \in Calls : CallOK(call[b])'
  BY <1>4, <1>5, <1>6, <1>12, <1>13, RowMoves
<1>15. Kinds'
  BY <1>6, <1>8, <1>9, <1>14 DEF Kinds, IInv, row
<1>16. ASSUME NEW t \in held PROVE Owned(t)'
  <2>1. t.dev \in Devices /\ Owned(t)
    BY DEF IInv, Kinds, Tokens
  <2> QED BY <1>12, <2>1 DEF RowsKept, Owned, Exists
<1>17. ASSUME NEW e \in Devices PROVE RowOK(e)'
  <2>1. CASE e = d
    <3>1. RowOK(d) /\ Null \notin spent
      BY <1>10 DEF IInv, Kinds
    <3> QED BY <1>2, <1>6, <1>9, <1>10, <1>11, <2>1, <3>1 DEF RowOK, Exists
  <2>2. CASE e # d
    BY <1>6, <1>11, <2>2 DEF RowOK, Exists, IInv
  <2> QED BY <2>1, <2>2
<1> QED BY <1>6, <1>14, <1>15, <1>16, <1>17 DEF IInv

\* The revocation key is written, or not, and the call answers.
LEMMA RevokeKeeps ==
    ASSUME IInv, NEW c \in Calls, Revoke(c)
    PROVE  IInv'
<1>1. CallOK(call[c]) /\ call[c] \in CallRecords /\ call[c].pc = "revoke"
  BY DEF Revoke, At, IInv, Kinds
<1>2. call[c].late = {} /\ call[c].target \in Devices
  BY <1>1 DEF CallOK, Refused, Requesting, CallRecords
<1>3. OthersStay
  BY <1>2 DEF Revoke, OthersStay, IInv, Kinds
<1> QED BY <1>2, <1>3, SucceedsKeeps DEF Revoke

\* A second passes: what was made before it stays made before.
LEMMA TickKeeps ==
    ASSUME IInv, Tick
    PROVE  IInv'
<1>1. /\ UNCHANGED <<users, device, revoked, call, held, spent>>
      /\ now \in Nat /\ now' = now + 1 /\ now' \in Times
  BY SessionsAssumption DEF Tick, IInv, Kinds, Times
<1>2. Kinds'
  BY <1>1 DEF IInv, Kinds
<1>3. ASSUME NEW c \in Calls PROVE CallOK(call[c])'
  BY <1>1 DEF IInv, CallOK, Registering, Refreshing, Issuing, Requesting, Refused, Owned, Exists, IsOut
<1>4. \A t \in spent : t.at \in Nat
  BY DEF IInv, Kinds, Tokens, Times
<1>5. (\A t \in spent : t.at < now)'
  BY <1>1, <1>4 DEF IInv
<1>6. (\A d \in Devices : RowOK(d))' /\ (\A t \in held : Owned(t))'
  BY <1>1 DEF IInv, RowOK, Owned, Exists
<1> QED BY <1>2, <1>3, <1>5, <1>6 DEF IInv

\* Every step keeps the invariant.
LEMMA StepIInv == IInv /\ [Next]_vars => IInv'
<1> SUFFICES ASSUME IInv, [Next]_vars PROVE IInv'
  OBVIOUS
<1>1. CASE UNCHANGED vars
  <2>1. Kinds'
    BY <1>1 DEF IInv, Kinds, vars
  <2>2. ASSUME NEW c \in Calls PROVE CallOK(call[c])'
    BY <1>1 DEF IInv, vars, CallOK, Registering, Refreshing, Issuing, Requesting, Refused,
                Owned, Exists, IsOut
  <2>3. (\A d \in Devices : RowOK(d))' /\ (\A t \in held : Owned(t))' /\ (\A t \in spent : t.at < now)'
    BY <1>1 DEF IInv, vars, RowOK, Owned, Exists
  <2> QED BY <2>1, <2>2, <2>3 DEF IInv
<1>2. ASSUME NEW c \in Calls, NEW u \in Users, NEW d \in Devices \cup {None}, Verify(c, u, d)
      PROVE  IInv'
  BY <1>2, VerifyKeeps
<1>3. ASSUME NEW c \in Calls, GetUser(c) \/ CreateUser(c) \/ GetDevice(c) PROVE IInv'
  BY <1>3, UserKeeps, GetDeviceKeeps
<1>4. ASSUME NEW c \in Calls, NEW d \in Devices, CreateDevice(c, d) PROVE IInv'
  BY <1>4, CreateDeviceKeeps
<1>5. ASSUME NEW c \in Calls, NEW t \in held, Refresh(c, t) PROVE IInv'
  BY <1>5, RefreshKeeps
<1>6. ASSUME NEW c \in Calls, CheckToken(c) \/ Persist(c) PROVE IInv'
  BY <1>6, CheckTokenKeeps, PersistKeeps
<1>7. ASSUME NEW c \in Calls, NEW op \in {"request", "deactivate", "delete"}, NEW t \in held,
             NEW target \in Devices \cup {None}, Request(c, op, t, target)
      PROVE  IInv'
  BY <1>7, RequestKeeps
<1>8. ASSUME NEW c \in Calls, CheckActive(c) \/ CheckRevoked(c) \/ GetTarget(c) PROVE IInv'
  BY <1>8, CheckActiveKeeps, CheckRevokedKeeps, GetTargetKeeps
<1>9. ASSUME NEW c \in Calls, ShutOut(c) \/ Revoke(c) PROVE IInv'
  BY <1>9, ShutOutKeeps, RevokeKeeps
<1>10. ASSUME NEW c \in Calls, CallFails(c) PROVE IInv'
  <2>1. OthersStay /\ Fails(c)
    BY <1>10 DEF CallFails, OthersStay, IInv, Kinds
  <2> QED BY <2>1, FailsKeeps
<1> QED BY <1>1, <1>2, <1>3, <1>4, <1>5, <1>6, <1>7, <1>8, <1>9, <1>10, TickKeeps DEF Next

\* The invariant holds throughout.
LEMMA Invariance == Spec => []IInv
BY InitIInv, StepIInv, PTL DEF Spec

-----------------------------------------------------------------------------
(* The promises. *)

\* Every variable keeps its type, and a call about to store a token has one.
THEOREM SessionsAreTyped == Spec => []TypeOK
<1>1. IInv => TypeOK
  BY DEF IInv, Kinds, TypeOK, CallOK, Issuing, CallRecords, At
<1> QED BY <1>1, Invariance, PTL

\* Two registrations that name one device, and whatever else overlaps or fails,
\* make no token for a device of another user (auth/service.go:161-196).
THEOREM TokensHaveOwners == Spec => []TokensNameOwner
<1>1. IInv => TokensNameOwner
  <2> SUFFICES ASSUME IInv, NEW t \in held \cup {call[c].new : c \in Calls}, t # None
               PROVE  Owned(t)
    BY DEF TokensNameOwner, Owned
  <2>1. CASE t \in held
    BY <2>1 DEF IInv
  <2>2. ASSUME NEW c \in Calls, t = call[c].new PROVE Owned(t)
    BY <2>2 DEF IInv, CallOK, Issuing
  <2> QED BY <2>1, <2>2
<1> QED BY <1>1, Invariance, PTL

\* A device that was shut out gets no answer to a later request and no tokens
\* from a later refresh, whatever a call under way stores in its row and
\* although revoking it may fail (middleware.go:55-78, auth/service.go:236-256).
THEOREM OutIsForGood == Spec => []OutStaysOut
<1>1. IInv => OutStaysOut
  BY DEF IInv, CallOK, Refused, OutStaysOut, At
<1> QED BY <1>1, Invariance, PTL

\* A token that was replaced for good is in no row and passes no later check,
\* however refreshes overlap and fail (auth/service.go:241-256).
THEOREM SpentStaysSpent == Spec => []SpentIsRefused
<1>1. IInv => SpentIsRefused
  BY DEF IInv, RowOK, CallOK, Refused, SpentIsRefused, At
<1> QED BY <1>1, Invariance, PTL

=============================================================================
