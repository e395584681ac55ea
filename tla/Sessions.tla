-------------------------------- MODULE Sessions --------------------------------
(****************************************************************************)
(* Who is signed in: registering a device after its code was accepted and   *)
(* refreshing its tokens (app/auth/service.go), deactivating and deleting   *)
(* it (app/devices/service.go), and the check every request passes          *)
(* (adapters/http/middleware.go), over the devices table                    *)
(* (adapters/postgres/device_repo_pg.go) and the revocation keys in redis.  *)
(* A call is a goroutine, each of its statements one step.                  *)
(*                                                                          *)
(* Abstractions: a user is the phone it registered with, and the table of   *)
(* users the set of those that have a row; names, platforms and last_seen   *)
(* are left out; a refresh token is its claims, which tell two tokens of a  *)
(* device apart by the second they were made in; tokens do not expire.      *)
(****************************************************************************)
EXTENDS Naturals, FiniteSets

CONSTANTS
    Users, Devices, Calls,
    MaxTime,        \* bound: seconds that pass
    Faults,         \* whether statements fail
    Empty, Null,    \* the refresh_token_hash of a new row, and of one shut out
    None

Times == 0..MaxTime
Tokens == [dev : Devices, user : Users, at : Times]
Rows == [user : Users, active : BOOLEAN, hash : Tokens \cup {Empty, Null}]

ASSUME SessionsAssumption ==
    /\ MaxTime \in Nat
    /\ Faults \in BOOLEAN
    /\ {Empty, Null} \cap Tokens = {}
    /\ Empty # Null
    /\ None \notin Users \cup Devices \cup Tokens \cup Rows

VARIABLES
    users,      \* users that have a row
    device,     \* the row of each device, or None
    revoked,    \* devices with a revocation key
    now,        \* the second
    call,       \* what each call is doing
    held,       \* refresh tokens clients were given
    spent       \* history: tokens replaced for good

vars == <<users, device, revoked, now, call, held, spent>>

\* A call: its user and device, the token it presents or the device it shuts
\* out, the token it makes, and for the properties what it came too late for.
Idle == [op |-> None, pc |-> "idle", user |-> None, dev |-> None, token |-> None,
         target |-> None, new |-> None, late |-> {}]

Init ==
    /\ users = {}
    /\ device = [d \in Devices |-> None]
    /\ revoked = {}
    /\ now = 0
    /\ call = [c \in Calls |-> Idle]
    /\ held = {}
    /\ spent = {}

-----------------------------------------------------------------------------
(* Calls and the rows they read. *)

Finished == {"idle", "ok", "error"}

At(c, label) == call[c].pc = label
GoTo(c, label) == call' = [call EXCEPT ![c].pc = label]

\* The call returns; of one that succeeded it is kept what it came too late for.
Succeeds(c) ==
    call' = [call EXCEPT ![c] = [Idle EXCEPT !.pc = "ok", !.late = call[c].late]]
Fails(c) == call' = [call EXCEPT ![c] = [Idle EXCEPT !.pc = "error"]]

Exists(d) == device[d] # None
Active(d) == Exists(d) /\ device[d].active

\* GetById scans every column, and fails on a NULL hash.
Readable(d) == Exists(d) => device[d].hash # Null

\* A call comes too late when its device is already out, or when it presents a
\* token already spent.
TooLate(op, d, t) ==
    {why \in {"out"} : op # "verify" /\ Exists(d) /\ ~Active(d)}
        \cup {why \in {"spent"} : t \in spent}

Begin(c, op, label, u, d, t, target) ==
    /\ call[c].pc \in Finished
    /\ call' = [call EXCEPT ![c] =
         [Idle EXCEPT !.op = op, !.pc = label, !.user = u, !.dev = d, !.token = t,
                      !.target = target, !.late = TooLate(op, d, t)]]

\* Generate: the claims of a pair made now.
Generate(d, u) == [dev |-> d, user |-> u, at |-> now]

\* The call goes on to answer with a new pair, all that it still needs.
Issue(c, d, u) ==
    call' = [call EXCEPT ![c] = [Idle EXCEPT !.pc = "persist", !.dev = d, !.late = call[c].late,
                                             !.new = Generate(d, u)]]

-----------------------------------------------------------------------------
(* VerifyRegistration, from the point where the code was accepted. *)

\* The client names a device, or none.
Verify(c, u, d) ==
    /\ Begin(c, "verify", "user", u, d, None, None)
    /\ UNCHANGED <<users, device, revoked, now, held, spent>>

\* GetByPhoneHash, and Create if there is no row: phone_hash is unique.
GetUser(c) ==
    /\ At(c, "user")
    /\ GoTo(c, IF call[c].user \in users THEN "device" ELSE "newuser")
    /\ UNCHANGED <<users, device, revoked, now, held, spent>>

CreateUser(c) ==
    /\ At(c, "newuser")
    /\ users' = users \cup {call[c].user}
    /\ IF call[c].user \in users THEN Fails(c) ELSE GoTo(c, "device")
    /\ UNCHANGED <<device, revoked, now, held, spent>>

\* A named device is looked up: an existing row is used as it is.
GetDevice(c) ==
    LET d == call[c].dev IN
    /\ At(c, "device")
    /\ d # None
    /\ \/ ~Exists(d) /\ GoTo(c, "newdevice")
       \/ Exists(d) /\ (~Readable(d) \/ device[d].user # call[c].user) /\ Fails(c)
       \/ Exists(d) /\ Readable(d) /\ device[d].user = call[c].user /\ Issue(c, d, call[c].user)
    /\ UNCHANGED <<users, device, revoked, now, held, spent>>

\* Faulty variants, here and below, show that the properties notice them: a
\* row that is there by now is taken over.
CreateDeviceOver(c, d) ==
    /\ \/ At(c, "newdevice") /\ d = call[c].dev
       \/ At(c, "device") /\ call[c].dev = None /\ ~Exists(d) /\ \A b \in Calls : call[b].dev # d
    /\ device' = [device EXCEPT ![d] = [user |-> call[c].user, active |-> TRUE, hash |-> Empty]]
    /\ Issue(c, d, call[c].user)
    /\ UNCHANGED <<users, revoked, now, held, spent>>

\* The row is stored without its owner.
CreateDeviceUnowned(c, d) ==
    /\ \/ At(c, "newdevice") /\ d = call[c].dev
       \/ At(c, "device") /\ call[c].dev = None /\ ~Exists(d) /\ \A b \in Calls : call[b].dev # d
    /\ IF Exists(d)
       THEN Fails(c) /\ UNCHANGED device
       ELSE /\ device' = [device EXCEPT ![d] = [user |-> None, active |-> TRUE, hash |-> Empty]]
            /\ Issue(c, d, call[c].user)
    /\ UNCHANGED <<users, revoked, now, held, spent>>

\* Create: the id is the primary key.  Without a name a fresh id is made.
CreateDevice(c, d) ==
    /\ \/ At(c, "newdevice") /\ d = call[c].dev
       \/ At(c, "device") /\ call[c].dev = None /\ ~Exists(d) /\ \A b \in Calls : call[b].dev # d
    /\ IF Exists(d)
       THEN Fails(c) /\ UNCHANGED device
       ELSE /\ device' = [device EXCEPT ![d] = [user |-> call[c].user, active |-> TRUE, hash |-> Empty]]
            /\ Issue(c, d, call[c].user)
    /\ UNCHANGED <<users, revoked, now, held, spent>>

-----------------------------------------------------------------------------
(* Refresh. *)

\* A client presents a token it was given.
Refresh(c, t) ==
    /\ Begin(c, "refresh", "check", t.user, t.dev, t, None)
    /\ UNCHANGED <<users, device, revoked, now, held, spent>>

\* The row may be of a device that is out: Delete left its token there.
CheckTokenOnly(c) ==
    LET d == call[c].dev IN
    /\ At(c, "check")
    /\ IF Readable(d) /\ device[d].hash = call[c].token
       THEN Issue(c, d, call[c].user)
       ELSE Fails(c)
    /\ UNCHANGED <<users, device, revoked, now, held, spent>>

\* Any token of the device will do.
CheckDeviceOnly(c) ==
    LET d == call[c].dev IN
    /\ At(c, "check")
    /\ IF Readable(d) /\ Active(d)
       THEN Issue(c, d, call[c].user)
       ELSE Fails(c)
    /\ UNCHANGED <<users, device, revoked, now, held, spent>>

\* GetById and the checks of the row read.
CheckToken(c) ==
    LET d == call[c].dev IN
    /\ At(c, "check")
    /\ IF Readable(d) /\ Active(d) /\ device[d].hash = call[c].token
       THEN Issue(c, d, call[c].user)
       ELSE Fails(c)
    /\ UNCHANGED <<users, device, revoked, now, held, spent>>

\* A token is spent once another is stored in its place, its second is over
\* and no call is about to store it.
Replaces(c, t) ==
    /\ t # call[c].new
    /\ t.at < now
    /\ \A b \in Calls \ {c} : At(b, "persist") => call[b].new # t

\* UpdateRefreshToken, for a registration and a refresh: the row is updated
\* whatever it holds by now.  An error is ignored, and the tokens returned.
Persist(c) ==
    LET d == call[c].dev
        old == device[d].hash
    IN
    /\ At(c, "persist")
    /\ \/ /\ device' = [device EXCEPT ![d].hash = call[c].new]
          /\ spent' = IF old \in Tokens /\ Replaces(c, old) THEN spent \cup {old} ELSE spent
       \/ Faults /\ UNCHANGED <<device, spent>>
    /\ held' = held \cup {call[c].new}
    /\ Succeeds(c)
    /\ UNCHANGED <<users, revoked, now>>

-----------------------------------------------------------------------------
(* The middleware, and the two ways to shut a device out. *)

\* A device that was given tokens makes a request, perhaps to shut out a
\* device of its user or itself.
Request(c, op, t, target) ==
    /\ op = "request" <=> target = None
    /\ Begin(c, op, "active", t.user, t.dev, None, target)
    /\ UNCHANGED <<users, device, revoked, now, held, spent>>

CheckActive(c) ==
    LET d == call[c].dev IN
    /\ At(c, "active")
    /\ IF Readable(d) /\ Active(d) THEN GoTo(c, "revoked") ELSE Fails(c)
    /\ UNCHANGED <<users, device, revoked, now, held, spent>>

CheckRevoked(c) ==
    /\ At(c, "revoked")
    /\ IF call[c].dev \in revoked THEN Fails(c)
       ELSE IF call[c].op = "request" THEN Succeeds(c) ELSE GoTo(c, "target")
    /\ UNCHANGED <<users, device, revoked, now, held, spent>>

\* DeactivateDevice and DeleteDevice read the row, which must be the user's.
GetTarget(c) ==
    LET d == call[c].target IN
    /\ At(c, "target")
    /\ IF /\ Exists(d) /\ Readable(d) /\ device[d].user = call[c].user
          /\ call[c].op = "delete" => d # call[c].dev
       THEN GoTo(c, "out")
       ELSE Fails(c)
    /\ UNCHANGED <<users, device, revoked, now, held, spent>>

\* Deactivate clears the hash, Delete leaves it.
ShutOut(c) ==
    LET d == call[c].target IN
    /\ At(c, "out")
    /\ device' = [device EXCEPT ![d].active = FALSE,
                                ![d].hash = IF call[c].op = "deactivate" THEN Null ELSE @]
    /\ call' = [call EXCEPT ![c] = [Idle EXCEPT !.pc = "revoke", !.target = d, !.late = call[c].late]]
    /\ UNCHANGED <<users, revoked, now, held, spent>>

\* An error of RevokeDevice is logged only.
Revoke(c) ==
    /\ At(c, "revoke")
    /\ \/ revoked' = revoked \cup {call[c].target}
       \/ Faults /\ UNCHANGED revoked
    /\ Succeeds(c)
    /\ UNCHANGED <<users, device, now, held, spent>>

\* Any other statement that fails ends its call.
CallFails(c) ==
    /\ Faults
    /\ call[c].pc \notin Finished \cup {"persist", "revoke"}
    /\ Fails(c)
    /\ UNCHANGED <<users, device, revoked, now, held, spent>>

Tick ==
    /\ now < MaxTime
    /\ now' = now + 1
    /\ UNCHANGED <<users, device, revoked, call, held, spent>>

Next ==
    \/ \E c \in Calls, u \in Users, d \in Devices \cup {None} : Verify(c, u, d)
    \/ \E c \in Calls : GetUser(c) \/ CreateUser(c) \/ GetDevice(c)
    \/ \E c \in Calls, d \in Devices : CreateDevice(c, d)
    \/ \E c \in Calls, t \in held : Refresh(c, t)
    \/ \E c \in Calls : CheckToken(c) \/ Persist(c)
    \/ \E c \in Calls, op \in {"request", "deactivate", "delete"}, t \in held,
          target \in Devices \cup {None} : Request(c, op, t, target)
    \/ \E c \in Calls : CheckActive(c) \/ CheckRevoked(c) \/ GetTarget(c)
                        \/ ShutOut(c) \/ Revoke(c) \/ CallFails(c)
    \/ Tick

Spec == Init /\ [][Next]_vars

-----------------------------------------------------------------------------
(* Properties. *)

\* Every variable holds a value of its kind.
TypeOK ==
    /\ users \subseteq Users
    /\ device \in [Devices -> Rows \cup {None}]
    /\ revoked \subseteq Devices
    /\ now \in Times
    /\ \A c \in Calls :
         /\ call[c].user \in Users \cup {None}
         /\ call[c].dev \in Devices \cup {None}
         /\ call[c].new \in Tokens \cup {None}
         /\ At(c, "persist") => call[c].new \in Tokens
    /\ held \subseteq Tokens
    /\ spent \subseteq Tokens

\* A token, also one still to be returned, names the owner of its device,
\* although the row of a named device is looked up before it is made, and two
\* users may name the same one (auth/service.go:161-196).
TokensNameOwner ==
    \A t \in (held \cup {call[c].new : c \in Calls}) \ {None} :
        Exists(t.dev) /\ device[t.dev].user = t.user

\* A device that is out stays out: no later request passes the middleware and
\* no later refresh gives it tokens, although a registration or a refresh under
\* way may store a token in its row again, deleting it leaves its token there,
\* and revoking it may fail (device_repo_pg.go:146-156, middleware.go:55-78).
OutStaysOut ==
    \A c \in Calls : "out" \in call[c].late => ~At(c, "ok")

\* A refresh token that was replaced is never accepted again, nor found in its
\* row, except through a call that was to store the same token all along
\* (auth/service.go:241-256: two refreshes may pass the check with one token).
SpentIsRefused ==
    /\ \A d \in Devices : Exists(d) => device[d].hash \notin spent
    /\ \A c \in Calls : "spent" \in call[c].late => ~At(c, "ok")

=============================================================================
