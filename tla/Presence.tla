------------------------------- MODULE Presence -------------------------------
(****************************************************************************)
(* Who is online: the redis key presence:<user> (presence/presence.go), set *)
(* by the handler of every WebSocket connection of that user, kept alive by *)
(* its writer goroutine and deleted when it leaves; and the socket that the *)
(* handler and the writer goroutine of a connection both write to           *)
(* (adapters/http/ws.go).                                                   *)
(*                                                                          *)
(* Time passes in units of the heartbeat (30 s).  The hub is left out: it   *)
(* may have an event for a connection at any time, and a broadcast or a     *)
(* push of a handler may panic (see DeliveryHub).                           *)
(****************************************************************************)
EXTENDS Naturals

CONSTANTS
    Conns,  \* slots for the connections of one user, one per device
    TTL     \* life of the key, in heartbeats (2 in the code)

VARIABLES
    ttl,    \* what is left of the key's life; 0: there is no key
    pc,     \* where the handler of each connection is
    writer, \* what its writer goroutine is doing
    due,    \* connections whose ticker has fired
    why,    \* what may have taken the key away since it was last set
    owed    \* whether a handler went without deleting the key

vars == <<ttl, pc, writer, due, why, owed>>

HandlerPC == {"gone", "mark", "greet", "sync", "serve", "pong", "offline", "farewell", "unwind"}
WriterPC == {"none", "waiting", "writing", "ended"}

Init ==
    /\ ttl = 0
    /\ pc = [c \in Conns |-> "gone"]
    /\ writer = [c \in Conns |-> "none"]
    /\ due = {}
    /\ why = {}
    /\ owed = FALSE

GoTo(c, label) == pc' = [pc EXCEPT ![c] = label]
Running(c) == writer[c] \in {"waiting", "writing"}

\* A handler that marked its user online and has not yet marked him offline.
Present(c) == pc[c] \in {"greet", "sync", "serve", "pong", "offline"}

-----------------------------------------------------------------------------
(* The commands. *)

SetKey == ttl' = TTL /\ why' = {}
KeepKey == UNCHANGED <<ttl, why>>
Blame(reason) == UNCHANGED ttl /\ why' = why \cup {reason}

\* Faulty variants, here and below, show that the properties notice them: the
\* key is written and not only given more time.
RefreshSetting == SetKey

\* EXPIRE does nothing for a key that is gone.
RefreshKey == ttl' = (IF ttl = 0 THEN 0 ELSE TTL) /\ UNCHANGED why

\* DEL takes the key from the user's other connections too.
DeleteKey(c) ==
    /\ ttl' = 0
    /\ why' = IF \E b \in Conns \ {c} : Present(b) THEN why \cup {"left"} ELSE why

-----------------------------------------------------------------------------
(* The handler of a connection, in the order of the code. *)

\* Upgrade and registration in the hub.
Connect(c) ==
    /\ pc[c] = "gone"
    /\ writer[c] \in {"none", "ended"}
    /\ GoTo(c, "mark")
    /\ writer' = [writer EXCEPT ![c] = "none"]
    /\ UNCHANGED <<ttl, due, why, owed>>

\* An error of SetOnline is logged only.
SetOnline(c) ==
    /\ pc[c] = "mark"
    /\ SetKey \/ Blame("failed")
    /\ GoTo(c, "greet")
    /\ UNCHANGED <<writer, due, owed>>

\* Broadcast of the status, which may panic: the deferred calls registered so
\* far do not mark the user offline.
Greet(c) ==
    /\ pc[c] = "greet"
    /\ \/ GoTo(c, "sync") /\ UNCHANGED owed
       \/ GoTo(c, "unwind") /\ owed' = TRUE
    /\ UNCHANGED <<ttl, writer, due, why>>

\* The writer goroutine is started before the initial sync is written.
InitialSyncAfterWriter(c) ==
    /\ pc[c] = "sync"
    /\ IF writer[c] = "none"
       THEN writer' = [writer EXCEPT ![c] = "waiting"] /\ UNCHANGED pc
       ELSE GoTo(c, "serve") /\ UNCHANGED writer
    /\ UNCHANGED <<ttl, due, why, owed>>

\* The handler writes the initial sync itself, an error is logged only; then
\* the writer goroutine is started and the reader entered.
InitialSync(c) ==
    /\ pc[c] = "sync"
    /\ writer' = [writer EXCEPT ![c] = "waiting"]
    /\ GoTo(c, "serve")
    /\ UNCHANGED <<ttl, due, why, owed>>

\* The reader answers a ping with a frame of its own.
Ping(c) ==
    /\ pc[c] = "serve"
    /\ GoTo(c, "pong")
    /\ UNCHANGED <<ttl, writer, due, why, owed>>

\* The frame is written, or the reader returns with the error.
Pong(c) ==
    /\ pc[c] = "pong"
    /\ \/ GoTo(c, "serve") \/ GoTo(c, "offline")
    /\ UNCHANGED <<ttl, writer, due, why, owed>>

\* ReadMessage fails, or a push of the reader panics.
ReaderEnds(c) ==
    /\ pc[c] = "serve"
    /\ \/ GoTo(c, "offline") /\ UNCHANGED owed
       \/ GoTo(c, "unwind") /\ owed' = TRUE
    /\ UNCHANGED <<ttl, writer, due, why>>

\* The first deferred call; an error is logged only.
SetOffline(c) ==
    /\ pc[c] = "offline"
    /\ \/ DeleteKey(c) /\ owed' = FALSE
       \/ KeepKey /\ owed' = TRUE
    /\ GoTo(c, "farewell")
    /\ UNCHANGED <<writer, due>>

\* The broadcast ends, or panics into the other deferred calls.
Farewell(c) ==
    /\ pc[c] = "farewell"
    /\ GoTo(c, "unwind")
    /\ UNCHANGED <<ttl, writer, due, why, owed>>

\* cancel, close of the channel, Unregister and Close of the socket.
Unwind(c) ==
    /\ pc[c] = "unwind"
    /\ GoTo(c, "gone")
    /\ UNCHANGED <<ttl, writer, due, why, owed>>

-----------------------------------------------------------------------------
(* The writer goroutine. *)

\* The heartbeat writes its frame and leaves the key alone.
HeartbeatSilent(c) ==
    /\ writer[c] = "waiting"
    /\ c \in due
    /\ due' = due \ {c}
    /\ KeepKey
    /\ writer' = [writer EXCEPT ![c] = "writing"]
    /\ UNCHANGED <<pc, owed>>

\* The ticker: the key gets more time, an error is logged only, and a frame is
\* written.
Heartbeat(c) ==
    /\ writer[c] = "waiting"
    /\ c \in due
    /\ due' = due \ {c}
    /\ RefreshKey \/ Blame("failed")
    /\ writer' = [writer EXCEPT ![c] = "writing"]
    /\ UNCHANGED <<pc, owed>>

\* An event from the hub is written.
TakeEvent(c) ==
    /\ writer[c] = "waiting"
    /\ writer' = [writer EXCEPT ![c] = "writing"]
    /\ UNCHANGED <<ttl, pc, due, why, owed>>

\* The frame is written, or the writer returns with the error: the reader does
\* not notice.
FrameDone(c) ==
    /\ writer[c] = "writing"
    /\ \/ writer' = [writer EXCEPT ![c] = "waiting"] /\ UNCHANGED due
       \/ writer' = [writer EXCEPT ![c] = "ended"] /\ due' = due \ {c}
    /\ UNCHANGED <<ttl, pc, why, owed>>

\* The context is cancelled.
WriterEnds(c) ==
    /\ writer[c] = "waiting"
    /\ pc[c] \in {"unwind", "gone"}
    /\ writer' = [writer EXCEPT ![c] = "ended"]
    /\ due' = due \ {c}
    /\ UNCHANGED <<ttl, pc, why, owed>>

-----------------------------------------------------------------------------
(* Two frames at a time, time, and the process. *)

Stops ==
    /\ pc' = [c \in Conns |-> "gone"]
    /\ writer' = [c \in Conns |-> "none"]
    /\ due' = {}
    /\ owed' = TRUE
    /\ UNCHANGED <<ttl, why>>

\* The socket takes one writer at a time and panics when it notices a second
\* one: in the handler, which unwinds, or in the writer goroutine, where no one
\* recovers and the process dies with all its connections.
WritesCollide(c) ==
    /\ pc[c] \in {"sync", "pong"} /\ writer[c] = "writing"
    /\ \/ /\ GoTo(c, "unwind") /\ owed' = TRUE
          /\ UNCHANGED <<ttl, writer, due, why>>
       \/ Stops

Restart == Stops

\* A handler whose writer cannot be relied on to refresh the key in time: it has
\* not started, has ended, or is in a write, which may or may not hang.
Slow(c) == Present(c) /\ writer[c] # "waiting"

\* A heartbeat that can be made is made before the next one is due.
Tick ==
    /\ \A c \in due : writer[c] = "writing"
    /\ ttl' = IF ttl = 0 THEN 0 ELSE ttl - 1
    /\ due' = {c \in Conns : Running(c)}
    /\ why' = IF \E c \in Conns : Slow(c) THEN why \cup {"slow"} ELSE why
    /\ UNCHANGED <<pc, writer, owed>>

Next ==
    \/ \E c \in Conns :
         \/ Connect(c) \/ SetOnline(c) \/ Greet(c) \/ InitialSync(c)
         \/ Ping(c) \/ Pong(c) \/ ReaderEnds(c)
         \/ SetOffline(c) \/ Farewell(c) \/ Unwind(c)
         \/ Heartbeat(c) \/ TakeEvent(c) \/ FrameDone(c) \/ WriterEnds(c)
         \/ WritesCollide(c)
    \/ Restart \/ Tick

Spec == Init /\ [][Next]_vars

-----------------------------------------------------------------------------
(* Properties. *)

\* Every variable holds a value of its kind.
TypeOK ==
    /\ ttl \in 0..TTL
    /\ pc \in [Conns -> HandlerPC]
    /\ writer \in [Conns -> WriterPC]
    /\ due \subseteq {c \in Conns : Running(c)}
    /\ why \subseteq {"left", "failed", "slow"}
    /\ owed \in BOOLEAN

\* A user one of whose connections is served, with a writer that is on time, is
\* online unless, since the key was last set, another of his connections left,
\* a redis command failed, or a connection had no writer for a whole heartbeat
\* (ws.go:117, 216 and 147; presence.go:22-32): the minute of the key
\* outlives one heartbeat, and nothing else takes the key away.
OfflineForCause ==
    \A c \in Conns : pc[c] = "serve" /\ writer[c] = "waiting" /\ ttl = 0 => why # {}

\* A user without a connection is offline unless a handler went without
\* deleting the key: a writer that is still running does not bring it back
\* (presence.go:31), whatever connection left last.
OnlineMeansConnected ==
    ttl > 0 /\ (\A c \in Conns : pc[c] = "gone") => owed

\* Except for the answer to a ping (ws.go:270) no two goroutines write to one
\* socket at the same time: the initial sync is written before the writer
\* goroutine exists, also when a connection slot is used again (ws.go:135-141).
SoleWriter == \A c \in Conns : writer[c] = "writing" => pc[c] # "sync"

\* The key says who is connected, whatever connections of one user come and go in
\* what order, but for the causes named above (presence.go:22-32, ws.go:117-216).
PresenceIsTrue == OfflineForCause /\ OnlineMeansConnected
=============================================================================
