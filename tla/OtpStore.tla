-------------------------------- MODULE OtpStore --------------------------------
(****************************************************************************)
(* One-time codes: BeginRegistration stores a challenge and delivers its    *)
(* code, VerifyAndConsume checks a code given back and consumes the         *)
(* challenge (adapters/redis/otp_store.go).  A challenge is one redis hash; *)
(* each redis command is one step, so that verifications of one challenge   *)
(* interleave, its time to live runs out between two commands, and any      *)
(* command fails.                                                           *)
(*                                                                          *)
(* Abstractions: a code is right or wrong; the hash keeps whether it still  *)
(* has the fields of a challenge, which HINCRBY on a missing key does not   *)
(* create; the five minutes are up at any time.                             *)
(****************************************************************************)
EXTENDS Naturals, FiniteSets

CONSTANTS
    Challenges,
    Calls,          \* verifications, each made once
    MaxAttempts,    \* otpMaxAttempts
    Faults,         \* whether redis commands fail
    None

ASSUME OtpAssumption ==
    /\ MaxAttempts \in Nat
    /\ Faults \in BOOLEAN
    /\ None \notin Challenges
    /\ None \notin [fields : BOOLEAN, attempts : Nat, ttl : BOOLEAN]

VARIABLES
    begun,      \* progress of each SaveChallenge
    key,        \* the hash of each challenge, or None
    call,       \* each verification: where it is, what it verifies
    expired,    \* history: challenges whose time to live ran out
    counted,    \* history: calls that raised the attempts of each challenge
    guessed     \* history: calls whose code was compared with the real one

vars == <<begun, key, call, expired, counted, guessed>>
history == <<expired, counted, guessed>>

Hash(fields, attempts, ttl) == [fields |-> fields, attempts |-> attempts, ttl |-> ttl]

Init ==
    /\ begun = [h \in Challenges |-> "no"]
    /\ key = [h \in Challenges |-> None]
    /\ call = [c \in Calls |-> [pc |-> "idle", on |-> None, right |-> FALSE]]
    /\ expired = {}
    /\ counted = [h \in Challenges |-> {}]
    /\ guessed = [h \in Challenges |-> {}]

-----------------------------------------------------------------------------
(* BeginRegistration: HSET, EXPIRE, then the request id is returned.  The   *)
(* code is delivered, and an error of that only logged.                     *)

HSet(h) ==
    /\ begun[h] = "no"
    /\ begun' = [begun EXCEPT ![h] = "stored"]
    /\ key' = [key EXCEPT ![h] = Hash(TRUE, 0, FALSE)]
    /\ UNCHANGED <<call, history>>

\* Faulty variants, here and below, show that the properties notice them: no
\* time to live is set.
SetNoTTL(h) ==
    /\ begun[h] = "stored"
    /\ begun' = [begun EXCEPT ![h] = "known"]
    /\ UNCHANGED <<key, call, history>>

SetTTL(h) ==
    /\ begun[h] = "stored"
    /\ begun' = [begun EXCEPT ![h] = "known"]
    /\ key' = [key EXCEPT ![h].ttl = TRUE]
    /\ UNCHANGED <<call, history>>

\* Either command fails, perhaps after it took effect: no id is returned.
SaveFails(h) ==
    /\ Faults
    /\ begun[h] \in {"no", "stored"}
    /\ begun' = [begun EXCEPT ![h] = "lost"]
    /\ \/ UNCHANGED key
       \/ key' = [key EXCEPT ![h] = Hash(TRUE, 0, begun[h] = "stored")]
    /\ UNCHANGED <<call, history>>

Expire(h) ==
    /\ key[h] # None
    /\ key[h].ttl
    /\ key' = [key EXCEPT ![h] = None]
    /\ expired' = expired \cup {h}
    /\ UNCHANGED <<begun, call, counted, guessed>>

-----------------------------------------------------------------------------
(* VerifyAndConsume. *)

At(c, label) == call[c].pc = label
GoTo(c, label) == call' = [call EXCEPT ![c].pc = label]

Verify(c, h, right) ==
    /\ At(c, "idle")
    /\ begun[h] = "known"
    /\ call' = [call EXCEPT ![c] = [pc |-> "exists", on |-> h, right |-> right]]
    /\ UNCHANGED <<begun, key, history>>

Exists(c) ==
    /\ At(c, "exists")
    /\ GoTo(c, IF key[call[c].on] = None THEN "refused" ELSE "count")
    /\ UNCHANGED <<begun, key, history>>

\* HINCRBY makes a key that is gone anew, with this one field and no ttl.
Counted(h) ==
    IF key[h] = None THEN Hash(FALSE, 1, FALSE) ELSE [key[h] EXCEPT !.attempts = @ + 1]

\* The code may be compared once more than it should.
HIncrByOffByOne(c) ==
    LET h == call[c].on IN
    /\ At(c, "count")
    /\ key' = [key EXCEPT ![h] = Counted(h)]
    /\ counted' = [counted EXCEPT ![h] = @ \cup {c}]
    /\ GoTo(c, IF Counted(h).attempts > MaxAttempts + 1 THEN "drop" ELSE "load")
    /\ UNCHANGED <<begun, expired, guessed>>

\* The attempts are counted from the next to last.
HIncrByTwice(c) ==
    LET h == call[c].on IN
    /\ At(c, "count")
    /\ key' = [key EXCEPT ![h] = Counted(h)]
    /\ counted' = [counted EXCEPT ![h] = @ \cup {c}]
    /\ GoTo(c, IF Counted(h).attempts >= MaxAttempts THEN "drop" ELSE "load")
    /\ UNCHANGED <<begun, expired, guessed>>

HIncrBy(c) ==
    LET h == call[c].on IN
    /\ At(c, "count")
    /\ key' = [key EXCEPT ![h] = Counted(h)]
    /\ counted' = [counted EXCEPT ![h] = @ \cup {c}]
    /\ GoTo(c, IF Counted(h).attempts > MaxAttempts THEN "drop" ELSE "load")
    /\ UNCHANGED <<begun, expired, guessed>>

\* HGETALL and the comparison.
HGetAll(c) ==
    LET h == call[c].on
        real == key[h] # None /\ key[h].fields
    IN
    /\ At(c, "load")
    /\ guessed' = [guessed EXCEPT ![h] = IF real THEN @ \cup {c} ELSE @]
    /\ GoTo(c, IF real /\ call[c].right THEN "consume" ELSE "refused")
    /\ UNCHANGED <<begun, key, expired, counted>>

\* DEL, after too many attempts or the right code; its error is ignored.
Delete(c) ==
    /\ At(c, "drop") \/ At(c, "consume")
    /\ \/ key' = [key EXCEPT ![call[c].on] = None]
       \/ Faults /\ UNCHANGED key
    /\ GoTo(c, IF At(c, "drop") THEN "refused" ELSE "accepted")
    /\ UNCHANGED <<begun, history>>

\* A failed command ends the verification; the attempt may have been counted.
VerifyFails(c) ==
    LET h == call[c].on IN
    /\ Faults
    /\ At(c, "exists") \/ At(c, "count") \/ At(c, "load")
    /\ \/ UNCHANGED <<key, counted>>
       \/ /\ At(c, "count")
          /\ key' = [key EXCEPT ![h] = Counted(h)]
          /\ counted' = [counted EXCEPT ![h] = @ \cup {c}]
    /\ GoTo(c, "error")
    /\ UNCHANGED <<begun, expired, guessed>>

Next ==
    \/ \E h \in Challenges : HSet(h) \/ SetTTL(h) \/ SaveFails(h) \/ Expire(h)
    \/ \E c \in Calls, h \in Challenges, right \in BOOLEAN : Verify(c, h, right)
    \/ \E c \in Calls : Exists(c) \/ HIncrBy(c) \/ HGetAll(c) \/ Delete(c) \/ VerifyFails(c)

Spec == Init /\ [][Next]_vars

-----------------------------------------------------------------------------
(* Properties. *)

Accepted(h) == {c \in Calls : call[c].on = h /\ At(c, "accepted")}

\* Every variable holds a value of its kind.
TypeOK ==
    /\ begun \in [Challenges -> {"no", "stored", "known", "lost"}]
    /\ key \in [Challenges -> [fields : BOOLEAN, attempts : Nat, ttl : BOOLEAN] \cup {None}]
    /\ call \in [Calls -> [pc : {"idle", "exists", "count", "load", "drop", "consume",
                                 "refused", "accepted", "error"},
                           on : Challenges \cup {None}, right : BOOLEAN]]
    /\ expired \subseteq Challenges
    /\ counted \in [Challenges -> SUBSET Calls]
    /\ guessed \in [Challenges -> SUBSET Calls]

\* However many verifications of a challenge overlap, fail or find it expired,
\* no more than MaxAttempts of them learn how their code compares with the
\* real one (otp_store.go:63-84): the counter is raised before the code is
\* read, and a counter made anew has no code beside it.
GuessesBounded == \A h \in Challenges : Cardinality(guessed[h]) <= MaxAttempts

\* The right code is refused for three reasons only: the challenge expired, it
\* was used, or MaxAttempts other calls spent it (otp_store.go:59-84).
RefusedForCause ==
    \A c \in Calls : At(c, "refused") /\ call[c].right =>
        LET h == call[c].on IN
        \/ h \in expired
        \/ Accepted(h) # {}
        \/ Cardinality(counted[h] \ {c}) >= MaxAttempts

\* A challenge whose id a client knows goes away by itself: what stays in redis
\* for ever is a bare counter that accepts nothing (otp_store.go:40-46, 63).
CodeExpires ==
    \A h \in Challenges :
        begun[h] = "known" /\ key[h] # None => key[h].ttl \/ ~key[h].fields

\* "VerifyAndConsume verifies the OTP code for the given request ID and
\* consumes it if valid" (otp_store.go:51): a code is accepted once.
ConsumedOnce == \A h \in Challenges : Cardinality(Accepted(h)) <= 1

=============================================================================
