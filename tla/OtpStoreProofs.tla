---------------------------- MODULE OtpStoreProofs ----------------------------
(* What a one-time code is worth, for any number of challenges,             *)
(* verifications and attempts.                                              *)
EXTENDS OtpStore, FiniteSetTheorems, TLAPS

Hashes == [fields : BOOLEAN, attempts : Nat, ttl : BOOLEAN]

\* A hash that still has the code in it.
Real(h) == key[h] # None /\ key[h].fields

On(c, h) == call[c].on = h /\ ~At(c, "idle")
Loading(h) == {c \in Calls : On(c, h) /\ At(c, "load")}

\* The calls that were let through to the code, and those that have seen it.
Through(h) == guessed[h] \cup Loading(h)

\* A hash counts calls, and lets through no more than it counts.
Counts(h) ==
    /\ IsFiniteSet(counted[h]) /\ IsFiniteSet(guessed[h]) /\ Cardinality(guessed[h]) <= MaxAttempts
    /\ key[h] # None => key[h].attempts <= Cardinality(counted[h])
    /\ Real(h) => /\ IsFiniteSet(Through(h))
                  /\ Cardinality(Through(h)) <= key[h].attempts
                  /\ Cardinality(Through(h)) <= MaxAttempts

\* What becomes of a challenge before and after its id is known.
Stages(h) ==
    /\ begun[h] = "no" => key[h] = None
    /\ begun[h] = "stored" => key[h] # None /\ key[h].attempts = 0 /\ key[h].fields /\ ~key[h].ttl
    /\ begun[h] \in {"no", "stored"} => counted[h] = {} /\ guessed[h] = {}
    /\ begun[h] = "known" /\ Real(h) => key[h].ttl

\* Why a challenge does not hold its code any more.
Spent(h) ==
    h \in expired \/ Accepted(h) # {} \/ Cardinality(counted[h]) > MaxAttempts

Causes(h) == begun[h] = "known" /\ ~Real(h) => Spent(h)

\* A call is for a challenge, was counted once, and is refused for a cause.
Calling(c) ==
    LET h == call[c].on IN
    IF At(c, "idle") THEN \A g \in Challenges : c \notin counted[g] \cup guessed[g] ELSE
        /\ h \in Challenges /\ begun[h] = "known"
        /\ At(c, "exists") \/ At(c, "count") => c \notin counted[h] \cup guessed[h]
        /\ At(c, "load") => c \notin guessed[h]
        /\ At(c, "drop") => Cardinality(counted[h]) > MaxAttempts
        /\ At(c, "refused") /\ call[c].right => Spent(h)

IInv ==
    /\ TypeOK
    /\ \A h \in Challenges : Counts(h) /\ Stages(h) /\ Causes(h)
    /\ \A c \in Calls : Calling(c)

-----------------------------------------------------------------------------
\* What the kinds of the variables say of one challenge or one call.
LEMMA Kinds ==
    ASSUME TypeOK
    PROVE  /\ key \in [Challenges -> Hashes \cup {None}]
           /\ \A h \in Challenges : key[h] # None =>
                 /\ key[h] \in Hashes /\ key[h].attempts \in Nat
                 /\ key[h].fields \in BOOLEAN /\ key[h].ttl \in BOOLEAN
           /\ None \notin Hashes
  BY OtpAssumption DEF TypeOK, Hashes

\* Before anything is stored there is nothing to count.
LEMMA InitIInv == Init => IInv
<1> SUFFICES ASSUME Init PROVE IInv
  OBVIOUS
<1> USE OtpAssumption DEF Init
<1>1. TypeOK
  BY DEF TypeOK
<1>2. \A c \in Calls : At(c, "idle")
  BY DEF At
<1>3. ASSUME NEW h \in Challenges PROVE Counts(h) /\ Stages(h) /\ Causes(h)
  <2>1. key[h] = None /\ begun[h] = "no" /\ counted[h] = {} /\ guessed[h] = {} /\ ~Real(h)
    BY DEF Real
  <2>2. Counts(h)
    BY <2>1, FS_EmptySet DEF Counts
  <2> QED BY <2>1, <2>2 DEF Stages, Causes
<1>4. ASSUME NEW c \in Calls PROVE Calling(c)
  BY <1>2 DEF Calling
<1> QED BY <1>1, <1>3, <1>4 DEF IInv

\* A set that grows by one element at most.
LEMMA Grows ==
    ASSUME NEW S, IsFiniteSet(S), NEW x, NEW T, T = S \/ T = S \cup {x}
    PROVE  /\ IsFiniteSet(T) /\ Cardinality(T) \in Nat /\ Cardinality(S) \in Nat
           /\ Cardinality(S) <= Cardinality(T) /\ Cardinality(T) <= Cardinality(S) + 1
           /\ x \notin S /\ T = S \cup {x} => Cardinality(T) = Cardinality(S) + 1
<1>1. Cardinality(S) \in Nat
  BY FS_CardinalityType
<1>2. /\ IsFiniteSet(S \cup {x})
      /\ Cardinality(S \cup {x}) = IF x \in S THEN Cardinality(S) ELSE Cardinality(S) + 1
  BY FS_AddElement
<1>3. CASE T = S
  BY <1>1, <1>3
<1>4. CASE T = S \cup {x}
  <2>1. IsFiniteSet(T) /\ Cardinality(T) = IF x \in S THEN Cardinality(S) ELSE Cardinality(S) + 1
    BY <1>2, <1>4
  <2> QED BY <1>1, <2>1
<1> QED BY <1>3, <1>4

-----------------------------------------------------------------------------
\* A step on the challenge g that no call takes part in.
LEMMA ChallengeStep ==
    ASSUME IInv, NEW g \in Challenges, call' = call, counted' = counted, guessed' = guessed,
           TypeOK', expired \subseteq expired',
           \A h \in Challenges \ {g} : key'[h] = key[h] /\ begun'[h] = begun[h],
           begun[g] = "known" => begun'[g] = "known",
           Counts(g)', Stages(g)', Causes(g)'
    PROVE  IInv'
<1>1. ASSUME NEW h
      PROVE  /\ Loading(h)' = Loading(h)
             /\ Through(h)' = Through(h)
             /\ Accepted(h)' = Accepted(h)
             /\ (Spent(h) => Spent(h)')
  BY DEF Loading, Through, Accepted, Spent, On, At
<1>2. ASSUME NEW h \in Challenges \ {g} PROVE Counts(h)' /\ Stages(h)' /\ Causes(h)'
  <2>1. Real(h)' <=> Real(h)
    BY DEF Real
  <2>2. Counts(h) /\ Stages(h) /\ Causes(h) /\ key'[h] = key[h] /\ begun'[h] = begun[h]
    BY DEF IInv
  <2>3. Counts(h)'
    BY <1>1, <2>1, <2>2 DEF Counts
  <2>4. Stages(h)'
    BY <2>1, <2>2 DEF Stages
  <2> QED BY <1>1, <2>1, <2>2, <2>3, <2>4 DEF Causes
<1>3. ASSUME NEW c \in Calls PROVE Calling(c)'
  <2>1. Calling(c) /\ Spent(call[c].on) => Spent(call[c].on)'
    BY <1>1 DEF IInv
  <2> QED BY <1>1 DEF IInv, Calling, At
<1> QED BY <1>2, <1>3 DEF IInv

\* No call is for a challenge whose id is not known yet.
LEMMA NoneThrough ==
    ASSUME IInv, NEW g \in Challenges, begun[g] \in {"no", "stored"}
    PROVE  counted[g] = {} /\ guessed[g] = {} /\ Through(g) = {}
<1>1. counted[g] = {} /\ guessed[g] = {}
  BY DEF IInv, Stages
<1>2. Loading(g) = {}
  BY DEF IInv, Loading, On, Calling
<1> QED BY <1>1, <1>2 DEF Through

\* What the commands of SaveChallenge keep.
LEMMA SaveStep ==
    ASSUME IInv, NEW g \in Challenges, begun[g] \in {"no", "stored"},
           UNCHANGED <<call, expired, counted, guessed>>,
           NEW b \in {"stored", "known", "lost"}, begun' = [begun EXCEPT ![g] = b],
           NEW k \in Hashes \cup {None}, key' = [key EXCEPT ![g] = k],
           k # None => k.attempts = 0 /\ k.fields,
           b = "stored" => k # None /\ ~k.ttl,
           b = "known" => k # None /\ k.ttl
    PROVE  IInv'
<1>1. TypeOK
  BY DEF IInv
<1>2. begun'[g] = b /\ key'[g] = k
  BY <1>1 DEF TypeOK
<1>3. key' \in [Challenges -> Hashes \cup {None}]
  BY <1>1, Kinds
<1>4. TypeOK'
  BY <1>1, <1>3 DEF TypeOK, Hashes
<1>5. counted'[g] = {} /\ guessed'[g] = {} /\ Through(g)' = {}
  BY NoneThrough DEF Through, Loading, On, At
<1>6. Counts(g)'
  <2>1. IsFiniteSet({}) /\ Cardinality({}) = 0 /\ 0 <= MaxAttempts
    BY FS_EmptySet, OtpAssumption
  <2> QED BY <1>2, <1>5, <2>1 DEF Counts, Real
<1>7. Stages(g)'
  BY <1>2, <1>5 DEF Stages
<1>8. Causes(g)'
  BY <1>2 DEF Causes, Real
<1>9. \A h \in Challenges \ {g} : key'[h] = key[h] /\ begun'[h] = begun[h]
  BY <1>1 DEF TypeOK
<1> QED BY <1>4, <1>6, <1>7, <1>8, <1>9, ChallengeStep

\* HSET stores the fields of a challenge, with whatever time to live.
LEMMA Fresh ==
    ASSUME NEW ttl \in BOOLEAN
    PROVE  LET k == Hash(TRUE, 0, ttl) IN
           k \in Hashes /\ k # None /\ k.attempts = 0 /\ k.fields /\ k.ttl = ttl
<1>1. None \notin Hashes
  BY OtpAssumption DEF Hashes
<1>2. Hash(TRUE, 0, ttl) \in Hashes
  BY DEF Hash, Hashes
<1>3. Hash(TRUE, 0, ttl).attempts = 0 /\ Hash(TRUE, 0, ttl).fields
  BY DEF Hash
<1>4. Hash(TRUE, 0, ttl).ttl = ttl
  BY DEF Hash
<1> QED BY <1>1, <1>2, <1>3, <1>4

\* HSET stores a challenge.
LEMMA HSetStep == ASSUME IInv, NEW g \in Challenges, HSet(g) PROVE IInv'
  BY Fresh, SaveStep DEF HSet, history

\* EXPIRE gives it its five minutes.
LEMMA SetTTLStep == ASSUME IInv, NEW g \in Challenges, SetTTL(g) PROVE IInv'
<1> DEFINE k == [key[g] EXCEPT !.ttl = TRUE]
<1>1. key[g] \in Hashes /\ key[g].attempts = 0 /\ key[g].fields
  BY Kinds DEF IInv, Stages, SetTTL
<1>2. k \in Hashes /\ k.attempts = 0 /\ k.fields /\ k.ttl
  BY <1>1 DEF Hashes
<1>3. key' = [key EXCEPT ![g] = k] /\ begun' = [begun EXCEPT ![g] = "known"]
  BY DEF SetTTL
<1> HIDE DEF k
<1> QED BY <1>2, <1>3, Kinds, SaveStep DEF SetTTL, history, IInv

\* A command that fails leaves what was there, or what it was to leave.
LEMMA SaveFailsStep == ASSUME IInv, NEW g \in Challenges, SaveFails(g) PROVE IInv'
<1>1. key[g] \in Hashes \cup {None} /\ (key[g] # None => key[g].attempts = 0 /\ key[g].fields)
  BY Kinds DEF IInv, Stages, SaveFails
<1>2. CASE UNCHANGED key
  <2>1. key' = [key EXCEPT ![g] = key[g]]
    BY <1>2 DEF IInv, TypeOK
  <2> QED BY <1>1, <2>1, SaveStep DEF SaveFails, history
<1>3. CASE key' = [key EXCEPT ![g] = Hash(TRUE, 0, begun[g] = "stored")]
  BY <1>3, Fresh, SaveStep DEF SaveFails, history
<1> QED BY <1>2, <1>3 DEF SaveFails

\* A challenge that is up is gone, and was noted as such.
LEMMA ExpireStep == ASSUME IInv, NEW g \in Challenges, Expire(g) PROVE IInv'
<1>1. TypeOK /\ Stages(g) /\ Counts(g)
  BY DEF IInv
<1>2. key'[g] = None /\ key' \in [Challenges -> Hashes \cup {None}] /\ ~Real(g)'
  BY <1>1, Kinds DEF Expire, Real
<1>3. begun[g] \notin {"no", "stored"}
  BY <1>1 DEF Stages, Expire
<1>4. TypeOK'
  BY <1>1, <1>2 DEF Expire, TypeOK, Hashes
<1>5. Counts(g)'
  BY <1>1, <1>2 DEF Expire, Counts
<1>6. Stages(g)' /\ Causes(g)'
  BY <1>1, <1>2, <1>3 DEF Expire, Stages, Causes, Spent
<1>7. \A h \in Challenges \ {g} : key'[h] = key[h] /\ begun'[h] = begun[h]
  BY <1>1 DEF Expire, TypeOK
<1> QED BY <1>4, <1>5, <1>6, <1>7, ChallengeStep DEF Expire

-----------------------------------------------------------------------------
\* A step of the call c on the challenge h keeps the invariant when it keeps
\* what the invariant says of these two.
LEMMA CallStep ==
    ASSUME IInv, TypeOK', NEW c \in Calls, NEW h \in Challenges,
           begun' = begun, expired' = expired, begun[h] = "known",
           At(c, "idle") \/ call[c].on = h, ~At(c, "accepted"),
           NEW new, call' = [call EXCEPT ![c] = new], new.on = h, new.pc # "idle",
           \A g \in Challenges \ {h} :
               key'[g] = key[g] /\ counted'[g] = counted[g] /\ guessed'[g] = guessed[g],
           counted'[h] = counted[h] \/ counted'[h] = counted[h] \cup {c},
           guessed'[h] = guessed[h] \/ guessed'[h] = guessed[h] \cup {c},
           Counts(h)', Stages(h)', Causes(h)', Calling(c)'
    PROVE  IInv'
<1>1. TypeOK
  BY DEF IInv
<1>2. call'[c] = new /\ \A d \in Calls \ {c} : call'[d] = call[d]
  BY <1>1 DEF TypeOK
<1>3. ASSUME NEW g \in Challenges \ {h}
      PROVE  Loading(g)' = Loading(g) /\ Through(g)' = Through(g) /\ Accepted(g)' = Accepted(g)
  <2>1. Loading(g)' = Loading(g) /\ Accepted(g)' = Accepted(g)
    BY <1>2 DEF Loading, Accepted, On, At
  <2> QED BY <2>1 DEF Through
<1>4. Accepted(h) \subseteq Accepted(h)'
  BY <1>2 DEF Accepted, At
<1>5. /\ Cardinality(counted[h]) \in Nat /\ Cardinality(counted'[h]) \in Nat
      /\ Cardinality(counted[h]) <= Cardinality(counted'[h])
  BY Grows DEF IInv, Counts
<1>6. \A g \in Challenges : Spent(g) => Spent(g)'
  BY <1>3, <1>4, <1>5, OtpAssumption DEF Spent
<1>7. ASSUME NEW g \in Challenges \ {h} PROVE Counts(g)' /\ Stages(g)' /\ Causes(g)'
  <2>1. Real(g)' <=> Real(g)
    BY DEF Real
  <2>2. Counts(g) /\ Stages(g) /\ Causes(g)
    BY DEF IInv
  <2>3. Counts(g)'
    BY <1>3, <2>1, <2>2 DEF Counts
  <2>4. Stages(g)' /\ Causes(g)'
    BY <1>6, <2>1, <2>2 DEF Stages, Causes
  <2> QED BY <2>3, <2>4
<1>8. ASSUME NEW d \in Calls \ {c} PROVE Calling(d)'
  <2>1. Calling(d) /\ call'[d] = call[d]
    BY <1>2 DEF IInv
  <2> QED BY <1>5, <1>6, <2>1, OtpAssumption DEF Calling, At
<1> QED BY <1>7, <1>8 DEF IInv

\* What GoTo makes of a call.
LEMMA Goes ==
    ASSUME TypeOK, NEW c \in Calls, NEW l, GoTo(c, l)
    PROVE  LET new == [call[c] EXCEPT !.pc = l] IN
           /\ call' = [call EXCEPT ![c] = new] /\ call'[c] = new
           /\ new.pc = l /\ new.on = call[c].on /\ new.right = call[c].right
           /\ \A d \in Calls \ {c} : call'[d] = call[d]
  BY DEF TypeOK, GoTo

\* What the invariant says of a call under way and of its challenge.
LEMMA Busy ==
    ASSUME IInv, NEW c \in Calls, ~At(c, "idle")
    PROVE  LET h == call[c].on IN
           /\ h \in Challenges /\ begun[h] = "known" /\ TypeOK
           /\ Counts(h) /\ Stages(h) /\ Causes(h) /\ Calling(c)
  BY DEF IInv, Calling

\* The calls let through when nobody is: the same, or c no more.
LEMMA FewerThrough ==
    ASSUME TypeOK, NEW c \in Calls, NEW h \in Challenges, call[c].on = h,
           NEW new, call' = [call EXCEPT ![c] = new], new.on = h,
           new.pc # "load", guessed' = guessed, Counts(h), Real(h)
    PROVE  /\ IsFiniteSet(Through(h)')
           /\ Cardinality(Through(h)') <= Cardinality(Through(h))
           /\ Cardinality(Through(h)) \in Nat /\ Cardinality(Through(h)') \in Nat
<1>1. call'[c] = new /\ \A d \in Calls \ {c} : call'[d] = call[d]
  BY DEF TypeOK
<1>2. Through(h)' \subseteq Through(h)
  BY <1>1 DEF Through, Loading, On, At
<1>3. IsFiniteSet(Through(h))
  BY DEF Counts
<1> QED BY <1>2, <1>3, FS_Subset, FS_CardinalityType

\* Verify begins a call for a challenge whose id is known.
LEMMA VerifyStep ==
    ASSUME IInv, NEW c \in Calls, NEW h \in Challenges, NEW right \in BOOLEAN, Verify(c, h, right)
    PROVE  IInv'
<1> DEFINE new == [pc |-> "exists", on |-> h, right |-> right]
<1>1. TypeOK /\ Counts(h) /\ Stages(h) /\ Causes(h)
  BY DEF IInv
<1>2. /\ call' = [call EXCEPT ![c] = new] /\ call'[c] = new
      /\ \A d \in Calls \ {c} : call'[d] = call[d]
      /\ UNCHANGED <<begun, key, expired, counted, guessed>> /\ begun[h] = "known" /\ At(c, "idle")
  BY <1>1 DEF Verify, TypeOK, history
<1>3. TypeOK'
  BY <1>1, <1>2 DEF TypeOK
<1>4. Loading(h)' = Loading(h)
  BY <1>2 DEF Loading, On, At
<1>5. Counts(h)'
  BY <1>1, <1>2, <1>4 DEF Counts, Through, Real
<1>6. Accepted(h) \subseteq Accepted(h)'
  BY <1>2 DEF Accepted, At
<1>7. Stages(h)' /\ Causes(h)'
  BY <1>1, <1>2, <1>6 DEF Stages, Causes, Spent, Real
<1>8. c \notin counted[h] \cup guessed[h]
  BY <1>2 DEF IInv, Calling
<1>9. Calling(c)'
  BY <1>2, <1>8 DEF Calling, At
<1>10. new.on = h /\ new.pc # "idle" /\ ~At(c, "accepted")
  BY <1>2 DEF At
<1> HIDE DEF new
<1> QED BY <1>2, <1>3, <1>5, <1>7, <1>9, <1>10, CallStep

\* A step that leaves the hashes alone, and takes c out of the calls let through
\* or leaves it outside.
LEMMA QuietStep ==
    ASSUME IInv, NEW c \in Calls, NEW h, h = call[c].on, ~At(c, "idle"), ~At(c, "accepted"),
           UNCHANGED <<begun, expired, counted, guessed>>,
           key' = key \/ key' = [key EXCEPT ![h] = None],
           NEW l \in {"count", "refused", "accepted", "error"}, GoTo(c, l),
           l = "count" => At(c, "exists"),
           l = "refused" /\ call[c].right => Spent(h),
           key' # key => At(c, "drop") \/ l = "accepted"
    PROVE  IInv'
<1> DEFINE new == [call[c] EXCEPT !.pc = l]
<1>1. /\ h \in Challenges /\ begun[h] = "known" /\ TypeOK
      /\ Counts(h) /\ Stages(h) /\ Causes(h) /\ Calling(c)
  BY Busy
<1>2. /\ call' = [call EXCEPT ![c] = new] /\ call'[c] = new
      /\ new.pc = l /\ new.on = h /\ new.right = call[c].right
      /\ \A d \in Calls \ {c} : call'[d] = call[d]
  BY <1>1, Goes
<1> HIDE DEF new
<1>3. /\ \A g \in Challenges \ {h} : key'[g] = key[g]
      /\ key'[h] = key[h] \/ key'[h] = None
      /\ key' # key => key'[h] = None
      /\ key'[h] = key[h] \/ key' # key
      /\ key' \in [Challenges -> Hashes \cup {None}]
  BY <1>1, Kinds
<1>4. call' \in [Calls -> [pc : {"idle", "exists", "count", "load", "drop", "consume",
                                 "refused", "accepted", "error"},
                           on : Challenges \cup {None}, right : BOOLEAN]]
  BY <1>1 DEF TypeOK, GoTo
<1>5. TypeOK'
  BY <1>1, <1>3, <1>4 DEF TypeOK, Hashes
<1>6. Real(h)' => Real(h) /\ key'[h] = key[h]
  BY <1>3 DEF Real
<1>7. Counts(h)'
  <2>1. key'[h] # None => key'[h] = key[h]
    BY <1>3
  <2>2. Real(h)' => /\ IsFiniteSet(Through(h)') /\ Cardinality(Through(h)') \in Nat
                    /\ Cardinality(Through(h)) \in Nat
                    /\ Cardinality(Through(h)') <= Cardinality(Through(h))
    BY <1>1, <1>2, <1>6, FewerThrough
  <2>3. Real(h)' => key[h].attempts \in Nat
    BY <1>1, <1>6, Kinds DEF Real
  <2> QED BY <1>1, <1>6, <2>1, <2>2, <2>3, OtpAssumption DEF Counts
<1>8. Accepted(h) \subseteq Accepted(h)' /\ (l = "accepted" => c \in Accepted(h)')
  BY <1>1, <1>2 DEF Accepted, At
<1>9. Spent(h) => Spent(h)'
  BY <1>8 DEF Spent
<1>10. Stages(h)'
  BY <1>1, <1>3, <1>6 DEF Stages
<1>11. Causes(h)'
  <2>1. CASE key'[h] = key[h]
    BY <1>1, <1>9, <2>1 DEF Causes, Real
  <2>2. CASE key' # key
    <3>1. CASE At(c, "drop")
      BY <1>1, <3>1 DEF Calling, At, Causes, Spent
    <3>2. CASE l = "accepted"
      BY <1>8, <3>2 DEF Causes, Spent
    <3> QED BY <2>2, <3>1, <3>2
  <2> QED BY <1>3, <2>1, <2>2
<1>12. Calling(c)'
  BY <1>1, <1>2, <1>9 DEF Calling, At
<1> QED BY <1>1, <1>2, <1>3, <1>5, <1>7, <1>10, <1>11, <1>12, CallStep

\* EXISTS lets a call go on, or refuses it because the challenge is gone.
LEMMA ExistsStep == ASSUME IInv, NEW c \in Calls, Exists(c) PROVE IInv'
<1>1. PICK h : h = call[c].on
  OBVIOUS
<1>2. /\ Causes(h) /\ begun[h] = "known" /\ ~At(c, "idle") /\ ~At(c, "accepted")
  BY <1>1, Busy DEF Exists, At
<1>3. CASE key[h] = None
  BY <1>1, <1>2, <1>3, QuietStep DEF Exists, history, Causes, Real
<1>4. CASE key[h] # None
  BY <1>1, <1>2, <1>4, QuietStep DEF Exists, history
<1> QED BY <1>3, <1>4

\* DEL ends a call that found the challenge spent, or that spends it itself.
LEMMA DeleteStep == ASSUME IInv, NEW c \in Calls, Delete(c) PROVE IInv'
<1>1. PICK h : h = call[c].on
  OBVIOUS
<1>2. /\ Calling(c) /\ ~At(c, "idle") /\ ~At(c, "accepted")
  BY Busy DEF Delete, At
<1>3. CASE At(c, "drop")
  BY <1>1, <1>2, <1>3, QuietStep DEF Delete, history, Calling, Spent
<1>4. CASE ~At(c, "drop")
  BY <1>1, <1>2, <1>4, QuietStep DEF Delete, history
<1> QED BY <1>3, <1>4

\* HINCRBY counts a call, and what it does next depends on the count.
LEMMA CountStep ==
    ASSUME IInv, NEW c \in Calls, NEW h, h = call[c].on, At(c, "count"),
           UNCHANGED <<begun, expired, guessed>>,
           key' = [key EXCEPT ![h] = Counted(h)],
           counted' = [counted EXCEPT ![h] = @ \cup {c}],
           NEW l \in {"load", "drop", "error"}, GoTo(c, l),
           l = "load" => Counted(h).attempts <= MaxAttempts,
           l = "drop" => Counted(h).attempts > MaxAttempts
    PROVE  IInv'
<1> DEFINE new == [call[c] EXCEPT !.pc = l]
<1> DEFINE n == IF key[h] = None THEN 1 ELSE key[h].attempts + 1
<1>1. /\ h \in Challenges /\ begun[h] = "known" /\ TypeOK
      /\ Counts(h) /\ Stages(h) /\ Causes(h) /\ Calling(c)
  BY Busy DEF At
<1>2. /\ call' = [call EXCEPT ![c] = new] /\ call'[c] = new
      /\ new.pc = l /\ new.on = h /\ new.right = call[c].right
      /\ \A d \in Calls \ {c} : call'[d] = call[d]
  BY <1>1, Goes
<1> HIDE DEF new
<1>3. /\ Counted(h) \in Hashes /\ Counted(h).attempts = n /\ n \in Nat
      /\ Counted(h).fields <=> Real(h)
      /\ Real(h) => (Counted(h).ttl <=> key[h].ttl) /\ key[h].attempts \in Nat /\ n = key[h].attempts + 1
  <2>1. CASE key[h] = None
    BY <2>1 DEF Counted, Real, Hash, Hashes
  <2>2. CASE key[h] # None
    <3>1. key[h] \in Hashes
      BY <1>1, <2>2, Kinds
    <3>2. Counted(h) = [key[h] EXCEPT !.attempts = @ + 1]
      BY <2>2 DEF Counted
    <3> QED BY <2>2, <3>1, <3>2 DEF Hashes, Real
  <2> QED BY <2>1, <2>2
<1>4. /\ key'[h] = Counted(h) /\ \A g \in Challenges \ {h} : key'[g] = key[g]
      /\ key' \in [Challenges -> Hashes \cup {None}]
      /\ counted'[h] = counted[h] \cup {c} /\ guessed'[h] = guessed[h]
      /\ \A g \in Challenges \ {h} : counted'[g] = counted[g]
  BY <1>1, <1>3, Kinds DEF TypeOK
<1>5. key'[h] # None
  BY <1>1, <1>3, <1>4, Kinds
<1>6. call' \in [Calls -> [pc : {"idle", "exists", "count", "load", "drop", "consume",
                                 "refused", "accepted", "error"},
                           on : Challenges \cup {None}, right : BOOLEAN]]
  BY <1>1 DEF TypeOK, GoTo
<1>7. TypeOK'
  BY <1>1, <1>4, <1>6 DEF TypeOK, Hashes
<1>8. Real(h)' <=> Real(h)
  BY <1>3, <1>4, <1>5 DEF Real
<1>9. /\ IsFiniteSet(counted'[h]) /\ Cardinality(counted'[h]) = Cardinality(counted[h]) + 1
      /\ Cardinality(counted[h]) \in Nat /\ Cardinality(counted'[h]) \in Nat
  <2>1. c \notin counted[h]
    BY <1>1 DEF Calling, At
  <2>2. IsFiniteSet(counted[h])
    BY <1>1 DEF Counts
  <2> QED BY <1>4, <2>1, <2>2, Grows
<1>10. n <= Cardinality(counted'[h])
  BY <1>1, <1>3, <1>9, Kinds DEF Counts
<1>11. ASSUME l = "load" PROVE Counts(h)'
  <2>1. Through(h)' = Through(h) \cup {c}
    BY <1>1, <1>2, <1>4, <1>11 DEF Through, Loading, On, At
  <2>2. Real(h) => /\ IsFiniteSet(Through(h)') /\ Cardinality(Through(h)') <= Cardinality(Through(h)) + 1
                   /\ Cardinality(Through(h)) \in Nat /\ Cardinality(Through(h)') \in Nat
    BY <1>1, <2>1, Grows DEF Counts
  <2> QED BY <1>1, <1>3, <1>4, <1>8, <1>9, <1>10, <1>11, <2>2, OtpAssumption, SMTT(30) DEF Counts
<1>12. ASSUME l # "load" PROVE Counts(h)'
  <2>1. Real(h) => /\ IsFiniteSet(Through(h)') /\ Cardinality(Through(h)') <= Cardinality(Through(h))
                   /\ Cardinality(Through(h)) \in Nat /\ Cardinality(Through(h)') \in Nat
    BY <1>1, <1>2, <1>12, FewerThrough
  <2> QED BY <1>1, <1>3, <1>4, <1>8, <1>9, <1>10, <2>1, OtpAssumption, SMTT(30) DEF Counts
<1>13. Stages(h)'
  BY <1>1, <1>3, <1>4, <1>5, <1>8 DEF Stages
<1>14. Accepted(h) \subseteq Accepted(h)'
  BY <1>1, <1>2 DEF Accepted, At
<1>15. Causes(h)'
  BY <1>1, <1>8, <1>9, <1>14, OtpAssumption DEF Causes, Spent
<1>16. Calling(c)'
  <2>1. l = "load" => c \notin guessed'[h]
    BY <1>1, <1>4 DEF Calling, At
  <2>2. l = "drop" => Cardinality(counted'[h]) > MaxAttempts
    BY <1>3, <1>9, <1>10, OtpAssumption
  <2> QED BY <1>1, <1>2, <2>1, <2>2 DEF Calling, At
<1>17. Counts(h)'
  BY <1>11, <1>12
<1>18. new.pc # "idle" /\ ~At(c, "accepted") /\ guessed' = guessed
  BY <1>2 DEF At
<1> QED BY <1>1, <1>2, <1>4, <1>7, <1>13, <1>15, <1>16, <1>17, <1>18, CallStep

\* HINCRBY lets a call through to the code or sends it away.
LEMMA HIncrByStep == ASSUME IInv, NEW c \in Calls, HIncrBy(c) PROVE IInv'
<1>1. PICK h : h = call[c].on
  OBVIOUS
<1>2. Counted(h).attempts \in Nat
  <2>1. h \in Challenges /\ TypeOK
    BY <1>1, Busy DEF HIncrBy, At
  <2> QED BY <2>1, Kinds DEF Counted, Hash
<1>3. CASE Counted(h).attempts > MaxAttempts
  BY <1>1, <1>3, CountStep DEF HIncrBy
<1>4. CASE ~(Counted(h).attempts > MaxAttempts)
  <2>1. Counted(h).attempts <= MaxAttempts
    BY <1>2, <1>4, OtpAssumption
  <2> QED BY <1>1, <1>4, <2>1, CountStep DEF HIncrBy
<1> QED BY <1>3, <1>4

\* A command that fails ends a call that was not decided yet.
LEMMA VerifyFailsStep == ASSUME IInv, NEW c \in Calls, VerifyFails(c) PROVE IInv'
<1>1. PICK h : h = call[c].on
  OBVIOUS
<1>2. ~At(c, "idle") /\ ~At(c, "accepted")
  BY DEF VerifyFails, At
<1>3. CASE UNCHANGED <<key, counted>>
  BY <1>1, <1>2, <1>3, QuietStep DEF VerifyFails
<1>4. CASE /\ At(c, "count") /\ key' = [key EXCEPT ![h] = Counted(h)]
           /\ counted' = [counted EXCEPT ![h] = @ \cup {c}]
  BY <1>1, <1>4, CountStep DEF VerifyFails
<1>5. \/ UNCHANGED <<key, counted>>
      \/ /\ At(c, "count") /\ key' = [key EXCEPT ![h] = Counted(h)]
         /\ counted' = [counted EXCEPT ![h] = @ \cup {c}]
  BY <1>1 DEF VerifyFails
<1> QED BY <1>3, <1>4, <1>5

\* HGETALL shows a call the code, if it is there, and decides the call.
LEMMA HGetAllStep == ASSUME IInv, NEW c \in Calls, HGetAll(c) PROVE IInv'
<1>1. PICK h : h = call[c].on
  OBVIOUS
<1> DEFINE l == IF Real(h) /\ call[c].right THEN "consume" ELSE "refused"
<1> DEFINE new == [call[c] EXCEPT !.pc = l]
<1>2. At(c, "load") /\ UNCHANGED <<begun, key, expired, counted>> /\ GoTo(c, l)
  BY <1>1 DEF HGetAll, Real
<1>3. /\ h \in Challenges /\ begun[h] = "known" /\ TypeOK
      /\ Counts(h) /\ Stages(h) /\ Causes(h) /\ Calling(c)
  BY <1>1, <1>2, Busy DEF At
<1>4. /\ call' = [call EXCEPT ![c] = new] /\ call'[c] = new
      /\ new.pc = l /\ new.on = h /\ new.right = call[c].right
      /\ \A d \in Calls \ {c} : call'[d] = call[d]
  BY <1>1, <1>2, <1>3, Goes
<1> HIDE DEF new
<1>5. /\ guessed'[h] = IF Real(h) THEN guessed[h] \cup {c} ELSE guessed[h]
      /\ \A g \in Challenges \ {h} : guessed'[g] = guessed[g]
      /\ guessed' \in [Challenges -> SUBSET Calls]
  BY <1>1, <1>3 DEF TypeOK, HGetAll, Real
<1>6. call' \in [Calls -> [pc : {"idle", "exists", "count", "load", "drop", "consume",
                                 "refused", "accepted", "error"},
                           on : Challenges \cup {None}, right : BOOLEAN]]
  BY <1>2, <1>3 DEF TypeOK, GoTo
<1>7. TypeOK'
  BY <1>2, <1>3, <1>5, <1>6 DEF TypeOK
<1>8. Real(h)' <=> Real(h)
  BY <1>2 DEF Real
<1>9. Real(h) => Through(h)' = Through(h)
  BY <1>1, <1>2, <1>4, <1>5 DEF Through, Loading, On, At
<1>10. Counts(h)'
  <2>1. CASE Real(h)
    <3>1. IsFiniteSet(Through(h)) /\ guessed'[h] \subseteq Through(h)
      BY <1>3, <1>9, <2>1 DEF Counts, Through
    <3>2. /\ IsFiniteSet(guessed'[h]) /\ Cardinality(guessed'[h]) <= Cardinality(Through(h))
          /\ Cardinality(guessed'[h]) \in Nat /\ Cardinality(Through(h)) \in Nat
      BY <3>1, FS_Subset, FS_CardinalityType
    <3> QED BY <1>2, <1>3, <1>8, <1>9, <2>1, <3>2, OtpAssumption DEF Counts
  <2>2. CASE ~Real(h)
    BY <1>2, <1>3, <1>5, <1>8, <2>2 DEF Counts
  <2> QED BY <2>1, <2>2
<1>11. Accepted(h)' = Accepted(h)
  BY <1>2, <1>4 DEF Accepted, At
<1>12. Stages(h)' /\ Causes(h)'
  BY <1>2, <1>3, <1>8, <1>11 DEF Stages, Causes, Spent
<1>13. Calling(c)'
  <2>1. call[c].right /\ l = "refused" => Spent(h)
    BY <1>3 DEF Causes
  <2>2. Spent(h)' <=> Spent(h)
    BY <1>2, <1>11 DEF Spent
  <2> QED BY <1>2, <1>3, <1>4, <2>1, <2>2 DEF Calling, At
<1>14. new.pc # "idle" /\ ~At(c, "accepted")
  BY <1>2, <1>4 DEF At
<1>15. guessed'[h] = guessed[h] \/ guessed'[h] = guessed[h] \cup {c}
  BY <1>5
<1> QED BY <1>1, <1>2, <1>3, <1>4, <1>5, <1>7, <1>10, <1>12, <1>13, <1>14, <1>15, CallStep

-----------------------------------------------------------------------------
\* Every step keeps the invariant.
LEMMA StepIInv == IInv /\ [Next]_vars => IInv'
<1> SUFFICES ASSUME IInv, [Next]_vars PROVE IInv'
  OBVIOUS
<1>1. ASSUME NEW h \in Challenges, HSet(h) \/ SetTTL(h) \/ SaveFails(h) \/ Expire(h) PROVE IInv'
  BY <1>1, HSetStep, SetTTLStep, SaveFailsStep, ExpireStep
<1>2. ASSUME NEW c \in Calls, NEW h \in Challenges, NEW right \in BOOLEAN, Verify(c, h, right) PROVE IInv'
  BY <1>2, VerifyStep
<1>3. ASSUME NEW c \in Calls, Exists(c) \/ HIncrBy(c) \/ HGetAll(c) \/ Delete(c) \/ VerifyFails(c)
      PROVE  IInv'
  BY <1>3, ExistsStep, HIncrByStep, HGetAllStep, DeleteStep, VerifyFailsStep
<1>4. CASE UNCHANGED vars
  <2> USE <1>4 DEF vars
  <2>1. TypeOK'
    BY DEF IInv, TypeOK
  <2>2. ASSUME NEW h
        PROVE  /\ Loading(h)' = Loading(h) /\ Through(h)' = Through(h) /\ Accepted(h)' = Accepted(h)
               /\ (Real(h)' <=> Real(h)) /\ (Spent(h)' <=> Spent(h))
    BY DEF Loading, Through, Accepted, Real, Spent, On, At
  <2>3. ASSUME NEW h \in Challenges PROVE Counts(h)' /\ Stages(h)' /\ Causes(h)'
    <3>1. Counts(h) /\ Stages(h) /\ Causes(h)
      BY DEF IInv
    <3>2. Counts(h)'
      BY <2>2, <3>1 DEF Counts
    <3> QED BY <2>2, <3>1, <3>2 DEF Stages, Causes
  <2>4. ASSUME NEW c \in Calls PROVE Calling(c)'
    BY <2>2 DEF IInv, Calling, At
  <2> QED BY <2>1, <2>3, <2>4 DEF IInv
<1> QED BY <1>1, <1>2, <1>3, <1>4 DEF Next

\* The invariant says what the properties ask for: a call that is refused is not
\* one of the calls that spent the challenge, or one of more than enough.
LEMMA IInvSuffices == IInv => TypeOK /\ GuessesBounded /\ RefusedForCause /\ CodeExpires
<1> SUFFICES ASSUME IInv PROVE GuessesBounded /\ RefusedForCause /\ CodeExpires
  BY DEF IInv
<1>1. GuessesBounded
  BY DEF IInv, Counts, GuessesBounded
<1>2. ASSUME NEW c \in Calls, At(c, "refused"), call[c].right, NEW h, h = call[c].on
      PROVE  h \in expired \/ Accepted(h) # {} \/ Cardinality(counted[h] \ {c}) >= MaxAttempts
  <2>1. Spent(h) /\ IsFiniteSet(counted[h])
    BY <1>2, Busy DEF Calling, Counts, At
  <2>2. /\ Cardinality(counted[h]) \in Nat
        /\ Cardinality(counted[h] \ {c}) = IF c \in counted[h] THEN Cardinality(counted[h]) - 1
                                                               ELSE Cardinality(counted[h])
    BY <2>1, FS_RemoveElement, FS_CardinalityType
  <2> QED BY <2>1, <2>2, OtpAssumption DEF Spent
<1>3. RefusedForCause
  BY <1>2 DEF RefusedForCause
<1>4. CodeExpires
  BY DEF IInv, Stages, CodeExpires, Real
<1> QED BY <1>1, <1>3, <1>4

\* The invariant holds throughout.
LEMMA Invariance == Spec => []IInv
BY InitIInv, StepIInv, PTL DEF Spec

\* Whatever verifications of whatever challenges overlap, expire and fail, no
\* more calls than there are attempts learn how their code compares with the
\* real one (otp_store.go:29-90).
THEOREM CodesAreGuarded == Spec => [](TypeOK /\ GuessesBounded)
BY Invariance, IInvSuffices, PTL

\* A right code is refused because it expired, was used or was out of attempts
\* for others, and never because a call of its own got in its way
\* (otp_store.go:59-84).
THEOREM RightCodesAreTaken == Spec => []RefusedForCause
BY Invariance, IInvSuffices, PTL

\* What a client can name has a time to live or holds no code, whichever of the
\* three commands that make it fail (otp_store.go:40-46, 63).
THEOREM ChallengesExpire == Spec => []CodeExpires
BY Invariance, IInvSuffices, PTL

=============================================================================
