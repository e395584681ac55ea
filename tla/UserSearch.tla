------------------------------ MODULE UserSearch ------------------------------
(****************************************************************************)
(* Phone numbers: how registration writes one (normalizePhone of            *)
(* app/auth/service.go), and the search for a user by id, by nickname or by *)
(* the number somebody typed (app/users/search.go), which tries the forms   *)
(* a number may have been stored in one after the other, while others       *)
(* register.                                                                *)
(*                                                                          *)
(* Abstractions: a user is the number he registered with, whose hash is     *)
(* unique; hashes are taken to be as different as what they are made of.    *)
(* A text is a sequence of symbols; those that are neither digits nor a     *)
(* plus sign are all the same.  A user's nickname is his own.               *)
(****************************************************************************)
EXTENDS Sequences, FiniteSets, Naturals

CONSTANTS
    Plus, Other, \* the plus sign, and a symbol that is neither that nor a digit
    Digits,      \* the digits
    Zero,        \* one of them
    Typed,       \* the texts that are typed for a number
    MinDigits,   \* digits a number must have (8 in the code)
    MaxUsers,    \* bound: users
    None

VARIABLES
    users,   \* the registered users
    query,   \* what is searched by and for
    left,    \* the numbers the search has still to look up
    found,   \* the user that was found, or None
    there,   \* the users when the search began
    failed   \* whether a lookup of it failed

vars == <<users, query, left, found, there, failed>>

Symbols == Digits \cup {Plus, Other}

NoQuery == [by |-> "none", for |-> <<>>]

Init ==
    /\ users = {}
    /\ query = NoQuery
    /\ left = {}
    /\ found = None
    /\ there = {}
    /\ failed = FALSE

\* The digits of a text: the k-th of them has k digits up to and including it.
IsDigit(symbol) == symbol \in Digits
Places(s) == {i \in 1..Len(s) : IsDigit(s[i])}
Rank(s, i) == Cardinality({j \in Places(s) : j <= i})
DigitsOf(s) == [k \in 1..Cardinality(Places(s)) |-> s[CHOOSE i \in Places(s) : Rank(s, i) = k]]

International(s) == s # <<>> /\ Head(s) = Plus
HasPrefix00(s) == Len(s) >= 2 /\ s[1] = Zero /\ s[2] = Zero

-----------------------------------------------------------------------------
(* Registration. *)

\* Faulty variants, here and below, show that the properties notice them: the
\* number is stored as it was typed.
AsTyped(s) == s

\* A number that begins with a plus sign is kept as it was typed.
Normal(s) == IF International(s) THEN s ELSE <<Plus>> \o DigitsOf(s)

\* The user of the number is found or made.
Register(s) ==
    /\ Len(DigitsOf(s)) >= MinDigits
    /\ users' = users \cup {Normal(s)}
    /\ Cardinality(users') <= MaxUsers
    /\ UNCHANGED <<query, left, found, there, failed>>

-----------------------------------------------------------------------------
(* Searching. *)

\* Digits, and a plus sign before the first of them.
Cleaned(s) ==
    IF \E i \in 1..Len(s) : s[i] = Plus /\ \A j \in 1..i : ~IsDigit(s[j])
    THEN <<Plus>> \o DigitsOf(s)
    ELSE DigitsOf(s)

\* The zero of a national number is read as the sign of a country.
DialledNational(s) == IF s # <<>> /\ Head(s) = Zero THEN <<Plus>> \o Tail(s) ELSE s

Dialled(s) ==
    IF HasPrefix00(s)
    THEN <<Plus>> \o SubSeq(s, 3, Len(s))
    ELSE s

\* The number is looked for as it stands.
CandidatesPlain(s) == {Dialled(Cleaned(s))} \ {<<>>}

\* The number with a plus sign and without one.
Candidates(s) ==
    LET n == Dialled(Cleaned(s))
    IN IF Cleaned(s) = <<>> THEN {}
       ELSE {n, IF International(n) THEN Tail(n) ELSE <<Plus>> \o n} \ {<<>>}

\* One search: it changes nothing that another would find.
BeginSearch(by, for, numbers) ==
    /\ query = NoQuery
    /\ query' = [by |-> by, for |-> for]
    /\ left' = numbers
    /\ there' = users
    /\ UNCHANGED <<users, found, failed>>

SearchNumber(s) == BeginSearch("number", s, Candidates(s))

\* One's own id is not looked up; one's own nickname is.
SearchId(asker, u) == BeginSearch("id", u, {u} \ {asker})

SearchNickname(u) == BeginSearch("nickname", u, {u})

\* The numbers are taken in any order, and the first that is a user's is it.
Lookup(n) ==
    /\ n \in left
    /\ IF n \in users
       THEN found' = n /\ left' = {}
       ELSE left' = left \ {n} /\ UNCHANGED found
    /\ UNCHANGED <<users, query, there, failed>>

\* A number whose lookup fails is passed over as one that is nobody's; a
\* lookup by id or nickname answers with the error.
LookupFails(n) ==
    /\ n \in left
    /\ left' = left \ {n}
    /\ failed' = TRUE
    /\ UNCHANGED <<users, query, found, there>>

Next ==
    \/ \E s \in Typed : Register(s)
    \/ \E s \in Typed : SearchNumber(s)
    \/ \E u \in users : SearchNickname(u) \/ \E asker \in users : SearchId(asker, u)
    \/ \E n \in left : Lookup(n) \/ LookupFails(n)

Spec == Init /\ [][Next]_vars

-----------------------------------------------------------------------------
(* Properties. *)

\* Every variable holds a value of its kind.
TypeOK ==
    /\ \A u \in users : International(u) /\ Len(DigitsOf(u)) >= MinDigits
    /\ there \subseteq users
    /\ found \in users \cup {None}
    /\ query.by \in {"none", "number", "id", "nickname"}
    /\ found # None => left = {}
    /\ failed \in BOOLEAN

\* A number that was stored with more than a plus sign and digits.
Decorated(u) == Len(u) > Len(DigitsOf(u)) + 1

\* Two users have one number only when one of them typed it with a plus sign
\* and something else than digits in it (auth/service.go:279-291): in every
\* other form the same digits lead to the same user.
OneUserPerNumber ==
    \A u, v \in users : DigitsOf(u) = DigitsOf(v) /\ u # v => Decorated(u) \/ Decorated(v)

\* A search by number finds nobody but the user who has the digits that were
\* typed, less two zeros that stand for a plus sign, whatever order the forms
\* are tried in and whoever registers meanwhile (search.go:66-81 and 122-155).
FoundIsAsked ==
    query.by = "number" /\ found # None =>
        \/ DigitsOf(found) = DigitsOf(query.for)
        \/ <<Zero, Zero>> \o DigitsOf(found) = DigitsOf(query.for)

\* A search that ends with nobody missed a user with the digits that were typed
\* only when a lookup failed, when his number is stored as he typed it, or when
\* it begins with the two zeros.
MissedForCause ==
    query.by = "number" /\ left = {} /\ found = None =>
        \A u \in there : DigitsOf(u) = DigitsOf(query.for) =>
            failed \/ Decorated(u) \/ HasPrefix00(DigitsOf(u))

\* A number, however it is typed, leads to the one user who has it, but for the
\* forms and failures named above (auth/service.go:279-291, search.go:66-155).
NumberNamesUser == OneUserPerNumber /\ FoundIsAsked /\ MissedForCause
=============================================================================
