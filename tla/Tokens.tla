------------------------------- MODULE Tokens -------------------------------
(***************************************************************************)
(* The token pairs of security/jwt.go (v1) and security/v2/jwt.go (v2) in  *)
(* a fleet that runs both: GenerateTokens of either version, and services  *)
(* of either version that read the claims and write them into a token of   *)
(* their own.  What travels is JSON, whose names differ between versions.  *)
(*                                                                         *)
(* A claim set is abstracted to what a user is known by; v1's Username and *)
(* RoleID are never filled.  Signing does not fail and all services hold   *)
(* the key.  encoding/json is external: a name of the object goes to the   *)
(* field of that name, or to the one that differs from it in case only;    *)
(* a field without a name in the object keeps its zero value.  So is the   *)
(* parser of the JWT library, which refuses a token from its exp on.       *)
(***************************************************************************)
EXTENDS Integers

CONSTANTS
    Texts,      \* e-mail addresses and roles
    NoText,     \* ""
    Absent,     \* the value of a name the object does not have
    Unset,      \* an environment variable that is empty
    Invalid,    \* one that time.ParseDuration refuses
    Hour,       \* in ticks of the clock, as is
    Second,     \* the precision of exp
    MaxID,      \* bound: user and onboarding ids
    MaxNow      \* bound: the clock

ASSUME TextsAssumption == NoText \in Texts /\ Absent \notin Texts \cup Nat \cup BOOLEAN
ASSUME ConfigAssumption == Unset \notin Nat /\ Invalid \notin Nat /\ Unset # Invalid
ASSUME TimeAssumption == Hour \in Nat \ {0} /\ Second \in Nat \ {0}
ASSUME BoundsAssumption == MaxID \in Nat /\ MaxNow \in Nat

IDs   == 0 .. MaxID
Users == [ID : IDs, OnboardingID : IDs, Email : Texts, Role : Texts, IsVerify : BOOLEAN]

\* JWT_EXPIRE and JWT_REFRESH_EXPIRE.
Durations == {Unset, Invalid} \cup {Second - 1, Hour, 2 * Hour}

VARIABLES
    now,
    JwtExpire, JwtRefreshExpire,    \* v2's configuration
    pc,         \* none, signing (the access token is made, the refresh token is not), issued
    version,    \* the version that issues the pair
    user,       \* the user it is for
    access, refresh,    \* the JSON of the tokens and their exp
    readBy      \* history: the versions that have read and rewritten the access token

vars == <<now, JwtExpire, JwtRefreshExpire, pc, version, user, access, refresh, readBy>>

-----------------------------------------------------------------------------
(* Claims and JSON                                                         *)

EmptyObject == [id |-> Absent, UserID |-> Absent, onboarding_id |-> Absent, email |-> Absent,
                Email |-> Absent, role |-> Absent, is_verify |-> Absent, IsVerify |-> Absent]

Value(x, zero) == IF x = Absent THEN zero ELSE x

\* The field "email" or "Email": the two names differ in case only.
EmailOf(w) == IF w.email # Absent THEN w.email ELSE Value(w.Email, NoText)

OmitEmpty(x, zero) == IF x = zero THEN Absent ELSE x

\* v1 has no JSON names of its own: those of the struct fields.
MarshalAccess1(c) == [EmptyObject EXCEPT !.UserID = c.ID, !.IsVerify = c.IsVerify]
UnmarshalAccess1(w) ==
    [ID |-> Value(w.UserID, 0), OnboardingID |-> 0, Email |-> NoText, Role |-> NoText,
     IsVerify |-> Value(w.IsVerify, FALSE)]

MarshalRefresh1(c) == [EmptyObject EXCEPT !.UserID = c.ID, !.Email = c.Email]
UnmarshalRefresh1(w) == [ID |-> Value(w.UserID, 0), Email |-> EmailOf(w)]

\* accessWire: v2's names, and those of v1 beside them.
MarshalAccess2(c) ==
    [id |-> c.ID, onboarding_id |-> OmitEmpty(c.OnboardingID, 0),
     email |-> OmitEmpty(c.Email, NoText), Email |-> Absent, role |-> OmitEmpty(c.Role, NoText),
     is_verify |-> c.IsVerify, UserID |-> c.ID, IsVerify |-> c.IsVerify]

\* Variant: v1's name is not looked at.
UnmarshalOwnID(w) == Value(w.id, 0)
UnmarshalID(w) == IF Value(w.id, 0) = 0 THEN Value(w.UserID, 0) ELSE w.id

\* Variant: the role is not copied.
UnmarshalNoRole(w) ==
    [ID |-> UnmarshalID(w), OnboardingID |-> Value(w.onboarding_id, 0), Email |-> EmailOf(w),
     Role |-> NoText, IsVerify |-> Value(w.is_verify, FALSE) \/ Value(w.IsVerify, FALSE)]
UnmarshalAccess2(w) ==
    [ID |-> UnmarshalID(w), OnboardingID |-> Value(w.onboarding_id, 0), Email |-> EmailOf(w),
     Role |-> Value(w.role, NoText),
     IsVerify |-> Value(w.is_verify, FALSE) \/ Value(w.IsVerify, FALSE)]

MarshalRefresh2(c) == [EmptyObject EXCEPT !.id = c.ID, !.email = c.Email, !.UserID = c.ID]
UnmarshalRefresh2(w) == [ID |-> UnmarshalID(w), Email |-> EmailOf(w)]

MarshalAccess(v, c)    == IF v = "v1" THEN MarshalAccess1(c) ELSE MarshalAccess2(c)
UnmarshalAccess(v, w)  == IF v = "v1" THEN UnmarshalAccess1(w) ELSE UnmarshalAccess2(w)
MarshalRefresh(v, c)   == IF v = "v1" THEN MarshalRefresh1(c) ELSE MarshalRefresh2(c)
UnmarshalRefresh(v, w) == IF v = "v1" THEN UnmarshalRefresh1(w) ELSE UnmarshalRefresh2(w)

-----------------------------------------------------------------------------
Versions == {"v1", "v2"}
NoUser   == [ID |-> 0, OnboardingID |-> 0, Email |-> NoText, Role |-> NoText, IsVerify |-> FALSE]
NoToken  == [claims |-> EmptyObject, exp |-> 0]

Init ==
    /\ now = 0
    /\ JwtExpire \in Durations /\ JwtRefreshExpire \in Durations
    /\ pc = "none" /\ version = "v1" /\ user = NoUser
    /\ access = NoToken /\ refresh = NoToken /\ readBy = {}

Tick ==
    /\ now < MaxNow /\ now' = now + 1
    /\ UNCHANGED <<JwtExpire, JwtRefreshExpire, pc, version, user, access, refresh, readBy>>

\* The lifetimes of the two tokens.  Variant: the defaults are swapped.
Lifetime(d, default) == IF d = Unset THEN default ELSE d
LifetimesSwapped(v)  == [access  |-> IF v = "v1" THEN Hour ELSE Lifetime(JwtExpire, 10 * Hour),
                         refresh |-> IF v = "v1" THEN 10 * Hour ELSE Lifetime(JwtRefreshExpire, Hour)]
Lifetimes(v)         == [access  |-> IF v = "v1" THEN Hour ELSE Lifetime(JwtExpire, Hour),
                         refresh |-> IF v = "v1" THEN 10 * Hour ELSE Lifetime(JwtRefreshExpire, 10 * Hour)]

\* jwt.NewNumericDate cuts the time to whole seconds.
NumericDate(t)    == t - (t % Second)
ExpiresAt(life)   == NumericDate(now + life)

\* The fields v1's GenerateTokens knows.
Known(v, u) == IF v = "v1" THEN [NoUser EXCEPT !.ID = u.ID, !.Email = u.Email] ELSE u

\* GenerateTokens makes the access token ...
GenerateTokens(v, u) ==
    /\ pc = "none"
    /\ Invalid \notin {Lifetimes(v).access, Lifetimes(v).refresh}
    /\ pc' = "signing" /\ version' = v /\ user' = Known(v, u)
    /\ access' = [claims |-> MarshalAccess(v, Known(v, u)), exp |-> ExpiresAt(Lifetimes(v).access)]
    /\ UNCHANGED <<now, JwtExpire, JwtRefreshExpire, refresh, readBy>>

\* ... then the refresh token, by the clock of then.
GenerateRefresh ==
    /\ pc = "signing" /\ pc' = "issued"
    /\ refresh' = [claims |-> MarshalRefresh(version, user),
                   exp |-> ExpiresAt(Lifetimes(version).refresh)]
    /\ UNCHANGED <<now, JwtExpire, JwtRefreshExpire, version, user, access, readBy>>

\* A service parses a token with the claim type of its version and puts the
\* claims, exp included, into a token it signs.
Valid(token) == now < token.exp

RewriteAccess(v) ==
    /\ pc = "issued" /\ Valid(access)
    /\ access' = [access EXCEPT !.claims = MarshalAccess(v, UnmarshalAccess(v, @))]
    /\ readBy' = readBy \cup {v}
    /\ UNCHANGED <<now, JwtExpire, JwtRefreshExpire, pc, version, user, refresh>>

RewriteRefresh(v) ==
    /\ pc = "issued" /\ Valid(refresh)
    /\ refresh' = [refresh EXCEPT !.claims = MarshalRefresh(v, UnmarshalRefresh(v, @))]
    /\ UNCHANGED <<now, JwtExpire, JwtRefreshExpire, pc, version, user, access, readBy>>

Next ==
    \/ Tick
    \/ \E v \in Versions, u \in Users : GenerateTokens(v, u)
    \/ GenerateRefresh
    \/ \E v \in Versions : RewriteAccess(v) \/ RewriteRefresh(v)

Spec == Init /\ [][Next]_vars

-----------------------------------------------------------------------------
Objects == [id : IDs \cup {Absent}, UserID : IDs \cup {Absent}, onboarding_id : IDs \cup {Absent},
            email : Texts \cup {Absent}, Email : Texts \cup {Absent}, role : Texts \cup {Absent},
            is_verify : BOOLEAN \cup {Absent}, IsVerify : BOOLEAN \cup {Absent}]

\* Every variable stays in its type; a token of the fleet always has the name
\* under which v1 looks for its user.
TypeOK ==
    /\ now \in Nat /\ user \in Users /\ {JwtExpire, JwtRefreshExpire} \subseteq Durations
    /\ pc \in {"none", "signing", "issued"} /\ version \in Versions /\ readBy \subseteq Versions
    /\ {access, refresh} \subseteq [claims : Objects, exp : Nat]
    /\ pc # "none" => access.claims.UserID # Absent
    /\ pc = "issued" => refresh.claims.UserID # Absent

\* Whichever versions issued a pair and rewrote it since, in whatever order,
\* a service of either version reads the same user from both tokens, verified
\* or not as when it was issued, and the e-mail address of the refresh token.
IdentityKept ==
    \A v \in Versions :
        /\ pc # "none" => /\ UnmarshalAccess(v, access.claims).ID = user.ID
                          /\ UnmarshalAccess(v, access.claims).IsVerify = user.IsVerify
        /\ pc = "issued" => UnmarshalRefresh(v, refresh.claims) = [ID |-> user.ID, Email |-> user.Email]

\* An access token that v1 neither issued nor rewrote keeps all that v2 put
\* into it, empty values included.
AuthorizationKept ==
    pc # "none" /\ version = "v2" /\ "v1" \notin readBy =>
        UnmarshalAccess2(access.claims) = user

\* A client can renew its access token when it expires: the refresh token is
\* valid as long, with the defaults and with any durations in that order,
\* wherever the clock is when each of the two is made.
RefreshOutlivesAccess ==
    pc = "issued" /\ (\/ version = "v1"
                      \/ JwtExpire = Unset /\ JwtRefreshExpire = Unset
                      \/ Unset \notin {JwtExpire, JwtRefreshExpire} /\ JwtExpire <= JwtRefreshExpire)
        => (Valid(access) => Valid(refresh))
=============================================================================
