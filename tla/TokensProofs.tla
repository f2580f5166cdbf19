---------------------------- MODULE TokensProofs ----------------------------
(***************************************************************************)
(* Proofs about Tokens, for all ids, texts and lengths of time: the two    *)
(* versions of the claims understand each other's tokens.                  *)
(***************************************************************************)
EXTENDS Tokens, TLAPS

\* What a token says of its user is said under every name it has; v1's are
\* always there.  This is what rewriting by either version preserves: that a
\* reader finds the user now says nothing about the names the next one needs.
AccessNames(w) ==
    /\ w \in Objects
    /\ w.UserID = user.ID /\ w.id \in {user.ID, Absent}
    /\ w.IsVerify = user.IsVerify /\ w.is_verify \in {user.IsVerify, Absent}

RefreshNames(w) ==
    /\ w \in Objects
    /\ w.UserID = user.ID /\ w.id \in {user.ID, Absent}
    /\ EmailOf(w) = user.Email

AllOfUser(w) == UnmarshalAccess2(w) = user

IInv ==
    /\ TypeOK
    /\ pc # "none" => /\ Invalid \notin {Lifetimes(version).access, Lifetimes(version).refresh}
                      /\ AccessNames(access.claims)
    /\ pc = "issued" => RefreshNames(refresh.claims)
    /\ pc # "none" /\ version = "v2" /\ "v1" \notin readBy => AllOfUser(access.claims)

USE TextsAssumption, TimeAssumption, BoundsAssumption

\* Ids, texts and flags are never taken for a missing name.
LEMMA NotAbsent ==
    /\ \A x \in IDs : x # Absent
    /\ \A x \in Texts : x # Absent
    /\ \A x \in BOOLEAN : x # Absent
  BY DEF IDs

\* The JSON of either version is an object that tells its user by v1's names.
LEMMA AccessWritten ==
    ASSUME NEW v \in Versions, NEW c \in Users
    PROVE  LET w == MarshalAccess(v, c) IN
           /\ w \in Objects
           /\ w.UserID = c.ID /\ w.id \in {c.ID, Absent}
           /\ w.IsVerify = c.IsVerify /\ w.is_verify \in {c.IsVerify, Absent}
<1>1. CASE v = "v1"
  BY <1>1, Zenon DEF Users, Objects, MarshalAccess, MarshalAccess1, EmptyObject
<1>2. CASE v = "v2"
  BY <1>2 DEF Users, Objects, MarshalAccess, MarshalAccess2, OmitEmpty
<1> QED BY <1>1, <1>2 DEF Versions

LEMMA RefreshWritten ==
    ASSUME NEW v \in Versions, NEW c, c.ID \in IDs, c.Email \in Texts
    PROVE  LET w == MarshalRefresh(v, c) IN
           /\ w \in Objects
           /\ w.UserID = c.ID /\ w.id \in {c.ID, Absent}
           /\ EmailOf(w) = c.Email
<1>1. CASE v = "v1"
  BY <1>1, NotAbsent DEF Objects, MarshalRefresh, MarshalRefresh1, EmptyObject, EmailOf, Value
<1>2. CASE v = "v2"
  BY <1>2, NotAbsent DEF Objects, MarshalRefresh, MarshalRefresh2, EmptyObject, EmailOf, Value
<1> QED BY <1>1, <1>2 DEF Versions

\* Either version reads from such an object the user it is about.
LEMMA AccessRead ==
    ASSUME NEW v \in Versions, NEW w \in Objects, NEW id \in IDs, NEW verify \in BOOLEAN,
           w.UserID = id, w.id \in {id, Absent},
           w.IsVerify = verify, w.is_verify \in {verify, Absent}
    PROVE  /\ UnmarshalAccess(v, w) \in Users
           /\ UnmarshalAccess(v, w).ID = id
           /\ UnmarshalAccess(v, w).IsVerify = verify
<1>1. UnmarshalID(w) = id /\ Value(w.UserID, 0) = id
  BY NotAbsent DEF UnmarshalID, Value, IDs
<1>2. Value(w.IsVerify, FALSE) = verify /\ Value(w.is_verify, FALSE) \in {verify, FALSE}
  BY NotAbsent DEF Value
<1>3. /\ Value(w.onboarding_id, 0) \in IDs /\ 0 \in IDs
      /\ EmailOf(w) \in Texts /\ Value(w.role, NoText) \in Texts
  BY DEF Objects, Value, EmailOf, IDs
<1>4. Value(w.is_verify, FALSE) \/ Value(w.IsVerify, FALSE) <=> verify
  BY <1>2, Zenon
<1>5. CASE v = "v1"
  BY <1>1, <1>2, <1>3, <1>5 DEF UnmarshalAccess, UnmarshalAccess1, Users
<1>6. CASE v = "v2"
  BY <1>1, <1>3, <1>4, <1>6, Zenon DEF UnmarshalAccess, UnmarshalAccess2, Users
<1> QED BY <1>5, <1>6 DEF Versions

LEMMA RefreshRead ==
    ASSUME NEW v \in Versions, NEW w \in Objects, NEW id \in IDs,
           w.UserID = id, w.id \in {id, Absent}
    PROVE  UnmarshalRefresh(v, w) = [ID |-> id, Email |-> EmailOf(w)]
<1>1. UnmarshalID(w) = id /\ Value(w.UserID, 0) = id
  BY NotAbsent DEF UnmarshalID, Value, IDs
<1> QED BY <1>1 DEF UnmarshalRefresh, UnmarshalRefresh1, UnmarshalRefresh2, Versions

\* v2 reads all it wrote, empty values included.
LEMMA OwnRoundTrip ==
    ASSUME NEW c \in Users
    PROVE  UnmarshalAccess2(MarshalAccess2(c)) = c
<1> DEFINE w == MarshalAccess2(c)
<1>1. UnmarshalID(w) = c.ID
  BY NotAbsent DEF MarshalAccess2, UnmarshalID, Value, Users, IDs
<1>2. /\ Value(w.onboarding_id, 0) = c.OnboardingID
      /\ EmailOf(w) = c.Email /\ Value(w.role, NoText) = c.Role
  BY NotAbsent DEF MarshalAccess2, OmitEmpty, Value, EmailOf, Users
<1>3. Value(w.is_verify, FALSE) = c.IsVerify /\ Value(w.IsVerify, FALSE) = c.IsVerify
  BY NotAbsent DEF MarshalAccess2, Value, Users
<1>4. (Value(w.is_verify, FALSE) \/ Value(w.IsVerify, FALSE)) = c.IsVerify
  BY <1>3 DEF Users
<1> HIDE DEF w
<1>5. UnmarshalAccess2(w) = [ID |-> c.ID, OnboardingID |-> c.OnboardingID, Email |-> c.Email,
                             Role |-> c.Role, IsVerify |-> c.IsVerify]
  BY <1>1, <1>2, <1>4 DEF UnmarshalAccess2
<1> QED BY <1>5 DEF w, Users

-----------------------------------------------------------------------------
\* The users of the model, and what v1 knows of them.
LEMMA KnownUser ==
    ASSUME NEW v \in Versions, NEW u \in Users
    PROVE  Known(v, u) \in Users
<1>1. 0 \in IDs /\ u.ID \in IDs /\ u.Email \in Texts
  BY DEF IDs, Users
<1>2. CASE v = "v1"
  BY <1>1, <1>2 DEF Known, NoUser, Users
<1>3. CASE v = "v2"
  BY <1>3 DEF Known
<1> QED BY <1>2, <1>3 DEF Versions

\* A date is a natural number, so is every exp.
LEMMA ExpType ==
    ASSUME NEW life \in Nat, now \in Nat
    PROVE  ExpiresAt(life) \in Nat
<1>1. (now + life) % Second \in 0 .. Second - 1 /\ (now + life) % Second <= now + life
  OBVIOUS
<1> QED BY <1>1 DEF ExpiresAt, NumericDate

LEMMA LifetimeType ==
    ASSUME NEW v \in Versions, JwtExpire \in Durations, JwtRefreshExpire \in Durations,
           Invalid \notin {Lifetimes(v).access, Lifetimes(v).refresh}
    PROVE  Lifetimes(v).access \in Nat /\ Lifetimes(v).refresh \in Nat
BY ConfigAssumption DEF Lifetimes, Lifetime, Durations, Versions

LEMMA InitInvariant == Init => IInv
<1> SUFFICES ASSUME Init PROVE IInv
  OBVIOUS
<1>1. 0 \in IDs
  BY DEF IDs
<1>2. user \in Users
  BY <1>1 DEF Init, NoUser, Users
<1>3. EmptyObject \in Objects
  BY DEF EmptyObject, Objects
<1>4. {access, refresh} \subseteq [claims : Objects, exp : Nat]
  BY <1>3 DEF Init, NoToken
<1> QED BY <1>2, <1>4 DEF Init, IInv, TypeOK, Versions

LEMMA GenerateTokensStep ==
    ASSUME IInv, NEW v \in Versions, NEW u \in Users, GenerateTokens(v, u)
    PROVE  IInv'
<1> DEFINE w == MarshalAccess(v, Known(v, u))
           k == Known(v, u)
<1>1. k \in Users
  BY KnownUser
<1>2. /\ w \in Objects
      /\ w.UserID = k.ID /\ w.id \in {k.ID, Absent}
      /\ w.IsVerify = k.IsVerify /\ w.is_verify \in {k.IsVerify, Absent}
  BY <1>1, AccessWritten
<1>3. ExpiresAt(Lifetimes(v).access) \in Nat
  BY LifetimeType, ExpType DEF IInv, TypeOK, GenerateTokens
<1>4. v = "v2" => UnmarshalAccess2(w) = k
  BY <1>1, OwnRoundTrip DEF MarshalAccess
<1>5. w.UserID # Absent
  BY <1>1, <1>2, NotAbsent DEF Users
<1> HIDE DEF w, k
<1>6. /\ pc' = "signing" /\ version' = v /\ user' = k
      /\ access' = [claims |-> w, exp |-> ExpiresAt(Lifetimes(v).access)]
      /\ UNCHANGED <<now, JwtExpire, JwtRefreshExpire, refresh, readBy>>
  BY DEF GenerateTokens, w, k
<1>7. TypeOK'
  BY <1>1, <1>2, <1>3, <1>5, <1>6 DEF IInv, TypeOK
<1>8. AccessNames(access.claims)'
  BY <1>2, <1>6 DEF AccessNames
<1>9. (version = "v2" => AllOfUser(access.claims))'
  BY <1>4, <1>6 DEF AllOfUser
<1>10. (Invalid \notin {Lifetimes(version).access, Lifetimes(version).refresh})'
  BY <1>6 DEF GenerateTokens, Lifetimes, Lifetime
<1> QED BY <1>6, <1>7, <1>8, <1>9, <1>10 DEF IInv

LEMMA GenerateRefreshStep == IInv /\ GenerateRefresh => IInv'
<1> SUFFICES ASSUME IInv, GenerateRefresh PROVE IInv'
  OBVIOUS
<1> DEFINE w == MarshalRefresh(version, user)
<1>1. user.ID \in IDs /\ user.Email \in Texts /\ version \in Versions
  BY DEF IInv, TypeOK, Users
<1>2. /\ w \in Objects
      /\ w.UserID = user.ID /\ w.id \in {user.ID, Absent}
      /\ EmailOf(w) = user.Email
  BY <1>1, RefreshWritten
<1>3. ExpiresAt(Lifetimes(version).refresh) \in Nat
  BY LifetimeType, ExpType DEF IInv, TypeOK, GenerateRefresh
<1>4. w.UserID # Absent
  BY <1>1, <1>2, NotAbsent
<1> HIDE DEF w
<1>5. /\ pc = "signing" /\ pc' = "issued"
      /\ refresh' = [claims |-> w, exp |-> ExpiresAt(Lifetimes(version).refresh)]
      /\ UNCHANGED <<now, JwtExpire, JwtRefreshExpire, version, user, access, readBy>>
  BY DEF GenerateRefresh, w
<1>6. TypeOK'
  BY <1>2, <1>3, <1>4, <1>5 DEF IInv, TypeOK
<1>7. RefreshNames(refresh.claims)' /\ AccessNames(access.claims)'
  BY <1>2, <1>5 DEF IInv, RefreshNames, AccessNames
<1>8. (Invalid \notin {Lifetimes(version).access, Lifetimes(version).refresh})'
  BY <1>5 DEF IInv, Lifetimes, Lifetime
<1>9. (version = "v2" /\ "v1" \notin readBy => AllOfUser(access.claims))'
  BY <1>5 DEF IInv, AllOfUser
<1> QED BY <1>5, <1>6, <1>7, <1>8, <1>9 DEF IInv

LEMMA RewriteAccessStep ==
    ASSUME IInv, NEW v \in Versions, RewriteAccess(v)
    PROVE  IInv'
<1> DEFINE c == UnmarshalAccess(v, access.claims)
           w == MarshalAccess(v, c)
<1>1. /\ AccessNames(access.claims) /\ user.ID \in IDs /\ user.IsVerify \in BOOLEAN
      /\ access.claims \in Objects
  BY DEF IInv, TypeOK, RewriteAccess, Users
<1>2. c \in Users /\ c.ID = user.ID /\ c.IsVerify = user.IsVerify
  BY <1>1, AccessRead DEF AccessNames
<1>3. /\ w \in Objects
      /\ w.UserID = user.ID /\ w.id \in {user.ID, Absent}
      /\ w.IsVerify = user.IsVerify /\ w.is_verify \in {user.IsVerify, Absent}
  <2> HIDE DEF c
  <2> QED BY <1>2, AccessWritten
<1>4. w.UserID # Absent
  BY <1>1, <1>3, NotAbsent
<1>5. v = "v2" => c = UnmarshalAccess2(access.claims) /\ UnmarshalAccess2(w) = c
  <2>1. UnmarshalAccess2(MarshalAccess2(c)) = c
    <3> HIDE DEF c
    <3> QED BY <1>2, OwnRoundTrip
  <2> QED BY <2>1 DEF UnmarshalAccess, MarshalAccess
<1> HIDE DEF c, w
<1>6. /\ pc = "issued" /\ access' = [access EXCEPT !.claims = w] /\ readBy' = readBy \cup {v}
      /\ UNCHANGED <<now, JwtExpire, JwtRefreshExpire, pc, version, user, refresh>>
  BY DEF RewriteAccess, w, c
<1>7. access'.claims = w /\ access' \in [claims : Objects, exp : Nat]
  BY <1>3, <1>6 DEF IInv, TypeOK
<1>8. TypeOK'
  BY <1>3, <1>4, <1>6, <1>7 DEF IInv, TypeOK
<1>9. AccessNames(access.claims)' /\ RefreshNames(refresh.claims)'
  BY <1>3, <1>6, <1>7 DEF IInv, AccessNames, RefreshNames
<1>10. (Invalid \notin {Lifetimes(version).access, Lifetimes(version).refresh})'
  BY <1>6 DEF IInv, Lifetimes, Lifetime
<1>11. (version = "v2" /\ "v1" \notin readBy => AllOfUser(access.claims))'
  BY <1>5, <1>6, <1>7 DEF IInv, AllOfUser, Versions
<1> QED BY <1>6, <1>8, <1>9, <1>10, <1>11 DEF IInv

LEMMA RewriteRefreshStep ==
    ASSUME IInv, NEW v \in Versions, RewriteRefresh(v)
    PROVE  IInv'
<1> DEFINE c == UnmarshalRefresh(v, refresh.claims)
           w == MarshalRefresh(v, c)
<1>1. /\ RefreshNames(refresh.claims) /\ user.ID \in IDs /\ user.Email \in Texts
      /\ refresh.claims \in Objects
  BY DEF IInv, TypeOK, RewriteRefresh, RefreshNames, Users
<1>2. c = [ID |-> user.ID, Email |-> user.Email]
  BY <1>1, RefreshRead DEF RefreshNames
<1>3. /\ w \in Objects
      /\ w.UserID = user.ID /\ w.id \in {user.ID, Absent}
      /\ EmailOf(w) = user.Email
  <2> HIDE DEF c
  <2> QED BY <1>1, <1>2, RefreshWritten
<1>4. w.UserID # Absent
  BY <1>1, <1>3, NotAbsent
<1> HIDE DEF c, w
<1>5. /\ pc = "issued" /\ refresh' = [refresh EXCEPT !.claims = w]
      /\ UNCHANGED <<now, JwtExpire, JwtRefreshExpire, pc, version, user, access, readBy>>
  BY DEF RewriteRefresh, w, c
<1>6. refresh'.claims = w /\ refresh' \in [claims : Objects, exp : Nat]
  BY <1>3, <1>5 DEF IInv, TypeOK
<1>7. TypeOK'
  BY <1>4, <1>5, <1>6 DEF IInv, TypeOK
<1>8. AccessNames(access.claims)' /\ RefreshNames(refresh.claims)'
  BY <1>3, <1>5, <1>6 DEF IInv, AccessNames, RefreshNames
<1>9. (Invalid \notin {Lifetimes(version).access, Lifetimes(version).refresh})'
  BY <1>5 DEF IInv, Lifetimes, Lifetime
<1>10. (version = "v2" /\ "v1" \notin readBy => AllOfUser(access.claims))'
  BY <1>5 DEF IInv, AllOfUser
<1> QED BY <1>5, <1>7, <1>8, <1>9, <1>10 DEF IInv

LEMMA TickStep == IInv /\ (Tick \/ UNCHANGED vars) => IInv'
<1> SUFFICES ASSUME IInv, Tick \/ UNCHANGED vars PROVE IInv'
  OBVIOUS
<1>1. /\ now' \in Nat
      /\ UNCHANGED <<JwtExpire, JwtRefreshExpire, pc, version, user, access, refresh, readBy>>
  BY DEF IInv, TypeOK, Tick, vars
<1>2. TypeOK'
  BY <1>1 DEF IInv, TypeOK
<1> QED BY <1>1, <1>2 DEF IInv, AccessNames, RefreshNames, AllOfUser, Lifetimes, Lifetime

LEMMA Invariance == Spec => []IInv
<1>1. IInv /\ [Next]_vars => IInv'
  BY TickStep, GenerateTokensStep, GenerateRefreshStep, RewriteAccessStep, RewriteRefreshStep
  DEF Next
<1> QED BY <1>1, InitInvariant, PTL DEF Spec

\* The tokens are what the claims of the two versions can be read from, for
\* every set of ids and texts: GenerateTokens and both Marshal functions
\* always write the name v1 looks for.
THEOREM TypeCorrect == Spec => []TypeOK
BY Invariance, PTL DEF IInv

\* Every token pair keeps its user through any sequence of v1 and v2 services
\* (MarshalJSON, UnmarshalJSON and v1's struct fields), for every id, text
\* and configuration.
THEOREM IdentityTheorem == Spec => []IdentityKept
<1>1. IInv => IdentityKept
  <2> SUFFICES ASSUME IInv, NEW v \in Versions
               PROVE  /\ pc # "none" => /\ UnmarshalAccess(v, access.claims).ID = user.ID
                                        /\ UnmarshalAccess(v, access.claims).IsVerify = user.IsVerify
                      /\ pc = "issued" => UnmarshalRefresh(v, refresh.claims)
                                              = [ID |-> user.ID, Email |-> user.Email]
    BY DEF IdentityKept
  <2>1. user.ID \in IDs /\ user.IsVerify \in BOOLEAN
    BY DEF IInv, TypeOK, Users
  <2>2. ASSUME pc # "none"
        PROVE  /\ UnmarshalAccess(v, access.claims).ID = user.ID
               /\ UnmarshalAccess(v, access.claims).IsVerify = user.IsVerify
    BY <2>1, <2>2, AccessRead DEF IInv, AccessNames
  <2>3. ASSUME pc = "issued"
        PROVE  UnmarshalRefresh(v, refresh.claims) = [ID |-> user.ID, Email |-> user.Email]
    BY <2>1, <2>3, RefreshRead DEF IInv, RefreshNames
  <2> QED BY <2>2, <2>3
<1> QED BY <1>1, Invariance, PTL

\* v2's UnmarshalJSON gives back what its MarshalJSON was given, with
\* omitempty in between, however often v2 services repeat it.
THEOREM AuthorizationTheorem == Spec => []AuthorizationKept
<1>1. IInv => AuthorizationKept
  BY DEF IInv, AuthorizationKept, AllOfUser
<1> QED BY <1>1, Invariance, PTL

-----------------------------------------------------------------------------
\* The refresh token is made after the access token, by a later clock; cut to
\* seconds, exp still follows the clock.
ExpInv ==
    /\ pc = "signing" => access.exp <= ExpiresAt(Lifetimes(version).access)
    /\ pc = "issued" /\ Lifetimes(version).access <= Lifetimes(version).refresh
           => access.exp <= refresh.exp

LEMMA DateMonotone ==
    ASSUME NEW t \in Nat, NEW u \in Nat, t <= u
    PROVE  NumericDate(t) <= NumericDate(u)
BY DEF NumericDate

LEMMA ExpStep == IInv /\ IInv' /\ ExpInv /\ [Next]_vars => ExpInv'
<1> SUFFICES ASSUME IInv, IInv', ExpInv, [Next]_vars PROVE ExpInv'
  OBVIOUS
<1> DEFINE A == Lifetimes(version).access
           R == Lifetimes(version).refresh
<1>1. now \in Nat /\ version \in Versions
  BY DEF IInv, TypeOK
<1>2. pc # "none" => A \in Nat /\ R \in Nat
  BY <1>1, LifetimeType DEF IInv, TypeOK
<1>3. CASE Tick \/ UNCHANGED vars
  <2>1. /\ now' \in Nat /\ now <= now'
        /\ UNCHANGED <<JwtExpire, JwtRefreshExpire, pc, version, access, refresh>>
    BY <1>1, <1>3 DEF Tick, vars
  <2>2. UNCHANGED <<A, R>>
    BY <2>1 DEF Lifetimes, Lifetime
  <2>3. ASSUME pc = "signing" PROVE access.exp <= ExpiresAt(A)'
    <3>1. NumericDate(now + A) <= NumericDate(now' + A)
      <4> HIDE DEF A
      <4> QED BY <1>1, <1>2, <2>1, <2>3, DateMonotone
    <3>2. ExpiresAt(A)' = NumericDate(now' + A)
      BY <2>2 DEF ExpiresAt, NumericDate
    <3>3. /\ access.exp \in Nat /\ ExpiresAt(A) \in Nat /\ access.exp <= ExpiresAt(A)
      <4> HIDE DEF A
      <4> QED BY <1>1, <1>2, <2>3, ExpType DEF IInv, TypeOK, ExpInv, A
    <3>4. NumericDate(now' + A) \in Nat
      <4>1. ExpiresAt(A)' \in Nat
        <5>1. now' + A \in Nat /\ (now' + A) % Second <= now' + A /\ (now' + A) % Second \in Nat
          BY <1>2, <2>1, <2>3
        <5> QED BY <3>2, <5>1 DEF NumericDate
      <4> QED BY <3>2, <4>1
    <3> QED BY <3>1, <3>2, <3>3, <3>4 DEF ExpiresAt
  <2> QED BY <2>1, <2>2, <2>3 DEF ExpInv
<1>4. ASSUME NEW v \in Versions, NEW u \in Users, GenerateTokens(v, u) PROVE ExpInv'
  <2>1. /\ pc' = "signing" /\ version' = v
        /\ access'.exp = ExpiresAt(Lifetimes(v).access)
        /\ UNCHANGED <<now, JwtExpire, JwtRefreshExpire>>
    BY <1>4 DEF GenerateTokens
  <2>2. ExpiresAt(Lifetimes(version).access)' = ExpiresAt(Lifetimes(v).access)
    BY <2>1 DEF ExpiresAt, NumericDate, Lifetimes, Lifetime
  <2>3. access'.exp \in Nat
    BY DEF IInv, TypeOK
  <2> QED BY <2>1, <2>2, <2>3 DEF ExpInv
<1>5. CASE GenerateRefresh
  <2>1. /\ pc = "signing" /\ pc' = "issued" /\ refresh'.exp = ExpiresAt(R)
        /\ UNCHANGED <<JwtExpire, JwtRefreshExpire, version, access>>
    BY <1>5 DEF GenerateRefresh
  <2>2. UNCHANGED <<A, R>>
    BY <2>1 DEF Lifetimes, Lifetime
  <2>3. ASSUME A <= R PROVE access.exp <= refresh'.exp
    <3>1. ExpiresAt(A) <= ExpiresAt(R) /\ ExpiresAt(A) \in Nat /\ ExpiresAt(R) \in Nat
      <4> HIDE DEF A, R
      <4> QED BY <1>1, <1>2, <2>1, <2>3, DateMonotone, ExpType DEF ExpiresAt
    <3>2. access.exp \in Nat /\ access.exp <= ExpiresAt(A)
      BY <2>1 DEF IInv, TypeOK, ExpInv
    <3> HIDE DEF A, R
    <3> QED BY <2>1, <3>1, <3>2
  <2> QED BY <2>1, <2>2, <2>3 DEF ExpInv
<1>6. ASSUME NEW v \in Versions, RewriteAccess(v) \/ RewriteRefresh(v) PROVE ExpInv'
  <2>1. /\ pc = "issued" /\ access'.exp = access.exp /\ refresh'.exp = refresh.exp
        /\ UNCHANGED <<JwtExpire, JwtRefreshExpire, pc, version>>
    BY <1>6 DEF RewriteAccess, RewriteRefresh, IInv, TypeOK
  <2>2. UNCHANGED <<A, R>>
    BY <2>1 DEF Lifetimes, Lifetime
  <2> QED BY <2>1, <2>2 DEF ExpInv
<1> QED BY <1>3, <1>4, <1>5, <1>6 DEF Next

\* The refresh token of a pair is valid as long as its access token, for every
\* pair of configured lifetimes in that order and every precision of exp, and
\* however long GenerateTokens takes between the two.
THEOREM RefreshTheorem == Spec => []RefreshOutlivesAccess
<1>1. Init => ExpInv
  BY DEF Init, ExpInv
<1>2. IInv /\ ExpInv => RefreshOutlivesAccess
  <2> SUFFICES ASSUME IInv, ExpInv, pc = "issued", Valid(access),
                      \/ version = "v1"
                      \/ JwtExpire = Unset /\ JwtRefreshExpire = Unset
                      \/ Unset \notin {JwtExpire, JwtRefreshExpire} /\ JwtExpire <= JwtRefreshExpire
               PROVE  Valid(refresh)
    BY DEF RefreshOutlivesAccess
  <2>1. Lifetimes(version).access <= Lifetimes(version).refresh
    <3>1. Hour <= 10 * Hour
      OBVIOUS
    <3>2. CASE version = "v1"
      BY <3>1, <3>2 DEF Lifetimes
    <3>3. CASE version # "v1" /\ JwtExpire = Unset /\ JwtRefreshExpire = Unset
      BY <3>1, <3>3 DEF Lifetimes, Lifetime
    <3>4. CASE /\ version # "v1"
               /\ Unset \notin {JwtExpire, JwtRefreshExpire} /\ JwtExpire <= JwtRefreshExpire
      BY <3>4 DEF Lifetimes, Lifetime
    <3> QED BY <3>2, <3>3, <3>4
  <2>2. access.exp \in Nat /\ refresh.exp \in Nat /\ now \in Nat
    BY DEF IInv, TypeOK
  <2> QED BY <2>1, <2>2 DEF ExpInv, Valid
<1> QED BY <1>1, <1>2, ExpStep, Invariance, PTL DEF Spec
=============================================================================
