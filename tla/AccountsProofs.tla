--------------------------- MODULE AccountsProofs ---------------------------
(***************************************************************************)
(* What the lock-out guarantees although its counters are read and written *)
(* without a lock, and what becomes of bearer tokens: for any number of    *)
(* users, addresses, logins, browsers and calls.                           *)
(***************************************************************************)
EXTENDS AuthTokens, FiniteSetTheorems, TLAPS

-----------------------------------------------------------------------------
(* Signing in: types.                                                       *)

LEMMA FreeTypes == Free \in LoginStates /\ NeverFailed \in Rows
  BY LockoutAssumption DEF Free, LoginStates, NeverFailed, Rows

\* Every variable keeps its type.
THEOREM TypesHold == Spec => []TypeOK
<1>1. Init => TypeOK
  <2> SUFFICES ASSUME Init PROVE TypeOK
    OBVIOUS
  <2>1. user \in [Users -> Rows] /\ login \in [Logins -> LoginStates]
    BY FreeTypes DEF Init
  <2>2. now \in Nat /\ wrongs \in [Users -> Nat] /\ streak \in [Users -> Nat]
    BY DEF Init
  <2>3. overlap \in BOOLEAN
    BY DEF Init
  <2> QED
    BY <2>1, <2>2, <2>3 DEF TypeOK
<1>2. TypeOK /\ [Next]_vars => TypeOK'
  <2> SUFFICES ASSUME TypeOK, [Next]_vars PROVE TypeOK'
    OBVIOUS
  <2> USE LockoutAssumption DEF TypeOK
  <2>1. CASE UNCHANGED vars
    BY <2>1 DEF vars
  <2>2. CASE Tick
    BY <2>2 DEF Tick
  <2>3. ASSUME NEW l \in Logins, NEW a \in Addresses, NEW fits \in SUBSET Users,
               Submit(l, a, fits)
        PROVE  TypeOK'
    BY <2>3, FreeTypes DEF Submit, LoginStates, Free
  <2>4. ASSUME NEW l \in Logins, NEW u \in Users, SkipLocked(l, u)
        PROVE  TypeOK'
    <3>1. login[l] \in LoginStates
      OBVIOUS
    <3>2. [login[l] EXCEPT !.todo = @ \ {u}] \in LoginStates
      BY <3>1 DEF LoginStates
    <3>3. login' = [login EXCEPT ![l] = [login[l] EXCEPT !.todo = @ \ {u}]]
      BY <2>4 DEF SkipLocked
    <3> QED
      BY <2>4, <3>2, <3>3 DEF SkipLocked
  <2>5. ASSUME NEW l \in Logins, NEW u \in Users, Verify(l, u)
        PROVE  TypeOK'
    <3>1. RowSeen(l, u) \in Rows
      BY <2>5 DEF RowSeen, LoginStates
    <3> QED
      BY <2>5, <3>1 DEF Verify, LoginStates
  <2>6. ASSUME NEW l \in Logins, SignIn(l)
        PROVE  TypeOK'
    <3>1. login[l].at \in Users => Cleared(l) \in Rows
      BY <2>6 DEF Cleared, Rows, LoginStates
    <3> QED
      BY <2>6, <3>1, FreeTypes DEF SignIn, LoginStates
  <2>7. ASSUME NEW l \in Logins, WrongPassword(l)
        PROVE  TypeOK'
    <3>1. login[l].at \in Users => Charged(l) \in Rows
      BY <2>7 DEF Charged, Rows, LoginStates
    <3>2. login[l] \in LoginStates
      OBVIOUS
    <3>3. [login[l] EXCEPT !.pc = "next", !.expired = TRUE] \in LoginStates
      BY <3>2 DEF LoginStates
    <3>4. login' = [login EXCEPT ![l] = [login[l] EXCEPT !.pc = "next", !.expired = TRUE]]
      BY <2>7 DEF WrongPassword
    <3>5. login' \in [Logins -> LoginStates]
      BY <3>3, <3>4
    <3>6. login[l].at \in Users
          => /\ user' \in [Users -> Rows]
             /\ wrongs' \in [Users -> Nat] /\ streak' \in [Users -> Nat]
      BY <2>7, <3>1 DEF WrongPassword
    <3>7. login[l].at \notin Users
          => /\ user' \in [Users -> Rows]
             /\ wrongs' \in [Users -> Nat] /\ streak' \in [Users -> Nat]
      BY <2>7 DEF WrongPassword
    <3> QED
      BY <2>7, <3>5, <3>6, <3>7 DEF WrongPassword
  <2>8. ASSUME NEW l \in Logins, Refuse(l)
        PROVE  TypeOK'
    BY <2>8, FreeTypes DEF Refuse
  <2> QED
    BY <2>1, <2>2, <2>3, <2>4, <2>5, <2>6, <2>7, <2>8 DEF Next
<1> QED
  BY <1>1, <1>2, PTL DEF Spec

-----------------------------------------------------------------------------
(* No early lock.                                                           *)

\* Every counter that is stored, or that a login has read and may write back,
\* is at most the number of wrong passwords; a lock that is stored was earned.
CountersOK ==
  /\ \A u \in Users : /\ user[u].attempts <= wrongs[u]
                      /\ user[u].until # 0 => wrongs[u] >= Threshold
  /\ \A l \in Logins : \A u \in Users : login[l].loaded[u].attempts <= wrongs[u]
  /\ \A l \in Logins : login[l].pc = "verify" =>
       login[l].at \in Users /\ login[l].seen.attempts <= wrongs[login[l].at]

LEMMA CountersStart == Init => CountersOK
  BY LockoutAssumption DEF Init, CountersOK, Free, NeverFailed

LEMMA CountersStep == TypeOK /\ CountersOK /\ [Next]_vars => CountersOK'
<1> SUFFICES ASSUME TypeOK, CountersOK, [Next]_vars PROVE CountersOK'
  OBVIOUS
<1> USE LockoutAssumption
<1>1. CASE UNCHANGED vars
  BY <1>1 DEF vars, CountersOK
<1>2. CASE Tick
  BY <1>2 DEF Tick, CountersOK
<1>3. ASSUME NEW l \in Logins, NEW a \in Addresses, NEW fits \in SUBSET Users,
             Submit(l, a, fits)
      PROVE  CountersOK'
  <2>1. login'[l].pc = "next" /\ login'[l].loaded = user
    BY <1>3 DEF Submit, Free, TypeOK
  <2>2. \A x \in Logins : x # l => login'[x] = login[x]
    BY <1>3 DEF Submit, TypeOK
  <2> QED
    BY <1>3, <2>1, <2>2 DEF Submit, CountersOK
<1>4. ASSUME NEW l \in Logins, NEW u \in Users, SkipLocked(l, u)
      PROVE  CountersOK'
  <2>1. login'[l].pc = "next" /\ login'[l].loaded = login[l].loaded
    BY <1>4 DEF SkipLocked, TypeOK, LoginStates
  <2>2. \A x \in Logins : x # l => login'[x] = login[x]
    BY <1>4 DEF SkipLocked, TypeOK
  <2> QED
    BY <1>4, <2>1, <2>2 DEF SkipLocked, CountersOK
<1>5. ASSUME NEW l \in Logins, NEW u \in Users, Verify(l, u)
      PROVE  CountersOK'
  <2>1. /\ login'[l].loaded = login[l].loaded
        /\ login'[l].at = u /\ login'[l].seen = RowSeen(l, u)
    BY <1>5 DEF Verify, TypeOK, LoginStates
  <2>2. \A x \in Logins : x # l => login'[x] = login[x]
    BY <1>5 DEF Verify, TypeOK
  <2>3. RowSeen(l, u).attempts <= wrongs[u]
    BY DEF RowSeen, CountersOK
  <2> QED
    BY <1>5, <2>1, <2>2, <2>3 DEF Verify, CountersOK
<1>6. ASSUME NEW l \in Logins, SignIn(l)
      PROVE  CountersOK'
  <2> DEFINE v == login[l].at
  <2>1. v \in Users
    BY <1>6 DEF SignIn, CountersOK
  <2>2. user' = [user EXCEPT ![v] = Cleared(l)] /\ wrongs' = wrongs
    BY <1>6 DEF SignIn
  <2>3. /\ Cleared(l).attempts \in {0, user[v].attempts}
        /\ Cleared(l).until \in {0, user[v].until}
    BY DEF Cleared
  <2>4. login'[l] = Free /\ \A x \in Logins : x # l => login'[x] = login[x]
    BY <1>6 DEF SignIn, TypeOK
  <2>5. \A u \in Users : /\ user'[u].attempts <= wrongs[u]
                         /\ user'[u].until # 0 => wrongs[u] >= Threshold
    BY <2>1, <2>2, <2>3 DEF CountersOK, TypeOK, Rows
  <2>6. /\ login'[l].pc = "free"
        /\ \A u \in Users : login'[l].loaded[u].attempts = 0 /\ wrongs[u] \in Nat
    BY <2>4 DEF Free, NeverFailed, TypeOK
  <2>7. \A x \in Logins : \A u \in Users : login'[x].loaded[u].attempts <= wrongs[u]
    BY <2>4, <2>6 DEF CountersOK
  <2>8. \A x \in Logins : login'[x].pc = "verify" =>
          login'[x].at \in Users /\ login'[x].seen.attempts <= wrongs[login'[x].at]
    BY <2>4, <2>6 DEF CountersOK
  <2> HIDE DEF v
  <2> QED
    BY <2>2, <2>5, <2>7, <2>8 DEF CountersOK
<1>7. ASSUME NEW l \in Logins, WrongPassword(l)
      PROVE  CountersOK'
  <2> DEFINE v == login[l].at
  <2>1. v \in Users /\ login[l].seen.attempts <= wrongs[v]
    BY <1>7 DEF WrongPassword, CountersOK
  <2>2. /\ user' = [user EXCEPT ![v] = Charged(l)]
        /\ wrongs' = [wrongs EXCEPT ![v] = @ + 1]
    BY <1>7 DEF WrongPassword
  <2>3. login[l].seen.attempts \in Nat /\ wrongs[v] \in Nat
    BY <2>1 DEF TypeOK, LoginStates, Rows
  <2>4. /\ Charged(l).attempts <= wrongs[v] + 1
        /\ Charged(l).until # 0 => wrongs[v] + 1 >= Threshold
    BY <2>1, <2>3 DEF Charged, CountersOK
  <2>5. \A u \in Users : wrongs'[u] \in Nat /\ wrongs[u] \in Nat /\ wrongs'[u] >= wrongs[u]
    BY <2>2 DEF TypeOK
  <2>6. \A u \in Users : /\ user'[u].attempts <= wrongs'[u]
                         /\ user'[u].until # 0 => wrongs'[u] >= Threshold
    <3> SUFFICES ASSUME NEW u \in Users
                 PROVE  /\ user'[u].attempts <= wrongs'[u]
                        /\ user'[u].until # 0 => wrongs'[u] >= Threshold
      OBVIOUS
    <3>1. CASE u = v
      BY <3>1, <2>2, <2>4 DEF TypeOK
    <3>2. CASE u # v
      BY <3>2, <2>2 DEF CountersOK, TypeOK
    <3> QED
      BY <3>1, <3>2
  <2>7. /\ login'[l].pc = "next" /\ login'[l].loaded = login[l].loaded
        /\ \A x \in Logins : x # l => login'[x] = login[x]
    BY <1>7 DEF WrongPassword, TypeOK, LoginStates
  <2>8. \A x \in Logins : \A u \in Users : login'[x].loaded[u].attempts <= wrongs'[u]
    <3> SUFFICES ASSUME NEW x \in Logins, NEW u \in Users
                 PROVE  login'[x].loaded[u].attempts <= wrongs'[u]
      OBVIOUS
    <3>1. login'[x].loaded = login[x].loaded
      BY <2>7
    <3>2. /\ login[x].loaded[u].attempts \in Nat
          /\ login[x].loaded[u].attempts <= wrongs[u]
      BY DEF CountersOK, TypeOK, LoginStates, Rows
    <3> QED
      BY <3>1, <3>2, <2>5
  <2>9. \A x \in Logins : login'[x].pc = "verify" =>
          login'[x].at \in Users /\ login'[x].seen.attempts <= wrongs'[login'[x].at]
    <3> SUFFICES ASSUME NEW x \in Logins, login'[x].pc = "verify"
                 PROVE  login'[x].at \in Users
                        /\ login'[x].seen.attempts <= wrongs'[login'[x].at]
      OBVIOUS
    <3>1. login'[x] = login[x]
      BY <2>7
    <3>2. /\ login[x].at \in Users /\ login[x].seen.attempts \in Nat
          /\ login[x].seen.attempts <= wrongs[login[x].at]
      BY <3>1 DEF CountersOK, TypeOK, LoginStates, Rows
    <3> QED
      BY <3>1, <3>2, <2>5
  <2> QED
    BY <2>6, <2>8, <2>9 DEF CountersOK
<1>8. ASSUME NEW l \in Logins, Refuse(l)
      PROVE  CountersOK'
  <2>1. login'[l] = Free /\ \A x \in Logins : x # l => login'[x] = login[x]
    BY <1>8 DEF Refuse, TypeOK
  <2> QED
    BY <1>8, <2>1 DEF Refuse, CountersOK, Free, NeverFailed, TypeOK
<1> QED
  BY <1>1, <1>2, <1>3, <1>4, <1>5, <1>6, <1>7, <1>8 DEF Next

\* An account is never locked before Threshold wrong passwords were tried on it.
THEOREM LocksAreEarned == Spec => []NoEarlyLock
<1>1. CountersOK => NoEarlyLock
  BY DEF CountersOK, NoEarlyLock
<1>2. Spec => []CountersOK
  BY TypesHold, CountersStart, CountersStep, PTL DEF Spec
<1> QED
  BY <1>1, <1>2, PTL

-----------------------------------------------------------------------------
(* Locked rows rest.                                                        *)

\* A login that hashes a password has found the row unlocked when it began.
FoundOpen ==
  \A l \in Logins : /\ login[l].began <= now
                    /\ login[l].pc = "verify" => login[l].seen.until <= login[l].began

LEMMA FoundOpenStart == Init => FoundOpen
  BY DEF Init, FoundOpen, Free

LEMMA FoundOpenStep == TypeOK /\ FoundOpen /\ [Next]_vars => FoundOpen'
<1> SUFFICES ASSUME TypeOK, FoundOpen, [Next]_vars PROVE FoundOpen'
  OBVIOUS
<1>1. CASE UNCHANGED vars
  BY <1>1 DEF vars, FoundOpen
<1>2. CASE Tick
  <2>1. \A l \in Logins : login[l].began \in Nat
    BY DEF TypeOK, LoginStates
  <2> QED
    BY <1>2, <2>1 DEF Tick, FoundOpen, TypeOK
<1>3. ASSUME NEW l \in Logins, NEW a \in Addresses, NEW fits \in SUBSET Users,
             Submit(l, a, fits)
      PROVE  FoundOpen'
  <2>1. login'[l].pc = "next" /\ login'[l].began = now
    BY <1>3 DEF Submit, Free, TypeOK
  <2>2. \A x \in Logins : x # l => login'[x] = login[x]
    BY <1>3 DEF Submit, TypeOK
  <2> QED
    BY <1>3, <2>1, <2>2 DEF Submit, FoundOpen, TypeOK
<1>4. ASSUME NEW l \in Logins, NEW u \in Users, SkipLocked(l, u)
      PROVE  FoundOpen'
  <2>1. login'[l].pc = "next" /\ login'[l].began = login[l].began
    BY <1>4 DEF SkipLocked, TypeOK, LoginStates
  <2>2. \A x \in Logins : x # l => login'[x] = login[x]
    BY <1>4 DEF SkipLocked, TypeOK
  <2> QED
    BY <1>4, <2>1, <2>2 DEF SkipLocked, FoundOpen
<1>5. ASSUME NEW l \in Logins, NEW u \in Users, Verify(l, u)
      PROVE  FoundOpen'
  <2>1. login'[l].began = login[l].began /\ login'[l].seen = RowSeen(l, u)
    BY <1>5 DEF Verify, TypeOK, LoginStates
  <2>2. \A x \in Logins : x # l => login'[x] = login[x]
    BY <1>5 DEF Verify, TypeOK
  <2>3. RowSeen(l, u).until \in Nat /\ login[l].began \in Nat
    BY DEF RowSeen, TypeOK, LoginStates, Rows
  <2>4. RowSeen(l, u).until <= login[l].began
    BY <1>5, <2>3 DEF Verify, Locked
  <2> QED
    BY <1>5, <2>1, <2>2, <2>4 DEF Verify, FoundOpen
<1>6. ASSUME NEW l \in Logins, SignIn(l) \/ Refuse(l)
      PROVE  FoundOpen'
  <2>1. login'[l] = Free /\ \A x \in Logins : x # l => login'[x] = login[x]
    BY <1>6 DEF SignIn, Refuse, TypeOK
  <2> QED
    BY <1>6, <2>1 DEF SignIn, Refuse, FoundOpen, Free, TypeOK
<1>7. ASSUME NEW l \in Logins, WrongPassword(l)
      PROVE  FoundOpen'
  <2>1. login'[l].pc = "next" /\ login'[l].began = login[l].began
    BY <1>7 DEF WrongPassword, TypeOK, LoginStates
  <2>2. \A x \in Logins : x # l => login'[x] = login[x]
    BY <1>7 DEF WrongPassword, TypeOK
  <2> QED
    BY <1>7, <2>1, <2>2 DEF WrongPassword, FoundOpen
<1> QED
  BY <1>1, <1>2, <1>3, <1>4, <1>5, <1>6, <1>7 DEF Next

\* What LockedRowsRest says of one step.
Rests ==
  \A u \in Users : user[u].until > now /\ user'[u] # user[u] =>
    \E l \in Logins : /\ login[l].pc = "verify" /\ login[l].at = u
                      /\ login[l].seen.until # user[u].until

\* The row of a locked account is written only by a login that had read it
\* before it was locked.
THEOREM LockedRowsStay == Spec => LockedRowsRest
<1>1. TypeOK /\ FoundOpen /\ [Next]_vars => [Rests]_vars
  <2> SUFFICES ASSUME TypeOK, FoundOpen, Next,
                      NEW u \in Users, user[u].until > now, user'[u] # user[u]
               PROVE  \E l \in Logins :
                        /\ login[l].pc = "verify" /\ login[l].at = u
                        /\ login[l].seen.until # user[u].until
    BY DEF Rests
  <2>1. PICK l \in Logins : SignIn(l) \/ WrongPassword(l)
    BY DEF Next, Tick, Submit, SkipLocked, Verify, Refuse
  <2>2. login[l].pc = "verify"
    BY <2>1 DEF SignIn, WrongPassword
  <2>3. login[l].at = u
    BY <2>1 DEF SignIn, WrongPassword, TypeOK
  <2>4. /\ login[l].seen.until <= login[l].began /\ login[l].began <= now
        /\ login[l].seen.until \in Nat /\ login[l].began \in Nat
        /\ user[u].until \in Nat /\ now \in Nat
    BY <2>2 DEF FoundOpen, TypeOK, LoginStates, Rows
  <2>5. login[l].seen.until # user[u].until
    BY <2>4
  <2> QED
    BY <2>2, <2>3, <2>5
<1>2. Spec => []FoundOpen
  BY TypesHold, FoundOpenStart, FoundOpenStep, PTL DEF Spec
<1> QED
  BY <1>1, <1>2, TypesHold, PTL DEF Spec, LockedRowsRest, Rests

-----------------------------------------------------------------------------
(* Logins one at a time.                                                    *)

\* What the counter says of one user.
Counted(u) ==
  /\ user[u].attempts = streak[u]
  /\ streak[u] >= Threshold => user[u].until # 0

\* As long as no two logins were in flight at once, the only one there is has
\* read what is still stored.
AloneOK ==
  ~overlap =>
    /\ \A l, x \in Logins : login[l].pc # "free" /\ login[x].pc # "free" => l = x
    /\ \A l \in Logins : login[l].pc # "free" /\ ~login[l].expired => login[l].loaded = user
    /\ \A l \in Logins : login[l].pc = "verify" =>
         login[l].at \in Users /\ login[l].seen = user[login[l].at]
    /\ \A u \in Users : Counted(u)

LEMMA AloneStart == Init => AloneOK
  BY LockoutAssumption DEF Init, AloneOK, Counted, Free, NeverFailed

LEMMA AloneStep == TypeOK /\ AloneOK /\ [Next]_vars => AloneOK'
<1> SUFFICES ASSUME TypeOK, AloneOK, [Next]_vars PROVE AloneOK'
  OBVIOUS
<1> USE LockoutAssumption
<1>1. CASE UNCHANGED vars
  BY <1>1 DEF vars, AloneOK, Counted
<1>2. CASE Tick
  BY <1>2 DEF Tick, AloneOK, Counted
<1>3. ASSUME NEW l \in Logins, NEW a \in Addresses, NEW fits \in SUBSET Users,
             Submit(l, a, fits)
      PROVE  AloneOK'
  <2>1. login'[l].pc = "next" /\ login'[l].loaded = user
    BY <1>3 DEF Submit, Free, TypeOK
  <2>2. \A x \in Logins : x # l => login'[x] = login[x]
    BY <1>3 DEF Submit, TypeOK
  <2>3. ~overlap' => ~overlap /\ \A x \in Logins : login[x].pc = "free"
    BY <1>3 DEF Submit
  <2> QED
    BY <1>3, <2>1, <2>2, <2>3 DEF Submit, AloneOK, Counted
<1>4. ASSUME NEW l \in Logins, NEW u \in Users, SkipLocked(l, u)
      PROVE  AloneOK'
  <2>1. /\ login'[l].pc = "next" /\ login'[l].loaded = login[l].loaded
        /\ login'[l].expired = login[l].expired
    BY <1>4 DEF SkipLocked, TypeOK, LoginStates
  <2>2. \A x \in Logins : x # l => login'[x] = login[x]
    BY <1>4 DEF SkipLocked, TypeOK
  <2>3. login[l].pc = "next"
    BY <1>4 DEF SkipLocked
  <2> QED
    BY <1>4, <2>1, <2>2, <2>3 DEF SkipLocked, AloneOK, Counted
<1>5. ASSUME NEW l \in Logins, NEW u \in Users, Verify(l, u)
      PROVE  AloneOK'
  <2> SUFFICES ASSUME ~overlap PROVE AloneOK'
    BY <1>5 DEF Verify, AloneOK
  <2>1. /\ login'[l].pc = "verify" /\ login'[l].loaded = login[l].loaded
        /\ login'[l].expired = login[l].expired
        /\ login'[l].at = u /\ login'[l].seen = RowSeen(l, u)
    BY <1>5 DEF Verify, TypeOK, LoginStates
  <2>2. login[l].pc = "next" /\ user' = user /\ streak' = streak
    BY <1>5 DEF Verify
  <2>3. RowSeen(l, u) = user[u]
    BY <2>2 DEF RowSeen, AloneOK
  <2>4. \A x \in Logins : login'[x].pc # "free" => x = l
    BY <1>5, <2>2 DEF Verify, AloneOK, TypeOK
  <2>5. ~login'[l].expired => login'[l].loaded = user'
    BY <2>1, <2>2 DEF AloneOK
  <2>6. login'[l].at \in Users /\ login'[l].seen = user'[login'[l].at]
    BY <2>1, <2>2, <2>3
  <2>7. \A x \in Users : Counted(x)'
    BY <2>2 DEF AloneOK, Counted
  <2> QED
    BY <2>4, <2>5, <2>6, <2>7 DEF AloneOK
<1>6. ASSUME NEW l \in Logins, SignIn(l)
      PROVE  AloneOK'
  <2> SUFFICES ASSUME ~overlap PROVE AloneOK'
    BY <1>6 DEF SignIn, AloneOK
  <2> DEFINE v == login[l].at
  <2>1. v \in Users /\ login[l].seen = user[v] /\ \A u \in Users : Counted(u)
    BY <1>6 DEF SignIn, AloneOK
  <2>2. Cleared(l).attempts = 0
    BY <2>1 DEF Cleared
  <2>3. /\ user' = [user EXCEPT ![v] = Cleared(l)]
        /\ streak' = [streak EXCEPT ![v] = 0]
    BY <1>6 DEF SignIn
  <2>4. \A x \in Logins : login'[x].pc = "free"
    BY <1>6 DEF SignIn, AloneOK, Free, TypeOK
  <2>5. \A u \in Users : Counted(u)'
    BY <2>1, <2>2, <2>3 DEF Counted, TypeOK
  <2> HIDE DEF v
  <2> QED
    BY <2>4, <2>5 DEF AloneOK
<1>7. ASSUME NEW l \in Logins, WrongPassword(l)
      PROVE  AloneOK'
  <2> SUFFICES ASSUME ~overlap PROVE AloneOK'
    BY <1>7 DEF WrongPassword, AloneOK
  <2> DEFINE v == login[l].at
  <2>1. v \in Users /\ login[l].seen = user[v] /\ \A u \in Users : Counted(u)
    BY <1>7 DEF WrongPassword, AloneOK
  <2>2. streak[v] \in Nat /\ login[l].began + LockTime # 0
    BY <2>1 DEF TypeOK, LoginStates
  <2>3. /\ Charged(l).attempts = streak[v] + 1
        /\ streak[v] + 1 >= Threshold => Charged(l).until # 0
    BY <2>1, <2>2 DEF Charged, Counted
  <2>4. /\ user' = [user EXCEPT ![v] = Charged(l)]
        /\ streak' = [streak EXCEPT ![v] = @ + 1]
    BY <1>7 DEF WrongPassword
  <2>5. \A u \in Users : Counted(u)'
    BY <2>1, <2>3, <2>4 DEF Counted, TypeOK
  <2>6. login'[l].pc = "next" /\ login'[l].expired
    BY <1>7 DEF WrongPassword, TypeOK, LoginStates
  <2>7. \A x \in Logins : x # l => login'[x].pc = "free"
    BY <1>7 DEF WrongPassword, AloneOK, TypeOK
  <2>8. \A x \in Logins : login'[x].pc # "free" => x = l /\ login'[x].pc = "next"
                                                   /\ login'[x].expired
    BY <2>6, <2>7
  <2> HIDE DEF v
  <2> QED
    BY <2>5, <2>8 DEF AloneOK
<1>8. ASSUME NEW l \in Logins, Refuse(l)
      PROVE  AloneOK'
  <2>1. login'[l].pc = "free"
    BY <1>8 DEF Refuse, Free, TypeOK
  <2>2. \A x \in Logins : x # l => login'[x] = login[x]
    BY <1>8 DEF Refuse, TypeOK
  <2> QED
    BY <1>8, <2>1, <2>2 DEF Refuse, AloneOK, Counted
<1> QED
  BY <1>1, <1>2, <1>3, <1>4, <1>5, <1>6, <1>7, <1>8 DEF Next

\* As long as logins came one at a time the counter is the number of
\* consecutive failures, and an account that reached the threshold is locked.
THEOREM FailuresAreCounted == Spec => []CountsConsecutiveFailures
<1>1. AloneOK => CountsConsecutiveFailures
  BY DEF AloneOK, Counted, CountsConsecutiveFailures
<1>2. Spec => []AloneOK
  BY TypesHold, AloneStart, AloneStep, PTL DEF Spec
<1> QED
  BY <1>1, <1>2, PTL

-----------------------------------------------------------------------------
(* Tokens: types.                                                           *)

Pcs == {"free", "sent", "checked", "ok", "denied", "failed"}

\* A sign-in or sign-out is for a user, a login ends with a token, and only a
\* sign-out has two steps.
Named(r) ==
  /\ r.kind \in {"login", "logout"} => r.user \in Users
  /\ r.kind = "login" /\ r.pc = "ok" => r.token \in Tokens
  /\ r.pc = "checked" => r.kind = "logout"

CallsTyped(f) == f \in [Calls -> CallStates] /\ \A c \in Calls : Named(f[c])

TypesInv == TokensTypeOK /\ CallsTyped(call)

LEMMA NoCallTyped == NoCall \in CallStates /\ Named(NoCall)
  BY DEF NoCall, CallStates, Named, Tokens, NoToken

LEMMA PcTyped ==
  ASSUME NEW r \in CallStates, NEW pc \in Pcs
  PROVE  /\ [r EXCEPT !.pc = pc] \in CallStates
         /\ [r EXCEPT !.pc = pc].pc = pc
         /\ [r EXCEPT !.pc = pc].kind = r.kind
         /\ [r EXCEPT !.pc = pc].browser = r.browser
         /\ [r EXCEPT !.pc = pc].user = r.user
         /\ [r EXCEPT !.pc = pc].token = r.token
         /\ [r EXCEPT !.pc = pc].seen = r.seen
  BY DEF CallStates, Pcs

LEMMA OneCallTyped ==
  ASSUME CallsTyped(call), NEW c \in Calls, NEW r \in CallStates, Named(r),
         call' = [call EXCEPT ![c] = r]
  PROVE  CallsTyped(call')
  BY DEF CallsTyped

LEMMA AnswerTyped ==
  ASSUME CallsTyped(call), NEW c \in Calls, NEW pc \in Pcs,
         call' = [call EXCEPT ![c].pc = pc],
         pc # "checked", call[c].kind = "login" => pc # "ok"
  PROVE  CallsTyped(call')
<1> DEFINE r == [call[c] EXCEPT !.pc = pc]
<1>1. call[c] \in CallStates /\ Named(call[c])
  BY DEF CallsTyped
<1>2. r \in CallStates /\ Named(r)
  BY <1>1, PcTyped DEF Named
<1>3. call' = [call EXCEPT ![c] = r]
  OBVIOUS
<1> HIDE DEF r
<1> QED
  BY <1>2, <1>3, OneCallTyped

\* The call Send puts into a slot.
Sent(b, kind, u) == [pc |-> "sent", kind |-> kind, browser |-> b, user |-> u,
                     token |-> stored[b], seen |-> 0]

LEMMA SendSends ==
  ASSUME CallsTyped(call), NEW c \in Calls, NEW b, NEW kind, NEW u, Send(c, b, kind, u)
  PROVE  /\ call' = [call EXCEPT ![c] = Sent(b, kind, u)]
         /\ call[c].pc = "free"
         /\ UNCHANGED <<version, stored, now, issued, revoked, crossed>>
  BY DEF Send, Sent

LEMMA SendTyped ==
  ASSUME TypesInv, NEW c \in Calls, NEW b \in Browsers, NEW u \in Users,
         NEW kind \in {"login", "work", "me", "logout"}, Send(c, b, kind, u)
  PROVE  TypesInv'
<1>1. CallsTyped(call)
  BY DEF TypesInv
<1>2. Sent(b, kind, u) \in CallStates /\ Named(Sent(b, kind, u))
  BY DEF TypesInv, TokensTypeOK, Sent, CallStates, Named
<1>3. CallsTyped(call')
  BY <1>1, <1>2, SendSends, OneCallTyped
<1> QED
  BY <1>1, <1>3, SendSends DEF TypesInv, TokensTypeOK, CallsTyped

LEMMA TypesStart == TokensInit => TypesInv
<1> SUFFICES ASSUME TokensInit PROVE TypesInv
  OBVIOUS
<1>1. CallsTyped(call)
  BY NoCallTyped DEF TokensInit, CallsTyped
<1> QED
  BY <1>1 DEF TokensInit, TypesInv, TokensTypeOK, CallsTyped

LEMMA TypesStep == TypesInv /\ [TokensNext]_tokenVars => TypesInv'
<1> SUFFICES ASSUME TypesInv, [TokensNext]_tokenVars PROVE TypesInv'
  OBVIOUS
<1> USE TokensAssumption
<1>0. CallsTyped(call) /\ CallsTyped(call)' = CallsTyped(call')
  BY DEF TypesInv, CallsTyped, Named
<1>1. CASE UNCHANGED tokenVars
  BY <1>1 DEF tokenVars, TypesInv, TokensTypeOK, CallsTyped
<1>2. CASE TokensTick
  BY <1>2 DEF TokensTick, TypesInv, TokensTypeOK, CallsTyped
<1> SUFFICES ASSUME NEW c \in Calls,
      \/ \E b \in Browsers :
           \/ \E u \in Users : SendLogin(c, b, u)
           \/ \E kind \in {"work", "me"} : SendWork(c, b, kind)
           \/ SendLogout(c, b)
      \/ ServeLogin(c) \/ RefuseLogin(c) \/ Deny(c) \/ ServeWork(c)
      \/ CheckLogout(c) \/ RevokeAllTokens(c) \/ Fail(c)
      \/ ReceiveToken(c) \/ Receive(c) \/ ReceiveUnauthorized(c)
      \/ MeFailed(c) \/ ReceiveLogout(c) \/ GiveUp(c) \/ Forgotten(c)
    PROVE TypesInv'
  BY <1>1, <1>2 DEF TokensNext
<1>3. call[c] \in CallStates /\ Named(call[c])
  BY <1>0 DEF CallsTyped
<1>4. ASSUME NEW b \in Browsers, NEW u \in Users, SendLogin(c, b, u) PROVE TypesInv'
  BY <1>4, SendTyped DEF SendLogin
<1>5. ASSUME NEW b \in Browsers, NEW kind \in {"work", "me"}, SendWork(c, b, kind)
      PROVE  TypesInv'
  <2>1. stored[b].user \in Users
    BY <1>5 DEF SendWork, TypesInv, TokensTypeOK, Tokens
  <2> QED
    BY <1>5, <2>1, SendTyped DEF SendWork
<1>6. ASSUME NEW b \in Browsers, SendLogout(c, b) PROVE TypesInv'
  <2>1. stored[b].user \in Users
    BY <1>6 DEF SendLogout, TypesInv, TokensTypeOK, Tokens
  <2> QED
    BY <1>6, <2>1, SendTyped DEF SendLogout
<1>7. CASE ServeLogin(c)
  <2> DEFINE t == NewToken(call[c].user)
             r == [call[c] EXCEPT !.pc = "ok", !.token = t]
  <2>1. t \in Tokens
    BY <1>3, <1>7 DEF ServeLogin, Named, NewToken, Tokens, TypesInv, TokensTypeOK
  <2>2. r \in CallStates /\ Named(r)
    BY <1>3, <1>7, <2>1 DEF ServeLogin, CallStates, Named
  <2>3. call' = [call EXCEPT ![c] = r]
    BY <1>7 DEF ServeLogin
  <2> HIDE DEF r, t
  <2>4. CallsTyped(call')
    BY <1>0, <2>2, <2>3, OneCallTyped
  <2> QED
    BY <1>0, <1>7, <2>1, <2>4 DEF ServeLogin, TypesInv, TokensTypeOK, CallsTyped, t
<1>8. ASSUME NEW pc \in Pcs, Answer(c, pc), pc # "checked",
             call[c].kind = "login" => pc # "ok"
      PROVE  TypesInv'
  <2>1. CallsTyped(call')
    BY <1>0, <1>8, AnswerTyped DEF Answer
  <2> QED
    BY <1>0, <1>8, <2>1 DEF Answer, TypesInv, TokensTypeOK, CallsTyped
<1>9. CASE RefuseLogin(c) \/ Deny(c) \/ ServeWork(c) \/ Fail(c)
  BY <1>8, <1>9 DEF RefuseLogin, Deny, ServeWork, Fail, Pcs
<1>10. CASE CheckLogout(c)
  <2> DEFINE r == [call[c] EXCEPT !.pc = "checked", !.seen = version[call[c].user]]
  <2>1. version[call[c].user] \in Nat
    BY <1>3, <1>10 DEF CheckLogout, Named, TypesInv, TokensTypeOK
  <2>2. r \in CallStates /\ Named(r)
    BY <1>3, <1>10, <2>1 DEF CheckLogout, CallStates, Named
  <2>3. call' = [call EXCEPT ![c] = r]
    BY <1>10 DEF CheckLogout
  <2> HIDE DEF r
  <2>4. CallsTyped(call')
    BY <1>0, <2>2, <2>3, OneCallTyped
  <2>5. crossed' \subseteq Users
    BY <1>3, <1>10 DEF CheckLogout, Named, TypesInv, TokensTypeOK
  <2> QED
    BY <1>0, <1>10, <2>4, <2>5 DEF CheckLogout, TypesInv, TokensTypeOK, CallsTyped
<1>11. CASE RevokeAllTokens(c)
  <2>1. NextVersion(c) \in Nat
    BY <1>3 DEF NextVersion, CallStates
  <2>2. call[c].kind = "login" => FALSE
    BY <1>3, <1>11 DEF RevokeAllTokens, Named
  <2>3. CallsTyped(call')
    BY <1>0, <1>11, <2>2, AnswerTyped DEF RevokeAllTokens, Pcs
  <2> QED
    BY <1>0, <1>11, <2>1, <2>3 DEF RevokeAllTokens, TypesInv, TokensTypeOK, CallsTyped
<1>12. ASSUME call' = [call EXCEPT ![c] = NoCall],
              UNCHANGED <<version, now, issued, revoked, crossed>>,
              stored' \in [Browsers -> Tokens \cup {NoToken}]
       PROVE  TypesInv'
  <2>1. CallsTyped(call')
    BY <1>0, <1>12, NoCallTyped, OneCallTyped
  <2> QED
    BY <1>0, <1>12, <2>1 DEF TypesInv, TokensTypeOK, CallsTyped
<1>13. stored \in [Browsers -> Tokens \cup {NoToken}]
  BY DEF TypesInv, TokensTypeOK
<1>14. CASE ReceiveToken(c)
  BY <1>3, <1>12, <1>13, <1>14 DEF ReceiveToken, Store, CallStates
<1>15. CASE Receive(c) \/ Forgotten(c)
  BY <1>12, <1>13, <1>15 DEF Receive, Forgotten
<1>16. CASE MeFailed(c)
  BY <1>3, <1>12, <1>13, <1>16 DEF MeFailed, KeptUnlessOwn, Store, CallStates
<1>17. CASE ReceiveLogout(c)
  BY <1>12, <1>13, <1>17 DEF ReceiveLogout, Store
<1>18. CASE ReceiveUnauthorized(c)
  <2>1. \A d \in Calls : /\ [call[d] EXCEPT !.browser = None] \in CallStates
                         /\ Named([call[d] EXCEPT !.browser = None])
    BY <1>0 DEF CallsTyped, CallStates, Named
  <2>2. CallsTyped(call')
    BY <1>0, <1>18, <2>1, NoCallTyped DEF ReceiveUnauthorized, CallsTyped
  <2> QED
    BY <1>0, <1>13, <1>18, <2>2
       DEF ReceiveUnauthorized, Store, TypesInv, TokensTypeOK, CallsTyped
<1>19. CASE GiveUp(c)
  <2> DEFINE r == [call[c] EXCEPT !.browser = None]
  <2>1. r \in CallStates /\ Named(r) /\ call' = [call EXCEPT ![c] = r]
    BY <1>3, <1>19 DEF GiveUp, CallStates, Named
  <2> HIDE DEF r
  <2>2. CallsTyped(call')
    BY <1>0, <2>1, OneCallTyped
  <2>3. stored' \in [Browsers -> Tokens \cup {NoToken}]
    BY <1>3, <1>13, <1>19 DEF GiveUp, KeptUnlessOwn, Store, CallStates
  <2> QED
    BY <1>0, <1>19, <2>2, <2>3 DEF GiveUp, TypesInv, TokensTypeOK, CallsTyped
<1> QED
  BY <1>4, <1>5, <1>6, <1>7, <1>9, <1>10, <1>11, <1>14, <1>15, <1>16, <1>17, <1>18, <1>19

\* Every variable keeps its type.
THEOREM TokenTypesHold == TokensSpec => []TokensTypeOK
<1>1. TypesInv => TokensTypeOK
  BY DEF TypesInv
<1> QED
  BY <1>1, TypesStart, TypesStep, PTL DEF TokensSpec

-----------------------------------------------------------------------------
(* Revocation.                                                              *)

\* A token that can never be valid again, unless its user's sign-outs cross.
Spent(t) ==
  t = NoToken \/ t.user \in crossed \/ t.exp <= now \/ t.tv < version[t.user]

\* What a call holds is still true: its token is one that was issued, the
\* version a sign-out has read is the one stored, a refused token is spent.
Told(r) ==
  /\ r.token \in issued \cup {NoToken}
  /\ r.pc = "checked" /\ r.user \notin crossed => r.seen = version[r.user]
  /\ r.pc = "denied" /\ r.kind # "login" => Spent(r.token)

\* A user who is not in crossed has one sign-out between reading and writing.
OneByOne ==
  \A c, d \in Calls :
    /\ call[c].pc = "checked" /\ call[d].pc = "checked"
    /\ call[c].user = call[d].user /\ call[c].user \notin crossed
    => c = d

\* No token is ahead of its user's version, and a revoked one is behind it.
VersionsOK ==
  \A t \in issued : t.user \notin crossed =>
    /\ t.tv <= version[t.user]
    /\ t \in revoked => t.tv < version[t.user]

TokensInv ==
  /\ VersionsOK
  /\ \A b \in Browsers : stored[b] \in issued \cup {NoToken}
  /\ \A c \in Calls : Told(call[c])
  /\ OneByOne

LEMMA InvalidIsSpent ==
  ASSUME TypesInv, TokensInv, NEW t \in issued \cup {NoToken}
  PROVE  /\ ~Valid(t) => Spent(t)
         /\ Spent(t) /\ t.user \notin crossed => ~Valid(t)
<1>1. CASE t = NoToken
  BY <1>1 DEF Valid, Spent
<1>2. CASE t \in issued
  <2>1. t \in Tokens /\ t # NoToken /\ (t.user \notin crossed => t.tv <= version[t.user])
    BY <1>2, LockoutAssumption
       DEF TokensInv, VersionsOK, TypesInv, TokensTypeOK, Tokens, NoToken
  <2>2. version[t.user] \in Nat /\ t.tv \in Nat /\ t.exp \in Nat /\ now \in Nat
    BY <2>1 DEF Tokens, TypesInv, TokensTypeOK
  <2> QED
    BY <2>1, <2>2 DEF Valid, Spent
<1> QED
  BY <1>1, <1>2

\* Time passes, tokens are issued, sign-outs cross, and the versions of the
\* other users grow.
Onward ==
  /\ issued \subseteq issued' /\ crossed \subseteq crossed'
  /\ now' \in Nat /\ now' >= now
  /\ version' \in [Users -> Nat]
  /\ \A u \in Users : u \in crossed' \/ version'[u] >= version[u]

LEMMA StaysTold ==
  ASSUME TypesInv, Onward, NEW r \in CallStates, Told(r),
         r.pc = "checked" /\ r.user \notin crossed' => version'[r.user] = version[r.user]
  PROVE  Told(r)'
<1>1. r.token \in Tokens =>
        /\ r.token.exp \in Nat /\ r.token.tv \in Nat /\ r.token.user \in Users
  BY DEF Tokens
<1>2. r.token = NoToken \/ r.token \in Tokens
  BY DEF CallStates
<1>3. now \in Nat /\ version \in [Users -> Nat]
  BY DEF TypesInv, TokensTypeOK
<1>4. Spent(r.token) => Spent(r.token)'
  BY <1>1, <1>2, <1>3 DEF Spent, Onward
<1> QED
  BY <1>4 DEF Told, Onward

LEMMA TokensStart == TokensInit => TokensInv
  BY DEF TokensInit, TokensInv, VersionsOK, OneByOne, Told, NoCall

\* A step that changes one call and the browsers' tokens, and may make a user
\* one of the crossed.
LEMMA PlainStep ==
  ASSUME TypesInv, TokensInv, UNCHANGED <<version, now, issued, revoked>>,
         crossed \subseteq crossed',
         NEW c \in Calls, NEW r \in CallStates, call' = [call EXCEPT ![c] = r], Told(r),
         r.pc = "checked" /\ r.user \notin crossed' =>
           \A d \in Calls \ {c} : call[d].pc = "checked" => call[d].user # r.user,
         \A b \in Browsers : stored'[b] \in issued \cup {NoToken}
  PROVE  TokensInv'
<1>1. Onward
  BY DEF Onward, TypesInv, TokensTypeOK
<1>2. \A d \in Calls : /\ call[d] \in CallStates /\ Told(call[d])
                       /\ call'[d] = IF d = c THEN r ELSE call[d]
  BY DEF TypesInv, TokensTypeOK, TokensInv
<1>3. ASSUME NEW d \in Calls PROVE Told(call[d])'
  <2>1. ASSUME NEW s \in CallStates, Told(s), s = call'[d] PROVE Told(call[d])'
    <3>1. Told(s)'
      BY <1>1, <2>1, StaysTold
    <3> QED
      BY <2>1, <3>1 DEF Told, Spent
  <2> QED
    BY <1>2, <2>1
<1>4. VersionsOK'
  BY DEF TokensInv, VersionsOK
<1>5. OneByOne'
  BY <1>2 DEF TokensInv, OneByOne
<1> QED
  BY <1>3, <1>4, <1>5 DEF TokensInv

LEMMA RevokeKeepsTokens ==
  ASSUME TypesInv, TokensInv, NEW c \in Calls, RevokeAllTokens(c)
  PROVE  TokensInv'
<1> DEFINE u == call[c].user
           r == [call[c] EXCEPT !.pc = "ok"]
           n == call[c].seen + 1
<1>1. /\ call[c] \in CallStates /\ Named(call[c]) /\ Told(call[c])
      /\ call[c].pc = "checked"
  BY DEF TypesInv, CallsTyped, TokensInv, RevokeAllTokens
<1>2. /\ call[c].kind = "logout" /\ u \in Users /\ n \in Nat
      /\ u \notin crossed => n = version[u] + 1
  BY <1>1 DEF Named, Told, CallStates
<1>3. /\ version \in [Users -> Nat] /\ version' = [version EXCEPT ![u] = n]
      /\ issued' = issued /\ stored' = stored /\ crossed' = crossed
      /\ revoked' = revoked \cup {t \in issued : t.user = u}
      /\ call' = [call EXCEPT ![c] = r]
  BY DEF TypesInv, TokensTypeOK, RevokeAllTokens, NextVersion
<1>4. Onward
  <2>1. \A v \in Users : v \in crossed \/ version'[v] >= version[v]
    BY <1>2, <1>3
  <2> QED
    BY <1>2, <1>3, <2>1 DEF Onward, TypesInv, TokensTypeOK, RevokeAllTokens
<1>5. r \in CallStates /\ r.pc = "ok" /\ r.token = call[c].token /\ r.user = u
  BY <1>1, PcTyped DEF Pcs
<1>6. Told(r)
  BY <1>1, <1>5 DEF Told
<1> HIDE DEF r, n
<1>7. \A d \in Calls : /\ call[d] \in CallStates /\ Told(call[d])
                       /\ call'[d] = IF d = c THEN r ELSE call[d]
  BY <1>3 DEF TypesInv, TokensTypeOK, TokensInv
<1>8. ASSUME NEW d \in Calls PROVE Told(call[d])'
  <2>1. ASSUME NEW s \in CallStates, Told(s), s = call'[d],
               s.pc = "checked" /\ s.user \notin crossed' => version'[s.user] = version[s.user]
        PROVE  Told(call[d])'
    <3>1. Told(s)'
      BY <1>4, <2>1, StaysTold
    <3> QED
      BY <2>1, <3>1 DEF Told, Spent
  <2>2. CASE d = c
    BY <1>5, <1>6, <1>7, <2>1, <2>2
  <2>3. CASE d # c
    <3>1. call[d].pc = "checked" /\ call[d].user \notin crossed => call[d].user # u
      BY <1>1, <2>3 DEF TokensInv, OneByOne
    <3>2. call[d].user # u => version'[call[d].user] = version[call[d].user]
      BY <1>3
    <3> QED
      BY <1>3, <1>7, <2>1, <2>3, <3>1, <3>2
  <2> QED
    BY <2>2, <2>3
<1>9. VersionsOK'
  <2> SUFFICES ASSUME NEW t \in issued, t.user \notin crossed
               PROVE  /\ t.tv <= version'[t.user]
                      /\ t \in revoked' => t.tv < version'[t.user]
    BY <1>3 DEF VersionsOK
  <2>1. t \in Tokens
    BY DEF TypesInv, TokensTypeOK
  <2>2. t.tv \in Nat /\ t.user \in Users /\ version[t.user] \in Nat
    BY <1>3, <2>1 DEF Tokens
  <2>3. t.tv <= version[t.user] /\ (t \in revoked => t.tv < version[t.user])
    BY DEF TokensInv, VersionsOK
  <2>4. CASE t.user = u
    BY <1>2, <1>3, <2>2, <2>3, <2>4
  <2>5. CASE t.user # u
    BY <1>3, <2>2, <2>3, <2>5
  <2> QED
    BY <2>4, <2>5
<1>10. OneByOne'
  BY <1>3, <1>5, <1>7 DEF TokensInv, OneByOne
<1>11. \A b \in Browsers : stored'[b] \in issued' \cup {NoToken}
  BY <1>3 DEF TokensInv
<1> QED
  BY <1>8, <1>9, <1>10, <1>11 DEF TokensInv

LEMMA LoginKeepsTokens ==
  ASSUME TypesInv, TokensInv, NEW c \in Calls, ServeLogin(c)
  PROVE  TokensInv'
<1> DEFINE t == NewToken(call[c].user)
           r == [call[c] EXCEPT !.pc = "ok", !.token = t]
<1>1. /\ call[c] \in CallStates /\ Named(call[c]) /\ call[c].user \in Users
      /\ call[c].kind = "login"
  BY DEF TypesInv, CallsTyped, ServeLogin, Named
<1>2. /\ call' = [call EXCEPT ![c] = r] /\ issued' = issued \cup {t}
      /\ UNCHANGED <<version, stored, now, revoked, crossed>>
  BY DEF ServeLogin
<1>3. version[call[c].user] \in Nat /\ now + TokenTime \in Nat
  BY <1>1, TokensAssumption DEF TypesInv, TokensTypeOK
<1>4. t \in Tokens /\ t.tv = version[t.user] /\ t.tv \in Nat
  <2>1. t.tv = version[call[c].user] /\ t.user = call[c].user /\ t \in Tokens
    BY <1>1, <1>3 DEF NewToken, Tokens
  <2> QED
    BY <1>3, <2>1
<1>5. r.pc = "ok" /\ r.token = t
  BY <1>1 DEF CallStates
<1>6. Onward
  BY <1>2 DEF Onward, TypesInv, TokensTypeOK
<1>7. ASSUME NEW s, s = r PROVE Told(s)'
  BY <1>2, <1>5, <1>7 DEF Told
<1>8. \A d \in Calls : /\ call[d] \in CallStates /\ Told(call[d])
                       /\ call'[d] = IF d = c THEN r ELSE call[d]
  BY <1>2 DEF TypesInv, TokensTypeOK, TokensInv
<1> HIDE DEF t, r
<1>9. ASSUME NEW d \in Calls PROVE Told(call[d])'
  <2>1. ASSUME NEW s, Told(s)', s = call'[d] PROVE Told(call[d])'
    BY <2>1 DEF Told, Spent
  <2>2. CASE d = c
    BY <1>7, <1>8, <2>1, <2>2
  <2>3. CASE d # c
    <3>1. ASSUME NEW s \in CallStates, Told(s), s = call'[d] PROVE Told(call[d])'
      BY <1>2, <1>6, <2>1, <3>1, StaysTold
    <3> QED
      BY <1>8, <2>3, <3>1
  <2> QED
    BY <2>2, <2>3
<1>10. VersionsOK'
  <2> SUFFICES ASSUME NEW x \in issued', x.user \notin crossed
               PROVE  /\ x.tv <= version[x.user]
                      /\ x \in revoked => x.tv < version[x.user]
    BY <1>2 DEF VersionsOK
  <2>1. CASE x \in issued
    BY <2>1 DEF TokensInv, VersionsOK
  <2>2. CASE x \notin issued
    BY <1>2, <1>4, <2>2 DEF TypesInv, TokensTypeOK
  <2> QED
    BY <2>1, <2>2
<1>11. OneByOne'
  BY <1>2, <1>5, <1>8 DEF TokensInv, OneByOne
<1>12. \A b \in Browsers : stored'[b] \in issued' \cup {NoToken}
  BY <1>2 DEF TokensInv
<1> QED
  BY <1>9, <1>10, <1>11, <1>12 DEF TokensInv

\* The page that is reloaded forgets its calls.
LEMMA ReloadKeepsTokens ==
  ASSUME TypesInv, TokensInv, NEW c \in Calls, ReceiveUnauthorized(c)
  PROVE  TokensInv'
<1>1. /\ UNCHANGED <<version, now, issued, revoked, crossed>>
      /\ Onward
  BY DEF ReceiveUnauthorized, Onward, TypesInv, TokensTypeOK
<1>2. \A b \in Browsers : stored'[b] \in issued \cup {NoToken}
  BY DEF ReceiveUnauthorized, Store, TokensInv, TypesInv, TokensTypeOK
<1>3. NoCall \in CallStates /\ Told(NoCall) /\ NoCall.pc = "free"
  BY NoCallTyped DEF NoCall, Told
<1>4. ASSUME NEW d \in Calls
      PROVE  /\ Told(call[d])'
             /\ call'[d].pc = "checked" =>
                  call[d].pc = "checked" /\ call'[d].user = call[d].user
  <2>1. call[d] \in CallStates /\ Told(call[d])
    BY DEF TypesInv, TokensTypeOK, TokensInv
  <2> DEFINE r == [call[d] EXCEPT !.browser = None]
  <2>2. /\ r \in CallStates /\ r.token = call[d].token /\ r.pc = call[d].pc
        /\ r.seen = call[d].seen /\ r.user = call[d].user /\ r.kind = call[d].kind
    BY <2>1 DEF CallStates
  <2>3. call'[d] = NoCall \/ call'[d] = r \/ call'[d] = call[d]
    BY DEF ReceiveUnauthorized
  <2> HIDE DEF r
  <2>4. Told(r)
    BY <2>1, <2>2 DEF Told
  <2>5. ASSUME NEW s \in CallStates, Told(s), s = call'[d] PROVE Told(call[d])'
    <3>1. Told(s)'
      BY <1>1, <2>5, StaysTold
    <3> QED
      BY <2>5, <3>1 DEF Told, Spent
  <2>6. Told(call[d])'
    BY <1>3, <2>1, <2>2, <2>3, <2>4, <2>5
  <2> QED
    BY <1>3, <2>2, <2>3, <2>6
<1>5. OneByOne'
  BY <1>1, <1>4 DEF TokensInv, OneByOne
<1>6. VersionsOK'
  BY <1>1 DEF TokensInv, VersionsOK
<1> QED
  BY <1>1, <1>2, <1>4, <1>5, <1>6 DEF TokensInv

LEMMA TokensStep == TypesInv /\ TokensInv /\ [TokensNext]_tokenVars => TokensInv'
<1> SUFFICES ASSUME TypesInv, TokensInv, [TokensNext]_tokenVars PROVE TokensInv'
  OBVIOUS
<1>1. CASE UNCHANGED tokenVars
  BY <1>1 DEF tokenVars, TokensInv, VersionsOK, OneByOne, Told, Spent
<1>2. CASE TokensTick
  <2>1. Onward /\ UNCHANGED <<version, stored, call, issued, revoked, crossed>>
    BY <1>2 DEF TokensTick, Onward, TypesInv, TokensTypeOK
  <2>2. ASSUME NEW d \in Calls PROVE Told(call[d])'
    <3>1. call[d] \in CallStates /\ Told(call[d])
      BY DEF TypesInv, TokensTypeOK, TokensInv
    <3>2. ASSUME NEW s, Told(s)', s = call'[d] PROVE Told(call[d])'
      BY <3>2 DEF Told, Spent
    <3> QED
      BY <2>1, <3>1, <3>2, StaysTold
  <2> QED
    BY <2>1, <2>2 DEF TokensInv, VersionsOK, OneByOne
<1> SUFFICES ASSUME NEW c \in Calls,
      \/ \E b \in Browsers :
           \/ \E u \in Users : SendLogin(c, b, u)
           \/ \E kind \in {"work", "me"} : SendWork(c, b, kind)
           \/ SendLogout(c, b)
      \/ ServeLogin(c) \/ RefuseLogin(c) \/ Deny(c) \/ ServeWork(c)
      \/ CheckLogout(c) \/ RevokeAllTokens(c) \/ Fail(c)
      \/ ReceiveToken(c) \/ Receive(c) \/ ReceiveUnauthorized(c)
      \/ MeFailed(c) \/ ReceiveLogout(c) \/ GiveUp(c) \/ Forgotten(c)
    PROVE TokensInv'
  BY <1>1, <1>2 DEF TokensNext
<1>3. call[c] \in CallStates /\ Named(call[c]) /\ Told(call[c]) /\ CallsTyped(call)
  BY DEF TypesInv, CallsTyped, TokensInv
<1>4. \A b \in Browsers : stored[b] \in issued \cup {NoToken}
  BY DEF TokensInv
<1>5. ASSUME NEW b \in Browsers, NEW u \in Users,
             NEW kind \in {"login", "work", "me", "logout"}, Send(c, b, kind, u)
      PROVE  TokensInv'
  <2>1. /\ Sent(b, kind, u) \in CallStates /\ Told(Sent(b, kind, u))
        /\ Sent(b, kind, u).pc = "sent"
    BY <1>4 DEF Sent, CallStates, Told, TypesInv, TokensTypeOK
  <2>2. /\ call' = [call EXCEPT ![c] = Sent(b, kind, u)]
        /\ UNCHANGED <<version, stored, now, issued, revoked, crossed>>
    BY <1>3, <1>5, SendSends
  <2> QED
    BY <1>4, <2>1, <2>2, PlainStep
<1>6. ASSUME NEW b \in Browsers, stored[b] # NoToken PROVE stored[b].user \in Users
  BY <1>6 DEF TypesInv, TokensTypeOK, Tokens
<1>7. ASSUME NEW b \in Browsers, NEW u \in Users, SendLogin(c, b, u) PROVE TokensInv'
  BY <1>5, <1>7 DEF SendLogin
<1>8. ASSUME NEW b \in Browsers, NEW kind \in {"work", "me"}, SendWork(c, b, kind)
      PROVE  TokensInv'
  BY <1>5, <1>6, <1>8 DEF SendWork
<1>9. ASSUME NEW b \in Browsers, SendLogout(c, b) PROVE TokensInv'
  BY <1>5, <1>6, <1>9 DEF SendLogout
<1>10. ASSUME NEW pc \in Pcs \ {"checked"}, Answer(c, pc),
              pc = "denied" /\ call[c].kind # "login" => ~Valid(call[c].token)
       PROVE  TokensInv'
  <2> DEFINE r == [call[c] EXCEPT !.pc = pc]
  <2>1. /\ r \in CallStates /\ r.pc = pc /\ r.kind = call[c].kind
        /\ r.token = call[c].token
    BY <1>3, PcTyped
  <2>2. /\ call' = [call EXCEPT ![c] = r]
        /\ UNCHANGED <<version, stored, now, issued, revoked, crossed>>
    BY <1>10 DEF Answer
  <2> HIDE DEF r
  <2>3. Told(r)
    BY <1>3, <1>10, <2>1, InvalidIsSpent DEF Told
  <2> QED
    BY <1>4, <2>1, <2>2, <2>3, PlainStep
<1>11. CASE RefuseLogin(c) \/ Deny(c) \/ ServeWork(c) \/ Fail(c)
  BY <1>10, <1>11 DEF RefuseLogin, Deny, ServeWork, Fail, Pcs
<1>12. CASE CheckLogout(c)
  <2> DEFINE u == call[c].user
             r == [call[c] EXCEPT !.pc = "checked", !.seen = version[u]]
  <2>1. version[u] \in Nat
    BY <1>3, <1>12 DEF CheckLogout, Named, TypesInv, TokensTypeOK
  <2>2. /\ r \in CallStates /\ r.pc = "checked" /\ r.kind = "logout"
        /\ r.token = call[c].token /\ r.user = u /\ r.seen = version[u]
    BY <1>3, <1>12, <2>1 DEF CheckLogout, CallStates
  <2>3. /\ call' = [call EXCEPT ![c] = r] /\ crossed \subseteq crossed'
        /\ UNCHANGED <<version, stored, now, issued, revoked>>
    BY <1>12 DEF CheckLogout
  <2> HIDE DEF r
  <2>4. u \notin crossed' => \A d \in Calls : call[d].pc = "checked" => call[d].user # u
    BY <1>12 DEF CheckLogout, SigningOut
  <2>5. Told(r)
    BY <1>3, <2>2 DEF Told
  <2> QED
    BY <1>4, <2>2, <2>3, <2>4, <2>5, PlainStep
<1>13. NoCall \in CallStates /\ Told(NoCall) /\ NoCall.pc = "free"
  BY NoCallTyped DEF NoCall, Told
<1>14. ASSUME call' = [call EXCEPT ![c] = NoCall],
              UNCHANGED <<version, now, issued, revoked, crossed>>,
              \A b \in Browsers : stored'[b] \in issued \cup {NoToken}
       PROVE  TokensInv'
  BY <1>13, <1>14, PlainStep
<1>15. stored \in [Browsers -> Tokens \cup {NoToken}]
       /\ call[c].token \in issued \cup {NoToken}
  BY <1>3 DEF TypesInv, TokensTypeOK, Told
<1>16. CASE ReceiveToken(c)
  BY <1>4, <1>14, <1>15, <1>16 DEF ReceiveToken, Store
<1>17. CASE Receive(c) \/ Forgotten(c)
  BY <1>4, <1>14, <1>17 DEF Receive, Forgotten
<1>18. CASE MeFailed(c)
  BY <1>4, <1>14, <1>15, <1>18 DEF MeFailed, KeptUnlessOwn, Store
<1>19. CASE ReceiveLogout(c)
  BY <1>4, <1>14, <1>15, <1>19 DEF ReceiveLogout, Store
<1>20. CASE GiveUp(c)
  <2> DEFINE r == [call[c] EXCEPT !.browser = None]
  <2>1. /\ r \in CallStates /\ r.token = call[c].token /\ r.pc = call[c].pc
        /\ r.seen = call[c].seen /\ r.user = call[c].user /\ r.kind = call[c].kind
    BY <1>3 DEF CallStates
  <2>2. /\ call' = [call EXCEPT ![c] = r]
        /\ UNCHANGED <<version, now, issued, revoked, crossed>>
    BY <1>20 DEF GiveUp
  <2> HIDE DEF r
  <2>3. \A b \in Browsers : stored'[b] \in issued \cup {NoToken}
    BY <1>4, <1>15, <1>20 DEF GiveUp, KeptUnlessOwn, Store
  <2>4. Told(r)
    BY <1>3, <2>1 DEF Told
  <2>5. r.pc = "checked" /\ r.user \notin crossed =>
          \A d \in Calls \ {c} : call[d].pc = "checked" => call[d].user # r.user
    BY <2>1 DEF TokensInv, OneByOne
  <2> QED
    BY <2>1, <2>2, <2>3, <2>4, <2>5, PlainStep
<1> QED
  BY <1>7, <1>8, <1>9, <1>11, <1>12, <1>16, <1>17, <1>18, <1>19, <1>20,
     RevokeKeepsTokens, LoginKeepsTokens, ReloadKeepsTokens

\* Signing out invalidates every token of the user for good, whatever else is
\* in flight, unless two sign-outs of that user were served at once.
THEOREM RevocationLasts == TokensSpec => []TokensStayRevoked
<1>1. TypesInv /\ TokensInv => TokensStayRevoked
  <2> SUFFICES ASSUME TypesInv, TokensInv, NEW t \in revoked, t.user \notin crossed
               PROVE  ~Valid(t)
    BY DEF TokensStayRevoked
  <2>1. t \in issued /\ t.tv < version[t.user]
    BY DEF TokensInv, VersionsOK, TypesInv, TokensTypeOK
  <2> QED
    BY <2>1, InvalidIsSpent DEF Spent
<1> QED
  BY <1>1, TypesStart, TypesStep, TokensStart, TokensStep, PTL DEF TokensSpec

-----------------------------------------------------------------------------
(* Sessions end for a reason.                                               *)

Reason(c, b) ==
  /\ call[c].browser = b
  /\ \/ call[c].kind = "logout" /\ call[c].pc # "denied"
     \/ /\ call[c].kind = "me" /\ call[c].token = stored[b]
        /\ call[c].pc = "failed" \/ GiveUp(c)
     \/ call[c].pc = "denied" /\ call[c].token # stored[b]

Kept ==
  \A b \in Browsers :
    Valid(stored[b]) /\ stored[b].user \notin crossed /\ stored'[b] = NoToken =>
      \E c \in Calls : Reason(c, b)

LEMMA KeptStep == TypesInv /\ TokensInv /\ TokensNext => Kept
<1> SUFFICES ASSUME TypesInv, TokensInv, TokensNext, NEW b \in Browsers,
                    Valid(stored[b]), stored[b].user \notin crossed,
                    stored'[b] = NoToken
             PROVE  \E c \in Calls : Reason(c, b)
  BY DEF Kept
<1>1. stored[b] # NoToken /\ stored \in [Browsers -> Tokens \cup {NoToken}]
  BY DEF Valid, TypesInv, TokensTypeOK
<1>2. PICK c \in Calls :
        ReceiveToken(c) \/ ReceiveUnauthorized(c) \/ MeFailed(c) \/ ReceiveLogout(c)
          \/ GiveUp(c)
  BY <1>1 DEF TokensNext, TokensTick, SendLogin, SendWork, SendLogout, Send, ServeLogin,
     RefuseLogin, Deny, ServeWork, CheckLogout, RevokeAllTokens, Fail, Answer, Receive,
     Forgotten
<1>3. Named(call[c]) /\ Told(call[c])
  BY DEF TypesInv, CallsTyped, TokensInv
<1>4. NoToken \notin Tokens
  BY LockoutAssumption DEF Tokens, NoToken
<1>5. ~ReceiveToken(c)
  BY <1>1, <1>3, <1>4 DEF ReceiveToken, Store, Named
<1>6. call[c].browser = b
  BY <1>1, <1>2, <1>5 DEF ReceiveUnauthorized, MeFailed, ReceiveLogout, GiveUp, Store
<1>7. call[c].pc = "denied" /\ call[c].kind # "login" => call[c].token # stored[b]
  BY <1>3, InvalidIsSpent DEF Told
<1>8. CASE ReceiveUnauthorized(c)
  BY <1>6, <1>7, <1>8 DEF ReceiveUnauthorized, Unauthorized, Reason
<1>9. CASE MeFailed(c)
  BY <1>1, <1>6, <1>9 DEF MeFailed, KeptUnlessOwn, Store, Reason
<1>10. CASE ReceiveLogout(c)
  BY <1>6, <1>10 DEF ReceiveLogout, Reason
<1>11. CASE GiveUp(c)
  <2>1. CASE call[c].kind = "logout"
    BY <1>6, <1>7, <2>1 DEF Reason
  <2>2. CASE call[c].kind = "me"
    BY <1>1, <1>6, <1>11, <2>2 DEF GiveUp, KeptUnlessOwn, Store, Reason
  <2>3. CASE call[c].kind \notin {"logout", "me"}
    BY <1>1, <1>6, <1>11, <2>3 DEF GiveUp, Store
  <2> QED
    BY <2>1, <2>2, <2>3
<1> QED
  BY <1>2, <1>5, <1>8, <1>9, <1>10, <1>11

\* A browser loses a live session, of a user whose sign-outs have not crossed,
\* only when its user signs out, when its own "me" got no answer, or by the
\* late refusal of another token.
THEOREM SessionsEndForAReason == TokensSpec => SessionKept
<1>1. TypesInv /\ TokensInv /\ [TokensNext]_tokenVars => [Kept]_tokenVars
  BY KeptStep
<1> QED
  BY <1>1, TypesStart, TypesStep, TokensStart, TokensStep, PTL
     DEF TokensSpec, SessionKept, Kept, Reason

-----------------------------------------------------------------------------
(* Versions implement tokens that live and die.                             *)

promised == <<now, LiveTokens, DeadTokens, crossed>>

LEMMA NothingPromised ==
  UNCHANGED <<version, now, issued, crossed>> => UNCHANGED promised
  BY DEF promised, LiveTokens, DeadTokens, Valid

LEMMA IssuedTyped ==
  ASSUME TypesInv, NEW t \in issued
  PROVE  /\ t \in Tokens /\ t # NoToken /\ t.user \in Users
         /\ t.tv \in Nat /\ t.exp \in Nat /\ now \in Nat /\ version[t.user] \in Nat
<1>1. t \in Tokens
  BY DEF TypesInv, TokensTypeOK
<1> QED
  BY <1>1, LockoutAssumption DEF TypesInv, TokensTypeOK, Tokens, NoToken

LEMMA TickPromised == TypesInv /\ TokensTick => Promised!Tick
<1> SUFFICES ASSUME TypesInv, TokensTick PROVE Promised!Tick
  OBVIOUS
<1>1. now' = now + 1 /\ UNCHANGED <<version, issued, crossed>>
  BY DEF TokensTick
<1>2. ASSUME NEW t \in issued PROVE Valid(t)' <=> Valid(t) /\ ~(t.exp <= now + 1)
  BY <1>1, IssuedTyped DEF Valid
<1>3. LiveTokens' = LiveTokens \ {t \in LiveTokens : t.exp <= now'}
  BY <1>1, <1>2 DEF LiveTokens
<1>4. DeadTokens' = DeadTokens \cup {t \in LiveTokens : t.exp <= now'}
  BY <1>1, <1>2 DEF LiveTokens, DeadTokens
<1> QED
  BY <1>1, <1>3, <1>4 DEF Promised!Tick, Promised!Die

LEMMA LoginPromised ==
  ASSUME TypesInv, NEW c \in Calls, ServeLogin(c)
  PROVE  [Promised!Next]_promised
<1> DEFINE u == call[c].user
           t == NewToken(u)
<1>1. /\ u \in Users /\ issued' = issued \cup {t}
      /\ UNCHANGED <<version, now, crossed>>
  BY DEF ServeLogin, TypesInv, CallsTyped, Named
<1>2. version[u] \in Nat /\ now + TokenTime \in Nat /\ now + TokenTime > now
  BY <1>1, TokensAssumption DEF TypesInv, TokensTypeOK
<1>3. t.user = u /\ t.tv = version[u] /\ t.exp = now + TokenTime /\ t # NoToken
  BY <1>1, LockoutAssumption DEF NewToken, NoToken
<1>4. Valid(t)
  BY <1>2, <1>3 DEF Valid
<1> HIDE DEF t
<1>5. \A x : Valid(x)' <=> Valid(x)
  BY <1>1 DEF Valid
<1>6. CASE u \in crossed \/ t \in issued
  <2>1. LiveTokens' = LiveTokens /\ DeadTokens' = DeadTokens
    BY <1>1, <1>3, <1>5, <1>6 DEF LiveTokens, DeadTokens
  <2> QED
    BY <1>1, <2>1 DEF promised
<1>7. CASE u \notin crossed /\ t \notin issued
  <2>1. LiveTokens' = LiveTokens \cup {t} /\ DeadTokens' = DeadTokens
    BY <1>1, <1>3, <1>4, <1>5, <1>7 DEF LiveTokens, DeadTokens
  <2>2. t \notin LiveTokens \cup DeadTokens
    BY <1>7 DEF LiveTokens, DeadTokens
  <2>3. Promised!SignIn(t) /\ t \in LiveTokens'
    BY <1>1, <1>3, <1>7, <2>1, <2>2 DEF Promised!SignIn
  <2> QED
    BY <2>3 DEF Promised!Next
<1> QED
  BY <1>6, <1>7

LEMMA CheckPromised ==
  ASSUME TypesInv, NEW c \in Calls, CheckLogout(c)
  PROVE  [Promised!Next]_promised
<1> DEFINE u == call[c].user
<1>1. /\ u \in Users /\ crossed' \in {crossed, crossed \cup {u}}
      /\ UNCHANGED <<version, now, issued>>
  BY DEF CheckLogout, TypesInv, CallsTyped, Named
<1>2. CASE crossed' = crossed
  BY <1>1, <1>2, NothingPromised
<1>3. CASE crossed' = crossed \cup {u}
  <2>1. \A x : Valid(x)' <=> Valid(x)
    BY <1>1 DEF Valid
  <2>2. /\ LiveTokens' = {t \in LiveTokens : t.user # u}
        /\ DeadTokens' = {t \in DeadTokens : t.user # u}
    BY <1>1, <1>3, <2>1 DEF LiveTokens, DeadTokens
  <2>3. Promised!Cross(u)
    BY <1>1, <1>3, <2>2 DEF Promised!Cross
  <2> QED
    BY <1>1, <2>3 DEF Promised!Next
<1> QED
  BY <1>1, <1>2, <1>3

LEMMA RevokePromised ==
  ASSUME TypesInv, TokensInv, NEW c \in Calls, RevokeAllTokens(c)
  PROVE  [Promised!Next]_promised
<1> DEFINE u == call[c].user
<1>1. /\ u \in Users /\ version' = [version EXCEPT ![u] = call[c].seen + 1]
      /\ UNCHANGED <<now, issued, crossed>> /\ version \in [Users -> Nat]
  BY DEF RevokeAllTokens, NextVersion, TypesInv, TokensTypeOK, CallsTyped, Named
<1>2. u \notin crossed => call[c].seen = version[u]
  BY DEF RevokeAllTokens, TokensInv, Told
<1>3. ASSUME NEW t \in issued, t.user # u PROVE Valid(t)' <=> Valid(t)
  BY <1>1, <1>3, IssuedTyped DEF Valid
<1>4. CASE u \in crossed
  <2>1. LiveTokens' = LiveTokens /\ DeadTokens' = DeadTokens
    BY <1>1, <1>3, <1>4 DEF LiveTokens, DeadTokens
  <2> QED
    BY <1>1, <2>1 DEF promised
<1>5. CASE u \notin crossed
  <2>1. ASSUME NEW t \in issued, t.user = u PROVE ~Valid(t)'
    <3>1. t.tv \in Nat /\ t.tv <= version[u] /\ version[u] \in Nat
      BY <1>5, <2>1, IssuedTyped DEF TokensInv, VersionsOK
    <3>2. version'[t.user] = version[u] + 1
      BY <1>1, <1>2, <1>5, <2>1
    <3> QED
      BY <3>1, <3>2 DEF Valid
  <2>2. LiveTokens' = LiveTokens \ {t \in LiveTokens : t.user = u}
    BY <1>1, <1>3, <2>1 DEF LiveTokens
  <2>3. DeadTokens' = DeadTokens \cup {t \in LiveTokens : t.user = u}
    BY <1>1, <1>3, <2>1 DEF LiveTokens, DeadTokens
  <2>4. Promised!SignOut(u)
    BY <1>1, <2>2, <2>3 DEF Promised!SignOut, Promised!Die
  <2> QED
    BY <1>1, <2>4 DEF Promised!Next
<1> QED
  BY <1>4, <1>5

LEMMA PromiseStep ==
  TypesInv /\ TokensInv /\ [TokensNext]_tokenVars => [Promised!Next]_promised
<1> SUFFICES ASSUME TypesInv, TokensInv, [TokensNext]_tokenVars
             PROVE  [Promised!Next]_promised
  OBVIOUS
<1>1. CASE TokensTick
  BY <1>1, TickPromised DEF Promised!Next
<1>2. ASSUME NEW c \in Calls, ServeLogin(c) \/ CheckLogout(c) \/ RevokeAllTokens(c)
      PROVE  [Promised!Next]_promised
  BY <1>2, LoginPromised, CheckPromised, RevokePromised
<1>3. CASE UNCHANGED <<version, now, issued, crossed>>
  BY <1>3, NothingPromised
<1> QED
  BY <1>1, <1>2, <1>3 DEF TokensNext, tokenVars, SendLogin, SendWork, SendLogout, Send,
     RefuseLogin, Deny, ServeWork, Fail, Answer, ReceiveToken, Receive,
     ReceiveUnauthorized, MeFailed, ReceiveLogout, GiveUp, Forgotten

\* Every token is accepted from its sign-in until it expires or a sign-out of its
\* own user is committed, and never again, unless the user's sign-outs cross:
\* versions read in one step and written in another implement SignIns.
THEOREM SignInsImplemented == TokensSpec => SignInsRefined
<1>1. TokensInit => Promised!Init
  BY DEF TokensInit, Promised!Init, LiveTokens, DeadTokens
<1>2. TypesInv /\ TokensInv /\ [TokensNext]_tokenVars
        => [Promised!Next]_<<now, LiveTokens, DeadTokens, crossed>>
  BY PromiseStep DEF promised
<1> QED
  BY <1>1, <1>2, TypesStart, TypesStep, TokensStart, TokensStep, PTL
     DEF TokensSpec, SignInsRefined, Promised!Spec

=============================================================================
