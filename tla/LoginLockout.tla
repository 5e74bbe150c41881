----------------------------- MODULE LoginLockout -----------------------------
(***************************************************************************)
(* Signing in by e-mail address.  An address may belong to a user of each  *)
(* of several tenants; the handler tries the password on one after the     *)
(* other, counting failures and locking accounts as it goes.  Handlers run *)
(* in threads: the rows are loaded by one SELECT, the password is hashed,  *)
(* then the columns that changed are written; no row is locked.            *)
(***************************************************************************)
EXTENDS Naturals

CONSTANTS
  Users,
  Addresses,
  AddressOf,   \* the e-mail address of a user
  Logins,      \* slots for login requests in flight: bounds the concurrency
  None,
  Threshold,   \* ACCOUNT_LOCKOUT_THRESHOLD
  LockTime,    \* ACCOUNT_LOCKOUT_DURATION_SECONDS, in ticks
  MaxTime,     \* bound on the clock of a run
  MaxWrong     \* bound on the wrong passwords tried on a user in a run

ASSUME LockoutAssumption ==
  /\ AddressOf \in [Users -> Addresses]
  /\ None \notin Users
  /\ Threshold \in Nat \ {0}
  /\ LockTime \in Nat \ {0}
  /\ MaxTime \in Nat
  /\ MaxWrong \in Nat

VARIABLES
  user,    \* failed_login_attempts and locked_until; 0 is NULL
  login,   \* the requests in flight
  now,
  wrongs,  \* history: wrong passwords tried on a user
  streak,  \* history: those since its last successful sign-in
  overlap  \* history: two logins have been in flight at once

vars == <<user, login, now, wrongs, streak, overlap>>

Rows == [attempts : Nat, until : Nat]

\* A handler between two steps: the rows it loaded, unless a commit of its own
\* has expired them; the user it is hashing for and that row as it was read.
LoginStates ==
  [pc : {"free", "next", "verify"}, began : Nat, todo : SUBSET Users,
   fits : SUBSET Users, loaded : [Users -> Rows], expired : BOOLEAN,
   at : Users \cup {None}, seen : Rows]

NeverFailed == [attempts |-> 0, until |-> 0]

Free == [pc |-> "free", began |-> 0, todo |-> {}, fits |-> {},
         loaded |-> [u \in Users |-> NeverFailed], expired |-> FALSE,
         at |-> None, seen |-> NeverFailed]

Init ==
  /\ user = [u \in Users |-> NeverFailed]
  /\ login = [l \in Logins |-> Free]
  /\ now = 1
  /\ wrongs = [u \in Users |-> 0]
  /\ streak = [u \in Users |-> 0]
  /\ overlap = FALSE

-----------------------------------------------------------------------------

Tick ==
  /\ now < MaxTime
  /\ now' = now + 1
  /\ UNCHANGED <<user, login, wrongs, streak, overlap>>

\* The address' users are selected; fits are those whose password was given.
Submit(l, a, fits) ==
  LET candidates == {u \in Users : AddressOf[u] = a} IN
  /\ login[l].pc = "free"
  /\ fits \subseteq candidates
  /\ \A u \in Users : wrongs[u] < MaxWrong
  /\ login' = [login EXCEPT ![l] =
       [Free EXCEPT !.pc = "next", !.began = now, !.todo = candidates,
                    !.fits = fits, !.loaded = user]]
  /\ overlap' = (overlap \/ \E x \in Logins : login[x].pc # "free")
  /\ UNCHANGED <<user, now, wrongs, streak>>

\* A row is read again only after a commit of this session.
RowSeen(l, u) == IF login[l].expired THEN user[u] ELSE login[l].loaded[u]

\* Slip: the lock is not looked at.
LockedIgnored(l, u) == FALSE

Locked(l, u) == RowSeen(l, u).until > login[l].began

SkipLocked(l, u) ==
  /\ login[l].pc = "next" /\ u \in login[l].todo
  /\ Locked(l, u)
  /\ login' = [login EXCEPT ![l].todo = @ \ {u}]
  /\ UNCHANGED <<user, now, wrongs, streak, overlap>>

Verify(l, u) ==
  /\ login[l].pc = "next" /\ u \in login[l].todo
  /\ ~Locked(l, u)
  /\ login' = [login EXCEPT ![l].pc = "verify", ![l].todo = @ \ {u},
                            ![l].at = u, ![l].seen = RowSeen(l, u)]
  /\ UNCHANGED <<user, now, wrongs, streak, overlap>>

\* Slip: a sign-in leaves the counter as it is.
ClearedNot(l) == user[login[l].at]

\* The UPDATE names the columns whose value differs from the one loaded.
Cleared(l) ==
  LET row == user[login[l].at]
      seen == login[l].seen
  IN [attempts |-> IF seen.attempts # 0 THEN 0 ELSE row.attempts,
      until |-> IF seen.until # 0 THEN 0 ELSE row.until]

SignIn(l) ==
  LET u == login[l].at IN
  /\ login[l].pc = "verify" /\ u \in login[l].fits
  /\ user' = [user EXCEPT ![u] = Cleared(l)]
  /\ streak' = [streak EXCEPT ![u] = 0]
  /\ login' = [login EXCEPT ![l] = Free]
  /\ UNCHANGED <<now, wrongs, overlap>>

\* Slip: the lock comes one failure early.
ChargedEarly(l) ==
  LET attempts == login[l].seen.attempts + 1 IN
  [attempts |-> attempts,
   until |-> IF attempts + 1 >= Threshold THEN login[l].began + LockTime
             ELSE user[login[l].at].until]

\* Slip: the counter counts the attempts that are left.
ChargedDown(l) ==
  [attempts |-> login[l].seen.attempts - 1, until |-> user[login[l].at].until]

Charged(l) ==
  LET attempts == login[l].seen.attempts + 1 IN
  [attempts |-> attempts,
   until |-> IF attempts >= Threshold THEN login[l].began + LockTime
             ELSE user[login[l].at].until]

WrongPassword(l) ==
  LET u == login[l].at IN
  /\ login[l].pc = "verify" /\ u \notin login[l].fits
  /\ user' = [user EXCEPT ![u] = Charged(l)]
  /\ wrongs' = [wrongs EXCEPT ![u] = @ + 1]
  /\ streak' = [streak EXCEPT ![u] = @ + 1]
  /\ login' = [login EXCEPT ![l].pc = "next", ![l].expired = TRUE]
  /\ UNCHANGED <<now, overlap>>

\* Nobody is left to try: 401, or 423 with the time left if a candidate was
\* locked; the three answers, with the error raised if a sign-in has cleared that
\* lock and the row is read again, leave the same state.
Refuse(l) ==
  /\ login[l].pc = "next" /\ login[l].todo = {}
  /\ login' = [login EXCEPT ![l] = Free]
  /\ UNCHANGED <<user, now, wrongs, streak, overlap>>

Next ==
  \/ Tick
  \/ \E l \in Logins :
       \/ \E a \in Addresses, fits \in SUBSET Users : Submit(l, a, fits)
       \/ \E u \in Users : SkipLocked(l, u) \/ Verify(l, u)
       \/ SignIn(l) \/ WrongPassword(l) \/ Refuse(l)

Spec == Init /\ [][Next]_vars

-----------------------------------------------------------------------------

\* Every variable keeps its type.
TypeOK ==
  /\ user \in [Users -> Rows]
  /\ login \in [Logins -> LoginStates]
  /\ now \in Nat
  /\ wrongs \in [Users -> Nat]
  /\ streak \in [Users -> Nat]
  /\ overlap \in BOOLEAN

\* An account is never locked before Threshold wrong passwords were tried on
\* it, however stale the counters that overlapping logins write back.
NoEarlyLock ==
  \A u \in Users : user[u].until # 0 => wrongs[u] >= Threshold

\* The row of a locked account is written only by a login that had read it
\* before it was locked: everybody who comes later leaves it alone.
LockedRowsRest ==
  [][\A u \in Users : user[u].until > now /\ user'[u] # user[u] =>
       \E l \in Logins : /\ login[l].pc = "verify" /\ login[l].at = u
                         /\ login[l].seen.until # user[u].until]_vars

\* As long as logins came one at a time the counter is the number of consecutive
\* failures, and an account that reached the threshold has been locked.
CountsConsecutiveFailures ==
  ~overlap /\ (\A l \in Logins : login[l].pc = "free") =>
    \A u \in Users : /\ user[u].attempts = streak[u]
                     /\ streak[u] >= Threshold => user[u].until # 0

\* SECURITY.md: the account is locked "after ACCOUNT_LOCKOUT_THRESHOLD
\* consecutive failures".
ThresholdLocks ==
  (\A l \in Logins : login[l].pc = "free") =>
    \A u \in Users : streak[u] >= Threshold => user[u].until # 0

=============================================================================
