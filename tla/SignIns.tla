------------------------------- MODULE SignIns -------------------------------
(***************************************************************************)
(* What bearer tokens promise: a sign-in makes one, which is accepted from *)
(* then on until it expires or its user signs out.  Nothing else ends it,  *)
(* and a token that is dead stays dead.  Of users whose sign-outs cross    *)
(* nothing is promised any more.  AuthTokens implements this with version  *)
(* numbers that a sign-out reads in one step and writes in another.        *)
(***************************************************************************)
EXTENDS Naturals

CONSTANTS Users, TokenTime

VARIABLES
  now,
  live,  \* the tokens that are accepted
  dead,  \* those that no longer are
  wild   \* users of whom nothing is promised

Init == now = 1 /\ live = {} /\ dead = {} /\ wild = {}

Die(T) == live' = live \ T /\ dead' = dead \cup T

Tick ==
  /\ now' = now + 1
  /\ Die({t \in live : t.exp <= now'})
  /\ UNCHANGED wild

\* Sign-ins of one instant may give one token.
SignIn(t) ==
  /\ t.user \in Users \ wild /\ t.exp = now + TokenTime
  /\ t \notin live \cup dead
  /\ live' = live \cup {t}
  /\ UNCHANGED <<now, dead, wild>>

SignOut(u) ==
  /\ Die({t \in live : t.user = u})
  /\ UNCHANGED <<now, wild>>

Cross(u) ==
  /\ wild' = wild \cup {u}
  /\ live' = {t \in live : t.user # u}
  /\ dead' = {t \in dead : t.user # u}
  /\ UNCHANGED now

Next ==
  \/ Tick
  \/ \E t \in live' : SignIn(t)
  \/ \E u \in Users : SignOut(u) \/ Cross(u)

Spec == Init /\ [][Next]_<<now, live, dead, wild>>

=============================================================================
