------------------------------ MODULE MCAccounts ------------------------------
(***************************************************************************)
(* A small instance of the accounts: signing in with its lockout, and what *)
(* becomes of the tokens.  A token does not say how its owner's lockout    *)
(* stands and the lockout does not look at tokens, so a behaviour is about *)
(* one of the two, chosen at the start.                                    *)
(***************************************************************************)
EXTENDS AuthTokens, TLC

CONSTANT mail

VARIABLE about  \* "lockout" or "tokens"

\* The users of two tenants with one address.
SameAddress == [u \in Users |-> mail]

Symmetry ==
  Permutations(Users) \cup Permutations(Logins) \cup Permutations(Browsers)
    \cup Permutations(Calls)

MCInit == Init /\ TokensInit /\ about \in {"lockout", "tokens"}

MCNext ==
  /\ \/ about = "lockout" /\ Next /\ UNCHANGED <<version, stored, call, issued, revoked, crossed>>
     \/ about = "tokens" /\ TokensNext /\ UNCHANGED <<user, login, wrongs, streak, overlap>>
  /\ UNCHANGED about

MCSpec == MCInit /\ [][MCNext]_<<vars, tokenVars, about>>
=============================================================================
