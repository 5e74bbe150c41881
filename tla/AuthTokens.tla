------------------------------ MODULE AuthTokens ------------------------------
(***************************************************************************)
(* Bearer tokens: how they are issued, checked, revoked and kept by the    *)
(* browser.  A token carries the token_version its user had; signing out   *)
(* writes the version it read, plus one.  The API's handlers run in        *)
(* threads.  A browser keeps one token in localStorage and has one page,   *)
(* which acts on whatever is stored when an answer arrives.  Users and the *)
(* clock are those of LoginLockout, which says when a sign-in is refused.  *)
(***************************************************************************)
EXTENDS LoginLockout, FiniteSets

CONSTANTS
  Browsers,
  Calls,       \* slots for calls in flight
  TokenTime,   \* JWT_EXPIRE_MINUTES, in ticks
  MaxTokens,   \* bound on the tokens issued in a run
  PerBrowser,  \* bound on the calls a page waits for
  MayFail      \* whether calls may fail without an answer from the handler

ASSUME TokensAssumption ==
  /\ None \notin Browsers
  /\ TokenTime \in Nat \ {0}
  /\ {MaxTokens, PerBrowser} \subseteq Nat
  /\ MayFail \in BOOLEAN

VARIABLES
  version,  \* token_version of a user
  stored,   \* the token in a browser's localStorage
  call,     \* the calls in flight
  issued,   \* history: the tokens issued
  revoked,  \* history: those that existed when a sign-out was committed
  crossed   \* history: users of whom two sign-outs were served at once

tokenVars == <<version, stored, call, now, issued, revoked, crossed>>

Tokens == [user : Users, tv : Nat, exp : Nat]

NoToken == [user |-> None, tv |-> 0, exp |-> 0]

\* token is the one sent; after a login it is the one issued.  seen is the
\* token_version a sign-out has read.
CallStates ==
  [pc : {"free", "sent", "checked", "ok", "denied", "failed"},
   kind : {"none", "login", "work", "me", "logout"},
   browser : Browsers \cup {None}, user : Users \cup {None},
   token : Tokens \cup {NoToken}, seen : Nat]

NoCall == [pc |-> "free", kind |-> "none", browser |-> None, user |-> None,
         token |-> NoToken, seen |-> 0]

TokensInit ==
  /\ version = [u \in Users |-> 0]
  /\ stored = [b \in Browsers |-> NoToken]
  /\ call = [c \in Calls |-> NoCall]
  /\ now = 1
  /\ issued = {}
  /\ revoked = {}
  /\ crossed = {}

TokensTick ==
  /\ now < MaxTime /\ now' = now + 1
  /\ UNCHANGED <<version, stored, call, issued, revoked, crossed>>

-----------------------------------------------------------------------------
(* The page sends.                                                          *)

CallsOf(b) == {c \in Calls : call[c].browser = b}

CallsOfKind(kind) == {c \in Calls : call[c].kind = kind}

Send(c, b, kind, u) ==
  /\ call[c].pc = "free"
  /\ Cardinality(CallsOf(b)) < PerBrowser
  /\ call' = [call EXCEPT ![c] =
       [pc |-> "sent", kind |-> kind, browser |-> b, user |-> u,
        token |-> stored[b], seen |-> 0]]
  /\ UNCHANGED <<version, stored, now, issued, revoked, crossed>>

\* The sign-in page, where a page without a token is sent; its button is off
\* while a login is under way.
SendLogin(c, b, u) ==
  /\ stored[b] = NoToken
  /\ CallsOf(b) \cap CallsOfKind("login") = {}
  /\ Send(c, b, "login", u)

\* Any request of a signed-in page; "me" is RequireAuth asking for the user.
SendWork(c, b, kind) == stored[b] # NoToken /\ Send(c, b, kind, stored[b].user)

SendLogout(c, b) == stored[b] # NoToken /\ Send(c, b, "logout", stored[b].user)

-----------------------------------------------------------------------------
(* The API serves.                                                          *)

\* get_current_user: signature and expiry, then the version of the user's row.
Valid(t) == t # NoToken /\ t.exp > now /\ t.tv = version[t.user]

Answer(c, pc) ==
  /\ call' = [call EXCEPT ![c].pc = pc]
  /\ UNCHANGED <<version, stored, now, issued, revoked, crossed>>

\* Slip: the token is issued without a version.
NewTokenUnversioned(u) == [user |-> u, tv |-> None, exp |-> now + TokenTime]

NewToken(u) == [user |-> u, tv |-> version[u], exp |-> now + TokenTime]

ServeLogin(c) ==
  LET token == NewToken(call[c].user) IN
  /\ call[c].pc = "sent" /\ call[c].kind = "login"
  /\ Cardinality(issued) < MaxTokens
  /\ issued' = issued \cup {token}
  /\ call' = [call EXCEPT ![c].pc = "ok", ![c].token = token]
  /\ UNCHANGED <<version, stored, now, revoked, crossed>>

RefuseLogin(c) == call[c].pc = "sent" /\ call[c].kind = "login" /\ Answer(c, "denied")

Deny(c) ==
  /\ call[c].pc = "sent" /\ call[c].kind # "login"
  /\ ~Valid(call[c].token)
  /\ Answer(c, "denied")

ServeWork(c) ==
  /\ call[c].pc = "sent" /\ call[c].kind \in {"work", "me"}
  /\ Valid(call[c].token)
  /\ Answer(c, "ok")

\* Sign-outs of the user that have read its version and not yet written it.
SigningOut(u) == {c \in Calls : call[c].pc = "checked" /\ call[c].user = u}

\* The row is loaded by get_current_user; the handler's own query gives the
\* same object back, with the version it had then.
CheckLogout(c) ==
  LET u == call[c].user IN
  /\ call[c].pc = "sent" /\ call[c].kind = "logout"
  /\ Valid(call[c].token)
  /\ call' = [call EXCEPT ![c].pc = "checked", ![c].seen = version[u]]
  /\ crossed' = IF SigningOut(u) = {} THEN crossed ELSE crossed \cup {u}
  /\ UNCHANGED <<version, stored, now, issued, revoked>>

\* Slip: the version is toggled, so the next but one is a version of old.
ToggledVersion(c) == 1 - call[c].seen

NextVersion(c) == call[c].seen + 1

\* Slip: the version is raised for every user.
RevokeEverybody(c) ==
  /\ call[c].pc = "checked"
  /\ version' = [u \in Users |-> NextVersion(c)]
  /\ revoked' = revoked \cup {t \in issued : t.user = call[c].user}
  /\ call' = [call EXCEPT ![c].pc = "ok"]
  /\ UNCHANGED <<stored, now, issued, crossed>>

RevokeAllTokens(c) ==
  /\ call[c].pc = "checked"
  /\ version' = [version EXCEPT ![call[c].user] = NextVersion(c)]
  /\ revoked' = revoked \cup {t \in issued : t.user = call[c].user}
  /\ call' = [call EXCEPT ![c].pc = "ok"]
  /\ UNCHANGED <<stored, now, issued, crossed>>

\* The server is unreachable or raises, or its answer is lost.
Fail(c) ==
  /\ MayFail
  /\ call[c].pc \in {"sent", "checked", "ok", "denied"}
  /\ Answer(c, "failed")

-----------------------------------------------------------------------------
(* The page receives.                                                       *)

Store(b, token) == stored' = [stored EXCEPT ![b] = token]

ReceiveToken(c) ==
  /\ call[c].pc = "ok" /\ call[c].kind = "login" /\ call[c].browser # None
  /\ Store(call[c].browser, call[c].token)
  /\ call' = [call EXCEPT ![c] = NoCall]
  /\ UNCHANGED <<version, now, issued, revoked, crossed>>

\* Nothing to do with the token: the answer is what was asked for, or the
\* failure of something other than "me" and signing out.
Receive(c) ==
  /\ \/ call[c].pc = "ok" /\ call[c].kind \in {"work", "me"}
     \/ call[c].pc = "denied" /\ call[c].kind = "login"
     \/ call[c].pc = "failed" /\ call[c].kind \in {"login", "work"}
  /\ call' = [call EXCEPT ![c] = NoCall]
  /\ UNCHANGED <<version, stored, now, issued, revoked, crossed>>

\* Slip: a failed call is treated like a refused one.
UnauthorizedOrFailed(c) == call[c].pc \in {"denied", "failed"}

Unauthorized(c) == call[c].pc = "denied"

\* The interceptor: a 401 drops the token that is stored now and reloads the
\* page, which forgets its calls; the server still works on them.
ReceiveUnauthorized(c) ==
  LET b == call[c].browser
      reload == stored[b] # NoToken
  IN
  /\ Unauthorized(c) /\ call[c].kind # "login" /\ b # None
  /\ Store(b, NoToken)
  /\ call' = [d \in Calls |->
       IF d = c THEN NoCall
       ELSE IF reload /\ call[d].browser = b THEN [call[d] EXCEPT !.browser = None]
       ELSE call[d]]
  /\ UNCHANGED <<version, now, issued, revoked, crossed>>

\* RequireAuth signs out when "me" fails for the token that is stored.
KeptUnlessOwn(c) ==
  LET token == stored[call[c].browser] IN
  IF token = call[c].token THEN NoToken ELSE token

MeFailed(c) ==
  LET b == call[c].browser IN
  /\ call[c].pc = "failed" /\ call[c].kind = "me" /\ b # None
  /\ Store(b, KeptUnlessOwn(c))
  /\ call' = [call EXCEPT ![c] = NoCall]
  /\ UNCHANGED <<version, now, issued, revoked, crossed>>

\* handleSignOut: however the call went, the browser forgets its token.
ReceiveLogout(c) ==
  /\ call[c].pc \in {"ok", "failed"} /\ call[c].kind = "logout"
  /\ call[c].browser # None
  /\ Store(call[c].browser, NoToken)
  /\ call' = [call EXCEPT ![c] = NoCall]
  /\ UNCHANGED <<version, now, issued, revoked, crossed>>

\* The time-out of the page's client: to the page the call has failed, and the
\* server, which is not told, works on it.
GiveUp(c) ==
  LET b == call[c].browser IN
  /\ MayFail
  /\ call[c].pc \in {"sent", "checked", "ok", "denied"} /\ b # None
  /\ Store(b, CASE call[c].kind = "logout" -> NoToken
                [] call[c].kind = "me" -> KeptUnlessOwn(c)
                [] OTHER -> stored[b])
  /\ call' = [call EXCEPT ![c].browser = None]
  /\ UNCHANGED <<version, now, issued, revoked, crossed>>

\* The answer to a page that was reloaded, or has given up, since.
Forgotten(c) ==
  /\ call[c].pc \in {"ok", "denied", "failed"} /\ call[c].browser = None
  /\ call' = [call EXCEPT ![c] = NoCall]
  /\ UNCHANGED <<version, stored, now, issued, revoked, crossed>>

TokensNext ==
  \/ TokensTick
  \/ \E c \in Calls :
       \/ \E b \in Browsers :
            \/ \E u \in Users : SendLogin(c, b, u)
            \/ \E kind \in {"work", "me"} : SendWork(c, b, kind)
            \/ SendLogout(c, b)
       \/ ServeLogin(c) \/ RefuseLogin(c) \/ Deny(c) \/ ServeWork(c)
       \/ CheckLogout(c) \/ RevokeAllTokens(c) \/ Fail(c)
       \/ ReceiveToken(c) \/ Receive(c) \/ ReceiveUnauthorized(c)
       \/ MeFailed(c) \/ ReceiveLogout(c) \/ GiveUp(c) \/ Forgotten(c)

TokensSpec == TokensInit /\ [][TokensNext]_tokenVars

-----------------------------------------------------------------------------
(* SignInsRefined: versions implement tokens that live and die.             *)

LiveTokens == {t \in issued : t.user \notin crossed /\ Valid(t)}

DeadTokens == {t \in issued : t.user \notin crossed /\ ~Valid(t)}

Promised == INSTANCE SignIns WITH live <- LiveTokens, dead <- DeadTokens, wild <- crossed

-----------------------------------------------------------------------------

\* Every variable keeps its type.
TokensTypeOK ==
  /\ version \in [Users -> Nat]
  /\ stored \in [Browsers -> Tokens \cup {NoToken}]
  /\ call \in [Calls -> CallStates]
  /\ now \in Nat
  /\ issued \subseteq Tokens
  /\ revoked \subseteq issued
  /\ crossed \subseteq Users

\* Signing out invalidates every token of the user for good, whatever else is
\* in flight and however late it is committed, unless two sign-outs of that
\* user were served at once.
TokensStayRevoked == \A t \in revoked : Valid(t) => t.user \in crossed

\* Every token is accepted from its sign-in until it expires or a sign-out of its
\* own user is committed, and never again, whatever sign-ins and sign-outs of
\* whichever users overlap; but for those whose sign-outs cross.
SignInsRefined == Promised!Spec

\* README: logout "invalidates every token issued to that account".  Overlapping
\* sign-outs write versions they read long ago: a revoked token lives again.
NoTokenRevives ==
  [][\A t \in issued : t.tv < version[t.user] => t.tv < version'[t.user]]_tokenVars

\* A browser loses a session that is alive (and not revived by crossing
\* sign-outs) only when its user signs out, when its own "me" for that session
\* got no answer, or, late, by the 401 to a request that was sent with another
\* token: never by a failure of its other calls.
SessionKept ==
  [][\A b \in Browsers :
       Valid(stored[b]) /\ stored[b].user \notin crossed /\ stored'[b] = NoToken =>
         \E c \in Calls :
           /\ call[c].browser = b
           /\ \/ call[c].kind = "logout" /\ call[c].pc # "denied"
              \/ /\ call[c].kind = "me" /\ call[c].token = stored[b]
                 /\ call[c].pc = "failed" \/ GiveUp(c)
              \/ call[c].pc = "denied" /\ call[c].token # stored[b]]_tokenVars

\* client.jsx: "so only redirect for an expired session on an otherwise-
\* authenticated request": the token that is dropped is the one refused.
OnlyExpiredDropped ==
  [][\A b \in Browsers, c \in Calls :
       ReceiveUnauthorized(c) /\ call[c].browser = b /\ stored[b] # NoToken
         => call[c].token = stored[b]]_tokenVars

=============================================================================
