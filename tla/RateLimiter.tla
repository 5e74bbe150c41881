----------------------------- MODULE RateLimiter -----------------------------
(***************************************************************************)
(* The request budgets of the API process.  Three sliding windows stand    *)
(* between a caller and the server:                                        *)
(*   - the global cap of RateLimitMiddleware, keyed by the token's subject *)
(*     or, without a decodable token, by the client address;               *)
(*   - the cap of LoginRateLimitMiddleware on /auth/login and              *)
(*     /auth/register, keyed by the address alone and consulted only after *)
(*     the global one has let the request through (the middleware added    *)
(*     last runs first);                                                   *)
(*   - the launch allowance of SessionService, keyed by the address.       *)
(* The first two share one RateLimiter dictionary, the third is a deque    *)
(* per address.  None of the three awaits anything, so each check and the  *)
(* charge that follows it are one step; between the global charge of a     *)
(* launch and its allowance other requests run.                            *)
(***************************************************************************)
EXTENDS Naturals, FiniteSets

CONSTANTS
  Users,          \* subjects of decodable tokens
  IPs,            \* client addresses
  NoUser,         \* the request carries no decodable token
  GlobalLimit, GlobalWindow,   \* RATE_LIMIT_REQUESTS, RATE_LIMIT_PERIOD_SECONDS
  LoginLimit, LoginWindow,     \* LOGIN_RATE_LIMIT_ATTEMPTS, ..._WINDOW_SECONDS
  LaunchLimit, LaunchWindow,   \* LAUNCH_LIMIT_PER_IP, ..._WINDOW_SECONDS
  MaxTime,        \* bound on the clock of a run
  MaxLaunching    \* bound on the launches of an address under way at once

ASSUME NamesAssumption ==
  /\ NoUser \notin Users
  /\ Users \cap IPs = {}
  /\ MaxTime \in Nat /\ MaxLaunching \in Nat

\* Every window and every limit is a positive number of ticks or requests.
ASSUME LimitsAssumption ==
  /\ GlobalLimit \in Nat \ {0} /\ GlobalWindow \in Nat \ {0}
  /\ LoginLimit \in Nat \ {0}  /\ LoginWindow \in Nat \ {0}
  /\ LaunchLimit \in Nat \ {0} /\ LaunchWindow \in Nat \ {0}

VARIABLES
  now,        \* the clock both limiters read, in ticks
  requests,   \* RateLimiter.requests: key |-> the admissions it remembers
  launches,   \* _launch_history: address |-> the launches it remembers
  launching,  \* launches of an address let through, their allowance not asked yet
  passed      \* history variable: every admission ever made against a key

vars == <<now, requests, launches, launching, passed>>

GlobalKeys == {"global"} \X (Users \cup IPs)
LoginKeys  == {"login"} \X IPs
LaunchKeys == {"launch"} \X IPs
LimiterKeys == GlobalKeys \cup LoginKeys
Keys == LimiterKeys \cup LaunchKeys

LimitOf(k) ==
  IF k \in GlobalKeys THEN GlobalLimit
  ELSE IF k \in LoginKeys THEN LoginLimit ELSE LaunchLimit

WindowOf(k) ==
  IF k \in GlobalKeys THEN GlobalWindow
  ELSE IF k \in LoginKeys THEN LoginWindow ELSE LaunchWindow

Callers == [ip : IPs, user : Users \cup {NoUser}]

\* Two admissions of one tick are two entries of the list, so a stamp is the
\* time and the admission's rank among those of its key.
Stamps == [at : Nat, rank : Nat]

\* Slip: the start of the window is stored instead of the time.
StampWindowStart(k) == [at |-> now - WindowOf(k), rank |-> Cardinality(passed[k])]

Stamp(k) == [at |-> now, rank |-> Cardinality(passed[k])]

-----------------------------------------------------------------------------
(* RateLimiter.is_allowed, on a given dictionary so that one request can    *)
(* consult it twice.                                                        *)

Remembered(dict, k) == IF k \in DOMAIN dict THEN dict[k] ELSE {}

History(dict, k) == {s \in Remembered(dict, k) : now - s.at < WindowOf(k)}

\* Slip: the limit compared with <= instead of <.
WithinLimitOffByOne(dict, k) == Cardinality(History(dict, k)) <= LimitOf(k)

WithinLimit(dict, k) == Cardinality(History(dict, k)) < LimitOf(k)

\* The pop of an empty history is always followed by an assignment of the
\* key, so whichever branch returns, the key is in the dictionary.
Remember(dict, k, history) ==
  [x \in DOMAIN dict \cup {k} |-> IF x = k THEN history ELSE dict[x]]

\* Slip: the refused request is recorded as well.
IsAllowedRecordsRefusals(dict, k) ==
  Remember(dict, k, History(dict, k) \cup {Stamp(k)})

IsAllowed(dict, k) ==
  Remember(dict, k, IF WithinLimit(dict, k) THEN History(dict, k) \cup {Stamp(k)}
                                            ELSE History(dict, k))

GlobalKey(c) == <<"global", IF c.user # NoUser THEN c.user ELSE c.ip>>

LoginKey(c)  == <<"login", c.ip>>
LaunchKey(ip) == <<"launch", ip>>

Admit(ks) ==
  passed' = [k \in Keys |-> IF k \in ks THEN passed[k] \cup {Stamp(k)} ELSE passed[k]]

-----------------------------------------------------------------------------

Init ==
  /\ now = 0
  /\ requests = [k \in {} |-> {}]
  /\ launches = [ip \in IPs |-> {}]
  /\ launching = [ip \in IPs |-> 0]
  /\ passed = [k \in Keys |-> {}]

\* The clock advances; MaxTime bounds it.
Tick ==
  /\ now < MaxTime
  /\ now' = now + 1
  /\ UNCHANGED <<requests, launches, launching, passed>>

\* 429 from RateLimitMiddleware: the route and the other limiters never see
\* the request.
RefuseGlobally(c) ==
  /\ ~WithinLimit(requests, GlobalKey(c))
  /\ requests' = IsAllowed(requests, GlobalKey(c))
  /\ UNCHANGED <<now, launches, launching, passed>>

\* A request to any path but /health, /auth/login, /auth/register and launch.
Serve(c) ==
  /\ WithinLimit(requests, GlobalKey(c))
  /\ requests' = IsAllowed(requests, GlobalKey(c))
  /\ Admit({GlobalKey(c)})
  /\ UNCHANGED <<now, launches, launching>>

\* POST /auth/login or /auth/register: the global budget is charged even when
\* the login cap then refuses.
ServeAuth(c) ==
  LET charged == IsAllowed(requests, GlobalKey(c)) IN
  /\ WithinLimit(requests, GlobalKey(c))
  /\ requests' = IsAllowed(charged, LoginKey(c))
  /\ IF WithinLimit(charged, LoginKey(c))
       THEN Admit({GlobalKey(c), LoginKey(c)})
       ELSE Admit({GlobalKey(c)})
  /\ UNCHANGED <<now, launches, launching>>

\* _enforce_launch_limits prunes with > where is_allowed keeps with <: an
\* entry exactly one window old still counts here.
RecentLaunches(ip) == {s \in launches[ip] : now - s.at <= LaunchWindow}

\* POST /workflows/{id}/launch by a known address: the session it replaces is
\* ended first, awaiting LiveKit.  One without an address, or refused by the
\* concurrency cap, is a Serve.
ServeLaunch(c) ==
  /\ launching[c.ip] < MaxLaunching
  /\ WithinLimit(requests, GlobalKey(c))
  /\ requests' = IsAllowed(requests, GlobalKey(c))
  /\ Admit({GlobalKey(c)})
  /\ launching' = [launching EXCEPT ![c.ip] = @ + 1]
  /\ UNCHANGED <<now, launches>>

\* _enforce_launch_limits, past the cap.
EnforceLaunchLimits(ip) ==
  LET recent == RecentLaunches(ip)
      admitted == Cardinality(recent) < LaunchLimit IN
  /\ launching[ip] > 0
  /\ launches' = [launches EXCEPT ![ip] =
                    IF admitted THEN recent \cup {Stamp(LaunchKey(ip))} ELSE recent]
  /\ Admit(IF admitted THEN {LaunchKey(ip)} ELSE {})
  /\ launching' = [launching EXCEPT ![ip] = @ - 1]
  /\ UNCHANGED <<now, requests>>

Next ==
  \/ Tick
  \/ \E c \in Callers :
       \/ RefuseGlobally(c)
       \/ Serve(c)
       \/ ServeAuth(c)
       \/ ServeLaunch(c)
  \/ \E ip \in IPs : EnforceLaunchLimits(ip)

\* Time passes whatever the callers do; no caller owes the server a request.
Spec == Init /\ [][Next]_vars /\ WF_vars(Tick)

-----------------------------------------------------------------------------

TypeOK ==
  /\ now \in Nat
  /\ DOMAIN requests \subseteq LimiterKeys
  /\ \A k \in DOMAIN requests : requests[k] \subseteq Stamps
  /\ launches \in [IPs -> SUBSET Stamps]
  /\ launching \in [IPs -> Nat]
  /\ passed \in [Keys -> SUBSET Stamps]
  /\ \A k \in Keys : IsFiniteSet(passed[k])

RecentlyPassed(k) == {s \in passed[k] : now - s.at < WindowOf(k)}

(* Budget: in any window of its length, no key is admitted more often than   *)
(* its limit -- whatever is pruned, refused or charged by a request that     *)
(* another limiter then turns away (is_allowed, _enforce_launch_limits).     *)
Budget == \A k \in Keys : Cardinality(RecentlyPassed(k)) <= LimitOf(k)

\* The window of the launch allowance, which keeps one instant more.
RecentlyLaunched(ip) == {s \in passed[<<"launch", ip>>] : now - s.at <= LaunchWindow}

(* RefusalsAreFree: a request is refused exactly when its key was admitted   *)
(* as often as its limit within the window that ends now.  What was refused, *)
(* pruned by a refusal, or charged to another key counts for nothing, and    *)
(* hammering while blocked does not extend the block: is_allowed stores the  *)
(* pruned history without the refused request, and so does                   *)
(* _enforce_launch_limits.                                                   *)
RefusalsAreFree ==
  /\ \A k \in LimiterKeys :
       WithinLimit(requests, k) <=> Cardinality(RecentlyPassed(k)) < LimitOf(k)
  /\ \A ip \in IPs :
       Cardinality(RecentLaunches(ip)) = Cardinality(RecentlyLaunched(ip))

(* MemoryBounded: what the limiters keep is at most one limit's worth of     *)
(* instants for every key that was ever admitted: refused requests add       *)
(* neither keys nor instants, however many there are (is_allowed stores      *)
(* a history on both of its branches).                                       *)
MemoryBounded ==
  /\ \A k \in DOMAIN requests :
       passed[k] # {} /\ Cardinality(requests[k]) <= LimitOf(k)
  /\ \A ip \in IPs : Cardinality(launches[ip]) <= LaunchLimit

(* IdleKeysAreDropped: what the comment in is_allowed says the pop is for:   *)
(* a key whose history has emptied does not stay in the dictionary "for the  *)
(* life of the process".                                                     *)
IdleKeysAreDropped ==
  \A k \in LimiterKeys :
    (k \in DOMAIN requests /\ History(requests, k) = {}) ~> k \notin DOMAIN requests

=============================================================================
