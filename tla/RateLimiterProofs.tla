-------------------------- MODULE RateLimiterProofs --------------------------
(***************************************************************************)
(* Proofs that the budgets of RateLimiter hold for every number of callers,*)
(* every limit and every window.                                           *)
(***************************************************************************)
EXTENDS RateLimiter, FiniteSetTheorems, TLAPS

(* The strengthening of Budget that every request preserves: a limiter's     *)
(* memory of a key holds everything admitted within the window, holds only   *)
(* what was admitted, and never exceeds the limit.                           *)
MemoryOK(k, memory, recent) ==
  /\ recent \subseteq memory
  /\ memory \subseteq passed[k]
  /\ IsFiniteSet(memory)
  /\ Cardinality(memory) <= LimitOf(k)

BudgetInv ==
  /\ TypeOK
  /\ \A k \in LimiterKeys : MemoryOK(k, Remembered(requests, k), RecentlyPassed(k))
  /\ \A ip \in IPs : MemoryOK(<<"launch", ip>>, launches[ip], RecentlyLaunched(ip))

-----------------------------------------------------------------------------
(* The three scopes do not overlap, and a key is charged under its own limit. *)
LEMMA KeyScopes ==
  /\ \A k \in LaunchKeys : k \notin LimiterKeys
  /\ \A k \in LaunchKeys : LimitOf(k) = LaunchLimit /\ WindowOf(k) = LaunchWindow
  /\ \A k \in Keys : LimitOf(k) \in Nat \ {0} /\ WindowOf(k) \in Nat \ {0}
BY LimitsAssumption DEF GlobalKeys, LoginKeys, LaunchKeys, LimiterKeys, Keys, LimitOf, WindowOf

(* A caller is charged under keys of the right scope.                        *)
LEMMA CallerKeys ==
  ASSUME NEW c \in Callers
  PROVE  /\ GlobalKey(c) \in LimiterKeys
         /\ LoginKey(c) \in LimiterKeys
         /\ GlobalKey(c) # LoginKey(c)
         /\ c.ip \in IPs
BY DEF Callers, GlobalKey, LoginKey, GlobalKeys, LoginKeys, LimiterKeys

(* Storing a history under one key leaves what is remembered of the others.  *)
LEMMA RememberedAfter ==
  ASSUME NEW dict, NEW k, NEW h
  PROVE  /\ DOMAIN Remember(dict, k, h) = DOMAIN dict \cup {k}
         /\ Remembered(Remember(dict, k, h), k) = h
         /\ \A x : x # k => Remembered(Remember(dict, k, h), x) = Remembered(dict, x)
BY DEF Remember, Remembered

(* The arithmetic of one admission: a pruned history stays within the limit, *)
(* and takes one more entry when it is strictly below it.                    *)
LEMMA PruneThenAdmit ==
  ASSUME NEW memory, NEW hist, NEW stamp, NEW limit \in Nat,
         IsFiniteSet(memory), Cardinality(memory) <= limit, hist \subseteq memory
  PROVE  /\ IsFiniteSet(hist)
         /\ Cardinality(hist) \in Nat
         /\ Cardinality(hist) <= limit
         /\ IsFiniteSet(hist \cup {stamp})
         /\ Cardinality(hist) < limit => Cardinality(hist \cup {stamp}) <= limit
<1>1. IsFiniteSet(hist) /\ Cardinality(hist) <= Cardinality(memory)
  BY FS_Subset
<1>2. Cardinality(hist) \in Nat /\ Cardinality(memory) \in Nat
  BY <1>1, FS_CardinalityType
<1>3. /\ IsFiniteSet(hist \cup {stamp})
      /\ \/ Cardinality(hist \cup {stamp}) = Cardinality(hist)
         \/ Cardinality(hist \cup {stamp}) = Cardinality(hist) + 1
  BY <1>1, FS_AddElement
<1> QED
  BY <1>1, <1>2, <1>3

(* is_allowed re-establishes what BudgetInv says of the key it charges.      *)
LEMMA ChargeKeepsMemory ==
  ASSUME NEW dict, NEW k \in LimiterKeys, TypeOK,
         MemoryOK(k, Remembered(dict, k), RecentlyPassed(k)),
         NEW log,
         log = IF WithinLimit(dict, k) THEN passed[k] \cup {Stamp(k)} ELSE passed[k]
  PROVE  LET memory == Remembered(IsAllowed(dict, k), k)
         IN  /\ {s \in log : now - s.at < WindowOf(k)} \subseteq memory
             /\ memory \subseteq log
             /\ IsFiniteSet(memory)
             /\ Cardinality(memory) <= LimitOf(k)
<1> DEFINE hist == History(dict, k)
           memory == Remembered(IsAllowed(dict, k), k)
<1>1. k \in Keys /\ LimitOf(k) \in Nat
  BY KeyScopes DEF Keys
<1>2. memory = IF WithinLimit(dict, k) THEN hist \cup {Stamp(k)} ELSE hist
  <2> DEFINE h == IF WithinLimit(dict, k) THEN hist \cup {Stamp(k)} ELSE hist
  <2>1. IsAllowed(dict, k) = Remember(dict, k, h)
    BY DEF IsAllowed
  <2>2. Remembered(Remember(dict, k, h), k) = h
    <3> HIDE DEF h
    <3> QED BY DEF Remember, Remembered
  <2> QED
    BY <2>1, <2>2
<1>3. hist \subseteq Remembered(dict, k) /\ RecentlyPassed(k) \subseteq hist
  BY DEF MemoryOK, History, RecentlyPassed
<1>4. /\ IsFiniteSet(hist)
      /\ Cardinality(hist) <= LimitOf(k)
      /\ IsFiniteSet(hist \cup {Stamp(k)})
      /\ Cardinality(hist) < LimitOf(k) => Cardinality(hist \cup {Stamp(k)}) <= LimitOf(k)
  BY <1>1, <1>3, PruneThenAdmit DEF MemoryOK
<1>5. /\ {s \in log : now - s.at < WindowOf(k)} \subseteq memory
      /\ memory \subseteq log
  BY <1>2, <1>3 DEF MemoryOK, RecentlyPassed
<1>6. IsFiniteSet(memory) /\ Cardinality(memory) <= LimitOf(k)
  BY <1>2, <1>4 DEF WithinLimit
<1> QED
  BY <1>5, <1>6

(* A stamp is well formed: the admissions of a key are finitely many.        *)
LEMMA StampType ==
  ASSUME TypeOK, NEW k \in Keys
  PROVE  Stamp(k) \in Stamps
BY FS_CardinalityType DEF TypeOK, Stamp, Stamps

(* Charging one key leaves what the dictionary remembers of the others, and  *)
(* the dictionary only ever holds well-formed keys and stamps.               *)
LEMMA ChargeFrame ==
  ASSUME NEW dict, NEW k \in LimiterKeys, TypeOK,
         DOMAIN dict \subseteq LimiterKeys,
         \A x \in DOMAIN dict : dict[x] \subseteq Stamps
  PROVE  /\ DOMAIN IsAllowed(dict, k) \subseteq LimiterKeys
         /\ \A x \in DOMAIN IsAllowed(dict, k) : IsAllowed(dict, k)[x] \subseteq Stamps
         /\ \A x : x # k => Remembered(IsAllowed(dict, k), x) = Remembered(dict, x)
<1>1. k \in Keys
  BY DEF Keys
<1>2. Stamp(k) \in Stamps
  BY <1>1, StampType
<1> QED
  BY <1>2 DEF IsAllowed, Remember, Remembered, History

(* Admit leaves a well-formed log.                                           *)
LEMMA AdmitType ==
  ASSUME TypeOK, NEW ks, Admit(ks)
  PROVE  /\ passed' \in [Keys -> SUBSET Stamps]
         /\ \A k \in Keys : IsFiniteSet(passed'[k])
         /\ \A k \in Keys : passed'[k] = IF k \in ks THEN passed[k] \cup {Stamp(k)}
                                                     ELSE passed[k]
<1>1. \A k \in Keys : Stamp(k) \in Stamps
  BY StampType
<1>2. \A k \in Keys : passed[k] \subseteq Stamps /\ IsFiniteSet(passed[k])
  BY DEF TypeOK
<1>3. \A k \in Keys : IsFiniteSet(passed[k] \cup {Stamp(k)})
  BY <1>2, FS_AddElement
<1> QED
  BY <1>1, <1>2, <1>3 DEF Admit

(* The type invariant: keys, stamps and logs stay well formed.               *)
THEOREM TypesHold == Spec => []TypeOK
<1>1. Init => TypeOK
  BY FS_EmptySet DEF Init, TypeOK
<1>2. TypeOK /\ [Next]_vars => TypeOK'
  <2> SUFFICES ASSUME TypeOK, [Next]_vars
               PROVE  TypeOK'
    OBVIOUS
  <2>0. /\ DOMAIN requests \subseteq LimiterKeys
        /\ \A k \in DOMAIN requests : requests[k] \subseteq Stamps
    BY DEF TypeOK
  <2>1. CASE Tick
    BY <2>1 DEF Tick, TypeOK
  <2>2. ASSUME NEW c \in Callers, RefuseGlobally(c)
        PROVE  TypeOK'
    BY <2>0, <2>2, CallerKeys, ChargeFrame DEF RefuseGlobally, TypeOK
  <2>3. ASSUME NEW c \in Callers, Serve(c)
        PROVE  TypeOK'
    <3>1. /\ DOMAIN requests' \subseteq LimiterKeys
          /\ \A k \in DOMAIN requests' : requests'[k] \subseteq Stamps
      BY <2>0, <2>3, CallerKeys, ChargeFrame DEF Serve
    <3> QED
      BY <2>3, <3>1, AdmitType DEF Serve, TypeOK
  <2>4. ASSUME NEW c \in Callers, ServeAuth(c)
        PROVE  TypeOK'
    <3> DEFINE charged == IsAllowed(requests, GlobalKey(c))
    <3>1. /\ DOMAIN charged \subseteq LimiterKeys
          /\ \A k \in DOMAIN charged : charged[k] \subseteq Stamps
      BY <2>0, CallerKeys, ChargeFrame
    <3>2. requests' = IsAllowed(charged, LoginKey(c))
      BY <2>4 DEF ServeAuth
    <3>3. /\ DOMAIN requests' \subseteq LimiterKeys
          /\ \A k \in DOMAIN requests' : requests'[k] \subseteq Stamps
      <4> HIDE DEF charged
      <4> QED BY <3>1, <3>2, CallerKeys, ChargeFrame
    <3>4. \E ks : Admit(ks)
      BY <2>4 DEF ServeAuth
    <3> QED
      BY <2>4, <3>3, <3>4, AdmitType DEF ServeAuth, TypeOK
  <2>5. ASSUME NEW c \in Callers, ServeLaunch(c)
        PROVE  TypeOK'
    <3>1. /\ DOMAIN requests' \subseteq LimiterKeys
          /\ \A k \in DOMAIN requests' : requests'[k] \subseteq Stamps
      BY <2>0, <2>5, CallerKeys, ChargeFrame DEF ServeLaunch
    <3>2. launching' \in [IPs -> Nat]
      <4>1. launching[c.ip] + 1 \in Nat
        BY CallerKeys DEF TypeOK
      <4> QED
        BY <2>5, <4>1 DEF ServeLaunch, TypeOK
    <3> QED
      BY <2>5, <3>1, <3>2, AdmitType DEF ServeLaunch, TypeOK
  <2>6. ASSUME NEW ip \in IPs, EnforceLaunchLimits(ip)
        PROVE  TypeOK'
    <3>1. LaunchKey(ip) \in Keys
      BY DEF LaunchKey, LaunchKeys, Keys
    <3>2. launches' \in [IPs -> SUBSET Stamps]
      <4>1. launches[ip] \subseteq Stamps /\ Stamp(LaunchKey(ip)) \in Stamps
        BY <3>1, StampType DEF TypeOK
      <4> QED
        BY <2>6, <4>1 DEF EnforceLaunchLimits, RecentLaunches, TypeOK
    <3>3. launching' \in [IPs -> Nat]
      <4>1. launching[ip] \in Nat /\ launching[ip] > 0
        BY <2>6 DEF EnforceLaunchLimits, TypeOK
      <4>2. launching[ip] - 1 \in Nat
        BY <4>1
      <4> QED
        BY <2>6, <4>2 DEF EnforceLaunchLimits, TypeOK
    <3>4. \E ks : Admit(ks)
      BY <2>6 DEF EnforceLaunchLimits
    <3> QED
      BY <2>0, <2>6, <3>2, <3>3, <3>4, AdmitType DEF EnforceLaunchLimits, TypeOK
  <2>7. CASE UNCHANGED vars
    BY <2>7 DEF vars, TypeOK
  <2> QED
    BY <2>1, <2>2, <2>3, <2>4, <2>5, <2>6, <2>7 DEF Next
<1> QED
  BY <1>1, <1>2, PTL DEF Spec

(* Initially nothing is remembered and nothing was admitted.                 *)
LEMMA InitBudget == Init => BudgetInv
<1> SUFFICES ASSUME Init
             PROVE  BudgetInv
  OBVIOUS
<1>1. TypeOK
  BY FS_EmptySet DEF Init, TypeOK
<1>2. \A k \in LimiterKeys : k \in Keys /\ RecentlyPassed(k) = {} /\ Remembered(requests, k) = {}
  BY DEF Init, Keys, RecentlyPassed, Remembered
<1>3. \A ip \in IPs : <<"launch", ip>> \in Keys /\ RecentlyLaunched(ip) = {} /\ launches[ip] = {}
  BY DEF Init, Keys, LaunchKeys, RecentlyLaunched
<1>4. \A k \in Keys : MemoryOK(k, {}, {})
  <2>1. \A k \in Keys : LimitOf(k) \in Nat
    BY KeyScopes
  <2>2. IsFiniteSet({}) /\ Cardinality({}) = 0
    BY FS_EmptySet
  <2> QED
    BY <2>1, <2>2 DEF MemoryOK
<1> QED
  BY <1>1, <1>2, <1>3, <1>4 DEF BudgetInv

(* One request keeps the limiters' memory right for every key: the keys it   *)
(* charges by ChargeKeepsMemory, the others because nothing they depend on   *)
(* changes.                                                                  *)
LEMMA StepBudget == TypeOK' /\ BudgetInv /\ [Next]_vars => BudgetInv'
<1> SUFFICES ASSUME TypeOK', BudgetInv, [Next]_vars
             PROVE  BudgetInv'
  OBVIOUS
<1> DEFINE LimiterOK(k) == MemoryOK(k, Remembered(requests, k), RecentlyPassed(k))
           LaunchesOK(ip) == MemoryOK(<<"launch", ip>>, launches[ip], RecentlyLaunched(ip))
<1>0. /\ TypeOK
      /\ \A k \in LimiterKeys : LimiterOK(k) /\ k \in Keys
      /\ \A ip \in IPs : LaunchesOK(ip) /\ <<"launch", ip>> \in LaunchKeys
      /\ \A ip \in IPs : <<"launch", ip>> \in Keys /\ <<"launch", ip>> \notin LimiterKeys
  BY KeyScopes DEF BudgetInv, Keys, LaunchKeys
<1>a. SUFFICES /\ \A k \in LimiterKeys : LimiterOK(k)'
               /\ \A ip \in IPs : LaunchesOK(ip)'
  BY DEF BudgetInv
<1>1. ASSUME NEW k \in LimiterKeys, now' = now, passed'[k] = passed[k],
             Remembered(requests', k) = Remembered(requests, k)
      PROVE  LimiterOK(k)'
  BY <1>0, <1>1 DEF MemoryOK, RecentlyPassed
<1>2. ASSUME NEW ip \in IPs, now' = now, passed'[<<"launch", ip>>] = passed[<<"launch", ip>>],
             launches'[ip] = launches[ip]
      PROVE  LaunchesOK(ip)'
  BY <1>0, <1>2 DEF MemoryOK, RecentlyLaunched
<1>3. ASSUME NEW k \in LimiterKeys, NEW dict, LimiterOK(k), now' = now,
             Remembered(dict, k) = Remembered(requests, k),
             Remembered(requests', k) = Remembered(IsAllowed(dict, k), k),
             passed'[k] = IF WithinLimit(dict, k) THEN passed[k] \cup {Stamp(k)} ELSE passed[k]
      PROVE  LimiterOK(k)'
  BY <1>0, <1>3, ChargeKeepsMemory DEF MemoryOK, RecentlyPassed
<1>4. CASE Tick
  <2>1. now \in Nat /\ now' = now + 1 /\ UNCHANGED <<requests, launches, passed>>
    BY <1>0, <1>4 DEF Tick, TypeOK
  <2>2. \A k \in Keys : passed[k] \subseteq Stamps /\ WindowOf(k) \in Nat
    BY <1>0, KeyScopes DEF TypeOK
  <2>3. ASSUME NEW k \in LimiterKeys
        PROVE  RecentlyPassed(k)' \subseteq RecentlyPassed(k)
    <3>1. WindowOf(k)' = WindowOf(k) /\ WindowOf(k) \in Nat
      BY <1>0, <2>2 DEF WindowOf
    <3>2. \A s \in passed[k] : s.at \in Nat
      BY <1>0, <2>2 DEF Stamps
    <3>3. \A s \in passed[k] : (now + 1) - s.at < WindowOf(k) => now - s.at < WindowOf(k)
      BY <2>1, <3>1, <3>2
    <3> QED
      BY <2>1, <3>1, <3>3 DEF RecentlyPassed
  <2>4. ASSUME NEW ip \in IPs
        PROVE  RecentlyLaunched(ip)' \subseteq RecentlyLaunched(ip)
    <3>1. \A s \in passed[<<"launch", ip>>] : s.at \in Nat
      BY <1>0, <2>2 DEF Stamps
    <3>2. \A s \in passed[<<"launch", ip>>] :
            (now + 1) - s.at <= LaunchWindow => now - s.at <= LaunchWindow
      BY <2>1, <3>1, LimitsAssumption
    <3> QED
      BY <2>1, <3>2 DEF RecentlyLaunched
  <2> QED
    BY <1>0, <2>1, <2>3, <2>4 DEF MemoryOK
<1>5. ASSUME NEW c \in Callers, RefuseGlobally(c)
      PROVE  (\A k \in LimiterKeys : LimiterOK(k)') /\ (\A ip \in IPs : LaunchesOK(ip)')
  <2>1. /\ requests' = IsAllowed(requests, GlobalKey(c))
        /\ ~WithinLimit(requests, GlobalKey(c))
        /\ UNCHANGED <<now, launches, passed>>
    BY <1>5 DEF RefuseGlobally
  <2>2. LimiterOK(GlobalKey(c))'
    BY <1>0, <1>3, <2>1, CallerKeys
  <2>3. \A k \in LimiterKeys : k # GlobalKey(c) => Remembered(requests', k) = Remembered(requests, k)
    BY <1>0, <2>1, CallerKeys, ChargeFrame DEF TypeOK
  <2> QED
    BY <1>1, <1>2, <2>1, <2>2, <2>3
<1>6. ASSUME NEW c \in Callers, Serve(c) \/ ServeLaunch(c)
      PROVE  (\A k \in LimiterKeys : LimiterOK(k)') /\ (\A ip \in IPs : LaunchesOK(ip)')
  <2>1. /\ requests' = IsAllowed(requests, GlobalKey(c))
        /\ WithinLimit(requests, GlobalKey(c))
        /\ Admit({GlobalKey(c)})
        /\ UNCHANGED <<now, launches>>
    BY <1>6 DEF Serve, ServeLaunch
  <2>2. \A k \in Keys : passed'[k] = IF k = GlobalKey(c) THEN passed[k] \cup {Stamp(k)} ELSE passed[k]
    BY <1>0, <2>1, AdmitType
  <2>3. LimiterOK(GlobalKey(c))'
    BY <1>0, <1>3, <2>1, <2>2, CallerKeys
  <2>4. \A k \in LimiterKeys : k # GlobalKey(c) => Remembered(requests', k) = Remembered(requests, k)
    BY <1>0, <2>1, CallerKeys, ChargeFrame DEF TypeOK
  <2> QED
    BY <1>0, <1>1, <1>2, <2>1, <2>2, <2>3, <2>4, CallerKeys
<1>7. ASSUME NEW c \in Callers, ServeAuth(c)
      PROVE  (\A k \in LimiterKeys : LimiterOK(k)') /\ (\A ip \in IPs : LaunchesOK(ip)')
  <2> DEFINE charged == IsAllowed(requests, GlobalKey(c))
             ks == IF WithinLimit(charged, LoginKey(c)) THEN {GlobalKey(c), LoginKey(c)}
                                                        ELSE {GlobalKey(c)}
  <2>1. /\ requests' = IsAllowed(charged, LoginKey(c))
        /\ WithinLimit(requests, GlobalKey(c))
        /\ Admit(ks)
        /\ UNCHANGED <<now, launches>>
    BY <1>7 DEF ServeAuth
  <2>2. /\ GlobalKey(c) \in LimiterKeys /\ LoginKey(c) \in LimiterKeys
        /\ GlobalKey(c) # LoginKey(c)
    BY CallerKeys
  <2>3. /\ DOMAIN charged \subseteq LimiterKeys
        /\ \A k \in DOMAIN charged : charged[k] \subseteq Stamps
        /\ \A k : k # GlobalKey(c) => Remembered(charged, k) = Remembered(requests, k)
    BY <1>0, <2>2, ChargeFrame DEF TypeOK
  <2>4. \A k : k # LoginKey(c) => Remembered(requests', k) = Remembered(charged, k)
    <3> HIDE DEF charged
    <3> QED BY <1>0, <2>1, <2>2, <2>3, ChargeFrame
  <2>5. \A k \in Keys : passed'[k] = IF k \in ks THEN passed[k] \cup {Stamp(k)} ELSE passed[k]
    BY <1>0, <2>1, AdmitType
  <2>6. LimiterOK(GlobalKey(c))'
    BY <1>0, <1>3, <2>1, <2>2, <2>4, <2>5
  <2>7. LimiterOK(LoginKey(c))'
    <3>1. passed'[LoginKey(c)] = IF WithinLimit(charged, LoginKey(c))
                                   THEN passed[LoginKey(c)] \cup {Stamp(LoginKey(c))}
                                   ELSE passed[LoginKey(c)]
      BY <1>0, <2>2, <2>5
    <3> HIDE DEF charged
    <3> QED BY <1>0, <1>3, <2>1, <2>2, <2>3, <3>1
  <2>8. ASSUME NEW k \in LimiterKeys, k # GlobalKey(c), k # LoginKey(c)
        PROVE  LimiterOK(k)'
    <3>1. Remembered(requests', k) = Remembered(requests, k)
      BY <2>3, <2>4, <2>8
    <3>2. passed'[k] = passed[k]
      BY <1>0, <2>5, <2>8
    <3> QED
      BY <1>1, <2>1, <2>8, <3>1, <3>2
  <2>9. ASSUME NEW ip \in IPs
        PROVE  LaunchesOK(ip)'
    <3>1. passed'[<<"launch", ip>>] = passed[<<"launch", ip>>]
      BY <1>0, <2>2, <2>5
    <3> QED
      BY <1>2, <2>1, <3>1
  <2> QED
    BY <2>6, <2>7, <2>8, <2>9
<1>8. ASSUME NEW x \in IPs, EnforceLaunchLimits(x)
      PROVE  (\A k \in LimiterKeys : LimiterOK(k)') /\ (\A ip \in IPs : LaunchesOK(ip)')
  <2> DEFINE lk == <<"launch", x>>
             recent == RecentLaunches(x)
             ks == IF Cardinality(recent) < LaunchLimit THEN {lk} ELSE {}
  <2>0. /\ lk \in Keys /\ lk \notin LimiterKeys
        /\ LimitOf(lk) = LaunchLimit /\ LaunchLimit \in Nat
    BY <1>0, KeyScopes, LimitsAssumption
  <2>1. /\ UNCHANGED <<now, requests>>
        /\ Admit(ks)
        /\ launches' = [launches EXCEPT ![x] =
                          IF Cardinality(recent) < LaunchLimit
                            THEN recent \cup {Stamp(lk)} ELSE recent]
    BY <1>8, <2>0 DEF EnforceLaunchLimits, LaunchKey
  <2>2. \A k \in Keys : passed'[k] = IF k \in ks THEN passed[k] \cup {Stamp(k)} ELSE passed[k]
    BY <1>0, <2>1, AdmitType
  <2>3. ASSUME NEW k \in LimiterKeys
        PROVE  LimiterOK(k)'
    BY <1>0, <1>1, <2>0, <2>1, <2>2
  <2>4. ASSUME NEW ip \in IPs, ip # x
        PROVE  LaunchesOK(ip)'
    <3>1. <<"launch", ip>> # lk /\ <<"launch", ip>> \notin LimiterKeys
      BY <1>0, <2>4
    <3>2. passed'[<<"launch", ip>>] = passed[<<"launch", ip>>]
      BY <1>0, <2>0, <2>2, <3>1
    <3>3. launches'[ip] = launches[ip]
      BY <1>0, <2>1, <2>4 DEF TypeOK
    <3> QED
      BY <1>2, <2>1, <3>2, <3>3
  <2>5. LaunchesOK(x)'
    <3>1. LaunchesOK(x)
      BY <1>0, <2>0
    <3>2. recent \subseteq launches[x] /\ RecentlyLaunched(x) \subseteq recent
      BY <3>1 DEF MemoryOK, RecentLaunches, RecentlyLaunched
    <3>3. /\ IsFiniteSet(recent)
          /\ Cardinality(recent) <= LaunchLimit
          /\ IsFiniteSet(recent \cup {Stamp(lk)})
          /\ Cardinality(recent) < LaunchLimit => Cardinality(recent \cup {Stamp(lk)}) <= LaunchLimit
      <4>1. /\ IsFiniteSet(launches[x])
            /\ Cardinality(launches[x]) <= LaunchLimit
        BY <2>0, <3>1 DEF MemoryOK
      <4> HIDE DEF recent, lk
      <4> QED BY <2>0, <3>2, <4>1, PruneThenAdmit
    <3>4. /\ launches'[x] = IF Cardinality(recent) < LaunchLimit
                                 THEN recent \cup {Stamp(lk)} ELSE recent
          /\ passed'[lk] = IF Cardinality(recent) < LaunchLimit
                             THEN passed[lk] \cup {Stamp(lk)} ELSE passed[lk]
      BY <1>0, <2>0, <2>1, <2>2 DEF TypeOK
    <3>5. /\ RecentlyLaunched(x)' \subseteq launches'[x]
          /\ launches'[x] \subseteq passed'[lk]
      BY <2>1, <3>1, <3>2, <3>4 DEF MemoryOK, RecentlyLaunched
    <3> QED
      BY <2>0, <3>3, <3>4, <3>5 DEF MemoryOK
  <2> QED
    BY <2>3, <2>4, <2>5
<1>9. CASE UNCHANGED vars
  BY <1>0, <1>1, <1>2, <1>9 DEF vars
<1> QED
  BY <1>4, <1>5, <1>6, <1>7, <1>8, <1>9 DEF Next

(* BudgetInv holds throughout.                                               *)
LEMMA BudgetInvariant == Spec => []BudgetInv
<1>1. BudgetInv => TypeOK
  BY DEF BudgetInv
<1> QED
  BY <1>1, InitBudget, StepBudget, TypesHold, PTL DEF Spec

(* In any window no key is admitted more often than its limit, for the two   *)
(* limiters of the middleware and the launch allowance (is_allowed,          *)
(* _enforce_launch_limits).                                                  *)
THEOREM BudgetHolds == Spec => []Budget
<1>1. BudgetInv => Budget
  <2> SUFFICES ASSUME BudgetInv, NEW k \in Keys
               PROVE  Cardinality(RecentlyPassed(k)) <= LimitOf(k)
    BY DEF Budget
  <2>1. \E memory : MemoryOK(k, memory, RecentlyPassed(k))
    <3>1. CASE k \in LimiterKeys
      BY <3>1 DEF BudgetInv
    <3>2. CASE k \in LaunchKeys
      <4>1. PICK ip \in IPs : k = <<"launch", ip>>
        BY <3>2 DEF LaunchKeys
      <4>2. RecentlyPassed(k) \subseteq RecentlyLaunched(ip)
        <5>1. WindowOf(k) = LaunchWindow /\ passed[k] \subseteq Stamps /\ now \in Nat
          BY <3>2, KeyScopes DEF BudgetInv, TypeOK
        <5> QED
          BY <4>1, <5>1, LimitsAssumption DEF RecentlyPassed, RecentlyLaunched, Stamps
      <4> QED
        BY <4>1, <4>2 DEF BudgetInv, MemoryOK
    <3> QED
      BY <3>1, <3>2 DEF Keys
  <2>2. PICK memory : MemoryOK(k, memory, RecentlyPassed(k))
    BY <2>1
  <2> QED
    BY <2>2, PruneThenAdmit, KeyScopes DEF MemoryOK
<1> QED
  BY <1>1, BudgetInvariant, PTL

(* A request is refused exactly when its window is full: what a limiter      *)
(* remembers, pruned, is what was admitted within the window, no more and no *)
(* less (is_allowed, _enforce_launch_limits).                                *)
THEOREM RefusalsCostNothing == Spec => []RefusalsAreFree
<1>1. BudgetInv => RefusalsAreFree
  <2> SUFFICES ASSUME BudgetInv
               PROVE  /\ \A k \in LimiterKeys : History(requests, k) = RecentlyPassed(k)
                      /\ \A ip \in IPs : RecentLaunches(ip) = RecentlyLaunched(ip)
    BY DEF RefusalsAreFree, WithinLimit
  <2>1. ASSUME NEW k \in LimiterKeys PROVE History(requests, k) = RecentlyPassed(k)
    BY DEF BudgetInv, MemoryOK, History, RecentlyPassed
  <2>2. ASSUME NEW ip \in IPs PROVE RecentLaunches(ip) = RecentlyLaunched(ip)
    BY DEF BudgetInv, MemoryOK, RecentLaunches, RecentlyLaunched
  <2> QED
    BY <2>1, <2>2
<1> QED
  BY <1>1, BudgetInvariant, PTL

(* A key the dictionary does not have is within its limit.                   *)
LEMMA NewKeysPass ==
  ASSUME NEW dict, NEW k \in LimiterKeys, k \notin DOMAIN dict
  PROVE  WithinLimit(dict, k)
<1>1. History(dict, k) = {}
  BY DEF History, Remembered
<1>2. LimitOf(k) \in Nat \ {0}
  BY KeyScopes DEF Keys
<1> QED
  BY <1>1, <1>2, FS_EmptySet DEF WithinLimit

LEMMA ChargeDomain ==
  ASSUME NEW dict, NEW k PROVE DOMAIN IsAllowed(dict, k) = DOMAIN dict \cup {k}
BY DEF IsAllowed, Remember

\* Only admitted keys are remembered.
KeysAdmitted == \A k \in DOMAIN requests : passed[k] # {}

LEMMA KeysStep == TypeOK /\ KeysAdmitted /\ [Next]_vars => KeysAdmitted'
<1> SUFFICES ASSUME TypeOK, KeysAdmitted, [Next]_vars PROVE KeysAdmitted'
  OBVIOUS
<1>0. \A k \in DOMAIN requests : k \in LimiterKeys /\ k \in Keys
  BY DEF TypeOK, Keys
<1>1. CASE UNCHANGED <<requests, passed>>
  BY <1>1 DEF KeysAdmitted
<1>2. ASSUME NEW ks, Admit(ks), NEW new \in SUBSET LimiterKeys, new \subseteq ks,
             DOMAIN requests' \subseteq DOMAIN requests \cup new
      PROVE  KeysAdmitted'
  <2>1. \A k \in Keys : passed'[k] = IF k \in ks THEN passed[k] \cup {Stamp(k)} ELSE passed[k]
    BY <1>2, AdmitType
  <2>2. \A k \in DOMAIN requests' : k \in Keys /\ (k \in DOMAIN requests \/ k \in ks)
    BY <1>0, <1>2 DEF Keys
  <2> QED
    BY <2>1, <2>2 DEF KeysAdmitted
<1>3. ASSUME NEW c \in Callers, RefuseGlobally(c) PROVE KeysAdmitted'
  <2>1. GlobalKey(c) \in DOMAIN requests
    BY <1>3, CallerKeys, NewKeysPass DEF RefuseGlobally
  <2> QED
    BY <1>3, <2>1, ChargeDomain DEF RefuseGlobally, KeysAdmitted
<1>4. ASSUME NEW c \in Callers, Serve(c) \/ ServeLaunch(c) PROVE KeysAdmitted'
  <2>1. Admit({GlobalKey(c)}) /\ DOMAIN requests' = DOMAIN requests \cup {GlobalKey(c)}
    BY <1>4, ChargeDomain DEF Serve, ServeLaunch
  <2> QED
    BY <1>2, <2>1, CallerKeys
<1>5. ASSUME NEW c \in Callers, ServeAuth(c) PROVE KeysAdmitted'
  <2> DEFINE charged == IsAllowed(requests, GlobalKey(c))
             ks == IF WithinLimit(charged, LoginKey(c)) THEN {GlobalKey(c), LoginKey(c)}
                                                        ELSE {GlobalKey(c)}
  <2>1. Admit(ks) /\ requests' = IsAllowed(charged, LoginKey(c))
    BY <1>5 DEF ServeAuth
  <2>2. DOMAIN charged = DOMAIN requests \cup {GlobalKey(c)}
    BY ChargeDomain
  <2> HIDE DEF charged
  <2>3. DOMAIN requests' = DOMAIN requests \cup {GlobalKey(c), LoginKey(c)}
    BY <2>1, <2>2, ChargeDomain
  <2>4. LoginKey(c) \in DOMAIN requests \cup ks
    BY <2>2, CallerKeys, NewKeysPass
  <2>5. DOMAIN requests' \subseteq DOMAIN requests \cup ks /\ ks \subseteq LimiterKeys
    BY <2>3, <2>4, CallerKeys
  <2> HIDE DEF ks
  <2> QED
    BY <1>2, <2>1, <2>5
<1>6. ASSUME NEW ip \in IPs, EnforceLaunchLimits(ip) PROVE KeysAdmitted'
  <2>1. PICK ks : Admit(ks)
    BY <1>6 DEF EnforceLaunchLimits
  <2>2. requests' = requests
    BY <1>6 DEF EnforceLaunchLimits
  <2>3. \A k \in Keys : passed[k] \subseteq passed'[k]
    BY <2>1, AdmitType
  <2> QED
    BY <1>0, <2>2, <2>3 DEF KeysAdmitted
<1>7. CASE Tick
  BY <1>1, <1>7 DEF Tick
<1>8. CASE UNCHANGED vars
  BY <1>1, <1>8 DEF vars
<1> QED
  BY <1>3, <1>4, <1>5, <1>6, <1>7, <1>8 DEF Next

(* The limiters keep at most one limit's worth of instants for every key     *)
(* that was ever admitted, and nothing for any other.                        *)
THEOREM MemoryIsBounded == Spec => []MemoryBounded
<1>1. BudgetInv /\ KeysAdmitted => MemoryBounded
  <2> SUFFICES ASSUME BudgetInv, KeysAdmitted PROVE MemoryBounded
    OBVIOUS
  <2>1. ASSUME NEW k \in DOMAIN requests PROVE Cardinality(requests[k]) <= LimitOf(k)
    BY DEF BudgetInv, TypeOK, MemoryOK, Remembered
  <2>2. ASSUME NEW ip \in IPs PROVE Cardinality(launches[ip]) <= LaunchLimit
    BY KeyScopes DEF BudgetInv, MemoryOK, LaunchKeys
  <2> QED
    BY <2>1, <2>2 DEF MemoryBounded, KeysAdmitted
<1>2. Init => KeysAdmitted
  BY DEF Init, KeysAdmitted
<1> QED
  BY <1>1, <1>2, KeysStep, TypesHold, BudgetInvariant, PTL DEF Spec

=============================================================================
