-------------------- MODULE SuspendDelayControllerProofs --------------------
(***************************************************************************)
(* Lemmas about the methods of SuspendDelayController: each maps a         *)
(* controller to a controller, and what it leaves in the members that the  *)
(* invariants of its owners are about.                                     *)
(***************************************************************************)
EXTENDS SuspendDelayController, WellFoundedInduction, TLAPS

\* Restricting or extending registered_delays_ gives such a map again.
LEMMA DelayMapsType ==
    ASSUME NEW f \in DelayMaps
    PROVE  /\ DOMAIN f \subseteq DelayIds
           /\ \A d \in DOMAIN f : f[d] \in DelayInfo
           /\ \A D : [d \in DOMAIN f \ D |-> f[d]] \in DelayMaps
           /\ \A n \in DelayIds, x \in DelayInfo :
                 [d \in DOMAIN f \cup {n} |-> IF d = n THEN x ELSE f[d]] \in DelayMaps
<1>1. PICK S \in SUBSET DelayIds : f \in [S -> DelayInfo]
  BY DEF DelayMaps
<1>2. \A g, T : T \in SUBSET DelayIds /\ g \in [T -> DelayInfo] => g \in DelayMaps
  BY DEF DelayMaps
<1>3. ASSUME NEW D
      PROVE  [d \in DOMAIN f \ D |-> f[d]] \in DelayMaps
  <2>1. [d \in DOMAIN f \ D |-> f[d]] \in [S \ D -> DelayInfo]
    BY <1>1
  <2> QED
    BY <2>1, <1>2, S \ D \in SUBSET DelayIds
<1>4. ASSUME NEW n \in DelayIds, NEW x \in DelayInfo
      PROVE  [d \in DOMAIN f \cup {n} |-> IF d = n THEN x ELSE f[d]] \in DelayMaps
  <2>1. [d \in DOMAIN f \cup {n} |-> IF d = n THEN x ELSE f[d]] \in [S \cup {n} -> DelayInfo]
    BY <1>1
  <2> QED
    BY <2>1, <1>2, S \cup {n} \in SUBSET DelayIds
<1> QED
  BY <1>1, <1>3, <1>4

\* Posting a notification keeps the type.
LEMMA PostType ==
    ASSUME NEW k \in Controller
    PROVE  PostNotifyObserversTask(k) \in Controller
BY DEF PostNotifyObserversTask, Controller

\* MaxTimeout() in PrepareForSuspend() is well defined: the longest timeout of
\* the registered delays, or 0, is one of 0..max_delay_timeout_.
LEMMA MaxTimeoutType ==
    ASSUME NEW k \in Controller
    PROVE  MaxTimeout(k) \in 0..MaxDelayTimeout
<1> DEFINE Bounds == {m \in Nat : \A d \in Registered(k) : k.registered[d].timeout <= m}
<1>1. PICK S \in SUBSET DelayIds : k.registered \in [S -> DelayInfo]
  BY DEF Controller, DelayMaps
<1>2. \A d \in Registered(k) : k.registered[d].timeout \in 0..MaxDelayTimeout
  BY <1>1 DEF Registered, DelayInfo
<1>3. MaxDelayTimeout \in Bounds
  BY <1>2, DelayAssumption
<1>4. PICK m \in Bounds : \A n \in Bounds : ~(<<n, m>> \in OpToRel(<, Nat))
  <2>1. IsWellFoundedOn(OpToRel(<, Nat), Nat)
    BY NatLessThanWellFounded
  <2> QED
    BY <1>3, <2>1, WFMin, Zenon
<1>5. \A n \in Bounds : m <= n
  <2> SUFFICES ASSUME NEW n \in Bounds, n < m
               PROVE  FALSE
    OBVIOUS
  <2>1. n \in Nat /\ m \in Nat
    OBVIOUS
  <2> HIDE DEF Bounds
  <2>2. <<n, m>> \in OpToRel(<, Nat)
    BY <2>1, Zenon DEF OpToRel
  <2> QED
    BY <1>4, <2>2
<1>6. m \in 0..MaxDelayTimeout
  BY <1>3, <1>5, DelayAssumption
<1>7. m = 0 \/ \E d \in Registered(k) : k.registered[d].timeout = m
  <2> SUFFICES ASSUME m # 0,
                      \A d \in Registered(k) : k.registered[d].timeout # m
               PROVE  FALSE
    OBVIOUS
  <2>1. m - 1 \in Bounds
    BY <1>2, <1>6, DelayAssumption
  <2> QED
    BY <2>1, <1>5, <1>6, DelayAssumption
<1> QED
  BY <1>6, <1>7 DEF MaxTimeout

\* NotifyIfReadyForSuspend() keeps the type.
LEMMA NotifyIfReadyType ==
    ASSUME NEW k \in Controller
    PROVE  NotifyIfReadyForSuspend(k) \in Controller
<1>1. [k EXCEPT !.maxTimer = Off] \in Controller
  BY DEF Controller
<1> QED
  BY <1>1, PostType DEF NotifyIfReadyForSuspend

\* Taking delays off the wait list keeps the type.
LEMMA RemoveType ==
    ASSUME NEW k \in Controller, NEW D
    PROVE  RemoveDelaysFromWaitList(k, D) \in Controller
<1>1. [k EXCEPT !.waiting = @ \ D] \in Controller
  BY DEF Controller
<1> QED
  BY <1>1, NotifyIfReadyType DEF RemoveDelaysFromWaitList

\* Unregistering delays keeps the type.
LEMMA UnregisterType ==
    ASSUME NEW k \in Controller, NEW D
    PROVE  UnregisterDelaysInternal(k, D) \in Controller
<1> DEFINE r == RemoveDelaysFromWaitList(k, D)
           g == [d \in Registered(k) \ D |-> k.registered[d]]
<1>1. r \in Controller
  BY RemoveType
<1>2. g \in DelayMaps
  BY DelayMapsType DEF Registered, Controller
<1> HIDE DEF r, g
<1>3. [r EXCEPT !.registered = g] \in Controller
  BY <1>1, <1>2 DEF Controller
<1> QED
  BY <1>3 DEF UnregisterDelaysInternal, r, g

\* RegisterSuspendDelay() keeps the type, whatever timeout is asked for.
LEMMA RegisterType ==
    ASSUME NEW k \in Controller, k.nextId \in DelayIds,
           NEW timeout \in Int, NEW client \in Clients
    PROVE  RegisterSuspendDelay(k, timeout, client) \in Controller
<1> DEFINE x == [timeout |-> ClampTimeout(timeout), client |-> client]
           g == [d \in Registered(k) \cup {k.nextId} |->
                   IF d = k.nextId THEN x ELSE k.registered[d]]
<1>1. x \in DelayInfo
  BY DelayAssumption DEF ClampTimeout, DelayInfo
<1> HIDE DEF x
<1>2. g \in DelayMaps
  BY <1>1, DelayMapsType DEF Registered, Controller
<1> HIDE DEF g
<1> DEFINE n == k.nextId + 1
<1>3. n \in Nat
  BY DEF Controller
<1> HIDE DEF n
<1>4. [k EXCEPT !.registered = g, !.nextId = n] \in Controller
  BY <1>2, <1>3 DEF Controller
<1> QED
  BY <1>4 DEF RegisterSuspendDelay, x, g, n

\* What clients do besides registering keeps the type.
LEMMA ClientTypes ==
    ASSUME NEW k \in Controller
    PROVE  /\ \A d : UnregisterSuspendDelay(k, d) \in Controller
           /\ \A d, id : HandleSuspendReadiness(k, d, id) \in Controller
           /\ \A client : HandleDBusClientDisconnected(k, client) \in Controller
BY UnregisterType, RemoveType
   DEF UnregisterSuspendDelay, HandleSuspendReadiness, HandleDBusClientDisconnected

\* Adding and removing an internal delay keep the type.
LEMMA InternalDelayTypes ==
    ASSUME NEW k \in Controller, NEW delay \in InternalDelays
    PROVE  /\ AddSuspendInternalDelay(k, delay) \in Controller
           /\ RemoveSuspendInternalDelay(k, delay) \in Controller
<1>1. [k EXCEPT !.internal = @ \cup {delay}] \in Controller
  BY DEF Controller
<1>2. [k EXCEPT !.internal = @ \ {delay}] \in Controller
  BY DEF Controller
<1> QED
  BY <1>1, <1>2, NotifyIfReadyType DEF AddSuspendInternalDelay, RemoveSuspendInternalDelay

\* PrepareForSuspend() keeps the type: the timers it starts are within range.
LEMMA PrepareType ==
    ASSUME NEW k \in Controller, NEW id \in Nat, NEW dark \in BOOLEAN
    PROVE  PrepareForSuspend(k, id, dark) \in Controller
<1> DEFINE max == IF Registered(k) # {} \/ k.internal # {} THEN MaxTimeout(k)
                                                         ELSE k.maxTimer
           min == IF dark THEN DarkResumeMinDelay ELSE k.minTimer
           prepared == [k EXCEPT !.suspendId = id, !.waiting = Registered(k),
                                 !.minTimer = min, !.maxTimer = max]
<1>1. max \in {Off} \cup 0..MaxDelayTimeout
  BY MaxTimeoutType DEF Controller
<1>2. min \in {Off} \cup 0..DarkResumeMinDelay
  BY DelayAssumption DEF Controller
<1>3. Registered(k) \subseteq DelayIds
  BY DelayMapsType DEF Registered, Controller
<1> HIDE DEF max, min
<1>4. prepared \in Controller
  BY <1>1, <1>2, <1>3 DEF Controller
<1> HIDE DEF prepared
<1>5. PrepareForSuspend(k, id, dark) \in {prepared, PostNotifyObserversTask(prepared)}
  BY DEF PrepareForSuspend, prepared, max, min
<1> QED
  BY <1>4, <1>5, PostType

\* FinishSuspend() keeps the type.
LEMMA FinishType ==
    ASSUME NEW k \in Controller, NEW id
    PROVE  FinishSuspend(k, id) \in Controller
BY DEF FinishSuspend, Controller

\* The timers' callbacks keep the type.
LEMMA CallbackTypes ==
    ASSUME NEW k \in Controller
    PROVE  /\ OnMaxDelayExpiration(k) \in Controller
           /\ OnMinDelayExpiration(k) \in Controller
           /\ NotifyObservers(k) \in Controller
<1>1. [k EXCEPT !.maxTimer = Off, !.waiting = {}, !.internal = {}] \in Controller
  BY DEF Controller
<1>2. [k EXCEPT !.minTimer = Off, !.maxTimer = Off] \in Controller
  BY DEF Controller
<1>3. [k EXCEPT !.minTimer = Off] \in Controller
  BY DEF Controller
<1>4. [k EXCEPT !.notify = NoTask] \in Controller
  BY DEF Controller
<1> QED
  BY <1>1, <1>2, <1>3, <1>4, PostType
     DEF OnMaxDelayExpiration, OnMinDelayExpiration, NotifyObservers

\* Time only shortens the timers.
LEMMA PassTimeType ==
    ASSUME NEW k \in Controller, NEW n \in Nat
    PROVE  PassTime(k, n) \in Controller
<1>1. Advance(k.maxTimer, n) \in {Off} \cup 0..MaxDelayTimeout
  BY DelayAssumption DEF Advance, Off, Controller
<1>2. Advance(k.minTimer, n) \in {Off} \cup 0..DarkResumeMinDelay
  BY DelayAssumption DEF Advance, Off, Controller
<1> DEFINE x == Advance(k.maxTimer, n)
           y == Advance(k.minTimer, n)
<1> HIDE DEF x, y
<1>3. [k EXCEPT !.maxTimer = x, !.minTimer = y] \in Controller
  BY <1>1, <1>2 DEF Controller, x, y
<1> QED
  BY <1>3 DEF PassTime, x, y

-----------------------------------------------------------------------------
(***************************************************************************)
(* What the methods leave in the members that the invariant is about.      *)
(***************************************************************************)

\* k with a notification for the current id posted and its timer stopped.
Reported(k, r) ==
    /\ r.suspendId = k.suspendId
    /\ r.waiting = {} /\ r.internal = {}
    /\ r.maxTimer = Off /\ r.minTimer = k.minTimer
    /\ r.notify = k.suspendId /\ r.notified = TRUE

\* k with no more to wait for than before.
Reduced(k, r) ==
    /\ r.suspendId = k.suspendId
    /\ r.waiting \subseteq k.waiting /\ r.internal \subseteq k.internal
    /\ r.maxTimer = k.maxTimer /\ r.minTimer = k.minTimer
    /\ r.notify = k.notify /\ r.notified = k.notified

\* NotifyIfReadyForSuspend() reports readiness or changes nothing.
LEMMA NotifyIfReadyEffect ==
    ASSUME NEW k \in Controller
    PROVE  /\ Reported(k, NotifyIfReadyForSuspend(k)) \/ Reduced(k, NotifyIfReadyForSuspend(k))
           /\ NotifyIfReadyForSuspend(k).waiting = k.waiting
           /\ NotifyIfReadyForSuspend(k).registered = k.registered
BY DEF NotifyIfReadyForSuspend, ReadyForSuspend, PostNotifyObserversTask, Reported, Reduced,
       Controller

\* Taking delays off the wait list reports readiness or leaves less to wait for.
LEMMA RemoveEffect ==
    ASSUME NEW k \in Controller, NEW D
    PROVE  LET r == RemoveDelaysFromWaitList(k, D)
           IN  /\ Reported(k, r) \/ Reduced(k, r)
               /\ r.waiting = k.waiting \ D
               /\ r.registered = k.registered
<1> DEFINE less == [k EXCEPT !.waiting = @ \ D]
<1>1. less \in Controller
  BY DEF Controller
<1>2. /\ Reduced(k, less)
      /\ less.waiting = k.waiting \ D
      /\ less.registered = k.registered
  BY DEF Reduced, Controller
<1>3. Reduced(k, k)
  BY DEF Reduced
<1> HIDE DEF less
<1>4. \A r : Reported(less, r) \/ Reduced(less, r) => Reported(k, r) \/ Reduced(k, r)
  BY <1>2 DEF Reported, Reduced
<1>5. RemoveDelaysFromWaitList(k, D) =
        IF D \cap k.waiting = {} THEN k ELSE NotifyIfReadyForSuspend(less)
  BY DEF RemoveDelaysFromWaitList, less
<1>6. CASE D \cap k.waiting = {}
  BY <1>3, <1>5, <1>6
<1>7. CASE D \cap k.waiting # {}
  BY <1>1, <1>2, <1>4, <1>5, <1>7, NotifyIfReadyEffect
<1> QED
  BY <1>6, <1>7

\* So does unregistering delays, which also leave registered_delays_.
LEMMA UnregisterEffect ==
    ASSUME NEW k \in Controller, NEW D
    PROVE  LET r == UnregisterDelaysInternal(k, D)
           IN  /\ Reported(k, r) \/ Reduced(k, r)
               /\ r.waiting = k.waiting \ D
               /\ Registered(r) = Registered(k) \ D
<1> DEFINE s == RemoveDelaysFromWaitList(k, D)
           g == [d \in Registered(k) \ D |-> k.registered[d]]
           r == [s EXCEPT !.registered = g]
<1>1. s \in Controller
  BY RemoveType
<1>2. (Reported(k, s) \/ Reduced(k, s)) /\ s.waiting = k.waiting \ D
  BY RemoveEffect
<1>3. DOMAIN g = Registered(k) \ D
  OBVIOUS
<1> HIDE DEF s, g
<1>4. /\ r.registered = g /\ r.suspendId = s.suspendId
      /\ r.waiting = s.waiting /\ r.internal = s.internal
      /\ r.maxTimer = s.maxTimer /\ r.minTimer = s.minTimer
      /\ r.notify = s.notify /\ r.notified = s.notified
  BY <1>1 DEF Controller
<1>5. r = UnregisterDelaysInternal(k, D)
  BY DEF UnregisterDelaysInternal, s, g
<1> HIDE DEF r
<1> QED
  BY <1>2, <1>3, <1>4, <1>5 DEF Reported, Reduced, Registered

=============================================================================
