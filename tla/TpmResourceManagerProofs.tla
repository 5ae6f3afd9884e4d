---------------------- MODULE TpmResourceManagerProofs ----------------------
(***************************************************************************)
(* Proofs about TpmResourceManager for any senders, objects and sessions   *)
(* and any capacity of the TPM.                                            *)
(***************************************************************************)
EXTENDS TpmResourceManager, FiniteSetTheorems, WellFoundedInduction, TLAPS

-----------------------------------------------------------------------------
(***************************************************************************)
(* The inductive invariant, of a manager k whose clients hold the objects  *)
(* g and the sessions h.                                                   *)
(***************************************************************************)

Items(k) == Elements(k.loaded)
UniqueV(s) == \A i, j \in DOMAIN s : s[i].v = s[j].v => i = j

\* c is a copy of the object that x is, not newer than it.
CopyOf(c, x) == c # NoContent /\ c.obj = x.obj /\ c.ver <= x.ver

\* Every loaded object has one entry, a slot and a content there.
Slotted(k, g) ==
    /\ UniqueV(k.loaded)
    /\ \A e \in Items(k) : /\ k.t2v[e.info.tpm] = e.v
                           /\ k.unloaded[e.v] = NoInfo
                           /\ CopyOf(k.objs[e.info.tpm], g[e.v])
                           /\ e.info.ctx # NoContent => CopyOf(e.info.ctx, g[e.v])
    /\ \A t \in Slots : k.t2v[t] # None => \E e \in Items(k) : e.info.tpm = t
    /\ \A t \in Slots : k.objs[t] # NoContent => k.t2v[t] # None

\* Every other one has a context, and clients hold handles of no more than these.
Handed(k, g) ==
    /\ \A v \in Virtual : k.unloaded[v] # NoInfo => CopyOf(k.unloaded[v].ctx, g[v])
    /\ \A v \in Virtual : g[v] # NoContent <=> (k.unloaded[v] # NoInfo \/ \E e \in Items(k) : e.v = v)
    /\ \A v, w \in Virtual : g[v] # NoContent /\ g[v].obj = g[w].obj => v = w
    /\ \A v \in Virtual : k.cache[v] # None => k.cache[v] = g[v].obj

Ordered(k) == Elements(k.lru) = Tracked(k) /\ Distinct(k.lru)

\* No more sessions are loaded than the TPM can hold.
Fits(k) == Cardinality(LoadedSessions(k)) <= k.room

\* The sessions in the TPM are those that are tracked.
Followed(k, h) ==
    /\ \A key \in Tracked(k) : /\ h[key] # None
                               /\ k.ses[key[1]].sid = h[key]
                               /\ k.ses[key[1]].loaded = k.sessions[key].loaded
                               /\ ~k.sessions[key].loaded => k.sessions[key].ctx = h[key]
    /\ \A x \in Handles : k.ses[x].sid # None => \E key \in Tracked(k) : key[1] = x
    /\ \A a, b \in SessionKeys : h[a] # None /\ h[a] = h[b] => a = b
    /\ Fits(k)

\* The manager between commands, n sessions having been started.
Settled(k, g, h, n) ==
    /\ k \in Managers /\ k.seen = {} /\ Ordered(k)
    /\ g \in [Virtual -> MaybeContent] /\ h \in [SessionKeys -> 0..MaxSessions] /\ n \in 0..MaxSessions
    /\ Slotted(k, g) /\ Handed(k, g)
    /\ k.suspended => Items(k) = {}
    /\ \A key \in SessionKeys : h[key] <= n
    /\ ~k.lost => Followed(k, h)

\* What a sleep leaves that cost the manager something.
Damaged == m.lost /\ TypeOK /\ MapsAgree

IInv == (Settled(m, given, held, started) \/ Damaged) /\ last.right /\ last.objects

-----------------------------------------------------------------------------
(***************************************************************************)
(* Least elements, loops and sequences.                                    *)
(***************************************************************************)

\* A nonempty set of numbers has a least element, by well-foundedness of <.
LEMMA LeastIs ==
    ASSUME NEW S \in SUBSET Nat, S # {}
    PROVE  Least(S) \in S /\ \A y \in S : Least(S) <= y
<1>1. IsWellFoundedOn(OpToRel(<, Nat), Nat)
    BY NatLessThanWellFounded
<1>2. PICK x \in S : \A y \in S : <<y, x>> \notin OpToRel(<, Nat)
    BY <1>1, WFMin, Zenon
<1>3. ASSUME NEW y \in S, y < x
      PROVE  FALSE
    <2>1. <<y, x>> \in OpToRel(<, Nat)
        BY <1>3, Zenon DEF OpToRel
    <2> QED BY <1>2, <2>1
<1>4. \E z \in S : \A y \in S : z <= y
    BY <1>3
<1> QED BY <1>4, Zenon DEF Least

\* What is there after each turn.
IsRun(y, turn, x, n) == y = [i \in 0..n |-> IF i = 0 THEN x ELSE turn[<<y[i - 1], i>>]]

\* A loop of n turns has a result: no number of turns is the first without one.
LEMMA LoopExists ==
    ASSUME NEW turn, NEW x, NEW n \in Nat
    PROVE  \E y : IsRun(y, turn, x, n)
<1> USE DEF IsRun
<1> DEFINE F(y, p) == [i \in 0..p |-> IF i = 0 THEN x ELSE turn[<<y[i - 1], i>>]]
           Bad == {p \in Nat : ~\E y : y = F(y, p)}
<1> SUFFICES ASSUME Bad # {} PROVE FALSE
    OBVIOUS
<1> DEFINE p == Least(Bad)
<1>1. p \in Bad /\ \A q \in Bad : p <= q
    <2>1. Bad \in SUBSET Nat
        OBVIOUS
    <2> HIDE DEF Bad
    <2> QED BY <2>1, LeastIs
<1>2. p # 0
    <2>1. [i \in 0..0 |-> x] = F([i \in 0..0 |-> x], 0)
        OBVIOUS
    <2> QED BY <1>1, <2>1
<1>3. p - 1 \in Nat /\ p - 1 \notin Bad
    <2> HIDE DEF p
    <2>1. p \in Nat
        BY <1>1
    <2> QED BY <1>1, <1>2, <2>1
<1>4. PICK y : y = F(y, p - 1)
    BY <1>3
<1> DEFINE z == [i \in 0..p |-> IF i = p THEN turn[<<y[p - 1], p>>] ELSE y[i]]
<1>5. z = F(z, p)
    <2> HIDE DEF p
    <2>1. p \in Nat
        BY <1>1
    <2>2. \A i \in 0..p : z[i] = IF i = 0 THEN x ELSE turn[<<z[i - 1], i>>]
        <3> TAKE i \in 0..p
        <3>1. CASE i = p
            <4>1. z[i] = turn[<<y[p - 1], p>>] /\ z[p - 1] = y[p - 1]
                BY <1>3, <2>1, <3>1
            <4> QED BY <1>2, <3>1, <4>1
        <3>2. CASE i # p
            <4>1. i \in 0..(p - 1) /\ z[i] = y[i]
                BY <2>1, <3>2
            <4>2. y[i] = IF i = 0 THEN x ELSE turn[<<y[i - 1], i>>]
                BY <1>4, <4>1, Zenon
            <4>3. i # 0 => z[i - 1] = y[i - 1]
                BY <2>1, <4>1
            <4> QED BY <4>1, <4>2, <4>3
        <3> QED BY <3>1, <3>2
    <2> QED BY <2>2
<1> QED BY <1>1, <1>5

\* What every turn keeps, or brings about from the turn before it, is there at
\* the end of a loop.
LEMMA LoopKeeps ==
    ASSUME NEW turn, NEW x, NEW n \in Nat, NEW I,
           x \in I[0],
           \A i \in 1..n : \A y \in I[i - 1] : turn[<<y, i>>] \in I[i]
    PROVE  Loop(turn, x, n) \in I[n]
<1> DEFINE run == CHOOSE f : f = [i \in 0..n |-> IF i = 0 THEN x ELSE turn[<<f[i - 1], i>>]]
           Bad == {i \in 0..n : run[i] \notin I[i]}
<1>1. run = [i \in 0..n |-> IF i = 0 THEN x ELSE turn[<<run[i - 1], i>>]]
    <2>1. \E f : IsRun(f, turn, x, n)
        BY LoopExists
    <2> QED BY <2>1, Zenon DEF IsRun
<1>2. Loop(turn, x, n) = run[n]
    BY DEF Loop
<1> HIDE DEF run
<1>3. SUFFICES Bad = {}
    BY <1>2, <1>3
<1> SUFFICES ASSUME Bad # {} PROVE FALSE
    OBVIOUS
<1>4. PICK p \in Bad : \A q \in Bad : p <= q
    <2>1. Bad \in SUBSET Nat
        OBVIOUS
    <2> HIDE DEF Bad
    <2> QED BY <2>1, LeastIs
<1>5. p # 0
    BY <1>1, <1>4
<1>6. p \in 1..n /\ p - 1 \in 0..n /\ p - 1 \notin Bad
    BY <1>4, <1>5
<1>7. run[p] = turn[<<run[p - 1], p>>]
    BY <1>1, <1>4, <1>5
<1> QED BY <1>4, <1>6, <1>7

\* Removing an element of a sequence removes nothing else.
LEMMA RemoveAtIs ==
    ASSUME NEW T, NEW s \in Seq(T), NEW i \in DOMAIN s
    PROVE  /\ RemoveAt(s, i) \in Seq(T)
           /\ Len(RemoveAt(s, i)) = Len(s) - 1
           /\ Elements(RemoveAt(s, i)) \subseteq Elements(s)
           /\ (\A j \in DOMAIN s : s[j] = s[i] => j = i)
                 => Elements(RemoveAt(s, i)) = Elements(s) \ {s[i]}
           /\ UniqueV(s) => UniqueV(RemoveAt(s, i))
           /\ Distinct(s) => Distinct(RemoveAt(s, i))
<1> DEFINE r == RemoveAt(s, i)
           n == Len(s) - 1
<1>1. i \in 1..Len(s) /\ n \in Nat /\ DOMAIN s = 1..Len(s)
    OBVIOUS
<1>2. r = [j \in 1..n |-> IF j < i THEN s[j] ELSE s[j + 1]]
    BY DEF RemoveAt
<1>3. \A j \in 1..n : s[j] \in T /\ s[j + 1] \in T /\ r[j] = IF j < i THEN s[j] ELSE s[j + 1]
    BY <1>1, <1>2
<1>4. r \in Seq(T) /\ Len(r) = n /\ DOMAIN r = 1..n
    <2>1. r \in [1..n -> T]
        BY <1>2, <1>3
    <2> HIDE DEF r, n
    <2>2. r \in Seq(T)
        BY <1>1, <2>1
    <2>3. DOMAIN r = 1..n
        BY <2>1
    <2> QED BY <1>1, <2>2, <2>3
<1> HIDE DEF r, n
<1>5. \A j \in DOMAIN r : \E a \in DOMAIN s : r[j] = s[a] /\ a # i
    <2> TAKE j \in DOMAIN r
    <2>1. CASE j < i
        BY <1>1, <1>3, <1>4, <2>1
    <2>2. CASE ~(j < i)
        <3>1. j + 1 \in DOMAIN s /\ r[j] = s[j + 1] /\ j + 1 # i
            BY <1>1, <1>3, <1>4, <2>2 DEF n
        <3> QED BY <3>1
    <2> QED BY <2>1, <2>2
<1>6. \A a \in DOMAIN s : a # i => \E j \in DOMAIN r : r[j] = s[a]
    <2> SUFFICES ASSUME NEW a \in DOMAIN s, a # i
                 PROVE  \E j \in DOMAIN r : r[j] = s[a]
        OBVIOUS
    <2>1. CASE a < i
        <3>1. a \in DOMAIN r /\ r[a] = s[a]
            BY <1>1, <1>3, <1>4, <2>1 DEF n
        <3> QED BY <3>1
    <2>2. CASE a > i
        <3>1. a - 1 \in 1..n /\ ~(a - 1 < i)
            BY <1>1, <2>2 DEF n
        <3>2. r[a - 1] = s[(a - 1) + 1]
            BY <1>3, <3>1
        <3> QED BY <1>1, <1>4, <3>1, <3>2
    <2> QED BY <1>1, <2>1, <2>2
<1>7. Elements(r) \subseteq Elements(s)
    BY <1>5 DEF Elements
<1>8. ASSUME \A j \in DOMAIN s : s[j] = s[i] => j = i
      PROVE  Elements(r) = Elements(s) \ {s[i]}
    <2>1. Elements(r) \subseteq Elements(s) \ {s[i]}
        BY <1>5, <1>8 DEF Elements
    <2>2. Elements(s) \ {s[i]} \subseteq Elements(r)
        BY <1>6 DEF Elements
    <2> QED BY <2>1, <2>2
<1>9. \A a, b \in DOMAIN r : a # b => \E c, d \in DOMAIN s : r[a] = s[c] /\ r[b] = s[d] /\ c # d
    <2> SUFFICES ASSUME NEW a \in 1..n, NEW b \in 1..n, a # b
                 PROVE  \E c, d \in DOMAIN s : r[a] = s[c] /\ r[b] = s[d] /\ c # d
        BY <1>4
    <2> DEFINE c == IF a < i THEN a ELSE a + 1
               d == IF b < i THEN b ELSE b + 1
    <2>1. c \in DOMAIN s /\ d \in DOMAIN s /\ c # d
        BY <1>1 DEF n
    <2>2. r[a] = s[c] /\ r[b] = s[d]
        BY <1>3
    <2> QED BY <2>1, <2>2
<1>10. UniqueV(s) => UniqueV(r)
    BY <1>9 DEF UniqueV
<1>11. Distinct(s) => Distinct(r)
    BY <1>9 DEF Distinct
<1> QED BY <1>4, <1>7, <1>8, <1>10, <1>11 DEF r, n

\* Appending an element adds it.
LEMMA AppendIs ==
    ASSUME NEW T, NEW s \in Seq(T), NEW e \in T
    PROVE  /\ Append(s, e) \in Seq(T)
           /\ Len(Append(s, e)) = Len(s) + 1
           /\ Elements(Append(s, e)) = Elements(s) \cup {e}
           /\ UniqueV(s) /\ (\A x \in Elements(s) : x.v # e.v) => UniqueV(Append(s, e))
           /\ Distinct(s) /\ e \notin Elements(s) => Distinct(Append(s, e))
<1> DEFINE r == Append(s, e)
<1>1. r \in Seq(T) /\ Len(r) = Len(s) + 1 /\ DOMAIN r = 1..(Len(s) + 1)
    OBVIOUS
<1>2. DOMAIN s = 1..Len(s) /\ Len(s) \in Nat /\ DOMAIN r = DOMAIN s \cup {Len(s) + 1}
    BY <1>1
<1>3. r[Len(s) + 1] = e /\ \A j \in DOMAIN s : r[j] = s[j]
    OBVIOUS
<1>4. \A j \in DOMAIN s : s[j] \in Elements(s)
    BY DEF Elements
<1> HIDE DEF r
<1>5. Elements(r) = Elements(s) \cup {e}
    BY <1>2, <1>3 DEF Elements
<1>6. ASSUME UniqueV(s), \A x \in Elements(s) : x.v # e.v
      PROVE  UniqueV(r)
    BY <1>2, <1>3, <1>4, <1>6 DEF UniqueV
<1>7. ASSUME Distinct(s), e \notin Elements(s)
      PROVE  Distinct(r)
    BY <1>2, <1>3, <1>4, <1>7 DEF Distinct
<1> QED BY <1>1, <1>5, <1>6, <1>7 DEF r

-----------------------------------------------------------------------------
(***************************************************************************)
(* Evicting objects and flushing sessions.                                 *)
(***************************************************************************)

\* Updating the LRU only reorders the loaded objects.
LEMMA UpdateLruIs ==
    ASSUME NEW k \in Managers, NEW cmd, UniqueV(k.loaded)
    PROVE  \E s \in Seq(ObjectInfo) : /\ UniqueV(s) /\ Elements(s) = Items(k)
                                      /\ UpdateLru(k, cmd) = [k EXCEPT !.loaded = s]
<1> DEFINE n == IF k.loaded = <<>> THEN 0 ELSE Len(k.loaded) - 1
           N == Elements(cmd.handles)
           turn == [x \in Seq(ObjectInfo) \X (1..n) |-> Rotate(x[1], x[2], N)]
           Same == {s \in Seq(ObjectInfo) : UniqueV(s) /\ Elements(s) = Items(k) /\ Len(s) = Len(k.loaded)}
           I == [i \in 0..n |-> Same]
<1>1. k.loaded \in Seq(ObjectInfo) /\ n \in Nat /\ n <= Len(k.loaded)
    BY DEF Managers
<1>2. k.loaded \in I[0]
    <2>1. k.loaded \in Same
        BY <1>1 DEF Items
    <2> HIDE DEF Same, n
    <2> QED BY <1>1, <2>1
<1>3. ASSUME NEW i \in 1..n, NEW s \in Same
      PROVE  turn[<<s, i>>] \in Same
    <2>1. turn[<<s, i>>] = Rotate(s, i, N)
        <3> HIDE DEF n, N
        <3>1. s \in Seq(ObjectInfo)
            OBVIOUS
        <3> HIDE DEF Same
        <3> QED BY <3>1
    <2>2. i \in DOMAIN s /\ s[i] \in ObjectInfo /\ s \in Seq(ObjectInfo)
        BY <1>1, <1>3
    <2>3. \A j \in DOMAIN s : s[j] = s[i] => j = i
        BY <1>3, <2>2 DEF UniqueV
    <2> DEFINE r == RemoveAt(s, i)
    <2>4. /\ r \in Seq(ObjectInfo) /\ Len(r) = Len(s) - 1
          /\ Elements(r) = Elements(s) \ {s[i]} /\ UniqueV(r)
        BY <1>3, <2>2, <2>3, RemoveAtIs
    <2>5. \A x \in Elements(r) : x.v # s[i].v
        BY <1>3, <2>2, <2>4 DEF Elements, UniqueV
    <2> HIDE DEF r
    <2>6. /\ Append(r, s[i]) \in Seq(ObjectInfo)
          /\ Len(Append(r, s[i])) = Len(s)
          /\ Elements(Append(r, s[i])) = Elements(s)
          /\ UniqueV(Append(r, s[i]))
        <3>1. s[i] \in Elements(s)
            BY <2>2 DEF Elements
        <3>2. Len(s) \in Nat
            BY <2>2
        <3>3. /\ Append(r, s[i]) \in Seq(ObjectInfo)
              /\ Len(Append(r, s[i])) = Len(r) + 1
              /\ Elements(Append(r, s[i])) = Elements(r) \cup {s[i]}
              /\ UniqueV(Append(r, s[i]))
            BY <2>2, <2>4, <2>5, AppendIs
        <3> QED BY <2>4, <3>1, <3>2, <3>3
    <2>7. Rotate(s, i, N) \in {s, Append(r, s[i])}
        BY DEF Rotate, r
    <2> QED BY <1>3, <2>1, <2>6, <2>7
<1>4. Loop(turn, k.loaded, n) \in I[n]
    <2>1. \A i \in 1..n : \A y \in I[i - 1] : turn[<<y, i>>] \in I[i]
        <3> HIDE DEF turn, Same, n
        <3> TAKE i \in 1..n
        <3>1. I[i - 1] = Same /\ I[i] = Same
            BY <1>1
        <3> QED BY <1>3, <3>1, Zenon
    <2> HIDE DEF turn, I, n
    <2> QED BY <1>1, <1>2, <2>1, LoopKeeps
<1>5. Loop(turn, k.loaded, n) \in Same
    <2> HIDE DEF turn, Same, n
    <2> QED BY <1>1, <1>4
<1>6. UpdateLru(k, cmd) = [k EXCEPT !.loaded = Loop(turn, k.loaded, n)]
    BY DEF UpdateLru
<1> HIDE DEF turn, n
<1> QED BY <1>5, <1>6

Named(cmd) == Elements(cmd.handles)

\* A manager in between commands or in the middle of one.
Good(k) ==
    /\ k \in Managers
    /\ given \in [Virtual -> MaybeContent] /\ held \in [SessionKeys -> 0..MaxSessions]
    /\ Slotted(k, given) /\ Handed(k, given)
    /\ Ordered(k) /\ Followed(k, held)

KeptObjects(k, j, cmd) ==
    /\ Slotted(j, given) /\ Handed(j, given)
    /\ Items(j) \subseteq Items(k)
    /\ \A e \in Items(k) : e.v \in Named(cmd) => e \in Items(j)
    /\ \A v \in Virtual : k.unloaded[v] # NoInfo => j.unloaded[v] = k.unloaded[v]
    /\ FreeSlots(k) \subseteq FreeSlots(j)

KeptSessions(k, j, cmd) ==
    /\ Ordered(j) /\ Followed(j, held)
    /\ Tracked(j) \subseteq Tracked(k)
    /\ \A key \in Tracked(k) : key \in Elements(cmd.sessions) => key \in Tracked(j)

\* What fixing a warning on behalf of cmd may turn k into: nothing is loaded that
\* was not, and what the command names stays where it is.
Kept(k, j, cmd) ==
    /\ j \in Managers
    /\ KeptObjects(k, j, cmd)
    /\ KeptSessions(k, j, cmd)
    /\ j.suspended = k.suspended /\ j.lost = k.lost
    /\ k.seen = {} => j.seen = {}

\* Nothing of the sessions changes.
SameSessions(k, j) ==
    j.room = k.room /\ j.ses = k.ses /\ j.sessions = k.sessions /\ j.lru = k.lru

\* Kept is a preorder on good managers.
LEMMA KeptRefl ==
    ASSUME NEW k, NEW cmd, Good(k)
    PROVE  Kept(k, k, cmd)
BY DEF Good, Kept, KeptObjects, KeptSessions

\* Fixes may follow each other.
LEMMA KeptTrans ==
    ASSUME NEW k, NEW j, NEW l, NEW cmd, Kept(k, j, cmd), Kept(j, l, cmd)
    PROVE  Kept(k, l, cmd)
<1>1. KeptObjects(k, l, cmd)
    BY DEF Kept, KeptObjects
<1>2. KeptSessions(k, l, cmd)
    BY DEF Kept, KeptSessions
<1> QED BY <1>1, <1>2 DEF Kept

\* What is kept is good.
LEMMA KeptIsGood ==
    ASSUME NEW k, NEW j, NEW cmd, Good(k), Kept(k, j, cmd)
    PROVE  Good(j)
BY DEF Good, Kept, KeptObjects, KeptSessions

\* The values that stand for nothing are none of the others.
LEMMA Nothing ==
    /\ NoContent \notin Content /\ \A c \in Content : c.obj # None
    /\ NoInfo \notin HandleInfo
    /\ \A i \in SessionInfo : i # NoSessionInfo
<1>1. NoContent \notin Content /\ \A c \in Content : c.obj # None
    BY TpmAssumption DEF Content, NoContent
<1>2. NoInfo \notin HandleInfo
    BY TpmAssumption DEF HandleInfo, NoInfo, Slots, None
<1>3. \A i \in SessionInfo : i # NoSessionInfo
    BY TpmAssumption DEF SessionInfo, NoSessionInfo
<1> QED BY <1>1, <1>2, <1>3

\* What is loaded has a virtual handle and a slot.
LEMMA ItemsTyped ==
    ASSUME NEW k \in Managers
    PROVE  \A e \in Items(k) : /\ e \in ObjectInfo /\ e.v \in Virtual
                                /\ e.info \in HandleInfo /\ e.info.tpm \in Slots
<1>1. k.loaded \in Seq(ObjectInfo)
    BY DEF Managers
<1>2. \A e \in Items(k) : e \in ObjectInfo
    BY <1>1 DEF Items, Elements
<1> QED BY <1>2 DEF ObjectInfo, HandleInfo

\* Evicting an object that the command does not name frees its slot.
LEMMA EvictAtKept ==
    ASSUME NEW k, NEW cmd, Good(k), NEW i \in Evictable(k, cmd)
    PROVE  /\ Kept(k, EvictAt(k, i), cmd)
           /\ FreeSlots(EvictAt(k, i)) # {}
           /\ Len(EvictAt(k, i).loaded) = Len(k.loaded) - 1
           /\ SameSessions(k, EvictAt(k, i))
<1> DEFINE e == k.loaded[i]
           t == e.info.tpm
           new == [e.info EXCEPT !.ctx = SavedContext(k, e.info)]
           j == EvictAt(k, i)
<1>1. /\ k \in Managers /\ i \in DOMAIN k.loaded /\ k.loaded \in Seq(ObjectInfo)
      /\ given \in [Virtual -> MaybeContent]
    BY DEF Good, Managers, Evictable
<1>2. /\ e \in ObjectInfo /\ e \in Items(k) /\ e.v \in Virtual /\ e.info \in HandleInfo
      /\ t \in Slots /\ e.v \notin Named(cmd)
    <2>1. e \in ObjectInfo
        BY <1>1
    <2>2. e \in Items(k) /\ e.v \notin Named(cmd)
        BY <1>1 DEF Items, Elements, Evictable, Named
    <2> QED BY <2>1, <2>2 DEF ObjectInfo, HandleInfo
<1>3. Slotted(k, given) /\ Handed(k, given)
    BY DEF Good
<1>4. /\ RemoveAt(k.loaded, i) \in Seq(ObjectInfo)
      /\ Len(RemoveAt(k.loaded, i)) = Len(k.loaded) - 1
      /\ Elements(RemoveAt(k.loaded, i)) = Items(k) \ {e}
      /\ UniqueV(RemoveAt(k.loaded, i))
    <2>1. \A a \in DOMAIN k.loaded : k.loaded[a] = k.loaded[i] => a = i
        BY <1>1, <1>3 DEF Slotted, UniqueV
    <2> QED BY <1>1, <1>3, <2>1, RemoveAtIs DEF Slotted, Items
<1>5. new \in HandleInfo /\ new # NoInfo /\ CopyOf(new.ctx, given[e.v])
    <2>1. SavedContext(k, e.info) \in MaybeContent
        BY <1>1, <1>2 DEF SavedContext, Managers, HandleInfo
    <2>2. CopyOf(SavedContext(k, e.info), given[e.v])
        BY <1>2, <1>3 DEF Slotted, SavedContext
    <2>3. new \in HandleInfo /\ new.ctx = SavedContext(k, e.info)
        BY <1>2, <2>1 DEF HandleInfo
    <2> QED BY <2>2, <2>3, Nothing
<1>6. /\ j \in Managers
      /\ j.objs = [k.objs EXCEPT ![t] = NoContent]
      /\ j.t2v = [k.t2v EXCEPT ![t] = None]
      /\ j.unloaded = [k.unloaded EXCEPT ![e.v] = new]
      /\ j.loaded = RemoveAt(k.loaded, i)
      /\ j.cache = k.cache /\ j.suspended = k.suspended /\ j.lost = k.lost
      /\ j.seen = k.seen /\ j.room = k.room /\ j.ses = k.ses /\ j.sessions = k.sessions /\ j.lru = k.lru
    <2> HIDE DEF new
    <2>1. j = [k EXCEPT !.objs = [k.objs EXCEPT ![t] = NoContent],
                        !.t2v = [k.t2v EXCEPT ![t] = None],
                        !.unloaded = [k.unloaded EXCEPT ![e.v] = new],
                        !.loaded = RemoveAt(k.loaded, i)]
        BY <1>1, <1>2 DEF EvictAt, Managers, new
    <2>2. /\ [k.objs EXCEPT ![t] = NoContent] \in [Slots -> MaybeContent]
          /\ [k.t2v EXCEPT ![t] = None] \in [Slots -> Virtual \cup {None}]
          /\ [k.unloaded EXCEPT ![e.v] = new] \in [Virtual -> HandleInfo \cup {NoInfo}]
        BY <1>1, <1>2, <1>5 DEF Managers, MaybeContent
    <2> QED BY <1>1, <1>4, <2>1, <2>2 DEF Managers
<1>7. Items(j) = Items(k) \ {e}
    BY <1>4, <1>6 DEF Items
<1>8. k.objs \in [Slots -> MaybeContent] /\ k.t2v \in [Slots -> Virtual \cup {None}]
      /\ k.unloaded \in [Virtual -> HandleInfo \cup {NoInfo}]
    BY <1>1 DEF Managers
<1>9. \A x \in Items(k) : x \in ObjectInfo /\ x.v \in Virtual /\ x.info.tpm \in Slots
    BY <1>1, ItemsTyped
<1> HIDE DEF j, e, t, new
<1>10. \A x \in Items(j) : x \in Items(k) /\ x.v # e.v /\ x.info.tpm # t
    <2>1. \A x \in Items(k) : x.v = e.v => x = e
        BY <1>1, <1>3 DEF Slotted, UniqueV, Items, Elements, e
    <2> QED BY <1>2, <1>3, <1>7, <2>1 DEF Slotted, t
<1>11. Slotted(j, given)
    <2>1. UniqueV(j.loaded)
        BY <1>4, <1>6
    <2>2. ASSUME NEW x \in Items(j)
          PROVE  /\ j.t2v[x.info.tpm] = x.v
                 /\ j.unloaded[x.v] = NoInfo
                 /\ CopyOf(j.objs[x.info.tpm], given[x.v])
                 /\ x.info.ctx # NoContent => CopyOf(x.info.ctx, given[x.v])
        <3>1. x \in Items(k) /\ x.v # e.v /\ x.info.tpm # t /\ x.v \in Virtual /\ x.info.tpm \in Slots
            BY <1>9, <1>10
        <3>2. /\ j.t2v[x.info.tpm] = k.t2v[x.info.tpm] /\ j.unloaded[x.v] = k.unloaded[x.v]
              /\ j.objs[x.info.tpm] = k.objs[x.info.tpm]
            BY <1>6, <1>8, <3>1
        <3> QED BY <1>3, <3>1, <3>2 DEF Slotted
    <2>3. \A s \in Slots : j.t2v[s] # None => \E x \in Items(j) : x.info.tpm = s
        BY <1>3, <1>6, <1>7, <1>8 DEF Slotted, t
    <2>4. \A s \in Slots : j.objs[s] # NoContent => j.t2v[s] # None
        BY <1>3, <1>6, <1>8 DEF Slotted
    <2> QED BY <2>1, <2>2, <2>3, <2>4 DEF Slotted
<1>12. Handed(j, given)
    <2>1. \A v \in Virtual : j.unloaded[v] # NoInfo => CopyOf(j.unloaded[v].ctx, given[v])
        BY <1>3, <1>5, <1>6, <1>8 DEF Handed
    <2>2. \A v \in Virtual : given[v] # NoContent
                               <=> (j.unloaded[v] # NoInfo \/ \E x \in Items(j) : x.v = v)
        BY <1>2, <1>3, <1>5, <1>6, <1>7, <1>8 DEF Handed
    <2> QED BY <1>3, <1>6, <2>1, <2>2 DEF Handed
<1>13. KeptObjects(k, j, cmd)
    <2>1. \A x \in Items(k) : x.v \in Named(cmd) => x \in Items(j)
        BY <1>2, <1>7
    <2>2. \A v \in Virtual : k.unloaded[v] # NoInfo => j.unloaded[v] = k.unloaded[v]
        <3>1. k.unloaded[e.v] = NoInfo
            BY <1>2, <1>3 DEF Slotted
        <3> QED BY <1>6, <1>8, <3>1
    <2>3. FreeSlots(k) \subseteq FreeSlots(j)
        BY <1>6, <1>8 DEF FreeSlots
    <2> QED BY <1>7, <1>11, <1>12, <2>1, <2>2, <2>3 DEF KeptObjects
<1>14. KeptSessions(k, j, cmd)
    BY <1>6 DEF KeptSessions, Good, Ordered, Followed, Tracked, Fits, LoadedSessions
<1>15. t \in FreeSlots(j)
    BY <1>2, <1>6, <1>8 DEF FreeSlots
<1> QED BY <1>4, <1>6, <1>13, <1>14, <1>15 DEF Kept, SameSessions, j

\* The choice of an object to evict.
LEMMA EvictOneObjectKept ==
    ASSUME NEW k, NEW cmd, Good(k)
    PROVE  /\ Kept(k, EvictOneObject(k, cmd), cmd)
           /\ Evictable(k, cmd) # {} => FreeSlots(EvictOneObject(k, cmd)) # {}
           /\ SameSessions(k, EvictOneObject(k, cmd))
<1> DEFINE others == {i \in Evictable(k, cmd) : k.loaded[i].info.sender # cmd.sender}
<1>1. Evictable(k, cmd) \in SUBSET Nat
    <2>1. k.loaded \in Seq(ObjectInfo)
        BY DEF Good, Managers
    <2> QED BY <2>1 DEF Evictable
<1>2. CASE others # {}
    <2>1. Least(others) \in others
        <3>1. others \in SUBSET Nat
            BY <1>1
        <3> HIDE DEF others
        <3> QED BY <1>2, <3>1, LeastIs
    <2>2. EvictOneObject(k, cmd) = EvictAt(k, Least(others))
        BY <1>2 DEF EvictOneObject
    <2> HIDE DEF others
    <2>3. Least(others) \in Evictable(k, cmd)
        BY <2>1 DEF others
    <2> QED BY <2>2, <2>3, EvictAtKept
<1>3. CASE others = {} /\ Evictable(k, cmd) # {}
    <2>1. EvictOneObject(k, cmd) = EvictAt(k, Least(Evictable(k, cmd)))
        BY <1>3 DEF EvictOneObject
    <2> QED BY <1>1, <1>3, <2>1, LeastIs, EvictAtKept
<1>4. CASE others = {} /\ Evictable(k, cmd) = {}
    <2>1. EvictOneObject(k, cmd) = k
        BY <1>4 DEF EvictOneObject
    <2> QED BY <1>4, <2>1, KeptRefl DEF SameSessions
<1> QED BY <1>2, <1>3, <1>4

\* One turn of the loop in EvictObjects().
LEMMA EvictNextKept ==
    ASSUME NEW k, NEW cmd, Good(k)
    PROVE  /\ Kept(k, EvictNext(k, cmd), cmd)
           /\ Evictable(k, cmd) # {} => /\ FreeSlots(EvictNext(k, cmd)) # {}
                                        /\ Len(EvictNext(k, cmd).loaded) = Len(k.loaded) - 1
           /\ SameSessions(k, EvictNext(k, cmd))
<1>1. Evictable(k, cmd) \in SUBSET Nat
    <2>1. k.loaded \in Seq(ObjectInfo)
        BY DEF Good, Managers
    <2> QED BY <2>1 DEF Evictable
<1>2. CASE Evictable(k, cmd) # {}
    BY <1>1, <1>2, LeastIs, EvictAtKept DEF EvictNext
<1>3. CASE Evictable(k, cmd) = {}
    BY <1>3, KeptRefl DEF EvictNext, SameSessions
<1> QED BY <1>2, <1>3

\* Evicting all objects that the command does not name.
LEMMA EvictObjectsKept ==
    ASSUME NEW k, NEW cmd, Good(k)
    PROVE  /\ Kept(k, EvictObjects(k, cmd), cmd)
           /\ Evictable(k, cmd) # {} => FreeSlots(EvictObjects(k, cmd)) # {}
           /\ Named(cmd) = {} => EvictObjects(k, cmd).loaded = <<>>
           /\ SameSessions(k, EvictObjects(k, cmd))
<1> DEFINE n == Len(k.loaded)
           turn == [x \in Managers \X (1..n) |-> EvictNext(x[1], cmd)]
           After1(x, i) ==
               /\ Kept(k, x, cmd)
               /\ i > 0 /\ Evictable(k, cmd) # {} => FreeSlots(x) # {}
               /\ Named(cmd) = {} => Len(x.loaded) = n - i
               /\ SameSessions(k, x)
           I == [i \in 0..n |-> {x \in Managers : After1(x, i)}]
<1>1. n \in Nat /\ k.loaded \in Seq(ObjectInfo) /\ k \in Managers
    BY DEF Good, Managers
<1> HIDE DEF n
<1>2. k \in I[0]
    <2>1. After1(k, 0)
        BY <1>1, KeptRefl DEF n, SameSessions
    <2> HIDE DEF After1
    <2> QED BY <1>1, <2>1
<1>3. ASSUME NEW i \in 1..n, NEW x \in Managers, After1(x, i - 1)
      PROVE  turn[<<x, i>>] \in Managers /\ After1(turn[<<x, i>>], i)
    <2>1. turn[<<x, i>>] = EvictNext(x, cmd)
        BY <1>3
    <2>2. Good(x)
        BY <1>3, KeptIsGood
    <2>3. Kept(x, EvictNext(x, cmd), cmd)
        BY <2>2, EvictNextKept
    <2>4. Kept(k, EvictNext(x, cmd), cmd) /\ EvictNext(x, cmd) \in Managers
        BY <1>3, <2>3, KeptTrans DEF Kept
    <2>5. ASSUME Evictable(k, cmd) # {}
          PROVE  FreeSlots(EvictNext(x, cmd)) # {}
        <3>1. CASE FreeSlots(x) # {}
            BY <2>3, <3>1 DEF Kept, KeptObjects
        <3>2. CASE Evictable(x, cmd) # {}
            BY <2>2, <3>2, EvictNextKept
        <3>3. CASE Evictable(x, cmd) = {} /\ FreeSlots(x) = {}
            <4>1. PICK a \in DOMAIN k.loaded : k.loaded[a].v \notin Named(cmd)
                BY <2>5 DEF Evictable, Named
            <4> DEFINE e == k.loaded[a]
            <4>2. e \in Items(k) /\ e.v \in Virtual /\ e.info.tpm \in Slots
                <5>1. e \in Items(k)
                    BY <4>1 DEF Items, Elements
                <5> QED BY <1>1, <5>1, ItemsTyped
            <4>3. x.objs[e.info.tpm] # NoContent
                BY <3>3, <4>2 DEF FreeSlots
            <4>4. PICK f \in Items(x) : f.info.tpm = e.info.tpm
                BY <2>2, <4>2, <4>3 DEF Good, Slotted
            <4>5. f \in Items(k)
                BY <1>3, <4>4 DEF Kept, KeptObjects
            <4>6. k.t2v[e.info.tpm] = e.v /\ k.t2v[f.info.tpm] = f.v
                BY <4>2, <4>5 DEF Good, Slotted
            <4>7. PICK b \in DOMAIN x.loaded : x.loaded[b] = f
                BY DEF Items, Elements
            <4>8. b \in Evictable(x, cmd)
                BY <4>1, <4>4, <4>6, <4>7 DEF Evictable, Named
            <4> QED BY <3>3, <4>8
        <3> QED BY <3>1, <3>2, <3>3
    <2>6. ASSUME Named(cmd) = {}
          PROVE  Len(EvictNext(x, cmd).loaded) = n - i
        <3>1. Len(x.loaded) = n - (i - 1) /\ x.loaded \in Seq(ObjectInfo)
            BY <1>3, <2>6 DEF Managers
        <3>2. 1 \in Evictable(x, cmd)
            BY <1>1, <2>6, <3>1 DEF Evictable, Named
        <3>3. Len(EvictNext(x, cmd).loaded) = Len(x.loaded) - 1
            BY <2>2, <3>2, EvictNextKept
        <3> QED BY <1>1, <3>1, <3>3
    <2>7. SameSessions(k, EvictNext(x, cmd))
        BY <1>3, <2>2, EvictNextKept DEF SameSessions
    <2> QED BY <2>1, <2>4, <2>5, <2>6, <2>7
<1>4. Loop(turn, k, n) \in I[n]
    <2>1. \A i \in 1..n : \A x \in I[i - 1] : turn[<<x, i>>] \in I[i]
        <3> HIDE DEF turn, After1
        <3> TAKE i \in 1..n
        <3>1. /\ I[i - 1] = {x \in Managers : After1(x, i - 1)}
              /\ I[i] = {x \in Managers : After1(x, i)}
            BY <1>1
        <3> HIDE DEF I
        <3> QED BY <1>3, <3>1
    <2> HIDE DEF turn, I
    <2> QED BY <1>1, <1>2, <2>1, LoopKeeps
<1>5. EvictObjects(k, cmd) = Loop(turn, k, n)
    BY DEF EvictObjects, n
<1> DEFINE r == EvictObjects(k, cmd)
<1>6. r \in Managers /\ After1(r, n)
    <2> HIDE DEF turn, After1
    <2> QED BY <1>1, <1>4, <1>5
<1> HIDE DEF r, turn
<1>7. ASSUME Evictable(k, cmd) # {}
      PROVE  n > 0
    BY <1>1, <1>7 DEF Evictable, n
<1>8. ASSUME Named(cmd) = {}
      PROVE  r.loaded = <<>>
    <2>1. r.loaded \in Seq(ObjectInfo)
        BY <1>6 DEF Managers
    <2> QED BY <1>1, <1>6, <1>8, <2>1
<1> QED BY <1>6, <1>7, <1>8 DEF r

\* Two tracked sessions never share a handle of the TPM.
LEMMA OneOwner ==
    ASSUME NEW k, Followed(k, held), NEW a \in Tracked(k), NEW b \in Tracked(k), a[1] = b[1]
    PROVE  a = b
BY DEF Followed, Tracked

\* What does not touch objects keeps them.
LEMMA SameObjects ==
    ASSUME NEW k, NEW j, NEW cmd, Slotted(k, given), Handed(k, given),
           j.objs = k.objs, j.t2v = k.t2v, j.unloaded = k.unloaded, j.loaded = k.loaded,
           j.cache = k.cache, j.suspended = k.suspended
    PROVE  KeptObjects(k, j, cmd)
<1>1. Items(j) = Items(k) /\ FreeSlots(j) = FreeSlots(k)
    BY DEF Items, FreeSlots
<1>2. Slotted(j, given)
    BY <1>1 DEF Slotted
<1>3. Handed(j, given)
    BY <1>1 DEF Handed
<1> QED BY <1>1, <1>2, <1>3 DEF KeptObjects

\* The sessions that are loaded are finitely many.
LEMMA LoadedFinite ==
    ASSUME NEW k
    PROVE  IsFiniteSet(LoadedSessions(k)) /\ Cardinality(LoadedSessions(k)) \in Nat
<1>1. IsFiniteSet(Handles) /\ LoadedSessions(k) \subseteq Handles
    BY FS_Interval, TpmAssumption DEF Handles, LoadedSessions
<1>2. IsFiniteSet(LoadedSessions(k))
    BY <1>1, FS_Subset
<1> QED BY <1>2, FS_CardinalityType

\* There is room while no more are loaded.
LEMMA StillFits ==
    ASSUME NEW k, NEW j, Fits(k), k.room \in Nat, j.room = k.room,
           LoadedSessions(j) \subseteq LoadedSessions(k)
    PROVE  Fits(j)
<1>1. Cardinality(LoadedSessions(j)) <= Cardinality(LoadedSessions(k))
    BY LoadedFinite, FS_Subset
<1> QED BY <1>1, LoadedFinite DEF Fits

\* One more fits where there is room.
LEMMA OneMoreFits ==
    ASSUME NEW k, NEW j, k.room \in Nat, j.room = k.room, Cardinality(LoadedSessions(k)) < k.room,
           NEW h, LoadedSessions(j) \subseteq LoadedSessions(k) \cup {h}
    PROVE  Fits(j)
<1> DEFINE S == LoadedSessions(k) \cup {h}
<1>1. IsFiniteSet(S) /\ Cardinality(S) <= Cardinality(LoadedSessions(k)) + 1
    BY LoadedFinite, FS_AddElement
<1>2. Cardinality(S) \in Nat
    BY <1>1, FS_CardinalityType
<1> HIDE DEF S
<1>3. Cardinality(LoadedSessions(j)) <= Cardinality(S)
    BY <1>1, FS_Subset DEF S
<1> QED BY <1>1, <1>2, <1>3, LoadedFinite DEF Fits

\* A session leaves the order of last use.
LEMMA UnusedIs ==
    ASSUME NEW s \in Seq(SessionKeys), Distinct(s), NEW key
    PROVE  /\ Unused(s, key) \in Seq(SessionKeys)
           /\ Distinct(Unused(s, key))
           /\ Elements(Unused(s, key)) = Elements(s) \ {key}
<1>1. CASE key \in Elements(s)
    <2> DEFINE i == CHOOSE a \in DOMAIN s : s[a] = key
    <2>1. i \in DOMAIN s /\ s[i] = key
        BY <1>1 DEF Elements
    <2>2. Unused(s, key) = RemoveAt(s, i)
        BY <1>1 DEF Unused
    <2> HIDE DEF i
    <2>3. \A j \in DOMAIN s : s[j] = s[i] => j = i
        BY <2>1 DEF Distinct
    <2> QED BY <2>1, <2>2, <2>3, RemoveAtIs
<1>2. CASE key \notin Elements(s)
    BY <1>2 DEF Unused
<1> QED BY <1>1, <1>2

\* A session that is flushed and no longer tracked: the others are as before.
LEMMA FlushIs ==
    ASSUME NEW k \in Managers, Ordered(k), Followed(k, held), NEW key \in Tracked(k)
    PROVE  LET j == CleanupFlushedSession(TpmFlushSession(k, key[1]), key)
           IN  /\ j \in Managers /\ Ordered(j) /\ Followed(j, held)
               /\ Tracked(j) = Tracked(k) \ {key}
               /\ j.objs = k.objs /\ j.t2v = k.t2v /\ j.unloaded = k.unloaded
               /\ j.loaded = k.loaded /\ j.cache = k.cache /\ j.suspended = k.suspended
               /\ j.lost = k.lost /\ j.seen = k.seen
<1> DEFINE j == CleanupFlushedSession(TpmFlushSession(k, key[1]), key)
           u == Unused(k.lru, key)
<1>1. key \in SessionKeys /\ key[1] \in Handles /\ key[2] \in Senders /\ key = <<key[1], key[2]>>
    BY DEF Tracked, SessionKeys
<1>2. k.lru \in Seq(SessionKeys) /\ k.ses \in [Handles -> TpmSession]
      /\ k.sessions \in [SessionKeys -> SessionInfo \cup {NoSessionInfo}]
    BY DEF Managers
<1>3. u \in Seq(SessionKeys) /\ Distinct(u) /\ Elements(u) = Elements(k.lru) \ {key}
    BY <1>2, UnusedIs DEF Ordered
<1> HIDE DEF u
<1>4. j = [k EXCEPT !.ses = [k.ses EXCEPT ![key[1]] = NoSession],
                    !.sessions = [k.sessions EXCEPT ![key] = NoSessionInfo],
                    !.lru = u]
    BY DEF CleanupFlushedSession, TpmFlushSession, Managers, u
<1>5. [k.ses EXCEPT ![key[1]] = NoSession] \in [Handles -> TpmSession]
    BY <1>1, <1>2, TpmAssumption DEF NoSession, TpmSession, None
<1>6. [k.sessions EXCEPT ![key] = NoSessionInfo] \in [SessionKeys -> SessionInfo \cup {NoSessionInfo}]
    BY <1>1, <1>2
<1>7. /\ j \in Managers
      /\ j.room = k.room /\ j.ses = [k.ses EXCEPT ![key[1]] = NoSession]
      /\ j.sessions = [k.sessions EXCEPT ![key] = NoSessionInfo]
      /\ j.lru = u
      /\ j.objs = k.objs /\ j.t2v = k.t2v /\ j.unloaded = k.unloaded
      /\ j.loaded = k.loaded /\ j.cache = k.cache /\ j.suspended = k.suspended
      /\ j.lost = k.lost /\ j.seen = k.seen
    <2> HIDE DEF j
    <2> QED BY <1>3, <1>4, <1>5, <1>6 DEF Managers
<1> HIDE DEF j
<1>8. Tracked(j) = Tracked(k) \ {key}
    BY <1>1, <1>2, <1>7 DEF Tracked
<1>9. Ordered(j)
    BY <1>3, <1>7, <1>8 DEF Ordered
<1>10. Followed(j, held)
    <2>1. ASSUME NEW x \in Tracked(j)
          PROVE  /\ held[x] # None
                 /\ j.ses[x[1]].sid = held[x]
                 /\ j.ses[x[1]].loaded = j.sessions[x].loaded
                 /\ ~j.sessions[x].loaded => j.sessions[x].ctx = held[x]
        <3>1. x \in Tracked(k) /\ x # key /\ x \in SessionKeys /\ x[1] \in Handles
            BY <1>8 DEF Tracked, SessionKeys
        <3>2. x[1] # key[1]
            BY <3>1, OneOwner
        <3>3. j.ses[x[1]] = k.ses[x[1]] /\ j.sessions[x] = k.sessions[x]
            BY <1>1, <1>2, <1>7, <3>1, <3>2
        <3> QED BY <3>1, <3>3 DEF Followed
    <2>2. ASSUME NEW x \in Handles, j.ses[x].sid # None
          PROVE  \E y \in Tracked(j) : y[1] = x
        <3>1. x # key[1]
            BY <1>2, <1>7, <2>2 DEF NoSession
        <3>2. k.ses[x].sid # None
            BY <1>2, <1>7, <2>2, <3>1
        <3> QED BY <1>8, <3>1, <3>2 DEF Followed
    <2>3. Fits(j)
        <3>1. LoadedSessions(j) \subseteq LoadedSessions(k)
            BY <1>1, <1>2, <1>7 DEF LoadedSessions, NoSession
        <3>2. Fits(k) /\ k.room \in Nat
            BY DEF Followed, Managers
        <3> QED BY <1>7, <3>1, <3>2, StillFits
    <2> QED BY <2>1, <2>2, <2>3 DEF Followed
<1> QED BY <1>7, <1>8, <1>9, <1>10 DEF j

\* The session that is evicted or flushed is one that may be.
LEMMA SessionToEvictIs ==
    ASSUME NEW k, NEW cmd, Good(k), Candidates(k, cmd) # {}
    PROVE  SessionToEvict(k, cmd) \in Candidates(k, cmd)
<1> DEFINE others == {key \in Candidates(k, cmd) : key[2] # cmd.sender}
           S == IF others # {} THEN others ELSE Candidates(k, cmd)
           D == {i \in DOMAIN k.lru : k.lru[i] \in S}
<1>1. S # {} /\ S \subseteq Candidates(k, cmd) /\ Candidates(k, cmd) \subseteq Tracked(k)
    BY DEF Candidates
<1>2. SessionToEvict(k, cmd) = k.lru[Least(D)]
    BY DEF SessionToEvict, LeastRecentlyUsed
<1> HIDE DEF S
<1>3. D # {} /\ D \in SUBSET Nat
    <2>1. k.lru \in Seq(SessionKeys) /\ Elements(k.lru) = Tracked(k)
        BY DEF Good, Managers, Ordered
    <2> QED BY <1>1, <2>1 DEF Elements
<1>4. Least(D) \in D
    <2> HIDE DEF D
    <2> QED BY <1>3, LeastIs
<1> QED BY <1>1, <1>2, <1>4

\* Flushing a session that the command does not name.
LEMMA FlushSessionKept ==
    ASSUME NEW k, NEW cmd, Good(k)
    PROVE  Kept(k, FlushSession(k, cmd), cmd)
<1>1. CASE Candidates(k, cmd) = {}
    BY <1>1, KeptRefl DEF FlushSession
<1>2. CASE Candidates(k, cmd) # {}
    <2> DEFINE key == SessionToEvict(k, cmd)
               j == CleanupFlushedSession(TpmFlushSession(k, key[1]), key)
    <2>1. key \in Tracked(k) /\ key \notin Elements(cmd.sessions)
        BY <1>2, SessionToEvictIs DEF Candidates
    <2>2. FlushSession(k, cmd) = j
        BY <1>2 DEF FlushSession
    <2>3. k \in Managers /\ Ordered(k) /\ Followed(k, held) /\ Slotted(k, given) /\ Handed(k, given)
        BY DEF Good
    <2> HIDE DEF key
    <2>4. /\ j \in Managers /\ Ordered(j) /\ Followed(j, held)
          /\ Tracked(j) = Tracked(k) \ {key}
          /\ j.objs = k.objs /\ j.t2v = k.t2v /\ j.unloaded = k.unloaded
          /\ j.loaded = k.loaded /\ j.cache = k.cache /\ j.suspended = k.suspended
          /\ j.lost = k.lost /\ j.seen = k.seen
        BY <2>1, <2>3, FlushIs
    <2> HIDE DEF j
    <2>5. KeptObjects(k, j, cmd)
        BY <2>3, <2>4, SameObjects
    <2>6. KeptSessions(k, j, cmd)
        BY <2>1, <2>4 DEF KeptSessions
    <2> QED BY <2>2, <2>4, <2>5, <2>6 DEF Kept
<1> QED BY <1>1, <1>2

-----------------------------------------------------------------------------
(***************************************************************************)
(* Saving and loading sessions, and fixing warnings.                       *)
(***************************************************************************)

Ops == {"execute", "saveSession", "loadSession", "loadObject"}

\* Done is success.
LEMMA DoneIsOk ==
    \A k, x, cmd, slots, new : Done(k, x, cmd, slots, new).rc = "ok"
BY DEF Done

\* The TPM refuses a command without a trace.
LEMMA Refused ==
    ASSUME NEW k, NEW cmd, NEW req, req.op \in Ops, TpmSend(k, cmd, req).rc # "ok"
    PROVE  TpmSend(k, cmd, req) = [m |-> k, rc |-> TpmSend(k, cmd, req).rc]
<1>1. CASE req.op = "execute"
    <2>1. TpmSend(k, cmd, req) = TpmExecute(k, cmd, req.slots)
        BY <1>1 DEF TpmSend
    <2> DEFINE Bad == \/ \E i \in DOMAIN req.slots : k.objs[req.slots[i]] = NoContent
                      \/ \E i \in DOMAIN cmd.sessions : cmd.sessions[i][1] \notin LoadedSessions(k)
    <2>2. CASE Bad
        BY <2>1, <2>2 DEF TpmExecute
    <2> USE DoneIsOk
    <2>3. CASE ~Bad /\ cmd.kind = "create"
        BY <2>1, <2>3 DEF TpmExecute
    <2>4. CASE ~Bad /\ cmd.kind = "start"
        BY <2>1, <2>4 DEF TpmExecute
    <2>5. CASE ~Bad /\ cmd.kind = "update"
        BY <2>1, <2>5 DEF TpmExecute
    <2>6. CASE ~Bad /\ cmd.kind \notin {"create", "start", "update"}
        BY <2>1, <2>6 DEF TpmExecute
    <2> QED BY <2>2, <2>3, <2>4, <2>5, <2>6
<1>2. CASE req.op = "saveSession"
    <2>1. TpmSend(k, cmd, req) = TpmSaveSession(k, req.key[1])
        BY <1>2 DEF TpmSend
    <2> QED BY <2>1 DEF TpmSaveSession
<1>3. CASE req.op = "loadSession"
    <2>1. TpmSend(k, cmd, req) = TpmLoadSession(k, req.key[1], k.sessions[req.key].ctx, cmd.general)
        BY <1>3 DEF TpmSend
    <2> QED BY <2>1 DEF TpmLoadSession
<1>4. CASE req.op = "loadObject"
    <2>1. TpmSend(k, cmd, req) = TpmLoadObject(k, k.unloaded[req.v].ctx, cmd.general)
        BY <1>4 DEF TpmSend
    <2> QED BY <2>1 DEF TpmLoadObject
<1> QED BY <1>1, <1>2, <1>3, <1>4 DEF Ops

\* The answer to a request that may have needed fixes.
Answer(r, k, cmd, req) ==
    \/ r.rc # "ok" /\ r = [m |-> r.m, rc |-> r.rc] /\ Kept(k, r.m, cmd)
    \/ r.rc = "ok" /\ \E j : Kept(k, j, cmd) /\ r = TpmSend(j, cmd, req)

Answers(context, cmd) ==
    \A k \in Managers, req \in ContextRequests :
        Good(k) => Answer(context[<<k, req>>], k, cmd, req)

\* A change of the TPM's and the manager's record of one session, which stays
\* what it was but for being loaded.
LEMMA SessionMoved ==
    ASSUME NEW k, Good(k), NEW j \in Managers, NEW cmd, NEW key \in Tracked(k),
           NEW s \in [Handles -> TpmSession], NEW i \in SessionInfo,
           j = [k EXCEPT !.ses = s, !.sessions = [k.sessions EXCEPT ![key] = i]],
           \A x \in Handles : s[x].sid = k.ses[x].sid,
           \A x \in Handles : x # key[1] => s[x].loaded = k.ses[x].loaded,
           s[key[1]].loaded = i.loaded,
           ~i.loaded => i.ctx = held[key],
           Fits(j)
    PROVE  Kept(k, j, cmd)
<1>1. /\ k \in Managers /\ Ordered(k) /\ Followed(k, held) /\ Slotted(k, given) /\ Handed(k, given)
      /\ k.sessions \in [SessionKeys -> SessionInfo \cup {NoSessionInfo}]
    BY DEF Good, Managers
<1>2. /\ j.ses = s /\ j.sessions = [k.sessions EXCEPT ![key] = i] /\ j.lru = k.lru
      /\ j.objs = k.objs /\ j.t2v = k.t2v /\ j.unloaded = k.unloaded
      /\ j.loaded = k.loaded /\ j.cache = k.cache /\ j.suspended = k.suspended
      /\ j.lost = k.lost /\ j.seen = k.seen
    BY <1>1 DEF Managers
<1>3. key \in SessionKeys /\ key[1] \in Handles
    BY DEF Tracked, SessionKeys
<1>4. Tracked(j) = Tracked(k)
    BY <1>1, <1>2, <1>3, Nothing DEF Tracked
<1>5. Followed(j, held)
    <2>1. ASSUME NEW x \in Tracked(j)
          PROVE  /\ held[x] # None
                 /\ j.ses[x[1]].sid = held[x]
                 /\ j.ses[x[1]].loaded = j.sessions[x].loaded
                 /\ ~j.sessions[x].loaded => j.sessions[x].ctx = held[x]
        <3>1. x \in Tracked(k) /\ x \in SessionKeys /\ x[1] \in Handles
            BY <1>4 DEF Tracked, SessionKeys
        <3>2. held[x] # None /\ j.ses[x[1]].sid = held[x]
            BY <1>1, <1>2, <3>1 DEF Followed
        <3>3. CASE x = key
            BY <1>1, <1>2, <1>3, <3>2, <3>3
        <3>4. CASE x # key
            <4>1. x[1] # key[1]
                BY <1>1, <3>1, <3>4, OneOwner
            <4>2. j.ses[x[1]].loaded = k.ses[x[1]].loaded /\ j.sessions[x] = k.sessions[x]
                BY <1>1, <1>2, <1>3, <3>1, <3>4, <4>1
            <4> QED BY <1>1, <3>1, <3>2, <4>2 DEF Followed
        <3> QED BY <3>3, <3>4
    <2> QED BY <1>1, <1>2, <1>4, <2>1 DEF Followed
<1>6. KeptObjects(k, j, cmd)
    BY <1>1, <1>2, SameObjects
<1>7. KeptSessions(k, j, cmd)
    BY <1>1, <1>2, <1>4, <1>5 DEF KeptSessions, Ordered
<1> QED BY <1>2, <1>6, <1>7 DEF Kept

\* Saving changes what a session is loaded as, and ages.
LEMMA SavedIs ==
    ASSUME NEW k \in Managers, NEW h \in Handles, ~AtGap(k)
    PROVE  /\ Saved(k.ses, h) \in [Handles -> TpmSession]
           /\ \A g \in Handles : /\ Saved(k.ses, h)[g].sid = k.ses[g].sid
                                 /\ g # h => Saved(k.ses, h)[g].loaded = k.ses[g].loaded
           /\ Saved(k.ses, h)[h].loaded = FALSE
<1> DEFINE s == Saved(k.ses, h)
<1>1. k.ses \in [Handles -> TpmSession]
    BY DEF Managers
<1>2. ASSUME NEW g \in Handles
      PROVE  /\ s[g] \in TpmSession /\ s[g].sid = k.ses[g].sid
             /\ s[g].loaded = IF g = h THEN FALSE ELSE k.ses[g].loaded
    <2>1. k.ses[g] \in TpmSession
        BY <1>1
    <2>2. CASE g = h
        <3>1. s[g] = [k.ses[g] EXCEPT !.loaded = FALSE, !.age = 0]
            BY <2>2 DEF Saved
        <3>2. 0 \in 0..(MaxGap + 1)
            BY TpmAssumption
        <3> QED BY <2>1, <2>2, <3>1, <3>2 DEF TpmSession
    <2>3. CASE g # h /\ k.ses[g].sid # None /\ ~k.ses[g].loaded
        <3>1. s[g] = [k.ses[g] EXCEPT !.age = k.ses[g].age + 1]
            BY <2>1, <2>3 DEF Saved, TpmSession
        <3>2. k.ses[g].age + 1 \in 0..(MaxGap + 1)
            <4>1. ~(k.ses[g].age >= MaxGap)
                BY <2>3 DEF AtGap, SavedSessions
            <4>2. k.ses[g].age \in 0..(MaxGap + 1)
                BY <2>1 DEF TpmSession
            <4> QED BY <4>1, <4>2, TpmAssumption
        <3> QED BY <2>1, <2>3, <3>1, <3>2 DEF TpmSession
    <2>4. CASE g # h /\ ~(k.ses[g].sid # None /\ ~k.ses[g].loaded)
        BY <2>1, <2>4 DEF Saved
    <2> QED BY <2>2, <2>3, <2>4
<1>3. DOMAIN s = Handles /\ s = [g \in Handles |-> s[g]]
    BY DEF Saved
<1> HIDE DEF s
<1> QED BY <1>2, <1>3 DEF s

\* The TPM saves a session and the manager notes it.
LEMMA SaveDone ==
    ASSUME NEW k, Good(k), NEW cmd, NEW key \in Tracked(k),
           TpmSaveSession(k, key[1]).rc = "ok"
    PROVE  Kept(k, SavedAs(TpmSaveSession(k, key[1]), key).m, cmd)
<1> DEFINE h == key[1]
           s == Saved(k.ses, h)
           i == [k.sessions[key] EXCEPT !.loaded = FALSE, !.ctx = k.ses[h].sid]
           l == [k EXCEPT !.ses = s]
           j == [k EXCEPT !.ses = s, !.sessions = [k.sessions EXCEPT ![key] = i]]
           r == TpmSaveSession(k, h)
<1>1. /\ k \in Managers /\ key \in SessionKeys /\ h \in Handles
      /\ k.ses \in [Handles -> TpmSession] /\ k.sessions[key] \in SessionInfo
      /\ k.sessions \in [SessionKeys -> SessionInfo \cup {NoSessionInfo}]
    BY DEF Good, Managers, Tracked, SessionKeys
<1>2. h \in LoadedSessions(k) /\ ~AtGap(k)
    BY DEF TpmSaveSession
<1>3. r = [m |-> l, rc |-> "ok"]
    BY <1>1, <1>2 DEF TpmSaveSession, Managers
<1>4. /\ s \in [Handles -> TpmSession]
      /\ \A g \in Handles : s[g].sid = k.ses[g].sid /\ (g # h => s[g].loaded = k.ses[g].loaded)
      /\ s[h].loaded = FALSE
    BY <1>1, <1>2, SavedIs
<1>5. k.ses[h].sid \in 0..MaxSessions /\ k.ses[h].sid = held[key]
    BY <1>1 DEF TpmSession, Good, Followed
<1>6. i \in SessionInfo /\ i.loaded = FALSE /\ i.ctx = held[key]
    BY <1>1, <1>5 DEF SessionInfo
<1> HIDE DEF s
<1>7. l.sessions = k.sessions /\ l.ses = s
    BY <1>1 DEF Managers
<1>8. SavedAs(r, key).m = j
    <2>1. SavedAs(r, key).m = [l EXCEPT !.sessions[key] = [l.sessions[key] EXCEPT !.loaded = FALSE,
                                                                          !.ctx = l.ses[h].sid]]
        <3> HIDE DEF l, r
        <3> QED BY <1>3 DEF SavedAs
    <2>2. [l.sessions[key] EXCEPT !.loaded = FALSE, !.ctx = l.ses[h].sid] = i
        <3> HIDE DEF l
        <3> QED BY <1>1, <1>4, <1>7
    <2> HIDE DEF i
    <2>3. [l EXCEPT !.sessions[key] = i] = j
        BY <1>1 DEF Managers
    <2> QED BY <2>1, <2>2, <2>3
<1> HIDE DEF i
<1>9. j \in Managers
    <2>1. [k.sessions EXCEPT ![key] = i] \in [SessionKeys -> SessionInfo \cup {NoSessionInfo}]
        BY <1>1, <1>6
    <2> QED BY <1>1, <1>4, <2>1 DEF Managers
<1>10. Kept(k, j, cmd)
    <2>1. j = [k EXCEPT !.ses = s, !.sessions = [k.sessions EXCEPT ![key] = i]]
        OBVIOUS
    <2> HIDE DEF j
    <2>2. s[h].loaded = i.loaded /\ (~i.loaded => i.ctx = held[key])
        BY <1>4, <1>6
    <2>3. /\ \A x \in Handles : s[x].sid = k.ses[x].sid
          /\ \A x \in Handles : x # key[1] => s[x].loaded = k.ses[x].loaded
        BY <1>4
    <2>4. s \in [Handles -> TpmSession] /\ i \in SessionInfo
        BY <1>4, <1>6
    <2>5. j.room = k.room /\ j.ses = s
        BY <1>1, <2>1 DEF Managers
    <2>6. LoadedSessions(j) \subseteq LoadedSessions(k)
        BY <1>2, <1>4, <2>5 DEF LoadedSessions
    <2>7. Fits(j)
        BY <1>1, <2>5, <2>6, StillFits DEF Good, Followed, Managers
    <2> HIDE DEF h
    <2> QED BY <1>9, <2>1, <2>2, <2>3, <2>4, <2>7, SessionMoved, Zenon DEF h
<1> QED BY <1>8, <1>10

\* The TPM loads a session, which it does for a tracked one only, and the manager
\* notes it.
LEMMA LoadDone ==
    ASSUME NEW k, Good(k), NEW cmd, NEW general, NEW key \in SessionKeys,
           TpmLoadSession(k, key[1], k.sessions[key].ctx, general).rc = "ok"
    PROVE  Kept(k, LoadedAs(TpmLoadSession(k, key[1], k.sessions[key].ctx, general), key).m, cmd)
<1> DEFINE h == key[1]
           x == [k.ses[h] EXCEPT !.loaded = TRUE, !.age = 0]
           s == [k.ses EXCEPT ![h] = x]
           i == [k.sessions[key] EXCEPT !.loaded = TRUE]
           l == [k EXCEPT !.ses = s]
           j == [k EXCEPT !.ses = s, !.sessions = [k.sessions EXCEPT ![key] = i]]
           r == TpmLoadSession(k, h, k.sessions[key].ctx, general)
<1>1. /\ k \in Managers /\ h \in Handles /\ k.ses \in [Handles -> TpmSession]
      /\ k.sessions \in [SessionKeys -> SessionInfo \cup {NoSessionInfo}]
    BY DEF Good, Managers, SessionKeys
<1>2. h \in SavedSessions(k) /\ k.ses[h].sid = k.sessions[key].ctx
      /\ ~(Cardinality(LoadedSessions(k)) >= k.room)
    BY DEF TpmLoadSession, Short
<1>3. key \in Tracked(k) /\ k.sessions[key] \in SessionInfo
    <2>1. k.sessions[key] # NoSessionInfo
        BY <1>2 DEF SavedSessions, NoSessionInfo
    <2> QED BY <1>1, <2>1 DEF Tracked
<1>4. r = [m |-> l, rc |-> "ok"]
    <2>1. r = [m |-> [k EXCEPT !.ses[h] = x], rc |-> "ok"]
        BY <1>1, <1>2 DEF TpmLoadSession, Short, Managers
    <2> HIDE DEF x
    <2>2. [k EXCEPT !.ses[h] = x] = l
        BY <1>1 DEF Managers
    <2> QED BY <2>1, <2>2
<1>5. x \in TpmSession /\ x.sid = k.ses[h].sid /\ x.loaded = TRUE
    <2>1. 0 \in 0..(MaxGap + 1) /\ k.ses[h] \in TpmSession
        BY <1>1, TpmAssumption
    <2> QED BY <2>1 DEF TpmSession
<1>6. i \in SessionInfo /\ i.loaded = TRUE
    BY <1>3 DEF SessionInfo
<1> HIDE DEF x
<1>7. /\ s \in [Handles -> TpmSession]
      /\ \A g \in Handles : s[g].sid = k.ses[g].sid
      /\ \A g \in Handles : g # key[1] => s[g].loaded = k.ses[g].loaded
      /\ s[key[1]].loaded = i.loaded
      /\ ~i.loaded => i.ctx = held[key]
    BY <1>1, <1>5, <1>6
<1> HIDE DEF s
<1>8. LoadedAs(r, key).m = j
    <2>1. LoadedAs(r, key).m = [l EXCEPT !.sessions[key] = [l.sessions[key] EXCEPT !.loaded = TRUE]]
        <3> HIDE DEF l, r
        <3> QED BY <1>4 DEF LoadedAs
    <2>2. l.sessions[key] = k.sessions[key]
        BY <1>1 DEF Managers
    <2>3. [l EXCEPT !.sessions[key] = i] = j
        <3> HIDE DEF i
        <3> QED BY <1>1 DEF Managers
    <2> HIDE DEF l
    <2> QED BY <2>1, <2>2, <2>3
<1> HIDE DEF i
<1>9. j \in Managers
    <2>1. [k.sessions EXCEPT ![key] = i] \in [SessionKeys -> SessionInfo \cup {NoSessionInfo}]
        BY <1>1, <1>6
    <2> QED BY <1>1, <1>7, <2>1 DEF Managers
<1>10. Kept(k, j, cmd)
    <2>1. j = [k EXCEPT !.ses = s, !.sessions = [k.sessions EXCEPT ![key] = i]]
        OBVIOUS
    <2> HIDE DEF j
    <2>2. j.room = k.room /\ j.ses = s /\ k.room \in Nat
        BY <1>1, <2>1 DEF Managers
    <2>3. LoadedSessions(j) \subseteq LoadedSessions(k) \cup {h}
        BY <1>7, <2>2 DEF LoadedSessions
    <2>4. Fits(j)
        BY <1>2, <2>2, <2>3, LoadedFinite, OneMoreFits
    <2> QED BY <1>3, <1>6, <1>7, <1>9, <2>1, <2>4, SessionMoved, Zenon
<1> QED BY <1>8, <1>10

\* Saving a session, whatever had to be fixed for it: even if the session itself
\* was flushed meanwhile.
LEMMA SaveSessionKept ==
    ASSUME NEW k, Good(k), NEW cmd, NEW context, Answers(context, cmd), NEW key \in SessionKeys
    PROVE  Kept(k, SaveSession(k, key, context).m, cmd)
<1> DEFINE req == [op |-> "saveSession", key |-> key]
           r == context[<<k, req>>]
<1>1. k \in Managers /\ req \in ContextRequests
    BY DEF Good, ContextRequests
<1>2. CASE ~k.sessions[key].loaded
    <2>1. SaveSession(k, key, context).m = k
        BY <1>2 DEF SaveSession
    <2> QED BY <2>1, KeptRefl
<1>3. CASE k.sessions[key].loaded
    <2>1. SaveSession(k, key, context) = SavedAs(r, key)
        BY <1>3 DEF SaveSession
    <2>2. Answer(r, k, cmd, req)
        BY <1>1 DEF Answers
    <2> HIDE DEF r
    <2>3. CASE r.rc # "ok" /\ Kept(k, r.m, cmd)
        BY <2>1, <2>3 DEF SavedAs
    <2>4. CASE r.rc = "ok" /\ \E j : Kept(k, j, cmd) /\ r = TpmSend(j, cmd, req)
        <3>1. PICK j : Kept(k, j, cmd) /\ r = TpmSend(j, cmd, req)
            BY <2>4
        <3>2. r = TpmSaveSession(j, key[1])
            BY <3>1 DEF TpmSend
        <3>3. Good(j)
            BY <3>1, KeptIsGood
        <3>4. key \in Tracked(j)
            <4>1. key[1] \in LoadedSessions(j)
                BY <2>4, <3>2 DEF TpmSaveSession
            <4>2. PICK x \in Tracked(j) : x[1] = key[1]
                BY <3>3, <4>1 DEF Good, Followed, LoadedSessions
            <4>3. x \in Tracked(k)
                BY <3>1, <4>2 DEF Kept, KeptSessions
            <4>4. key \in Tracked(k)
                BY <1>3 DEF Tracked, NoSessionInfo
            <4> QED BY <4>2, <4>3, <4>4, OneOwner DEF Good
        <3>5. Kept(j, SavedAs(r, key).m, cmd)
            BY <2>4, <3>2, <3>3, <3>4, SaveDone
        <3> QED BY <2>1, <3>1, <3>5, KeptTrans
    <2> QED BY <2>2, <2>3, <2>4 DEF Answer
<1> QED BY <1>2, <1>3

\* Loading one.
LEMMA LoadSessionKept ==
    ASSUME NEW k, Good(k), NEW cmd, NEW context, Answers(context, cmd), NEW key \in SessionKeys
    PROVE  Kept(k, LoadSession(k, key, context).m, cmd)
<1> DEFINE req == [op |-> "loadSession", key |-> key]
           r == context[<<k, req>>]
<1>1. k \in Managers /\ req \in ContextRequests
    BY DEF Good, ContextRequests
<1>2. CASE k.sessions[key].loaded
    <2>1. LoadSession(k, key, context).m = k
        BY <1>2 DEF LoadSession
    <2> QED BY <2>1, KeptRefl
<1>3. CASE ~k.sessions[key].loaded
    <2>1. LoadSession(k, key, context) = LoadedAs(r, key)
        BY <1>3 DEF LoadSession
    <2>2. Answer(r, k, cmd, req)
        BY <1>1 DEF Answers
    <2> HIDE DEF r
    <2>3. CASE r.rc # "ok" /\ Kept(k, r.m, cmd)
        BY <2>1, <2>3 DEF LoadedAs
    <2>4. CASE r.rc = "ok" /\ \E j : Kept(k, j, cmd) /\ r = TpmSend(j, cmd, req)
        <3>1. PICK j : Kept(k, j, cmd) /\ r = TpmSend(j, cmd, req)
            BY <2>4
        <3>2. r = TpmLoadSession(j, key[1], j.sessions[key].ctx, cmd.general)
            BY <3>1 DEF TpmSend
        <3>3. Good(j)
            BY <3>1, KeptIsGood
        <3>4. Kept(j, LoadedAs(r, key).m, cmd)
            BY <2>4, <3>2, <3>3, LoadDone
        <3> QED BY <2>1, <3>1, <3>4, KeptTrans
    <2> QED BY <2>2, <2>3, <2>4 DEF Answer
<1> QED BY <1>2, <1>3

\* A session is saved to make room or else flushed.
LEMMA EvictSessionKept ==
    ASSUME NEW k, Good(k), NEW cmd, NEW context, Answers(context, cmd)
    PROVE  Kept(k, EvictSession(k, cmd, context), cmd)
<1> DEFINE r == SaveSession(k, SessionToEvict(k, cmd), context)
<1>1. CASE Candidates(k, cmd) = {}
    BY <1>1, KeptRefl DEF EvictSession
<1>2. CASE Candidates(k, cmd) # {}
    <2>1. SessionToEvict(k, cmd) \in SessionKeys
        BY <1>2, SessionToEvictIs DEF Candidates, Tracked
    <2>2. Kept(k, r.m, cmd)
        BY <2>1, SaveSessionKept
    <2>3. EvictSession(k, cmd, context) = IF r.rc = "ok" THEN r.m ELSE FlushSession(r.m, cmd)
        BY <1>2 DEF EvictSession
    <2> HIDE DEF r
    <2>4. Kept(r.m, FlushSession(r.m, cmd), cmd)
        BY <2>2, KeptIsGood, FlushSessionKept
    <2> QED BY <2>2, <2>3, <2>4, KeptTrans
<1> QED BY <1>1, <1>2

\* A loop over sessions whose body keeps what a fix keeps.
LEMMA ForEachKept ==
    ASSUME NEW k, Good(k), NEW cmd, NEW S \in SUBSET SessionKeys, NEW step,
           \A x \in Managers, key \in S : Good(x) => Kept(x, step[<<x, key>>], cmd)
    PROVE  Kept(k, ForEach(k, S, step), cmd)
<1> DEFINE At(c) == {key \in S : k.sessions[key].created = c}
           Body(x, c) == IF At(c) = {} THEN x ELSE step[<<x, CHOOSE key \in At(c) : TRUE>>]
           turn == [x \in Managers \X (1..MaxSessions) |-> Body(x[1], x[2])]
           J == {x \in Managers : Kept(k, x, cmd)}
           I == [c \in 0..MaxSessions |-> J]
<1>1. MaxSessions \in Nat
    BY TpmAssumption
<1>2. k \in I[0]
    <2>1. k \in J
        BY KeptRefl DEF Good
    <2> HIDE DEF J
    <2> QED BY <1>1, <2>1
<1>3. ASSUME NEW c \in 1..MaxSessions, NEW x \in J
      PROVE  turn[<<x, c>>] \in J
    <2>1. turn[<<x, c>>] = Body(x, c)
        <3> HIDE DEF Body
        <3> QED BY <1>3
    <2>2. Good(x)
        BY <1>3, KeptIsGood
    <2>3. CASE At(c) = {}
        BY <1>3, <2>1, <2>3
    <2>4. CASE At(c) # {}
        <3> DEFINE key == CHOOSE y \in At(c) : TRUE
        <3>1. key \in S
            BY <2>4
        <3>2. turn[<<x, c>>] = step[<<x, key>>]
            BY <2>1, <2>4
        <3> HIDE DEF key, turn
        <3>3. Kept(x, step[<<x, key>>], cmd)
            BY <1>3, <2>2, <3>1
        <3> QED BY <1>3, <3>2, <3>3, KeptTrans DEF Kept
    <2> QED BY <2>3, <2>4
<1>4. Loop(turn, k, MaxSessions) \in I[MaxSessions]
    <2>1. \A c \in 1..MaxSessions : \A x \in I[c - 1] : turn[<<x, c>>] \in I[c]
        <3> HIDE DEF turn, J
        <3> TAKE c \in 1..MaxSessions
        <3>1. I[c - 1] = J /\ I[c] = J
            BY <1>1
        <3> QED BY <1>3, <3>1, Zenon
    <2> HIDE DEF turn, I
    <2> QED BY <1>1, <1>2, <2>1, LoopKeeps
<1>5. ForEach(k, S, step) = Loop(turn, k, MaxSessions)
    BY DEF ForEach
<1>6. Loop(turn, k, MaxSessions) \in J
    <2> HIDE DEF turn, J
    <2> QED BY <1>1, <1>4
<1> HIDE DEF turn
<1> QED BY <1>5, <1>6

\* Loading and saving sessions to close the context gap.
LEMMA FixContextGapKept ==
    ASSUME NEW k, Good(k), NEW cmd, NEW context, Answers(context, cmd)
    PROVE  Kept(k, FixContextGap(k, context), cmd)
<1> DEFINE ungap == {key \in Tracked(k) : ~k.sessions[key].loaded}
           reload == {key \in Tracked(k) : k.sessions[key].loaded /\ \E u \in ungap : u[1] = key[1]}
           Resave(r, key) == IF r.rc = "ok" THEN SaveSession(r.m, key, context).m ELSE r.m
           Save == [x \in Managers \X SessionKeys |-> SaveSession(x[1], x[2], context).m]
           Ungap == [x \in Managers \X SessionKeys |-> Resave(LoadSession(x[1], x[2], context), x[2])]
           Load == [x \in Managers \X SessionKeys |-> LoadSession(x[1], x[2], context).m]
           k1 == ForEach(k, reload, Save)
           k2 == ForEach(k1, ungap, Ungap)
           k3 == ForEach(k2, reload, Load)
<1>1. reload \in SUBSET SessionKeys /\ ungap \in SUBSET SessionKeys
    BY DEF Tracked
<1>2. \A x \in Managers, key \in SessionKeys : Good(x) => Kept(x, Save[<<x, key>>], cmd)
    BY SaveSessionKept
<1>3. \A x \in Managers, key \in SessionKeys : Good(x) => Kept(x, Load[<<x, key>>], cmd)
    BY LoadSessionKept
<1>4. ASSUME NEW x \in Managers, NEW key \in SessionKeys, Good(x)
      PROVE  Kept(x, Ungap[<<x, key>>], cmd)
    <2> DEFINE r == LoadSession(x, key, context)
    <2>1. Ungap[<<x, key>>] = Resave(r, key)
        <3> HIDE DEF Resave
        <3> QED OBVIOUS
    <2>2. Kept(x, r.m, cmd)
        BY <1>4, LoadSessionKept
    <2> HIDE DEF Ungap, r
    <2>3. Kept(r.m, SaveSession(r.m, key, context).m, cmd)
        BY <1>4, <2>2, KeptIsGood, SaveSessionKept
    <2> QED BY <2>1, <2>2, <2>3, KeptTrans
<1>5. FixContextGap(k, context) = k3
    BY DEF FixContextGap
<1> HIDE DEF reload, ungap, Save, Ungap, Load
<1>6. Kept(k, k1, cmd)
    BY <1>1, <1>2, ForEachKept
<1>7. Kept(k1, k2, cmd) /\ Good(k1)
    BY <1>1, <1>4, <1>6, ForEachKept, KeptIsGood
<1>8. Kept(k2, k3, cmd) /\ Good(k2)
    BY <1>1, <1>3, <1>7, ForEachKept, KeptIsGood
<1> QED BY <1>5, <1>6, <1>7, <1>8, KeptTrans

\* Every fix keeps what the command names, and one for want of memory frees a
\* slot if any object can be evicted.
LEMMA FixKept ==
    ASSUME NEW k, Good(k), NEW cmd, NEW context, Answers(context, cmd), NEW w \in Warnings
    PROVE  /\ Kept(k, Fix(k, cmd, w, context), cmd)
           /\ w \in {"OBJECT_MEMORY", "MEMORY"} /\ Evictable(k, cmd) # {}
                 => FreeSlots(Fix(k, cmd, w, context)) # {}
<1>1. CASE w = "CONTEXT_GAP"
    BY <1>1, FixContextGapKept DEF Fix
<1>2. CASE w = "OBJECT_MEMORY"
    BY <1>2, EvictOneObjectKept DEF Fix
<1>3. CASE w = "SESSION_MEMORY"
    BY <1>3, EvictSessionKept DEF Fix
<1>4. CASE w = "MEMORY"
    <2> DEFINE j == EvictObjects(k, cmd)
    <2>1. Fix(k, cmd, w, context) = EvictSession(j, cmd, context)
        BY <1>4 DEF Fix
    <2>2. Kept(k, j, cmd) /\ (Evictable(k, cmd) # {} => FreeSlots(j) # {})
        BY EvictObjectsKept
    <2> HIDE DEF j
    <2>3. Kept(j, EvictSession(j, cmd, context), cmd)
        BY <2>2, KeptIsGood, EvictSessionKept
    <2>4. FreeSlots(j) \subseteq FreeSlots(EvictSession(j, cmd, context))
        BY <2>3 DEF Kept, KeptObjects
    <2> QED BY <2>1, <2>2, <2>3, <2>4, KeptTrans
<1>5. CASE w = "SESSION_HANDLES"
    BY <1>5, FlushSessionKept DEF Fix
<1> QED BY <1>1, <1>2, <1>3, <1>4, <1>5 DEF Warnings

\* What warnings were seen matters to nothing else.
LEMMA SeenChanged ==
    ASSUME NEW k, Good(k), NEW S \in SUBSET Warnings
    PROVE  LET j == [k EXCEPT !.seen = S]
           IN  /\ Good(j) /\ j.seen = S /\ j.suspended = k.suspended
               /\ j.lost = k.lost
               /\ j.unloaded = k.unloaded /\ Items(j) = Items(k)
               /\ FreeSlots(j) = FreeSlots(k) /\ Tracked(j) = Tracked(k)
               /\ \A cmd : Evictable(j, cmd) = Evictable(k, cmd)
               /\ SameSessions(k, j)
<1> DEFINE j == [k EXCEPT !.seen = S]
<1>1. /\ j \in Managers /\ j.seen = S
      /\ j.room = k.room /\ j.ses = k.ses /\ j.sessions = k.sessions /\ j.lru = k.lru
      /\ j.objs = k.objs /\ j.t2v = k.t2v /\ j.unloaded = k.unloaded
      /\ j.loaded = k.loaded /\ j.cache = k.cache /\ j.suspended = k.suspended
      /\ j.lost = k.lost
    BY DEF Good, Managers
<1> HIDE DEF j
<1>2. /\ Items(j) = Items(k) /\ FreeSlots(j) = FreeSlots(k) /\ Tracked(j) = Tracked(k)
      /\ \A cmd : Evictable(j, cmd) = Evictable(k, cmd)
    BY <1>1 DEF Items, FreeSlots, Tracked, Evictable
<1>3. Slotted(j, given) /\ Handed(j, given)
    BY <1>1, <1>2 DEF Good, Slotted, Handed
<1>4. Ordered(j) /\ Followed(j, held)
    BY <1>1, <1>2 DEF Good, Ordered, Followed, Fits, LoadedSessions
<1>5. Good(j)
    BY <1>1, <1>3, <1>4 DEF Good
<1> QED BY <1>1, <1>2, <1>5 DEF SameSessions, j

\* FixWarnings() as a whole.
LEMMA FixWarningsKept ==
    ASSUME NEW k, Good(k), NEW cmd, NEW context, Answers(context, cmd), NEW w \in Warnings
    PROVE  /\ Kept(k, FixWarnings(k, cmd, w, context), cmd)
           /\ w \in {"OBJECT_MEMORY", "MEMORY"} /\ Evictable(k, cmd) # {}
                 => FreeSlots(FixWarnings(k, cmd, w, context)) # {}
<1> DEFINE S == k.seen \cup {w}
           k1 == [k EXCEPT !.seen = S]
           j1 == Fix(k1, cmd, w, context)
           T == IF k.seen = {} THEN {} ELSE j1.seen
           j == [j1 EXCEPT !.seen = T]
<1>1. S \in SUBSET Warnings /\ k1 = [k EXCEPT !.seen = @ \cup {w}]
    BY DEF Good, Managers
<1>2. /\ Good(k1) /\ k1.unloaded = k.unloaded /\ Items(k1) = Items(k)
      /\ k1.suspended = k.suspended /\ k1.lost = k.lost
      /\ FreeSlots(k1) = FreeSlots(k) /\ Tracked(k1) = Tracked(k)
      /\ Evictable(k1, cmd) = Evictable(k, cmd)
    <2> HIDE DEF S
    <2> QED BY <1>1, SeenChanged
<1>3. FixWarnings(k, cmd, w, context) = j
    BY <1>1 DEF FixWarnings
<1> HIDE DEF k1
<1>4. /\ Kept(k1, j1, cmd)
      /\ w \in {"OBJECT_MEMORY", "MEMORY"} /\ Evictable(k1, cmd) # {} => FreeSlots(j1) # {}
    BY <1>2, FixKept
<1> HIDE DEF j1
<1>5. Good(j1) /\ T \in SUBSET Warnings
    <2>1. Good(j1)
        BY <1>2, <1>4, KeptIsGood
    <2>2. j1.seen \in SUBSET Warnings
        BY <2>1 DEF Good, Managers
    <2> QED BY <2>1, <2>2
<1>6. /\ Good(j) /\ j.seen = T /\ j.unloaded = j1.unloaded /\ Items(j) = Items(j1)
      /\ j.suspended = j1.suspended /\ j.lost = j1.lost
      /\ FreeSlots(j) = FreeSlots(j1) /\ Tracked(j) = Tracked(j1)
    <2> HIDE DEF T
    <2> QED BY <1>5, SeenChanged
<1> HIDE DEF j
<1>7. KeptObjects(k, j, cmd)
    BY <1>2, <1>4, <1>6 DEF Kept, KeptObjects, Good
<1>8. KeptSessions(k, j, cmd)
    BY <1>2, <1>4, <1>6 DEF Kept, KeptSessions, Good
<1>9. Kept(k, j, cmd)
    <2>1. j \in Managers /\ j.suspended = k.suspended /\ j.lost = k.lost
        BY <1>2, <1>4, <1>6 DEF Kept, Good
    <2> QED BY <1>6, <1>7, <1>8, <2>1 DEF Kept
<1> QED BY <1>2, <1>3, <1>4, <1>6, <1>9

\* The attempts to send a request end in an answer; if only memory for objects
\* was missing and one can be evicted, in success.
LEMMA SendFixingAnswers ==
    ASSUME NEW k, Good(k), NEW cmd, NEW context, Answers(context, cmd), NEW req, req.op \in Ops
    PROVE  /\ Answer(SendFixing(k, cmd, req, context), k, cmd, req)
           /\ (/\ k.seen = {}
               /\ TpmSend(k, cmd, req).rc # "ok" =>
                     /\ TpmSend(k, cmd, req).rc \in {"OBJECT_MEMORY", "MEMORY"}
                     /\ Evictable(k, cmd) # {}
               /\ \A j : Kept(k, j, cmd) /\ FreeSlots(j) # {} => TpmSend(j, cmd, req).rc = "ok")
              => SendFixing(k, cmd, req, context).rc = "ok"
<1> DEFINE Fixed(r) == FixWarnings(r.m, cmd, r.rc, context)
           Again(r) == IF Fixable(r.m, r.rc) THEN TpmSend(Fixed(r), cmd, req) ELSE r
           Last(r) == IF Fixable(r.m, r.rc) THEN [r EXCEPT !.m = Fixed(r)] ELSE r
           r1 == TpmSend(k, cmd, req)
           r2 == Again(r1)
           r3 == Again(r2)
<1>1. ASSUME NEW j, Kept(k, j, cmd)
      PROVE  Answer(TpmSend(j, cmd, req), k, cmd, req)
    <2> DEFINE r == TpmSend(j, cmd, req)
    <2>1. CASE r.rc = "ok"
        BY <1>1, <2>1 DEF Answer
    <2>2. CASE r.rc # "ok"
        <3>1. r = [m |-> j, rc |-> r.rc]
            BY <2>2, Refused
        <3> HIDE DEF r
        <3>2. r.m = j
            BY <3>1
        <3>3. Answer(r, k, cmd, req)
            BY <1>1, <2>2, <3>1, <3>2 DEF Answer
        <3> QED BY <3>3 DEF r
    <2> QED BY <2>1, <2>2
<1>2. ASSUME NEW r, Answer(r, k, cmd, req), Fixable(r.m, r.rc)
      PROVE  Kept(k, Fixed(r), cmd) /\ r.rc # "ok" /\ r = [m |-> r.m, rc |-> r.rc]
    <2>1. r.rc \in Warnings /\ r.rc # "ok"
        BY <1>2 DEF Fixable, Warnings
    <2>2. Kept(k, r.m, cmd) /\ Good(r.m) /\ r = [m |-> r.m, rc |-> r.rc]
        BY <1>2, <2>1, KeptIsGood DEF Answer
    <2> QED BY <2>1, <2>2, FixWarningsKept, KeptTrans
<1>3. ASSUME NEW r, Answer(r, k, cmd, req)
      PROVE  Answer(Again(r), k, cmd, req)
    BY <1>1, <1>2, <1>3
<1>4. ASSUME NEW r, Answer(r, k, cmd, req)
      PROVE  Answer(Last(r), k, cmd, req)
    <2>1. CASE Fixable(r.m, r.rc)
        <3>1. Kept(k, Fixed(r), cmd) /\ r.rc # "ok" /\ r = [m |-> r.m, rc |-> r.rc]
            BY <1>2, <1>4, <2>1
        <3> HIDE DEF Fixed
        <3>2. [r EXCEPT !.m = Fixed(r)] = [m |-> Fixed(r), rc |-> r.rc]
            BY <3>1
        <3>3. Last(r) = [m |-> Fixed(r), rc |-> r.rc]
            BY <2>1, <3>2
        <3> HIDE DEF Last
        <3> QED BY <3>1, <3>3 DEF Answer
    <2>2. CASE ~Fixable(r.m, r.rc)
        BY <1>4, <2>2
    <2> QED BY <2>1, <2>2
<1>5. SendFixing(k, cmd, req, context) = Last(r3)
    BY DEF SendFixing, Retry, FixOnly
<1>6. ASSUME k.seen = {},
             r1.rc # "ok" => r1.rc \in {"OBJECT_MEMORY", "MEMORY"} /\ Evictable(k, cmd) # {},
             \A j : Kept(k, j, cmd) /\ FreeSlots(j) # {} => TpmSend(j, cmd, req).rc = "ok"
      PROVE  Last(r3).rc = "ok"
    <2> HIDE DEF r1, Fixed
    <2>1. ASSUME NEW r, r.rc = "ok"
          PROVE  Again(r) = r /\ Last(r) = r
        BY <2>1 DEF Fixable, Warnings
    <2>2. CASE r1.rc = "ok"
        <3> HIDE DEF Again, Last
        <3> QED BY <2>1, <2>2
    <2>3. CASE r1.rc # "ok"
        <3>1. r1.m = k /\ r1.rc \in {"OBJECT_MEMORY", "MEMORY"} /\ Evictable(k, cmd) # {}
            BY <1>6, <2>3, Refused DEF r1
        <3>2. Fixable(r1.m, r1.rc) /\ r1.rc \in Warnings
            BY <1>6, <3>1 DEF Fixable, Warnings
        <3>3. Kept(k, Fixed(r1), cmd) /\ FreeSlots(Fixed(r1)) # {}
            BY <3>1, <3>2, FixWarningsKept DEF Fixed
        <3>4. r2.rc = "ok"
            BY <1>6, <3>2, <3>3
        <3> HIDE DEF r2, Again, Last
        <3> QED BY <2>1, <3>4
    <2> QED BY <2>2, <2>3
<1>7. Answer(r1, k, cmd, req)
    BY <1>1, KeptRefl
<1>8. r1 = TpmSend(k, cmd, req)
    OBVIOUS
<1> HIDE DEF Again, Last, r1
<1>9. Answer(Last(r3), k, cmd, req)
    BY <1>3, <1>4, <1>7
<1> QED BY <1>5, <1>6, <1>8, <1>9

\* Requests for sessions are answered at every depth of fixing, and so is
\* everything that is sent from outside.
LEMMA ContextsAnswer ==
    ASSUME NEW cmd
    PROVE  /\ Answers(InsideTwoFixes(cmd), cmd)
           /\ Answers(InsideFix(cmd), cmd)
           /\ Answers(OutsideFixes(cmd), cmd)
<1>1. \A req \in ContextRequests : req.op \in Ops
    BY DEF ContextRequests, Ops
<1>2. ASSUME NEW k \in Managers, NEW req \in ContextRequests, Good(k)
      PROVE  Answer(InsideTwoFixes(cmd)[<<k, req>>], k, cmd, req)
    <2> DEFINE r == TpmSend(k, cmd, req)
    <2>1. InsideTwoFixes(cmd)[<<k, req>>] = r
        BY DEF InsideTwoFixes
    <2>2. CASE r.rc = "ok"
        BY <1>2, <2>1, <2>2, KeptRefl DEF Answer
    <2>3. CASE r.rc # "ok"
        <3>1. r = [m |-> k, rc |-> r.rc]
            BY <1>1, <2>3, Refused
        <3> HIDE DEF r
        <3>2. r.m = k
            BY <3>1
        <3> QED BY <1>2, <2>1, <2>3, <3>1, <3>2, KeptRefl DEF Answer
    <2> QED BY <2>2, <2>3
<1>3. Answers(InsideTwoFixes(cmd), cmd)
    BY <1>2 DEF Answers
<1>4. ASSUME NEW k \in Managers, NEW req \in ContextRequests, Good(k)
      PROVE  Answer(InsideFix(cmd)[<<k, req>>], k, cmd, req)
    <2>1. InsideFix(cmd)[<<k, req>>] = SendFixing(k, cmd, req, InsideTwoFixes(cmd))
        BY DEF InsideFix
    <2> QED BY <1>1, <1>3, <1>4, <2>1, SendFixingAnswers
<1>5. Answers(InsideFix(cmd), cmd)
    BY <1>4 DEF Answers
<1>6. ASSUME NEW k \in Managers, NEW req \in ContextRequests, Good(k)
      PROVE  Answer(OutsideFixes(cmd)[<<k, req>>], k, cmd, req)
    <2>1. OutsideFixes(cmd)[<<k, req>>] = SendFixing(k, cmd, req, InsideFix(cmd))
        BY DEF OutsideFixes, Send
    <2> QED BY <1>1, <1>5, <1>6, <2>1, SendFixingAnswers
<1>7. Answers(OutsideFixes(cmd), cmd)
    BY <1>6 DEF Answers
<1> QED BY <1>3, <1>5, <1>7

-----------------------------------------------------------------------------
(***************************************************************************)
(* Away from the context gap.                                              *)
(***************************************************************************)

\* n more saves do not reach the gap.
Far(k, n) == \A h \in SavedSessions(k) : k.ses[h].age + n < MaxGap

\* The farther the better, and nothing is refused for the gap.
LEMMA FarIs ==
    ASSUME NEW k \in Managers, NEW n \in Nat
    PROVE  /\ Far(k, n + 1) => Far(k, n)
           /\ Far(k, n) => ~AtGap(k)
           /\ ~NearGap(k) => Far(k, 3)
<1>1. \A h \in SavedSessions(k) : k.ses[h].age \in Nat
    BY TpmAssumption DEF Managers, TpmSession, SavedSessions
<1>2. MaxGap \in Nat
    BY TpmAssumption
<1> QED BY <1>1, <1>2 DEF Far, AtGap, NearGap

\* It is a matter of the sessions in the TPM only.
LEMMA FarSame ==
    ASSUME NEW k, NEW j, j.ses = k.ses
    PROVE  /\ \A n : Far(j, n) <=> Far(k, n)
           /\ AtGap(j) <=> AtGap(k)
           /\ LoadedSessions(j) = LoadedSessions(k)
           /\ FreeHandles(j) = FreeHandles(k)
BY DEF Far, AtGap, SavedSessions, LoadedSessions, FreeHandles

\* One save brings the gap one save closer and makes room for a session.
LEMMA SavedFar ==
    ASSUME NEW k \in Managers, NEW j, NEW h \in LoadedSessions(k), j.ses = Saved(k.ses, h)
    PROVE  /\ \A n \in 0..2 : MaxGap > 3 /\ Far(k, n + 1) => Far(j, n)
           /\ LoadedSessions(j) = LoadedSessions(k) \ {h}
           /\ FreeHandles(j) = FreeHandles(k)
<1>1. k.ses \in [Handles -> TpmSession] /\ h \in Handles /\ k.ses[h].sid # None /\ MaxGap \in Nat
    BY TpmAssumption DEF Managers, LoadedSessions
<1>2. ASSUME NEW g \in Handles
      PROVE  /\ k.ses[g].age \in Nat
             /\ j.ses[g].sid = k.ses[g].sid
             /\ g = h => ~j.ses[g].loaded /\ j.ses[g].age = 0
             /\ g # h => j.ses[g].loaded = k.ses[g].loaded
             /\ g # h /\ k.ses[g].sid # None /\ ~k.ses[g].loaded => j.ses[g].age = k.ses[g].age + 1
    <2>1. k.ses[g] \in TpmSession
        BY <1>1
    <2>2. CASE g = h
        <3>1. j.ses[g] = [k.ses[g] EXCEPT !.loaded = FALSE, !.age = 0]
            BY <2>2 DEF Saved
        <3> QED BY <2>1, <2>2, <3>1 DEF TpmSession
    <2>3. CASE g # h /\ k.ses[g].sid # None /\ ~k.ses[g].loaded
        <3>1. j.ses[g] = [k.ses[g] EXCEPT !.age = k.ses[g].age + 1]
            BY <2>1, <2>3 DEF Saved, TpmSession
        <3> QED BY <2>1, <2>3, <3>1 DEF TpmSession
    <2>4. CASE g # h /\ ~(k.ses[g].sid # None /\ ~k.ses[g].loaded)
        <3>1. j.ses[g] = k.ses[g]
            BY <2>4 DEF Saved
        <3> QED BY <2>1, <2>4, <3>1 DEF TpmSession
    <2> QED BY <2>2, <2>3, <2>4
<1>3. ASSUME NEW n \in 0..2, MaxGap > 3, Far(k, n + 1), NEW g \in SavedSessions(j)
      PROVE  j.ses[g].age + n < MaxGap
    <2>1. g \in Handles /\ j.ses[g].sid # None /\ ~j.ses[g].loaded
        BY DEF SavedSessions
    <2>2. CASE g = h
        BY <1>1, <1>2, <1>3, <2>1, <2>2
    <2>3. CASE g # h
        <3>1. k.ses[g].sid # None /\ ~k.ses[g].loaded /\ j.ses[g].age = k.ses[g].age + 1
            BY <1>2, <2>1, <2>3
        <3>2. k.ses[g].age + (n + 1) < MaxGap
            BY <1>3, <2>1, <3>1 DEF Far, SavedSessions
        <3> QED BY <1>1, <1>2, <1>3, <2>1, <3>1, <3>2
    <2> QED BY <2>2, <2>3
<1>4. LoadedSessions(j) = LoadedSessions(k) \ {h}
    BY <1>2 DEF LoadedSessions
<1>5. FreeHandles(j) = FreeHandles(k)
    BY <1>2 DEF FreeHandles
<1> QED BY <1>3, <1>4, <1>5 DEF Far

\* What the TPM does at once needs no fix.
LEMMA FirstAttempt ==
    ASSUME NEW k, NEW cmd, NEW req, NEW context, TpmSend(k, cmd, req).rc = "ok"
    PROVE  SendFixing(k, cmd, req, context) = TpmSend(k, cmd, req)
<1>1. \A j : ~Fixable(j, "ok")
    BY DEF Fixable, Warnings
<1> QED BY <1>1 DEF SendFixing, Retry, FixOnly

\* One fix is enough if what the TPM refused succeeds after it.
LEMMA SecondAttempt ==
    ASSUME NEW k, k.seen = {}, NEW cmd, NEW context, NEW req, req.op \in Ops,
           NEW w \in Warnings, TpmSend(k, cmd, req).rc \in {"ok", w},
           TpmSend(k, cmd, req).rc = w =>
               TpmSend(FixWarnings(k, cmd, w, context), cmd, req).rc = "ok"
    PROVE  \E j \in {k, FixWarnings(k, cmd, w, context)} :
               /\ TpmSend(j, cmd, req).rc = "ok"
               /\ SendFixing(k, cmd, req, context) = TpmSend(j, cmd, req)
<1> DEFINE Fixed(r) == FixWarnings(r.m, cmd, r.rc, context)
           Again(r) == IF Fixable(r.m, r.rc) THEN TpmSend(Fixed(r), cmd, req) ELSE r
           Last(r) == IF Fixable(r.m, r.rc) THEN [r EXCEPT !.m = Fixed(r)] ELSE r
           r1 == TpmSend(k, cmd, req)
           j == FixWarnings(k, cmd, w, context)
           r2 == TpmSend(j, cmd, req)
<1>1. CASE r1.rc = "ok"
    BY <1>1, FirstAttempt
<1>2. CASE r1.rc # "ok"
    <2>1. r1.rc = w /\ r1.m = k
        BY <1>2, Refused
    <2>2. Fixable(r1.m, r1.rc)
        BY <2>1 DEF Fixable
    <2>3. r2.rc = "ok"
        BY <2>1
    <2>4. SendFixing(k, cmd, req, context) = Last(Again(Again(r1)))
        BY DEF SendFixing, Retry, FixOnly
    <2> HIDE DEF r1
    <2>5. Again(r1) = r2
        BY <2>1, <2>2
    <2>6. \A x : ~Fixable(x, "ok")
        BY DEF Fixable, Warnings
    <2> HIDE DEF r2
    <2>7. Again(r2) = r2 /\ Last(r2) = r2
        BY <2>3, <2>6
    <2> HIDE DEF Again, Last
    <2> QED BY <2>3, <2>4, <2>5, <2>7 DEF r2
<1> QED BY <1>1, <1>2

\* Away from the gap a session is saved at once.
LEMMA SavesAtOnce ==
    ASSUME NEW k, Good(k), NEW cmd, NEW key \in Tracked(k), k.sessions[key].loaded, ~AtGap(k)
    PROVE  LET r == SaveSession(k, key, InsideFix(cmd))
           IN  /\ r.rc = "ok" /\ r.m.room = k.room
               /\ key[1] \in LoadedSessions(k) /\ r.m.ses = Saved(k.ses, key[1])
<1> DEFINE req == [op |-> "saveSession", key |-> key]
           h == key[1]
           l == [k EXCEPT !.ses = Saved(k.ses, h)]
           r == TpmSend(k, cmd, req)
<1>1. k \in Managers /\ req \in ContextRequests /\ h \in Handles
    BY DEF Good, ContextRequests, Tracked, SessionKeys
<1>2. h \in LoadedSessions(k)
    BY <1>1 DEF Good, Followed, LoadedSessions
<1>3. r = [m |-> l, rc |-> "ok"]
    <2>1. r = TpmSaveSession(k, h)
        BY DEF TpmSend
    <2> HIDE DEF r
    <2> QED BY <1>1, <1>2, <2>1 DEF TpmSaveSession, Managers
<1>4. InsideFix(cmd)[<<k, req>>] = r
    <2>1. InsideFix(cmd)[<<k, req>>] = SendFixing(k, cmd, req, InsideTwoFixes(cmd))
        BY <1>1 DEF InsideFix
    <2>2. r.rc = "ok"
        BY <1>3
    <2> HIDE DEF req
    <2> QED BY <2>1, <2>2, FirstAttempt
<1>5. SaveSession(k, key, InsideFix(cmd)) = SavedAs(r, key)
    BY <1>4 DEF SaveSession
<1> HIDE DEF r
<1>6. l.room = k.room /\ l.ses = Saved(k.ses, h) /\ l.sessions = k.sessions
    BY <1>1 DEF Managers
<1>7. l = [l EXCEPT !.sessions = l.sessions]
    BY <1>1 DEF Managers
<1>8. DOMAIN l = DOMAIN k /\ "room" \in DOMAIN l /\ "ses" \in DOMAIN l
    BY <1>1 DEF Managers
<1> DEFINE i == [l.sessions[key] EXCEPT !.loaded = FALSE, !.ctx = l.ses[h].sid]
           n == [l EXCEPT !.sessions[key] = i]
<1> HIDE DEF l
<1>9. SavedAs(r, key) = [m |-> n, rc |-> "ok"]
    BY <1>3 DEF SavedAs
<1> HIDE DEF i
<1>10. n.room = l.room /\ n.ses = l.ses
    BY <1>8
<1> HIDE DEF n
<1> QED BY <1>2, <1>5, <1>6, <1>9, <1>10

\* So is one of those that are loaded and not named, if there are any, to make room.
LEMMA EvictsOne ==
    ASSUME NEW k, Good(k), NEW cmd, ~AtGap(k)
    PROVE  LET j == EvictSession(k, cmd, InsideFix(cmd))
           IN  /\ j.room = k.room
               /\ Candidates(k, cmd) = {} => j = k
               /\ Candidates(k, cmd) # {} => \E h \in LoadedSessions(k) : j.ses = Saved(k.ses, h)
<1>1. CASE Candidates(k, cmd) = {}
    BY <1>1 DEF EvictSession
<1>2. CASE Candidates(k, cmd) # {}
    <2> DEFINE key == SessionToEvict(k, cmd)
               r == SaveSession(k, key, InsideFix(cmd))
    <2>1. key \in Tracked(k) /\ k.sessions[key].loaded
        BY <1>2, SessionToEvictIs DEF Candidates
    <2>2. EvictSession(k, cmd, InsideFix(cmd)) = IF r.rc = "ok" THEN r.m ELSE FlushSession(r.m, cmd)
        BY <1>2 DEF EvictSession
    <2> HIDE DEF key
    <2>3. /\ r.rc = "ok" /\ r.m.room = k.room
          /\ key[1] \in LoadedSessions(k) /\ r.m.ses = Saved(k.ses, key[1])
        BY <2>1, SavesAtOnce
    <2> HIDE DEF r
    <2> QED BY <1>2, <2>2, <2>3
<1> QED BY <1>1, <1>2

\* Fixing a shortage saves no more than one session, and for want of room for
\* sessions it does save one if any may be.
LEMMA MemoryFixed ==
    ASSUME NEW k, Good(k), NEW cmd, ~AtGap(k),
           NEW w \in {"OBJECT_MEMORY", "SESSION_MEMORY", "MEMORY"}
    PROVE  LET j == FixWarnings(k, cmd, w, InsideFix(cmd))
           IN  /\ j.room = k.room
               /\ j.ses = k.ses \/ \E h \in LoadedSessions(k) : j.ses = Saved(k.ses, h)
               /\ w # "OBJECT_MEMORY" /\ Candidates(k, cmd) # {} =>
                     \E h \in LoadedSessions(k) : j.ses = Saved(k.ses, h)
<1> DEFINE S == k.seen \cup {w}
           k1 == [k EXCEPT !.seen = S]
           j1 == Fix(k1, cmd, w, InsideFix(cmd))
           T == IF k.seen = {} THEN {} ELSE j1.seen
           j == [j1 EXCEPT !.seen = T]
           One(x) == /\ x.room = k.room
                     /\ x.ses = k.ses \/ \E h \in LoadedSessions(k) : x.ses = Saved(k.ses, h)
                     /\ w # "OBJECT_MEMORY" /\ Candidates(k, cmd) # {} =>
                           \E h \in LoadedSessions(k) : x.ses = Saved(k.ses, h)
<1>1. w \in Warnings /\ S \in SUBSET Warnings /\ k1 = [k EXCEPT !.seen = @ \cup {w}]
    BY DEF Good, Managers, Warnings
<1>2. Good(k1) /\ SameSessions(k, k1)
    <2> HIDE DEF S
    <2> QED BY <1>1, SeenChanged
<1>3. FixWarnings(k, cmd, w, InsideFix(cmd)) = j
    BY <1>1 DEF FixWarnings
<1> HIDE DEF k1, S
<1>4. ASSUME NEW x, Good(x), SameSessions(k, x)
      PROVE  One(EvictSession(x, cmd, InsideFix(cmd)))
    <2>1. ~AtGap(x) /\ LoadedSessions(x) = LoadedSessions(k)
        BY <1>4, FarSame DEF SameSessions
    <2>2. Candidates(x, cmd) = Candidates(k, cmd)
        BY <1>4 DEF SameSessions, Candidates, Tracked
    <2> DEFINE y == EvictSession(x, cmd, InsideFix(cmd))
    <2>3. /\ y.room = x.room
          /\ Candidates(x, cmd) = {} => y = x
          /\ Candidates(x, cmd) # {} => \E h \in LoadedSessions(x) : y.ses = Saved(x.ses, h)
        BY <1>4, <2>1, EvictsOne
    <2> HIDE DEF y
    <2> QED BY <1>4, <2>1, <2>2, <2>3 DEF SameSessions, y
<1>5. One(j1)
    <2>1. CASE w = "OBJECT_MEMORY"
        <3>1. j1 = EvictOneObject(k1, cmd)
            BY <2>1 DEF Fix
        <3> HIDE DEF j1
        <3> QED BY <1>2, <2>1, <3>1, EvictOneObjectKept DEF SameSessions
    <2>2. CASE w = "SESSION_MEMORY"
        <3>1. j1 = EvictSession(k1, cmd, InsideFix(cmd))
            BY <2>2 DEF Fix
        <3> HIDE DEF j1, One
        <3> QED BY <1>2, <1>4, <3>1
    <2>3. CASE w = "MEMORY"
        <3> DEFINE x == EvictObjects(k1, cmd)
        <3>1. j1 = EvictSession(x, cmd, InsideFix(cmd))
            BY <2>3 DEF Fix
        <3>2. Kept(k1, x, cmd) /\ SameSessions(k1, x)
            BY <1>2, EvictObjectsKept
        <3> HIDE DEF x
        <3>3. Good(x) /\ SameSessions(k, x)
            BY <1>2, <3>2, KeptIsGood DEF SameSessions
        <3> HIDE DEF j1, One
        <3> QED BY <1>4, <3>1, <3>3
    <2> QED BY <2>1, <2>2, <2>3
<1>6. j.room = j1.room /\ j.ses = j1.ses
    <2>1. j1 \in Managers
        BY <1>1, <1>2, ContextsAnswer, FixKept DEF Kept
    <2> HIDE DEF j1
    <2> QED BY <2>1 DEF Managers
<1> HIDE DEF j, j1
<1> QED BY <1>3, <1>5, <1>6

\* So no fix of a shortage goes more than one save closer to the gap.
LEMMA FixFar ==
    ASSUME NEW k, Good(k), NEW cmd, NEW n \in 0..2, MaxGap > 3, Far(k, n + 1),
           NEW w \in {"OBJECT_MEMORY", "SESSION_MEMORY", "MEMORY"}
    PROVE  Far(FixWarnings(k, cmd, w, InsideFix(cmd)), n)
<1> DEFINE j == FixWarnings(k, cmd, w, InsideFix(cmd))
<1>1. k \in Managers /\ n \in Nat /\ n + 1 \in Nat
    BY DEF Good
<1>2. Far(k, n) /\ ~AtGap(k)
    BY <1>1, FarIs
<1>3. j.ses = k.ses \/ \E h \in LoadedSessions(k) : j.ses = Saved(k.ses, h)
    BY <1>2, MemoryFixed
<1> HIDE DEF j
<1>4. CASE j.ses = k.ses
    BY <1>2, <1>4, FarSame DEF j
<1>5. CASE \E h \in LoadedSessions(k) : j.ses = Saved(k.ses, h)
    BY <1>1, <1>5, SavedFar DEF j
<1> QED BY <1>3, <1>4, <1>5

\* A loop over no session does nothing.
LEMMA ForEachOfNone ==
    ASSUME NEW k \in Managers, NEW step
    PROVE  ForEach(k, {}, step) = k
<1> DEFINE At(c) == {key \in {} : k.sessions[key].created = c}
           Body(x, c) == IF At(c) = {} THEN x ELSE step[<<x, CHOOSE key \in At(c) : TRUE>>]
           turn == [x \in Managers \X (1..MaxSessions) |-> Body(x[1], x[2])]
           I == [c \in 0..MaxSessions |-> {k}]
<1>1. MaxSessions \in Nat
    BY TpmAssumption
<1>2. \A c \in 1..MaxSessions : turn[<<k, c>>] = k
    <2> TAKE c \in 1..MaxSessions
    <2>1. Body(k, c) = k
        OBVIOUS
    <2> HIDE DEF Body
    <2> QED BY <2>1
<1>3. ForEach(k, {}, step) = Loop(turn, k, MaxSessions)
    BY DEF ForEach
<1> HIDE DEF turn
<1>4. k \in I[0] /\ \A c \in 1..MaxSessions : \A x \in I[c - 1] : turn[<<x, c>>] \in I[c]
    BY <1>1, <1>2
<1>5. I[MaxSessions] = {k}
    BY <1>1
<1> HIDE DEF I
<1>6. Loop(turn, k, MaxSessions) \in I[MaxSessions]
    BY <1>1, <1>4, LoopKeeps
<1> QED BY <1>3, <1>5, <1>6

\* A loaded session that the command does not name can make room.
LEMMA SomeCandidate ==
    ASSUME NEW k, Good(k), NEW cmd, NEW h \in LoadedSessions(k),
           \A key \in Elements(cmd.sessions) : key[1] # h
    PROVE  Candidates(k, cmd) # {}
<1>1. PICK key \in Tracked(k) : key[1] = h
    BY DEF Good, Followed, LoadedSessions
<1>2. k.sessions[key].loaded
    BY <1>1 DEF Good, Followed, LoadedSessions
<1>3. key \in Candidates(k, cmd)
    BY <1>1, <1>2 DEF Candidates
<1> QED BY <1>3

\* Where the TPM holds all the sessions it can, one fix makes room for another.
LEMMA RoomIsMade ==
    ASSUME NEW k, Good(k), NEW cmd, MaxGap > 3, Far(k, 1), NEW w \in {"SESSION_MEMORY", "MEMORY"},
           Cardinality(LoadedSessions(k)) >= k.room,
           \A key \in Elements(cmd.sessions) : key[1] \notin LoadedSessions(k)
    PROVE  LET j == FixWarnings(k, cmd, w, InsideFix(cmd))
           IN  /\ Kept(k, j, cmd) /\ ~AtGap(j)
               /\ Cardinality(LoadedSessions(j)) < j.room
               /\ LoadedSessions(j) \subseteq LoadedSessions(k)
               /\ FreeHandles(j) = FreeHandles(k)
<1> DEFINE j == FixWarnings(k, cmd, w, InsideFix(cmd))
<1>1. k \in Managers /\ k.room \in Nat /\ k.room >= 1 /\ Fits(k) /\ w \in Warnings
    BY TpmAssumption DEF Good, Managers, Followed, Warnings
<1>2. LoadedSessions(k) # {}
    BY <1>1, FS_EmptySet
<1>3. Candidates(k, cmd) # {}
    BY <1>2, SomeCandidate
<1>4. ~AtGap(k)
    BY <1>1, FarIs
<1>5. j.room = k.room /\ \E h \in LoadedSessions(k) : j.ses = Saved(k.ses, h)
    BY <1>3, <1>4, MemoryFixed
<1>6. Kept(k, j, cmd)
    BY <1>1, ContextsAnswer, FixWarningsKept
<1> HIDE DEF j
<1>7. PICK h \in LoadedSessions(k) : j.ses = Saved(k.ses, h)
    BY <1>5
<1>8. /\ Far(j, 0) /\ LoadedSessions(j) = LoadedSessions(k) \ {h}
      /\ FreeHandles(j) = FreeHandles(k)
    <2>1. 0 \in 0..2 /\ 0 + 1 = 1
        OBVIOUS
    <2>2. /\ \A n \in 0..2 : MaxGap > 3 /\ Far(k, n + 1) => Far(j, n)
          /\ LoadedSessions(j) = LoadedSessions(k) \ {h}
          /\ FreeHandles(j) = FreeHandles(k)
        BY <1>1, <1>7, SavedFar
    <2> QED BY <2>1, <2>2
<1>9. ~AtGap(j)
    BY <1>6, <1>8, FarIs DEF Kept
<1>10. Cardinality(LoadedSessions(j)) = Cardinality(LoadedSessions(k)) - 1
    BY <1>8, LoadedFinite, FS_RemoveElement
<1>11. Cardinality(LoadedSessions(j)) < j.room
    BY <1>1, <1>5, <1>10, LoadedFinite DEF Fits
<1> QED BY <1>6, <1>8, <1>9, <1>11 DEF j

-----------------------------------------------------------------------------
(***************************************************************************)
(* Loading what a command names.                                           *)
(***************************************************************************)

Commands ==
    [kind : {"create", "use", "update", "readpublic", "start"}, sender : Senders,
     handles : Seq(Virtual), sessions : Seq(SessionKeys),
     continue : BOOLEAN, general : BOOLEAN, new : MaybeContent]

\* What the steps of a command may turn k into.
Near(k, j, cmd) ==
    /\ Good(j) /\ j.seen = {}
    /\ j.suspended = k.suspended /\ j.lost = k.lost
    /\ k.suspended /\ Items(k) = {} => Items(j) = {}
    /\ \A e \in Items(k) : e.v \in Named(cmd) => e \in Items(j)
    /\ \A key \in Tracked(k) : key \in Elements(cmd.sessions) => key \in Tracked(j)

InSlot(k, v, t) == \E e \in Items(k) : e.v = v /\ e.info.tpm = t

\* The steps may follow each other, and fixes are among them.
LEMMA NearTrans ==
    ASSUME NEW cmd, NEW k, NEW j, Near(k, j, cmd)
    PROVE  \A l : Near(j, l, cmd) \/ Kept(j, l, cmd) => Near(k, l, cmd)
<1> SUFFICES ASSUME NEW l, Near(j, l, cmd) \/ Kept(j, l, cmd)
             PROVE  Near(k, l, cmd)
    OBVIOUS
<1>1. CASE Near(j, l, cmd)
    BY <1>1 DEF Near
<1>2. CASE Kept(j, l, cmd)
    <2>1. Good(l)
        BY <1>2, KeptIsGood DEF Near
    <2> QED BY <1>2, <2>1 DEF Near, Kept, KeptObjects, KeptSessions
<1> QED BY <1>1, <1>2

\* An object is loaded from its context into a free slot.
LEMMA ObjectLoaded ==
    ASSUME NEW k, Good(k), NEW v \in Virtual, k.unloaded[v] # NoInfo,
           NEW t \in FreeSlots(k)
    PROVE  LET e == [v |-> v, info |-> [k.unloaded[v] EXCEPT !.tpm = t]]
               j == [k EXCEPT !.objs[t] = k.unloaded[v].ctx, !.t2v[t] = v,
                              !.loaded = Append(@, e), !.unloaded[v] = NoInfo]
           IN  /\ Good(j) /\ Items(j) = Items(k) \cup {e} /\ Tracked(j) = Tracked(k)
               /\ j.seen = k.seen /\ j.suspended = k.suspended /\ j.lost = k.lost
<1> DEFINE ctx == k.unloaded[v].ctx
           info == [k.unloaded[v] EXCEPT !.tpm = t]
           e == [v |-> v, info |-> info]
           j == [k EXCEPT !.objs[t] = ctx, !.t2v[t] = v, !.loaded = Append(@, e), !.unloaded[v] = NoInfo]
<1>1. /\ k \in Managers /\ t \in Slots /\ k.objs[t] = NoContent
      /\ k.objs \in [Slots -> MaybeContent] /\ k.t2v \in [Slots -> Virtual \cup {None}]
      /\ k.unloaded \in [Virtual -> HandleInfo \cup {NoInfo}] /\ k.loaded \in Seq(ObjectInfo)
      /\ Slotted(k, given) /\ Handed(k, given)
    BY DEF Good, Managers, FreeSlots
<1>2. k.unloaded[v] \in HandleInfo /\ ctx \in MaybeContent /\ CopyOf(ctx, given[v])
    <2>1. k.unloaded[v] \in HandleInfo
        BY <1>1
    <2>2. ctx \in MaybeContent
        BY <2>1 DEF HandleInfo
    <2> QED BY <1>1, <2>1, <2>2 DEF Handed
<1>3. info \in HandleInfo /\ info.tpm = t /\ info.ctx = ctx
    BY <1>1, <1>2 DEF HandleInfo
<1> HIDE DEF info
<1>4. e \in ObjectInfo /\ e.v = v /\ e.info = info
    BY <1>3 DEF ObjectInfo
<1> HIDE DEF e, ctx
<1>5. \A x \in Items(k) : x.v # v /\ x.info.tpm # t /\ x.v \in Virtual /\ x.info.tpm \in Slots
    BY <1>1, ItemsTyped DEF Slotted, CopyOf
<1>6. /\ Append(k.loaded, e) \in Seq(ObjectInfo) /\ UniqueV(Append(k.loaded, e))
      /\ Elements(Append(k.loaded, e)) = Items(k) \cup {e}
    BY <1>1, <1>4, <1>5, AppendIs DEF Slotted, Items
<1>7. /\ j \in Managers
      /\ j.objs = [k.objs EXCEPT ![t] = ctx]
      /\ j.t2v = [k.t2v EXCEPT ![t] = v]
      /\ j.unloaded = [k.unloaded EXCEPT ![v] = NoInfo]
      /\ j.loaded = Append(k.loaded, e)
      /\ j.cache = k.cache /\ j.suspended = k.suspended /\ j.lost = k.lost
      /\ j.seen = k.seen /\ j.room = k.room /\ j.ses = k.ses /\ j.sessions = k.sessions /\ j.lru = k.lru
    <2>1. j = [k EXCEPT !.objs = [k.objs EXCEPT ![t] = ctx],
                        !.t2v = [k.t2v EXCEPT ![t] = v],
                        !.unloaded = [k.unloaded EXCEPT ![v] = NoInfo],
                        !.loaded = Append(k.loaded, e)]
        BY <1>1 DEF Managers
    <2>2. /\ [k.objs EXCEPT ![t] = ctx] \in [Slots -> MaybeContent]
          /\ [k.t2v EXCEPT ![t] = v] \in [Slots -> Virtual \cup {None}]
          /\ [k.unloaded EXCEPT ![v] = NoInfo] \in [Virtual -> HandleInfo \cup {NoInfo}]
        BY <1>1, <1>2
    <2> HIDE DEF j
    <2> QED BY <1>1, <1>6, <2>1, <2>2 DEF Managers
<1>8. j = [k EXCEPT !.objs[t] = k.unloaded[v].ctx, !.t2v[t] = v,
                    !.loaded = Append(@, [v |-> v, info |-> [k.unloaded[v] EXCEPT !.tpm = t]]),
                    !.unloaded[v] = NoInfo]
    BY DEF ctx, e, info
<1> HIDE DEF j
<1>9. Items(j) = Items(k) \cup {e}
    BY <1>6, <1>7 DEF Items
<1>10. Slotted(j, given)
    <2>1. ASSUME NEW x \in Items(j)
          PROVE  /\ j.t2v[x.info.tpm] = x.v
                 /\ j.unloaded[x.v] = NoInfo
                 /\ CopyOf(j.objs[x.info.tpm], given[x.v])
                 /\ x.info.ctx # NoContent => CopyOf(x.info.ctx, given[x.v])
        <3>1. CASE x = e
            BY <1>1, <1>2, <1>3, <1>4, <1>7, <3>1
        <3>2. CASE x \in Items(k)
            <4>1. /\ j.t2v[x.info.tpm] = k.t2v[x.info.tpm] /\ j.unloaded[x.v] = k.unloaded[x.v]
                  /\ j.objs[x.info.tpm] = k.objs[x.info.tpm]
                BY <1>1, <1>5, <1>7, <3>2
            <4> QED BY <1>1, <3>2, <4>1 DEF Slotted
        <3> QED BY <1>9, <3>1, <3>2
    <2>2. \A s \in Slots : j.t2v[s] # None => \E x \in Items(j) : x.info.tpm = s
        BY <1>1, <1>3, <1>4, <1>7, <1>9 DEF Slotted
    <2>3. v # None
        BY DEF Virtual, None
    <2>4. \A s \in Slots : j.objs[s] # NoContent => j.t2v[s] # None
        BY <1>1, <1>7, <2>3 DEF Slotted
    <2> QED BY <1>6, <1>7, <2>1, <2>2, <2>4 DEF Slotted
<1>11. Handed(j, given)
    <2>1. \A x \in Virtual : j.unloaded[x] # NoInfo => CopyOf(j.unloaded[x].ctx, given[x])
        BY <1>1, <1>7 DEF Handed
    <2>2. \A x \in Virtual : given[x] # NoContent
                               <=> (j.unloaded[x] # NoInfo \/ \E y \in Items(j) : y.v = x)
        BY <1>1, <1>4, <1>7, <1>9 DEF Handed
    <2> QED BY <1>1, <1>7, <2>1, <2>2 DEF Handed
<1>12. Tracked(j) = Tracked(k)
    BY <1>7 DEF Tracked
<1>13. Ordered(j) /\ Followed(j, held)
    BY <1>7, <1>12 DEF Good, Ordered, Followed, Fits, LoadedSessions
<1>14. Good(j)
    BY <1>7, <1>10, <1>11, <1>13 DEF Good
<1> QED BY <1>7, <1>8, <1>9, <1>12, <1>14 DEF e, info, ctx

\* A TPM without a free slot holds an object that is not named: it has two slots
\* or more, and of two handles named one does not take a slot yet.
LEMMA SomeEvictable ==
    ASSUME NEW k, Good(k), FreeSlots(k) = {}, NEW cmd \in Commands,
           \/ Len(cmd.handles) <= 1
           \/ Len(cmd.handles) <= 2 /\ \E v \in Named(cmd) : \A e \in Items(k) : e.v # v
    PROVE  Evictable(k, cmd) # {}
<1>1. /\ k \in Managers /\ Slotted(k, given) /\ cmd.handles \in Seq(Virtual)
      /\ k.t2v \in [Slots -> Virtual \cup {None}]
    BY DEF Good, Commands, Managers
<1>2. 1 \in Slots /\ 2 \in Slots
    BY TpmAssumption DEF Slots
<1>3. \A t \in Slots : \E e \in Items(k) : e.info.tpm = t
    BY <1>1 DEF Slotted, FreeSlots
<1>4. PICK a \in Items(k) : a.info.tpm = 1
    BY <1>2, <1>3
<1>5. PICK b \in Items(k) : b.info.tpm = 2
    BY <1>2, <1>3
<1>6. a.v # b.v
    <2>1. a # b
        BY <1>4, <1>5
    <2>2. \A i, j \in DOMAIN k.loaded : k.loaded[i].v = k.loaded[j].v => i = j
        BY <1>1 DEF Slotted, UniqueV
    <2> QED BY <2>1, <2>2 DEF Items, Elements
<1>7. a.v \notin Named(cmd) \/ b.v \notin Named(cmd)
    <2> SUFFICES ASSUME a.v \in Named(cmd), b.v \in Named(cmd)
                 PROVE  FALSE
        OBVIOUS
    <2>1. PICK p \in DOMAIN cmd.handles : cmd.handles[p] = a.v
        BY DEF Named, Elements
    <2>2. PICK q \in DOMAIN cmd.handles : cmd.handles[q] = b.v
        BY DEF Named, Elements
    <2>3. p # q /\ DOMAIN cmd.handles = 1..Len(cmd.handles)
        BY <1>1, <1>6, <2>1, <2>2
    <2>4. Len(cmd.handles) \in Nat
        BY <1>1
    <2>5. PICK v \in Named(cmd) : \A e \in Items(k) : e.v # v
        BY <2>1, <2>2, <2>3, <2>4
    <2>6. PICK o \in DOMAIN cmd.handles : cmd.handles[o] = v
        BY <2>5 DEF Named, Elements
    <2>7. o # p /\ o # q
        BY <2>1, <2>2, <2>5, <2>6
    <2> QED BY <2>3, <2>4, <2>7
<1>8. \A e \in Items(k) : e.v \notin Named(cmd) => Evictable(k, cmd) # {}
    BY DEF Items, Elements, Evictable, Named
<1> QED BY <1>7, <1>8

\* Loading an object needs a free slot.
LEMMA LoadObjectNeedsSlot ==
    ASSUME NEW k, NEW ctx, NEW general, ctx # NoContent
    PROVE  /\ FreeSlots(k) = {} =>
                TpmLoadObject(k, ctx, general) = [m |-> k, rc |-> Short("OBJECT_MEMORY", general)]
           /\ FreeSlots(k) # {} =>
                TpmLoadObject(k, ctx, general) = [m |-> [k EXCEPT !.objs[Least(FreeSlots(k))] = ctx],
                                                  rc |-> "ok", slot |-> Least(FreeSlots(k))]
BY DEF TpmLoadObject

\* ProcessInputHandle() finds or loads what the client holds a handle of.
LEMMA ProcessInputHandleIs ==
    ASSUME NEW k, Good(k), k.seen = {}, ~k.suspended,
           NEW cmd \in Commands, Len(cmd.handles) <= 2,
           NEW v \in Virtual, v \in Named(cmd), given[v] # NoContent
    PROVE  LET r == ProcessInputHandle(k, cmd, v)
           IN  /\ r.rc = "ok" /\ Near(k, r.m, cmd) /\ InSlot(r.m, v, r.slot)
               /\ \A n \in 0..2 : MaxGap > 3 /\ Far(k, n + 1) => Far(r.m, n)
<1>1. Near(k, k, cmd)
    BY DEF Near
<1>2. CASE IsLoaded(k, v)
    <2> DEFINE i == Least(IndexOf(k, v))
    <2>1. i \in IndexOf(k, v)
        <3>1. IndexOf(k, v) \in SUBSET Nat /\ IndexOf(k, v) # {}
            <4>1. k.loaded \in Seq(ObjectInfo)
                BY DEF Good, Managers
            <4> QED BY <1>2, <4>1 DEF IndexOf, IsLoaded
        <3> QED BY <3>1, LeastIs
    <2>2. k.loaded[i] \in Items(k) /\ k.loaded[i].v = v
        BY <2>1 DEF IndexOf, Items, Elements
    <2>3. ProcessInputHandle(k, cmd, v) = [m |-> k, rc |-> "ok", slot |-> k.loaded[i].info.tpm]
        BY <1>2 DEF ProcessInputHandle, InfoOf
    <2> HIDE DEF i
    <2>4. InSlot(k, v, k.loaded[i].info.tpm)
        BY <2>2 DEF InSlot
    <2>5. \A n \in 0..2 : Far(k, n + 1) => Far(k, n)
        BY FarIs DEF Good
    <2> QED BY <1>1, <2>3, <2>4, <2>5
<1>3. CASE ~IsLoaded(k, v)
    <2> DEFINE req == [op |-> "loadObject", v |-> v]
               r == Send(k, cmd, req)
    <2>1. \A e \in Items(k) : e.v # v
        BY <1>3 DEF IsLoaded, IndexOf, Items, Elements
    <2>2. k.unloaded[v] # NoInfo /\ CopyOf(k.unloaded[v].ctx, given[v])
        BY <2>1 DEF Good, Handed
    <2>3. ASSUME NEW j
          PROVE  TpmSend(j, cmd, req) = TpmLoadObject(j, j.unloaded[v].ctx, cmd.general)
        BY DEF TpmSend
    <2>4. ASSUME NEW j, Kept(k, j, cmd)
          PROVE  j.unloaded[v] = k.unloaded[v] /\ j.unloaded[v].ctx # NoContent
        BY <2>2, <2>4 DEF Kept, KeptObjects, CopyOf
    <2>5. \A j : Kept(k, j, cmd) /\ FreeSlots(j) # {} => TpmSend(j, cmd, req).rc = "ok"
        <3> SUFFICES ASSUME NEW j, Kept(k, j, cmd), FreeSlots(j) # {}
                     PROVE  TpmSend(j, cmd, req).rc = "ok"
            OBVIOUS
        <3> HIDE DEF req
        <3> QED BY <2>3, <2>4, LoadObjectNeedsSlot
    <2>6. TpmSend(k, cmd, req).rc # "ok" =>
                /\ TpmSend(k, cmd, req).rc = Short("OBJECT_MEMORY", cmd.general)
                /\ Evictable(k, cmd) # {}
        <3>1. TpmSend(k, cmd, req).rc # "ok" =>
                FreeSlots(k) = {} /\ TpmSend(k, cmd, req).rc = Short("OBJECT_MEMORY", cmd.general)
            <4>1. TpmSend(k, cmd, req) = TpmLoadObject(k, k.unloaded[v].ctx, cmd.general)
                BY <2>3
            <4>2. k.unloaded[v].ctx # NoContent
                BY <2>2 DEF CopyOf
            <4> HIDE DEF req
            <4> QED BY <4>1, <4>2, LoadObjectNeedsSlot
        <3>2. FreeSlots(k) = {} => Evictable(k, cmd) # {}
            BY <2>1, SomeEvictable
        <3> QED BY <3>1, <3>2
    <2> DEFINE w == Short("OBJECT_MEMORY", cmd.general)
               fixed == FixWarnings(k, cmd, w, InsideFix(cmd))
    <2>7. /\ Kept(k, fixed, cmd)
          /\ Evictable(k, cmd) # {} => FreeSlots(fixed) # {}
          /\ \A n \in 0..2 : MaxGap > 3 /\ Far(k, n + 1) => Far(fixed, n)
        <3>1. w \in {"OBJECT_MEMORY", "MEMORY"} /\ w \in Warnings
            BY DEF Short, Warnings
        <3> HIDE DEF w
        <3> QED BY <3>1, ContextsAnswer, FixWarningsKept, FixFar
    <2> HIDE DEF fixed
    <2>8. PICK j : j \in {k, fixed} /\ TpmSend(j, cmd, req).rc = "ok" /\ r = TpmSend(j, cmd, req)
        <3>1. req.op \in Ops /\ w \in Warnings
            BY DEF Ops, Short, Warnings
        <3>2. TpmSend(k, cmd, req).rc \in {"ok", w}
            BY <2>6
        <3>3. TpmSend(k, cmd, req).rc = w => TpmSend(fixed, cmd, req).rc = "ok"
            <4>1. w # "ok"
                BY <3>1 DEF Warnings
            <4> QED BY <2>5, <2>6, <2>7, <4>1
        <3> HIDE DEF req, w
        <3> QED BY <3>1, <3>2, <3>3, SecondAttempt DEF Send, fixed
    <2>9. Kept(k, j, cmd) /\ r.rc = "ok"
        BY <2>7, <2>8, KeptRefl
    <2>10. \A n \in 0..2 : MaxGap > 3 /\ Far(k, n + 1) => Far(j, n)
        BY <2>7, <2>8, FarIs DEF Good
    <2> DEFINE t == Least(FreeSlots(j))
               e == [v |-> v, info |-> [j.unloaded[v] EXCEPT !.tpm = t]]
               l == [j EXCEPT !.objs[t] = j.unloaded[v].ctx, !.t2v[t] = v,
                              !.loaded = Append(@, e), !.unloaded[v] = NoInfo]
    <2>11. Good(j) /\ ~j.suspended /\ j.unloaded[v] = k.unloaded[v] /\ j.unloaded[v] # NoInfo
        BY <2>2, <2>4, <2>9, KeptIsGood DEF Kept
    <2>12. FreeSlots(j) # {} /\ r = [m |-> [j EXCEPT !.objs[t] = j.unloaded[v].ctx], rc |-> "ok", slot |-> t]
        <3>1. r = TpmLoadObject(j, j.unloaded[v].ctx, cmd.general) /\ j.unloaded[v].ctx # NoContent
            BY <2>3, <2>4, <2>8, <2>9
        <3>2. Short("OBJECT_MEMORY", cmd.general) # "ok"
            BY DEF Short
        <3> HIDE DEF r
        <3> QED BY <2>9, <3>1, <3>2, LoadObjectNeedsSlot
    <2>13. t \in FreeSlots(j)
        <3>1. FreeSlots(j) \in SUBSET Nat
            BY DEF FreeSlots, Slots
        <3> QED BY <2>12, <3>1, LeastIs
    <2> HIDE DEF t, w
    <2>14. /\ Good(l) /\ Items(l) = Items(j) \cup {e} /\ Tracked(l) = Tracked(j)
           /\ l.seen = j.seen /\ l.suspended = j.suspended /\ l.lost = j.lost
        BY <2>11, <2>13, ObjectLoaded
    <2>15. l.ses = j.ses
        BY <2>11 DEF Good, Managers
    <2>16. ProcessInputHandle(k, cmd, v) = [m |-> l, rc |-> "ok", slot |-> t]
        <3> DEFINE x == [j EXCEPT !.objs[t] = j.unloaded[v].ctx]
                   y == Entered(x, v, [j.unloaded[v] EXCEPT !.tpm = t])
        <3>1. ProcessInputHandle(k, cmd, v) =
                [r EXCEPT !.m = [Entered(r.m, v, [k.unloaded[v] EXCEPT !.tpm = r.slot])
                                   EXCEPT !.unloaded[v] = NoInfo]]
            BY <1>3, <2>2, <2>9 DEF ProcessInputHandle, LoadObject
        <3>2. r = [m |-> x, rc |-> "ok", slot |-> t]
            BY <2>12
        <3>3. [y EXCEPT !.unloaded[v] = NoInfo] = l
            <4>1. [j.unloaded[v] EXCEPT !.tpm = t].tpm = t
                BY <2>11 DEF Good, Managers, HandleInfo
            <4>2. y = [x EXCEPT !.t2v[t] = v, !.loaded = Append(@, e)]
                BY <4>1 DEF Entered
            <4> HIDE DEF e, y
            <4> QED BY <2>11, <4>2 DEF Good, Managers
        <3> HIDE DEF r, x, l
        <3>4. r.m = x /\ r.slot = t
            BY <3>2
        <3>5. Entered(r.m, v, [k.unloaded[v] EXCEPT !.tpm = r.slot]) = y
            BY <2>11, <3>4
        <3> HIDE DEF y
        <3>6. ProcessInputHandle(k, cmd, v) = [r EXCEPT !.m = l]
            BY <3>1, <3>3, <3>5
        <3> QED BY <3>2, <3>6
    <2>17. e.v = v /\ e.info.tpm = t
        <3>1. j.unloaded[v] \in HandleInfo
            BY <2>11 DEF Good, Managers
        <3> QED BY <3>1 DEF HandleInfo
    <2> HIDE DEF l, e
    <2>18. InSlot(l, v, t)
        BY <2>14, <2>17 DEF InSlot
    <2>19. Near(k, l, cmd)
        <3>1. Near(k, j, cmd)
            BY <1>1, <2>9, NearTrans
        <3> QED BY <2>14, <3>1 DEF Near
    <2>20. \A n \in 0..2 : Far(j, n) => Far(l, n)
        BY <2>15, FarSame
    <2> QED BY <2>10, <2>16, <2>18, <2>19, <2>20
<1> QED BY <1>2, <1>3

\* What a command named stays in its slot.
LEMMA InSlotStays ==
    ASSUME NEW k, NEW j, NEW cmd, Near(k, j, cmd), NEW v \in Named(cmd), NEW t, InSlot(k, v, t)
    PROVE  InSlot(j, v, t)
BY DEF InSlot, Near

\* All objects of a command are loaded, each in the slot noted for it.
Loaded(p, k, cmd) ==
    /\ p = [m |-> p.m, rc |-> "ok", slots |-> p.slots]
    /\ Near(k, p.m, cmd)
    /\ p.slots \in Seq(Slots)
    /\ Len(p.slots) = Len(cmd.handles)
    /\ \A i \in DOMAIN cmd.handles : InSlot(p.m, cmd.handles[i], p.slots[i])

\* A client's command on objects it holds handles of.
Holds(k, cmd) ==
    /\ cmd \in Commands
    /\ Len(cmd.handles) <= 2 /\ \A v \in Named(cmd) : given[v] # NoContent
    /\ cmd.handles # <<>> => ~k.suspended

\* Handle by handle.
LEMMA ProcessInputHandlesLoads ==
    ASSUME NEW k, Good(k), k.seen = {}, NEW cmd, Holds(k, cmd)
    PROVE  /\ Loaded(ProcessInputHandles(k, cmd), k, cmd)
           /\ MaxGap > 3 /\ Far(k, 3) => Far(ProcessInputHandles(k, cmd).m, 1)
<1> DEFINE Add(p, r) == IF r.rc # "ok" THEN [p EXCEPT !.m = r.m, !.rc = r.rc]
                        ELSE [p EXCEPT !.m = r.m, !.slots = Append(@, r.slot)]
           Process(p, i) == IF p.rc # "ok" \/ i > Len(cmd.handles) THEN p
                            ELSE Add(p, ProcessInputHandle(p.m, cmd, cmd.handles[i]))
           p0 == [m |-> k, rc |-> "ok", slots |-> <<>>]
           So(p, n) == /\ p = [m |-> p.m, rc |-> "ok", slots |-> p.slots]
                       /\ Near(k, p.m, cmd)
                       /\ p.slots \in Seq(Slots)
                       /\ Len(p.slots) = IF n < Len(cmd.handles) THEN n ELSE Len(cmd.handles)
                       /\ \A i \in 1..Len(p.slots) : InSlot(p.m, cmd.handles[i], p.slots[i])
                       /\ MaxGap > 3 /\ Far(k, 3) => Far(p.m, 3 - n)
<1>1. /\ cmd \in Commands /\ cmd.handles \in Seq(Virtual) /\ Len(cmd.handles) \in Nat
      /\ Len(cmd.handles) <= 2 /\ DOMAIN cmd.handles = 1..Len(cmd.handles)
    BY DEF Holds, Commands
<1>2. \A i \in 1..Len(cmd.handles) : /\ cmd.handles[i] \in Virtual /\ cmd.handles[i] \in Named(cmd)
                                     /\ given[cmd.handles[i]] # NoContent
    BY <1>1 DEF Holds, Named, Elements
<1>3. So(p0, 0)
    <2>1. p0.m = k /\ p0.slots = <<>> /\ p0.rc = "ok"
        OBVIOUS
    <2>2. Near(k, k, cmd)
        BY DEF Near
    <2> QED BY <1>1, <2>1, <2>2
<1>4. ASSUME NEW p, NEW n \in {1, 2}, So(p, n - 1)
      PROVE  So(Process(p, n), n)
    <2>1. p.rc = "ok"
        BY <1>4
    <2>2. CASE n > Len(cmd.handles)
        <3>1. Process(p, n) = p
            BY <2>2
        <3>2. Far(p.m, 3 - (n - 1)) => Far(p.m, 3 - n)
            <4>1. 3 - n \in Nat /\ 3 - (n - 1) = (3 - n) + 1
                OBVIOUS
            <4> QED BY <1>4, <4>1, FarIs DEF Near, Good
        <3> HIDE DEF Process
        <3> QED BY <1>1, <1>4, <2>2, <3>1, <3>2
    <2>3. CASE n <= Len(cmd.handles)
        <3> DEFINE v == cmd.handles[n]
                   r == ProcessInputHandle(p.m, cmd, v)
                   q == [m |-> r.m, rc |-> "ok", slots |-> Append(p.slots, r.slot)]
        <3>1. Good(p.m) /\ p.m.seen = {} /\ ~p.m.suspended
            BY <1>1, <1>4, <2>3 DEF Near, Holds
        <3>2. v \in Virtual /\ v \in Named(cmd) /\ given[v] # NoContent
            BY <1>2, <2>3
        <3> HIDE DEF v
        <3>3. r.rc = "ok" /\ Near(p.m, r.m, cmd) /\ InSlot(r.m, v, r.slot)
            BY <1>1, <3>1, <3>2, ProcessInputHandleIs
        <3>3a. MaxGap > 3 /\ Far(k, 3) => Far(r.m, 3 - n)
            <4>1. \A i \in 0..2 : MaxGap > 3 /\ Far(p.m, i + 1) => Far(r.m, i)
                BY <1>1, <3>1, <3>2, ProcessInputHandleIs
            <4>2. 3 - n \in 0..2 /\ 3 - (n - 1) = (3 - n) + 1
                OBVIOUS
            <4> QED BY <1>4, <4>1, <4>2
        <3>4. Process(p, n) = Add(p, r)
            BY <1>1, <2>1, <2>3 DEF v
        <3> HIDE DEF r, Process
        <3>5. Add(p, r) = q
            <4>1. PICK a, b : p = [m |-> a, rc |-> "ok", slots |-> b] /\ p.slots = b
                BY <1>4
            <4>2. Add(p, r) = [p EXCEPT !.m = r.m, !.slots = Append(p.slots, r.slot)]
                BY <3>3
            <4> HIDE DEF Add
            <4> QED BY <4>1, <4>2
        <3>6. r.slot \in Slots
            <4>1. r.m \in Managers
                BY <3>3 DEF Near, Good
            <4> QED BY <3>3, <4>1, ItemsTyped DEF InSlot
        <3>7. Near(k, r.m, cmd)
            BY <1>4, <3>3, NearTrans
        <3>8. /\ q.slots \in Seq(Slots) /\ Len(q.slots) = n /\ q.m = r.m
              /\ q.slots[n] = r.slot /\ \A i \in 1..(n - 1) : q.slots[i] = p.slots[i]
            BY <1>1, <1>4, <2>3, <3>6
        <3>9. ASSUME NEW i \in 1..n
              PROVE  InSlot(r.m, cmd.handles[i], q.slots[i])
            <4>1. CASE i = n
                BY <3>3, <3>8, <4>1 DEF v
            <4>2. CASE i # n
                <5>1. i \in 1..(n - 1) /\ i \in 1..Len(cmd.handles) /\ i \in 1..Len(p.slots)
                    BY <1>1, <1>4, <2>3, <4>2
                <5>2. InSlot(p.m, cmd.handles[i], q.slots[i])
                    BY <1>4, <3>8, <5>1
                <5> QED BY <1>2, <3>3, <5>1, <5>2, InSlotStays
            <4> QED BY <4>1, <4>2
        <3> HIDE DEF Add
        <3> QED BY <1>1, <2>3, <3>3a, <3>4, <3>5, <3>7, <3>8, <3>9
    <2> QED BY <1>1, <2>2, <2>3
<1>5. ProcessInputHandles(k, cmd) = Process(Process(p0, 1), 2)
    BY DEF ProcessInputHandles, ProcessHandle
<1> HIDE DEF p0, Process
<1>6. So(Process(Process(p0, 1), 2), 2)
    <2> HIDE DEF So
    <2>1. So(Process(p0, 1), 1)
        BY <1>3, <1>4
    <2> QED BY <1>4, <2>1
<1> DEFINE p == ProcessInputHandles(k, cmd)
<1>7. So(p, 2)
    BY <1>5, <1>6
<1> HIDE DEF p
<1>8. Loaded(p, k, cmd)
    BY <1>1, <1>7 DEF Loaded
<1> QED BY <1>7, <1>8 DEF p

\* Reordering objects or sessions keeps everything else.
LEMMA Reordered ==
    ASSUME NEW k, Good(k), NEW j \in Managers,
           UniqueV(j.loaded), Items(j) = Items(k),
           Distinct(j.lru), Elements(j.lru) = Tracked(k),
           j.room = k.room, j.ses = k.ses, j.sessions = k.sessions, j.objs = k.objs, j.t2v = k.t2v,
           j.unloaded = k.unloaded, j.cache = k.cache
    PROVE  Good(j) /\ Tracked(j) = Tracked(k)
<1>1. Tracked(j) = Tracked(k)
    BY DEF Tracked
<1>2. Slotted(j, given)
    BY DEF Good, Slotted
<1>3. Handed(j, given)
    BY DEF Good, Handed
<1>4. Ordered(j) /\ Followed(j, held)
    BY <1>1 DEF Good, Ordered, Followed, Fits, LoadedSessions
<1> QED BY <1>1, <1>2, <1>3, <1>4 DEF Good

\* The LRU of objects.
LEMMA UpdateLruNear ==
    ASSUME NEW k, Good(k), k.seen = {}, NEW cmd
    PROVE  Near(k, UpdateLru(k, cmd), cmd) /\ Items(UpdateLru(k, cmd)) = Items(k)
           /\ Tracked(UpdateLru(k, cmd)) = Tracked(k) /\ UpdateLru(k, cmd).ses = k.ses
<1>1. k \in Managers /\ UniqueV(k.loaded)
    BY DEF Good, Slotted
<1>2. PICK s \in Seq(ObjectInfo) : /\ UniqueV(s) /\ Elements(s) = Items(k)
                                   /\ UpdateLru(k, cmd) = [k EXCEPT !.loaded = s]
    BY <1>1, UpdateLruIs
<1> DEFINE j == [k EXCEPT !.loaded = s, !.lru = k.lru]
<1>3. UpdateLru(k, cmd) = j
    BY <1>1, <1>2 DEF Managers
<1>4. k.lru \in Seq(SessionKeys) /\ Distinct(k.lru) /\ Elements(k.lru) = Tracked(k)
    BY DEF Good, Managers, Ordered
<1>5. /\ Good(j) /\ Items(j) = Items(k) /\ Tracked(j) = Tracked(k) /\ j.ses = k.ses
      /\ j.seen = k.seen /\ j.suspended = k.suspended /\ j.lost = k.lost
    <2>1. /\ j \in Managers /\ j.loaded = s /\ j.lru = k.lru
          /\ j.room = k.room /\ j.ses = k.ses /\ j.sessions = k.sessions /\ j.objs = k.objs /\ j.t2v = k.t2v
          /\ j.unloaded = k.unloaded /\ j.cache = k.cache /\ j.suspended = k.suspended
          /\ j.seen = k.seen /\ j.lost = k.lost
        BY <1>1, <1>2 DEF Managers
    <2> HIDE DEF j
    <2>2. Items(j) = Items(k)
        BY <1>2, <2>1 DEF Items
    <2> QED BY <1>2, <1>4, <2>1, <2>2, Reordered
<1> HIDE DEF j
<1> QED BY <1>3, <1>5 DEF Near

\* The session of a command is loaded, if anything can be done for it.
LEMMA EnsureSessionNear ==
    ASSUME NEW k, Good(k), k.seen = {}, NEW cmd,
           NEW key \in Tracked(k), key \in Elements(cmd.sessions)
    PROVE  Near(k, EnsureSessionIsLoaded(k, cmd, key).m, cmd)
<1> DEFINE context == OutsideFixes(cmd)
           rivals == {x \in Tracked(k) : k.sessions[x].loaded /\ x[1] = key[1] /\ x[2] # key[2]}
           OrFlush(r, rival) == IF r.rc = "ok" THEN r.m
                                ELSE CleanupFlushedSession(TpmFlushSession(r.m, rival[1]), rival)
           Evict == [x \in Managers \X SessionKeys |-> OrFlush(SaveSession(x[1], x[2], context), x[2])]
           Load(x) == IF x.sessions[key].loaded THEN [m |-> x, rc |-> "ok"] ELSE LoadSession(x, key, context)
           Used(x) == [x EXCEPT !.lru = Append(Unused(@, key), key)]
           Touch(r) == IF r.rc # "ok" THEN r ELSE [m |-> Used(r.m), rc |-> "ok"]
           k1 == ForEach(k, rivals, Evict)
           r1 == Load(k1)
<1>1. EnsureSessionIsLoaded(k, cmd, key) = Touch(r1)
    BY DEF EnsureSessionIsLoaded, EnsureLoaded
<1>2. rivals = {}
    BY OneOwner DEF Good
<1> HIDE DEF Evict
<1>3. Kept(k, k1, cmd)
    <2> HIDE DEF rivals
    <2> QED BY <1>2, ForEachKept
<1> HIDE DEF k1
<1>4. Kept(k, r1.m, cmd)
    <2>1. Answers(context, cmd) /\ key \in SessionKeys /\ Good(k1)
        BY <1>3, ContextsAnswer, KeptIsGood DEF Tracked
    <2> HIDE DEF context
    <2>2. Kept(k1, r1.m, cmd)
        BY <2>1, LoadSessionKept, KeptRefl
    <2> HIDE DEF r1
    <2> QED BY <1>3, <2>2, KeptTrans
<1> HIDE DEF r1, Load
<1> DEFINE x == r1.m
           u == Append(Unused(x.lru, key), key)
           j == [x EXCEPT !.loaded = x.loaded, !.lru = u]
<1>5. Good(x) /\ key \in Tracked(x) /\ Near(k, x, cmd)
    <2>1. Near(k, k, cmd)
        BY DEF Near
    <2> QED BY <1>4, <2>1, KeptIsGood, NearTrans DEF Kept, KeptSessions
<1> HIDE DEF x
<1>6. Used(x) = j
    BY <1>5 DEF Good, Managers
<1>7. u \in Seq(SessionKeys) /\ Distinct(u) /\ Elements(u) = Tracked(x)
    <2>1. x.lru \in Seq(SessionKeys) /\ Distinct(x.lru) /\ Elements(x.lru) = Tracked(x) /\ key \in SessionKeys
        BY <1>5 DEF Good, Managers, Ordered, Tracked
    <2> DEFINE w == Unused(x.lru, key)
    <2>2. w \in Seq(SessionKeys) /\ Distinct(w) /\ Elements(w) = Elements(x.lru) \ {key}
        BY <2>1, UnusedIs
    <2> HIDE DEF w
    <2>3. /\ Append(w, key) \in Seq(SessionKeys) /\ Distinct(Append(w, key))
          /\ Elements(Append(w, key)) = Elements(w) \cup {key}
        BY <2>1, <2>2, AppendIs
    <2> QED BY <1>5, <2>1, <2>2, <2>3 DEF w
<1> HIDE DEF u
<1>8. /\ Good(j) /\ Items(j) = Items(x) /\ Tracked(j) = Tracked(x)
      /\ j.seen = x.seen /\ j.suspended = x.suspended /\ j.lost = x.lost
    <2>1. x.loaded \in Seq(ObjectInfo) /\ UniqueV(x.loaded) /\ Elements(x.loaded) = Items(x)
        BY <1>5 DEF Good, Managers, Slotted, Items
    <2>2. /\ j \in Managers /\ j.loaded = x.loaded /\ j.lru = u
          /\ j.room = x.room /\ j.ses = x.ses /\ j.sessions = x.sessions /\ j.objs = x.objs /\ j.t2v = x.t2v
          /\ j.unloaded = x.unloaded /\ j.cache = x.cache /\ j.suspended = x.suspended
          /\ j.seen = x.seen /\ j.lost = x.lost
        BY <1>5, <1>7 DEF Good, Managers
    <2> HIDE DEF j
    <2>3. Items(j) = Items(x)
        BY <2>2 DEF Items
    <2> QED BY <1>5, <1>7, <2>1, <2>2, <2>3, Reordered
<1> HIDE DEF j
<1>9. Near(k, j, cmd)
    BY <1>5, <1>8 DEF Near
<1>10. Touch(r1).m = IF r1.rc # "ok" THEN x ELSE j
    <2> HIDE DEF Used
    <2> QED BY <1>6 DEF x
<1> QED BY <1>1, <1>5, <1>9, <1>10

\* Away from the gap the TPM loads a session that is saved if it has room for it.
LEMMA LoadsIfRoom ==
    ASSUME NEW k, Good(k), ~AtGap(k), NEW cmd, NEW key \in Tracked(k), ~k.sessions[key].loaded
    PROVE  LET r == TpmSend(k, cmd, [op |-> "loadSession", key |-> key])
           IN  /\ key[1] \notin LoadedSessions(k)
               /\ Cardinality(LoadedSessions(k)) >= k.room =>
                     r.rc = Short("SESSION_MEMORY", cmd.general)
               /\ ~(Cardinality(LoadedSessions(k)) >= k.room) =>
                     /\ r.rc = "ok" /\ r = [m |-> r.m, rc |-> "ok"]
                     /\ r.m \in Managers /\ r.m.sessions = k.sessions
<1> DEFINE h == key[1]
           r == TpmSend(k, cmd, [op |-> "loadSession", key |-> key])
           x == [k.ses[h] EXCEPT !.loaded = TRUE, !.age = 0]
           j == [k EXCEPT !.ses[h] = x]
<1>1. k \in Managers /\ h \in Handles
    BY DEF Good, Tracked, SessionKeys
<1>2. h \notin LoadedSessions(k) /\ h \in SavedSessions(k) /\ k.ses[h].sid = k.sessions[key].ctx
    BY <1>1 DEF Good, Followed, LoadedSessions, SavedSessions
<1>3. r = TpmLoadSession(k, h, k.sessions[key].ctx, cmd.general)
    BY DEF TpmSend
<1> HIDE DEF r
<1>4. r = IF Cardinality(LoadedSessions(k)) >= k.room
          THEN [m |-> k, rc |-> Short("SESSION_MEMORY", cmd.general)]
          ELSE [m |-> j, rc |-> "ok"]
    BY <1>2, <1>3 DEF TpmLoadSession
<1>5. j \in Managers /\ j.sessions = k.sessions
    <2>1. k.ses \in [Handles -> TpmSession] /\ 0 \in 0..(MaxGap + 1)
        BY <1>1, TpmAssumption DEF Managers
    <2>2. x \in TpmSession
        BY <1>1, <2>1 DEF TpmSession
    <2> HIDE DEF x
    <2>3. [k.ses EXCEPT ![h] = x] \in [Handles -> TpmSession]
        BY <2>1, <2>2
    <2> QED BY <1>1, <2>3 DEF Managers
<1> HIDE DEF j
<1> QED BY <1>2, <1>4, <1>5 DEF r

\* The session of a command gets loaded.
LEMMA SessionGetsLoaded ==
    ASSUME NEW k, Good(k), k.seen = {}, MaxGap > 3, Far(k, 1), NEW cmd,
           NEW key \in Tracked(k), Elements(cmd.sessions) = {key}
    PROVE  LET e == EnsureSessionIsLoaded(k, cmd, key)
           IN  e.rc = "ok" /\ e.m.sessions[key].loaded
<1> DEFINE context == OutsideFixes(cmd)
           rivals == {x \in Tracked(k) : k.sessions[x].loaded /\ x[1] = key[1] /\ x[2] # key[2]}
           OrFlush(r, rival) == IF r.rc = "ok" THEN r.m
                                ELSE CleanupFlushedSession(TpmFlushSession(r.m, rival[1]), rival)
           Evict == [x \in Managers \X SessionKeys |-> OrFlush(SaveSession(x[1], x[2], context), x[2])]
           Load(x) == IF x.sessions[key].loaded THEN [m |-> x, rc |-> "ok"] ELSE LoadSession(x, key, context)
           Used(x) == [x EXCEPT !.lru = Append(Unused(@, key), key)]
           Touch(r) == IF r.rc # "ok" THEN r ELSE [m |-> Used(r.m), rc |-> "ok"]
           req == [op |-> "loadSession", key |-> key]
           r1 == Load(k)
<1>1. k \in Managers /\ key \in SessionKeys
    BY DEF Good, Tracked
<1>2. rivals = {}
    BY OneOwner DEF Good
<1> HIDE DEF Evict
<1>3. ForEach(k, rivals, Evict) = k
    <2> HIDE DEF rivals
    <2> QED BY <1>1, <1>2, ForEachOfNone
<1>4. EnsureSessionIsLoaded(k, cmd, key) = Touch(Load(ForEach(k, rivals, Evict)))
    BY DEF EnsureSessionIsLoaded, EnsureLoaded, Evict
<1>5. EnsureSessionIsLoaded(k, cmd, key) = Touch(r1)
    <2> HIDE DEF Touch, Load, rivals
    <2> QED BY <1>3, <1>4
<1>6. r1.rc = "ok" /\ r1.m \in Managers /\ r1.m.sessions[key].loaded
    <2>1. CASE k.sessions[key].loaded
        BY <1>1, <2>1
    <2>2. CASE ~k.sessions[key].loaded
        <3> DEFINE w == Short("SESSION_MEMORY", cmd.general)
                   s == Send(k, cmd, req)
                   j == FixWarnings(k, cmd, w, InsideFix(cmd))
        <3>1. ~AtGap(k) /\ w \in {"SESSION_MEMORY", "MEMORY"} /\ w \in Warnings
            BY <1>1, FarIs DEF Short, Warnings
        <3>2. /\ key[1] \notin LoadedSessions(k)
              /\ Cardinality(LoadedSessions(k)) >= k.room => TpmSend(k, cmd, req).rc = w
              /\ ~(Cardinality(LoadedSessions(k)) >= k.room) =>
                    /\ TpmSend(k, cmd, req).rc = "ok" /\ TpmSend(k, cmd, req).m \in Managers
                    /\ TpmSend(k, cmd, req) = [m |-> TpmSend(k, cmd, req).m, rc |-> "ok"]
                    /\ TpmSend(k, cmd, req).m.sessions = k.sessions
            BY <2>2, <3>1, LoadsIfRoom
        <3>3. ASSUME Cardinality(LoadedSessions(k)) >= k.room
              PROVE  /\ TpmSend(j, cmd, req).rc = "ok" /\ TpmSend(j, cmd, req).m \in Managers
                     /\ TpmSend(j, cmd, req) = [m |-> TpmSend(j, cmd, req).m, rc |-> "ok"]
                     /\ TpmSend(j, cmd, req).m.sessions = j.sessions
                     /\ j \in Managers /\ key \in Tracked(j)
            <4>1. /\ Kept(k, j, cmd) /\ ~AtGap(j)
                  /\ Cardinality(LoadedSessions(j)) < j.room
                  /\ LoadedSessions(j) \subseteq LoadedSessions(k)
                <5> HIDE DEF w
                <5> QED BY <3>1, <3>2, <3>3, RoomIsMade
            <4> HIDE DEF j
            <4>2. Good(j) /\ key \in Tracked(j) /\ j \in Managers
                BY <4>1, KeptIsGood DEF Kept, KeptSessions
            <4>3. ~j.sessions[key].loaded
                <5>1. key[1] \notin LoadedSessions(j) /\ key[1] \in Handles
                    BY <1>1, <3>2, <4>1 DEF SessionKeys
                <5> QED BY <4>2, <5>1 DEF Good, Followed, LoadedSessions
            <4>4. ~(Cardinality(LoadedSessions(j)) >= j.room)
                BY <4>1, <4>2, LoadedFinite DEF Managers
            <4> QED BY <4>1, <4>2, <4>3, <4>4, LoadsIfRoom
        <3>4. s = SendFixing(k, cmd, req, InsideFix(cmd)) /\ req.op \in Ops /\ req \in ContextRequests
            BY <1>1 DEF Send, Ops, ContextRequests
        <3>5. \E x \in {k, j} : TpmSend(x, cmd, req).rc = "ok" /\ s = TpmSend(x, cmd, req)
            <4>1. /\ TpmSend(k, cmd, req).rc \in {"ok", w}
                  /\ TpmSend(k, cmd, req).rc = w => TpmSend(j, cmd, req).rc = "ok"
                <5>1. w # "ok"
                    BY <3>1
                <5> HIDE DEF w, req, j
                <5> QED BY <3>2, <3>3, <5>1
            <4> HIDE DEF w, req, s
            <4> QED BY <3>1, <3>4, <4>1, SecondAttempt
        <3>6. /\ s.rc = "ok" /\ s.m \in Managers /\ s = [m |-> s.m, rc |-> "ok"]
              /\ \E x \in Managers : key \in Tracked(x) /\ s.m.sessions = x.sessions
            <4>1. CASE TpmSend(k, cmd, req).rc = "ok" /\ s = TpmSend(k, cmd, req)
                <5>1. w # "ok"
                    BY <3>1
                <5> HIDE DEF w, req, j, s
                <5> QED BY <1>1, <3>2, <4>1, <5>1
            <4>2. CASE TpmSend(k, cmd, req).rc # "ok"
                <5> HIDE DEF w, req, j, s
                <5>1. Cardinality(LoadedSessions(k)) >= k.room
                    BY <3>2, <4>2
                <5> QED BY <3>3, <3>5, <4>2, <5>1
            <4>3. CASE TpmSend(k, cmd, req).rc = "ok" /\ s # TpmSend(k, cmd, req)
                <5> HIDE DEF w, req, s
                <5> QED BY <3>4, <4>3, FirstAttempt
            <4> QED BY <4>1, <4>2, <4>3
        <3>7. r1 = LoadedAs(s, key)
            <4>1. context[<<k, req>>] = s
                BY <1>1, <3>4 DEF OutsideFixes
            <4> HIDE DEF s, context
            <4> QED BY <2>2, <4>1 DEF LoadSession
        <3> HIDE DEF s, j, r1
        <3> DEFINE i == [s.m.sessions[key] EXCEPT !.loaded = TRUE]
                   n == [s.m EXCEPT !.sessions[key] = i]
        <3>8. r1 = [m |-> n, rc |-> "ok"]
            <4>1. r1 = [s EXCEPT !.m = n]
                BY <3>6, <3>7 DEF LoadedAs
            <4> HIDE DEF n
            <4> QED BY <3>6, <4>1
        <3>9. i \in SessionInfo /\ i.loaded
            <4>1. PICK x \in Managers : key \in Tracked(x) /\ s.m.sessions = x.sessions
                BY <3>6
            <4>2. s.m.sessions[key] \in SessionInfo
                BY <1>1, <4>1 DEF Managers, Tracked
            <4> QED BY <4>2 DEF SessionInfo
        <3> HIDE DEF i
        <3>10. n \in Managers /\ n.sessions[key] = i
            BY <1>1, <3>6, <3>9 DEF Managers
        <3> HIDE DEF n
        <3> QED BY <3>8, <3>9, <3>10
    <2> QED BY <2>1, <2>2
<1> HIDE DEF r1
<1> DEFINE y == r1.m
           u == Append(Unused(y.lru, key), key)
           z == [y EXCEPT !.lru = u]
<1>7. Touch(r1) = [m |-> z, rc |-> "ok"]
    BY <1>6
<1>8. z.sessions = y.sessions
    <2> HIDE DEF u, y
    <2> QED BY <1>6 DEF Managers, y
<1>9. y.sessions[key].loaded
    BY <1>6
<1> HIDE DEF y, z, Touch
<1> QED BY <1>5, <1>7, <1>8, <1>9

\* All that a command names is there before it is executed; objects always are.
LEMMA PrepareIs ==
    ASSUME NEW k, Good(k), k.seen = {}, NEW cmd, Holds(k, cmd),
           Len(cmd.sessions) <= 1, Elements(cmd.sessions) \subseteq Tracked(k)
    PROVE  LET p == Prepare(k, cmd)
           IN  /\ Near(k, p.m, cmd)
               /\ p.rc = "ok" => Loaded(p, k, cmd)
               /\ cmd.sessions = <<>> => p.rc = "ok"
               /\ ProcessInputHandles(UpdateLru(k, cmd), cmd).rc = "ok"
<1> DEFINE k1 == UpdateLru(k, cmd)
           p1 == ProcessInputHandles(k1, cmd)
           key == cmd.sessions[1]
           e == EnsureSessionIsLoaded(p1.m, cmd, key)
           p == Prepare(k, cmd)
<1>1. Near(k, k1, cmd) /\ Items(k1) = Items(k) /\ Tracked(k1) = Tracked(k)
    BY UpdateLruNear
<1> HIDE DEF k1
<1>2. Good(k1) /\ k1.seen = {} /\ Holds(k1, cmd)
    BY <1>1 DEF Near, Holds
<1>3. Loaded(p1, k1, cmd)
    BY <1>2, ProcessInputHandlesLoads
<1>4. p = IF p1.rc # "ok" \/ cmd.sessions = <<>> THEN p1 ELSE [p1 EXCEPT !.m = e.m, !.rc = e.rc]
    BY DEF Prepare, WithSession, k1
<1>5. ProcessInputHandles(UpdateLru(k, cmd), cmd) = p1
    BY DEF k1
<1> HIDE DEF p1, p
<1>6. p1.rc = "ok" /\ Near(k, p1.m, cmd) /\ Loaded(p1, k, cmd)
    <2>1. Near(k, p1.m, cmd)
        BY <1>1, <1>3, NearTrans DEF Loaded
    <2> QED BY <1>3, <2>1 DEF Loaded
<1>7. CASE cmd.sessions = <<>>
    BY <1>4, <1>5, <1>6, <1>7 DEF p
<1>8. CASE cmd.sessions # <<>>
    <2>1. PICK a, b : p1 = [m |-> a, rc |-> "ok", slots |-> b] /\ p1.slots = b
        BY <1>6 DEF Loaded
    <2>2. p = [p1 EXCEPT !.m = e.m, !.rc = e.rc]
        BY <1>4, <1>6, <1>8
    <2> HIDE DEF e
    <2>3. p = [m |-> e.m, rc |-> e.rc, slots |-> p1.slots] /\ p.m = e.m /\ p.rc = e.rc /\ p.slots = p1.slots
        BY <2>1, <2>2
    <2>4. key \in Elements(cmd.sessions)
        <3>1. cmd.sessions \in Seq(SessionKeys)
            BY DEF Holds, Commands
        <3> QED BY <1>8, <3>1 DEF Elements
    <2>5. Good(p1.m) /\ p1.m.seen = {} /\ key \in Tracked(p1.m)
        BY <1>6, <2>4 DEF Near
    <2>6. Near(p1.m, e.m, cmd)
        BY <2>4, <2>5, EnsureSessionNear DEF e
    <2>7. Near(k, p.m, cmd)
        BY <1>6, <2>3, <2>6, NearTrans
    <2>8. ASSUME NEW i \in DOMAIN cmd.handles
          PROVE  InSlot(p.m, cmd.handles[i], p.slots[i])
        <3>1. InSlot(p1.m, cmd.handles[i], p1.slots[i]) /\ cmd.handles[i] \in Named(cmd)
            BY <1>6 DEF Loaded, Named, Elements
        <3> QED BY <2>3, <2>6, <3>1, InSlotStays
    <2>9. p.rc = "ok" => Loaded(p, k, cmd)
        <3>1. p.slots \in Seq(Slots) /\ Len(p.slots) = Len(cmd.handles)
            BY <1>6, <2>3 DEF Loaded
        <3>2. p.rc = "ok" => p = [m |-> p.m, rc |-> "ok", slots |-> p.slots]
            BY <2>3
        <3> QED BY <2>7, <2>8, <3>1, <3>2 DEF Loaded
    <2> QED BY <1>5, <1>6, <1>8, <2>7, <2>9 DEF p
<1> QED BY <1>7, <1>8

-----------------------------------------------------------------------------
(***************************************************************************)
(* Executing a command.                                                    *)
(***************************************************************************)

\* The objects of a command are in these slots of the TPM.
InSlots(k, cmd, slots) ==
    /\ slots \in Seq(Slots) /\ DOMAIN slots = DOMAIN cmd.handles
    /\ \A i \in DOMAIN slots : /\ InSlot(k, cmd.handles[i], slots[i])
                               /\ CopyOf(k.objs[slots[i]], given[cmd.handles[i]])

\* They are the objects the client holds.
LEMMA LoadedInSlots ==
    ASSUME NEW k, NEW cmd \in Commands, NEW p, Loaded(p, k, cmd), NEW j, Near(p.m, j, cmd)
    PROVE  InSlots(j, cmd, p.slots)
<1>1. /\ p.slots \in Seq(Slots) /\ Len(p.slots) = Len(cmd.handles) /\ cmd.handles \in Seq(Virtual)
      /\ \A i \in DOMAIN cmd.handles : InSlot(p.m, cmd.handles[i], p.slots[i])
    BY DEF Loaded, Commands
<1>2. DOMAIN p.slots = DOMAIN cmd.handles
    BY <1>1
<1>3. \A i \in DOMAIN cmd.handles : cmd.handles[i] \in Named(cmd)
    BY DEF Named, Elements
<1>4. \A i \in DOMAIN cmd.handles : InSlot(j, cmd.handles[i], p.slots[i])
    BY <1>1, <1>3, InSlotStays
<1>5. \A i \in DOMAIN cmd.handles : CopyOf(j.objs[p.slots[i]], given[cmd.handles[i]])
    BY <1>4 DEF InSlot, Near, Good, Slotted
<1> QED BY <1>1, <1>2, <1>4, <1>5 DEF InSlots

\* A command whose objects and sessions are there.
LEMMA ExecutesOnLoaded ==
    ASSUME NEW k, NEW cmd, NEW slots, InSlots(k, cmd, slots),
           \A i \in DOMAIN cmd.sessions : cmd.sessions[i][1] \in LoadedSessions(k)
    PROVE  LET r == TpmExecute(k, cmd, slots)
               t == Least(FreeSlots(k))
               h == Least(FreeHandles(k))
           IN  /\ cmd.kind = "create" /\ FreeSlots(k) = {} =>
                     r.rc = Short("OBJECT_MEMORY", cmd.general)
               /\ cmd.kind = "create" /\ FreeSlots(k) # {} =>
                     r = Done(k, [k EXCEPT !.objs[t] = cmd.new], cmd, slots, t)
               /\ cmd.kind = "start" /\ r.rc = "ok" =>
                     /\ FreeHandles(k) # {} /\ ~(Cardinality(LoadedSessions(k)) >= k.room)
                     /\ r = Done(k, [k EXCEPT !.ses[h] = [sid |-> started + 1, loaded |-> TRUE, age |-> 0]],
                                 cmd, slots, h)
               /\ cmd.kind = "update" =>
                     r = Done(k, [k EXCEPT !.objs[slots[1]].ver = @ + 1], cmd, slots, None)
               /\ cmd.kind \in {"use", "readpublic"} => r = Done(k, k, cmd, slots, None)
<1> DEFINE Missing == \/ \E i \in DOMAIN slots : k.objs[slots[i]] = NoContent
                      \/ \E i \in DOMAIN cmd.sessions : cmd.sessions[i][1] \notin LoadedSessions(k)
           r == TpmExecute(k, cmd, slots)
           t == Least(FreeSlots(k))
           h == Least(FreeHandles(k))
<1>1. ~Missing
    BY DEF InSlots, CopyOf
<1>2. CASE cmd.kind = "create"
    BY <1>1, <1>2 DEF TpmExecute
<1>3. CASE cmd.kind = "start"
    <2> DEFINE d == Done(k, [k EXCEPT !.ses[h] = [sid |-> started + 1, loaded |-> TRUE, age |-> 0]],
                         cmd, slots, h)
    <2>1. r = IF Cardinality(LoadedSessions(k)) >= k.room
              THEN [m |-> k, rc |-> Short("SESSION_MEMORY", cmd.general)]
              ELSE IF FreeHandles(k) = {} THEN [m |-> k, rc |-> "SESSION_HANDLES"]
              ELSE IF AtGap(k) THEN [m |-> k, rc |-> "CONTEXT_GAP"]
              ELSE d
        BY <1>1, <1>3 DEF TpmExecute
    <2> HIDE DEF r, d
    <2>2. r.rc = "ok" => /\ r = d /\ FreeHandles(k) # {}
                         /\ ~(Cardinality(LoadedSessions(k)) >= k.room)
        BY <2>1 DEF Short
    <2> QED BY <1>3, <2>2 DEF r, d
<1>4. CASE cmd.kind = "update"
    BY <1>1, <1>4 DEF TpmExecute
<1>5. CASE cmd.kind \in {"use", "readpublic"}
    BY <1>1, <1>5 DEF TpmExecute
<1> QED BY <1>2, <1>3, <1>4, <1>5

\* Commands that need nothing else succeed.
LEMMA ExecutesAtOnce ==
    ASSUME NEW k, NEW cmd, NEW slots, InSlots(k, cmd, slots),
           \A i \in DOMAIN cmd.sessions : cmd.sessions[i][1] \in LoadedSessions(k),
           cmd.kind \in {"use", "update", "readpublic"}
    PROVE  TpmExecute(k, cmd, slots).rc = "ok"
<1> DEFINE Missing == \/ \E i \in DOMAIN slots : k.objs[slots[i]] = NoContent
                      \/ \E i \in DOMAIN cmd.sessions : cmd.sessions[i][1] \notin LoadedSessions(k)
<1>1. ~Missing
    BY DEF InSlots, CopyOf
<1>2. CASE cmd.kind = "update"
    BY <1>1, <1>2, DoneIsOk DEF TpmExecute
<1>3. CASE cmd.kind \in {"use", "readpublic"}
    BY <1>1, <1>3, DoneIsOk DEF TpmExecute
<1> QED BY <1>2, <1>3

\* A command is only executed on what is there.
LEMMA ExecutedHasSessions ==
    ASSUME NEW k, NEW cmd, NEW slots, TpmExecute(k, cmd, slots).rc = "ok"
    PROVE  \A i \in DOMAIN cmd.sessions : cmd.sessions[i][1] \in LoadedSessions(k)
<1> DEFINE Missing == \/ \E i \in DOMAIN slots : k.objs[slots[i]] = NoContent
                      \/ \E i \in DOMAIN cmd.sessions : cmd.sessions[i][1] \notin LoadedSessions(k)
<1>1. Missing => TpmExecute(k, cmd, slots) = [m |-> k, rc |-> "error"]
    BY DEF TpmExecute
<1> QED BY <1>1

\* A command that names objects the client holds is executed on them, and one
\* without sessions always is.
LEMMA ExecuteIs ==
    ASSUME NEW k, NEW cmd, Holds(k, cmd), NEW p, Loaded(p, k, cmd),
           cmd.kind = "create" => Len(cmd.handles) <= 1
    PROVE  LET r == Execute(p.m, cmd, p.slots)
           IN  /\ r.rc # "ok" => Near(k, r.m, cmd)
               /\ r.rc = "ok" => \E j : /\ Near(k, j, cmd)
                                        /\ InSlots(j, cmd, p.slots)
                                        /\ r = TpmExecute(j, cmd, p.slots)
               /\ cmd.sessions = <<>> /\ cmd.kind # "start" => r.rc = "ok"
<1> DEFINE req == [op |-> "execute", slots |-> p.slots]
           r == Execute(p.m, cmd, p.slots)
<1>1. r = SendFixing(p.m, cmd, req, InsideFix(cmd))
    BY DEF Execute, Send
<1>2. Answers(InsideFix(cmd), cmd) /\ req.op \in Ops
    BY ContextsAnswer DEF Ops
<1>3. Near(k, p.m, cmd) /\ Good(p.m) /\ p.m.seen = {} /\ cmd \in Commands
    BY DEF Loaded, Near, Holds
<1>4. \A j : TpmSend(j, cmd, req) = TpmExecute(j, cmd, p.slots)
    BY DEF TpmSend
<1> HIDE DEF r, req
<1>5. Answer(r, p.m, cmd, req)
    BY <1>1, <1>2, <1>3, SendFixingAnswers
<1>6. ASSUME NEW j, Kept(p.m, j, cmd)
      PROVE  Near(k, j, cmd) /\ InSlots(j, cmd, p.slots)
    <2>1. Near(p.m, p.m, cmd)
        BY <1>3 DEF Near
    <2>2. Near(p.m, j, cmd)
        BY <1>6, <2>1, NearTrans
    <2> QED BY <1>3, <2>2, NearTrans, LoadedInSlots
<1>7. r.rc # "ok" => Near(k, r.m, cmd)
    BY <1>5, <1>6 DEF Answer
<1>8. r.rc = "ok" => \E j : /\ Near(k, j, cmd)
                            /\ InSlots(j, cmd, p.slots)
                            /\ r = TpmExecute(j, cmd, p.slots)
    BY <1>4, <1>5, <1>6 DEF Answer
<1>9. ASSUME cmd.sessions = <<>>, cmd.kind # "start"
      PROVE  r.rc = "ok"
    <2>1. \A i \in DOMAIN cmd.sessions : FALSE
        BY <1>9
    <2>2. cmd.kind \in {"create", "update", "use", "readpublic"}
        BY <1>3, <1>9 DEF Commands
    <2>3. ASSUME NEW j, Kept(p.m, j, cmd)
          PROVE  /\ cmd.kind # "create" \/ FreeSlots(j) # {} => TpmSend(j, cmd, req).rc = "ok"
                 /\ cmd.kind = "create" /\ FreeSlots(j) = {} =>
                       TpmSend(j, cmd, req).rc \in {"OBJECT_MEMORY", "MEMORY"}
        <3>1. InSlots(j, cmd, p.slots)
            BY <1>6, <2>3
        <3>2. CASE cmd.kind = "create" /\ FreeSlots(j) = {}
            <4>1. TpmExecute(j, cmd, p.slots).rc = Short("OBJECT_MEMORY", cmd.general)
                BY <2>1, <3>1, <3>2, ExecutesOnLoaded
            <4> QED BY <1>4, <3>2, <4>1 DEF Short
        <3>3. CASE ~(cmd.kind = "create" /\ FreeSlots(j) = {})
            <4>1. TpmExecute(j, cmd, p.slots).rc = "ok"
                <5>1. CASE cmd.kind = "create" /\ FreeSlots(j) # {}
                    <6>1. \E x, new : TpmExecute(j, cmd, p.slots) = Done(j, x, cmd, p.slots, new)
                        BY <2>1, <3>1, <5>1, ExecutesOnLoaded, Zenon
                    <6> QED BY <6>1, DoneIsOk
                <5>2. CASE cmd.kind \in {"use", "update", "readpublic"}
                    BY <2>1, <3>1, <5>2, ExecutesAtOnce
                <5> QED BY <2>2, <3>3, <5>1, <5>2
            <4> QED BY <1>4, <3>3, <4>1
        <3> QED BY <3>2, <3>3
    <2>4. TpmSend(p.m, cmd, req).rc # "ok" =>
             /\ TpmSend(p.m, cmd, req).rc \in {"OBJECT_MEMORY", "MEMORY"}
             /\ Evictable(p.m, cmd) # {}
        <3> SUFFICES ASSUME TpmSend(p.m, cmd, req).rc # "ok"
                     PROVE  /\ TpmSend(p.m, cmd, req).rc \in {"OBJECT_MEMORY", "MEMORY"}
                            /\ Evictable(p.m, cmd) # {}
            OBVIOUS
        <3>1. Kept(p.m, p.m, cmd)
            BY <1>3, KeptRefl
        <3>2. cmd.kind = "create" /\ FreeSlots(p.m) = {}
            BY <2>3, <3>1
        <3> QED BY <1>3, <2>3, <3>1, <3>2, SomeEvictable
    <2>5. \A j : Kept(p.m, j, cmd) /\ FreeSlots(j) # {} => TpmSend(j, cmd, req).rc = "ok"
        BY <2>3
    <2> QED BY <1>1, <1>2, <1>3, <2>4, <2>5, SendFixingAnswers
<1> QED BY <1>7, <1>8, <1>9 DEF r

\* A session is started where there is room and a handle for it.
LEMMA StartsIfRoom ==
    ASSUME NEW k, NEW cmd, NEW slots, InSlots(k, cmd, slots), cmd.sessions = <<>>, cmd.kind = "start",
           FreeHandles(k) # {}, ~AtGap(k)
    PROVE  LET r == TpmExecute(k, cmd, slots)
           IN  /\ Cardinality(LoadedSessions(k)) >= k.room =>
                     r.rc = Short("SESSION_MEMORY", cmd.general)
               /\ ~(Cardinality(LoadedSessions(k)) >= k.room) => r.rc = "ok"
<1> DEFINE Missing == \/ \E i \in DOMAIN slots : k.objs[slots[i]] = NoContent
                      \/ \E i \in DOMAIN cmd.sessions : cmd.sessions[i][1] \notin LoadedSessions(k)
           r == TpmExecute(k, cmd, slots)
           h == Least(FreeHandles(k))
           d == Done(k, [k EXCEPT !.ses[h] = [sid |-> started + 1, loaded |-> TRUE, age |-> 0]],
                     cmd, slots, h)
<1>1. ~Missing
    BY DEF InSlots, CopyOf
<1>2. r = IF Cardinality(LoadedSessions(k)) >= k.room
          THEN [m |-> k, rc |-> Short("SESSION_MEMORY", cmd.general)]
          ELSE IF FreeHandles(k) = {} THEN [m |-> k, rc |-> "SESSION_HANDLES"]
          ELSE IF AtGap(k) THEN [m |-> k, rc |-> "CONTEXT_GAP"]
          ELSE d
    BY <1>1 DEF TpmExecute
<1>3. d.rc = "ok"
    BY DoneIsOk
<1> HIDE DEF r, d
<1> QED BY <1>2, <1>3 DEF r

\* Away from the gap a session is started if the TPM has a handle for it.
LEMMA StartSucceeds ==
    ASSUME NEW k, NEW cmd, Holds(k, cmd), NEW p, Loaded(p, k, cmd), MaxGap > 3, Far(p.m, 1),
           cmd.kind = "start", cmd.sessions = <<>>, FreeHandles(p.m) # {}
    PROVE  Execute(p.m, cmd, p.slots).rc = "ok"
<1> DEFINE req == [op |-> "execute", slots |-> p.slots]
           w == Short("SESSION_MEMORY", cmd.general)
           j == FixWarnings(p.m, cmd, w, InsideFix(cmd))
<1>1. Near(k, p.m, cmd) /\ Good(p.m) /\ p.m \in Managers /\ p.m.seen = {} /\ cmd \in Commands
    BY DEF Loaded, Near, Holds, Good
<1>2. /\ Execute(p.m, cmd, p.slots) = SendFixing(p.m, cmd, req, InsideFix(cmd)) /\ req.op \in Ops
      /\ \A x : TpmSend(x, cmd, req) = TpmExecute(x, cmd, p.slots)
    BY DEF Execute, Send, Ops, TpmSend
<1>3. /\ ~AtGap(p.m) /\ w \in {"SESSION_MEMORY", "MEMORY"} /\ w \in Warnings /\ w # "ok"
      /\ Elements(cmd.sessions) = {}
    BY <1>1, FarIs DEF Short, Warnings, Elements
<1>4. ASSUME NEW x, Near(p.m, x, cmd), FreeHandles(x) # {}, ~AtGap(x)
      PROVE  /\ Cardinality(LoadedSessions(x)) >= x.room => TpmSend(x, cmd, req).rc = w
             /\ ~(Cardinality(LoadedSessions(x)) >= x.room) => TpmSend(x, cmd, req).rc = "ok"
    <2>1. InSlots(x, cmd, p.slots)
        BY <1>1, <1>4, LoadedInSlots
    <2> QED BY <1>2, <1>4, <2>1, StartsIfRoom
<1>5. Near(p.m, p.m, cmd)
    BY <1>1 DEF Near
<1>6. ASSUME Cardinality(LoadedSessions(p.m)) >= p.m.room
      PROVE  TpmSend(j, cmd, req).rc = "ok"
    <2>1. /\ Kept(p.m, j, cmd) /\ ~AtGap(j)
          /\ Cardinality(LoadedSessions(j)) < j.room
          /\ FreeHandles(j) = FreeHandles(p.m)
        <3> HIDE DEF w
        <3> QED BY <1>1, <1>3, <1>6, RoomIsMade
    <2> HIDE DEF j, req, w
    <2>2. Near(p.m, j, cmd) /\ j.room \in Nat
        <3>1. Near(p.m, j, cmd)
            BY <1>5, <2>1, NearTrans
        <3> QED BY <2>1, <3>1 DEF Kept, Managers
    <2>3. ~(Cardinality(LoadedSessions(j)) >= j.room)
        BY <2>1, <2>2, LoadedFinite
    <2> QED BY <1>4, <2>1, <2>2, <2>3
<1> HIDE DEF req, w
<1>7. /\ TpmSend(p.m, cmd, req).rc \in {"ok", w}
      /\ TpmSend(p.m, cmd, req).rc = w => TpmSend(j, cmd, req).rc = "ok"
    <2> HIDE DEF j
    <2> QED BY <1>3, <1>4, <1>5, <1>6
<1>8. \E x \in {p.m, j} : /\ TpmSend(x, cmd, req).rc = "ok"
                          /\ SendFixing(p.m, cmd, req, InsideFix(cmd)) = TpmSend(x, cmd, req)
    BY <1>1, <1>2, <1>3, <1>7, SecondAttempt
<1> HIDE DEF j
<1> QED BY <1>2, <1>8

-----------------------------------------------------------------------------
(***************************************************************************)
(* What each command leaves.                                               *)
(***************************************************************************)

\* The numbers of sessions are those given out so far.
Counted == started \in 0..MaxSessions /\ \A key \in SessionKeys : held[key] <= started

\* A good manager between commands is settled, and the other way round.
LEMMA GoodIsSettled ==
    ASSUME NEW k
    PROVE  /\ Good(k) /\ Counted /\ k.seen = {} /\ (k.suspended => Items(k) = {})
                => Settled(k, given, held, started)
           /\ Settled(k, given, held, started) /\ ~k.lost
                => Good(k) /\ Counted /\ k.seen = {} /\ (k.suspended => Items(k) = {})
BY DEF Settled, Good, Counted

\* Objects do not depend on the rest.
LEMMA SameSettled ==
    ASSUME NEW k, NEW j \in Managers, NEW g, NEW h, NEW n, Settled(k, g, h, n),
           j.objs = k.objs, j.t2v = k.t2v, j.unloaded = k.unloaded, j.loaded = k.loaded,
           j.cache = k.cache, j.seen = k.seen, j.suspended = k.suspended,
           NEW i \in [SessionKeys -> 0..MaxSessions], \A key \in SessionKeys : i[key] <= n,
           Ordered(j), Followed(j, i)
    PROVE  Settled(j, g, i, n)
<1>1. Items(j) = Items(k)
    BY DEF Items
<1>2. Slotted(j, g)
    BY <1>1 DEF Settled, Slotted
<1>3. Handed(j, g)
    BY <1>1 DEF Settled, Handed
<1> QED BY <1>1, <1>2, <1>3 DEF Settled

\* Nobody holds a session that was flushed.
LEMMA SessionFlushed ==
    ASSUME NEW k, NEW g, NEW n, Settled(k, g, held, n), ~k.lost, NEW key \in Tracked(k)
    PROVE  Settled(CleanupFlushedSession(TpmFlushSession(k, key[1]), key), g,
                   [held EXCEPT ![key] = None], n)
<1> DEFINE j == CleanupFlushedSession(TpmFlushSession(k, key[1]), key)
           i == [held EXCEPT ![key] = None]
<1>1. /\ j \in Managers /\ Ordered(j) /\ Followed(j, held) /\ Tracked(j) = Tracked(k) \ {key}
      /\ j.objs = k.objs /\ j.t2v = k.t2v /\ j.unloaded = k.unloaded /\ j.loaded = k.loaded
      /\ j.cache = k.cache /\ j.suspended = k.suspended /\ j.seen = k.seen
    BY FlushIs DEF Settled
<1> HIDE DEF j
<1>2. held \in [SessionKeys -> 0..MaxSessions] /\ n \in 0..MaxSessions
      /\ \A x \in SessionKeys : held[x] <= n
    BY DEF Settled
<1>3. /\ i \in [SessionKeys -> 0..MaxSessions] /\ \A x \in SessionKeys : i[x] <= n
      /\ \A x \in SessionKeys : i[x] = IF x = key THEN None ELSE held[x]
    <2>1. None \in 0..MaxSessions /\ None <= n
        BY <1>2, TpmAssumption DEF None
    <2>2. i \in [SessionKeys -> 0..MaxSessions]
        BY <1>2, <2>1
    <2>3. \A x \in SessionKeys : i[x] = IF x = key THEN None ELSE held[x]
        BY <1>2
    <2> QED BY <1>2, <2>1, <2>2, <2>3
<1> HIDE DEF i
<1>4. Followed(j, i)
    <2>1. \A x \in Tracked(j) : x \in SessionKeys /\ x # key
        BY <1>1 DEF Tracked
    <2> QED BY <1>1, <1>3, <2>1 DEF Followed
<1>5. Settled(j, g, i, n)
    BY <1>1, <1>3, <1>4, SameSettled
<1> QED BY <1>5 DEF j, i

\* The end of a session with a command.
LEMMA SessionEnds ==
    ASSUME NEW k, NEW g, NEW n, Settled(k, g, held, n), ~k.lost, NEW cmd,
           ~cmd.continue => cmd.sessions[1] \in Tracked(k)
    PROVE  Settled(EndSession(IF cmd.continue THEN k ELSE TpmFlushSession(k, cmd.sessions[1][1]), cmd), g,
                   IF cmd.continue THEN held ELSE [held EXCEPT ![cmd.sessions[1]] = None], n)
BY SessionFlushed DEF EndSession

\* An object is updated, and its copies become older ones.
LEMMA ObjectUpdated ==
    ASSUME NEW k, Settled(k, given, held, started), ~k.lost,
           NEW v \in Virtual, NEW t \in Slots, InSlot(k, v, t), given[v].ver \in 1..(MaxVersion - 1)
    PROVE  Settled([k EXCEPT !.objs[t].ver = @ + 1], [given EXCEPT ![v].ver = @ + 1], held, started)
<1> DEFINE c == [k.objs[t] EXCEPT !.ver = @ + 1]
           x == [given[v] EXCEPT !.ver = @ + 1]
           j == [k EXCEPT !.objs = [k.objs EXCEPT ![t] = c]]
           g == [given EXCEPT ![v] = x]
<1>1. /\ k \in Managers /\ k.objs \in [Slots -> MaybeContent] /\ given \in [Virtual -> MaybeContent]
      /\ Slotted(k, given) /\ Handed(k, given) /\ Followed(k, held)
      /\ k.t2v \in [Slots -> Virtual \cup {None}]
    BY DEF Settled, Managers
<1>2. PICK e \in Items(k) : e.v = v /\ e.info.tpm = t
    BY DEF InSlot
<1>3. CopyOf(k.objs[t], given[v])
    BY <1>1, <1>2 DEF Slotted
<1>4. k.objs[t] \in Content /\ given[v] \in Content
    <2>1. k.objs[t] # NoContent /\ k.objs[t] \in MaybeContent
        BY <1>1, <1>3 DEF CopyOf
    <2>2. given[v] \in MaybeContent /\ given[v] # NoContent
        BY <1>1 DEF NoContent
    <2> QED BY <2>1, <2>2 DEF MaybeContent
<1>5. /\ c \in Content /\ c.obj = k.objs[t].obj /\ c.ver = k.objs[t].ver + 1
      /\ x \in Content /\ x.obj = given[v].obj /\ x.ver = given[v].ver + 1
      /\ k.objs[t].ver \in Int /\ given[v].ver \in Int
    BY <1>3, <1>4, TpmAssumption DEF Content, CopyOf
<1>6. j = [k EXCEPT !.objs[t].ver = @ + 1] /\ g = [given EXCEPT ![v].ver = @ + 1]
    BY <1>1 DEF Managers
<1> HIDE DEF c, x
<1>7. /\ j \in Managers /\ j.objs = [k.objs EXCEPT ![t] = c]
      /\ j.t2v = k.t2v /\ j.unloaded = k.unloaded /\ j.loaded = k.loaded /\ j.cache = k.cache
      /\ j.suspended = k.suspended /\ j.lost = k.lost /\ j.seen = k.seen
      /\ j.room = k.room /\ j.ses = k.ses /\ j.sessions = k.sessions /\ j.lru = k.lru
    <2>1. [k.objs EXCEPT ![t] = c] \in [Slots -> MaybeContent]
        BY <1>1, <1>5 DEF MaybeContent
    <2> QED BY <1>1, <2>1 DEF Managers
<1>8. /\ g \in [Virtual -> MaybeContent] /\ g[v] = x
      /\ \A w \in Virtual : w # v => g[w] = given[w]
    BY <1>1, <1>5 DEF MaybeContent
<1> HIDE DEF j, g
<1>9. Items(j) = Items(k) /\ Tracked(j) = Tracked(k)
    BY <1>7 DEF Items, Tracked
<1>10. CopyOf(c, x) /\ \A y \in MaybeContent : CopyOf(y, given[v]) => CopyOf(y, x)
    <2>1. c # NoContent /\ c.obj = x.obj /\ c.ver <= x.ver
        BY <1>3, <1>5, Nothing DEF CopyOf
    <2>2. \A y \in MaybeContent : y.ver \in Int
        BY TpmAssumption DEF MaybeContent, Content, NoContent
    <2>3. \A y \in MaybeContent : CopyOf(y, given[v]) => CopyOf(y, x)
        BY <1>5, <2>2 DEF CopyOf
    <2> QED BY <2>1, <2>3 DEF CopyOf
<1>11. Slotted(j, g)
    <2>1. ASSUME NEW y \in Items(j)
          PROVE  /\ j.t2v[y.info.tpm] = y.v
                 /\ j.unloaded[y.v] = NoInfo
                 /\ CopyOf(j.objs[y.info.tpm], g[y.v])
                 /\ y.info.ctx # NoContent => CopyOf(y.info.ctx, g[y.v])
        <3>1. /\ y \in Items(k) /\ y.v \in Virtual /\ y.info.tpm \in Slots /\ y.info.ctx \in MaybeContent
            BY <1>1, <1>9, ItemsTyped DEF HandleInfo
        <3>2. /\ k.t2v[y.info.tpm] = y.v /\ k.unloaded[y.v] = NoInfo
              /\ CopyOf(k.objs[y.info.tpm], given[y.v])
              /\ y.info.ctx # NoContent => CopyOf(y.info.ctx, given[y.v])
            BY <1>1, <3>1 DEF Slotted
        <3>3. k.t2v[t] = v
            BY <1>1, <1>2 DEF Slotted
        <3>4. CASE y.v = v
            <4>1. y = e
                BY <1>1, <1>2, <3>1, <3>4 DEF Slotted, UniqueV, Items, Elements
            <4>2. j.objs[y.info.tpm] = c
                BY <1>1, <1>2, <1>7, <4>1
            <4> QED BY <1>7, <1>8, <1>10, <3>1, <3>2, <3>4, <4>2
        <3>5. CASE y.v # v
            <4>1. j.objs[y.info.tpm] = k.objs[y.info.tpm]
                BY <1>1, <1>7, <3>1, <3>2, <3>3, <3>5
            <4> QED BY <1>7, <1>8, <3>1, <3>2, <3>5, <4>1
        <3> QED BY <3>4, <3>5
    <2>2. k.t2v[t] # None
        BY <1>1, <1>2 DEF Slotted, Virtual, None
    <2>3. \A s \in Slots : j.objs[s] # NoContent => j.t2v[s] # None
        BY <1>1, <1>7, <2>2 DEF Slotted
    <2> QED BY <1>1, <1>7, <1>9, <2>1, <2>3 DEF Slotted
<1>12. Handed(j, g)
    <2>1. k.unloaded[v] = NoInfo /\ x # NoContent /\ given[v] # NoContent
        BY <1>1, <1>2, <1>4, <1>5, Nothing DEF Slotted
    <2>2. \A w \in Virtual : j.unloaded[w] # NoInfo => CopyOf(j.unloaded[w].ctx, g[w])
        BY <1>1, <1>7, <1>8, <2>1 DEF Handed
    <2>3. \A w \in Virtual : g[w].obj = given[w].obj /\ (g[w] # NoContent <=> given[w] # NoContent)
        BY <1>5, <1>8, <2>1
    <2> QED BY <1>1, <1>7, <1>9, <2>2, <2>3 DEF Handed
<1>13. Ordered(j) /\ Followed(j, held)
    BY <1>1, <1>7, <1>9 DEF Settled, Ordered, Followed, Fits, LoadedSessions
<1>14. Settled(j, g, held, started)
    BY <1>7, <1>8, <1>9, <1>11, <1>12, <1>13 DEF Settled
<1> QED BY <1>6, <1>14

\* What it means that the manager knows a handle.
LEMMA KnownIs ==
    ASSUME NEW k \in Managers, NEW v
    PROVE  /\ IsLoaded(k, v) <=> \E e \in Items(k) : e.v = v
           /\ Known(k, v) <=> (k.unloaded[v] # NoInfo \/ \E e \in Items(k) : e.v = v)
BY DEF IsLoaded, Known, IndexOf, Items, Elements

\* There are more handles than objects, so that one is always free.
LEMMA HandleIsFree ==
    ASSUME NEW g \in [Virtual -> MaybeContent],
           \A v, w \in Virtual : g[v] # NoContent /\ g[v].obj = g[w].obj => v = w
    PROVE  \E v \in Virtual : g[v] = NoContent
<1> SUFFICES ASSUME \A v \in Virtual : g[v] # NoContent
             PROVE  FALSE
    OBVIOUS
<1> DEFINE f == [v \in Virtual |-> g[v].obj]
<1>1. f \in [Virtual -> Objects]
    BY DEF MaybeContent, Content
<1>2. IsFiniteSet(Virtual) /\ Cardinality(Virtual) = MaxVirtual
    <2>1. Cardinality(Objects) \in Nat
        BY TpmAssumption, FS_CardinalityType
    <2>2. MaxVirtual \in Nat /\ MaxVirtual > 0
        BY <2>1, TpmAssumption
    <2> QED BY <2>2, FS_Interval DEF Virtual
<1>3. \E v, w \in Virtual : v # w /\ f[v] = f[w]
    <2> HIDE DEF f
    <2>1. Cardinality(Objects) < Cardinality(Virtual) /\ IsFiniteSet(Objects)
        BY <1>2, TpmAssumption, FS_CardinalityType
    <2> QED BY <1>1, <1>2, <2>1, FS_PigeonHole
<1> QED BY <1>3

\* CreateVirtualHandle() returns the first free handle from next_virtual_handle_ on.
LEMMA VirtualHandleIs ==
    ASSUME NEW k \in Managers, NEW v0 \in Virtual, ~Known(k, v0)
    PROVE  LET c == CreateVirtualHandle(k)
           IN  c.v \in Virtual /\ c.next \in Virtual /\ ~Known(k, c.v)
<1> DEFINE Distance(v) == IF v >= k.next THEN v - k.next ELSE v - k.next + MaxVirtual
           free == {v \in Virtual : ~Known(k, v)}
           v1 == CHOOSE x \in free : \A y \in free : Distance(x) <= Distance(y)
           D == {Distance(x) : x \in free}
<1>1. CreateVirtualHandle(k) = [v |-> v1, next |-> After(v1)]
    BY DEF CreateVirtualHandle
<1>2. D \in SUBSET Nat /\ D # {}
    <2>1. k.next \in 1..MaxVirtual /\ MaxVirtual \in Nat
        BY TpmAssumption DEF Managers, Virtual
    <2>2. \A x \in free : Distance(x) \in Nat
        BY <2>1 DEF Virtual
    <2>3. v0 \in free
        OBVIOUS
    <2> HIDE DEF Distance, free
    <2> QED BY <2>2, <2>3
<1>3. \E x \in free : \A y \in free : Distance(x) <= Distance(y)
    <2> HIDE DEF Distance, free
    <2>1. Least(D) \in D /\ \A y \in D : Least(D) <= y
        <3> HIDE DEF D
        <3> QED BY <1>2, LeastIs
    <2> QED BY <2>1
<1>4. v1 \in free
    <2> HIDE DEF Distance, free
    <2> QED BY <1>3, Zenon
<1>5. v1 \in Virtual /\ ~Known(k, v1)
    BY <1>4
<1> HIDE DEF v1
<1>6. After(v1) \in Virtual
    BY <1>5, TpmAssumption DEF After, Virtual
<1> QED BY <1>1, <1>5, <1>6

\* An object is created, and its handle is new.
LEMMA ObjectCreated ==
    ASSUME NEW k, Settled(k, given, held, started), ~k.lost, ~k.suspended,
           NEW t \in FreeSlots(k), NEW c \in Content, NEW sender \in Senders,
           \A v \in Virtual : given[v].obj # c.obj,
           NEW f, f = ProcessOutputObject([k EXCEPT !.objs[t] = c], t, sender)
    PROVE  Settled(f.m, [given EXCEPT ![f.v] = c], held, started)
<1> DEFINE x == [k EXCEPT !.objs[t] = c]
           v == CreateVirtualHandle(x).v
           next == CreateVirtualHandle(x).next
           info == [tpm |-> t, ctx |-> NoContent, sender |-> sender]
           e == [v |-> v, info |-> info]
           j == [k EXCEPT !.objs = [k.objs EXCEPT ![t] = c],
                          !.t2v = [k.t2v EXCEPT ![t] = v],
                          !.loaded = Append(k.loaded, e),
                          !.next = next]
           g == [given EXCEPT ![v] = c]
<1>1. /\ k \in Managers /\ k.objs \in [Slots -> MaybeContent] /\ given \in [Virtual -> MaybeContent]
      /\ Slotted(k, given) /\ Handed(k, given) /\ Followed(k, held)
      /\ k.t2v \in [Slots -> Virtual \cup {None}] /\ k.loaded \in Seq(ObjectInfo)
      /\ k.unloaded \in [Virtual -> HandleInfo \cup {NoInfo}]
      /\ t \in Slots /\ k.objs[t] = NoContent
    BY DEF Settled, Managers, FreeSlots
<1>2. \A y \in Items(k) : y.info.tpm # t /\ y.v \in Virtual /\ y.info.tpm \in Slots
    BY <1>1, ItemsTyped DEF Slotted, CopyOf
<1>3. k.t2v[t] = None
    BY <1>1, <1>2 DEF Slotted
<1>4. /\ x \in Managers /\ x.t2v = k.t2v /\ x.loaded = k.loaded /\ x.unloaded = k.unloaded
      /\ x.objs = [k.objs EXCEPT ![t] = c]
    <2>1. [k.objs EXCEPT ![t] = c] \in [Slots -> MaybeContent]
        BY <1>1 DEF MaybeContent
    <2> QED BY <1>1, <2>1 DEF Managers
<1>5. v \in Virtual /\ next \in Virtual /\ k.unloaded[v] = NoInfo /\ \A y \in Items(k) : y.v # v
    <2>1. PICK w \in Virtual : given[w] = NoContent
        BY <1>1, HandleIsFree DEF Handed
    <2>2. Items(x) = Items(k)
        BY <1>4 DEF Items
    <2> HIDE DEF x
    <2>3. ~Known(x, w)
        BY <1>1, <1>4, <2>1, <2>2, KnownIs DEF Handed
    <2>4. v \in Virtual /\ next \in Virtual /\ ~Known(x, v)
        BY <1>4, <2>3, VirtualHandleIs
    <2> QED BY <1>4, <2>2, <2>4, KnownIs
<1>6. f = [m |-> j, v |-> v]
    <2>1. f = [m |-> [Entered(x, v, info) EXCEPT !.next = next], v |-> v]
        BY <1>3, <1>4 DEF ProcessOutputObject
    <2> HIDE DEF v, next
    <2>2. [Entered(x, v, info) EXCEPT !.next = next] = j
        BY <1>1 DEF Entered, Managers
    <2> QED BY <2>1, <2>2
<1>7. given[v] = NoContent
    BY <1>1, <1>5 DEF Handed
<1> HIDE DEF v, next, x
<1>8. e \in ObjectInfo /\ e.v = v /\ e.info.tpm = t /\ e.info.ctx = NoContent
    BY <1>1, <1>5 DEF ObjectInfo, HandleInfo, MaybeContent
<1> HIDE DEF e
<1>9. /\ Append(k.loaded, e) \in Seq(ObjectInfo) /\ UniqueV(Append(k.loaded, e))
      /\ Elements(Append(k.loaded, e)) = Items(k) \cup {e}
    BY <1>1, <1>5, <1>8, AppendIs DEF Slotted, Items
<1>10. /\ j \in Managers /\ j.objs = [k.objs EXCEPT ![t] = c] /\ j.t2v = [k.t2v EXCEPT ![t] = v]
       /\ j.loaded = Append(k.loaded, e) /\ j.unloaded = k.unloaded /\ j.cache = k.cache
       /\ j.suspended = k.suspended /\ j.lost = k.lost /\ j.seen = k.seen
       /\ j.room = k.room /\ j.ses = k.ses /\ j.sessions = k.sessions /\ j.lru = k.lru
    <2>1. /\ [k.objs EXCEPT ![t] = c] \in [Slots -> MaybeContent]
          /\ [k.t2v EXCEPT ![t] = v] \in [Slots -> Virtual \cup {None}]
        BY <1>1, <1>5 DEF MaybeContent
    <2> QED BY <1>1, <1>5, <1>9, <2>1 DEF Managers
<1>11. /\ g \in [Virtual -> MaybeContent] /\ g[v] = c /\ c # NoContent /\ c.obj # None
       /\ \A w \in Virtual : w # v => g[w] = given[w]
    BY <1>1, <1>5, Nothing DEF MaybeContent
<1>12. f.m = j /\ g = [given EXCEPT ![f.v] = c]
    <2> HIDE DEF j
    <2>1. f.m = j /\ f.v = v
        BY <1>6
    <2> QED BY <2>1, Zenon
<1> HIDE DEF j, g
<1>13. Items(j) = Items(k) \cup {e} /\ Tracked(j) = Tracked(k)
    BY <1>9, <1>10 DEF Items, Tracked
<1>14. Slotted(j, g)
    <2>1. ASSUME NEW y \in Items(j)
          PROVE  /\ j.t2v[y.info.tpm] = y.v
                 /\ j.unloaded[y.v] = NoInfo
                 /\ CopyOf(j.objs[y.info.tpm], g[y.v])
                 /\ y.info.ctx # NoContent => CopyOf(y.info.ctx, g[y.v])
        <3>1. CASE y = e
            <4>1. j.objs[t] = c /\ j.t2v[t] = v
                BY <1>1, <1>10
            <4>2. CopyOf(c, c)
                BY <1>11, TpmAssumption DEF CopyOf, Content
            <4> QED BY <1>5, <1>8, <1>10, <1>11, <3>1, <4>1, <4>2
        <3>2. CASE y \in Items(k)
            <4>1. /\ j.t2v[y.info.tpm] = k.t2v[y.info.tpm] /\ j.objs[y.info.tpm] = k.objs[y.info.tpm]
                  /\ g[y.v] = given[y.v]
                BY <1>1, <1>2, <1>5, <1>10, <1>11, <3>2
            <4> QED BY <1>1, <1>10, <3>2, <4>1 DEF Slotted
        <3> QED BY <1>13, <3>1, <3>2
    <2>2. \A s \in Slots : j.t2v[s] # None => \E y \in Items(j) : y.info.tpm = s
        BY <1>1, <1>8, <1>10, <1>13 DEF Slotted
    <2>3. v # None
        BY <1>5 DEF Virtual, None
    <2>4. \A s \in Slots : j.objs[s] # NoContent => j.t2v[s] # None
        BY <1>1, <1>10, <2>3 DEF Slotted
    <2> QED BY <1>9, <1>10, <2>1, <2>2, <2>4 DEF Slotted
<1>15. Handed(j, g)
    <2>1. \A w \in Virtual : j.unloaded[w] # NoInfo => CopyOf(j.unloaded[w].ctx, g[w])
        BY <1>1, <1>5, <1>10, <1>11 DEF Handed
    <2>2. \A w \in Virtual : g[w] # NoContent
                               <=> (j.unloaded[w] # NoInfo \/ \E y \in Items(j) : y.v = w)
        BY <1>1, <1>5, <1>8, <1>10, <1>11, <1>13 DEF Handed
    <2>3. \A w, u \in Virtual : g[w] # NoContent /\ g[w].obj = g[u].obj => w = u
        BY <1>1, <1>5, <1>11 DEF Handed
    <2>4. k.cache[v] = None
        BY <1>1, <1>5, <1>7 DEF Handed, NoContent
    <2>5. \A w \in Virtual : j.cache[w] # None => j.cache[w] = g[w].obj
        BY <1>1, <1>10, <1>11, <2>4 DEF Handed
    <2> QED BY <2>1, <2>2, <2>3, <2>5 DEF Handed
<1>16. Ordered(j) /\ Followed(j, held)
    BY <1>1, <1>10, <1>13 DEF Settled, Ordered, Followed, Fits, LoadedSessions
<1>17. Settled(j, g, held, started)
    BY <1>10, <1>11, <1>14, <1>15, <1>16 DEF Settled
<1> QED BY <1>12, <1>17

\* A session is started under a handle that no tracked session has, with a
\* number that no session had.
LEMMA SessionStarted ==
    ASSUME NEW k, Settled(k, given, held, started), ~k.lost, started < MaxSessions,
           NEW h \in FreeHandles(k), Cardinality(LoadedSessions(k)) < k.room,
           NEW sender \in Senders, NEW x,
           x = [k EXCEPT !.ses[h] = [sid |-> started + 1, loaded |-> TRUE, age |-> 0]]
    PROVE  Settled(ProcessOutputSession(x, h, sender, started + 1), given,
                   [held EXCEPT ![<<h, sender>>] = started + 1], started + 1)
<1> DEFINE key == <<h, sender>>
           s == [sid |-> started + 1, loaded |-> TRUE, age |-> 0]
           i == [loaded |-> TRUE, ctx |-> None, created |-> started + 1]
           j == [k EXCEPT !.ses = [k.ses EXCEPT ![h] = s],
                          !.sessions = [k.sessions EXCEPT ![key] = i],
                          !.lru = Append(k.lru, key)]
           g == [held EXCEPT ![key] = started + 1]
<1>1. /\ k \in Managers /\ k.ses \in [Handles -> TpmSession] /\ h \in Handles /\ k.ses[h].sid = None
      /\ k.sessions \in [SessionKeys -> SessionInfo \cup {NoSessionInfo}] /\ k.lru \in Seq(SessionKeys)
      /\ Ordered(k) /\ Followed(k, held) /\ held \in [SessionKeys -> 0..MaxSessions]
      /\ started \in 0..MaxSessions /\ started + 1 \in 1..MaxSessions
      /\ \A y \in SessionKeys : held[y] <= started
    BY TpmAssumption DEF Settled, Managers, FreeHandles
<1>2. key \in SessionKeys /\ key[1] = h
    BY <1>1 DEF SessionKeys
<1>3. \A y \in Tracked(k) : y \in SessionKeys /\ y[1] \in Handles /\ y[1] # h
    BY <1>1 DEF Followed, Tracked, SessionKeys
<1>4. key \notin Tracked(k) /\ k.sessions[key] = NoSessionInfo
    BY <1>2, <1>3 DEF Tracked
<1> HIDE DEF key
<1>5. s \in TpmSession /\ s.sid = started + 1 /\ s.loaded = TRUE
    BY <1>1, TpmAssumption DEF TpmSession
<1>6. i \in SessionInfo /\ i.loaded = TRUE /\ i # NoSessionInfo
    BY <1>1, TpmAssumption DEF SessionInfo, NoSessionInfo, None
<1>7. ProcessOutputSession(x, h, sender, started + 1) = j
    <2>1. x.sessions = k.sessions /\ x.lru = k.lru /\ key \notin Tracked(x)
        BY <1>1, <1>4 DEF Managers, Tracked
    <2>2. ProcessOutputSession(x, h, sender, started + 1) =
            [x EXCEPT !.sessions[key] = i, !.lru = Append(@, key)]
        BY <2>1 DEF ProcessOutputSession, key
    <2> HIDE DEF i, s
    <2>3. x = [k EXCEPT !.ses[h] = s]
        BY DEF s
    <2> QED BY <1>1, <2>2, <2>3 DEF Managers
<1> HIDE DEF i, s
<1>8. /\ Append(k.lru, key) \in Seq(SessionKeys) /\ Distinct(Append(k.lru, key))
      /\ Elements(Append(k.lru, key)) = Elements(k.lru) \cup {key}
    BY <1>1, <1>2, <1>4, AppendIs DEF Ordered
<1>9. /\ j \in Managers /\ j.room = k.room /\ j.ses = [k.ses EXCEPT ![h] = s] /\ j.sessions = [k.sessions EXCEPT ![key] = i]
      /\ j.lru = Append(k.lru, key) /\ j.objs = k.objs /\ j.t2v = k.t2v /\ j.loaded = k.loaded
      /\ j.unloaded = k.unloaded /\ j.cache = k.cache /\ j.suspended = k.suspended /\ j.seen = k.seen
    <2>1. /\ [k.ses EXCEPT ![h] = s] \in [Handles -> TpmSession]
          /\ [k.sessions EXCEPT ![key] = i] \in [SessionKeys -> SessionInfo \cup {NoSessionInfo}]
        BY <1>1, <1>2, <1>5, <1>6
    <2> QED BY <1>1, <1>8, <2>1 DEF Managers
<1>10. /\ g \in [SessionKeys -> 0..MaxSessions] /\ g[key] = started + 1
       /\ \A y \in SessionKeys : y # key => g[y] = held[y]
    BY <1>1, <1>2
<1> HIDE DEF j, g
<1>11. Tracked(j) = Tracked(k) \cup {key}
    BY <1>1, <1>2, <1>6, <1>9 DEF Tracked
<1>12. Ordered(j)
    BY <1>1, <1>8, <1>9, <1>11 DEF Ordered
<1>13. Followed(j, g)
    <2>1. ASSUME NEW y \in Tracked(j)
          PROVE  /\ g[y] # None
                 /\ j.ses[y[1]].sid = g[y]
                 /\ j.ses[y[1]].loaded = j.sessions[y].loaded
                 /\ ~j.sessions[y].loaded => j.sessions[y].ctx = g[y]
        <3>1. CASE y = key
            <4>1. j.ses[h] = s /\ j.sessions[key] = i
                BY <1>1, <1>2, <1>9
            <4>2. started + 1 # None
                BY <1>1 DEF None
            <4> QED BY <1>2, <1>5, <1>6, <1>10, <3>1, <4>1, <4>2
        <3>2. CASE y \in Tracked(k)
            <4>1. y \in SessionKeys /\ y # key /\ y[1] \in Handles /\ y[1] # h
                BY <1>3, <1>4, <3>2
            <4>2. j.ses[y[1]] = k.ses[y[1]] /\ j.sessions[y] = k.sessions[y] /\ g[y] = held[y]
                BY <1>1, <1>9, <1>10, <4>1
            <4> QED BY <1>1, <3>2, <4>2 DEF Followed
        <3> QED BY <1>11, <3>1, <3>2
    <2>2. \A y \in Handles : j.ses[y].sid # None => \E z \in Tracked(j) : z[1] = y
        BY <1>1, <1>2, <1>9, <1>11 DEF Followed
    <2>3. \A a, b \in SessionKeys : g[a] # None /\ g[a] = g[b] => a = b
        <3>1. \A y \in SessionKeys : held[y] # started + 1
            BY <1>1
        <3> QED BY <1>1, <1>10, <3>1 DEF Followed
    <2>4. Fits(j)
        <3>1. LoadedSessions(j) \subseteq LoadedSessions(k) \cup {h} /\ k.room \in Nat
            BY <1>1, <1>9 DEF LoadedSessions, Managers
        <3> QED BY <1>9, <3>1, OneMoreFits
    <2> QED BY <2>1, <2>2, <2>3, <2>4 DEF Followed
<1>14. \A y \in SessionKeys : g[y] <= started + 1
    BY <1>1, <1>10
<1>15. started + 1 \in 0..MaxSessions
    BY <1>1
<1>16. Settled(k, given, held, started + 1)
    BY <1>1, <1>15 DEF Settled
<1>17. Settled(j, given, g, started + 1)
    BY <1>9, <1>10, <1>12, <1>13, <1>14, <1>15, <1>16, SameSettled
<1> QED BY <1>7, <1>17 DEF g, key

\* The public area of an object is cached.
LEMMA PublicAreaCached ==
    ASSUME NEW k, Settled(k, given, held, started), NEW v \in Virtual, NEW o, o = given[v].obj
    PROVE  Settled([k EXCEPT !.cache[v] = o], given, held, started)
<1> DEFINE j == [k EXCEPT !.cache = [k.cache EXCEPT ![v] = o]]
<1>1. /\ k \in Managers /\ k.cache \in [Virtual -> Objects \cup {None}]
      /\ given \in [Virtual -> MaybeContent]
    BY DEF Settled, Managers
<1>2. o \in Objects \cup {None}
    BY <1>1 DEF MaybeContent, Content, NoContent
<1>3. [k.cache EXCEPT ![v] = o] \in [Virtual -> Objects \cup {None}]
    BY <1>1, <1>2
<1>4. /\ j \in Managers /\ j.cache = [k.cache EXCEPT ![v] = o]
      /\ j.room = k.room /\ j.ses = k.ses /\ j.sessions = k.sessions /\ j.lru = k.lru
      /\ j.objs = k.objs /\ j.t2v = k.t2v /\ j.loaded = k.loaded /\ j.unloaded = k.unloaded
      /\ j.suspended = k.suspended /\ j.lost = k.lost /\ j.seen = k.seen
    BY <1>1, <1>3 DEF Managers
<1>5. j = [k EXCEPT !.cache[v] = o]
    BY <1>1 DEF Managers
<1> HIDE DEF j
<1>6. Items(j) = Items(k) /\ Tracked(j) = Tracked(k)
    BY <1>4 DEF Items, Tracked
<1>7. Slotted(j, given)
    BY <1>4, <1>6 DEF Settled, Slotted
<1>8. Handed(j, given)
    <2>1. \A w \in Virtual : j.cache[w] # None => j.cache[w] = given[w].obj
        BY <1>1, <1>4 DEF Settled, Handed
    <2> QED BY <1>4, <1>6, <2>1 DEF Settled, Handed
<1>9. Ordered(j) /\ (~j.lost => Followed(j, held))
    BY <1>4, <1>6 DEF Settled, Ordered, Followed, Fits, LoadedSessions
<1>10. Settled(j, given, held, started)
    BY <1>4, <1>6, <1>7, <1>8, <1>9 DEF Settled
<1> QED BY <1>5, <1>10

\* An object is flushed: what remains of it is nothing, and its handle stands
\* for nothing.
LEMMA ObjectFlushed ==
    ASSUME NEW k, Settled(k, given, held, started), NEW v \in Virtual, Known(k, v)
    PROVE  Settled(IF IsLoaded(k, v)
                   THEN CleanupFlushedObject([k EXCEPT !.objs[InfoOf(k, v).tpm] = NoContent], v)
                   ELSE CleanupFlushedObject(k, v),
                   [given EXCEPT ![v] = NoContent], held, started)
<1> DEFINE g == [given EXCEPT ![v] = NoContent]
           cache == [k.cache EXCEPT ![v] = None]
<1>1. /\ k \in Managers /\ k.objs \in [Slots -> MaybeContent] /\ given \in [Virtual -> MaybeContent]
      /\ Slotted(k, given) /\ Handed(k, given) /\ Ordered(k) /\ (~k.lost => Followed(k, held))
      /\ k.t2v \in [Slots -> Virtual \cup {None}] /\ k.loaded \in Seq(ObjectInfo)
      /\ k.unloaded \in [Virtual -> HandleInfo \cup {NoInfo}]
      /\ k.cache \in [Virtual -> Objects \cup {None}]
    BY DEF Settled, Managers
<1>2. /\ g \in [Virtual -> MaybeContent] /\ g[v] = NoContent
      /\ \A w \in Virtual : w # v => g[w] = given[w]
    BY <1>1 DEF MaybeContent
<1>3. /\ cache \in [Virtual -> Objects \cup {None}] /\ cache[v] = None
      /\ \A w \in Virtual : w # v => cache[w] = k.cache[w]
    BY <1>1
<1> HIDE DEF cache
<1>4. CASE ~IsLoaded(k, v)
    <2> DEFINE j == [k EXCEPT !.unloaded = [k.unloaded EXCEPT ![v] = NoInfo], !.cache = cache]
    <2>1. k.unloaded[v] # NoInfo /\ \A e \in Items(k) : e.v # v
        BY <1>1, <1>4, KnownIs
    <2>2. j = CleanupFlushedObject(k, v)
        BY <1>1, <2>1 DEF CleanupFlushedObject, Managers, cache
    <2>3. /\ j \in Managers /\ j.unloaded = [k.unloaded EXCEPT ![v] = NoInfo] /\ j.cache = cache
          /\ j.room = k.room /\ j.ses = k.ses /\ j.sessions = k.sessions /\ j.lru = k.lru
          /\ j.objs = k.objs /\ j.t2v = k.t2v /\ j.loaded = k.loaded
          /\ j.suspended = k.suspended /\ j.lost = k.lost /\ j.seen = k.seen
        <3>1. [k.unloaded EXCEPT ![v] = NoInfo] \in [Virtual -> HandleInfo \cup {NoInfo}]
            BY <1>1
        <3> QED BY <1>1, <1>3, <3>1 DEF Managers
    <2> HIDE DEF j, g
    <2>4. Items(j) = Items(k) /\ Tracked(j) = Tracked(k)
        BY <2>3 DEF Items, Tracked
    <2>5. \A e \in Items(k) : e.v \in Virtual /\ e.v # v
        BY <1>1, <2>1, ItemsTyped
    <2>6. Slotted(j, g)
        <3>1. \A e \in Items(k) : j.unloaded[e.v] = k.unloaded[e.v] /\ g[e.v] = given[e.v]
            BY <1>1, <1>2, <2>3, <2>5
        <3> QED BY <1>1, <2>3, <2>4, <3>1 DEF Slotted
    <2>7. Handed(j, g)
        <3>1. \A w \in Virtual : j.unloaded[w] # NoInfo => w # v /\ j.unloaded[w] = k.unloaded[w]
            BY <1>1, <2>3
        <3>2. \A w \in Virtual : j.unloaded[w] # NoInfo => CopyOf(j.unloaded[w].ctx, g[w])
            BY <1>1, <1>2, <3>1 DEF Handed
        <3>3. \A w \in Virtual : g[w] # NoContent
                                   <=> (j.unloaded[w] # NoInfo \/ \E e \in Items(j) : e.v = w)
            BY <1>1, <1>2, <2>3, <2>4, <2>5 DEF Handed
        <3>4. \A w, u \in Virtual : g[w] # NoContent /\ g[w].obj = g[u].obj => w = u
            BY <1>1, <1>2, Nothing DEF Handed, NoContent, MaybeContent
        <3>5. \A w \in Virtual : j.cache[w] # None => j.cache[w] = g[w].obj
            BY <1>1, <1>2, <1>3, <2>3 DEF Handed
        <3> QED BY <3>2, <3>3, <3>4, <3>5 DEF Handed
    <2>8. Ordered(j) /\ (~j.lost => Followed(j, held))
        BY <1>1, <2>3, <2>4 DEF Ordered, Followed, Fits, LoadedSessions
    <2>9. Settled(j, g, held, started)
        BY <1>2, <2>3, <2>4, <2>6, <2>7, <2>8 DEF Settled
    <2> QED BY <1>4, <2>2, <2>9 DEF g
<1>5. CASE IsLoaded(k, v)
    <2> DEFINE a == Least(IndexOf(k, v))
               e == k.loaded[a]
               t == e.info.tpm
               x == [k EXCEPT !.objs[t] = NoContent]
               j == [k EXCEPT !.objs = [k.objs EXCEPT ![t] = NoContent],
                              !.t2v = [k.t2v EXCEPT ![t] = None],
                              !.loaded = RemoveAt(k.loaded, a),
                              !.cache = cache]
    <2>1. a \in DOMAIN k.loaded /\ e.v = v /\ a \in IndexOf(k, v)
        <3>1. IndexOf(k, v) \in SUBSET Nat /\ IndexOf(k, v) # {}
            BY <1>1, <1>5 DEF IndexOf, IsLoaded
        <3>2. a \in IndexOf(k, v)
            BY <3>1, LeastIs
        <3> QED BY <3>2 DEF IndexOf
    <2>2. InfoOf(k, v).tpm = t
        BY DEF InfoOf
    <2>3. e \in Items(k) /\ t \in Slots /\ k.unloaded[v] = NoInfo
        <3>1. e \in Items(k)
            BY <2>1 DEF Items, Elements
        <3> QED BY <1>1, <2>1, <3>1, ItemsTyped DEF Slotted
    <2>4. /\ RemoveAt(k.loaded, a) \in Seq(ObjectInfo) /\ UniqueV(RemoveAt(k.loaded, a))
          /\ Elements(RemoveAt(k.loaded, a)) = Items(k) \ {e}
        <3> HIDE DEF a
        <3>1. UniqueV(k.loaded) /\ \A b \in DOMAIN k.loaded : k.loaded[b] = k.loaded[a] => b = a
            BY <1>1, <2>1 DEF Slotted, UniqueV
        <3>2. a \in DOMAIN k.loaded
            BY <2>1
        <3> QED BY <1>1, <3>1, <3>2, RemoveAtIs DEF Items
    <2>5. j = CleanupFlushedObject(x, v)
        <3> HIDE DEF a
        <3>1. x.loaded = k.loaded /\ x.unloaded = k.unloaded
            BY <1>1 DEF Managers
        <3>2. IndexOf(x, v) = IndexOf(k, v) /\ IsLoaded(x, v)
            BY <1>5, <3>1 DEF IndexOf, IsLoaded
        <3>3. InfoOf(x, v).tpm = t /\ Least(IndexOf(x, v)) = a
            BY <3>1, <3>2 DEF InfoOf, a
        <3>4. CleanupFlushedObject(x, v) =
                [x EXCEPT !.t2v[t] = None, !.loaded = RemoveAt(@, a), !.cache[v] = None]
            BY <2>3, <3>1, <3>2, <3>3 DEF CleanupFlushedObject
        <3> HIDE DEF t
        <3> QED BY <1>1, <2>3, <3>4 DEF Managers, cache
    <2> HIDE DEF a
    <2>6. /\ j \in Managers
          /\ j.objs = [k.objs EXCEPT ![t] = NoContent] /\ j.t2v = [k.t2v EXCEPT ![t] = None]
          /\ j.loaded = RemoveAt(k.loaded, a) /\ j.cache = cache
          /\ j.room = k.room /\ j.ses = k.ses /\ j.sessions = k.sessions /\ j.lru = k.lru /\ j.unloaded = k.unloaded
          /\ j.suspended = k.suspended /\ j.lost = k.lost /\ j.seen = k.seen
        <3>1. /\ [k.objs EXCEPT ![t] = NoContent] \in [Slots -> MaybeContent]
              /\ [k.t2v EXCEPT ![t] = None] \in [Slots -> Virtual \cup {None}]
            BY <1>1, <2>3 DEF MaybeContent
        <3> HIDE DEF t
        <3> QED BY <1>1, <1>3, <2>4, <3>1 DEF Managers
    <2>7. x = [k EXCEPT !.objs[InfoOf(k, v).tpm] = NoContent]
        BY <2>2
    <2> HIDE DEF j, x, g, e
    <2>8. Items(j) = Items(k) \ {e} /\ Tracked(j) = Tracked(k)
        BY <2>4, <2>6 DEF Items, Tracked
    <2>9. ASSUME NEW y \in Items(j)
          PROVE  y \in Items(k) /\ y.v \in Virtual /\ y.v # v /\ y.info.tpm \in Slots /\ y.info.tpm # t
        <3>1. y \in Items(k) /\ y # e /\ y.v \in Virtual /\ y.info.tpm \in Slots
            BY <1>1, <2>8, ItemsTyped
        <3>2. y.v # v
            BY <1>1, <2>1, <2>3, <3>1 DEF Slotted, UniqueV, Items, Elements
        <3>3. k.t2v[y.info.tpm] = y.v /\ k.t2v[t] = v
            BY <1>1, <2>1, <2>3, <3>1 DEF Slotted
        <3> QED BY <3>1, <3>2, <3>3
    <2>10. Slotted(j, g)
        <3>1. ASSUME NEW y \in Items(j)
              PROVE  /\ j.t2v[y.info.tpm] = y.v
                     /\ j.unloaded[y.v] = NoInfo
                     /\ CopyOf(j.objs[y.info.tpm], g[y.v])
                     /\ y.info.ctx # NoContent => CopyOf(y.info.ctx, g[y.v])
            <4>1. /\ j.t2v[y.info.tpm] = k.t2v[y.info.tpm] /\ j.objs[y.info.tpm] = k.objs[y.info.tpm]
                  /\ g[y.v] = given[y.v] /\ y \in Items(k)
                BY <1>1, <1>2, <2>6, <2>9
            <4> QED BY <1>1, <2>6, <4>1 DEF Slotted
        <3>2. \A s \in Slots : j.t2v[s] # None => \E y \in Items(j) : y.info.tpm = s
            BY <1>1, <2>6, <2>8 DEF Slotted, t
        <3>3. \A s \in Slots : j.objs[s] # NoContent => j.t2v[s] # None
            BY <1>1, <2>6 DEF Slotted
        <3> QED BY <2>4, <2>6, <3>1, <3>2, <3>3 DEF Slotted
    <2>11. Handed(j, g)
        <3>1. \A w \in Virtual : j.unloaded[w] # NoInfo => CopyOf(j.unloaded[w].ctx, g[w])
            BY <1>1, <1>2, <2>3, <2>6 DEF Handed
        <3>2. \A w \in Virtual : g[w] # NoContent
                                   <=> (j.unloaded[w] # NoInfo \/ \E y \in Items(j) : y.v = w)
            BY <1>1, <1>2, <2>1, <2>3, <2>6, <2>8, <2>9 DEF Handed
        <3>3. \A w, u \in Virtual : g[w] # NoContent /\ g[w].obj = g[u].obj => w = u
            BY <1>1, <1>2, Nothing DEF Handed, NoContent, MaybeContent
        <3>4. \A w \in Virtual : j.cache[w] # None => j.cache[w] = g[w].obj
            BY <1>1, <1>2, <1>3, <2>6 DEF Handed
        <3> QED BY <3>1, <3>2, <3>3, <3>4 DEF Handed
    <2>12. Ordered(j) /\ (~j.lost => Followed(j, held))
        BY <1>1, <2>6, <2>8 DEF Ordered, Followed, Fits, LoadedSessions
    <2>13. Settled(j, g, held, started)
        BY <1>2, <2>6, <2>8, <2>10, <2>11, <2>12 DEF Settled
    <2> QED BY <1>5, <2>5, <2>7, <2>13 DEF g
<1> QED BY <1>4, <1>5

\* Suspending, waking or losing what is loaded in the TPM's sleep.
LEMMA SuspendedChanged ==
    ASSUME NEW k, Settled(k, given, held, started), NEW s \in BOOLEAN, s => Items(k) = {}
    PROVE  Settled([k EXCEPT !.suspended = s], given, held, started)
<1> DEFINE j == [k EXCEPT !.suspended = s]
<1>1. /\ j \in Managers /\ j.suspended = s /\ j.cache = k.cache
      /\ j.room = k.room /\ j.ses = k.ses /\ j.sessions = k.sessions /\ j.lru = k.lru
      /\ j.objs = k.objs /\ j.t2v = k.t2v /\ j.loaded = k.loaded /\ j.unloaded = k.unloaded
      /\ j.lost = k.lost /\ j.seen = k.seen
    BY DEF Settled, Managers
<1> HIDE DEF j
<1>2. Items(j) = Items(k) /\ Tracked(j) = Tracked(k)
    BY <1>1 DEF Items, Tracked
<1>3. Slotted(j, given)
    BY <1>1, <1>2 DEF Settled, Slotted
<1>4. Handed(j, given)
    BY <1>1, <1>2 DEF Settled, Handed
<1>5. Ordered(j) /\ (~j.lost => Followed(j, held))
    BY <1>1, <1>2 DEF Settled, Ordered, Followed, Fits, LoadedSessions
<1>6. Settled(j, given, held, started)
    BY <1>1, <1>2, <1>3, <1>4, <1>5 DEF Settled
<1> QED BY <1>6 DEF j

\* Nothing of the objects is lost while the TPM sleeps if none is loaded.
LEMMA Slept ==
    ASSUME NEW k, Settled(k, given, held, started), Items(k) = {}
    PROVE  Settled([k EXCEPT !.objs = [t \in Slots |-> NoContent],
                             !.ses = [h \in Handles |-> IF @[h].loaded THEN NoSession ELSE @[h]],
                             !.lost = @ \/ LoadedSessions(k) # {} \/ k.loaded # <<>>],
                   given, held, started)
<1> DEFINE objs == [t \in Slots |-> NoContent]
           ses == [h \in Handles |-> IF k.ses[h].loaded THEN NoSession ELSE k.ses[h]]
           gone == k.lost \/ LoadedSessions(k) # {} \/ k.loaded # <<>>
           j == [k EXCEPT !.objs = objs, !.ses = ses, !.lost = gone]
<1>1. /\ k \in Managers /\ k.ses \in [Handles -> TpmSession] /\ Items(k) = {}
      /\ k.lost \in BOOLEAN
    BY DEF Settled, Managers
<1>2. objs \in [Slots -> MaybeContent] /\ \A t \in Slots : objs[t] = NoContent
    BY DEF MaybeContent
<1>3. ses \in [Handles -> TpmSession]
    <2>1. NoSession \in TpmSession
        BY TpmAssumption DEF NoSession, TpmSession, None
    <2> QED BY <1>1, <2>1
<1>4. j = [k EXCEPT !.objs = [t \in Slots |-> NoContent],
                    !.ses = [h \in Handles |-> IF @[h].loaded THEN NoSession ELSE @[h]],
                    !.lost = @ \/ LoadedSessions(k) # {} \/ k.loaded # <<>>]
    BY <1>1 DEF Managers
<1>5. ASSUME ~gone, NEW h \in Handles
      PROVE  /\ ses[h].sid = k.ses[h].sid
             /\ k.ses[h].sid # None => ses[h].loaded = k.ses[h].loaded
    <2>1. CASE ~k.ses[h].loaded
        BY <2>1
    <2>2. CASE k.ses[h].loaded
        <3>1. k.ses[h].sid = None
            BY <1>5, <2>2 DEF LoadedSessions
        <3> QED BY <2>2, <3>1 DEF NoSession
    <2> QED BY <2>1, <2>2
<1>6. /\ j \in Managers /\ j.room = k.room /\ j.objs = objs /\ j.ses = ses /\ j.lost = gone
      /\ j.sessions = k.sessions /\ j.lru = k.lru /\ j.suspended = k.suspended /\ j.cache = k.cache
      /\ j.t2v = k.t2v /\ j.loaded = k.loaded /\ j.unloaded = k.unloaded /\ j.seen = k.seen
    <2> HIDE DEF objs, ses
    <2>1. gone \in BOOLEAN
        BY <1>1
    <2> HIDE DEF gone
    <2> QED BY <1>1, <1>2, <1>3, <2>1 DEF Managers
<1> HIDE DEF j, objs, ses
<1>7. Items(j) = {} /\ Tracked(j) = Tracked(k)
    BY <1>1, <1>6 DEF Items, Tracked
<1>8. Slotted(j, given)
    BY <1>1, <1>2, <1>6, <1>7 DEF Settled, Slotted
<1>9. Handed(j, given)
    BY <1>1, <1>6, <1>7 DEF Settled, Handed
<1>10. Ordered(j) /\ (~j.lost => Followed(j, held))
    <2>1. \A key \in Tracked(k) : key[1] \in Handles
        BY DEF Tracked, SessionKeys
    <2>2. ASSUME ~gone
          PROVE  Followed(j, held)
        <3>1. Followed(k, held)
            BY <2>2 DEF Settled
        <3>2. LoadedSessions(j) \subseteq LoadedSessions(k)
            BY <1>5, <1>6, <2>2 DEF LoadedSessions
        <3>3. Fits(j)
            <4>1. Fits(k) /\ k.room \in Nat
                BY <1>1, <3>1 DEF Followed, Managers
            <4> QED BY <1>6, <3>2, <4>1, StillFits
        <3> HIDE DEF gone
        <3> QED BY <1>5, <1>6, <1>7, <2>1, <2>2, <3>1, <3>3 DEF Followed
    <2> QED BY <1>6, <1>7, <2>2 DEF Settled, Ordered
<1>11. Settled(j, given, held, started)
    BY <1>6, <1>7, <1>8, <1>9, <1>10 DEF Settled
<1> QED BY <1>4, <1>11

-----------------------------------------------------------------------------
(***************************************************************************)
(* Commands.                                                               *)
(***************************************************************************)

\* A command as Next allows it.
Asked(k, cmd) ==
    /\ Holds(k, cmd)
    /\ Len(cmd.sessions) <= 1 /\ Elements(cmd.sessions) \subseteq Tracked(k)
    /\ ~cmd.continue => cmd.sessions # <<>>
    /\ cmd.kind \in {"create", "start", "readpublic"} => cmd.sessions = <<>>
    /\ cmd.kind = "create" => /\ Len(cmd.handles) <= 1 /\ ~k.suspended
                              /\ cmd.new \in Content /\ \A v \in Virtual : given[v].obj # cmd.new.obj
    /\ cmd.kind = "start" => started < MaxSessions /\ cmd.handles = <<>>
    /\ cmd.kind = "update" => cmd.handles # <<>> /\ given[cmd.handles[1]].ver \in 1..(MaxVersion - 1)
    /\ cmd.kind = "readpublic" => cmd.handles # <<>>

\* Away from the gap no command fails for want of a session.
LEMMA SessionsServed ==
    ASSUME NEW k, Good(k), k.seen = {}, NEW cmd, Asked(k, cmd), MaxGap > 3, ~NearGap(k),
           cmd.kind = "start" \/ cmd.sessions # <<>>,
           cmd.kind = "start" => FreeHandles(k) # {}
    PROVE  PrepareAndExecute(k, cmd).rc = "ok"
<1> DEFINE k1 == UpdateLru(k, cmd)
           p1 == ProcessInputHandles(k1, cmd)
           key == cmd.sessions[1]
           e == EnsureSessionIsLoaded(p1.m, cmd, key)
           p == Prepare(k, cmd)
<1>1. Near(k, k1, cmd) /\ Tracked(k1) = Tracked(k) /\ k1.ses = k.ses
    BY UpdateLruNear
<1>2. p = IF p1.rc # "ok" \/ cmd.sessions = <<>> THEN p1 ELSE [p1 EXCEPT !.m = e.m, !.rc = e.rc]
    BY DEF Prepare, WithSession
<1>3. /\ Near(k, p.m, cmd)
      /\ p.rc = "ok" => Loaded(p, k, cmd)
      /\ cmd.sessions = <<>> => p.rc = "ok"
    BY PrepareIs DEF Asked
<1>4. PrepareAndExecute(k, cmd) = IF p.rc # "ok" THEN p ELSE Execute(p.m, cmd, p.slots)
    BY DEF PrepareAndExecute, ExecutePrepared
<1> HIDE DEF k1, p
<1>5. Good(k1) /\ k1.seen = {} /\ Holds(k1, cmd) /\ Holds(k, cmd) /\ cmd \in Commands
    BY <1>1 DEF Near, Asked, Holds
<1>6. Far(k1, 3)
    <2>1. k \in Managers /\ 3 \in Nat
        BY DEF Good
    <2>2. Far(k, 3)
        BY <2>1, FarIs
    <2> QED BY <1>1, <2>2, FarSame
<1>7. Loaded(p1, k1, cmd) /\ Far(p1.m, 1)
    BY <1>5, <1>6, ProcessInputHandlesLoads
<1>8. p1.rc = "ok" /\ Near(k1, p1.m, cmd)
    BY <1>7 DEF Loaded
<1>9. CASE cmd.kind = "start"
    <2>1. cmd.sessions = <<>> /\ cmd.handles = <<>>
        BY <1>9 DEF Asked
    <2>2. p1.m = k1
        BY <2>1 DEF ProcessInputHandles, ProcessHandle
    <2> HIDE DEF p1
    <2>3. p = p1 /\ p.rc = "ok" /\ Loaded(p, k, cmd)
        BY <1>2, <1>3, <1>8, <2>1
    <2>4. FreeHandles(p.m) # {}
        BY <1>1, <1>9, <2>2, <2>3, FarSame
    <2>5. Execute(p.m, cmd, p.slots).rc = "ok"
        BY <1>5, <1>7, <1>9, <2>1, <2>3, <2>4, StartSucceeds
    <2> QED BY <1>4, <2>3, <2>5
<1>10. CASE cmd.sessions # <<>>
    <2> HIDE DEF p1
    <2>1. /\ cmd.sessions \in Seq(SessionKeys) /\ Len(cmd.sessions) = 1
          /\ DOMAIN cmd.sessions = {1} /\ Elements(cmd.sessions) = {key}
        <3>1. cmd.sessions \in Seq(SessionKeys) /\ Len(cmd.sessions) <= 1
            BY <1>5 DEF Commands, Asked
        <3>2. Len(cmd.sessions) = 1
            <4> DEFINE n == Len(cmd.sessions)
            <4>1. n \in Nat /\ n # 0 /\ n <= 1
                BY <1>10, <3>1
            <4> HIDE DEF n
            <4>2. n = 1
                BY <4>1
            <4> QED BY <4>2 DEF n
        <3>3. DOMAIN cmd.sessions = {1}
            BY <3>1, <3>2
        <3> QED BY <3>1, <3>2, <3>3 DEF Elements
    <2>2. cmd.kind \in {"use", "update"}
        BY <1>5, <1>10 DEF Asked, Commands
    <2>3. key \in Tracked(p1.m) /\ Good(p1.m) /\ p1.m.seen = {}
        BY <1>1, <1>8, <2>1 DEF Asked, Near
    <2>4. e.rc = "ok" /\ e.m.sessions[key].loaded
        BY <1>7, <2>1, <2>3, SessionGetsLoaded
    <2> HIDE DEF e
    <2>5. p.rc = "ok" /\ p.m = e.m
        <3>1. PICK a, b : p1 = [m |-> a, rc |-> "ok", slots |-> b]
            BY <1>7 DEF Loaded
        <3>2. p = [p1 EXCEPT !.m = e.m, !.rc = e.rc]
            BY <1>2, <1>8, <1>10
        <3> QED BY <2>4, <3>1, <3>2
    <2>6. Loaded(p, k, cmd) /\ Good(p.m) /\ Near(p.m, p.m, cmd) /\ key \in Tracked(p.m)
        BY <1>3, <2>1, <2>5 DEF Near, Asked
    <2>7. key[1] \in LoadedSessions(p.m)
        <3>1. key[1] \in Handles
            BY <2>6 DEF Tracked, SessionKeys
        <3> HIDE DEF key
        <3>2. p.m.ses[key[1]].sid # None /\ p.m.ses[key[1]].loaded
            BY <2>4, <2>5, <2>6 DEF Good, Followed
        <3> QED BY <3>1, <3>2 DEF LoadedSessions
    <2>8. InSlots(p.m, cmd, p.slots)
        BY <1>5, <2>6, LoadedInSlots
    <2>9. TpmExecute(p.m, cmd, p.slots).rc = "ok"
        BY <2>1, <2>2, <2>7, <2>8, ExecutesAtOnce
    <2>10. Execute(p.m, cmd, p.slots).rc = "ok"
        <3> DEFINE req == [op |-> "execute", slots |-> p.slots]
        <3>1. /\ Execute(p.m, cmd, p.slots) = SendFixing(p.m, cmd, req, InsideFix(cmd))
              /\ TpmSend(p.m, cmd, req) = TpmExecute(p.m, cmd, p.slots)
            BY DEF Execute, Send, TpmSend
        <3> HIDE DEF req
        <3> QED BY <2>9, <3>1, FirstAttempt
    <2> QED BY <1>4, <2>5, <2>10
<1> QED BY <1>9, <1>10

\* What a client is answered is about what it holds.
LEMMA AnswerIsRight ==
    ASSUME NEW cmd, NEW k, Good(k), NEW slots, InSlots(k, cmd, slots),
           Elements(cmd.sessions) \subseteq Tracked(k),
           NEW x, NEW new, NEW r, r = Done(k, x, cmd, slots, new), NEW f, Succeeds(cmd, r, f)
    PROVE  last'.right /\ last'.objects /\ last'.sessions
<1> DEFINE objs == [i \in DOMAIN cmd.handles |-> given[cmd.handles[i]]]
           Right == /\ \A i \in DOMAIN objs : objs[i].obj = r.acted[i].obj
                    /\ \A i \in DOMAIN cmd.sessions : held[cmd.sessions[i]] = r.sids[i]
<1>1. /\ r.acted = [i \in DOMAIN slots |-> k.objs[slots[i]]]
      /\ r.sids = [i \in DOMAIN cmd.sessions |-> k.ses[cmd.sessions[i][1]].sid]
    BY DEF Done
<1>2. last' = [AsExpected EXCEPT !.right = Right, !.latest = (r.acted = objs)]
    BY DEF Succeeds
<1>3. Right
    <2>1. ASSUME NEW i \in DOMAIN objs
          PROVE  objs[i].obj = r.acted[i].obj
        <3>1. i \in DOMAIN slots /\ CopyOf(k.objs[slots[i]], given[cmd.handles[i]])
            BY DEF InSlots
        <3> QED BY <1>1, <3>1 DEF CopyOf
    <2>2. ASSUME NEW i \in DOMAIN cmd.sessions
          PROVE  held[cmd.sessions[i]] = r.sids[i]
        <3>1. cmd.sessions[i] \in Tracked(k)
            BY DEF Elements
        <3>2. k.ses[cmd.sessions[i][1]].sid = held[cmd.sessions[i]]
            BY <3>1 DEF Good, Followed
        <3> QED BY <1>1, <3>2
    <2> QED BY <2>1, <2>2
<1>4. last' = [AsExpected EXCEPT !.right = TRUE, !.latest = (r.acted = objs)]
    BY <1>2, <1>3, Zenon
<1> QED BY <1>4 DEF AsExpected

\* What follows a command that succeeded keeps the invariant.
LEMMA SuccessKeeps ==
    ASSUME NEW cmd, NEW k, Settled(k, given, held, started), ~k.lost, Asked(k, cmd),
           NEW slots, InSlots(k, cmd, slots),
           NEW r, r = TpmExecute(k, cmd, slots), r.rc = "ok", Succeeds(cmd, r, Finish(r, cmd))
    PROVE  IInv' /\ last'.sessions
<1> DEFINE f == Finish(r, cmd)
           End(x) == EndSession(IF cmd.continue THEN x ELSE TpmFlushSession(x, cmd.sessions[1][1]), cmd)
           Left == IF cmd.continue THEN held ELSE [held EXCEPT ![cmd.sessions[1]] = None]
<1>1. Good(k) /\ cmd \in Commands /\ Elements(cmd.sessions) \subseteq Tracked(k)
    BY GoodIsSettled DEF Asked, Holds
<1>2. \A i \in DOMAIN cmd.sessions : cmd.sessions[i][1] \in LoadedSessions(k)
    BY ExecutedHasSessions
<1>3. ASSUME NEW x, NEW new, r = Done(k, x, cmd, slots, new)
      PROVE  last'.right /\ last'.objects /\ last'.sessions /\ EndSession(r.m, cmd) = End(x) /\ r.new = new
    <2>1. last'.right /\ last'.objects /\ last'.sessions
        BY <1>1, <1>3, AnswerIsRight
    <2>2. r.m = (IF cmd.continue THEN x ELSE TpmFlushSession(x, cmd.sessions[1][1])) /\ r.new = new
        BY <1>3 DEF Done
    <2> QED BY <2>1, <2>2
<1>4. ~cmd.continue => cmd.sessions[1] \in Tracked(k)
    <2>1. cmd.sessions \in Seq(SessionKeys)
        BY <1>1 DEF Commands
    <2>2. cmd.sessions # <<>> => 1 \in DOMAIN cmd.sessions
        BY <2>1
    <2> QED BY <1>1, <2>2 DEF Asked, Elements
<1>5. CASE cmd.kind = "use"
    <2>1. r = Done(k, k, cmd, slots, None)
        BY <1>2, <1>5, ExecutesOnLoaded
    <2>2. last'.right /\ last'.objects /\ last'.sessions /\ EndSession(r.m, cmd) = End(k)
        BY <1>3, <2>1
    <2>3. f = [m |-> EndSession(r.m, cmd), v |-> None]
        BY <1>5 DEF Finish
    <2>4. m' = f.m /\ given' = given /\ held' = Left /\ started' = started
        BY <1>5 DEF Succeeds
    <2>5. Settled(End(k), given, Left, started)
        BY <1>4, SessionEnds
    <2>6. m' = End(k)
        BY <2>2, <2>3, <2>4
    <2> QED BY <2>2, <2>4, <2>5, <2>6 DEF IInv
<1>6. CASE cmd.kind = "update"
    <2> DEFINE v == cmd.handles[1]
               t == slots[1]
               x == [k EXCEPT !.objs[slots[1]].ver = @ + 1]
               g == [given EXCEPT ![v].ver = @ + 1]
    <2>1. r = Done(k, x, cmd, slots, None)
        BY <1>2, <1>6, ExecutesOnLoaded
    <2>2. last'.right /\ last'.objects /\ last'.sessions /\ EndSession(r.m, cmd) = End(x)
        <3> HIDE DEF x
        <3> QED BY <1>3, <2>1
    <2>3. f = [m |-> EndSession(r.m, cmd), v |-> None]
        BY <1>6 DEF Finish
    <2>4. m' = f.m /\ given' = g /\ held' = Left /\ started' = started
        BY <1>6 DEF Succeeds
    <2>5. v \in Virtual /\ t \in Slots /\ InSlot(k, v, t) /\ given[v].ver \in 1..(MaxVersion - 1)
        <3>1. cmd.handles \in Seq(Virtual) /\ cmd.handles # <<>> /\ given[v].ver \in 1..(MaxVersion - 1)
            BY <1>1, <1>6 DEF Commands, Asked
        <3>2. 1 \in DOMAIN cmd.handles /\ v \in Virtual
            BY <3>1
        <3> QED BY <3>1, <3>2 DEF InSlots
    <2>6. Settled(x, g, held, started)
        BY <2>5, ObjectUpdated
    <2>7. Tracked(x) = Tracked(k) /\ ~x.lost
        BY <1>1 DEF Tracked, Good, Managers
    <2> HIDE DEF x, g
    <2>8. Settled(End(x), g, Left, started)
        BY <1>4, <2>6, <2>7, SessionEnds
    <2>9. m' = End(x)
        BY <2>2, <2>3, <2>4
    <2> QED BY <2>2, <2>4, <2>8, <2>9 DEF IInv
<1>7. CASE cmd.kind = "readpublic"
    <2> DEFINE v == cmd.handles[1]
               o == r.acted[1].obj
               j == [k EXCEPT !.cache[v] = o]
    <2>1. r = Done(k, k, cmd, slots, None)
        BY <1>2, <1>7, ExecutesOnLoaded
    <2>2. cmd.continue /\ cmd.sessions = <<>>
        BY <1>1, <1>7 DEF Asked, Commands
    <2>3. last'.right /\ last'.objects /\ last'.sessions /\ EndSession(r.m, cmd) = k
        BY <1>3, <2>1, <2>2 DEF EndSession
    <2>4. f = [m |-> [EndSession(r.m, cmd) EXCEPT !.cache[v] = o], v |-> None]
        BY <1>7, <2>2 DEF Finish
    <2>5. m' = f.m /\ given' = given /\ held' = held /\ started' = started
        BY <1>7, <2>2 DEF Succeeds
    <2>6. v \in Virtual /\ o = given[v].obj
        <3>1. cmd.handles \in Seq(Virtual) /\ cmd.handles # <<>>
            BY <1>1, <1>7 DEF Commands, Asked
        <3>2. 1 \in DOMAIN slots /\ v \in Virtual /\ CopyOf(k.objs[slots[1]], given[v])
            BY <3>1 DEF InSlots
        <3>3. r.acted = [i \in DOMAIN slots |-> k.objs[slots[i]]]
            BY <2>1 DEF Done
        <3> QED BY <3>2, <3>3 DEF CopyOf
    <2>7. Settled(j, given, held, started)
        <3> HIDE DEF o
        <3> QED BY <2>6, PublicAreaCached
    <2>8. m' = j
        <3> HIDE DEF o
        <3> QED BY <2>3, <2>4, <2>5
    <2> QED BY <2>3, <2>5, <2>7, <2>8 DEF IInv
<1>8. CASE cmd.kind = "create"
    <2> DEFINE t == Least(FreeSlots(k))
               x == [k EXCEPT !.objs[t] = cmd.new]
               p == ProcessOutputObject(x, t, cmd.sender)
    <2>1. FreeSlots(k) # {}
        BY <1>2, <1>8, ExecutesOnLoaded DEF Short
    <2>2. r = Done(k, x, cmd, slots, t)
        BY <1>2, <1>8, <2>1, ExecutesOnLoaded
    <2>3. cmd.continue /\ cmd.sessions = <<>>
        BY <1>1, <1>8 DEF Asked, Commands
    <2>4. t \in FreeSlots(k)
        <3>1. FreeSlots(k) \in SUBSET Nat
            BY DEF FreeSlots, Slots
        <3> QED BY <2>1, <3>1, LeastIs
    <2> HIDE DEF t
    <2>5. last'.right /\ last'.objects /\ last'.sessions /\ EndSession(r.m, cmd) = x /\ r.new = t /\ r.m = x
        <3> HIDE DEF x
        <3>1. r.m = x
            BY <2>2, <2>3 DEF Done
        <3> QED BY <1>3, <2>2, <2>3, <3>1 DEF EndSession
    <2>6. f = p
        <3>1. f = ProcessOutputObject(EndSession(r.m, cmd), r.new, cmd.sender)
            BY <1>8 DEF Finish
        <3> HIDE DEF x
        <3> QED BY <2>5, <3>1
    <2>7. m' = f.m /\ given' = [given EXCEPT ![f.v] = r.m.objs[r.new]] /\ held' = held /\ started' = started
        BY <1>8, <2>3 DEF Succeeds
    <2>8. r.m.objs[r.new] = cmd.new
        BY <1>1, <2>4, <2>5 DEF Good, Managers, FreeSlots
    <2>9. /\ ~k.suspended /\ cmd.new \in Content /\ cmd.sender \in Senders
          /\ \A v \in Virtual : given[v].obj # cmd.new.obj
        BY <1>1, <1>8 DEF Asked, Commands
    <2>10. Settled(p.m, [given EXCEPT ![p.v] = cmd.new], held, started)
        BY <2>4, <2>9, ObjectCreated
    <2> HIDE DEF p, f
    <2>11. given' = [given EXCEPT ![p.v] = cmd.new] /\ m' = p.m
        BY <2>6, <2>7, <2>8
    <2> QED BY <2>5, <2>7, <2>10, <2>11 DEF IInv
<1>9. CASE cmd.kind = "start"
    <2> DEFINE h == Least(FreeHandles(k))
               x == [k EXCEPT !.ses[h] = [sid |-> started + 1, loaded |-> TRUE, age |-> 0]]
               j == ProcessOutputSession(x, h, cmd.sender, started + 1)
    <2>1. /\ FreeHandles(k) # {} /\ r = Done(k, x, cmd, slots, h)
          /\ ~(Cardinality(LoadedSessions(k)) >= k.room)
        BY <1>2, <1>9, ExecutesOnLoaded
    <2>2. cmd.continue /\ cmd.sessions = <<>>
        BY <1>1, <1>9 DEF Asked, Commands
    <2>3. h \in FreeHandles(k)
        <3>1. FreeHandles(k) \in SUBSET Nat
            BY DEF FreeHandles, Handles
        <3> QED BY <2>1, <3>1, LeastIs
    <2> HIDE DEF h
    <2>4. last'.right /\ last'.objects /\ last'.sessions /\ EndSession(r.m, cmd) = x /\ r.new = h
        <3> HIDE DEF x
        <3> QED BY <1>3, <2>1, <2>2 DEF EndSession
    <2>5. f = [m |-> j, v |-> h]
        <3>1. f = [m |-> ProcessOutputSession(EndSession(r.m, cmd), r.new, cmd.sender, started + 1),
                   v |-> r.new]
            BY <1>9 DEF Finish
        <3> HIDE DEF x
        <3> QED BY <2>4, <3>1
    <2>6. /\ m' = f.m /\ given' = given /\ held' = [held EXCEPT ![<<f.v, cmd.sender>>] = started + 1]
          /\ started' = started + 1
        BY <1>9 DEF Succeeds
    <2>7. /\ started < MaxSessions /\ cmd.sender \in Senders
          /\ Cardinality(LoadedSessions(k)) < k.room
        <3>1. k.room \in Nat
            BY <1>1 DEF Good, Managers
        <3> QED BY <1>1, <1>9, <2>1, <3>1, LoadedFinite DEF Asked, Commands
    <2>8. Settled(j, given, [held EXCEPT ![<<h, cmd.sender>>] = started + 1], started + 1)
        BY <2>3, <2>7, SessionStarted
    <2> HIDE DEF j
    <2>9. f.m = j /\ f.v = h
        BY <2>5
    <2> HIDE DEF f
    <2>10. m' = j /\ held' = [held EXCEPT ![<<h, cmd.sender>>] = started + 1]
        BY <2>6, <2>9
    <2> QED BY <2>4, <2>6, <2>8, <2>10 DEF IInv
<1> QED BY <1>1, <1>5, <1>6, <1>7, <1>8, <1>9 DEF Commands

\* What the steps of a command leave is settled.
LEMMA NearIsSettled ==
    ASSUME NEW cmd, NEW k, Settled(k, given, held, started), ~k.lost, NEW j, Near(k, j, cmd)
    PROVE  Settled(j, given, held, started) /\ ~j.lost
BY GoodIsSettled DEF Near

\* A client's command keeps the invariant, whatever comes of it; it never fails
\* for want of an object and, away from the gap, of a session.
LEMMA CommandKeeps ==
    ASSUME NEW cmd, NEW k, Settled(k, given, held, started), ~k.lost, Asked(k, cmd),
           CommandFrom(k, cmd)
    PROVE  IInv' /\ (MaxGap > 3 /\ ~NearGap(k) => last'.sessions)
<1>1. Good(k) /\ k.seen = {} /\ cmd \in Commands /\ Holds(k, cmd)
    BY GoodIsSettled DEF Asked, Holds
<1>2. ASSUME Cached(k, cmd), FromCache(k, cmd)
      PROVE  IInv' /\ last'.sessions
    <2> DEFINE v == cmd.handles[1]
    <2>1. m' = UpdateLru(k, cmd) /\ given' = given /\ held' = held /\ started' = started
        BY <1>2 DEF FromCache
    <2>2. Settled(m', given', held', started')
        BY <1>1, <2>1, UpdateLruNear, NearIsSettled
    <2>3. v \in Virtual /\ k.cache[v] # None
        <3>1. cmd.handles \in Seq(Virtual) /\ cmd.handles # <<>> /\ k.cache[v] # None
            BY <1>1, <1>2 DEF Commands, Asked, Cached
        <3> QED BY <3>1
    <2>4. k.cache[v] = given[v].obj
        BY <1>1, <2>3 DEF Good, Handed
    <2>5. last' = [AsExpected EXCEPT !.right = TRUE]
        BY <1>2, <2>4 DEF FromCache
    <2>6. last'.right /\ last'.objects /\ last'.sessions
        BY <2>5 DEF AsExpected
    <2> QED BY <2>2, <2>6 DEF IInv
<1> DEFINE p == Prepare(k, cmd)
           r == PrepareAndExecute(k, cmd)
<1>3. /\ Near(k, p.m, cmd)
      /\ p.rc = "ok" => Loaded(p, k, cmd)
      /\ cmd.sessions = <<>> => p.rc = "ok"
      /\ ProcessInputHandles(UpdateLru(k, cmd), cmd).rc = "ok"
    BY <1>1, PrepareIs DEF Asked
<1>4. r = IF p.rc # "ok" THEN p ELSE Execute(p.m, cmd, p.slots)
    BY DEF PrepareAndExecute, ExecutePrepared
<1>5. p.rc = "ok" =>
         /\ r.rc # "ok" => Near(k, r.m, cmd)
         /\ r.rc = "ok" => \E j : /\ Near(k, j, cmd)
                                  /\ InSlots(j, cmd, p.slots)
                                  /\ r = TpmExecute(j, cmd, p.slots)
         /\ cmd.sessions = <<>> /\ cmd.kind # "start" => r.rc = "ok"
    BY <1>1, <1>3, <1>4, ExecuteIs DEF Asked
<1> HIDE DEF p, r
<1>6. ASSUME r.rc # "ok", Fails(k, cmd, r, ProcessInputHandles(UpdateLru(k, cmd), cmd).rc = "ok")
      PROVE  IInv' /\ (MaxGap > 3 /\ ~NearGap(k) => last'.sessions)
    <2>1. m' = r.m /\ given' = given /\ held' = held /\ started' = started
        BY <1>6 DEF Fails
    <2>2. Near(k, r.m, cmd)
        BY <1>3, <1>4, <1>5, <1>6
    <2>3. Settled(m', given', held', started')
        BY <2>1, <2>2, NearIsSettled
    <2>4. cmd.kind = "start" \/ cmd.sessions # <<>>
        BY <1>3, <1>5, <1>6
    <2>5. \E s : last' = [AsExpected EXCEPT !.objects = TRUE, !.sessions = s]
        BY <1>3, <1>6, <2>4 DEF Fails
    <2>6. last'.right /\ last'.objects
        BY <2>5 DEF AsExpected
    <2>7. ASSUME MaxGap > 3, ~NearGap(k)
          PROVE  last'.sessions
        <3>1. cmd.kind = "start" /\ FreeHandles(k) = {}
            BY <1>1, <1>6, <2>4, <2>7, SessionsServed DEF r
        <3>2. \E o : last' = [AsExpected EXCEPT !.objects = o, !.sessions = TRUE]
            BY <1>6, <3>1 DEF Fails
        <3> QED BY <3>2 DEF AsExpected
    <2> QED BY <2>3, <2>6, <2>7 DEF IInv
<1>7. ASSUME r.rc = "ok", Succeeds(cmd, r, Finish(r, cmd))
      PROVE  IInv' /\ last'.sessions
    <2>1. p.rc = "ok"
        BY <1>4, <1>7
    <2>2. PICK j : /\ Near(k, j, cmd)
                   /\ InSlots(j, cmd, p.slots)
                   /\ r = TpmExecute(j, cmd, p.slots)
        BY <1>5, <1>7, <2>1
    <2>3. Settled(j, given, held, started) /\ ~j.lost
        BY <2>2, NearIsSettled
    <2>4. Asked(j, cmd)
        BY <2>2 DEF Asked, Holds, Near
    <2> QED BY <1>7, <2>2, <2>3, <2>4, SuccessKeeps
<1> QED BY <1>2, <1>6, <1>7 DEF CommandFrom, r

\* The manager that a command finds: perhaps it has resumed by itself.
LEMMA AwakeIs ==
    ASSUME Settled(m, given, held, started), ~m.lost, NEW cmd, NEW k \in Awake(cmd)
    PROVE  /\ Settled(k, given, held, started) /\ ~k.lost /\ Tracked(k) = Tracked(m) /\ k.ses = m.ses
           /\ cmd.kind # "use" \/ cmd.handles # <<>> => ~k.suspended
<1>1. PICK s \in IF cmd.kind = "use" /\ cmd.handles = <<>> THEN {m.suspended, FALSE} ELSE {FALSE} :
         k = [m EXCEPT !.suspended = s]
    BY DEF Awake
<1>2. m \in Managers /\ (m.suspended => Items(m) = {}) /\ m.suspended \in BOOLEAN
    BY DEF Settled, Managers
<1>3. s \in {m.suspended, FALSE}
    BY <1>1
<1>4. s \in BOOLEAN
    BY <1>2, <1>3
<1>5. s => Items(m) = {}
    BY <1>2, <1>3
<1>6. Settled(k, given, held, started)
    BY <1>1, <1>4, <1>5, SuspendedChanged
<1>7. /\ k.lost = m.lost /\ k.sessions = m.sessions /\ k.suspended = s
      /\ k.ses = m.ses
    BY <1>1, <1>2 DEF Managers
<1>8. cmd.kind # "use" \/ cmd.handles # <<>> => s = FALSE
    BY <1>1
<1> QED BY <1>6, <1>7, <1>8 DEF Tracked

\* What every operation does.
Keeps == IInv' /\ (MaxGap > 3 /\ ~NearGap(m) => last'.sessions)

\* The same for a command as it was sent.
LEMMA SentKeeps ==
    ASSUME IInv, ~m.lost, NEW cmd, Command(cmd), \A k \in Awake(cmd) :
              Tracked(k) = Tracked(m) /\ (cmd.kind # "use" \/ cmd.handles # <<>> => ~k.suspended)
                 => Asked(k, cmd)
    PROVE  Keeps
<1>1. PICK k \in Awake(cmd) : CommandFrom(k, cmd)
    BY DEF Command
<1>2. Settled(m, given, held, started)
    BY DEF IInv, Damaged
<1>3. /\ Settled(k, given, held, started) /\ ~k.lost /\ Tracked(k) = Tracked(m) /\ k.ses = m.ses
      /\ cmd.kind # "use" \/ cmd.handles # <<>> => ~k.suspended
    BY <1>2, AwakeIs
<1>4. Asked(k, cmd)
    BY <1>3
<1>5. NearGap(k) <=> NearGap(m)
    BY <1>3 DEF NearGap, SavedSessions
<1> QED BY <1>1, <1>3, <1>4, <1>5, CommandKeeps DEF Keeps

-----------------------------------------------------------------------------
(***************************************************************************)
(* The actions.                                                            *)
(***************************************************************************)

\* What a command may name is held by a client.
LEMMA ObjectListsHeld ==
    ASSUME NEW handles \in ObjectLists
    PROVE  /\ handles \in Seq(Virtual) /\ Len(handles) <= 2
           /\ \A v \in Elements(handles) : given[v] # NoContent
<1>1. \A v \in Given : v \in Virtual /\ given[v] # NoContent
    BY DEF Given
<1>2. CASE handles = <<>>
    BY <1>2 DEF Elements
<1>3. ASSUME NEW v \in Given, handles = <<v>>
      PROVE  /\ handles \in Seq(Virtual) /\ Len(handles) <= 2
             /\ \A w \in Elements(handles) : given[w] # NoContent
    <2>1. handles \in Seq(Virtual) /\ Len(handles) = 1 /\ handles[1] = v
        BY <1>1, <1>3
    <2> QED BY <1>1, <2>1 DEF Elements
<1>4. ASSUME NEW v \in Given, NEW w \in Given, handles = <<v, w>>
      PROVE  /\ handles \in Seq(Virtual) /\ Len(handles) <= 2
             /\ \A x \in Elements(handles) : given[x] # NoContent
    <2>1. handles \in Seq(Virtual) /\ Len(handles) = 2 /\ handles[1] = v /\ handles[2] = w
        BY <1>1, <1>4
    <2> QED BY <1>1, <2>1 DEF Elements
<1>5. \/ handles = <<>> \/ \E v \in Given : handles = <<v>>
      \/ \E v, w \in Given : handles = <<v, w>>
    BY DEF ObjectLists
<1> QED BY <1>2, <1>3, <1>4, <1>5

\* A client creates an object.
LEMMA CreateObjectKeeps ==
    ASSUME IInv, ~m.lost, NEW sender \in Senders, NEW general \in BOOLEAN,
           NEW handles \in ObjectLists, NEW object \in NewObjects(m),
           NEW version \in {0, 1} \cap (0..MaxVersion),
           CreateObject(sender, handles, object, version, general)
    PROVE  Keeps
<1> DEFINE c == [obj |-> object, ver |-> version]
           cmd == [Cmd("create", sender, handles, general) EXCEPT !.new = c]
<1>1. Command(cmd) /\ Len(handles) <= 1
    BY DEF CreateObject
<1>2. c \in Content /\ \A v \in Virtual : given[v].obj # c.obj
    BY DEF Content, NewObjects
<1>3. handles \in Seq(Virtual) /\ Len(handles) <= 2 /\ \A v \in Elements(handles) : given[v] # NoContent
    BY ObjectListsHeld
<1> HIDE DEF c
<1>4. /\ cmd \in Commands /\ cmd.kind = "create" /\ cmd.handles = handles /\ cmd.sessions = <<>>
      /\ cmd.continue = TRUE /\ cmd.new = c
    <2> DEFINE base == Cmd("create", sender, handles, general)
    <2>1. /\ base \in Commands /\ base.kind = "create" /\ base.handles = handles
          /\ base.sessions = <<>> /\ base.continue = TRUE
        <3>1. base = [kind |-> "create", sender |-> sender, handles |-> handles, sessions |-> <<>>,
                      continue |-> TRUE, general |-> general, new |-> NoContent]
            BY DEF Cmd
        <3>2. NoContent \in MaybeContent /\ <<>> \in Seq(SessionKeys)
            BY DEF MaybeContent
        <3> HIDE DEF base
        <3> QED BY <1>3, <3>1, <3>2 DEF Commands
    <2>2. c \in MaybeContent
        BY <1>2 DEF MaybeContent
    <2> HIDE DEF base
    <2>3. /\ [base EXCEPT !.new = c] \in Commands /\ [base EXCEPT !.new = c].kind = "create"
          /\ [base EXCEPT !.new = c].handles = handles /\ [base EXCEPT !.new = c].sessions = <<>>
          /\ [base EXCEPT !.new = c].continue = TRUE /\ [base EXCEPT !.new = c].new = c
        BY <2>1, <2>2 DEF Commands
    <2> QED BY <2>3 DEF base
<1> HIDE DEF cmd
<1>5. Elements(cmd.sessions) = {} /\ Len(cmd.sessions) = 0
    BY <1>4 DEF Elements
<1>6. ASSUME NEW k, ~k.suspended
      PROVE  Asked(k, cmd)
    <2>1. Holds(k, cmd)
        BY <1>3, <1>4, <1>6 DEF Holds, Named
    <2> QED BY <1>1, <1>2, <1>4, <1>5, <1>6, <2>1 DEF Asked
<1> QED BY <1>1, <1>4, <1>6, SentKeeps

\* A client uses objects, a session or both.
LEMMA UseObjectsKeeps ==
    ASSUME IInv, ~m.lost, NEW sender \in Senders, NEW general \in BOOLEAN,
           NEW handles \in ObjectLists, NEW sessions \in SessionLists(sender), NEW continue \in BOOLEAN,
           sessions = <<>> => continue,
           UseObjects(sender, handles, sessions, continue, general)
    PROVE  Keeps
<1> DEFINE updates == handles # <<>> /\ given[handles[1]].ver \in 1..(MaxVersion - 1)
           kind == IF updates THEN "update" ELSE "use"
           cmd == [Cmd(kind, sender, handles, general) EXCEPT !.sessions = sessions, !.continue = continue]
<1>1. Command(cmd)
    BY DEF UseObjects
<1>2. kind \in {"use", "update"} /\ (kind = "update" => updates)
    OBVIOUS
<1> HIDE DEF kind
<1>3. handles \in Seq(Virtual) /\ Len(handles) <= 2 /\ \A v \in Elements(handles) : given[v] # NoContent
    BY ObjectListsHeld
<1>4. sessions \in Seq(SessionKeys) /\ Len(sessions) <= 1 /\ Elements(sessions) \subseteq Tracked(m)
    <2>1. CASE sessions = <<>>
        BY <2>1 DEF Elements
    <2>2. ASSUME NEW key \in Tracked(m), sessions = <<key>>
          PROVE  sessions \in Seq(SessionKeys) /\ Len(sessions) <= 1 /\ Elements(sessions) \subseteq Tracked(m)
        <3>1. key \in SessionKeys
            BY DEF Tracked
        <3>2. sessions \in Seq(SessionKeys) /\ Len(sessions) = 1 /\ sessions[1] = key
            BY <2>2, <3>1
        <3> QED BY <3>2 DEF Elements
    <2>3. sessions = <<>> \/ \E key \in Tracked(m) : sessions = <<key>>
        BY DEF SessionLists
    <2> QED BY <2>1, <2>2, <2>3
<1>5. /\ cmd \in Commands /\ cmd.kind = kind /\ cmd.handles = handles /\ cmd.sessions = sessions
      /\ cmd.continue = continue
    <2> DEFINE base == Cmd(kind, sender, handles, general)
               made == [base EXCEPT !.sessions = sessions, !.continue = continue]
    <2>1. base \in Commands /\ base.kind = kind /\ base.handles = handles
        <3>1. base = [kind |-> kind, sender |-> sender, handles |-> handles, sessions |-> <<>>,
                      continue |-> TRUE, general |-> general, new |-> NoContent]
            BY DEF Cmd
        <3>2. NoContent \in MaybeContent /\ <<>> \in Seq(SessionKeys)
            BY DEF MaybeContent
        <3> HIDE DEF base
        <3> QED BY <1>2, <1>3, <3>1, <3>2 DEF Commands
    <2> HIDE DEF base
    <2>2. made \in Commands /\ made.kind = kind /\ made.handles = handles /\ made.sessions = sessions
        BY <1>4, <2>1 DEF Commands
    <2>3. made.continue = continue
        BY <2>1 DEF Commands
    <2> QED BY <2>2, <2>3 DEF base
<1> HIDE DEF cmd
<1>6. ASSUME NEW k, Tracked(k) = Tracked(m), cmd.kind # "use" \/ cmd.handles # <<>> => ~k.suspended
      PROVE  Asked(k, cmd)
    <2>1. Holds(k, cmd)
        BY <1>3, <1>5, <1>6 DEF Holds, Named
    <2> QED BY <1>2, <1>4, <1>5, <1>6, <2>1 DEF Asked
<1> QED BY <1>1, <1>6, SentKeeps

\* A client reads the public area of an object.
LEMMA ReadPublicKeeps ==
    ASSUME IInv, ~m.lost, NEW sender \in Senders, NEW general \in BOOLEAN,
           NEW v \in Given, ReadPublic(sender, v, general)
    PROVE  Keeps
<1> DEFINE cmd == Cmd("readpublic", sender, <<v>>, general)
<1>1. Command(cmd)
    BY DEF ReadPublic
<1>2. cmd = [kind |-> "readpublic", sender |-> sender, handles |-> <<v>>, sessions |-> <<>>,
             continue |-> TRUE, general |-> general, new |-> NoContent]
    BY DEF Cmd
<1>3. <<v>> \in Seq(Virtual) /\ Len(<<v>>) = 1 /\ Elements(<<v>>) = {v} /\ given[v] # NoContent /\ <<v>> # <<>>
    BY DEF Given, Elements
<1> HIDE DEF cmd
<1>4. /\ cmd.kind = "readpublic" /\ cmd.handles = <<v>> /\ cmd.sessions = <<>> /\ cmd.continue = TRUE
      /\ Elements(cmd.sessions) = {} /\ Len(cmd.sessions) = 0
    BY <1>2 DEF Elements
<1>5. cmd \in Commands
    <2>1. NoContent \in MaybeContent /\ <<>> \in Seq(SessionKeys)
        BY DEF MaybeContent
    <2> QED BY <1>2, <1>3, <2>1 DEF Commands
<1>6. ASSUME NEW k, ~k.suspended
      PROVE  Asked(k, cmd)
    <2>1. Holds(k, cmd)
        BY <1>3, <1>4, <1>5, <1>6 DEF Holds, Named
    <2> QED BY <1>3, <1>4, <1>6, <2>1 DEF Asked
<1> QED BY <1>1, <1>4, <1>6, SentKeeps

\* A client starts a session.
LEMMA StartAuthSessionKeeps ==
    ASSUME IInv, ~m.lost, NEW sender \in Senders, NEW general \in BOOLEAN,
           StartAuthSession(sender, general)
    PROVE  Keeps
<1> DEFINE cmd == Cmd("start", sender, <<>>, general)
<1>1. Command(cmd) /\ started < MaxSessions
    BY DEF StartAuthSession
<1>2. cmd = [kind |-> "start", sender |-> sender, handles |-> <<>>, sessions |-> <<>>,
             continue |-> TRUE, general |-> general, new |-> NoContent]
    BY DEF Cmd
<1> HIDE DEF cmd
<1>3. /\ cmd.kind = "start" /\ cmd.handles = <<>> /\ cmd.sessions = <<>> /\ cmd.continue = TRUE
      /\ Elements(cmd.sessions) = {} /\ Len(cmd.sessions) = 0
      /\ Elements(cmd.handles) = {} /\ Len(cmd.handles) = 0
    BY <1>2 DEF Elements
<1>4. cmd \in Commands
    <2>1. NoContent \in MaybeContent /\ <<>> \in Seq(SessionKeys) /\ <<>> \in Seq(Virtual)
        BY DEF MaybeContent
    <2> QED BY <1>2, <2>1 DEF Commands
<1>5. ASSUME NEW k
      PROVE  Asked(k, cmd)
    <2>1. Holds(k, cmd)
        BY <1>3, <1>4 DEF Holds, Named
    <2> QED BY <1>1, <1>3, <2>1 DEF Asked
<1> QED BY <1>1, <1>5, SentKeeps

\* A handle that nobody holds leads to nothing.
LEMMA UseDeadHandleKeeps ==
    ASSUME IInv, ~m.lost, NEW sender \in Senders, NEW v \in Virtual, UseDeadHandle(sender, v)
    PROVE  Keeps
<1> DEFINE cmd == Cmd("use", sender, <<v>>, FALSE)
           k == [m EXCEPT !.suspended = FALSE]
           j == UpdateLru(k, cmd)
           dead == [m |-> j, rc |-> "error", slots |-> <<>>]
<1>1. Settled(k, given, held, started) /\ ~k.lost
    <2>1. Settled(k, given, held, started)
        BY SuspendedChanged DEF IInv, Damaged
    <2> QED BY <2>1 DEF Settled, Managers, IInv
<1>2. /\ m' = PrepareAndExecute(k, cmd).m /\ given[v] = NoContent
      /\ last' = [AsExpected EXCEPT !.right = PrepareAndExecute(k, cmd).rc # "ok"]
      /\ given' = given /\ held' = held /\ started' = started
    BY DEF UseDeadHandle, Given
<1>3. cmd.handles = <<v>> /\ cmd.sessions = <<>>
    BY DEF Cmd
<1> HIDE DEF k, cmd
<1>4. Near(k, j, cmd) /\ Settled(j, given, held, started) /\ j \in Managers /\ Handed(j, given)
    <2>1. Near(k, j, cmd)
        BY <1>1, GoodIsSettled, UpdateLruNear
    <2> HIDE DEF j
    <2> QED BY <1>1, <2>1, NearIsSettled DEF Settled
<1> HIDE DEF j
<1>5. ProcessInputHandle(j, cmd, v) = [m |-> j, rc |-> "error"]
    <2>1. j.unloaded[v] = NoInfo /\ ~\E e \in Items(j) : e.v = v
        BY <1>2, <1>4 DEF Handed
    <2>2. ~IsLoaded(j, v)
        BY <1>4, <2>1, KnownIs
    <2> QED BY <2>1, <2>2 DEF ProcessInputHandle
<1>6. ProcessInputHandles(j, cmd) = dead
    <2> DEFINE Add(p, r) == IF r.rc # "ok" THEN [p EXCEPT !.m = r.m, !.rc = r.rc]
                            ELSE [p EXCEPT !.m = r.m, !.slots = Append(@, r.slot)]
               Process(p, i) == IF p.rc # "ok" \/ i > Len(cmd.handles) THEN p
                                ELSE Add(p, ProcessInputHandle(p.m, cmd, cmd.handles[i]))
               p0 == [m |-> j, rc |-> "ok", slots |-> <<>>]
    <2>1. ProcessInputHandles(j, cmd) = Process(Process(p0, 1), 2)
        BY DEF ProcessInputHandles, ProcessHandle
    <2>2. Len(cmd.handles) = 1 /\ cmd.handles[1] = v
        BY <1>3
    <2>3. Process(p0, 1) = Add(p0, [m |-> j, rc |-> "error"])
        <3>1. p0.m = j /\ p0.rc = "ok"
            OBVIOUS
        <3> HIDE DEF p0, Add
        <3> QED BY <1>5, <2>2, <3>1
    <2>4. Add(p0, [m |-> j, rc |-> "error"]) = dead
        OBVIOUS
    <2>5. Process(dead, 2) = dead
        OBVIOUS
    <2> HIDE DEF Process, Add, p0, dead
    <2> QED BY <2>1, <2>3, <2>4, <2>5
<1>7. PrepareAndExecute(k, cmd) = dead
    <2>1. Prepare(k, cmd) = dead
        BY <1>6 DEF Prepare, WithSession, j
    <2> QED BY <2>1 DEF PrepareAndExecute, ExecutePrepared
<1>8. m' = j /\ last' = [AsExpected EXCEPT !.right = TRUE]
    <2>1. dead.m = j /\ (dead.rc # "ok") = TRUE
        OBVIOUS
    <2> HIDE DEF dead
    <2>2. last' = [AsExpected EXCEPT !.right = (dead.rc # "ok")] /\ m' = dead.m
        BY <1>2, <1>7, Zenon
    <2> QED BY <2>1, <2>2, Zenon
<1>9. last'.right /\ last'.objects /\ last'.sessions
    BY <1>8 DEF AsExpected
<1> QED BY <1>2, <1>4, <1>8, <1>9 DEF IInv, Keeps

\* A command that is not refused while suspended may find the manager resumed.
LEMMA ResumedOrNot ==
    ASSUME Settled(m, given, held, started), ~m.lost, NEW s \in {m.suspended, FALSE},
           NEW k, k = [m EXCEPT !.suspended = s]
    PROVE  /\ Settled(k, given, held, started) /\ ~k.lost
           /\ k.loaded = m.loaded /\ k.unloaded = m.unloaded /\ k.sessions = m.sessions
<1>1. m \in Managers /\ (m.suspended => Items(m) = {}) /\ m.suspended \in BOOLEAN
    BY DEF Settled, Managers
<1>2. s \in BOOLEAN
    BY <1>1
<1>3. s => Items(m) = {}
    BY <1>1
<1>4. Settled(k, given, held, started)
    BY <1>2, <1>3, SuspendedChanged
<1> QED BY <1>1, <1>4 DEF Managers

\* A client flushes an object.
LEMMA FlushObjectKeeps ==
    ASSUME IInv, ~m.lost, NEW v \in Virtual, FlushObject(v)
    PROVE  Keeps
<1>1. PICK s \in {m.suspended, FALSE} :
         LET k == [m EXCEPT !.suspended = s]
         IN  m' = IF IsLoaded(k, v)
                  THEN CleanupFlushedObject([k EXCEPT !.objs[InfoOf(k, v).tpm] = NoContent], v)
                  ELSE CleanupFlushedObject(k, v)
    BY DEF FlushObject
<1> DEFINE k == [m EXCEPT !.suspended = s]
<1>2. /\ Settled(k, given, held, started) /\ ~k.lost
      /\ k.loaded = m.loaded /\ k.unloaded = m.unloaded
    BY ResumedOrNot DEF IInv, Damaged
<1>3. Known(k, v)
    BY <1>2 DEF FlushObject, Known, IsLoaded, IndexOf
<1>4. m' = IF IsLoaded(k, v)
           THEN CleanupFlushedObject([k EXCEPT !.objs[InfoOf(k, v).tpm] = NoContent], v)
           ELSE CleanupFlushedObject(k, v)
    BY <1>1
<1> HIDE DEF k
<1>5. Settled(m', [given EXCEPT ![v] = NoContent], held, started)
    BY <1>2, <1>3, <1>4, ObjectFlushed
<1>6. /\ given' = [given EXCEPT ![v] = NoContent] /\ held' = held /\ started' = started
      /\ last' = AsExpected
    BY DEF FlushObject
<1> QED BY <1>5, <1>6 DEF IInv, AsExpected, Keeps

\* A client flushes a session.
LEMMA FlushHeldSessionKeeps ==
    ASSUME IInv, ~m.lost, NEW key \in SessionKeys, FlushHeldSession(key)
    PROVE  Keeps
<1>1. PICK s \in {m.suspended, FALSE} :
         m' = CleanupFlushedSession(TpmFlushSession([m EXCEPT !.suspended = s], key[1]), key)
    BY DEF FlushHeldSession
<1> DEFINE k == [m EXCEPT !.suspended = s]
<1>2. Settled(k, given, held, started) /\ ~k.lost /\ k.sessions = m.sessions
    BY ResumedOrNot DEF IInv, Damaged
<1>3. key \in Tracked(k)
    BY <1>2 DEF FlushHeldSession, Tracked
<1>4. m' = CleanupFlushedSession(TpmFlushSession(k, key[1]), key)
    BY <1>1
<1> HIDE DEF k
<1>5. Settled(m', given, [held EXCEPT ![key] = None], started)
    BY <1>2, <1>3, <1>4, SessionFlushed
<1>6. /\ held' = [held EXCEPT ![key] = None] /\ given' = given /\ started' = started
      /\ last' = AsExpected
    BY DEF FlushHeldSession
<1> QED BY <1>5, <1>6 DEF IInv, AsExpected, Keeps

\* SaveAllContexts() leaves no object in the TPM.
LEMMA SuspendKeeps ==
    ASSUME IInv, ~m.lost, Suspend
    PROVE  Keeps
<1> DEFINE k == [m EXCEPT !.suspended = TRUE]
           cmd == Cmd("none", None, <<>>, FALSE)
           j == EvictObjects(k, cmd)
<1>1. Good(m) /\ Counted /\ m.seen = {}
    BY GoodIsSettled DEF IInv, Damaged
<1>2. /\ k \in Managers /\ k.loaded = m.loaded /\ k.lru = m.lru /\ k.ses = m.ses /\ k.room = m.room
      /\ k.sessions = m.sessions /\ k.objs = m.objs /\ k.t2v = m.t2v /\ k.unloaded = m.unloaded
      /\ k.cache = m.cache /\ k.seen = m.seen
    BY <1>1 DEF Good, Managers
<1>3. Named(cmd) = {}
    BY DEF Named, Elements, Cmd
<1>4. m' = j /\ given' = given /\ held' = held /\ started' = started /\ last' = AsExpected
    BY DEF Suspend
<1> HIDE DEF k, cmd
<1>5. Good(k)
    <2>1. Items(k) = Items(m) /\ UniqueV(m.loaded) /\ Distinct(m.lru) /\ Elements(m.lru) = Tracked(m)
        BY <1>1, <1>2 DEF Items, Good, Slotted, Ordered
    <2> QED BY <1>1, <1>2, <2>1, Reordered
<1>6. Kept(k, j, cmd) /\ j.loaded = <<>>
    BY <1>3, <1>5, EvictObjectsKept
<1> HIDE DEF j
<1>7. Good(j) /\ j.seen = {} /\ Items(j) = {}
    <2>1. Good(j)
        BY <1>5, <1>6, KeptIsGood
    <2>2. Items(j) = {}
        BY <1>6 DEF Items, Elements
    <2> QED BY <1>1, <1>2, <1>6, <2>1, <2>2 DEF Kept
<1>8. Settled(j, given, held, started)
    BY <1>1, <1>7, GoodIsSettled
<1> QED BY <1>4, <1>8 DEF IInv, AsExpected, Keeps

\* The maps agree and have their types between commands.
LEMMA SettledAgrees ==
    ASSUME Settled(m, given, held, started)
    PROVE  TypeOK /\ MapsAgree
<1>1. /\ m \in Managers /\ Slotted(m, given) /\ Handed(m, given)
      /\ given \in [Virtual -> MaybeContent]
    BY DEF Settled
<1>2. \A i \in DOMAIN m.loaded : m.loaded[i] \in Items(m)
    BY DEF Items, Elements
<1>3. \A i \in DOMAIN m.loaded : /\ m.t2v[m.loaded[i].info.tpm] = m.loaded[i].v
                                 /\ m.unloaded[m.loaded[i].v] = NoInfo
    BY <1>1, <1>2 DEF Slotted
<1>4. \A i, j \in DOMAIN m.loaded : m.loaded[i].v = m.loaded[j].v => i = j
    BY <1>1 DEF Slotted, UniqueV
<1>5. \A t \in Slots : m.t2v[t] # None => \E i \in DOMAIN m.loaded : m.loaded[i].info.tpm = t
    BY <1>1 DEF Slotted, Items, Elements
<1>6. \A t \in Slots : m.objs[t] # NoContent => m.t2v[t] # None
    BY <1>1 DEF Slotted
<1>7. \A v \in Virtual : m.cache[v] # None => v \in Given /\ m.cache[v] = given[v].obj
    BY <1>1 DEF Handed, Given, NoContent
<1>8. MapsAgree
    BY <1>3, <1>4, <1>5, <1>6, <1>7 DEF MapsAgree
<1>9. TypeOK
    BY DEF Settled, Ordered, TypeOK
<1> QED BY <1>8, <1>9

\* Resume()
LEMMA ResumeKeeps ==
    ASSUME IInv, ~m.lost, Resume
    PROVE  Keeps
<1>1. /\ m' = [m EXCEPT !.suspended = FALSE] /\ given' = given /\ held' = held /\ started' = started
      /\ last' = AsExpected
    BY DEF Resume
<1>2. Settled(m, given, held, started)
    BY DEF IInv, Damaged
<1>3. Settled(m', given', held', started')
    BY <1>1, <1>2, SuspendedChanged
<1> QED BY <1>1, <1>3 DEF IInv, AsExpected, Keeps

\* The system's sleep: it costs a suspended manager no object, and what is left
\* of the maps agrees if it does cost one that is not suspended.
LEMMA SleepKeeps ==
    ASSUME IInv, ~m.lost, Sleep
    PROVE  Keeps
<1> DEFINE objs == [t \in Slots |-> NoContent]
           ses == [h \in Handles |-> IF m.ses[h].loaded THEN NoSession ELSE m.ses[h]]
           gone == m.lost \/ LoadedSessions(m) # {} \/ m.loaded # <<>>
           j == [m EXCEPT !.objs = [t \in Slots |-> NoContent],
                          !.ses = [h \in Handles |-> IF @[h].loaded THEN NoSession ELSE @[h]],
                          !.lost = @ \/ LoadedSessions(m) # {} \/ m.loaded # <<>>]
<1>1. /\ given' = given /\ held' = held /\ started' = started /\ m' = j
      /\ last' = [AsExpected EXCEPT !.objects = (m.suspended => m.loaded = <<>>)]
    BY DEF Sleep
<1>2. Settled(m, given, held, started)
    BY DEF IInv, Damaged
<1>3. m \in Managers /\ m.loaded \in Seq(ObjectInfo) /\ m.ses \in [Handles -> TpmSession] /\ m.lost \in BOOLEAN
    BY <1>2 DEF Settled, Managers
<1>4. Items(m) = {} <=> m.loaded = <<>>
    <2>1. m.loaded = <<>> => Items(m) = {}
        BY DEF Items, Elements
    <2>2. ASSUME m.loaded # <<>>
          PROVE  m.loaded[1] \in Items(m)
        <3>1. 1 \in DOMAIN m.loaded
            BY <1>3, <2>2
        <3> QED BY <3>1 DEF Items, Elements
    <2> QED BY <2>1, <2>2
<1>5. last'.right /\ last'.objects /\ last'.sessions
    <2>1. m.suspended => m.loaded = <<>>
        BY <1>2, <1>4 DEF Settled
    <2> QED BY <1>1, <2>1 DEF AsExpected
<1>6. CASE m.loaded = <<>>
    <2>1. Items(m) = {}
        BY <1>4, <1>6
    <2>2. Settled(j, given, held, started)
        BY <1>2, <2>1, Slept
    <2> HIDE DEF j
    <2>3. Settled(m', given', held', started')
        BY <1>1, <2>2
    <2> QED BY <1>5, <2>3 DEF IInv, Keeps
<1>7. CASE m.loaded # <<>>
    <2>1. TypeOK /\ MapsAgree
        BY <1>2, SettledAgrees
    <2>2. objs \in [Slots -> MaybeContent] /\ \A t \in Slots : objs[t] = NoContent
        BY DEF MaybeContent
    <2>3. ses \in [Handles -> TpmSession]
        <3>1. NoSession \in TpmSession
            BY TpmAssumption DEF NoSession, TpmSession, None
        <3> QED BY <1>3, <3>1
    <2>4. j = [m EXCEPT !.objs = objs, !.ses = ses, !.lost = TRUE]
        BY <1>3, <1>7 DEF Managers
    <2> HIDE DEF objs, ses, j
    <2>5. /\ m' \in Managers /\ m'.objs = objs /\ m'.lost
          /\ m'.sessions = m.sessions /\ m'.lru = m.lru /\ m'.cache = m.cache /\ m'.seen = m.seen
          /\ m'.t2v = m.t2v /\ m'.loaded = m.loaded /\ m'.unloaded = m.unloaded
        BY <1>1, <1>3, <2>2, <2>3, <2>4 DEF Managers
    <2>6. Tracked(m') = Tracked(m)
        BY <2>5 DEF Tracked
    <2>7. TypeOK'
        BY <1>1, <2>1, <2>5, <2>6 DEF TypeOK
    <2>8. MapsAgree'
        BY <1>1, <2>1, <2>2, <2>5 DEF MapsAgree, Given
    <2> QED BY <1>5, <2>5, <2>7, <2>8 DEF IInv, Keeps, Damaged
<1> QED BY <1>6, <1>7

\* The invariant holds at first.
LEMMA InitIInv == Init => IInv
<1> SUFFICES ASSUME Init PROVE IInv
    OBVIOUS
<1>1. PICK n \in 1..SessionSlots :
         m = [room |-> n,
              objs |-> [t \in Slots |-> NoContent],
              ses |-> [h \in Handles |-> NoSession],
              unloaded |-> [v \in Virtual |-> NoInfo],
              loaded |-> <<>>,
              t2v |-> [t \in Slots |-> None],
              sessions |-> [key \in SessionKeys |-> NoSessionInfo],
              lru |-> <<>>,
              cache |-> [v \in Virtual |-> None],
              next |-> 1,
              seen |-> {},
              suspended |-> FALSE,
              lost |-> FALSE]
    BY DEF Init
<1>2. /\ m.room = n /\ m.objs = [t \in Slots |-> NoContent] /\ m.ses = [h \in Handles |-> NoSession]
      /\ m.unloaded = [v \in Virtual |-> NoInfo] /\ m.loaded = <<>> /\ m.t2v = [t \in Slots |-> None]
      /\ m.sessions = [key \in SessionKeys |-> NoSessionInfo] /\ m.lru = <<>>
      /\ m.cache = [v \in Virtual |-> None] /\ m.next = 1 /\ m.seen = {}
      /\ m.suspended = FALSE /\ m.lost = FALSE
    BY <1>1
<1>3. m \in Managers
    <2>1. NoSession \in TpmSession
        BY TpmAssumption DEF NoSession, TpmSession, None
    <2>2. 1 \in Virtual
        <3>1. Cardinality(Objects) \in Nat
            BY TpmAssumption, FS_CardinalityType
        <3> QED BY <3>1, TpmAssumption DEF Virtual
    <2>3. /\ [t \in Slots |-> NoContent] \in [Slots -> MaybeContent]
          /\ [h \in Handles |-> NoSession] \in [Handles -> TpmSession]
          /\ [v \in Virtual |-> NoInfo] \in [Virtual -> HandleInfo \cup {NoInfo}]
          /\ [t \in Slots |-> None] \in [Slots -> Virtual \cup {None}]
          /\ [key \in SessionKeys |-> NoSessionInfo] \in [SessionKeys -> SessionInfo \cup {NoSessionInfo}]
          /\ [v \in Virtual |-> None] \in [Virtual -> Objects \cup {None}]
          /\ <<>> \in Seq(ObjectInfo) /\ <<>> \in Seq(SessionKeys) /\ {} \in SUBSET Warnings
        BY <2>1 DEF MaybeContent
    <2> QED BY <1>1, <2>2, <2>3 DEF Managers
<1>4. Items(m) = {} /\ Tracked(m) = {}
    BY <1>2 DEF Items, Elements, Tracked
<1>5. /\ given = [v \in Virtual |-> NoContent] /\ held = [key \in SessionKeys |-> None]
      /\ started = 0 /\ last = AsExpected
    BY DEF Init
<1>6. /\ given \in [Virtual -> MaybeContent] /\ held \in [SessionKeys -> 0..MaxSessions]
      /\ started \in 0..MaxSessions /\ \A key \in SessionKeys : held[key] <= started
    BY <1>5, TpmAssumption DEF MaybeContent, None
<1>7. Slotted(m, given)
    BY <1>2, <1>4 DEF Slotted, UniqueV
<1>8. Handed(m, given)
    BY <1>2, <1>4, <1>5 DEF Handed
<1>9. Ordered(m)
    BY <1>2, <1>4 DEF Ordered, Elements, Distinct
<1>10. Followed(m, held)
    <2>1. \A x \in Handles : m.ses[x].sid = None
        BY <1>2 DEF NoSession
    <2>2. LoadedSessions(m) = {} /\ m.room \in Nat
        BY <1>2, <2>1 DEF LoadedSessions, Managers
    <2>3. Fits(m)
        BY <2>2, FS_EmptySet DEF Fits
    <2> QED BY <1>4, <1>5, <2>1, <2>3 DEF Followed
<1>11. Settled(m, given, held, started)
    BY <1>2, <1>3, <1>6, <1>7, <1>8, <1>9, <1>10 DEF Settled
<1> QED BY <1>5, <1>11 DEF IInv, AsExpected

\* Every operation keeps the invariant and, away from the gap, serves sessions.
LEMMA OperationKeeps ==
    ASSUME IInv, ~m.lost, Operation
    PROVE  Keeps
<1>1. ASSUME NEW sender \in Senders, NEW general \in BOOLEAN, ObjectCommand(sender, general)
      PROVE  Keeps
    BY <1>1, CreateObjectKeeps, UseObjectsKeeps, ReadPublicKeeps DEF ObjectCommand
<1>2. ASSUME NEW sender \in Senders, NEW general \in BOOLEAN, StartAuthSession(sender, general)
      PROVE  Keeps
    BY <1>2, StartAuthSessionKeeps
<1>3. ASSUME NEW sender \in Senders, NEW v \in Virtual, UseDeadHandle(sender, v)
      PROVE  Keeps
    BY <1>3, UseDeadHandleKeeps
<1>4. ASSUME NEW v \in Virtual, FlushObject(v)
      PROVE  Keeps
    BY <1>4, FlushObjectKeeps
<1>5. ASSUME NEW key \in SessionKeys, FlushHeldSession(key)
      PROVE  Keeps
    BY <1>5, FlushHeldSessionKeeps
<1>6. ASSUME Suspend \/ Resume \/ Sleep
      PROVE  Keeps
    BY <1>6, SuspendKeeps, ResumeKeeps, SleepKeeps
<1> QED BY <1>1, <1>2, <1>3, <1>4, <1>5, <1>6 DEF Operation

\* Every step keeps it.
LEMMA NextIInv == IInv /\ [Next]_vars => IInv'
<1> SUFFICES ASSUME IInv, [Next]_vars
             PROVE  IInv'
    OBVIOUS
<1>1. CASE UNCHANGED vars
    <2>1. m' = m /\ given' = given /\ held' = held /\ started' = started /\ last' = last
        BY <1>1 DEF vars
    <2> QED BY <2>1 DEF IInv, Damaged, TypeOK, MapsAgree, Given
<1>2. CASE Next
    BY <1>2, OperationKeeps DEF Next, Keeps
<1> QED BY <1>1, <1>2

\* So that it always holds.
LEMMA AlwaysIInv == Spec => []IInv
BY InitIInv, NextIInv, PTL DEF Spec

\* The members of the manager are what they should be, its order of last use is
\* that of the sessions it tracks, and no warning is left as seen: whatever was
\* evicted, flushed, reloaded and retried.
THEOREM TypeCorrect == Spec => []TypeOK
<1>1. IInv => TypeOK
    BY SettledAgrees DEF IInv, Damaged
<1> QED BY <1>1, AlwaysIInv, PTL

\* The maps between virtual handles and slots of the TPM, the list of loaded
\* objects and the cache of public areas always agree: for any number of slots,
\* handles and objects, and at any depth of warnings being fixed.
THEOREM MapsAlwaysAgree == Spec => []MapsAgree
<1>1. IInv => MapsAgree
    BY SettledAgrees DEF IInv, Damaged
<1> QED BY <1>1, AlwaysIInv, PTL

\* As long as no sleep of the TPM has cost it anything, the manager knows every
\* session in it, which are loaded, and the saved ones by their contexts.
THEOREM SessionsAlwaysAgree == Spec => []SessionsAgree
<1>1. ASSUME IInv
      PROVE  SessionsAgree
    BY <1>1 DEF IInv, Damaged, Settled, Followed, SessionsAgree
<1> QED BY <1>1, AlwaysIInv, PTL

\* A command acts on what the client was given the handles of, however often
\* objects and sessions were evicted and reloaded and handles reused.
THEOREM AlwaysRightObjects == Spec => []RightObjects
<1>1. IInv => RightObjects
    BY DEF IInv, RightObjects
<1> QED BY <1>1, AlwaysIInv, PTL

\* A command on objects that the client holds never fails for want of room in
\* the TPM: with two slots or more one can always be freed, and three attempts
\* are enough.  A sleep that finds the manager suspended costs it no object.
THEOREM LiveObjectsAlwaysWork == Spec => []LiveObjectsWork
<1>1. IInv => LiveObjectsWork
    BY DEF IInv, LiveObjectsWork
<1> QED BY <1>1, AlwaysIInv, PTL

\* While no saved session is within three saves of the context gap, which real
\* TPMs allow 255 or more of, no command fails for want of a session that the
\* client holds, and a session can be started whenever the TPM has a handle for
\* it: however many sessions there are, room is made by the first fix.
THEOREM SessionsWorkAwayFromGap ==
    ASSUME MaxGap > 3
    PROVE  Spec => [][~NearGap(m) => LiveSessionsWork']_vars
<1>1. IInv /\ [Next]_vars => [~NearGap(m) => LiveSessionsWork']_vars
    BY OperationKeeps DEF Next, Keeps, LiveSessionsWork
<1> QED BY <1>1, AlwaysIInv, PTL DEF Spec

=============================================================================
