---------------------------- MODULE LuaGcProofs ----------------------------
(***************************************************************************)
(* Proofs about the collector of the Lua interpreter, for every heap: any  *)
(* objects, of any kinds, that the program connects in any way while the   *)
(* collector works.                                                        *)
(***************************************************************************)
EXTENDS LuaGc, NatOrder, FiniteSetTheorems

-----------------------------------------------------------------------------
(* The inductive invariant *)

\* The objects that are not to be freed by the sweep
Live == alive \ DeadObjects

Types ==
    /\ heap \in Heaps /\ alive \subseteq DOMAIN kind /\ done \subseteq DOMAIN kind
    /\ refs \in [Objects -> SUBSET Objects]
    /\ key \in [Objects -> SUBSET Objects]
    /\ home \in [Objects -> SUBSET Objects]
    /\ colour \in [Objects -> {"white", "dead", "gray", "black"}]
    /\ state \in States
    /\ finobj \in Seq(Objects) /\ tobefnz \in Seq(Objects)

\* What an object that is not to be freed refers to is not to be freed either, and no
\* upvalue is on the stack of a thread that is
RefsLive ==
    /\ Main \in Live
    /\ \A o \in Live : refs[o] \cup key[o] \subseteq Live
    /\ \A u \in Objects : home[u] \subseteq Live

\* Names that are not in use are as a new object finds them
Unused == \A o \in Objects \ alive : refs[o] = {} /\ key[o] = {} /\ home[o] = {}

\* Open upvalues: on the stack of one coroutine, which has not ended and is in twups
OpenOnes ==
    /\ \A u \in Objects : \A t \in home[u] :
         /\ kind[u] = "upvalue" /\ refs[u] = {} /\ home[u] = {t}
         /\ kind[t] = "thread" /\ t \notin done /\ t \in twups
    /\ Main \notin done
    /\ \A t \in done : kind[t] = "thread" /\ refs[t] = {}

\* Which kinds of objects refer to which
Kinds ==
    /\ \A o \in Objects : key[o] # {} => kind[o] = "ephemeron"
    /\ \A o \in alive : kind[o] = "userdata" => refs[o] = {}
    /\ \A o \in alive : \A x \in refs[o] : kind[x] = "upvalue" <=> kind[o] = "closure"
    /\ \A o \in alive : \A x \in key[o] : kind[x] # "upvalue"

Finalizers ==
    /\ IsInjective(finobj \o tobefnz)
    /\ finalized = Range(finobj) \cup Range(tobefnz)
    /\ finalized \subseteq Live /\ twups \subseteq Live
    /\ \A o \in finalized : kind[o] # "upvalue"

\* Dead objects are there only while allgc is swept, and what was swept is white
Phases ==
    /\ state # "SwpAllGc" => DeadObjects = {}
    /\ state = "SwpAllGc" => /\ DeadObjects \subseteq unswept /\ unswept \subseteq alive
                             /\ \A o \in alive \ unswept : colour[o] = "white"
    /\ state \notin {"Propagate", "EnterAtomic", "SwpAllGc"} => \A o \in alive : colour[o] = "white"
    /\ running # {} => state = "CallFin"

\* While marking: where the gray objects are
GrayOnes ==
    /\ gray \cup grayagain \subseteq alive
    /\ \A o \in gray : colour[o] = "gray" /\ kind[o] \notin {"upvalue", "userdata"}
    /\ \A o \in grayagain : kind[o] # "upvalue"
    /\ \A o \in alive : colour[o] = "gray" => o \in gray \cup grayagain \/ home[o] # {}
    /\ \A o \in alive : home[o] # {} => colour[o] # "black"
    /\ \A o \in alive : ~IsWhite(o) /\ (\/ kind[o] \in {"weak", "ephemeron"}
                                        \/ kind[o] = "thread" /\ o \notin done)
                        => o \in gray \cup grayagain

\* ... and that those that are done with have no white objects behind them
BlackOnes ==
    \A o \in alive \ grayagain : colour[o] = "black" => refs[o] \cap WhiteObjects = {}

Marking == KeepInvariant => GrayOnes /\ BlackOnes

GcInv == Types /\ RefsLive /\ Unused /\ OpenOnes /\ Kinds /\ Finalizers /\ Phases /\ Marking

-----------------------------------------------------------------------------
(* Worklists and lists *)

(* The objects of a heap are finitely many.                                *)
LEMMA KindsFinite ==
    ASSUME heap \in Heaps
    PROVE  /\ DOMAIN kind \subseteq Objects /\ Main \in DOMAIN kind /\ kind[Main] = "thread"
           /\ IsFiniteSet(DOMAIN kind) /\ Cardinality(DOMAIN kind) \in Nat
<1>1. DOMAIN kind \subseteq Objects /\ Main \in DOMAIN kind /\ kind[Main] = "thread"
  BY HeapAssumption DEF kind
<1>2. IsFiniteSet(DOMAIN kind)
  BY <1>1, HeapAssumption, FS_Subset
<1> QED BY <1>1, <1>2, FS_CardinalityType

(* What a worklist holds after each round.                                 *)
LEMMA GrownStep ==
    ASSUME NEW S, NEW next, Cardinality(DOMAIN kind) \in Nat
    PROVE  /\ Grown(S, next)[0] = S
           /\ \A k \in 1..Cardinality(DOMAIN kind) :
                Grown(S, next)[k] = Grown(S, next)[k - 1] \cup next[Grown(S, next)[k - 1]]
<1> DEFINE n == Cardinality(DOMAIN kind)
           Do(v) == UNION {X \cup next[X] : X \in {v}}
           Rec(f, m) == f = [k \in 0..m |-> IF k = 0 THEN S ELSE Do(f[k - 1])]
           T == {m \in Nat : \E f : Rec(f, m)}
<1>0. \A v : Do(v) = v \cup next[v]
  OBVIOUS
<1> HIDE DEF Do
<1>1. 0 \in T
  <2>1. Rec([k \in 0..0 |-> S], 0)
    OBVIOUS
  <2> QED BY <2>1
<1>2. ASSUME NEW m \in 0..(n - 1), m \in T PROVE m + 1 \in T
  <2>1. PICK f : Rec(f, m)
    BY <1>2
  <2> DEFINE g == [k \in 0..(m + 1) |-> IF k = m + 1 THEN Do(f[k - 1]) ELSE f[k]]
  <2>2. \A k \in 0..m : g[k] = f[k]
    OBVIOUS
  <2>3. \A k \in 0..m : f[k] = IF k = 0 THEN S ELSE Do(f[k - 1])
    BY <2>1
  <2>4. \A k \in 0..(m + 1) : g[k] = IF k = 0 THEN S ELSE Do(g[k - 1])
    <3> TAKE k \in 0..(m + 1)
    <3>1. CASE k = m + 1
      BY <3>1, <2>2
    <3>2. CASE k # m + 1
      <4>1. k \in 0..m /\ (k # 0 => k - 1 \in 0..m)
        BY <3>2
      <4> HIDE DEF g
      <4> QED BY <4>1, <2>2, <2>3
    <3> QED BY <3>1, <3>2
  <2>5. Rec(g, m + 1)
    BY <2>4
  <2> HIDE DEF g, Rec
  <2> QED BY <2>5
<1>3. n \in T
  <2> HIDE DEF T
  <2>1. 0..n \subseteq T
    BY <1>1, <1>2, UpTo
  <2> QED BY <2>1
<1>4. \E f : Rec(f, n)
  BY <1>3
<1>5. Grown(S, next) = CHOOSE h : Rec(h, n)
  BY DEF Grown, Do
<1>6. Rec(Grown(S, next), n)
  BY <1>4, <1>5
<1>7. /\ Grown(S, next)[0] = S
      /\ \A k \in 1..n : Grown(S, next)[k] = Do(Grown(S, next)[k - 1])
  <2> DEFINE u == Grown(S, next)
  <2>1. u = [k \in 0..n |-> IF k = 0 THEN S ELSE Do(u[k - 1])]
    BY <1>6
  <2>2. \A k \in 0..n : u[k] = IF k = 0 THEN S ELSE Do(u[k - 1])
    <3> HIDE DEF u
    <3> QED BY <2>1
  <2> HIDE DEF u
  <2> QED BY <2>2 DEF u
<1> QED BY <1>7, <1>0

\* next finds objects of the heap
FindsObjects(next) == \A X \in SUBSET DOMAIN kind : next[X] \in SUBSET DOMAIN kind

\* The set A is closed under next
ClosedUnder(next, A) == \A X \in SUBSET DOMAIN kind : X \subseteq A => next[X] \subseteq A

(* A worklist is done after as many rounds as there are objects.           *)
LEMMA ClosureIsClosed ==
    ASSUME heap \in Heaps, NEW S \in SUBSET DOMAIN kind, NEW next, FindsObjects(next)
    PROVE  /\ S \subseteq Closure(S, next) /\ Closure(S, next) \subseteq DOMAIN kind
           /\ next[Closure(S, next)] \subseteq Closure(S, next)
<1> DEFINE n == Cardinality(DOMAIN kind)
           g == Grown(S, next)
           T == {k \in 0..n : /\ S \subseteq g[k] /\ g[k] \subseteq DOMAIN kind
                              /\ next[g[k]] \subseteq g[k] \/ Cardinality(g[k]) >= k}
<1>1. n \in Nat /\ IsFiniteSet(DOMAIN kind)
  BY KindsFinite
<1>2. g[0] = S /\ \A k \in 1..n : g[k] = g[k - 1] \cup next[g[k - 1]]
  BY <1>1, GrownStep
<1>3. \A X \in SUBSET DOMAIN kind : IsFiniteSet(X) /\ Cardinality(X) \in Nat
  BY <1>1, FS_Subset, FS_CardinalityType
<1> HIDE DEF g, n
<1>4. 0 \in T
  BY <1>1, <1>2, <1>3
<1>5. ASSUME NEW k \in 0..(n - 1), k \in T PROVE k + 1 \in T
  <2>1. k + 1 \in 1..n /\ (k + 1) - 1 = k /\ k + 1 \in 0..n /\ k \in Nat
    BY <1>1, <1>5
  <2>2. g[k + 1] = g[k] \cup next[g[k]]
    BY <2>1, <1>2
  <2>3. S \subseteq g[k] /\ g[k] \subseteq DOMAIN kind /\ (next[g[k]] \subseteq g[k] \/ Cardinality(g[k]) >= k)
    BY <1>5
  <2>4. g[k + 1] \subseteq DOMAIN kind
    BY <2>2, <2>3 DEF FindsObjects
  <2>5. CASE next[g[k]] \subseteq g[k]
    <3>1. g[k + 1] = g[k]
      BY <2>5, <2>2
    <3> QED BY <3>1, <2>5, <2>1, <2>3
  <2>6. CASE ~(next[g[k]] \subseteq g[k])
    <3>1. g[k] \in SUBSET g[k + 1] /\ g[k] # g[k + 1]
      BY <2>6, <2>2
    <3>2. IsFiniteSet(g[k + 1]) /\ Cardinality(g[k + 1]) \in Nat /\ Cardinality(g[k]) \in Nat
      BY <2>3, <2>4, <1>3
    <3>3. Cardinality(g[k]) <= Cardinality(g[k + 1]) /\ Cardinality(g[k]) # Cardinality(g[k + 1])
      BY <3>1, <3>2, FS_Subset
    <3>4. Cardinality(g[k]) >= k
      BY <2>3, <2>6
    <3>5. Cardinality(g[k + 1]) >= k + 1
      BY ONLY <3>2, <3>3, <3>4, <2>1, SMT
    <3> QED BY <3>5, <2>1, <2>2, <2>3, <2>4
  <2> QED BY <2>5, <2>6
<1>6. n \in T
  <2> HIDE DEF T
  <2>1. 0..n \subseteq T
    BY <1>1, <1>4, <1>5, UpTo
  <2>2. n \in 0..n
    BY <1>1
  <2> QED BY <2>1, <2>2
<1>7. S \subseteq g[n] /\ g[n] \subseteq DOMAIN kind /\ (next[g[n]] \subseteq g[n] \/ Cardinality(g[n]) >= n)
  BY <1>6
<1>8. next[g[n]] \subseteq g[n]
  <2>1. CASE Cardinality(g[n]) >= n
    <3>1. g[n] \in SUBSET DOMAIN kind /\ Cardinality(g[n]) \in Nat
      BY <1>7, <1>3
    <3>2. Cardinality(g[n]) <= n /\ (n = Cardinality(g[n]) => g[n] = DOMAIN kind)
      BY <3>1, <1>1, FS_Subset DEF n
    <3>3. g[n] = DOMAIN kind
      BY <3>1, <3>2, <2>1, <1>1
    <3> QED BY <3>3 DEF FindsObjects
  <2> QED BY <2>1, <1>7
<1> QED BY <1>7, <1>8 DEF Closure, g, n

(* It finds nothing else than what it must.                                *)
LEMMA ClosureIsLeast ==
    ASSUME heap \in Heaps, NEW S, NEW next, NEW A \in SUBSET DOMAIN kind,
           S \subseteq A, ClosedUnder(next, A)
    PROVE  Closure(S, next) \subseteq A
<1> DEFINE n == Cardinality(DOMAIN kind)
           g == Grown(S, next)
           T == {k \in 0..n : g[k] \subseteq A}
<1>1. n \in Nat
  BY KindsFinite
<1>2. g[0] = S /\ \A k \in 1..n : g[k] = g[k - 1] \cup next[g[k - 1]]
  BY <1>1, GrownStep
<1> HIDE DEF g, n
<1>4. 0 \in T
  BY <1>1, <1>2
<1>5. ASSUME NEW k \in 0..(n - 1), k \in T PROVE k + 1 \in T
  <2>1. k + 1 \in 1..n /\ (k + 1) - 1 = k /\ k + 1 \in 0..n
    BY <1>1
  <2>2. g[k + 1] = g[k] \cup next[g[k]]
    BY <2>1, <1>2
  <2>3. g[k] \subseteq A /\ g[k] \in SUBSET DOMAIN kind
    BY <1>5
  <2> QED BY <2>1, <2>2, <2>3 DEF ClosedUnder
<1>6. 0..n \subseteq T
  <2> HIDE DEF T
  <2> QED BY <1>1, <1>4, <1>5, UpTo
<1>7. n \in T
  BY <1>1, <1>6
<1> QED BY <1>7 DEF Closure, g, n

(* The members of two lists in a row.                                      *)
LEMMA ConcatFacts ==
    ASSUME NEW s \in Seq(Objects), NEW t \in Seq(Objects)
    PROVE  /\ s \o t \in Seq(Objects) /\ Range(s \o t) = Range(s) \cup Range(t)
           /\ IsInjective(s \o t) <=> /\ IsInjective(s) /\ IsInjective(t)
                                      /\ Range(s) \cap Range(t) = {}
<1> DEFINE m == Len(s)
           n == Len(t)
           r == s \o t
<1>1. m \in Nat /\ n \in Nat /\ DOMAIN s = 1..m /\ DOMAIN t = 1..n
  OBVIOUS
<1>2. r \in Seq(Objects) /\ DOMAIN r = 1..(m + n)
  OBVIOUS
<1>3. \A i \in 1..m : r[i] = s[i]
  OBVIOUS
<1>4. \A i \in 1..n : r[m + i] = t[i]
  OBVIOUS
<1> HIDE DEF m, n, r
<1>5. \A i \in 1..m : i \in 1..(m + n)
  BY <1>1
<1>6. \A i \in 1..n : m + i \in 1..(m + n)
  BY <1>1
<1>7. \A j \in 1..(m + n) : j \in 1..m \/ \E i \in 1..n : j = m + i
  <2> TAKE j \in 1..(m + n)
  <2>1. j \in 1..m \/ j - m \in 1..n
    BY <1>1
  <2>2. j = m + (j - m)
    BY <1>1
  <2> QED BY <2>1, <2>2
<1>8. \A i, j \in 1..n : m + i = m + j => i = j
  BY <1>1
<1>9. \A i \in 1..m, j \in 1..n : i # m + j
  BY <1>1
<1>10. Range(r) = Range(s) \cup Range(t)
  <2>1. \A j \in DOMAIN r : r[j] \in Range(s) \cup Range(t)
    <3>1. \A i \in 1..m : r[i] \in Range(s)
      BY <1>1, <1>3 DEF Range
    <3>2. \A i \in 1..n : r[m + i] \in Range(t)
      BY <1>1, <1>4 DEF Range
    <3> QED BY <3>1, <3>2, <1>2, <1>7
  <2>2. \A i \in DOMAIN s : s[i] \in Range(r)
    BY <1>1, <1>2, <1>3, <1>5 DEF Range
  <2>3. \A i \in DOMAIN t : t[i] \in Range(r)
    BY <1>1, <1>2, <1>4, <1>6 DEF Range
  <2> QED BY <2>1, <2>2, <2>3 DEF Range
<1>11. ASSUME IsInjective(r) PROVE IsInjective(s) /\ IsInjective(t) /\ Range(s) \cap Range(t) = {}
  <2>1. IsInjective(s)
    <3> SUFFICES ASSUME NEW i \in 1..m, NEW j \in 1..m, s[i] = s[j] PROVE i = j
      BY <1>1 DEF IsInjective
    <3>1. r[i] = r[j] /\ i \in DOMAIN r /\ j \in DOMAIN r
      BY <1>2, <1>3, <1>5
    <3> QED BY <1>11, <3>1 DEF IsInjective
  <2>2. IsInjective(t)
    <3> SUFFICES ASSUME NEW i \in 1..n, NEW j \in 1..n, t[i] = t[j] PROVE i = j
      BY <1>1 DEF IsInjective
    <3>1. r[m + i] = r[m + j] /\ m + i \in DOMAIN r /\ m + j \in DOMAIN r
      BY <1>2, <1>4, <1>6
    <3>2. m + i = m + j
      BY <1>11, <3>1 DEF IsInjective
    <3> QED BY <1>8, <3>2
  <2>3. ASSUME NEW i \in 1..m, NEW j \in 1..n, s[i] = t[j] PROVE FALSE
    <3>1. i \in DOMAIN r /\ m + j \in DOMAIN r /\ r[i] = r[m + j]
      BY <2>3, <1>2, <1>3, <1>4, <1>5, <1>6
    <3> QED BY <3>1, <1>11, <1>9 DEF IsInjective
  <2> QED BY <2>1, <2>2, <2>3, <1>1 DEF Range
<1>12. ASSUME IsInjective(s), IsInjective(t), Range(s) \cap Range(t) = {} PROVE IsInjective(r)
  <2> SUFFICES ASSUME NEW a \in 1..(m + n), NEW b \in 1..(m + n), r[a] = r[b] PROVE a = b
    BY <1>2 DEF IsInjective
  <2>1. \A i \in 1..m, j \in 1..n : s[i] # t[j]
    BY <1>12, <1>1 DEF Range
  <2>2. CASE a \in 1..m /\ b \in 1..m
    BY <2>2, <1>3, <1>12, <1>1 DEF IsInjective
  <2>3. ASSUME NEW i \in 1..n, a = m + i, b \in 1..m PROVE FALSE
    BY <2>3, <2>1, <1>3, <1>4
  <2>4. ASSUME NEW i \in 1..n, b = m + i, a \in 1..m PROVE FALSE
    BY <2>4, <2>1, <1>3, <1>4
  <2>5. ASSUME NEW i \in 1..n, NEW j \in 1..n, a = m + i, b = m + j PROVE a = b
    BY <2>5, <1>4, <1>12, <1>1 DEF IsInjective
  <2> QED BY <2>2, <2>3, <2>4, <2>5, <1>7
<1> QED BY <1>2, <1>10, <1>11, <1>12 DEF r

(* The members of a list to which one is added at the end.                 *)
LEMMA AppendFacts ==
    ASSUME NEW s \in Seq(Objects), NEW x \in Objects
    PROVE  /\ Append(s, x) \in Seq(Objects) /\ Range(Append(s, x)) = Range(s) \cup {x}
           /\ IsInjective(s) /\ x \notin Range(s) => IsInjective(Append(s, x))
<1>1. Append(s, x) = s \o <<x>> /\ <<x>> \in Seq(Objects)
  OBVIOUS
<1>2. Range(<<x>>) = {x} /\ IsInjective(<<x>>)
  BY DEF Range, IsInjective
<1>3. /\ s \o <<x>> \in Seq(Objects) /\ Range(s \o <<x>>) = Range(s) \cup Range(<<x>>)
      /\ IsInjective(s \o <<x>>) <=> /\ IsInjective(s) /\ IsInjective(<<x>>)
                                     /\ Range(s) \cap Range(<<x>>) = {}
  BY ONLY <1>1, s \in Seq(Objects), ConcatFacts
<1>4. IsInjective(s) /\ x \notin Range(s) => IsInjective(s \o <<x>>)
  BY ONLY <1>2, <1>3
<1> QED BY ONLY <1>1, <1>2, <1>3, <1>4

(* The first member of a list and the others.                              *)
LEMMA TailFacts ==
    ASSUME NEW s \in Seq(Objects), s # <<>>
    PROVE  /\ Head(s) \in Objects /\ Tail(s) \in Seq(Objects)
           /\ Range(s) = {Head(s)} \cup Range(Tail(s))
           /\ IsInjective(s) => IsInjective(Tail(s)) /\ Head(s) \notin Range(Tail(s))
<1>1. Head(s) \in Objects /\ Tail(s) \in Seq(Objects) /\ <<Head(s)>> \in Seq(Objects)
  OBVIOUS
<1>2. s = <<Head(s)>> \o Tail(s)
  OBVIOUS
<1>3. Range(<<Head(s)>>) = {Head(s)}
  BY DEF Range
<1>4. /\ Range(<<Head(s)>> \o Tail(s)) = Range(<<Head(s)>>) \cup Range(Tail(s))
      /\ IsInjective(<<Head(s)>> \o Tail(s)) <=>
           /\ IsInjective(<<Head(s)>>) /\ IsInjective(Tail(s))
           /\ Range(<<Head(s)>>) \cap Range(Tail(s)) = {}
  BY ONLY <1>1, ConcatFacts
<1>5. Range(s) = {Head(s)} \cup Range(Tail(s))
  BY ONLY <1>2, <1>3, <1>4
<1>6. IsInjective(s) => IsInjective(Tail(s)) /\ Head(s) \notin Range(Tail(s))
  BY ONLY <1>2, <1>3, <1>4
<1> QED BY <1>1, <1>5, <1>6

(* Reversing a list keeps its members.                                     *)
LEMMA ReverseFacts ==
    ASSUME NEW s \in Seq(Objects), IsInjective(s)
    PROVE  /\ Reverse(s) \in Seq(Objects) /\ Range(Reverse(s)) = Range(s)
           /\ IsInjective(Reverse(s))
<1> DEFINE n == Len(s)
           r == Reverse(s)
<1>1. n \in Nat /\ DOMAIN s = 1..n
  OBVIOUS
<1>2. \A i \in 1..n : (n - i) + 1 \in 1..n /\ (n - ((n - i) + 1)) + 1 = i
  BY <1>1
<1>3. DOMAIN r = 1..n /\ \A i \in 1..n : r[i] = s[(n - i) + 1]
  BY DEF Reverse
<1>4. r \in Seq(Objects)
  <2>1. \A i \in 1..n : s[(n - i) + 1] \in Objects
    BY <1>2
  <2> QED BY <2>1, <1>1 DEF Reverse
<1> HIDE DEF n, r
<1>5. Range(r) = Range(s)
  <2>1. \A i \in 1..n : r[i] \in Range(s)
    BY <1>1, <1>2, <1>3 DEF Range
  <2>2. \A i \in 1..n : s[i] \in Range(r)
    <3> TAKE i \in 1..n
    <3>1. (n - i) + 1 \in 1..n /\ r[(n - i) + 1] = s[i]
      BY <1>2, <1>3
    <3> QED BY <3>1, <1>3 DEF Range
  <2> QED BY <2>1, <2>2, <1>1, <1>3 DEF Range
<1>6. IsInjective(r)
  <2> SUFFICES ASSUME NEW a \in 1..n, NEW b \in 1..n, s[(n - a) + 1] = s[(n - b) + 1] PROVE a = b
    BY <1>3 DEF IsInjective
  <2>1. (n - a) + 1 = (n - b) + 1
    BY <1>1, <1>2 DEF IsInjective
  <2> QED BY <2>1, <1>1
<1> QED BY <1>4, <1>5, <1>6 DEF r

\* The loop of Among
Chosen(list, S) ==
    CHOOSE f : f = [k \in 0..Len(list) |->
                      IF k = 0 THEN <<>>
                      ELSE IF list[k] \in S THEN Append(f[k - 1], list[k]) ELSE f[k - 1]]

(* What it has after each member.                                          *)
LEMMA ChosenStep ==
    ASSUME NEW list, NEW S, Len(list) \in Nat
    PROVE  /\ Chosen(list, S)[0] = <<>>
           /\ \A k \in 1..Len(list) :
                Chosen(list, S)[k] =
                    IF list[k] \in S THEN Append(Chosen(list, S)[k - 1], list[k])
                    ELSE Chosen(list, S)[k - 1]
<1> DEFINE n == Len(list)
           Do(k, v) == IF list[k] \in S THEN Append(v, list[k]) ELSE v
           Rec(f, m) == f = [k \in 0..m |-> IF k = 0 THEN <<>> ELSE Do(k, f[k - 1])]
           T == {m \in Nat : \E f : Rec(f, m)}
<1> HIDE DEF Do
<1>1. 0 \in T
  <2>1. Rec([k \in 0..0 |-> <<>>], 0)
    OBVIOUS
  <2> QED BY <2>1
<1>2. ASSUME NEW m \in 0..(n - 1), m \in T PROVE m + 1 \in T
  <2>1. PICK f : Rec(f, m)
    BY <1>2
  <2> DEFINE g == [k \in 0..(m + 1) |-> IF k = m + 1 THEN Do(k, f[k - 1]) ELSE f[k]]
  <2>2. \A k \in 0..m : g[k] = f[k]
    OBVIOUS
  <2>3. \A k \in 0..m : f[k] = IF k = 0 THEN <<>> ELSE Do(k, f[k - 1])
    BY <2>1
  <2>4. \A k \in 0..(m + 1) : g[k] = IF k = 0 THEN <<>> ELSE Do(k, g[k - 1])
    <3> TAKE k \in 0..(m + 1)
    <3>1. CASE k = m + 1
      BY <3>1, <2>2
    <3>2. CASE k # m + 1
      <4>1. k \in 0..m /\ (k # 0 => k - 1 \in 0..m)
        BY <3>2
      <4> HIDE DEF g
      <4> QED BY <4>1, <2>2, <2>3
    <3> QED BY <3>1, <3>2
  <2>5. Rec(g, m + 1)
    BY <2>4
  <2> HIDE DEF g, Rec
  <2> QED BY <2>5
<1>3. n \in T
  <2> HIDE DEF T
  <2>1. 0..n \subseteq T
    BY <1>1, <1>2, UpTo
  <2> QED BY <2>1
<1>4. \E f : Rec(f, n)
  BY <1>3
<1>5. Chosen(list, S) = CHOOSE h : Rec(h, n)
  BY DEF Chosen, Do
<1>6. Rec(Chosen(list, S), n)
  BY <1>4, <1>5
<1>7. /\ Chosen(list, S)[0] = <<>>
      /\ \A k \in 1..n : Chosen(list, S)[k] = Do(k, Chosen(list, S)[k - 1])
  <2> DEFINE u == Chosen(list, S)
  <2>1. u = [k \in 0..n |-> IF k = 0 THEN <<>> ELSE Do(k, u[k - 1])]
    BY <1>6
  <2>2. \A k \in 0..n : u[k] = IF k = 0 THEN <<>> ELSE Do(k, u[k - 1])
    <3> HIDE DEF u
    <3> QED BY <2>1
  <2> HIDE DEF u
  <2> QED BY <2>2 DEF u
<1> QED BY <1>7 DEF Do

(* The list of the objects that are kept, or taken out, of finobj.         *)
LEMMA AmongFacts ==
    ASSUME NEW list \in Seq(Objects), NEW S, IsInjective(list)
    PROVE  /\ Among(list, S) \in Seq(Objects) /\ IsInjective(Among(list, S))
           /\ Range(Among(list, S)) = Range(list) \cap S
<1> DEFINE n == Len(list)
           c == Chosen(list, S)
           Before(k) == {list[i] : i \in 1..k}
           T == {k \in 0..n : /\ c[k] \in Seq(Objects) /\ IsInjective(c[k])
                              /\ Range(c[k]) = Before(k) \cap S}
<1>1. n \in Nat /\ DOMAIN list = 1..n /\ \A k \in 1..n : list[k] \in Objects
  OBVIOUS
<1>2. /\ c[0] = <<>>
      /\ \A k \in 1..n : c[k] = IF list[k] \in S THEN Append(c[k - 1], list[k]) ELSE c[k - 1]
  BY <1>1, ChosenStep
<1> HIDE DEF c, n
<1>3. 0 \in T
  <2>1. <<>> \in Seq(Objects) /\ IsInjective(<<>>) /\ Range(<<>>) = {}
    BY DEF IsInjective, Range
  <2>2. Before(0) = {}
    OBVIOUS
  <2>3. 0 \in 0..n
    BY <1>1
  <2> HIDE DEF Before
  <2>4. c[0] \in Seq(Objects) /\ IsInjective(c[0]) /\ Range(c[0]) = Before(0) \cap S
    BY ONLY <1>2, <2>1, <2>2
  <2> QED BY ONLY <2>3, <2>4 DEF T
<1>4. ASSUME NEW k \in 0..(n - 1), k \in T PROVE k + 1 \in T
  <2>1. k + 1 \in 1..n /\ (k + 1) - 1 = k /\ k + 1 \in 0..n
    BY <1>1
  <2>2. c[k + 1] = IF list[k + 1] \in S THEN Append(c[k], list[k + 1]) ELSE c[k]
    BY <2>1, <1>2
  <2>3. c[k] \in Seq(Objects) /\ IsInjective(c[k]) /\ Range(c[k]) = Before(k) \cap S
    BY <1>4
  <2>4. Before(k + 1) = Before(k) \cup {list[k + 1]}
    <3>1. \A i \in 1..(k + 1) : i = k + 1 \/ i \in 1..k
      BY <1>1
    <3>2. \A i \in 1..k : i \in 1..(k + 1)
      BY <1>1
    <3>3. k + 1 \in 1..(k + 1)
      BY <1>1
    <3> QED BY <3>1, <3>2, <3>3
  <2>5. list[k + 1] \notin Before(k)
    <3>1. \A i \in 1..k : i \in 1..n /\ i # k + 1
      BY <1>1
    <3> QED BY <3>1, <2>1, <1>1 DEF IsInjective
  <2>6. list[k + 1] \in Objects
    BY <2>1, <1>1
  <2> HIDE DEF Before
  <2>7. CASE list[k + 1] \in S
    <3>1. c[k + 1] = Append(c[k], list[k + 1]) /\ list[k + 1] \notin Range(c[k])
      BY <2>7, <2>2, <2>3, <2>5
    <3>2. c[k + 1] \in Seq(Objects) /\ IsInjective(c[k + 1]) /\ Range(c[k + 1]) = Range(c[k]) \cup {list[k + 1]}
      BY <3>1, <2>3, <2>6, AppendFacts
    <3> QED BY <3>2, <2>1, <2>3, <2>4, <2>7
  <2>8. CASE list[k + 1] \notin S
    BY <2>8, <2>1, <2>2, <2>3, <2>4
  <2> QED BY <2>7, <2>8
<1>5. n \in T
  <2> HIDE DEF T
  <2>1. 0..n \subseteq T
    BY <1>1, <1>3, <1>4, UpTo
  <2> QED BY <2>1, <1>1
<1>6. Before(n) = Range(list)
  BY <1>1 DEF Range
<1>7. Among(list, S) = c[n]
  BY DEF Among, Chosen, c, n
<1> QED BY <1>5, <1>6, <1>7

(* What really_mark_object marks: the objects themselves and the values of *)
(* upvalues among them.                                                    *)
LEMMA MarkedFacts ==
    ASSUME Types, NEW S
    PROVE  /\ S \cap WhiteObjects \subseteq Marked(S) /\ Marked(S) \subseteq WhiteObjects
           /\ \A u \in Marked(S) : kind[u] = "upvalue" => Content(u) \cap WhiteObjects \subseteq Marked(S)
<1> DEFINE next == [X \in SUBSET DOMAIN kind |->
               UNION {Content(u) \cap WhiteObjects : u \in {o \in X : kind[o] = "upvalue"}}]
<1>1. heap \in Heaps /\ WhiteObjects \in SUBSET DOMAIN kind
  BY DEF Types, WhiteObjects
<1>2. \A X \in SUBSET DOMAIN kind : next[X] \subseteq WhiteObjects
  OBVIOUS
<1>3. \A X \in SUBSET DOMAIN kind : \A u \in X :
        kind[u] = "upvalue" => Content(u) \cap WhiteObjects \subseteq next[X]
  OBVIOUS
<1>4. Marked(S) = Closure(S \cap WhiteObjects, next)
  BY DEF Marked
<1> HIDE DEF next
<1>5. FindsObjects(next) /\ ClosedUnder(next, WhiteObjects)
  BY <1>1, <1>2 DEF FindsObjects, ClosedUnder
<1>6. S \cap WhiteObjects \in SUBSET DOMAIN kind /\ S \cap WhiteObjects \subseteq WhiteObjects
  BY <1>1
<1>7. Marked(S) \subseteq WhiteObjects
  BY <1>1, <1>4, <1>5, <1>6, ClosureIsLeast
<1>8. S \cap WhiteObjects \subseteq Marked(S) /\ Marked(S) \subseteq DOMAIN kind /\ next[Marked(S)] \subseteq Marked(S)
  BY <1>1, <1>4, <1>5, <1>6, ClosureIsClosed
<1> QED BY <1>3, <1>7, <1>8

(* Without upvalues these are the objects themselves.                      *)
LEMMA MarkedPlain ==
    ASSUME Types, NEW S, \A o \in S \cap WhiteObjects : kind[o] # "upvalue"
    PROVE  Marked(S) = S \cap WhiteObjects
<1> DEFINE next == [X \in SUBSET DOMAIN kind |->
               UNION {Content(u) \cap WhiteObjects : u \in {o \in X : kind[o] = "upvalue"}}]
           A == S \cap WhiteObjects
<1>1. heap \in Heaps /\ A \in SUBSET DOMAIN kind
  BY DEF Types, WhiteObjects
<1>2. ClosedUnder(next, A)
  <2> SUFFICES ASSUME NEW X \in SUBSET DOMAIN kind, X \subseteq A PROVE next[X] \subseteq A
    BY DEF ClosedUnder
  <2>1. {o \in X : kind[o] = "upvalue"} = {}
    OBVIOUS
  <2> QED BY <2>1
<1>3. Marked(S) = Closure(A, next)
  BY DEF Marked
<1> HIDE DEF next, A
<1>4. Marked(S) \subseteq A
  BY <1>1, <1>2, <1>3, ClosureIsLeast
<1> QED BY <1>4, MarkedFacts DEF A

(* What the atomic phase traverses from S, among the white objects W.      *)
LEMMA TraversedFacts ==
    ASSUME Types, NEW S \in SUBSET alive, NEW W \in SUBSET alive
    PROVE  /\ S \subseteq Traversed(S, W) /\ Traversed(S, W) \subseteq S \cup W
           /\ \A o \in Traversed(S, W) :
                Children(o, Traversed(S, W) \cup (alive \ W)) \cap W \subseteq Traversed(S, W)
<1> DEFINE next == [X \in SUBSET DOMAIN kind |->
                  UNION {Children(o, X \cup (alive \ W)) \cap W : o \in X}]
           A == S \cup W
           T == Traversed(S, W)
<1>1. heap \in Heaps /\ A \in SUBSET DOMAIN kind /\ S \in SUBSET DOMAIN kind /\ W \in SUBSET DOMAIN kind
  BY DEF Types
<1>2. \A X \in SUBSET DOMAIN kind : next[X] \subseteq W
  OBVIOUS
<1>3. \A X \in SUBSET DOMAIN kind : \A o \in X : Children(o, X \cup (alive \ W)) \cap W \subseteq next[X]
  OBVIOUS
<1>4. T = Closure(S, next)
  BY DEF Traversed
<1> HIDE DEF next, T
<1>5. FindsObjects(next) /\ ClosedUnder(next, A)
  BY <1>1, <1>2 DEF FindsObjects, ClosedUnder
<1>6. T \subseteq A
  <2>1. S \subseteq A
    OBVIOUS
  <2> HIDE DEF A
  <2> QED BY <1>1, <1>4, <1>5, <2>1, ClosureIsLeast
<1>7. S \subseteq T /\ T \subseteq DOMAIN kind /\ next[T] \subseteq T
  BY <1>1, <1>4, <1>5, ClosureIsClosed
<1>8. \A o \in T : Children(o, T \cup (alive \ W)) \cap W \subseteq T
  BY <1>3, <1>7
<1> QED BY <1>6, <1>7, <1>8 DEF T

(* The program gets at nothing that is to be freed.                        *)
LEMMA AccessibleIsLive ==
    ASSUME Types, RefsLive, Range(tobefnz) \subseteq Live
    PROVE  Accessible \subseteq Live
<1> DEFINE next == [X \in SUBSET DOMAIN kind |-> UNION {Content(o) \cup key[o] : o \in X}]
           S == {Main} \cup Range(tobefnz)
<1>1. heap \in Heaps /\ Live \in SUBSET DOMAIN kind /\ DOMAIN kind \subseteq Objects
  BY KindsFinite DEF Types, Live
<1>2. \A o \in Live : Content(o) \cup key[o] \subseteq Live
  BY <1>1 DEF RefsLive, Content
<1>3. ClosedUnder(next, Live)
  BY <1>2 DEF ClosedUnder
<1>4. S \subseteq Live
  BY DEF RefsLive
<1>5. Accessible = Closure(S, next)
  BY DEF Accessible
<1> HIDE DEF next, S
<1> QED BY <1>1, <1>3, <1>4, <1>5, ClosureIsLeast

-----------------------------------------------------------------------------
(* What the invariant says, and that it holds at the start *)

(* The invariant has the three properties of the runs.                     *)
LEMMA GcInvFacts == GcInv => NoDanglingReference /\ ListsKept /\ TriColour
<1> SUFFICES ASSUME GcInv PROVE NoDanglingReference /\ ListsKept /\ TriColour
  OBVIOUS
<1> USE DEF GcInv
<1>1. NoDanglingReference
  <2>1. Accessible \subseteq Live
    BY AccessibleIsLive DEF Finalizers
  <2>2. Live \subseteq alive /\ alive \subseteq Objects
    BY KindsFinite DEF Live, Types
  <2>3. \A o \in Objects : home[o] \subseteq Live
    BY DEF RefsLive
  <2> QED BY <2>1, <2>2, <2>3 DEF NoDanglingReference
<1>2. ListsKept
  BY DEF Finalizers, ListsKept, Live
<1>3. TriColour
  <2> SUFFICES ASSUME KeepInvariant, NEW o \in alive \ grayagain, colour[o] = "black"
               PROVE  Children(o, Objects) \cap WhiteObjects = {}
    BY DEF TriColour
  <2>1. GrayOnes /\ BlackOnes /\ o \in Objects
    BY KindsFinite DEF Marking, Types
  <2>2. ~IsWhite(o) /\ o \notin gray /\ home[o] = {}
    BY <2>1 DEF GrayOnes, IsWhite, Whites
  <2>3. kind[o] \notin {"weak", "ephemeron"} /\ (kind[o] = "thread" => o \in done)
    BY <2>1, <2>2 DEF GrayOnes
  <2>4. o \in done => Upvalues(o) = {}
    BY KindsFinite DEF OpenOnes, Upvalues, Types
  <2>5. Children(o, Objects) = refs[o]
    BY <2>2, <2>3, <2>4 DEF Children, Content
  <2> QED BY <2>1, <2>5 DEF BlackOnes
<1> QED BY <1>1, <1>2, <1>3

(* At the start the stack of the program refers to the first objects.      *)
LEMMA GcInit == Init => GcInv
<1> SUFFICES ASSUME Init PROVE GcInv
  OBVIOUS
<1> USE DEF Init
<1>1. DOMAIN kind \subseteq Objects /\ Main \in DOMAIN kind /\ kind[Main] = "thread"
  BY KindsFinite
<1>2. heap.initial \subseteq DOMAIN kind /\ \A o \in heap.initial : kind[o] # "upvalue"
  BY HeapAssumption DEF kind
<1>3. DeadObjects = {} /\ Live = alive
  <2>1. \A o \in alive : colour[o] = "white"
    BY <1>1, <1>2
  <2> QED BY <2>1 DEF DeadObjects, Live
<1>4. /\ \A o \in Objects : key[o] = {} /\ home[o] = {}
      /\ \A o \in Objects : refs[o] = IF o = Main THEN heap.initial ELSE {}
  BY <1>1
<1>5. Types
  BY <1>1, <1>2 DEF Types, States
<1>6. RefsLive
  BY <1>1, <1>2, <1>3, <1>4 DEF RefsLive
<1>7. Unused
  BY <1>4 DEF Unused
<1>8. OpenOnes
  BY <1>4 DEF OpenOnes
<1>9. Kinds
  BY <1>1, <1>2, <1>4 DEF Kinds
<1>10. Finalizers
  <2>1. <<>> \o <<>> = <<>> /\ IsInjective(<<>>) /\ Range(<<>>) = {}
    BY DEF IsInjective, Range
  <2> QED BY <2>1 DEF Finalizers
<1>11. Phases
  BY <1>1, <1>2, <1>3 DEF Phases
<1>12. Marking
  BY DEF Marking, KeepInvariant
<1> QED BY <1>5, <1>6, <1>7, <1>8, <1>9, <1>10, <1>11, <1>12 DEF GcInv

-----------------------------------------------------------------------------
(* Steps of the program *)

(* Facts that most of the proofs use.                                      *)
LEMMA Basics ==
    ASSUME GcInv
    PROVE  /\ DOMAIN kind \subseteq Objects /\ alive \subseteq Objects /\ Live \subseteq alive
           /\ Main \in Live /\ kind[Main] = "thread"
           /\ Stack \subseteq Live /\ \A o \in Stack : kind[o] # "upvalue"
           /\ \A u \in Objects : home[u] # {} => u \in alive /\ kind[u] = "upvalue"
           /\ KeepInvariant => DeadObjects = {} /\ Live = alive
<1> USE DEF GcInv
<1>1. DOMAIN kind \subseteq Objects /\ kind[Main] = "thread"
  BY KindsFinite DEF Types
<1>2. alive \subseteq Objects /\ Live \subseteq alive
  BY <1>1 DEF Types, Live
<1>3. Main \in Live /\ Stack \subseteq Live
  BY DEF RefsLive, Stack
<1>4. \A o \in Stack : kind[o] # "upvalue"
  BY <1>1, <1>2, <1>3 DEF Kinds, Stack
<1>5. \A u \in Objects : home[u] # {} => u \in alive /\ kind[u] = "upvalue"
  BY DEF Unused, OpenOnes
<1>6. KeepInvariant => DeadObjects = {} /\ Live = alive
  BY DEF Phases, KeepInvariant, Live
<1> QED BY <1>1, <1>2, <1>3, <1>4, <1>5, <1>6

(* A new object is white, and only the stack of the program refers to it.  *)
LEMMA NewKeeps ==
    ASSUME GcInv, NEW o \in DOMAIN kind, New(o)
    PROVE  GcInv'
<1> USE DEF New, Push, CollectorUnchanged, lists, finalizers
<1>1. /\ DOMAIN kind \subseteq Objects /\ alive \subseteq Objects /\ Live \subseteq alive
      /\ Main \in Live /\ kind[Main] = "thread"
      /\ \A u \in Objects : home[u] # {} => u \in alive /\ kind[u] = "upvalue"
  BY Basics
<1>2. Types /\ RefsLive /\ Unused /\ OpenOnes /\ Kinds /\ Finalizers /\ Phases /\ Marking
  BY DEF GcInv
<1>3. kind' = kind
  BY DEF kind
<1>4. o \in Objects /\ o \notin alive /\ o # Main /\ o \in DOMAIN kind /\ kind[o] \notin {"upvalue", "closure"}
  BY <1>1
<1>5. /\ refs' = [refs EXCEPT ![Main] = @ \cup {o}] /\ alive' = alive \cup {o} /\ refs[o] = {}
      /\ colour' = [colour EXCEPT ![o] = "white"] /\ key[o] = {} /\ home[o] = {}
  BY <1>2, <1>4 DEF Unused
<1>6. DeadObjects' = DeadObjects /\ Live' = Live \cup {o}
  <2>1. \A p \in alive : p # o /\ colour'[p] = colour[p]
    BY <1>1, <1>2, <1>4, <1>5 DEF Types
  <2>2. colour'[o] = "white"
    BY <1>2, <1>4, <1>5 DEF Types
  <2>3. DeadObjects' = DeadObjects
    BY <2>1, <2>2, <1>5 DEF DeadObjects
  <2> QED BY <2>3, <1>4, <1>5 DEF Live, DeadObjects
<1>7. /\ refs'[Main] = refs[Main] \cup {o} /\ \A p \in Objects \ {Main} : refs'[p] = refs[p]
      /\ colour'[o] = "white" /\ \A p \in Objects \ {o} : colour'[p] = colour[p]
  BY <1>1, <1>2, <1>4, <1>5 DEF Types
<1>8. Types'
  BY <1>1, <1>2, <1>3, <1>4, <1>5 DEF Types
<1>9. RefsLive'
  BY <1>1, <1>2, <1>4, <1>5, <1>6, <1>7 DEF RefsLive
<1>10. Unused'
  BY <1>1, <1>2, <1>4, <1>5, <1>7 DEF Unused
<1>11. OpenOnes'
  BY <1>1, <1>2, <1>3, <1>4, <1>5, <1>7 DEF OpenOnes
<1>12. Kinds'
  BY <1>1, <1>2, <1>3, <1>4, <1>5, <1>7 DEF Kinds
<1>13. Finalizers'
  BY <1>1, <1>2, <1>3, <1>4, <1>6 DEF Finalizers
<1>14. Phases'
  BY <1>1, <1>2, <1>4, <1>5, <1>6, <1>7 DEF Phases
<1>15. Marking'
  <2> SUFFICES ASSUME KeepInvariant' PROVE GrayOnes' /\ BlackOnes'
    BY DEF Marking
  <2>1. KeepInvariant /\ GrayOnes /\ BlackOnes
    BY <1>2 DEF Marking, KeepInvariant
  <2>2. GrayOnes'
    BY <2>1, <1>1, <1>3, <1>4, <1>5, <1>7 DEF GrayOnes, IsWhite, Whites
  <2>3. WhiteObjects' = WhiteObjects \cup {o}
    BY <1>1, <1>4, <1>5, <1>7 DEF WhiteObjects, IsWhite, Whites
  <2>4. BlackOnes'
    <3> SUFFICES ASSUME NEW p \in alive' \ grayagain', colour'[p] = "black"
                 PROVE  refs'[p] \cap WhiteObjects' = {}
      BY DEF BlackOnes
    <3>1. p \in alive \ grayagain /\ p # o /\ colour[p] = "black"
      BY <1>1, <1>4, <1>5, <1>7
    <3>2. p # Main
      BY <3>1, <2>1, <1>1, <1>2 DEF GrayOnes, OpenOnes, IsWhite, Whites
    <3>3. refs[p] \subseteq alive
      BY <3>1, <1>1, <1>2, <2>1 DEF RefsLive, Live, Phases, KeepInvariant
    <3> QED BY <3>1, <3>2, <3>3, <2>1, <2>3, <1>1, <1>4, <1>7 DEF BlackOnes
  <2> QED BY <2>2, <2>4
<1> QED BY <1>8, <1>9, <1>10, <1>11, <1>12, <1>13, <1>14, <1>15 DEF GcInv

(* The stack of a thread that has not ended may change in any way, among   *)
(* the objects that are not to be freed: it is traversed again.            *)
LEMMA StackKeeps ==
    ASSUME GcInv, NEW t \in Live, kind[t] = "thread", t \notin done,
           NEW S \in SUBSET Live, \A x \in S : kind[x] # "upvalue",
           refs' = [refs EXCEPT ![t] = S],
           UNCHANGED <<program, alive, colour, lists, finalizers, state, unswept, running>>
    PROVE  GcInv'
<1> USE DEF program, lists, finalizers
<1>1. DOMAIN kind \subseteq Objects /\ alive \subseteq Objects /\ Live \subseteq alive
  BY Basics
<1>2. Types /\ RefsLive /\ Unused /\ OpenOnes /\ Kinds /\ Finalizers /\ Phases /\ Marking
  BY DEF GcInv
<1>3. kind' = kind
  BY DEF kind
<1>4. t \in Objects /\ t \in alive
  BY <1>1
<1>5. refs'[t] = S /\ \A p \in Objects \ {t} : refs'[p] = refs[p]
  BY <1>2, <1>4 DEF Types
<1>6. DeadObjects' = DeadObjects /\ Live' = Live /\ WhiteObjects' = WhiteObjects
  BY DEF DeadObjects, Live, WhiteObjects, IsWhite
<1>7. Types'
  BY <1>1, <1>2, <1>3 DEF Types
<1>8. RefsLive'
  BY <1>1, <1>2, <1>5, <1>6 DEF RefsLive
<1>9. Unused'
  BY <1>2, <1>4, <1>5 DEF Unused
<1>10. OpenOnes'
  <2>1. \A u \in Objects : home[u] # {} => u # t
    BY <1>2 DEF OpenOnes
  <2>2. \A p \in done : p # t /\ p \in Objects
    BY <1>1, <1>2 DEF Types
  <2> QED BY <2>1, <2>2, <1>2, <1>3, <1>5 DEF OpenOnes
<1>11. Kinds'
  BY <1>1, <1>2, <1>3, <1>5 DEF Kinds
<1>12. Finalizers'
  BY <1>2, <1>3, <1>6 DEF Finalizers
<1>13. Phases'
  BY <1>2, <1>6 DEF Phases
<1>14. Marking'
  <2> SUFFICES ASSUME KeepInvariant' PROVE GrayOnes' /\ BlackOnes'
    BY DEF Marking
  <2>1. KeepInvariant /\ GrayOnes /\ BlackOnes
    BY <1>2 DEF Marking, KeepInvariant
  <2>2. GrayOnes'
    BY <2>1, <1>3 DEF GrayOnes, IsWhite
  <2>3. ~(t \notin grayagain /\ colour[t] = "black")
    BY <1>4, <2>1 DEF GrayOnes, IsWhite, Whites
  <2>4. BlackOnes'
    BY <2>1, <2>3, <1>1, <1>5, <1>6 DEF BlackOnes
  <2> QED BY <2>2, <2>4
<1> QED BY <1>7, <1>8, <1>9, <1>10, <1>11, <1>12, <1>13, <1>14 DEF GcInv

(* The program forgets an object.                                          *)
LEMMA DropKeeps ==
    ASSUME GcInv, NEW o \in DOMAIN kind, Drop(o)
    PROVE  GcInv'
<1>1. Main \in Live /\ kind[Main] = "thread" /\ Stack \subseteq Live /\ \A x \in Stack : kind[x] # "upvalue"
  BY Basics
<1>2. Main \notin done /\ Main \in Objects
  BY Basics DEF GcInv, OpenOnes
<1>3. refs' = [refs EXCEPT ![Main] = Stack \ {o}]
  BY DEF Drop, Stack
<1>4. UNCHANGED <<program, alive, colour, lists, finalizers, state, unswept, running>>
  BY DEF Drop, CollectorUnchanged
<1>5. Stack \ {o} \in SUBSET Live /\ \A x \in Stack \ {o} : kind[x] # "upvalue"
  BY <1>1
<1> QED BY <1>1, <1>2, <1>3, <1>4, <1>5, StackKeeps

(* It reads a table, or calls a closure.                                   *)
LEMMA LoadKeeps ==
    ASSUME GcInv, NEW o \in DOMAIN kind, Load(o)
    PROVE  GcInv'
<1> DEFINE S == IF kind[o] = "closure" THEN UNION {Content(u) : u \in refs[o]} ELSE refs[o] \cup key[o]
<1>1. /\ Main \in Live /\ kind[Main] = "thread" /\ Stack \subseteq Live
      /\ \A x \in Stack : kind[x] # "upvalue"
      /\ Live \subseteq alive /\ alive \subseteq Objects
  BY Basics
<1>2. Types /\ RefsLive /\ OpenOnes /\ Kinds /\ Main \notin done /\ Main \in Objects
  BY <1>1 DEF GcInv, OpenOnes
<1>3. o \in Live /\ kind[o] # "upvalue" /\ refs[o] \subseteq Live /\ key[o] \subseteq Live
  BY <1>1, <1>2 DEF Load, RefsLive
<1>4. S \subseteq Live /\ \A x \in S : kind[x] # "upvalue"
  <2>1. CASE kind[o] = "closure"
    <3> SUFFICES ASSUME NEW u \in refs[o], NEW x \in Content(u)
                 PROVE  x \in Live /\ kind[x] # "upvalue"
      BY <2>1
    <3>1. u \in Live /\ u \in alive /\ u \in Objects /\ kind[u] = "upvalue"
      BY <2>1, <1>1, <1>2, <1>3 DEF Kinds
    <3>2. CASE x \in refs[u]
      BY <3>1, <3>2, <1>2 DEF Kinds, RefsLive
    <3>3. ASSUME NEW t \in home[u], x \in refs[t] PROVE x \in Live /\ kind[x] # "upvalue"
      <4>1. t \in Live /\ t \in alive /\ kind[t] = "thread"
        BY <3>1, <1>1, <1>2 DEF RefsLive, OpenOnes
      <4> QED BY <4>1, <3>3, <1>2 DEF RefsLive, Kinds
    <3> QED BY <3>2, <3>3 DEF Content
  <2>2. CASE kind[o] # "closure"
    BY <2>2, <1>1, <1>2, <1>3 DEF Kinds
  <2> QED BY <2>1, <2>2
<1>5. refs' = [refs EXCEPT ![Main] = Stack \cup S]
  BY DEF Load, Stack, Push
<1>6. UNCHANGED <<program, alive, colour, lists, finalizers, state, unswept, running>>
  BY DEF Load, CollectorUnchanged
<1>7. Stack \cup S \in SUBSET Live /\ \A x \in Stack \cup S : kind[x] # "upvalue"
  BY <1>1, <1>4
<1> HIDE DEF S
<1> QED BY <1>1, <1>2, <1>5, <1>6, <1>7, StackKeeps

(* A coroutine sets its local variable.                                    *)
LEMMA SetLocalKeeps ==
    ASSUME GcInv, NEW t \in DOMAIN kind, NEW x \in DOMAIN kind, SetLocal(t, {x})
    PROVE  GcInv'
<1>1. Stack \subseteq Live /\ \A y \in Stack : kind[y] # "upvalue"
  BY Basics
<1>2. t \in Live /\ kind[t] = "thread" /\ t \notin done
  BY <1>1 DEF SetLocal
<1>3. {x} \in SUBSET Live /\ \A y \in {x} : kind[y] # "upvalue"
  BY <1>1 DEF SetLocal
<1>4. refs' = [refs EXCEPT ![t] = {x}]
  BY DEF SetLocal
<1>5. UNCHANGED <<program, alive, colour, lists, finalizers, state, unswept, running>>
  BY DEF SetLocal, CollectorUnchanged
<1> QED BY <1>2, <1>3, <1>4, <1>5, StackKeeps

(* A table or userdata o changes behind the backward barrier, or gets      *)
(* nothing to refer to.                                                    *)
LEMMA TableKeeps ==
    ASSUME GcInv, NEW o \in Live, kind[o] \in {"table", "weak", "ephemeron", "userdata"},
           NEW S \in SUBSET Live, NEW K \in SUBSET Live, \A x \in S \cup K : kind[x] # "upvalue",
           S # {} => kind[o] # "userdata", K # {} => kind[o] = "ephemeron",
           refs' = [refs EXCEPT ![o] = S], key' = [key EXCEPT ![o] = K],
           \/ BarrierBack(o)
           \/ S = {} /\ UNCHANGED <<colour, gray, grayagain>>,
           UNCHANGED <<heap, home, done, alive, twups, state, unswept, running>>,
           finobj' \in Seq(Objects), tobefnz' \in Seq(Objects), IsInjective(finobj' \o tobefnz'),
           finalized' = Range(finobj') \cup Range(tobefnz'), finalized' \subseteq Live,
           \A x \in finalized' : kind[x] # "upvalue"
    PROVE  GcInv'
<1>1. DOMAIN kind \subseteq Objects /\ alive \subseteq Objects /\ Live \subseteq alive
  BY Basics
<1>2. Types /\ RefsLive /\ Unused /\ OpenOnes /\ Kinds /\ Finalizers /\ Phases /\ Marking
  BY DEF GcInv
<1>3. kind' = kind
  BY DEF kind
<1>4. o \in Objects /\ o \in alive
  BY <1>1
<1>5. /\ refs'[o] = S /\ \A p \in Objects \ {o} : refs'[p] = refs[p]
      /\ key'[o] = K /\ \A p \in Objects \ {o} : key'[p] = key[p]
  BY <1>2, <1>4 DEF Types
<1>6. /\ colour' \in [Objects -> {"white", "dead", "gray", "black"}]
      /\ \A p \in Objects : colour'[p] = colour[p] \/ (p = o /\ colour[p] = "black" /\ colour'[p] = "gray")
  BY <1>2, <1>4 DEF Types, BarrierBack
<1>7. DeadObjects' = DeadObjects /\ Live' = Live /\ WhiteObjects' = WhiteObjects
  <2>1. DeadObjects' = DeadObjects
    BY <1>1, <1>6 DEF DeadObjects
  <2>2. WhiteObjects' = WhiteObjects
    BY <1>1, <1>6 DEF WhiteObjects, IsWhite, Whites
  <2> QED BY <2>1, <2>2 DEF Live
<1>8. Types'
  BY <1>1, <1>2, <1>3, <1>6 DEF Types
<1>9. RefsLive'
  BY <1>1, <1>2, <1>5, <1>7 DEF RefsLive
<1>10. Unused'
  BY <1>2, <1>4, <1>5 DEF Unused
<1>11. OpenOnes'
  <2>1. \A u \in Objects : home[u] # {} => u # o
    BY <1>2 DEF OpenOnes
  <2>2. \A p \in done : p # o /\ p \in Objects
    BY <1>1, <1>2 DEF Types, OpenOnes
  <2> QED BY <2>1, <2>2, <1>2, <1>3, <1>5 DEF OpenOnes
<1>12. Kinds'
  BY <1>1, <1>2, <1>3, <1>5 DEF Kinds
<1>13. Finalizers'
  BY <1>2, <1>3, <1>7 DEF Finalizers
<1>14. Phases'
  <2>1. \A p \in alive : colour[p] = "white" => colour'[p] = "white"
    BY <1>1, <1>6
  <2> QED BY <2>1, <1>2, <1>7 DEF Phases
<1>15. Marking'
  <2> SUFFICES ASSUME KeepInvariant' PROVE GrayOnes' /\ BlackOnes'
    BY DEF Marking
  <2>1. KeepInvariant /\ GrayOnes /\ BlackOnes
    BY <1>2 DEF Marking, KeepInvariant
  <2>2. /\ gray' = gray /\ grayagain \subseteq grayagain' /\ grayagain' \subseteq grayagain \cup {o}
        /\ colour'[o] # colour[o] => o \in grayagain'
    BY <2>1, <1>2, <1>4 DEF BarrierBack, KeepInvariant, SweepPhase, Types
  <2>3. GrayOnes'
    <3>1. \A p \in alive : IsWhite(p)' = IsWhite(p)
      BY <1>1, <1>6 DEF IsWhite, Whites
    <3> QED BY <2>1, <2>2, <3>1, <1>1, <1>3, <1>4, <1>6 DEF GrayOnes
  <2>4. BlackOnes'
    <3> SUFFICES ASSUME NEW p \in alive \ grayagain', colour'[p] = "black"
                 PROVE  refs'[p] \cap WhiteObjects = {}
      BY <1>7 DEF BlackOnes
    <3>1. p \notin grayagain /\ colour[p] = "black" /\ p \in Objects
      BY <2>2, <1>1, <1>6
    <3>2. CASE p # o
      BY <3>1, <3>2, <2>1, <1>5 DEF BlackOnes
    <3>3. CASE p = o
      <4>1. ~BarrierBack(o)
        BY <3>1, <3>3, <1>2 DEF BarrierBack, Types
      <4> QED BY <4>1, <3>3, <1>5
    <3> QED BY <3>2, <3>3
  <2> QED BY <2>3, <2>4
<1> QED BY <1>8, <1>9, <1>10, <1>11, <1>12, <1>13, <1>14, <1>15 DEF GcInv

(* Where no finalizer is registered, the lists keep what they have.        *)
LEMMA SameFinalizers ==
    ASSUME GcInv, UNCHANGED finalizers
    PROVE  /\ finobj' \in Seq(Objects) /\ tobefnz' \in Seq(Objects) /\ IsInjective(finobj' \o tobefnz')
           /\ finalized' = Range(finobj') \cup Range(tobefnz') /\ finalized' \subseteq Live
           /\ \A x \in finalized' : kind[x] # "upvalue"
BY DEF GcInv, Types, Finalizers, finalizers

(* A table gets a value, or a nil.                                         *)
LEMMA StoreKeeps ==
    ASSUME GcInv, NEW t \in DOMAIN kind, NEW S, Store(t, S)
    PROVE  GcInv'
<1>1. Stack \subseteq Live /\ (\A y \in Stack : kind[y] # "upvalue") /\ Live \subseteq Objects
  BY Basics
<1>2. Types /\ Kinds
  BY DEF GcInv
<1>3. t \in Live /\ S \in SUBSET Live /\ kind[t] \in {"table", "weak"} /\ t \in Objects
  BY <1>1 DEF Store
<1>4. key[t] = {} /\ key' = key
  BY <1>2, <1>3 DEF Kinds, Store, program
<1>5. key' = [key EXCEPT ![t] = {}]
  BY <1>2, <1>4 DEF Types
<1>6. refs' = [refs EXCEPT ![t] = S]
  BY DEF Store
<1>7. UNCHANGED <<heap, home, done, alive, twups, state, unswept, running>> /\ UNCHANGED finalizers
  BY DEF Store, CollectorUnchanged, program
<1>8. BarrierBack(t) \/ (S = {} /\ UNCHANGED <<colour, gray, grayagain>>)
  BY DEF Store
<1>9. kind[t] # "userdata" /\ kind[t] \in {"table", "weak", "ephemeron", "userdata"}
  BY <1>3
<1>10. {} \in SUBSET Live /\ \A x \in S \cup {} : kind[x] # "upvalue"
  BY <1>1 DEF Store
<1> QED BY <1>3, <1>5, <1>6, <1>7, <1>8, <1>9, <1>10, TableKeeps, SameFinalizers

(* An ephemeron table gets an entry.                                       *)
LEMMA StoreEntryKeeps ==
    ASSUME GcInv, NEW t \in DOMAIN kind, NEW k \in DOMAIN kind, NEW x \in DOMAIN kind,
           StoreEntry(t, k, x)
    PROVE  GcInv'
<1>1. Stack \subseteq Live /\ \A y \in Stack : kind[y] # "upvalue"
  BY Basics
<1>2. /\ t \in Live /\ {x} \in SUBSET Live /\ {k} \in SUBSET Live /\ kind[t] = "ephemeron"
      /\ \A y \in {x} \cup {k} : kind[y] # "upvalue"
  BY <1>1 DEF StoreEntry
<1>3. refs' = [refs EXCEPT ![t] = {x}] /\ key' = [key EXCEPT ![t] = {k}] /\ BarrierBack(t)
  BY DEF StoreEntry
<1>4. UNCHANGED <<heap, home, done, alive, twups, state, unswept, running>> /\ UNCHANGED finalizers
  BY DEF StoreEntry, CollectorUnchanged
<1>5. kind[t] # "userdata" /\ kind[t] \in {"table", "weak", "ephemeron", "userdata"}
  BY <1>2
<1> QED BY <1>2, <1>3, <1>4, <1>5, TableKeeps, SameFinalizers

(* An object gets a finalizer, unless it has one.                          *)
LEMMA SetMetatableKeeps ==
    ASSUME GcInv, NEW o \in DOMAIN kind, SetMetatable(o)
    PROVE  GcInv'
<1>1. Stack \subseteq Live /\ Live \subseteq alive /\ alive \subseteq Objects
  BY Basics
<1>2. Types /\ RefsLive /\ Kinds /\ Finalizers
  BY DEF GcInv
<1>3. o \in Live /\ o \in alive /\ o \in Objects /\ kind[o] \in {"table", "weak", "ephemeron", "userdata"}
  BY <1>1 DEF SetMetatable
<1>4. refs[o] \in SUBSET Live /\ key[o] \in SUBSET Live /\ \A x \in refs[o] \cup key[o] : kind[x] # "upvalue"
  BY <1>2, <1>3 DEF RefsLive, Kinds
<1>5. (refs[o] # {} => kind[o] # "userdata") /\ (key[o] # {} => kind[o] = "ephemeron")
  BY <1>2, <1>3 DEF Kinds
<1>6. refs' = [refs EXCEPT ![o] = refs[o]] /\ key' = [key EXCEPT ![o] = key[o]]
  BY <1>2, <1>3 DEF SetMetatable, program, Types
<1>7. UNCHANGED <<heap, home, done, alive, twups, state, unswept, running>> /\ BarrierBack(o)
  BY DEF SetMetatable, CollectorUnchanged, program
<1>8. CASE o \in finalized
  <2>1. UNCHANGED finalizers
    BY <1>8 DEF SetMetatable
  <2> QED BY <2>1, <1>3, <1>4, <1>5, <1>6, <1>7, TableKeeps, SameFinalizers
<1>9. CASE o \notin finalized
  <2>1. finalized' = finalized \cup {o} /\ finobj' = Append(finobj, o) /\ tobefnz' = tobefnz
    BY <1>9 DEF SetMetatable
  <2>2. finobj \in Seq(Objects) /\ tobefnz \in Seq(Objects)
    BY <1>2 DEF Types
  <2>3. o \notin Range(finobj) /\ o \notin Range(tobefnz)
    BY <1>2, <1>9 DEF Finalizers
  <2>4. IsInjective(finobj) /\ IsInjective(tobefnz) /\ Range(finobj) \cap Range(tobefnz) = {}
    BY <1>2, <2>2, ConcatFacts DEF Finalizers
  <2>5. finobj' \in Seq(Objects) /\ Range(finobj') = Range(finobj) \cup {o} /\ IsInjective(finobj')
    BY <2>1, <2>2, <2>3, <2>4, <1>3, AppendFacts
  <2>6. tobefnz' \in Seq(Objects) /\ IsInjective(tobefnz') /\ Range(finobj') \cap Range(tobefnz') = {}
    BY <2>1, <2>2, <2>3, <2>4, <2>5
  <2>7. IsInjective(finobj' \o tobefnz')
    BY ONLY <2>5, <2>6, ConcatFacts
  <2>8. /\ finalized' = Range(finobj') \cup Range(tobefnz') /\ finalized' \subseteq Live
        /\ \A x \in finalized' : kind[x] # "upvalue"
    BY <2>1, <2>5, <1>2, <1>3 DEF Finalizers
  <2> QED BY <2>5, <2>6, <2>7, <2>8, <1>3, <1>4, <1>5, <1>6, <1>7, TableKeeps
<1> QED BY <1>8, <1>9

(* A closure and the upvalue that it captures are new and white, and the   *)
(* coroutine is traversed again.                                           *)
LEMMA CaptureKeeps ==
    ASSUME GcInv, NEW t \in DOMAIN kind, NEW f \in DOMAIN kind, NEW u \in DOMAIN kind,
           Capture(t, f, u)
    PROVE  GcInv'
<1> USE DEF Capture, CollectorUnchanged, finalizers
<1>1. /\ DOMAIN kind \subseteq Objects /\ alive \subseteq Objects /\ Live \subseteq alive
      /\ Main \in Live /\ kind[Main] = "thread" /\ Stack \subseteq Live
      /\ \A v \in Objects : home[v] # {} => v \in alive /\ kind[v] = "upvalue"
      /\ KeepInvariant => Live = alive
  BY Basics
<1>2. Types /\ RefsLive /\ Unused /\ OpenOnes /\ Kinds /\ Finalizers /\ Phases /\ Marking
  BY DEF GcInv
<1>3. kind' = kind
  BY DEF kind
<1>4. /\ {f, u} \subseteq Objects \ alive /\ f # u /\ f # Main /\ u # Main
      /\ t \in Live /\ t \in alive /\ t \in Objects /\ kind[t] = "thread" /\ t \notin done
      /\ t # f /\ t # u
  BY <1>1
<1>5. \A o \in {f, u} : refs[o] = {} /\ key[o] = {} /\ home[o] = {}
  BY <1>2, <1>4 DEF Unused
<1>6. /\ refs'[f] = {u} /\ refs'[Main] = refs[Main] \cup {f}
      /\ \A p \in Objects \ {f, Main} : refs'[p] = refs[p]
      /\ home'[u] = {t} /\ \A p \in Objects \ {u} : home'[p] = home[p]
      /\ \A p \in Objects : colour'[p] = IF p \in {f, u} THEN "white" ELSE colour[p]
  BY <1>1, <1>2, <1>4 DEF Types
<1>7. DeadObjects' = DeadObjects /\ Live' = Live \cup {f, u} /\ WhiteObjects' = WhiteObjects \cup {f, u}
  <2>1. DeadObjects' = DeadObjects
    BY <1>1, <1>4, <1>6 DEF DeadObjects
  <2>2. WhiteObjects' = WhiteObjects \cup {f, u}
    BY <1>1, <1>4, <1>6 DEF WhiteObjects, IsWhite, Whites
  <2> QED BY <2>1, <2>2, <1>4 DEF Live, DeadObjects
<1>8. Types'
  BY <1>1, <1>2, <1>3, <1>4 DEF Types
<1>0. key' = key /\ done' = done /\ twups' = twups \cup {t} /\ alive' = alive \cup {f, u}
  OBVIOUS
<1>9. RefsLive'
  <2>1. \A o \in Live : o \in Objects /\ o # f /\ o # u
    BY ONLY <1>1, <1>4
  <2>2. \A o \in Live : refs'[o] \subseteq refs[o] \cup {f} /\ key'[o] = key[o]
    BY ONLY <2>1, <1>6, <1>0
  <2>3. \A o \in Live : refs'[o] \cup key'[o] \subseteq Live'
    BY ONLY <2>2, <1>2, <1>7 DEF RefsLive
  <2>4. refs'[f] \cup key'[f] \subseteq Live' /\ refs'[u] \cup key'[u] \subseteq Live'
    BY ONLY <1>4, <1>5, <1>6, <1>7, <1>0
  <2>5. \A p \in Objects : home'[p] \subseteq Live'
    BY ONLY <1>2, <1>4, <1>6, <1>7 DEF RefsLive
  <2> QED BY ONLY <2>3, <2>4, <2>5, <1>1, <1>7 DEF RefsLive
<1>10. Unused'
  BY <1>1, <1>2, <1>4, <1>6 DEF Unused
<1>11. OpenOnes'
  <2>1. \A p \in done : p \in Objects /\ p # f /\ p # Main /\ kind[p] = "thread" /\ refs[p] = {}
    BY <1>1, <1>2 DEF Types, OpenOnes
  <2>2. \A p \in done' : kind'[p] = "thread" /\ refs'[p] = {}
    BY ONLY <2>1, <1>3, <1>6, <1>0
  <2>3. ASSUME NEW p \in Objects, NEW q \in home'[p]
        PROVE  /\ kind'[p] = "upvalue" /\ refs'[p] = {} /\ home'[p] = {q}
               /\ kind'[q] = "thread" /\ q \notin done' /\ q \in twups'
    <3>1. CASE p = u
      <4>1. kind[u] = "upvalue"
        OBVIOUS
      <4> QED BY ONLY <3>1, <4>1, <2>3, <1>3, <1>4, <1>5, <1>6, <1>0
    <3>2. CASE p # u
      <4>1. q \in home[p] /\ home'[p] = home[p]
        BY ONLY <3>2, <2>3, <1>6
      <4>2. /\ kind[p] = "upvalue" /\ refs[p] = {} /\ home[p] = {q}
            /\ kind[q] = "thread" /\ q \notin done /\ q \in twups
        BY ONLY <4>1, <2>3, <1>2 DEF OpenOnes
      <4>3. p # f /\ p # Main
        BY <4>2, <1>1
      <4> QED BY ONLY <4>1, <4>2, <4>3, <2>3, <1>3, <1>6, <1>0
    <3> QED BY <3>1, <3>2
  <2>4. Main \notin done'
    BY ONLY <1>2, <1>0 DEF OpenOnes
  <2> QED BY ONLY <2>2, <2>3, <2>4 DEF OpenOnes
<1>12. Kinds'
  <2>1. \A o \in alive : o \in Objects /\ o # f /\ o # u
    BY ONLY <1>1, <1>4
  <2>2. kind[f] = "closure" /\ kind[u] = "upvalue"
    OBVIOUS
  <2>3. \A o \in alive : \A x \in refs'[o] : x \in refs[o] \/ (o = Main /\ x = f)
    BY ONLY <2>1, <1>6
  <2>4. \A o \in alive' : \A x \in refs'[o] : kind[x] = "upvalue" <=> kind[o] = "closure"
    <3>1. \A o \in alive : \A x \in refs'[o] : kind[x] = "upvalue" <=> kind[o] = "closure"
      BY ONLY <2>2, <2>3, <1>1, <1>2 DEF Kinds
    <3>2. \A o \in {f, u} : \A x \in refs'[o] : kind[x] = "upvalue" <=> kind[o] = "closure"
      BY ONLY <2>2, <1>4, <1>5, <1>6
    <3> QED BY ONLY <3>1, <3>2, <1>0
  <2>5. \A o \in alive' : kind[o] = "userdata" => refs'[o] = {}
    BY ONLY <2>1, <2>2, <1>1, <1>2, <1>6, <1>0 DEF Kinds
  <2>6. \A o \in alive' : \A x \in key'[o] : kind[x] # "upvalue"
    BY ONLY <1>2, <1>5, <1>0 DEF Kinds
  <2>7. \A o \in Objects : key'[o] # {} => kind[o] = "ephemeron"
    BY ONLY <1>2, <1>0 DEF Kinds
  <2> QED BY ONLY <2>4, <2>5, <2>6, <2>7, <1>3 DEF Kinds
<1>13. Finalizers'
  BY <1>1, <1>2, <1>3, <1>4, <1>7 DEF Finalizers
<1>14. Phases'
  BY <1>1, <1>2, <1>4, <1>6, <1>7 DEF Phases
<1>15. Marking'
  <2> SUFFICES ASSUME KeepInvariant' PROVE GrayOnes' /\ BlackOnes'
    BY DEF Marking
  <2>1. KeepInvariant /\ GrayOnes /\ BlackOnes
    BY <1>2 DEF Marking, KeepInvariant
  <2>2. GrayOnes'
    BY <2>1, <1>1, <1>3, <1>4, <1>6 DEF GrayOnes, IsWhite, Whites
  <2>4. BlackOnes'
    <3> SUFFICES ASSUME NEW p \in alive' \ grayagain', colour'[p] = "black"
                 PROVE  refs'[p] \cap WhiteObjects' = {}
      BY DEF BlackOnes
    <3>1. p \in alive \ grayagain /\ p \notin {f, u} /\ colour[p] = "black"
      BY <1>1, <1>4, <1>6
    <3>2. p # Main
      BY <3>1, <2>1, <1>1, <1>2 DEF GrayOnes, OpenOnes, IsWhite, Whites
    <3>3. refs[p] \subseteq alive
      BY <3>1, <1>1, <1>2, <2>1 DEF RefsLive
    <3> QED BY <3>1, <3>2, <3>3, <2>1, <1>1, <1>4, <1>6, <1>7 DEF BlackOnes
  <2> QED BY <2>2, <2>4
<1> QED BY <1>8, <1>9, <1>10, <1>11, <1>12, <1>13, <1>14, <1>15 DEF GcInv

(* An upvalue is set: on a stack, or behind the forward barrier.           *)
LEMMA SetUpvalueKeeps ==
    ASSUME GcInv, NEW f \in DOMAIN kind, NEW x \in DOMAIN kind, SetUpvalue(f, x)
    PROVE  GcInv'
<1> USE DEF SetUpvalue, CollectorUnchanged, program, finalizers
<1>1. /\ DOMAIN kind \subseteq Objects /\ alive \subseteq Objects /\ Live \subseteq alive
      /\ Stack \subseteq Live /\ \A o \in Stack : kind[o] # "upvalue"
      /\ KeepInvariant => DeadObjects = {} /\ Live = alive
  BY Basics
<1>2. Types /\ RefsLive /\ Unused /\ OpenOnes /\ Kinds /\ Finalizers /\ Phases /\ Marking
  BY DEF GcInv
<1>3. kind' = kind
  BY DEF kind
<1>4. PICK u \in refs[f] :
        /\ refs' = [o \in Objects |->
                      IF o \in home[u] \/ (o = u /\ home[u] = {}) THEN {x} ELSE refs[o]]
        /\ Barrier(u, {x})
  OBVIOUS
<1>5. /\ u \in Live /\ u \in alive /\ u \in Objects /\ kind[u] = "upvalue"
      /\ x \in Live /\ x \in alive /\ x \in Objects /\ kind[x] # "upvalue"
  <2>1. f \in Live /\ f \in alive /\ kind[f] = "closure"
    BY <1>1
  <2> QED BY <2>1, <1>1, <1>2 DEF RefsLive, Kinds
<1> DEFINE target == IF home[u] = {} THEN {u} ELSE home[u]
           v == IF colour[u] = "black" THEN {x} \cap WhiteObjects ELSE {}
           new == IF KeepInvariant THEN v ELSE {}
<1>6. /\ \A t \in home[u] : t \in Live /\ kind[t] = "thread" /\ t \notin done
      /\ \A p \in target : p \in Live /\ p \notin done /\ kind[p] \in {"thread", "upvalue"}
      /\ \A p \in target : home[p] = {}
  BY <1>1, <1>2, <1>5 DEF RefsLive, OpenOnes
<1>7. \A p \in Objects : refs'[p] = IF p \in target THEN {x} ELSE refs[p]
  BY <1>4
<1>8. Marked(v) = v /\ v \subseteq WhiteObjects
  <2>1. v \cap WhiteObjects = v /\ \A o \in v \cap WhiteObjects : kind[o] # "upvalue"
    BY <1>5
  <2> QED BY <2>1, <1>2, MarkedPlain
<1>9. /\ colour' = IF v # {} /\ SweepPhase THEN Whitened({u}) ELSE ColourMarked(new, colour)
      /\ gray' = gray \cup Waiting(new)
  BY <1>4, <1>8 DEF Barrier
<1> HIDE DEF target, v
<1>10. KeepInvariant => ~SweepPhase
  BY DEF KeepInvariant, SweepPhase
<1>11. v # {} => colour[u] = "black"
  BY DEF v
<1>12. /\ colour' \in [Objects -> {"white", "dead", "gray", "black"}]
       /\ \A p \in Objects : \/ colour'[p] = colour[p]
                             \/ p = u /\ colour[p] = "black" /\ colour'[p] = "white" /\ ~KeepInvariant
                             \/ p \in new
       /\ \A p \in new : colour'[p] = MarkColour(p)
  <2>1. colour \in [Objects -> {"white", "dead", "gray", "black"}]
    BY <1>2 DEF Types
  <2>2. CASE v # {} /\ SweepPhase
    <3>1. colour' = [o \in Objects |-> IF o = u THEN "white" ELSE colour[o]] /\ new = {} /\ ~KeepInvariant
      BY <2>2, <1>9, <1>10 DEF Whitened
    <3> HIDE DEF new
    <3> QED BY ONLY <3>1, <2>1, <2>2, <1>11
  <2>3. CASE ~(v # {} /\ SweepPhase)
    <3>1. colour' = [o \in Objects |-> IF o \in new THEN MarkColour(o) ELSE colour[o]] /\ new \subseteq Objects
      BY <2>3, <1>1, <1>8, <1>9 DEF ColourMarked, WhiteObjects
    <3>2. \A o \in new : MarkColour(o) \in {"white", "dead", "gray", "black"}
      BY DEF MarkColour
    <3> HIDE DEF new
    <3> QED BY ONLY <3>1, <3>2, <2>1
  <2> QED BY <2>2, <2>3
<1>13. DeadObjects' = DeadObjects /\ Live' = Live
  <2>1. DeadObjects' = DeadObjects
    BY <1>1, <1>8, <1>12 DEF DeadObjects, MarkColour
  <2> QED BY <2>1 DEF Live
<1>14. Types'
  BY <1>1, <1>2, <1>3, <1>5, <1>7, <1>12, <1>4 DEF Types
<1>15. RefsLive'
  BY <1>1, <1>2, <1>5, <1>7, <1>13 DEF RefsLive
<1>16. Unused'
  BY <1>1, <1>2, <1>6, <1>7 DEF Unused
<1>17. OpenOnes'
  <2>1. \A p \in done : p \in Objects
    BY <1>1, <1>2 DEF Types
  <2> QED BY <2>1, <1>2, <1>3, <1>6, <1>7 DEF OpenOnes
<1>18. Kinds'
  BY <1>1, <1>2, <1>3, <1>5, <1>6, <1>7 DEF Kinds
<1>19. Finalizers'
  BY <1>2, <1>3, <1>13 DEF Finalizers
<1>20. Phases'
  <2>1. KeepInvariant \/ \A p \in alive : colour[p] = "white" => colour'[p] = "white"
    BY <1>1, <1>12
  <2> QED BY <2>1, <1>2, <1>13 DEF Phases, KeepInvariant
<1>21. Marking'
  <2> SUFFICES ASSUME KeepInvariant' PROVE GrayOnes' /\ BlackOnes'
    BY DEF Marking
  <2>1. KeepInvariant /\ GrayOnes /\ BlackOnes
    BY <1>2 DEF Marking, KeepInvariant
  <2>2. /\ new = v /\ new \subseteq WhiteObjects /\ new \subseteq {x}
        /\ \A p \in new : p \in alive /\ kind[p] # "upvalue" /\ home[p] = {} /\ colour[p] = "white"
    BY <2>1, <1>1, <1>2, <1>5, <1>8 DEF WhiteObjects, IsWhite, Whites, OpenOnes, v, DeadObjects
  <2>3. \A p \in Objects \ new : colour'[p] = colour[p]
    BY <2>1, <1>12
  <2>4. \A p \in new : colour'[p] = IF kind[p] = "userdata" THEN "black" ELSE "gray"
    BY <2>2, <1>12 DEF MarkColour
  <2>5. gray' = gray \cup {p \in new : kind[p] # "userdata"} /\ grayagain' = grayagain
    BY <2>2, <1>9 DEF Waiting
  <2> HIDE DEF new
  <2>6. GrayOnes'
    <3>1. \A p \in alive : p \notin new => (IsWhite(p)' <=> IsWhite(p))
      BY <2>3, <1>1 DEF IsWhite
    <3>2. \A p \in new : p \notin gray
      BY <2>1, <2>2 DEF GrayOnes
    <3> QED BY <3>1, <3>2, <2>1, <2>2, <2>3, <2>4, <2>5, <1>1, <1>3 DEF GrayOnes
  <2>7. WhiteObjects' = WhiteObjects \ new
    BY <2>2, <2>3, <2>4, <1>1 DEF WhiteObjects, IsWhite, Whites
  <2>8. BlackOnes'
    <3> SUFFICES ASSUME NEW p \in alive \ grayagain, colour'[p] = "black"
                 PROVE  refs'[p] \cap WhiteObjects' = {}
      BY <2>5 DEF BlackOnes
    <3>1. CASE p \in new
      <4>1. kind[p] = "userdata" /\ refs[p] = {} /\ p \notin target
        BY <3>1, <2>4, <1>2, <1>6 DEF Kinds
      <4> QED BY <4>1, <1>1, <1>7
    <3>2. CASE p \notin new /\ p \in target
      <4>1. colour[p] = "black" /\ p \in Objects
        BY <3>2, <2>3, <1>1
      <4>2. p = u
        BY <3>2, <4>1, <2>1, <1>5, <1>6 DEF target, GrayOnes, IsWhite, Whites
      <4>3. x \in WhiteObjects => x \in new
        BY <4>1, <4>2, <2>2 DEF v
      <4> QED BY <4>1, <4>3, <3>2, <2>7, <1>7
    <3>3. CASE p \notin new /\ p \notin target
      BY <3>3, <2>1, <2>3, <2>7, <1>1, <1>7 DEF BlackOnes
    <3> QED BY <3>1, <3>2, <3>3
  <2> QED BY <2>6, <2>8
<1> QED BY <1>14, <1>15, <1>16, <1>17, <1>18, <1>19, <1>20, <1>21 DEF GcInv

(* A coroutine ends, and its upvalues take their values over.              *)
LEMMA FinishKeeps ==
    ASSUME GcInv, NEW t \in DOMAIN kind, Finish(t)
    PROVE  GcInv'
<1> USE DEF Finish, CollectorUnchanged, finalizers
<1>1. /\ DOMAIN kind \subseteq Objects /\ alive \subseteq Objects /\ Live \subseteq alive
      /\ Stack \subseteq Live /\ Main \in Live
      /\ \A u \in Objects : home[u] # {} => u \in alive /\ kind[u] = "upvalue"
      /\ KeepInvariant => DeadObjects = {} /\ Live = alive
  BY Basics
<1>2. Types /\ RefsLive /\ Unused /\ OpenOnes /\ Kinds /\ Finalizers /\ Phases /\ Marking
  BY DEF GcInv
<1>3. kind' = kind
  BY DEF kind
<1>4. /\ t \in Live /\ t \in alive /\ t \in Objects /\ t # Main /\ t \notin done /\ kind[t] = "thread"
      /\ refs[t] \subseteq Live /\ \A x \in refs[t] : kind[x] # "upvalue"
  <2>1. t \in Live /\ t \in alive /\ t \in Objects /\ t # Main /\ t \notin done /\ kind[t] = "thread"
    BY <1>1
  <2> QED BY <2>1, <1>2 DEF RefsLive, Kinds
<1>5. UNCHANGED <<heap, key, alive, grayagain, twups, finobj, tobefnz, finalized, state, unswept, running>>
  OBVIOUS
<1> DEFINE U == Upvalues(t)
           marked == U \ WhiteObjects
           values == IF marked = {} THEN {} ELSE refs[t]
           new == IF KeepInvariant THEN values \cap WhiteObjects ELSE {}
<1>6. /\ U \subseteq alive /\ t \notin U
      /\ \A u \in U : kind[u] = "upvalue" /\ home[u] = {t} /\ refs[u] = {}
      /\ \A p \in Objects \ U : t \notin home[p]
  BY <1>1, <1>2, <1>4 DEF Upvalues, OpenOnes
<1>7. /\ \A p \in Objects : refs'[p] = IF p \in U THEN refs[t] ELSE IF p = t THEN {} ELSE refs[p]
      /\ \A p \in Objects : home'[p] = IF p \in U THEN {} ELSE home[p]
      /\ done' = done \cup {t}
      /\ refs' \in [Objects -> SUBSET Objects] /\ home' \in [Objects -> SUBSET Objects]
  <2>1. refs' = [o \in Objects |-> IF o \in U THEN refs[t] ELSE IF o = t THEN {} ELSE refs[o]]
    OBVIOUS
  <2>2. home' = [o \in Objects |-> home[o] \ {t}] /\ done' = done \cup {t}
    OBVIOUS
  <2>3. refs \in [Objects -> SUBSET Objects] /\ home \in [Objects -> SUBSET Objects]
    BY <1>2 DEF Types
  <2>4. \A p \in Objects : home[p] \ {t} = IF p \in U THEN {} ELSE home[p]
    BY <1>6
  <2> HIDE DEF U
  <2>5. refs' \in [Objects -> SUBSET Objects] /\ home' \in [Objects -> SUBSET Objects]
    BY ONLY <2>1, <2>2, <2>3, <1>4
  <2> QED BY ONLY <2>1, <2>2, <2>4, <2>5
<1>8. Marked(values) = values \cap WhiteObjects
  <2>1. \A o \in values \cap WhiteObjects : kind[o] # "upvalue"
    BY <1>4
  <2> HIDE DEF values
  <2> QED BY <2>1, <1>2, MarkedPlain
<1>9. /\ colour' = [o \in Objects |->
                      IF o \in new THEN MarkColour(o)
                      ELSE IF o \in marked /\ SweepPhase /\ values \cap WhiteObjects # {} THEN "white"
                      ELSE IF o \in marked THEN "black" ELSE colour[o]]
      /\ gray' = gray \cup Waiting(new)
  BY <1>8
<1>10. KeepInvariant => ~SweepPhase
  BY DEF KeepInvariant, SweepPhase
<1>11. /\ new \subseteq refs[t] \cap WhiteObjects /\ new \subseteq alive /\ (~KeepInvariant => new = {})
       /\ \A p \in new : kind[p] # "upvalue" /\ home[p] = {} /\ colour[p] = "white"
       /\ marked \subseteq U /\ \A p \in marked : colour[p] \notin {"white", "dead"}
       /\ \A p \in U \ marked : colour[p] \in {"white", "dead"}
       /\ marked # {} => values = refs[t]
  <2>1. new \subseteq refs[t] \cap WhiteObjects /\ (~KeepInvariant => new = {}) /\ new \subseteq alive
    BY DEF WhiteObjects
  <2>2. \A p \in new : kind[p] # "upvalue" /\ home[p] = {}
    BY <2>1, <1>1, <1>4
  <2>3. \A p \in new : colour[p] = "white"
    BY <2>1, <1>1 DEF WhiteObjects, IsWhite, Whites, DeadObjects
  <2>4. \A p \in U : p \in WhiteObjects <=> colour[p] \in {"white", "dead"}
    BY <1>6 DEF WhiteObjects, IsWhite, Whites
  <2> QED BY <2>1, <2>2, <2>3, <2>4
<1> HIDE DEF U, marked, values, new
<1>12. /\ colour' \in [Objects -> {"white", "dead", "gray", "black"}]
       /\ \A p \in Objects \ (new \cup marked) : colour'[p] = colour[p]
       /\ \A p \in marked : colour'[p] \in {"black", "white"} /\ (KeepInvariant => colour'[p] = "black")
       /\ \A p \in new : colour'[p] = IF kind[p] = "userdata" THEN "black" ELSE "gray"
  <2>1. colour \in [Objects -> {"white", "dead", "gray", "black"}]
    BY <1>2 DEF Types
  <2>2. \A p \in new : MarkColour(p) = IF kind[p] = "userdata" THEN "black" ELSE "gray"
    BY <1>11 DEF MarkColour
  <2>3. new \cap marked = {} /\ marked \subseteq Objects /\ new \subseteq Objects
    BY <1>1, <1>6, <1>11
  <2> QED BY ONLY <2>1, <2>2, <2>3, <1>9, <1>10
<1>13. DeadObjects' = DeadObjects /\ Live' = Live
  <2>1. \A p \in alive : colour'[p] = "dead" <=> colour[p] = "dead"
    BY ONLY <1>1, <1>11, <1>12
  <2>2. DeadObjects' = DeadObjects
    BY ONLY <2>1, <1>5 DEF DeadObjects
  <2> QED BY <2>2, <1>5 DEF Live
<1>14. Types'
  BY <1>1, <1>2, <1>3, <1>5, <1>7, <1>12 DEF Types
<1>15. RefsLive'
  BY ONLY <1>1, <1>2, <1>4, <1>5, <1>7, <1>13 DEF RefsLive
<1>16. Unused'
  BY ONLY <1>1, <1>2, <1>4, <1>5, <1>6, <1>7 DEF Unused
<1>17. OpenOnes'
  <2>1. \A p \in done : p \in Objects /\ p \notin U /\ kind[p] = "thread" /\ refs[p] = {}
    BY <1>1, <1>2, <1>6 DEF Types, OpenOnes
  <2>2. \A p \in done' : kind'[p] = "thread" /\ refs'[p] = {}
    BY ONLY <2>1, <1>3, <1>4, <1>6, <1>7
  <2>3. ASSUME NEW p \in Objects, NEW q \in home'[p]
        PROVE  /\ kind'[p] = "upvalue" /\ refs'[p] = {} /\ home'[p] = {q}
               /\ kind'[q] = "thread" /\ q \notin done' /\ q \in twups'
    <3>1. p \notin U /\ q \in home[p] /\ home'[p] = home[p] /\ q # t
      BY ONLY <2>3, <1>6, <1>7
    <3>2. /\ kind[p] = "upvalue" /\ refs[p] = {} /\ home[p] = {q}
          /\ kind[q] = "thread" /\ q \notin done /\ q \in twups
      BY ONLY <3>1, <2>3, <1>2 DEF OpenOnes
    <3> QED BY ONLY <3>1, <3>2, <2>3, <1>3, <1>4, <1>5, <1>7
  <2>4. Main \notin done'
    BY ONLY <1>2, <1>4, <1>7 DEF OpenOnes
  <2> QED BY ONLY <2>2, <2>3, <2>4 DEF OpenOnes
<1>18. Kinds'
  <2>1. \A o \in alive : \A x \in refs'[o] :
          x \in refs[o] \/ (kind[o] = "upvalue" /\ x \in refs[t])
    BY ONLY <1>1, <1>6, <1>7
  <2>2. \A o \in alive : \A x \in refs'[o] : kind[x] = "upvalue" <=> kind[o] = "closure"
    BY ONLY <2>1, <1>2, <1>4 DEF Kinds
  <2>3. \A o \in alive : kind[o] = "userdata" => refs'[o] = {}
    BY ONLY <1>1, <1>2, <1>6, <1>7 DEF Kinds
  <2> QED BY ONLY <2>2, <2>3, <1>2, <1>3, <1>5 DEF Kinds
<1>19. Finalizers'
  BY ONLY <1>2, <1>3, <1>5, <1>13 DEF Finalizers
<1>20. Phases'
  <2>1. KeepInvariant \/ \A p \in alive : colour[p] = "white" => colour'[p] = "white"
    BY ONLY <1>1, <1>11, <1>12
  <2> QED BY ONLY <2>1, <1>2, <1>5, <1>13 DEF Phases, KeepInvariant
<1>21. Marking'
  <2> SUFFICES ASSUME KeepInvariant' PROVE GrayOnes' /\ BlackOnes'
    BY DEF Marking
  <2>1. KeepInvariant /\ GrayOnes /\ BlackOnes
    BY <1>2 DEF Marking, KeepInvariant
  <2>2. gray' = gray \cup {p \in new : kind[p] # "userdata"}
    BY <1>9, <1>11 DEF Waiting
  <2>3. \A p \in gray : p \notin new /\ p \notin marked /\ p \in Objects
    BY <2>1, <1>1, <1>6, <1>11 DEF GrayOnes
  <2>4. GrayOnes'
    <3>1. gray' \cup grayagain' \subseteq alive'
      BY ONLY <2>1, <2>2, <1>5, <1>11 DEF GrayOnes
    <3>2. \A p \in gray' : colour'[p] = "gray" /\ kind'[p] \notin {"upvalue", "userdata"}
      BY ONLY <2>1, <2>2, <2>3, <1>3, <1>11, <1>12 DEF GrayOnes
    <3>3. \A p \in grayagain' : kind'[p] # "upvalue"
      BY ONLY <2>1, <1>3, <1>5 DEF GrayOnes
    <3>4. \A p \in alive : colour'[p] = "gray" => p \in gray' \cup grayagain' \/ home'[p] # {}
      BY ONLY <2>1, <2>2, <1>1, <1>5, <1>6, <1>7, <1>11, <1>12 DEF GrayOnes
    <3>5. \A p \in alive : home'[p] # {} => colour'[p] # "black"
      BY ONLY <2>1, <1>1, <1>7, <1>11, <1>12 DEF GrayOnes
    <3>6. \A p \in alive : ~IsWhite(p)' /\ (\/ kind'[p] \in {"weak", "ephemeron"}
                                            \/ kind'[p] = "thread" /\ p \notin done')
                           => p \in gray' \cup grayagain'
      <4> SUFFICES ASSUME NEW p \in alive, ~IsWhite(p)', \/ kind[p] \in {"weak", "ephemeron"}
                                                         \/ kind[p] = "thread" /\ p \notin done
                   PROVE  p \in gray' \cup grayagain'
        BY <1>3, <1>7
      <4>1. p \notin marked
        BY <1>6, <1>11
      <4>2. CASE p \in new
        BY <4>2, <2>2
      <4>3. CASE p \notin new
        <5>1. colour'[p] = colour[p]
          BY <4>1, <4>3, <1>1, <1>12
        <5>2. ~IsWhite(p)
          BY <5>1 DEF IsWhite
        <5> QED BY <5>2, <2>1, <2>2, <1>5 DEF GrayOnes
      <4> QED BY <4>2, <4>3
    <3> QED BY ONLY <3>1, <3>2, <3>3, <3>4, <3>5, <3>6, <1>5 DEF GrayOnes
  <2>5. WhiteObjects' \subseteq WhiteObjects \ new
    BY <2>1, <1>1, <1>5, <1>11, <1>12 DEF WhiteObjects, IsWhite, Whites
  <2>6. BlackOnes'
    <3> SUFFICES ASSUME NEW p \in alive \ grayagain, colour'[p] = "black"
                 PROVE  refs'[p] \cap WhiteObjects' = {}
      BY <1>5 DEF BlackOnes
    <3>1. CASE p \in new
      <4>1. kind[p] = "userdata" /\ p \notin U /\ p # t /\ refs[p] = {}
        BY <3>1, <1>2, <1>4, <1>6, <1>11, <1>12 DEF Kinds
      <4> QED BY <4>1, <1>1, <1>7
    <3>2. CASE p \in marked
      <4>1. refs'[p] = refs[t] /\ values = refs[t]
        BY <3>2, <1>1, <1>7, <1>11
      <4>2. new = refs[t] \cap WhiteObjects
        BY <4>1, <2>1 DEF new
      <4> QED BY <4>1, <4>2, <2>5
    <3>3. CASE p \notin new \cup marked
      <4>1. colour[p] = "black" /\ p \notin U
        BY <3>3, <1>1, <1>11, <1>12
      <4> QED BY <4>1, <2>1, <2>5, <1>1, <1>7 DEF BlackOnes
    <3> QED BY <3>1, <3>2, <3>3
  <2> QED BY <2>4, <2>6
<1> QED BY <1>14, <1>15, <1>16, <1>17, <1>18, <1>19, <1>20, <1>21 DEF GcInv

(* Every step of the program keeps the invariant.                          *)
LEMMA ProgramKeeps == GcInv /\ Program => GcInv'
<1> SUFFICES ASSUME GcInv, Program PROVE GcInv'
  OBVIOUS
<1>1. ASSUME NEW o \in DOMAIN kind, New(o) \/ Drop(o) \/ Load(o) \/ SetMetatable(o) \/ Finish(o)
      PROVE  GcInv'
  BY <1>1, NewKeeps, DropKeeps, LoadKeeps, SetMetatableKeeps, FinishKeeps
<1>2. ASSUME NEW o \in DOMAIN kind, NEW x \in DOMAIN kind,
             Store(o, {x}) \/ SetLocal(o, {x}) \/ SetUpvalue(o, x)
      PROVE  GcInv'
  BY <1>2, StoreKeeps, SetLocalKeeps, SetUpvalueKeeps
<1>3. ASSUME NEW o \in DOMAIN kind, Store(o, {}) PROVE GcInv'
  BY <1>3, StoreKeeps
<1>4. ASSUME NEW t \in DOMAIN kind, NEW k \in DOMAIN kind, NEW x \in DOMAIN kind,
             StoreEntry(t, k, x) \/ Capture(t, k, x)
      PROVE  GcInv'
  BY <1>4, StoreEntryKeeps, CaptureKeeps
<1> QED BY <1>1, <1>2, <1>3, <1>4 DEF Program

-----------------------------------------------------------------------------
(* Steps of the collector that mark *)

(* The program's data are as they were.                                    *)
LEMMA SameGraph ==
    ASSUME GcInv, UNCHANGED <<heap, alive, refs, key, home, done, twups, finobj, tobefnz, finalized>>,
           DeadObjects' = DeadObjects,
           colour' \in [Objects -> {"white", "dead", "gray", "black"}], state' \in States
    PROVE  /\ Types' /\ RefsLive' /\ Unused' /\ OpenOnes' /\ Kinds' /\ Finalizers'
<1>1. Types /\ RefsLive /\ Unused /\ OpenOnes /\ Kinds /\ Finalizers
  BY DEF GcInv
<1>2. Live' = Live /\ kind' = kind
  BY DEF Live, kind
<1> QED BY <1>1, <1>2 DEF Types, RefsLive, Unused, OpenOnes, Kinds, Finalizers

(* A new cycle marks the main thread and the objects to be finalized.      *)
LEMMA RestartKeeps ==
    ASSUME GcInv, RestartCollection, UNCHANGED <<heap, done>>, running = {}
    PROVE  GcInv'
<1>1. /\ DOMAIN kind \subseteq Objects /\ alive \subseteq Objects
      /\ \A u \in Objects : home[u] # {} => u \in alive /\ kind[u] = "upvalue"
  BY Basics
<1>2. Types /\ OpenOnes /\ Kinds /\ Phases
  BY DEF GcInv
<1>3. kind' = kind
  BY DEF kind
<1>4. state = "Pause" /\ state' = "Propagate" /\ \A o \in alive : colour[o] = "white"
  BY <1>2 DEF RestartCollection, Phases
<1> DEFINE roots == Marked({Main} \cup Range(tobefnz))
<1>5. roots \subseteq WhiteObjects /\ \A u \in roots : kind[u] = "upvalue" => Content(u) \cap WhiteObjects \subseteq roots
  BY <1>2, MarkedFacts
<1>6. /\ gray' = Waiting(roots) /\ grayagain' = {}
      /\ colour' = [o \in Objects |-> IF o \in roots THEN MarkColour(o) ELSE colour[o]]
      /\ UNCHANGED <<alive, refs, key, home, twups, unswept, finobj, tobefnz, finalized, running>>
  BY DEF RestartCollection, ColourMarked, finalizers
<1> HIDE DEF roots
<1>7. WhiteObjects = alive /\ roots \subseteq alive /\ roots \subseteq Objects /\ DeadObjects = {}
  BY <1>1, <1>4, <1>5 DEF WhiteObjects, IsWhite, Whites, DeadObjects
<1>8. /\ \A o \in roots : colour'[o] = MarkColour(o)
      /\ \A o \in alive \ roots : colour'[o] = "white"
      /\ colour' \in [Objects -> {"white", "dead", "gray", "black"}]
  BY <1>1, <1>2, <1>4, <1>6, <1>7 DEF Types, MarkColour
<1>9. DeadObjects' = {}
  BY <1>6, <1>7, <1>8 DEF DeadObjects, MarkColour
<1>10. WhiteObjects' = alive \ roots
  BY <1>6, <1>7, <1>8 DEF WhiteObjects, IsWhite, Whites, MarkColour
<1>11. Types' /\ RefsLive' /\ Unused' /\ OpenOnes' /\ Kinds' /\ Finalizers'
  <2>1. state' \in States
    BY <1>4 DEF States
  <2> QED BY <2>1, <1>6, <1>7, <1>8, <1>9, SameGraph
<1>12. Phases'
  BY <1>4, <1>6, <1>9 DEF Phases
<1>13. GrayOnes'
  BY <1>1, <1>3, <1>6, <1>7, <1>8 DEF GrayOnes, Waiting, MarkColour, IsWhite, Whites
<1>14. BlackOnes'
  <2> SUFFICES ASSUME NEW o \in alive, colour'[o] = "black" PROVE refs[o] \cap WhiteObjects' = {}
    BY <1>6 DEF BlackOnes
  <2>1. o \in roots /\ kind[o] \in {"upvalue", "userdata"} /\ home[o] = {}
    BY <1>8 DEF MarkColour
  <2>2. CASE kind[o] = "upvalue"
    BY <2>1, <2>2, <1>5, <1>7, <1>10 DEF Content
  <2>3. CASE kind[o] = "userdata"
    BY <2>3, <1>2 DEF Kinds
  <2> QED BY <2>1, <2>2, <2>3
<1> QED BY <1>11, <1>12, <1>13, <1>14 DEF GcInv, Marking

(* A gray object is traversed.                                             *)
LEMMA PropagateMarkKeeps ==
    ASSUME GcInv, state = "Propagate", state' = state, NEW o \in gray, PropagateMark(o),
           UNCHANGED <<heap, done, alive, refs, key, home, unswept, finalizers, running>>
    PROVE  GcInv'
<1>1. /\ DOMAIN kind \subseteq Objects /\ alive \subseteq Objects
      /\ \A u \in Objects : home[u] # {} => u \in alive /\ kind[u] = "upvalue"
      /\ KeepInvariant => DeadObjects = {} /\ Live = alive
  BY Basics
<1>2. Types /\ RefsLive /\ Unused /\ OpenOnes /\ Kinds /\ Finalizers /\ Phases /\ Marking
  BY DEF GcInv
<1>3. kind' = kind
  BY DEF kind
<1>4. KeepInvariant /\ GrayOnes /\ BlackOnes /\ DeadObjects = {} /\ Live = alive
  BY <1>1, <1>2 DEF Marking, KeepInvariant
<1>5. /\ o \in alive /\ o \in Objects /\ colour[o] = "gray" /\ o \notin WhiteObjects
      /\ kind[o] \notin {"upvalue", "userdata"} /\ home[o] = {}
  BY <1>1, <1>4 DEF GrayOnes, WhiteObjects, IsWhite, Whites
<1> DEFINE kids == Children(o, alive \ WhiteObjects)
           new == Marked(kids)
<1>6. /\ new \subseteq WhiteObjects /\ kids \cap WhiteObjects \subseteq new
      /\ \A u \in new : kind[u] = "upvalue" => Content(u) \cap WhiteObjects \subseteq new
  BY <1>2, MarkedFacts
<1>7. /\ colour' = [p \in Objects |-> IF p \in new THEN MarkColour(p) ELSE [colour EXCEPT ![o] = "black"][p]]
      /\ gray' = (gray \ {o}) \cup Waiting(new)
      /\ grayagain' = IF kind[o] \in {"weak", "ephemeron"} \/ (kind[o] = "thread" /\ o \notin done)
                      THEN grayagain \cup {o} ELSE grayagain
      /\ twups' \subseteq twups \cup {o} /\ twups \subseteq twups'
  BY DEF PropagateMark, ColourMarked
<1>8. o \notin grayagain' => refs[o] \subseteq kids
  BY <1>5, <1>7 DEF Children
<1> HIDE DEF kids, new
<1>9. new \subseteq alive /\ new \subseteq Objects /\ o \notin new /\ \A p \in new : colour[p] = "white"
  BY <1>1, <1>4, <1>5, <1>6 DEF WhiteObjects, IsWhite, Whites, DeadObjects
<1>10. /\ colour' \in [Objects -> {"white", "dead", "gray", "black"}]
       /\ colour'[o] = "black" /\ \A p \in new : colour'[p] = MarkColour(p)
       /\ \A p \in Objects \ (new \cup {o}) : colour'[p] = colour[p]
  BY <1>2, <1>5, <1>7, <1>9 DEF Types, MarkColour
<1>11. DeadObjects' = DeadObjects /\ Live' = Live /\ WhiteObjects' = WhiteObjects \ new
  <2>1. \A p \in alive : colour'[p] = "dead" <=> colour[p] = "dead"
    BY <1>1, <1>5, <1>9, <1>10 DEF MarkColour
  <2>2. \A p \in alive : colour'[p] \in Whites <=> colour[p] \in Whites /\ p \notin new
    BY <1>1, <1>5, <1>9, <1>10 DEF MarkColour, Whites
  <2> QED BY <2>1, <2>2 DEF DeadObjects, Live, WhiteObjects, IsWhite
<1>12. Types' /\ RefsLive' /\ Unused' /\ Kinds'
  BY <1>2, <1>3, <1>10, <1>11 DEF Types, RefsLive, Unused, Kinds, finalizers
<1>13. OpenOnes' /\ Finalizers'
  <2>1. OpenOnes'
    BY <1>2, <1>3, <1>7 DEF OpenOnes
  <2>2. Finalizers'
    BY <1>2, <1>3, <1>4, <1>5, <1>7, <1>11 DEF Finalizers, finalizers
  <2> QED BY <2>1, <2>2
<1>14. Phases'
  BY <1>2, <1>4, <1>11 DEF Phases
<1>15. /\ gray \subseteq alive
       /\ \/ o \in gray' \cup grayagain' \/ kind[o] \notin {"weak", "ephemeron", "thread"}
          \/ o \in done
  BY <1>4, <1>7 DEF GrayOnes
<1>16. GrayOnes'
  <2>1. /\ \A p \in Waiting(new) : p \in new /\ kind[p] \notin {"upvalue", "userdata"} /\ colour'[p] = "gray"
        /\ Waiting(new) \subseteq alive
    BY <1>9, <1>10 DEF Waiting, MarkColour
  <2>2. gray' \cup grayagain' \subseteq alive'
    BY <2>1, <1>4, <1>5, <1>7 DEF GrayOnes
  <2>3. \A p \in gray' : colour'[p] = "gray" /\ kind'[p] \notin {"upvalue", "userdata"}
    BY <2>1, <1>1, <1>3, <1>4, <1>7, <1>9, <1>10 DEF GrayOnes
  <2>4. \A p \in grayagain' : kind'[p] # "upvalue"
    BY <1>3, <1>4, <1>5, <1>7 DEF GrayOnes
  <2>5. ASSUME NEW p \in alive, colour'[p] = "gray" PROVE p \in gray' \cup grayagain' \/ home'[p] # {}
    <3>1. CASE p \in new
      BY <3>1, <2>5, <1>7, <1>10 DEF Waiting, MarkColour
    <3>2. CASE p \notin new
      <4>1. p # o /\ colour[p] = "gray"
        BY <3>2, <2>5, <1>1, <1>10
      <4> QED BY <4>1, <1>4, <1>7 DEF GrayOnes
    <3> QED BY <3>1, <3>2
  <2>6. \A p \in alive : home'[p] # {} => colour'[p] # "black"
    BY <1>1, <1>4, <1>5, <1>10 DEF GrayOnes, MarkColour
  <2>7. ASSUME NEW p \in alive, ~IsWhite(p)', \/ kind[p] \in {"weak", "ephemeron"}
                                              \/ kind[p] = "thread" /\ p \notin done
        PROVE  p \in gray' \cup grayagain'
    <3>1. CASE p \in new
      BY <3>1, <2>7, <1>7 DEF Waiting
    <3>2. CASE p = o
      BY <3>2, <2>7, <1>7
    <3>3. CASE p \notin new /\ p # o
      <4>1. ~IsWhite(p)
        BY <3>3, <2>7, <1>1, <1>10 DEF IsWhite
      <4>2. p \in gray \cup grayagain
        BY <4>1, <2>7, <1>4 DEF GrayOnes
      <4> QED BY <4>2, <3>3, <1>7
    <3> QED BY <3>1, <3>2, <3>3
  <2> QED BY <2>2, <2>3, <2>4, <2>5, <2>6, <2>7, <1>3 DEF GrayOnes
<1>17. BlackOnes'
  <2> SUFFICES ASSUME NEW p \in alive \ grayagain', colour'[p] = "black" PROVE refs[p] \cap WhiteObjects' = {}
    BY DEF BlackOnes
  <2>1. CASE p = o
    BY <2>1, <1>6, <1>8, <1>11
  <2>2. CASE p \in new
    <3>1. kind[p] \in {"upvalue", "userdata"} /\ home[p] = {}
      BY <2>2, <1>10 DEF MarkColour
    <3>2. CASE kind[p] = "upvalue"
      BY <2>2, <3>1, <3>2, <1>6, <1>11 DEF Content
    <3>3. CASE kind[p] = "userdata"
      BY <3>3, <1>2 DEF Kinds
    <3> QED BY <3>1, <3>2, <3>3
  <2>3. CASE p \notin new /\ p # o
    <3>1. colour[p] = "black" /\ p \notin grayagain
      BY <2>3, <1>1, <1>7, <1>10
    <3> QED BY <3>1, <1>4, <1>11 DEF BlackOnes
  <2> QED BY <2>1, <2>2, <2>3
<1> QED BY <1>12, <1>13, <1>14, <1>16, <1>17 DEF GcInv, Marking

(* The mark phase goes on, or goes over to the atomic phase.               *)
LEMMA PropagateKeeps ==
    ASSUME GcInv, Propagate, UNCHANGED <<heap, done>>
    PROVE  GcInv'
<1>1. state = "Propagate"
  BY DEF Propagate
<1>2. UNCHANGED <<alive, refs, key, home, unswept, finalizers, running>>
  BY DEF Propagate
<1>3. ASSUME state' = "EnterAtomic", UNCHANGED <<colour, lists>> PROVE GcInv'
  <2>1. Types /\ Phases /\ Marking
    BY DEF GcInv
  <2>2. DeadObjects' = DeadObjects /\ WhiteObjects' = WhiteObjects /\ kind' = kind /\ state' \in States
    BY <1>2, <1>3 DEF DeadObjects, WhiteObjects, IsWhite, kind, States
  <2>3. Types' /\ RefsLive' /\ Unused' /\ OpenOnes' /\ Kinds' /\ Finalizers'
    BY <2>1, <2>2, <1>2, <1>3, SameGraph DEF lists, finalizers, Types
  <2>4. Phases'
    BY <2>1, <2>2, <1>1, <1>2, <1>3 DEF Phases
  <2>5. GrayOnes /\ BlackOnes
    BY <2>1, <1>1 DEF Marking, KeepInvariant
  <2>6. GrayOnes'
    BY <2>2, <2>5, <1>2, <1>3 DEF GrayOnes, lists, IsWhite
  <2>7. BlackOnes'
    BY <2>2, <2>5, <1>2, <1>3 DEF BlackOnes, lists
  <2> QED BY <2>3, <2>4, <2>6, <2>7 DEF GcInv, Marking
<1>4. ASSUME NEW o \in gray, PropagateMark(o), UNCHANGED state PROVE GcInv'
  BY <1>1, <1>2, <1>4, PropagateMarkKeeps
<1> QED BY <1>3, <1>4 DEF Propagate

-----------------------------------------------------------------------------
(* Steps of the collector that sweep and finalize *)

(* No object is added to tobefnz where none is dead.                       *)
LEMMA NothingAdded ==
    ASSUME NEW s \in Seq(Objects)
    PROVE  s \o SetToSeq({}) = s
<1>1. Cardinality({}) = 0
  BY FS_EmptySet
<1>2. [1..0 -> {}] = {<<>>}
  <2>1. <<>> \in [1..0 -> {}]
    OBVIOUS
  <2>2. \A f \in [1..0 -> {}] : f = <<>>
    OBVIOUS
  <2> QED BY <2>1, <2>2
<1>3. IsInjective(<<>>)
  BY DEF IsInjective
<1>4. SetToSeq({}) = <<>>
  BY <1>1, <1>2, <1>3 DEF SetToSeq
<1> QED BY <1>4

(* The sweep of allgc frees the dead objects, to which nothing that is     *)
(* kept refers, and makes the others white.                                *)
LEMMA SweepAllGcKeeps ==
    ASSUME GcInv, state = "SwpAllGc", state' = state, NEW S \in SUBSET unswept, SweepAllGc(S),
           unswept' = unswept \ S, UNCHANGED <<heap, done, lists, running>>
    PROVE  GcInv'
<1>1. /\ DOMAIN kind \subseteq Objects /\ alive \subseteq Objects /\ Live \subseteq alive
      /\ \A u \in Objects : home[u] # {} => u \in alive /\ kind[u] = "upvalue"
  BY Basics
<1>2. Types /\ RefsLive /\ Unused /\ OpenOnes /\ Kinds /\ Finalizers /\ Phases
  BY DEF GcInv
<1>3. kind' = kind /\ UNCHANGED <<done, gray, grayagain, twups, running>>
  BY DEF kind, lists
<1> DEFINE dead == S \cap DeadObjects
<1>4. dead \ finalized = dead /\ dead \cap finalized = {}
  BY <1>2 DEF Finalizers, Live
<1>5. /\ alive' = alive \ dead
      /\ refs' = [o \in Objects |-> IF o \in dead THEN {} ELSE refs[o]]
      /\ key' = [o \in Objects |-> IF o \in dead THEN {} ELSE key[o]]
      /\ home' = [o \in Objects |-> IF o \in dead THEN {} ELSE home[o]]
      /\ tobefnz' = tobefnz \o SetToSeq({})
      /\ colour' = [o \in Objects |-> IF o \in S THEN "white" ELSE colour[o]]
      /\ finobj' = finobj /\ finalized' = finalized
  BY <1>4 DEF SweepAllGc, Whitened
<1>6. S \subseteq alive /\ DeadObjects \subseteq unswept /\ unswept \subseteq alive
      /\ \A o \in alive \ unswept : colour[o] = "white"
  BY <1>2 DEF Phases
<1>7. tobefnz' = tobefnz
  BY <1>2, <1>5, NothingAdded DEF Types
<1>8. dead \subseteq DeadObjects /\ dead \subseteq alive /\ dead \cap Live = {}
  BY DEF DeadObjects, Live
<1>9. DeadObjects' = DeadObjects \ S /\ Live' = Live
  <2>1. \A o \in Objects : colour'[o] = IF o \in S THEN "white" ELSE colour[o]
    BY <1>5
  <2>2. DeadObjects' = DeadObjects \ S
    BY <2>1, <1>1, <1>5 DEF DeadObjects
  <2> QED BY <2>2, <1>5 DEF Live, DeadObjects
<1> HIDE DEF dead
<1>10. /\ \A o \in Objects : refs'[o] = IF o \in dead THEN {} ELSE refs[o]
       /\ \A o \in Objects : key'[o] = IF o \in dead THEN {} ELSE key[o]
       /\ \A o \in Objects : home'[o] = IF o \in dead THEN {} ELSE home[o]
       /\ \A o \in Objects : colour'[o] = IF o \in S THEN "white" ELSE colour[o]
  BY <1>5
<1>11. Types'
  BY <1>2, <1>3, <1>5, <1>7 DEF Types
<1>12. RefsLive'
  BY <1>1, <1>2, <1>9, <1>10 DEF RefsLive
<1>13. Unused'
  BY <1>2, <1>5, <1>10 DEF Unused
<1>14. OpenOnes'
  <2>1. \A t \in done : t \in Objects
    BY <1>1, <1>2 DEF Types
  <2> QED BY <2>1, <1>2, <1>3, <1>10 DEF OpenOnes
<1>15. Kinds'
  BY <1>1, <1>2, <1>3, <1>5, <1>10 DEF Kinds
<1>16. Finalizers'
  BY <1>2, <1>3, <1>5, <1>7, <1>9 DEF Finalizers, kind
<1>17. Phases'
  <2>1. running' = {} /\ state' = "SwpAllGc"
    BY <1>2, <1>3 DEF Phases
  <2>2. DeadObjects' \subseteq unswept' /\ unswept' \subseteq alive'
    BY <1>5, <1>6, <1>8, <1>9 DEF dead
  <2>3. \A o \in alive' \ unswept' : colour'[o] = "white"
    BY <1>1, <1>5, <1>6, <1>10
  <2> QED BY ONLY <2>1, <2>2, <2>3 DEF Phases
<1>18. Marking'
  BY DEF Marking, KeepInvariant
<1> QED BY <1>11, <1>12, <1>13, <1>14, <1>15, <1>16, <1>17, <1>18 DEF GcInv

(* The sweeps of the other lists find no dead object.                      *)
LEMMA SweepListKeeps ==
    ASSUME GcInv, state \in {"SwpFinObj", "SwpToBeFnz"}, state' = state, NEW S,
           SweepFinObj(S) \/ SweepToBeFnz(S), UNCHANGED <<heap, done, lists, running>>
    PROVE  GcInv'
<1>1. alive \subseteq Objects
  BY Basics
<1>2. Types /\ RefsLive /\ Unused /\ OpenOnes /\ Kinds /\ Finalizers /\ Phases
  BY DEF GcInv
<1>3. DeadObjects = {} /\ \A o \in alive : colour[o] = "white"
  BY <1>2 DEF Phases
<1>4. finobj \in Seq(Objects) /\ tobefnz \in Seq(Objects) /\ IsInjective(finobj)
      /\ IsInjective(tobefnz) /\ Range(finobj) \cap Range(tobefnz) = {}
  BY <1>2, ConcatFacts DEF Types, Finalizers
<1>5. /\ finobj' \in Seq(Objects) /\ IsInjective(finobj') /\ Range(finobj') = Range(finobj)
      /\ tobefnz' = tobefnz /\ UNCHANGED <<alive, refs, key, home, finalized>>
      /\ colour' = [o \in Objects |-> IF o \in S THEN "white" ELSE colour[o]]
  <2>1. CASE SweepFinObj(S)
    <3>1. /\ finobj' = Among(finobj, Objects) /\ tobefnz' = tobefnz \o SetToSeq({})
          /\ UNCHANGED <<alive, refs, key, home, finalized>>
          /\ colour' = [o \in Objects |-> IF o \in S THEN "white" ELSE colour[o]]
      <4>1. S \cap DeadObjects = {} /\ Objects \ {} = Objects /\ S \ {} = S
        BY <1>3
      <4> QED BY <2>1, <4>1 DEF SweepFinObj, Whitened
    <3>2. Range(finobj) \cap Objects = Range(finobj)
      BY <1>4 DEF Range
    <3> QED BY <3>1, <3>2, <1>4, AmongFacts, NothingAdded
  <2>2. CASE SweepToBeFnz(S)
    BY <2>2, <1>4 DEF SweepToBeFnz, Whitened, finalizers
  <2> QED BY <2>1, <2>2
<1>6. colour' \in [Objects -> {"white", "dead", "gray", "black"}] /\ \A o \in alive : colour'[o] = "white"
  BY <1>1, <1>2, <1>3, <1>5 DEF Types
<1>7. DeadObjects' = {} /\ Live' = Live /\ kind' = kind
  BY <1>3, <1>5, <1>6 DEF DeadObjects, Live, kind
<1>8. Types'
  BY <1>2, <1>5, <1>6, <1>7 DEF Types
<1>9. RefsLive' /\ Unused' /\ OpenOnes' /\ Kinds'
  BY <1>2, <1>5, <1>7 DEF RefsLive, Unused, OpenOnes, Kinds, lists
<1>10. Finalizers'
  <2>1. IsInjective(finobj' \o tobefnz')
    BY <1>4, <1>5, ConcatFacts
  <2> QED BY <2>1, <1>2, <1>5, <1>7 DEF Finalizers, lists
<1>11. Phases'
  BY <1>2, <1>5, <1>6, <1>7 DEF Phases
<1>12. Marking'
  BY DEF Marking, KeepInvariant
<1> QED BY <1>8, <1>9, <1>10, <1>11, <1>12 DEF GcInv

(* Where no mark phase is under way, only the colours matter.              *)
LEMMA PhaseKeeps ==
    ASSUME GcInv, state' \in States, ~KeepInvariant', Phases',
           UNCHANGED <<program, alive, refs, colour, twups, finalizers>>
    PROVE  GcInv'
<1>1. DeadObjects' = DeadObjects
  BY DEF DeadObjects
<1>2. colour' \in [Objects -> {"white", "dead", "gray", "black"}]
  BY DEF GcInv, Types
<1>3. Types' /\ RefsLive' /\ Unused' /\ OpenOnes' /\ Kinds' /\ Finalizers'
  BY <1>1, <1>2, SameGraph DEF program, finalizers
<1> QED BY <1>3 DEF GcInv, Marking

(* The sweep goes on.                                                      *)
LEMMA SweepKeeps ==
    ASSUME GcInv, SweepStep, UNCHANGED <<heap, done>>
    PROVE  GcInv'
<1>1. UNCHANGED <<lists, running>> /\ SweepPhase
  BY DEF SweepStep
<1>2. ASSUME NextList PROVE GcInv'
  <2>1. UNCHANGED <<program, alive, refs, colour, twups, finalizers>> /\ running' = running
    BY <1>1, <1>2 DEF NextList, program, lists
  <2>2. state' \in States \ {"Propagate", "EnterAtomic", "SwpAllGc"} /\ unswept = {} /\ (running # {} => FALSE)
    BY <1>1, <1>2 DEF NextList, States, GcInv, Phases, SweepPhase
  <2>3. DeadObjects = {} /\ \A o \in alive : colour[o] = "white"
    BY <1>1, <1>2, <2>2 DEF NextList, GcInv, Phases, SweepPhase
  <2>4. DeadObjects' = {}
    BY <2>1, <2>3 DEF DeadObjects
  <2>5. Phases'
    BY <2>1, <2>2, <2>3, <2>4 DEF Phases
  <2> QED BY <2>1, <2>2, <2>5, PhaseKeeps DEF KeepInvariant
<1>3. ASSUME NEW S \in SUBSET unswept, unswept' = unswept \ S, state' = state,
             state = "SwpAllGc" /\ SweepAllGc(S)
      PROVE  GcInv'
  BY <1>1, <1>3, SweepAllGcKeeps
<1>4. ASSUME NEW S, state' = state,
             \/ state = "SwpFinObj" /\ SweepFinObj(S)
             \/ state = "SwpToBeFnz" /\ SweepToBeFnz(S)
      PROVE  GcInv'
  BY <1>1, <1>4, SweepListKeeps
<1>5. ASSUME ~NextList PROVE GcInv'
  <2>1. PICK S \in (IF Fast THEN {unswept} ELSE {{o} : o \in unswept}) :
            /\ S # {} /\ unswept' = unswept \ S /\ UNCHANGED state
            /\ \/ state = "SwpAllGc" /\ SweepAllGc(S)
               \/ state = "SwpFinObj" /\ SweepFinObj(S)
               \/ state = "SwpToBeFnz" /\ SweepToBeFnz(S)
    BY <1>5 DEF SweepStep
  <2>2. S \in SUBSET unswept
    BY <2>1
  <2> QED BY <2>1, <2>2, <1>3, <1>4
<1> QED BY <1>2, <1>5

(* A finalizer is called with the first object of tobefnz, or the cycle    *)
(* ends.                                                                   *)
LEMMA CallFinKeeps ==
    ASSUME GcInv, CallFin, UNCHANGED <<heap, done>>, running = {}
    PROVE  GcInv'
<1>1. state = "CallFin" /\ UNCHANGED <<alive, key, home, lists, unswept, finobj>>
  BY DEF CallFin
<1>2. Types /\ RefsLive /\ Unused /\ OpenOnes /\ Kinds /\ Finalizers /\ Phases
  BY DEF GcInv
<1>3. DeadObjects = {} /\ \A o \in alive : colour[o] = "white"
  BY <1>1, <1>2 DEF Phases
<1>4. ASSUME state' = "Pause", UNCHANGED <<finalized, colour, running, refs, tobefnz>> PROVE GcInv'
  <2>1. UNCHANGED <<program, alive, refs, colour, twups, finalizers>>
    BY <1>1, <1>4 DEF program, lists, finalizers
  <2>2. Phases'
    BY <1>1, <1>3, <1>4 DEF Phases, DeadObjects
  <2> QED BY <2>1, <2>2, <1>4, PhaseKeeps DEF KeepInvariant, States
<1>5. ASSUME tobefnz # <<>>, state' = state,
             finalized' = finalized \ {Head(tobefnz)}, colour' = Whitened({Head(tobefnz)}),
             running' = {Head(tobefnz)}, refs' = [refs EXCEPT ![Main] = @ \cup {Head(tobefnz)}],
             tobefnz' = Tail(tobefnz)
      PROVE  GcInv'
  <2> DEFINE o == Head(tobefnz)
  <2>1. /\ DOMAIN kind \subseteq Objects /\ alive \subseteq Objects /\ Live \subseteq alive
        /\ Main \in Live /\ kind[Main] = "thread"
    BY Basics
  <2>2. finobj \in Seq(Objects) /\ tobefnz \in Seq(Objects) /\ IsInjective(finobj)
        /\ IsInjective(tobefnz) /\ Range(finobj) \cap Range(tobefnz) = {}
    BY <1>2, ConcatFacts DEF Types, Finalizers
  <2>3. /\ o \in Objects /\ tobefnz' \in Seq(Objects) /\ Range(tobefnz) = {o} \cup Range(tobefnz')
        /\ IsInjective(tobefnz') /\ o \notin Range(tobefnz')
    BY <2>2, <1>5, TailFacts
  <2> HIDE DEF o
  <2>4. o \in Live /\ finalized' = Range(finobj) \cup Range(tobefnz') /\ finalized' \subseteq Live
    BY <2>2, <2>3, <1>2, <1>5 DEF Finalizers, o
  <2>5. /\ \A p \in alive : colour'[p] = "white"
        /\ colour' \in [Objects -> {"white", "dead", "gray", "black"}]
    BY <2>1, <1>2, <1>3, <1>5 DEF Types, Whitened
  <2>6. DeadObjects' = {} /\ Live' = Live /\ kind' = kind /\ Live = alive
    BY <2>5, <1>1, <1>3 DEF DeadObjects, Live, kind
  <2>7. /\ refs'[Main] = refs[Main] \cup {o} /\ \A p \in Objects \ {Main} : refs'[p] = refs[p]
        /\ refs' \in [Objects -> SUBSET Objects]
    BY <2>1, <2>3, <1>2, <1>5 DEF Types, o
  <2>8. kind[o] # "upvalue"
    BY <2>2, <2>3, <1>2 DEF Finalizers
  <2>9. Types'
    BY <2>3, <2>5, <2>6, <2>7, <1>1, <1>2, <1>5 DEF Types
  <2>10. RefsLive'
    BY <2>1, <2>4, <2>6, <2>7, <1>1, <1>2 DEF RefsLive
  <2>11. Unused'
    BY <2>1, <2>7, <1>1, <1>2 DEF Unused
  <2>12. OpenOnes'
    <3>1. \A t \in done : t \in Objects
      BY <2>1, <1>2 DEF Types
    <3> QED BY <3>1, <2>1, <2>6, <2>7, <1>1, <1>2 DEF OpenOnes, lists
  <2>13. Kinds'
    BY <2>1, <2>6, <2>7, <2>8, <1>1, <1>2 DEF Kinds
  <2>14. Finalizers'
    <3>1. Range(finobj) \cap Range(tobefnz') = {}
      BY <2>2, <2>3
    <3>2. IsInjective(finobj' \o tobefnz')
      BY <3>1, <2>2, <2>3, <1>1, ConcatFacts
    <3> QED BY <3>2, <2>4, <2>6, <1>1, <1>2, <1>5 DEF Finalizers, lists
  <2>15. Phases' /\ Marking'
    BY <2>5, <2>6, <1>1, <1>5 DEF Phases, Marking, KeepInvariant
  <2> QED BY <2>9, <2>10, <2>11, <2>12, <2>13, <2>14, <2>15 DEF GcInv
<1> QED BY <1>4, <1>5 DEF CallFin

(* collectgarbage("collect") starts, in a mark phase with a sweep.         *)
LEMMA FullGcKeeps ==
    ASSUME GcInv, FullGc
    PROVE  GcInv'
<1>1. UNCHANGED <<program, alive, refs, colour, lists, finalizers, running>> /\ running = {}
  BY DEF FullGc
<1>2. Phases /\ Marking /\ state \in States
  BY DEF GcInv, Types
<1>3. DeadObjects' = DeadObjects
  BY <1>1 DEF DeadObjects
<1>4. CASE KeepInvariant
  <2>1. state' = "SwpAllGc" /\ unswept' = alive /\ DeadObjects = {}
    BY <1>2, <1>4 DEF FullGc, Phases, KeepInvariant
  <2>2. Phases'
    BY <2>1, <1>1, <1>3 DEF Phases
  <2> QED BY <2>1, <2>2, <1>1, PhaseKeeps DEF KeepInvariant, States, lists
<1>5. CASE ~KeepInvariant
  <2>1. state' = state /\ unswept' = unswept
    BY <1>5 DEF FullGc
  <2>2. Phases'
    BY <2>1, <1>1, <1>2, <1>3 DEF Phases
  <2> QED BY <2>1, <2>2, <1>1, <1>2, <1>5, PhaseKeeps DEF KeepInvariant, lists
<1> QED BY <1>4, <1>5

(* A finalizer returns, or ends the cycle with an error.                   *)
LEMMA EndFinalizerKeeps ==
    ASSUME GcInv, EndFinalizer
    PROVE  GcInv'
<1>1. UNCHANGED <<program, alive, refs, colour, lists, unswept, finalizers>> /\ running' = {}
      /\ (state' = state \/ state' = "Pause")
  BY DEF EndFinalizer
<1>2. state = "CallFin" /\ Phases
  BY DEF EndFinalizer, GcInv, Phases
<1>3. DeadObjects' = DeadObjects
  BY <1>1 DEF DeadObjects
<1>4. Phases'
  BY <1>1, <1>2, <1>3 DEF Phases
<1>5. state' \in States /\ ~KeepInvariant'
  BY <1>1, <1>2 DEF KeepInvariant, States
<1> QED BY <1>1, <1>4, <1>5, PhaseKeeps DEF lists

-----------------------------------------------------------------------------
(* The atomic phase *)

\* What the collector must have marked at the end of the atomic phase, `all', for what it
\* has not marked to be garbage.  W1 were white when remark_upvalues ran
MarkedAll(W1, first, all) ==
    /\ first \subseteq all /\ all \subseteq alive
    /\ W1 \subseteq WhiteObjects /\ WhiteObjects \ all \subseteq W1
    /\ Main \in WhiteObjects => Main \in all
    /\ gray \cup grayagain \subseteq all
    /\ finalized \cap WhiteObjects \subseteq all
    /\ \A o \in all : kind[o] \notin {"weak", "ephemeron"} => Children(o, {}) \cap WhiteObjects \subseteq all
    /\ \A o \in all : kind[o] = "ephemeron" /\ key[o] \cap (WhiteObjects \ all) = {}
                      => refs[o] \cap WhiteObjects \subseteq all
    /\ \A u \in Remarked(W1) : Content(u) \cap WhiteObjects \subseteq all

(* Everything that is still in use gets marked.                            *)
LEMMA AtomicMarks ==
    ASSUME GcInv, Atomic
    PROVE  \E W1, first, all : MarkedAll(W1, first, all) /\ EndAtomic(W1, first, all)
<1> DEFINE W == WhiteObjects
           X0 == Traversed(gray \cup ({Main} \cap W), W)
           W1 == W \ X0
           S1 == (UNION {Content(u) : u \in Remarked(W1)}) \cap W1
           X1 == Traversed(S1, W1)
           W2 == W \ (X0 \cup X1)
           S2 == grayagain \cup Ephemerons(X0 \cup X1)
           X2 == Traversed(S2, W2)
           first == X0 \cup X1 \cup X2
           W3 == W \ first
           S3 == Range(tobefnz \o Separated(W3)) \cup Ephemerons(first)
           X3 == Traversed(S3, W3)
           all == first \cup X3
<1>1. EndAtomic(W1, first, all)
  BY ONLY Atomic, ZenonT(30) DEF Atomic
<1>2. Types /\ Kinds /\ Finalizers /\ RefsLive /\ Phases /\ Marking /\ alive \subseteq Objects
  BY Basics DEF GcInv
<1>3. KeepInvariant /\ GrayOnes /\ DeadObjects = {} /\ Live = alive
  BY <1>2, Basics DEF Atomic, Marking, KeepInvariant
<1>4. W \in SUBSET alive /\ W = WhiteObjects
  BY DEF WhiteObjects
<1> HIDE DEF W
<1>5. /\ gray \cup ({Main} \cap W) \subseteq X0 /\ X0 \subseteq alive
      /\ \A o \in X0 : Children(o, X0 \cup (alive \ W)) \cap W \subseteq X0
  <2>1. gray \cup ({Main} \cap W) \in SUBSET alive
    BY <1>3, <1>4 DEF GrayOnes
  <2> DEFINE S0 == gray \cup ({Main} \cap W)
  <2> HIDE DEF S0
  <2>2. S0 \in SUBSET alive /\ X0 = Traversed(S0, W)
    BY <2>1 DEF S0
  <2> HIDE DEF X0
  <2>3. /\ S0 \subseteq X0 /\ X0 \subseteq S0 \cup W
        /\ \A o \in X0 : Children(o, X0 \cup (alive \ W)) \cap W \subseteq X0
    BY <2>2, <1>2, <1>4, TraversedFacts
  <2> QED BY <2>2, <2>3, <1>4 DEF S0
<1> HIDE DEF X0
<1>6. W1 \in SUBSET alive /\ S1 \in SUBSET alive
  BY <1>4
<1>7. /\ S1 \subseteq X1 /\ X1 \subseteq alive
      /\ \A o \in X1 : Children(o, X1 \cup (alive \ W1)) \cap W1 \subseteq X1
  <2> HIDE DEF S1, W1
  <2>1. S1 \subseteq X1 /\ X1 \subseteq S1 \cup W1
      /\ \A o \in X1 : Children(o, X1 \cup (alive \ W1)) \cap W1 \subseteq X1
    BY <1>2, <1>6, TraversedFacts
  <2> HIDE DEF X1
  <2> QED BY <2>1, <1>6
<1>8. \A u \in Remarked(W1) : Content(u) \cap W1 \subseteq X1
  BY <1>7
<1> HIDE DEF X1, S1
<1>9. W2 \in SUBSET alive /\ S2 \in SUBSET alive
  BY <1>3, <1>4, <1>5, <1>7 DEF GrayOnes, Ephemerons
<1>10. /\ S2 \subseteq X2 /\ X2 \subseteq alive
       /\ \A o \in X2 : Children(o, X2 \cup (alive \ W2)) \cap W2 \subseteq X2
  <2> HIDE DEF S2, W2
  <2>1. S2 \subseteq X2 /\ X2 \subseteq S2 \cup W2
      /\ \A o \in X2 : Children(o, X2 \cup (alive \ W2)) \cap W2 \subseteq X2
    BY <1>2, <1>9, TraversedFacts
  <2> HIDE DEF X2
  <2>2. X2 \subseteq alive
    BY <2>1, <1>9
  <2> QED BY <2>1, <2>2
<1> HIDE DEF X2
<1>11. first \subseteq alive /\ W3 \in SUBSET alive
  BY <1>4, <1>5, <1>7, <1>10
<1>12. /\ S3 \in SUBSET alive /\ Ephemerons(first) \subseteq S3 /\ Range(tobefnz) \subseteq S3
       /\ Range(finobj) \cap W3 \subseteq S3
  <2>1. finobj \in Seq(Objects) /\ tobefnz \in Seq(Objects) /\ IsInjective(finobj)
    BY <1>2, ConcatFacts DEF Types, Finalizers
  <2>2. /\ Among(finobj, W3) \in Seq(Objects) /\ IsInjective(Among(finobj, W3))
        /\ Range(Among(finobj, W3)) = Range(finobj) \cap W3
    <3> HIDE DEF W3
    <3> QED BY <2>1, AmongFacts
  <2>3. Separated(W3) \in Seq(Objects) /\ Range(Separated(W3)) = Range(finobj) \cap W3
    <3> HIDE DEF W3
    <3> QED BY <2>2, ReverseFacts DEF Separated
  <2>4. Range(tobefnz \o Separated(W3)) = Range(tobefnz) \cup (Range(finobj) \cap W3)
    <3> HIDE DEF W3
    <3> QED BY <2>1, <2>3, ConcatFacts
  <2>5. Range(tobefnz) \subseteq alive /\ Range(finobj) \subseteq alive
    BY <1>2, <1>3 DEF Finalizers
  <2> HIDE DEF W3, first
  <2> QED BY <2>4, <2>5, <1>11 DEF Ephemerons
<1>13. /\ S3 \subseteq X3 /\ X3 \subseteq alive
       /\ \A o \in X3 : Children(o, X3 \cup (alive \ W3)) \cap W3 \subseteq X3
  <2> HIDE DEF S3, W3
  <2>1. S3 \subseteq X3 /\ X3 \subseteq S3 \cup W3
      /\ \A o \in X3 : Children(o, X3 \cup (alive \ W3)) \cap W3 \subseteq X3
    BY <1>2, <1>11, <1>12, TraversedFacts
  <2> HIDE DEF X3
  <2>2. X3 \subseteq alive
    BY <2>1, <1>11, <1>12
  <2> QED BY <2>1, <2>2
<1> HIDE DEF X3, S3
<1>14. first \subseteq all /\ all \subseteq alive /\ W1 \subseteq W /\ W \ all \subseteq W1
  BY <1>11, <1>13
<1>15. gray \cup grayagain \subseteq all /\ (Main \in W => Main \in all)
  BY <1>5, <1>10
<1>16. finalized \cap W \subseteq all
  <2>1. finalized = Range(finobj) \cup Range(tobefnz)
    BY <1>2 DEF Finalizers
  <2>2. Range(tobefnz) \subseteq all /\ Range(finobj) \cap W3 \subseteq all
    BY <1>12, <1>13
  <2>3. W \subseteq first \cup W3
    OBVIOUS
  <2> QED BY ONLY <2>1, <2>2, <2>3, <1>14
<1>17. ASSUME NEW o \in all, kind[o] \notin {"weak", "ephemeron"}
       PROVE  Children(o, {}) \cap W \subseteq all
  <2>1. \A Y : Children(o, Y) = Children(o, {})
    BY <1>17 DEF Children
  <2>2. /\ o \in X0 => Children(o, {}) \cap W \subseteq X0
        /\ o \in X1 => Children(o, {}) \cap W1 \subseteq X1
        /\ o \in X2 => Children(o, {}) \cap W2 \subseteq X2
        /\ o \in X3 => Children(o, {}) \cap W3 \subseteq X3
    BY <2>1, <1>5, <1>7, <1>10, <1>13
  <2> QED BY <2>2
<1>18. ASSUME NEW e \in all, kind[e] = "ephemeron", key[e] \cap (W \ all) = {}
       PROVE  refs[e] \cap W \subseteq all
  <2>1. e \in X3
    <3>1. e \in first => e \in S3
      BY <1>12, <1>18 DEF Ephemerons
    <3> QED BY <3>1, <1>13
  <2>2. key[e] \subseteq alive
    BY <1>2, <1>3, <1>14 DEF RefsLive
  <2>3. key[e] \subseteq X3 \cup (alive \ W3)
    BY <2>2, <1>18
  <2>4. Children(e, X3 \cup (alive \ W3)) = refs[e]
    BY <2>3, <1>18 DEF Children
  <2>5. refs[e] \cap W3 \subseteq X3
    BY <2>1, <2>4, <1>13
  <2> QED BY <2>5
<1>19. \A u \in Remarked(W1) : Content(u) \cap W \subseteq all
  BY <1>8
<1>20. MarkedAll(W1, first, all)
  <2> HIDE DEF W1, first, all
  <2> QED BY <1>4, <1>14, <1>15, <1>16, <1>17, <1>18, <1>19 DEF MarkedAll
<1> HIDE DEF W1, first, all
<1> QED BY <1>1, <1>20

(* What was not marked is dead from now on, and nothing that was marked    *)
(* refers to it any more.                                                  *)
LEMMA AtomicEnds ==
    ASSUME GcInv, state = "EnterAtomic", NEW W1, NEW first, NEW all,
           MarkedAll(W1, first, all), EndAtomic(W1, first, all), UNCHANGED <<heap, done>>
    PROVE  GcInv'
<1>1. /\ DOMAIN kind \subseteq Objects /\ alive \subseteq Objects /\ Live \subseteq alive
      /\ Main \in Live /\ kind[Main] = "thread"
      /\ \A u \in Objects : home[u] # {} => u \in alive /\ kind[u] = "upvalue"
  BY Basics
<1>2. Types /\ RefsLive /\ Unused /\ OpenOnes /\ Kinds /\ Finalizers /\ Phases /\ Marking
  BY DEF GcInv
<1>3. KeepInvariant /\ GrayOnes /\ BlackOnes /\ DeadObjects = {} /\ Live = alive
  BY <1>2, Basics DEF Marking, KeepInvariant
<1>4. kind' = kind
  BY DEF kind
<1> DEFINE W == WhiteObjects
           W3 == W \ first
           W4 == W \ all
           cleared == {e \in Ephemerons(all) : key[e] \cap W4 # {}}
           closed == {u \in alive : home[u] \cap Unmarked(W1) \cap W4 # {}}
<1>5. /\ state' = "SwpAllGc" /\ unswept' = alive
      /\ refs' = [o \in Objects |->
                     IF o \in cleared THEN {}
                     ELSE IF o \in Weaks(first) THEN refs[o] \ W3
                     ELSE IF o \in Weaks(all) THEN refs[o] \ W4
                     ELSE IF o \in closed THEN Content(o)
                     ELSE refs[o]]
      /\ key' = [o \in Objects |-> IF o \in cleared THEN {} ELSE key[o]]
      /\ home' = [o \in Objects |-> IF o \in closed THEN {} ELSE home[o]]
      /\ colour' = [o \in Objects |->
                       IF o \in closed \ W4 THEN "black"
                       ELSE IF o \in all THEN (IF home[o] # {} THEN "gray" ELSE "black")
                       ELSE IF o \in alive THEN Flipped(colour[o]) ELSE colour[o]]
      /\ finobj' = Among(finobj, Objects \ W3)
      /\ tobefnz' = tobefnz \o Separated(W3)
      /\ twups' = (twups \ Unmarked(W1))
                     \cup {t \in all : kind[t] = "thread" /\ Upvalues(t) # {}}
      /\ UNCHANGED <<alive, finalized, running>>
  BY DEF EndAtomic
<1>6. /\ first \subseteq all /\ all \subseteq alive /\ W1 \subseteq W /\ W4 \subseteq W1
      /\ (Main \in W => Main \in all) /\ gray \cup grayagain \subseteq all
      /\ finalized \cap W \subseteq all
      /\ \A o \in all : kind[o] \notin {"weak", "ephemeron"} => Children(o, {}) \cap W \subseteq all
      /\ \A o \in all : kind[o] = "ephemeron" /\ key[o] \cap W4 = {} => refs[o] \cap W \subseteq all
      /\ \A u \in Remarked(W1) : Content(u) \cap W \subseteq all
  BY DEF MarkedAll
<1>7. /\ \A o \in W : o \in alive /\ colour[o] = "white"
      /\ \A o \in alive \ W : colour[o] \in {"gray", "black"}
  BY <1>1, <1>2, <1>3 DEF WhiteObjects, IsWhite, Whites, DeadObjects, Types
<1> HIDE DEF W
<1>8. W4 \subseteq W3 /\ W4 \subseteq alive /\ W4 \cap all = {}
  BY <1>6, <1>7
\* Dead are those that were not marked
<1>9. /\ \A o \in Objects : colour'[o] = IF o \in closed \ W4 THEN "black"
                       ELSE IF o \in all THEN (IF home[o] # {} THEN "gray" ELSE "black")
                       ELSE IF o \in alive THEN Flipped(colour[o]) ELSE colour[o]
      /\ colour' \in [Objects -> {"white", "dead", "gray", "black"}]
  <2>1. colour \in [Objects -> {"white", "dead", "gray", "black"}]
    BY <1>2 DEF Types
  <2>2. \A o \in Objects : Flipped(colour[o]) \in {"white", "dead", "gray", "black"}
    BY <2>1 DEF Flipped
  <2> HIDE DEF closed, W4
  <2> QED BY <2>1, <2>2, <1>5
<1>10. DeadObjects' = W4 /\ Live' = alive \ W4
  <2>1. ASSUME NEW o \in alive PROVE colour'[o] = "dead" <=> o \in W4
    <3>1. CASE o \in W4
      <4>1. o \in Objects /\ o \notin closed \ W4 /\ o \notin all /\ colour[o] = "white"
        BY <3>1, <1>1, <1>7, <1>8
      <4>2. colour'[o] = Flipped("white")
        BY <4>1, <1>9
      <4> QED BY <3>1, <4>2 DEF Flipped
    <3>2. CASE o \notin W4
      <4>1. o \in all \/ colour[o] \in {"gray", "black"}
        BY <3>2, <1>7
      <4>2. colour[o] \in {"gray", "black"} => Flipped(colour[o]) = colour[o]
        BY DEF Flipped
      <4> QED BY <3>2, <4>1, <4>2, <1>1, <1>9
    <3> QED BY <3>1, <3>2
  <2>2. DeadObjects' = W4
    BY <2>1, <1>5, <1>8 DEF DeadObjects
  <2> QED BY <2>2, <1>5 DEF Live
<1>11. \A o \in closed : kind[o] = "upvalue" /\ o \in alive /\ home[o] # {}
  BY <1>1
<1>12. /\ \A o \in cleared : kind[o] = "ephemeron"
       /\ \A o \in Weaks(first) \cup Weaks(all) : kind[o] = "weak" /\ o \in all
       /\ \A o \in all : kind[o] = "weak" => o \in Weaks(all)
       /\ \A o \in all : kind[o] = "ephemeron" => o \in cleared \/ key[o] \cap W4 = {}
  BY <1>6 DEF Ephemerons, Weaks
<1>13. /\ \A o \in Objects : o \in cleared => refs'[o] = {} /\ key'[o] = {}
       /\ \A o \in Objects : o \notin cleared => key'[o] = key[o]
       /\ \A o \in Objects : o \notin closed => refs'[o] \subseteq refs[o]
       /\ \A o \in closed : refs'[o] = Content(o)
       /\ \A o \in Weaks(all) : refs'[o] \cap W4 = {}
       /\ \A o \in Objects : home'[o] = IF o \in closed THEN {} ELSE home[o]
       /\ refs' \in [Objects -> SUBSET Objects]
       /\ key' \in [Objects -> SUBSET Objects] /\ home' \in [Objects -> SUBSET Objects]
  <2>1. refs \in [Objects -> SUBSET Objects] /\ key \in [Objects -> SUBSET Objects] /\ home \in [Objects -> SUBSET Objects]
    BY <1>2 DEF Types
  <2>2. \A o \in Objects : Content(o) \in SUBSET Objects
    BY <2>1 DEF Content
  <2>3. \A o \in closed : o \in Objects /\ o \notin cleared /\ o \notin Weaks(first) /\ o \notin Weaks(all)
    BY <1>1, <1>11, <1>12
  <2>4. \A o \in Weaks(all) : o \in Objects /\ o \notin cleared
    BY <1>1, <1>6, <1>12
  <2> DEFINE F(o) == IF o \in cleared THEN {}
                     ELSE IF o \in Weaks(first) THEN refs[o] \ W3
                     ELSE IF o \in Weaks(all) THEN refs[o] \ W4
                     ELSE IF o \in closed THEN Content(o)
                     ELSE refs[o]
  <2> HIDE DEF cleared, closed, W3, W4
  <2>5. \A o \in Objects : F(o) \in SUBSET Objects
    BY <2>1, <2>2
  <2>6. /\ \A o \in Objects : refs'[o] = F(o)
        /\ refs' \in [Objects -> SUBSET Objects]
    <3>1. refs' = [o \in Objects |-> F(o)]
      BY <1>5
    <3> HIDE DEF F
    <3> QED BY <3>1, <2>5
  <2>7. \A o \in Objects : key'[o] = (IF o \in cleared THEN {} ELSE key[o])
    BY <1>5
  <2>8. \A o \in Objects : home'[o] = (IF o \in closed THEN {} ELSE home[o])
    BY <1>5
  <2>9. key' \in [Objects -> SUBSET Objects] /\ home' \in [Objects -> SUBSET Objects]
    BY <1>5, <2>1
  <2>10. /\ \A o \in Objects : o \in cleared => refs'[o] = {}
         /\ \A o \in Objects : o \notin closed => refs'[o] \subseteq refs[o]
         /\ \A o \in closed : refs'[o] = Content(o)
    BY <2>3, <2>6
  <2>11. \A o \in Weaks(all) : refs'[o] \cap W4 = {}
    BY <2>4, <2>6, <1>8
  <2> QED BY <2>6, <2>7, <2>8, <2>9, <2>10, <2>11
<1> HIDE DEF cleared, closed, W3, W4
\* What an upvalue that was open and is marked has as its value is marked
<1>14. ASSUME NEW o \in alive \ W4, o \in closed PROVE Content(o) \cap W4 = {}
  <2>1. CASE o \in W1
    <3>1. o \in all
      BY <2>1, <1>6 DEF W4
    <3>2. Children(o, {}) = Content(o)
      BY <1>11, <1>14 DEF Children
    <3> QED BY <3>1, <3>2, <1>6, <1>11, <1>14 DEF W4
  <2>2. CASE o \notin W1
    <3>1. o \in Remarked(W1)
      BY <2>2, <1>14 DEF closed, Remarked, Upvalues
    <3> QED BY <3>1, <1>6 DEF W4
  <2> QED BY <2>1, <2>2
<1>15. ASSUME NEW o \in alive \ W4 PROVE refs'[o] \cap W4 = {} /\ key'[o] \cap W4 = {}
  <2>1. o \in Objects /\ (o \in all \/ (o \notin W /\ o \notin gray /\ o \notin grayagain))
    BY <1>1, <1>6 DEF W4
  <2>2. o \notin all => ~IsWhite(o) /\ o \notin gray \cup grayagain
    BY <2>1, <1>7 DEF IsWhite, Whites
  <2>3. kind[o] \in {"weak", "ephemeron"} \/ (kind[o] = "thread" /\ o \notin done) => o \in all
    BY <2>2, <1>3 DEF GrayOnes
  <2>4. CASE o \in cleared
    BY <2>1, <2>4, <1>13
  <2>5. CASE o \notin cleared
    <3>1. key'[o] \cap W4 = {}
      <4>1. CASE kind[o] = "ephemeron"
        BY <4>1, <2>1, <2>3, <2>5, <1>12, <1>13
      <4>2. CASE kind[o] # "ephemeron"
        BY <4>2, <2>1, <2>5, <1>2, <1>13 DEF Kinds
      <4> QED BY <4>1, <4>2
    <3>2. CASE o \in closed
      BY <3>1, <3>2, <1>13, <1>14
    <3>3. CASE kind[o] = "weak"
      BY <3>1, <3>3, <2>3, <1>12, <1>13
    <3>4. CASE kind[o] = "ephemeron"
      <4>1. o \in all /\ key[o] \cap W4 = {}
        BY <3>4, <2>3, <2>5, <1>12
      <4>2. refs[o] \cap W4 = {}
        BY <4>1, <3>4, <1>6 DEF W4
      <4>3. o \notin closed
        BY <3>4, <1>11
      <4> QED BY <3>1, <4>2, <4>3, <2>1, <1>13
    <3>5. CASE o \in all /\ o \notin closed /\ kind[o] \notin {"weak", "ephemeron"}
      <4>1. Children(o, {}) \cap W4 = {}
        BY <3>5, <1>6 DEF W4
      <4>2. refs[o] \subseteq Children(o, {})
        BY <3>5 DEF Children, Content
      <4> QED BY <3>1, <3>5, <4>1, <4>2, <2>1, <1>13
    <3>6. CASE o \notin all /\ o \notin closed
      <4>1. refs[o] \cap W = {}
        <5>1. CASE colour[o] = "black"
          BY <5>1, <3>6, <2>1, <1>3 DEF BlackOnes, W
        <5>2. CASE colour[o] = "gray"
          <6>1. home[o] # {}
            BY <5>2, <3>6, <2>2, <1>3 DEF GrayOnes
          <6> QED BY <6>1, <2>1, <1>2 DEF OpenOnes
        <5> QED BY <5>1, <5>2, <3>6, <2>1, <1>7
      <4> QED BY <3>1, <3>6, <4>1, <2>1, <1>13 DEF W4
    <3> QED BY <3>2, <3>3, <3>4, <3>5, <3>6
  <2> QED BY <2>4, <2>5
\* An upvalue that is still open has its thread marked
<1>16. ASSUME NEW u \in Objects, NEW t \in home'[u]
       PROVE  /\ u \notin closed /\ home'[u] = home[u] /\ t \in home[u]
              /\ t \in alive \ W4 /\ t \in twups'
  <2>1. u \notin closed /\ home'[u] = home[u] /\ t \in home[u] /\ u \in alive
    BY <1>1, <1>13, <1>16
  <2>2. t \in alive /\ t \in twups /\ kind[t] = "thread" /\ t \notin done
    BY <2>1, <1>2, <1>3 DEF RefsLive, OpenOnes
  <2>3. t \notin W4
    <3> SUFFICES ASSUME t \in W4 PROVE FALSE
      OBVIOUS
    <3>1. t \in Unmarked(W1)
      BY <2>2, <1>6 DEF Unmarked
    <3> QED BY <3>1, <2>1 DEF closed
  <2>4. t \in all
    BY <2>2, <2>3, <1>3, <1>6, <1>7 DEF GrayOnes, IsWhite, Whites, W4
  <2>5. Upvalues(t) # {}
    BY <2>1 DEF Upvalues
  <2> QED BY <2>1, <2>2, <2>3, <2>4, <2>5, <1>5
\* The lists of objects with finalizers
<1>17. /\ finobj' \in Seq(Objects) /\ tobefnz' \in Seq(Objects) /\ IsInjective(finobj' \o tobefnz')
       /\ Range(finobj') \cup Range(tobefnz') = Range(finobj) \cup Range(tobefnz)
  <2>1. finobj \in Seq(Objects) /\ tobefnz \in Seq(Objects) /\ IsInjective(finobj)
        /\ IsInjective(tobefnz) /\ Range(finobj) \cap Range(tobefnz) = {}
    BY <1>2, ConcatFacts DEF Types, Finalizers
  <2>2. /\ Among(finobj, W3) \in Seq(Objects) /\ IsInjective(Among(finobj, W3))
        /\ Range(Among(finobj, W3)) = Range(finobj) \cap W3
    BY <2>1, AmongFacts
  <2>3. /\ Separated(W3) \in Seq(Objects) /\ Range(Separated(W3)) = Range(finobj) \cap W3
        /\ IsInjective(Separated(W3))
    BY <2>2, ReverseFacts DEF Separated
  <2>4. /\ finobj' \in Seq(Objects) /\ IsInjective(finobj')
        /\ Range(finobj') = Range(finobj) \cap (Objects \ W3)
    BY <2>1, <1>5, AmongFacts
  <2>5. Range(tobefnz) \cap Range(Separated(W3)) = {}
    BY <2>1, <2>3
  <2>6. /\ tobefnz' \in Seq(Objects) /\ IsInjective(tobefnz')
        /\ Range(tobefnz') = Range(tobefnz) \cup (Range(finobj) \cap W3)
    <3>1. /\ tobefnz \o Separated(W3) \in Seq(Objects) /\ IsInjective(tobefnz \o Separated(W3))
          /\ Range(tobefnz \o Separated(W3)) = Range(tobefnz) \cup Range(Separated(W3))
      BY ONLY <2>1, <2>3, <2>5, ConcatFacts
    <3> QED BY <3>1, <2>3, <1>5
  <2>7. Range(finobj') \cap Range(tobefnz') = {}
    BY ONLY <2>1, <2>4, <2>6
  <2>8. Range(finobj) \subseteq Objects
    BY <2>1 DEF Range
  <2>9. IsInjective(finobj' \o tobefnz')
    BY ONLY <2>4, <2>6, <2>7, ConcatFacts
  <2>10. Range(finobj') \cup Range(tobefnz') = Range(finobj) \cup Range(tobefnz)
    BY ONLY <2>4, <2>6, <2>8
  <2> QED BY <2>4, <2>6, <2>9, <2>10
<1>18. Types'
  BY <1>2, <1>4, <1>5, <1>9, <1>13, <1>17 DEF Types, States
<1>19. RefsLive'
  <2>1. Main \in Live'
    BY <1>1, <1>6, <1>10 DEF W4
  <2>2. ASSUME NEW o \in Live' PROVE refs'[o] \cup key'[o] \subseteq Live'
    <3>1. o \in alive \ W4 /\ o \in Objects
      BY <2>2, <1>1, <1>10
    <3>2. refs'[o] \subseteq alive /\ key'[o] \subseteq alive
      <4>1. refs[o] \subseteq alive /\ key[o] \subseteq alive
        BY <3>1, <1>2, <1>3 DEF RefsLive
      <4>2. Content(o) \subseteq alive
        BY <3>1, <4>1, <1>2, <1>3 DEF RefsLive, Content
      <4> QED BY <4>1, <4>2, <3>1, <1>13
    <3> QED BY <3>1, <3>2, <1>10, <1>15
  <2>3. \A u \in Objects : home'[u] \subseteq Live'
    BY <1>10, <1>16
  <2> QED BY <2>1, <2>2, <2>3 DEF RefsLive
<1>20. Unused'
  <2> SUFFICES ASSUME NEW o \in Objects \ alive PROVE refs'[o] = {} /\ key'[o] = {} /\ home'[o] = {}
    BY <1>5 DEF Unused
  <2>1. refs[o] = {} /\ key[o] = {} /\ home[o] = {} /\ o \notin closed
    BY <1>2, <1>11 DEF Unused
  <2> QED BY <2>1, <1>13
<1>21. OpenOnes'
  <2>1. ASSUME NEW u \in Objects, NEW t \in home'[u]
        PROVE  /\ kind[u] = "upvalue" /\ refs'[u] = {} /\ home'[u] = {t}
               /\ kind[t] = "thread" /\ t \notin done
    <3>1. u \notin closed /\ home'[u] = home[u] /\ t \in home[u]
      BY <1>16, <2>1
    <3>2. /\ kind[u] = "upvalue" /\ refs[u] = {} /\ home[u] = {t}
          /\ kind[t] = "thread" /\ t \notin done
      BY <3>1, <1>2 DEF OpenOnes
    <3> QED BY <3>1, <3>2, <1>13
  <2>2. ASSUME NEW t \in done PROVE kind[t] = "thread" /\ refs'[t] = {}
    <3>1. t \in Objects /\ kind[t] = "thread" /\ refs[t] = {}
      BY <2>2, <1>1, <1>2 DEF OpenOnes, Types
    <3>2. t \notin closed
      BY <3>1, <1>11
    <3> QED BY <3>1, <3>2, <1>13
  <2> QED BY <2>1, <2>2, <1>2, <1>4, <1>16 DEF OpenOnes
<1>22. Kinds'
  <2>1. \A o \in Objects : key'[o] \subseteq key[o]
    BY <1>13
  <2>2. \A o \in alive : kind[o] = "userdata" => refs'[o] = {}
    BY <1>1, <1>2, <1>11, <1>13 DEF Kinds
  <2>3. ASSUME NEW o \in alive, NEW x \in refs'[o] PROVE kind[x] = "upvalue" <=> kind[o] = "closure"
    <3>1. CASE o \notin closed
      BY <3>1, <2>3, <1>1, <1>2, <1>13 DEF Kinds
    <3>2. CASE o \in closed
      <4>1. kind[o] = "upvalue" /\ x \in Content(o) /\ o \in Objects
        BY <3>2, <2>3, <1>1, <1>11, <1>13
      <4>2. CASE x \in refs[o]
        BY <4>1, <4>2, <1>2 DEF Kinds
      <4>3. ASSUME NEW t \in home[o], x \in refs[t] PROVE kind[x] # "upvalue"
        <5>1. t \in alive /\ kind[t] = "thread"
          BY <4>1, <1>2, <1>3 DEF RefsLive, OpenOnes
        <5> QED BY <5>1, <4>3, <1>2 DEF Kinds
      <4> QED BY <4>1, <4>2, <4>3 DEF Content
    <3> QED BY <3>1, <3>2
  <2>4. \A o \in alive : \A x \in key'[o] : kind[x] # "upvalue"
    BY <2>1, <1>1, <1>2 DEF Kinds
  <2>5. \A o \in Objects : key'[o] # {} => kind[o] = "ephemeron"
    BY <2>1, <1>2 DEF Kinds
  <2> QED BY <2>2, <2>3, <2>4, <2>5, <1>4, <1>5 DEF Kinds
<1>23. Finalizers'
  <2>1. finalized \subseteq alive \ W4
    BY <1>2, <1>3, <1>6 DEF Finalizers, W4
  <2>2. twups' \subseteq alive \ W4
    <3>1. all \subseteq alive \ W4
      BY <1>6 DEF W4
    <3>2. twups \ Unmarked(W1) \subseteq alive \ W4
      BY <1>2, <1>3, <1>6 DEF Finalizers, Unmarked
    <3> QED BY <3>1, <3>2, <1>5
  <2> QED BY <2>1, <2>2, <1>2, <1>4, <1>5, <1>10, <1>17 DEF Finalizers
<1>24. Phases'
  <2>1. running = {}
    BY <1>2 DEF Phases
  <2> QED BY <2>1, <1>5, <1>8, <1>10 DEF Phases
<1>25. Marking'
  BY <1>5 DEF Marking, KeepInvariant
<1> QED BY <1>18, <1>19, <1>20, <1>21, <1>22, <1>23, <1>24, <1>25 DEF GcInv

\* The atomic phase, all of it.
LEMMA AtomicKeeps ==
    ASSUME GcInv, Atomic, UNCHANGED <<heap, done>>
    PROVE  GcInv'
<1>1. state = "EnterAtomic"
  BY DEF Atomic
<1>2. PICK W1, first, all : MarkedAll(W1, first, all) /\ EndAtomic(W1, first, all)
  BY AtomicMarks
<1> QED BY <1>1, <1>2, AtomicEnds

-----------------------------------------------------------------------------
(* The theorems *)

\* One step of the collector, in any phase.
LEMMA SingleStepKeeps == GcInv /\ SingleStep => GcInv'
<1> SUFFICES ASSUME GcInv, SingleStep PROVE GcInv'
  OBVIOUS
<1>1. running = {} /\ UNCHANGED <<heap, done>>
  BY DEF SingleStep
<1>2. CASE RestartCollection
  BY <1>1, <1>2, RestartKeeps
<1>3. CASE Propagate
  BY <1>1, <1>3, PropagateKeeps
<1>4. CASE Atomic
  BY <1>1, <1>4, AtomicKeeps
<1>5. CASE SweepStep
  BY <1>1, <1>5, SweepKeeps
<1>6. CASE CallFin
  BY <1>1, <1>6, CallFinKeeps
<1> QED BY <1>2, <1>3, <1>4, <1>5, <1>6 DEF SingleStep

\* Nothing happens.
LEMMA StutterKeeps == GcInv /\ UNCHANGED vars => GcInv'
<1> SUFFICES ASSUME GcInv, UNCHANGED vars PROVE GcInv'
  OBVIOUS
<1>1. /\ heap' = heap /\ key' = key /\ home' = home /\ done' = done /\ alive' = alive
      /\ refs' = refs /\ colour' = colour /\ gray' = gray /\ grayagain' = grayagain
      /\ twups' = twups /\ state' = state /\ unswept' = unswept /\ finobj' = finobj
      /\ tobefnz' = tobefnz /\ finalized' = finalized /\ running' = running
  BY DEF vars, program, lists, finalizers
<1>2. kind' = kind /\ DeadObjects' = DeadObjects /\ Live' = Live /\ WhiteObjects' = WhiteObjects
      /\ KeepInvariant' = KeepInvariant
  BY <1>1 DEF kind, DeadObjects, Live, WhiteObjects, IsWhite, KeepInvariant
<1>3. Types' /\ RefsLive' /\ Unused'
  BY <1>1, <1>2 DEF GcInv, Types, RefsLive, Unused
<1>4. OpenOnes' /\ Kinds' /\ Finalizers'
  BY <1>1, <1>2 DEF GcInv, OpenOnes, Kinds, Finalizers
<1>5. Phases' /\ Marking'
  BY <1>1, <1>2 DEF GcInv, Phases, Marking, GrayOnes, BlackOnes, IsWhite
<1> QED BY <1>3, <1>4, <1>5 DEF GcInv

\* Every step of the program or the collector keeps the invariant.
LEMMA GcStep == GcInv /\ [Next]_vars => GcInv'
<1> SUFFICES ASSUME GcInv, [Next]_vars PROVE GcInv'
  OBVIOUS
<1>1. CASE SingleStep
  BY <1>1, SingleStepKeeps
<1>2. CASE EndFinalizer
  BY <1>2, EndFinalizerKeeps
<1>3. CASE FullGc
  BY <1>3, FullGcKeeps
<1>4. CASE Program
  BY <1>4, ProgramKeeps
<1>5. CASE UNCHANGED vars
  BY <1>5, StutterKeeps
<1> QED
  BY <1>1, <1>2, <1>3, <1>4, <1>5
  DEF Next, Collector, AutomaticStep, FullStep, ApiStep, ExplicitStep

(* No object that the program can still get at is freed: not one that only *)
(* a weak table, an ephemeron, a waiting finalizer or an upvalue on the    *)
(* stack of an unmarked coroutine leads to, wherever the program's steps   *)
(* fall between those of the collector.  This is what barrier,             *)
(* barrier_back, remark_upvalues, close_dead_threads_upvalues, the clearing*)
(* of weak tables and separate_to_be_finalized together achieve in atomic, *)
(* before sweep_list frees what they left white.                           *)
THEOREM NothingDangles == Spec => []NoDanglingReference
<1> QED BY GcInit, GcStep, GcInvFacts, PTL DEF Spec

(* finobj and tobefnz hold each object with FINALIZEDBIT once, and neither *)
(* they nor twups hold a freed object: check_finalizer registers an object *)
(* once, separate_to_be_finalized and sweep_list move it, and              *)
(* call_one_finalizer takes it off.                                        *)
THEOREM ListsAreKept == Spec => []ListsKept
<1> QED BY GcInit, GcStep, GcInvFacts, PTL DEF Spec

(* In the mark phase no black object has a white child, save those that    *)
(* barrier_back has queued in grayagain: propagate_mark, barrier and the   *)
(* closing of upvalues keep it so between any two steps.                   *)
THEOREM TriColourHolds == Spec => []TriColour
<1> QED BY GcInit, GcStep, GcInvFacts, PTL DEF Spec

=============================================================================
