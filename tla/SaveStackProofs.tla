-------------------------- MODULE SaveStackProofs --------------------------
(***************************************************************************)
(* Proofs about the save stack, for all documents, values and bounds.      *)
(*                                                                         *)
(* A slot has a cell in the dense table and one in the sparse table.  What *)
(* the stack has saved of a cell are its items, in the order of their      *)
(* places; the cell itself is taken for one more entry, at a place above   *)
(* them all.  The entries of a cell have levels, and the proofs are about  *)
(* which of them an end of a group uncovers: first that the levels fit the *)
(* groups (StackInv), then that the entry that shows at a level is the     *)
(* value that the abstract groups of Grouping have there (ScopeInv).       *)
(***************************************************************************)
EXTENDS SaveStackScopes, NatOrder

-----------------------------------------------------------------------------
(* The inductive invariant *)

\* A place above the stack: an assignment pushes at most two items
Top == MaxSaveStack + 3

\* The places of the entries of the cell of a in the part p, for a stack sv
Spots(sv, p, a) == {i \in 1..Len(sv) : sv[i].part = p /\ sv[i].slot = a} \cup {Top}

\* The entry at the place i, for a cell c
Entry(sv, c, i) == IF i = Top THEN c ELSE sv[i].old

\* The n-th of the groups gr has the place i
InGroup(gr, i, n) ==
    /\ n \in DOMAIN gr
    /\ gr[n] + 1 < i
    /\ n < Len(gr) => i <= gr[n + 1]

\* An item is older than its group; an entry of an inner level has an item in the group of
\* its level, from when it was made, and below it no item of groups further in
Chain(sv, c, gr, p, a) ==
    \A j \in Spots(sv, p, a) :
        /\ j # Top => \E n \in DOMAIN gr : InGroup(gr, j, n) /\ Entry(sv, c, j).l <= n
        /\ Entry(sv, c, j).l > LevelOne =>
             /\ \E i \in Spots(sv, p, a) : i < j /\ InGroup(gr, i, Entry(sv, c, j).l - 1)
             /\ Entry(sv, c, j).l <= Len(gr) =>
                  \A i \in Spots(sv, p, a) : i < j => i <= gr[Entry(sv, c, j).l]

\* What the kinds do to the tables
Fits(c, p, a) ==
    /\ p = "dense" => c.v # Absent
    /\ c.v = Absent => c.l = LevelOne
    /\ p = "dense" /\ a = Current => c.v \in Tables
    /\ p = "dense" /\ IsSparse(a) => c.v = 0
    /\ p = "sparse" /\ ~IsSparse(a) /\ Kind(a) \notin {"overlay", "case"} => c.v = Absent
    /\ p = "sparse" /\ Kind(a) \in {"box", "parshape"} => c.l = LevelOne

Boundaries(sv, gr) ==
    /\ \A m, n \in DOMAIN gr : m < n => gr[m] < gr[n]
    /\ \A n \in DOMAIN gr : gr[n] < Len(sv)
-----------------------------------------------------------------------------
(* The entries of one cell *)

USE DEF LevelOne

(* A saved item of a cell has an entry for it.                             *)
LEMMA EntryType ==
    ASSUME NEW sv \in Seq(SaveItems), NEW c \in Places, NEW p \in Parts, NEW a \in Slots,
           NEW i \in Spots(sv, p, a)
    PROVE  Entry(sv, c, i) \in Places
<1>1. CASE i = Top
  BY <1>1 DEF Entry
<1>2. CASE i # Top
  <2>1. i \in 1..Len(sv) /\ sv[i].part = p
    BY <1>2 DEF Spots
  <2>2. sv[i] \in SaveItems
    BY <2>1
  <2>3. sv[i] \in [part : Parts, slot : Slots, old : Places]
    BY <2>1, <2>2 DEF SaveItems, Parts
  <2> QED BY <2>3, <1>2 DEF Entry
<1> QED BY <1>1, <1>2

\* What is in a place.
LEMMA PlaceLevel ==
    ASSUME NEW e \in Places
    PROVE  e.l \in Nat /\ e.l >= 1 /\ e.l <= MaxGroupLevel /\ e.v \in Values \cup {Absent}
BY SlotAssumption DEF Places

\* The entries of a cell are items of the stack, and the cell on top.
LEMMA SpotsBelow ==
    ASSUME NEW sv, Len(sv) \in Nat, Len(sv) <= MaxSaveStack + 2, NEW p, NEW a
    PROVE  /\ Top \in Nat /\ Top \in Spots(sv, p, a)
           /\ \A i \in Spots(sv, p, a) : i \in Nat /\ i <= Top /\ (i # Top => i \in 1..Len(sv))
BY SlotAssumption DEF Spots, Top

(* Pushing an item adds its place to the entries of its own cell.          *)
LEMMA SpotsAppend ==
    ASSUME NEW sv \in Seq(SaveItems), Len(sv) <= MaxSaveStack + 1, NEW x \in SaveItems,
           NEW p \in Parts, NEW a \in Slots
    PROVE  /\ Spots(Append(sv, x), p, a) =
                Spots(sv, p, a) \cup (IF x.part = p /\ x.slot = a THEN {Len(sv) + 1} ELSE {})
           /\ \A c : \A i \in Spots(sv, p, a) : Entry(Append(sv, x), c, i) = Entry(sv, c, i)
           /\ \A c : Entry(Append(sv, x), c, Len(sv) + 1) = x.old
           /\ Len(sv) + 1 \notin Spots(sv, p, a)
<1> DEFINE new == Append(sv, x)
<1>1. Len(new) = Len(sv) + 1 /\ new[Len(sv) + 1] = x /\ \A i \in 1..Len(sv) : new[i] = sv[i]
  OBVIOUS
<1>2. Len(sv) \in Nat /\ Top \in Nat /\ Len(sv) + 1 # Top /\ \A i \in 1..Len(sv) : i # Top
  BY SlotAssumption DEF Top
<1> HIDE DEF new
<1>3. 1..Len(new) = 1..Len(sv) \cup {Len(sv) + 1}
  BY <1>1, <1>2
<1>4. Spots(new, p, a) = Spots(sv, p, a) \cup (IF x.part = p /\ x.slot = a THEN {Len(sv) + 1} ELSE {})
  BY <1>1, <1>3 DEF Spots
<1>5. \A c : \A i \in Spots(sv, p, a) : Entry(new, c, i) = Entry(sv, c, i)
  BY <1>1 DEF Spots, Entry
<1>6. \A c : Entry(new, c, Len(sv) + 1) = x.old
  BY <1>1, <1>2 DEF Entry
<1>7. Len(sv) + 1 \notin Spots(sv, p, a)
  BY <1>2 DEF Spots
<1> QED BY <1>4, <1>5, <1>6, <1>7 DEF new

(* The item of another cell, a token or a boundary changes nothing.        *)
LEMMA ChainAppend ==
    ASSUME NEW sv \in Seq(SaveItems), Len(sv) <= MaxSaveStack + 1, NEW x \in SaveItems,
           NEW p \in Parts, NEW a \in Slots, NEW c \in Places, NEW gr,
           ~(x.part = p /\ x.slot = a), Chain(sv, c, gr, p, a)
    PROVE  Chain(Append(sv, x), c, gr, p, a)
<1>1. Spots(Append(sv, x), p, a) = Spots(sv, p, a)
  <2>1. Spots(Append(sv, x), p, a) =
          Spots(sv, p, a) \cup (IF x.part = p /\ x.slot = a THEN {Len(sv) + 1} ELSE {})
    BY SpotsAppend
  <2> QED BY <2>1
<1>2. \A i \in Spots(sv, p, a) : Entry(Append(sv, x), c, i) = Entry(sv, c, i)
  BY SpotsAppend
<1> QED BY <1>1, <1>2 DEF Chain

(* The cell gets a new value at its level, or a global one.                *)
LEMMA ChainKept ==
    ASSUME NEW sv \in Seq(SaveItems), Len(sv) <= MaxSaveStack + 2,
           NEW p \in Parts, NEW a \in Slots, NEW c \in Places, NEW gr, NEW d \in Places,
           d.l = c.l \/ d.l = 1, Chain(sv, c, gr, p, a)
    PROVE  Chain(sv, d, gr, p, a)
<1>1. \A i \in Spots(sv, p, a) : i # Top => Entry(sv, d, i) = Entry(sv, c, i)
  BY DEF Entry
<1>2. Entry(sv, d, Top) = d /\ Entry(sv, c, Top) = c
  BY DEF Entry
<1> QED BY <1>1, <1>2 DEF Chain

(* A local assignment saves the entry of an outer level.                   *)
LEMMA ChainPush ==
    ASSUME NEW sv \in Seq(SaveItems), Len(sv) <= MaxSaveStack + 1,
           NEW p \in Parts, NEW a \in Slots, NEW c \in Places, NEW d \in Places,
           NEW gr \in Seq(Nat), Boundaries(sv, gr), gr # <<>>,
           \A i \in Spots(sv, p, a) : i # Len(sv) + 1,
           c.l <= Len(gr), d.l = Len(gr) + 1, Chain(sv, c, gr, p, a)
    PROVE  Chain(Append(sv, Item(p, a, c)), d, gr, p, a)
<1> DEFINE x == Item(p, a, c)
           new == Append(sv, x)
           n == Len(sv) + 1
<1>1. x \in SaveItems /\ x.part = p /\ x.slot = a /\ x.old = c
  BY DEF Item, SaveItems
<1> HIDE DEF x
<1>2. /\ Spots(new, p, a) = Spots(sv, p, a) \cup {n}
      /\ \A i \in Spots(sv, p, a) : i # Top => Entry(new, d, i) = Entry(sv, c, i)
      /\ Entry(new, d, n) = c /\ Entry(new, d, Top) = d
  <2>1. Spots(new, p, a) = Spots(sv, p, a) \cup {n} /\ Entry(new, d, n) = c
    BY <1>1, SpotsAppend
  <2>2. \A i \in Spots(sv, p, a) : Entry(new, d, i) = Entry(sv, d, i)
    BY <1>1, SpotsAppend
  <2> QED BY <2>1, <2>2 DEF Entry
<1>3. /\ n \in Nat /\ n < Top /\ n > 0
      /\ \A i \in Spots(sv, p, a) : i \in Nat /\ i <= Top /\ (i # Top => i < n)
      /\ Len(gr) \in DOMAIN gr /\ InGroup(gr, n, Len(gr))
  <2>0. Len(sv) \in Nat /\ Len(sv) <= MaxSaveStack + 2
    BY SlotAssumption
  <2>1. \A i \in Spots(sv, p, a) : i \in Nat /\ i <= Top /\ (i # Top => i \in 1..Len(sv))
    BY <2>0, SpotsBelow
  <2>2. Len(gr) \in DOMAIN gr /\ gr[Len(gr)] < Len(sv) /\ gr[Len(gr)] \in Nat
    BY DEF Boundaries
  <2>3. n \in Nat /\ n < Top /\ n > 0 /\ Len(sv) \in Nat
    BY SlotAssumption DEF Top
  <2> QED BY <2>1, <2>2, <2>3 DEF InGroup
<1>3a. Top \in Nat
  BY SlotAssumption DEF Top
<1> HIDE DEF n, new
<1>4. c.l \in Nat /\ Len(gr) \in Nat
  BY PlaceLevel
<1>5. ASSUME NEW j \in Spots(new, p, a)
      PROVE /\ j # Top => \E m \in DOMAIN gr : InGroup(gr, j, m) /\ Entry(new, d, j).l <= m
            /\ Entry(new, d, j).l > LevelOne =>
                 /\ \E i \in Spots(new, p, a) : i < j /\ InGroup(gr, i, Entry(new, d, j).l - 1)
                 /\ Entry(new, d, j).l <= Len(gr) =>
                      \A i \in Spots(new, p, a) : i < j => i <= gr[Entry(new, d, j).l]
  <2>1. CASE j = Top
    BY <2>1, <1>2, <1>3, <1>4
  <2>2. CASE j = n
    <3>1. \E m \in DOMAIN gr : InGroup(gr, n, m) /\ c.l <= m
      BY <1>3, <1>4
    <3>2. ASSUME c.l > 1
          PROVE /\ \E i \in Spots(sv, p, a) : i < n /\ InGroup(gr, i, c.l - 1)
                /\ c.l <= Len(gr) => \A i \in Spots(sv, p, a) : i < Top => i <= gr[c.l]
      <4>1. Top \in Spots(sv, p, a) /\ Entry(sv, c, Top) = c
        BY DEF Spots, Entry
      <4>2. /\ \E i \in Spots(sv, p, a) : i < Top /\ InGroup(gr, i, c.l - 1)
            /\ c.l <= Len(gr) => \A i \in Spots(sv, p, a) : i < Top => i <= gr[c.l]
        BY <4>1, <3>2 DEF Chain
      <4> QED BY <4>2, <1>3
    <3>3. \A i \in Spots(new, p, a) : i < n => i \in Spots(sv, p, a) /\ i < Top
      <4>1. ASSUME NEW i \in Spots(new, p, a), i < n
            PROVE  i \in Spots(sv, p, a) /\ i < Top
        <5>1. i \in Spots(sv, p, a)
          BY <4>1, <1>2, <1>3
        <5>2. i \in Nat /\ i < n /\ n < Top /\ n \in Nat
          BY <4>1, <5>1, <1>3
        <5> QED BY <5>1, <5>2, <1>3a
      <4> QED BY <4>1
    <3> QED BY <2>2, <3>1, <3>2, <3>3, <1>2, <1>3
  <2>3. CASE j # Top /\ j # n
    <3>1. j \in Spots(sv, p, a) /\ Entry(new, d, j) = Entry(sv, c, j) /\ j < n
      BY <2>3, <1>2, <1>3
    <3>2. \A i \in Spots(new, p, a) : i < j => i \in Spots(sv, p, a)
      BY <3>1, <1>2, <1>3
    <3>3. /\ \E m \in DOMAIN gr : InGroup(gr, j, m) /\ Entry(sv, c, j).l <= m
          /\ Entry(sv, c, j).l > LevelOne =>
               /\ \E i \in Spots(sv, p, a) : i < j /\ InGroup(gr, i, Entry(sv, c, j).l - 1)
               /\ Entry(sv, c, j).l <= Len(gr) =>
                    \A i \in Spots(sv, p, a) : i < j => i <= gr[Entry(sv, c, j).l]
      BY <3>1, <2>3 DEF Chain
    <3> QED BY <3>1, <3>2, <3>3, <1>2
  <2> QED BY <2>1, <2>2, <2>3
<1> QED BY <1>5 DEF Chain, new, x

(* A new group begins above all places.                                    *)
LEMMA ChainGroup ==
    ASSUME NEW sv \in Seq(SaveItems), Len(sv) <= MaxSaveStack + 1,
           NEW p \in Parts, NEW a \in Slots, NEW c \in Places,
           NEW gr \in Seq(Nat), Boundaries(sv, gr), Chain(sv, c, gr, p, a),
           NEW x \in SaveItems, x.part = "level"
    PROVE  Chain(Append(sv, x), c, Append(gr, Len(sv)), p, a)
<1> DEFINE new == Append(gr, Len(sv))
<1>1. /\ new \in Seq(Nat) /\ Len(new) = Len(gr) + 1 /\ new[Len(gr) + 1] = Len(sv)
      /\ \A n \in DOMAIN gr : n \in DOMAIN new /\ new[n] = gr[n]
      /\ Len(gr) \in Nat /\ Len(sv) \in Nat /\ DOMAIN gr = 1..Len(gr) /\ DOMAIN new = 1..(Len(gr) + 1)
  OBVIOUS
<1> HIDE DEF new
<1>2. Len(sv) <= MaxSaveStack + 2
  BY <1>1, SlotAssumption
<1>3. Top \in Nat /\ \A i \in Spots(sv, p, a) : i \in Nat /\ i <= Top /\ (i # Top => i <= Len(sv))
  BY <1>1, <1>2, SpotsBelow
<1>4. \A i \in Nat, n \in DOMAIN gr : i <= Len(sv) /\ InGroup(gr, i, n) => InGroup(new, i, n)
  <2> SUFFICES ASSUME NEW i \in Nat, NEW n \in DOMAIN gr, i <= Len(sv), InGroup(gr, i, n)
               PROVE  InGroup(new, i, n)
    OBVIOUS
  <2>1. n \in DOMAIN new /\ new[n] = gr[n] /\ n \in Nat /\ n <= Len(gr)
    BY <1>1
  <2>2. n < Len(gr) => n + 1 \in DOMAIN gr /\ new[n + 1] = gr[n + 1]
    BY <2>1, <1>1
  <2>3. n < Len(new) => i <= new[n + 1]
    <3>1. CASE n < Len(gr)
      BY <3>1, <2>2 DEF InGroup
    <3>2. CASE n = Len(gr)
      BY <3>2, <1>1
    <3> QED BY <3>1, <3>2, <2>1, <1>1
  <2> QED BY <2>1, <2>3 DEF InGroup
<1>5. ASSUME NEW j \in Spots(sv, p, a)
      PROVE  /\ j # Top => \E n \in DOMAIN new : InGroup(new, j, n) /\ Entry(sv, c, j).l <= n
             /\ Entry(sv, c, j).l > LevelOne =>
                 /\ \E i \in Spots(sv, p, a) : i < j /\ InGroup(new, i, Entry(sv, c, j).l - 1)
                 /\ Entry(sv, c, j).l <= Len(new) =>
                      \A i \in Spots(sv, p, a) : i < j => i <= new[Entry(sv, c, j).l]
  <2> DEFINE l == Entry(sv, c, j).l
  <2>1. l \in Nat /\ l >= 1
    BY EntryType, PlaceLevel
  <2>2. /\ j # Top => \E n \in DOMAIN gr : InGroup(gr, j, n) /\ l <= n
        /\ l > LevelOne =>
             /\ \E i \in Spots(sv, p, a) : i < j /\ InGroup(gr, i, l - 1)
             /\ l <= Len(gr) => \A i \in Spots(sv, p, a) : i < j => i <= gr[l]
    BY DEF Chain
  <2> HIDE DEF l
  <2>3. j # Top => \E n \in DOMAIN new : InGroup(new, j, n) /\ l <= n
    BY <2>2, <1>1, <1>3, <1>4
  <2>4. ASSUME NEW i \in Spots(sv, p, a), i < j PROVE i \in Nat /\ i <= Len(sv)
    BY <1>3, <2>4
  <2>5. l > 1 => \E i \in Spots(sv, p, a) : i < j /\ InGroup(new, i, l - 1)
    BY <2>2, <2>4, <1>4 DEF InGroup
  <2>6. ASSUME l > 1, l <= Len(new), NEW i \in Spots(sv, p, a), i < j PROVE i <= new[l]
    <3>1. CASE l <= Len(gr)
      <4>1. l \in DOMAIN gr /\ i <= gr[l]
        BY <3>1, <2>6, <2>1, <2>2, <1>1
      <4> QED BY <4>1, <1>1
    <3>2. CASE l = Len(gr) + 1
      BY <3>2, <2>6, <2>4, <1>1
    <3> QED BY <3>1, <3>2, <2>6, <2>1, <1>1
  <2> QED BY <2>3, <2>5, <2>6 DEF l
<1>6. Chain(sv, c, new, p, a)
  BY <1>5 DEF Chain
<1>7. x.part # p
  BY DEF Parts
<1> QED BY <1>6, <1>7, ChainAppend DEF new

(* The lower part of a stack has the lower entries.                        *)
LEMMA SpotsLow ==
    ASSUME NEW sv \in Seq(SaveItems), Len(sv) <= MaxSaveStack + 2,
           NEW low \in Seq(SaveItems), Len(low) < Len(sv), \A i \in 1..Len(low) : low[i] = sv[i],
           NEW p \in Parts, NEW a \in Slots
    PROVE  Spots(low, p, a) = {i \in Spots(sv, p, a) : i <= Len(low)} \cup {Top}
<1>1. /\ Len(low) \in Nat /\ Len(sv) \in Nat /\ Top \in Nat /\ Top > Len(sv)
      /\ 1..Len(low) \subseteq 1..Len(sv)
  BY SlotAssumption DEF Top
<1> QED BY <1>1 DEF Spots

(* The innermost group ends, and leaves an entry of a level outside it.    *)
LEMMA ChainPop ==
    ASSUME NEW sv \in Seq(SaveItems), Len(sv) <= MaxSaveStack + 2,
           NEW p \in Parts, NEW a \in Slots, NEW c \in Places,
           NEW gr \in Seq(Nat), gr # <<>>, Boundaries(sv, gr), Chain(sv, c, gr, p, a),
           NEW low \in Seq(SaveItems), Len(low) = gr[Len(gr)], \A i \in 1..Len(low) : low[i] = sv[i],
           NEW outer \in Seq(Nat), Len(outer) = Len(gr) - 1, \A n \in DOMAIN outer : outer[n] = gr[n],
           NEW e, NEW j \in Spots(sv, p, a), j > gr[Len(gr)], e = Entry(sv, c, j), e.l <= Len(gr)
    PROVE  Chain(low, e, outer, p, a)
<1> DEFINE h == gr[Len(gr)]
<1>1. /\ Len(gr) \in Nat \ {0} /\ DOMAIN gr = 1..Len(gr) /\ DOMAIN outer = 1..(Len(gr) - 1)
      /\ h \in Nat /\ Len(sv) \in Nat /\ h < Len(sv)
      /\ \A n \in DOMAIN gr : gr[n] \in Nat /\ gr[n] <= h
  <2>1. Len(gr) \in Nat \ {0} /\ DOMAIN gr = 1..Len(gr) /\ DOMAIN outer = 1..Len(outer)
    OBVIOUS
  <2>2. \A n \in DOMAIN gr : gr[n] \in Nat
    OBVIOUS
  <2>3. h < Len(sv) /\ \A n \in DOMAIN gr : n # Len(gr) => gr[n] < h
    <3>1. Len(gr) \in DOMAIN gr /\ \A n \in DOMAIN gr : n # Len(gr) => n < Len(gr)
      BY <2>1
    <3> QED BY <3>1 DEF Boundaries
  <2>4. Len(outer) = Len(gr) - 1 /\ Len(sv) \in Nat
    OBVIOUS
  <2>5. h \in Nat /\ \A n \in DOMAIN gr : gr[n] <= h
    <3>1. Len(gr) \in DOMAIN gr
      BY <2>1
    <3> QED BY ONLY <3>1, <2>2, <2>3 DEF h
  <2> QED BY ONLY <2>1, <2>2, <2>3, <2>4, <2>5
<1>2. Top \in Nat /\ Top \in Spots(sv, p, a)
      /\ \A i \in Spots(sv, p, a) : i \in Nat /\ i <= Top /\ (i # Top => i <= Len(sv))
  BY <1>1, SpotsBelow
<1>2a. h < Top
  BY <1>1, SlotAssumption DEF Top
<1>3. Spots(low, p, a) = {i \in Spots(sv, p, a) : i <= h} \cup {Top}
  BY <1>1, SpotsLow
<1>4. \A i \in Spots(low, p, a) : i # Top => Entry(low, e, i) = Entry(sv, c, i)
  BY DEF Entry, Spots
<1>5. Entry(low, e, Top) = e /\ e \in Places /\ e.l \in Nat /\ e.l >= 1
  BY EntryType, PlaceLevel DEF Entry
<1>6. \A i \in Nat, n \in Nat : i <= h /\ InGroup(gr, i, n) => n < Len(gr) /\ InGroup(outer, i, n)
  <2> SUFFICES ASSUME NEW i \in Nat, NEW n \in Nat, i <= h, InGroup(gr, i, n)
               PROVE  n < Len(gr) /\ InGroup(outer, i, n)
    OBVIOUS
  <2>1. n \in 1..Len(gr) /\ gr[n] + 1 < i /\ (n < Len(gr) => i <= gr[n + 1])
    BY <1>1 DEF InGroup
  <2>2. n # Len(gr)
    BY <2>1, <1>1
  <2>3. n \in 1..(Len(gr) - 1) /\ n < Len(gr) /\ (n < Len(gr) - 1 => n + 1 \in 1..(Len(gr) - 1))
    <3>1. Len(gr) \in Nat /\ n \in 1..Len(gr) /\ n # Len(gr)
      BY <2>1, <2>2
    <3> QED BY ONLY <3>1, SMT
  <2>4. n \in DOMAIN outer /\ (n < Len(outer) => n + 1 \in DOMAIN outer)
    BY <2>3, <1>1
  <2>5. outer[n] = gr[n] /\ (n < Len(outer) => outer[n + 1] = gr[n + 1])
    BY <2>4
  <2> QED BY <2>1, <2>3, <2>4, <2>5 DEF InGroup
<1> HIDE DEF h
<1>7. ASSUME NEW i \in Spots(low, p, a)
      PROVE  /\ i # Top => \E n \in DOMAIN outer : InGroup(outer, i, n) /\ Entry(low, e, i).l <= n
             /\ Entry(low, e, i).l > LevelOne =>
                 /\ \E k \in Spots(low, p, a) : k < i /\ InGroup(outer, k, Entry(low, e, i).l - 1)
                 /\ Entry(low, e, i).l <= Len(outer) =>
                      \A k \in Spots(low, p, a) : k < i => k <= outer[Entry(low, e, i).l]
  <2>1. CASE i # Top
    <3> DEFINE l == Entry(sv, c, i).l
    <3>1. i \in Spots(sv, p, a) /\ i \in Nat /\ i <= h /\ Entry(low, e, i).l = l
      BY <2>1, <1>2, <1>3, <1>4
    <3>2. l \in Nat /\ l >= 1
      BY <3>1, EntryType, PlaceLevel
    <3>3. /\ \E n \in DOMAIN gr : InGroup(gr, i, n) /\ l <= n
          /\ l > LevelOne =>
             /\ \E k \in Spots(sv, p, a) : k < i /\ InGroup(gr, k, l - 1)
             /\ l <= Len(gr) => \A k \in Spots(sv, p, a) : k < i => k <= gr[l]
      BY <2>1, <3>1 DEF Chain
    <3> HIDE DEF l
    <3>4. \A k \in Spots(sv, p, a) : k < i => k \in Spots(low, p, a) /\ k \in Nat /\ k <= h
      BY <3>1, <1>1, <1>2, <1>3
    <3>5. \E n \in DOMAIN outer : InGroup(outer, i, n) /\ l <= n
      BY <3>1, <3>3, <1>1, <1>6
    <3>6. l > 1 => \E k \in Spots(low, p, a) : k < i /\ InGroup(outer, k, l - 1)
      BY <3>2, <3>3, <3>4, <1>6
    <3>7. ASSUME l > 1, l <= Len(outer), NEW k \in Spots(low, p, a), k < i PROVE k <= outer[l]
      <4>1. k \in Spots(sv, p, a)
        BY <3>7, <1>2, <1>3
      <4>2. l \in DOMAIN outer /\ l <= Len(gr)
        BY <3>7, <3>2, <1>1
      <4>3. k <= gr[l]
        BY <4>1, <4>2, <3>7, <3>3
      <4> QED BY <4>2, <4>3
    <3> QED BY <3>1, <3>5, <3>6, <3>7
  <2>2. CASE i = Top
    <3>1. /\ e.l > LevelOne =>
             /\ \E k \in Spots(sv, p, a) : k < j /\ InGroup(gr, k, e.l - 1)
             /\ e.l <= Len(gr) => \A k \in Spots(sv, p, a) : k < j => k <= gr[e.l]
      BY DEF Chain
    <3>2. ASSUME e.l > 1
          PROVE  \E k \in Spots(low, p, a) : k < Top /\ InGroup(outer, k, e.l - 1)
      <4>1. PICK k \in Spots(sv, p, a) : k < j /\ InGroup(gr, k, e.l - 1)
        BY <3>1, <3>2
      <4>2. k \in Nat /\ k <= gr[e.l] /\ e.l \in DOMAIN gr
        <5>1. k <= gr[e.l]
          BY <4>1, <3>1, <3>2
        <5>2. k \in Nat
          BY ONLY <4>1, <1>2
        <5>3. e.l \in DOMAIN gr
          BY ONLY <1>1, <1>5, <3>2, e.l <= Len(gr)
        <5> QED BY ONLY <5>1, <5>2, <5>3
      <4>3. k <= h
        <5>1. gr[e.l] \in Nat /\ gr[e.l] <= h /\ h \in Nat
          BY ONLY <4>2, <1>1
        <5> QED BY ONLY <4>2, <5>1
      <4>4. k \in Spots(low, p, a) /\ k < Top
        <5>1. h \in Nat /\ Top \in Nat
          BY ONLY <1>1, <1>2
        <5>2. k < Top
          BY ONLY <4>2, <4>3, <5>1, <1>2a
        <5> QED BY ONLY <4>1, <4>3, <5>2, <1>3
      <4>5. e.l - 1 \in Nat
        BY <1>5, <3>2
      <4>6. InGroup(outer, k, e.l - 1)
        BY ONLY <4>1, <4>2, <4>3, <4>5, <1>6
      <4> QED BY <4>4, <4>6
    <3>3. ASSUME e.l > 1, e.l <= Len(outer), NEW k \in Spots(low, p, a), k < Top
          PROVE  k <= outer[e.l]
      <4>1. k \in Spots(sv, p, a) /\ k \in Nat /\ k <= h
        BY <3>3, <1>2, <1>3
      <4>2. k < j
        BY <4>1, <1>1, <1>2 DEF h
      <4>3. e.l \in DOMAIN outer
        BY <3>3, <1>1, <1>5
      <4>4. k <= gr[e.l]
        BY <4>1, <4>2, <3>1, <3>3
      <4> QED BY <4>3, <4>4
    <3> QED BY <2>2, <3>2, <3>3, <1>5
  <2> QED BY <2>1, <2>2
<1> QED BY <1>7 DEF Chain

-----------------------------------------------------------------------------
(* The end of a group *)

\* One item is popped.
Popped(item, st) == IF IsOther(item) THEN Restore(item, st) ELSE st

(* The loop that pops the items does one item at a time, from the top.     *)
LEMMA UndoneStep ==
    ASSUME NEW st, NEW items, Len(items) \in Nat
    PROVE  /\ Undone(st, items)[0] = st
           /\ \A k \in 1..Len(items) :
                Undone(st, items)[k] = Popped(items[Len(items) - k + 1], Undone(st, items)[k - 1])
<1> DEFINE n == Len(items)
           Do(k, v) == Popped(items[n - k + 1], v)
           Rec(f, m) == f = [k \in 0..m |-> IF k = 0 THEN st ELSE Do(k, f[k - 1])]
           S == {m \in Nat : \E f : Rec(f, m)}
<1> HIDE DEF Do
<1>1. 0 \in S
  <2>1. Rec([k \in 0..0 |-> st], 0)
    OBVIOUS
  <2> QED BY <2>1
<1>2. ASSUME NEW m \in 0..(n - 1), m \in S PROVE m + 1 \in S
  <2>1. PICK f : Rec(f, m)
    BY <1>2
  <2> DEFINE g == [k \in 0..(m + 1) |-> IF k = m + 1 THEN Do(k, f[k - 1]) ELSE f[k]]
  <2>2. \A k \in 0..m : g[k] = f[k]
    OBVIOUS
  <2>3. \A k \in 0..m : f[k] = IF k = 0 THEN st ELSE Do(k, f[k - 1])
    BY <2>1
  <2>4. \A k \in 0..(m + 1) : g[k] = IF k = 0 THEN st ELSE Do(k, g[k - 1])
    <3> TAKE k \in 0..(m + 1)
    <3>1. CASE k = m + 1
      BY <3>1, <2>2
    <3>2. CASE k # m + 1
      <4>1. k \in 0..m /\ (k # 0 => k - 1 \in 0..m)
        BY <3>2
      <4> HIDE DEF g
      <4> QED BY <4>1, <2>2, <2>3
    <3> QED BY <3>1, <3>2
  <2>5. Rec(g, m + 1)
    BY <2>4
  <2> HIDE DEF g, Rec
  <2> QED BY <2>5
<1>3. n \in S
  <2> HIDE DEF S
  <2>1. 0..n \subseteq S
    BY <1>1, <1>2, UpTo
  <2> QED BY <2>1
<1>4. \E f : Rec(f, n)
  BY <1>3
<1>5. Undone(st, items) = CHOOSE h : Rec(h, n)
  BY DEF Undone, Do, Popped
<1>6. Rec(Undone(st, items), n)
  BY <1>4, <1>5
<1>7. /\ Undone(st, items)[0] = st
      /\ \A k \in 1..n : Undone(st, items)[k] = Do(k, Undone(st, items)[k - 1])
  <2> DEFINE u == Undone(st, items)
  <2>1. \A k \in 0..n : u[k] = IF k = 0 THEN st ELSE Do(k, u[k - 1])
    BY <1>6
  <2> HIDE DEF u
  <2> QED BY <2>1 DEF u
<1> QED BY <1>7 DEF Do

(* So does the collection of tokens, from the bottom.                      *)
LEMMA CollectedStep ==
    ASSUME NEW items, Len(items) \in Nat
    PROVE  /\ Collected(items)[0] = <<>>
           /\ \A k \in 1..Len(items) :
                Collected(items)[k] =
                    IF IsAfter(items[k]) THEN Append(Collected(items)[k - 1], items[k].token)
                    ELSE Collected(items)[k - 1]
<1> DEFINE n == Len(items)
           Do(k, v) == IF IsAfter(items[k]) THEN Append(v, items[k].token) ELSE v
           Rec(f, m) == f = [k \in 0..m |-> IF k = 0 THEN <<>> ELSE Do(k, f[k - 1])]
           S == {m \in Nat : \E f : Rec(f, m)}
<1> HIDE DEF Do
<1>1. 0 \in S
  <2>1. Rec([k \in 0..0 |-> <<>>], 0)
    OBVIOUS
  <2> QED BY <2>1
<1>2. ASSUME NEW m \in 0..(n - 1), m \in S PROVE m + 1 \in S
  <2>1. PICK f : Rec(f, m)
    BY <1>2
  <2> DEFINE g == [k \in 0..(m + 1) |-> IF k = m + 1 THEN Do(k, f[k - 1]) ELSE f[k]]
  <2>2. \A k \in 0..m : g[k] = f[k]
    OBVIOUS
  <2>3. \A k \in 0..m : f[k] = IF k = 0 THEN <<>> ELSE Do(k, f[k - 1])
    BY <2>1
  <2>4. \A k \in 0..(m + 1) : g[k] = IF k = 0 THEN <<>> ELSE Do(k, g[k - 1])
    <3> TAKE k \in 0..(m + 1)
    <3>1. CASE k = m + 1
      BY <3>1, <2>2
    <3>2. CASE k # m + 1
      <4>1. k \in 0..m /\ (k # 0 => k - 1 \in 0..m)
        BY <3>2
      <4> HIDE DEF g
      <4> QED BY <4>1, <2>2, <2>3
    <3> QED BY <3>1, <3>2
  <2>5. Rec(g, m + 1)
    BY <2>4
  <2> HIDE DEF g, Rec
  <2> QED BY <2>5
<1>3. n \in S
  <2> HIDE DEF S
  <2>1. 0..n \subseteq S
    BY <1>1, <1>2, UpTo
  <2> QED BY <2>1
<1>4. \E f : Rec(f, n)
  BY <1>3
<1>5. Collected(items) = CHOOSE h : Rec(h, n)
  BY DEF Collected, Do
<1>6. Rec(Collected(items), n)
  BY <1>4, <1>5
<1>7. /\ Collected(items)[0] = <<>>
      /\ \A k \in 1..n : Collected(items)[k] = Do(k, Collected(items)[k - 1])
  <2> DEFINE u == Collected(items)
  <2>1. \A k \in 0..n : u[k] = IF k = 0 THEN <<>> ELSE Do(k, u[k - 1])
    BY <1>6
  <2> HIDE DEF u
  <2> QED BY <2>1 DEF u
<1> QED BY <1>7 DEF Do

(* The tokens of \aftergroup among items of the stack are tokens.          *)
LEMMA AfterType ==
    ASSUME NEW items \in Seq(SaveItems)
    PROVE  AfterTokens(items) \in Seq(Tokens)
<1> DEFINE n == Len(items)
           S == {k \in 0..n : Collected(items)[k] \in Seq(Tokens)}
<1>1. n \in Nat /\ \A k \in 1..n : items[k] \in SaveItems
  OBVIOUS
<1>2. 0 \in S
  <2>1. Collected(items)[0] = <<>>
    BY <1>1, CollectedStep
  <2>2. 0 \in 0..n /\ <<>> \in Seq(Tokens)
    BY <1>1
  <2> QED BY <2>1, <2>2
<1>3. ASSUME NEW k \in 0..(n - 1), k \in S PROVE k + 1 \in S
  <2>1. k + 1 \in 1..n /\ k + 1 \in 0..n /\ (k + 1) - 1 = k
    BY <1>1
  <2>2. Collected(items)[k + 1] = IF IsAfter(items[k + 1])
                                  THEN Append(Collected(items)[k], items[k + 1].token)
                                  ELSE Collected(items)[k]
    BY <2>1, <1>1, CollectedStep
  <2>3. IsAfter(items[k + 1]) => items[k + 1].token \in Tokens
    BY <2>1, <1>1 DEF IsAfter, SaveItems, Parts
  <2>4. Collected(items)[k] \in Seq(Tokens)
    BY <1>3
  <2>5. Collected(items)[k + 1] \in Seq(Tokens)
    BY <2>2, <2>3, <2>4
  <2> QED BY <2>1, <2>5
<1> HIDE DEF S
<1>4. 0..n \subseteq S
  BY <1>1, <1>2, <1>3, UpTo
<1>5. n \in S
  BY <1>1, <1>4
<1> QED BY <1>5 DEF S, AfterTokens

(* A further item is collected last.                                       *)
LEMMA AfterAppend ==
    ASSUME NEW items \in Seq(SaveItems), NEW x \in SaveItems
    PROVE  AfterTokens(Append(items, x)) =
              IF IsAfter(x) THEN Append(AfterTokens(items), x.token) ELSE AfterTokens(items)
<1> DEFINE n == Len(items)
           more == Append(items, x)
           S == {k \in 0..n : Collected(more)[k] = Collected(items)[k]}
<1>1. n \in Nat /\ Len(more) = n + 1 /\ more[n + 1] = x /\ \A k \in 1..n : more[k] = items[k]
  OBVIOUS
<1> HIDE DEF more
<1>2. Len(more) \in Nat /\ Len(items) \in Nat
  BY <1>1
<1>3. 0 \in S
  <2>1. Collected(items)[0] = <<>> /\ Collected(more)[0] = <<>>
    BY <1>2, CollectedStep
  <2> QED BY <2>1, <1>1
<1>4. ASSUME NEW k \in 0..(n - 1), k \in S PROVE k + 1 \in S
  <2>1. k + 1 \in 1..n /\ k + 1 \in 0..n /\ (k + 1) - 1 = k /\ k + 1 \in 1..Len(more)
    BY <1>1
  <2>2. Collected(items)[k + 1] = IF IsAfter(items[k + 1])
                                  THEN Append(Collected(items)[k], items[k + 1].token)
                                  ELSE Collected(items)[k]
    BY <2>1, <1>1, CollectedStep
  <2>3. Collected(more)[k + 1] = IF IsAfter(more[k + 1])
                                 THEN Append(Collected(more)[k], more[k + 1].token)
                                 ELSE Collected(more)[k]
    BY <2>1, <1>2, CollectedStep
  <2> QED BY <2>1, <2>2, <2>3, <1>1, <1>4
<1> HIDE DEF S
<1>5. 0..n \subseteq S
  BY <1>1, <1>3, <1>4, UpTo
<1>6. Collected(more)[n] = Collected(items)[n]
  BY <1>1, <1>5 DEF S
<1>7. Collected(more)[n + 1] = IF IsAfter(x) THEN Append(Collected(more)[n], x.token)
                               ELSE Collected(more)[n]
  <2>1. n + 1 \in 1..Len(more) /\ (n + 1) - 1 = n
    BY <1>1
  <2> QED BY <2>1, <1>1, <1>2, CollectedStep
<1> QED BY <1>1, <1>6, <1>7 DEF AfterTokens, more

(* No items, no tokens.                                                    *)
LEMMA AfterNone == AfterTokens(<<>>) = <<>>
<1>1. Len(<<>>) = 0
  OBVIOUS
<1> QED BY <1>1, CollectedStep DEF AfterTokens

\* The entry e is what a cell holds when the items above h are popped, in the innermost
\* group: the entries above e are of this group, and so is e if there is one below it.
Left(sv, c, gr, p, a, e, h) ==
    \E j \in Spots(sv, p, a) :
        /\ j > h /\ e = Entry(sv, c, j)
        /\ \A i \in Spots(sv, p, a) : i > j => Entry(sv, c, i).l > Len(gr)
        /\ e.l > LevelOne => \A i \in Spots(sv, p, a) : i < j => i <= h

(* Popping the items of a group one by one, seen from one cell.            *)
LEMMA LeftStep ==
    ASSUME NEW sv \in Seq(SaveItems), Len(sv) <= MaxSaveStack + 2,
           NEW p \in Parts, NEW a \in Slots, NEW c \in Places,
           NEW gr \in Seq(Nat), gr # <<>>, Boundaries(sv, gr), Chain(sv, c, gr, p, a),
           c.l <= Len(gr) + 1
    PROVE  /\ Left(sv, c, gr, p, a, c, Len(sv))
           /\ \A e, q : /\ q \in 1..Len(sv) /\ q > gr[Len(gr)] + 1
                        /\ Left(sv, c, gr, p, a, e, q)
                        => /\ e \in Places
                           /\ q \notin Spots(sv, p, a) => Left(sv, c, gr, p, a, e, q - 1)
                           /\ q \in Spots(sv, p, a) /\ ~(e.l > LevelOne) =>
                                Left(sv, c, gr, p, a, e, q - 1)
                           /\ q \in Spots(sv, p, a) /\ e.l > LevelOne =>
                                Left(sv, c, gr, p, a, sv[q].old, q - 1)
           /\ \A e : Left(sv, c, gr, p, a, e, gr[Len(gr)] + 1) => e \in Places /\ e.l <= Len(gr)
<1> DEFINE h == gr[Len(gr)]
           T == Spots(sv, p, a)
<1>1. /\ Len(gr) \in Nat \ {0} /\ Len(gr) \in DOMAIN gr /\ h \in Nat /\ Len(sv) \in Nat /\ h < Len(sv)
      /\ DOMAIN gr = 1..Len(gr)
      /\ \A n \in DOMAIN gr : gr[n] \in Nat /\ gr[n] <= h
  <2>1. /\ Len(gr) \in Nat \ {0} /\ Len(gr) \in DOMAIN gr /\ DOMAIN gr = 1..Len(gr)
        /\ \A n \in DOMAIN gr : gr[n] \in Nat /\ (n # Len(gr) => n < Len(gr))
    OBVIOUS
  <2>2. h < Len(sv) /\ \A n \in DOMAIN gr : n # Len(gr) => gr[n] < h
    BY <2>1 DEF Boundaries
  <2> QED BY <2>1, <2>2
<1>2. Top \in Nat /\ Top \in T /\ Top > Len(sv)
      /\ \A i \in T : i \in Nat /\ i <= Top /\ (i # Top => i <= Len(sv))
  BY <1>1, SpotsBelow, SlotAssumption DEF Top
<1>3. \A i \in T : Entry(sv, c, i) \in Places /\ Entry(sv, c, i).l \in Nat /\ Entry(sv, c, i).l >= 1
  BY EntryType, PlaceLevel
<1>4. ASSUME NEW j \in T, NEW q \in T, q < j, q > h + 1, Entry(sv, c, j).l > 1
      PROVE  Entry(sv, c, j).l > Len(gr)
  <2>1. Entry(sv, c, j).l <= Len(gr) => q <= gr[Entry(sv, c, j).l]
    BY <1>4 DEF Chain
  <2>2. Entry(sv, c, j).l <= Len(gr) => Entry(sv, c, j).l \in DOMAIN gr
    BY <1>1, <1>3
  <2>3. Entry(sv, c, j).l <= Len(gr) => q <= h
    BY <2>1, <2>2, <1>1, <1>2
  <2> QED BY <2>3, <1>1, <1>2, <1>3, <1>4
<1> HIDE DEF T, h
<1>5. Left(sv, c, gr, p, a, c, Len(sv))
  BY <1>1, <1>2 DEF Left, Entry, T
<1>6. ASSUME NEW e, NEW q \in 1..Len(sv), q > h + 1, Left(sv, c, gr, p, a, e, q)
      PROVE  /\ e \in Places
             /\ q \notin T => Left(sv, c, gr, p, a, e, q - 1)
             /\ q \in T /\ ~(e.l > LevelOne) => Left(sv, c, gr, p, a, e, q - 1)
             /\ q \in T /\ e.l > LevelOne => Left(sv, c, gr, p, a, sv[q].old, q - 1)
  <2>1. PICK j \in T : /\ j > q /\ e = Entry(sv, c, j)
                       /\ \A i \in T : i > j => Entry(sv, c, i).l > Len(gr)
                       /\ e.l > LevelOne => \A i \in T : i < j => i <= q
    BY <1>6 DEF Left, T
  <2>2. q \in Nat /\ j \in Nat /\ q # Top /\ Entry(sv, c, q) = sv[q].old
    BY <1>1, <1>2 DEF Entry
  <2>3. q \notin T => Left(sv, c, gr, p, a, e, q - 1)
    <3> SUFFICES ASSUME q \notin T PROVE Left(sv, c, gr, p, a, e, q - 1)
      OBVIOUS
    <3>1. e.l > 1 => \A i \in T : i < j => i <= q - 1
      BY <2>1, <2>2, <1>2
    <3>2. j > q - 1
      BY <2>1, <2>2
    <3> QED BY <3>1, <3>2, <2>1 DEF Left, T
  <2>4. ~(e.l > LevelOne) => Left(sv, c, gr, p, a, e, q - 1)
    <3>2. j > q - 1
      BY <2>1, <2>2
    <3> QED BY <3>2, <2>1 DEF Left, T
  <2>5. ASSUME q \in T, e.l > LevelOne PROVE Left(sv, c, gr, p, a, sv[q].old, q - 1)
    <3>1. e.l > Len(gr)
      BY <1>4, <1>6, <2>1, <2>2, <2>5
    <3>2. ASSUME NEW i \in T, i > q PROVE Entry(sv, c, i).l > Len(gr)
      <4>1. i >= j
        BY <2>1, <2>2, <2>5, <3>2, <1>2
      <4> QED BY <4>1, <3>1, <2>1, <2>2, <1>2
    <3>3. \A i \in T : i < q => i <= q - 1
      BY <2>2, <1>2
    <3>4. q > q - 1
      BY <2>2
    <3> QED BY <2>2, <2>5, <3>2, <3>3, <3>4 DEF Left, T
  <2> QED BY <2>1, <2>3, <2>4, <2>5, <1>3
<1>7. ASSUME NEW e, Left(sv, c, gr, p, a, e, h + 1) PROVE e \in Places /\ e.l <= Len(gr)
  <2>1. PICK j \in T : /\ j > h + 1 /\ e = Entry(sv, c, j)
                       /\ e.l > LevelOne => \A i \in T : i < j => i <= h + 1
    BY <1>7 DEF Left, T
  <2>2. e.l <= Len(gr) + 1
    <3>1. j # Top => \E n \in DOMAIN gr : e.l <= n
      BY <2>1 DEF Chain, T
    <3>2. j = Top => e = c
      BY <2>1 DEF Entry
    <3> QED BY <2>1, <3>1, <3>2, <1>1, <1>3
  <2>3. ASSUME e.l = Len(gr) + 1 PROVE FALSE
    <3>1. e.l > 1 /\ e.l - 1 = Len(gr)
      BY <2>3, <1>1
    <3>2. PICK i \in T : i < j /\ InGroup(gr, i, e.l - 1)
      BY <2>1, <3>1 DEF Chain, T
    <3>3. h + 1 < i /\ i <= h + 1 /\ i \in Nat
      BY <3>1, <3>2, <2>1, <1>2 DEF InGroup, h
    <3> QED BY <3>3, <1>1
  <2> QED BY <2>1, <2>2, <2>3, <1>1, <1>3
<1> QED BY <1>5, <1>6, <1>7 DEF T, h

(* The items above a boundary.                                             *)
LEMMA TailOf ==
    ASSUME NEW S, NEW sv \in Seq(S), NEW h \in Nat, h < Len(sv)
    PROVE  /\ SubSeq(sv, h + 2, Len(sv)) \in Seq(S)
           /\ Len(sv) - h - 1 \in Nat /\ Len(SubSeq(sv, h + 2, Len(sv))) = Len(sv) - h - 1
           /\ \A k \in 1..(Len(sv) - h - 1) : SubSeq(sv, h + 2, Len(sv))[k] = sv[h + 1 + k]
<1>1. SubSeq(sv, h + 2, Len(sv)) \in Seq(S)
  OBVIOUS
<1>2. Len(sv) - h - 1 \in Nat /\ Len(SubSeq(sv, h + 2, Len(sv))) = Len(sv) - h - 1
  OBVIOUS
<1>3. ASSUME NEW k \in 1..(Len(sv) - h - 1)
      PROVE  SubSeq(sv, h + 2, Len(sv))[k] = sv[h + 1 + k]
  <2>1. Len(sv) \in Nat /\ k \in Nat
    OBVIOUS
  <2>2. SubSeq(sv, h + 2, Len(sv))[k] = sv[h + 2 + k - 1]
    BY <2>1
  <2>3. h + 2 + k - 1 = h + 1 + k
    BY <2>1
  <2> QED BY <2>2, <2>3
<1> QED BY <1>1, <1>2, <1>3

\* The stack sv of the groups gr, and tables st whose values it will restore
Stacked(sv, gr, st) ==
    /\ sv \in Seq(SaveItems) /\ Len(sv) <= MaxSaveStack + 2
    /\ gr \in Seq(Nat) /\ Boundaries(sv, gr)
    /\ {i \in DOMAIN sv : sv[i].part = "level"} = {gr[n] + 1 : n \in DOMAIN gr}
    /\ \A n \in DOMAIN gr : sv[gr[n] + 1].level = n + 1
    /\ Len(gr) + 1 <= MaxGroupLevel
    /\ st \in [Parts -> [Slots -> Places]]
    /\ \A p \in Parts, a \in Slots :
         /\ Chain(sv, st[p][a], gr, p, a) /\ st[p][a].l <= Len(gr) + 1
         /\ p = "sparse" /\ Kind(a) = "parshape" => Spots(sv, p, a) = {Top}

\* The entry e of the innermost group belongs to a level outside it, and except for
\* \parshape it is the highest one of these.
Uncovered(sv, c, gr, p, a, e) ==
    \E j \in Spots(sv, p, a) :
        /\ j > gr[Len(gr)] + 1
        /\ e = Entry(sv, c, j) /\ e.l <= Len(gr)
        /\ Kind(a) # "parshape" =>
             \A i \in Spots(sv, p, a) : i > j => Entry(sv, c, i).l > Len(gr)

(* What the end of a group makes of a cell.                                *)
LEMMA UnsaveCell ==
    ASSUME NEW sv, NEW gr, NEW st, Stacked(sv, gr, st), gr # <<>>,
           NEW items, items = SubSeq(sv, gr[Len(gr)] + 2, Len(sv))
    PROVE  /\ Unsave(st, items) \in [Parts -> [Slots -> Places]]
           /\ \A p \in Parts, a \in Slots :
                Uncovered(sv, st[p][a], gr, p, a, Unsave(st, items)[p][a])
<1> DEFINE h == gr[Len(gr)]
           n == Len(sv) - h - 1
           U == Undone(st, items)
           Is(p, a, e, q) == Left(sv, st[p][a], gr, p, a, e, q)
<1>0. /\ sv \in Seq(SaveItems) /\ Len(sv) <= MaxSaveStack + 2
      /\ gr \in Seq(Nat) /\ Boundaries(sv, gr)
      /\ {i \in DOMAIN sv : sv[i].part = "level"} = {gr[m] + 1 : m \in DOMAIN gr}
      /\ st \in [Parts -> [Slots -> Places]]
      /\ \A p \in Parts, a \in Slots :
           /\ Chain(sv, st[p][a], gr, p, a) /\ st[p][a].l <= Len(gr) + 1
           /\ p = "sparse" /\ Kind(a) = "parshape" => Spots(sv, p, a) = {Top}
  BY DEF Stacked
<1>1. /\ Len(gr) \in Nat \ {0} /\ Len(gr) \in DOMAIN gr /\ h \in Nat /\ Len(sv) \in Nat /\ h < Len(sv)
      /\ DOMAIN sv = 1..Len(sv) /\ DOMAIN gr = 1..Len(gr)
      /\ \A m \in DOMAIN gr : gr[m] \in Nat /\ gr[m] <= h
  <2>1. /\ Len(gr) \in Nat \ {0} /\ Len(gr) \in DOMAIN gr /\ DOMAIN gr = 1..Len(gr)
        /\ \A m \in DOMAIN gr : gr[m] \in Nat /\ (m # Len(gr) => m < Len(gr))
    BY <1>0
  <2>2. h < Len(sv) /\ \A m \in DOMAIN gr : m # Len(gr) => gr[m] < h
    BY <2>1, <1>0 DEF Boundaries
  <2> QED BY <2>1, <2>2, <1>0, SMTT(60)
<1>2. n \in Nat /\ Len(items) = n /\ DOMAIN items = 1..n /\ \A k \in 1..n : items[k] = sv[h + 1 + k]
  <2>1. items = SubSeq(sv, h + 2, Len(sv))
    OBVIOUS
  <2> HIDE DEF h
  <2>2. items \in Seq(SaveItems) /\ Len(items) = n /\ n \in Nat
    <3>1. sv \in Seq(SaveItems) /\ h \in Nat /\ h < Len(sv)
      BY <1>0, <1>1
    <3> QED BY <2>1, <3>1, TailOf
  <2>3. \A k \in 1..n : items[k] = sv[h + 1 + k]
    <3>1. sv \in Seq(SaveItems) /\ h \in Nat /\ h < Len(sv)
      BY <1>0, <1>1
    <3>2. \A k \in 1..(Len(sv) - h - 1) : SubSeq(sv, h + 2, Len(sv))[k] = sv[h + 1 + k]
      BY ONLY <3>1, TailOf
    <3> QED BY <2>1, <3>2
  <2> HIDE DEF n
  <2> QED BY <2>2, <2>3
<1>3. /\ U[0] = st
      /\ \A k \in 1..n : U[k] = Popped(items[n - k + 1], U[k - 1])
  <2>1. Len(items) \in Nat
    BY <1>2
  <2>2. Len(items) = n
    BY <1>2
  <2>3. Undone(st, items)[0] = st
    BY ONLY <2>1, UndoneStep
  <2>3a. \A k \in 1..Len(items) :
            Undone(st, items)[k] = Popped(items[Len(items) - k + 1], Undone(st, items)[k - 1])
    BY ONLY <2>1, UndoneStep
  <2> HIDE DEF n, U
  <2>4. U = Undone(st, items)
    BY DEF U
  <2> QED BY <2>2, <2>3, <2>3a, <2>4
<1> HIDE DEF U, n, h
<1>4. /\ Top \in Nat /\ Top > Len(sv)
      /\ \A p \in Parts, a \in Slots : \A i \in Spots(sv, p, a) : i # Top => i \in 1..Len(sv)
  <2>1. Top \in Nat /\ Top > Len(sv)
    BY <1>0, <1>1, SlotAssumption DEF Top
  <2> QED BY <2>1, <1>0, <1>1, SpotsBelow
<1>5. \A p \in Parts, a \in Slots : st[p][a] \in Places
  BY <1>0
<1>6. \A p \in Parts, a \in Slots :
         /\ Is(p, a, st[p][a], Len(sv))
         /\ \A e, q : q \in 1..Len(sv) /\ q > h + 1 /\ Is(p, a, e, q) =>
              /\ e \in Places
              /\ q \notin Spots(sv, p, a) => Is(p, a, e, q - 1)
              /\ q \in Spots(sv, p, a) /\ ~(e.l > LevelOne) => Is(p, a, e, q - 1)
              /\ q \in Spots(sv, p, a) /\ e.l > LevelOne => Is(p, a, sv[q].old, q - 1)
         /\ \A e : Is(p, a, e, h + 1) => e \in Places /\ e.l <= Len(gr)
  BY <1>0, <1>5, LeftStep DEF h
<1> HIDE DEF Is
<1>7. ASSUME NEW q \in 1..Len(sv), q > h + 1
      PROVE  /\ sv[q] \in SaveItems /\ sv[q].part # "level"
             /\ sv[q].part # "after" => sv[q] \in [part : Parts, slot : Slots, old : Places]
             /\ \A p \in Parts, a \in Slots :
                  q \in Spots(sv, p, a) <=> sv[q].part = p /\ sv[q].slot = a
  <2>1. sv[q] \in SaveItems
    BY <1>0
  <2>2. sv[q].part # "level"
    <3> SUFFICES ASSUME sv[q].part = "level" PROVE FALSE
      OBVIOUS
    <3>1. q \in {gr[m] + 1 : m \in DOMAIN gr}
      BY <1>0, <1>1
    <3> QED BY <3>1, <1>1, <1>7
  <2>3. q # Top
    BY <1>1, <1>4
  <2>4. sv[q].part # "after" => sv[q] \in [part : Parts, slot : Slots, old : Places]
    BY <2>1, <2>2 DEF SaveItems
  <2> QED BY <2>1, <2>2, <2>3, <2>4 DEF Spots
<1> DEFINE Good(k) ==
      /\ U[k] \in [Parts -> [Slots -> Places]]
      /\ \A p \in Parts, a \in Slots : IF Kind(a) = "parshape" THEN U[k][p][a] = st[p][a]
                                       ELSE Is(p, a, U[k][p][a], Len(sv) - k)
<1>8. Good(0)
  BY <1>0, <1>1, <1>3, <1>6
<1>9. ASSUME NEW k \in 0..(n - 1), Good(k) PROVE Good(k + 1)
  <2> DEFINE q == Len(sv) - k
             x == sv[q]
  <2>1. q \in 1..Len(sv) /\ q > h + 1 /\ q - 1 = Len(sv) - (k + 1) /\ x = items[n - (k + 1) + 1]
    <3>1. n = Len(sv) - h - 1
      BY DEF n
    <3>2. q \in 1..Len(sv) /\ q > h + 1 /\ q - 1 = Len(sv) - (k + 1)
      BY <3>1, <1>1
    <3>3. n - (k + 1) + 1 \in 1..n /\ h + 1 + (n - (k + 1) + 1) = q
      BY <3>1, <1>1, <1>2
    <3>4. items[n - (k + 1) + 1] = sv[h + 1 + (n - (k + 1) + 1)]
      BY <3>3, <1>2
    <3> QED BY <3>2, <3>3, <3>4
  <2>2. U[k + 1] = IF IsOther(x) THEN Restore(x, U[k]) ELSE U[k]
    <3>1. k + 1 \in 1..n /\ (k + 1) - 1 = k
      BY <1>2
    <3> HIDE DEF x
    <3> QED BY <3>1, <2>1, <1>3 DEF Popped
  <2>3. /\ x \in SaveItems /\ x.part # "level"
        /\ x.part # "after" => x \in [part : Parts, slot : Slots, old : Places]
        /\ \A p \in Parts, a \in Slots : q \in Spots(sv, p, a) <=> x.part = p /\ x.slot = a
    BY <2>1, <1>7
  <2>3a. "after" \notin Parts
    BY DEF Parts
  <2> HIDE DEF q, x
  <2>4. CASE ~IsOther(x)
    <3>1. U[k + 1] = U[k]
      BY <2>2, <2>4
    <3>2. \A p \in Parts, a \in Slots : Kind(a) # "parshape" => q \notin Spots(sv, p, a)
      BY <2>3, <2>3a, <2>4 DEF IsOther, IsAfter, IsParShape
    <3>3. \A p \in Parts, a \in Slots :
             IF Kind(a) = "parshape" THEN U[k][p][a] = st[p][a]
             ELSE Is(p, a, U[k][p][a], q)
      BY <1>9 DEF q
    <3> QED BY <3>1, <3>2, <3>3, <2>1, <1>6, <1>9
  <2>5. CASE IsOther(x)
    <3>1. x \in [part : Parts, slot : Slots, old : Places] /\ Kind(x.slot) # "parshape"
      BY <2>3, <2>5 DEF IsOther, IsAfter, IsParShape
    <3>2. x.part \in Parts /\ x.slot \in Slots /\ x.old \in Places
      BY <3>1
    <3>3. \A p \in Parts, a \in Slots :
             IF Kind(a) = "parshape" THEN U[k][p][a] = st[p][a]
             ELSE Is(p, a, U[k][p][a], q)
      BY <1>9 DEF q
    <3>4. CASE U[k][x.part][x.slot].l > LevelOne
      <4>1. U[k + 1] = [U[k] EXCEPT ![x.part][x.slot] = x.old]
        BY <2>2, <2>5, <3>4 DEF Restore
      <4>2. U[k + 1] \in [Parts -> [Slots -> Places]]
        BY <4>1, <3>2, <1>9
      <4>3. U[k + 1][x.part][x.slot] = x.old
        BY <4>1, <3>2, <1>9
      <4>4. \A p \in Parts, a \in Slots : ~(p = x.part /\ a = x.slot) => U[k + 1][p][a] = U[k][p][a]
        BY <4>1, <3>2, <1>9
      <4>5. Is(x.part, x.slot, x.old, q - 1)
        <5>1. q \in Spots(sv, x.part, x.slot) /\ Is(x.part, x.slot, U[k][x.part][x.slot], q)
          BY <2>3, <3>1, <3>2, <3>3
        <5> QED BY <5>1, <2>1, <3>2, <3>4, <1>6 DEF x
      <4>6. ASSUME NEW p \in Parts, NEW a \in Slots, ~(p = x.part /\ a = x.slot), Kind(a) # "parshape"
            PROVE  Is(p, a, U[k + 1][p][a], q - 1)
        <5>1. q \notin Spots(sv, p, a) /\ Is(p, a, U[k][p][a], q)
          BY <4>6, <2>3, <3>3
        <5> QED BY <5>1, <2>1, <4>4, <4>6, <1>6
      <4>7. \A p \in Parts, a \in Slots :
              IF Kind(a) = "parshape" THEN U[k + 1][p][a] = st[p][a]
              ELSE Is(p, a, U[k + 1][p][a], q - 1)
        BY <3>1, <3>3, <4>3, <4>4, <4>5, <4>6
      <4> QED BY <4>2, <4>7, <2>1
    <3>5. CASE ~(U[k][x.part][x.slot].l > LevelOne)
      <4>1. U[k + 1] = U[k]
        BY <2>2, <2>5, <3>5 DEF Restore
      <4>2. ASSUME NEW p \in Parts, NEW a \in Slots, Kind(a) # "parshape"
            PROVE  Is(p, a, U[k][p][a], q - 1)
        <5>1. Is(p, a, U[k][p][a], q)
          BY <3>3, <4>2
        <5>2. CASE q \in Spots(sv, p, a)
          BY <5>1, <5>2, <2>1, <2>3, <3>5, <1>6, ZenonT(60)
        <5>3. CASE q \notin Spots(sv, p, a)
          BY <5>1, <5>3, <2>1, <1>6
        <5> QED BY <5>2, <5>3
      <4> QED BY <4>1, <4>2, <3>3, <2>1, <1>9
    <3> QED BY <3>4, <3>5
  <2> QED BY <2>4, <2>5
<1>10. Good(n)
  <2> DEFINE S == {k \in 0..n : Good(k)}
  <2>1. 0 \in S /\ \A k \in 0..(n - 1) : k \in S => k + 1 \in S
    <3> HIDE DEF Good
    <3>1. 0 \in 0..n /\ \A k \in 0..(n - 1) : k + 1 \in 0..n
      BY <1>2
    <3> QED BY <3>1, <1>8, <1>9
  <2> HIDE DEF S, Good
  <2>2. 0..n \subseteq S
    BY <1>2, <2>1, UpTo
  <2>3. n \in 0..n
    BY <1>2
  <2> QED BY <2>2, <2>3 DEF S
<1>11. ASSUME NEW p \in Parts, NEW a \in Slots, Kind(a) # "parshape"
       PROVE  \E j \in Spots(sv, p, a) :
                 /\ j > h + 1 /\ U[n][p][a] = Entry(sv, st[p][a], j) /\ U[n][p][a].l <= Len(gr)
                 /\ \A i \in Spots(sv, p, a) : i > j => Entry(sv, st[p][a], i).l > Len(gr)
  <2>1. Len(sv) - n = h + 1
    BY <1>1 DEF n
  <2>2. Is(p, a, U[n][p][a], h + 1)
    BY <1>10, <1>11, <2>1
  <2>3. U[n][p][a].l <= Len(gr)
    BY <2>2, <1>6
  <2> QED BY <2>2, <2>3 DEF Is, Left
<1> DEFINE shapes == {i \in DOMAIN items : IsParShape(items[i])}
<1>12. Unsave(st, items) = IF shapes = {} THEN U[n] ELSE Restore(items[Min(shapes)], U[n])
  BY <1>2 DEF Unsave, U
<1>13. U[n] \in [Parts -> [Slots -> Places]]
  BY <1>10
<1>14. ASSUME NEW p \in Parts, NEW a \in Slots, Kind(a) = "parshape",
              Spots(sv, p, a) \cap (h + 2)..Len(sv) = {}
       PROVE  st[p][a].l <= Len(gr)
  <2>1. Is(p, a, st[p][a], Len(sv))
    BY <1>6
  <2>2. Top \in Spots(sv, p, a) /\ Entry(sv, st[p][a], Top) = st[p][a]
    BY DEF Spots, Entry
  <2>3. \A i \in Spots(sv, p, a) : i > Top => Entry(sv, st[p][a], i).l > Len(gr)
    BY <1>1, <1>4
  <2>4. \A i \in Spots(sv, p, a) : i < Top => i <= h + 1
    BY <1>1, <1>4, <1>14
  <2>5. Top > h + 1
    BY <1>1, <1>4
  <2>6. Is(p, a, st[p][a], h + 1)
    BY <2>2, <2>3, <2>4, <2>5 DEF Is, Left
  <2> QED BY <2>6, <1>6
<1>15. ASSUME NEW p \in Parts, NEW a \in Slots, Kind(a) = "parshape", NEW q \in Spots(sv, p, a),
              q \in (h + 2)..Len(sv)
       PROVE  q - (h + 1) \in shapes /\ p = "dense"
  <2>1. q \in 1..Len(sv) /\ q > h + 1 /\ q - (h + 1) \in 1..n /\ h + 1 + (q - (h + 1)) = q
    BY <1>15, <1>1 DEF n
  <2>2. sv[q].part = p /\ sv[q].slot = a /\ items[q - (h + 1)] = sv[q]
    <3>1. \A b \in Parts, c \in Slots : q \in Spots(sv, b, c) <=> sv[q].part = b /\ sv[q].slot = c
      BY ONLY <2>1, <1>7
    <3>2. sv[q].part = p /\ sv[q].slot = a
      BY ONLY <3>1, p \in Parts, a \in Slots, q \in Spots(sv, p, a)
    <3>3. items[q - (h + 1)] = sv[h + 1 + (q - (h + 1))]
      BY ONLY <2>1, <1>2
    <3> QED BY ONLY <3>2, <3>3, <2>1
  <2>3. p # "after"
    BY DEF Parts
  <2>4. q # Top
    BY <2>1, <1>1, <1>4
  <2>5. p = "dense"
    BY <2>4, <1>15, <1>0 DEF Parts
  <2>6. IsParShape(items[q - (h + 1)])
    BY <2>2, <2>3, <1>15 DEF IsParShape, IsAfter
  <2> QED BY <2>1, <2>5, <2>6, <1>2
<1>16. CASE shapes = {}
  <2>1. Unsave(st, items) = U[n]
    BY <1>12, <1>16
  <2>2. ASSUME NEW p \in Parts, NEW a \in Slots, Kind(a) = "parshape"
        PROVE  U[n][p][a] = st[p][a] /\ st[p][a].l <= Len(gr)
    <3>1. Spots(sv, p, a) \cap (h + 2)..Len(sv) = {}
      BY <1>15, <1>16, <2>2
    <3> HIDE DEF shapes
    <3> QED BY <3>1, <2>2, <1>10, <1>14
  <2>3. \A p \in Parts, a \in Slots : Top \in Spots(sv, p, a) /\ Entry(sv, st[p][a], Top) = st[p][a]
    BY DEF Spots, Entry
  <2>4. Top > h + 1
    BY <1>1, <1>4
  <2> HIDE DEF shapes, Good
  <2>5. ASSUME NEW p \in Parts, NEW a \in Slots PROVE Uncovered(sv, st[p][a], gr, p, a, U[n][p][a])
    <3>1. CASE Kind(a) = "parshape"
      BY <3>1, <2>2, <2>3, <2>4 DEF Uncovered, h
    <3>2. CASE Kind(a) # "parshape"
      BY <3>2, <1>11 DEF Uncovered, h
    <3> QED BY <3>1, <3>2
  <2> QED BY <2>1, <2>5, <1>13
<1>17. CASE shapes # {}
  <2> DEFINE m == Min(shapes)
             x == items[m]
             q == h + 1 + m
  <2>1. m \in shapes
    <3>1. shapes \in SUBSET Nat
      BY <1>2
    <3> HIDE DEF shapes
    <3>2. \E z \in shapes : \A y \in shapes : z <= y
      BY <3>1, <1>17, LeastNumber
    <3> QED BY <3>2 DEF Min
  <2>2. m \in 1..n /\ IsParShape(x)
    BY <2>1, <1>2
  <2> HIDE DEF m
  <2>3. q \in 1..Len(sv) /\ q > h + 1 /\ q \in (h + 2)..Len(sv) /\ x = sv[q]
    <3>1. n = Len(sv) - h - 1 /\ m \in 1..n
      BY <2>2 DEF n
    <3>2. q \in 1..Len(sv) /\ q > h + 1 /\ q \in (h + 2)..Len(sv)
      BY <3>1, <1>1
    <3> QED BY <3>1, <3>2, <1>2
  <2>4. x \in [part : Parts, slot : Slots, old : Places] /\ Kind(x.slot) = "parshape"
    BY <2>2, <2>3, <1>7 DEF IsParShape, IsAfter
  <2>5. x.part \in Parts /\ x.slot \in Slots /\ x.old \in Places /\ q \in Spots(sv, x.part, x.slot)
    <3>1. x.part \in Parts /\ x.slot \in Slots /\ x.old \in Places
      BY <2>4
    <3> HIDE DEF x, q
    <3>2. x.part = sv[q].part /\ x.slot = sv[q].slot
      BY <2>3
    <3> QED BY <2>3, <3>1, <3>2, <1>7
  <2>6. x.part = "dense"
    BY <2>3, <2>4, <2>5, <1>15
  <2> HIDE DEF x, q, shapes, Good
  <2>7. \A p \in Parts, a \in Slots : Kind(a) = "parshape" => U[n][p][a] = st[p][a]
    BY <1>10 DEF Good
  <2>8. Unsave(st, items) = Restore(x, U[n])
    BY <1>12, <1>17 DEF x, m
  <2>9. ASSUME NEW p \in Parts, NEW a \in Slots, Kind(a) = "parshape", ~(p = x.part /\ a = x.slot)
        PROVE  st[p][a].l <= Len(gr)
    <3>1. a = x.slot
      BY <2>4, <2>5, <2>9, ParShapeAssumption DEF Kind
    <3>2. p = "sparse"
      BY <3>1, <2>6, <2>9 DEF Parts
    <3>3. Spots(sv, p, a) = {Top}
      BY <3>2, <2>9, <1>0
    <3>4. Spots(sv, p, a) \cap (h + 2)..Len(sv) = {}
      BY <3>3, <1>1, <1>4
    <3> QED BY <3>4, <2>9, <1>14
  <2>10. \A p \in Parts, a \in Slots : Top \in Spots(sv, p, a) /\ Entry(sv, st[p][a], Top) = st[p][a]
    BY DEF Spots, Entry
  <2>11. Top > h + 1
    BY <1>1, <1>4
  <2>12. CASE U[n][x.part][x.slot].l > LevelOne
    <3>1. Unsave(st, items) = [U[n] EXCEPT ![x.part][x.slot] = x.old]
      BY <2>8, <2>12 DEF Restore
    <3>2. Unsave(st, items) \in [Parts -> [Slots -> Places]]
      BY ONLY <3>1, <2>5, <1>13
    <3>3. Unsave(st, items)[x.part][x.slot] = x.old
      BY <3>1, <2>5, <1>13
    <3>4. \A p \in Parts, a \in Slots : ~(p = x.part /\ a = x.slot) =>
              Unsave(st, items)[p][a] = U[n][p][a]
      BY <3>1, <2>5, <1>13
    <3>5. q > h + 1 /\ x.old = Entry(sv, st[x.part][x.slot], q) /\ x.old.l <= Len(gr)
      <4>1. q # Top
        BY <2>3, <1>1, <1>4
      <4>2. x.old = Entry(sv, st[x.part][x.slot], q)
        BY <4>1, <2>3 DEF Entry
      <4>3. \E d \in DOMAIN gr : x.old.l <= d
        BY <4>1, <4>2, <2>5, <1>0, ZenonT(60) DEF Chain
      <4>4. x.old.l \in Nat
        BY <2>5, PlaceLevel
      <4> QED BY <4>2, <4>3, <4>4, <2>3, <1>1
    <3>6. ASSUME NEW p \in Parts, NEW a \in Slots
          PROVE \E j \in Spots(sv, p, a) :
                    /\ j > h + 1
                    /\ Unsave(st, items)[p][a] = Entry(sv, st[p][a], j)
                    /\ Unsave(st, items)[p][a].l <= Len(gr)
                    /\ Kind(a) # "parshape" =>
                         \A i \in Spots(sv, p, a) : i > j => Entry(sv, st[p][a], i).l > Len(gr)
      <4>1. CASE Kind(a) # "parshape"
        BY <4>1, <3>4, <2>4, <1>11
      <4>2. CASE Kind(a) = "parshape" /\ p = x.part /\ a = x.slot
        BY <4>2, <3>3, <3>5, <2>5
      <4>3. CASE Kind(a) = "parshape" /\ ~(p = x.part /\ a = x.slot)
        BY <4>3, <3>4, <2>7, <2>9, <2>10, <2>11
      <4> QED BY <4>1, <4>2, <4>3
    <3> QED BY <3>2, <3>6 DEF h, Uncovered
  <2>13. CASE ~(U[n][x.part][x.slot].l > LevelOne)
    <3>1. Unsave(st, items) = U[n]
      BY <2>8, <2>13 DEF Restore
    <3>2. U[n][x.part][x.slot] = st[x.part][x.slot] /\ st[x.part][x.slot].l <= Len(gr)
      <4>1. U[n][x.part][x.slot] = st[x.part][x.slot]
        BY <2>4, <2>5, <2>7
      <4>2. st[x.part][x.slot].l \in Nat
        BY <2>5, <1>5, PlaceLevel
      <4> QED BY <4>1, <4>2, <2>13, <1>1
    <3>6. ASSUME NEW p \in Parts, NEW a \in Slots
          PROVE \E j \in Spots(sv, p, a) :
                    /\ j > h + 1
                    /\ U[n][p][a] = Entry(sv, st[p][a], j)
                    /\ U[n][p][a].l <= Len(gr)
                    /\ Kind(a) # "parshape" =>
                         \A i \in Spots(sv, p, a) : i > j => Entry(sv, st[p][a], i).l > Len(gr)
      <4>1. CASE Kind(a) # "parshape"
        BY <4>1, <1>11
      <4>2. CASE Kind(a) = "parshape"
        BY <4>2, <3>2, <2>7, <2>9, <2>10, <2>11
      <4> QED BY <4>1, <4>2
    <3> QED BY <3>1, <3>6, <1>13 DEF h, Uncovered
  <2> QED BY <2>12, <2>13
<1> QED BY <1>16, <1>17

\* In addition, the values are what the kinds put there.
Sound(sv, gr, st) ==
    /\ Stacked(sv, gr, st)
    /\ \A p \in Parts, a \in Slots : \A i \in Spots(sv, p, a) : Fits(Entry(sv, st[p][a], i), p, a)

-----------------------------------------------------------------------------
(* What the operations do to a sound stack *)

(* Values change at their level, or become global; nothing is pushed.      *)
LEMMA SoundSet ==
    ASSUME NEW sv, NEW gr, NEW st, Sound(sv, gr, st), NEW new \in [Parts -> [Slots -> Places]],
           \A p \in Parts, a \in Slots :
              \/ new[p][a] = st[p][a]
              \/ Fits(new[p][a], p, a) /\ (new[p][a].l = st[p][a].l \/ new[p][a].l = 1)
    PROVE  Sound(sv, gr, new)
<1>1. /\ sv \in Seq(SaveItems) /\ Len(sv) <= MaxSaveStack + 2
      /\ st \in [Parts -> [Slots -> Places]] /\ gr \in Seq(Nat)
      /\ \A p \in Parts, a \in Slots :
           /\ Chain(sv, st[p][a], gr, p, a) /\ st[p][a].l <= Len(gr) + 1
           /\ \A i \in Spots(sv, p, a) : Fits(Entry(sv, st[p][a], i), p, a)
  BY DEF Sound, Stacked
<1>2. ASSUME NEW p \in Parts, NEW a \in Slots
      PROVE  /\ Chain(sv, new[p][a], gr, p, a) /\ new[p][a].l <= Len(gr) + 1
             /\ \A i \in Spots(sv, p, a) : Fits(Entry(sv, new[p][a], i), p, a)
  <2>1. st[p][a] \in Places /\ new[p][a] \in Places
    BY <1>1
  <2>2. CASE new[p][a] = st[p][a]
    BY <2>2, <1>1
  <2>3. CASE Fits(new[p][a], p, a) /\ (new[p][a].l = st[p][a].l \/ new[p][a].l = 1)
    <3>1. Chain(sv, new[p][a], gr, p, a)
      BY <2>1, <2>3, <1>1, ChainKept
    <3>2. new[p][a].l <= Len(gr) + 1
      <4>1. Len(gr) \in Nat
        BY <1>1
      <4> QED BY <4>1, <2>3, <1>1
    <3>3. \A i \in Spots(sv, p, a) : i # Top => Entry(sv, new[p][a], i) = Entry(sv, st[p][a], i)
      BY DEF Entry
    <3>4. Entry(sv, new[p][a], Top) = new[p][a]
      BY DEF Entry
    <3>5. ASSUME NEW i \in Spots(sv, p, a) PROVE Fits(Entry(sv, new[p][a], i), p, a)
      <4>1. CASE i = Top
        BY <4>1, <3>4, <2>3
      <4>2. CASE i # Top
        BY <4>2, <3>3, <1>1
      <4> QED BY <4>1, <4>2
    <3> QED BY <3>1, <3>2, <3>5
  <2> QED BY <2>2, <2>3
<1> QED BY <1>2 DEF Sound, Stacked

(* A local assignment in an inner group: the outer value is pushed.        *)
LEMMA SoundPush ==
    ASSUME NEW sv, NEW gr, NEW st, Sound(sv, gr, st), Len(sv) <= MaxSaveStack + 1,
           NEW p \in Parts, NEW a \in Slots, ~(p = "sparse" /\ Kind(a) = "parshape"),
           NEW d \in Places, Fits(d, p, a), d.l = Len(gr) + 1, st[p][a].l <= Len(gr)
    PROVE  Sound(Append(sv, Item(p, a, st[p][a])), gr, [st EXCEPT ![p][a] = d])
<1> DEFINE x == Item(p, a, st[p][a])
           up == Append(sv, x)
           new == [st EXCEPT ![p][a] = d]
<1>1. /\ sv \in Seq(SaveItems) /\ gr \in Seq(Nat) /\ Boundaries(sv, gr)
      /\ {i \in DOMAIN sv : sv[i].part = "level"} = {gr[n] + 1 : n \in DOMAIN gr}
      /\ \A n \in DOMAIN gr : sv[gr[n] + 1].level = n + 1
      /\ Len(gr) + 1 <= MaxGroupLevel
      /\ st \in [Parts -> [Slots -> Places]]
      /\ \A q \in Parts, b \in Slots :
           /\ Chain(sv, st[q][b], gr, q, b) /\ st[q][b].l <= Len(gr) + 1
           /\ q = "sparse" /\ Kind(b) = "parshape" => Spots(sv, q, b) = {Top}
           /\ \A i \in Spots(sv, q, b) : Fits(Entry(sv, st[q][b], i), q, b)
  BY DEF Sound, Stacked
<1>2. st[p][a] \in Places /\ Len(gr) \in Nat /\ Len(sv) \in Nat
  BY <1>1
<1>3. x \in SaveItems /\ x.part = p /\ x.slot = a /\ x.old = st[p][a] /\ p # "level"
  BY <1>2 DEF Item, SaveItems, Parts
<1>4. /\ up \in Seq(SaveItems) /\ Len(up) = Len(sv) + 1 /\ up[Len(sv) + 1] = x
      /\ \A i \in 1..Len(sv) : up[i] = sv[i]
      /\ DOMAIN up = 1..(Len(sv) + 1) /\ DOMAIN sv = 1..Len(sv)
  BY <1>1, <1>3
<1>5. /\ new \in [Parts -> [Slots -> Places]] /\ new[p][a] = d
      /\ \A q \in Parts, b \in Slots : ~(q = p /\ b = a) => new[q][b] = st[q][b]
  BY <1>1
<1> HIDE DEF x, up, new
<1>6. Boundaries(up, gr) /\ \A n \in DOMAIN gr : gr[n] + 1 \in 1..Len(sv)
  <2>1. \A n \in DOMAIN gr : gr[n] \in Nat /\ gr[n] < Len(sv)
    BY <1>1 DEF Boundaries
  <2> QED BY <2>1, <1>1, <1>2, <1>4 DEF Boundaries
<1>7. {i \in DOMAIN up : up[i].part = "level"} = {gr[n] + 1 : n \in DOMAIN gr}
  <2>1. \A i \in DOMAIN up : i # Len(sv) + 1 => i \in DOMAIN sv
    BY <1>2, <1>4
  <2>2. \A i \in DOMAIN sv : i \in DOMAIN up
    BY <1>2, <1>4
  <2>3. up[Len(sv) + 1].part # "level"
    BY <1>3, <1>4
  <2>4. {i \in DOMAIN up : up[i].part = "level"} = {i \in DOMAIN sv : sv[i].part = "level"}
    BY <2>1, <2>2, <2>3, <1>4
  <2> QED BY <2>4, <1>1
<1>8. \A n \in DOMAIN gr : up[gr[n] + 1].level = n + 1
  BY <1>1, <1>4, <1>6
<1>9. gr # <<>>
  <2>1. st[p][a].l >= 1 /\ st[p][a].l \in Nat
    BY <1>2, PlaceLevel
  <2> QED BY <2>1, <1>2
<1>10. ASSUME NEW q \in Parts, NEW b \in Slots
       PROVE  /\ Chain(up, new[q][b], gr, q, b) /\ new[q][b].l <= Len(gr) + 1
              /\ q = "sparse" /\ Kind(b) = "parshape" => Spots(up, q, b) = {Top}
              /\ \A i \in Spots(up, q, b) : Fits(Entry(up, new[q][b], i), q, b)
  <2>0. /\ Spots(up, q, b) = Spots(sv, q, b) \cup (IF x.part = q /\ x.slot = b THEN {Len(sv) + 1} ELSE {})
        /\ \A c : \A i \in Spots(sv, q, b) : Entry(up, c, i) = Entry(sv, c, i)
        /\ \A c : Entry(up, c, Len(sv) + 1) = x.old
        /\ Len(sv) + 1 \notin Spots(sv, q, b)
    BY <1>1, <1>3, SpotsAppend DEF up
  <2>1. CASE q = p /\ b = a
    <3>1. Chain(up, d, gr, p, a)
      <4>1. \A i \in Spots(sv, p, a) : i # Len(sv) + 1
        BY <2>0, <2>1
      <4> QED BY <4>1, <1>1, <1>2, <1>9, ChainPush DEF up, x
    <3>2. d.l <= Len(gr) + 1
      BY <1>2
    <3>3. \A i \in Spots(sv, p, a) : i # Top => Entry(up, d, i) = Entry(sv, st[p][a], i)
      BY <2>0, <2>1 DEF Entry
    <3>4. Entry(up, d, Top) = d /\ Entry(sv, st[p][a], Top) = st[p][a] /\ Top \in Spots(sv, p, a)
      BY DEF Entry, Spots
    <3>5. ASSUME NEW i \in Spots(up, p, a) PROVE Fits(Entry(up, d, i), p, a)
      <4>1. CASE i = Top
        BY <4>1, <3>4
      <4>2. CASE i # Top /\ i = Len(sv) + 1
        <5>1. Entry(up, d, i) = st[p][a]
          BY <4>2, <2>0, <1>3
        <5> QED BY <5>1, <3>4, <1>1
      <4>3. CASE i # Top /\ i # Len(sv) + 1
        <5>1. i \in Spots(sv, p, a)
          BY <4>3, <2>0, <2>1
        <5> QED BY <5>1, <4>3, <3>3, <1>1
      <4> QED BY <4>1, <4>2, <4>3
    <3> QED BY <3>1, <3>2, <3>5, <2>1, <1>5
  <2>2. CASE ~(q = p /\ b = a)
    <3>1. new[q][b] = st[q][b] /\ st[q][b] \in Places
      BY <2>2, <1>1, <1>5
    <3>2. Spots(up, q, b) = Spots(sv, q, b)
      BY <2>0, <2>2, <1>3
    <3>3. Chain(up, st[q][b], gr, q, b)
      <4>1. ~(x.part = q /\ x.slot = b) /\ Chain(sv, st[q][b], gr, q, b)
        BY <2>2, <1>1, <1>3
      <4> QED BY <4>1, <3>1, <1>1, <1>3, ChainAppend DEF up
    <3> QED BY <3>1, <3>2, <3>3, <2>0, <1>1
  <2> QED BY <2>1, <2>2
<1>11. Len(up) <= MaxSaveStack + 2
  BY <1>2, <1>4, SlotAssumption
<1>12. Sound(up, gr, new)
  BY <1>1, <1>4, <1>5, <1>6, <1>7, <1>8, <1>10, <1>11 DEF Sound, Stacked
<1> QED BY <1>12 DEF up, x, new

(* An assignment to one cell.                                              *)
LEMMA SoundPut ==
    ASSUME NEW sv, NEW gr, NEW st, Sound(sv, gr, st), Len(sv) <= MaxSaveStack + 1,
           NEW p \in Parts, NEW a \in Slots, ~(p = "sparse" /\ Kind(a) = "parshape"),
           NEW d \in Places, Fits(d, p, a), NEW up,
           \/ up = sv /\ (d.l = 1 \/ d.l = st[p][a].l)
           \/ up = Append(sv, Item(p, a, st[p][a])) /\ d.l = Len(gr) + 1 /\ st[p][a].l <= Len(gr)
    PROVE  Sound(up, gr, [st EXCEPT ![p][a] = d])
<1> DEFINE new == [st EXCEPT ![p][a] = d]
<1>1. CASE up = sv /\ (d.l = 1 \/ d.l = st[p][a].l)
  <2>1. st \in [Parts -> [Slots -> Places]]
    BY DEF Sound, Stacked
  <2>2. new \in [Parts -> [Slots -> Places]] /\ new[p][a] = d
    BY <2>1
  <2>3. \A q \in Parts, b \in Slots : ~(q = p /\ b = a) => new[q][b] = st[q][b]
    BY <2>1
  <2> HIDE DEF new
  <2>4. \A q \in Parts, b \in Slots :
              \/ new[q][b] = st[q][b]
              \/ Fits(new[q][b], q, b) /\ (new[q][b].l = st[q][b].l \/ new[q][b].l = 1)
    BY <2>2, <2>3, <1>1
  <2>5. Sound(sv, gr, new)
    BY <2>2, <2>4, SoundSet
  <2> QED BY <2>5, <1>1 DEF new
<1>2. CASE up = Append(sv, Item(p, a, st[p][a])) /\ d.l = Len(gr) + 1 /\ st[p][a].l <= Len(gr)
  BY <1>2, SoundPush
<1> QED BY <1>1, <1>2

(* A token of \aftergroup is pushed.                                       *)
LEMMA SoundAfter ==
    ASSUME NEW sv, NEW gr, NEW st, Sound(sv, gr, st), Len(sv) <= MaxSaveStack + 1,
           NEW x \in SaveItems, x.part = "after"
    PROVE  Sound(Append(sv, x), gr, st)
<1> DEFINE up == Append(sv, x)
<1>1. /\ sv \in Seq(SaveItems) /\ gr \in Seq(Nat) /\ Boundaries(sv, gr)
      /\ {i \in DOMAIN sv : sv[i].part = "level"} = {gr[n] + 1 : n \in DOMAIN gr}
      /\ \A n \in DOMAIN gr : sv[gr[n] + 1].level = n + 1
      /\ Len(gr) + 1 <= MaxGroupLevel
      /\ st \in [Parts -> [Slots -> Places]]
      /\ \A q \in Parts, b \in Slots :
           /\ Chain(sv, st[q][b], gr, q, b) /\ st[q][b].l <= Len(gr) + 1
           /\ q = "sparse" /\ Kind(b) = "parshape" => Spots(sv, q, b) = {Top}
           /\ \A i \in Spots(sv, q, b) : Fits(Entry(sv, st[q][b], i), q, b)
  BY DEF Sound, Stacked
<1>2. Len(gr) \in Nat /\ Len(sv) \in Nat
  BY <1>1
<1>4. /\ up \in Seq(SaveItems) /\ Len(up) = Len(sv) + 1 /\ up[Len(sv) + 1] = x
      /\ \A i \in 1..Len(sv) : up[i] = sv[i]
      /\ DOMAIN up = 1..(Len(sv) + 1) /\ DOMAIN sv = 1..Len(sv)
  BY <1>1
<1> HIDE DEF up
<1>6. Boundaries(up, gr) /\ \A n \in DOMAIN gr : gr[n] + 1 \in 1..Len(sv)
  <2>1. \A n \in DOMAIN gr : gr[n] \in Nat /\ gr[n] < Len(sv)
    BY <1>1 DEF Boundaries
  <2> QED BY <2>1, <1>1, <1>2, <1>4 DEF Boundaries
<1>7. {i \in DOMAIN up : up[i].part = "level"} = {gr[n] + 1 : n \in DOMAIN gr}
  <2>1. \A i \in DOMAIN up : i # Len(sv) + 1 => i \in DOMAIN sv
    BY <1>2, <1>4
  <2>2. \A i \in DOMAIN sv : i \in DOMAIN up
    BY <1>2, <1>4
  <2>3. up[Len(sv) + 1].part # "level"
    BY <1>4
  <2>4. {i \in DOMAIN up : up[i].part = "level"} = {i \in DOMAIN sv : sv[i].part = "level"}
    BY <2>1, <2>2, <2>3, <1>4
  <2> QED BY <2>4, <1>1
<1>8. \A n \in DOMAIN gr : up[gr[n] + 1].level = n + 1
  BY <1>1, <1>4, <1>6
<1>10. ASSUME NEW q \in Parts, NEW b \in Slots
       PROVE  /\ Chain(up, st[q][b], gr, q, b)
              /\ Spots(up, q, b) = Spots(sv, q, b)
              /\ \A i \in Spots(up, q, b) : Entry(up, st[q][b], i) = Entry(sv, st[q][b], i)
  <2>1. ~(x.part = q /\ x.slot = b) /\ Chain(sv, st[q][b], gr, q, b) /\ st[q][b] \in Places
    BY <1>1 DEF Parts
  <2>2. /\ Spots(up, q, b) = Spots(sv, q, b) \cup (IF x.part = q /\ x.slot = b THEN {Len(sv) + 1} ELSE {})
        /\ \A c : \A i \in Spots(sv, q, b) : Entry(up, c, i) = Entry(sv, c, i)
    BY <1>1, SpotsAppend DEF up
  <2>3. Chain(up, st[q][b], gr, q, b)
    BY <2>1, <1>1, ChainAppend DEF up
  <2> QED BY <2>1, <2>2, <2>3
<1>11. Len(up) <= MaxSaveStack + 2
  BY <1>2, <1>4, SlotAssumption
<1>12. Sound(up, gr, st)
  BY <1>1, <1>4, <1>6, <1>7, <1>8, <1>10, <1>11, SMTT(60) DEF Sound, Stacked
<1> QED BY <1>12 DEF up

(* A group begins.                                                         *)
LEMMA SoundGroup ==
    ASSUME NEW sv, NEW gr, NEW st, Sound(sv, gr, st), Len(sv) <= MaxSaveStack + 1,
           Len(gr) + 1 < MaxGroupLevel,
           NEW x \in SaveItems, x.part = "level", x.level = Len(gr) + 2
    PROVE  Sound(Append(sv, x), Append(gr, Len(sv)), st)
<1> DEFINE up == Append(sv, x)
           in == Append(gr, Len(sv))
<1>1. /\ sv \in Seq(SaveItems) /\ gr \in Seq(Nat) /\ Boundaries(sv, gr)
      /\ {i \in DOMAIN sv : sv[i].part = "level"} = {gr[n] + 1 : n \in DOMAIN gr}
      /\ \A n \in DOMAIN gr : sv[gr[n] + 1].level = n + 1
      /\ st \in [Parts -> [Slots -> Places]]
      /\ \A q \in Parts, b \in Slots :
           /\ Chain(sv, st[q][b], gr, q, b) /\ st[q][b].l <= Len(gr) + 1
           /\ q = "sparse" /\ Kind(b) = "parshape" => Spots(sv, q, b) = {Top}
           /\ \A i \in Spots(sv, q, b) : Fits(Entry(sv, st[q][b], i), q, b)
  BY DEF Sound, Stacked
<1>2. Len(gr) \in Nat /\ Len(sv) \in Nat
  BY <1>1
<1>3. /\ in \in Seq(Nat) /\ Len(in) = Len(gr) + 1 /\ in[Len(gr) + 1] = Len(sv)
      /\ \A n \in 1..Len(gr) : in[n] = gr[n]
      /\ DOMAIN in = 1..(Len(gr) + 1) /\ DOMAIN gr = 1..Len(gr)
  BY <1>1, <1>2
<1>4. /\ up \in Seq(SaveItems) /\ Len(up) = Len(sv) + 1 /\ up[Len(sv) + 1] = x
      /\ \A i \in 1..Len(sv) : up[i] = sv[i]
      /\ DOMAIN up = 1..(Len(sv) + 1) /\ DOMAIN sv = 1..Len(sv)
  BY <1>1
<1> HIDE DEF up, in
<1>5. \A n \in DOMAIN gr : gr[n] \in Nat /\ gr[n] < Len(sv) /\ gr[n] + 1 \in 1..Len(sv)
  <2>1. \A n \in DOMAIN gr : gr[n] \in Nat /\ gr[n] < Len(sv)
    BY <1>1 DEF Boundaries
  <2> QED BY <2>1, <1>2
<1>5a. \A n \in DOMAIN in : n # Len(gr) + 1 => n \in DOMAIN gr
  BY <1>2, <1>3
<1>6. Boundaries(up, in)
  <2>1. ASSUME NEW m \in DOMAIN in, NEW n \in DOMAIN in, m < n PROVE in[m] < in[n]
    <3>1. m \in DOMAIN gr
      BY <2>1, <1>2, <1>3
    <3>2. CASE n = Len(gr) + 1
      BY <3>1, <3>2, <1>3, <1>5
    <3>3. CASE n # Len(gr) + 1
      BY <3>1, <3>3, <2>1, <1>1, <1>3, <1>5a DEF Boundaries
    <3> QED BY <3>2, <3>3
  <2>2. ASSUME NEW n \in DOMAIN in PROVE in[n] < Len(up)
    <3>1. CASE n = Len(gr) + 1
      BY <3>1, <1>2, <1>3, <1>4
    <3>2. CASE n # Len(gr) + 1
      <4>1. in[n] = gr[n] /\ gr[n] \in Nat /\ gr[n] < Len(sv)
        BY <3>2, <1>3, <1>5, <1>5a
      <4> QED BY <4>1, <1>2, <1>4
    <3> QED BY <3>1, <3>2
  <2> QED BY <2>1, <2>2 DEF Boundaries
<1>7. {i \in DOMAIN up : up[i].part = "level"} = {in[n] + 1 : n \in DOMAIN in}
  <2>1. ASSUME NEW i \in DOMAIN up, up[i].part = "level" PROVE \E n \in DOMAIN in : i = in[n] + 1
    <3>1. CASE i = Len(sv) + 1
      <4>1. Len(gr) + 1 \in DOMAIN in /\ in[Len(gr) + 1] + 1 = i
        BY <3>1, <1>2, <1>3
      <4> QED BY <4>1
    <3>2. CASE i # Len(sv) + 1
      <4>1. i \in DOMAIN sv /\ sv[i].part = "level"
        BY <3>2, <2>1, <1>2, <1>4
      <4>2. PICK n \in DOMAIN gr : i = gr[n] + 1
        BY <4>1, <1>1
      <4>3. n \in DOMAIN in /\ in[n] = gr[n]
        BY <1>2, <1>3
      <4> QED BY <4>2, <4>3
    <3> QED BY <3>1, <3>2
  <2>2. ASSUME NEW n \in DOMAIN in PROVE in[n] + 1 \in DOMAIN up /\ up[in[n] + 1].part = "level"
    <3>1. CASE n = Len(gr) + 1
      BY <3>1, <1>2, <1>3, <1>4
    <3>2. CASE n # Len(gr) + 1
      <4>1. n \in DOMAIN gr /\ in[n] = gr[n] /\ gr[n] + 1 \in 1..Len(sv)
        BY <3>2, <1>3, <1>5, <1>5a
      <4>2. gr[n] + 1 \in {i \in DOMAIN sv : sv[i].part = "level"}
        BY <4>1, <1>1
      <4> QED BY <4>1, <4>2, <1>2, <1>4
    <3> QED BY <3>1, <3>2
  <2> QED BY <2>1, <2>2
<1>8. ASSUME NEW n \in DOMAIN in PROVE up[in[n] + 1].level = n + 1
  <2>1. CASE n = Len(gr) + 1
    BY <2>1, <1>2, <1>3, <1>4
  <2>2. CASE n # Len(gr) + 1
    BY <2>2, <1>1, <1>3, <1>4, <1>5, <1>5a, ZenonT(60)
  <2> QED BY <2>1, <2>2
<1>10. ASSUME NEW q \in Parts, NEW b \in Slots
       PROVE  /\ Chain(up, st[q][b], in, q, b)
              /\ Spots(up, q, b) = Spots(sv, q, b)
              /\ \A i \in Spots(up, q, b) : Entry(up, st[q][b], i) = Entry(sv, st[q][b], i)
              /\ st[q][b].l <= Len(in) + 1
  <2>1. x.part # q /\ Chain(sv, st[q][b], gr, q, b) /\ st[q][b] \in Places
    BY <1>1 DEF Parts
  <2>2. /\ Spots(up, q, b) = Spots(sv, q, b) \cup (IF x.part = q /\ x.slot = b THEN {Len(sv) + 1} ELSE {})
        /\ \A c : \A i \in Spots(sv, q, b) : Entry(up, c, i) = Entry(sv, c, i)
    BY <1>1, SpotsAppend DEF up
  <2>3. Chain(up, st[q][b], in, q, b)
    BY <2>1, <1>1, ChainGroup DEF up, in
  <2>4. st[q][b].l \in Nat /\ st[q][b].l <= Len(gr) + 1
    BY <2>1, <1>1, PlaceLevel
  <2> QED BY <2>1, <2>2, <2>3, <2>4, <1>2, <1>3
<1>11. Len(up) <= MaxSaveStack + 2 /\ Len(in) + 1 <= MaxGroupLevel
  BY <1>2, <1>3, <1>4, SlotAssumption
<1>12. Sound(up, in, st)
  BY <1>1, <1>3, <1>4, <1>6, <1>7, <1>8, <1>10, <1>11 DEF Sound, Stacked
<1> QED BY <1>12 DEF up, in

(* A group ends: each cell is left with an entry of the group.             *)
LEMMA SoundPop ==
    ASSUME NEW sv, NEW gr, NEW st, Sound(sv, gr, st), gr # <<>>,
           NEW new \in [Parts -> [Slots -> Places]],
           \A p \in Parts, a \in Slots : Uncovered(sv, st[p][a], gr, p, a, new[p][a])
    PROVE  /\ SubSeq(sv, 1, gr[Len(gr)]) \in Seq(SaveItems)
           /\ Len(SubSeq(sv, 1, gr[Len(gr)])) = gr[Len(gr)]
           /\ \A i \in 1..gr[Len(gr)] : SubSeq(sv, 1, gr[Len(gr)])[i] = sv[i]
           /\ Front(gr) \in Seq(Nat) /\ Len(Front(gr)) = Len(gr) - 1
           /\ \A n \in 1..(Len(gr) - 1) : Front(gr)[n] = gr[n]
           /\ sv[gr[Len(gr)] + 1].level = Len(gr) + 1
           /\ Sound(SubSeq(sv, 1, gr[Len(gr)]), Front(gr), new)
<1> DEFINE h == gr[Len(gr)]
           low == SubSeq(sv, 1, h)
           out == Front(gr)
<1>1. /\ sv \in Seq(SaveItems) /\ gr \in Seq(Nat) /\ Boundaries(sv, gr) /\ Len(sv) <= MaxSaveStack + 2
      /\ {i \in DOMAIN sv : sv[i].part = "level"} = {gr[n] + 1 : n \in DOMAIN gr}
      /\ \A n \in DOMAIN gr : sv[gr[n] + 1].level = n + 1
      /\ Len(gr) + 1 <= MaxGroupLevel
      /\ st \in [Parts -> [Slots -> Places]]
      /\ \A q \in Parts, b \in Slots :
           /\ Chain(sv, st[q][b], gr, q, b) /\ st[q][b].l <= Len(gr) + 1
           /\ q = "sparse" /\ Kind(b) = "parshape" => Spots(sv, q, b) = {Top}
           /\ \A i \in Spots(sv, q, b) : Fits(Entry(sv, st[q][b], i), q, b)
  BY DEF Sound, Stacked
<1>2. /\ Len(gr) \in Nat \ {0} /\ Len(gr) \in DOMAIN gr /\ DOMAIN gr = 1..Len(gr)
      /\ h \in Nat /\ Len(sv) \in Nat /\ h < Len(sv) /\ DOMAIN sv = 1..Len(sv)
      /\ \A n \in DOMAIN gr : gr[n] \in Nat /\ (n # Len(gr) => gr[n] < h)
  <2>1. /\ Len(gr) \in Nat \ {0} /\ Len(gr) \in DOMAIN gr /\ DOMAIN gr = 1..Len(gr)
        /\ \A n \in DOMAIN gr : gr[n] \in Nat /\ (n # Len(gr) => n < Len(gr))
    BY <1>1
  <2>2. h < Len(sv) /\ \A n \in DOMAIN gr : n # Len(gr) => gr[n] < h
    BY <2>1, <1>1 DEF Boundaries
  <2> QED BY <2>1, <2>2, <1>1
<1> HIDE DEF h
<1>3. /\ low \in Seq(SaveItems) /\ Len(low) = h /\ DOMAIN low = 1..h
      /\ \A i \in 1..h : low[i] = sv[i] /\ i \in DOMAIN sv
  <2>1. low \in Seq(SaveItems) /\ Len(low) = h
    BY <1>1, <1>2
  <2>2. \A i \in 1..h : low[i] = sv[i]
    BY <1>1, <1>2
  <2> HIDE DEF low
  <2> QED BY <2>1, <2>2, <1>2
<1>4. /\ out \in Seq(Nat) /\ Len(out) = Len(gr) - 1 /\ DOMAIN out = 1..(Len(gr) - 1)
      /\ \A n \in 1..(Len(gr) - 1) : out[n] = gr[n] /\ n \in DOMAIN gr /\ n # Len(gr)
  <2>0. out = SubSeq(gr, 1, Len(gr) - 1)
    BY DEF Front
  <2>1. out \in Seq(Nat) /\ Len(out) = Len(gr) - 1
    BY <2>0, <1>1, <1>2, SMTT(60)
  <2>2. \A n \in 1..(Len(gr) - 1) : out[n] = gr[n]
    BY <2>0, <1>1, <1>2
  <2>3. \A n \in 1..(Len(gr) - 1) : n \in 1..Len(gr) /\ n # Len(gr)
    <3>1. Len(gr) \in Nat
      BY <1>2
    <3> QED BY ONLY <3>1, SMT
  <2> HIDE DEF out
  <2> QED BY <2>1, <2>2, <2>3, <1>2
<1> HIDE DEF low, out
<1>5. Boundaries(low, out)
  <2>1. ASSUME NEW m \in DOMAIN out, NEW n \in DOMAIN out, m < n PROVE out[m] < out[n]
    BY <2>1, <1>1, <1>4 DEF Boundaries
  <2>2. ASSUME NEW n \in DOMAIN out PROVE out[n] < Len(low)
    BY <1>2, <1>3, <1>4
  <2> QED BY <2>1, <2>2 DEF Boundaries
<1>6. {i \in DOMAIN low : low[i].part = "level"} = {out[n] + 1 : n \in DOMAIN out}
  <2>1. ASSUME NEW i \in DOMAIN low, low[i].part = "level" PROVE \E n \in DOMAIN out : i = out[n] + 1
    <3>1. i \in DOMAIN sv /\ sv[i].part = "level" /\ i <= h /\ i \in Nat
      BY <2>1, <1>2, <1>3
    <3>2. PICK n \in DOMAIN gr : i = gr[n] + 1
      BY <3>1, <1>1
    <3>3. n # Len(gr)
      BY <3>1, <3>2, <1>2 DEF h
    <3>4. n \in DOMAIN out
      <4>1. n \in 1..Len(gr)
        BY <1>2
      <4>2. n \in 1..(Len(gr) - 1)
        BY <4>1, <3>3, <1>2
      <4> QED BY <4>2, <1>4
    <3> QED BY <3>2, <3>4, <1>4
  <2>2. ASSUME NEW n \in DOMAIN out PROVE out[n] + 1 \in DOMAIN low /\ low[out[n] + 1].part = "level"
    <3>1. out[n] = gr[n] /\ gr[n] \in Nat /\ gr[n] < h /\ n \in DOMAIN gr
      BY <1>2, <1>4
    <3>2. gr[n] + 1 \in {i \in DOMAIN sv : sv[i].part = "level"}
      BY <3>1, <1>1
    <3>3. gr[n] + 1 \in 1..h
      BY <3>1, <1>2
    <3> QED BY <3>1, <3>2, <3>3, <1>3
  <2> QED BY <2>1, <2>2
<1>7. ASSUME NEW n \in DOMAIN out PROVE low[out[n] + 1].level = n + 1
  <2>1. out[n] = gr[n] /\ gr[n] \in Nat /\ gr[n] < h /\ n \in DOMAIN gr
    BY <1>2, <1>4
  <2>2. gr[n] + 1 \in 1..h
    BY <2>1, <1>2
  <2> QED BY <2>1, <2>2, <1>1, <1>3
<1>8. Len(low) <= MaxSaveStack + 2 /\ Len(out) + 1 <= MaxGroupLevel
  <2>1. /\ Len(gr) \in Nat /\ Len(low) \in Nat /\ Len(low) < Len(sv) /\ Len(sv) \in Nat
        /\ Len(sv) <= MaxSaveStack + 2 /\ Len(out) = Len(gr) - 1 /\ Len(gr) + 1 <= MaxGroupLevel
    BY <1>1, <1>2, <1>3, <1>4
  <2>2. MaxSaveStack \in Nat /\ MaxGroupLevel \in Nat
    BY SlotAssumption
  <2> QED BY ONLY <2>1, <2>2, SMT
<1>9. ASSUME NEW p \in Parts, NEW a \in Slots
      PROVE  /\ Chain(low, new[p][a], out, p, a) /\ new[p][a].l <= Len(out) + 1
             /\ p = "sparse" /\ Kind(a) = "parshape" => Spots(low, p, a) = {Top}
             /\ \A i \in Spots(low, p, a) : Fits(Entry(low, new[p][a], i), p, a)
  <2>1. PICK j \in Spots(sv, p, a) :
           j > h + 1 /\ new[p][a] = Entry(sv, st[p][a], j) /\ new[p][a].l <= Len(gr)
    BY DEF h, Uncovered
  <2>1a. j \in Nat
    BY <1>1, <1>2, SpotsBelow
  <2>2. st[p][a] \in Places /\ Chain(sv, st[p][a], gr, p, a)
    BY <1>1
  <2>3. /\ Chain(low, new[p][a], out, p, a)
        /\ Spots(low, p, a) = {i \in Spots(sv, p, a) : i <= h} \cup {Top}
        /\ \A i \in Spots(low, p, a) : i # Top => Entry(low, new[p][a], i) = Entry(sv, st[p][a], i)
    <3>1. Len(low) = gr[Len(gr)] /\ \A i \in 1..Len(low) : low[i] = sv[i]
      BY <1>3 DEF h
    <3>2. \A n \in DOMAIN out : out[n] = gr[n]
      BY <1>4
    <3>3. j > gr[Len(gr)]
      BY <2>1, <2>1a, <1>2 DEF h
    <3>4. sv \in Seq(SaveItems) /\ Len(sv) <= MaxSaveStack + 2 /\ gr \in Seq(Nat) /\ Boundaries(sv, gr)
      BY <1>1
    <3>5. low \in Seq(SaveItems) /\ out \in Seq(Nat) /\ Len(out) = Len(gr) - 1
      BY <1>3, <1>4
    <3> DEFINE c == st[p][a]
               e == new[p][a]
    <3>6. c \in Places /\ Chain(sv, c, gr, p, a) /\ e = Entry(sv, c, j) /\ e.l <= Len(gr)
      BY <2>1, <2>2
    <3> HIDE DEF c, e
    <3>7. Chain(low, e, out, p, a)
      BY <3>1, <3>2, <3>3, <3>4, <3>5, <3>6, ChainPop
    <3>8. Len(low) < Len(sv)
      BY <1>2, <1>3
    <3>9. Spots(low, p, a) = {i \in Spots(sv, p, a) : i <= Len(low)} \cup {Top}
      <4>1. sv \in Seq(SaveItems) /\ low \in Seq(SaveItems) /\ Len(sv) <= MaxSaveStack + 2
        BY <3>4, <3>5
      <4>2. \A i \in 1..Len(low) : low[i] = sv[i]
        BY <3>1
      <4> QED BY ONLY <4>1, <4>2, <3>8, SpotsLow, p \in Parts, a \in Slots
    <3>10. \A i \in Spots(low, p, a) : i # Top => Entry(low, e, i) = Entry(sv, c, i)
      BY <3>1 DEF Spots, Entry
    <3> QED BY <3>7, <3>9, <3>10, <1>3 DEF c, e
  <2>4. new[p][a].l <= Len(out) + 1
    <3>1. new[p][a].l \in Nat /\ new[p][a].l <= Len(gr) /\ Len(gr) \in Nat /\ Len(out) = Len(gr) - 1
      BY <2>1, <1>2, <1>4, PlaceLevel
    <3> QED BY ONLY <3>1, SMT
  <2>5. p = "sparse" /\ Kind(a) = "parshape" => Spots(low, p, a) = {Top}
    BY <2>3, <1>1
  <2>6. ASSUME NEW i \in Spots(low, p, a) PROVE Fits(Entry(low, new[p][a], i), p, a)
    <3>1. CASE i = Top
      BY <3>1, <2>1, <1>1 DEF Entry
    <3>2. CASE i # Top
      BY <3>2, <2>3, <1>1
    <3> QED BY <3>1, <3>2
  <2> QED BY <2>3, <2>4, <2>5, <2>6
<1>10. Sound(low, out, new)
  BY <1>3, <1>4, <1>5, <1>6, <1>7, <1>8, <1>9 DEF Sound, Stacked
<1>11. sv[h + 1].level = Len(gr) + 1
  BY <1>1, <1>2 DEF h
<1> QED BY <1>3, <1>4, <1>10, <1>11 DEF h, low, out

-----------------------------------------------------------------------------
(* The inductive invariant of the stack *)

StackInv ==
    /\ doc \in Documents
    /\ dense \in [Slots -> Places] /\ sparse \in [Slots -> Places]
    /\ curLevel = Len(groups) + 1
    /\ tooDeep \in BOOLEAN /\ valid \subseteq Tables
    /\ input \in Seq(Tokens)
    /\ curAttr = AttrList(sparse)
    /\ Sound(save, groups, Tabled)

(* What an assignment to one place of the dense table does.                *)
LEMMA DenseStep ==
    ASSUME StackInv, Running, NEW a \in Slots, NEW v \in Values, NEW global \in BOOLEAN,
           Fits([v |-> v, l |-> Level(global)], "dense", a),
           AssignDense(a, v, global), groups' = groups
    PROVE  /\ dense' \in [Slots -> Places] /\ sparse' \in [Slots -> Places]
           /\ Sound(save', groups', Tabled')
<1> DEFINE d == [v |-> v, l |-> Level(global)]
           c == dense[a]
<1>1. /\ dense \in [Slots -> Places] /\ sparse \in [Slots -> Places] /\ curLevel = Len(groups) + 1
      /\ Sound(save, groups, Tabled)
      /\ Len(save) <= MaxSaveStack /\ save \in Seq(SaveItems) /\ groups \in Seq(Nat)
      /\ Len(groups) + 1 <= MaxGroupLevel
      /\ \A p \in Parts, b \in Slots : Tabled[p][b].l <= Len(groups) + 1
  BY DEF StackInv, Running, Sound, Stacked
<1>2. Len(groups) \in Nat /\ Len(save) \in Nat /\ MaxSaveStack \in Nat /\ MaxGroupLevel \in Nat
      /\ MaxGroupLevel >= 1
  BY <1>1, SlotAssumption
<1>3. c \in Places /\ c.l \in Nat /\ c.l <= Len(groups) + 1 /\ Tabled["dense"][a] = c
  <2>1. Tabled["dense"][a] = c /\ "dense" \in Parts /\ c \in Places
    BY <1>1 DEF Tabled, Parts
  <2> QED BY <2>1, <1>1, PlaceLevel
<1>4. d \in Places /\ d.l = IF global THEN 1 ELSE Len(groups) + 1
  BY <1>1, <1>2 DEF Places, Level
<1>5. dense' = [dense EXCEPT ![a] = d] /\ sparse' = sparse
  BY DEF AssignDense
<1>6. dense' \in [Slots -> Places] /\ sparse' \in [Slots -> Places]
  BY <1>1, <1>4, <1>5
<1>7. Tabled' = [Tabled EXCEPT !["dense"][a] = d]
  BY <1>1, <1>5 DEF Tabled, Parts
<1>9. Len(save) <= MaxSaveStack + 1
  BY <1>1, <1>2
<1>10. Fits(d, "dense", a)
  OBVIOUS
<1> HIDE DEF c, d
<1>11. \/ save' = save /\ (d.l = 1 \/ d.l = Tabled["dense"][a].l)
       \/ /\ save' = Append(save, Item("dense", a, Tabled["dense"][a]))
          /\ d.l = Len(groups) + 1 /\ Tabled["dense"][a].l <= Len(groups)
  <2>1. save' = IF ~global /\ c.l < curLevel THEN Append(save, Item("dense", a, c)) ELSE save
    BY DEF AssignDense, Saved, c
  <2> QED BY <2>1, <1>1, <1>2, <1>3, <1>4
<1>12. Sound(save', groups, [Tabled EXCEPT !["dense"][a] = d])
  <2>1. "dense" \in Parts /\ ~("dense" = "sparse" /\ Kind(a) = "parshape")
    BY DEF Parts
  <2> QED BY <2>1, <1>1, <1>4, <1>9, <1>10, <1>11, SoundPut
<1> QED BY <1>6, <1>7, <1>12

(* The same for the sparse table.                                          *)
LEMMA SparseStep ==
    ASSUME StackInv, Running, NEW a \in Slots, NEW v \in Values, NEW global \in BOOLEAN,
           Kind(a) # "parshape", Fits([v |-> v, l |-> Level(global)], "sparse", a),
           AssignSparse(a, v, global), groups' = groups
    PROVE  /\ dense' \in [Slots -> Places] /\ sparse' \in [Slots -> Places]
           /\ Sound(save', groups', Tabled')
<1> DEFINE d == [v |-> v, l |-> Level(global)]
           c == sparse[a]
<1>1. /\ dense \in [Slots -> Places] /\ sparse \in [Slots -> Places] /\ curLevel = Len(groups) + 1
      /\ Sound(save, groups, Tabled)
      /\ Len(save) <= MaxSaveStack /\ save \in Seq(SaveItems) /\ groups \in Seq(Nat)
      /\ Len(groups) + 1 <= MaxGroupLevel
      /\ \A p \in Parts, b \in Slots : Tabled[p][b].l <= Len(groups) + 1
  BY DEF StackInv, Running, Sound, Stacked
<1>2. Len(groups) \in Nat /\ Len(save) \in Nat /\ MaxSaveStack \in Nat /\ MaxGroupLevel \in Nat
      /\ MaxGroupLevel >= 1
  BY <1>1, SlotAssumption
<1>3. c \in Places /\ c.l \in Nat /\ c.l <= Len(groups) + 1 /\ Tabled["sparse"][a] = c
  <2>1. Tabled["sparse"][a] = c /\ "sparse" \in Parts /\ c \in Places
    BY <1>1 DEF Tabled, Parts
  <2> QED BY <2>1, <1>1, PlaceLevel
<1>4. d \in Places /\ d.l = IF global THEN 1 ELSE Len(groups) + 1
  BY <1>1, <1>2 DEF Places, Level
<1>5. sparse' = [sparse EXCEPT ![a] = d] /\ dense' = dense
  BY DEF AssignSparse
<1>6. dense' \in [Slots -> Places] /\ sparse' \in [Slots -> Places]
  BY <1>1, <1>4, <1>5
<1>7. Tabled' = [Tabled EXCEPT !["sparse"][a] = d]
  BY <1>1, <1>5 DEF Tabled, Parts
<1>9. Len(save) <= MaxSaveStack + 1
  BY <1>1, <1>2
<1>10. Fits(d, "sparse", a)
  OBVIOUS
<1> HIDE DEF c, d
<1>11. \/ save' = save /\ (d.l = 1 \/ d.l = Tabled["sparse"][a].l)
       \/ /\ save' = Append(save, Item("sparse", a, Tabled["sparse"][a]))
          /\ d.l = Len(groups) + 1 /\ Tabled["sparse"][a].l <= Len(groups)
  <2>1. save' = IF ~global /\ c.l < curLevel THEN Append(save, Item("sparse", a, c)) ELSE save
    BY DEF AssignSparse, Saved, c
  <2> QED BY <2>1, <1>1, <1>2, <1>3, <1>4
<1>12. Sound(save', groups, [Tabled EXCEPT !["sparse"][a] = d])
  <2>1. "sparse" \in Parts /\ ~("sparse" = "sparse" /\ Kind(a) = "parshape")
    BY DEF Parts
  <2> QED BY <2>1, <1>1, <1>4, <1>9, <1>10, <1>11, SoundPut
<1> QED BY <1>6, <1>7, <1>12

(* The list of attributes depends on the attributes alone.                 *)
LEMMA AttrSame ==
    ASSUME NEW s, NEW t, \A b \in Slots : Kind(b) = "attribute" => s[b].v = t[b].v
    PROVE  AttrList(s) = AttrList(t)
<1>1. \A b \in {b \in Slots : Kind(b) = "attribute" /\ s[b].v \notin {Absent, 0}} :
         b \in {x \in Slots : Kind(x) = "attribute" /\ t[x].v \notin {Absent, 0}} /\ s[b].v = t[b].v
  OBVIOUS
<1>2. \A b \in {b \in Slots : Kind(b) = "attribute" /\ t[b].v \notin {Absent, 0}} :
         b \in {x \in Slots : Kind(x) = "attribute" /\ s[x].v \notin {Absent, 0}} /\ s[b].v = t[b].v
  OBVIOUS
<1> QED BY <1>1, <1>2 DEF AttrList

(* The other parts of the invariant, for an assignment.                    *)
LEMMA RestOfStep ==
    ASSUME StackInv, UnchangedRest,
           dense' \in [Slots -> Places], sparse' \in [Slots -> Places], Sound(save', groups', Tabled'),
           curAttr' = AttrList(sparse')
    PROVE  StackInv'
BY DEF StackInv, UnchangedRest

-----------------------------------------------------------------------------
(* Every operation keeps it *)

(* An assignment to the dense table.                                       *)
LEMMA DenseAssign ==
    ASSUME StackInv, Running, NEW a \in Slots, NEW v \in Values, NEW global \in BOOLEAN,
           ~IsSparse(a), a = Current => v \in Tables,
           AssignDense(a, v, global), UnchangedRest, UNCHANGED curAttr
    PROVE  StackInv'
<1>1. Fits([v |-> v, l |-> Level(global)], "dense", a)
  <2>1. v # Absent
    BY SlotAssumption
  <2> QED BY <2>1 DEF Fits
<1>2. groups' = groups /\ sparse' = sparse
  BY DEF UnchangedRest, AssignDense
<1>3. /\ dense' \in [Slots -> Places] /\ sparse' \in [Slots -> Places]
      /\ Sound(save', groups', Tabled')
  BY <1>1, <1>2, DenseStep
<1>4. curAttr' = AttrList(sparse')
  BY <1>2 DEF StackInv
<1> QED BY <1>3, <1>4, RestOfStep

(* An assignment to the sparse table, except for attributes.               *)
LEMMA SparseAssign ==
    ASSUME StackInv, Running, NEW a \in Slots, NEW v \in Values, NEW global \in BOOLEAN,
           Kind(a) \in {"wide", "widecat", "overlay", "case"},
           AssignSparse(a, v, global), UnchangedRest, UNCHANGED curAttr
    PROVE  StackInv'
<1>1. Fits([v |-> v, l |-> Level(global)], "sparse", a) /\ Kind(a) # "parshape"
  <2>1. v # Absent
    BY SlotAssumption
  <2> QED BY <2>1 DEF Fits, IsSparse
<1>2. groups' = groups
  BY DEF UnchangedRest
<1>3. /\ dense' \in [Slots -> Places] /\ sparse' \in [Slots -> Places]
      /\ Sound(save', groups', Tabled')
  BY <1>1, <1>2, SparseStep
<1>4. curAttr' = AttrList(sparse')
  <2>1. sparse \in [Slots -> Places] /\ curAttr' = AttrList(sparse)
    BY DEF StackInv
  <2>2. \A b \in Slots : Kind(b) = "attribute" => sparse[b].v = sparse'[b].v
    BY <2>1 DEF AssignSparse
  <2> QED BY <2>1, <2>2, AttrSame
<1> QED BY <1>3, <1>4, RestOfStep

\* Attributes, whose cached list is renewed.
LEMMA AttributeAssign ==
    ASSUME StackInv, NEW a \in Slots, NEW v \in Values, NEW global \in BOOLEAN,
           assign_attribute(a, v, global)
    PROVE  StackInv'
<1>1. Fits([v |-> v, l |-> Level(global)], "sparse", a) /\ Kind(a) # "parshape"
  <2>1. v # Absent /\ Kind(a) = "attribute"
    BY SlotAssumption DEF assign_attribute
  <2> QED BY <2>1 DEF Fits, IsSparse
<1>2. /\ groups' = groups /\ Running /\ AssignSparse(a, v, global) /\ curAttr' = AttrList(sparse')
      /\ UnchangedRest
  BY DEF UnchangedRest, assign_attribute
<1>3. /\ dense' \in [Slots -> Places] /\ sparse' \in [Slots -> Places]
      /\ Sound(save', groups', Tabled')
  BY <1>1, <1>2, SparseStep
<1> QED BY <1>2, <1>3, RestOfStep

(* Values that change without a push: \box and \vsplit, the page builder,  *)
(* \initcatcodetable, \savecatcodetable.                                   *)
LEMMA TablesSet ==
    ASSUME StackInv, dense' \in [Slots -> Places], sparse' \in [Slots -> Places],
           \A a \in Slots :
              /\ \/ dense'[a] = dense[a]
                 \/ Fits(dense'[a], "dense", a) /\ (dense'[a].l = dense[a].l \/ dense'[a].l = 1)
              /\ \/ sparse'[a] = sparse[a]
                 \/ Fits(sparse'[a], "sparse", a) /\ sparse'[a].l = 1 /\ Kind(a) # "attribute",
           UNCHANGED <<doc, save, groups, curLevel, tooDeep, curAttr, input>>, valid' \subseteq Tables
    PROVE  StackInv'
<1>1. Tabled' \in [Parts -> [Slots -> Places]]
  BY DEF Tabled
<1>2. \A p \in Parts, a \in Slots :
         \/ Tabled'[p][a] = Tabled[p][a]
         \/ Fits(Tabled'[p][a], p, a) /\ (Tabled'[p][a].l = Tabled[p][a].l \/ Tabled'[p][a].l = 1)
  BY DEF Tabled, Parts
<1>3. Sound(save, groups, Tabled)
  BY DEF StackInv
<1>4. Sound(save, groups, Tabled')
  <2> DEFINE new == Tabled'
             old == Tabled
  <2> HIDE DEF new, old
  <2>1. Sound(save, groups, new)
    <3>1. /\ new \in [Parts -> [Slots -> Places]] /\ Sound(save, groups, old)
          /\ \A p \in Parts, a \in Slots :
               \/ new[p][a] = old[p][a]
               \/ Fits(new[p][a], p, a) /\ (new[p][a].l = old[p][a].l \/ new[p][a].l = 1)
      BY <1>1, <1>2, <1>3 DEF new, old
    <3> QED BY ONLY <3>1, SoundSet
  <2> QED BY <2>1 DEF new
<1>5. AttrList(sparse') = AttrList(sparse)
  <2>1. \A b \in Slots : Kind(b) = "attribute" => sparse[b].v = sparse'[b].v
    OBVIOUS
  <2> QED BY <2>1, AttrSame
<1> QED BY <1>4, <1>5 DEF StackInv

\* A box that is used up in place.
LEMMA BoxReplaced ==
    ASSUME StackInv, NEW a \in Slots, NEW v \in Values, replace_box_value(a, v)
    PROVE  StackInv'
<1>1. /\ Kind(a) = "box" /\ dense' = [dense EXCEPT ![a].v = v] /\ sparse' = sparse
      /\ UNCHANGED <<doc, save, groups, curLevel, tooDeep, valid, curAttr, input>>
      /\ dense \in [Slots -> Places] /\ sparse \in [Slots -> Places] /\ valid \subseteq Tables
  BY DEF replace_box_value, UnchangedRest, StackInv
<1>2. dense[a] \in Places /\ v # Absent
  BY <1>1, SlotAssumption
<1>3. dense'[a] = [v |-> v, l |-> dense[a].l] /\ \A b \in Slots : b # a => dense'[b] = dense[b]
  BY <1>1, <1>2 DEF Places
<1>4. dense'[a] \in Places
  BY <1>2, <1>3 DEF Places
<1>5. dense' \in [Slots -> Places]
  BY <1>1, <1>3, <1>4
<1>6. Fits(dense'[a], "dense", a) /\ dense'[a].l = dense[a].l
  BY <1>1, <1>2, <1>3 DEF Fits, IsSparse, Kind, Current
<1> QED BY <1>1, <1>3, <1>5, <1>6, TablesSet

\* A box that the page builder stores, at the global level.
LEMMA BoxSet ==
    ASSUME StackInv, NEW a \in Slots, NEW v \in Values, set_box_untraced(a, v)
    PROVE  StackInv'
<1>1. /\ Kind(a) = "box" /\ dense' = [dense EXCEPT ![a] = [v |-> v, l |-> 1]] /\ sparse' = sparse
      /\ UNCHANGED <<doc, save, groups, curLevel, tooDeep, valid, curAttr, input>>
      /\ dense \in [Slots -> Places] /\ sparse \in [Slots -> Places] /\ valid \subseteq Tables
  BY DEF set_box_untraced, UnchangedRest, StackInv
<1>3. dense'[a] = [v |-> v, l |-> 1] /\ \A b \in Slots : b # a => dense'[b] = dense[b]
  BY <1>1
<1>4. dense'[a] \in Places /\ v # Absent
  BY <1>3, SlotAssumption DEF Places
<1>5. dense' \in [Slots -> Places]
  BY <1>1, <1>3, <1>4
<1>6. Fits(dense'[a], "dense", a) /\ dense'[a].l = 1
  BY <1>1, <1>3, <1>4 DEF Fits, IsSparse, Kind, Current
<1> QED BY <1>1, <1>3, <1>5, <1>6, TablesSet

(* The values that are there fit, and the current catcode table is one.    *)
LEMMA CellsFit ==
    ASSUME StackInv
    PROVE  /\ \A a \in Slots : Fits(dense[a], "dense", a) /\ Fits(sparse[a], "sparse", a)
           /\ CatTable \in Tables
<1>1. ASSUME NEW a \in Slots, NEW p \in Parts PROVE Fits(Tabled[p][a], p, a)
  <2>1. Top \in Spots(save, p, a) /\ Entry(save, Tabled[p][a], Top) = Tabled[p][a]
    BY DEF Spots, Entry
  <2> QED BY <2>1 DEF StackInv, Sound
<1>2. \A a \in Slots : Fits(dense[a], "dense", a) /\ Fits(sparse[a], "sparse", a)
  <2>1. "dense" \in Parts /\ "sparse" \in Parts /\ Tabled["dense"] = dense /\ Tabled["sparse"] = sparse
    BY DEF Parts, Tabled
  <2> QED BY <2>1, <1>1
<1>3. Current \in Slots
  BY DEF Slots
<1> QED BY <1>2, <1>3 DEF Fits, CatTable

\* A catcode table gets the codes of IniTeX.
LEMMA CatTableInit ==
    ASSUME StackInv, NEW a \in Slots, NEW t, init_cat_table(a, t)
    PROVE  StackInv'
<1>1. /\ t \in Tables
      /\ dense' = [b \in Slots |-> IF b \in CatSlots(t) /\ ~IsSparse(b)
                                   THEN [v |-> InitexCat, l |-> 1] ELSE dense[b]]
      /\ sparse' = [b \in Slots |-> IF b \in CatSlots(t)
                                    THEN [v |-> Absent, l |-> 1] ELSE sparse[b]]
      /\ valid' = valid \cup {t}
      /\ UNCHANGED <<doc, save, groups, curLevel, tooDeep, input, curAttr>>
      /\ dense \in [Slots -> Places] /\ sparse \in [Slots -> Places] /\ valid \subseteq Tables
  BY DEF init_cat_table, StackInv
<1>2. [v |-> InitexCat, l |-> 1] \in Places /\ [v |-> Absent, l |-> 1] \in Places /\ InitexCat # Absent
  BY SlotAssumption DEF Places
<1>3. dense' \in [Slots -> Places] /\ sparse' \in [Slots -> Places] /\ valid' \subseteq Tables
  BY <1>1, <1>2
<1>4. ASSUME NEW b \in Slots, b \in CatSlots(t), ~IsSparse(b)
      PROVE  Fits(dense'[b], "dense", b) /\ dense'[b].l = 1
  <2>1. dense'[b] = [v |-> InitexCat, l |-> 1] /\ b # Current
    BY <1>1, <1>4 DEF CatSlots, Kind, Current
  <2> QED BY <2>1, <1>2, <1>4 DEF Fits
<1>5. ASSUME NEW b \in Slots, b \in CatSlots(t)
      PROVE  Fits(sparse'[b], "sparse", b) /\ sparse'[b].l = 1 /\ Kind(b) # "attribute"
  <2>1. sparse'[b] = [v |-> Absent, l |-> 1] /\ Kind(b) \in {"cat", "widecat"}
    BY <1>1, <1>5 DEF CatSlots
  <2> QED BY <2>1 DEF Fits
<1>6. ASSUME NEW b \in Slots
      PROVE  /\ dense'[b] = dense[b] \/ (b \in CatSlots(t) /\ ~IsSparse(b))
             /\ sparse'[b] = sparse[b] \/ b \in CatSlots(t)
  BY <1>1
<1> QED BY <1>1, <1>3, <1>4, <1>5, <1>6, TablesSet

\* A catcode table gets the current codes.
LEMMA CatTableSaved ==
    ASSUME StackInv, NEW a \in Slots, NEW t, save_cat_table(a, t)
    PROVE  StackInv'
<1>1. /\ t \in Tables
      /\ dense' = [b \in Slots |-> IF b \in CatSlots(t)
                                   THEN [v |-> dense[Twin(b)].v, l |-> 1] ELSE dense[b]]
      /\ sparse' = [b \in Slots |-> IF b \in CatSlots(t)
                                    THEN [v |-> sparse[Twin(b)].v, l |-> 1] ELSE sparse[b]]
      /\ valid' = valid \cup {t}
      /\ UNCHANGED <<doc, save, groups, curLevel, tooDeep, input, curAttr>>
      /\ dense \in [Slots -> Places] /\ sparse \in [Slots -> Places] /\ valid \subseteq Tables
  BY DEF save_cat_table, StackInv
<1>2. ASSUME NEW b \in CatSlots(t)
      PROVE  /\ b \in Slots /\ Twin(b) \in Slots /\ Kind(Twin(b)) = Kind(b)
             /\ Kind(b) \in {"cat", "widecat"}
             /\ [v |-> dense[Twin(b)].v, l |-> 1] \in Places
             /\ [v |-> sparse[Twin(b)].v, l |-> 1] \in Places
             /\ Fits(dense[Twin(b)], "dense", Twin(b)) /\ Fits(sparse[Twin(b)], "sparse", Twin(b))
  <2>1. b \in Slots /\ b[1] \in {"cat", "widecat"} /\ Kind(b) = b[1]
    BY DEF CatSlots, Kind
  <2>2. CatTable \in Tables
    BY CellsFit
  <2>3. <<b[1], CatTable, b[3]>> \in Slots
    BY <2>1, <2>2, CatAssumption
  <2>4. Twin(b) \in Slots /\ Kind(Twin(b)) = Kind(b)
    BY <2>1, <2>3 DEF Twin, Kind
  <2>5. dense[Twin(b)] \in Places /\ sparse[Twin(b)] \in Places
    BY <2>4, <1>1
  <2>6. 1 \in 1..MaxGroupLevel
    BY SlotAssumption
  <2>7. [v |-> dense[Twin(b)].v, l |-> 1] \in Places /\ [v |-> sparse[Twin(b)].v, l |-> 1] \in Places
    BY <2>5, <2>6 DEF Places
  <2>8. Fits(dense[Twin(b)], "dense", Twin(b)) /\ Fits(sparse[Twin(b)], "sparse", Twin(b))
    BY <2>4, CellsFit
  <2> QED BY <2>1, <2>4, <2>7, <2>8
<1>3. dense' \in [Slots -> Places] /\ sparse' \in [Slots -> Places] /\ valid' \subseteq Tables
  BY <1>1, <1>2
<1>4. ASSUME NEW b \in CatSlots(t)
      PROVE  /\ Fits(dense'[b], "dense", b) /\ dense'[b].l = 1
             /\ Fits(sparse'[b], "sparse", b) /\ sparse'[b].l = 1 /\ Kind(b) # "attribute"
  <2>1. /\ dense'[b] = [v |-> dense[Twin(b)].v, l |-> 1]
        /\ sparse'[b] = [v |-> sparse[Twin(b)].v, l |-> 1]
    BY <1>1, <1>2
  <2>2. b # Current /\ Kind(b) \in {"cat", "widecat"}
    <3>1. Kind(b) \in {"cat", "widecat"}
      BY <1>2
    <3>2. Kind(Current) = "table"
      BY DEF Kind, Current
    <3> QED BY <3>1, <3>2
  <2>3. IsSparse(b) <=> IsSparse(Twin(b))
    BY <1>2 DEF IsSparse
  <2>4. Fits(dense'[b], "dense", b)
    BY <2>1, <2>2, <2>3, <1>2 DEF Fits
  <2>5. Fits(sparse'[b], "sparse", b)
    BY <2>1, <2>2, <2>3, <1>2 DEF Fits
  <2> QED BY <2>1, <2>2, <2>4, <2>5
<1>6. ASSUME NEW b \in Slots
      PROVE  b \in CatSlots(t) \/ (dense'[b] = dense[b] /\ sparse'[b] = sparse[b])
  BY <1>1
<1> QED BY <1>1, <1>3, <1>4, <1>6, TablesSet

(* \lccode and \uccode: first the dense table, then the sparse one.        *)
LEMMA CaseAssign ==
    ASSUME StackInv, NEW a \in Slots, NEW v \in Values, NEW global \in BOOLEAN,
           assign_case_code(a, v, global)
    PROVE  StackInv'
<1> DEFINE byte == IF v \in Large THEN 0 ELSE v
           skipDense == ~global /\ dense[a].v = byte
           first == IF skipDense THEN save ELSE Saved(dense, "dense", a, global)
           skipSparse == v \notin Large /\ sparse[a].v = Absent
           saves == /\ ~global /\ curLevel > 1
                    /\ sparse[a].v = Absent \/ sparse[a].l # curLevel
           l == IF global THEN 1 ELSE curLevel
<1>1. /\ Running /\ Kind(a) = "case"
      /\ dense' = IF skipDense THEN dense ELSE [dense EXCEPT ![a] = [v |-> byte, l |-> l]]
      /\ sparse' = IF skipSparse THEN sparse ELSE [sparse EXCEPT ![a] = [v |-> v, l |-> l]]
      /\ save' = IF ~skipSparse /\ saves THEN Append(first, Item("sparse", a, sparse[a])) ELSE first
      /\ UnchangedRest /\ curAttr' = curAttr
  BY DEF assign_case_code, Level
<1>2. /\ dense \in [Slots -> Places] /\ sparse \in [Slots -> Places] /\ curLevel = Len(groups) + 1
      /\ Sound(save, groups, Tabled) /\ curAttr = AttrList(sparse)
      /\ Len(save) <= MaxSaveStack /\ save \in Seq(SaveItems) /\ groups \in Seq(Nat)
      /\ Len(groups) + 1 <= MaxGroupLevel
      /\ \A p \in Parts, b \in Slots : Tabled[p][b].l <= Len(groups) + 1
  BY <1>1 DEF StackInv, Running, Sound, Stacked
<1>3. Len(groups) \in Nat /\ Len(save) \in Nat /\ MaxSaveStack \in Nat /\ MaxGroupLevel \in Nat
      /\ MaxGroupLevel >= 1
  BY <1>2, SlotAssumption
<1>4. /\ "dense" \in Parts /\ "sparse" \in Parts /\ Tabled["dense"] = dense /\ Tabled["sparse"] = sparse
      /\ dense[a] \in Places /\ sparse[a] \in Places
      /\ dense[a].l <= Len(groups) + 1 /\ sparse[a].l <= Len(groups) + 1
      /\ dense[a].l \in Nat /\ sparse[a].l \in Nat
  <2>1. "dense" \in Parts /\ "sparse" \in Parts /\ Tabled["dense"] = dense /\ Tabled["sparse"] = sparse
    BY DEF Parts, Tabled
  <2>2. dense[a] \in Places /\ sparse[a] \in Places
    BY <1>2
  <2> QED BY <2>1, <2>2, <1>2, PlaceLevel
<1>5. byte \in Values /\ byte # Absent /\ v # Absent
  BY SlotAssumption
<1>6. l \in 1..MaxGroupLevel /\ l = IF global THEN 1 ELSE Len(groups) + 1
  BY <1>2, <1>3
<1> DEFINE d == [v |-> byte, l |-> l]
           e == [v |-> v, l |-> l]
           mid == [p \in Parts |-> IF p = "dense" THEN dense' ELSE sparse]
<1>7. d \in Places /\ e \in Places /\ d.l = l /\ e.l = l
  BY <1>5, <1>6 DEF Places
<1>8. Fits(d, "dense", a) /\ Fits(e, "sparse", a) /\ Kind(a) # "parshape" /\ Kind(a) # "attribute"
  <2>1. a # Current /\ ~IsSparse(a)
    BY <1>1 DEF IsSparse, Kind, Current
  <2> QED BY <2>1, <1>1, <1>5 DEF Fits
<1> HIDE DEF byte, d, e, l
<1>9. /\ dense' \in [Slots -> Places] /\ sparse' \in [Slots -> Places]
      /\ \A b \in Slots : b # a => sparse'[b] = sparse[b]
  BY <1>1, <1>2, <1>7 DEF d, e
<1>10. Sound(first, groups, mid) /\ Len(first) <= MaxSaveStack + 1
  <2>1. CASE skipDense
    <3>1. mid = Tabled
      BY <2>1, <1>1 DEF Tabled
    <3> QED BY <3>1, <2>1, <1>2, <1>3
  <2>2. CASE ~skipDense
    <3>1. mid = [Tabled EXCEPT !["dense"][a] = d]
      BY <2>2, <1>1, <1>2 DEF Tabled, Parts, d
    <3>2. first = IF ~global /\ dense[a].l < curLevel THEN Append(save, Item("dense", a, dense[a])) ELSE save
      BY <2>2 DEF Saved
    <3> HIDE DEF first, mid
    <3>3. \/ first = save /\ (d.l = 1 \/ d.l = Tabled["dense"][a].l)
          \/ /\ first = Append(save, Item("dense", a, Tabled["dense"][a]))
             /\ d.l = Len(groups) + 1 /\ Tabled["dense"][a].l <= Len(groups)
      BY <3>2, <1>2, <1>3, <1>4, <1>6, <1>7
    <3>4. Len(save) <= MaxSaveStack + 1
      BY <1>2, <1>3
    <3>5. Sound(first, groups, [Tabled EXCEPT !["dense"][a] = d])
      BY <3>3, <3>4, <1>2, <1>4, <1>7, <1>8, SoundPut
    <3>6. Len(first) = Len(save) \/ Len(first) = Len(save) + 1
      <4>1. CASE first = save
        BY <4>1
      <4>2. CASE first = Append(save, Item("dense", a, dense[a]))
        BY <4>2, <1>2
      <4> QED BY <4>1, <4>2, <3>2
    <3> QED BY <3>1, <3>5, <3>6, <1>2, <1>3
  <2> QED BY <2>1, <2>2
<1>11. mid["sparse"] = sparse
  BY <1>4
<1>12. Sound(save', groups', Tabled')
  <2>0. groups' = groups
    BY <1>1 DEF UnchangedRest
  <2>1. CASE skipSparse
    <3>1. Tabled' = mid /\ save' = first
      BY <2>1, <1>1 DEF Tabled
    <3> QED BY <3>1, <2>0, <1>10
  <2>2. CASE ~skipSparse
    <3>1. Tabled' = [mid EXCEPT !["sparse"][a] = e]
      BY <2>2, <1>1, <1>2 DEF Tabled, Parts, e
    <3>2. save' = IF saves THEN Append(first, Item("sparse", a, sparse[a])) ELSE first
      BY <2>2, <1>1
    <3>3. sparse[a].v = Absent => sparse[a].l = 1
      BY CellsFit DEF Fits
    <3> HIDE DEF first, mid
    <3>4. \/ save' = first /\ (e.l = 1 \/ e.l = mid["sparse"][a].l)
          \/ /\ save' = Append(first, Item("sparse", a, mid["sparse"][a]))
             /\ e.l = Len(groups) + 1 /\ mid["sparse"][a].l <= Len(groups)
      BY <3>2, <3>3, <1>2, <1>3, <1>4, <1>6, <1>7, <1>11
    <3>5. Sound(save', groups, [mid EXCEPT !["sparse"][a] = e])
      BY <3>4, <1>4, <1>7, <1>8, <1>10, SoundPut
    <3> QED BY <3>1, <3>5, <2>0
  <2> QED BY <2>1, <2>2
<1>13. curAttr' = AttrList(sparse')
  <2>1. \A b \in Slots : Kind(b) = "attribute" => sparse[b].v = sparse'[b].v
    BY <1>8, <1>9
  <2> QED BY <2>1, <1>1, <1>2, AttrSame
<1> QED BY <1>1, <1>9, <1>12, <1>13, RestOfStep

(* \aftergroup.                                                            *)
LEMMA AfterPushed ==
    ASSUME StackInv, NEW t \in Tokens, after_group(t)
    PROVE  StackInv'
<1> DEFINE x == [part |-> "after", token |-> t]
<1>1. /\ save' = Append(save, x) /\ UnchangedRest /\ dense' = dense /\ sparse' = sparse
      /\ curAttr' = curAttr /\ Len(save) <= MaxSaveStack
  BY DEF after_group, Running
<1>2. x \in SaveItems /\ x.part = "after"
  BY DEF SaveItems
<1>3. Sound(save, groups, Tabled) /\ save \in Seq(SaveItems)
  BY DEF StackInv, Sound, Stacked
<1>4. Len(save) <= MaxSaveStack + 1
  BY <1>1, <1>3, SlotAssumption
<1> HIDE DEF x
<1>5. Sound(Append(save, x), groups, Tabled)
  BY <1>2, <1>3, <1>4, SoundAfter
<1>6. Tabled' = Tabled /\ groups' = groups
  BY <1>1 DEF Tabled, UnchangedRest
<1>7. Sound(save', groups', Tabled')
  BY <1>1, <1>5, <1>6
<1> QED BY <1>1, <1>7, RestOfStep DEF StackInv

(* The beginning of a group, also one that is too deep.                    *)
LEMMA LevelPushed ==
    ASSUME StackInv, push_level
    PROVE  StackInv'
<1>1. CASE curLevel = MaxGroupLevel
  <2>1. tooDeep' = TRUE /\ UNCHANGED <<doc, dense, sparse, save, groups, curLevel, valid, curAttr, input>>
    BY <1>1 DEF push_level
  <2> QED BY <2>1 DEF StackInv, Tabled
<1>2. CASE curLevel # MaxGroupLevel
  <2> DEFINE x == [part |-> "level", level |-> curLevel + 1]
  <2>1. /\ groups' = Append(groups, Len(save)) /\ curLevel' = curLevel + 1 /\ save' = Append(save, x)
        /\ UNCHANGED <<tooDeep, doc, dense, sparse, valid, curAttr, input>> /\ Len(save) <= MaxSaveStack
    BY <1>2 DEF push_level, Running
  <2>2. /\ Sound(save, groups, Tabled) /\ save \in Seq(SaveItems) /\ groups \in Seq(Nat)
        /\ curLevel = Len(groups) + 1 /\ Len(groups) + 1 <= MaxGroupLevel
    BY DEF StackInv, Sound, Stacked
  <2>3. Len(groups) \in Nat /\ Len(save) \in Nat /\ MaxSaveStack \in Nat /\ MaxGroupLevel \in Nat
    BY <2>2, SlotAssumption
  <2>4. Len(groups) + 1 < MaxGroupLevel /\ Len(save) <= MaxSaveStack + 1 /\ curLevel + 1 = Len(groups) + 2
    BY <2>1, <2>2, <2>3, <1>2
  <2>5. x \in SaveItems /\ x.part = "level" /\ x.level = Len(groups) + 2
    <3>1. curLevel + 1 \in 2..MaxGroupLevel
      BY <2>3, <2>4
    <3> QED BY <3>1, <2>4 DEF SaveItems
  <2> HIDE DEF x
  <2>6. Sound(Append(save, x), Append(groups, Len(save)), Tabled)
    BY <2>2, <2>4, <2>5, SoundGroup
  <2>7. Sound(save', groups', Tabled')
    BY <2>1, <2>6 DEF Tabled
  <2>8. curLevel' = Len(groups') + 1
    BY <2>1, <2>2, <2>3
  <2> QED BY <2>1, <2>7, <2>8 DEF StackInv
<1> QED BY <1>1, <1>2

(* What the end of a group leaves.                                         *)
LEMMA PopEffect ==
    ASSUME StackInv, pop_group
    PROVE  /\ groups # <<>> /\ Sound(save', groups', Tabled') /\ curLevel' = Len(groups)
           /\ save' \in Seq(SaveItems) /\ Len(save') = groups[Len(groups)]
           /\ \A i \in 1..groups[Len(groups)] : save'[i] = save[i]
           /\ groups' \in Seq(Nat) /\ Len(groups') = Len(groups) - 1
           /\ \A n \in 1..(Len(groups) - 1) : groups'[n] = groups[n]
           /\ dense' \in [Slots -> Places] /\ sparse' \in [Slots -> Places]
           /\ \A p \in Parts, a \in Slots :
                Uncovered(save, Tabled[p][a], groups, p, a, Tabled'[p][a])
<1> DEFINE items == SubSeq(save, groups[Len(groups)] + 2, Len(save))
           st == Unsave(Tabled, items)
           h == groups[Len(groups)]
<1>1. Sound(save, groups, Tabled) /\ Stacked(save, groups, Tabled)
  BY DEF StackInv, Sound
<1>2. /\ groups # <<>> /\ dense' = st["dense"] /\ sparse' = st["sparse"]
      /\ save' = SubSeq(save, 1, h) /\ curLevel' = save[h + 1].level - 1
      /\ groups' = Front(groups)
  BY DEF pop_group, Items
<1> HIDE DEF h
<1>3. /\ st \in [Parts -> [Slots -> Places]]
      /\ \A p \in Parts, a \in Slots :
           Uncovered(save, Tabled[p][a], groups, p, a, st[p][a])
  <2> DEFINE old == Tabled
  <2>1. Stacked(save, groups, old) /\ groups # <<>>
    BY <1>1, <1>2
  <2>2. items = SubSeq(save, groups[Len(groups)] + 2, Len(save))
    OBVIOUS
  <2> HIDE DEF old, items
  <2>3. Unsave(old, items) \in [Parts -> [Slots -> Places]]
    BY ONLY <2>1, <2>2, UnsaveCell
  <2>4. \A p \in Parts, a \in Slots :
           Uncovered(save, old[p][a], groups, p, a, Unsave(old, items)[p][a])
    BY ONLY <2>1, <2>2, UnsaveCell
  <2> QED BY <2>3, <2>4 DEF old
<1>4. Tabled' = st
  <2>1. Tabled' = [p \in Parts |-> IF p = "dense" THEN st["dense"] ELSE st["sparse"]]
    BY <1>2 DEF Tabled
  <2> HIDE DEF st
  <2>2. \A p \in Parts : p # "dense" => p = "sparse"
    BY DEF Parts
  <2> QED BY <2>1, <2>2, <1>3
<1> HIDE DEF st, items
<1>5. /\ SubSeq(save, 1, h) \in Seq(SaveItems) /\ Len(SubSeq(save, 1, h)) = h
      /\ \A i \in 1..h : SubSeq(save, 1, h)[i] = save[i]
      /\ Front(groups) \in Seq(Nat) /\ Len(Front(groups)) = Len(groups) - 1
      /\ \A n \in 1..(Len(groups) - 1) : Front(groups)[n] = groups[n]
      /\ save[h + 1].level = Len(groups) + 1
      /\ Sound(SubSeq(save, 1, h), Front(groups), st)
  <2> QED BY <1>1, <1>2, <1>3, SoundPop DEF h
<1>6. curLevel' = Len(groups)
  <2>1. groups \in Seq(Nat)
    BY <1>1 DEF Stacked
  <2> QED BY <2>1, <1>2, <1>5
<1>7. dense' \in [Slots -> Places] /\ sparse' \in [Slots -> Places]
  BY <1>2, <1>3 DEF Parts
<1> QED BY <1>2, <1>3, <1>4, <1>5, <1>6, <1>7 DEF h

(* The end of a group.                                                     *)
LEMMA GroupPopped ==
    ASSUME StackInv, pop_group
    PROVE  StackInv'
<1> DEFINE items == SubSeq(save, groups[Len(groups)] + 2, Len(save))
           h == groups[Len(groups)]
           st == Unsave(Tabled, items)
<1>1. /\ save \in Seq(SaveItems) /\ groups \in Seq(Nat) /\ Boundaries(save, groups)
      /\ Len(save) <= MaxSaveStack + 2
      /\ {i \in DOMAIN save : save[i].part = "level"} = {groups[n] + 1 : n \in DOMAIN groups}
      /\ doc \in Documents /\ tooDeep \in BOOLEAN /\ valid \subseteq Tables
      /\ curAttr = AttrList(sparse) /\ groups # <<>>
      /\ sparse \in [Slots -> Places]
  BY DEF StackInv, Sound, Stacked, pop_group
<1>2. h \in Nat /\ h < Len(save) /\ Len(save) \in Nat
  <2>1. Len(groups) \in DOMAIN groups
    BY <1>1
  <2> QED BY <2>1, <1>1 DEF Boundaries
<1>3. /\ input' = AfterTokens(items) /\ curAttr' = AttrAfter(items, st) /\ sparse' = st["sparse"]
      /\ UNCHANGED <<doc, tooDeep, valid>>
  BY DEF pop_group, Items
<1> HIDE DEF h, st
<1>4. /\ items \in Seq(SaveItems) /\ Len(items) = Len(save) - h - 1
      /\ \A k \in 1..(Len(save) - h - 1) : items[k] = save[h + 1 + k]
  <2>1. items = SubSeq(save, h + 2, Len(save))
    BY DEF h
  <2> HIDE DEF items
  <2>2. save \in Seq(SaveItems)
    BY <1>1
  <2> QED BY <2>1, <2>2, <1>2, TailOf
<1> HIDE DEF items
<1>5. input' \in Seq(Tokens)
  BY <1>3, <1>4, AfterType
<1>6. /\ Sound(save', groups', Tabled') /\ curLevel' = Len(groups)
      /\ groups' \in Seq(Nat) /\ Len(groups') = Len(groups) - 1
      /\ dense' \in [Slots -> Places] /\ sparse' \in [Slots -> Places]
      /\ \A a \in Slots : \E j \in Spots(save, "sparse", a) :
             j > h + 1 /\ sparse'[a] = Entry(save, sparse[a], j)
  <2>1. "sparse" \in Parts /\ Tabled["sparse"] = sparse /\ Tabled'["sparse"] = sparse'
    BY DEF Parts, Tabled
  <2>2. /\ Sound(save', groups', Tabled') /\ curLevel' = Len(groups)
        /\ groups' \in Seq(Nat) /\ Len(groups') = Len(groups) - 1
        /\ dense' \in [Slots -> Places] /\ sparse' \in [Slots -> Places]
    BY PopEffect
  <2>3. \A p \in Parts, a \in Slots : \E j \in Spots(save, p, a) :
             j > h + 1 /\ Tabled'[p][a] = Entry(save, Tabled[p][a], j)
    BY PopEffect DEF h, Uncovered
  <2> QED BY <2>1, <2>2, <2>3
<1>7. curLevel' = Len(groups') + 1
  BY <1>1, <1>6
<1>8. curAttr' = AttrList(sparse')
  <2>1. CASE \E i \in DOMAIN items : IsOther(items[i]) /\ Kind(items[i].slot) = "attribute"
    BY <2>1, <1>3 DEF AttrAfter
  <2>2. CASE ~\E i \in DOMAIN items : IsOther(items[i]) /\ Kind(items[i].slot) = "attribute"
    <3>1. curAttr' = AttrList(sparse)
      BY <2>2, <1>1, <1>3 DEF AttrAfter
    <3>2. ASSUME NEW a \in Slots, Kind(a) = "attribute" PROVE sparse'[a] = sparse[a]
      <4>1. PICK j \in Spots(save, "sparse", a) : j > h + 1 /\ sparse'[a] = Entry(save, sparse[a], j)
        BY <1>6
      <4>2. CASE j = Top
        BY <4>1, <4>2 DEF Entry
      <4>3. CASE j # Top
        <5>1. j \in 1..Len(save) /\ save[j].part = "sparse" /\ save[j].slot = a
          BY <4>3 DEF Spots
        <5>2. j - (h + 1) \in 1..(Len(save) - h - 1) /\ h + 1 + (j - (h + 1)) = j
          BY <5>1, <4>1, <1>2
        <5>3. items[j - (h + 1)] = save[j] /\ j - (h + 1) \in DOMAIN items
          BY <5>2, <1>4
        <5>4. IsOther(save[j]) /\ Kind(save[j].slot) = "attribute"
          BY <5>1, <3>2 DEF IsOther, IsAfter, IsParShape
        <5> QED BY <5>3, <5>4, <2>2
      <4> QED BY <4>2, <4>3
    <3>3. \A b \in Slots : Kind(b) = "attribute" => sparse[b].v = sparse'[b].v
      BY <3>2
    <3> QED BY <3>1, <3>3, AttrSame
  <2> QED BY <2>1, <2>2
<1> QED BY <1>1, <1>3, <1>5, <1>6, <1>7, <1>8 DEF StackInv

-----------------------------------------------------------------------------
(* Theorems about the stack *)

\* No group is open at first.
LEMMA StackInit == Init => StackInv
<1> SUFFICES ASSUME Init PROVE StackInv
  OBVIOUS
<1>1. /\ doc \in Documents /\ save = <<>> /\ groups = <<>> /\ curLevel = 1 /\ tooDeep = FALSE
      /\ valid = {0} /\ curAttr = {} /\ input = <<>>
      /\ dense = [a \in Slots |-> [v |-> 0, l |-> 1]]
      /\ sparse = [a \in Slots |-> [v |-> Absent, l |-> 1]]
  BY DEF Init
<1>2. [v |-> 0, l |-> 1] \in Places /\ [v |-> Absent, l |-> 1] \in Places /\ 0 # Absent
  BY SlotAssumption DEF Places
<1>3. dense \in [Slots -> Places] /\ sparse \in [Slots -> Places]
  BY <1>1, <1>2
<1>4. AttrList(sparse) = {}
  BY <1>1 DEF AttrList
<1>5. ASSUME NEW p \in Parts, NEW a \in Slots
      PROVE  /\ Tabled[p][a] \in Places /\ Tabled[p][a].l = 1
             /\ Spots(save, p, a) = {Top} /\ Entry(save, Tabled[p][a], Top) = Tabled[p][a]
             /\ Fits(Tabled[p][a], p, a)
  <2>1. Tabled[p][a] = IF p = "dense" THEN [v |-> 0, l |-> 1] ELSE [v |-> Absent, l |-> 1]
    BY <1>1 DEF Tabled
  <2>2. Spots(save, p, a) = {Top} /\ Entry(save, Tabled[p][a], Top) = Tabled[p][a]
    BY <1>1 DEF Spots, Entry
  <2>3. Fits(Tabled[p][a], p, a)
    BY <2>1, <1>2, SlotAssumption DEF Fits, Parts
  <2> QED BY <2>1, <2>2, <2>3, <1>2
<1>6. Tabled \in [Parts -> [Slots -> Places]]
  BY <1>3 DEF Tabled
<1>7. \A p \in Parts, a \in Slots : Chain(save, Tabled[p][a], groups, p, a)
  BY <1>5 DEF Chain
<1>8. /\ save \in Seq(SaveItems) /\ groups \in Seq(Nat) /\ Len(save) = 0 /\ Len(groups) = 0
      /\ DOMAIN save = {} /\ DOMAIN groups = {}
  BY <1>1
<1>9. Stacked(save, groups, Tabled)
  <2>1. Len(save) <= MaxSaveStack + 2 /\ Len(groups) + 1 <= MaxGroupLevel
    BY <1>8, SlotAssumption
  <2>2. Boundaries(save, groups)
    BY <1>8 DEF Boundaries
  <2>3. {i \in DOMAIN save : save[i].part = "level"} = {groups[n] + 1 : n \in DOMAIN groups}
    BY <1>8
  <2>4. \A p \in Parts, a \in Slots : Tabled[p][a].l <= Len(groups) + 1
    BY <1>5, <1>8
  <2> QED BY <2>1, <2>2, <2>3, <2>4, <1>5, <1>6, <1>7, <1>8 DEF Stacked
<1>10. Sound(save, groups, Tabled)
  BY <1>5, <1>9 DEF Sound
<1>11. valid \subseteq Tables /\ input \in Seq(Tokens) /\ curLevel = Len(groups) + 1
  BY <1>1, <1>8, SlotAssumption
<1> QED BY <1>1, <1>3, <1>4, <1>10, <1>11 DEF StackInv

\* Assignments of every kind keep the invariant.
LEMMA AssignKept ==
    ASSUME StackInv, NEW a \in Slots, NEW v \in Values, NEW global \in BOOLEAN, Assign(a, v, global)
    PROVE  StackInv'
<1>0. Kind(Current) = "table"
  BY DEF Kind, Current
<1>1. CASE define_eq(a, v, global)
  BY <1>0, <1>1, DenseAssign DEF define_eq, IsSparse
<1>2. CASE assign_register(a, v, global)
  BY <1>0, <1>2, DenseAssign DEF assign_register, IsSparse
<1>3. CASE assign_box(a, v, global)
  BY <1>0, <1>3, DenseAssign DEF assign_box, IsSparse
<1>4. CASE assign_wide(a, v, global)
  BY <1>4, SparseAssign DEF assign_wide
<1>5. CASE assign_attribute(a, v, global)
  BY <1>5, AttributeAssign
<1>6. CASE assign_math_code_for(a, v, global)
  <2>1. Kind(a) = "overlay" /\ a # Current /\ ~IsSparse(a) /\ Running /\ UnchangedRest /\ curAttr' = curAttr
    BY <1>0, <1>6 DEF assign_math_code_for, IsSparse
  <2>2. CASE AssignDense(a, v, global)
    BY <2>1, <2>2, DenseAssign
  <2>3. CASE AssignSparse(a, v, global)
    BY <2>1, <2>3, SparseAssign
  <2> QED BY <2>2, <2>3, <1>6 DEF assign_math_code_for
<1>7. CASE assign_case_code(a, v, global)
  BY <1>7, CaseAssign
<1>8. CASE assign_shape(a, v, global)
  BY <1>0, <1>8, DenseAssign DEF assign_shape, IsSparse
<1>9. CASE assign_cat_code_in(a, v, global)
  <2>1. Kind(a) \in {"cat", "widecat"} /\ a # Current /\ Running /\ UnchangedRest /\ curAttr' = curAttr
    BY <1>0, <1>9 DEF assign_cat_code_in
  <2>2. CASE IsSparse(a)
    BY <2>1, <2>2, <1>9, SparseAssign DEF IsSparse, assign_cat_code_in
  <2>3. CASE ~IsSparse(a)
    BY <2>1, <2>3, <1>9, DenseAssign DEF assign_cat_code_in
  <2> QED BY <2>2, <2>3
<1>10. CASE assign_cat_table(a, v, global)
  <2>1. a = Current /\ v \in Tables /\ Running /\ UnchangedRest /\ curAttr' = curAttr
        /\ AssignDense(a, v, global) /\ ~IsSparse(a)
    BY <1>0, <1>10 DEF assign_cat_table, StackInv, IsSparse
  <2> QED BY <2>1, DenseAssign
<1> QED BY <1>1, <1>2, <1>3, <1>4, <1>5, <1>6, <1>7, <1>8, <1>9, <1>10 DEF Assign

\* So does a local assignment of a box.
LEMMA LocalBoxKept ==
    ASSUME StackInv, NEW a \in Slots, NEW v \in Values, assign_local_box(a, v)
    PROVE  StackInv'
<1>0. Kind(Current) = "table"
  BY DEF Kind, Current
<1> QED BY <1>0, DenseAssign DEF assign_local_box, IsSparse

(* A document assigns to slots of its own, and values of its own.          *)
LEMMA OfDocument ==
    ASSUME StackInv
    PROVE  doc.slots \subseteq Slots /\ doc.values \subseteq Values /\ doc.tokens \subseteq Tokens
<1>1. doc \in Documents
  BY DEF StackInv
<1> QED BY <1>1, SlotAssumption DEF Slots

\* And so does every step.
LEMMA StackStep == StackInv /\ [Next]_vars => StackInv'
<1> SUFFICES ASSUME StackInv, [Next]_vars PROVE StackInv'
  OBVIOUS
<1>1. doc.slots \subseteq Slots /\ doc.values \subseteq Values /\ doc.tokens \subseteq Tokens
  BY OfDocument
<1>2. CASE UNCHANGED vars
  BY <1>2 DEF vars, StackInv, Tabled
<1>3. ASSUME NEW a \in doc.slots, NEW v \in doc.values, NEW global \in BOOLEAN, Assign(a, v, global)
      PROVE  StackInv'
  BY <1>1, <1>3, AssignKept
<1>4. ASSUME NEW a \in doc.slots, NEW v \in doc.values,
             \/ assign_local_box(a, v) \/ replace_box_value(a, v) \/ set_box_untraced(a, v)
             \/ init_cat_table(a, v) \/ save_cat_table(a, v)
      PROVE  StackInv'
  BY <1>1, <1>4, LocalBoxKept, BoxReplaced, BoxSet, CatTableInit, CatTableSaved
<1>5. CASE push_level
  BY <1>5, LevelPushed
<1>6. CASE pop_group
  BY <1>6, GroupPopped
<1>7. ASSUME NEW t \in doc.tokens, after_group(t) PROVE StackInv'
  BY <1>1, <1>7, AfterPushed
<1> QED BY <1>2, <1>3, <1>4, <1>5, <1>6, <1>7 DEF Next

(* What follows from the invariant.                                        *)
LEMMA StackInvType == StackInv => TypeOK
<1> SUFFICES ASSUME StackInv PROVE TypeOK
  OBVIOUS
<1>1. /\ doc \in Documents /\ dense \in [Slots -> Places] /\ sparse \in [Slots -> Places]
      /\ curLevel = Len(groups) + 1 /\ tooDeep \in BOOLEAN /\ valid \subseteq Tables
      /\ input \in Seq(Tokens) /\ curAttr = AttrList(sparse)
      /\ save \in Seq(SaveItems) /\ groups \in Seq(Nat)
      /\ {i \in DOMAIN save : save[i].part = "level"} = {groups[n] + 1 : n \in DOMAIN groups}
      /\ \A n \in DOMAIN groups : save[groups[n] + 1].level = n + 1
      /\ \A p \in Parts, a \in Slots : Tabled[p][a].l <= Len(groups) + 1
  BY DEF StackInv, Sound, Stacked
<1>2. \A a \in Slots : dense[a].l <= curLevel /\ sparse[a].l <= curLevel
  BY <1>1 DEF Tabled, Parts
<1>3. curAttr \subseteq (Slots \X Values)
  <2>1. \A b \in Slots : sparse[b].v # Absent => sparse[b].v \in Values
    BY <1>1 DEF Places
  <2> QED BY <2>1, <1>1 DEF AttrList
<1> QED BY <1>1, <1>2, <1>3 DEF TypeOK

\* With no group open, no cell can have an inner level.
LEMMA StackInvBottom == StackInv => BottomIsGlobal
<1> SUFFICES ASSUME StackInv, curLevel = 1
             PROVE  /\ \A i \in DOMAIN save : IsAfter(save[i])
                    /\ \A a \in Slots : dense[a].l = 1 /\ sparse[a].l = 1
  BY DEF BottomIsGlobal
<1>1. /\ dense \in [Slots -> Places] /\ sparse \in [Slots -> Places]
      /\ curLevel = Len(groups) + 1 /\ save \in Seq(SaveItems) /\ groups \in Seq(Nat)
      /\ Len(save) <= MaxSaveStack + 2
      /\ {i \in DOMAIN save : save[i].part = "level"} = {groups[n] + 1 : n \in DOMAIN groups}
      /\ \A p \in Parts, a \in Slots :
            Chain(save, Tabled[p][a], groups, p, a) /\ Tabled[p][a].l <= Len(groups) + 1
  BY DEF StackInv, Sound, Stacked
<1>2. Len(groups) = 0 /\ DOMAIN groups = {}
  BY <1>1
<1>3. ASSUME NEW i \in DOMAIN save PROVE IsAfter(save[i])
  <2>1. save[i] \in SaveItems /\ save[i].part # "level"
    BY <1>1, <1>2
  <2>2. ASSUME save[i] \in [part : Parts, slot : Slots, old : Places] PROVE FALSE
    <3>1. save[i].part \in Parts /\ save[i].slot \in Slots
      BY <2>2
    <3>2. i \in Spots(save, save[i].part, save[i].slot) /\ i # Top
      <4>1. i \in 1..Len(save) /\ Len(save) \in Nat
        BY <1>1
      <4>2. i # Top
        BY <4>1, <1>1, SlotAssumption DEF Top
      <4> QED BY <4>1, <4>2 DEF Spots
    <3> QED BY <3>1, <3>2, <1>1, <1>2 DEF Chain
  <2> QED BY <2>1, <2>2 DEF SaveItems, IsAfter
<1>4. ASSUME NEW a \in Slots PROVE dense[a].l = 1 /\ sparse[a].l = 1
  <2>1. dense[a].l <= 1 /\ sparse[a].l <= 1
    BY <1>1, <1>2 DEF Tabled, Parts
  <2>2. dense[a] \in Places /\ sparse[a] \in Places
    BY <1>1
  <2> QED BY <2>1, <2>2, PlaceLevel
<1> QED BY <1>3, <1>4

\* Every value has a level of an open group, and the boundaries on the stack are those
\* of the groups, in every run of every document (eqtb.rs slot, sparse_slot,
\* push_level_with, leave_level).
THEOREM TypeCorrect == Spec => []TypeOK
<1>1. StackInv => TypeOK
  BY StackInvType
<1> QED BY <1>1, StackInit, StackStep, PTL DEF Spec

\* The cached list of attributes is the one of the registers, after each assignment
\* and after the restores of each group (eqtb.rs pop_level_general).
THEOREM AttributesAreCurrent == Spec => []AttributesCurrent
<1>1. StackInv => AttributesCurrent
  BY DEF StackInv, AttributesCurrent
<1> QED BY <1>1, StackInit, StackStep, PTL DEF Spec

\* Outside all groups every value is global and nothing is left to restore, also for
\* \parshape, whose restored value may be the wrong one (eqtb.rs pop_level_full).
THEOREM BottomGlobal == Spec => []BottomIsGlobal
<1>1. StackInv => BottomIsGlobal
  BY StackInvBottom
<1> QED BY <1>1, StackInit, StackStep, PTL DEF Spec

-----------------------------------------------------------------------------
(* Which entry shows in the groups *)

\* The entry e is the one that is left when the groups above level k have ended.
Shows(sv, c, p, a, k, e) ==
    \E i \in Spots(sv, p, a) :
        /\ e = Entry(sv, c, i) /\ e.l <= k
        /\ \A j \in Spots(sv, p, a) : j > i => Entry(sv, c, j).l > k

(* A cell that is not of an inner level shows, and hides all below it.     *)
LEMMA ShowsTop ==
    ASSUME NEW sv, Len(sv) \in Nat, Len(sv) <= MaxSaveStack + 2, NEW p, NEW a, NEW c, NEW k,
           c.l <= k, ~(c.l > k), NEW e
    PROVE  Shows(sv, c, p, a, k, e) <=> e = c
<1>1. /\ Top \in Nat /\ Top \in Spots(sv, p, a)
      /\ \A i \in Spots(sv, p, a) : i \in Nat /\ i <= Top
  BY SpotsBelow
<1>2. Entry(sv, c, Top) = c
  BY DEF Entry
<1>3. ASSUME Shows(sv, c, p, a, k, e) PROVE e = c
  <2>1. PICK i \in Spots(sv, p, a) :
           e = Entry(sv, c, i) /\ \A j \in Spots(sv, p, a) : j > i => Entry(sv, c, j).l > k
    BY <1>3 DEF Shows
  <2>2. ~(Top > i)
    BY <2>1, <1>1, <1>2
  <2>3. i = Top
    BY <2>2, <1>1
  <2> QED BY <2>1, <2>3, <1>2
<1>4. ASSUME e = c PROVE Shows(sv, c, p, a, k, e)
  <2>1. \A j \in Spots(sv, p, a) : ~(j > Top)
    BY <1>1
  <2> QED BY <2>1, <1>1, <1>2, <1>4 DEF Shows
<1> QED BY <1>3, <1>4

(* The item of another cell, a token or a boundary hides nothing.          *)
LEMMA ShowsAppend ==
    ASSUME NEW sv \in Seq(SaveItems), Len(sv) <= MaxSaveStack + 1, NEW x \in SaveItems,
           NEW p \in Parts, NEW a \in Slots, ~(x.part = p /\ x.slot = a),
           NEW c, NEW k, NEW e
    PROVE  Shows(Append(sv, x), c, p, a, k, e) <=> Shows(sv, c, p, a, k, e)
<1>1. Spots(Append(sv, x), p, a) = Spots(sv, p, a)
  <2>1. Spots(Append(sv, x), p, a) =
          Spots(sv, p, a) \cup (IF x.part = p /\ x.slot = a THEN {Len(sv) + 1} ELSE {})
    BY SpotsAppend
  <2> QED BY <2>1
<1>2. \A i \in Spots(sv, p, a) : Entry(Append(sv, x), c, i) = Entry(sv, c, i)
  BY SpotsAppend
<1> QED BY <1>1, <1>2 DEF Shows

(* A value of an inner level shows in no outer group: what it hides does.  *)
LEMMA ShowsSet ==
    ASSUME NEW sv, NEW p, NEW a, NEW c, NEW d, NEW k, c.l > k, d.l > k, ~(c.l <= k), ~(d.l <= k), NEW e
    PROVE  Shows(sv, d, p, a, k, e) <=> Shows(sv, c, p, a, k, e)
<1>1. \A i \in Spots(sv, p, a) : i # Top => Entry(sv, d, i) = Entry(sv, c, i)
  BY DEF Entry
<1>2. Entry(sv, d, Top) = d /\ Entry(sv, c, Top) = c
  BY DEF Entry
<1> QED BY <1>1, <1>2 DEF Shows

(* A value that is pushed takes the place that it had.                     *)
LEMMA ShowsPush ==
    ASSUME NEW sv \in Seq(SaveItems), Len(sv) <= MaxSaveStack + 1,
           NEW p \in Parts, NEW a \in Slots, NEW c \in Places, NEW d, NEW k, d.l > k, ~(d.l <= k), NEW e
    PROVE  Shows(Append(sv, Item(p, a, c)), d, p, a, k, e) <=> Shows(sv, c, p, a, k, e)
<1> DEFINE x == Item(p, a, c)
           new == Append(sv, x)
           n == Len(sv) + 1
           T == Spots(sv, p, a)
<1>1. x \in SaveItems /\ x.part = p /\ x.slot = a /\ x.old = c
  BY DEF Item, SaveItems
<1> HIDE DEF x
<1>2. /\ Spots(new, p, a) = T \cup {n}
      /\ \A i \in T : i # Top => Entry(new, d, i) = Entry(sv, c, i)
      /\ Entry(new, d, n) = c /\ Entry(new, d, Top) = d /\ Entry(sv, c, Top) = c
  <2>1. Spots(new, p, a) = T \cup {n} /\ Entry(new, d, n) = c
    BY <1>1, SpotsAppend
  <2>2. \A i \in T : Entry(new, d, i) = Entry(sv, d, i)
    BY <1>1, SpotsAppend
  <2> QED BY <2>1, <2>2 DEF Entry
<1>3. /\ n \in Nat /\ n < Top /\ Top \in Nat /\ Top \in T
      /\ \A i \in T : i \in Nat /\ i <= Top /\ (i # Top => i < n)
  <2>0. Len(sv) \in Nat /\ Len(sv) <= MaxSaveStack + 2
    BY SlotAssumption
  <2>1. Top \in T /\ \A i \in T : i \in Nat /\ i <= Top /\ (i # Top => i \in 1..Len(sv))
    BY <2>0, SpotsBelow
  <2>2. n \in Nat /\ n < Top /\ Top \in Nat
    BY <2>0, SlotAssumption DEF Top
  <2> QED BY <2>0, <2>1, <2>2
<1> HIDE DEF n, new, T
<1>4. ASSUME Shows(new, d, p, a, k, e) PROVE Shows(sv, c, p, a, k, e)
  <2>1. PICK i \in T \cup {n} : /\ e = Entry(new, d, i) /\ e.l <= k
                                /\ \A j \in T \cup {n} : j > i => Entry(new, d, j).l > k
    BY <1>2, <1>4 DEF Shows
  <2>2. i # Top
    BY <2>1, <1>2
  <2>3. CASE i = n
    <3>1. e = Entry(sv, c, Top) /\ \A j \in T : ~(j > Top)
      BY <2>1, <2>3, <1>2, <1>3
    <3> QED BY <3>1, <2>1, <1>3 DEF Shows, T
  <2>4. CASE i # n
    <3>1. i \in T /\ e = Entry(sv, c, i) /\ n > i
      BY <2>1, <2>2, <2>4, <1>2, <1>3
    <3>2. c.l > k
      BY <3>1, <2>1, <1>2
    <3>3. \A j \in T : j > i => Entry(sv, c, j).l > k
      BY <3>2, <2>1, <1>2
    <3> QED BY <3>1, <3>3, <2>1 DEF Shows, T
  <2> QED BY <2>3, <2>4
<1>5. ASSUME Shows(sv, c, p, a, k, e) PROVE Shows(new, d, p, a, k, e)
  <2>1. PICK i \in T : /\ e = Entry(sv, c, i) /\ e.l <= k
                       /\ \A j \in T : j > i => Entry(sv, c, j).l > k
    BY <1>5 DEF Shows, T
  <2>2. CASE i = Top
    <3>1. e = Entry(new, d, n)
      BY <2>1, <2>2, <1>2
    <3>2. \A j \in T \cup {n} : j > n => j = Top
      BY <1>3
    <3> QED BY <3>1, <3>2, <2>1, <1>2 DEF Shows
  <2>3. CASE i # Top
    <3>1. e = Entry(new, d, i) /\ Top > i
      BY <2>1, <2>3, <1>2, <1>3
    <3>2. c.l > k
      BY <3>1, <2>1, <1>2, <1>3
    <3>3. \A j \in T \cup {n} : j > i => Entry(new, d, j).l > k
      BY <3>2, <2>1, <1>2
    <3> QED BY <3>1, <3>3, <2>1, <1>2 DEF Shows
  <2> QED BY <2>2, <2>3
<1> QED BY <1>4, <1>5 DEF new, x

(* The end of a group changes nothing in the groups outside it.            *)
LEMMA ShowsPop ==
    ASSUME NEW sv \in Seq(SaveItems), Len(sv) <= MaxSaveStack + 2,
           NEW p \in Parts, NEW a \in Slots, Kind(a) # "parshape", NEW c \in Places,
           NEW gr \in Seq(Nat), gr # <<>>, Boundaries(sv, gr), Chain(sv, c, gr, p, a),
           NEW low \in Seq(SaveItems), Len(low) = gr[Len(gr)], \A i \in 1..Len(low) : low[i] = sv[i],
           NEW d, Uncovered(sv, c, gr, p, a, d), NEW k \in 1..Len(gr), NEW e
    PROVE  Shows(low, d, p, a, k, e) <=> Shows(sv, c, p, a, k, e)
<1> DEFINE h == gr[Len(gr)]
           T == Spots(sv, p, a)
<1>1. /\ Len(gr) \in Nat \ {0} /\ DOMAIN gr = 1..Len(gr)
      /\ h \in Nat /\ Len(sv) \in Nat /\ h < Len(sv)
      /\ \A n \in DOMAIN gr : gr[n] \in Nat /\ gr[n] <= h
  <2>1. /\ Len(gr) \in Nat \ {0} /\ Len(gr) \in DOMAIN gr /\ DOMAIN gr = 1..Len(gr)
        /\ \A n \in DOMAIN gr : gr[n] \in Nat /\ (n # Len(gr) => n < Len(gr))
    OBVIOUS
  <2>2. h < Len(sv) /\ \A n \in DOMAIN gr : n # Len(gr) => gr[n] < h
    BY <2>1 DEF Boundaries
  <2> QED BY <2>1, <2>2
<1>2. Top \in Nat /\ Top > Len(sv) /\ Top \in T
      /\ \A i \in T : i \in Nat /\ i <= Top /\ Entry(sv, c, i).l \in Nat
  <2>1. \A i \in T : Entry(sv, c, i).l \in Nat
    BY EntryType, PlaceLevel
  <2>2. Top \in Nat /\ Top > Len(sv)
    BY <1>1, SlotAssumption DEF Top
  <2> QED BY <2>1, <2>2, <1>1, SpotsBelow
<1>3. Spots(low, p, a) = {i \in T : i <= h} \cup {Top}
  BY <1>1, SpotsLow
<1>4. \A i \in Spots(low, p, a) : i # Top => Entry(low, d, i) = Entry(sv, c, i)
  BY DEF Entry, Spots
<1>5. PICK j \in T : /\ j > h + 1 /\ d = Entry(sv, c, j) /\ d.l <= Len(gr)
                     /\ \A i \in T : i > j => Entry(sv, c, i).l > Len(gr)
  BY DEF Uncovered
<1>5a. Entry(low, d, Top) = d
  BY DEF Entry
<1>6. ASSUME d.l > k, NEW i \in T, i < j PROVE i <= h
  <2>1. d.l \in 1..Len(gr) /\ d.l > 1
    <3>1. d.l \in Nat /\ d.l <= Len(gr) /\ d.l > k
      BY <1>2, <1>5, <1>6
    <3>2. k \in Nat /\ k >= 1 /\ Len(gr) \in Nat
      BY <1>1
    <3> QED BY ONLY <3>1, <3>2, SMT
  <2>2. i <= gr[d.l]
    BY <2>1, <1>5, <1>6 DEF Chain
  <2> QED BY <2>1, <2>2, <1>1, <1>2
<1> HIDE DEF h, T
<1>7. ASSUME Shows(low, d, p, a, k, e) PROVE Shows(sv, c, p, a, k, e)
  <2>1. PICK i \in Spots(low, p, a) :
           /\ e = Entry(low, d, i) /\ e.l <= k
           /\ \A m \in Spots(low, p, a) : m > i => Entry(low, d, m).l > k
    BY <1>7 DEF Shows
  <2>2. CASE i = Top
    <3>1. e = Entry(sv, c, j)
      BY <2>1, <2>2, <1>5, <1>5a
    <3>2. \A m \in T : m > j => Entry(sv, c, m).l > k
      BY <1>1, <1>2, <1>5
    <3> QED BY <3>1, <3>2, <2>1 DEF Shows, T
  <2>3. CASE i # Top
    <3>1. i \in T /\ i <= h /\ e = Entry(sv, c, i) /\ i \in Nat
      BY <2>1, <2>3, <1>2, <1>3, <1>4
    <3>2. d.l > k
      <4>1. Top > i /\ Top \in Spots(low, p, a)
        BY <3>1, <1>1, <1>2, <1>3
      <4> QED BY <4>1, <2>1, <1>5a
    <3>3. ASSUME NEW m \in T, m > i PROVE Entry(sv, c, m).l > k
      <4>1. CASE m <= h
        <5>1. m \in Spots(low, p, a) /\ m # Top
          BY <4>1, <1>1, <1>2, <1>3
        <5> QED BY <5>1, <3>3, <2>1, <1>4
      <4>2. CASE m = j
        BY <4>2, <3>2, <1>5
      <4>3. CASE m > j
        BY <4>3, <1>1, <1>2, <1>5
      <4>4. m < j => m <= h
        BY <3>2, <1>6
      <4>5. m \in Nat /\ j \in Nat
        BY <1>2
      <4>6. m < j \/ m = j \/ m > j
        BY <4>5
      <4> QED BY <4>1, <4>2, <4>3, <4>4, <4>6
    <3> QED BY <3>1, <3>3, <2>1 DEF Shows, T
  <2> QED BY <2>2, <2>3
<1>8. ASSUME Shows(sv, c, p, a, k, e) PROVE Shows(low, d, p, a, k, e)
  <2>1. PICK i \in T : /\ e = Entry(sv, c, i) /\ e.l <= k
                       /\ \A m \in T : m > i => Entry(sv, c, m).l > k
    BY <1>8 DEF Shows, T
  <2>2. ~(i > j)
    <3>1. i > j => e.l > Len(gr)
      BY <2>1, <1>5
    <3> QED BY <3>1, <2>1, <1>1, <1>2
  <2>3. CASE i = j
    <3>1. e = Entry(low, d, Top) /\ Top \in Spots(low, p, a)
      BY <2>1, <2>3, <1>3, <1>5, <1>5a
    <3>2. ASSUME NEW m \in Spots(low, p, a) PROVE ~(m > Top)
      <4>1. m \in T
        BY <1>2, <1>3
      <4>2. m \in Nat /\ m <= Top /\ Top \in Nat
        BY <4>1, <1>2
      <4> QED BY ONLY <4>2, SMT
    <3> QED BY <3>1, <3>2, <2>1 DEF Shows
  <2>4. CASE i < j
    <3>1. d.l > k
      BY <2>1, <2>4, <1>2, <1>5
    <3>2. i <= h /\ i # Top /\ i \in Spots(low, p, a)
      BY <3>1, <2>4, <1>1, <1>2, <1>3, <1>6
    <3>3. e = Entry(low, d, i)
      BY <3>2, <2>1, <1>4
    <3>4. ASSUME NEW m \in Spots(low, p, a), m > i PROVE Entry(low, d, m).l > k
      <4>1. CASE m = Top
        BY <4>1, <3>1, <1>5a
      <4>2. CASE m # Top
        BY <4>2, <3>4, <2>1, <1>3, <1>4
      <4> QED BY <4>1, <4>2
    <3> QED BY <3>2, <3>3, <3>4, <2>1 DEF Shows
  <2> QED BY <2>2, <2>3, <2>4, <1>2
<1> QED BY <1>7, <1>8

-----------------------------------------------------------------------------
(* The frames of the groups *)

\* The frame m decides on a in the group of level k.
Decides(fr, a, k, m) ==
    /\ m \in 1..k /\ fr[m][a] # Unbound
    /\ \A j \in (m + 1)..k : fr[j][a] = Unbound

ReadCells(d, s) == IF s.v # Absent THEN s.v ELSE d.v

\* In the group of level k the entries that will be left give what the frames say, and a
\* box is bound in just the frames in which an entry is.
Agrees(fr, sv, d, s, a, k) ==
    /\ \A m, e1, e2 : /\ Decides(fr, a, k, m)
                      /\ Shows(sv, d, "dense", a, k, e1)
                      /\ Shows(sv, s, "sparse", a, k, e2)
                      => fr[m][a] = ReadCells(e1, e2)
    /\ Kind(a) = "box" =>
         (fr[k][a] # Unbound <=> \E e : Shows(sv, d, "dense", a, k, e) /\ e.l = k)

AgreeAll(fr, sv, st) ==
    \A a \in Slots, k \in 1..Len(fr) : Agrees(fr, sv, st["dense"][a], st["sparse"][a], a, k)

Frames == [Slots -> Values \cup {Unbound}]

\* From the stack sv with the tables st to up and new nothing changes for the groups, except
\* for the slot a in the innermost one, of level n.
Keeps(sv, st, up, new, a, n) ==
    \A q \in Parts, b \in Slots, k \in 1..n :
        b # a \/ k < n =>
           \A e : Shows(up, new[q][b], q, b, k, e) <=> Shows(sv, st[q][b], q, b, k, e)

\* A cell set at the current level keeps what shows at outer ones.
LEMMA KeepsPut ==
    ASSUME NEW sv, NEW gr, NEW st, Sound(sv, gr, st), Len(sv) <= MaxSaveStack + 1,
           NEW p \in Parts, NEW a \in Slots, NEW d \in Places, d.l = Len(gr) + 1, NEW up,
           \/ up = sv /\ st[p][a].l = Len(gr) + 1
           \/ up = Append(sv, Item(p, a, st[p][a]))
    PROVE  Keeps(sv, st, up, [st EXCEPT ![p][a] = d], a, Len(gr) + 1)
<1> DEFINE new == [st EXCEPT ![p][a] = d]
           x == Item(p, a, st[p][a])
<1>1. st \in [Parts -> [Slots -> Places]] /\ sv \in Seq(SaveItems) /\ Len(gr) \in Nat
  BY DEF Sound, Stacked
<1>2. new[p][a] = d /\ \A q \in Parts, b \in Slots : ~(q = p /\ b = a) => new[q][b] = st[q][b]
  BY <1>1
<1>3. st[p][a] \in Places
  BY <1>1
<1>4. x \in SaveItems /\ x.part = p /\ x.slot = a
  BY <1>3 DEF Item, SaveItems
<1> HIDE DEF new, x
<1>5. ASSUME NEW q \in Parts, NEW b \in Slots, NEW k \in 1..(Len(gr) + 1), b # a \/ k < Len(gr) + 1, NEW e
      PROVE  Shows(up, new[q][b], q, b, k, e) <=> Shows(sv, st[q][b], q, b, k, e)
  <2>1. CASE q = p /\ b = a
    <3>1. d.l > k /\ ~(d.l <= k)
      BY <2>1, <1>1, <1>5
    <3>2. CASE up = sv /\ st[p][a].l = Len(gr) + 1
      <4>1. st[p][a].l > k /\ ~(st[p][a].l <= k)
        BY <3>1, <3>2
      <4>2. Shows(sv, d, p, a, k, e) <=> Shows(sv, st[p][a], p, a, k, e)
        BY <3>1, <4>1, ShowsSet
      <4> QED BY <4>2, <3>2, <2>1, <1>2
    <3>3. CASE up = Append(sv, Item(p, a, st[p][a]))
      <4>1. Shows(Append(sv, Item(p, a, st[p][a])), d, p, a, k, e) <=> Shows(sv, st[p][a], p, a, k, e)
        BY <3>1, <1>1, <1>3, ShowsPush
      <4> QED BY <4>1, <3>3, <2>1, <1>2
    <3> QED BY <3>2, <3>3
  <2>2. CASE ~(q = p /\ b = a)
    <3>1. new[q][b] = st[q][b]
      BY <2>2, <1>2
    <3>2. Shows(Append(sv, x), st[q][b], q, b, k, e) <=> Shows(sv, st[q][b], q, b, k, e)
      <4>1. ~(x.part = q /\ x.slot = b)
        BY <2>2, <1>4
      <4> QED BY <4>1, <1>1, <1>4, ShowsAppend
    <3> QED BY <3>1, <3>2 DEF x
  <2> QED BY <2>1, <2>2
<1> QED BY <1>5 DEF Keeps, new

(* What the frames say and what shows are the same as before.              *)
LEMMA AgreesMoved ==
    ASSUME NEW fr, NEW sv, NEW d, NEW s, NEW a, NEW k \in Nat, k >= 1, Agrees(fr, sv, d, s, a, k),
           NEW gr, NEW up, NEW d2, NEW s2,
           \A m \in 1..k : gr[m][a] = fr[m][a],
           \A e : Shows(up, d2, "dense", a, k, e) <=> Shows(sv, d, "dense", a, k, e),
           \A e : Shows(up, s2, "sparse", a, k, e) <=> Shows(sv, s, "sparse", a, k, e)
    PROVE  Agrees(gr, up, d2, s2, a, k)
<1>1. \A m : Decides(gr, a, k, m) => Decides(fr, a, k, m) /\ gr[m][a] = fr[m][a]
  BY DEF Decides
<1>2. gr[k][a] = fr[k][a]
  OBVIOUS
<1>3. ASSUME NEW m, NEW e1, NEW e2, Decides(gr, a, k, m), Shows(up, d2, "dense", a, k, e1),
             Shows(up, s2, "sparse", a, k, e2)
      PROVE  gr[m][a] = ReadCells(e1, e2)
  BY <1>1, <1>3 DEF Agrees
<1>4. Kind(a) = "box" =>
         (gr[k][a] # Unbound <=> \E e : Shows(up, d2, "dense", a, k, e) /\ e.l = k)
  BY <1>2 DEF Agrees
<1> QED BY <1>3, <1>4 DEF Agrees

(* What a sound stack shows is what was put there.                         *)
LEMMA ShownFits ==
    ASSUME NEW sv, NEW gr, NEW st, Sound(sv, gr, st), NEW p \in Parts, NEW a \in Slots, NEW k, NEW e,
           Shows(sv, st[p][a], p, a, k, e)
    PROVE  Fits(e, p, a)
BY DEF Shows, Sound

\* Nothing but the cell itself shows.
ShowsAlone(sv, c, p, a, k) == \A e : Shows(sv, c, p, a, k, e) <=> e = c

(* In the innermost group the cells themselves show.                       *)
LEMMA CellsShow ==
    ASSUME NEW sv, NEW gr, NEW st, Sound(sv, gr, st), NEW p \in Parts, NEW a \in Slots,
           NEW k \in Nat, st[p][a].l <= k
    PROVE  ShowsAlone(sv, st[p][a], p, a, k)
<1>1. st[p][a] \in Places /\ Len(sv) \in Nat /\ Len(sv) <= MaxSaveStack + 2
  BY DEF Sound, Stacked
<1>2. ~(st[p][a].l > k)
  BY <1>1, PlaceLevel
<1> QED BY <1>1, <1>2, ShowsTop DEF ShowsAlone

(* A local assignment: the innermost frame binds the slot.                 *)
LEMMA LocalAgrees ==
    ASSUME NEW sv, NEW gr, NEW st, NEW fr \in Seq(Frames), AgreeAll(fr, sv, st), Len(fr) = Len(gr) + 1,
           NEW up, NEW new, Sound(up, gr, new), NEW a \in Slots, NEW v \in Values,
           Keeps(sv, st, up, new, a, Len(gr) + 1),
           ReadCells(new["dense"][a], new["sparse"][a]) = v,
           Kind(a) = "box" => new["dense"][a].l = Len(gr) + 1
    PROVE  AgreeAll([fr EXCEPT ![Len(fr)][a] = v], up, new)
<1> DEFINE n == Len(fr)
           f2 == [fr EXCEPT ![Len(fr)][a] = v]
<1>1. n \in Nat /\ n >= 1 /\ n = Len(gr) + 1 /\ "dense" \in Parts /\ "sparse" \in Parts
  <2>1. Len(gr) \in Nat
    BY DEF Sound, Stacked
  <2> QED BY <2>1 DEF Parts
<1>2. /\ Len(f2) = n /\ f2[n][a] = v
      /\ \A m \in 1..n, b \in Slots : m # n \/ b # a => f2[m][b] = fr[m][b]
  <2>1. DOMAIN fr = 1..n /\ n \in DOMAIN fr /\ \A m \in 1..n : fr[m] \in Frames
    BY <1>1
  <2>2. f2[n][a] = v
    BY <2>1 DEF Frames
  <2>3. \A m \in 1..n, b \in Slots : m # n \/ b # a => f2[m][b] = fr[m][b]
    BY <2>1 DEF Frames
  <2>4. Len(f2) = n
    BY <2>1, <1>1
  <2> QED BY <2>2, <2>3, <2>4
<1> HIDE DEF f2, n
<1>3. ASSUME NEW b \in Slots, NEW k \in 1..n, b # a \/ k < n
      PROVE  Agrees(f2, up, new["dense"][b], new["sparse"][b], b, k)
  <2>1. Agrees(fr, sv, st["dense"][b], st["sparse"][b], b, k)
    BY DEF AgreeAll, n
  <2>2. \A m \in 1..k : f2[m][b] = fr[m][b]
    BY <1>1, <1>2, <1>3
  <2>3. \A q \in Parts : \A e : Shows(up, new[q][b], q, b, k, e) <=> Shows(sv, st[q][b], q, b, k, e)
    BY <1>1, <1>3 DEF Keeps
  <2>4. k \in Nat /\ k >= 1
    BY <1>1
  <2> QED BY <2>1, <2>2, <2>3, <2>4, <1>1, AgreesMoved
<1>4. Agrees(f2, up, new["dense"][a], new["sparse"][a], a, n)
  <2>1. \A q \in Parts : new[q][a].l <= n
    BY <1>1 DEF Sound, Stacked
  <2>1a. ASSUME NEW p \in Parts PROVE ShowsAlone(up, new[p][a], p, a, n)
    <3>1. Sound(up, gr, new) /\ new[p][a].l <= n /\ n \in Nat
      BY <2>1, <1>1
    <3> QED BY ONLY <3>1, p \in Parts, a \in Slots, CellsShow
  <2>2. \A e : Shows(up, new["dense"][a], "dense", a, n, e) <=> e = new["dense"][a]
    BY <2>1a, <1>1 DEF ShowsAlone
  <2>3. \A e : Shows(up, new["sparse"][a], "sparse", a, n, e) <=> e = new["sparse"][a]
    BY <2>1a, <1>1 DEF ShowsAlone
  <2>4. v # Unbound
    BY UnboundAssumption
  <2>5. ASSUME NEW m, Decides(f2, a, n, m) PROVE m = n
    <3>1. m \in 1..n /\ \A j \in (m + 1)..n : f2[j][a] = Unbound
      BY <2>5 DEF Decides
    <3>2. m # n => n \in (m + 1)..n
      BY <3>1, <1>1
    <3> QED BY <3>1, <3>2, <2>4, <1>2
  <2>6. ASSUME NEW m, NEW e1, NEW e2, Decides(f2, a, n, m), Shows(up, new["dense"][a], "dense", a, n, e1),
               Shows(up, new["sparse"][a], "sparse", a, n, e2)
        PROVE  f2[m][a] = ReadCells(e1, e2)
    BY <2>2, <2>3, <2>5, <2>6, <1>2
  <2>7. Kind(a) = "box" =>
           (f2[n][a] # Unbound <=> \E e : Shows(up, new["dense"][a], "dense", a, n, e) /\ e.l = n)
    BY <2>2, <2>4, <1>1, <1>2
  <2> QED BY <2>6, <2>7 DEF Agrees
<1>5. \A b \in Slots, k \in 1..n : Agrees(f2, up, new["dense"][b], new["sparse"][b], b, k)
  <2>1. \A k \in 1..n : k = n \/ k < n
    BY <1>1
  <2> QED BY <2>1, <1>3, <1>4
<1> QED BY <1>2, <1>5 DEF AgreeAll, f2

\* In the groups up to level n the slot a reads v.
AllRead(sv, st, a, n, v) ==
    \A k \in 1..n : \A e1, e2 :
        /\ Shows(sv, st["dense"][a], "dense", a, k, e1)
        /\ Shows(sv, st["sparse"][a], "sparse", a, k, e2)
        => ReadCells(e1, e2) = v

\* The frames after a global assignment to the slots in S
Globally(fr, S, f) ==
    [k \in DOMAIN fr |-> [b \in Slots |->
        IF b \notin S THEN fr[k][b] ELSE IF k = 1 THEN f[b] ELSE Unbound]]

(* Global assignments to a set of slots: all frames forget them but the    *)
(* first.                                                                  *)
LEMMA GlobalAgrees ==
    ASSUME NEW sv, NEW gr, NEW st, NEW fr \in Seq(Frames), AgreeAll(fr, sv, st), Len(fr) = Len(gr) + 1,
           NEW new, Sound(sv, gr, new), NEW S, NEW f,
           \A q \in Parts, b \in Slots : b \notin S => new[q][b] = st[q][b],
           \A b \in Slots : b \in S =>
              /\ f[b] \in Values
              /\ AllRead(sv, new, b, Len(fr), f[b])
              /\ Kind(b) = "box" => new["dense"][b].l = 1
    PROVE  AgreeAll(Globally(fr, S, f), sv, new)
<1> DEFINE n == Len(fr)
           f2 == Globally(fr, S, f)
<1>1. n \in Nat /\ n >= 1 /\ n = Len(gr) + 1 /\ "dense" \in Parts /\ "sparse" \in Parts
  <2>1. Len(gr) \in Nat
    BY DEF Sound, Stacked
  <2> QED BY <2>1 DEF Parts
<1>2. /\ Len(f2) = n
      /\ \A m \in 1..n, b \in Slots :
           /\ b \notin S => f2[m][b] = fr[m][b]
           /\ b \in S => f2[m][b] = IF m = 1 THEN f[b] ELSE Unbound
  <2>1. DOMAIN fr = 1..n /\ DOMAIN f2 = 1..n
    BY <1>1 DEF Globally
  <2>2. Len(f2) = n
    BY <2>1, <1>1
  <2> QED BY <2>1, <2>2 DEF Globally
<1> HIDE DEF f2, n
<1>3. ASSUME NEW b \in Slots, NEW k \in 1..n, b \notin S
      PROVE  Agrees(f2, sv, new["dense"][b], new["sparse"][b], b, k)
  <2>1. Agrees(fr, sv, st["dense"][b], st["sparse"][b], b, k)
    BY DEF AgreeAll, n
  <2>2. \A m \in 1..k : f2[m][b] = fr[m][b]
    BY <1>1, <1>2, <1>3
  <2>3. new["dense"][b] = st["dense"][b] /\ new["sparse"][b] = st["sparse"][b]
    BY <1>1, <1>3
  <2>4. k \in Nat /\ k >= 1
    BY <1>1
  <2> QED BY <2>1, <2>2, <2>3, <2>4, <1>1, AgreesMoved
<1>4. ASSUME NEW b \in Slots, NEW k \in 1..n, b \in S
      PROVE  Agrees(f2, sv, new["dense"][b], new["sparse"][b], b, k)
  <2>0. f[b] \in Values /\ f[b] # Unbound /\ (Kind(b) = "box" => new["dense"][b].l = 1)
    BY <1>4, UnboundAssumption
  <2>1. \A m \in 1..k : f2[m][b] = IF m = 1 THEN f[b] ELSE Unbound
    BY <1>1, <1>2, <1>4
  <2>2. ASSUME NEW m, NEW e1, NEW e2, Decides(f2, b, k, m), Shows(sv, new["dense"][b], "dense", b, k, e1),
               Shows(sv, new["sparse"][b], "sparse", b, k, e2)
        PROVE  f2[m][b] = ReadCells(e1, e2)
    <3>1. m = 1
      BY <2>1, <2>2 DEF Decides
    <3>2. f2[1][b] = f[b]
      BY <2>1, <1>1
    <3>3. ReadCells(e1, e2) = f[b]
      BY <2>2, <1>4 DEF n, AllRead
    <3> QED BY <3>1, <3>2, <3>3
  <2>3. ASSUME Kind(b) = "box"
        PROVE  f2[k][b] # Unbound <=> \E e : Shows(sv, new["dense"][b], "dense", b, k, e) /\ e.l = k
    <3>1. new["dense"][b].l <= k /\ k \in Nat /\ k \in 1..k
      BY <2>0, <2>3, <1>1
    <3>2. \A e : Shows(sv, new["dense"][b], "dense", b, k, e) <=> e = new["dense"][b]
      <4>1. \A p \in Parts : new[p][b].l <= k => ShowsAlone(sv, new[p][b], p, b, k)
        <5> SUFFICES ASSUME NEW p \in Parts, new[p][b].l <= k
                     PROVE  ShowsAlone(sv, new[p][b], p, b, k)
          OBVIOUS
        <5>1. Sound(sv, gr, new) /\ new[p][b].l <= k /\ k \in Nat
          BY <3>1
        <5> QED BY ONLY <5>1, p \in Parts, b \in Slots, CellsShow
      <4> QED BY <4>1, <3>1, <1>1 DEF ShowsAlone
    <3>3. f2[k][b] # Unbound <=> k = 1
      BY <3>1, <2>0, <2>1
    <3> QED BY <3>2, <3>3, <2>0, <2>3
  <2> QED BY <2>2, <2>3 DEF Agrees
<1> QED BY <1>2, <1>3, <1>4 DEF AgreeAll, f2

-----------------------------------------------------------------------------
(* The tokens of \aftergroup *)

\* Sequences are their elements.
LEMMA SameSeq ==
    ASSUME NEW S, NEW s \in Seq(S), NEW t \in Seq(S), Len(s) = Len(t),
           \A i \in 1..Len(s) : s[i] = t[i]
    PROVE  s = t
OBVIOUS

\* What the n-th of the groups gr has put on the stack sv
GroupItems(sv, gr, n) == SubSeq(sv, gr[n] + 2, IF n = Len(gr) THEN Len(sv) ELSE gr[n + 1])

\* Where the items of a group begin and end
LEMMA GroupBounds ==
    ASSUME NEW sv \in Seq(SaveItems), NEW gr \in Seq(Nat), Boundaries(sv, gr), NEW n \in DOMAIN gr
    PROVE  /\ n \in Nat /\ n >= 1 /\ n <= Len(gr) /\ gr[n] \in Nat /\ gr[n] < Len(sv)
           /\ n # Len(gr) => /\ n + 1 \in DOMAIN gr /\ gr[n + 1] \in Nat
                             /\ gr[n] < gr[n + 1] /\ gr[n + 1] < Len(sv)
<1>1. n \in Nat /\ n >= 1 /\ n <= Len(gr) /\ Len(gr) \in Nat /\ DOMAIN gr = 1..Len(gr)
  OBVIOUS
<1>2. gr[n] \in Nat /\ gr[n] < Len(sv)
  BY DEF Boundaries
<1>3. ASSUME n # Len(gr)
      PROVE  n + 1 \in DOMAIN gr /\ gr[n + 1] \in Nat /\ gr[n] < gr[n + 1] /\ gr[n + 1] < Len(sv)
  <2>1. n + 1 \in DOMAIN gr /\ n < n + 1
    BY <1>1, <1>3
  <2> QED BY <2>1 DEF Boundaries
<1> QED BY <1>1, <1>2, <1>3

\* A part below a change is unchanged.
LEMMA SubSeqSame ==
    ASSUME NEW sv \in Seq(SaveItems), NEW up \in Seq(SaveItems), NEW m \in Nat, m >= 1, NEW n \in Nat,
           n <= Len(sv), n <= Len(up), \A i \in 1..n : up[i] = sv[i]
    PROVE  SubSeq(up, m, n) = SubSeq(sv, m, n)
<1> DEFINE s == SubSeq(up, m, n)
           t == SubSeq(sv, m, n)
<1>1. s \in Seq(SaveItems) /\ t \in Seq(SaveItems)
  OBVIOUS
<1>2. Len(s) = Len(t) /\ Len(s) = IF m <= n THEN n - m + 1 ELSE 0
  OBVIOUS
<1>3. ASSUME NEW i \in 1..Len(s) PROVE s[i] = t[i]
  <2>1. m <= n /\ i \in 1..(n - m + 1)
    BY <1>2
  <2>2. s[i] = up[m + i - 1] /\ t[i] = sv[m + i - 1]
    BY <2>1
  <2>3. m + i - 1 \in 1..n
    BY <2>1
  <2> QED BY <2>2, <2>3
<1> HIDE DEF s, t
<1>4. s = t
  BY <1>1, <1>2, <1>3, SameSeq
<1> QED BY <1>4 DEF s, t

(* What is pushed belongs to the innermost group.                          *)
LEMMA ItemsAppend ==
    ASSUME NEW sv \in Seq(SaveItems), NEW x \in SaveItems, NEW gr \in Seq(Nat), Boundaries(sv, gr),
           NEW n \in DOMAIN gr
    PROVE  /\ GroupItems(sv, gr, n) \in Seq(SaveItems)
           /\ GroupItems(Append(sv, x), gr, n) =
                IF n = Len(gr) THEN Append(GroupItems(sv, gr, n), x) ELSE GroupItems(sv, gr, n)
<1> DEFINE up == Append(sv, x)
           h == gr[n]
<1>1. h \in Nat /\ h < Len(sv) /\ Len(sv) \in Nat
      /\ (n # Len(gr) => gr[n + 1] \in Nat /\ gr[n + 1] < Len(sv))
  BY GroupBounds
<1>2. up \in Seq(SaveItems) /\ Len(up) = Len(sv) + 1 /\ up[Len(sv) + 1] = x
      /\ \A i \in 1..Len(sv) : up[i] = sv[i]
  OBVIOUS
<1> HIDE DEF up, h
<1>3. CASE n # Len(gr)
  <2> DEFINE q == gr[n + 1]
  <2>1. GroupItems(up, gr, n) = SubSeq(up, h + 2, q) /\ GroupItems(sv, gr, n) = SubSeq(sv, h + 2, q)
    BY <1>3 DEF GroupItems, h
  <2>1a. q \in Nat /\ q < Len(sv)
    BY <1>1, <1>3
  <2> HIDE DEF q
  <2>2. q \in Nat /\ q <= Len(sv) /\ q <= Len(up) /\ h + 2 \in Nat /\ h + 2 >= 1
    <3>1. Len(up) = Len(sv) + 1 /\ Len(sv) \in Nat /\ h \in Nat
      BY <1>1, <1>2
    <3> QED BY ONLY <3>1, <2>1a, SMT
  <2>3. \A i \in 1..q : up[i] = sv[i]
    <3>1. \A i \in 1..q : i \in 1..Len(sv)
      BY ONLY <2>1a, <1>1
    <3> QED BY <3>1, <1>2
  <2>4. SubSeq(up, h + 2, q) = SubSeq(sv, h + 2, q)
    BY <2>2, <2>3, <1>2, SubSeqSame
  <2>5. SubSeq(sv, h + 2, q) \in Seq(SaveItems)
    BY <2>2
  <2> QED BY <2>1, <2>4, <2>5, <1>3 DEF up
<1>4. CASE n = Len(gr)
  <2> DEFINE s == SubSeq(up, h + 2, Len(up))
             r == SubSeq(sv, h + 2, Len(sv))
             t == Append(r, x)
  <2>1. GroupItems(up, gr, n) = s /\ GroupItems(sv, gr, n) = r
    BY <1>4 DEF GroupItems, h
  <2>2. /\ r \in Seq(SaveItems) /\ Len(r) = Len(sv) - h - 1 /\ Len(sv) - h - 1 \in Nat
        /\ \A k \in 1..(Len(sv) - h - 1) : r[k] = sv[h + 1 + k]
    BY <1>1, TailOf
  <2>3. /\ s \in Seq(SaveItems) /\ Len(s) = Len(up) - h - 1
        /\ \A k \in 1..(Len(up) - h - 1) : s[k] = up[h + 1 + k]
    <3>1. h < Len(up)
      BY <1>1, <1>2
    <3> QED BY <3>1, <1>1, <1>2, TailOf
  <2> HIDE DEF s, r
  <2>4. t \in Seq(SaveItems) /\ Len(t) = Len(r) + 1 /\ t[Len(r) + 1] = x /\ \A i \in 1..Len(r) : t[i] = r[i]
    BY <2>2
  <2> HIDE DEF t
  <2>5. Len(s) = Len(t)
    BY <2>2, <2>3, <2>4, <1>1, <1>2
  <2>6. ASSUME NEW i \in 1..Len(s) PROVE s[i] = t[i]
    <3>1. i \in 1..(Len(sv) - h) /\ Len(s) = Len(sv) - h
      BY <2>3, <1>1, <1>2
    <3>2. s[i] = up[h + 1 + i]
      BY <2>3, <3>1
    <3>3. CASE i = Len(sv) - h
      <4>1. h + 1 + i = Len(sv) + 1 /\ i = Len(r) + 1
        BY <3>3, <2>2, <1>1
      <4> QED BY <4>1, <3>2, <2>4, <1>2
    <3>4. CASE i # Len(sv) - h
      <4>1. i \in 1..(Len(sv) - h - 1) /\ h + 1 + i \in 1..Len(sv) /\ i \in 1..Len(r)
        <5>1. i \in Nat /\ i >= 1 /\ i < Len(sv) - h /\ Len(sv) \in Nat /\ h \in Nat /\ h < Len(sv)
          <6>1. i \in 1..(Len(sv) - h) /\ i # Len(sv) - h
            BY <3>1, <3>4
          <6>2. Len(sv) \in Nat /\ h \in Nat /\ h < Len(sv)
            BY <1>1
          <6> QED BY ONLY <6>1, <6>2, SMT
        <5>2. Len(r) = Len(sv) - h - 1
          BY <2>2
        <5> QED BY ONLY <5>1, <5>2, SMT
      <4> QED BY <4>1, <3>2, <2>2, <2>4, <1>2
    <3> QED BY <3>3, <3>4
  <2>7. s = t
    BY <2>3, <2>4, <2>5, <2>6, SameSeq
  <2> QED BY <2>1, <2>2, <2>7, <1>4 DEF t, up
<1> QED BY <1>3, <1>4

\* From the stack sv to up the groups gr get no tokens.
NoTokens(sv, up, gr) ==
    \A n \in DOMAIN gr : AfterTokens(GroupItems(up, gr, n)) = AfterTokens(GroupItems(sv, gr, n))

\* An item that is no \aftergroup token adds none.
LEMMA NoTokensAppend ==
    ASSUME NEW sv \in Seq(SaveItems), NEW x \in SaveItems, ~IsAfter(x), NEW gr \in Seq(Nat), Boundaries(sv, gr)
    PROVE  NoTokens(sv, Append(sv, x), gr)
<1>1. ASSUME NEW n \in DOMAIN gr
      PROVE  AfterTokens(GroupItems(Append(sv, x), gr, n)) = AfterTokens(GroupItems(sv, gr, n))
  <2> DEFINE g == GroupItems(sv, gr, n)
  <2>1. g \in Seq(SaveItems) /\ GroupItems(Append(sv, x), gr, n) = IF n = Len(gr) THEN Append(g, x) ELSE g
    BY ItemsAppend
  <2> HIDE DEF g
  <2>2. AfterTokens(Append(g, x)) = AfterTokens(g)
    BY <2>1, AfterAppend
  <2>3. AfterTokens(GroupItems(Append(sv, x), gr, n)) = AfterTokens(g)
    BY <2>1, <2>2
  <2> QED BY <2>3 DEF g
<1> QED BY <1>1 DEF NoTokens

(* A group that begins has no items, and the others keep theirs.           *)
LEMMA ItemsGroup ==
    ASSUME NEW sv \in Seq(SaveItems), NEW x \in SaveItems, NEW gr \in Seq(Nat), Boundaries(sv, gr),
           NEW n \in DOMAIN Append(gr, Len(sv))
    PROVE  GroupItems(Append(sv, x), Append(gr, Len(sv)), n) =
             IF n = Len(gr) + 1 THEN <<>> ELSE GroupItems(sv, gr, n)
<1> DEFINE up == Append(sv, x)
           in == Append(gr, Len(sv))
<1>1. up \in Seq(SaveItems) /\ Len(up) = Len(sv) + 1 /\ Len(sv) \in Nat
      /\ \A i \in 1..Len(sv) : up[i] = sv[i]
  OBVIOUS
<1>2. /\ Len(gr) \in Nat /\ Len(in) = Len(gr) + 1 /\ in[Len(gr) + 1] = Len(sv)
      /\ \A i \in 1..Len(gr) : in[i] = gr[i]
      /\ DOMAIN in = 1..(Len(gr) + 1) /\ n \in 1..(Len(gr) + 1) /\ DOMAIN gr = 1..Len(gr)
  OBVIOUS
<1> HIDE DEF up, in
<1>3. CASE n = Len(gr) + 1
  <2>1. GroupItems(up, in, n) = SubSeq(up, Len(sv) + 2, Len(sv) + 1)
    BY <1>3, <1>1, <1>2 DEF GroupItems
  <2>2. SubSeq(up, Len(sv) + 2, Len(sv) + 1) \in Seq(SaveItems)
        /\ Len(SubSeq(up, Len(sv) + 2, Len(sv) + 1)) = 0
    BY <1>1
  <2> QED BY <2>1, <2>2, <1>3 DEF up, in
<1>4. CASE n # Len(gr) + 1
  <2> DEFINE q == IF n = Len(gr) THEN Len(sv) ELSE gr[n + 1]
             h == gr[n]
  <2>1. n \in DOMAIN gr /\ n \in 1..Len(gr)
    BY <1>2, <1>4
  <2>2. h \in Nat /\ q \in Nat /\ q <= Len(sv)
    BY <2>1, <1>1, GroupBounds
  <2>3. in[n] = h /\ in[n + 1] = q
    BY <2>1, <1>2
  <2>4. GroupItems(up, in, n) = SubSeq(up, h + 2, q) /\ GroupItems(sv, gr, n) = SubSeq(sv, h + 2, q)
    BY <2>1, <2>3, <1>2, <1>4 DEF GroupItems
  <2> HIDE DEF q, h
  <2>5. h + 2 \in Nat /\ h + 2 >= 1 /\ q <= Len(up) /\ \A i \in 1..q : up[i] = sv[i]
    BY <2>2, <1>1
  <2>6. SubSeq(up, h + 2, q) = SubSeq(sv, h + 2, q)
    BY <2>2, <2>5, <1>1, SubSeqSame
  <2> QED BY <2>4, <2>6, <1>4 DEF up, in
<1> QED BY <1>3, <1>4

(* The end of a group leaves the items of the others.                      *)
LEMMA ItemsPop ==
    ASSUME NEW sv \in Seq(SaveItems), NEW gr \in Seq(Nat), Boundaries(sv, gr), gr # <<>>,
           NEW low \in Seq(SaveItems), Len(low) = gr[Len(gr)], \A i \in 1..Len(low) : low[i] = sv[i],
           NEW out \in Seq(Nat), Len(out) = Len(gr) - 1, \A n \in 1..(Len(gr) - 1) : out[n] = gr[n],
           NEW n \in DOMAIN out
    PROVE  GroupItems(low, out, n) = GroupItems(sv, gr, n)
<1> DEFINE q == gr[n + 1]
           h == gr[n]
<1>1. n \in Nat /\ Len(gr) \in Nat /\ n \in 1..(Len(gr) - 1) /\ n \in DOMAIN gr /\ n # Len(gr)
      /\ n + 1 \in DOMAIN gr /\ Len(gr) \in DOMAIN gr /\ DOMAIN gr = 1..Len(gr)
  <2>1. Len(gr) \in Nat /\ DOMAIN gr = 1..Len(gr)
    BY ONLY gr \in Seq(Nat)
  <2>2. DOMAIN out = 1..Len(out)
    BY ONLY out \in Seq(Nat)
  <2>3. n \in 1..(Len(gr) - 1)
    BY ONLY <2>2, n \in DOMAIN out, Len(out) = Len(gr) - 1
  <2>4. n \in Nat /\ n >= 1 /\ n < Len(gr)
    BY ONLY <2>1, <2>3, SMT
  <2> QED BY ONLY <2>1, <2>3, <2>4, SMT
<1>2. h \in Nat /\ q \in Nat /\ q < Len(sv) /\ Len(sv) \in Nat
  <2>1. gr[n] \in Nat /\ gr[n + 1] \in Nat /\ gr[n + 1] < Len(sv)
    BY ONLY <1>1, sv \in Seq(SaveItems), gr \in Seq(Nat), Boundaries(sv, gr), GroupBounds
  <2>2. Len(sv) \in Nat
    BY ONLY sv \in Seq(SaveItems)
  <2> QED BY ONLY <2>1, <2>2
<1>3. q <= Len(low)
  <2>1. n + 1 # Len(gr) => q < gr[Len(gr)]
    <3>1. n + 1 # Len(gr) => n + 1 < Len(gr)
      BY ONLY <1>1
    <3> QED BY ONLY <3>1, <1>1, Boundaries(sv, gr) DEF Boundaries
  <2>2. gr[Len(gr)] \in Nat /\ Len(low) = gr[Len(gr)]
    BY ONLY <1>1, gr \in Seq(Nat), Len(low) = gr[Len(gr)]
  <2>3. n + 1 = Len(gr) => q = gr[Len(gr)]
    OBVIOUS
  <2> HIDE DEF q
  <2> QED BY ONLY <2>1, <2>2, <2>3, <1>2
<1>4. GroupItems(sv, gr, n) = SubSeq(sv, h + 2, q)
  BY <1>1 DEF GroupItems
<1>5. GroupItems(low, out, n) = SubSeq(low, h + 2, q)
  <2>1. CASE n = Len(out)
    <3>1. Len(low) = q
      BY <2>1, <1>1
    <3> QED BY <3>1, <2>1, <1>1 DEF GroupItems
  <2>2. CASE n # Len(out)
    <3>1. n + 1 \in 1..(Len(gr) - 1)
      BY <2>2, <1>1
    <3> QED BY <3>1, <2>2, <1>1 DEF GroupItems
  <2> QED BY <2>1, <2>2
<1> HIDE DEF q, h
<1>6. h + 2 \in Nat /\ h + 2 >= 1 /\ q <= Len(sv) /\ \A i \in 1..q : low[i] = sv[i]
  <2>1. Len(low) \in Nat
    BY ONLY low \in Seq(SaveItems)
  <2>2. h + 2 \in Nat /\ h + 2 >= 1 /\ q <= Len(sv)
    BY ONLY <1>2
  <2>3. \A i \in 1..q : i \in 1..Len(low)
    BY ONLY <2>1, <1>2, <1>3
  <2> QED BY ONLY <2>2, <2>3, \A i \in 1..Len(low) : low[i] = sv[i]
<1>7. SubSeq(low, h + 2, q) = SubSeq(sv, h + 2, q)
  BY <1>2, <1>3, <1>6, SubSeqSame
<1> QED BY <1>4, <1>5, <1>7

-----------------------------------------------------------------------------
(* The frames and the save stack, side by side *)

ScopeInv ==
    /\ frames \in Seq(Frames) /\ Len(frames) = curLevel
    /\ \A a \in Slots : frames[1][a] # Unbound
    /\ AgreeAll(frames, save, Tabled)
    /\ after \in Seq(Seq(Tokens)) /\ Len(after) = curLevel
    /\ \A n \in DOMAIN groups : after[n + 1] = AfterTokens(GroupItems(save, groups, n))
    /\ input = given

(* A step that leaves groups and tokens alone.                             *)
LEMMA ScopeStep ==
    ASSUME ScopeInv, frames' \in Seq(Frames), Len(frames') = Len(frames),
           \A a \in Slots : frames'[1][a] # Unbound, AgreeAll(frames', save', Tabled'),
           NoTokens(save, save', groups), UNCHANGED <<after, given, groups, curLevel, input>>
    PROVE  ScopeInv'
BY DEF ScopeInv, NoTokens

(* A local assignment.                                                     *)
LEMMA LocalStep ==
    ASSUME StackInv, Sound(save', groups, Tabled'), ScopeInv, NEW a \in Slots, NEW v \in Values,
           Bind(a, v, FALSE), UNCHANGED <<groups, curLevel, input>>,
           Keeps(save, Tabled, save', Tabled', a, curLevel), NoTokens(save, save', groups),
           ReadCells(dense'[a], sparse'[a]) = v, Kind(a) = "box" => dense'[a].l = curLevel
    PROVE  ScopeInv'
<1>1. frames' = [frames EXCEPT ![Len(frames)][a] = v] /\ after' = after /\ given' = given
  BY DEF Bind, Scope!AssignLocal
<1>2. /\ frames \in Seq(Frames) /\ Len(frames) = Len(groups) + 1 /\ curLevel = Len(groups) + 1
      /\ \A b \in Slots : frames[1][b] # Unbound
      /\ AgreeAll(frames, save, Tabled) /\ groups \in Seq(Nat)
  BY DEF ScopeInv, StackInv, Sound, Stacked
<1>3. Tabled'["dense"] = dense' /\ Tabled'["sparse"] = sparse'
  BY DEF Tabled, Parts
<1>4. AgreeAll([frames EXCEPT ![Len(frames)][a] = v], save', Tabled')
  BY <1>2, <1>3, LocalAgrees
<1>5. Len(groups) \in Nat /\ DOMAIN frames = 1..(Len(groups) + 1) /\ v # Unbound
  BY <1>2, UnboundAssumption
<1>6. \A m \in 1..(Len(groups) + 1) : frames[m] \in Frames
  BY <1>2, <1>5
<1>7. [frames[Len(groups) + 1] EXCEPT ![a] = v] \in Frames
  <2>1. frames[Len(groups) + 1] \in Frames
    BY <1>5, <1>6
  <2> QED BY <2>1 DEF Frames
<1>8. frames' = [frames EXCEPT ![Len(groups) + 1] = [frames[Len(groups) + 1] EXCEPT ![a] = v]]
  BY <1>1, <1>2
<1>9. frames' \in Seq(Frames) /\ Len(frames') = Len(frames)
  BY <1>2, <1>5, <1>7, <1>8
<1>10. ASSUME NEW b \in Slots PROVE frames'[1][b] # Unbound
  <2>1. frames[1] \in Frames /\ frames[1][b] # Unbound /\ 1 \in DOMAIN frames
    BY <1>2, <1>5, <1>6
  <2>2. frames'[1] = IF Len(groups) + 1 = 1 THEN [frames[1] EXCEPT ![a] = v] ELSE frames[1]
    BY <2>1, <1>5, <1>8
  <2> QED BY <2>1, <2>2, <1>5 DEF Frames
<1>11. AgreeAll(frames', save', Tabled')
  BY <1>1, <1>4
<1> QED BY <1>1, <1>9, <1>10, <1>11, ScopeStep

(* When the cells are global the groups all read the same.                 *)
LEMMA ReadGlobal ==
    ASSUME NEW sv, NEW gr, NEW st, Sound(sv, gr, st), NEW a \in Slots, NEW v, NEW n \in Nat,
           st["sparse"][a].l = 1,
           \/ st["sparse"][a].v # Absent /\ v = st["sparse"][a].v
           \/ st["dense"][a].l = 1 /\ v = ReadCells(st["dense"][a], st["sparse"][a])
           \/ IsSparse(a) /\ st["sparse"][a].v = Absent /\ v = 0
    PROVE  AllRead(sv, st, a, n, v)
<1> SUFFICES ASSUME NEW k \in 1..n, NEW e1, NEW e2, Shows(sv, st["dense"][a], "dense", a, k, e1),
                    Shows(sv, st["sparse"][a], "sparse", a, k, e2)
             PROVE  ReadCells(e1, e2) = v
  BY DEF AllRead
<1>1. k \in Nat /\ 1 <= k /\ "dense" \in Parts /\ "sparse" \in Parts
  BY DEF Parts
<1>2. ASSUME NEW p \in Parts, st[p][a].l = 1 PROVE ShowsAlone(sv, st[p][a], p, a, k)
  <2>1. st[p][a].l <= k
    BY <1>1, <1>2
  <2> QED BY <2>1, <1>1, CellsShow
<1>3. e2 = st["sparse"][a]
  BY <1>1, <1>2 DEF ShowsAlone
<1>4. CASE st["sparse"][a].v # Absent /\ v = st["sparse"][a].v
  BY <1>3, <1>4 DEF ReadCells
<1>5. CASE st["dense"][a].l = 1 /\ v = ReadCells(st["dense"][a], st["sparse"][a])
  <2>1. e1 = st["dense"][a]
    BY <1>1, <1>2, <1>5 DEF ShowsAlone
  <2> QED BY <2>1, <1>3, <1>5
<1>6. CASE IsSparse(a) /\ st["sparse"][a].v = Absent /\ v = 0
  <2>1. \A p \in Parts : Shows(sv, st[p][a], p, a, k, e1) => Fits(e1, p, a)
    BY ShownFits
  <2>2. Fits(e1, "dense", a)
    BY <2>1, <1>1
  <2>3. e1.v = 0
    BY <2>2, <1>6 DEF Fits
  <2> QED BY <2>3, <1>3, <1>6 DEF ReadCells
<1> QED BY <1>4, <1>5, <1>6

(* A global assignment.                                                    *)
LEMMA GlobalStep ==
    ASSUME StackInv, Sound(save, groups, Tabled'), ScopeInv, NEW S, NEW f,
           Scope!AssignGlobal(S, f), UNCHANGED <<save, groups, curLevel, input>>,
           \A b \in Slots : b \notin S => dense'[b] = dense[b] /\ sparse'[b] = sparse[b],
           \A b \in Slots : b \in S =>
              /\ f[b] \in Values
              /\ AllRead(save, Tabled', b, curLevel, f[b])
              /\ Kind(b) = "box" => dense'[b].l = 1
    PROVE  ScopeInv'
<1> DEFINE f2 == Globally(frames, S, f)
<1>1. frames' = f2 /\ after' = after /\ given' = given
  BY DEF Scope!AssignGlobal, Globally
<1>2. /\ frames \in Seq(Frames) /\ Len(frames) = Len(groups) + 1 /\ curLevel = Len(groups) + 1
      /\ \A b \in Slots : frames[1][b] # Unbound
      /\ AgreeAll(frames, save, Tabled) /\ groups \in Seq(Nat)
  BY DEF ScopeInv, StackInv, Sound, Stacked
<1>3. /\ Tabled'["dense"] = dense' /\ Tabled'["sparse"] = sparse'
      /\ Tabled["dense"] = dense /\ Tabled["sparse"] = sparse
  BY DEF Tabled, Parts
<1>4. \A q \in Parts, b \in Slots : b \notin S => Tabled'[q][b] = Tabled[q][b]
  BY <1>3 DEF Parts
<1>5. \A b \in Slots : b \in S =>
         /\ f[b] \in Values
         /\ AllRead(save, Tabled', b, Len(frames), f[b])
         /\ Kind(b) = "box" => Tabled'["dense"][b].l = 1
  <2>1. Len(frames) = curLevel
    BY <1>2
  <2> QED BY <2>1, <1>3
<1>6. AgreeAll(f2, save, Tabled')
  BY <1>2, <1>4, <1>5, GlobalAgrees
<1>7. Len(groups) \in Nat /\ DOMAIN frames = 1..(Len(groups) + 1) /\ 1 \in DOMAIN frames
  BY <1>2
<1>8. ASSUME NEW k \in 1..(Len(groups) + 1) PROVE f2[k] \in Frames
  <2>1. frames[k] \in Frames
    BY <1>2, <1>7
  <2> QED BY <2>1, <1>5, <1>7 DEF Frames, Globally
<1>9. f2 \in Seq(Frames) /\ Len(f2) = Len(frames)
  <2>1. DOMAIN f2 = 1..(Len(groups) + 1)
    BY <1>7 DEF Globally
  <2>2. f2 = [k \in 1..(Len(groups) + 1) |-> f2[k]]
    BY <2>1 DEF Globally
  <2> HIDE DEF f2
  <2>3. f2 \in [1..(Len(groups) + 1) -> Frames]
    BY <2>2, <1>8
  <2>4. Len(groups) + 1 \in Nat
    BY <1>7
  <2> QED BY <2>1, <2>3, <2>4, <1>2
<1>10. ASSUME NEW b \in Slots PROVE f2[1][b] # Unbound
  BY <1>2, <1>5, <1>7, UnboundAssumption DEF Globally
<1> HIDE DEF f2
<1>11. NoTokens(save, save', groups)
  BY DEF NoTokens
<1> QED BY <1>1, <1>6, <1>9, <1>10, <1>11, ScopeStep

-----------------------------------------------------------------------------
(* Every assignment keeps both in step *)

(* An assignment of the innermost level to one cell.                       *)
LEMMA PutLocal ==
    ASSUME NEW sv, NEW gr, NEW st, Sound(sv, gr, st), Len(sv) <= MaxSaveStack + 1,
           NEW p \in Parts, NEW a \in Slots, NEW d \in Places, d.l = Len(gr) + 1, NEW up,
           \/ up = sv /\ st[p][a].l = Len(gr) + 1
           \/ up = Append(sv, Item(p, a, st[p][a]))
    PROVE  /\ Keeps(sv, st, up, [st EXCEPT ![p][a] = d], a, Len(gr) + 1)
           /\ NoTokens(sv, up, gr)
<1>1. Keeps(sv, st, up, [st EXCEPT ![p][a] = d], a, Len(gr) + 1)
  BY KeepsPut
<1>2. /\ sv \in Seq(SaveItems) /\ gr \in Seq(Nat) /\ Boundaries(sv, gr)
      /\ st \in [Parts -> [Slots -> Places]]
  BY DEF Sound, Stacked
<1>3. Item(p, a, st[p][a]) \in SaveItems /\ ~IsAfter(Item(p, a, st[p][a]))
  <2>1. st[p][a] \in Places /\ p # "after"
    BY <1>2 DEF Parts
  <2> QED BY <2>1 DEF Item, SaveItems, IsAfter
<1>4. NoTokens(sv, Append(sv, Item(p, a, st[p][a])), gr)
  BY <1>2, <1>3, NoTokensAppend
<1>5. NoTokens(sv, sv, gr)
  BY DEF NoTokens
<1> QED BY <1>1, <1>4, <1>5

\* What a local assignment of v to the slot a must do
LocalEffect(a, v) ==
    /\ Keeps(save, Tabled, save', Tabled', a, curLevel) /\ NoTokens(save, save', groups)
    /\ ReadCells(dense'[a], sparse'[a]) = v
    /\ Kind(a) = "box" => dense'[a].l = curLevel

\* A local assignment in a table of fixed size.
LEMMA DenseLocal ==
    ASSUME StackInv, Running, NEW a \in Slots, NEW v \in Values, AssignDense(a, v, FALSE),
           groups' = groups, sparse[a].v = Absent
    PROVE  LocalEffect(a, v)
<1> DEFINE d == [v |-> v, l |-> curLevel]
           c == dense[a]
<1>1. /\ dense \in [Slots -> Places] /\ sparse \in [Slots -> Places] /\ curLevel = Len(groups) + 1
      /\ Sound(save, groups, Tabled)
      /\ Len(save) <= MaxSaveStack /\ save \in Seq(SaveItems) /\ groups \in Seq(Nat)
      /\ Len(groups) + 1 <= MaxGroupLevel
      /\ \A p \in Parts, b \in Slots : Tabled[p][b].l <= Len(groups) + 1
  BY DEF StackInv, Running, Sound, Stacked
<1>2. Len(groups) \in Nat /\ Len(save) \in Nat /\ MaxSaveStack \in Nat /\ MaxGroupLevel \in Nat
  BY <1>1, SlotAssumption
<1>3. c \in Places /\ c.l \in Nat /\ c.l <= Len(groups) + 1 /\ Tabled["dense"][a] = c /\ "dense" \in Parts
  <2>1. Tabled["dense"][a] = c /\ "dense" \in Parts /\ c \in Places
    BY <1>1 DEF Tabled, Parts
  <2> QED BY <2>1, <1>1, PlaceLevel
<1>4. d \in Places /\ d.l = Len(groups) + 1
  BY <1>1, <1>2 DEF Places
<1>5. dense' = [dense EXCEPT ![a] = d] /\ sparse' = sparse
  BY DEF AssignDense, Level
<1>6. Tabled' = [Tabled EXCEPT !["dense"][a] = d]
  BY <1>1, <1>5 DEF Tabled, Parts
<1>7. dense'[a].v = v /\ dense'[a].l = curLevel /\ sparse'[a].v = Absent
  BY <1>1, <1>5
<1>8. Len(save) <= MaxSaveStack + 1
  BY <1>1, <1>2
<1>9. save' = IF c.l < curLevel THEN Append(save, Item("dense", a, c)) ELSE save
  BY DEF AssignDense, Saved
<1> HIDE DEF c, d
<1>10. \/ save' = save /\ Tabled["dense"][a].l = Len(groups) + 1
       \/ save' = Append(save, Item("dense", a, Tabled["dense"][a]))
  BY <1>1, <1>2, <1>3, <1>9
<1>11. /\ Keeps(save, Tabled, save', [Tabled EXCEPT !["dense"][a] = d], a, Len(groups) + 1)
       /\ NoTokens(save, save', groups)
  BY <1>1, <1>3, <1>4, <1>8, <1>10, PutLocal
<1> QED BY <1>1, <1>6, <1>7, <1>11 DEF LocalEffect, ReadCells

\* A local assignment in a table that grows.
LEMMA SparseLocal ==
    ASSUME StackInv, Running, NEW a \in Slots, NEW v \in Values, AssignSparse(a, v, FALSE),
           groups' = groups, Kind(a) # "box"
    PROVE  LocalEffect(a, v)
<1> DEFINE d == [v |-> v, l |-> curLevel]
           c == sparse[a]
<1>1. /\ dense \in [Slots -> Places] /\ sparse \in [Slots -> Places] /\ curLevel = Len(groups) + 1
      /\ Sound(save, groups, Tabled)
      /\ Len(save) <= MaxSaveStack /\ save \in Seq(SaveItems) /\ groups \in Seq(Nat)
      /\ Len(groups) + 1 <= MaxGroupLevel
      /\ \A p \in Parts, b \in Slots : Tabled[p][b].l <= Len(groups) + 1
  BY DEF StackInv, Running, Sound, Stacked
<1>2. Len(groups) \in Nat /\ Len(save) \in Nat /\ MaxSaveStack \in Nat /\ MaxGroupLevel \in Nat
      /\ v # Absent
  BY <1>1, SlotAssumption
<1>3. c \in Places /\ c.l \in Nat /\ c.l <= Len(groups) + 1 /\ Tabled["sparse"][a] = c /\ "sparse" \in Parts
  <2>1. Tabled["sparse"][a] = c /\ "sparse" \in Parts /\ c \in Places
    BY <1>1 DEF Tabled, Parts
  <2> QED BY <2>1, <1>1, PlaceLevel
<1>4. d \in Places /\ d.l = Len(groups) + 1
  BY <1>1, <1>2 DEF Places
<1>5. sparse' = [sparse EXCEPT ![a] = d] /\ dense' = dense
  BY DEF AssignSparse, Level
<1>6. Tabled' = [Tabled EXCEPT !["sparse"][a] = d]
  BY <1>1, <1>5 DEF Tabled, Parts
<1>7. sparse'[a].v = v
  BY <1>1, <1>5
<1>8. Len(save) <= MaxSaveStack + 1
  BY <1>1, <1>2
<1>9. save' = IF c.l < curLevel THEN Append(save, Item("sparse", a, c)) ELSE save
  BY DEF AssignSparse, Saved
<1> HIDE DEF c, d
<1>10. \/ save' = save /\ Tabled["sparse"][a].l = Len(groups) + 1
       \/ save' = Append(save, Item("sparse", a, Tabled["sparse"][a]))
  BY <1>1, <1>2, <1>3, <1>9
<1>11. /\ Keeps(save, Tabled, save', [Tabled EXCEPT !["sparse"][a] = d], a, Len(groups) + 1)
       /\ NoTokens(save, save', groups)
  BY <1>1, <1>3, <1>4, <1>8, <1>10, PutLocal
<1> QED BY <1>1, <1>2, <1>6, <1>7, <1>11 DEF LocalEffect, ReadCells

(* Two moves in a row.                                                     *)
LEMMA KeepsBoth ==
    ASSUME NEW sv, NEW st, NEW up, NEW new, NEW sv2, NEW st2, NEW a, NEW n, NEW gr,
           Keeps(sv, st, up, new, a, n), Keeps(up, new, sv2, st2, a, n),
           NoTokens(sv, up, gr), NoTokens(up, sv2, gr)
    PROVE  Keeps(sv, st, sv2, st2, a, n) /\ NoTokens(sv, sv2, gr)
BY DEF Keeps, NoTokens

\* A local assignment of \lccode or \uccode, which has both tables.
LEMMA CaseLocal ==
    ASSUME StackInv, NEW a \in Slots, NEW v \in Values, assign_case_code(a, v, FALSE)
    PROVE  LocalEffect(a, v)
<1> DEFINE byte == IF v \in Large THEN 0 ELSE v
           skipDense == dense[a].v = byte
           first == IF skipDense THEN save ELSE Saved(dense, "dense", a, FALSE)
           skipSparse == v \notin Large /\ sparse[a].v = Absent
           saves == curLevel > 1 /\ (sparse[a].v = Absent \/ sparse[a].l # curLevel)
           l == curLevel
<1>1. /\ Running /\ Kind(a) = "case"
      /\ dense' = IF skipDense THEN dense ELSE [dense EXCEPT ![a] = [v |-> byte, l |-> l]]
      /\ sparse' = IF skipSparse THEN sparse ELSE [sparse EXCEPT ![a] = [v |-> v, l |-> l]]
      /\ save' = IF ~skipSparse /\ saves THEN Append(first, Item("sparse", a, sparse[a])) ELSE first
      /\ UnchangedRest
  BY DEF assign_case_code, Level
<1>2. /\ dense \in [Slots -> Places] /\ sparse \in [Slots -> Places] /\ curLevel = Len(groups) + 1
      /\ Sound(save, groups, Tabled)
      /\ Len(save) <= MaxSaveStack /\ save \in Seq(SaveItems) /\ groups \in Seq(Nat)
      /\ Len(groups) + 1 <= MaxGroupLevel
      /\ \A p \in Parts, b \in Slots : Tabled[p][b].l <= Len(groups) + 1
  BY <1>1 DEF StackInv, Running, Sound, Stacked
<1>3. Len(groups) \in Nat /\ Len(save) \in Nat /\ MaxSaveStack \in Nat /\ MaxGroupLevel \in Nat
      /\ MaxGroupLevel >= 1
  BY <1>2, SlotAssumption
<1>4. /\ "dense" \in Parts /\ "sparse" \in Parts /\ Tabled["dense"] = dense /\ Tabled["sparse"] = sparse
      /\ dense[a] \in Places /\ sparse[a] \in Places
      /\ dense[a].l <= Len(groups) + 1 /\ sparse[a].l <= Len(groups) + 1
      /\ dense[a].l \in Nat /\ sparse[a].l \in Nat
  <2>1. "dense" \in Parts /\ "sparse" \in Parts /\ Tabled["dense"] = dense /\ Tabled["sparse"] = sparse
    BY DEF Parts, Tabled
  <2>2. dense[a] \in Places /\ sparse[a] \in Places
    BY <1>2
  <2> QED BY <2>1, <2>2, <1>2, PlaceLevel
<1>5. byte \in Values /\ byte # Absent /\ v # Absent
  BY SlotAssumption
<1>6. l \in 1..MaxGroupLevel /\ l = Len(groups) + 1
  BY <1>2, <1>3
<1> DEFINE d == [v |-> byte, l |-> l]
           e == [v |-> v, l |-> l]
           mid == [p \in Parts |-> IF p = "dense" THEN dense' ELSE sparse]
<1>7. d \in Places /\ e \in Places /\ d.l = Len(groups) + 1 /\ e.l = Len(groups) + 1
  BY <1>5, <1>6 DEF Places
<1>8. Fits(d, "dense", a) /\ Kind(a) # "parshape"
  <2>1. a # Current /\ ~IsSparse(a)
    BY <1>1 DEF IsSparse, Kind, Current
  <2> QED BY <2>1, <1>1, <1>5 DEF Fits
<1>8a. ReadCells(dense'[a], sparse'[a]) = v /\ Kind(a) # "box"
  <2>1. CASE skipSparse
    <3>1. sparse'[a].v = Absent /\ dense'[a].v = v
      BY <2>1, <1>1, <1>2
    <3> QED BY <3>1, <1>1 DEF ReadCells
  <2>2. CASE ~skipSparse
    <3>1. sparse'[a].v = v
      BY <2>2, <1>1, <1>2
    <3> QED BY <3>1, <1>1, <1>5 DEF ReadCells
  <2> QED BY <2>1, <2>2
<1> HIDE DEF byte, d, e, l
<1>9. Len(save) <= MaxSaveStack + 1
  BY <1>2, <1>3
<1>10. /\ Sound(first, groups, mid) /\ Len(first) <= MaxSaveStack + 1
       /\ Keeps(save, Tabled, first, mid, a, Len(groups) + 1) /\ NoTokens(save, first, groups)
  <2>1. CASE skipDense
    <3>1. mid = Tabled
      BY <2>1, <1>1 DEF Tabled
    <3>2. Keeps(save, Tabled, save, Tabled, a, Len(groups) + 1) /\ NoTokens(save, save, groups)
      BY DEF Keeps, NoTokens
    <3> QED BY <3>1, <3>2, <2>1, <1>2, <1>9
  <2>2. CASE ~skipDense
    <3>1. mid = [Tabled EXCEPT !["dense"][a] = d]
      BY <2>2, <1>1, <1>2 DEF Tabled, Parts, d
    <3>2. first = IF dense[a].l < curLevel THEN Append(save, Item("dense", a, dense[a])) ELSE save
      BY <2>2 DEF Saved
    <3> HIDE DEF first, mid
    <3>3. /\ \/ first = save /\ (d.l = 1 \/ d.l = Tabled["dense"][a].l)
             \/ /\ first = Append(save, Item("dense", a, Tabled["dense"][a]))
                /\ d.l = Len(groups) + 1 /\ Tabled["dense"][a].l <= Len(groups)
          /\ \/ first = save /\ Tabled["dense"][a].l = Len(groups) + 1
             \/ first = Append(save, Item("dense", a, Tabled["dense"][a]))
      BY <3>2, <1>2, <1>3, <1>4, <1>7
    <3>5. Sound(first, groups, [Tabled EXCEPT !["dense"][a] = d])
      BY <3>3, <1>2, <1>4, <1>7, <1>8, <1>9, SoundPut
    <3>6. Len(first) = Len(save) \/ Len(first) = Len(save) + 1
      <4>1. CASE first = save
        BY <4>1
      <4>2. CASE first = Append(save, Item("dense", a, dense[a]))
        BY <4>2, <1>2
      <4> QED BY <4>1, <4>2, <3>2
    <3>7. /\ Keeps(save, Tabled, first, [Tabled EXCEPT !["dense"][a] = d], a, Len(groups) + 1)
          /\ NoTokens(save, first, groups)
      BY <3>3, <1>2, <1>4, <1>7, <1>9, PutLocal
    <3> QED BY <3>1, <3>5, <3>6, <3>7, <1>2, <1>3
  <2> QED BY <2>1, <2>2
<1>11. mid["sparse"] = sparse
  BY <1>4
<1>12. Keeps(first, mid, save', Tabled', a, Len(groups) + 1) /\ NoTokens(first, save', groups)
  <2>1. CASE skipSparse
    <3>1. Tabled' = mid /\ save' = first
      BY <2>1, <1>1 DEF Tabled
    <3> QED BY <3>1 DEF Keeps, NoTokens
  <2>2. CASE ~skipSparse
    <3>1. Tabled' = [mid EXCEPT !["sparse"][a] = e]
      BY <2>2, <1>1, <1>2 DEF Tabled, Parts, e
    <3>2. save' = IF saves THEN Append(first, Item("sparse", a, sparse[a])) ELSE first
      BY <2>2, <1>1
    <3>3. sparse[a].v = Absent => sparse[a].l = 1
      BY CellsFit DEF Fits
    <3> HIDE DEF first, mid
    <3>4. \/ save' = first /\ mid["sparse"][a].l = Len(groups) + 1
          \/ save' = Append(first, Item("sparse", a, mid["sparse"][a]))
      <4>1. sparse[a].l >= 1
        BY <1>4 DEF Places
      <4>2. ~saves => sparse[a].l = Len(groups) + 1
        BY <4>1, <3>3, <1>2, <1>3, <1>4
      <4> QED BY <4>2, <3>2, <1>11
    <3>5. /\ Keeps(first, mid, save', [mid EXCEPT !["sparse"][a] = e], a, Len(groups) + 1)
          /\ NoTokens(first, save', groups)
      BY <3>4, <1>4, <1>7, <1>10, PutLocal
    <3> QED BY <3>1, <3>5
  <2> QED BY <2>1, <2>2
<1> HIDE DEF first, mid
<1>13. Keeps(save, Tabled, save', Tabled', a, Len(groups) + 1) /\ NoTokens(save, save', groups)
  BY <1>10, <1>12, KeepsBoth
<1> QED BY <1>13, <1>8a, <1>2 DEF LocalEffect

\* What a local assignment does to the entries of its cell.
LEMMA AssignLocally ==
    ASSUME StackInv, NEW a \in Slots, NEW v \in Values, Assign(a, v, FALSE)
    PROVE  LocalEffect(a, v) /\ UnchangedRest
<1>0. ~IsSparse(a) /\ Kind(a) \notin {"overlay", "case"} => sparse[a].v = Absent
  BY CellsFit DEF Fits
<1>1. ASSUME Running, AssignDense(a, v, FALSE), UnchangedRest, sparse[a].v = Absent
      PROVE  LocalEffect(a, v) /\ UnchangedRest
  BY <1>1, DenseLocal DEF UnchangedRest
<1>2. ASSUME Running, AssignSparse(a, v, FALSE), UnchangedRest, Kind(a) # "box"
      PROVE  LocalEffect(a, v) /\ UnchangedRest
  BY <1>2, SparseLocal DEF UnchangedRest
<1>3. CASE define_eq(a, v, FALSE) \/ assign_register(a, v, FALSE) \/ assign_box(a, v, FALSE)
  <2>1. Running /\ AssignDense(a, v, FALSE) /\ UnchangedRest /\ Kind(a) \in {"name", "register", "box"}
    BY <1>3 DEF define_eq, assign_register, assign_box
  <2>2. sparse[a].v = Absent
    BY <2>1, <1>0 DEF IsSparse
  <2> QED BY <2>1, <2>2, <1>1
<1>4. CASE assign_wide(a, v, FALSE) \/ assign_attribute(a, v, FALSE)
  <2>1. Running /\ AssignSparse(a, v, FALSE) /\ UnchangedRest /\ Kind(a) # "box"
    BY <1>4 DEF assign_wide, assign_attribute
  <2> QED BY <2>1, <1>2
<1>5. CASE assign_math_code_for(a, v, FALSE)
  <2>1. /\ Running /\ UnchangedRest /\ Kind(a) # "box"
        /\ \/ AssignDense(a, v, FALSE) /\ sparse[a].v = Absent
           \/ AssignSparse(a, v, FALSE)
    BY <1>5 DEF assign_math_code_for
  <2> QED BY <2>1, <1>1, <1>2
<1>6. CASE assign_case_code(a, v, FALSE)
  <2>1. UnchangedRest
    BY <1>6 DEF assign_case_code
  <2> QED BY <2>1, <1>6, CaseLocal
<1>7. CASE assign_shape(a, v, FALSE)
  <2>1. Running /\ AssignDense(a, v, FALSE) /\ UnchangedRest /\ Kind(a) \in {"shape", "parshape"}
    BY <1>7 DEF assign_shape
  <2>2. sparse[a].v = Absent
    BY <2>1, <1>0 DEF IsSparse
  <2> QED BY <2>1, <2>2, <1>1
<1>8. CASE assign_cat_code_in(a, v, FALSE)
  <2>1. /\ Running /\ UnchangedRest /\ Kind(a) \in {"cat", "widecat"}
        /\ \/ AssignDense(a, v, FALSE) /\ ~IsSparse(a)
           \/ AssignSparse(a, v, FALSE)
    BY <1>8 DEF assign_cat_code_in
  <2> QED BY <2>1, <1>0, <1>1, <1>2
<1>9. CASE assign_cat_table(a, v, FALSE)
  <2>1. Running /\ AssignDense(a, v, FALSE) /\ UnchangedRest /\ Kind(a) = "table"
    BY <1>9 DEF assign_cat_table, Kind, Current
  <2>2. sparse[a].v = Absent
    BY <2>1, <1>0 DEF IsSparse
  <2> QED BY <2>1, <2>2, <1>1
<1> QED BY <1>3, <1>4, <1>5, <1>6, <1>7, <1>8, <1>9 DEF Assign

\* What a global assignment of v to the slot a must do
GlobalEffect(a, v) ==
    /\ save' = save
    /\ \A b \in Slots : b # a => dense'[b] = dense[b] /\ sparse'[b] = sparse[b]
    /\ sparse'[a].l = 1
    /\ \/ sparse'[a].v # Absent /\ v = sparse'[a].v
       \/ dense'[a].l = 1 /\ v = ReadCells(dense'[a], sparse'[a])
    /\ Kind(a) = "box" => dense'[a].l = 1

\* A global assignment in a table of fixed size.
LEMMA DenseGlobal ==
    ASSUME StackInv, NEW a \in Slots, NEW v \in Values, AssignDense(a, v, TRUE), sparse[a].v = Absent
    PROVE  GlobalEffect(a, v)
<1>1. dense' = [dense EXCEPT ![a] = [v |-> v, l |-> 1]] /\ sparse' = sparse /\ save' = save
  BY DEF AssignDense, Saved, Level
<1>2. dense \in [Slots -> Places]
  BY DEF StackInv
<1>3. sparse[a].l = 1
  BY CellsFit DEF Fits
<1>4. dense'[a].l = 1 /\ dense'[a].v = v /\ \A b \in Slots : b # a => dense'[b] = dense[b]
  BY <1>1, <1>2
<1>5. ReadCells(dense'[a], sparse'[a]) = v
  BY <1>1, <1>4 DEF ReadCells
<1> QED BY <1>1, <1>3, <1>4, <1>5 DEF GlobalEffect

\* A global assignment in a table that grows.
LEMMA SparseGlobal ==
    ASSUME StackInv, NEW a \in Slots, NEW v \in Values, AssignSparse(a, v, TRUE), Kind(a) # "box"
    PROVE  GlobalEffect(a, v)
<1>1. sparse' = [sparse EXCEPT ![a] = [v |-> v, l |-> 1]] /\ dense' = dense /\ save' = save
  BY DEF AssignSparse, Saved, Level
<1>2. sparse \in [Slots -> Places]
  BY DEF StackInv
<1>3. sparse'[a].l = 1 /\ sparse'[a].v = v /\ \A b \in Slots : b # a => sparse'[b] = sparse[b]
  BY <1>1, <1>2
<1>4. v # Absent
  BY SlotAssumption
<1> QED BY <1>1, <1>3, <1>4 DEF GlobalEffect

\* A global assignment of \lccode or \uccode.
LEMMA CaseGlobal ==
    ASSUME StackInv, NEW a \in Slots, NEW v \in Values, assign_case_code(a, v, TRUE)
    PROVE  GlobalEffect(a, v)
<1> DEFINE byte == IF v \in Large THEN 0 ELSE v
           skipSparse == v \notin Large /\ sparse[a].v = Absent
<1>1. /\ dense' = [dense EXCEPT ![a] = [v |-> byte, l |-> 1]]
      /\ sparse' = IF skipSparse THEN sparse ELSE [sparse EXCEPT ![a] = [v |-> v, l |-> 1]]
      /\ save' = save /\ Kind(a) = "case"
  BY DEF assign_case_code, Level, Saved
<1>2. dense \in [Slots -> Places] /\ sparse \in [Slots -> Places] /\ v # Absent
  BY SlotAssumption DEF StackInv
<1>3. sparse[a].v = Absent => sparse[a].l = 1
  BY CellsFit DEF Fits
<1>4. /\ dense'[a].l = 1 /\ dense'[a].v = byte
      /\ \A b \in Slots : b # a => dense'[b] = dense[b] /\ sparse'[b] = sparse[b]
  BY <1>1, <1>2
<1>5. CASE skipSparse
  <2>1. sparse'[a].l = 1 /\ ReadCells(dense'[a], sparse'[a]) = v
    BY <1>1, <1>3, <1>4, <1>5 DEF ReadCells
  <2> QED BY <2>1, <1>1, <1>4 DEF GlobalEffect
<1>6. CASE ~skipSparse
  <2>1. sparse'[a].l = 1 /\ sparse'[a].v = v
    BY <1>1, <1>2, <1>6
  <2> QED BY <2>1, <1>1, <1>2, <1>4 DEF GlobalEffect
<1> QED BY <1>5, <1>6

\* What a global assignment does to the entries of its cell.
LEMMA AssignGlobally ==
    ASSUME StackInv, NEW a \in Slots, NEW v \in Values, Assign(a, v, TRUE)
    PROVE  GlobalEffect(a, v) /\ UnchangedRest
<1>0. ~IsSparse(a) /\ Kind(a) \notin {"overlay", "case"} => sparse[a].v = Absent
  BY CellsFit DEF Fits
<1>1. ASSUME AssignDense(a, v, TRUE), UnchangedRest, sparse[a].v = Absent
      PROVE  GlobalEffect(a, v) /\ UnchangedRest
  BY <1>1, DenseGlobal
<1>2. ASSUME AssignSparse(a, v, TRUE), UnchangedRest, Kind(a) # "box"
      PROVE  GlobalEffect(a, v) /\ UnchangedRest
  BY <1>2, SparseGlobal
<1>3. CASE define_eq(a, v, TRUE) \/ assign_register(a, v, TRUE) \/ assign_box(a, v, TRUE)
  <2>1. AssignDense(a, v, TRUE) /\ UnchangedRest /\ Kind(a) \in {"name", "register", "box"}
    BY <1>3 DEF define_eq, assign_register, assign_box
  <2>2. sparse[a].v = Absent
    BY <2>1, <1>0 DEF IsSparse
  <2> QED BY <2>1, <2>2, <1>1
<1>4. CASE assign_wide(a, v, TRUE) \/ assign_attribute(a, v, TRUE)
  <2>1. AssignSparse(a, v, TRUE) /\ UnchangedRest /\ Kind(a) # "box"
    BY <1>4 DEF assign_wide, assign_attribute
  <2> QED BY <2>1, <1>2
<1>5. CASE assign_math_code_for(a, v, TRUE)
  <2>1. /\ UnchangedRest /\ Kind(a) # "box"
        /\ \/ AssignDense(a, v, TRUE) /\ sparse[a].v = Absent
           \/ AssignSparse(a, v, TRUE)
    BY <1>5 DEF assign_math_code_for
  <2> QED BY <2>1, <1>1, <1>2
<1>6. CASE assign_case_code(a, v, TRUE)
  <2>1. UnchangedRest
    BY <1>6 DEF assign_case_code
  <2> QED BY <2>1, <1>6, CaseGlobal
<1>7. CASE assign_shape(a, v, TRUE)
  <2>1. AssignDense(a, v, TRUE) /\ UnchangedRest /\ Kind(a) \in {"shape", "parshape"}
    BY <1>7 DEF assign_shape
  <2>2. sparse[a].v = Absent
    BY <2>1, <1>0 DEF IsSparse
  <2> QED BY <2>1, <2>2, <1>1
<1>8. CASE assign_cat_code_in(a, v, TRUE)
  <2>1. /\ UnchangedRest /\ Kind(a) \in {"cat", "widecat"}
        /\ \/ AssignDense(a, v, TRUE) /\ ~IsSparse(a)
           \/ AssignSparse(a, v, TRUE)
    BY <1>8 DEF assign_cat_code_in
  <2> QED BY <2>1, <1>0, <1>1, <1>2
<1>9. CASE assign_cat_table(a, v, TRUE)
  <2>1. AssignDense(a, v, TRUE) /\ UnchangedRest /\ Kind(a) = "table"
    BY <1>9 DEF assign_cat_table, Kind, Current
  <2>2. sparse[a].v = Absent
    BY <2>1, <1>0 DEF IsSparse
  <2> QED BY <2>1, <2>2, <1>1
<1> QED BY <1>3, <1>4, <1>5, <1>6, <1>7, <1>8, <1>9 DEF Assign

(* An assignment, together with the one to the frames.                     *)
LEMMA AssignScoped ==
    ASSUME StackInv, StackInv', ScopeInv, NEW a \in Slots, NEW v \in Values, NEW global \in BOOLEAN,
           global => GlobalEffect(a, v), ~global => LocalEffect(a, v), UnchangedRest, Bind(a, v, global)
    PROVE  ScopeInv'
<1>1. UNCHANGED <<groups, curLevel, input>> /\ Sound(save', groups, Tabled')
  BY DEF UnchangedRest, StackInv
<1>2. CASE ~global
  <2>1. LocalEffect(a, v) /\ Bind(a, v, FALSE)
    BY <1>2
  <2> QED BY <2>1, <1>1, LocalStep DEF LocalEffect
<1>3. CASE global
  <2> DEFINE f == [b \in {a} |-> v]
  <2>1. GlobalEffect(a, v) /\ Scope!AssignGlobal({a}, f)
    BY <1>3 DEF Bind
  <2>2. save' = save /\ Sound(save, groups, Tabled')
    BY <2>1, <1>1 DEF GlobalEffect
  <2>3. f[a] = v
    OBVIOUS
  <2> HIDE DEF f
  <2>4. Tabled'["dense"] = dense' /\ Tabled'["sparse"] = sparse'
    BY DEF Tabled, Parts
  <2>5. curLevel \in Nat
    <3>1. curLevel = Len(groups) + 1 /\ groups \in Seq(Nat)
      BY DEF StackInv, Sound, Stacked
    <3> QED BY ONLY <3>1
  <2>6. AllRead(save, Tabled', a, curLevel, v)
    BY <2>1, <2>2, <2>4, <2>5, ReadGlobal DEF GlobalEffect
  <2>7. \A b \in Slots : b \notin {a} => dense'[b] = dense[b] /\ sparse'[b] = sparse[b]
    BY <2>1 DEF GlobalEffect
  <2>8. \A b \in Slots : b \in {a} =>
           f[b] \in Values /\ AllRead(save, Tabled', b, curLevel, f[b]) /\ (Kind(b) = "box" => dense'[b].l = 1)
    BY <2>1, <2>3, <2>6 DEF GlobalEffect
  <2> QED BY <2>1, <2>2, <2>7, <2>8, <1>1, GlobalStep
<1> QED BY <1>2, <1>3

\* A local assignment of a box binds it in the innermost frame.
LEMMA LocalBoxScoped ==
    ASSUME StackInv, StackInv', ScopeInv, NEW a \in Slots, NEW v \in Values,
           assign_local_box(a, v), Bind(a, v, FALSE)
    PROVE  ScopeInv'
<1>1. Running /\ AssignDense(a, v, FALSE) /\ UnchangedRest /\ groups' = groups /\ Kind(a) = "localbox"
  BY DEF assign_local_box, UnchangedRest
<1>2. sparse[a].v = Absent
  BY <1>1, CellsFit DEF Fits, IsSparse
<1>3. LocalEffect(a, v)
  BY <1>1, <1>2, DenseLocal
<1> QED BY <1>1, <1>3, AssignScoped

\* A box that the page builder stores is bound in all of them.
LEMMA BoxSetScoped ==
    ASSUME StackInv, StackInv', ScopeInv, NEW a \in Slots, NEW v \in Values,
           set_box_untraced(a, v), Bind(a, v, TRUE)
    PROVE  ScopeInv'
<1>1. /\ dense' = [dense EXCEPT ![a] = [v |-> v, l |-> 1]] /\ sparse' = sparse /\ save' = save
      /\ UnchangedRest /\ Kind(a) = "box"
  BY DEF set_box_untraced
<1>2. dense \in [Slots -> Places]
  BY DEF StackInv
<1>3. sparse[a].v = Absent /\ sparse[a].l = 1
  BY <1>1, CellsFit DEF Fits, IsSparse
<1>4. dense'[a].l = 1 /\ dense'[a].v = v /\ \A b \in Slots : b # a => dense'[b] = dense[b]
  BY <1>1, <1>2
<1>5. ReadCells(dense'[a], sparse'[a]) = v
  BY <1>1, <1>3, <1>4 DEF ReadCells
<1>6. GlobalEffect(a, v)
  BY <1>1, <1>3, <1>4, <1>5 DEF GlobalEffect
<1> QED BY <1>1, <1>6, AssignScoped

(* A whole category code table is assigned to.                             *)
LEMMA TableScoped ==
    ASSUME StackInv, StackInv', ScopeInv, NEW t, NEW f,
           Scope!AssignGlobal(CatSlots(t), f),
           UNCHANGED <<save, groups, curLevel, input>>,
           \A b \in Slots : b \notin CatSlots(t) => dense'[b] = dense[b] /\ sparse'[b] = sparse[b],
           \A b \in Slots : b \in CatSlots(t) =>
              /\ f[b] \in Values /\ sparse'[b].l = 1
              /\ \/ dense'[b].l = 1 /\ f[b] = ReadCells(dense'[b], sparse'[b])
                 \/ IsSparse(b) /\ sparse'[b].v = Absent /\ f[b] = 0
    PROVE  ScopeInv'
<1>1. Sound(save, groups, Tabled')
  BY DEF StackInv
<1>2. Tabled'["dense"] = dense' /\ Tabled'["sparse"] = sparse'
  BY DEF Tabled, Parts
<1>3. curLevel \in Nat
  <2>1. curLevel = Len(groups) + 1 /\ groups \in Seq(Nat)
    BY DEF StackInv, Sound, Stacked
  <2> QED BY ONLY <2>1
<1>4. ASSUME NEW b \in Slots, b \in CatSlots(t)
      PROVE  f[b] \in Values /\ AllRead(save, Tabled', b, curLevel, f[b]) /\ Kind(b) # "box"
  <2>1. Kind(b) # "box"
    BY <1>4 DEF CatSlots
  <2>2. /\ Tabled'["sparse"][b].l = 1
        /\ \/ Tabled'["dense"][b].l = 1 /\ f[b] = ReadCells(Tabled'["dense"][b], Tabled'["sparse"][b])
           \/ IsSparse(b) /\ Tabled'["sparse"][b].v = Absent /\ f[b] = 0
    BY <1>2, <1>4
  <2>3. AllRead(save, Tabled', b, curLevel, f[b])
    BY <2>2, <1>1, <1>3, ReadGlobal
  <2> QED BY <2>1, <2>3, <1>4
<1> QED BY <1>1, <1>4, GlobalStep

\* A catcode table of IniTeX is bound in all frames.
LEMMA TableInitScoped ==
    ASSUME StackInv, StackInv', ScopeInv, NEW a \in Slots, NEW t, init_cat_table(a, t), BindTable(t, InitexCode)
    PROVE  ScopeInv'
<1> DEFINE f == [b \in CatSlots(t) |-> InitexCode(b)]
<1>1. /\ dense' = [b \in Slots |-> IF b \in CatSlots(t) /\ ~IsSparse(b)
                                   THEN [v |-> InitexCat, l |-> 1] ELSE dense[b]]
      /\ sparse' = [b \in Slots |-> IF b \in CatSlots(t)
                                    THEN [v |-> Absent, l |-> 1] ELSE sparse[b]]
      /\ UNCHANGED <<save, groups, curLevel, input>>
  BY DEF init_cat_table
<1>2. Scope!AssignGlobal(CatSlots(t), f)
  BY DEF BindTable
<1>3. \A b \in Slots : b \notin CatSlots(t) => dense'[b] = dense[b] /\ sparse'[b] = sparse[b]
  BY <1>1
<1>4. ASSUME NEW b \in Slots, b \in CatSlots(t)
      PROVE  /\ f[b] \in Values /\ sparse'[b].l = 1
             /\ \/ dense'[b].l = 1 /\ f[b] = ReadCells(dense'[b], sparse'[b])
                \/ IsSparse(b) /\ sparse'[b].v = Absent /\ f[b] = 0
  <2>1. sparse'[b] = [v |-> Absent, l |-> 1]
    BY <1>1, <1>4
  <2>2. f[b] = IF IsSparse(b) THEN 0 ELSE InitexCat
    <3>1. f[b] = InitexCode(b)
      BY <1>4
    <3> HIDE DEF f
    <3> QED BY ONLY <3>1, Zenon DEF InitexCode
  <2>3. 0 \in Values /\ InitexCat \in Values
    BY SlotAssumption
  <2>4. ~IsSparse(b) => dense'[b] = [v |-> InitexCat, l |-> 1]
    BY <1>1, <1>4
  <2> HIDE DEF f
  <2> QED BY <2>1, <2>2, <2>3, <2>4 DEF ReadCells
<1> HIDE DEF f
<1> QED BY <1>1, <1>2, <1>3, <1>4, TableScoped

\* So is a saved one.
LEMMA TableSavedScoped ==
    ASSUME StackInv, StackInv', ScopeInv, NEW a \in Slots, NEW t, save_cat_table(a, t), BindTable(t, CurrentCode)
    PROVE  ScopeInv'
<1> DEFINE f == [b \in CatSlots(t) |-> CurrentCode(b)]
<1>1. /\ dense' = [b \in Slots |-> IF b \in CatSlots(t)
                                   THEN [v |-> dense[Twin(b)].v, l |-> 1] ELSE dense[b]]
      /\ sparse' = [b \in Slots |-> IF b \in CatSlots(t)
                                    THEN [v |-> sparse[Twin(b)].v, l |-> 1] ELSE sparse[b]]
      /\ UNCHANGED <<save, groups, curLevel, input>>
  BY DEF save_cat_table
<1>2. Scope!AssignGlobal(CatSlots(t), f)
  BY DEF BindTable
<1>3. \A b \in Slots : b \notin CatSlots(t) => dense'[b] = dense[b] /\ sparse'[b] = sparse[b]
  BY <1>1
<1>4. ASSUME NEW b \in Slots, b \in CatSlots(t)
      PROVE  /\ f[b] \in Values /\ sparse'[b].l = 1
             /\ dense'[b].l = 1 /\ f[b] = ReadCells(dense'[b], sparse'[b])
  <2>1. sparse'[b] = [v |-> sparse[Twin(b)].v, l |-> 1] /\ dense'[b] = [v |-> dense[Twin(b)].v, l |-> 1]
    BY <1>1, <1>4
  <2>2. f[b] = ReadCells(dense'[b], sparse'[b])
    BY <2>1, <1>4 DEF CurrentCode, Read, ReadCells
  <2>3. dense'[b].v # Absent /\ dense'[b] \in Places /\ sparse'[b] \in Places
    <3>1. Fits(dense'[b], "dense", b)
      <4>1. Top \in Spots(save', "dense", b) /\ Entry(save', Tabled'["dense"][b], Top) = Tabled'["dense"][b]
        BY DEF Spots, Entry
      <4>2. "dense" \in Parts /\ Tabled'["dense"] = dense'
        BY DEF Parts, Tabled
      <4> QED BY <4>1, <4>2 DEF StackInv, Sound
    <3> QED BY <3>1 DEF Fits, StackInv
  <2>4. f[b] \in Values
    BY <2>2, <2>3 DEF ReadCells, Places
  <2> QED BY <2>1, <2>2, <2>4
<1> HIDE DEF f
<1> QED BY <1>1, <1>2, <1>3, <1>4, TableScoped

(* \box and \vsplit: the frame that owns the register is the one of the    *)
(* level of its cell.                                                      *)
LEMMA BoxOwner ==
    ASSUME StackInv, ScopeInv, NEW a \in Slots, Kind(a) = "box"
    PROVE  /\ dense[a].l \in 1..Len(frames) /\ Scope!Owner(a) = dense[a].l
           /\ frames[dense[a].l][a] # Unbound
           /\ \A j \in (dense[a].l + 1)..Len(frames) : frames[j][a] = Unbound
<1> DEFINE l == dense[a].l
           n == Len(frames)
<1>1. /\ Sound(save, groups, Tabled) /\ Len(frames) = Len(groups) + 1 /\ groups \in Seq(Nat)
      /\ dense[a] \in Places /\ AgreeAll(frames, save, Tabled)
      /\ \A p \in Parts, b \in Slots : Tabled[p][b].l <= Len(groups) + 1
  BY DEF StackInv, ScopeInv, Sound, Stacked
<1>2. "dense" \in Parts /\ Tabled["dense"][a] = dense[a]
  BY DEF Tabled, Parts
<1>3. l \in Nat /\ l >= 1 /\ l <= n /\ n \in Nat
  <2>1. l \in Nat /\ l >= 1
    BY <1>1 DEF Places
  <2>2. l <= n
    BY <1>1, <1>2
  <2> QED BY <2>1, <2>2, <1>1
<1>4. ASSUME NEW k \in Nat, l <= k, k <= n PROVE frames[k][a] # Unbound <=> k = l
  <2>1. \A p \in Parts : Tabled[p][a].l <= k => ShowsAlone(save, Tabled[p][a], p, a, k)
    BY <1>1, <1>4, CellsShow
  <2>2. ShowsAlone(save, dense[a], "dense", a, k)
    BY <2>1, <1>2, <1>4
  <2>3. k \in 1..Len(frames)
    BY <1>3, <1>4
  <2>4. Agrees(frames, save, Tabled["dense"][a], Tabled["sparse"][a], a, k)
    BY <2>3, <1>1 DEF AgreeAll
  <2>5. frames[k][a] # Unbound <=> \E e : Shows(save, dense[a], "dense", a, k, e) /\ e.l = k
    BY <2>4, <1>2 DEF Agrees
  <2> QED BY <2>2, <2>5 DEF ShowsAlone
<1>5. frames[l][a] # Unbound
  BY <1>3, <1>4
<1>6. ASSUME NEW j \in (l + 1)..n PROVE frames[j][a] = Unbound
  <2>1. j \in Nat /\ l <= j /\ j <= n /\ j # l
    BY <1>3
  <2> QED BY <2>1, <1>4
<1> HIDE DEF l
<1>7. ASSUME NEW k \in 1..n, frames[k][a] # Unbound, \A j \in (k + 1)..n : frames[j][a] = Unbound
      PROVE  k = l
  <2>1. ~(k > l)
    <3>1. k > l => k \in (l + 1)..n
      BY <1>3
    <3> QED BY <3>1, <1>6, <1>7
  <2>2. ~(k < l)
    <3>1. k < l => l \in (k + 1)..n
      BY <1>3
    <3> QED BY <3>1, <1>5, <1>7
  <2> QED BY <2>1, <2>2, <1>3
<1>8. Scope!Owner(a) = l
  <2>1. l \in 1..n
    BY <1>3
  <2> QED BY <2>1, <1>5, <1>6, <1>7 DEF Scope!Owner
<1>9. l \in 1..n
  BY <1>3
<1> QED BY <1>5, <1>6, <1>8, <1>9 DEF l

\* A box that is used up is replaced in the frame that has bound it.
LEMMA BoxReplacedScoped ==
    ASSUME StackInv, StackInv', ScopeInv, NEW a \in Slots, NEW v \in Values,
           replace_box_value(a, v), Scope!Replace(a, v)
    PROVE  ScopeInv'
<1> DEFINE l == dense[a].l
           n == Len(frames)
<1>1. /\ Kind(a) = "box" /\ dense' = [dense EXCEPT ![a].v = v] /\ sparse' = sparse /\ save' = save
      /\ UNCHANGED <<groups, curLevel, input>>
      /\ dense \in [Slots -> Places]
  BY DEF replace_box_value, UnchangedRest, StackInv
<1>2. /\ l \in 1..n /\ frames[l][a] # Unbound /\ Scope!Owner(a) = l
      /\ \A j \in (l + 1)..n : frames[j][a] = Unbound
  BY <1>1, BoxOwner
<1>3. frames' = [frames EXCEPT ![l][a] = v] /\ after' = after /\ given' = given
  BY <1>2 DEF Scope!Replace
<1>4. /\ frames \in Seq(Frames) /\ n = curLevel /\ AgreeAll(frames, save, Tabled)
      /\ Sound(save, groups, Tabled') /\ Sound(save, groups, Tabled)
      /\ \A b \in Slots : frames[1][b] # Unbound
  BY <1>1 DEF ScopeInv, StackInv
<1>5. dense[a] \in Places /\ dense'[a] = [v |-> v, l |-> l] /\ \A b \in Slots : b # a => dense'[b] = dense[b]
  <2>1. dense[a] \in Places
    BY <1>1
  <2> QED BY <2>1, <1>1 DEF Places
<1>6. n \in Nat /\ DOMAIN frames = 1..n /\ \A m \in 1..n : frames[m] \in Frames
  BY <1>4
<1>7. v # Unbound /\ v # Absent
  BY UnboundAssumption, SlotAssumption
<1> HIDE DEF l, n
<1>8. frames' = [frames EXCEPT ![l] = [frames[l] EXCEPT ![a] = v]]
  BY <1>3
<1>9. /\ frames' \in Seq(Frames) /\ Len(frames') = n
      /\ frames'[l][a] = v
      /\ \A m \in 1..n, b \in Slots : m # l \/ b # a => frames'[m][b] = frames[m][b]
  <2>1. frames[l] \in Frames /\ [frames[l] EXCEPT ![a] = v] \in Frames
    BY <1>2, <1>6 DEF Frames
  <2>2. frames' \in Seq(Frames)
    BY <2>1, <1>2, <1>4, <1>6, <1>8
  <2>3. Len(frames') = n
    BY <2>1, <1>2, <1>4, <1>6, <1>8 DEF n
  <2>4. frames'[l] = [frames[l] EXCEPT ![a] = v] /\ \A m \in 1..n : m # l => frames'[m] = frames[m]
    BY <1>2, <1>6, <1>8
  <2>5. frames'[l][a] = v /\ \A b \in Slots : b # a => frames'[l][b] = frames[l][b]
    BY <2>1, <2>4 DEF Frames
  <2> QED BY <2>2, <2>3, <2>4, <2>5
<1>10. \A b \in Slots : frames'[1][b] # Unbound
  <2>1. 1 \in 1..n
    BY <1>2, <1>6
  <2> QED BY <2>1, <1>4, <1>7, <1>9
<1>11. /\ Tabled'["dense"] = dense' /\ Tabled'["sparse"] = sparse
       /\ Tabled["dense"] = dense /\ Tabled["sparse"] = sparse /\ "dense" \in Parts /\ "sparse" \in Parts
  BY <1>1 DEF Tabled, Parts
<1>12. l \in Nat /\ l >= 1 /\ l <= n
  BY <1>2, <1>6
<1>13. ASSUME NEW b \in Slots, NEW k \in 1..n
       PROVE  Agrees(frames', save, Tabled'["dense"][b], Tabled'["sparse"][b], b, k)
  <2>1. Agrees(frames, save, dense[b], sparse[b], b, k) /\ k \in Nat /\ k >= 1
    BY <1>4, <1>6, <1>11 DEF AgreeAll, n
  <2>2. CASE b # a
    <3>1. \A m \in 1..k : frames'[m][b] = frames[m][b]
      BY <2>2, <1>6, <1>9
    <3>2. dense'[b] = dense[b]
      BY <2>2, <1>5
    <3> QED BY <3>1, <3>2, <2>1, <1>11, AgreesMoved
  <2>3. CASE b = a /\ k < l
    <3>1. \A m \in 1..k : frames'[m][a] = frames[m][a]
      BY <2>3, <1>6, <1>9, <1>12
    <3>2. /\ dense[a].l > k /\ ~(dense[a].l <= k)
          /\ dense'[a].l > k /\ ~(dense'[a].l <= k)
      BY <2>3, <2>1, <1>5, <1>12 DEF l
    <3>3. \A e : Shows(save, dense'[a], "dense", a, k, e) <=> Shows(save, dense[a], "dense", a, k, e)
      BY <3>2, ShowsSet
    <3> QED BY <3>1, <3>3, <2>1, <2>3, <1>11, AgreesMoved
  <2>4. CASE b = a /\ ~(k < l)
    <3>1. l <= k /\ k <= n /\ dense'[a].l = l
      BY <2>4, <2>1, <1>5, <1>12, <1>6
    <3>2. \A p \in Parts : Tabled'[p][a].l <= k => ShowsAlone(save, Tabled'[p][a], p, a, k)
      BY <2>1, <1>4, CellsShow
    <3>3. ShowsAlone(save, dense'[a], "dense", a, k)
      BY <3>1, <3>2, <1>11
    <3>4. ASSUME NEW e2, Shows(save, sparse[a], "sparse", a, k, e2) PROVE e2.v = Absent
      <4>1. \A p \in Parts : Shows(save, Tabled'[p][a], p, a, k, e2) => Fits(e2, p, a)
        BY <1>4, ShownFits
      <4>2. Fits(e2, "sparse", a)
        BY <4>1, <3>4, <1>11
      <4> QED BY <4>2, <1>1 DEF Fits, IsSparse
    <3>5. \A j \in 1..k : j > l => frames'[j][a] = Unbound
      <4>1. \A j \in 1..k : j > l => j \in (l + 1)..n /\ j \in 1..n /\ j # l
        BY <3>1, <2>1, <1>6, <1>12
      <4> QED BY <4>1, <1>2, <1>9
    <3>6. ASSUME NEW m, Decides(frames', a, k, m) PROVE m = l
      <4>1. m \in 1..k /\ frames'[m][a] # Unbound /\ \A j \in (m + 1)..k : frames'[j][a] = Unbound
        BY <3>6 DEF Decides
      <4>2. m < l => l \in (m + 1)..k
        BY <4>1, <3>1, <2>1, <1>12
      <4>3. ~(m < l) /\ ~(m > l)
        BY <4>1, <4>2, <3>5, <1>7, <1>9
      <4> QED BY <4>1, <4>3, <2>1, <1>12
    <3>7. ASSUME NEW m, NEW e1, NEW e2, Decides(frames', a, k, m),
                 Shows(save, dense'[a], "dense", a, k, e1), Shows(save, sparse[a], "sparse", a, k, e2)
          PROVE  frames'[m][a] = ReadCells(e1, e2)
      <4>1. m = l /\ e2.v = Absent /\ e1 = dense'[a]
        BY <3>3, <3>4, <3>6, <3>7 DEF ShowsAlone
      <4> QED BY <4>1, <1>5, <1>9 DEF ReadCells
    <3>8. frames'[k][a] # Unbound <=> \E e : Shows(save, dense'[a], "dense", a, k, e) /\ e.l = k
      <4>1. frames'[k][a] # Unbound <=> k = l
        <5>1. k # l => k > l /\ k \in 1..k
          BY <3>1, <2>1, <1>12
        <5> QED BY <5>1, <3>5, <1>7, <1>9
      <4> QED BY <4>1, <3>1, <3>3 DEF ShowsAlone
    <3> QED BY <3>7, <3>8, <2>4, <1>11 DEF Agrees
  <2> QED BY <2>2, <2>3, <2>4
<1>14. AgreeAll(frames', save', Tabled')
  BY <1>1, <1>9, <1>13 DEF AgreeAll
<1>15. NoTokens(save, save', groups)
  BY <1>1 DEF NoTokens
<1> QED BY <1>1, <1>3, <1>9, <1>10, <1>14, <1>15, ScopeStep DEF n

-----------------------------------------------------------------------------
(* So do groups *)

(* In a new group everything reads as outside it.                          *)
LEMMA LevelScoped ==
    ASSUME StackInv, ScopeInv, push_level,
           IF curLevel = MaxGroupLevel THEN UNCHANGED ScopeVars ELSE Scope!BeginGroup
    PROVE  ScopeInv'
<1>1. CASE curLevel = MaxGroupLevel
  <2>1. UNCHANGED <<frames, after, given, dense, sparse, save, groups, curLevel, input>>
    BY <1>1 DEF push_level, ScopeVars
  <2> QED BY <2>1 DEF ScopeInv, Tabled
<1>2. CASE curLevel # MaxGroupLevel
  <2> DEFINE x == [part |-> "level", level |-> curLevel + 1]
             none == [a \in Slots |-> Unbound]
             n == Len(groups) + 1
  <2>1. /\ groups' = Append(groups, Len(save)) /\ curLevel' = curLevel + 1 /\ save' = Append(save, x)
        /\ UNCHANGED <<dense, sparse, input>> /\ Len(save) <= MaxSaveStack
        /\ frames' = Append(frames, none) /\ after' = Append(after, <<>>) /\ given' = given
    BY <1>2 DEF push_level, Running, Scope!BeginGroup
  <2>2. /\ Sound(save, groups, Tabled) /\ save \in Seq(SaveItems) /\ groups \in Seq(Nat)
        /\ Boundaries(save, groups) /\ curLevel = n /\ n <= MaxGroupLevel
        /\ \A p \in Parts, b \in Slots : Tabled[p][b].l <= n
        /\ frames \in Seq(Frames) /\ Len(frames) = n /\ AgreeAll(frames, save, Tabled)
        /\ \A a \in Slots : frames[1][a] # Unbound
        /\ after \in Seq(Seq(Tokens)) /\ Len(after) = n /\ input = given
        /\ \A m \in DOMAIN groups : after[m + 1] = AfterTokens(GroupItems(save, groups, m))
    BY DEF StackInv, ScopeInv, Sound, Stacked
  <2>3. n \in Nat /\ n >= 1 /\ Len(groups) \in Nat /\ MaxGroupLevel \in Nat /\ MaxSaveStack \in Nat
        /\ Len(save) \in Nat /\ Len(save) <= MaxSaveStack + 1
    BY <2>1, <2>2, SlotAssumption
  <2>4. x \in SaveItems /\ x.part = "level"
    <3>1. curLevel + 1 \in 2..MaxGroupLevel
      BY <1>2, <2>2, <2>3
    <3> QED BY <3>1 DEF SaveItems
  <2>5. none \in Frames /\ \A a \in Slots : none[a] = Unbound
    BY DEF Frames
  <2> HIDE DEF x, none, n
  <2>6. /\ frames' \in Seq(Frames) /\ Len(frames') = n + 1 /\ frames'[n + 1] = none
        /\ \A m \in 1..n : frames'[m] = frames[m]
    BY <2>1, <2>2, <2>5
  <2>7. Tabled' = Tabled /\ "dense" \in Parts /\ "sparse" \in Parts
    BY <2>1 DEF Tabled, Parts
  <2>8. ASSUME NEW p \in Parts, NEW a \in Slots, NEW k, NEW e
        PROVE  Shows(save', Tabled[p][a], p, a, k, e) <=> Shows(save, Tabled[p][a], p, a, k, e)
    <3>1. ~(x.part = p /\ x.slot = a)
      BY <2>4 DEF Parts
    <3> QED BY <3>1, <2>1, <2>2, <2>3, <2>4, ShowsAppend
  <2>9. ASSUME NEW a \in Slots, NEW k \in 1..n
        PROVE  Agrees(frames', save', Tabled'["dense"][a], Tabled'["sparse"][a], a, k)
    <3>1. Agrees(frames, save, Tabled["dense"][a], Tabled["sparse"][a], a, k) /\ k \in Nat /\ k >= 1
      BY <2>2, <2>3 DEF AgreeAll
    <3>2. \A m \in 1..k : frames'[m][a] = frames[m][a]
      BY <2>3, <2>6
    <3> QED BY <3>1, <3>2, <2>7, <2>8, AgreesMoved
  <2>10. ASSUME NEW a \in Slots
         PROVE  Agrees(frames', save', Tabled'["dense"][a], Tabled'["sparse"][a], a, n + 1)
    <3>1. \A p \in Parts : /\ ShowsAlone(save, Tabled[p][a], p, a, n)
                           /\ ShowsAlone(save, Tabled[p][a], p, a, n + 1)
      <4>1. ASSUME NEW p \in Parts PROVE Tabled[p][a].l <= n /\ Tabled[p][a].l <= n + 1 /\ n + 1 \in Nat
        <5>1. Tabled[p][a].l \in Nat
          <6>1. Tabled[p][a] \in Places
            BY <2>2 DEF Sound, Stacked
          <6> QED BY <6>1, PlaceLevel
        <5> QED BY <5>1, <2>2, <2>3
      <4> QED BY <4>1, <2>2, <2>3, CellsShow
    <3>2. Agrees(frames, save, Tabled["dense"][a], Tabled["sparse"][a], a, n)
      BY <2>2, <2>3 DEF AgreeAll
    <3>3. frames'[n + 1][a] = Unbound
      BY <2>5, <2>6
    <3>4. ASSUME NEW m, Decides(frames', a, n + 1, m) PROVE Decides(frames, a, n, m) /\ frames'[m][a] = frames[m][a]
      <4>1. m \in 1..(n + 1) /\ frames'[m][a] # Unbound /\ \A j \in (m + 1)..(n + 1) : frames'[j][a] = Unbound
        BY <3>4 DEF Decides
      <4>2. m # n + 1
        BY <4>1, <3>3
      <4>3. m \in 1..n /\ \A j \in (m + 1)..n : j \in (m + 1)..(n + 1) /\ j \in 1..n
        BY <4>1, <4>2, <2>3
      <4> QED BY <4>1, <4>3, <2>6 DEF Decides
    <3>5. ASSUME NEW m, NEW e1, NEW e2, Decides(frames', a, n + 1, m),
                 Shows(save', Tabled["dense"][a], "dense", a, n + 1, e1),
                 Shows(save', Tabled["sparse"][a], "sparse", a, n + 1, e2)
          PROVE  frames'[m][a] = ReadCells(e1, e2)
      <4>1. \A p \in Parts : \A e : Shows(save', Tabled[p][a], p, a, n + 1, e) => Shows(save, Tabled[p][a], p, a, n, e)
        BY <3>1, <2>8 DEF ShowsAlone
      <4>2. /\ Shows(save, Tabled["dense"][a], "dense", a, n, e1)
            /\ Shows(save, Tabled["sparse"][a], "sparse", a, n, e2)
        BY <4>1, <3>5, <2>7
      <4> QED BY <4>2, <3>2, <3>4, <3>5 DEF Agrees
    <3>6. ~ \E e : Shows(save', Tabled["dense"][a], "dense", a, n + 1, e) /\ e.l = n + 1
      <4>1. \A p \in Parts : \A e : Shows(save', Tabled[p][a], p, a, n + 1, e) => e = Tabled[p][a]
        BY <3>1, <2>8 DEF ShowsAlone
      <4>2. Tabled["dense"][a].l # n + 1
        BY <2>2, <2>3, <2>7
      <4> QED BY <4>1, <4>2, <2>7
    <3> QED BY <3>3, <3>5, <3>6, <2>7 DEF Agrees
  <2>11. AgreeAll(frames', save', Tabled')
    <3>1. \A k \in 1..(n + 1) : k \in 1..n \/ k = n + 1
      BY <2>3
    <3> QED BY <3>1, <2>6, <2>9, <2>10 DEF AgreeAll
  <2>12. \A a \in Slots : frames'[1][a] # Unbound
    BY <2>2, <2>3, <2>6
  <2>13. /\ after' \in Seq(Seq(Tokens)) /\ Len(after') = n + 1 /\ after'[n + 1] = <<>>
         /\ \A m \in 1..n : after'[m] = after[m]
    <3>1. <<>> \in Seq(Tokens)
      OBVIOUS
    <3> QED BY <3>1, <2>1, <2>2
  <2>14. ASSUME NEW m \in DOMAIN groups' PROVE after'[m + 1] = AfterTokens(GroupItems(save', groups', m))
    <3>1. GroupItems(save', groups', m) = IF m = Len(groups) + 1 THEN <<>> ELSE GroupItems(save, groups, m)
      <4>1. m \in DOMAIN Append(groups, Len(save))
        BY <2>1
      <4> QED BY <4>1, <2>1, <2>2, <2>4, ItemsGroup
    <3>2. m \in 1..n
      BY <2>1, <2>2 DEF n
    <3>3. CASE m = n
      <4>1. GroupItems(save', groups', m) = <<>>
        BY <3>1, <3>3 DEF n
      <4> QED BY <4>1, <3>3, <2>13, AfterNone
    <3>4. CASE m # n
      <4>1. m \in DOMAIN groups /\ m + 1 \in 1..n
        <5>1. DOMAIN groups = 1..Len(groups)
          BY <2>2
        <5> QED BY <5>1, <3>2, <3>4, <2>3 DEF n
      <4>2. GroupItems(save', groups', m) = GroupItems(save, groups, m)
        BY <3>1, <3>4 DEF n
      <4> QED BY <4>1, <4>2, <2>2, <2>13
    <3> QED BY <3>3, <3>4
  <2>15. curLevel' = n + 1 /\ input' = given'
    BY <2>1, <2>2
  <2> QED BY <2>6, <2>11, <2>12, <2>13, <2>14, <2>15 DEF ScopeInv
<1> QED BY <1>1, <1>2

(* \aftergroup.                                                            *)
LEMMA AfterScoped ==
    ASSUME StackInv, ScopeInv, NEW t \in Tokens, after_group(t), Scope!AfterGroup(t)
    PROVE  ScopeInv'
<1> DEFINE x == [part |-> "after", token |-> t]
           n == Len(groups) + 1
<1>1. /\ save' = Append(save, x) /\ UNCHANGED <<dense, sparse, groups, curLevel, input>>
      /\ Len(save) <= MaxSaveStack
      /\ after' = [after EXCEPT ![Len(after)] = Append(after[Len(after)], t)]
      /\ frames' = frames /\ given' = given
  BY DEF after_group, Running, UnchangedRest, Scope!AfterGroup
<1>2. /\ save \in Seq(SaveItems) /\ groups \in Seq(Nat) /\ Boundaries(save, groups) /\ curLevel = n
      /\ frames \in Seq(Frames) /\ Len(frames) = n /\ AgreeAll(frames, save, Tabled)
      /\ \A a \in Slots : frames[1][a] # Unbound
      /\ after \in Seq(Seq(Tokens)) /\ Len(after) = n /\ input = given
      /\ \A m \in DOMAIN groups : after[m + 1] = AfterTokens(GroupItems(save, groups, m))
  BY DEF StackInv, ScopeInv, Sound, Stacked
<1>3. n \in Nat /\ n >= 1 /\ Len(groups) \in Nat /\ Len(save) \in Nat /\ Len(save) <= MaxSaveStack + 1
  BY <1>1, <1>2, SlotAssumption
<1>4. x \in SaveItems /\ x.part = "after" /\ IsAfter(x) /\ x.token = t
  BY DEF SaveItems, IsAfter
<1> HIDE DEF x, n
<1>5. Tabled' = Tabled /\ "dense" \in Parts /\ "sparse" \in Parts
  BY <1>1 DEF Tabled, Parts
<1>6. ASSUME NEW p \in Parts, NEW a \in Slots, NEW k, NEW e
      PROVE  Shows(save', Tabled[p][a], p, a, k, e) <=> Shows(save, Tabled[p][a], p, a, k, e)
  <2>1. ~(x.part = p /\ x.slot = a)
    BY <1>4 DEF Parts
  <2> QED BY <2>1, <1>1, <1>2, <1>3, <1>4, ShowsAppend
<1>7. ASSUME NEW a \in Slots, NEW k \in 1..n
      PROVE  Agrees(frames', save', Tabled'["dense"][a], Tabled'["sparse"][a], a, k)
  <2>1. Agrees(frames, save, Tabled["dense"][a], Tabled["sparse"][a], a, k) /\ k \in Nat /\ k >= 1
    BY <1>2, <1>3 DEF AgreeAll
  <2> QED BY <2>1, <1>1, <1>5, <1>6, AgreesMoved
<1>8. AgreeAll(frames', save', Tabled')
  BY <1>1, <1>2, <1>7 DEF AgreeAll
<1>9. /\ after' \in Seq(Seq(Tokens)) /\ Len(after') = n
      /\ after'[n] = Append(after[n], t) /\ \A m \in 1..n : m # n => after'[m] = after[m]
  <2>1. n \in 1..n /\ DOMAIN after = 1..n /\ after[n] \in Seq(Tokens)
    BY <1>2, <1>3
  <2>2. Append(after[n], t) \in Seq(Tokens)
    BY <2>1
  <2>3. after' = [after EXCEPT ![n] = Append(after[n], t)]
    BY <1>1, <1>2
  <2>4. after'[n] = Append(after[n], t) /\ \A m \in 1..n : m # n => after'[m] = after[m]
    BY <2>1, <2>3
  <2>5. after' \in Seq(Seq(Tokens)) /\ Len(after') = n
    BY <2>1, <2>2, <2>3, <1>2
  <2> QED BY <2>4, <2>5
<1>10. ASSUME NEW m \in DOMAIN groups PROVE after'[m + 1] = AfterTokens(GroupItems(save', groups, m))
  <2> DEFINE g == GroupItems(save, groups, m)
  <2>1. g \in Seq(SaveItems) /\ GroupItems(save', groups, m) = IF m = Len(groups) THEN Append(g, x) ELSE g
    BY <1>1, <1>2, <1>4, ItemsAppend
  <2>2. after[m + 1] = AfterTokens(g)
    BY <1>2
  <2>3. m \in 1..Len(groups) /\ m + 1 \in 1..n
    <3>1. DOMAIN groups = 1..Len(groups)
      BY <1>2
    <3> QED BY <3>1, <1>3 DEF n
  <2> HIDE DEF g
  <2>4. CASE m = Len(groups)
    <3>1. AfterTokens(Append(g, x)) = Append(AfterTokens(g), t)
      BY <2>1, <1>4, AfterAppend
    <3>2. m + 1 = n
      BY <2>4 DEF n
    <3> QED BY <3>1, <3>2, <2>1, <2>2, <2>4, <1>9
  <2>5. CASE m # Len(groups)
    <3>1. m + 1 # n
      BY <2>3, <2>5, <1>3 DEF n
    <3> QED BY <3>1, <2>1, <2>2, <2>3, <2>5, <1>9
  <2> QED BY <2>4, <2>5
<1> QED BY <1>1, <1>2, <1>8, <1>9, <1>10 DEF ScopeInv

(* A group ends: its frame goes, and its tokens come back.                 *)
LEMMA PopScoped ==
    ASSUME StackInv, ScopeInv, pop_group, Scope!EndGroup, \A a \in Slots : Kind(a) # "parshape"
    PROVE  ScopeInv'
<1> DEFINE n == Len(groups)
<1>1. /\ groups # <<>> /\ curLevel' = n
      /\ save' \in Seq(SaveItems) /\ Len(save') = groups[n]
      /\ \A i \in 1..groups[n] : save'[i] = save[i]
      /\ groups' \in Seq(Nat) /\ Len(groups') = n - 1
      /\ \A m \in 1..(n - 1) : groups'[m] = groups[m]
      /\ \A p \in Parts, a \in Slots : Uncovered(save, Tabled[p][a], groups, p, a, Tabled'[p][a])
  BY PopEffect
<1>2. /\ Sound(save, groups, Tabled) /\ save \in Seq(SaveItems) /\ groups \in Seq(Nat)
      /\ Len(save) <= MaxSaveStack + 2 /\ Tabled \in [Parts -> [Slots -> Places]]
      /\ \A p \in Parts, a \in Slots : Chain(save, Tabled[p][a], groups, p, a)
      /\ Boundaries(save, groups)
      /\ frames \in Seq(Frames) /\ Len(frames) = n + 1 /\ AgreeAll(frames, save, Tabled)
      /\ \A a \in Slots : frames[1][a] # Unbound
      /\ after \in Seq(Seq(Tokens)) /\ Len(after) = n + 1
      /\ \A m \in DOMAIN groups : after[m + 1] = AfterTokens(GroupItems(save, groups, m))
  BY DEF StackInv, ScopeInv, Sound, Stacked
<1>3. frames' = Front(frames) /\ after' = Front(after) /\ given' = Last(after)
  BY DEF Scope!EndGroup, Front, Last, Scope!Front, Scope!Last
<1>4. input' = AfterTokens(GroupItems(save, groups, n))
  BY DEF pop_group, Items, GroupItems
<1>5. n \in Nat /\ n >= 1 /\ DOMAIN groups = 1..n /\ n \in DOMAIN groups
  <2>1. n \in Nat /\ DOMAIN groups = 1..n
    BY <1>2
  <2>2. n # 0
    BY <1>1, <1>2
  <2> QED BY <2>1, <2>2
<1> HIDE DEF n
<1>6. /\ frames' \in Seq(Frames) /\ Len(frames') = n /\ \A m \in 1..n : frames'[m] = frames[m]
  <2>1. frames' = SubSeq(frames, 1, n)
    BY <1>2, <1>3, <1>5 DEF Front
  <2>2. n <= Len(frames) /\ 1 <= n + 1
    BY <1>2, <1>5
  <2> QED BY <2>1, <2>2, <1>2, <1>5
<1>7. /\ after' \in Seq(Seq(Tokens)) /\ Len(after') = n /\ \A m \in 1..n : after'[m] = after[m]
      /\ given' = after[n + 1]
  <2>1. after' = SubSeq(after, 1, n) /\ given' = after[n + 1]
    BY <1>2, <1>3, <1>5 DEF Front, Last
  <2>2. n <= Len(after) /\ 1 <= n + 1 /\ n \in Nat /\ after \in Seq(Seq(Tokens))
    BY <1>2, <1>5
  <2>3. after' \in Seq(Seq(Tokens)) /\ Len(after') = n
    BY ONLY <2>1, <2>2
  <2>4. \A m \in 1..n : after'[m] = after[m]
    BY ONLY <2>1, <2>2
  <2> QED BY <2>1, <2>3, <2>4
<1>8. input' = given'
  BY <1>2, <1>4, <1>5, <1>7
<1>9. ASSUME NEW p \in Parts, NEW a \in Slots, NEW k \in 1..n, NEW e
      PROVE  Shows(save', Tabled'[p][a], p, a, k, e) <=> Shows(save, Tabled[p][a], p, a, k, e)
  <2>1. Tabled[p][a] \in Places /\ Kind(a) # "parshape"
    BY <1>2
  <2>2. Len(save') = groups[Len(groups)] /\ \A i \in 1..Len(save') : save'[i] = save[i]
    BY <1>1 DEF n
  <2>3. Uncovered(save, Tabled[p][a], groups, p, a, Tabled'[p][a]) /\ Chain(save, Tabled[p][a], groups, p, a)
    BY <1>1, <1>2
  <2>4. k \in 1..Len(groups)
    BY DEF n
  <2>5. /\ save \in Seq(SaveItems) /\ Len(save) <= MaxSaveStack + 2 /\ groups \in Seq(Nat)
        /\ groups # <<>> /\ Boundaries(save, groups) /\ save' \in Seq(SaveItems)
    BY <1>1, <1>2
  <2> QED BY ONLY <2>1, <2>2, <2>3, <2>4, <2>5, p \in Parts, a \in Slots, ShowsPop
<1>10. "dense" \in Parts /\ "sparse" \in Parts
  BY DEF Parts
<1>11. ASSUME NEW a \in Slots, NEW k \in 1..n
       PROVE  Agrees(frames', save', Tabled'["dense"][a], Tabled'["sparse"][a], a, k)
  <2>1. Agrees(frames, save, Tabled["dense"][a], Tabled["sparse"][a], a, k) /\ k \in Nat /\ k >= 1
    BY <1>2, <1>5 DEF AgreeAll
  <2>2. \A m \in 1..k : frames'[m][a] = frames[m][a]
    BY <1>5, <1>6
  <2> QED BY <2>1, <2>2, <1>9, <1>10, AgreesMoved
<1>12. AgreeAll(frames', save', Tabled')
  BY <1>6, <1>11 DEF AgreeAll
<1>13. ASSUME NEW m \in DOMAIN groups' PROVE after'[m + 1] = AfterTokens(GroupItems(save', groups', m))
  <2>1. m \in 1..(n - 1) /\ m \in DOMAIN groups /\ m + 1 \in 1..n
    <3>1. DOMAIN groups' = 1..(n - 1)
      BY <1>1 DEF n
    <3> QED BY <3>1, <1>5
  <2>2. GroupItems(save', groups', m) = GroupItems(save, groups, m)
    <3>1. /\ save \in Seq(SaveItems) /\ groups \in Seq(Nat) /\ Boundaries(save, groups) /\ groups # <<>>
          /\ save' \in Seq(SaveItems) /\ groups' \in Seq(Nat) /\ m \in DOMAIN groups'
      BY <1>1, <1>2
    <3>2. Len(save') = groups[Len(groups)] /\ \A i \in 1..Len(save') : save'[i] = save[i]
      BY <1>1 DEF n
    <3>3. Len(groups') = Len(groups) - 1 /\ \A i \in 1..(Len(groups) - 1) : groups'[i] = groups[i]
      BY <1>1 DEF n
    <3> QED BY ONLY <3>1, <3>2, <3>3, ItemsPop
  <2> QED BY <2>1, <2>2, <1>2, <1>7
<1>14. \A a \in Slots : frames'[1][a] # Unbound
  BY <1>2, <1>5, <1>6
<1> QED BY <1>1, <1>6, <1>7, <1>8, <1>12, <1>13, <1>14 DEF ScopeInv, n

-----------------------------------------------------------------------------
(* What the groups promise *)

\* One frame, with the initial values.
LEMMA ScopeInit ==
    ASSUME JointInit PROVE ScopeInv
<1>1. /\ save = <<>> /\ groups = <<>> /\ curLevel = 1 /\ input = <<>>
      /\ dense = [a \in Slots |-> [v |-> 0, l |-> 1]]
      /\ sparse = [a \in Slots |-> [v |-> Absent, l |-> 1]]
      /\ frames = <<[a \in Slots |-> Read(dense, sparse, a)]>>
      /\ after = <<<<>>>> /\ given = <<>> /\ Init
  BY DEF JointInit, Init
<1>2. StackInv
  BY <1>1, StackInit
<1>3. 0 \in Values /\ 0 # Unbound
  BY SlotAssumption, UnboundAssumption
<1>4. Sound(save, groups, Tabled)
  BY <1>2 DEF StackInv
<1>5. ASSUME NEW a \in Slots PROVE Read(dense, sparse, a) = 0 /\ ReadCells(dense[a], sparse[a]) = 0
  BY <1>1 DEF Read, ReadCells
<1> DEFINE f == [a \in Slots |-> Read(dense, sparse, a)]
<1>6. f \in Frames /\ \A a \in Slots : f[a] = 0
  BY <1>3, <1>5 DEF Frames
<1> HIDE DEF f
<1>7. frames = <<f>> /\ frames \in Seq(Frames) /\ Len(frames) = 1 /\ frames[1] = f
  <2>1. frames = <<f>>
    BY <1>1 DEF f
  <2> QED BY <2>1, <1>6
<1>8. /\ Tabled["dense"] = dense /\ Tabled["sparse"] = sparse /\ "dense" \in Parts /\ "sparse" \in Parts
      /\ \A p \in Parts, a \in Slots : Tabled[p][a].l = 1
  BY <1>1 DEF Tabled, Parts
<1>9. ASSUME NEW a \in Slots PROVE Agrees(frames, save, Tabled["dense"][a], Tabled["sparse"][a], a, 1)
  <2>1. \A p \in Parts : ShowsAlone(save, Tabled[p][a], p, a, 1)
    <3>1. \A p \in Parts : Tabled[p][a].l <= 1
      BY <1>8
    <3> QED BY <3>1, <1>4, CellsShow
  <2>2. ASSUME NEW m, NEW e1, NEW e2, Decides(frames, a, 1, m),
               Shows(save, Tabled["dense"][a], "dense", a, 1, e1),
               Shows(save, Tabled["sparse"][a], "sparse", a, 1, e2)
        PROVE  frames[m][a] = ReadCells(e1, e2)
    <3>1. m = 1
      BY <2>2 DEF Decides
    <3>2. e1 = dense[a] /\ e2 = sparse[a]
      BY <2>1, <2>2, <1>8 DEF ShowsAlone
    <3> QED BY <3>1, <3>2, <1>5, <1>6, <1>7
  <2>3. frames[1][a] # Unbound
    BY <1>3, <1>6, <1>7
  <2>4. \E e : Shows(save, Tabled["dense"][a], "dense", a, 1, e) /\ e.l = 1
    BY <2>1, <1>8 DEF ShowsAlone
  <2> QED BY <2>2, <2>3, <2>4 DEF Agrees
<1>10. AgreeAll(frames, save, Tabled)
  <2>1. \A k \in 1..1 : k = 1
    OBVIOUS
  <2> QED BY <2>1, <1>7, <1>9 DEF AgreeAll
<1>11. /\ after \in Seq(Seq(Tokens)) /\ Len(after) = 1
  <2>1. <<>> \in Seq(Tokens)
    OBVIOUS
  <2> QED BY <2>1, <1>1
<1>12. \A n \in DOMAIN groups : FALSE
  BY <1>1
<1>13. \A a \in Slots : frames[1][a] # Unbound
  BY <1>3, <1>6, <1>7
<1> QED BY <1>1, <1>7, <1>10, <1>11, <1>12, <1>13 DEF ScopeInv

\* The joint steps are those of the save stack.
LEMMA JointIsNext == [JointNext]_<<vars, ScopeVars>> => [Next]_vars
BY DEF JointNext, Next

\* Every joint step keeps the frames and the entries in agreement.
LEMMA ScopeKept ==
    ASSUME StackInv, StackInv', ScopeInv, [JointNext]_<<vars, ScopeVars>>,
           \A a \in Slots : Kind(a) # "parshape"
    PROVE  ScopeInv'
<1>1. doc.slots \subseteq Slots /\ doc.values \subseteq Values /\ doc.tokens \subseteq Tokens
  BY OfDocument
<1>2. CASE UNCHANGED <<vars, ScopeVars>>
  BY <1>2 DEF vars, ScopeVars, ScopeInv, Tabled
<1>3. ASSUME NEW a \in doc.slots, NEW v \in doc.values, NEW global \in BOOLEAN,
             Assign(a, v, global), Bind(a, v, global)
      PROVE  ScopeInv'
  <2>1. a \in Slots /\ v \in Values
    BY <1>1
  <2>2. /\ global => GlobalEffect(a, v) /\ UnchangedRest
        /\ ~global => LocalEffect(a, v) /\ UnchangedRest
    <3>1. CASE global
      <4>1. Assign(a, v, TRUE)
        BY <3>1, <1>3
      <4> QED BY <4>1, <3>1, <2>1, AssignGlobally
    <3>2. CASE ~global
      <4>1. Assign(a, v, FALSE)
        BY <3>2, <1>3
      <4> QED BY <4>1, <3>2, <2>1, AssignLocally
    <3> QED BY <3>1, <3>2
  <2> QED BY <2>1, <2>2, <1>3, AssignScoped
<1>4. ASSUME NEW a \in doc.slots, NEW v \in doc.values,
             \/ assign_local_box(a, v) /\ Bind(a, v, FALSE)
             \/ replace_box_value(a, v) /\ Scope!Replace(a, v)
             \/ set_box_untraced(a, v) /\ Bind(a, v, TRUE)
             \/ init_cat_table(a, v) /\ BindTable(v, InitexCode)
             \/ save_cat_table(a, v) /\ BindTable(v, CurrentCode)
      PROVE  ScopeInv'
  <2>1. a \in Slots /\ v \in Values
    BY <1>1
  <2>2. CASE assign_local_box(a, v) /\ Bind(a, v, FALSE)
    BY <2>1, <2>2, LocalBoxScoped
  <2>3. CASE replace_box_value(a, v) /\ Scope!Replace(a, v)
    BY <2>1, <2>3, BoxReplacedScoped
  <2>4. CASE set_box_untraced(a, v) /\ Bind(a, v, TRUE)
    BY <2>1, <2>4, BoxSetScoped
  <2>5. CASE init_cat_table(a, v) /\ BindTable(v, InitexCode)
    BY <2>1, <2>5, TableInitScoped
  <2>6. CASE save_cat_table(a, v) /\ BindTable(v, CurrentCode)
    BY <2>1, <2>6, TableSavedScoped
  <2> QED BY <1>4, <2>2, <2>3, <2>4, <2>5, <2>6
<1>5. CASE push_level /\ IF curLevel = MaxGroupLevel THEN UNCHANGED ScopeVars ELSE Scope!BeginGroup
  BY <1>5, LevelScoped
<1>6. CASE pop_group /\ Scope!EndGroup
  BY <1>6, PopScoped
<1>7. ASSUME NEW t \in doc.tokens, after_group(t), Scope!AfterGroup(t) PROVE ScopeInv'
  BY <1>1, <1>7, AfterScoped
<1>8. CASE JointNext
  <2>1. CASE \E a \in doc.slots, v \in doc.values, global \in BOOLEAN :
                Assign(a, v, global) /\ Bind(a, v, global)
    BY <2>1, <1>3
  <2>2. CASE \E a \in doc.slots, v \in doc.values :
                \/ assign_local_box(a, v) /\ Bind(a, v, FALSE)
                \/ replace_box_value(a, v) /\ Scope!Replace(a, v)
                \/ set_box_untraced(a, v) /\ Bind(a, v, TRUE)
                \/ init_cat_table(a, v) /\ BindTable(v, InitexCode)
                \/ save_cat_table(a, v) /\ BindTable(v, CurrentCode)
    BY <2>2, <1>4
  <2>3. CASE \E t \in doc.tokens : after_group(t) /\ Scope!AfterGroup(t)
    BY <2>3, <1>7
  <2> QED BY <1>5, <1>6, <1>8, <2>1, <2>2, <2>3 DEF JointNext
<1> QED BY <1>2, <1>8

(* In the innermost group what the cells give is what the frames say.      *)
LEMMA ScopeRead ==
    ASSUME StackInv, ScopeInv
    PROVE  GroupsKept
<1> DEFINE n == Len(frames)
<1>1. /\ Sound(save, groups, Tabled) /\ n = Len(groups) + 1 /\ groups \in Seq(Nat)
      /\ AgreeAll(frames, save, Tabled) /\ n = curLevel /\ input = given
      /\ \A p \in Parts, b \in Slots : Tabled[p][b].l <= Len(groups) + 1
      /\ \A a \in Slots : frames[1][a] # Unbound
  BY DEF StackInv, ScopeInv, Sound, Stacked
<1>2. n \in Nat /\ n >= 1
  <2>1. Len(groups) \in Nat
    BY <1>1
  <2> QED BY <2>1, <1>1
<1>3. ASSUME NEW a \in Slots PROVE Read(dense, sparse, a) = Scope!Lookup(a)
  <2> DEFINE B == {k \in 1..n : frames[k][a] # Unbound}
             D(k) == /\ k \in 1..n /\ frames[k][a] # Unbound
                     /\ \A j \in (k + 1)..n : frames[j][a] = Unbound
  <2>1. \E k \in 1..n : D(k)
    <3>1. 1 \in B /\ B \in SUBSET Nat /\ \A k \in B : k <= n
      BY <1>1, <1>2
    <3>2. PICK k \in B : \A j \in B : j <= k
      <4> HIDE DEF B
      <4> QED BY <3>1, <1>2, GreatestNumber
    <3>3. ASSUME NEW j \in (k + 1)..n PROVE frames[j][a] = Unbound
      <4>1. j \in 1..n /\ ~(j <= k)
        BY <3>2, <1>2
      <4> QED BY <4>1, <3>2
    <3> QED BY <3>2, <3>3
  <2>2. D(Scope!Owner(a))
    BY <2>1 DEF Scope!Owner
  <2>3. Decides(frames, a, n, Scope!Owner(a))
    BY <2>2 DEF Decides
  <2>4. \A p \in Parts : ShowsAlone(save, Tabled[p][a], p, a, n)
    BY <1>1, <1>2, CellsShow
  <2>5. /\ Tabled["dense"] = dense /\ Tabled["sparse"] = sparse /\ "dense" \in Parts /\ "sparse" \in Parts
    BY DEF Tabled, Parts
  <2>6. Shows(save, dense[a], "dense", a, n, dense[a]) /\ Shows(save, sparse[a], "sparse", a, n, sparse[a])
    BY <2>4, <2>5 DEF ShowsAlone
  <2>7. Agrees(frames, save, dense[a], sparse[a], a, n)
    BY <2>5, <1>1, <1>2 DEF AgreeAll
  <2>8. frames[Scope!Owner(a)][a] = ReadCells(dense[a], sparse[a])
    BY <2>3, <2>6, <2>7 DEF Agrees
  <2> QED BY <2>8 DEF Scope!Lookup, ReadCells, Read
<1> QED BY <1>1, <1>3 DEF GroupsKept

\* What can be read from the tables is what the groups promise (GroupsKept), for
\* every document, every number of slots, values and catcode tables and all bounds:
\* local assignments end with their group, \global ones survive all groups, \box and
\* \vsplit keep the scope of the register, and the tokens of \aftergroup come back in
\* order (eqtb.rs slot, sparse_slot, take_box, pop_level_full; engine.rs pop_group).
\* \parshape is left out, with which the engine does not keep it.
THEOREM ScopesAreKept ==
    ASSUME \A a \in Slots : Kind(a) # "parshape"
    PROVE  JointSpec => []GroupsKept
<1>1. JointInit => StackInv /\ ScopeInv
  BY ScopeInit, StackInit DEF JointInit
<1>2. StackInv /\ ScopeInv /\ [JointNext]_<<vars, ScopeVars>> => (StackInv /\ ScopeInv)'
  <2> SUFFICES ASSUME StackInv, ScopeInv, [JointNext]_<<vars, ScopeVars>> PROVE StackInv' /\ ScopeInv'
    OBVIOUS
  <2>1. StackInv'
    BY JointIsNext, StackStep
  <2> QED BY <2>1, ScopeKept
<1>3. StackInv /\ ScopeInv => GroupsKept
  BY ScopeRead
<1> QED BY <1>1, <1>2, <1>3, PTL DEF JointSpec

-----------------------------------------------------------------------------
(* The abstract specification *)

\* Every joint step is one of Grouping.
LEMMA GroupingStep ==
    ASSUME StackInv, ScopeInv, StackInv', JointNext
    PROVE  Scope!Next \/ UNCHANGED ScopeVars
<1>1. doc.slots \subseteq Slots /\ doc.values \subseteq Values /\ doc.tokens \subseteq Tokens
  BY OfDocument
<1>2. ASSUME NEW a \in doc.slots, NEW v \in doc.values, NEW global \in BOOLEAN, Bind(a, v, global)
      PROVE  Scope!Next
  <2>1. a \in Slots /\ v \in Values
    BY <1>1
  <2>2. CASE ~global
    BY <2>1, <2>2, <1>2 DEF Bind, Scope!Next
  <2>3. CASE global
    <3> DEFINE f == [b \in {a} |-> v]
               S == {a}
    <3>1. Scope!AssignGlobal(S, f) /\ f \in [S -> Values]
      BY <2>1, <2>3, <1>2 DEF Bind
    <3>2. S \in {CatSlots(t) : t \in Tables} \cup {{b} : b \in Slots}
      BY <2>1
    <3> HIDE DEF S, f
    <3> QED BY <3>1, <3>2 DEF Scope!Next
  <2> QED BY <2>2, <2>3
<1>3. ASSUME NEW t \in Tables, NEW f \in [CatSlots(t) -> Values], Scope!AssignGlobal(CatSlots(t), f)
      PROVE  Scope!Next
  <2> DEFINE S == CatSlots(t)
  <2>1. S \in {CatSlots(u) : u \in Tables} \cup {{b} : b \in Slots}
    OBVIOUS
  <2>2. f \in [S -> Values] /\ Scope!AssignGlobal(S, f)
    BY <1>3
  <2> HIDE DEF S
  <2> QED BY <2>1, <2>2 DEF Scope!Next
<1>4. ASSUME NEW a \in doc.slots, NEW t \in doc.values, init_cat_table(a, t), BindTable(t, InitexCode)
      PROVE  Scope!Next
  <2> DEFINE f == [b \in CatSlots(t) |-> InitexCode(b)]
  <2>1. t \in Tables /\ Scope!AssignGlobal(CatSlots(t), f)
    BY <1>4 DEF init_cat_table, BindTable
  <2>2. \A b : InitexCode(b) \in Values
    BY SlotAssumption DEF InitexCode
  <2>3. f \in [CatSlots(t) -> Values]
    BY <2>2
  <2> HIDE DEF f
  <2> QED BY <2>1, <2>3, <1>3
<1>5. ASSUME NEW a \in doc.slots, NEW t \in doc.values, save_cat_table(a, t), BindTable(t, CurrentCode)
      PROVE  Scope!Next
  <2> DEFINE f == [b \in CatSlots(t) |-> CurrentCode(b)]
  <2>1. t \in Tables /\ Scope!AssignGlobal(CatSlots(t), f)
    BY <1>5 DEF save_cat_table, BindTable
  <2>2. ASSUME NEW b \in CatSlots(t) PROVE CurrentCode(b) \in Values
    <3>1. Twin(b) \in Slots
      <4>1. b \in Slots /\ Kind(b) \in {"cat", "widecat"} /\ CatTable \in Tables
        BY CellsFit DEF CatSlots
      <4> QED BY <4>1, CatAssumption DEF Twin, Kind
    <3>2. Fits(dense[Twin(b)], "dense", Twin(b)) /\ dense[Twin(b)] \in Places /\ sparse[Twin(b)] \in Places
      BY <3>1, CellsFit DEF StackInv
    <3> QED BY <3>2 DEF Fits, Places, CurrentCode, Read
  <2>3. f \in [CatSlots(t) -> Values]
    BY <2>2
  <2> HIDE DEF f
  <2> QED BY <2>1, <2>3, <1>3
<1>6. ASSUME NEW a \in doc.slots, NEW v \in doc.values, replace_box_value(a, v), Scope!Replace(a, v)
      PROVE  Scope!Next
  <2>1. a \in {b \in Slots : Kind(b) = "box"} /\ v \in Values
    BY <1>1, <1>6 DEF replace_box_value
  <2> QED BY <2>1, <1>6 DEF Scope!Next
<1>7. ASSUME NEW t \in doc.tokens, Scope!AfterGroup(t) PROVE Scope!Next
  BY <1>1, <1>7 DEF Scope!Next
<1>8. Scope!BeginGroup \/ Scope!EndGroup => Scope!Next
  BY DEF Scope!Next
<1> QED BY <1>2, <1>4, <1>5, <1>6, <1>7, <1>8 DEF JointNext

\* Beside the save stack the frames behave as groups do: every assignment, \box,
\* \catcodetable operation, \aftergroup, begin and end of a group that the engine
\* makes is one of Grouping, on slots and values that Grouping knows (eqtb.rs; with
\* ScopesAreKept: what the engine reads is what a behaviour of Grouping gives).
THEOREM FramesAreGroups ==
    ASSUME \A a \in Slots : Kind(a) # "parshape"
    PROVE  JointSpec => Scope!Spec
<1>1. JointInit => StackInv /\ ScopeInv
  BY ScopeInit, StackInit DEF JointInit
<1>2. StackInv /\ ScopeInv /\ [JointNext]_<<vars, ScopeVars>> => (StackInv /\ ScopeInv)'
  <2> SUFFICES ASSUME StackInv, ScopeInv, [JointNext]_<<vars, ScopeVars>> PROVE StackInv' /\ ScopeInv'
    OBVIOUS
  <2>1. StackInv'
    BY JointIsNext, StackStep
  <2> QED BY <2>1, ScopeKept
<1>3. JointInit => Scope!GroupingInit
  <2> SUFFICES ASSUME JointInit PROVE Scope!GroupingInit
    OBVIOUS
  <2> DEFINE f == [a \in Slots |-> Read(dense, sparse, a)]
  <2>1. frames = <<f>> /\ after = <<<<>>>> /\ given = <<>>
    BY DEF JointInit
  <2>2. \A a \in Slots : Read(dense, sparse, a) \in Values
    BY SlotAssumption DEF JointInit, Init, Read
  <2>3. f \in [Slots -> Values]
    BY <2>2
  <2> HIDE DEF f
  <2> QED BY <2>1, <2>3 DEF Scope!GroupingInit
<1>4. StackInv /\ ScopeInv /\ StackInv' /\ [JointNext]_<<vars, ScopeVars>> => [Scope!Next]_(Scope!vars)
  <2> SUFFICES ASSUME StackInv, ScopeInv, StackInv', [JointNext]_<<vars, ScopeVars>>
               PROVE  [Scope!Next]_(Scope!vars)
    OBVIOUS
  <2>1. CASE JointNext
    BY <2>1, GroupingStep DEF ScopeVars, Scope!vars
  <2>2. CASE UNCHANGED <<vars, ScopeVars>>
    BY <2>2 DEF ScopeVars, Scope!vars
  <2> QED BY <2>1, <2>2
<1> QED BY <1>1, <1>2, <1>3, <1>4, PTL DEF JointSpec, Scope!Spec
=============================================================================
