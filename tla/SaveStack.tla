----------------------------- MODULE SaveStack -----------------------------
(***************************************************************************)
(* The table of equivalents of the TeX engine and its save stack           *)
(* (crates/tex-core/src/eqtb.rs, and engine.rs for the shapes): how local  *)
(* and \global assignments, \aftergroup and the ends of groups work on one *)
(* table of current values, one table of assignment levels and one stack   *)
(* of values to restore.                                                   *)
(*                                                                         *)
(* A slot is <<kind, table, name>>. The kinds differ in how they are       *)
(* assigned to:                                                            *)
(*   name       a control sequence                     define_eq           *)
(*   register   parameters, registers, codes, fonts    assign_count, ...   *)
(*   box        box registers                          assign_box          *)
(*   localbox   LuaTeX's \localleftbox, \localrightbox assign_local_box    *)
(*   wide       codes of characters above 255          sparse_slot         *)
(*   attribute  LuaTeX attributes                      assign_attribute    *)
(*   overlay    math and delimiter codes               assign_math_code_for*)
(*   case       \lccode, \uccode                       assign_case_code    *)
(*   table      the current \catcodetable              assign_cat_table    *)
(*   cat        a \catcode in one table                assign_cat          *)
(*   widecat    the same, above 255                    assign_cat_code     *)
(*   shape      e-TeX penalty arrays                   assign_penalty_shape*)
(*   parshape   \parshape                              assign_par_shape    *)
(* A slot has a place in a dense table and one in a sparse table; each     *)
(* kind uses the one or the other, overlay and case use both.              *)
(***************************************************************************)
EXTENDS Naturals, Sequences, FiniteSets, SequencesExt

CONSTANTS
    Documents,      \* what one document uses: [slots, values, tokens]
    Values,         \* 0 is void, empty, undefined
    Tables,         \* the catcode tables, which are values too
    Large,          \* values that do not fit into a dense table
    InitexCat,      \* a category code in a table made by \initcatcodetable
    Tokens,         \* arguments of \aftergroup
    Absent,         \* no entry in a sparse table
    MaxGroupLevel, MaxSaveStack     \* MAX_GROUP_LEVEL, MAX_SAVE_STACK

ASSUME SlotAssumption ==
    /\ 0 \in Tables /\ Tables \subseteq Values /\ InitexCat \in Values /\ Large \subseteq Values
    /\ Absent \notin Values
    /\ \A d \in Documents : d.values \subseteq Values /\ d.tokens \subseteq Tokens
    /\ MaxGroupLevel \in Nat \ {0} /\ MaxSaveStack \in Nat

\* The slot of \catcodetable itself
Current == <<"table", 0, "catcodetable">>

Slots == (UNION {d.slots : d \in Documents}) \cup {Current}

\* A character has a category code in every table.
ASSUME CatAssumption ==
    \A a \in Slots : a[1] \in {"cat", "widecat"} =>
        \A t \in Tables : <<a[1], t, a[3]>> \in Slots

\* There is one \parshape.
ASSUME ParShapeAssumption ==
    \A a, b \in Slots : a[1] = "parshape" /\ b[1] = "parshape" => a = b

LevelOne == 1

VARIABLES
    doc,            \* the document
    dense, sparse,  \* slot -> [v |-> value, l |-> assignment level]
    save,           \* the save stack
    groups,         \* for each open group, the length of the stack before it
    curLevel,
    tooDeep,        \* group_level_capacity_exceeded
    valid,          \* catcode tables that may be switched to, the current one too
    curAttr,        \* the attributes of new nodes: a cached list
    input           \* tokens that the last end of a group has put back

vars == <<doc, dense, sparse, save, groups, curLevel, tooDeep, valid,
          curAttr, input>>

Kind(a) == a[1]
TableOf(a) == a[2]

CatTable == dense[Current].v

Init ==
    /\ doc \in Documents
    /\ dense = [a \in Slots |-> [v |-> 0, l |-> LevelOne]]
    /\ sparse = [a \in Slots |-> [v |-> Absent, l |-> LevelOne]]
    /\ save = <<>> /\ groups = <<>> /\ curLevel = LevelOne
    /\ tooDeep = FALSE /\ valid = {0}
    /\ curAttr = {} /\ input = <<>>

\* main_loop ends in a fatal error when a table has overflown.
Running == ~tooDeep /\ Len(save) <= MaxSaveStack

Item(part, a, old) == [part |-> part, slot |-> a, old |-> old]

\* The kinds that live in the sparse table alone
IsSparse(a) == Kind(a) \in {"wide", "attribute", "widecat"}

Read(d, s, a) == IF s[a].v # Absent THEN s[a].v ELSE d[a].v

\* Mutant: a value of this group is saved again.
SavedAgain(table, part, a, global) ==
    IF ~global /\ table[a].l <= curLevel
    THEN Append(save, Item(part, a, table[a])) ELSE save

\* Eqtb::slot and sparse_slot: an outer value is saved once per group.
Saved(table, part, a, global) ==
    IF ~global /\ table[a].l < curLevel
    THEN Append(save, Item(part, a, table[a])) ELSE save

Level(global) == IF global THEN LevelOne ELSE curLevel

AssignDense(a, v, global) ==
    /\ save' = Saved(dense, "dense", a, global)
    /\ dense' = [dense EXCEPT ![a] = [v |-> v, l |-> Level(global)]]
    /\ UNCHANGED sparse

AssignSparse(a, v, global) ==
    /\ save' = Saved(sparse, "sparse", a, global)
    /\ sparse' = [sparse EXCEPT ![a] = [v |-> v, l |-> Level(global)]]
    /\ UNCHANGED dense

\* begin_assign: a local assignment of the value that is there does nothing.
Reassigns(a, v, global) == ~global /\ v = Read(dense, sparse, a)

UnchangedRest == UNCHANGED <<doc, groups, curLevel, tooDeep, valid, input>>

----------------------------------------------------------------------------
(* Assignments *)

\* The registers that are set, in the table s
AttrList(s) ==
    {<<a, s[a].v>> : a \in {b \in Slots : /\ Kind(b) = "attribute"
                                         /\ s[b].v \notin {Absent, 0}}}

define_eq(a, v, global) ==
    /\ Running /\ Kind(a) = "name" /\ ~Reassigns(a, v, global)
    /\ AssignDense(a, v, global)
    /\ UnchangedRest /\ UNCHANGED curAttr

assign_register(a, v, global) ==
    /\ Running /\ Kind(a) = "register" /\ ~Reassigns(a, v, global)
    /\ AssignDense(a, v, global)
    /\ UnchangedRest /\ UNCHANGED curAttr

\* Two box values are never the same, except for void.
assign_box(a, v, global) ==
    /\ Running /\ Kind(a) = "box"
    /\ global \/ v # 0 \/ dense[a].v # 0
    /\ AssignDense(a, v, global)
    /\ UnchangedRest /\ UNCHANGED curAttr

\* \localleftbox, \localrightbox
assign_local_box(a, v) ==
    /\ Running /\ Kind(a) = "localbox"
    /\ AssignDense(a, v, FALSE)
    /\ UnchangedRest /\ UNCHANGED curAttr

\* \box empties a register, \vsplit leaves the rest in it: the level stays.
replace_box_value(a, v) ==
    /\ Running /\ Kind(a) = "box" /\ dense[a].v # 0
    /\ dense' = [dense EXCEPT ![a].v = v]
    /\ UnchangedRest /\ UNCHANGED <<sparse, save, curAttr>>

\* The page builder stores into a box register.
set_box_untraced(a, v) ==
    /\ Running /\ Kind(a) = "box"
    /\ dense' = [dense EXCEPT ![a] = [v |-> v, l |-> LevelOne]]
    /\ UnchangedRest /\ UNCHANGED <<sparse, save, curAttr>>

assign_wide(a, v, global) ==
    /\ Running /\ Kind(a) = "wide" /\ ~Reassigns(a, v, global)
    /\ AssignSparse(a, v, global)
    /\ UnchangedRest /\ UNCHANGED curAttr

assign_attribute(a, v, global) ==
    /\ Running /\ Kind(a) = "attribute"
    /\ AssignSparse(a, v, global)
    /\ curAttr' = AttrList(sparse')
    /\ UnchangedRest

\* Once a character has an entry in the sparse table, that one is used.
assign_math_code_for(a, v, global) ==
    /\ Running /\ Kind(a) = "overlay" /\ ~Reassigns(a, v, global)
    /\ IF v \notin Large /\ sparse[a].v = Absent
       THEN AssignDense(a, v, global)
       ELSE AssignSparse(a, v, global)
    /\ UnchangedRest /\ UNCHANGED curAttr

\* Both tables are assigned to, the dense one with 0 for a large value.
assign_case_code(a, v, global) ==
    /\ Running /\ Kind(a) = "case"
    /\ LET byte == IF v \in Large THEN 0 ELSE v
           skipDense == ~global /\ dense[a].v = byte
           first == IF skipDense THEN save ELSE Saved(dense, "dense", a, global)
           skipSparse == v \notin Large /\ sparse[a].v = Absent
           saves == /\ ~global /\ curLevel > LevelOne
                    /\ sparse[a].v = Absent \/ sparse[a].l # curLevel
       IN /\ dense' = IF skipDense THEN dense
                      ELSE [dense EXCEPT ![a] = [v |-> byte, l |-> Level(global)]]
          /\ sparse' = IF skipSparse THEN sparse
                       ELSE [sparse EXCEPT ![a] = [v |-> v, l |-> Level(global)]]
          /\ save' = IF ~skipSparse /\ saves
                     THEN Append(first, Item("sparse", a, sparse[a])) ELSE first
    /\ UnchangedRest /\ UNCHANGED curAttr

\* The engine compares shapes only when both are empty.
assign_shape(a, v, global) ==
    /\ Running /\ Kind(a) \in {"shape", "parshape"}
    /\ global \/ v # 0 \/ dense[a].v # 0
    /\ AssignDense(a, v, global)
    /\ UnchangedRest /\ UNCHANGED curAttr

----------------------------------------------------------------------------
(* Category codes, in the current table or in another one *)

assign_cat_code_in(a, v, global) ==
    /\ Running /\ Kind(a) \in {"cat", "widecat"}
    /\ ~(TableOf(a) = CatTable /\ Reassigns(a, v, global))
    /\ IF IsSparse(a) THEN AssignSparse(a, v, global) ELSE AssignDense(a, v, global)
    /\ UnchangedRest /\ UNCHANGED curAttr

assign_cat_table(a, t, global) ==
    /\ Running /\ a = Current /\ t \in valid /\ t # CatTable
    /\ AssignDense(a, t, global)
    /\ UnchangedRest /\ UNCHANGED curAttr

CatSlots(t) == {a \in Slots : Kind(a) \in {"cat", "widecat"} /\ TableOf(a) = t}

init_cat_table(a, t) ==
    /\ Running /\ a = Current /\ t \in Tables \ {CatTable}
    /\ dense' = [b \in Slots |-> IF b \in CatSlots(t) /\ ~IsSparse(b)
                                 THEN [v |-> InitexCat, l |-> LevelOne] ELSE dense[b]]
    /\ sparse' = [b \in Slots |-> IF b \in CatSlots(t)
                                  THEN [v |-> Absent, l |-> LevelOne] ELSE sparse[b]]
    /\ valid' = valid \cup {t}
    /\ UNCHANGED <<doc, save, groups, curLevel, tooDeep, input, curAttr>>

\* The same character in the current table
Twin(a) == <<Kind(a), CatTable, a[3]>>

save_cat_table(a, t) ==
    /\ Running /\ a = Current /\ t \in Tables \ {CatTable}
    /\ dense' = [b \in Slots |-> IF b \in CatSlots(t)
                                 THEN [v |-> dense[Twin(b)].v, l |-> LevelOne] ELSE dense[b]]
    /\ sparse' = [b \in Slots |-> IF b \in CatSlots(t)
                                  THEN [v |-> sparse[Twin(b)].v, l |-> LevelOne] ELSE sparse[b]]
    /\ valid' = valid \cup {t}
    /\ UNCHANGED <<doc, save, groups, curLevel, tooDeep, input, curAttr>>

----------------------------------------------------------------------------
(* Groups *)

after_group(t) ==
    /\ Running
    /\ save' = Append(save, [part |-> "after", token |-> t])
    /\ UnchangedRest /\ UNCHANGED <<dense, sparse, curAttr>>

\* Mutant: the group is recorded before the level is checked.
PushUnchecked ==
    /\ Running
    /\ groups' = Append(groups, Len(save))
    /\ IF curLevel = MaxGroupLevel
       THEN tooDeep' = TRUE /\ UNCHANGED <<curLevel, save>>
       ELSE /\ curLevel' = curLevel + 1
            /\ save' = Append(save, [part |-> "level", level |-> curLevel + 1])
            /\ UNCHANGED tooDeep
    /\ UNCHANGED <<doc, dense, sparse, valid, curAttr, input>>

push_level ==
    /\ Running
    /\ IF curLevel = MaxGroupLevel
       THEN tooDeep' = TRUE /\ UNCHANGED <<groups, curLevel, save>>
       ELSE /\ groups' = Append(groups, Len(save))
            /\ curLevel' = curLevel + 1
            /\ save' = Append(save, [part |-> "level", level |-> curLevel + 1])
            /\ UNCHANGED tooDeep
    /\ UNCHANGED <<doc, dense, sparse, valid, curAttr, input>>

\* What the n-th open group has put on the save stack
Items(n) ==
    SubSeq(save, groups[n] + 2, IF n = Len(groups) THEN Len(save) ELSE groups[n + 1])

IsAfter(item) == item.part = "after"
IsParShape(item) == ~IsAfter(item) /\ Kind(item.slot) = "parshape"
IsOther(item) == ~IsAfter(item) /\ ~IsParShape(item)

Parts == {"dense", "sparse"}
Tabled == [p \in Parts |-> IF p = "dense" THEN dense ELSE sparse]

\* Mutant: global values are overwritten.
RestoreAlways(item, st) == [st EXCEPT ![item.part][item.slot] = item.old]

\* A value at level one was assigned globally, and is kept.
Restore(item, st) ==
    IF st[item.part][item.slot].l > LevelOne
    THEN [st EXCEPT ![item.part][item.slot] = item.old] ELSE st

\* The tables when the k topmost items are popped; \parshape items are kept aside.
Undone(st, items) ==
    LET undone[k \in 0..Len(items)] ==
            IF k = 0 THEN st
            ELSE LET item == items[Len(items) - k + 1]
                 IN IF IsOther(item) THEN Restore(item, undone[k - 1]) ELSE undone[k - 1]
    IN undone

\* The end of the group whose items these are: all are popped, and then of the
\* \parshape items the last one that was met is used (pop_group).
Unsave(st, items) ==
    LET others == Undone(st, items)[Len(items)]
        shapes == {i \in DOMAIN items : IsParShape(items[i])}
    IN IF shapes = {} THEN others ELSE Restore(items[Min(shapes)], others)

\* The tokens of \aftergroup among the first k items, in the order in which they were given
Collected(items) ==
    LET collected[k \in 0..Len(items)] ==
            IF k = 0 THEN <<>>
            ELSE IF IsAfter(items[k]) THEN Append(collected[k - 1], items[k].token)
            ELSE collected[k - 1]
    IN collected

AfterTokens(items) == Collected(items)[Len(items)]

\* Mutant: the end of a group leaves the list as it is.
AttrKept(items, st) == curAttr

\* Each attribute that is restored refreshes the list.
AttrAfter(items, st) ==
    IF \E i \in DOMAIN items : IsOther(items[i]) /\ Kind(items[i].slot) = "attribute"
    THEN AttrList(st["sparse"]) ELSE curAttr

pop_group ==
    /\ Running /\ groups # <<>>
    /\ LET items == Items(Len(groups))
           st == Unsave(Tabled, items)
       IN /\ dense' = st["dense"] /\ sparse' = st["sparse"]
          /\ input' = AfterTokens(items)
          /\ curAttr' = AttrAfter(items, st)
    /\ save' = SubSeq(save, 1, groups[Len(groups)])
    /\ curLevel' = save[groups[Len(groups)] + 1].level - 1
    /\ groups' = Front(groups)
    /\ UNCHANGED <<doc, tooDeep, valid>>

\* An assignment to the slot a that can be prefixed by \global
Assign(a, v, global) ==
    \/ define_eq(a, v, global)
    \/ assign_register(a, v, global)
    \/ assign_box(a, v, global)
    \/ assign_wide(a, v, global)
    \/ assign_attribute(a, v, global)
    \/ assign_math_code_for(a, v, global)
    \/ assign_case_code(a, v, global)
    \/ assign_shape(a, v, global)
    \/ assign_cat_code_in(a, v, global)
    \/ assign_cat_table(a, v, global)

Next ==
    \/ \E a \in doc.slots, v \in doc.values :
          \/ \E global \in BOOLEAN : Assign(a, v, global)
          \/ assign_local_box(a, v)
          \/ replace_box_value(a, v)
          \/ set_box_untraced(a, v)
          \/ init_cat_table(a, v)
          \/ save_cat_table(a, v)
    \/ push_level
    \/ pop_group
    \/ \E t \in doc.tokens : after_group(t)

Spec == Init /\ [][Next]_vars

----------------------------------------------------------------------------
(* Invariants *)

\* The list of attributes that new nodes get is the one of the registers, also
\* after the end of a group (eqtb.rs refresh_cur_attr).
AttributesCurrent == curAttr = AttrList(sparse)

\* Outside all groups nothing is left to restore and every value is global: a
\* format can be dumped (format.rs; "it would block \dump forever", eqtb.rs
\* define_cur_font).
BottomIsGlobal ==
    curLevel = LevelOne =>
       /\ \A i \in DOMAIN save : IsAfter(save[i])
       /\ \A a \in Slots : dense[a].l = LevelOne /\ sparse[a].l = LevelOne

Places == [v : Values \cup {Absent}, l : LevelOne..MaxGroupLevel]

SaveItems ==
    [part : Parts, slot : Slots, old : Places]
    \cup [part : {"after"}, token : Tokens]
    \cup [part : {"level"}, level : 2..MaxGroupLevel]

\* Types; no value has a level above that of the innermost open group; and the list of
\* groups, by which warnings and \currentgrouplevel are computed, names the boundaries of
\* the save stack, also when the level overflows (eqtb.rs push_level_with, leave_level).
TypeOK ==
    /\ doc \in Documents
    /\ dense \in [Slots -> Places] /\ sparse \in [Slots -> Places]
    /\ \A a \in Slots : dense[a].l <= curLevel /\ sparse[a].l <= curLevel
    /\ save \in Seq(SaveItems)
    /\ groups \in Seq(Nat) /\ curLevel = Len(groups) + 1
    /\ {i \in DOMAIN save : save[i].part = "level"} = {groups[n] + 1 : n \in DOMAIN groups}
    /\ \A n \in DOMAIN groups : save[groups[n] + 1].level = n + 1
    /\ tooDeep \in BOOLEAN /\ valid \subseteq Tables
    /\ curAttr \subseteq (Slots \X Values) /\ input \in Seq(Tokens)
=============================================================================
