-------------------------- MODULE SaveStackScopes --------------------------
(***************************************************************************)
(* The save stack and what groups promise, side by side: every operation   *)
(* of SaveStack is taken together with the one of Grouping that it         *)
(* stands for, and what can be read from the tables must be what the       *)
(* frames say.                                                             *)
(***************************************************************************)
EXTENDS SaveStack

CONSTANTS Unbound       \* a frame says nothing of a slot

ASSUME UnboundAssumption == Unbound \notin Values

VARIABLES frames, after, given      \* Grouping's

Scope == INSTANCE Grouping WITH
    Boxes <- {a \in Slots : Kind(a) = "box"},
    Wholes <- {CatSlots(t) : t \in Tables}

ScopeVars == <<frames, after, given>>

JointInit ==
    /\ Init
    /\ frames = <<[a \in Slots |-> Read(dense, sparse, a)]>>
    /\ after = <<<<>>>> /\ given = <<>>

Bind(a, v, global) ==
    IF global THEN Scope!AssignGlobal({a}, [b \in {a} |-> v])
    ELSE Scope!AssignLocal(a, v)

\* All category codes of a table become those that f gives.
BindTable(t, f(_)) ==
    Scope!AssignGlobal(CatSlots(t), [a \in CatSlots(t) |-> f(a)])

InitexCode(a) == IF IsSparse(a) THEN 0 ELSE InitexCat
CurrentCode(a) == Read(dense, sparse, Twin(a))

JointNext ==
    \/ \E a \in doc.slots, v \in doc.values :
          \/ \E global \in BOOLEAN : Assign(a, v, global) /\ Bind(a, v, global)
          \/ assign_local_box(a, v) /\ Bind(a, v, FALSE)
          \/ replace_box_value(a, v) /\ Scope!Replace(a, v)
          \/ set_box_untraced(a, v) /\ Bind(a, v, TRUE)
          \/ init_cat_table(a, v) /\ BindTable(v, InitexCode)
          \/ save_cat_table(a, v) /\ BindTable(v, CurrentCode)
    \/ push_level /\ IF curLevel = MaxGroupLevel THEN UNCHANGED ScopeVars ELSE Scope!BeginGroup
    \/ pop_group /\ Scope!EndGroup
    \/ \E t \in doc.tokens : after_group(t) /\ Scope!AfterGroup(t)

JointSpec == JointInit /\ [][JointNext]_<<vars, ScopeVars>>

\* Whatever is read from the tables is what the groups promise: local
\* assignments end with their group, \global ones survive every group, \box and
\* \vsplit keep the scope of the register, and \aftergroup tokens come back in
\* order (eqtb.rs slot, sparse_slot, take_box, pop_level_full; engine.rs pop_group).
GroupsKept ==
    /\ Len(frames) = curLevel
    /\ \A a \in Slots : Read(dense, sparse, a) = Scope!Lookup(a)
    /\ input = given
=============================================================================
