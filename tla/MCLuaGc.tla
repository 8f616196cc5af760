------------------------------ MODULE MCLuaGc ------------------------------
(* Small heaps for LuaGc: finalizers, weak tables, ephemerons, coroutines. *)
EXTENDS LuaGc, TLC

Kinds(a, b) == (Main :> "thread") @@ ("a" :> a) @@ ("b" :> b)

FinalizerHeap ==
    [kinds |-> Kinds("table", "userdata"), initial |-> {}, finalizable |-> {"a", "b"},
     collect |-> {"collect", "step"}, errors |-> TRUE, watched |-> "b"]

WeakHeap ==
    [kinds |-> Kinds("table", "weak"), initial |-> {}, finalizable |-> {"a", "b"},
     collect |-> {"collect"}, errors |-> FALSE, watched |-> "a"]

EphemeronHeap ==
    [kinds |-> Kinds("table", "ephemeron") @@ ("c" :> "userdata"),
     initial |-> {"a", "b", "c"}, finalizable |-> {"a"},
     collect |-> {}, errors |-> FALSE, watched |-> "c"]

UpvalueHeap ==
    [kinds |-> Kinds("thread", "closure") @@ ("c" :> "upvalue") @@ ("d" :> "userdata"),
     initial |-> {"a", "d"}, finalizable |-> {},
     collect |-> {}, errors |-> FALSE, watched |-> "a"]

HeapsTried == {FinalizerHeap, WeakHeap, EphemeronHeap, UpvalueHeap}
=============================================================================
