------------------------------- MODULE LuaGc -------------------------------
(***************************************************************************)
(* The incremental garbage collector of the Lua interpreter                *)
(* (crates/tex-lua/src/gc/mod.rs), in the mode that TeX's Lua 5.3 uses:    *)
(* a tri-colour collector that works in small steps between the            *)
(* instructions of the program, with two whites, two write barriers, weak  *)
(* tables, ephemerons, finalizers, and upvalues that are open on the stack *)
(* of a coroutine.                                                         *)
(*                                                                         *)
(* An object's kind is fixed. What it refers to is a set:                  *)
(*   thread     its stack: Main the running one, others are coroutines     *)
(*   table      the values of its fields                                   *)
(*   weak       the same, __mode = "v"                                     *)
(*   ephemeron  one entry, __mode = "k": key[o] and, in refs[o], its value *)
(*   userdata   nothing                                                    *)
(*   closure    its upvalue                                                *)
(*   upvalue    its value, in refs[home[o]] while it is open               *)
(***************************************************************************)
EXTENDS Naturals, Sequences, FiniteSets, SequencesExt

CONSTANTS
    Objects,        \* the names of objects; the name of a freed one is used again
    Main,           \* the main thread
    Heaps           \* the heaps that are tried: their kinds of objects and more

ASSUME HeapAssumption ==
    /\ IsFiniteSet(Objects)
    /\ \A h \in Heaps :
         /\ DOMAIN h.kinds \subseteq Objects         \* the objects of a heap and their kinds
         /\ Main \in DOMAIN h.kinds /\ h.kinds[Main] = "thread"
         /\ h.initial \subseteq DOMAIN h.kinds      \* the program starts with these, on its stack,
         /\ \A o \in h.initial : h.kinds[o] # "upvalue"   \* where there are no bare upvalues
         /\ h.finalizable \subseteq Objects         \* those that may get a __gc metamethod
         /\ h.collect \subseteq {"collect", "step"} \* the arguments of collectgarbage
         /\ h.watched \in Objects                   \* the object of the liveness properties
         /\ h.errors \in BOOLEAN                    \* whether a __gc may raise an error

VARIABLES
    heap,           \* the heap that was chosen
    alive,          \* the objects that are allocated
    refs, key, home,
    done,           \* coroutines that have ended
    colour,         \* white is the current white, dead the other one
    touched,        \* open upvalues whose `touched' flag is set
    twups,          \* threads with open upvalues
    gray, grayagain,
    state,          \* gc_state
    unswept,        \* what the list that is being swept still holds
    finobj, tobefnz,    \* objects with a finalizer, in order; those waiting for its call
    finalized,      \* objects whose FINALIZEDBIT is set
    running,        \* the object whose finalizer runs, if any
    error,          \* finalizer_error
    caller          \* how far an explicit collection is

program == <<heap, key, home, done>>
lists == <<gray, grayagain, twups, touched>>
finalizers == <<finobj, tobefnz, finalized>>
vars == <<program, alive, refs, colour, lists, state, unswept, finalizers,
          running, error, caller>>

Whites == {"white", "dead"}
States == {"Pause", "Propagate", "EnterAtomic", "SwpAllGc", "SwpFinObj", "SwpToBeFnz",
           "SwpEnd", "CallFin"}
KeepInvariant == state \in {"Propagate", "EnterAtomic"}
SweepPhase == state \in {"SwpAllGc", "SwpFinObj", "SwpToBeFnz", "SwpEnd"}

\* run_until_state passes fast = true
Fast == caller \in {"toPause", "toCallFin", "finish"}

kind == heap.kinds

IsWhite(o) == colour[o] \in Whites
WhiteObjects == {o \in alive : IsWhite(o)}
Stack == refs[Main]

\* The value of an upvalue: on the stack of a thread while the upvalue is open
Content(u) == (UNION {refs[t] : t \in home[u]}) \cup refs[u]
Upvalues(t) == {u \in alive : t \in home[u]}

-----------------------------------------------------------------------------
(* Marking *)

\* Sets that grow from S, by next[X] after X
Grown(S, next) ==
    LET grown[n \in 0..Cardinality(DOMAIN kind)] ==
            IF n = 0 THEN S ELSE UNION {X \cup next[X] : X \in {grown[n - 1]}}
    IN grown

\* The least set that holds S and, with X, also next[X]
Closure(S, next) == Grown(S, next)[Cardinality(DOMAIN kind)]

\* What traversing o marks, when the objects of M are marked
Children(o, M) ==
    CASE kind[o] = "weak" -> {}
      [] kind[o] = "ephemeron" -> IF key[o] \subseteq M THEN refs[o] ELSE {}
      [] kind[o] = "thread" -> refs[o] \cup Upvalues(o)
      [] kind[o] = "upvalue" -> Content(o)
      [] OTHER -> refs[o]

\* really_mark_object goes through upvalues and userdata at once; others wait in a gray list
Marked(S) ==
    Closure(S \cap WhiteObjects,
            [X \in SUBSET DOMAIN kind |->
               UNION {Content(u) \cap WhiteObjects : u \in {o \in X : kind[o] = "upvalue"}}])
Waiting(S) == {o \in S : kind[o] \notin {"upvalue", "userdata"}}
MarkColour(o) == IF kind[o] \in {"upvalue", "userdata"} /\ home[o] = {} THEN "black" ELSE "gray"
ColourMarked(S, c) == [o \in Objects |-> IF o \in S THEN MarkColour(o) ELSE c[o]]

\* restart_collection: the roots are the main thread and the objects to be finalized
RestartCollection ==
    LET roots == Marked({Main} \cup Range(tobefnz))
    IN /\ state = "Pause" /\ state' = "Propagate"
       /\ gray' = Waiting(roots) /\ grayagain' = {}
       /\ colour' = ColourMarked(roots, colour)
       /\ UNCHANGED <<alive, refs, key, home, twups, touched, unswept, finalizers,
                      running>>

\* Traverse one gray object. Threads, weak tables and ephemerons are traversed again later
PropagateMark(o) ==
    LET new == Marked(Children(o, alive \ WhiteObjects))
    IN /\ colour' = ColourMarked(new, [colour EXCEPT ![o] = "black"])
       /\ gray' = (gray \ {o}) \cup Waiting(new)
       /\ grayagain' = IF kind[o] \in {"weak", "ephemeron"} \/ (kind[o] = "thread" /\ o \notin done)
                       THEN grayagain \cup {o} ELSE grayagain
       /\ touched' = IF kind[o] = "closure"
                     THEN touched \cup {u \in refs[o] : home[u] # {}} ELSE touched
       /\ twups' = IF kind[o] = "thread" /\ Upvalues(o) # {} THEN twups \cup {o} ELSE twups

Propagate ==
    /\ state = "Propagate"
    /\ \/ /\ gray = {} \/ Fast
          /\ state' = "EnterAtomic"
          /\ UNCHANGED <<colour, lists>>
       \/ /\ ~Fast
          /\ \E o \in gray : PropagateMark(o)
          /\ UNCHANGED state
    /\ UNCHANGED <<alive, refs, key, home, unswept, finalizers, running>>

\* What propagate_all and converge_ephemerons traverse from the gray objects S, when the
\* objects of W are white: an ephemeron passes the mark of its key on to its value
Traversed(S, W) ==
    Closure(S, [X \in SUBSET DOMAIN kind |->
                  UNION {Children(o, X \cup (alive \ W)) \cap W : o \in X}])

Ephemerons(S) == {o \in S : kind[o] = "ephemeron"}
Weaks(S) == {o \in S : kind[o] = "weak"}

\* Mutant: unmarked threads with open upvalues are left alone
UnmarkedKept(W) == {t \in twups : Upvalues(t) = {}}

\* The threads that remark_upvalues drops: not marked, or without open upvalues
Unmarked(W) == {t \in twups : t \in W \/ Upvalues(t) = {}}
\* The upvalues whose values it marks
Remarked(W) == {u \in UNION {Upvalues(t) : t \in Unmarked(W)} : u \in touched \/ u \notin W}

\* A list of objects, without those that are not in S
Among(list, S) ==
    LET among[k \in 0..Len(list)] ==
            IF k = 0 THEN <<>>
            ELSE IF list[k] \in S THEN Append(among[k - 1], list[k]) ELSE among[k - 1]
    IN among[Len(list)]

\* separate_to_be_finalized: the last one registered is finalized first
Separated(W) == Reverse(Among(finobj, W))

\* Mutant: the whites are not exchanged
NotFlipped(c) == c

\* The end of the atomic phase exchanges the two whites
Flipped(c) == CASE c = "white" -> "dead" [] c = "dead" -> "white" [] OTHER -> c

\* The rest of the atomic phase, once the objects of `first' are marked and, with the
\* objects to be finalized, those of `all'; W1 were white when remark_upvalues ran
EndAtomic(W1, first, all) ==
    LET W3 == WhiteObjects \ first
        W4 == WhiteObjects \ all
        cleared == {e \in Ephemerons(all) : key[e] \cap W4 # {}}     \* clear_by_keys
        closed == {u \in alive : home[u] \cap Unmarked(W1) \cap W4 # {}}
    IN /\ state' = "SwpAllGc" /\ unswept' = alive                    \* enter_sweep
       /\ refs' = [o \in Objects |->
                     IF o \in cleared THEN {}
                     ELSE IF o \in Weaks(first) THEN refs[o] \ W3    \* clear_by_values
                     ELSE IF o \in Weaks(all) THEN refs[o] \ W4
                     ELSE IF o \in closed THEN Content(o)
                     ELSE refs[o]]
       /\ key' = [o \in Objects |-> IF o \in cleared THEN {} ELSE key[o]]
       /\ home' = [o \in Objects |-> IF o \in closed THEN {} ELSE home[o]]
       /\ colour' = [o \in Objects |->
                       IF o \in closed \ W4 THEN "black"
                       ELSE IF o \in all THEN (IF home[o] # {} THEN "gray" ELSE "black")
                       ELSE IF o \in alive THEN Flipped(colour[o]) ELSE colour[o]]
       /\ finobj' = Among(finobj, Objects \ W3)
       /\ tobefnz' = tobefnz \o Separated(W3)
       /\ gray' = {} /\ grayagain' = {}
       /\ touched' = touched \ Remarked(W1)
       /\ twups' = (twups \ Unmarked(W1))
                     \cup {t \in all : kind[t] = "thread" /\ Upvalues(t) # {}}
       /\ UNCHANGED <<alive, finalized, running>>

\* X0 is what the gray list leads to, X1 the values of remarked upvalues, X2 the objects
\* to be traversed again, X3 the objects to be finalized. (Each is bound by \E, which has
\* TLC compute it once.)
Atomic ==
    /\ state = "EnterAtomic"
    /\ \E W \in {WhiteObjects} :
       \E X0 \in {Traversed(gray \cup ({Main} \cap W), W)} :
       \E X1 \in {Traversed((UNION {Content(u) : u \in Remarked(W \ X0)}) \cap (W \ X0), W \ X0)} :
       \E X2 \in {Traversed(grayagain \cup Ephemerons(X0 \cup X1), W \ (X0 \cup X1))} :
       \E first \in {X0 \cup X1 \cup X2} :
       \E X3 \in {Traversed(Range(tobefnz \o Separated(W \ first)) \cup Ephemerons(first),
                            W \ first)} :
         EndAtomic(W \ X0, first, first \cup X3)

-----------------------------------------------------------------------------
(* Sweeping and finalizing *)

Whitened(S) == [o \in Objects |-> IF o \in S THEN "white" ELSE colour[o]]
DeadObjects == {o \in alive : colour[o] = "dead"}

\* sweep_list on allgc: a dead object with a finalizer is kept for it
SweepAllGc(S) ==
    LET dead == S \cap DeadObjects
        freed == dead \ finalized
        Cleared(f) == [o \in Objects |-> IF o \in freed THEN {} ELSE f[o]]
    IN /\ alive' = alive \ freed
       /\ refs' = Cleared(refs) /\ key' = Cleared(key) /\ home' = Cleared(home)
       /\ tobefnz' = tobefnz \o SetToSeq(dead \cap finalized)
       /\ colour' = Whitened(S)
       /\ UNCHANGED <<finobj, finalized>>

\* The same on finobj, where a dead object moves to tobefnz
SweepFinObj(S) ==
    LET dead == S \cap DeadObjects
    IN /\ finobj' = Among(finobj, Objects \ dead)
       /\ tobefnz' = tobefnz \o SetToSeq(dead)
       /\ colour' = Whitened(S \ dead)
       /\ UNCHANGED <<alive, refs, key, home, finalized>>

SweepToBeFnz(S) == colour' = Whitened(S) /\ UNCHANGED <<alive, refs, key, home, finalizers>>

\* sweep_step: on to the next list when this one is done
NextList ==
    /\ unswept = {}
    /\ \/ state = "SwpAllGc" /\ state' = "SwpFinObj" /\ unswept' = Range(finobj)
       \/ state = "SwpFinObj" /\ state' = "SwpToBeFnz" /\ unswept' = Range(tobefnz)
       \/ state = "SwpToBeFnz" /\ state' = "SwpEnd" /\ UNCHANGED unswept
       \/ state = "SwpEnd" /\ state' = "CallFin" /\ UNCHANGED unswept
    /\ UNCHANGED <<alive, refs, key, home, colour, finalizers>>

\* A part of the list, in fast mode all of it
SweepStep ==
    /\ SweepPhase
    /\ \/ NextList
       \/ \E S \in IF Fast THEN {unswept} ELSE {{o} : o \in unswept} :
            /\ S # {} /\ unswept' = unswept \ S /\ UNCHANGED state
            /\ \/ state = "SwpAllGc" /\ SweepAllGc(S)
               \/ state = "SwpFinObj" /\ SweepFinObj(S)
               \/ state = "SwpToBeFnz" /\ SweepToBeFnz(S)
    /\ UNCHANGED <<lists, running>>

\* Mutant: gc_emergency has not been reset, and no finalizer is called
CallFinEmergency ==
    /\ state = "CallFin" /\ state' = "Pause"
    /\ UNCHANGED <<finalized, colour, running, refs, tobefnz>>
    /\ UNCHANGED <<alive, key, home, lists, unswept, finobj>>

\* CallFin: call_one_finalizer takes the first object of tobefnz and pushes it as the
\* argument of its __gc metamethod; without one, or with an error pending, the cycle ends
CallFin ==
    /\ state = "CallFin"
    /\ \/ /\ tobefnz # <<>> /\ ~error
          /\ LET o == Head(tobefnz)
             IN /\ finalized' = finalized \ {o}
                /\ colour' = Whitened({o})
                /\ running' = {o}
                /\ refs' = [refs EXCEPT ![Main] = @ \cup {o}]
          /\ tobefnz' = Tail(tobefnz)
          /\ UNCHANGED state
       \/ /\ tobefnz = <<>> \/ error
          /\ state' = "Pause"
          /\ UNCHANGED <<finalized, colour, running, refs, tobefnz>>
    /\ UNCHANGED <<alive, key, home, lists, unswept, finobj>>

-----------------------------------------------------------------------------
(* The callers of the collector *)

SingleStep ==
    /\ running = {}
    /\ RestartCollection \/ Propagate \/ Atomic \/ SweepStep \/ CallFin
    /\ UNCHANGED <<heap, done>>

\* Where full_inc is once the collector's state is s: it runs to Pause, to CallFin and to
\* Pause again. A call of api_step is over after one step
Advance(c, s) ==
    CASE c = "step" -> "none"
      [] c = "toPause" /\ s = "Pause" -> "toCallFin"
      [] c = "toCallFin" /\ s = "CallFin" -> "finish"
      [] c = "finish" /\ s = "Pause" -> "none"
      [] OTHER -> c

\* collectgarbage takes the error of a finalizer when it returns, and raises it
Proceed(c, e) ==
    /\ caller' = Advance(c, state')
    /\ error' = (caller' # "none" /\ e)

\* check_gc: a step when the program has allocated enough; nobody takes the error
AutomaticStep == caller = "none" /\ SingleStep /\ UNCHANGED <<error, caller>>

\* A step on behalf of c; a finalizer that it calls is part of the step
ExplicitStep(c) ==
    /\ SingleStep
    /\ IF running' # {} THEN caller' = c /\ UNCHANGED error ELSE Proceed(c, error)

\* collectgarbage("step")
ApiStep ==
    /\ "step" \in heap.collect /\ caller = "none"
    /\ ExplicitStep("step")

\* collectgarbage("collect"): full_inc leaves an unfinished mark phase by sweeping
FullGc ==
    /\ "collect" \in heap.collect /\ caller = "none" /\ running = {}
    /\ caller' = IF state = "Pause" THEN "toCallFin" ELSE "toPause"
    /\ IF KeepInvariant THEN state' = "SwpAllGc" /\ unswept' = alive
       ELSE UNCHANGED <<state, unswept>>
    /\ UNCHANGED <<program, alive, refs, colour, lists, finalizers, running, error>>

FullStep == Fast /\ ExplicitStep(caller)

\* The metamethod returns, or (Lua 5.3) its error is kept and the cycle ends
EndFinalizer ==
    /\ running # {} /\ running' = {}
    /\ \/ UNCHANGED state /\ IF caller = "none" THEN UNCHANGED <<caller, error>>
                             ELSE Proceed(caller, error)
       \/ /\ heap.errors /\ state' = "Pause"
          /\ IF caller = "none" THEN error' = TRUE /\ UNCHANGED caller
             ELSE Proceed(caller, TRUE)
    /\ UNCHANGED <<program, alive, refs, colour, lists, unswept, finalizers>>

\* The program runs between the steps of the collector and inside finalizers, where
\* gc_stopem keeps the collector out
ProgramRuns == (caller = "none" \/ running # {})

-----------------------------------------------------------------------------
(* The program *)

CollectorUnchanged == UNCHANGED <<state, unswept, running, error, caller>>

Push(S) == refs' = [refs EXCEPT ![Main] = @ \cup S]

\* A new object has the current white
New(o) ==
    /\ ProgramRuns /\ o \in DOMAIN kind \ (alive \cup heap.initial)
    /\ kind[o] \in {"table", "weak", "ephemeron", "userdata", "thread"}
    /\ alive' = alive \cup {o}
    /\ colour' = [colour EXCEPT ![o] = "white"]
    /\ done' = done \ {o}
    /\ Push({o})
    /\ UNCHANGED <<heap, key, home, lists, finalizers>> /\ CollectorUnchanged

Drop(o) ==
    /\ ProgramRuns /\ o \in Stack
    /\ refs' = [refs EXCEPT ![Main] = @ \ {o}]
    /\ UNCHANGED <<program, alive, colour, lists, finalizers>> /\ CollectorUnchanged

\* Read what a table holds, or call a closure that returns its upvalue
Load(o) ==
    /\ ProgramRuns /\ o \in Stack /\ kind[o] # "thread"
    /\ Push(IF kind[o] = "closure" THEN UNION {Content(u) : u \in refs[o]}
            ELSE refs[o] \cup key[o])
    /\ UNCHANGED <<program, alive, colour, lists, finalizers>> /\ CollectorUnchanged

\* The backward barrier makes a black object gray, to be traversed again
BarrierBack(o) ==
    IF colour[o] # "black" THEN UNCHANGED <<colour, gray, grayagain>>
    ELSE /\ colour' = [colour EXCEPT ![o] = "gray"]
         /\ IF state = "Pause" \/ SweepPhase
            THEN gray' = gray \cup {o} /\ UNCHANGED grayagain
            ELSE grayagain' = grayagain \cup {o} /\ UNCHANGED gray

\* Mutant: the forward barrier does nothing
BarrierMissing(o, S) == UNCHANGED <<colour, gray>>

\* The forward barrier marks the new value, or spares the object its next barriers
Barrier(o, S) ==
    LET v == IF colour[o] = "black" THEN S \cap WhiteObjects ELSE {}
        new == IF KeepInvariant THEN Marked(v) ELSE {}
    IN /\ colour' = IF v # {} /\ SweepPhase THEN Whitened({o}) ELSE ColourMarked(new, colour)
       /\ gray' = gray \cup Waiting(new)

\* t[i] = x, or with a nil, which needs no barrier
Store(t, S) ==
    /\ ProgramRuns /\ t \in Stack /\ S \subseteq Stack /\ kind[t] \in {"table", "weak"}
    /\ refs' = [refs EXCEPT ![t] = S]
    /\ IF S = {} THEN UNCHANGED <<colour, gray, grayagain>> ELSE BarrierBack(t)
    /\ UNCHANGED <<program, alive, twups, touched, finalizers>> /\ CollectorUnchanged

\* t[k] = x in an ephemeron table
StoreEntry(t, k, x) ==
    /\ ProgramRuns /\ {t, k, x} \subseteq Stack /\ kind[t] = "ephemeron"
    /\ refs' = [refs EXCEPT ![t] = {x}] /\ key' = [key EXCEPT ![t] = {k}]
    /\ BarrierBack(t)
    /\ UNCHANGED <<heap, home, done, alive, twups, touched, finalizers>> /\ CollectorUnchanged

\* Mutant: an object is registered each time
SetMetatableAgain(o) ==
    /\ ProgramRuns /\ o \in Stack \cap heap.finalizable
    /\ kind[o] \in {"table", "weak", "ephemeron", "userdata"}
    /\ BarrierBack(o)
    /\ finalized' = finalized \cup {o} /\ finobj' = Append(finobj, o) /\ UNCHANGED tobefnz
    /\ UNCHANGED <<program, alive, refs, twups, touched>> /\ CollectorUnchanged

\* setmetatable with a __gc field: check_finalizer registers an object once
SetMetatable(o) ==
    /\ ProgramRuns /\ o \in Stack \cap heap.finalizable
    /\ kind[o] \in {"table", "weak", "ephemeron", "userdata"}
    /\ BarrierBack(o)
    /\ IF o \in finalized THEN UNCHANGED finalizers
       ELSE finalized' = finalized \cup {o} /\ finobj' = Append(finobj, o) /\ UNCHANGED tobefnz
    /\ UNCHANGED <<program, alive, refs, twups, touched>> /\ CollectorUnchanged

\* A coroutine sets its local variable: a stack has no barrier
SetLocal(t, S) ==
    /\ ProgramRuns /\ t \in Stack \ done /\ t # Main /\ kind[t] = "thread" /\ S \subseteq Stack
    /\ refs' = [refs EXCEPT ![t] = S]
    /\ UNCHANGED <<program, alive, colour, lists, finalizers>> /\ CollectorUnchanged

\* A coroutine makes a closure f that captures the local variable, in the upvalue u
Capture(t, f, u) ==
    /\ ProgramRuns /\ t \in Stack \ done /\ kind[t] = "thread" /\ Upvalues(t) = {} /\ t # Main
    /\ kind[f] = "closure" /\ kind[u] = "upvalue" /\ {f, u} \cap alive = {}
    /\ alive' = alive \cup {f, u}
    /\ colour' = [o \in Objects |-> IF o \in {f, u} THEN "white" ELSE colour[o]]
    /\ refs' = [refs EXCEPT ![f] = {u}, ![Main] = @ \cup {f}]
    /\ home' = [home EXCEPT ![u] = {t}]
    /\ touched' = touched \cup {u} /\ twups' = twups \cup {t}
    /\ UNCHANGED <<heap, key, done, gray, grayagain, finalizers>> /\ CollectorUnchanged

\* The closure sets its upvalue: on the stack of the coroutine, or its own value
SetUpvalue(f, x) ==
    /\ ProgramRuns /\ {f, x} \subseteq Stack /\ kind[f] = "closure"
    /\ \E u \in refs[f] :
         /\ refs' = [o \in Objects |->
                       IF o \in home[u] \/ (o = u /\ home[u] = {}) THEN {x} ELSE refs[o]]
         /\ Barrier(u, {x})
    /\ UNCHANGED <<program, alive, grayagain, twups, touched, finalizers>> /\ CollectorUnchanged

\* A coroutine ends: close_upvalues moves the value into the upvalue
Finish(t) ==
    /\ ProgramRuns /\ t \in Stack \ done /\ t # Main /\ kind[t] = "thread"
    /\ done' = done \cup {t}
    /\ refs' = [o \in Objects |-> IF o \in Upvalues(t) THEN refs[t]
                                  ELSE IF o = t THEN {} ELSE refs[o]]
    /\ home' = [o \in Objects |-> home[o] \ {t}]
    /\ LET marked == Upvalues(t) \ WhiteObjects
           values == IF marked = {} THEN {} ELSE refs[t]
           blackened == [o \in Objects |-> IF o \in marked THEN "black" ELSE colour[o]]
           new == IF KeepInvariant THEN Marked(values) ELSE {}
       IN /\ colour' = [o \in Objects |->
                          IF o \in new THEN MarkColour(o)
                          ELSE IF o \in marked /\ SweepPhase /\ values \cap WhiteObjects # {}
                               THEN "white"
                          ELSE blackened[o]]
          /\ gray' = gray \cup Waiting(new)
    /\ UNCHANGED <<heap, key, alive, grayagain, twups, touched, finalizers>> /\ CollectorUnchanged

Program ==
    \/ \E o \in DOMAIN kind : New(o) \/ Drop(o) \/ Load(o) \/ SetMetatable(o) \/ Finish(o)
    \/ \E o, x \in DOMAIN kind :
         Store(o, {x}) \/ SetLocal(o, {x}) \/ SetUpvalue(o, x)
    \/ \E o \in DOMAIN kind : Store(o, {})
    \/ \E t, k, x \in DOMAIN kind : StoreEntry(t, k, x) \/ Capture(t, k, x)

Init ==
    /\ heap \in Heaps
    /\ alive = {Main} \cup heap.initial
    /\ key = [o \in Objects |-> {}] /\ home = key
    /\ refs = [key EXCEPT ![Main] = heap.initial]
    /\ done = {}
    /\ colour = [o \in Objects |-> "white"]
    /\ touched = {} /\ twups = {} /\ gray = {} /\ grayagain = {}
    /\ state = "Pause" /\ unswept = {}
    /\ finobj = <<>> /\ tobefnz = <<>> /\ finalized = {}
    /\ running = {} /\ error = FALSE /\ caller = "none"

Collector == AutomaticStep \/ FullStep \/ EndFinalizer
Next == Collector \/ ApiStep \/ FullGc \/ Program

Spec == Init /\ [][Next]_vars

\* The program keeps allocating, which pays for steps of the collector, and finalizers end
FairSpec == Spec /\ WF_vars(Collector)

-----------------------------------------------------------------------------
(* Properties *)

\* What the program can get at, through weak tables as well; an object to be finalized too
Accessible ==
    Closure({Main} \cup Range(tobefnz),
            [X \in SUBSET DOMAIN kind |-> UNION {Content(o) \cup key[o] : o \in X}])

\* The collector frees no object that the program can still get at, be it through a weak
\* table, a finalizer or an upvalue, and an open upvalue never outlives its stack
NoDanglingReference == \A o \in Accessible : o \in alive /\ home[o] \subseteq alive

\* The lists of the collector hold each object once and no freed one: no finalizer is
\* called twice for one registration, and none is forgotten while its object is there
ListsKept ==
    /\ IsInjective(finobj \o tobefnz)
    /\ finalized = Range(finobj) \cup Range(tobefnz)
    /\ finalized \subseteq alive /\ twups \subseteq alive

\* While marking, a black object that will not be traversed again has no white children
TriColour ==
    KeepInvariant => \A o \in alive \ grayagain :
        colour[o] = "black" => Children(o, Objects) \cap WhiteObjects = {}

\* An object that the program cannot get at any more is freed in the end, unless it gets
\* accessible again
GarbageCollected ==
    heap.watched \in alive \ Accessible ~> heap.watched \notin alive \ Accessible

\* Every object in tobefnz is finalized in the end, or an error of a finalizer is pending
FinalizersCalled ==
    heap.watched \in Range(tobefnz) ~> (heap.watched \notin Range(tobefnz) \/ error)
=============================================================================
