----------------------------- MODULE LineBreak -----------------------------
(***************************************************************************)
(* How the TeX engine breaks a paragraph into lines                        *)
(* (crates/tex-core/src/linebreak.rs, the algorithm of Knuth and Plass):   *)
(* up to three passes over the horizontal list, each of which keeps the    *)
(* best ways to reach the feasible breakpoints in a list of active nodes.  *)
(* One step considers one legal breakpoint (the macro consider! in         *)
(* try_break); the result is compared with all ways to break the paragraph.*)
(*                                                                         *)
(* A node of the list has a kind, a width, finite stretch, infinite        *)
(* stretch and shrink; a penalty has p; a discretionary has the widths of  *)
(* its pre-break and post-break texts, 0 for an empty one, and its         *)
(* no-break text as width. A "soft" one is what hyphenate_list inserts     *)
(* before the second pass: in the first pass it is not there.              *)
(***************************************************************************)
EXTENDS Integers, Sequences, FiniteSets, SequencesExt, FiniteSetsExt

CONSTANTS
    Lists,      \* the horizontal lists
    Settings    \* the values of ParaParams

VARIABLES
    list, params,   \* the paragraph
    cum,        \* cum_w, cum_st, cum_sh: the size of the first k nodes
    pass,       \* what distinguishes the passes
    cand,       \* the breakpoint that is considered next
    actives,    \* the active nodes
    pc,         \* "scan", "lines" when `best' is the result, "oneLine" when all passes failed
    best

vars == <<list, params, cum, pass, cand, actives, pc, best>>

n == Len(list)

InfBad == 10000
InfPenalty == 10000
EjectPenalty == -10000
AwfulBad == 1073741823      \* 2^30 - 1

VeryLoose == 0
Loose == 1
Decent == 2
Tight == 3

Abs(x) == IF x < 0 THEN -x ELSE x

\* The members of S from the least one up
Sorted(S, less(_, _)) ==
    [i \in 1..Cardinality(S) |-> CHOOSE x \in S : Cardinality({y \in S : less(y, x)}) = i - 1]

-----------------------------------------------------------------------------
(* Sizes *)

Size(x) == [w |-> x.w, st |-> x.st, fil |-> x.fil, sh |-> x.sh]
Nil == [w |-> 0, st |-> 0, fil |-> 0, sh |-> 0]
Plus(x, y) == [w |-> x.w + y.w, st |-> x.st + y.st, fil |-> x.fil + y.fil, sh |-> x.sh + y.sh]
Minus(x, y) == [w |-> x.w - y.w, st |-> x.st - y.st, fil |-> x.fil - y.fil, sh |-> x.sh - y.sh]
Wider(x, w) == [x EXCEPT !.w = @ + w]

Cumulated(nodes) ==
    LET sum[k \in 0..Len(nodes)] ==
            IF k = 0 THEN Nil ELSE Plus(sum[k - 1], Size(nodes[k]))
    IN sum

\* \leftskip and \rightskip of every line, and \emergencystretch in the last pass
Background == [params.background EXCEPT !.st = @ + pass.extra]

\* line_shape and line_metrics: the width of a line, by \parshape or \hangindent
LastSpecialLine ==
    IF params.parShape # <<>> THEN Len(params.parShape) - 1
    ELSE IF params.hangIndent = 0 THEN 0 ELSE Abs(params.hangAfter)

LineWidth(line) ==
    LET hung == params.hsize - Abs(params.hangIndent) IN
    IF params.parShape # <<>> THEN params.parShape[Min({line, Len(params.parShape)})]
    ELSE IF (line > LastSpecialLine) = (params.hangAfter >= 0) THEN hung
    ELSE params.hsize

badness(t, s) ==
    LET r == IF t <= 7230584 THEN (t * 297) \div s
             ELSE IF s >= 1663497 THEN t \div (s \div 297) ELSE t
    IN IF t = 0 THEN 0
       ELSE IF s <= 0 \/ r > 1290 THEN InfBad
       ELSE (r * r * r + 131072) \div 262144

\* Badness and fitness class of a line of this size
Judge(size, target) ==
    LET shortfall == target - size.w
        b == IF shortfall > 0 THEN badness(shortfall, size.st) ELSE badness(-shortfall, size.sh)
    IN IF shortfall = 0 \/ (shortfall > 0 /\ size.fil # 0) THEN [b |-> 0, fit |-> Decent]
       ELSE IF shortfall > 0
            THEN [b |-> b, fit |-> IF b > 99 THEN VeryLoose ELSE IF b > 12 THEN Loose ELSE Decent]
       ELSE IF -shortfall > size.sh THEN [b |-> InfBad + 1, fit |-> Tight]
       ELSE [b |-> b, fit |-> IF b > 12 THEN Tight ELSE Decent]

-----------------------------------------------------------------------------
(* Breakpoints: n + 1 is the end of the paragraph *)

IsDisc(k) == k <= n /\ list[k].kind \in {"disc", "soft"}
IsMath(k) == list[k].kind \in {"mathOn", "mathOff"}

\* auto_breaking: glue in a formula is no breakpoint
AutoBreaking(k) ==
    LET maths == {j \in 1..k : IsMath(j)}
    IN maths = {} \/ list[Max(maths)].kind = "mathOff"

\* A penalty, and whether the line ends with a hyphen
PenaltyAt(k) ==
    IF k > n THEN EjectPenalty
    ELSE IF list[k].kind = "penalty" THEN list[k].p
    ELSE IF IsDisc(k) THEN (IF list[k].pre > 0 THEN params.hyphenPenalty ELSE params.exHyphenPenalty)
    ELSE 0

Forced(k) == PenaltyAt(k) <= EjectPenalty
Hyphenated(k) == k > n \/ IsDisc(k)

Legal(k, second) ==
    /\ PenaltyAt(k) < InfPenalty
    /\ \/ list[k].kind \in {"penalty", "disc"}
       \/ list[k].kind = "soft" /\ second
       \/ /\ list[k].kind = "glue" /\ AutoBreaking(k) /\ k > 1
          /\ ~IsMath(k - 1) /\ list[k - 1].kind \notin {"glue", "penalty", "kern"}
       \/ /\ IsMath(k) \/ list[k].kind = "kern"
          /\ AutoBreaking(k) /\ k < n /\ list[k + 1].kind = "glue"

NextBreak(k, second) == Min({j \in (k + 1)..n : Legal(j, second)} \cup {n + 1})

\* Nodes that disappear after a break
Prunable(k) == IsMath(k) \/ list[k].kind \in {"glue", "penalty", "kern"}
AfterPrune(k) == Min({j \in (k + 1)..n : ~Prunable(j)} \cup {n + 1})

-----------------------------------------------------------------------------
(* One pass *)

\* What is measured from the line's start to a break at k
EndSum(k) == Wider(cum[k - 1], IF IsDisc(k) THEN list[k].pre ELSE 0)

\* What a line that starts after the break at k must not count
start_state(k) ==
    IF IsDisc(k) /\ list[k].post > 0
    THEN Wider(cum[k - 1], list[k].w - list[k].post)
    ELSE cum[AfterPrune(k) - 1]

demerits(b, pi) ==
    LET d == params.linePenalty + b
        base == IF Abs(d) >= 10000 THEN 100000000 ELSE d * d
    IN IF pi > 0 THEN base + pi * pi
       ELSE IF pi > EjectPenalty THEN base - pi * pi ELSE base

\* Two hyphens in a row, one before the last line, and lines that differ much in tightness
fitness_demerits(a, k, fit) ==
    (IF ~(Hyphenated(k) /\ a.hyphenated) THEN 0
     ELSE IF k > n THEN params.finalHyphenDemerits ELSE params.doubleHyphenDemerits)
    + (IF Abs(fit - a.fit) > 1 THEN params.adjDemerits ELSE 0)

StartNode ==
    [pos |-> 0, hyphenated |-> FALSE, line |-> params.prevGraf, fit |-> Decent,
     demerits |-> 0, start |-> Nil, chain |-> <<>>]

\* Mutants: one class too early; all lines in one class in spite of \looseness
MergedEarly(a) == params.looseness = 0 /\ a.line + 2 >= LastSpecialLine
MergedAlways(a) == a.line + 1 >= LastSpecialLine

\* From easy_line on all lines have one width, and with it one class; \looseness needs
\* the number of lines
Merged(a) == params.looseness = 0 /\ a.line + 1 >= LastSpecialLine
line_class(a) == IF Merged(a) THEN LastSpecialLine + 1 ELSE a.line

\* Mutant: no line is set that is not feasible
RescueNever(champions, rest) == FALSE

\* The last active node is about to go, and nothing else leads here: an overfull line
Rescue(champions, rest) == pass.final /\ champions = {} /\ rest = 1

\* The loop over the active nodes, `rest' of which are left: the best way to reach the
\* breakpoint for each class, and the nodes that stay active
Consider(acc, a) ==
    LET line == Judge(Plus(Minus(EndSum(cand), a.start), Background), LineWidth(a.line + 1))
        key == <<line_class(a), line.fit>>
        champion(d) == [key |-> key, demerits |-> d, prev |-> a]
        d == a.demerits + demerits(line.b, PenaltyAt(cand)) + fitness_demerits(a, cand, line.fit)
        wins == /\ line.b <= pass.threshold
                /\ ~\E c \in acc.champions : c.key = key /\ c.demerits < d
        champions == IF wins THEN {c \in acc.champions : c.key # key} \cup {champion(d)}
                     ELSE acc.champions
        goes == line.b > InfBad \/ Forced(cand)
    IN [champions |-> IF goes /\ Rescue(champions, acc.rest)
                      THEN champions \cup {champion(a.demerits)} ELSE champions,
        stay |-> IF goes THEN acc.stay ELSE Append(acc.stay, a),
        rest |-> IF goes THEN acc.rest - 1 ELSE acc.rest]

\* A champion that cannot make up for the best of its class is dropped
Cutoff(champions, class) ==
    LET least == Min({c.demerits : c \in {x \in champions : x.key[1] = class}} \cup {AwfulBad})
    IN IF Abs(params.adjDemerits) >= AwfulBad - least THEN AwfulBad - 1
       ELSE least + Abs(params.adjDemerits)

NewNode(c) ==
    [pos |-> cand, hyphenated |-> Hyphenated(cand), line |-> c.prev.line + 1, fit |-> c.key[2],
     demerits |-> c.demerits, start |-> start_state(cand), chain |-> Append(c.prev.chain, cand)]

\* The new nodes of the merged class go last, the others before the nodes of their line
Insert(acc, c) ==
    IF Merged(c.prev) THEN [acc EXCEPT !.seq = Append(@, NewNode(c))]
    ELSE LET at == Min({k \in acc.at..Len(acc.seq) : acc.seq[k].line >= NewNode(c).line}
                       \cup {Len(acc.seq) + 1})
         IN [seq |-> InsertAt(acc.seq, at, NewNode(c)), at |-> at + 1]

Before(c1, c2) ==
    c1.key[1] < c2.key[1] \/ (c1.key[1] = c2.key[1] /\ c1.key[2] < c2.key[2])

\* The active nodes once the breakpoint has been considered
Considered ==
    LET scan == FoldLeft(Consider, [champions |-> {}, stay |-> <<>>, rest |-> Len(actives)], actives)
        kept == {c \in scan.champions : c.demerits <= Cutoff(scan.champions, c.key[1])}
        new == Sorted(kept, Before)
    IN FoldLeft(Insert, [seq |-> scan.stay, at |-> 1], new).seq

-----------------------------------------------------------------------------
(* The passes *)

StartPass(p) ==
    /\ pass' = p
    /\ cand' = NextBreak(0, p.second)
    /\ actives' = <<StartNode>>

\* The second pass hyphenates; the last one adds \emergencystretch; then it is one line
PassFails ==
    /\ IF pass.finalRan THEN pc' = "oneLine" /\ UNCHANGED <<pass, cand, actives>>
       ELSE /\ StartPass(IF ~pass.second
                         THEN [pass EXCEPT !.second = TRUE, !.final = params.emergencyStretch <= 0,
                                           !.threshold = Min({params.tolerance, InfBad})]
                         ELSE [pass EXCEPT !.final = TRUE, !.finalRan = TRUE,
                                           !.extra = params.emergencyStretch])
            /\ UNCHANGED pc
    /\ UNCHANGED <<list, params, cum, best>>

try_break ==
    /\ pc = "scan" /\ cand <= n
    /\ \E new \in {Considered} :
         IF new = <<>> THEN PassFails
         ELSE /\ actives' = new /\ cand' = NextBreak(cand, pass.second)
              /\ UNCHANGED <<list, params, cum, pass, pc, best>>

\* The first of the nodes with the least demerits
Fewest(nodes) == FoldLeft(LAMBDA a, x : IF x.demerits < a.demerits THEN x ELSE a, Head(nodes), nodes)

\* As far from the best number of lines as \looseness wants, and then the fewest demerits
Loosened(nodes, opt) ==
    FoldLeft(LAMBDA a, x :
        LET diff == x.line - opt.line
            far == a.line - opt.line
        IN IF \/ diff < far /\ params.looseness <= diff
              \/ diff > far /\ params.looseness >= diff
              \/ diff = far /\ x.demerits < a.demerits
           THEN x ELSE a, opt, nodes)

\* The break at the end of the paragraph
Finish ==
    /\ pc = "scan" /\ cand = n + 1
    /\ \E new \in {Considered} :
         IF new = <<>> THEN PassFails
         ELSE \E opt \in {Fewest(new)} : \E a \in {Loosened(new, opt)} :
              IF params.looseness \in {0, a.line - opt.line} \/ pass.final
              THEN /\ pc' = "lines" /\ best' = a
                   /\ UNCHANGED <<list, params, cum, pass, cand, actives>>
              ELSE PassFails

Init ==
    /\ list \in Lists /\ params \in Settings
    /\ cum = Cumulated(list)
    /\ LET first == params.pretolerance >= 0
       IN pass = [threshold |-> Min({IF first THEN params.pretolerance ELSE params.tolerance, InfBad}),
                  second |-> ~first, final |-> ~first /\ params.emergencyStretch <= 0,
                  extra |-> 0, finalRan |-> FALSE]
    /\ cand = NextBreak(0, pass.second)
    /\ actives = <<StartNode>>
    /\ pc = "scan"
    /\ best = StartNode

Next == try_break \/ Finish

Spec == Init /\ [][Next]_vars

=============================================================================
