----------------------------- MODULE AllBreaks -----------------------------
(***************************************************************************)
(* What line breaking promises, by exhaustion: all ways to break the       *)
(* paragraph, each line measured by itself from the nodes that are in it.  *)
(***************************************************************************)
EXTENDS LineBreak

\* The passes that have failed before this one: without hyphens, without \emergencystretch
FailedPasses ==
    (IF params.pretolerance >= 0 /\ pass.second
     THEN {[threshold |-> Min({params.pretolerance, InfBad}), second |-> FALSE, extra |-> 0]} ELSE {})
    \cup
    (IF pass.finalRan
     THEN {[threshold |-> Min({params.tolerance, InfBad}), second |-> TRUE, extra |-> 0]} ELSE {})

\* A way to break the paragraph is the sequence of its breaks: legal ones, all that are
\* forced, and the end
Ways(second) ==
    LET legal == {k \in 1..n : Legal(k, second)}
        forced == {k \in legal : Forced(k)}
    IN {Sorted(forced \cup S \cup {n + 1}, <) : S \in SUBSET (legal \ forced)}

Material(from, to) ==
    [w |-> MapThenSumSet(LAMBDA k : list[k].w, from..to),
     st |-> MapThenSumSet(LAMBDA k : list[k].st, from..to),
     fil |-> MapThenSumSet(LAMBDA k : list[k].fil, from..to),
     sh |-> MapThenSumSet(LAMBDA k : list[k].sh, from..to)]

\* The line between the breaks j and k; when everything between them is discarded after j,
\* TeX counts what it discards behind k as missing
LineSize(j, k, extra) ==
    LET post == IF j > 0 /\ IsDisc(j) THEN list[j].post ELSE 0
        first == IF j = 0 THEN 1 ELSE IF post > 0 THEN j + 1 ELSE AfterPrune(j)
        text == IF first <= k THEN Material(first, k - 1) ELSE Minus(Nil, Material(k, first - 1))
        ends == post + IF IsDisc(k) THEN list[k].pre ELSE 0
    IN [Wider(Plus(text, params.background), ends) EXCEPT !.st = @ + extra]

From(way, i) == IF i = 1 THEN 0 ELSE way[i - 1]

Line(way, i, extra) ==
    Judge(LineSize(From(way, i), way[i], extra), LineWidth(params.prevGraf + i))

\* The lines of a way, judged
Lines(way, p) == [i \in DOMAIN way |-> Line(way, i, p.extra)]

Feasible(p) ==
    {way \in Ways(p.second) : \A i \in DOMAIN way : Line(way, i, p.extra).b <= p.threshold}

\* Demerits of a line, those for its neighbourhood included
LineDemerits(way, lines, i) ==
    LET hyphens == i > 1 /\ Hyphenated(way[i]) /\ IsDisc(From(way, i))
        before == IF i = 1 THEN Decent ELSE lines[i - 1].fit
    IN demerits(lines[i].b, PenaltyAt(way[i]))
       + (IF ~hyphens THEN 0
          ELSE IF i = Len(way) THEN params.finalHyphenDemerits ELSE params.doubleHyphenDemerits)
       + (IF Abs(before - lines[i].fit) > 1 THEN params.adjDemerits ELSE 0)

TotalDemerits(way, p) ==
    LET lines == Lines(way, p)
    IN MapThenSumSet(LAMBDA i : LineDemerits(way, lines, i), DOMAIN way)

-----------------------------------------------------------------------------

\* The lines that are set are feasible and have the least demerits of all ways to break the
\* paragraph, in the first pass in which there is such a way; other lines are set only in
\* the final pass, and only if there is none (try_break; the classes of line_class, the
\* cutoff by \adjdemerits and the removal of hopeless nodes lose nothing)
LeastDemerits ==
    pc = "lines" /\ params.looseness = 0 =>
        /\ \A p \in FailedPasses : Feasible(p) = {}
        /\ \E ways \in {Feasible(pass)} :
             IF ways = {} THEN pass.final
             ELSE /\ best.chain \in ways
                  /\ best.demerits = Min({TotalDemerits(way, pass) : way \in ways})
                  /\ best.demerits = TotalDemerits(best.chain, pass)

\* \looseness q changes the number of lines of a best way by q, or in the final pass by as
\* much of it as can be had, and takes the least demerits with so many lines
LoosenessKept ==
    LET q == params.looseness
        Reached(ways, p, L) ==      \* the changes of L lines that are possible, towards q
            {k \in {Len(way) - L : way \in ways} : k \in 0..q \/ k \in q..0}
        Optimal(ways, p) ==
            LET least == Min({TotalDemerits(way, p) : way \in ways})
            IN {Len(way) : way \in {x \in ways : TotalDemerits(x, p) = least}}
    IN pc = "lines" /\ q # 0 =>
        /\ \A p \in FailedPasses : \E ways \in {Feasible(p)} :
             ways # {} => \E L \in Optimal(ways, p) : q \notin Reached(ways, p, L)
        /\ \E ways \in {Feasible(pass)} :
             IF ways = {} THEN pass.final
             ELSE \E L \in Optimal(ways, pass) : \E reached \in {Reached(ways, pass, L)} :
                    /\ Len(best.chain) - L = IF q > 0 THEN Max(reached) ELSE Min(reached)
                    /\ q \in reached \/ pass.final
                    /\ best.demerits = Min({TotalDemerits(way, pass) :
                          way \in {x \in ways : Len(x) = Len(best.chain)}})

\* The last pass fails, and the paragraph ends up in one line, only if every way to break it
\* costs awful_bad or more; and it breaks at every forced break, also with lines that are not
\* feasible (the rescue of the last active node, and the cutoff, which starts from AWFUL_BAD).
\* "final_pass (cannot fail)" in the comments promises more, and is not true of eleven
\* underfull lines that end with \break under \tolerance=10000, which the run contains.
ParagraphSet ==
    /\ pc = "oneLine" => \A way \in Ways(pass.second) : TotalDemerits(way, pass) >= AwfulBad
    /\ pc = "lines" => {k \in 1..n : Forced(k)} \subseteq Range(best.chain)
=============================================================================
