---------------------------- MODULE MCLineBreak ----------------------------
(* Paragraphs for LineBreak: words with all that can stand between them. *)
EXTENDS AllBreaks

Void == [kind |-> "box", w |-> 0, st |-> 0, fil |-> 0, sh |-> 0, p |-> 0, pre |-> 0, post |-> 0]
Box(w) == [Void EXCEPT !.w = w]
Space == [Void EXCEPT !.kind = "glue", !.w = 2, !.st = 1, !.sh = 1]
Penalty(p) == [Void EXCEPT !.kind = "penalty", !.p = p]
Kern(w) == [Void EXCEPT !.kind = "kern", !.w = w]
Hyphen(kind, pre, no, post) == [Void EXCEPT !.kind = kind, !.w = no, !.pre = pre, !.post = post]
Math(kind) == [Void EXCEPT !.kind = kind, !.w = 1]
ParFill == [Void EXCEPT !.kind = "glue", !.fil = 1]

Word(w) == <<Box(w), Space>>
Syllables == <<Box(2), Hyphen("soft", 1, 0, 0), Box(3), Space>>
Dashed == <<Box(2), Hyphen("disc", 0, 0, 0), Box(2), Space>>
Backen == <<Box(2), Hyphen("disc", 2, 1, 1), Box(2), Space>>
Formula == <<Math("mathOn"), Box(1), Space, Box(1), Math("mathOff"), Space>>
Tied == <<Box(3), Penalty(10000), Space>>
Good == <<Box(3), Penalty(-100), Space>>
Broken == <<Box(3), Penalty(-10000)>>
Kerned == <<Box(2), Kern(1), Space>>

\* The last space is replaced by \parfillskip.
Closed(pieces) ==
    Front(FlattenSeq(pieces)) \o <<Penalty(10000), ParFill>>

Plain ==
    [hsize |-> 10, parShape |-> <<>>, hangIndent |-> 0, hangAfter |-> 1, background |-> Nil,
     pretolerance |-> 100, tolerance |-> 200, emergencyStretch |-> 0, looseness |-> 0,
     linePenalty |-> 10, hyphenPenalty |-> 50, exHyphenPenalty |-> 50, adjDemerits |-> 10000,
     doubleHyphenDemerits |-> 10000, finalHyphenDemerits |-> 5000, prevGraf |-> 0]

MCSettings ==
    {Plain,
     [Plain EXCEPT !.tolerance = 10000],
     [Plain EXCEPT !.pretolerance = -1, !.emergencyStretch = 2],
     [Plain EXCEPT !.tolerance = 10000, !.parShape = <<10, 7, 12>>,
                   !.background = [Nil EXCEPT !.st = 4]],
     [Plain EXCEPT !.tolerance = 1000, !.hangIndent = -3, !.hangAfter = -2, !.prevGraf = 1],
     [Plain EXCEPT !.background = [Nil EXCEPT !.fil = 1]],
     [Plain EXCEPT !.hsize = 7, !.background = [Nil EXCEPT !.st = 3]],
     [Plain EXCEPT !.tolerance = 10000, !.looseness = 1, !.emergencyStretch = 2],
     [Plain EXCEPT !.tolerance = 10000, !.looseness = -1]}

Pieces == {Word(3), Word(4), Syllables, Dashed, Backen, Formula, Tied, Good, Broken, Kerned}

\* Lines that end with \break; with \tolerance=10000 each costs 10^8 demerits
Column(k) == [i \in 1..k |-> Broken]

MCLists == {Closed(t) : t \in [1..5 -> {Word(3), Word(4), Syllables, Good}]}
           \cup {Closed(t \o <<Word(3)>>) : t \in [1..3 -> Pieces]}
           \cup {Closed(Column(k) \o <<Word(3)>>) : k \in 9..11}
=============================================================================
