---------------------------- MODULE MCSaveStack ----------------------------
(* Instances of SaveStackScopes for TLC *)
EXTENDS SaveStackScopes

Name == <<"name", 0, "x">>
Register == <<"register", 0, "x">>
Box == <<"box", 0, "x">>
LocalBox == <<"localbox", 0, "x">>
Wide == <<"wide", 0, "x">>
Attribute == <<"attribute", 0, "x">>
Overlay == <<"overlay", 0, "x">>
Case == <<"case", 0, "x">>
Shape == <<"shape", 0, "x">>
ParShape == <<"parshape", 0, "x">>

Cat(t) == <<"cat", t, "x">>
WideCat(t) == <<"widecat", t, "x">>

Using(slots, values) == [slots |-> slots, values |-> values, tokens |-> {}]

\* Each kind alone; two kinds in one stack; catcode tables; and \aftergroup
MCDocuments ==
    {Using({a}, Values) : a \in {Register, Wide, Overlay, Case}}
    \cup {Using(S, {0, 1}) : S \in {{Name, Box}, {Attribute, Shape},
                                    {Cat(0), Current}, {Cat(1)},
                                    {WideCat(0), WideCat(1)}}}
    \cup {[slots |-> {LocalBox}, values |-> {1}, tokens |-> Tokens]}

ParShapeDocuments == {Using({ParShape}, Values)}
=============================================================================
