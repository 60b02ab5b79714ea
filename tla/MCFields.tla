------------------------------- MODULE MCFields -------------------------------
(***************************************************************************)
(* Small declarations for Fields: a row type R, two structs A and B it may *)
(* embed, and C, which those may embed in turn.                            *)
(***************************************************************************)
EXTENDS Fields

Structs == {"R", "A", "B", "C"}

F(go, tag, anonymous, exported, struct) ==
    [go |-> go, tag |-> tag, anonymous |-> anonymous, exported |-> exported, struct |-> struct]

Plain == F("X", "none", FALSE, TRUE, NoType)
Tagged == F("Y", "X", FALSE, TRUE, NoType)
Other == F("Z", "none", FALSE, TRUE, NoType)
Hidden == F("x", "none", FALSE, FALSE, NoType)
Dropped == F("V", "skip", FALSE, TRUE, NoType)
Broken == F("W", "malformed", FALSE, TRUE, NoType)
EmbeddedScalar(exported) == F("S", "none", TRUE, exported, NoType)
Embeds(t) == F(t, "none", TRUE, TRUE, t)
EmbedsUnexported(t) == F(t, "none", TRUE, FALSE, t)
EmbedsNamed(t) == F(t, "X", TRUE, TRUE, t)

\* Field lists of at most n of the given fields, no two of one Go name.
Lists(fields, n) ==
    {s \in SeqOf(fields, n) : \A i, j \in DOMAIN s : s[i].go = s[j].go => i = j}

\* Shadowing, ties, tags, cycles and diamonds, over three levels.
Promotion ==
    {[t \in Structs |-> CASE t = "R" -> r [] t = "A" -> a [] t = "B" -> b [] OTHER -> c] :
        r \in Lists({Plain, Embeds("A"), Embeds("B"), Embeds("R")}, 3),
        a \in Lists({Plain, Tagged, Embeds("C"), EmbedsUnexported("B")}, 2),
        b \in Lists({Plain, Tagged, Embeds("C"), Embeds("A")}, 2),
        c \in {<<Plain>>, <<Tagged>>}}

\* Every kind of field, in the row type and in one struct it embeds.
Kinds ==
    {[t \in Structs |-> CASE t = "R" -> r [] t = "A" -> a [] OTHER -> <<Plain, Other>>] :
        r \in Lists({Plain, Hidden, Dropped, Broken, EmbeddedScalar(TRUE), EmbeddedScalar(FALSE),
                     Embeds("A"), EmbedsNamed("A"), EmbedsUnexported("A")}, 2),
        a \in Lists({Tagged, Other, Hidden, Dropped, Broken, EmbedsNamed("C"), Embeds("C")}, 2)}

Declared == Promotion \cup Kinds
=============================================================================
