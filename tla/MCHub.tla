------------------------------- MODULE MCHub -------------------------------
EXTENDS Hub, TLC

CONSTANTS c1, c2, c3, e1, e2, e3

SeedNone == << >>
SeedOne == <<e1>>
SeedTwo == <<e1, e2>>

\* The empty text, one of one byte and one of three: the second is too short to
\* follow the third.
MCTexts == {"", "a", "abc"}
MCSize == [t \in MCTexts |-> CASE t = "" -> 0 [] t = "a" -> 1 [] t = "abc" -> 3]
Symmetry == Permutations(Conns)
=============================================================================
