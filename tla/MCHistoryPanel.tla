---------------------------- MODULE MCHistoryPanel ----------------------------
EXTENDS HistoryPanel

\* Four texts: the empty one, one byte, three, six.  One byte after three is
\* suspicious, three after six is the boundary.
MCTexts == {"", "a", "abc", "abcdef"}

MCSize == [t \in MCTexts |-> CASE t = ""  -> 0
                               [] t = "a" -> 1
                               [] t = "abc" -> 3
                               [] t = "abcdef" -> 6]

\* The label of second 1 is a part of that of second 2.
MCLabelIn == {<<1, 2>>}
=============================================================================
