--------------------------- MODULE MCLiteralMatch ---------------------------
(* LiteralMatch with short strings of "a", "A" and "-": a letter in both    *)
(* cases, and a character that is no part of a word.                        *)
EXTENDS LiteralMatch

a == 97
A == 65
Dash == 45

Chars == {a, A, Dash}

\* Every self-overlap of four characters, and every query of up to three.
ShortQueries == Strings({a, Dash}, 4) \cup Strings(Chars, 3)
ShortBuffers == Strings(Chars, 6)

\* One character is enough to search twice for what the table mixes up.
OnlyA == {a}
QueriesOfA == Strings(OnlyA, 6)
BuffersOfA == Strings(OnlyA, 8)
=============================================================================
