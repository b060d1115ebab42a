----------------------------- MODULE MCKeyEncoding ----------------------------
(***************************************************************************)
(* KeyEncoding for TLC: bytes 0 .. 3, of which 1 is '#', and words of two  *)
(* bytes.                                                                  *)
(***************************************************************************)
EXTENDS KeyEncoding

\* Both ends of the range, and the first number below zero, whose key has a '#'.
AllInts == {-8, -1, 7}

\* A positive number, and the two ends of the negative ones: one key has a '#'.
AllDoubles == {6, 9, 15}

\* "", a text and three that begin with it; two go on with '#', one of them with a
\* byte below it.
AllTexts == {<<>>, <<2>>, <<2, 3>>, <<2, 1>>, <<2, 1, 0>>}

\* One has a '#', and of the others one ends like the other.
AllIds == {<<2, 1>>, <<3>>, <<3, 3>>}

===============================================================================
