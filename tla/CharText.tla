------------------------------ MODULE CharText ------------------------------
(***************************************************************************)
(* Texts as sequences of characters.  A character is a string of its own;  *)
(* only those that the code tells apart have a name here.                  *)
(***************************************************************************)
EXTENDS Integers, Sequences, SequencesExt

SP == "sp"
TAB == "tab"
CR == "cr"
LF == "lf"
NUL == "nul"
CRLF == <<CR, LF>>
WSP == {SP, TAB}
Blank == {SP, TAB, CR, LF}

\* strncmp(s + i, t, strlen(t)) == 0, with the first character at 1.
At(s, i, t) == i + Len(t) - 1 <= Len(s) /\ SubSeq(s, i, i + Len(t) - 1) = t

\* Kept(s, T)[n]: of the first n characters of s those at the positions in T.
Kept(s, T) ==
    LET kept[n \in 0 .. Len(s)] ==
          IF n = 0 THEN <<>>
          ELSE IF n \in T THEN Append(kept[n - 1], s[n])
          ELSE kept[n - 1]
    IN kept

\* The characters of s at the positions in T, in order.
Pick(s, T) == Kept(s, T)[Len(s)]

\* s without the characters of C.
Without(s, C) == Pick(s, {i \in DOMAIN s : s[i] \notin C})

\* The part of s from position i up to, and without, the next character of C.
UpTo(s, i, C) ==
    LET stops == {j \in i .. Len(s) : s[j] \in C}
    IN IF stops = {} THEN SubSeq(s, i, Len(s))
       ELSE SubSeq(s, i, Min(stops) - 1)

\* strlen: what a C string function sees of s.
CString(s) == UpTo(s, 1, {NUL})
=============================================================================
