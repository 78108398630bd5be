-------------------------- MODULE FieldTextsProofs --------------------------
(***************************************************************************)
(* The text algorithms on every input: lists of tags, settings, the fields *)
(* of a mail, and what its signature covers.                               *)
(***************************************************************************)
EXTENDS TextsProofs

-----------------------------------------------------------------------------
(* Tag lists *)

TagLetters == {"v", "a", "c", "d", "s", "b", "h"}

\* A tag has one letter, or is bh.
LEMMA TagNames ==
    ASSUME NEW t \in SignatureTags
    PROVE  /\ t \in Seq(TagLetters)
           /\ \/ Len(t) = 1 /\ t = <<t[1]>>
              \/ Len(t) = 2 /\ t = <<"b", "h">> /\ t[2] = "h"
<1>1. (\E x \in TagLetters : t = <<x>>) \/ t = <<"b", "h">>
    BY DEF SignatureTags, TagLetters
<1>2. ASSUME NEW x \in TagLetters, t = <<x>>
      PROVE  t \in Seq(TagLetters) /\ Len(t) = 1 /\ t = <<t[1]>>
    <2> HIDE DEF TagLetters
    <2> QED BY <1>2
<1>3. ASSUME t = <<"b", "h">> PROVE t \in Seq(TagLetters) /\ Len(t) = 2 /\ t[2] = "h"
    <2>1. "b" \in TagLetters /\ "h" \in TagLetters
        BY DEF TagLetters
    <2> HIDE DEF TagLetters
    <2> QED BY <1>3, <2>1
<1> QED BY <1>1, <1>2, <1>3

\* What is written where a tag is found.
LEMMA TagFound ==
    ASSUME NEW s \in Seq(Chars), NEW i \in Nat \ {0}, NEW t \in SignatureTags,
           At(s, i, Append(t, "="))
    PROVE  /\ Len(t) \in {1, 2} /\ i + Len(t) <= Len(s)
           /\ \A k \in i .. i + Len(t) : s[k] # TagEnd
           /\ s[i] \notin WSP
           /\ t = IF s[i + 1] = "=" THEN <<s[i]>> ELSE <<"b", "h">>
<1> DEFINE S == Chars \cup TagLetters \cup {"="}
           p == Append(t, "=")
<1>0. \A x \in TagLetters : x # TagEnd /\ x \notin WSP /\ x # "="
    BY DEF TagLetters, WSP, SP, TAB, TagEnd
<1>1. t \in Seq(TagLetters) /\ Len(t) \in {1, 2}
    BY TagNames
<1>2. s \in Seq(S) /\ t \in Seq(S) /\ "=" \in S
    BY <1>1
<1> HIDE DEF S
<1>3. /\ p \in Seq(S) /\ Len(p) = Len(t) + 1
      /\ p[Len(t) + 1] = "=" /\ \A k \in 1 .. Len(t) : p[k] = t[k]
    BY <1>2
<1>4. i + Len(p) - 1 <= Len(s) /\ \A k \in 1 .. Len(p) : s[i + k - 1] = p[k]
    <2> HIDE DEF p
    <2>1. At(s, i, p)
        BY DEF p
    <2>2. StandsAt(s, i, p)
        BY <1>2, <1>3, <2>1, AtChars
    <2> QED BY <2>2 DEF StandsAt
<1> HIDE DEF p
<1>5. \A k \in 1 .. Len(t) : s[i + k - 1] = t[k] /\ t[k] \in TagLetters
    BY <1>1, <1>3, <1>4
<1>6. s[i + Len(t)] = "=" /\ i + Len(t) <= Len(s)
    <2>1. Len(t) + 1 \in 1 .. Len(p) /\ i + (Len(t) + 1) - 1 = i + Len(t) /\ i + Len(p) - 1 = i + Len(t)
        BY <1>1, <1>3
    <2> QED BY <1>3, <1>4, <2>1
<1>7. \A k \in i .. i + Len(t) : s[k] # TagEnd
    <2> SUFFICES ASSUME NEW k \in i .. i + Len(t) PROVE s[k] # TagEnd
        OBVIOUS
    <2>1. CASE k = i + Len(t)
        <3>1. "=" # TagEnd
            BY DEF TagEnd
        <3> QED BY <1>6, <2>1, <3>1
    <2>2. CASE k # i + Len(t)
        <3>1. k - i + 1 \in 1 .. Len(t) /\ i + (k - i + 1) - 1 = k
            BY <1>1, <2>2
        <3>2. s[k] \in TagLetters
            BY <1>5, <3>1
        <3> QED BY <1>0, <3>2
    <2> QED BY <2>1, <2>2
<1>8. s[i] = t[1] /\ s[i] \in TagLetters
    <2>1. 1 \in 1 .. Len(t)
        <3> DEFINE m == Len(t)
        <3>1. m \in {1, 2}
            BY <1>1
        <3> HIDE DEF m
        <3>2. 1 \in 1 .. m
            BY <3>1
        <3> QED BY <3>2 DEF m
    <2>2. i + 1 - 1 = i
        OBVIOUS
    <2> QED BY <1>5, <2>1, <2>2
<1>9. t = IF s[i + 1] = "=" THEN <<s[i]>> ELSE <<"b", "h">>
    <2>1. CASE Len(t) = 1 /\ t = <<t[1]>>
        BY <1>6, <1>8, <2>1
    <2>2. CASE Len(t) = 2 /\ t = <<"b", "h">> /\ t[2] = "h"
        <3>1. 2 \in 1 .. Len(t) /\ i + 2 - 1 = i + 1
            BY <2>2
        <3>2. s[i + 1] = "h"
            BY <1>5, <2>2, <3>1
        <3> QED BY <2>2, <3>2
    <2> QED BY <2>1, <2>2, TagNames
<1> QED BY <1>0, <1>1, <1>6, <1>7, <1>8, <1>9

Places(s, t) == TagPlaces(SignatureTags, s, t)

\* The element that begins at j has not ended before i.
OpenAt(s, j, i) == j <= i /\ \A k \in j .. i : s[k] # TagEnd

\* Of tags in a list, and of the elements that they begin.
LEMMA PlacesApart ==
    ASSUME NEW s \in Seq(Chars), NEW t \in SignatureTags, NEW j \in Places(s, t)
    PROVE  /\ j \in 1 .. Len(s) /\ Len(t) \in {1, 2} /\ j + Len(t) <= Len(s)
           /\ \A k \in j .. j + Len(t) : s[k] # TagEnd
           /\ \A u \in SignatureTags : At(s, j, Append(u, "=")) => u = t
           /\ \A u \in SignatureTags : \A h \in Places(s, u), i \in Nat :
                 OpenAt(s, j, i) /\ h <= i => h <= j
<1>1. j \in 1 .. Len(s) /\ Leads(s, j) /\ At(s, j, Append(t, "=")) /\ j \in Nat \ {0}
    BY DEF Places, TagPlaces, TagHeads
<1>2. /\ Len(t) \in {1, 2} /\ j + Len(t) <= Len(s) /\ \A k \in j .. j + Len(t) : s[k] # TagEnd
      /\ s[j] \notin WSP /\ t = IF s[j + 1] = "=" THEN <<s[j]>> ELSE <<"b", "h">>
    BY <1>1, TagFound
<1>3. \A u \in SignatureTags : At(s, j, Append(u, "=")) => u = t
    <2> SUFFICES ASSUME NEW u \in SignatureTags, At(s, j, Append(u, "=")) PROVE u = t
        OBVIOUS
    <2>1. u = IF s[j + 1] = "=" THEN <<s[j]>> ELSE <<"b", "h">>
        BY <1>1, TagFound
    <2> QED BY <1>2, <2>1
<1>4. ASSUME NEW u \in SignatureTags, NEW h \in Places(s, u), NEW i \in Nat,
             OpenAt(s, j, i), h <= i
      PROVE  h <= j
    <2>1. h \in 1 .. Len(s) /\ Leads(s, h)
        BY DEF Places, TagPlaces, TagHeads
    <2> SUFFICES ASSUME j < h PROVE FALSE
        BY <1>1, <2>1
    <2>2. j \in 1 .. h - 1 /\ j \in j .. i
        BY <1>1, <1>4, <2>1
    <2>3. s[j] = TagEnd \/ s[j] \in WSP \/ \E k \in j .. h - 1 : s[k] = TagEnd
        BY <2>1, <2>2 DEF Leads
    <2>4. \A k \in j .. h - 1 : k \in j .. i
        BY <1>1, <1>4, <2>1
    <2> QED BY <1>2, <1>4, <2>2, <2>3, <2>4 DEF OpenAt
<1> QED BY <1>1, <1>2, <1>3, <1>4

TagState ==
    {st \in [skip : Nat, tag : SignatureTags \cup {<<>>}, out : [SignatureTags -> CText]] :
        st.tag # <<>> => st.out[st.tag] \in Seq(Chars)}

\* A round of the scan keeps the type.
LEMMA TagStepTyped ==
    ASSUME NEW s \in Seq(Chars), NEW st \in TagState, NEW i \in 1 .. Len(s)
    PROVE  TagStep(SignatureTags, s, st, i) \in TagState
<1> DEFINE c == s[i]
           tag == st.tag
           out == st.out
           skip == st.skip
<1>1. /\ skip \in Nat /\ tag \in SignatureTags \cup {<<>>} /\ out \in [SignatureTags -> CText]
      /\ tag # <<>> => out[tag] \in Seq(Chars)
      /\ c \in Chars /\ <<>> \in Seq(Chars) /\ Seq(Chars) \subseteq CText
    BY DEF TagState, CText
<1>2. st = [skip |-> skip, tag |-> tag, out |-> out]
    BY DEF TagState
<1>3. \A k \in Nat, u \in SignatureTags \cup {<<>>}, o \in [SignatureTags -> CText] :
         (u # <<>> => o[u] \in Seq(Chars)) => [skip |-> k, tag |-> u, out |-> o] \in TagState
    BY DEF TagState
<1> HIDE DEF c, tag, out, skip
<1>4. CASE skip > 0
    <2>1. TagStep(SignatureTags, s, st, i) = [skip |-> skip - 1, tag |-> tag, out |-> out]
        BY <1>2, <1>4 DEF TagStep
    <2>2. skip - 1 \in Nat
        BY <1>1, <1>4
    <2> QED BY <1>1, <1>3, <2>1, <2>2
<1>5. CASE ~ (skip > 0) /\ tag # <<>>
    <2>1. TagStep(SignatureTags, s, st, i) = TagCharacter(st, c)
        BY <1>2, <1>5 DEF TagStep, c
    <2>2. TagCharacter(st, c) \in TagState
        <3>1. CASE c = TagEnd
            <4>1. TagCharacter(st, c) = [skip |-> skip, tag |-> <<>>, out |-> out]
                BY <1>2, <3>1 DEF TagCharacter
            <4> QED BY <1>1, <1>3, <4>1
        <3>2. CASE c # TagEnd /\ (c \in WSP \/ Len(out[tag]) >= BufferSize(tag) - 1)
            BY <1>2, <3>2 DEF TagCharacter
        <3>3. CASE ~ (c = TagEnd \/ c \in WSP \/ Len(out[tag]) >= BufferSize(tag) - 1)
            <4> DEFINE v == out[tag]
                       o == [out EXCEPT ![tag] = Append(v, c)]
            <4>1. v \in Seq(Chars) /\ tag \in SignatureTags
                BY <1>1, <1>5
            <4>2. TagCharacter(st, c) = [skip |-> skip, tag |-> tag, out |-> o]
                <5>1. TagCharacter(st, c) = [st EXCEPT !.out[st.tag] = Append(@, c)]
                    BY <3>3 DEF TagCharacter, tag, out
                <5>2. TagCharacter(st, c) = [st EXCEPT !.out = o]
                    BY <5>1 DEF tag, out
                <5> HIDE DEF o
                <5> QED BY <1>2, <5>2
            <4> HIDE DEF v
            <4>3. Append(v, c) \in Seq(Chars)
                BY <1>1, <4>1
            <4>4. o \in [SignatureTags -> CText] /\ o[tag] \in Seq(Chars)
                BY <1>1, <4>1, <4>3
            <4> HIDE DEF o
            <4> QED BY <1>1, <1>3, <4>2, <4>4
        <3> QED BY <3>1, <3>2, <3>3
    <2> QED BY <2>1, <2>2
<1>6. CASE ~ (skip > 0) /\ tag = <<>>
    <2> DEFINE t == CHOOSE u \in TagsAt(SignatureTags, s, i) : TRUE
               o == [out EXCEPT ![t] = <<>>]
    <2>1. CASE TagsAt(SignatureTags, s, i) = {}
        BY <1>2, <1>6, <2>1 DEF TagStep
    <2>2. CASE TagsAt(SignatureTags, s, i) # {}
        <3>1. t \in SignatureTags
            BY <2>2 DEF TagsAt
        <3>2. Len(t) \in Nat
            <4>1. Len(t) \in {1, 2}
                BY <3>1, TagNames
            <4> QED BY <4>1
        <3>3. TagStep(SignatureTags, s, st, i) = [skip |-> Len(t), tag |-> t, out |-> o]
            BY <1>2, <1>6, <2>2 DEF TagStep, BeginTag
        <3> HIDE DEF t
        <3>4. o \in [SignatureTags -> CText] /\ o[t] \in Seq(Chars)
            BY <1>1, <3>1
        <3> HIDE DEF o
        <3> QED BY <1>3, <3>1, <3>2, <3>3, <3>4
    <2> QED BY <2>1, <2>2
<1> QED BY <1>4, <1>5, <1>6

\* What ScanTags computes, step by step.
LEMMA ScanTagsDef ==
    ASSUME NEW s \in Seq(Chars)
    PROVE  LET F == ScanTags(SignatureTags, s)
           IN /\ F \in [0 .. Len(s) -> TagState]
              /\ F[0] = [skip |-> 0, tag |-> <<>>, out |-> [t \in SignatureTags |-> Leftover]]
              /\ \A i \in 1 .. Len(s) : F[i] = TagStep(SignatureTags, s, F[i - 1], i)
<1> DEFINE n == Len(s)
           S == TagState
           base == [skip |-> 0, tag |-> <<>>, out |-> [t \in SignatureTags |-> Leftover]]
           step(i, st) == TagStep(SignatureTags, s, st, i)
           g == [i \in 1 .. n |-> [st \in S |-> step(i, st)]]
           F == CHOOSE f : f = [i \in 0 .. n |-> IF i = 0 THEN base ELSE step(i, f[i - 1])]
<1>0. n \in Nat
    OBVIOUS
<1>1. base \in S
    <2> DEFINE o == [t \in SignatureTags |-> Leftover]
    <2>1. o \in [SignatureTags -> CText]
        BY DEF CText
    <2> HIDE DEF o
    <2>2. [skip |-> 0, tag |-> <<>>, out |-> o] \in S
        BY <2>1 DEF TagState
    <2> QED BY <2>2 DEF o
<1>2. ASSUME NEW i \in 1 .. n, NEW st \in S PROVE step(i, st) \in S
    BY TagStepTyped
<1>3. PICK f : Computes(f, n, S, base, g)
    <2>1. g \in [1 .. n -> [S -> S]]
        <3> HIDE DEF step, S, n
        <3> QED BY <1>2
    <2> HIDE DEF g, S, base, n
    <2> QED BY <1>0, <1>1, <2>1, Recursion
<1> HIDE DEF S, step, n, base
<1>4. /\ f \in [0 .. n -> S] /\ f[0] = base
      /\ \A i \in 1 .. n : f[i] = step(i, f[i - 1])
    <2>1. f \in [0 .. n -> S] /\ f[0] = base /\ \A i \in 1 .. n : f[i] = g[i][f[i - 1]]
        BY <1>3 DEF Computes
    <2>2. \A i \in 1 .. n : f[i - 1] \in S
        BY <1>0, <2>1
    <2> QED BY <2>1, <2>2
<1>5. \A i \in 0 .. n : i # 0 => i \in 1 .. n
    BY <1>0
<1>6. f = [i \in 0 .. n |-> IF i = 0 THEN base ELSE step(i, f[i - 1])]
    <2>1. \A i \in 0 .. n : f[i] = IF i = 0 THEN base ELSE step(i, f[i - 1])
        BY <1>4, <1>5
    <2> QED BY <1>4, <2>1
<1>7. F = [i \in 0 .. n |-> IF i = 0 THEN base ELSE step(i, F[i - 1])]
    BY <1>6
<1>8. ScanTags(SignatureTags, s) = F
    BY DEF ScanTags, step, n, base
<1> HIDE DEF F
<1>9. 0 \in 0 .. n /\ \A i \in 1 .. n : i \in 0 .. n /\ i # 0
    BY <1>0
<1>10. F[0] = base /\ \A i \in 1 .. n : F[i] = step(i, F[i - 1])
    BY <1>7, <1>9
<1>11. F[0] \in S /\ \A i \in 1 .. n : F[i - 1] \in S => F[i] \in S
    BY <1>1, <1>2, <1>10
<1>12. \A i \in 0 .. n : F[i] \in S
    BY <1>0, <1>11, Stays
<1>13. F \in [0 .. n -> TagState]
    BY <1>7, <1>12 DEF S
<1> QED BY <1>8, <1>10, <1>13 DEF n, base, step

\* Where a tag can be.
LEMMA PlaceIn ==
    ASSUME NEW s \in Seq(Chars), NEW t \in SignatureTags, NEW j \in Places(s, t)
    PROVE  /\ j \in Nat /\ j > 0 /\ j <= Len(s) /\ j \in 1 .. Len(s)
           /\ Len(t) \in Nat /\ Len(t) > 0 /\ j + Len(t) <= Len(s)
<1> DEFINE m == Len(t)
<1>1. j \in 1 .. Len(s) /\ m \in {1, 2} /\ j + m <= Len(s)
    BY PlacesApart
<1> HIDE DEF m
<1>2. m \in Nat /\ m > 0
    BY <1>1
<1>3. j \in Nat /\ j > 0 /\ j <= Len(s)
    BY <1>1
<1> QED BY <1>1, <1>2, <1>3 DEF m

\* The positions of the value that begins after the tag t at j, what was read
\* of it after i characters, and the place of t whose value counts then.
ValueSpan(s, t, j) == Span(s, j + Len(t) + 1, {TagEnd}, WSP)
ValueSoFar(s, t, j, i) == Kept(s, ValueSpan(s, t, j))[i]
LastBy(s, t, j, i) ==
    j \in Places(s, t) /\ j <= i /\ \A h \in Places(s, t) : h <= i => h <= j

\* A value in its buffer is the one that was read, while it fits.
InBuffer(v, read) == v \in Seq(Chars) /\ (v = read \/ Len(read) >= DKIM_VALUE_MAX_LEN)

\* The positions of a value are those that are open and not blank.
LEMMA SpanOpen ==
    ASSUME NEW s \in Seq(Chars), NEW t \in SignatureTags, NEW j \in Places(s, t),
           NEW n \in 1 .. Len(s)
    PROVE  n \in ValueSpan(s, t, j) <=>
              j + Len(t) + 1 <= n /\ s[n] \notin WSP /\ OpenAt(s, j, n)
<1> DEFINE m == Len(t)
           a == j + m + 1
<1>1. j \in Nat /\ m \in Nat /\ \A k \in j .. j + m : s[k] # TagEnd
    BY PlacesApart, PlaceIn
<1> HIDE DEF m
<1>2. a \in Nat /\ j <= a - 1 /\ a - 1 = j + m
    BY <1>1
<1> HIDE DEF a
<1>3. n \in ValueSpan(s, t, j) <=>
         n \in a .. Len(s) /\ s[n] \notin WSP /\ \A k \in a .. n : s[k] \notin {TagEnd}
    BY DEF ValueSpan, Span, a, m
<1>4. n \in a .. Len(s) <=> a <= n
    BY <1>2
<1>5. ASSUME a <= n PROVE (\A k \in a .. n : s[k] \notin {TagEnd}) <=> OpenAt(s, j, n)
    <2>1. j <= n /\ \A k \in a .. n : k \in j .. n
        BY <1>1, <1>2, <1>5
    <2>2. \A k \in j .. n : k \in a .. n \/ k \in j .. j + m
        BY <1>1, <1>2, <1>5
    <2> QED BY <1>1, <2>1, <2>2 DEF OpenAt
<1> QED BY <1>3, <1>4, <1>5 DEF a, m

\* What is read of a value, character by character.
LEMMA ValueRead ==
    ASSUME NEW s \in Seq(Chars), NEW t \in SignatureTags, NEW j \in Places(s, t)
    PROVE  /\ ValueSoFar(s, t, j, j) = <<>>
           /\ \A n \in 0 .. Len(s) : ValueSoFar(s, t, j, n) \in Seq(Chars)
           /\ \A n \in 1 .. Len(s) : ValueSoFar(s, t, j, n) =
                 IF n \in ValueSpan(s, t, j) THEN Append(ValueSoFar(s, t, j, n - 1), s[n])
                 ELSE ValueSoFar(s, t, j, n - 1)
<1> DEFINE T == ValueSpan(s, t, j)
<1>1. j \in 1 .. Len(s) /\ Len(t) \in Nat
    BY PlaceIn
<1>2. NoneIn(T, 1, j)
    <2> SUFFICES ASSUME NEW i \in 1 .. j, i \in T PROVE FALSE
        BY DEF NoneIn
    <2>1. i \in 1 .. Len(s)
        BY <1>1
    <2>2. j + Len(t) + 1 <= i
        BY <2>1, SpanOpen
    <2> QED BY <1>1, <2>2
<1>3. j \in 0 .. Len(s)
    BY <1>1
<1> HIDE DEF T
<1>4. Kept(s, T)[j] = <<>>
    BY <1>2, <1>3, KeptOutside
<1>5. /\ Kept(s, T) \in [0 .. Len(s) -> Seq(Chars)]
      /\ \A n \in 1 .. Len(s) : Kept(s, T)[n] =
            IF n \in T THEN Append(Kept(s, T)[n - 1], s[n]) ELSE Kept(s, T)[n - 1]
    BY KeptDef
<1>6. \A n \in 0 .. Len(s) : Kept(s, T)[n] \in Seq(Chars)
    BY <1>5
<1> QED BY <1>4, <1>5, <1>6 DEF T, ValueSoFar

\* What the scan has put into the buffers after i characters.
BuffersAt(s, out, i) ==
    /\ \A t \in SignatureTags : (\A j \in Places(s, t) : j > i) => out[t] = Leftover
    /\ \A t \in SignatureTags : \A j \in Places(s, t) :
          LastBy(s, t, j, i) => InBuffer(out[t], ValueSoFar(s, t, j, i))

\* Which tag the scan takes the next character for.
TagAt(s, st, i) ==
    /\ (\A t \in SignatureTags : \A j \in Places(s, t) : ~ OpenAt(s, j, i)) =>
          st.skip = 0 /\ st.tag = <<>>
    /\ \A t \in SignatureTags : \A j \in Places(s, t) : OpenAt(s, j, i) =>
          st.tag = t /\ st.skip = IF i < j + Len(t) THEN j + Len(t) - i ELSE 0

NoPlace(s, n) == \A t \in SignatureTags : n \notin Places(s, t)

\* An open element was open before, or begins.
LEMMA OpenBefore ==
    ASSUME NEW s \in Seq(Chars), NEW n \in 1 .. Len(s), NEW t \in SignatureTags, NEW j \in Places(s, t)
    PROVE  /\ OpenAt(s, j, n) => j = n \/ OpenAt(s, j, n - 1)
           /\ OpenAt(s, j, n - 1) /\ s[n] # TagEnd => OpenAt(s, j, n)
           /\ OpenAt(s, j, n) => s[n] # TagEnd
<1>1. j \in 1 .. Len(s) /\ n \in Nat
    BY PlaceIn
<1>2. /\ j <= n /\ j # n => j <= n - 1 /\ \A k \in j .. n - 1 : k \in j .. n
      /\ j <= n - 1 => j <= n /\ \A k \in j .. n : k = n \/ k \in j .. n - 1
      /\ j <= n => n \in j .. n
    BY <1>1
<1>3. ASSUME OpenAt(s, j, n) PROVE j = n \/ OpenAt(s, j, n - 1)
    BY <1>2, <1>3 DEF OpenAt
<1>4. ASSUME OpenAt(s, j, n - 1), s[n] # TagEnd PROVE OpenAt(s, j, n)
    BY <1>2, <1>4 DEF OpenAt
<1>5. ASSUME OpenAt(s, j, n) PROVE s[n] # TagEnd
    BY <1>2, <1>5 DEF OpenAt
<1> QED BY <1>3, <1>4, <1>5

\* At most one element is open.
LEMMA OneOpen ==
    ASSUME NEW s \in Seq(Chars), NEW i \in Nat,
           NEW t \in SignatureTags, NEW j \in Places(s, t),
           NEW u \in SignatureTags, NEW h \in Places(s, u)
    PROVE  /\ OpenAt(s, j, i) /\ OpenAt(s, h, i) => h = j /\ u = t
           /\ h = j => u = t
           /\ OpenAt(s, j, i) /\ h <= i => h <= j
<1>1. j \in 1 .. Len(s) /\ h \in 1 .. Len(s)
    BY PlacesApart
<1>2. h = j => u = t
    <2>1. At(s, h, Append(u, "="))
        BY DEF Places, TagPlaces
    <2> QED BY <2>1, PlacesApart
<1>3. OpenAt(s, j, i) /\ h <= i => h <= j
    BY PlacesApart
<1>4. OpenAt(s, h, i) /\ j <= i => j <= h
    BY PlacesApart
<1>5. (OpenAt(s, j, i) => j <= i) /\ (OpenAt(s, h, i) => h <= i)
    BY DEF OpenAt
<1>6. h <= j /\ j <= h => h = j
    BY <1>1
<1> QED BY <1>2, <1>3, <1>4, <1>5, <1>6

\* A character that belongs to no value and begins no element leaves the
\* buffers right.
LEMMA BuffersSame ==
    ASSUME NEW s \in Seq(Chars), NEW n \in 1 .. Len(s), NEW out,
           BuffersAt(s, out, n - 1), NoPlace(s, n),
           \A t \in SignatureTags : \A j \in Places(s, t) : n \notin ValueSpan(s, t, j)
    PROVE  BuffersAt(s, out, n)
<1>0. \A t \in SignatureTags : \A j \in Places(s, t) : j \in Nat /\ j # n
    BY PlaceIn DEF NoPlace
<1>1. \A t \in SignatureTags : \A j \in Places(s, t) :
         (j > n => j > n - 1) /\ (j <= n <=> j <= n - 1)
    BY <1>0
<1>2. ASSUME NEW t \in SignatureTags, \A j \in Places(s, t) : j > n PROVE out[t] = Leftover
    BY <1>1, <1>2 DEF BuffersAt
<1>3. ASSUME NEW t \in SignatureTags, NEW j \in Places(s, t), LastBy(s, t, j, n)
      PROVE  InBuffer(out[t], ValueSoFar(s, t, j, n))
    <2>1. LastBy(s, t, j, n - 1)
        BY <1>1, <1>3 DEF LastBy
    <2>2. ValueSoFar(s, t, j, n) = ValueSoFar(s, t, j, n - 1)
        BY ValueRead
    <2>3. InBuffer(out[t], ValueSoFar(s, t, j, n - 1))
        BY <2>1 DEF BuffersAt
    <2> QED BY <2>2, <2>3
<1> QED BY <1>2, <1>3 DEF BuffersAt

\* A tag at the head of an element.
LEMMA TagBegins ==
    ASSUME NEW s \in Seq(Chars), NEW n \in 1 .. Len(s), NEW st \in TagState,
           NEW t \in SignatureTags, n \in Places(s, t),
           TagAt(s, st, n - 1), BuffersAt(s, st.out, n - 1)
    PROVE  LET new == TagStep(SignatureTags, s, st, n)
           IN TagAt(s, new, n) /\ BuffersAt(s, new.out, n)
<1> DEFINE out == st.out
           o == [out EXCEPT ![t] = <<>>]
           new == TagStep(SignatureTags, s, st, n)
<1>0. /\ n \in Nat /\ Len(t) \in Nat /\ Len(t) > 0 /\ s[n] # TagEnd
      /\ out \in [SignatureTags -> CText] /\ OpenAt(s, n, n)
    <2>1. n \in Nat /\ Len(t) \in Nat /\ Len(t) > 0
        BY PlaceIn
    <2>2. n \in n .. n + Len(t) /\ n <= n /\ \A k \in n .. n : k = n
        BY <2>1
    <2>3. s[n] # TagEnd
        BY <2>2, PlacesApart
    <2> QED BY <2>1, <2>2, <2>3 DEF TagState, OpenAt
<1>1. \A u \in SignatureTags : \A j \in Places(s, u) :
         /\ j \in Nat
         /\ OpenAt(s, j, n) => j = n /\ u = t
         /\ j = n => u = t
         /\ ~ OpenAt(s, j, n - 1)
    <2> SUFFICES ASSUME NEW u \in SignatureTags, NEW j \in Places(s, u)
                 PROVE  /\ j \in Nat
                        /\ OpenAt(s, j, n) => j = n /\ u = t
                        /\ j = n => u = t
                        /\ ~ OpenAt(s, j, n - 1)
        OBVIOUS
    <2>1. j \in Nat
        BY PlaceIn
    <2>2. (OpenAt(s, j, n) => j = n /\ u = t) /\ (j = n => u = t)
        BY <1>0, OneOpen
    <2>3. OpenAt(s, j, n - 1) => j <= n - 1 /\ OpenAt(s, j, n)
        BY <1>0, OpenBefore DEF OpenAt
    <2> QED BY <1>0, <2>1, <2>2, <2>3
<1>2. st.skip = 0 /\ st.tag = <<>>
    BY <1>1 DEF TagAt
<1>3. TagsAt(SignatureTags, s, n) = {t}
    <2>1. At(s, n, Append(t, "="))
        BY DEF Places, TagPlaces
    <2>2. \A u \in SignatureTags : At(s, n, Append(u, "=")) => u = t
        BY PlacesApart
    <2> QED BY <2>1, <2>2 DEF TagsAt
<1>4. new = [skip |-> Len(t), tag |-> t, out |-> o]
    <2>1. new = BeginTag(st, CHOOSE u \in TagsAt(SignatureTags, s, n) : TRUE)
        BY <1>2, <1>3 DEF TagStep
    <2>2. (CHOOSE u \in TagsAt(SignatureTags, s, n) : TRUE) = t
        BY <1>3
    <2> QED BY <2>1, <2>2 DEF BeginTag
<1>5. /\ new.skip = Len(t) /\ new.tag = t /\ new.out[t] = <<>>
      /\ \A u \in SignatureTags : u # t => new.out[u] = out[u]
    BY <1>0, <1>4
<1> HIDE DEF new, o, out
<1>6. TagAt(s, new, n)
    <2>1. n < n + Len(t) /\ n + Len(t) - n = Len(t)
        BY <1>0
    <2>2. ~ \A u \in SignatureTags : \A j \in Places(s, u) : ~ OpenAt(s, j, n)
        BY <1>0
    <2> QED BY <1>1, <1>5, <2>1, <2>2 DEF TagAt
<1>7. BuffersAt(s, new.out, n)
    <2>1. ASSUME NEW u \in SignatureTags, \A j \in Places(s, u) : j > n
          PROVE  new.out[u] = Leftover
        <3>1. u # t /\ \A j \in Places(s, u) : j > n - 1
            BY <1>0, <1>1, <2>1
        <3> QED BY <1>5, <3>1 DEF BuffersAt, out
    <2>2. ASSUME NEW u \in SignatureTags, NEW j \in Places(s, u), LastBy(s, u, j, n)
          PROVE  InBuffer(new.out[u], ValueSoFar(s, u, j, n))
        <3>1. CASE u = t
            <4>1. j = n
                <5>1. n <= j /\ j <= n /\ j \in Nat
                    BY <1>0, <1>1, <2>2, <3>1 DEF LastBy
                <5> QED BY <1>0, <5>1
            <4>2. ValueSoFar(s, u, j, n) = <<>>
                BY <4>1, ValueRead
            <4>3. new.out[u] = <<>> /\ <<>> \in Seq(Chars)
                BY <1>5, <3>1
            <4> QED BY <4>2, <4>3 DEF InBuffer
        <3>2. CASE u # t
            <4>1. j # n /\ ~ OpenAt(s, j, n)
                BY <1>1, <3>2
            <4>2. LastBy(s, u, j, n - 1)
                <5>1. \A h \in Places(s, u) : h <= n - 1 => h <= n
                    BY <1>0, <1>1
                <5>2. j <= n - 1
                    BY <1>0, <1>1, <2>2, <4>1 DEF LastBy
                <5> QED BY <2>2, <5>1, <5>2 DEF LastBy
            <4>3. n \notin ValueSpan(s, u, j)
                BY <4>1, SpanOpen
            <4>4. ValueSoFar(s, u, j, n) = ValueSoFar(s, u, j, n - 1)
                BY <4>3, ValueRead
            <4>5. InBuffer(out[u], ValueSoFar(s, u, j, n - 1))
                BY <4>2 DEF BuffersAt, out
            <4> QED BY <1>5, <3>2, <4>4, <4>5
        <3> QED BY <3>1, <3>2
    <2> QED BY <2>1, <2>2 DEF BuffersAt
<1> QED BY <1>6, <1>7 DEF new

\* A character outside the elements with a tag of ours.
LEMMA TagNone ==
    ASSUME NEW s \in Seq(Chars), NEW n \in 1 .. Len(s), NEW st \in TagState,
           NoPlace(s, n), CleanTagList(SignatureTags, s),
           \A t \in SignatureTags : \A j \in Places(s, t) : ~ OpenAt(s, j, n - 1),
           TagAt(s, st, n - 1), BuffersAt(s, st.out, n - 1)
    PROVE  LET new == TagStep(SignatureTags, s, st, n)
           IN TagAt(s, new, n) /\ BuffersAt(s, new.out, n)
<1>1. st.skip = 0 /\ st.tag = <<>>
    BY DEF TagAt
<1>2. \A t \in SignatureTags : \A j \in Places(s, t) : ~ OpenAt(s, j, n)
    BY OpenBefore DEF NoPlace
<1>3. TagsAt(SignatureTags, s, n) = {}
    <2> SUFFICES ASSUME TagsAt(SignatureTags, s, n) # {} PROVE FALSE
        OBVIOUS
    <2>1. n \in DOMAIN s
        OBVIOUS
    <2>2. PICK j \in TagHeads(SignatureTags, s) : j <= n /\ TagEnd \notin {s[k] : k \in j .. n}
        BY <2>1 DEF CleanTagList
    <2>3. OpenAt(s, j, n)
        BY <2>2 DEF OpenAt
    <2>4. PICK t \in SignatureTags : At(s, j, Append(t, "="))
        BY <2>2 DEF TagHeads, TagsAt
    <2>5. j \in Places(s, t)
        BY <2>2, <2>4 DEF Places, TagPlaces
    <2> QED BY <1>2, <2>3, <2>5
<1>4. TagStep(SignatureTags, s, st, n) = st
    BY <1>1, <1>3 DEF TagStep
<1>5. TagAt(s, st, n)
    BY <1>1, <1>2 DEF TagAt
<1>6. \A t \in SignatureTags : \A j \in Places(s, t) : n \notin ValueSpan(s, t, j)
    BY <1>2, SpanOpen
<1>7. BuffersAt(s, st.out, n)
    <2> DEFINE out == st.out
    <2>1. BuffersAt(s, out, n - 1)
        OBVIOUS
    <2> HIDE DEF out
    <2>2. BuffersAt(s, out, n)
        BY <1>6, <2>1, BuffersSame
    <2> QED BY <2>2 DEF out
<1> QED BY <1>4, <1>5, <1>7

\* A character of an open element.
LEMMA TagContinues ==
    ASSUME NEW s \in Seq(Chars), NEW n \in 1 .. Len(s), NEW st \in TagState,
           NoPlace(s, n), NEW t \in SignatureTags, NEW j \in Places(s, t), OpenAt(s, j, n - 1),
           TagAt(s, st, n - 1), BuffersAt(s, st.out, n - 1)
    PROVE  LET new == TagStep(SignatureTags, s, st, n)
           IN TagAt(s, new, n) /\ BuffersAt(s, new.out, n)
<1> DEFINE m == Len(t)
           c == s[n]
           out == st.out
           skip == st.skip
           new == TagStep(SignatureTags, s, st, n)
<1>0. n \in Nat /\ n - 1 \in Nat /\ j \in Nat /\ m \in Nat /\ m > 0 /\ c \in Chars
    BY PlaceIn
<1>1. st.tag = t /\ st.skip = IF n - 1 < j + m THEN j + m - (n - 1) ELSE 0
    BY DEF TagAt
<1>2. t # <<>>
    <2>1. Len(<<>>) = 0
        OBVIOUS
    <2> QED BY <1>0, <2>1
<1>3. out \in [SignatureTags -> CText] /\ skip \in Nat /\ st = [skip |-> skip, tag |-> t, out |-> out]
    BY <1>1 DEF TagState
<1>4. BuffersAt(s, out, n - 1)
    OBVIOUS
<1>5. \A u \in SignatureTags : \A h \in Places(s, u) :
         /\ OpenAt(s, h, n) => h = j /\ u = t
         /\ n \in ValueSpan(s, u, h) <=>
               h = j /\ u = t /\ j + m + 1 <= n /\ c \notin WSP /\ c # TagEnd
    <2> SUFFICES ASSUME NEW u \in SignatureTags, NEW h \in Places(s, u)
                 PROVE  /\ OpenAt(s, h, n) => h = j /\ u = t
                        /\ n \in ValueSpan(s, u, h) <=>
                              h = j /\ u = t /\ j + m + 1 <= n /\ c \notin WSP /\ c # TagEnd
        OBVIOUS
    <2>1. h # n
        BY DEF NoPlace
    <2>2. OpenAt(s, h, n) => h = j /\ u = t /\ c # TagEnd
        BY <1>0, <2>1, OpenBefore, OneOpen
    <2>3. n \in ValueSpan(s, u, h) <=> h + Len(u) + 1 <= n /\ c \notin WSP /\ OpenAt(s, h, n)
        BY SpanOpen
    <2>4. c # TagEnd => OpenAt(s, j, n)
        BY OpenBefore
    <2> QED BY <2>2, <2>3, <2>4
<1>6. c # TagEnd => OpenAt(s, j, n)
    BY OpenBefore
<1> HIDE DEF m, c, out, skip
<1>7. CASE n - 1 < j + m
    <2>1. new = [skip |-> skip - 1, tag |-> t, out |-> out]
        <3>1. st.skip > 0
            BY <1>0, <1>1, <1>7
        <3> QED BY <1>3, <3>1 DEF TagStep
    <2>2. new.skip = skip - 1 /\ new.tag = t /\ new.out = out
        BY <2>1
    <2>3. c # TagEnd
        <3>1. n \in j .. j + m
            BY <1>0, <1>7 DEF OpenAt
        <3> QED BY <3>1, PlacesApart DEF m, c
    <2>4. skip - 1 = IF n < j + m THEN j + m - n ELSE 0
        BY <1>0, <1>1, <1>7 DEF skip
    <2> HIDE DEF new
    <2>5. TagAt(s, new, n)
        <3>1. ~ \A u \in SignatureTags : \A h \in Places(s, u) : ~ OpenAt(s, h, n)
            BY <1>6, <2>3
        <3> QED BY <1>5, <2>2, <2>4, <3>1 DEF TagAt, m
    <2>6. \A u \in SignatureTags : \A h \in Places(s, u) : n \notin ValueSpan(s, u, h)
        <3>1. ~ (j + m + 1 <= n)
            BY <1>0, <1>7
        <3> QED BY <1>5, <3>1
    <2>7. BuffersAt(s, out, n)
        BY <1>4, <2>6, BuffersSame
    <2> QED BY <2>2, <2>5, <2>7 DEF new
<1>8. CASE ~ (n - 1 < j + m)
    <2>1. skip = 0 /\ j + m + 1 <= n /\ ~ (n < j + m)
        BY <1>0, <1>1, <1>8 DEF skip
    <2>0. BufferSize(st.tag) = DKIM_VALUE_MAX_LEN
        <3>1. st.tag \notin RecordTags
            BY <1>1 DEF SignatureTags, RecordTags
        <3> QED BY <3>1 DEF BufferSize
    <2>2. new = TagCharacter(st, c)
        <3>1. st.skip = 0 /\ st.tag # <<>>
            BY <1>1, <1>2, <2>1 DEF skip
        <3> QED BY <3>1 DEF TagStep, c
    <2>3. CASE c = TagEnd
        <3>1. new = [skip |-> 0, tag |-> <<>>, out |-> out]
            BY <1>3, <2>1, <2>2, <2>3 DEF TagCharacter
        <3>2. new.skip = 0 /\ new.tag = <<>> /\ new.out = out
            BY <3>1
        <3>3. \A u \in SignatureTags : \A h \in Places(s, u) :
                 ~ OpenAt(s, h, n) /\ n \notin ValueSpan(s, u, h)
            BY <1>5, <2>3, OpenBefore DEF c
        <3> HIDE DEF new
        <3>4. TagAt(s, new, n)
            BY <3>2, <3>3 DEF TagAt
        <3>5. BuffersAt(s, out, n)
            BY <1>4, <3>3, BuffersSame
        <3> QED BY <3>2, <3>4, <3>5 DEF new
    <2>4. ASSUME c # TagEnd, NEW o, new = [skip |-> 0, tag |-> t, out |-> o]
          PROVE  TagAt(s, new, n) /\ new.out = o
        <3>1. new.skip = 0 /\ new.tag = t /\ new.out = o
            BY <2>4
        <3> HIDE DEF new
        <3>2. ~ \A u \in SignatureTags : \A h \in Places(s, u) : ~ OpenAt(s, h, n)
            BY <1>6, <2>4
        <3> QED BY <1>5, <2>1, <3>1, <3>2 DEF TagAt, m
    <2>5. CASE c # TagEnd /\ c \in WSP
        <3>1. new = [skip |-> 0, tag |-> t, out |-> out]
            BY <1>3, <2>1, <2>2, <2>5 DEF TagCharacter
        <3>2. \A u \in SignatureTags : \A h \in Places(s, u) : n \notin ValueSpan(s, u, h)
            BY <1>5, <2>5
        <3>3. BuffersAt(s, out, n)
            BY <1>4, <3>2, BuffersSame
        <3> HIDE DEF new
        <3>4. TagAt(s, new, n) /\ new.out = out
            BY <2>4, <2>5, <3>1
        <3> QED BY <3>3, <3>4 DEF new
    <2>6. CASE c # TagEnd /\ c \notin WSP
        <3> DEFINE v == out[t]
                   o == IF Len(v) >= DKIM_VALUE_MAX_LEN - 1 THEN out
                        ELSE [out EXCEPT ![t] = Append(v, c)]
                   read == ValueSoFar(s, t, j, n - 1)
        <3>1. new = [skip |-> 0, tag |-> t, out |-> o]
            <4>1. CASE Len(v) >= DKIM_VALUE_MAX_LEN - 1
                BY <1>1, <1>3, <2>0, <2>1, <2>2, <2>6, <4>1 DEF TagCharacter, out
            <4>2. CASE ~ (Len(v) >= DKIM_VALUE_MAX_LEN - 1)
                <5> DEFINE w == [out EXCEPT ![t] = Append(v, c)]
                <5>1. new = [st EXCEPT !.out[st.tag] = Append(@, c)]
                    BY <1>1, <2>0, <2>2, <2>6, <4>2 DEF TagCharacter, out
                <5>2. new = [st EXCEPT !.out = w]
                    BY <1>1, <5>1 DEF out
                <5>3. o = w
                    BY <4>2
                <5> HIDE DEF w, new, o
                <5> QED BY <1>3, <2>1, <5>2, <5>3
            <4> QED BY <4>1, <4>2
        <3>2. \A h \in Places(s, t) : (LastBy(s, t, h, n) => h = j)
            <4> SUFFICES ASSUME NEW h \in Places(s, t), LastBy(s, t, h, n) PROVE h = j
                OBVIOUS
            <4>1. j <= n - 1 /\ j <= n /\ h \in Nat /\ h # n
                BY <1>0, PlaceIn DEF OpenAt, NoPlace
            <4>2. j <= h /\ h <= n
                BY <4>1 DEF LastBy
            <4>3. h <= n - 1
                BY <1>0, <4>1, <4>2
            <4>4. h <= j
                BY <1>0, <4>3, OneOpen
            <4> QED BY <1>0, <4>1, <4>2, <4>4
        <3>3. LastBy(s, t, j, n - 1)
            <4>1. j <= n - 1
                BY DEF OpenAt
            <4>2. \A h \in Places(s, t) : h <= n - 1 => h <= j
                BY <1>0, OneOpen
            <4> QED BY <4>1, <4>2 DEF LastBy
        <3>4. InBuffer(v, read) /\ v \in Seq(Chars)
            BY <1>4, <3>3 DEF BuffersAt, InBuffer
        <3>5. ValueSoFar(s, t, j, n) = Append(read, c) /\ read \in Seq(Chars)
            <4>1. n \in ValueSpan(s, t, j) /\ n - 1 \in 0 .. Len(s)
                BY <1>0, <1>5, <2>1, <2>6
            <4> QED BY <4>1, ValueRead DEF c
        <3> HIDE DEF read, v
        <3>6. Len(Append(read, c)) = Len(read) + 1 /\ Len(read) \in Nat /\ Append(v, c) \in Seq(Chars)
            BY <1>0, <3>4, <3>5
        <3>7. InBuffer(o[t], Append(read, c)) /\ \A u \in SignatureTags : u # t => o[u] = out[u]
            <4>1. DKIM_VALUE_MAX_LEN \in Nat
                BY DkimAssumption
            <4>2. CASE Len(v) >= DKIM_VALUE_MAX_LEN - 1
                <5>1. Len(Append(read, c)) >= DKIM_VALUE_MAX_LEN
                    BY <3>4, <3>6, <4>1, <4>2 DEF InBuffer
                <5>2. o = out
                    BY <4>2
                <5> HIDE DEF o
                <5> QED BY <3>4, <5>1, <5>2 DEF InBuffer, v
            <4>3. CASE ~ (Len(v) >= DKIM_VALUE_MAX_LEN - 1)
                <5>1. o[t] = Append(v, c) /\ \A u \in SignatureTags : u # t => o[u] = out[u]
                    BY <1>3, <4>3
                <5> HIDE DEF o
                <5>2. v = read \/ Len(Append(read, c)) >= DKIM_VALUE_MAX_LEN
                    BY <3>4, <3>6, <4>1 DEF InBuffer
                <5> QED BY <3>6, <5>1, <5>2 DEF InBuffer
            <4> QED BY <4>2, <4>3
        <3> HIDE DEF new, o
        <3>8. BuffersAt(s, o, n)
            <4>0. \A u \in SignatureTags : \A h \in Places(s, u) :
                     (h > n => h > n - 1) /\ (h <= n <=> h <= n - 1)
                <5>1. \A u \in SignatureTags : \A h \in Places(s, u) : h \in Nat /\ h # n
                    BY PlaceIn DEF NoPlace
                <5> QED BY <1>0, <5>1
            <4>1. ASSUME NEW u \in SignatureTags, \A h \in Places(s, u) : h > n
                  PROVE  o[u] = Leftover
                <5>1. u # t
                    <6>1. j <= n /\ ~ (j > n)
                        BY <1>0 DEF OpenAt
                    <6> QED BY <4>1, <6>1
                <5>2. out[u] = Leftover
                    BY <1>4, <4>0, <4>1 DEF BuffersAt
                <5> QED BY <3>7, <5>1, <5>2
            <4>2. ASSUME NEW u \in SignatureTags, NEW h \in Places(s, u), LastBy(s, u, h, n)
                  PROVE  InBuffer(o[u], ValueSoFar(s, u, h, n))
                <5>1. CASE u = t
                    BY <3>2, <3>5, <3>7, <4>2, <5>1
                <5>2. CASE u # t
                    <6>1. LastBy(s, u, h, n - 1)
                        BY <4>0, <4>2 DEF LastBy
                    <6>2. n \notin ValueSpan(s, u, h)
                        BY <1>5, <5>2
                    <6>3. ValueSoFar(s, u, h, n) = ValueSoFar(s, u, h, n - 1)
                        BY <6>2, ValueRead
                    <6>4. InBuffer(out[u], ValueSoFar(s, u, h, n - 1))
                        BY <1>4, <6>1 DEF BuffersAt
                    <6> QED BY <3>7, <5>2, <6>3, <6>4
                <5> QED BY <5>1, <5>2
            <4> QED BY <4>1, <4>2 DEF BuffersAt
        <3>9. TagAt(s, new, n) /\ new.out = o
            BY <2>4, <2>6, <3>1
        <3> QED BY <3>8, <3>9 DEF new
    <2> QED BY <2>3, <2>5, <2>6
<1> QED BY <1>7, <1>8

\* The scan, up to every position of a clean list.
LEMMA ScanTagsInv ==
    ASSUME NEW s \in Seq(Chars), CleanTagList(SignatureTags, s)
    PROVE  BuffersAt(s, dkim_parse_header(s), Len(s))
<1> DEFINE m == Len(s)
           F == ScanTags(SignatureTags, s)
           T == {n \in 0 .. m : TagAt(s, F[n], n) /\ BuffersAt(s, F[n].out, n)}
<1>0. m \in Nat
    OBVIOUS
<1>1. /\ F \in [0 .. m -> TagState]
      /\ F[0] = [skip |-> 0, tag |-> <<>>, out |-> [t \in SignatureTags |-> Leftover]]
      /\ \A i \in 1 .. m : F[i] = TagStep(SignatureTags, s, F[i - 1], i)
    BY ScanTagsDef
<1>2. \A t \in SignatureTags : \A j \in Places(s, t) : j > 0 /\ ~ (j <= 0)
    BY PlaceIn
<1> HIDE DEF F, m
<1>3. 0 \in T
    <2>1. F[0].skip = 0 /\ F[0].tag = <<>> /\ \A t \in SignatureTags : F[0].out[t] = Leftover
        BY <1>1
    <2>2. TagAt(s, F[0], 0)
        BY <1>2, <2>1 DEF TagAt, OpenAt
    <2>3. BuffersAt(s, F[0].out, 0)
        BY <1>2, <2>1 DEF BuffersAt, LastBy
    <2>4. 0 \in 0 .. m
        BY <1>0
    <2> QED BY <2>2, <2>3, <2>4
<1>4. ASSUME NEW i \in 0 .. m - 1, i \in T PROVE i + 1 \in T
    <2> DEFINE n == i + 1
    <2>1. n \in 1 .. m /\ n \in 0 .. m /\ n - 1 = i /\ i \in 0 .. m
        BY <1>0
    <2>2. F[n] = TagStep(SignatureTags, s, F[i], n) /\ F[i] \in TagState
        BY <1>1, <2>1
    <2> HIDE DEF n
    <2>3. TagAt(s, F[i], n - 1) /\ BuffersAt(s, F[i].out, n - 1)
        BY <1>4, <2>1
    <2> DEFINE st == F[i]
    <2>4. st \in TagState /\ TagAt(s, st, n - 1) /\ BuffersAt(s, st.out, n - 1) /\ n \in 1 .. Len(s)
        BY <2>1, <2>2, <2>3 DEF m
    <2> HIDE DEF st
    <2>5. LET new == TagStep(SignatureTags, s, st, n)
          IN TagAt(s, new, n) /\ BuffersAt(s, new.out, n)
        <3>1. CASE ~ NoPlace(s, n)
            BY <2>4, <3>1, TagBegins DEF NoPlace
        <3>2. CASE NoPlace(s, n) /\ \A t \in SignatureTags : \A j \in Places(s, t) : ~ OpenAt(s, j, n - 1)
            BY <2>4, <3>2, TagNone
        <3>3. CASE NoPlace(s, n) /\ \E t \in SignatureTags : \E j \in Places(s, t) : OpenAt(s, j, n - 1)
            BY <2>4, <3>3, TagContinues
        <3> QED BY <3>1, <3>2, <3>3
    <2>6. TagAt(s, F[n], n) /\ BuffersAt(s, F[n].out, n)
        BY <2>2, <2>5 DEF st
    <2>7. n \in T
        BY <2>1, <2>6
    <2> QED BY <2>7 DEF n
<1>5. 0 .. m \subseteq T
    <2> HIDE DEF T
    <2> QED BY <1>0, <1>3, <1>4, UpToN
<1>6. m \in T
    <2>1. m \in 0 .. m
        BY <1>0
    <2> QED BY <1>5, <2>1
<1>7. BuffersAt(s, F[m].out, m)
    BY <1>6
<1> QED BY <1>7 DEF F, m, dkim_parse_header

\* dkim_parse_header finds, in every clean tag list, every tag's value.
LEMMA TagsFound ==
    ASSUME NEW s \in Seq(Chars), CleanTagList(SignatureTags, s), NEW t \in SignatureTags,
           \/ TagPlaces(SignatureTags, s, t) = {}
           \/ Len(RefTag(SignatureTags, s, t)) < DKIM_VALUE_MAX_LEN
    PROVE  dkim_parse_header(s)[t] = RefTag(SignatureTags, s, t)
<1> DEFINE out == dkim_parse_header(s)
           P == Places(s, t)
<1>0. BuffersAt(s, out, Len(s))
    BY ScanTagsInv
<1> HIDE DEF out
<1>1. CASE P = {}
    <2>1. out[t] = Leftover
        BY <1>0, <1>1 DEF BuffersAt
    <2>2. RefTag(SignatureTags, s, t) = Leftover
        BY <1>1 DEF RefTag, Places
    <2> QED BY <2>1, <2>2 DEF out
<1>2. CASE P # {}
    <2> DEFINE j == Max(P)
               val == RefTag(SignatureTags, s, t)
    <2>0. Len(s) \in Nat
        OBVIOUS
    <2>1. P \subseteq 0 .. Len(s)
        BY <2>0, PlaceIn
    <2>2. j \in P /\ \A h \in P : j >= h
        <3> HIDE DEF P
        <3> QED BY <1>2, <2>0, <2>1, MaxIn
    <2>3. val = Without(UpTo(s, j + Len(t) + 1, {TagEnd}), WSP)
        BY <1>2 DEF RefTag, Places
    <2> HIDE DEF j, val
    <2>4. j \in Places(s, t) /\ \A h \in Places(s, t) : h <= j
        <3>1. \A h \in P : h \in Nat
            BY PlaceIn
        <3> QED BY <2>2, <3>1
    <2>5. j \in Nat /\ Len(t) \in Nat /\ j + Len(t) <= Len(s) /\ j <= Len(s)
        BY <2>4, PlaceIn
    <2>6. j + Len(t) + 1 \in Nat \ {0} /\ j + Len(t) + 1 <= Len(s) + 1
        BY <2>0, <2>5
    <2>7. val = ValueSoFar(s, t, j, Len(s))
        <3> DEFINE a == j + Len(t) + 1
        <3>1. a \in Nat \ {0} /\ a <= Len(s) + 1
            BY <2>6
        <3> HIDE DEF a
        <3>2. Without(UpTo(s, a, {TagEnd}), WSP) = Pick(s, Span(s, a, {TagEnd}, WSP))
            BY <3>1, SpanIs
        <3> QED BY <2>3, <3>2 DEF a, ValueSoFar, ValueSpan, Pick
    <2>8. LastBy(s, t, j, Len(s))
        BY <2>4, <2>5 DEF LastBy
    <2>9. InBuffer(out[t], val)
        BY <1>0, <2>4, <2>7, <2>8 DEF BuffersAt
    <2>10. val \in Seq(Chars)
        <3>1. Len(s) \in 0 .. Len(s)
            BY <2>0
        <3> QED BY <2>4, <2>7, <3>1, ValueRead
    <2>11. Len(val) < DKIM_VALUE_MAX_LEN
        BY <1>2 DEF val, Places
    <2>12. ~ (Len(val) >= DKIM_VALUE_MAX_LEN)
        <3>1. Len(val) \in Nat /\ DKIM_VALUE_MAX_LEN \in Nat
            BY <2>10, DkimAssumption
        <3> QED BY <2>11, <3>1
    <2> QED BY <2>9, <2>12 DEF InBuffer, out, val
<1> QED BY <1>1, <1>2

\* TagsAgree in every behaviour: dkim_parse_header finds each tag's value in a
\* clean tag list of any length, for every size of the buffers.
THEOREM TagsAreExact == TextSpec => []TagsAgree
<1>1. InputsTyped => TagsAgree
    <2> SUFFICES ASSUME InputsTyped, job = "tags", CleanTagList(SignatureTags, input),
                        NEW t \in SignatureTags,
                        \/ TagPlaces(SignatureTags, input, t) = {}
                        \/ Len(RefTag(SignatureTags, input, t)) < DKIM_VALUE_MAX_LEN
                 PROVE  dkim_parse_header(input)[t] = RefTag(SignatureTags, input, t)
        BY DEF TagsAgree
    <2>1. input \in Seq(Chars)
        BY DEF InputsTyped, TextJobs
    <2> QED BY <2>1, TagsFound
<1> QED BY <1>1, TextsTyped, PTL

-----------------------------------------------------------------------------
(* The configuration file *)

ScanState == [key : Seq(Chars), value : Seq(Chars), is_key : BOOLEAN, next : BOOLEAN]

\* A character of a line keeps the type.
LEMMA ScanCharacterTyped ==
    ASSUME NEW st \in ScanState, NEW c \in Chars
    PROVE  ScanCharacter(st, c) \in ScanState
<1> DEFINE k == Append(st.key, c)
           v == Append(st.value, c)
<1>1. k \in Seq(Chars) /\ v \in Seq(Chars)
    BY DEF ScanState
<1>2. ScanCharacter(st, c) \in {st, [st EXCEPT !.next = TRUE], [st EXCEPT !.is_key = FALSE],
                                [st EXCEPT !.key = k], [st EXCEPT !.value = v]}
    BY DEF ScanCharacter, Comment, EqualsSign
<1> HIDE DEF k, v
<1>3. /\ [st EXCEPT !.next = TRUE] \in ScanState /\ [st EXCEPT !.is_key = FALSE] \in ScanState
      /\ [st EXCEPT !.key = k] \in ScanState /\ [st EXCEPT !.value = v] \in ScanState
    BY <1>1 DEF ScanState
<1> QED BY <1>2, <1>3

\* What ScanLine computes, step by step.
LEMMA ScanLineDef ==
    ASSUME NEW s \in Seq(Chars)
    PROVE  LET F == ScanLine(s)
           IN /\ F \in [0 .. Len(s) -> ScanState]
              /\ F[0] = [key |-> <<>>, value |-> <<>>, is_key |-> TRUE, next |-> FALSE]
              /\ \A i \in 1 .. Len(s) : F[i] = ScanCharacter(F[i - 1], s[i])
<1> DEFINE n == Len(s)
           S == ScanState
           base == [key |-> <<>>, value |-> <<>>, is_key |-> TRUE, next |-> FALSE]
           step(i, st) == ScanCharacter(st, s[i])
           g == [i \in 1 .. n |-> [st \in S |-> step(i, st)]]
           F == CHOOSE f : f = [i \in 0 .. n |-> IF i = 0 THEN base ELSE step(i, f[i - 1])]
<1>0. n \in Nat
    OBVIOUS
<1>1. base \in S
    BY DEF ScanState
<1>2. ASSUME NEW i \in 1 .. n, NEW st \in S PROVE step(i, st) \in S
    BY ScanCharacterTyped
<1>3. PICK f : Computes(f, n, S, base, g)
    <2>1. g \in [1 .. n -> [S -> S]]
        <3> HIDE DEF step, S, n
        <3> QED BY <1>2
    <2> HIDE DEF g, S, base, n
    <2> QED BY <1>0, <1>1, <2>1, Recursion
<1> HIDE DEF S, step, n, base
<1>4. /\ f \in [0 .. n -> S] /\ f[0] = base
      /\ \A i \in 1 .. n : f[i] = step(i, f[i - 1])
    <2>1. f \in [0 .. n -> S] /\ f[0] = base /\ \A i \in 1 .. n : f[i] = g[i][f[i - 1]]
        BY <1>3 DEF Computes
    <2>2. \A i \in 1 .. n : f[i - 1] \in S
        BY <1>0, <2>1
    <2> QED BY <2>1, <2>2
<1>5. \A i \in 0 .. n : i # 0 => i \in 1 .. n
    BY <1>0
<1>6. f = [i \in 0 .. n |-> IF i = 0 THEN base ELSE step(i, f[i - 1])]
    <2>1. \A i \in 0 .. n : f[i] = IF i = 0 THEN base ELSE step(i, f[i - 1])
        BY <1>4, <1>5
    <2> QED BY <1>4, <2>1
<1>7. F = [i \in 0 .. n |-> IF i = 0 THEN base ELSE step(i, F[i - 1])]
    BY <1>6
<1>8. ScanLine(s) = F
    BY DEF ScanLine, step, n, base
<1> HIDE DEF F
<1>9. 0 \in 0 .. n /\ \A i \in 1 .. n : i \in 0 .. n /\ i # 0
    BY <1>0
<1>10. F[0] = base /\ \A i \in 1 .. n : F[i] = step(i, F[i - 1])
    BY <1>7, <1>9
<1>11. F[0] \in S /\ \A i \in 1 .. n : F[i - 1] \in S => F[i] \in S
    BY <1>1, <1>2, <1>10
<1>12. \A i \in 0 .. n : F[i] \in S
    BY <1>0, <1>11, Stays
<1>13. F \in [0 .. n -> ScanState]
    BY <1>7, <1>12 DEF S
<1> QED BY <1>8, <1>10, <1>13 DEF n, base, step

\* The equals sign of a setting, or the position behind it; the positions of
\* its key and of its value.
KeyEnd(s) == Len(UpTo(s, 1, {"="})) + 1
Dropped == {SP, TAB, CR}
KeySet(s) == Span(s, 1, {"="}, Dropped)
ValueSet(s) == {j \in KeyEnd(s) + 1 .. Len(s) :
                   s[j] \notin {TAB, CR} /\ \E k \in KeyEnd(s) + 1 .. j : s[k] \notin Dropped}

OneEquals(s) == \A j, k \in DOMAIN s : s[j] = "=" /\ s[k] = "=" => j = k

\* The first equals sign.
LEMMA FirstEquals ==
    ASSUME NEW s \in Seq(Chars)
    PROVE  /\ KeyEnd(s) \in Nat /\ KeyEnd(s) > 0 /\ KeyEnd(s) <= Len(s) + 1
           /\ \A k \in 1 .. Len(s) : k < KeyEnd(s) => s[k] # "="
           /\ KeyEnd(s) <= Len(s) => s[KeyEnd(s)] = "="
<1> DEFINE p == UpTo(s, 1, {"="})
           m == Len(p)
           e == m + 1
<1>0. Len(s) \in Nat /\ 1 \in Nat \ {0} /\ 1 <= Len(s) + 1
    OBVIOUS
<1>1. /\ m \in Nat /\ 1 + m <= Len(s) + 1
      /\ \A k \in 1 .. m : p[k] = s[1 + k - 1] /\ p[k] \notin {"="}
      /\ 1 + m <= Len(s) => s[1 + m] \in {"="}
    BY <1>0, UpToChars
<1>2. KeyEnd(s) = e
    BY DEF KeyEnd
<1> HIDE DEF p, m
<1>3. e \in Nat /\ e > 0 /\ e <= Len(s) + 1 /\ e = 1 + m
    BY <1>0, <1>1
<1>4. ASSUME NEW k \in 1 .. Len(s), k < e PROVE s[k] # "="
    <2>1. k \in 1 .. m /\ 1 + k - 1 = k
        BY <1>1, <1>4
    <2> QED BY <1>1, <2>1
<1>5. e <= Len(s) => s[e] = "="
    BY <1>1, <1>3
<1> HIDE DEF e
<1> QED BY <1>2, <1>3, <1>4, <1>5

\* The state of the scan after the first n characters of a setting.
ScanAt(s, st, n) ==
    /\ st.next = FALSE
    /\ st.is_key <=> n < KeyEnd(s)
    /\ st.key = Kept(s, KeySet(s))[n]
    /\ st.value = Kept(s, ValueSet(s))[n]

\* Which characters go to the key, and which to the value.
LEMMA SettingChars ==
    ASSUME NEW s \in Seq(Chars), OneEquals(s), NEW n \in 1 .. Len(s)
    PROVE  /\ s[n] = "=" <=> n = KeyEnd(s)
           /\ n \in KeySet(s) <=> n < KeyEnd(s) /\ s[n] \notin Dropped
           /\ n \in ValueSet(s) <=>
                 /\ n > KeyEnd(s) /\ s[n] \notin {TAB, CR}
                 /\ s[n] # SP \/ Kept(s, ValueSet(s))[n - 1] # <<>>
<1> DEFINE e == KeyEnd(s)
           V == ValueSet(s)
           K == Kept(s, V)
<1>0. n \in Nat /\ n <= Len(s) /\ Len(s) \in Nat
    OBVIOUS
<1>1. /\ e \in Nat /\ e > 0 /\ e <= Len(s) + 1
      /\ \A k \in 1 .. Len(s) : k < e => s[k] # "="
      /\ e <= Len(s) => s[e] = "="
    BY FirstEquals
<1>2. V = {j \in e + 1 .. Len(s) :
              s[j] \notin {TAB, CR} /\ \E k \in e + 1 .. j : s[k] \notin Dropped}
    BY DEF ValueSet
<1> HIDE DEF e, V
<1>3. s[n] = "=" <=> n = e
    <2>1. ASSUME s[n] = "=" PROVE n = e
        <3>1. ~ (n < e)
            BY <1>1, <2>1
        <3>2. e \in DOMAIN s /\ n \in DOMAIN s /\ s[e] = "="
            BY <1>0, <1>1, <3>1
        <3> QED BY <2>1, <3>2 DEF OneEquals
    <2> QED BY <1>0, <1>1, <2>1
<1>4. n \in KeySet(s) <=> n < e /\ s[n] \notin Dropped
    <2>1. n \in KeySet(s) <=> s[n] \notin Dropped /\ \A j \in 1 .. n : s[j] \notin {"="}
        BY <1>0 DEF KeySet, Span
    <2>2. (\A j \in 1 .. n : s[j] \notin {"="}) <=> n < e
        <3>1. ASSUME n < e, NEW j \in 1 .. n PROVE s[j] \notin {"="}
            <4>1. j \in 1 .. Len(s) /\ j < e
                BY <1>0, <1>1, <3>1
            <4> QED BY <1>1, <4>1
        <3>2. ASSUME ~ (n < e) PROVE ~ \A j \in 1 .. n : s[j] \notin {"="}
            <4>1. e \in 1 .. n /\ s[e] = "="
                BY <1>0, <1>1, <3>2
            <4> QED BY <4>1
        <3> QED BY <3>1, <3>2
    <2> QED BY <2>1, <2>2
<1>5. n \in V <=> n > e /\ s[n] \notin {TAB, CR} /\ (s[n] # SP \/ K[n - 1] # <<>>)
    <2>1. n \in V <=> n > e /\ s[n] \notin {TAB, CR} /\ \E k \in e + 1 .. n : s[k] \notin Dropped
        BY <1>0, <1>1, <1>2
    <2>2. ASSUME n > e, s[n] \notin {TAB, CR}
          PROVE  (\E k \in e + 1 .. n : s[k] \notin Dropped) <=> (s[n] # SP \/ K[n - 1] # <<>>)
        <3>1. CASE s[n] # SP
            <4>1. n \in e + 1 .. n
                BY <1>0, <1>1, <2>2
            <4>2. s[n] \notin Dropped
                BY <2>2, <3>1 DEF Dropped
            <4> QED BY <3>1, <4>1, <4>2
        <3>2. CASE s[n] = SP
            <4>0. n - 1 \in 0 .. Len(s) /\ s[n] \in Dropped
                BY <1>0, <3>2 DEF Dropped
            <4>1. ASSUME K[n - 1] # <<>> PROVE \E k \in e + 1 .. n : s[k] \notin Dropped
                <5>1. ~ NoneIn(V, 1, n - 1)
                    BY <4>0, <4>1, KeptOutside
                <5>2. PICK i \in 1 .. n - 1 : i \in V
                    BY <5>1 DEF NoneIn
                <5>3. PICK k \in e + 1 .. i : s[k] \notin Dropped
                    BY <1>2, <5>2
                <5>4. k \in e + 1 .. n
                    BY <1>0, <1>1, <5>2
                <5> QED BY <5>3, <5>4
            <4>2. ASSUME NEW k \in e + 1 .. n, s[k] \notin Dropped PROVE K[n - 1] # <<>>
                <5>1. k # n
                    BY <4>0, <4>2
                <5>2. k \in 1 .. n - 1 /\ k \in e + 1 .. Len(s) /\ k \in e + 1 .. k
                    BY <1>0, <1>1, <5>1
                <5>3. s[k] \notin {TAB, CR}
                    BY <4>2 DEF Dropped
                <5>4. k \in V
                    BY <1>2, <4>2, <5>2, <5>3
                <5> QED BY <4>0, <5>2, <5>4, KeptSome
            <4> QED BY <3>2, <4>1, <4>2
        <3> QED BY <3>1, <3>2
    <2> QED BY <2>1, <2>2
<1> QED BY <1>3, <1>4, <1>5 DEF e, V

\* A character of a setting.
LEMMA ScanStep ==
    ASSUME NEW s \in Seq(Chars), OneEquals(s), NEW n \in 1 .. Len(s), NEW st \in ScanState,
           ScanAt(s, st, n - 1), s[n] # LF, s[n] # Hash
    PROVE  ScanAt(s, ScanCharacter(st, s[n]), n)
<1> DEFINE c == s[n]
           e == KeyEnd(s)
           A == Kept(s, KeySet(s))
           B == Kept(s, ValueSet(s))
           new == ScanCharacter(st, c)
<1> SUFFICES ScanAt(s, new, n)
    OBVIOUS
<1>0. n \in Nat /\ c \in Chars /\ e \in Nat
    BY FirstEquals
<1>1. /\ st.next = FALSE /\ (st.is_key <=> n - 1 < e) /\ st.key = A[n - 1] /\ st.value = B[n - 1]
      /\ st.key \in Seq(Chars) /\ st.value \in Seq(Chars) /\ st.is_key \in BOOLEAN
    BY DEF ScanAt, ScanState
<1>2. /\ A[n] = IF n \in KeySet(s) THEN Append(A[n - 1], c) ELSE A[n - 1]
      /\ B[n] = IF n \in ValueSet(s) THEN Append(B[n - 1], c) ELSE B[n - 1]
    BY KeptDef
<1>3. /\ c = "=" <=> n = e
      /\ n \in KeySet(s) <=> n < e /\ c \notin Dropped
      /\ n \in ValueSet(s) <=>
            n > e /\ c \notin {TAB, CR} /\ (c # SP \/ B[n - 1] # <<>>)
    BY SettingChars
<1>4. ASSUME new.next = FALSE, new.is_key <=> n < e, new.key = A[n], new.value = B[n]
      PROVE  ScanAt(s, new, n)
    BY <1>4 DEF ScanAt
<1>5. SP \notin {TAB, CR, LF, "="} /\ "=" \notin {TAB, CR, LF}
    BY DEF SP, TAB, CR, LF
<1> HIDE DEF A, B, c, e
<1>6. CASE c \in {TAB, CR}
    <2>1. new = st /\ n # e
        BY <1>3, <1>5, <1>6 DEF ScanCharacter
    <2>2. n \notin KeySet(s) /\ n \notin ValueSet(s)
        BY <1>3, <1>6 DEF Dropped
    <2>3. n - 1 < e <=> n < e
        BY <1>0, <2>1
    <2>4. new.next = FALSE /\ new.key = A[n] /\ new.value = B[n]
        BY <1>1, <1>2, <2>1, <2>2
    <2>5. new.is_key <=> n < e
        BY <1>1, <2>1, <2>3
    <2> HIDE DEF new
    <2> QED BY <1>4, <2>4, <2>5
<1>7. CASE c = "="
    <2>1. new = [st EXCEPT !.is_key = FALSE]
        BY <1>1, <1>5, <1>7 DEF ScanCharacter, EqualsSign, c
    <2>2. new.next = FALSE /\ new.is_key = FALSE /\ new.key = st.key /\ new.value = st.value
        BY <1>1, <2>1 DEF ScanState
    <2>3. n = e /\ ~ (n < e) /\ ~ (n > e)
        BY <1>0, <1>3, <1>7
    <2> HIDE DEF new
    <2>4. new.key = A[n] /\ new.value = B[n]
        BY <1>1, <1>2, <1>3, <2>2, <2>3
    <2>5. new.is_key <=> n < e
        BY <2>2, <2>3
    <2> QED BY <1>4, <2>2, <2>4, <2>5
<1>8. CASE c \notin {TAB, CR, "="}
    <2>0. c \notin {TAB, CR, LF, Hash, "="} /\ n # e /\ (n - 1 < e <=> n < e)
        <3>1. n # e
            BY <1>3, <1>8
        <3>2. n - 1 < e <=> n < e
            BY <1>0, <3>1
        <3> QED BY <1>8, <3>1, <3>2 DEF c
    <2>1. CASE st.is_key
        <3>1. n < e /\ ~ (n > e)
            BY <1>0, <1>1, <2>0, <2>1
        <3>2. CASE c = SP
            <4>1. new = st
                BY <1>1, <2>0, <2>1, <3>2 DEF ScanCharacter
            <4>2. n \notin KeySet(s) /\ n \notin ValueSet(s)
                BY <1>3, <3>1, <3>2 DEF Dropped
            <4>3. new.next = FALSE /\ new.key = A[n] /\ new.value = B[n]
                BY <1>1, <1>2, <4>1, <4>2
            <4>4. new.is_key <=> n < e
                BY <1>1, <2>0, <4>1
            <4> HIDE DEF new
            <4> QED BY <1>4, <4>3, <4>4
        <3>3. CASE c # SP
            <4> DEFINE k == Append(st.key, c)
            <4>1. new = [st EXCEPT !.key = k]
                BY <1>1, <2>0, <2>1, <3>3 DEF ScanCharacter
            <4> HIDE DEF k
            <4>2. new.next = st.next /\ new.is_key = st.is_key /\ new.key = k /\ new.value = st.value
                BY <4>1 DEF ScanState
            <4>3. n \in KeySet(s) /\ n \notin ValueSet(s)
                BY <1>3, <2>0, <3>1, <3>3 DEF Dropped
            <4> HIDE DEF new
            <4>4. new.next = FALSE /\ new.key = A[n] /\ new.value = B[n]
                BY <1>1, <1>2, <4>2, <4>3 DEF k
            <4>5. new.is_key <=> n < e
                BY <1>1, <2>0, <4>2
            <4> QED BY <1>4, <4>4, <4>5
        <3> QED BY <3>2, <3>3
    <2>2. CASE ~ st.is_key
        <3>1. n > e /\ ~ (n < e)
            BY <1>0, <1>1, <2>0, <2>2
        <3>2. CASE c = SP /\ st.value = <<>>
            <4>1. new = st
                BY <1>1, <2>0, <2>2, <3>2 DEF ScanCharacter
            <4>2. n \notin KeySet(s) /\ n \notin ValueSet(s)
                BY <1>1, <1>3, <3>1, <3>2
            <4>3. new.next = FALSE /\ new.key = A[n] /\ new.value = B[n]
                BY <1>1, <1>2, <4>1, <4>2
            <4>4. new.is_key <=> n < e
                BY <1>1, <2>0, <4>1
            <4> HIDE DEF new
            <4> QED BY <1>4, <4>3, <4>4
        <3>3. CASE ~ (c = SP /\ st.value = <<>>)
            <4> DEFINE v == Append(st.value, c)
            <4>1. new = [st EXCEPT !.value = v]
                BY <1>1, <2>0, <2>2, <3>3 DEF ScanCharacter
            <4> HIDE DEF v
            <4>2. new.next = st.next /\ new.is_key = st.is_key /\ new.key = st.key /\ new.value = v
                BY <4>1 DEF ScanState
            <4>3. n \notin KeySet(s) /\ n \in ValueSet(s)
                BY <1>1, <1>3, <2>0, <3>1, <3>3
            <4> HIDE DEF new
            <4>4. new.next = FALSE /\ new.key = A[n] /\ new.value = B[n]
                BY <1>1, <1>2, <4>2, <4>3 DEF v
            <4>5. new.is_key <=> n < e
                BY <1>1, <2>0, <4>2
            <4> QED BY <1>4, <4>4, <4>5
        <3> QED BY <3>2, <3>3
    <2> QED BY <2>1, <2>2
<1> QED BY <1>6, <1>7, <1>8

\* A character behind the setting: the mark of a comment, one of the comment,
\* or the end of the line.
LEMMA ScanOver ==
    ASSUME NEW st \in ScanState, NEW c, st.next \/ c \in {LF, Hash}
    PROVE  /\ ScanCharacter(st, c).key = st.key /\ ScanCharacter(st, c).value = st.value
           /\ st.next \/ c = Hash => ScanCharacter(st, c).next
<1>1. CASE st.next \/ c = LF
    <2>1. ScanCharacter(st, c) = st
        BY <1>1 DEF ScanCharacter
    <2>2. LF # Hash
        BY DEF LF, Hash
    <2> QED BY <1>1, <2>1, <2>2
<1>2. CASE ~ st.next /\ c # LF
    <2>1. c = Hash /\ Hash \notin {TAB, CR, LF}
        BY <1>2 DEF Hash, TAB, CR, LF
    <2>2. ScanCharacter(st, c) = [st EXCEPT !.next = TRUE]
        BY <1>2, <2>1 DEF ScanCharacter, Comment
    <2> QED BY <2>2 DEF ScanState
<1> QED BY <1>1, <1>2

\* The scan of a whole line: the key and the value of its setting.
LEMMA ScanLineIs ==
    ASSUME NEW u \in Seq(Chars), \A k \in 1 .. Len(u) : u[k] # LF,
           NEW line \in {u, Append(u, LF)}, OneEquals(UpTo(u, 1, {Hash}))
    PROVE  LET s == UpTo(u, 1, {Hash})
               st == ScanLine(line)[Len(line)]
           IN /\ line \in Seq(Chars) /\ Len(line) >= Len(s) /\ s \in Seq(Chars)
              /\ st.key = Pick(s, KeySet(s)) /\ st.value = Pick(s, ValueSet(s))
<1> DEFINE s == UpTo(u, 1, {Hash})
           m == Len(s)
           l == Len(line)
           F == ScanLine(line)
           A == Pick(s, KeySet(s))
           B == Pick(s, ValueSet(s))
           after(n) == /\ F[n].key = A /\ F[n].value = B
                       /\ n > m => F[n].next \/ n = l
           T == {n \in 0 .. l : (n <= m => ScanAt(s, F[n], n)) /\ (n >= m => after(n))}
<1>0. LF \in Chars /\ Len(u) \in Nat /\ 1 \in Nat \ {0} /\ 1 <= Len(u) + 1
    BY TextsAssumption DEF Blank
<1>1. /\ s \in Seq(Chars) /\ m \in Nat /\ 1 + m <= Len(u) + 1
      /\ \A k \in 1 .. m : s[k] = u[1 + k - 1] /\ s[k] \notin {Hash}
      /\ 1 + m <= Len(u) => u[1 + m] \in {Hash}
    BY <1>0, UpToChars
<1>2. /\ line \in Seq(Chars) /\ l \in Nat /\ l >= Len(u) /\ l <= Len(u) + 1
      /\ \A k \in 1 .. Len(u) : line[k] = u[k]
      /\ l > Len(u) => line[l] = LF
    <2>1. CASE line = u
        BY <1>0, <2>1
    <2>2. CASE line = Append(u, LF)
        <3>1. /\ Append(u, LF) \in Seq(Chars) /\ Len(Append(u, LF)) = Len(u) + 1
              /\ \A k \in 1 .. Len(u) : Append(u, LF)[k] = u[k]
              /\ Append(u, LF)[Len(u) + 1] = LF
            BY <1>0
        <3> QED BY <1>0, <2>2, <3>1
    <2> QED BY <2>1, <2>2
<1> HIDE DEF s, m, l
<1>3. /\ F \in [0 .. l -> ScanState]
      /\ F[0] = [key |-> <<>>, value |-> <<>>, is_key |-> TRUE, next |-> FALSE]
      /\ \A i \in 1 .. l : F[i] = ScanCharacter(F[i - 1], line[i])
    BY <1>2, ScanLineDef DEF l
<1>4. m <= l /\ m <= Len(u)
    BY <1>0, <1>1, <1>2
<1>5. \A k \in 1 .. m : line[k] = s[k] /\ s[k] # LF /\ s[k] # Hash
    <2> SUFFICES ASSUME NEW k \in 1 .. m PROVE line[k] = s[k] /\ s[k] # LF /\ s[k] # Hash
        OBVIOUS
    <2>1. k \in 1 .. Len(u) /\ 1 + k - 1 = k
        BY <1>0, <1>1, <1>4
    <2> QED BY <1>1, <1>2, <2>1
<1> HIDE DEF F
<1>6. ScanAt(s, F[m], m) => after(m)
    BY <1>1 DEF ScanAt, Pick, m
<1>7. 0 \in T
    <2>1. /\ F[0].key = <<>> /\ F[0].value = <<>> /\ F[0].is_key = TRUE /\ F[0].next = FALSE
        BY <1>3
    <2>2. Kept(s, KeySet(s))[0] = <<>> /\ Kept(s, ValueSet(s))[0] = <<>>
        BY <1>1, KeptDef
    <2>3. 0 < KeyEnd(s)
        BY <1>1, FirstEquals
    <2>4. ScanAt(s, F[0], 0)
        BY <2>1, <2>2, <2>3 DEF ScanAt
    <2>5. 0 \in 0 .. l /\ (0 >= m => m = 0)
        BY <1>1, <1>2
    <2> HIDE DEF after
    <2> QED BY <1>6, <2>4, <2>5
<1>8. ASSUME NEW i \in 0 .. l - 1, i \in T PROVE i + 1 \in T
    <2> DEFINE n == i + 1
    <2>1. n \in 1 .. l /\ n \in 0 .. l /\ n - 1 = i /\ i \in 0 .. l /\ i \in Nat /\ n \in Nat
        BY <1>2
    <2>2. F[n] = ScanCharacter(F[i], line[n]) /\ F[i] \in ScanState
        BY <1>3, <2>1
    <2>3. CASE i < m
        <3>1. n \in 1 .. m /\ n \in 1 .. Len(s) /\ i <= m
            BY <1>1, <2>1, <2>3 DEF m
        <3> HIDE DEF n
        <3>2. ScanAt(s, F[i], n - 1)
            BY <1>8, <2>1, <3>1
        <3> DEFINE st == F[i]
        <3>3. st \in ScanState /\ ScanAt(s, st, n - 1) /\ OneEquals(s)
            BY <2>2, <3>2 DEF s
        <3> HIDE DEF st
        <3>4. s[n] # LF /\ s[n] # Hash /\ line[n] = s[n]
            BY <1>5, <3>1
        <3>5. ScanAt(s, ScanCharacter(st, s[n]), n)
            BY <1>1, <3>1, <3>3, <3>4, ScanStep
        <3>6. ScanAt(s, F[n], n)
            BY <2>2, <3>4, <3>5 DEF st
        <3>7. n >= m => n = m
            BY <1>1, <2>1, <3>1
        <3> HIDE DEF after
        <3>8. n \in T
            BY <1>6, <2>1, <3>6, <3>7
        <3> QED BY <3>8 DEF n
    <2>4. CASE ~ (i < m)
        <3>1. i >= m /\ n > m /\ ~ (n <= m)
            BY <1>1, <2>1, <2>4
        <3>2. after(i)
            BY <1>8, <3>1
        <3>3. F[i].next \/ line[n] \in {LF, Hash}
            <4>1. CASE i > m
                <5>1. i # l
                    BY <1>2
                <5> QED BY <3>2, <4>1, <5>1
            <4>2. CASE ~ (i > m)
                <5>1. n = 1 + m
                    BY <1>1, <2>1, <3>1, <4>2
                <5>2. CASE n <= Len(u)
                    <6>1. n \in 1 .. Len(u)
                        BY <1>0, <2>1, <5>2
                    <6> QED BY <1>1, <1>2, <5>1, <5>2, <6>1
                <5>3. CASE ~ (n <= Len(u))
                    <6>1. n = l /\ l > Len(u)
                        BY <1>0, <1>2, <2>1, <5>3
                    <6> QED BY <1>2, <6>1
                <5> QED BY <5>2, <5>3
            <4> QED BY <4>1, <4>2
        <3>4. /\ F[n].key = F[i].key /\ F[n].value = F[i].value
              /\ F[i].next \/ line[n] = Hash => F[n].next
            BY <2>2, <3>3, ScanOver
        <3>5. F[n].next \/ n = l
            <4>1. CASE F[i].next \/ line[n] = Hash
                BY <3>4, <4>1
            <4>2. CASE ~ F[i].next /\ line[n] # Hash
                <5>1. line[n] = LF
                    BY <3>3, <4>2
                <5>2. ~ (n \in 1 .. Len(u))
                    BY <1>2, <5>1
                <5> QED BY <1>0, <1>2, <2>1, <5>2
            <4> QED BY <4>1, <4>2
        <3> HIDE DEF n
        <3>6. after(n)
            BY <3>2, <3>4, <3>5
        <3> HIDE DEF after
        <3>7. n \in T
            BY <2>1, <3>1, <3>6
        <3> QED BY <3>7 DEF n
    <2> QED BY <2>3, <2>4
<1>9. 0 .. l \subseteq T
    <2> HIDE DEF T
    <2> QED BY <1>2, <1>7, <1>8, UpToN
<1>10. after(l)
    <2>1. l \in 0 .. l /\ l >= m
        BY <1>1, <1>2, <1>4
    <2> HIDE DEF after
    <2> QED BY <1>9, <2>1
<1> QED BY <1>1, <1>2, <1>4, <1>10 DEF F, l, m, s

\* What a setting's value becomes.
Converted(key, value) == IF key \in IntKeys THEN atoi(value) ELSE value

\* All values of settings.
SettingValues == Seq(Chars) \cup {atoi(v) : v \in Seq(Chars)} \cup {Defaults[k] : k \in Settings}
Conf == [Settings -> SettingValues]

\* A line of the file, by what it says.
LEMMA LoadLineIs ==
    ASSUME NEW file \in Seq(Chars), NEW i \in 1 .. Len(file), NEW conf \in Conf,
           OneEquals(Setting(file, i))
    PROVE  LET key == SaysKey(file, i)
               value == SaysValue(file, i)
           IN /\ value \in Seq(Chars)
              /\ LoadLine(file, i, conf) =
                    IF key \in Settings /\ value # <<>>
                    THEN [conf EXCEPT ![key] = Converted(key, value)] ELSE conf
              /\ LoadLine(file, i, conf) \in Conf
<1> DEFINE u == UpTo(file, i, {LF})
           s == UpTo(u, 1, {Hash})
           line == LineAt(file, i)
           st == ScanLine(line)[Len(line)]
           key == SaysKey(file, i)
           value == SaysValue(file, i)
<1>0. i \in Nat \ {0} /\ i <= Len(file) + 1 /\ 1 \in Nat \ {0}
    OBVIOUS
<1>1. u \in Seq(Chars) /\ \A k \in 1 .. Len(u) : u[k] \notin {LF}
    BY <1>0, UpToChars
<1>2. line \in {u, Append(u, LF)}
    BY DEF LineAt
<1>3. OneEquals(s)
    BY DEF Setting
<1>4. Setting(file, i) = s
    BY DEF Setting
<1> HIDE DEF u, line
<1>5. /\ line \in Seq(Chars) /\ Len(line) >= Len(s) /\ s \in Seq(Chars)
      /\ st.key = Pick(s, KeySet(s)) /\ st.value = Pick(s, ValueSet(s))
    BY <1>1, <1>2, <1>3, ScanLineIs
<1>6. key = Pick(s, KeySet(s))
    <2>1. key = Without(UpTo(s, 1, {"="}), {SP, TAB, CR})
        BY <1>4 DEF SaysKey
    <2> HIDE DEF s
    <2>2. 1 <= Len(s) + 1
        BY <1>5
    <2>3. Without(UpTo(s, 1, {"="}), {SP, TAB, CR}) = Pick(s, Span(s, 1, {"="}, {SP, TAB, CR}))
        BY <1>0, <1>5, <2>2, SpanIs
    <2> QED BY <2>1, <2>3 DEF KeySet, Dropped
<1>7. value = Pick(s, ValueSet(s))
    <2> HIDE DEF s
    <2> DEFINE m == Len(UpTo(s, 1, {"="}))
    <2>1. m \in Nat
        BY <1>0, <1>5, UpToChars
    <2>2. KeyEnd(s) = m + 1
        BY DEF KeyEnd
    <2>3. value = Pick(s, {j \in m + 2 .. Len(s) :
                              s[j] \notin {TAB, CR} /\ \E k \in m + 2 .. j : s[k] \notin {SP, TAB, CR}})
        BY <1>4 DEF SaysValue
    <2> HIDE DEF m
    <2>4. m + 2 = KeyEnd(s) + 1
        BY <2>1, <2>2
    <2>5. {j \in m + 2 .. Len(s) :
              s[j] \notin {TAB, CR} /\ \E k \in m + 2 .. j : s[k] \notin {SP, TAB, CR}} = ValueSet(s)
        BY <2>4 DEF ValueSet, Dropped
    <2> QED BY <2>3, <2>5
<1> HIDE DEF s, key, value
<1>8. value \in Seq(Chars) /\ st.key = key /\ st.value = value
    BY <1>5, <1>6, <1>7, PickTyped
<1>9. value # <<>> => Len(line) > 1
    <2> SUFFICES ASSUME value # <<>> PROVE Len(line) > 1
        OBVIOUS
    <2>1. Len(s) \in 0 .. Len(s) /\ Len(s) \in Nat /\ Len(line) \in Nat
        BY <1>5
    <2>2. ~ NoneIn(ValueSet(s), 1, Len(s))
        BY <1>5, <1>7, <2>1, KeptOutside DEF Pick
    <2>3. PICK j \in 1 .. Len(s) : j \in ValueSet(s)
        BY <2>2 DEF NoneIn
    <2>4. KeyEnd(s) \in Nat /\ KeyEnd(s) > 0
        BY <1>5, FirstEquals
    <2>5. j \in KeyEnd(s) + 1 .. Len(s)
        BY <2>3 DEF ValueSet
    <2> QED BY <1>5, <2>1, <2>4, <2>5
<1>10. LoadLine(file, i, conf) =
          IF Len(line) > 1 /\ st.key # <<>> /\ st.value # <<>>
          THEN config_save_value(st.key, st.value, conf) ELSE conf
    BY DEF LoadLine, line
<1> HIDE DEF st
<1>11. LoadLine(file, i, conf) =
          IF key \in Settings /\ value # <<>>
          THEN [conf EXCEPT ![key] = Converted(key, value)] ELSE conf
    <2>1. <<>> \notin Settings
        BY ConfigAssumption
    <2>2. CASE key \in Settings /\ value # <<>>
        <3>1. LoadLine(file, i, conf) = config_save_value(key, value, conf)
            BY <1>8, <1>9, <1>10, <2>1, <2>2
        <3>2. config_save_value(key, value, conf) = [conf EXCEPT ![key] = Converted(key, value)]
            BY <2>2 DEF config_save_value, Converted
        <3> QED BY <2>2, <3>1, <3>2
    <2>3. CASE ~ (key \in Settings /\ value # <<>>)
        BY <1>8, <1>10, <2>3 DEF config_save_value
    <2> QED BY <2>2, <2>3
<1>12. LoadLine(file, i, conf) \in Conf
    <2> DEFINE x == Converted(key, value)
    <2>1. x \in SettingValues
        BY <1>8 DEF SettingValues, Converted
    <2> HIDE DEF x
    <2>2. key \in Settings => [conf EXCEPT ![key] = x] \in Conf
        BY <2>1 DEF Conf
    <2> QED BY <1>11, <2>2 DEF x
<1> QED BY <1>8, <1>11, <1>12 DEF key, value

Plain(file) == \A i \in LineStarts(file) : OneEquals(Setting(file, i))

\* What Loaded computes, line by line.
LEMMA LoadedDef ==
    ASSUME NEW file \in Seq(Chars), Plain(file), NEW conf \in Conf
    PROVE  LET F == Loaded(file, conf)
           IN /\ F \in [0 .. Len(file) -> Conf]
              /\ F[0] = conf
              /\ \A i \in 1 .. Len(file) : F[i] =
                    IF i \in LineStarts(file) THEN LoadLine(file, i, F[i - 1]) ELSE F[i - 1]
<1> DEFINE n == Len(file)
           S == Conf
           base == conf
           step(i, c) == IF i \in LineStarts(file) THEN LoadLine(file, i, c) ELSE c
           g == [i \in 1 .. n |-> [c \in S |-> step(i, c)]]
           F == CHOOSE f : f = [i \in 0 .. n |-> IF i = 0 THEN base ELSE step(i, f[i - 1])]
<1>0. n \in Nat
    OBVIOUS
<1>1. base \in S
    OBVIOUS
<1>2. ASSUME NEW i \in 1 .. n, NEW c \in S PROVE step(i, c) \in S
    BY LoadLineIs DEF Plain
<1>3. PICK f : Computes(f, n, S, base, g)
    <2>1. g \in [1 .. n -> [S -> S]]
        <3> HIDE DEF step, S, n
        <3> QED BY <1>2
    <2> HIDE DEF g, S, base, n
    <2> QED BY <1>0, <1>1, <2>1, Recursion
<1> HIDE DEF S, step, n, base
<1>4. /\ f \in [0 .. n -> S] /\ f[0] = base
      /\ \A i \in 1 .. n : f[i] = step(i, f[i - 1])
    <2>1. f \in [0 .. n -> S] /\ f[0] = base /\ \A i \in 1 .. n : f[i] = g[i][f[i - 1]]
        BY <1>3 DEF Computes
    <2>2. \A i \in 1 .. n : f[i - 1] \in S
        BY <1>0, <2>1
    <2> QED BY <2>1, <2>2
<1>5. \A i \in 0 .. n : i # 0 => i \in 1 .. n
    BY <1>0
<1>6. f = [i \in 0 .. n |-> IF i = 0 THEN base ELSE step(i, f[i - 1])]
    <2>1. \A i \in 0 .. n : f[i] = IF i = 0 THEN base ELSE step(i, f[i - 1])
        BY <1>4, <1>5
    <2> QED BY <1>4, <2>1
<1>7. F = [i \in 0 .. n |-> IF i = 0 THEN base ELSE step(i, F[i - 1])]
    BY <1>6
<1>8. Loaded(file, conf) = F
    BY DEF Loaded, step, n, base
<1> HIDE DEF F
<1>9. 0 \in 0 .. n /\ \A i \in 1 .. n : i \in 0 .. n /\ i # 0
    BY <1>0
<1>10. F[0] = base /\ \A i \in 1 .. n : F[i] = step(i, F[i - 1])
    BY <1>7, <1>9
<1>11. F[0] \in S /\ \A i \in 1 .. n : F[i - 1] \in S => F[i] \in S
    BY <1>1, <1>2, <1>10
<1>12. \A i \in 0 .. n : F[i] \in S
    BY <1>0, <1>11, Stays
<1>13. F \in [0 .. n -> Conf]
    BY <1>7, <1>12 DEF S
<1> QED BY <1>8, <1>10, <1>13 DEF n, base, step

\* The lines that set a key, and the last of them among the first n characters.
SettingLines(file, key) ==
    {i \in LineStarts(file) : SaysKey(file, i) = key /\ SaysValue(file, i) # <<>>}
LastLine(file, key, j, n) ==
    j \in SettingLines(file, key) /\ j <= n /\ \A h \in SettingLines(file, key) : h <= n => h <= j

\* A setting after the lines that begin among the first n characters.
SettingAt(file, conf, key, value, n) ==
    /\ (\A j \in SettingLines(file, key) : j > n) => value = conf[key]
    /\ \A j \in SettingLines(file, key) :
          LastLine(file, key, j, n) => value = Converted(key, SaysValue(file, j))

\* The last line for a key decides.
LEMMA LoadedIs ==
    ASSUME NEW file \in Seq(Chars), Plain(file), NEW conf \in Conf, NEW key \in Settings
    PROVE  SettingAt(file, conf, key, config_load(file, conf)[key], Len(file))
<1> DEFINE m == Len(file)
           F == Loaded(file, conf)
           L == SettingLines(file, key)
           T == {n \in 0 .. m : SettingAt(file, conf, key, F[n][key], n)}
<1>0. m \in Nat
    OBVIOUS
<1>1. /\ F \in [0 .. m -> Conf] /\ F[0] = conf
      /\ \A i \in 1 .. m : F[i] =
            IF i \in LineStarts(file) THEN LoadLine(file, i, F[i - 1]) ELSE F[i - 1]
    BY LoadedDef
<1>2. \A j \in L : j \in 1 .. m /\ j \in Nat /\ j > 0
    BY DEF SettingLines, LineStarts
<1> HIDE DEF F, m
<1>3. 0 \in T
    <2>1. \A j \in L : ~ (j <= 0)
        BY <1>2
    <2>2. SettingAt(file, conf, key, F[0][key], 0)
        BY <1>1, <2>1 DEF SettingAt, LastLine
    <2>3. 0 \in 0 .. m
        BY <1>0
    <2> QED BY <2>2, <2>3
<1>4. ASSUME NEW i \in 0 .. m - 1, i \in T PROVE i + 1 \in T
    <2> DEFINE n == i + 1
               c == F[i]
    <2>1. n \in 1 .. m /\ n \in 0 .. m /\ n - 1 = i /\ i \in 0 .. m /\ i \in Nat /\ n \in Nat
        BY <1>0
    <2>2. c \in Conf /\ F[n] = IF n \in LineStarts(file) THEN LoadLine(file, n, c) ELSE c
        BY <1>1, <2>1
    <2>3. SettingAt(file, conf, key, c[key], i)
        BY <1>4
    <2>4. \A j \in L : (j > n => j > i) /\ (j # n => (j <= n <=> j <= i))
        BY <1>2, <2>1
    <2> HIDE DEF c, n
    <2>5. CASE n \in L
        <3> DEFINE v == SaysValue(file, n)
        <3>1. n \in LineStarts(file) /\ SaysKey(file, n) = key /\ v # <<>> /\ OneEquals(Setting(file, n))
            BY <2>5 DEF SettingLines, Plain
        <3>2. n \in 1 .. Len(file)
            BY <2>1 DEF m
        <3>3. LoadLine(file, n, c) = [c EXCEPT ![key] = Converted(key, v)]
            BY <2>2, <3>1, <3>2, LoadLineIs
        <3> DEFINE x == Converted(key, v)
        <3> HIDE DEF v, x
        <3>4. F[n][key] = x
            <4>1. F[n] = [c EXCEPT ![key] = x]
                BY <2>2, <3>1, <3>3 DEF x
            <4> QED BY <2>2, <4>1 DEF Conf
        <3>5. \A j \in L : LastLine(file, key, j, n) => j = n
            <4> SUFFICES ASSUME NEW j \in L, LastLine(file, key, j, n) PROVE j = n
                OBVIOUS
            <4>1. j <= n /\ n <= j
                <5>1. n <= n
                    BY <2>1
                <5> QED BY <2>5, <5>1 DEF LastLine
            <4> QED BY <1>2, <2>1, <4>1
        <3>6. ~ \A j \in L : j > n
            <4>1. ~ (n > n)
                BY <2>1
            <4> QED BY <2>5, <4>1
        <3>7. SettingAt(file, conf, key, F[n][key], n)
            BY <3>4, <3>5, <3>6 DEF SettingAt, x, v
        <3>8. n \in T
            BY <2>1, <3>7
        <3> QED BY <3>8 DEF n
    <2>6. CASE n \notin L
        <3>1. F[n][key] = c[key]
            <4>1. CASE n \in LineStarts(file)
                <5> DEFINE k == SaysKey(file, n)
                           v == SaysValue(file, n)
                <5>1. n \in 1 .. Len(file) /\ OneEquals(Setting(file, n))
                    BY <2>1, <4>1 DEF m, Plain
                <5>2. LoadLine(file, n, c) = IF k \in Settings /\ v # <<>>
                                             THEN [c EXCEPT ![k] = Converted(k, v)] ELSE c
                    BY <2>2, <5>1, LoadLineIs
                <5>3. ~ (k = key /\ v # <<>>)
                    BY <2>6, <4>1 DEF SettingLines
                <5> DEFINE x == Converted(k, v)
                <5>4. F[n] = IF k \in Settings /\ v # <<>> THEN [c EXCEPT ![k] = x] ELSE c
                    BY <2>2, <4>1, <5>2
                <5> HIDE DEF k, v, x
                <5> QED BY <2>2, <5>3, <5>4 DEF Conf
            <4>2. CASE n \notin LineStarts(file)
                BY <2>2, <4>2
            <4> QED BY <4>1, <4>2
        <3>2. \A j \in L : (j > n => j > i) /\ (j <= n <=> j <= i)
            BY <2>4, <2>6
        <3>3. (\A j \in L : j > n) => \A j \in L : j > i
            BY <3>2
        <3>4. \A j \in L : LastLine(file, key, j, n) => LastLine(file, key, j, i)
            BY <3>2 DEF LastLine
        <3>5. SettingAt(file, conf, key, F[n][key], n)
            BY <2>3, <3>1, <3>3, <3>4 DEF SettingAt
        <3>6. n \in T
            BY <2>1, <3>5
        <3> QED BY <3>6 DEF n
    <2> QED BY <2>5, <2>6
<1>5. 0 .. m \subseteq T
    <2> HIDE DEF T
    <2> QED BY <1>0, <1>3, <1>4, UpToN
<1>6. m \in T
    <2>1. m \in 0 .. m
        BY <1>0
    <2> QED BY <1>5, <2>1
<1>7. SettingAt(file, conf, key, F[m][key], m)
    BY <1>6
<1> QED BY <1>7 DEF F, m, config_load

\* ConfigAgrees in every behaviour: config_load leaves, for every file whose
\* values hold no equals sign, what the last line for each key says.
THEOREM ConfigIsExact == TextSpec => []ConfigAgrees
<1>1. InputsTyped => ConfigAgrees
    <2> SUFFICES ASSUME InputsTyped, job = "config", PlainValues(input), NEW key \in Settings
                 PROVE  config_load(input, Defaults)[key] = RefConfig(input, Defaults, key)
        BY DEF ConfigAgrees, config_load_default
    <2> DEFINE file == input
               new == config_load(file, Defaults)[key]
               L == SettingLines(file, key)
               j == Max(L)
    <2>1. file \in Seq(Chars) /\ Len(file) \in Nat
        BY DEF InputsTyped, TextJobs
    <2>2. Plain(file)
        BY DEF PlainValues, Plain, OneEquals
    <2>3. Defaults \in Conf
        <3> DEFINE D == Defaults
        <3>1. D = [k \in Settings |-> D[k]]
            BY ConfigAssumption
        <3>2. \A k \in Settings : D[k] \in SettingValues
            BY DEF SettingValues
        <3> HIDE DEF D
        <3>3. D \in [Settings -> SettingValues]
            BY <3>1, <3>2
        <3> QED BY <3>3 DEF D, Conf
    <2> HIDE DEF file
    <2>4. SettingAt(file, Defaults, key, new, Len(file))
        BY <2>1, <2>2, <2>3, LoadedIs
    <2>5. RefConfig(file, Defaults, key) =
             IF L = {} THEN Defaults[key] ELSE Converted(key, SaysValue(file, j))
        BY DEF RefConfig, SettingLines, Converted
    <2> HIDE DEF new
    <2>6. CASE L = {}
        BY <2>4, <2>5, <2>6 DEF SettingAt, new, file
    <2>7. CASE L # {}
        <3>1. \A h \in L : h \in 1 .. Len(file) /\ h \in Nat
            BY <2>1 DEF SettingLines, LineStarts
        <3>2. L \subseteq 0 .. Len(file)
            BY <2>1, <3>1
        <3>3. j \in L /\ \A h \in L : j >= h
            <4> HIDE DEF L
            <4> QED BY <2>1, <2>7, <3>2, MaxIn
        <3> HIDE DEF j
        <3>4. LastLine(file, key, j, Len(file))
            <4>1. j <= Len(file)
                BY <2>1, <3>1, <3>3
            <4>2. \A h \in L : h <= j
                BY <3>1, <3>3
            <4> QED BY <3>3, <4>1, <4>2 DEF LastLine
        <3>5. new = Converted(key, SaysValue(file, j))
            BY <2>4, <3>3, <3>4 DEF SettingAt
        <3> QED BY <2>5, <2>7, <3>5 DEF new, file
    <2> QED BY <2>6, <2>7
<1> QED BY <1>1, TextsTyped, PTL

-----------------------------------------------------------------------------
(* The canonical form of a value, and of what the parser makes of it *)

\* The text ends with a word.
EndsInWord(s) == Len(s) > 0 /\ s[Len(s)] \notin Blank

Forms == [value : Seq(Chars), open : Seq(Chars), word : BOOLEAN]

\* All that the reference form of a longer text depends on.
Form(s) == [value |-> RefValue(s), open |-> RefOpen(s), word |-> EndsInWord(s)]

\* The form behind one more character.
Grow(f, c) ==
    IF c \notin Blank THEN [value |-> Append(f.open, c), open |-> Append(f.open, c), word |-> TRUE]
    ELSE IF f.word THEN [value |-> f.value, open |-> Append(f.open, SP), word |-> FALSE]
    ELSE f

\* The reference form and the open form are texts.
LEMMA FormTyped ==
    ASSUME NEW s \in Seq(Chars)
    PROVE  Form(s) \in Forms
<1>1. SP \in Chars
    BY TextsAssumption DEF Blank
<1>2. Worded(s) \in Seq(Chars)
    BY <1>1, WordedAppend
<1>3. RefValue(s) \in Seq(Chars)
    BY <1>2, RefValueIs, PickTyped
<1>4. RefOpen(s) \in Seq(Chars)
    BY <1>2, PickTyped DEF RefOpen
<1>5. EndsInWord(s) \in BOOLEAN
    BY DEF EndsInWord
<1> QED BY <1>3, <1>4, <1>5 DEF Form, Forms

\* The form of a text with one more character.
LEMMA FormAppend ==
    ASSUME NEW s \in Seq(Chars), NEW c \in Chars
    PROVE  Form(Append(s, c)) = Grow(Form(s), c)
<1> DEFINE r == Append(s, c)
           v == RefValue(s)
           o == RefOpen(s)
           w == EndsInWord(s)
<1>1. RefValue(r) = IF c \in Blank THEN v ELSE Append(o, c)
    BY RefValueAppend
<1>2. RefOpen(r) = IF c \notin Blank THEN Append(o, c) ELSE IF w THEN Append(o, SP) ELSE o
    BY RefOpenAppend DEF EndsInWord
<1>3. EndsInWord(r) = (c \notin Blank)
    <2>1. Len(r) = Len(s) + 1 /\ r[Len(s) + 1] = c /\ Len(s) \in Nat
        BY Appending
    <2> HIDE DEF r
    <2> QED BY <2>1 DEF EndsInWord
<1>4. w \in BOOLEAN
    BY DEF EndsInWord
<1>5. /\ Form(r) = [value |-> RefValue(r), open |-> RefOpen(r), word |-> EndsInWord(r)]
      /\ Form(s) = [value |-> v, open |-> o, word |-> w]
    BY DEF Form
<1> DEFINE f == Form(s)
<1>9. f.value = v /\ f.open = o /\ f.word = w
    BY <1>5
<1>10. Grow(f, c) =
          IF c \notin Blank THEN [value |-> Append(o, c), open |-> Append(o, c), word |-> TRUE]
          ELSE IF w THEN [value |-> v, open |-> Append(o, SP), word |-> FALSE] ELSE f
    BY <1>9 DEF Grow
<1> HIDE DEF r, v, o, w, f
<1>6. CASE c \notin Blank
    <2>1. EndsInWord(r) = TRUE /\ RefValue(r) = Append(o, c) /\ RefOpen(r) = Append(o, c)
        BY <1>1, <1>2, <1>3, <1>6
    <2>2. Form(r) = Grow(f, c)
        BY <1>5, <1>6, <1>10, <2>1
    <2> QED BY <2>2 DEF r, f
<1>7. CASE c \in Blank /\ w
    <2>1. EndsInWord(r) = FALSE /\ RefValue(r) = v /\ RefOpen(r) = Append(o, SP)
        BY <1>1, <1>2, <1>3, <1>7
    <2>2. Form(r) = Grow(f, c)
        BY <1>5, <1>7, <1>10, <2>1
    <2> QED BY <2>2 DEF r, f
<1>8. CASE c \in Blank /\ ~ w
    <2>1. EndsInWord(r) = w /\ RefValue(r) = v /\ RefOpen(r) = o
        BY <1>1, <1>2, <1>3, <1>4, <1>8
    <2>2. Form(r) = Grow(f, c)
        BY <1>5, <1>8, <1>10, <2>1 DEF f
    <2> QED BY <2>2 DEF r, f
<1> QED BY <1>6, <1>7, <1>8

\* One blank is as good as another, and a second one changes nothing.
LEMMA GrowBlank ==
    ASSUME NEW f \in Forms, NEW c \in Blank
    PROVE  /\ Grow(f, c) = Grow(f, SP) /\ Grow(f, c) \in Forms
           /\ Grow(Grow(f, SP), c) = Grow(f, SP)
           /\ Grow(f, SP).value = f.value /\ ~ Grow(f, SP).word
           /\ ~ f.word => Grow(f, SP) = f
<1>0. SP \in Blank /\ SP \in Chars
    BY TextsAssumption DEF Blank
<1> DEFINE g == [value |-> f.value, open |-> Append(f.open, SP), word |-> FALSE]
<1>1. f.value \in Seq(Chars) /\ f.open \in Seq(Chars) /\ f.word \in BOOLEAN
    BY DEF Forms
<1>2. Append(f.open, SP) \in Seq(Chars)
    BY <1>0, <1>1
<1>3. g \in Forms /\ g.value = f.value /\ g.word = FALSE
    BY <1>1, <1>2 DEF Forms
<1>4. Grow(f, SP) = (IF f.word THEN g ELSE f) /\ Grow(f, c) = (IF f.word THEN g ELSE f)
    BY <1>0 DEF Grow
<1> HIDE DEF g
<1>5. Grow(g, c) = g
    BY <1>3 DEF Grow
<1> QED BY <1>1, <1>3, <1>4, <1>5

-----------------------------------------------------------------------------
(* The fields of a usual mail *)

\* Where the field that begins at f ends, and where its colon is.
EndOf(text, f) == Min({x \in FieldEnds(text) : x >= f})

ColonOf(text, f) == f + Len(RefKey(text, f))

\* A field from f to e - 1 with its colon at p.
FieldShape(text, f, p, e) ==
    /\ f \in Nat \ {0} /\ p \in Nat /\ e \in Nat
    /\ f < p /\ p + 2 <= e /\ e <= HeaderEnd(text)
    /\ text[e] = CR /\ text[e + 1] = LF
    /\ \A k \in f .. p - 1 : text[k] \notin Blank /\ text[k] # ":"
    /\ text[p] = ":" /\ text[p + 1] = SP
    /\ p - f < KEY_MAX_LEN /\ e - p - 2 < VALUE_MAX_LEN
    /\ RefKey(text, f) = SubSeq(text, f, p - 1)
    /\ RawValue(text, f) = SubSeq(text, p + 1, e - 1)

\* Where a field ends.
LEMMA EndOfIs ==
    ASSUME NEW text \in Seq(Chars), HasBody(text), NEW f \in FieldStarts(text)
    PROVE  LET e == EndOf(text, f)
           IN /\ f \in Nat \ {0} /\ e \in Nat /\ f <= e /\ e <= HeaderEnd(text)
              /\ e \in FieldEnds(text) /\ text[e] = CR /\ text[e + 1] = LF
              /\ \A x \in FieldEnds(text) : x >= f => x >= e
<1> DEFINE end == HeaderEnd(text)
           ends == {x \in FieldEnds(text) : x >= f}
           e == EndOf(text, f)
<1>1. /\ end \in Nat \ {0} /\ end + 3 <= Len(text)
      /\ text[end] = CR /\ text[end + 1] = LF /\ text[end + 2] = CR
    BY HeaderEndIs
<1>2. f \in 1 .. end
    BY DEF FieldStarts
<1>3. e = Min(ends)
    BY DEF EndOf
<1> HIDE DEF end
<1>4. \A x \in FieldEnds(text) : x \in 1 .. end /\ text[x] = CR /\ text[x + 1] = LF
    <2> SUFFICES ASSUME NEW x \in FieldEnds(text)
                 PROVE  x \in 1 .. end /\ text[x] = CR /\ text[x + 1] = LF
        OBVIOUS
    <2>1. x \in 1 .. end /\ At(text, x, CRLF)
        BY DEF FieldEnds, end
    <2>2. x \in Nat \ {0}
        BY <1>1, <2>1
    <2> QED BY <2>1, <2>2, LooksAtChars
<1>5. end \in ends
    <2>1. At(text, end, CRLF)
        BY <1>1, LooksAtChars
    <2>2. end \notin Folds(text)
        BY <1>1 DEF Folds, end
    <2> QED BY <1>1, <1>2, <2>1, <2>2 DEF FieldEnds, end
<1>6. ends \subseteq Nat
    BY <1>1, <1>4
<1>7. e \in ends /\ \A y \in ends : e <= y
    <2> HIDE DEF ends, e
    <2> QED BY <1>3, <1>5, <1>6, MinIn
<1> HIDE DEF e
<1>8. e \in FieldEnds(text) /\ e >= f /\ \A x \in FieldEnds(text) : x >= f => e <= x
    BY <1>7
<1>9. e \in 1 .. end /\ text[e] = CR /\ text[e + 1] = LF
    BY <1>4, <1>8
<1>10. ASSUME NEW x \in FieldEnds(text), x >= f PROVE x >= e
    <2>1. e <= x /\ x \in 1 .. end
        BY <1>4, <1>8, <1>10
    <2> QED BY <1>1, <1>9, <2>1
<1> QED BY <1>1, <1>2, <1>8, <1>9, <1>10 DEF e, end

\* Two characters at a position.
LEMMA TwoChars ==
    ASSUME NEW S, NEW s \in Seq(S), NEW k \in Nat \ {0}, NEW a, NEW b, At(s, k, <<a, b>>)
    PROVE  k + 1 <= Len(s) /\ s[k] = a /\ s[k + 1] = b
<1> DEFINE two == <<a, b>>
<1>1. Len(two) = 2 /\ two[1] = a /\ two[2] = b
    OBVIOUS
<1>2. k + 2 - 1 <= Len(s) /\ SubSeq(s, k, k + 2 - 1) = two
    BY <1>1 DEF At
<1> HIDE DEF two
<1>3. k + 1 <= Len(s) /\ SubSeq(s, k, k + 1) = two /\ k + 1 \in Nat /\ k <= (k + 1) + 1
    BY <1>2
<1>4. \A m \in 1 .. (k + 1) - k + 1 : SubSeq(s, k, k + 1)[m] = s[k + m - 1]
    BY <1>3, PartOf
<1>5. /\ 1 \in 1 .. (k + 1) - k + 1 /\ 2 \in 1 .. (k + 1) - k + 1
      /\ k + 1 - 1 = k /\ k + 2 - 1 = k + 1
    OBVIOUS
<1> QED BY <1>1, <1>3, <1>4, <1>5

\* A part of a part.
LEMMA PartOfPart ==
    ASSUME NEW S, NEW s \in Seq(S), NEW a \in Nat \ {0}, NEW b \in Nat, a <= b + 1, b <= Len(s),
           NEW c \in Nat \ {0}, NEW d \in Nat, c <= d + 1, a + d - 1 <= b
    PROVE  SubSeq(SubSeq(s, a, b), c, d) = SubSeq(s, a + c - 1, a + d - 1)
<1> DEFINE p == SubSeq(s, a, b)
           q == SubSeq(p, c, d)
           r == SubSeq(s, a + c - 1, a + d - 1)
           n == Len(s)
           m == d - c + 1
<1>0. /\ n \in Nat /\ m \in Nat /\ a + c - 1 \in Nat \ {0} /\ a + d - 1 \in Nat
      /\ a + c - 1 <= (a + d - 1) + 1 /\ a + d - 1 <= n /\ (a + d - 1) - (a + c - 1) + 1 = m
      /\ d <= b - a + 1
    OBVIOUS
<1>1. p \in Seq(S) /\ Len(p) = b - a + 1 /\ \A k \in 1 .. b - a + 1 : p[k] = s[a + k - 1]
    BY PartOf
<1>2. r \in Seq(S) /\ Len(r) = m /\ \A k \in 1 .. m : r[k] = s[(a + c - 1) + k - 1]
    <2>1. /\ r \in Seq(S) /\ Len(r) = (a + d - 1) - (a + c - 1) + 1
          /\ \A k \in 1 .. (a + d - 1) - (a + c - 1) + 1 : r[k] = s[(a + c - 1) + k - 1]
        BY <1>0, PartOf
    <2> HIDE DEF r, m
    <2> QED BY <1>0, <2>1
<1> HIDE DEF p
<1>3. q \in Seq(S) /\ Len(q) = m /\ \A k \in 1 .. m : q[k] = p[c + k - 1]
    <2>1. p \in Seq(S) /\ d <= Len(p)
        BY <1>0, <1>1
    <2>2. /\ q \in Seq(S) /\ Len(q) = d - c + 1
          /\ \A k \in 1 .. d - c + 1 : q[k] = p[c + k - 1]
        BY <2>1
    <2> HIDE DEF q
    <2> QED BY <2>2
<1> HIDE DEF q, r
<1>4. ASSUME NEW k \in 1 .. m PROVE q[k] = r[k]
    <2>1. c + k - 1 \in 1 .. b - a + 1 /\ a + (c + k - 1) - 1 = (a + c - 1) + k - 1
        BY <1>0
    <2> QED BY <1>1, <1>2, <1>3, <2>1
<1> HIDE DEF m
<1>5. q = r
    <2>1. q \in Seq(S) /\ r \in Seq(S) /\ Len(q) = Len(r) /\ \A k \in 1 .. Len(q) : q[k] = r[k]
        BY <1>2, <1>3, <1>4
    <2> QED BY <2>1, SameSeq
<1> QED BY <1>5 DEF p, q, r

\* Every field of a usual mail has a name, a colon and a space.
LEMMA FieldShaped ==
    ASSUME NEW text \in Seq(Chars), UsualMail(text), NEW f \in FieldStarts(text)
    PROVE  FieldShape(text, f, ColonOf(text, f), EndOf(text, f))
<1> DEFINE e == EndOf(text, f)
           field == FieldText(text, f)
           name == RefKey(text, f)
           n == Len(name)
           p == ColonOf(text, f)
           end == HeaderEnd(text)
<1>0. HasBody(text) /\ UsualField(field)
    BY DEF UsualMail
<1>1. /\ f \in Nat \ {0} /\ e \in Nat /\ f <= e /\ e <= end
      /\ e \in FieldEnds(text) /\ text[e] = CR /\ text[e + 1] = LF
    BY <1>0, EndOfIs
<1>2. end \in Nat \ {0} /\ end + 3 <= Len(text)
    BY <1>0, HeaderEndIs
<1>3. /\ field = SubSeq(text, f, e - 1) /\ name = UpTo(field, 1, {":"}) /\ p = f + n
      /\ RawValue(text, f) = SubSeq(field, n + 2, Len(field))
    BY DEF FieldText, EndOf, RefKey, ColonOf, RawValue
<1>4. /\ n \in 1 .. KEY_MAX_LEN - 1
      /\ \A i \in DOMAIN name : name[i] \notin Blank
      /\ At(field, n + 1, <<":", SP>>)
      /\ Len(field) - n - 2 < VALUE_MAX_LEN
    BY <1>0, <1>3 DEF UsualField
<1> HIDE DEF e, field, name, n, p, end
<1>5. /\ field \in Seq(Chars) /\ Len(field) = e - f
      /\ \A k \in 1 .. e - f : field[k] = text[f + k - 1]
    <2>1. f <= (e - 1) + 1 /\ e - 1 \in Nat /\ e - 1 <= Len(text) /\ (e - 1) - f + 1 = e - f
        BY <1>1, <1>2
    <2>2. /\ SubSeq(text, f, e - 1) \in Seq(Chars)
          /\ Len(SubSeq(text, f, e - 1)) = (e - 1) - f + 1
          /\ \A k \in 1 .. (e - 1) - f + 1 : SubSeq(text, f, e - 1)[k] = text[f + k - 1]
        BY <1>1, <2>1, PartOf
    <2> QED BY <1>3, <2>1, <2>2
<1>6. /\ name \in Seq(Chars) /\ Len(name) \in Nat /\ Len(name) <= Len(field)
      /\ \A k \in 1 .. Len(name) : name[k] = field[k] /\ name[k] # ":"
    <2>1. field \in Seq(Chars) /\ 1 \in Nat \ {0} /\ 1 <= Len(field) + 1
        BY <1>5
    <2>2. /\ name \in Seq(Chars) /\ Len(name) \in Nat /\ 1 + Len(name) <= Len(field) + 1
          /\ \A k \in 1 .. Len(name) : name[k] = field[1 + k - 1] /\ name[k] \notin {":"}
        <3> DEFINE q == UpTo(field, 1, {":"})
        <3>1. /\ q \in Seq(Chars) /\ Len(q) \in Nat /\ 1 + Len(q) <= Len(field) + 1
              /\ \A k \in 1 .. Len(q) : q[k] = field[1 + k - 1] /\ q[k] \notin {":"}
            BY <2>1, UpToChars
        <3>2. name = q
            BY <1>3
        <3> HIDE DEF q
        <3> QED BY <3>1, <3>2
    <2>3. \A k \in 1 .. Len(name) : 1 + k - 1 = k
        BY <2>2
    <2> QED BY <2>1, <2>2, <2>3
<1>7. n \in Nat \ {0} /\ n < KEY_MAX_LEN /\ KEY_MAX_LEN \in Nat
    BY <1>4, ParserAssumption
<1>8. (n + 1) + 1 <= Len(field) /\ field[n + 1] = ":" /\ field[(n + 1) + 1] = SP
    <2>1. n + 1 \in Nat \ {0} /\ field \in Seq(Chars)
        BY <1>5, <1>7
    <2> QED BY <1>4, <2>1, TwoChars
<1>9. p \in Nat /\ f < p /\ p + 2 <= e /\ p - f < KEY_MAX_LEN /\ e - p - 2 < VALUE_MAX_LEN
    BY <1>1, <1>3, <1>4, <1>5, <1>7, <1>8
<1>10. text[p] = ":" /\ text[p + 1] = SP
    <2>1. /\ n + 1 \in 1 .. e - f /\ (n + 1) + 1 \in 1 .. e - f
          /\ f + (n + 1) - 1 = p /\ f + ((n + 1) + 1) - 1 = p + 1
        BY <1>1, <1>3, <1>5, <1>7, <1>8
    <2> QED BY <1>5, <1>8, <2>1
<1>11. ASSUME NEW k \in f .. p - 1 PROVE text[k] \notin Blank /\ text[k] # ":"
    <2> DEFINE j == k - f + 1
    <2>1. j \in 1 .. n /\ f + j - 1 = k /\ j \in 1 .. e - f
        BY <1>1, <1>3, <1>7, <1>9
    <2>2. j \in DOMAIN name
        BY <1>6, <2>1 DEF n
    <2> HIDE DEF j
    <2>3. name[j] = field[j] /\ name[j] # ":" /\ name[j] \notin Blank /\ field[j] = text[k]
        BY <1>4, <1>5, <1>6, <2>1, <2>2 DEF n
    <2> QED BY <2>3
<1>12. name = SubSeq(text, f, p - 1)
    <2> DEFINE q == SubSeq(text, f, p - 1)
    <2>1. f <= (p - 1) + 1 /\ p - 1 \in Nat /\ p - 1 <= Len(text) /\ (p - 1) - f + 1 = n
        BY <1>1, <1>2, <1>3, <1>7, <1>9
    <2>2. /\ q \in Seq(Chars) /\ Len(q) = (p - 1) - f + 1
          /\ \A k \in 1 .. (p - 1) - f + 1 : q[k] = text[f + k - 1]
        BY <1>1, <2>1, PartOf
    <2> HIDE DEF q
    <2>3. ASSUME NEW k \in 1 .. n PROVE name[k] = q[k]
        <3>1. k \in 1 .. e - f
            BY <1>1, <1>5, <1>6, <1>7 DEF n
        <3> QED BY <1>5, <1>6, <2>1, <2>2, <3>1 DEF n
    <2>4. Len(name) = Len(q) /\ \A k \in 1 .. Len(name) : name[k] = q[k]
        BY <2>1, <2>2, <2>3 DEF n
    <2>5. name = q
        BY <1>6, <2>2, <2>4, SameSeq
    <2> QED BY <2>5 DEF q
<1>13. RawValue(text, f) = SubSeq(text, p + 1, e - 1)
    <2> DEFINE b == e - 1
               c == n + 2
               d == e - f
    <2>1. /\ b \in Nat /\ c \in Nat \ {0} /\ d \in Nat /\ f <= b + 1 /\ b <= Len(text)
          /\ c <= d + 1 /\ f + d - 1 <= b /\ f + c - 1 = p + 1 /\ f + d - 1 = b
        BY <1>1, <1>2, <1>3, <1>7, <1>9
    <2> HIDE DEF b, c, d
    <2>2. SubSeq(SubSeq(text, f, b), c, d) = SubSeq(text, f + c - 1, f + d - 1)
        BY <1>1, <2>1, PartOfPart
    <2>3. SubSeq(SubSeq(text, f, b), c, d) = SubSeq(text, p + 1, b)
        BY <2>1, <2>2
    <2> QED BY <1>3, <1>5, <2>3 DEF b, c, d
<1> QED BY <1>1, <1>9, <1>10, <1>11, <1>12, <1>13 DEF FieldShape, e, name, p, end

\* A fold of a usual mail.
LEMMA FoldShaped ==
    ASSUME NEW text \in Seq(Chars), UsualMail(text), NEW x \in Folds(text)
    PROVE  /\ x \in Nat \ {0} /\ x < HeaderEnd(text)
           /\ text[x] = CR /\ text[x + 1] = LF /\ text[x + 2] \in WSP
           /\ (x > 1 /\ text[x - 1] \in WSP) \/ text[x + 3] \in WSP
<1>1. HasBody(text) /\ WideFold(text, x)
    BY DEF UsualMail
<1>2. HeaderEnd(text) \in Nat \ {0}
    BY <1>1, HeaderEndIs
<1>3. x \in 1 .. HeaderEnd(text) - 1 /\ At(text, x, CRLF) /\ text[x + 2] \in WSP
    BY DEF Folds
<1>4. x \in Nat \ {0} /\ x < HeaderEnd(text)
    BY <1>2, <1>3
<1> QED BY <1>1, <1>3, <1>4, LooksAtChars DEF WideFold

\* Position k is one of the three that the parser takes away with a fold.
InFold(text, k) == \E x \in Folds(text) : k = x \/ k = x + 1 \/ k = x + 2

\* A line break inside a field is that of a fold.
LEMMA BreakFolds ==
    ASSUME NEW text \in Seq(Chars), UsualMail(text), NEW f \in FieldStarts(text),
           NEW k \in Nat, f <= k, k < EndOf(text, f), text[k] \in {CR, LF}
    PROVE  InFold(text, k)
<1> DEFINE e == EndOf(text, f)
           p == ColonOf(text, f)
           end == HeaderEnd(text)
<1>0. /\ HasBody(text) /\ NoBareCR(text)
      /\ \A i \in 1 .. end : text[i] = LF => i > 1 /\ text[i - 1] = CR
    BY DEF UsualMail
<1>1. /\ f \in Nat \ {0} /\ e \in Nat /\ e <= end
      /\ \A x \in FieldEnds(text) : x >= f => x >= e
    BY <1>0, EndOfIs
<1>2. end \in Nat \ {0} /\ end + 3 <= Len(text)
    BY <1>0, HeaderEndIs
<1>3. f < p /\ p \in Nat /\ \A j \in f .. p - 1 : text[j] \notin Blank
    BY FieldShaped DEF FieldShape
<1> HIDE DEF e, p, end
<1>4. ASSUME NEW j \in Nat, f <= j, j < e, text[j] = CR PROVE j \in Folds(text)
    <2>1. j \in DOMAIN text /\ j \in 1 .. HeaderEnd(text)
        BY <1>1, <1>2, <1>4 DEF end
    <2>2. At(text, j, CRLF)
        BY <1>0, <1>4, <2>1 DEF NoBareCR
    <2>3. j \notin FieldEnds(text)
        BY <1>1, <1>4
    <2> QED BY <2>1, <2>2, <2>3 DEF FieldEnds
<1>5. k < e
    BY DEF e
<1>6. CASE text[k] = CR
    BY <1>4, <1>5, <1>6 DEF InFold
<1>7. CASE text[k] = LF
    <2>1. k \in 1 .. end
        BY <1>1, <1>2, <1>5
    <2>2. k > 1 /\ text[k - 1] = CR
        BY <1>0, <1>7, <2>1
    <2>3. k # f
        <3>1. f \in f .. p - 1 /\ LF \in Blank
            BY <1>1, <1>3 DEF Blank
        <3> QED BY <1>3, <1>7, <3>1
    <2>4. k - 1 \in Nat /\ f <= k - 1 /\ k - 1 < e /\ (k - 1) + 1 = k
        BY <1>1, <1>5, <2>1, <2>2, <2>3
    <2>5. k - 1 \in Folds(text)
        BY <1>4, <2>2, <2>4
    <2> QED BY <2>4, <2>5 DEF InFold
<1> QED BY <1>6, <1>7

\* What the parser keeps of the value of the field that begins at f.
FieldKept(text, f) ==
    {k \in Nat : k >= ColonOf(text, f) + 2 /\ k < EndOf(text, f) /\ ~ InFold(text, k)}

FieldValue(text, f) == Pick(text, FieldKept(text, f))

\* A fold leaves f where it finds it, or waits for the white space that follows.
Awaited(text, k) ==
    \E x \in Folds(text) : text[x + 3] \in WSP /\ (k = x \/ k = x + 1 \/ k = x + 2)

Follows(text, k, raw, got) ==
    \/ raw = got
    \/ got.word /\ raw = Grow(got, SP) /\ Awaited(text, k)

\* One more character of the value keeps the two forms together.
LEMMA FollowsMore ==
    ASSUME NEW text \in Seq(Chars), UsualMail(text), NEW f \in FieldStarts(text),
           NEW k \in Nat, k >= ColonOf(text, f) + 1, k + 1 < EndOf(text, f),
           NEW raw \in Forms, NEW got \in Forms, Follows(text, k, raw, got),
           raw.word <=> text[k] \notin Blank
    PROVE  LET c == text[k + 1]
           IN Follows(text, k + 1, Grow(raw, c),
                      IF k + 1 \in FieldKept(text, f) THEN Grow(got, c) ELSE got)
<1> DEFINE c == text[k + 1]
           e == EndOf(text, f)
<1>0. /\ WSP \subseteq Blank /\ CR \in Blank /\ LF \in Blank /\ CR \notin WSP /\ LF \notin WSP
      /\ CR # LF /\ SP \in Blank
    BY DEF WSP, Blank, SP, TAB, CR, LF
<1>1. k + 1 >= ColonOf(text, f) + 2 /\ k + 1 \in Nat
    BY FieldShaped DEF FieldShape
<1>2. \A x \in Folds(text) :
          /\ x \in Nat \ {0}
          /\ text[x] = CR /\ text[x + 1] = LF /\ text[x + 2] \in WSP
          /\ (x > 1 /\ text[x - 1] \in WSP) \/ text[x + 3] \in WSP
    BY FoldShaped
<1>3. k + 1 \in FieldKept(text, f) <=> ~ InFold(text, k + 1)
    BY <1>1 DEF FieldKept
<1>4. \A b \in Blank : /\ Grow(got, b) = Grow(got, SP)
                       /\ Grow(Grow(got, SP), b) = Grow(got, SP)
                       /\ ~ Grow(got, SP).word
                       /\ ~ got.word => Grow(got, b) = got
    BY GrowBlank
<1> HIDE DEF c, e
<1>5. CASE InFold(text, k + 1)
    <2>1. PICK x \in Folds(text) : k + 1 = x \/ k + 1 = x + 1 \/ k + 1 = x + 2
        BY <1>5 DEF InFold
    <2>2. c \in Blank
        BY <1>0, <1>2, <2>1 DEF c
    <2> SUFFICES Follows(text, k + 1, Grow(raw, c), got)
        BY <1>3, <1>5 DEF c
    <2>3. CASE raw = got /\ ~ got.word
        <3>1. Grow(raw, c) = got
            BY <1>4, <2>2, <2>3
        <3> QED BY <3>1 DEF Follows
    <2>4. CASE raw = got /\ got.word
        <3>1. text[k] \notin Blank
            BY <2>4
        <3>2. k # x /\ k # x + 1
            BY <1>0, <1>2, <3>1
        <3>3. k + 1 = x /\ x - 1 = k
            BY <1>2, <2>1, <3>2
        <3>4. text[x + 3] \in WSP
            BY <1>0, <1>2, <3>1, <3>3
        <3>5. Awaited(text, k + 1)
            BY <3>3, <3>4 DEF Awaited
        <3>6. Grow(raw, c) = Grow(got, SP)
            BY <1>4, <2>2, <2>4
        <3> QED BY <2>4, <3>5, <3>6 DEF Follows
    <2>5. CASE got.word /\ raw = Grow(got, SP) /\ Awaited(text, k)
        <3>1. PICK y \in Folds(text) : text[y + 3] \in WSP /\ (k = y \/ k = y + 1 \/ k = y + 2)
            BY <2>5 DEF Awaited
        <3>2. k # y + 2
            <4> SUFFICES ASSUME k = y + 2 PROVE FALSE
                OBVIOUS
            <4>1. c \in WSP
                <5>1. k + 1 = y + 3
                    BY <1>2
                <5> QED BY <3>1, <5>1 DEF c
            <4>2. k + 1 = x + 2
                BY <1>0, <1>2, <2>1, <4>1 DEF c
            <4>3. x = y + 1
                BY <1>2, <4>2
            <4> QED BY <1>0, <1>2, <4>3
        <3>3. k + 1 = y + 1 \/ k + 1 = y + 2
            BY <1>2, <3>1, <3>2
        <3>4. Awaited(text, k + 1)
            BY <3>1, <3>3 DEF Awaited
        <3>5. Grow(raw, c) = Grow(got, SP)
            BY <1>4, <2>2, <2>5
        <3> QED BY <2>5, <3>4, <3>5 DEF Follows
    <2> QED BY <2>3, <2>4, <2>5 DEF Follows
<1>6. CASE ~ InFold(text, k + 1)
    <2> SUFFICES Follows(text, k + 1, Grow(raw, c), Grow(got, c))
        BY <1>3, <1>6 DEF c
    <2>1. CASE raw = got
        BY <2>1 DEF Follows
    <2>2. CASE got.word /\ raw = Grow(got, SP) /\ Awaited(text, k)
        <3>1. PICK y \in Folds(text) : text[y + 3] \in WSP /\ (k = y \/ k = y + 1 \/ k = y + 2)
            BY <2>2 DEF Awaited
        <3>2. k + 1 = y + 3
            <4>1. k # y /\ k # y + 1
                <5>1. (k = y => k + 1 = y + 1) /\ (k = y + 1 => k + 1 = y + 2)
                    BY <1>2
                <5> QED BY <1>6, <5>1 DEF InFold
            <4> QED BY <1>2, <3>1, <4>1
        <3>3. c \in Blank
            BY <1>0, <3>1, <3>2 DEF c
        <3>4. Grow(raw, c) = Grow(got, c)
            BY <1>4, <2>2, <3>3
        <3> QED BY <3>4 DEF Follows
    <2> QED BY <2>1, <2>2 DEF Follows
<1> QED BY <1>5, <1>6

\* What is kept has only characters that stand at kept positions.
LEMMA KeptWithin ==
    ASSUME NEW S, NEW s \in Seq(S), NEW T, NEW D, \A i \in 1 .. Len(s) : i \in T => s[i] \in D,
           NEW k \in 0 .. Len(s)
    PROVE  Kept(s, T)[k] \in Seq(D)
<1> DEFINE F == Kept(s, T)
           n == Len(s)
           Q == Seq(D)
<1>1. /\ F[0] = <<>>
      /\ \A i \in 1 .. n : F[i] = IF i \in T THEN Append(F[i - 1], s[i]) ELSE F[i - 1]
    BY KeptDef
<1>2. n \in Nat /\ \A i \in 1 .. n : i \in T => s[i] \in D
    OBVIOUS
<1> HIDE DEF F, n
<1>3. F[0] \in Q
    BY <1>1
<1>4. ASSUME NEW i \in 1 .. n, F[i - 1] \in Q PROVE F[i] \in Q
    <2> DEFINE g == F[i - 1]
    <2>1. g \in Seq(D) /\ F[i] = IF i \in T THEN Append(g, s[i]) ELSE g
        BY <1>1, <1>4
    <2>2. i \in T => s[i] \in D
        BY <1>2
    <2> HIDE DEF g
    <2> QED BY <2>1, <2>2
<1> HIDE DEF Q
<1>5. \A i \in 0 .. n : F[i] \in Q
    BY <1>2, <1>3, <1>4, Stays
<1> QED BY <1>5 DEF Q, F, n

\* The value that the parser makes has no line break left.
LEMMA ValueUnfolded ==
    ASSUME NEW text \in Seq(Chars), UsualMail(text), NEW f \in FieldStarts(text)
    PROVE  FieldValue(text, f) \in Seq(Chars) /\ Folded(FieldValue(text, f))
<1> DEFINE T == FieldKept(text, f)
           D == Chars \ {CR, LF}
           v == FieldValue(text, f)
           n == Len(text)
<1>0. n \in Nat
    OBVIOUS
<1>1. f < ColonOf(text, f) /\ f \in Nat /\ ColonOf(text, f) \in Nat
    BY FieldShaped DEF FieldShape
<1>2. ASSUME NEW i \in 1 .. n, i \in T PROVE text[i] \in D
    <2>1. text[i] \in Chars
        OBVIOUS
    <2>2. i \in Nat /\ i >= ColonOf(text, f) + 2 /\ i < EndOf(text, f) /\ ~ InFold(text, i)
        BY <1>2 DEF FieldKept
    <2>3. f <= i
        BY <1>1, <2>2
    <2> QED BY <2>1, <2>2, <2>3, BreakFolds
<1>3. v = Kept(text, T)[n]
    BY DEF FieldValue, Pick
<1>4. v \in Seq(D)
    <2> HIDE DEF T, D, v
    <2>1. n \in 0 .. Len(text) /\ \A i \in 1 .. Len(text) : i \in T => text[i] \in D
        BY <1>0, <1>2
    <2>2. Kept(text, T)[n] \in Seq(D)
        BY <2>1, KeptWithin
    <2> QED BY <1>3, <2>2
<1> HIDE DEF v, n, T
<1>5. \A i \in DOMAIN v : v[i] \notin {CR, LF}
    BY <1>4
<1>6. Folded(v)
    BY <1>5 DEF Folded
<1>7. v \in Seq(Chars)
    BY <1>4
<1> QED BY <1>6, <1>7 DEF v

\* The value of a field has, after the parser, the canonical form of what was
\* sent.
LEMMA ValueArrives ==
    ASSUME NEW text \in Seq(Chars), UsualMail(text), NEW f \in FieldStarts(text)
    PROVE  CanonValue(FieldValue(text, f)) = RefValue(RawValue(text, f))
<1> DEFINE p == ColonOf(text, f)
           e == EndOf(text, f)
           a == p + 1
           m == e - p - 2
           n == Len(text)
           T == FieldKept(text, f)
           K == Kept(text, T)
           R(k) == SubSeq(text, a, k)
           U == {i \in 0 .. m : Follows(text, a + i, Form(R(a + i)), Form(K[a + i]))}
<1>1. /\ p \in Nat /\ e \in Nat /\ p + 2 <= e /\ e <= HeaderEnd(text) /\ text[p + 1] = SP
      /\ RawValue(text, f) = R(e - 1)
    BY FieldShaped DEF FieldShape
<1>2. HeaderEnd(text) \in Nat /\ HeaderEnd(text) + 3 <= n /\ n \in Nat
    <2>1. HasBody(text)
        BY DEF UsualMail
    <2> QED BY <2>1, HeaderEndIs
<1>3. /\ K \in [0 .. n -> Seq(Chars)]
      /\ \A i \in 1 .. n : K[i] = IF i \in T THEN Append(K[i - 1], text[i]) ELSE K[i - 1]
    BY KeptDef
<1>4. /\ \A k \in Nat : k \in T => k >= p + 2 /\ k < e
      /\ T \subseteq Nat
    BY DEF FieldKept
<1>5. FieldValue(text, f) = Pick(text, T)
    BY DEF FieldValue
<1> HIDE DEF p, e, n, T, K
<1>6. a \in Nat \ {0} /\ m \in Nat /\ a + m = e - 1 /\ a \in 0 .. n /\ e - 1 \in 0 .. n
    BY <1>1, <1>2
<1>7. K[a] = <<>> /\ Pick(text, T) = K[e - 1]
    <2> DEFINE b == e - 1
    <2>1. NoneIn(T, 1, a) /\ NoneIn(T, b + 1, n)
        BY <1>1, <1>2, <1>4 DEF NoneIn
    <2>2. a \in 0 .. Len(text) /\ b \in 0 .. Len(text) /\ NoneIn(T, b + 1, Len(text))
        BY <1>6, <2>1 DEF n
    <2> HIDE DEF a, b
    <2>3. Kept(text, T)[a] = <<>> /\ Pick(text, T) = Kept(text, T)[b]
        BY <2>1, <2>2, KeptOutside
    <2> QED BY <2>3 DEF K, b
<1>8. ASSUME NEW i \in 0 .. m
      PROVE  /\ a + i \in Nat \ {0} /\ a <= a + i /\ a + i <= n /\ a + i < e
             /\ R(a + i) \in Seq(Chars) /\ Len(R(a + i)) = i + 1
             /\ R(a + i)[i + 1] = text[a + i]
             /\ K[a + i] \in Seq(Chars)
    <2>1. /\ a + i \in Nat \ {0} /\ a <= a + i /\ a + i <= n /\ a + i < e /\ a <= (a + i) + 1
          /\ (a + i) - a + 1 = i + 1 /\ a + (i + 1) - 1 = a + i /\ i + 1 \in 1 .. i + 1
          /\ a + i \in 0 .. n
        BY <1>1, <1>2, <1>6
    <2> DEFINE b == a + i
    <2>2. b \in Nat /\ a \in Nat \ {0} /\ a <= b + 1 /\ b <= Len(text)
        BY <1>6, <2>1 DEF n
    <2> HIDE DEF a, b
    <2>3. /\ R(b) \in Seq(Chars) /\ Len(R(b)) = b - a + 1
          /\ \A k \in 1 .. b - a + 1 : R(b)[k] = text[a + k - 1]
        BY <2>2, PartOf
    <2>4. b - a + 1 = i + 1 /\ b \in 0 .. n
        BY <2>1 DEF b
    <2>5. R(b)[i + 1] = text[a + (i + 1) - 1] /\ Len(R(b)) = i + 1
        BY <2>1, <2>3, <2>4
    <2> QED BY <1>3, <2>1, <2>3, <2>4, <2>5 DEF b
<1>9. 0 \in U
    <2>1. a + 0 = a /\ 0 \in 0 .. m
        BY <1>6
    <2>2. R(a) = <<SP>>
        <3> DEFINE z == a + 0
        <3>1. z = a /\ 0 + 1 = 1 /\ text[a] = SP
            BY <1>1, <2>1
        <3>2. R(z) \in Seq(Chars) /\ Len(R(z)) = 0 + 1 /\ R(z)[0 + 1] = text[z]
            BY <1>8, <2>1
        <3> HIDE DEF z, a, R
        <3>3. R(a) \in Seq(Chars) /\ Len(R(a)) = 1 /\ R(a)[1] = SP
            BY <3>1, <3>2
        <3> QED BY <3>3
    <2>3. Form(R(a)) = Form(<<>>)
        <3> DEFINE nil == <<>>
        <3>1. SP \in Chars /\ SP \in Blank
            BY TextsAssumption DEF Blank
        <3>2. nil \in Seq(Chars) /\ <<SP>> = Append(nil, SP) /\ Len(nil) = 0
            OBVIOUS
        <3> HIDE DEF nil
        <3>3. Form(Append(nil, SP)) = Grow(Form(nil), SP)
            BY <3>1, <3>2, FormAppend
        <3>4. Form(nil) \in Forms
            BY <3>2, FormTyped
        <3>5. ~ EndsInWord(nil)
            BY <3>2 DEF EndsInWord
        <3>6. ~ Form(nil).word
            BY <3>5 DEF Form
        <3>7. Grow(Form(nil), SP) = Form(nil)
            BY <3>1, <3>4, <3>6, GrowBlank
        <3>8. Form(R(a)) = Form(nil)
            BY <2>2, <3>2, <3>3, <3>7
        <3> QED BY <3>8 DEF nil
    <2>4. Follows(text, a + 0, Form(R(a + 0)), Form(K[a + 0]))
        BY <1>7, <2>1, <2>3 DEF Follows
    <2> QED BY <2>1, <2>4
<1>10. ASSUME NEW i \in 0 .. m - 1, i \in U PROVE i + 1 \in U
    <2> DEFINE k == a + i
               c == text[k + 1]
               raw == Form(R(k))
               got == Form(K[k])
    <2>1. /\ i \in 0 .. m /\ i + 1 \in 0 .. m /\ a + (i + 1) = k + 1
          /\ k + 1 < e /\ k >= p + 1 /\ k + 1 \in 1 .. n /\ k \in Nat /\ (k + 1) - 1 = k
          /\ a <= k + 1 /\ k + 1 <= n
        BY <1>1, <1>2, <1>6
    <2>2. /\ R(k) \in Seq(Chars) /\ Len(R(k)) = i + 1 /\ R(k)[i + 1] = text[k]
          /\ K[k] \in Seq(Chars)
        BY <1>8, <2>1
    <2>3. c \in Chars
        BY <2>1 DEF n
    <2>4. R(k + 1) = Append(R(k), c)
        <3>1. a \in Nat \ {0} /\ k \in Nat /\ a <= k + 1 /\ k + 1 <= Len(text)
            BY <1>6, <2>1 DEF n
        <3> HIDE DEF a, k
        <3> QED BY <3>1, PartMore DEF c
    <2>5. K[k + 1] = IF k + 1 \in T THEN Append(K[k], c) ELSE K[k]
        BY <1>3, <2>1
    <2>6. Follows(text, k, raw, got)
        BY <1>10
    <2>7. raw.word <=> text[k] \notin Blank
        <3>1. EndsInWord(R(k)) <=> text[k] \notin Blank
            <4>1. Len(R(k)) > 0 /\ R(k)[Len(R(k))] = text[k]
                <5>1. i + 1 > 0
                    BY <2>1
                <5> HIDE DEF R, k
                <5> QED BY <2>2, <5>1
            <4> QED BY <4>1 DEF EndsInWord
        <3> QED BY <3>1 DEF Form
    <2>8. raw \in Forms /\ got \in Forms
        BY <2>2, FormTyped
    <2> HIDE DEF a, k, c, raw, got, R
    <2>9. Form(R(k + 1)) = Grow(raw, c)
        BY <2>2, <2>3, <2>4, FormAppend DEF raw
    <2>10. Form(K[k + 1]) = IF k + 1 \in T THEN Grow(got, c) ELSE got
        BY <2>2, <2>3, <2>5, FormAppend DEF got
    <2>11. Follows(text, k + 1, Grow(raw, c), IF k + 1 \in T THEN Grow(got, c) ELSE got)
        <3>1. k >= ColonOf(text, f) + 1 /\ k + 1 < EndOf(text, f)
            BY <2>1 DEF p, e
        <3> QED BY <2>1, <2>6, <2>7, <2>8, <3>1, FollowsMore DEF T, c
    <2>12. Follows(text, a + (i + 1), Form(R(a + (i + 1))), Form(K[a + (i + 1)]))
        BY <2>1, <2>9, <2>10, <2>11
    <2> QED BY <2>1, <2>12
<1>11. m \in U
    <2> HIDE DEF U
    <2>1. 0 .. m \subseteq U
        BY <1>6, <1>9, <1>10, UpToN
    <2> QED BY <1>6, <2>1
<1> DEFINE raw == Form(R(e - 1))
           got == Form(K[e - 1])
<1>12. Follows(text, e - 1, raw, got)
    BY <1>6, <1>11
<1>13. raw.value = got.value
    <2>1. m \in 0 .. m
        BY <1>6
    <2>2. R(a + m) \in Seq(Chars) /\ K[a + m] \in Seq(Chars)
        BY <1>8, <2>1
    <2>3. raw \in Forms /\ got \in Forms
        BY <1>6, <2>2, FormTyped
    <2>4. SP \in Blank
        BY DEF Blank
    <2> HIDE DEF raw, got
    <2>5. Grow(got, SP).value = got.value
        BY <2>3, <2>4, GrowBlank
    <2> QED BY <1>12, <2>5 DEF Follows
<1>14. raw.value = RefValue(R(e - 1)) /\ got.value = RefValue(K[e - 1])
    BY DEF Form
<1>15. CanonValue(FieldValue(text, f)) = RefValue(FieldValue(text, f))
    BY ValueUnfolded, CanonValueIs
<1> HIDE DEF raw, got, R
<1> QED BY <1>1, <1>5, <1>7, <1>13, <1>14, <1>15

\* The fields that begin no later than b.
StartsUpTo(text, b) == {i \in FieldStarts(text) : i <= b}

\* The fields that begin by then are finitely many.
LEMMA StartsFinite ==
    ASSUME NEW text \in Seq(Chars), HasBody(text), NEW b
    PROVE  /\ IsFiniteSet(FieldStarts(text)) /\ Cardinality(FieldStarts(text)) \in Nat
           /\ IsFiniteSet(StartsUpTo(text, b)) /\ Cardinality(StartsUpTo(text, b)) \in Nat
           /\ Cardinality(StartsUpTo(text, b)) <= Cardinality(FieldStarts(text))
<1> DEFINE A == FieldStarts(text)
           B == StartsUpTo(text, b)
<1>1. HeaderEnd(text) \in Int /\ 1 \in Int
    BY HeaderEndIs
<1>2. A \in SUBSET (1 .. HeaderEnd(text)) /\ B \in SUBSET A
    BY DEF FieldStarts, StartsUpTo
<1>3. IsFiniteSet(1 .. HeaderEnd(text))
    BY <1>1, FS_Interval
<1> HIDE DEF A, B
<1>4. IsFiniteSet(A)
    BY <1>2, <1>3, FS_Subset
<1>5. IsFiniteSet(B) /\ Cardinality(B) <= Cardinality(A)
    BY <1>2, <1>4, FS_Subset
<1>6. Cardinality(A) \in Nat /\ Cardinality(B) \in Nat
    BY <1>4, <1>5, FS_CardinalityType
<1> QED BY <1>4, <1>5, <1>6 DEF A, B

\* A field is the next one after those that begin before it, and no other begins
\* before it ends.
LEMMA StartsCount ==
    ASSUME NEW text \in Seq(Chars), UsualMail(text), NEW f \in FieldStarts(text)
    PROVE  LET e == EndOf(text, f)
               before == Cardinality(StartsUpTo(text, f - 1))
           IN /\ FieldNumber(text, f) = before + 1 /\ before \in Nat
              /\ before + 1 <= HEADER_MAX_LEN
              /\ StartsUpTo(text, e + 1) = StartsUpTo(text, f)
              /\ e = HeaderEnd(text) => FieldStarts(text) = StartsUpTo(text, f)
<1> DEFINE e == EndOf(text, f)
           A == StartsUpTo(text, f - 1)
           B == StartsUpTo(text, f)
<1>1. HasBody(text) /\ Cardinality(FieldStarts(text)) <= HEADER_MAX_LEN
    BY DEF UsualMail
<1>2. /\ f \in Nat \ {0} /\ e \in Nat /\ f <= e /\ e <= HeaderEnd(text)
      /\ \A x \in FieldEnds(text) : x >= f => x >= e
    BY <1>1, EndOfIs
<1>3. HeaderEnd(text) \in Nat
    BY <1>1, HeaderEndIs
<1>4. text[f] \notin Blank
    <2>1. f < ColonOf(text, f) /\ ColonOf(text, f) \in Nat
          /\ \A k \in f .. ColonOf(text, f) - 1 : text[k] \notin Blank
        BY FieldShaped DEF FieldShape
    <2>2. f \in f .. ColonOf(text, f) - 1
        BY <1>2, <2>1
    <2> QED BY <2>1, <2>2
<1> HIDE DEF e
<1>5. \A i \in FieldStarts(text) : i \in 1 .. HeaderEnd(text) /\ (i = 1 \/ i - 2 \in FieldEnds(text))
    BY DEF FieldStarts
<1>6. ASSUME NEW i \in FieldStarts(text), i > f PROVE i >= e + 2
    <2>1. i \in Nat /\ i - 2 \in FieldEnds(text)
        BY <1>2, <1>3, <1>5, <1>6
    <2>2. CASE i - 2 >= f
        <3>1. i - 2 >= e
            BY <1>2, <2>1, <2>2
        <3> QED BY <1>2, <2>1, <3>1
    <2>3. CASE ~ (i - 2 >= f)
        <3>1. i - 2 = f - 1
            BY <1>2, <1>6, <2>1, <2>3
        <3>2. i - 2 \in Nat \ {0} /\ At(text, i - 2, CRLF)
            BY <1>3, <2>1 DEF FieldEnds
        <3>3. text[(i - 2) + 1] = LF
            BY <3>2, LooksAtChars
        <3>4. (i - 2) + 1 = f
            BY <1>2, <2>1, <3>1
        <3> QED BY <1>4, <3>3, <3>4 DEF Blank
    <2> QED BY <2>2, <2>3
<1>7. \A i \in FieldStarts(text) : i \in Nat /\ i <= HeaderEnd(text)
    BY <1>3, <1>5
<1>0. \A i, b : i \in StartsUpTo(text, b) <=> i \in FieldStarts(text) /\ i <= b
    BY DEF StartsUpTo
<1>8. B = A \cup {f} /\ f \notin A
    <2>1. \A i \in FieldStarts(text) : i <= f <=> (i <= f - 1 \/ i = f)
        BY <1>2, <1>7
    <2>2. ~ (f <= f - 1) /\ f <= f
        BY <1>2
    <2>3. \A i : i \in B <=> i \in A \/ i = f
        BY <1>0, <2>1, <2>2
    <2>4. f \notin A
        BY <1>0, <2>2
    <2> HIDE DEF A, B
    <2> QED BY <2>3, <2>4
<1>9. StartsUpTo(text, e + 1) = B
    <2> DEFINE C == StartsUpTo(text, e + 1)
    <2>1. \A i \in FieldStarts(text) : i <= e + 1 <=> i <= f
        BY <1>2, <1>6, <1>7
    <2>2. \A i : i \in C <=> i \in B
        BY <1>0, <2>1
    <2> HIDE DEF B, C
    <2>3. C = B
        BY <2>2
    <2> QED BY <2>3 DEF C
<1>10. ASSUME e = HeaderEnd(text) PROVE FieldStarts(text) = B
    <2> DEFINE C == FieldStarts(text)
    <2>1. \A i \in FieldStarts(text) : i <= f
        BY <1>2, <1>6, <1>7, <1>10
    <2>2. \A i : i \in C <=> i \in B
        BY <1>0, <2>1
    <2> HIDE DEF B, C
    <2>3. C = B
        BY <2>2
    <2> QED BY <2>3 DEF C
<1>11. FieldNumber(text, f) = Cardinality(B)
    BY DEF FieldNumber, StartsUpTo
<1>12. IsFiniteSet(A) /\ Cardinality(A) \in Nat /\ Cardinality(FieldStarts(text)) \in Nat
       /\ Cardinality(B) <= Cardinality(FieldStarts(text))
    BY <1>1, StartsFinite
<1> HIDE DEF A, B
<1>13. Cardinality(B) = Cardinality(A) + 1
    <2>1. Cardinality(A \cup {f}) = IF f \in A THEN Cardinality(A) ELSE Cardinality(A) + 1
        BY <1>12, FS_AddElement
    <2> QED BY <1>8, <2>1
<1>14. Cardinality(A) + 1 <= HEADER_MAX_LEN
    <2>1. HEADER_MAX_LEN \in Nat
        BY ParserAssumption
    <2> QED BY <1>1, <1>12, <1>13, <2>1
<1> QED BY <1>9, <1>10, <1>11, <1>12, <1>13, <1>14 DEF A, B, e

\* What is kept is no longer than the stretch in which it stands.
LEMMA KeptLength ==
    ASSUME NEW S, NEW s \in Seq(S), NEW T, NEW a \in Nat \ {0}, a <= Len(s) + 1,
           \A i \in 1 .. Len(s) : i \in T => i >= a, NEW k \in Nat, k >= a - 1, k <= Len(s)
    PROVE  Len(Kept(s, T)[k]) <= k - a + 1
<1> DEFINE F == Kept(s, T)
           n == Len(s)
           m == n - a + 1
           U == {j \in 0 .. m : Len(F[a - 1 + j]) <= j}
<1>0. n \in Nat /\ m \in Nat
    OBVIOUS
<1>1. /\ F \in [0 .. n -> Seq(S)]
      /\ \A i \in 1 .. n : F[i] = IF i \in T THEN Append(F[i - 1], s[i]) ELSE F[i - 1]
      /\ \A i \in 1 .. n : s[i] \in S
    BY KeptDef
<1>2. F[a - 1] = <<>>
    <2> DEFINE b == a - 1
    <2>1. b \in 0 .. Len(s) /\ NoneIn(T, 1, b)
        BY DEF NoneIn
    <2> HIDE DEF b
    <2>2. F[b] = <<>>
        BY <2>1, KeptOutside
    <2> QED BY <2>2 DEF b
<1>3. k - a + 1 \in 0 .. m /\ a - 1 + (k - a + 1) = k
    OBVIOUS
<1>4. a - 1 + 0 = a - 1 /\ a <= n + 1
    OBVIOUS
<1> HIDE DEF F, n
<1>5. 0 \in U
    <2>1. Len(F[a - 1]) = 0
        BY <1>2
    <2> QED BY <1>0, <1>4, <2>1
<1>6. ASSUME NEW j \in 0 .. m - 1, j \in U PROVE j + 1 \in U
    <2> DEFINE i == a - 1 + j
               g == F[i]
    <2>1. /\ j + 1 \in 0 .. m /\ i \in 0 .. n /\ i + 1 \in 1 .. n /\ (i + 1) - 1 = i
          /\ a - 1 + (j + 1) = i + 1
        BY <1>0, <1>4
    <2>2. g \in Seq(S) /\ s[i + 1] \in S /\ Len(g) <= j /\ j \in Nat
        BY <1>1, <1>6, <2>1
    <2>3. F[i + 1] = IF i + 1 \in T THEN Append(g, s[i + 1]) ELSE g
        BY <1>1, <2>1
    <2> HIDE DEF i, g
    <2>4. Len(F[i + 1]) <= j + 1
        <3>1. Len(Append(g, s[i + 1])) = Len(g) + 1 /\ Len(g) \in Nat
            BY <2>2
        <3> QED BY <2>2, <2>3, <3>1
    <2> QED BY <2>1, <2>4
<1> HIDE DEF U
<1>7. 0 .. m \subseteq U
    <2> HIDE DEF m
    <2> QED BY <1>0, <1>5, <1>6, UpToN
<1>8. k - a + 1 \in U
    BY <1>3, <1>7
<1> QED BY <1>3, <1>8 DEF U, F

\* What the four ends of a round write while the array has room for the entry.
LEMMA EndsWrite ==
    ASSUME NEW st \in ParserState, NEW c \in Chars, st.wild = FALSE, ~ Wild(st)
    PROVE  /\ /\ Colon(st).key = st.text /\ Colon(st).text = <<>>
              /\ Colon(st).headers = st.headers /\ Colon(st).wild = FALSE
           /\ /\ Fold(st).key = st.key /\ Fold(st).text = st.text
              /\ Fold(st).headers = st.headers /\ Fold(st).wild = FALSE
           /\ /\ ~ st.is_key => EndOfHeader(st).headers =
                                Append(st.headers, [key |-> st.key, value |-> st.text])
              /\ EndOfHeader(st).text = <<>> /\ EndOfHeader(st).wild = FALSE
           /\ /\ Character(st, c).key = st.key /\ Character(st, c).headers = st.headers
              /\ Character(st, c).wild = FALSE
              /\ /\ c # NUL /\ (st.is_key => c # SP)
                 /\ Len(st.text) < (IF st.is_key THEN KEY_MAX_LEN ELSE VALUE_MAX_LEN) - 1
                 => Character(st, c).text = Append(st.text, c)
<1>1. /\ Colon(st).key = st.text /\ Colon(st).text = <<>>
      /\ Colon(st).headers = st.headers /\ Colon(st).wild = FALSE
    <2> DEFINE wild == st.wild \/ Wild(st)
    <2>1. wild = FALSE
        OBVIOUS
    <2>2. Colon(st) = [st EXCEPT !.key = st.text, !.is_key = FALSE, !.text = <<>>, !.i = @ + 2,
                                 !.wild = wild]
        BY DEF Colon
    <2> HIDE DEF wild
    <2> QED BY <2>1, <2>2 DEF ParserState
<1>2. /\ Fold(st).key = st.key /\ Fold(st).text = st.text
      /\ Fold(st).headers = st.headers /\ Fold(st).wild = FALSE
    BY DEF Fold, ParserState
<1>3. /\ ~ st.is_key => EndOfHeader(st).headers =
                        Append(st.headers, [key |-> st.key, value |-> st.text])
      /\ EndOfHeader(st).text = <<>> /\ EndOfHeader(st).wild = FALSE
    <2> DEFINE entry == [key |-> IF st.is_key THEN Leftover ELSE st.key,
                         value |-> IF st.is_key THEN Leftover ELSE st.text]
               headers == Append(st.headers, entry)
    <2>1. ~ st.is_key => headers = Append(st.headers, [key |-> st.key, value |-> st.text])
        OBVIOUS
    <2>2. EndOfHeader(st) = [st EXCEPT !.headers = headers, !.is_key = TRUE,
                                       !.text = <<>>, !.key = Leftover, !.i = @ + 2]
        BY DEF EndOfHeader
    <2> HIDE DEF headers
    <2>3. EndOfHeader(st).headers = headers
        BY <2>2 DEF ParserState
    <2>4. EndOfHeader(st).text = <<>> /\ EndOfHeader(st).wild = FALSE
        BY <2>2 DEF ParserState
    <2> QED BY <2>1, <2>3, <2>4
<1>4. /\ Character(st, c).key = st.key /\ Character(st, c).headers = st.headers
      /\ Character(st, c).wild = FALSE
      /\ /\ c # NUL /\ (st.is_key => c # SP)
         /\ Len(st.text) < (IF st.is_key THEN KEY_MAX_LEN ELSE VALUE_MAX_LEN) - 1
         => Character(st, c).text = Append(st.text, c)
    <2> DEFINE max == IF st.is_key THEN KEY_MAX_LEN ELSE VALUE_MAX_LEN
               drop == c = NUL \/ (st.is_key /\ c = SP) \/ Len(st.text) >= max - 1
               text == IF drop THEN st.text ELSE Append(st.text, c)
               wild == st.wild \/ (~ drop /\ Wild(st))
    <2>1. wild = FALSE
        OBVIOUS
    <2>2. Character(st, c) = [st EXCEPT !.text = text, !.i = @ + 1, !.wild = wild]
        BY DEF Character
    <2>3. ASSUME c # NUL, st.is_key => c # SP, Len(st.text) < max - 1
          PROVE  text = Append(st.text, c)
        <3>1. Len(st.text) \in Nat /\ max \in Nat
            BY ParserAssumption DEF ParserState
        <3>2. ~ (Len(st.text) >= max - 1)
            <4> HIDE DEF max
            <4> QED BY <2>3, <3>1
        <3>3. ~ drop
            <4> HIDE DEF max
            <4> QED BY <2>3, <3>2
        <3> HIDE DEF drop
        <3> QED BY <3>3
    <2> HIDE DEF text, wild
    <2>4. /\ Character(st, c).key = st.key /\ Character(st, c).headers = st.headers
          /\ Character(st, c).wild = FALSE /\ Character(st, c).text = text
        BY <2>1, <2>2 DEF ParserState
    <2> QED BY <2>3, <2>4
<1> QED BY <1>1, <1>2, <1>3, <1>4

\* The entry that a field gets, and the entries of all that begin by b.
HeaderOf(text, f) == [key |-> RefKey(text, f), value |-> FieldValue(text, f)]

Collected(text, b, headers) ==
    /\ Len(headers) = Cardinality(StartsUpTo(text, b))
    /\ \A g \in FieldStarts(text) : g <= b =>
          /\ FieldNumber(text, g) \in 1 .. Len(headers)
          /\ headers[FieldNumber(text, g)] = HeaderOf(text, g)

\* One more entry.
LEMMA CollectedMore ==
    ASSUME NEW text \in Seq(Chars), UsualMail(text), NEW f \in FieldStarts(text),
           NEW H, NEW headers \in Seq(H), HeaderOf(text, f) \in H, Collected(text, f - 1, headers)
    PROVE  LET more == Append(headers, HeaderOf(text, f))
           IN /\ Collected(text, EndOf(text, f) + 1, more)
              /\ EndOf(text, f) = HeaderEnd(text) =>
                    /\ Len(more) = Cardinality(FieldStarts(text))
                    /\ \A g \in FieldStarts(text) :
                          more[FieldNumber(text, g)] = HeaderOf(text, g)
<1> DEFINE e == EndOf(text, f)
           h == HeaderOf(text, f)
           n == Len(headers)
           more == Append(headers, h)
           num(g) == FieldNumber(text, g)
<1>1. /\ num(f) = Cardinality(StartsUpTo(text, f - 1)) + 1
      /\ Cardinality(StartsUpTo(text, f - 1)) \in Nat
      /\ StartsUpTo(text, e + 1) = StartsUpTo(text, f)
      /\ e = HeaderEnd(text) => FieldStarts(text) = StartsUpTo(text, f)
    BY StartsCount
<1>2. /\ n = Cardinality(StartsUpTo(text, f - 1))
      /\ \A g \in FieldStarts(text) : g <= f - 1 => num(g) \in 1 .. n /\ headers[num(g)] = HeaderOf(text, g)
    BY DEF Collected
<1>3. num(f) = Cardinality(StartsUpTo(text, f))
    BY DEF FieldNumber, StartsUpTo
<1>4. f \in Nat /\ \A g \in FieldStarts(text) : g \in Nat
    <2>1. HasBody(text)
        BY DEF UsualMail
    <2>2. HeaderEnd(text) \in Nat
        BY <2>1, HeaderEndIs
    <2> QED BY <2>2 DEF FieldStarts
<1> HIDE DEF h
<1>5. /\ n \in Nat /\ h \in H /\ Len(more) = n + 1 /\ more[n + 1] = h
      /\ \A k \in 1 .. n : more[k] = headers[k]
    BY DEF h
<1> HIDE DEF e, n, more, num
<1>6. num(f) = n + 1
    BY <1>1, <1>2
<1>7. ASSUME NEW g \in StartsUpTo(text, f)
      PROVE  num(g) \in 1 .. n + 1 /\ more[num(g)] = HeaderOf(text, g)
    <2>1. g \in FieldStarts(text) /\ g <= f
        BY DEF StartsUpTo
    <2>2. CASE g = f
        <3>1. num(g) = n + 1 /\ HeaderOf(text, g) = h
            BY <1>6, <2>2 DEF h
        <3>2. n + 1 \in 1 .. n + 1
            BY <1>5
        <3> QED BY <1>5, <3>1, <3>2
    <2>3. CASE g # f
        <3>1. g <= f - 1
            BY <1>4, <2>1, <2>3
        <3>2. num(g) \in 1 .. n /\ headers[num(g)] = HeaderOf(text, g)
            BY <1>2, <2>1, <3>1
        <3>3. num(g) \in 1 .. n + 1
            BY <1>5, <3>2
        <3> QED BY <1>5, <3>2, <3>3
    <2> QED BY <2>2, <2>3
<1>8. Collected(text, e + 1, more)
    <2>1. Len(more) = Cardinality(StartsUpTo(text, e + 1))
        BY <1>1, <1>3, <1>5, <1>6
    <2>2. \A g \in FieldStarts(text) : g <= e + 1 => g \in StartsUpTo(text, f)
        <3>1. \A g \in FieldStarts(text) : g <= e + 1 => g \in StartsUpTo(text, e + 1)
            BY DEF StartsUpTo
        <3> QED BY <1>1, <3>1
    <2> QED BY <1>5, <1>7, <2>1, <2>2 DEF Collected, num
<1>9. ASSUME e = HeaderEnd(text)
      PROVE  /\ Len(more) = Cardinality(FieldStarts(text))
             /\ \A g \in FieldStarts(text) : more[FieldNumber(text, g)] = HeaderOf(text, g)
    <2>1. FieldStarts(text) = StartsUpTo(text, f)
        BY <1>1, <1>9
    <2>2. Len(more) = Cardinality(FieldStarts(text))
        BY <1>3, <1>5, <1>6, <2>1
    <2> QED BY <1>7, <2>1, <2>2 DEF num
<1> QED BY <1>8, <1>9 DEF e, more, h

\* The parser is in the name, or in the value, of the field that begins at f.
InKey(text, f, st) ==
    /\ st.is_key = TRUE
    /\ st.i <= ColonOf(text, f)
    /\ st.text = SubSeq(text, f, st.i - 1)

InValue(text, f, st) ==
    /\ st.is_key = FALSE
    /\ st.i >= ColonOf(text, f) + 2
    /\ st.key = RefKey(text, f)
    /\ st.text = Kept(text, FieldKept(text, f))[st.i - 1]
    /\ \A x \in Folds(text) : st.i # x + 1 /\ st.i # x + 2

Reading(text, f, st) ==
    /\ f \in FieldStarts(text)
    /\ st \in ParserState /\ st.done = FALSE /\ st.wild = FALSE
    /\ Collected(text, f - 1, st.headers)
    /\ f <= st.i /\ st.i <= EndOf(text, f)
    /\ InKey(text, f, st) \/ InValue(text, f, st)

\* The parser has all fields.
AllRead(text, st) ==
    /\ st.done = TRUE /\ st.wild = FALSE
    /\ Len(st.headers) = Cardinality(FieldStarts(text))
    /\ \A g \in FieldStarts(text) : st.headers[FieldNumber(text, g)] = HeaderOf(text, g)

\* The array has room for the entry that is being written.
LEMMA ReadingFits ==
    ASSUME NEW text \in Seq(Chars), UsualMail(text), NEW f, NEW st, Reading(text, f, st),
           NEW next, next.headers = st.headers
    PROVE  ~ Wild(next)
<1>1. f \in FieldStarts(text) /\ Len(st.headers) = Cardinality(StartsUpTo(text, f - 1))
    BY DEF Reading, Collected
<1> DEFINE before == Cardinality(StartsUpTo(text, f - 1))
<1>2. before \in Nat /\ before + 1 <= HEADER_MAX_LEN
    BY <1>1, StartsCount
<1>3. Len(next.headers) = before /\ HEADER_MAX_LEN \in Nat
    BY <1>1, ParserAssumption
<1> HIDE DEF before
<1> QED BY <1>2, <1>3 DEF Wild

\* A key that is read is in the name of its field.
LEMMA KeyInName ==
    ASSUME NEW text \in Seq(Chars), UsualMail(text), NEW f, NEW st, Reading(text, f, st),
           InKey(text, f, st)
    PROVE  InName(text, st.i)
<1> DEFINE p == ColonOf(text, f)
           e == EndOf(text, f)
           i == st.i
<1>1. f \in FieldStarts(text) /\ f <= i /\ i <= p /\ i \in Nat
    BY DEF Reading, InKey, ParserState
<1>2. /\ p \in Nat /\ f \in Nat /\ p + 2 <= e /\ e \in Nat
      /\ \A k \in f .. p - 1 : text[k] # ":"
    BY <1>1, FieldShaped DEF FieldShape
<1>3. HasBody(text)
    BY DEF UsualMail
<1>4. \A x \in FieldEnds(text) : x >= f => x >= e
    BY <1>1, <1>3, EndOfIs
<1> HIDE DEF p, e, i
<1>5. ASSUME NEW j \in f .. i - 1 PROVE text[j] # ":" /\ j \notin FieldEnds(text)
    <2>1. j \in f .. p - 1 /\ j >= f /\ ~ (j >= e)
        BY <1>1, <1>2
    <2> QED BY <1>2, <1>4, <2>1
<1>6. InName(text, i)
    BY <1>1, <1>5 DEF InName
<1> QED BY <1>6 DEF i

\* A round in the name of a field reads on, or goes from the colon to the value.
LEMMA KeyRound ==
    ASSUME NEW text \in Seq(Chars), UsualMail(text), NEW f, NEW st, Reading(text, f, st),
           InKey(text, f, st), st.read <= Len(text) + 7
    PROVE  LET r == Round(st, Append(Received(text), SP), Len(Received(text)))
           IN r \in ParserState => Reading(text, f, r)
<1> DEFINE mem == Append(Received(text), SP)
           len == Len(Received(text))
           next == LookAhead(st, mem, len)
           r == Round(st, mem, len)
           i == st.i
           end == HeaderEnd(text)
           p == ColonOf(text, f)
           e == EndOf(text, f)
           T == FieldKept(text, f)
<1>1. /\ f \in FieldStarts(text) /\ st \in ParserState /\ st.done = FALSE /\ st.wild = FALSE
      /\ Collected(text, f - 1, st.headers) /\ f <= i /\ i <= p /\ i \in Nat \ {0}
      /\ st.is_key = TRUE /\ st.text = SubSeq(text, f, i - 1)
    BY DEF Reading, InKey, ParserState
<1>2. /\ f \in Nat \ {0} /\ p \in Nat /\ e \in Nat /\ f < p /\ p + 2 <= e /\ e <= end
      /\ \A k \in f .. p - 1 : text[k] \notin Blank /\ text[k] # ":"
      /\ text[p] = ":" /\ text[p + 1] = SP /\ p - f < KEY_MAX_LEN
      /\ RefKey(text, f) = SubSeq(text, f, p - 1)
    BY <1>1, FieldShaped DEF FieldShape
<1>3. HasBody(text) /\ \A j \in DOMAIN text : text[j] # NUL
    BY DEF UsualMail
<1>4. end \in Nat \ {0} /\ end + 3 <= Len(text) /\ Len(text) \in Nat
    BY <1>3, HeaderEndIs
<1>5. i < end /\ i \in 1 .. Len(text) /\ text[i] \in Chars /\ text[i] # NUL
    <2>1. i < end /\ i \in 1 .. Len(text)
        <3> HIDE DEF i, end, p, e
        <3> QED BY <1>1, <1>2, <1>4
    <2> QED BY <1>3, <2>1
<1>6. InName(text, i)
    BY KeyInName
<1>7. /\ next \in ParserState
      /\ next.i = i /\ next.done = st.done /\ next.is_key = st.is_key
      /\ next.text = st.text /\ next.key = st.key
      /\ next.headers = st.headers /\ next.wild = st.wild
      /\ \/ /\ r = Colon(next) /\ text[i] = ":"
         \/ text[i] = CR
         \/ r = Character(next, text[i]) /\ text[i] # ":"
    BY <1>1, <1>5, <1>6, HeaderRound
<1> HIDE DEF mem, len, next, r, end, e, p
<1>8. ~ Wild(next)
    BY <1>7, ReadingFits
<1> SUFFICES ASSUME r \in ParserState PROVE Reading(text, f, r)
    BY DEF r, mem, len
<1>9. \A k \in f .. p : text[k] # CR
    <2>1. CR \in Blank /\ CR # ":"
        BY DEF Blank, CR
    <2>2. \A k \in f .. p : k = p \/ k \in f .. p - 1
        BY <1>2
    <2> QED BY <1>2, <2>1, <2>2
<1>10. CASE i = p
    <2>1. r = Colon(next)
        <3>1. i \in f .. p
            BY <1>1, <1>2
        <3> QED BY <1>2, <1>7, <1>9, <1>10, <3>1
    <2>2. next \in ParserState /\ text[i] \in Chars /\ next.wild = FALSE
        BY <1>1, <1>5, <1>7
    <2>3. /\ r.i = i + 2 /\ r.done = FALSE /\ r.is_key = FALSE /\ r.key = st.text
          /\ r.text = <<>> /\ r.headers = st.headers /\ r.wild = FALSE
        <3>1. Colon(next).i = next.i + 2 /\ Colon(next).done = next.done /\ Colon(next).is_key = FALSE
            BY <2>2, EndsMove
        <3>2. /\ Colon(next).key = next.text /\ Colon(next).text = <<>>
              /\ Colon(next).headers = next.headers /\ Colon(next).wild = FALSE
            BY <1>8, <2>2, EndsWrite
        <3> QED BY <1>1, <1>7, <2>1, <3>1, <3>2
    <2>4. Kept(text, T)[p + 1] = <<>>
        <3> DEFINE b == p + 1
        <3>1. b \in 0 .. Len(text)
            BY <1>2, <1>4
        <3>2. NoneIn(T, 1, b)
            <4>1. \A k \in T : k >= p + 2
                BY DEF FieldKept, p
            <4>2. \A k \in 1 .. b : ~ (k >= p + 2)
                BY <1>2
            <4> HIDE DEF T, b
            <4> QED BY <4>1, <4>2 DEF NoneIn
        <3> HIDE DEF b, T
        <3>3. Kept(text, T)[b] = <<>>
            BY <3>1, <3>2, KeptOutside
        <3> QED BY <3>3 DEF b
    <2>5. ASSUME NEW x \in Folds(text) PROVE p + 2 # x + 1 /\ p + 2 # x + 2
        <3>1. x \in Nat /\ text[x] = CR
            BY FoldShaped
        <3>2. x # p /\ x # p + 1
            BY <1>2, <3>1 DEF CR, SP
        <3> QED BY <1>2, <3>1, <3>2
    <2>6. /\ r.i = p + 2 /\ r.i - 1 = p + 1 /\ f <= r.i /\ r.i <= e /\ r.i >= p + 2
          /\ r.key = RefKey(text, f)
        BY <1>1, <1>2, <1>10, <2>3
    <2> HIDE DEF T
    <2>7. InValue(text, f, r)
        BY <2>3, <2>4, <2>5, <2>6 DEF InValue, p, T
    <2> QED BY <1>1, <2>3, <2>6, <2>7 DEF Reading, e
<1>11. CASE i < p
    <2>1. i \in f .. p - 1 /\ i \in f .. p
        BY <1>1, <1>2, <1>11
    <2>2. r = Character(next, text[i])
        BY <1>2, <1>7, <1>9, <2>1
    <2>3. next \in ParserState /\ text[i] \in Chars /\ next.wild = FALSE /\ next.is_key = TRUE
        BY <1>1, <1>5, <1>7
    <2>4. text[i] # NUL /\ text[i] # SP
        BY <1>2, <1>5, <2>1 DEF Blank
    <2> DEFINE a == i - 1
    <2>5. a \in Nat /\ f <= a + 1 /\ a + 1 <= Len(text) /\ a <= Len(text) /\ a + 1 = i
        <3>1. i \in Nat \ {0} /\ f <= i /\ i <= Len(text) /\ Len(text) \in Nat
            BY <1>1, <1>4, <1>5
        <3> HIDE DEF i
        <3> QED BY <1>2, <3>1
    <2> HIDE DEF a
    <2>6. /\ Len(SubSeq(text, f, a)) = a - f + 1
          /\ SubSeq(text, f, a + 1) = Append(SubSeq(text, f, a), text[a + 1])
        <3>1. f \in Nat \ {0}
            BY <1>2
        <3>2. Len(SubSeq(text, f, a)) = a - f + 1
            BY <2>5, <3>1, PartOf
        <3>3. SubSeq(text, f, a + 1) = Append(SubSeq(text, f, a), text[a + 1])
            BY <2>5, <3>1, PartMore
        <3> QED BY <3>2, <3>3
    <2>7. st.text = SubSeq(text, f, a)
        BY <1>1 DEF a
    <2>8. Len(next.text) < KEY_MAX_LEN - 1
        <3>1. KEY_MAX_LEN \in Nat
            BY ParserAssumption
        <3>2. Len(next.text) = a - f + 1
            BY <1>7, <2>6, <2>7
        <3> QED BY <1>1, <1>2, <1>11, <2>5, <3>1, <3>2
    <2>9. /\ r.i = i + 1 /\ r.done = FALSE /\ r.is_key = TRUE /\ r.text = Append(st.text, text[i])
          /\ r.headers = st.headers /\ r.wild = FALSE
        <3> DEFINE c == text[i]
        <3>1. c \in Chars /\ c # NUL /\ c # SP
            BY <2>3, <2>4
        <3> HIDE DEF c
        <3>2. /\ Character(next, c).i = next.i + 1 /\ Character(next, c).done = next.done
              /\ Character(next, c).is_key = next.is_key
            <4>1. next \in ParserState /\ c \in Chars
                BY <2>3, <3>1
            <4> QED BY <4>1, EndsMove
        <3>3. Character(next, c).headers = next.headers /\ Character(next, c).wild = FALSE
            BY <1>8, <2>3, <3>1, EndsWrite
        <3>4. Character(next, c).text = Append(next.text, c)
            BY <1>8, <2>3, <2>8, <3>1, EndsWrite
        <3>5. r = Character(next, c)
            BY <2>2 DEF c
        <3> QED BY <1>1, <1>7, <2>3, <3>2, <3>3, <3>4, <3>5 DEF c
    <2>10. r.text = SubSeq(text, f, r.i - 1)
        <3>1. r.i - 1 = a + 1
            BY <1>1, <2>5, <2>9
        <3> QED BY <2>5, <2>6, <2>7, <2>9, <3>1
    <2>11. f <= r.i /\ r.i <= e /\ r.i <= p
        <3>1. r.i = i + 1 /\ i \in Nat /\ f <= i /\ i < p
            BY <1>1, <1>11, <2>9
        <3> HIDE DEF i
        <3> QED BY <1>2, <3>1
    <2>12. InKey(text, f, r)
        BY <2>9, <2>10, <2>11 DEF InKey, p
    <2> QED BY <1>1, <2>9, <2>11, <2>12 DEF Reading, e
<1> QED BY <1>1, <1>2, <1>10, <1>11

\* A fold inside a field ends before the field does.
LEMMA FoldInside ==
    ASSUME NEW text \in Seq(Chars), UsualMail(text), NEW f \in FieldStarts(text),
           NEW x \in Folds(text), x < EndOf(text, f)
    PROVE  x + 3 <= EndOf(text, f) /\ \A y \in Folds(text) : x + 3 # y + 1 /\ x + 3 # y + 2
<1> DEFINE e == EndOf(text, f)
<1>1. HasBody(text)
    BY DEF UsualMail
<1>2. e \in Nat /\ text[e] = CR
    BY <1>1, EndOfIs
<1>3. /\ x \in Nat /\ text[x + 1] = LF /\ text[x + 2] \in WSP
      /\ \A y \in Folds(text) : y \in Nat /\ text[y] = CR
    BY FoldShaped
<1>4. CR # LF /\ CR \notin WSP
    BY DEF CR, LF, WSP, SP, TAB
<1> HIDE DEF e
<1>5. e # x + 1 /\ e # x + 2 /\ \A y \in Folds(text) : y # x + 1 /\ y # x + 2
    BY <1>2, <1>3, <1>4
<1>6. x < e
    BY DEF e
<1>7. x + 3 <= e
    BY <1>2, <1>3, <1>5, <1>6
<1>8. \A y \in Folds(text) : x + 3 # y + 1 /\ x + 3 # y + 2
    BY <1>3, <1>5
<1> QED BY <1>7, <1>8 DEF e

\* A round in the value of a field takes a fold away or keeps a character.
LEMMA ValueRound ==
    ASSUME NEW text \in Seq(Chars), UsualMail(text), NEW f, NEW st, Reading(text, f, st),
           InValue(text, f, st), st.i < EndOf(text, f), st.read <= Len(text) + 7
    PROVE  LET r == Round(st, Append(Received(text), SP), Len(Received(text)))
           IN r \in ParserState => Reading(text, f, r)
<1> DEFINE mem == Append(Received(text), SP)
           len == Len(Received(text))
           next == LookAhead(st, mem, len)
           r == Round(st, mem, len)
           i == st.i
           end == HeaderEnd(text)
           p == ColonOf(text, f)
           e == EndOf(text, f)
           T == FieldKept(text, f)
           K == Kept(text, T)
<1>1. /\ f \in FieldStarts(text) /\ st \in ParserState /\ st.done = FALSE /\ st.wild = FALSE
      /\ Collected(text, f - 1, st.headers) /\ f <= i /\ i < e /\ i \in Nat \ {0}
      /\ st.is_key = FALSE /\ i >= p + 2 /\ st.key = RefKey(text, f) /\ st.text = K[i - 1]
      /\ \A x \in Folds(text) : i # x + 1 /\ i # x + 2
    BY DEF Reading, InValue, ParserState
<1>2. /\ f \in Nat \ {0} /\ p \in Nat /\ e \in Nat /\ f < p /\ p + 2 <= e /\ e <= end
      /\ e - p - 2 < VALUE_MAX_LEN
    BY <1>1, FieldShaped DEF FieldShape
<1>3. HasBody(text) /\ \A j \in DOMAIN text : text[j] # NUL
    BY DEF UsualMail
<1>4. end \in Nat \ {0} /\ end + 3 <= Len(text) /\ Len(text) \in Nat
    BY <1>3, HeaderEndIs
<1>5. i < end /\ i \in 1 .. Len(text) /\ text[i] \in Chars /\ text[i] # NUL
    <2>1. i < end /\ i \in 1 .. Len(text)
        <3> HIDE DEF i, end, p, e
        <3> QED BY <1>1, <1>2, <1>4
    <2> QED BY <1>3, <2>1
<1>6. i \notin FieldEnds(text)
    <2>1. \A x \in FieldEnds(text) : x >= f => x >= e
        BY <1>1, <1>3, EndOfIs
    <2>2. i >= f /\ ~ (i >= e)
        <3> HIDE DEF i, e
        <3> QED BY <1>1, <1>2
    <2> QED BY <2>1, <2>2
<1>7. /\ next \in ParserState
      /\ next.i = i /\ next.done = st.done /\ next.is_key = st.is_key
      /\ next.text = st.text /\ next.key = st.key
      /\ next.headers = st.headers /\ next.wild = st.wild
      /\ \/ r = Fold(next) /\ i \in Folds(text)
         \/ r = Character(next, text[i]) /\ text[i] # CR
    <2>1. ~ st.is_key
        BY <1>1
    <2> QED BY <1>1, <1>5, <1>6, <2>1, HeaderRound
<1>8. /\ K \in [0 .. Len(text) -> Seq(Chars)]
      /\ \A k \in 1 .. Len(text) : K[k] = IF k \in T THEN Append(K[k - 1], text[k]) ELSE K[k - 1]
    BY KeptDef
<1>9. \A x \in Folds(text) : x \in Nat /\ text[x] = CR
    BY FoldShaped
<1>10. \A k \in Nat : k \in T <=> k >= p + 2 /\ k < e /\ ~ InFold(text, k)
    BY DEF FieldKept
<1> HIDE DEF mem, len, next, r, end, e, p, T, K, i
<1>11. ~ Wild(next)
    BY <1>7, ReadingFits
<1>12. next \in ParserState /\ text[i] \in Chars /\ next.wild = FALSE /\ next.is_key = FALSE
    BY <1>1, <1>5, <1>7
<1> SUFFICES ASSUME r \in ParserState PROVE Reading(text, f, r)
    BY DEF r, mem, len
<1>13. CASE r = Fold(next) /\ i \in Folds(text)
    <2>1. /\ r.i = i + 3 /\ r.done = FALSE /\ r.is_key = FALSE /\ r.key = st.key
          /\ r.text = st.text /\ r.headers = st.headers /\ r.wild = FALSE
        <3>1. Fold(next).i = next.i + 3 /\ Fold(next).done = next.done /\ Fold(next).is_key = next.is_key
            BY <1>12, EndsMove
        <3>2. /\ Fold(next).key = next.key /\ Fold(next).text = next.text
              /\ Fold(next).headers = next.headers /\ Fold(next).wild = FALSE
            BY <1>11, <1>12, EndsWrite
        <3> QED BY <1>1, <1>7, <1>13, <3>1, <3>2
    <2>2. i + 3 <= e /\ \A y \in Folds(text) : i + 3 # y + 1 /\ i + 3 # y + 2
        <3>1. i < EndOf(text, f)
            BY <1>1 DEF e
        <3> QED BY <1>1, <1>13, <3>1, FoldInside DEF e
    <2>3. i \notin T /\ i + 1 \notin T /\ i + 2 \notin T
        <3>1. InFold(text, i) /\ InFold(text, i + 1) /\ InFold(text, i + 2)
            BY <1>13 DEF InFold
        <3>2. i \in Nat /\ i + 1 \in Nat /\ i + 2 \in Nat
            BY <1>1
        <3> QED BY <1>10, <3>1, <3>2
    <2>4. K[i + 2] = K[i - 1]
        <3>1. /\ i \in 1 .. Len(text) /\ i + 1 \in 1 .. Len(text) /\ i + 2 \in 1 .. Len(text)
              /\ (i + 1) - 1 = i /\ (i + 2) - 1 = i + 1
            BY <1>1, <1>2, <1>4, <2>2
        <3>2. K[i] = K[i - 1]
            BY <1>8, <2>3, <3>1
        <3>3. K[i + 1] = K[i]
            BY <1>8, <2>3, <3>1
        <3>4. K[i + 2] = K[i + 1]
            BY <1>8, <2>3, <3>1
        <3> QED BY <3>2, <3>3, <3>4
    <2>5. /\ f <= i + 3 /\ i + 3 >= p + 2 /\ (i + 3) - 1 = i + 2
        BY <1>1, <1>2
    <2>6. InValue(text, f, r)
        <3>1. r.text = K[r.i - 1] /\ r.i >= p + 2 /\ r.key = RefKey(text, f)
            BY <1>1, <2>1, <2>4, <2>5
        <3> QED BY <2>1, <2>2, <3>1 DEF InValue, p, K, T
    <2> QED BY <1>1, <2>1, <2>2, <2>5, <2>6 DEF Reading, e
<1>14. CASE r = Character(next, text[i]) /\ text[i] # CR
    <2>1. ~ InFold(text, i)
        BY <1>1, <1>9, <1>14 DEF InFold
    <2>2. i \in T
        BY <1>1, <1>10, <2>1
    <2>3. K[i] = Append(K[i - 1], text[i])
        BY <1>5, <1>8, <2>2
    <2>4. Len(st.text) < VALUE_MAX_LEN - 1
        <3> DEFINE a == p + 2
                   k == i - 1
        <3>1. /\ a \in Nat \ {0} /\ a <= Len(text) + 1 /\ k \in Nat /\ k >= a - 1 /\ k <= Len(text)
              /\ k - a + 1 < VALUE_MAX_LEN - 1 /\ k - a + 1 \in Int
            <4>1. VALUE_MAX_LEN \in Nat
                BY ParserAssumption
            <4> QED BY <1>1, <1>2, <1>4, <4>1
        <3>2. \A j \in 1 .. Len(text) : j \in T => j >= a
            BY <1>10
        <3>3. st.text = K[k] /\ K[k] \in Seq(Chars)
            <4>1. k \in 0 .. Len(text)
                BY <1>4, <3>1
            <4> QED BY <1>1, <1>8, <4>1
        <3> HIDE DEF a, k
        <3>4. Len(K[k]) <= k - a + 1
            BY <3>1, <3>2, KeptLength DEF K
        <3>5. Len(K[k]) \in Nat /\ VALUE_MAX_LEN \in Nat
            BY <3>3, ParserAssumption
        <3> QED BY <3>1, <3>3, <3>4, <3>5
    <2>5. /\ r.i = i + 1 /\ r.done = FALSE /\ r.is_key = FALSE /\ r.key = st.key
          /\ r.text = Append(st.text, text[i]) /\ r.headers = st.headers /\ r.wild = FALSE
        <3> DEFINE c == text[i]
        <3>1. c \in Chars /\ c # NUL
            BY <1>5
        <3> HIDE DEF c
        <3>2. /\ Character(next, c).i = next.i + 1 /\ Character(next, c).done = next.done
              /\ Character(next, c).is_key = next.is_key
            <4>1. next \in ParserState /\ c \in Chars
                BY <1>12, <3>1
            <4> QED BY <4>1, EndsMove
        <3>3. /\ Character(next, c).headers = next.headers /\ Character(next, c).wild = FALSE
              /\ Character(next, c).key = next.key
            BY <1>11, <1>12, <3>1, EndsWrite
        <3>4. Character(next, c).text = Append(next.text, c)
            <4>1. ~ next.is_key /\ Len(next.text) < VALUE_MAX_LEN - 1
                BY <1>7, <1>12, <2>4
            <4> QED BY <1>11, <1>12, <3>1, <4>1, EndsWrite
        <3>5. r = Character(next, c)
            BY <1>14 DEF c
        <3> QED BY <1>1, <1>7, <3>2, <3>3, <3>4, <3>5 DEF c
    <2>6. ASSUME NEW x \in Folds(text) PROVE i + 1 # x + 1 /\ i + 1 # x + 2
        <3>1. x \in Nat /\ i # x /\ i # x + 1
            BY <1>1, <1>9, <1>14
        <3> QED BY <1>1, <3>1
    <2>7. (i + 1) - 1 = i /\ i + 1 >= p + 2 /\ f <= i + 1 /\ i + 1 <= e
        BY <1>1, <1>2
    <2>8. InValue(text, f, r)
        <3>1. r.text = K[r.i - 1] /\ r.i >= p + 2 /\ r.key = RefKey(text, f)
            BY <1>1, <2>3, <2>5, <2>7
        <3> QED BY <2>5, <2>6, <3>1 DEF InValue, p, K, T
    <2> QED BY <1>1, <2>5, <2>7, <2>8 DEF Reading, e
<1> QED BY <1>7, <1>13, <1>14

\* When the field is read to its end, the entry is that of the field.
LEMMA EntryWritten ==
    ASSUME NEW text \in Seq(Chars), UsualMail(text), NEW f, NEW st, Reading(text, f, st),
           st.i = EndOf(text, f)
    PROVE  /\ st.is_key = FALSE /\ [key |-> st.key, value |-> st.text] = HeaderOf(text, f)
           /\ HeaderOf(text, f) \in [key : CText, value : CText]
<1> DEFINE p == ColonOf(text, f)
           e == EndOf(text, f)
           T == FieldKept(text, f)
<1>1. f \in FieldStarts(text) /\ st \in ParserState /\ (InKey(text, f, st) \/ InValue(text, f, st))
    BY DEF Reading
<1>2. p \in Nat /\ e \in Nat /\ p + 2 <= e /\ e <= HeaderEnd(text)
    BY <1>1, FieldShaped DEF FieldShape
<1>3. HasBody(text)
    BY DEF UsualMail
<1>4. HeaderEnd(text) \in Nat /\ HeaderEnd(text) + 3 <= Len(text) /\ Len(text) \in Nat
    BY <1>3, HeaderEndIs
<1>5. ~ InKey(text, f, st)
    <2>1. ~ (e <= p)
        <3> HIDE DEF e, p
        <3> QED BY <1>2
    <2> QED BY <2>1 DEF InKey
<1>6. st.is_key = FALSE /\ st.key = RefKey(text, f) /\ st.text = Kept(text, T)[e - 1]
    BY <1>1, <1>5 DEF InValue
<1>7. Kept(text, T)[e - 1] = FieldValue(text, f)
    <2> DEFINE b == e - 1
    <2>1. \A k \in T : k < e
        BY DEF FieldKept
    <2> HIDE DEF e, T
    <2>2. b \in 0 .. Len(text) /\ \A k \in b + 1 .. Len(text) : ~ (k < e)
        BY <1>2, <1>4
    <2>3. NoneIn(T, b + 1, Len(text))
        BY <2>1, <2>2 DEF NoneIn
    <2> HIDE DEF b
    <2>4. Pick(text, T) = Kept(text, T)[b]
        BY <2>2, <2>3, KeptOutside
    <2> QED BY <2>4 DEF FieldValue, b, T
<1>8. FieldValue(text, f) \in Seq(Chars)
    BY <1>1, ValueUnfolded
<1>9. st.key \in CText
    BY <1>1 DEF ParserState
<1>10. RefKey(text, f) \in CText /\ FieldValue(text, f) \in CText
    BY <1>6, <1>8, <1>9 DEF CText
<1> HIDE DEF p, e, T
<1>11. [key |-> st.key, value |-> st.text] = HeaderOf(text, f)
    BY <1>6, <1>7 DEF HeaderOf
<1> QED BY <1>6, <1>10, <1>11 DEF HeaderOf

\* The round at the end of a field goes to the next field, or, at the blank line,
\* leaves the headers.
LEMMA LastRound ==
    ASSUME NEW text \in Seq(Chars), UsualMail(text), NEW f, NEW st, Reading(text, f, st),
           st.i = EndOf(text, f), st.read <= Len(text) + 7
    PROVE  LET r == Round(st, Append(Received(text), SP), Len(Received(text)))
           IN r \in ParserState => Reading(text, EndOf(text, f) + 2, r) \/ AllRead(text, r)
<1> DEFINE mem == Append(Received(text), SP)
           len == Len(Received(text))
           next == LookAhead(st, mem, len)
           r == Round(st, mem, len)
           end == HeaderEnd(text)
           e == EndOf(text, f)
           h == HeaderOf(text, f)
           more == Append(st.headers, h)
<1>1. /\ f \in FieldStarts(text) /\ st \in ParserState /\ st.done = FALSE /\ st.wild = FALSE
      /\ Collected(text, f - 1, st.headers) /\ st.i = e
      /\ st.headers \in Seq([key : CText, value : CText])
    BY DEF Reading, ParserState
<1>2. /\ st.is_key = FALSE /\ [key |-> st.key, value |-> st.text] = h
      /\ h \in [key : CText, value : CText]
    BY EntryWritten
<1>3. HasBody(text)
    BY DEF UsualMail
<1>4. /\ f \in Nat /\ e \in Nat /\ f <= e /\ e <= end /\ e \in FieldEnds(text) /\ text[e] = CR
      /\ end \in Nat \ {0} /\ end + 3 <= Len(text)
    BY <1>1, <1>3, EndOfIs, HeaderEndIs
<1>5. /\ Collected(text, e + 1, more)
      /\ e = end => /\ Len(more) = Cardinality(FieldStarts(text))
                    /\ \A g \in FieldStarts(text) : more[FieldNumber(text, g)] = HeaderOf(text, g)
    BY <1>1, <1>2, CollectedMore
<1>6. CR \in Chars
    BY TextsAssumption DEF Blank
<1>7. ASSUME next \in ParserState, next.is_key = st.is_key, next.text = st.text,
             next.key = st.key, next.headers = st.headers, next.wild = st.wild
      PROVE  LET s == EndOfHeader(next)
             IN /\ s.headers = more /\ s.text = <<>> /\ s.wild = FALSE
                /\ s.is_key = TRUE /\ s.i = next.i + 2 /\ s.done = next.done
    <2> HIDE DEF next
    <2>1. ~ Wild(next)
        BY <1>7, ReadingFits
    <2>2. next \in ParserState /\ next.wild = FALSE /\ ~ next.is_key
        BY <1>1, <1>2, <1>7
    <2>3. /\ EndOfHeader(next).headers = Append(next.headers, [key |-> next.key, value |-> next.text])
          /\ EndOfHeader(next).text = <<>> /\ EndOfHeader(next).wild = FALSE
        BY <1>6, <2>1, <2>2, EndsWrite
    <2>4. /\ EndOfHeader(next).i = next.i + 2 /\ EndOfHeader(next).done = next.done
          /\ EndOfHeader(next).is_key = TRUE
        BY <1>6, <2>2, EndsMove
    <2>5. Append(next.headers, [key |-> next.key, value |-> next.text]) = more
        BY <1>2, <1>7
    <2> HIDE DEF more
    <2> QED BY <2>3, <2>4, <2>5
<1> HIDE DEF h, more
<1>8. CASE e = end
    <2>1. st.i = HeaderEnd(text)
        BY <1>1, <1>8
    <2>2. /\ next \in ParserState
          /\ next.is_key = st.is_key /\ next.text = st.text /\ next.key = st.key
          /\ next.headers = st.headers /\ next.wild = st.wild
          /\ r = EndOfHeader(next) /\ r.done = TRUE
        BY <1>1, <2>1, BlankLineRound
    <2> HIDE DEF next, r
    <2>3. r.headers = more /\ r.wild = FALSE
        BY <1>7, <2>2
    <2>4. AllRead(text, r)
        BY <1>5, <1>8, <2>2, <2>3 DEF AllRead
    <2> QED BY <2>4 DEF r, mem, len
<1>9. CASE e # end
    <2>1. st.i < HeaderEnd(text) /\ ~ st.is_key
        <3> HIDE DEF e
        <3> QED BY <1>1, <1>2, <1>4, <1>9
    <2>2. text[st.i] = CR /\ st.i \notin Folds(text)
        BY <1>1, <1>4 DEF FieldEnds
    <2>3. /\ next \in ParserState
          /\ next.i = st.i /\ next.done = st.done /\ next.is_key = st.is_key
          /\ next.text = st.text /\ next.key = st.key
          /\ next.headers = st.headers /\ next.wild = st.wild
          /\ r = EndOfHeader(next) /\ st.i + 2 <= end /\ st.i + 2 \in FieldStarts(text)
        BY <1>1, <2>1, <2>2, HeaderRound
    <2> HIDE DEF next, r, e, end
    <2>4. /\ r.headers = more /\ r.text = <<>> /\ r.wild = FALSE /\ r.is_key = TRUE
          /\ r.i = e + 2 /\ r.done = FALSE
        BY <1>1, <1>7, <2>3
    <2> DEFINE g == e + 2
    <2>5. g \in FieldStarts(text) /\ g - 1 = e + 1 /\ r.i = g /\ g \in Nat \ {0}
        BY <1>1, <1>4, <2>3, <2>4
    <2>6. Collected(text, g - 1, r.headers)
        BY <1>5, <2>4, <2>5
    <2> HIDE DEF g
    <2>7. g < ColonOf(text, g) /\ ColonOf(text, g) \in Nat /\ ColonOf(text, g) + 2 <= EndOf(text, g)
          /\ EndOf(text, g) \in Nat
        BY <2>5, FieldShaped DEF FieldShape
    <2>8. g <= r.i /\ r.i <= ColonOf(text, g) /\ r.i <= EndOf(text, g)
        BY <2>5, <2>7
    <2>9. SubSeq(text, g, r.i - 1) = <<>>
        <3> DEFINE b == g - 1
                   q == SubSeq(text, g, b)
        <3>1. b \in Nat /\ g <= b + 1 /\ b <= Len(text) /\ b - g + 1 = 0
            BY <1>4, <2>3, <2>5, <1>1 DEF g
        <3> HIDE DEF b
        <3>2. q \in Seq(Chars) /\ Len(q) = 0
            BY <2>5, <3>1, PartOf
        <3> HIDE DEF q
        <3>3. q = <<>>
            BY <3>2
        <3> QED BY <2>5, <3>3 DEF q, b
    <2>10. InKey(text, g, r)
        BY <2>4, <2>8, <2>9 DEF InKey
    <2>11. r \in ParserState => Reading(text, g, r)
        BY <2>4, <2>5, <2>6, <2>8, <2>10 DEF Reading
    <2> QED BY <2>11 DEF r, mem, len, g, e
<1> QED BY <1>8, <1>9

\* After every round the parser of a usual mail reads a field, or has read all.
LEMMA FieldsRead ==
    ASSUME NEW text \in Seq(Chars), UsualMail(text)
    PROVE  LET end == Rounds(Received(text), SP)[Len(Received(text))]
           IN AllRead(text, end)
<1> DEFINE data == Received(text)
           mem == Append(data, SP)
           len == Len(data)
           F == Rounds(data, SP)
           Goes(st) == (\E f : Reading(text, f, st)) \/ AllRead(text, st)
           U == {n \in 0 .. len : Goes(F[n])}
<1>1. data \in Seq(Chars) /\ len = Len(text) + 5 /\ len \in Nat
    BY ReceivedIs
<1>2. SP \in Chars
    BY TextsAssumption DEF Blank
<1>3. /\ F \in [0 .. len -> ParserState]
      /\ \A n \in 0 .. len : F[n].read <= len + 2
      /\ F[0] = Start
      /\ \A n \in 1 .. len : F[n] =
            IF F[n - 1].done \/ F[n - 1].i > len THEN F[n - 1] ELSE Round(F[n - 1], mem, len)
    <2> HIDE DEF data
    <2> QED BY <1>1, <1>2, RoundsDef
<1>4. HasBody(text)
    BY DEF UsualMail
<1>5. HeaderEnd(text) \in Nat \ {0} /\ HeaderEnd(text) + 3 <= Len(text)
    BY <1>4, HeaderEndIs
<1>6. F[len].done = TRUE
    BY ParserStops
<1> HIDE DEF F
<1>7. Reading(text, 1, Start)
    <2>1. 1 \in FieldStarts(text)
        BY <1>5 DEF FieldStarts
    <2>2. /\ Start.done = FALSE /\ Start.i = 1 /\ Start.is_key = TRUE /\ Start.wild = FALSE
          /\ Start.headers = <<>> /\ Start.text = <<>>
        BY DEF Start
    <2>3. Start \in ParserState
        <3>1. 0 \in 0 .. len
            BY <1>1
        <3> QED BY <1>3, <3>1
    <2>4. /\ 1 < ColonOf(text, 1) /\ ColonOf(text, 1) \in Nat
          /\ ColonOf(text, 1) + 2 <= EndOf(text, 1) /\ EndOf(text, 1) \in Nat
        BY <2>1, FieldShaped DEF FieldShape
    <2>5. 1 <= ColonOf(text, 1) /\ 1 <= EndOf(text, 1)
        BY <2>4
    <2>6. InKey(text, 1, Start)
        <3>1. SubSeq(text, 1, 0) = <<>>
            OBVIOUS
        <3> QED BY <2>2, <2>5, <3>1 DEF InKey
    <2>7. Collected(text, 0, <<>>)
        <3>1. \A g \in FieldStarts(text) : g \in Nat \ {0}
            BY <1>5 DEF FieldStarts
        <3>2. StartsUpTo(text, 0) = {}
            BY <3>1 DEF StartsUpTo
        <3>3. Len(<<>>) = Cardinality(StartsUpTo(text, 0))
            BY <3>2, FS_EmptySet
        <3>4. \A g \in FieldStarts(text) : ~ (g <= 0)
            BY <3>1
        <3> QED BY <3>3, <3>4 DEF Collected
    <2> QED BY <2>1, <2>2, <2>3, <2>5, <2>6, <2>7 DEF Reading
<1>8. 0 \in U
    BY <1>1, <1>3, <1>7
<1>9. ASSUME NEW n \in 0 .. len - 1, n \in U PROVE n + 1 \in U
    <2> DEFINE st == F[n]
               r == F[n + 1]
    <2> HIDE DEF data, len, mem
    <2>1. n + 1 \in 1 .. len /\ (n + 1) - 1 = n /\ n \in 0 .. len /\ n + 1 \in 0 .. len
        BY <1>1
    <2>2. /\ st \in ParserState /\ r \in ParserState /\ st.read <= len + 2
          /\ r = IF st.done \/ st.i > len THEN st ELSE Round(st, mem, len)
        <3>1. F[n + 1] = IF F[(n + 1) - 1].done \/ F[(n + 1) - 1].i > len THEN F[(n + 1) - 1]
                         ELSE Round(F[(n + 1) - 1], mem, len)
            BY <1>3, <2>1
        <3>2. F[n] \in ParserState /\ F[n + 1] \in ParserState /\ F[n].read <= len + 2
            BY <1>3, <2>1
        <3> QED BY <2>1, <3>1, <3>2
    <2>3. Goes(st)
        BY <1>9
    <2>4. SUFFICES Goes(r)
        BY <2>1
    <2> HIDE DEF st, r
    <2>5. CASE AllRead(text, st)
        <3>1. r = st
            BY <2>2, <2>5 DEF AllRead
        <3> QED BY <2>5, <3>1
    <2>6. CASE \E f : Reading(text, f, st)
        <3>1. PICK f : Reading(text, f, st)
            BY <2>6
        <3>2. /\ f \in FieldStarts(text) /\ st.done = FALSE /\ st.i \in Nat \ {0}
              /\ st.i <= EndOf(text, f) /\ (InKey(text, f, st) \/ InValue(text, f, st))
            BY <3>1 DEF Reading, ParserState
        <3>3. EndOf(text, f) \in Nat /\ EndOf(text, f) <= HeaderEnd(text)
            BY <1>4, <3>2, EndOfIs
        <3>4. r = Round(st, mem, len)
            <4>1. ~ (st.i > len)
                BY <1>1, <1>5, <3>2, <3>3
            <4> QED BY <2>2, <3>2, <4>1
        <3>5. st.read <= Len(text) + 7
            BY <1>1, <2>2 DEF ParserState
        <3>6. r = Round(st, Append(Received(text), SP), Len(Received(text))) /\ r \in ParserState
            BY <2>2, <3>4 DEF mem, len, data
        <3>7. CASE InKey(text, f, st)
            <4>1. Reading(text, f, r)
                BY <3>1, <3>5, <3>6, <3>7, KeyRound
            <4> QED BY <4>1
        <3>8. CASE InValue(text, f, st) /\ st.i < EndOf(text, f)
            <4>1. Reading(text, f, r)
                BY <3>1, <3>5, <3>6, <3>8, ValueRound
            <4> QED BY <4>1
        <3>9. CASE st.i = EndOf(text, f)
            <4>1. Reading(text, EndOf(text, f) + 2, r) \/ AllRead(text, r)
                BY <3>1, <3>5, <3>6, <3>9, LastRound
            <4> QED BY <4>1
        <3>10. st.i < EndOf(text, f) \/ st.i = EndOf(text, f)
            BY <3>2, <3>3
        <3> QED BY <3>2, <3>7, <3>8, <3>9, <3>10
    <2> QED BY <2>3, <2>5, <2>6
<1> HIDE DEF U, data, len
<1>10. 0 .. len \subseteq U
    BY <1>1, <1>8, <1>9, UpToN
<1>11. Goes(F[len])
    BY <1>1, <1>10 DEF U
<1>12. AllRead(text, F[len])
    <2>1. ASSUME NEW f, Reading(text, f, F[len]) PROVE FALSE
        BY <1>6, <2>1 DEF Reading
    <2> QED BY <1>11, <2>1
<1> QED BY <1>12 DEF F, len, data

\* The fields of every usual mail arrive: request_parse_data writes one entry
\* for each of them, in their order and inside the headers array, with the name
\* that was sent and a value whose canonical form is that of what was sent,
\* however the field was folded.
THEOREM FieldsArrive == TextSpec => []FieldsSurvive
<1>1. InputsTyped => FieldsSurvive
    <2> DEFINE got == request_parse_data(Received(input), SP)
    <2> SUFFICES ASSUME InputsTyped, job = "mail", UsualMail(input)
                 PROVE  /\ ~ got.wild
                        /\ Len(got.headers) = Cardinality(FieldStarts(input))
                        /\ \A start \in FieldStarts(input) :
                              LET header == got.headers[FieldNumber(input, start)]
                              IN /\ header.key = RefKey(input, start)
                                 /\ CanonValue(header.value) = RefValue(RawValue(input, start))
        BY DEF FieldsSurvive
    <2> DEFINE end == Rounds(Received(input), SP)[Len(Received(input))]
    <2>1. input \in Seq(Chars)
        BY DEF InputsTyped, TextJobs
    <2>2. got.headers = end.headers /\ got.wild = end.wild
        BY DEF request_parse_data
    <2>3. AllRead(input, end)
        BY <2>1, FieldsRead
    <2> HIDE DEF got, end
    <2>4. /\ got.wild = FALSE /\ Len(got.headers) = Cardinality(FieldStarts(input))
          /\ \A g \in FieldStarts(input) : got.headers[FieldNumber(input, g)] = HeaderOf(input, g)
        BY <2>2, <2>3 DEF AllRead
    <2>5. ASSUME NEW g \in FieldStarts(input)
          PROVE  /\ HeaderOf(input, g).key = RefKey(input, g)
                 /\ CanonValue(HeaderOf(input, g).value) = RefValue(RawValue(input, g))
        <3>1. HeaderOf(input, g).key = RefKey(input, g) /\ HeaderOf(input, g).value = FieldValue(input, g)
            BY DEF HeaderOf
        <3>2. CanonValue(FieldValue(input, g)) = RefValue(RawValue(input, g))
            BY <2>1, ValueArrives
        <3> QED BY <3>1, <3>2
    <2> QED BY <2>4, <2>5
<1> QED BY <1>1, TextsTyped, PTL

-----------------------------------------------------------------------------
(* The signature's own value *)

\* One more character to a text of which some characters go.
LEMMA WithoutAppend ==
    ASSUME NEW S, NEW s \in Seq(S), NEW c \in S, NEW C
    PROVE  Without(Append(s, c), C) = IF c \in C THEN Without(s, C) ELSE Append(Without(s, C), c)
<1> DEFINE r == Append(s, c)
           n == Len(s)
           A == {i \in DOMAIN s : s[i] \notin C}
           B == {i \in DOMAIN r : r[i] \notin C}
<1>1. /\ n \in Nat /\ DOMAIN s = 1 .. n /\ DOMAIN r = 1 .. n + 1 /\ r[n + 1] = c
      /\ \A i \in 1 .. n : r[i] = s[i]
    OBVIOUS
<1> HIDE DEF r, n
<1>2. (\A i \in 1 .. n : i \in 1 .. n + 1) /\ n + 1 \in 1 .. n + 1
    BY <1>1
<1>3. SameUpTo(A, B, n)
    BY <1>1, <1>2 DEF SameUpTo
<1>4. n + 1 \in B <=> c \notin C
    BY <1>1, <1>2
<1>5. Without(s, C) = Pick(s, A) /\ Without(r, C) = Pick(r, B)
    BY DEF Without
<1> HIDE DEF A, B
<1>6. Pick(Append(s, c), B) = IF Len(s) + 1 \in B THEN Append(Pick(s, A), c) ELSE Pick(s, A)
    <2>1. SameUpTo(A, B, Len(s))
        BY <1>3 DEF n
    <2> QED BY <2>1, PickAppend
<1>7. Pick(r, B) = IF n + 1 \in B THEN Append(Pick(s, A), c) ELSE Pick(s, A)
    BY <1>6 DEF r, n
<1> QED BY <1>4, <1>5, <1>7 DEF r

\* Of a stretch that is kept every character is there.
LEMMA KeptMany ==
    ASSUME NEW S, NEW s \in Seq(S), NEW T, NEW a \in 1 .. Len(s), a .. Len(s) \subseteq T
    PROVE  Len(Pick(s, T)) >= Len(s) - a + 1
<1> DEFINE F == Kept(s, T)
           n == Len(s)
           m == n - a + 1
           U == {j \in 0 .. m : Len(F[a - 1 + j]) >= j}
<1>0. n \in Nat /\ m \in Nat /\ a \in Nat /\ a >= 1 /\ a <= n /\ a - 1 + m = n
    OBVIOUS
<1>1. /\ F \in [0 .. n -> Seq(S)]
      /\ \A i \in 1 .. n : F[i] = IF i \in T THEN Append(F[i - 1], s[i]) ELSE F[i - 1]
      /\ \A i \in 1 .. n : s[i] \in S
    BY KeptDef
<1>2. a .. n \subseteq T /\ Pick(s, T) = F[n]
    BY DEF Pick
<1> HIDE DEF F, n
<1>3. 0 \in U
    <2>1. a - 1 + 0 = a - 1 /\ a - 1 \in 0 .. n
        BY <1>0
    <2>2. F[a - 1] \in Seq(S)
        BY <1>1, <2>1
    <2>3. Len(F[a - 1]) >= 0
        BY <2>2
    <2> QED BY <1>0, <2>1, <2>3
<1>4. ASSUME NEW j \in 0 .. m - 1, j \in U PROVE j + 1 \in U
    <2> DEFINE i == a - 1 + j
               g == F[i]
    <2>1. /\ j + 1 \in 0 .. m /\ i \in 0 .. n /\ i + 1 \in 1 .. n /\ (i + 1) - 1 = i
          /\ a - 1 + (j + 1) = i + 1 /\ i + 1 \in a .. n /\ j \in Nat
        BY <1>0
    <2>2. g \in Seq(S) /\ s[i + 1] \in S /\ Len(g) >= j
        BY <1>1, <1>4, <2>1
    <2>3. F[i + 1] = Append(g, s[i + 1])
        BY <1>1, <1>2, <2>1
    <2> HIDE DEF i, g
    <2>4. Len(F[i + 1]) >= j + 1
        <3>1. Len(Append(g, s[i + 1])) = Len(g) + 1 /\ Len(g) \in Nat
            BY <2>2
        <3> QED BY <2>1, <2>2, <2>3, <3>1
    <2> QED BY <2>1, <2>4
<1> HIDE DEF U
<1>5. 0 .. m \subseteq U
    <2> HIDE DEF m
    <2> QED BY <1>0, <1>3, <1>4, UpToN
<1>6. m \in U
    BY <1>0, <1>5
<1>7. Len(F[n]) >= m
    BY <1>0, <1>6 DEF U
<1> QED BY <1>2, <1>7 DEF n

\* Two characters are found where they stand.
LEMMA TwoCharsAt ==
    ASSUME NEW S, NEW s \in Seq(S), NEW k \in Nat \ {0}, NEW a \in S, NEW b \in S,
           k + 1 <= Len(s), s[k] = a, s[k + 1] = b
    PROVE  At(s, k, <<a, b>>)
<1> DEFINE two == <<a, b>>
           p == SubSeq(s, k, k + 1)
<1>1. two \in Seq(S) /\ Len(two) = 2 /\ two[1] = a /\ two[2] = b
    OBVIOUS
<1>2. k + 1 \in Nat /\ k <= (k + 1) + 1 /\ (k + 1) - k + 1 = 2 /\ k + 2 - 1 = k + 1
      /\ k + 1 - 1 = k
    OBVIOUS
<1>3. p \in Seq(S) /\ Len(p) = (k + 1) - k + 1 /\ \A j \in 1 .. (k + 1) - k + 1 : p[j] = s[k + j - 1]
    BY <1>2, PartOf
<1> HIDE DEF two, p
<1>4. 1 \in 1 .. 2 /\ 2 \in 1 .. 2 /\ \A j \in 1 .. 2 : j = 1 \/ j = 2
    OBVIOUS
<1>5. Len(p) = 2 /\ p[1] = a /\ p[2] = b
    BY <1>2, <1>3, <1>4
<1>6. p = two
    <2>1. \A j \in 1 .. 2 : p[j] = two[j]
        BY <1>1, <1>4, <1>5
    <2>2. p \in Seq(S) /\ two \in Seq(S) /\ Len(p) = Len(two) /\ \A j \in 1 .. Len(p) : p[j] = two[j]
        BY <1>1, <1>3, <1>5, <2>1
    <2> QED BY <2>2, SameSeq
<1>7. SubSeq(s, k, k + Len(two) - 1) = two /\ k + Len(two) - 1 <= Len(s)
    BY <1>1, <1>2, <1>6 DEF p
<1> QED BY <1>7 DEF At, two

\* The '=' of r are its last characters.
Padded(r) == \A k \in 1 .. Len(r) : r[k] = "=" => \A l \in k .. Len(r) : r[l] = "="

\* The cut is behind the last "b=", however much white space the value has lost:
\* an earlier end of the search would have to lie inside the value.
LEMMA CutBehindTag ==
    ASSUME NEW S, NEW w \in Seq(S), NEW r \in Seq(S), Len(w) >= 3,
           w[Len(w) - 1] = "b", w[Len(w)] = "=", Padded(r)
    PROVE  RemoveSignature(w \o r, Without(r, WSP)) = w
<1> DEFINE str == w \o r
           b == Without(r, WSP)
           T == {k \in DOMAIN r : r[k] \notin WSP}
           L == Len(w)
           n == Len(r)
           top == Len(str) - Len(b) + 1
           found == {i \in 3 .. top : At(str, i - 1, <<"b", "=">>)}
<1>0. /\ L \in Nat /\ n \in Nat /\ L >= 3 /\ w[L - 1] = "b" /\ w[L] = "=" /\ L - 1 \in 1 .. L
      /\ L \in 1 .. L
    OBVIOUS
<1>1. /\ str \in Seq(S) /\ Len(str) = L + n /\ (\A k \in 1 .. L : str[k] = w[k])
      /\ \A k \in 1 .. n : str[L + k] = r[k]
    BY Joined
<1>2. b = Pick(r, T) /\ b \in Seq(S)
    BY PickTyped DEF Without
<1>3. Len(b) \in Nat /\ Len(b) <= n
    <2>1. (\A k \in 1 .. Len(r) : k \in T => k >= 1) /\ 1 \in Nat \ {0}
        OBVIOUS
    <2>2. Len(r) \in Nat /\ Len(r) >= 1 - 1 /\ 1 <= Len(r) + 1 /\ Len(r) <= Len(r) /\ Len(r) - 1 + 1 = n
        OBVIOUS
    <2> HIDE DEF T
    <2>3. Len(Kept(r, T)[Len(r)]) <= Len(r) - 1 + 1
        BY <2>1, <2>2, KeptLength
    <2>4. Len(b) <= n
        BY <1>2, <2>2, <2>3 DEF Pick
    <2> QED BY <1>2, <2>4
<1>4. RemoveSignature(str, b) = IF found = {} THEN str ELSE SubSeq(str, 1, Max(found))
    BY DEF RemoveSignature
<1> HIDE DEF str, b, L, n
<1>5. str[L - 1] = "b" /\ str[L] = "="
    BY <1>0, <1>1
<1>6. L \in found
    <2>1. L - 1 \in Nat \ {0} /\ (L - 1) + 1 = L /\ L <= Len(str) /\ L \in 3 .. top
        BY <1>0, <1>1, <1>3
    <2>2. "b" \in S /\ "=" \in S
        <3>1. w[L - 1] \in S /\ w[L] \in S
            BY <1>0 DEF L
        <3> QED BY <1>0, <3>1
    <2>3. At(str, L - 1, <<"b", "=">>)
        BY <1>1, <1>5, <2>1, <2>2, TwoCharsAt
    <2> QED BY <2>1, <2>3
<1>7. ASSUME NEW i \in found, i > L PROVE FALSE
    <2> DEFINE j == i - 1
               k == j - L
    <2>1. i \in 3 .. top /\ At(str, i - 1, <<"b", "=">>)
        BY <1>7
    <2>2. i \in Nat /\ j \in Nat \ {0} /\ j >= L /\ j + 1 = i
        BY <1>0, <1>1, <1>3, <1>7, <2>1
    <2>3. j + 1 <= Len(str) /\ str[j] = "b" /\ str[j + 1] = "="
        <3>1. At(str, j, <<"b", "=">>)
            BY <2>1
        <3> HIDE DEF j
        <3> QED BY <1>1, <2>2, <3>1, TwoChars
    <2>4. j # L
        BY <1>5, <2>3
    <2>5. k \in 1 .. n /\ k + 1 \in 1 .. n /\ L + k = j /\ L + (k + 1) = j + 1
        BY <1>0, <1>1, <2>2, <2>3, <2>4
    <2> HIDE DEF j, k
    <2>6. r[k] = "b" /\ r[k + 1] = "="
        BY <1>1, <2>3, <2>5
    <2>7. \A l \in k + 1 .. n : r[l] = "="
        BY <2>5, <2>6 DEF Padded, n
    <2>8. k .. n \subseteq T
        <3>1. "b" \notin WSP /\ "=" \notin WSP
            BY DEF WSP, SP, TAB
        <3>2. \A l \in k .. n : l \in 1 .. n /\ (l = k \/ l \in k + 1 .. n)
            BY <1>0, <2>5
        <3>3. \A l \in k .. n : r[l] \notin WSP
            BY <2>6, <2>7, <3>1, <3>2
        <3> QED BY <3>2, <3>3 DEF n
    <2>9. Len(b) >= n - k + 1
        <3> HIDE DEF T
        <3>1. k \in 1 .. Len(r) /\ k .. Len(r) \subseteq T
            BY <2>5, <2>8 DEF n
        <3>2. Len(Pick(r, T)) >= Len(r) - k + 1
            BY <3>1, KeptMany
        <3> QED BY <1>2, <3>2 DEF n
    <2>10. i <= L + n - Len(b) + 1 /\ i = L + k + 1
        <3> DEFINE lb == Len(b)
        <3>1. i \in 3 .. L + n - lb + 1
            <4>0. Len(str) = L + n
                BY <1>1
            <4>1. top = L + n - lb + 1
                BY <1>0, <1>3, <4>0
            <4>2. i \in 3 .. top
                BY <2>1
            <4> HIDE DEF top, lb
            <4> QED BY <4>1, <4>2
        <3>2. lb \in Nat
            BY <1>3
        <3> HIDE DEF lb
        <3>3. i <= L + n - lb + 1
            BY <1>0, <2>2, <3>1, <3>2
        <3>4. i = L + k + 1
            <4>1. k \in Nat
                BY <2>5
            <4> QED BY <1>0, <2>2, <2>5, <4>1
        <3> QED BY <3>3, <3>4 DEF lb
    <2> QED BY <1>0, <1>3, <2>5, <2>9, <2>10
<1>8. Max(found) = L
    <2>1. top \in Nat /\ found \subseteq 0 .. top
        BY <1>0, <1>1, <1>3
    <2> DEFINE m == Max(found)
    <2>2. m \in found /\ \A y \in found : m >= y
        <3> HIDE DEF found, top
        <3> QED BY <1>6, <2>1, MaxIn
    <2>3. m \in Nat /\ m >= L /\ ~ (m > L)
        BY <1>6, <1>7, <2>1, <2>2
    <2> HIDE DEF m
    <2>4. m = L
        BY <1>0, <2>3
    <2> QED BY <2>4 DEF m
<1>9. SubSeq(str, 1, L) = w
    <2> DEFINE q == SubSeq(str, 1, L)
    <2>1. 1 \in Nat \ {0} /\ 1 <= L + 1 /\ L <= Len(str) /\ L - 1 + 1 = L
          /\ \A k \in 1 .. L : 1 + k - 1 = k
        BY <1>0, <1>1
    <2>2. q \in Seq(S) /\ Len(q) = L - 1 + 1 /\ \A k \in 1 .. L - 1 + 1 : q[k] = str[1 + k - 1]
        BY <1>0, <1>1, <2>1, PartOf
    <2> HIDE DEF q
    <2>3. Len(q) = Len(w) /\ \A k \in 1 .. Len(q) : q[k] = w[k]
        BY <1>1, <2>1, <2>2 DEF L
    <2>4. q = w
        BY <2>2, <2>3, SameSeq
    <2> QED BY <2>4 DEF q
<1> HIDE DEF found
<1>10. RemoveSignature(str, b) = w
    BY <1>4, <1>6, <1>8, <1>9
<1> QED BY <1>10 DEF str, b

\* Up to position n of s, whose tag "b=" is at i, the canonical form is that of
\* the text up to the tag, and behind it r, which is the value but for blanks.
SigForm(s, i, n, r) ==
    LET f == Form(SubSeq(s, 1, n))
        v == RefValue(SubSeq(s, 1, i + 1)) \o r
    IN /\ r \in Seq(Chars)
       /\ f.value = v
       /\ f.open = IF f.word THEN v ELSE Append(v, SP)
       /\ Without(r, WSP) = Kept(s, Span(s, i + 2, {TagEnd}, WSP))[n]
       /\ Padded(r)
       /\ \A k \in 1 .. Len(r) : r[k] = "=" => \E q \in i + 2 .. n : s[q] = "="

\* One more '=' or, without '=' before, any other character.
LEMMA PaddedMore ==
    ASSUME NEW r \in Seq(Chars), NEW c \in Chars, Padded(r),
           c = "=" \/ \A k \in 1 .. Len(r) : r[k] # "="
    PROVE  Padded(Append(r, c))
<1> DEFINE q == Append(r, c)
           n == Len(r)
<1>1. n \in Nat /\ Len(q) = n + 1 /\ q[n + 1] = c /\ \A k \in 1 .. n : q[k] = r[k]
    OBVIOUS
<1>2. \A k \in 1 .. n : r[k] = "=" => c = "=" /\ \A l \in k .. n : r[l] = "="
    BY DEF Padded
<1> HIDE DEF q, n
<1>3. ASSUME NEW k \in 1 .. n + 1, q[k] = "=", NEW l \in k .. n + 1 PROVE q[l] = "="
    <2>1. CASE k = n + 1
        <3>1. l = k
            BY <1>1, <2>1
        <3> QED BY <1>3, <3>1
    <2>2. CASE k # n + 1
        <3>1. k \in 1 .. n
            BY <1>1, <2>2
        <3>2. c = "=" /\ \A j \in k .. n : r[j] = "="
            BY <1>1, <1>2, <1>3, <3>1
        <3>3. l = n + 1 \/ (l \in k .. n /\ l \in 1 .. n)
            BY <1>1, <3>1
        <3> QED BY <1>1, <3>2, <3>3
    <2> QED BY <2>1, <2>2
<1>4. Padded(q)
    BY <1>1, <1>3 DEF Padded
<1> QED BY <1>4 DEF q

\* One more character of the value.
LEMMA SigFormMore ==
    ASSUME NEW s \in Seq(Chars), NEW i \in Nat \ {0}, NEW n \in Nat, i + 1 <= n, n < Len(s),
           \A j \in i + 2 .. Len(s) : s[j] # TagEnd /\ s[j] \notin {CR, LF},
           \A j \in i + 2 .. Len(s) : s[j] = "=" =>
               \A k \in j .. Len(s) : s[k] = "=" \/ \A m \in k .. Len(s) : s[m] \in WSP,
           NEW r, SigForm(s, i, n, r)
    PROVE  \E q : SigForm(s, i, n + 1, q)
<1> DEFINE p == SubSeq(s, 1, n)
           c == s[n + 1]
           V == RefValue(SubSeq(s, 1, i + 1))
           f == Form(p)
           g == Form(SubSeq(s, 1, n + 1))
           T == Span(s, i + 2, {TagEnd}, WSP)
           K == Kept(s, T)
           w == Without(r, WSP)
<1>0. Len(s) \in Nat /\ n + 1 \in 1 .. Len(s) /\ n + 1 \in i + 2 .. Len(s) /\ (n + 1) - 1 = n
    OBVIOUS
<1>1. p \in Seq(Chars) /\ SubSeq(s, 1, n + 1) = Append(p, c) /\ c \in Chars
    <2>1. 1 \in Nat \ {0} /\ 1 <= n + 1 /\ n + 1 <= Len(s) /\ n <= Len(s)
        BY <1>0
    <2>2. p \in Seq(Chars)
        BY <2>1, PartOf
    <2>3. SubSeq(s, 1, n + 1) = Append(p, c)
        BY <2>1, PartMore
    <2> QED BY <1>0, <2>2, <2>3
<1>2. g = Grow(f, c) /\ f \in Forms
    <2> HIDE DEF p, c
    <2>1. Form(Append(p, c)) = Grow(Form(p), c) /\ Form(p) \in Forms
        BY <1>1, FormAppend, FormTyped
    <2> QED BY <1>1, <2>1
<1>3. V \in Seq(Chars)
    <2> DEFINE u == SubSeq(s, 1, i + 1)
    <2>1. 1 \in Nat \ {0} /\ i + 1 \in Nat /\ 1 <= (i + 1) + 1 /\ i + 1 <= Len(s)
        BY <1>0
    <2>2. u \in Seq(Chars)
        BY <2>1, PartOf
    <2> HIDE DEF u
    <2>3. Form(u) \in Forms /\ Form(u).value = RefValue(u)
        BY <2>2, FormTyped DEF Form
    <2>4. RefValue(u) \in Seq(Chars)
        BY <2>3 DEF Forms
    <2> QED BY <2>4 DEF u
<1>4. /\ r \in Seq(Chars) /\ f.value = V \o r
      /\ f.open = (IF f.word THEN V \o r ELSE Append(V \o r, SP))
      /\ w = K[n] /\ Padded(r)
      /\ \A k \in 1 .. Len(r) : r[k] = "=" => \E q \in i + 2 .. n : s[q] = "="
    BY DEF SigForm
<1>5. K[n + 1] = IF n + 1 \in T THEN Append(K[n], c) ELSE K[n]
    <2>1. \A k \in 1 .. Len(s) : K[k] = IF k \in T THEN Append(K[k - 1], s[k]) ELSE K[k - 1]
        <3> HIDE DEF T
        <3> QED BY KeptDef
    <2> HIDE DEF K, T
    <2> QED BY <1>0, <2>1
<1>6. n + 1 \in T <=> c \notin WSP
    <2>1. \A j \in i + 2 .. n + 1 : j \in i + 2 .. Len(s)
        BY <1>0
    <2>2. \A j \in i + 2 .. n + 1 : s[j] \notin {TagEnd}
        BY <2>1
    <2> QED BY <1>0, <2>2 DEF Span
<1>7. c \in Blank <=> c \in WSP
    <2>1. c \notin {CR, LF}
        BY <1>0
    <2> QED BY <2>1 DEF Blank, WSP
<1>8. EndsInWord(p) <=> s[n] \notin Blank
    <2>1. 1 \in Nat \ {0} /\ 1 <= n + 1 /\ n <= Len(s) /\ n - 1 + 1 = n /\ n \in 1 .. n /\ 1 + n - 1 = n
          /\ n > 0
        BY <1>0
    <2>2. p \in Seq(Chars) /\ Len(p) = n - 1 + 1 /\ \A k \in 1 .. n - 1 + 1 : p[k] = s[1 + k - 1]
        BY <2>1, PartOf
    <2> HIDE DEF p
    <2>3. Len(p) = n /\ p[n] = s[n]
        BY <2>1, <2>2
    <2> QED BY <2>1, <2>3 DEF EndsInWord
<1>9. f.word <=> s[n] \notin Blank
    BY <1>8 DEF Form
<1>10. \A j \in i + 2 .. n : j \in i + 2 .. n + 1
    BY <1>0
<1> DEFINE vr == V \o r
<1> HIDE DEF p, c, V, f, g, T, K, w
<1>11. vr \in Seq(Chars) /\ SP \in Chars
    <2>1. vr \in Seq(Chars)
        BY <1>3, <1>4, Joined
    <2> QED BY <2>1, TextsAssumption DEF Blank
<1>12. CASE c \in Blank
    <2>1. K[n + 1] = w
        BY <1>4, <1>5, <1>6, <1>7, <1>12
    <2>2. f.value = vr /\ f.open = (IF f.word THEN vr ELSE Append(vr, SP))
        BY <1>4
    <2> HIDE DEF vr
    <2>3. g.value = vr /\ g.word = FALSE /\ g.open = Append(vr, SP)
        <3>1. CASE f.word
            <4>1. g = [value |-> f.value, open |-> Append(f.open, SP), word |-> FALSE]
                BY <1>2, <1>12, <3>1 DEF Grow
            <4> QED BY <2>2, <3>1, <4>1
        <3>2. CASE ~ f.word
            <4>1. g = f /\ f.word \in BOOLEAN
                BY <1>2, <1>12, <3>2 DEF Grow, Forms
            <4> QED BY <2>2, <3>2, <4>1
        <3> QED BY <3>1, <3>2
    <2>4. ASSUME NEW k \in 1 .. Len(r), r[k] = "=" PROVE \E q \in i + 2 .. n + 1 : s[q] = "="
        <3>1. PICK q \in i + 2 .. n : s[q] = "="
            BY <1>4, <2>4
        <3> QED BY <1>10, <3>1
    <2>5. SigForm(s, i, n + 1, r)
        BY <1>4, <2>1, <2>3, <2>4 DEF SigForm, g, vr, V, w, K, T
    <2> QED BY <2>5
<1>13. CASE c \notin Blank
    <2>1. K[n + 1] = Append(w, c) /\ c \notin WSP
        BY <1>4, <1>5, <1>6, <1>7, <1>13
    <2>2. g.value = Append(f.open, c) /\ g.open = Append(f.open, c) /\ g.word = TRUE
        <3>1. g = [value |-> Append(f.open, c), open |-> Append(f.open, c), word |-> TRUE]
            BY <1>2, <1>13 DEF Grow
        <3> QED BY <3>1
    <2>3. ASSUME NEW k \in 1 .. Len(r), r[k] = "=" PROVE c = "=" /\ f.word
        <3>1. PICK q \in i + 2 .. n : s[q] = "="
            BY <1>4, <2>3
        <3>2. q \in i + 2 .. Len(s) /\ n \in q .. Len(s) /\ n + 1 \in q .. Len(s)
              /\ n + 1 \in n .. Len(s) /\ n + 1 \in n + 1 .. Len(s)
            BY <1>0, <3>1
        <3>3. \A j \in q .. Len(s) : s[j] = "=" \/ \A m \in j .. Len(s) : s[m] \in WSP
            BY <3>1, <3>2
        <3>4. s[n + 1] \notin WSP
            BY <2>1 DEF c
        <3>5. s[n + 1] = "=" /\ s[n] = "="
            BY <3>2, <3>3, <3>4
        <3>6. s[n] \notin Blank
            BY <3>5 DEF Blank, SP, TAB, CR, LF
        <3> QED BY <1>9, <3>5, <3>6 DEF c
    <2>4. CASE f.word
        <3> DEFINE q == Append(r, c)
        <3>1. Append(f.open, c) = V \o q
            <4>1. Append(f.open, c) = Append(V \o r, c)
                BY <1>4, <2>4
            <4>2. V \o Append(r, c) = Append(V \o r, c)
                <5>1. V \in Seq(Chars) /\ r \in Seq(Chars) /\ c \in Chars
                    BY <1>1, <1>3, <1>4
                <5> QED BY <5>1, JoinAppend, Zenon
            <4> QED BY <4>1, <4>2
        <3>2. Without(q, WSP) = Append(w, c)
            BY <1>1, <1>4, <2>1, WithoutAppend DEF w
        <3>3. Padded(q)
            BY <1>1, <1>4, <2>3, PaddedMore
        <3>4. /\ q \in Seq(Chars) /\ Len(q) = Len(r) + 1 /\ q[Len(r) + 1] = c /\ Len(r) \in Nat
              /\ \A k \in 1 .. Len(r) : q[k] = r[k]
            BY <1>1, <1>4
        <3> HIDE DEF q
        <3>5. ASSUME NEW k \in 1 .. Len(q), q[k] = "=" PROVE \E x \in i + 2 .. n + 1 : s[x] = "="
            <4>1. k = Len(r) + 1 \/ k \in 1 .. Len(r)
                BY <3>4
            <4>2. CASE k = Len(r) + 1
                <5>1. s[n + 1] = "=" /\ n + 1 \in i + 2 .. n + 1
                    BY <1>0, <3>4, <3>5, <4>2 DEF c
                <5> QED BY <5>1
            <4>3. CASE k \in 1 .. Len(r)
                <5>1. PICK x \in i + 2 .. n : s[x] = "="
                    BY <1>4, <3>4, <3>5, <4>3
                <5> QED BY <1>10, <5>1
            <4> QED BY <4>1, <4>2, <4>3
        <3>6. SigForm(s, i, n + 1, q)
            <4>1. g.value = V \o q /\ g.open = V \o q /\ g.word = TRUE
                BY <2>2, <3>1
            <4> QED BY <2>1, <3>2, <3>3, <3>4, <3>5, <4>1 DEF SigForm, g, V, K, T
        <3> QED BY <3>6
    <2>5. CASE ~ f.word
        <3> DEFINE o == Append(r, SP)
                   q == Append(o, c)
        <3>0. o \in Seq(Chars) /\ \A k \in 1 .. Len(r) : r[k] # "="
            BY <1>4, <1>11, <2>3, <2>5
        <3>00. /\ Len(o) = Len(r) + 1 /\ o[Len(r) + 1] = SP /\ Len(r) \in Nat
               /\ \A k \in 1 .. Len(r) : o[k] = r[k]
            BY <1>4, <1>11
        <3> HIDE DEF o
        <3>1. Append(f.open, c) = V \o q
            <4>1. Append(f.open, c) = Append(Append(V \o r, SP), c)
                BY <1>4, <2>5
            <4>2. V \o o = Append(V \o r, SP)
                <5>1. V \in Seq(Chars) /\ r \in Seq(Chars) /\ SP \in Chars
                    BY <1>3, <1>4, <1>11
                <5>2. V \o Append(r, SP) = Append(V \o r, SP)
                    BY <5>1, JoinAppend, Zenon
                <5> QED BY <5>2 DEF o
            <4>3. V \o Append(o, c) = Append(V \o o, c)
                <5>1. V \in Seq(Chars) /\ o \in Seq(Chars) /\ c \in Chars
                    BY <1>1, <1>3, <3>0
                <5> QED BY <5>1, JoinAppend, Zenon
            <4> QED BY <4>1, <4>2, <4>3
        <3>2. Without(q, WSP) = Append(w, c)
            <4>1. Without(o, WSP) = w
                <5>1. SP \in WSP
                    BY DEF WSP
                <5> QED BY <1>4, <1>11, <5>1, WithoutAppend DEF o, w
            <4>2. Without(Append(o, c), WSP) = Append(Without(o, WSP), c)
                BY <1>1, <2>1, <3>0, WithoutAppend
            <4> QED BY <4>1, <4>2
        <3>3. \A k \in 1 .. Len(o) : o[k] # "="
            <4>1. \A k \in 1 .. Len(o) : k = Len(r) + 1 \/ k \in 1 .. Len(r)
                BY <3>00
            <4>2. SP # "="
                BY DEF SP
            <4> QED BY <3>0, <3>00, <4>1, <4>2
        <3>4. Padded(q)
            <4>1. Padded(o)
                BY <3>3 DEF Padded
            <4> QED BY <1>1, <3>0, <3>3, <4>1, PaddedMore
        <3>5. /\ q \in Seq(Chars) /\ Len(q) = Len(o) + 1 /\ q[Len(o) + 1] = c /\ Len(o) \in Nat
              /\ \A k \in 1 .. Len(o) : q[k] = o[k]
            BY <1>1, <3>0
        <3> HIDE DEF q
        <3>6. ASSUME NEW k \in 1 .. Len(q), q[k] = "=" PROVE \E x \in i + 2 .. n + 1 : s[x] = "="
            <4>1. k = Len(o) + 1 \/ k \in 1 .. Len(o)
                BY <3>5
            <4>2. k = Len(o) + 1
                BY <3>3, <3>5, <3>6, <4>1
            <4>3. s[n + 1] = "=" /\ n + 1 \in i + 2 .. n + 1
                BY <1>0, <3>5, <3>6, <4>2 DEF c
            <4> QED BY <4>3
        <3>7. SigForm(s, i, n + 1, q)
            <4>1. g.value = V \o q /\ g.open = V \o q /\ g.word = TRUE
                BY <2>2, <3>1
            <4> QED BY <2>1, <3>2, <3>4, <3>5, <3>6, <4>1 DEF SigForm, g, V, K, T
        <3> QED BY <3>7
    <2> QED BY <2>4, <2>5
<1> QED BY <1>12, <1>13

\* The text up to the tag ends with it, in the canonical form too.
LEMMA SigFormBegins ==
    ASSUME NEW s \in Seq(Chars), NEW i \in Nat \ {0}, i + 1 <= Len(s), s[i] = "b", s[i + 1] = "="
    PROVE  LET v == RefValue(SubSeq(s, 1, i + 1))
           IN /\ v \in Seq(Chars) /\ Len(v) >= 2 /\ v[Len(v) - 1] = "b" /\ v[Len(v)] = "="
              /\ SigForm(s, i, i + 1, <<>>)
<1> DEFINE a == i - 1
           p == SubSeq(s, 1, a)
           u == SubSeq(s, 1, i + 1)
           v == RefValue(u)
           o == RefOpen(p)
           T == Span(s, i + 2, {TagEnd}, WSP)
<1>0. /\ 1 \in Nat \ {0} /\ a \in Nat /\ 1 <= a + 1 /\ a + 1 = i /\ a <= Len(s) /\ a + 1 <= Len(s)
      /\ 1 <= i + 1 /\ i \in Nat /\ i + 1 \in Nat /\ Len(s) \in Nat
    OBVIOUS
<1>1. "b" \in Chars /\ "=" \in Chars
    <2>1. s[i] \in Chars /\ s[i + 1] \in Chars
        BY <1>0
    <2> QED BY <2>1
<1> HIDE DEF a
<1>2. p \in Seq(Chars)
    BY <1>0, PartOf
<1>3. SubSeq(s, 1, i) = Append(p, "b")
    <2>1. SubSeq(s, 1, a + 1) = Append(p, s[a + 1])
        BY <1>0, PartMore
    <2> QED BY <1>0, <2>1
<1>4. u = Append(Append(p, "b"), "=")
    <2>1. SubSeq(s, 1, i + 1) = Append(SubSeq(s, 1, i), s[i + 1])
        BY <1>0, PartMore
    <2> QED BY <1>3, <2>1
<1>5. "b" \notin Blank /\ "=" \notin Blank
    BY DEF Blank, SP, TAB, CR, LF
<1> HIDE DEF p
<1>6. o \in Seq(Chars) /\ Form(p).open = o
    <2>1. Form(p) \in Forms /\ Form(p).open = o
        BY <1>2, FormTyped DEF Form
    <2> QED BY <2>1 DEF Forms
<1> HIDE DEF o, u
<1> DEFINE end == Append(Append(o, "b"), "=")
<1>7. Form(u) = [value |-> end, open |-> end, word |-> TRUE]
    <2> DEFINE pb == Append(p, "b")
               f == Form(pb)
    <2>1. pb \in Seq(Chars) /\ f = Grow(Form(p), "b")
        BY <1>1, <1>2, FormAppend
    <2>2. f = [value |-> Append(o, "b"), open |-> Append(o, "b"), word |-> TRUE]
        BY <1>5, <1>6, <2>1 DEF Grow
    <2>3. Form(u) = Grow(f, "=")
        <3> HIDE DEF pb
        <3>1. Form(Append(pb, "=")) = Grow(f, "=")
            BY <1>1, <2>1, FormAppend
        <3> QED BY <1>4, <3>1 DEF pb
    <2>4. f.open = Append(o, "b")
        BY <2>2
    <2> HIDE DEF f
    <2> QED BY <1>5, <2>3, <2>4 DEF Grow
<1>8. Form(u).value = v /\ Form(u).value = end /\ Form(u).open = end /\ Form(u).word = TRUE
    <2>1. Form(u).value = v
        BY DEF Form
    <2> QED BY <1>7, <2>1
<1>9. v = end
    BY <1>8
<1>10. end \in Seq(Chars) /\ Len(end) >= 2 /\ end[Len(end) - 1] = "b" /\ end[Len(end)] = "="
    <2> DEFINE ob == Append(o, "b")
    <2>1. ob \in Seq(Chars) /\ Len(ob) = Len(o) + 1 /\ ob[Len(ob)] = "b" /\ Len(o) \in Nat
        BY <1>1, <1>6
    <2> HIDE DEF ob
    <2>2. /\ Append(ob, "=") \in Seq(Chars) /\ Len(Append(ob, "=")) = Len(ob) + 1
          /\ Append(ob, "=")[Len(ob) + 1] = "=" /\ Append(ob, "=")[Len(ob)] = ob[Len(ob)]
        BY <1>1, <2>1
    <2> DEFINE e == Append(ob, "=")
    <2> HIDE DEF e
    <2>3. e \in Seq(Chars) /\ Len(e) = Len(ob) + 1 /\ e[Len(ob) + 1] = "=" /\ e[Len(ob)] = "b"
        BY <2>1, <2>2 DEF e
    <2>4. Len(e) >= 2 /\ Len(e) - 1 = Len(ob)
        BY <2>1, <2>3
    <2>5. e[Len(e) - 1] = "b" /\ e[Len(e)] = "="
        BY <2>3, <2>4
    <2> QED BY <2>3, <2>4, <2>5 DEF e, ob
<1>11. v \o <<>> = v
    <2> HIDE DEF v, end
    <2>1. v \in Seq(Chars)
        BY <1>9, <1>10
    <2> QED BY <2>1
<1>12. Without(<<>>, WSP) = Kept(s, T)[i + 1]
    <2> DEFINE b == i + 1
    <2>1. b \in 0 .. Len(s)
        BY <1>0
    <2>2. NoneIn(T, 1, b)
        <3>1. \A k \in T : k \in i + 2 .. Len(s)
            BY DEF Span
        <3>2. \A k \in 1 .. b : k \notin i + 2 .. Len(s)
            BY <1>0
        <3> HIDE DEF T, b
        <3> QED BY <3>1, <3>2 DEF NoneIn
    <2> HIDE DEF T, b
    <2>3. Kept(s, T)[b] = <<>>
        BY <2>1, <2>2, KeptOutside
    <2>4. Without(<<>>, WSP) = <<>>
        <3> DEFINE nil == <<>>
        <3>1. nil \in Seq(Chars) /\ nil = <<>>
            OBVIOUS
        <3> HIDE DEF nil
        <3>2. Without(nil, WSP) = <<>>
            BY <3>1, PickTyped DEF Without
        <3> QED BY <3>2 DEF nil
    <2> QED BY <2>3, <2>4 DEF b
<1>13. Padded(<<>>) /\ <<>> \in Seq(Chars) /\ \A k \in 1 .. Len(<<>>) : FALSE
    BY DEF Padded
<1> HIDE DEF end, v, T
<1>14. SigForm(s, i, i + 1, <<>>)
    <2>1. /\ Form(u).value = v \o <<>>
          /\ Form(u).open = IF Form(u).word THEN v \o <<>> ELSE Append(v \o <<>>, SP)
        BY <1>8, <1>9, <1>11
    <2> QED BY <1>12, <1>13, <2>1 DEF SigForm, u, v, T
<1> QED BY <1>9, <1>10, <1>14 DEF v, u

\* The canonical form of a header whose signature is its last tag.
LEMMA SigFormEnds ==
    ASSUME NEW s \in Seq(Chars), NEW i \in Nat \ {0}, i + 1 <= Len(s), s[i] = "b", s[i + 1] = "=",
           \A j \in i + 2 .. Len(s) : s[j] # TagEnd /\ s[j] \notin {CR, LF},
           \A j \in i + 2 .. Len(s) : s[j] = "=" =>
               \A k \in j .. Len(s) : s[k] = "=" \/ \A m \in k .. Len(s) : s[m] \in WSP
    PROVE  \E r : SigForm(s, i, Len(s), r)
<1> DEFINE L == Len(s)
           m == L - (i + 1)
           Reached(n) == \E r : SigForm(s, i, n, r)
           U == {j \in 0 .. m : Reached(i + 1 + j)}
<1>0. L \in Nat /\ m \in Nat /\ i + 1 + m = L /\ i + 1 + 0 = i + 1
    OBVIOUS
<1>1. 0 \in U
    <2>1. SigForm(s, i, i + 1, <<>>)
        BY SigFormBegins
    <2> QED BY <1>0, <2>1
<1>2. ASSUME NEW j \in 0 .. m - 1, j \in U PROVE j + 1 \in U
    <2> DEFINE n == i + 1 + j
    <2>1. n \in Nat /\ i + 1 <= n /\ n < Len(s) /\ i + 1 + (j + 1) = n + 1 /\ j + 1 \in 0 .. m
        BY <1>0
    <2>2. Reached(n)
        BY <1>2
    <2> HIDE DEF n, m, L
    <2>3. PICK r : SigForm(s, i, n, r)
        BY <2>2
    <2>4. \E q : SigForm(s, i, n + 1, q)
        BY <2>1, <2>3, SigFormMore
    <2> QED BY <2>1, <2>4
<1>3. m \in U
    <2> HIDE DEF U, m, L
    <2>1. 0 .. m \subseteq U
        BY <1>0, <1>1, <1>2, UpToN
    <2> QED BY <1>0, <2>1
<1> QED BY <1>0, <1>3

\* The value of a signature that is the last tag.
LEMMA LastTag ==
    ASSUME NEW s \in Seq(Chars), NEW i \in TagHeads(SignatureTags, s), At(s, i, <<"b", "=">>),
           \A j \in i + 2 .. Len(s) : s[j] # TagEnd
    PROVE  /\ i \in Nat \ {0} /\ i + 1 <= Len(s) /\ s[i] = "b" /\ s[i + 1] = "="
           /\ RefTag(SignatureTags, s, <<"b">>) =
                 Kept(s, Span(s, i + 2, {TagEnd}, WSP))[Len(s)]
<1> DEFINE t == <<"b">>
           P == TagPlaces(SignatureTags, s, t)
           n == Len(s)
<1>0. n \in Nat /\ DOMAIN s = 1 .. n
    OBVIOUS
<1>1. i \in 1 .. n /\ i \in Nat \ {0}
    BY <1>0 DEF TagHeads
<1>2. i + 1 <= n /\ s[i] = "b" /\ s[i + 1] = "="
    BY <1>1, TwoChars
<1>3. Append(t, "=") = <<"b", "=">> /\ Len(t) = 1
    <2> DEFINE S == {"b", "="}
               a == Append(t, "=")
               two == <<"b", "=">>
    <2>1. t \in Seq(S) /\ Len(t) = 1 /\ t[1] = "b" /\ "=" \in S
        OBVIOUS
    <2>2. two \in Seq(S) /\ Len(two) = 2 /\ two[1] = "b" /\ two[2] = "="
        OBVIOUS
    <2> HIDE DEF S, t, two
    <2>3. a \in Seq(S) /\ Len(a) = 2 /\ a[1] = "b" /\ a[2] = "="
        <3>1. a \in Seq(S) /\ Len(a) = Len(t) + 1 /\ a[Len(t) + 1] = "=" /\ \A k \in 1 .. Len(t) : a[k] = t[k]
            <4>1. t \in Seq(S) /\ "=" \in S
                BY <2>1
            <4> QED BY <4>1, Appending
        <3> HIDE DEF a
        <3>2. Len(a) = 2 /\ Len(t) + 1 = 2 /\ 1 \in 1 .. Len(t)
            BY <2>1, <3>1
        <3> QED BY <2>1, <3>1, <3>2
    <2> HIDE DEF a
    <2>4. Len(a) = Len(two) /\ \A k \in 1 .. Len(a) : a[k] = two[k]
        BY <2>2, <2>3
    <2>5. a = two
        BY <2>2, <2>3, <2>4, SameSeq
    <2> QED BY <2>1, <2>5 DEF a, two
<1>4. t \in SignatureTags
    BY DEF SignatureTags
<1> HIDE DEF t
<1>5. i \in P
    BY <1>3 DEF TagPlaces
<1>6. ASSUME NEW h \in P, h > i PROVE FALSE
    <2>1. h \in 1 .. n /\ Leads(s, h)
        BY <1>0 DEF TagPlaces, TagHeads
    <2>2. i \in 1 .. h - 1
        BY <1>1, <1>6, <2>1
    <2>3. s[i] # TagEnd /\ s[i] \notin WSP /\ s[i + 1] # TagEnd
        BY <1>2 DEF TagEnd, WSP, SP, TAB
    <2>4. PICK k \in i .. h - 1 : s[k] = TagEnd
        BY <2>1, <2>2, <2>3 DEF Leads
    <2>5. k # i /\ k # i + 1
        BY <2>3, <2>4
    <2>6. k \in i + 2 .. Len(s)
        BY <1>0, <1>1, <2>1, <2>5
    <2> QED BY <2>4, <2>6
<1>7. P \subseteq 0 .. n
    BY <1>0 DEF TagPlaces, TagHeads
<1> HIDE DEF P
<1>8. Max(P) = i
    <2> DEFINE m == Max(P)
    <2>1. m \in P /\ \A y \in P : m >= y
        BY <1>0, <1>5, <1>7, MaxIn
    <2>2. m \in Nat /\ m >= i /\ ~ (m > i)
        <3> HIDE DEF m
        <3>1. m \in Nat /\ m >= i
            BY <1>0, <1>5, <1>7, <2>1
        <3>2. ASSUME m > i PROVE FALSE
            BY <1>6, <2>1, <3>2
        <3> QED BY <3>1, <3>2
    <2> HIDE DEF m
    <2>3. m = i
        BY <1>1, <2>2
    <2> QED BY <2>3 DEF m
<1>9. RefTag(SignatureTags, s, t) = Without(UpTo(s, i + 2, {TagEnd}), WSP)
    <2>1. i + Len(t) + 1 = i + 2
        BY <1>1, <1>3
    <2>2. RefTag(SignatureTags, s, t) = Without(UpTo(s, i + Len(t) + 1, {TagEnd}), WSP)
        BY <1>5, <1>8 DEF RefTag, P
    <2> QED BY <2>1, <2>2
<1>10. Without(UpTo(s, i + 2, {TagEnd}), WSP) = Pick(s, Span(s, i + 2, {TagEnd}, WSP))
    <2> DEFINE a == i + 2
    <2>1. a \in Nat \ {0} /\ a <= Len(s) + 1
        BY <1>0, <1>1, <1>2
    <2> HIDE DEF a
    <2>2. Without(UpTo(s, a, {TagEnd}), WSP) = Pick(s, Span(s, a, {TagEnd}, WSP))
        BY <2>1, SpanIs
    <2> QED BY <2>2 DEF a
<1> QED BY <1>1, <1>2, <1>9, <1>10 DEF Pick, t

\* dkim_validate cuts the signature's own value, and nothing else, from the
\* header before it is hashed: the search for "b=" that starts from the length
\* of the value without its white space stops at the tag for every header whose
\* signature is the last tag.
THEOREM SignatureIsCut == TextSpec => []SignatureRemoved
<1>1. InputsTyped => SignatureRemoved
    <2> DEFINE s == input
               head == <<"dkim-signature", ":">>
               text == head \o CanonValue(s)
               b == dkim_parse_header(s)[<<"b">>]
               cut == RemoveSignature(text, b)
    <2> SUFFICES ASSUME InputsTyped, job = "tags", SignatureLast(s)
                 PROVE  /\ At(text, 1, cut)
                        /\ At(cut, Len(cut) - 1, <<"b", "=">>)
                        /\ Without(SubSeq(text, Len(cut) + 1, Len(text)), WSP) = b
        BY DEF SignatureRemoved
    <2>1. s \in Seq(Chars)
        BY DEF InputsTyped, TextJobs
    <2>2. PICK i \in TagHeads(SignatureTags, s) :
              /\ At(s, i, <<"b", "=">>)
              /\ \A j \in i + 2 .. Len(s) : s[j] # TagEnd
              /\ \A j \in i + 2 .. Len(s) : s[j] = "=" =>
                    \A k \in j .. Len(s) : s[k] = "=" \/ \A n \in k .. Len(s) : s[n] \in WSP
        BY DEF SignatureLast
    <2>3. /\ CleanTagList(SignatureTags, s) /\ \A j \in DOMAIN s : s[j] \notin {CR, LF}
          /\ Len(RefTag(SignatureTags, s, <<"b">>)) \in 1 .. DKIM_VALUE_MAX_LEN - 1
        BY DEF SignatureLast
    <2> HIDE DEF s, head
    <2>4. /\ i \in Nat \ {0} /\ i + 1 <= Len(s) /\ s[i] = "b" /\ s[i + 1] = "="
          /\ RefTag(SignatureTags, s, <<"b">>) = Kept(s, Span(s, i + 2, {TagEnd}, WSP))[Len(s)]
        BY <2>1, <2>2, LastTag
    <2>5. b = RefTag(SignatureTags, s, <<"b">>)
        <3> DEFINE t == <<"b">>
        <3>1. t \in SignatureTags
            BY DEF SignatureTags
        <3>2. Len(RefTag(SignatureTags, s, t)) < DKIM_VALUE_MAX_LEN
            BY <2>3, DkimAssumption
        <3> HIDE DEF t
        <3>3. dkim_parse_header(s)[t] = RefTag(SignatureTags, s, t)
            BY <2>1, <2>3, <3>1, <3>2, TagsFound
        <3> QED BY <3>3 DEF t
    <2>6. CanonValue(s) = RefValue(s)
        <3>1. Folded(s)
            BY <2>3 DEF Folded
        <3> QED BY <2>1, <3>1, CanonValueIs
    <2>7. PICK r : SigForm(s, i, Len(s), r)
        <3>1. \A j \in i + 2 .. Len(s) : s[j] # TagEnd /\ s[j] \notin {CR, LF}
            <4>1. \A j \in i + 2 .. Len(s) : j \in DOMAIN s
                BY <2>1, <2>4
            <4> QED BY <2>2, <2>3, <4>1
        <3> QED BY <2>1, <2>2, <2>4, <3>1, SigFormEnds
    <2> DEFINE v == RefValue(SubSeq(s, 1, i + 1))
    <2>8. v \in Seq(Chars) /\ Len(v) >= 2 /\ v[Len(v) - 1] = "b" /\ v[Len(v)] = "="
        BY <2>1, <2>4, SigFormBegins
    <2>9. r \in Seq(Chars) /\ RefValue(s) = v \o r /\ b = Without(r, WSP) /\ Padded(r)
        <3>1. SubSeq(s, 1, Len(s)) = s
            BY <2>1
        <3>2. /\ r \in Seq(Chars) /\ Form(SubSeq(s, 1, Len(s))).value = v \o r /\ Padded(r)
              /\ Without(r, WSP) = Kept(s, Span(s, i + 2, {TagEnd}, WSP))[Len(s)]
            BY <2>7 DEF SigForm
        <3>3. Form(s).value = RefValue(s)
            BY DEF Form
        <3> QED BY <2>4, <2>5, <3>1, <3>2, <3>3
    <2> HIDE DEF v, b
    <2> DEFINE S == Chars \cup {head[1], head[2]}
               w == head \o v
    <2>10. head \in Seq(S) /\ Len(head) = 2
        BY DEF head
    <2>11. v \in Seq(S) /\ r \in Seq(S)
        BY <2>8, <2>9
    <2> HIDE DEF S
    <2>12. /\ w \in Seq(S) /\ Len(w) = 2 + Len(v)
           /\ \A k \in 1 .. Len(v) : w[2 + k] = v[k]
        <3>1. /\ w \in Seq(S) /\ Len(w) = Len(head) + Len(v)
              /\ \A k \in 1 .. Len(v) : w[Len(head) + k] = v[k]
            <4>1. head \in Seq(S)
                BY <2>10
            <4> QED BY <2>11, <4>1, Joined
        <3> HIDE DEF w
        <3> QED BY <2>10, <3>1
    <2>13. text = w \o r
        <3>1. text = head \o (v \o r)
            BY <2>6, <2>9
        <3>2. head \o (v \o r) = (head \o v) \o r
            <4>1. head \in Seq(S)
                BY <2>10
            <4> QED BY <2>11, <4>1
        <3> QED BY <3>1, <3>2
    <2> HIDE DEF w, text
    <2>14. Len(w) >= 3 /\ w[Len(w) - 1] = "b" /\ w[Len(w)] = "=" /\ Len(w) \in Nat
        <3> DEFINE n == Len(v)
        <3>1. n \in Nat /\ n >= 2 /\ v[n - 1] = "b" /\ v[n] = "="
            BY <2>8
        <3>2. Len(w) = 2 + n /\ \A k \in 1 .. n : w[2 + k] = v[k]
            BY <2>12
        <3> HIDE DEF n
        <3>3. n - 1 \in 1 .. n /\ n \in 1 .. n /\ Len(w) - 1 = 2 + (n - 1) /\ Len(w) >= 3 /\ Len(w) \in Nat
            BY <3>1, <3>2
        <3> QED BY <3>1, <3>2, <3>3
    <2>15. cut = w
        <3>1. RemoveSignature(w \o r, Without(r, WSP)) = w
            BY <2>9, <2>11, <2>12, <2>14, CutBehindTag
        <3> QED BY <2>9, <2>13, <3>1
    <2>16. /\ text \in Seq(S) /\ Len(text) = Len(w) + Len(r)
           /\ (\A k \in 1 .. Len(w) : text[k] = w[k]) /\ \A k \in 1 .. Len(r) : text[Len(w) + k] = r[k]
        <3>1. w \in Seq(S) /\ r \in Seq(S)
            BY <2>11, <2>12
        <3>2. /\ w \o r \in Seq(S) /\ Len(w \o r) = Len(w) + Len(r)
              /\ (\A k \in 1 .. Len(w) : (w \o r)[k] = w[k])
              /\ \A k \in 1 .. Len(r) : (w \o r)[Len(w) + k] = r[k]
            BY <3>1, Joined
        <3> QED BY <2>13, <3>2
    <2> DEFINE L == Len(w)
               n == Len(r)
    <2>17. L \in Nat /\ n \in Nat /\ L >= 3
        BY <2>11, <2>14
    <2> HIDE DEF L, n, cut
    <2>18. At(text, 1, w)
        <3> DEFINE q == SubSeq(text, 1, L)
        <3>1. 1 \in Nat \ {0} /\ 1 <= L + 1 /\ L <= Len(text) /\ L - 1 + 1 = L /\ 1 + L - 1 = L
              /\ \A k \in 1 .. L : 1 + k - 1 = k
            BY <2>16, <2>17 DEF L, n
        <3>2. q \in Seq(S) /\ Len(q) = L - 1 + 1 /\ \A k \in 1 .. L - 1 + 1 : q[k] = text[1 + k - 1]
            BY <2>16, <2>17, <3>1, PartOf
        <3> HIDE DEF q
        <3>3. Len(q) = Len(w) /\ \A k \in 1 .. Len(q) : q[k] = w[k]
            BY <2>16, <3>1, <3>2 DEF L
        <3>4. q = w
            BY <2>12, <3>2, <3>3, SameSeq
        <3>5. SubSeq(text, 1, 1 + Len(w) - 1) = w /\ 1 + Len(w) - 1 <= Len(text)
            BY <3>1, <3>4 DEF q, L
        <3> QED BY <3>5 DEF At
    <2>19. At(w, Len(w) - 1, <<"b", "=">>)
        <3> DEFINE k == L - 1
        <3>1. k \in Nat \ {0} /\ k + 1 <= L /\ k + 1 = L /\ L \in 1 .. L /\ k \in 1 .. L
            BY <2>17
        <3>2. w[k] = "b" /\ w[L] = "="
            BY <2>14 DEF L
        <3>3. "b" \in S /\ "=" \in S
            <4>1. w[k] \in S /\ w[L] \in S
                BY <2>12, <3>1 DEF L
            <4> QED BY <3>2, <4>1
        <3> HIDE DEF k
        <3>4. At(w, k, <<"b", "=">>)
            <4>1. k + 1 <= Len(w) /\ w[k + 1] = "="
                BY <3>1, <3>2 DEF L
            <4> QED BY <2>12, <3>1, <3>2, <3>3, <4>1, TwoCharsAt
        <3> QED BY <3>4 DEF k, L
    <2>20. SubSeq(text, Len(w) + 1, Len(text)) = r
        <3> DEFINE a == L + 1
                   e == Len(text)
                   q == SubSeq(text, a, e)
        <3>1. a \in Nat \ {0} /\ e \in Nat /\ a <= e + 1 /\ e <= Len(text) /\ e - a + 1 = n
              /\ \A k \in 1 .. n : a + k - 1 = L + k
            BY <2>16, <2>17 DEF L, n
        <3> HIDE DEF a, e
        <3>2. q \in Seq(S) /\ Len(q) = e - a + 1 /\ \A k \in 1 .. e - a + 1 : q[k] = text[a + k - 1]
            BY <2>16, <3>1, PartOf
        <3> HIDE DEF q
        <3>3. Len(q) = Len(r) /\ \A k \in 1 .. Len(q) : q[k] = r[k]
            BY <2>16, <3>1, <3>2 DEF L, n
        <3>4. q = r
            BY <2>11, <3>2, <3>3, SameSeq
        <3> QED BY <3>4 DEF q, a, e, L
    <2> QED BY <2>9, <2>15, <2>18, <2>19, <2>20
<1> QED BY <1>1, TextsTyped, PTL

-----------------------------------------------------------------------------
(* The headers that a signature covers *)

\* A key in lower case is a sequence that begins with itself.
LEMMA BeginsWithItself ==
    ASSUME NEW s \in Seq(Chars)
    PROVE  At(str_to_lower(s), 1, str_to_lower(s))
<1> DEFINE low == str_to_lower(s)
           S == {tolower(c) : c \in Chars}
<1>1. low = [i \in 1 .. Len(s) |-> tolower(s[i])]
    BY DEF str_to_lower
<1>2. \A i \in 1 .. Len(s) : tolower(s[i]) \in S
    OBVIOUS
<1> HIDE DEF S, low
<1>3. low \in Seq(S) /\ Len(low) = Len(s)
    BY <1>1, <1>2
<1>4. SubSeq(low, 1, Len(low)) = low /\ 1 + Len(low) - 1 = Len(low)
    BY <1>3
<1> QED BY <1>3, <1>4 DEF At, low

\* Whatever is picked is there.
LEMMA PickHas ==
    ASSUME NEW S, NEW s \in Seq(S), NEW T, NEW e \in 1 .. Len(s), e \in T
    PROVE  \E k \in DOMAIN Pick(s, T) : Pick(s, T)[k] = s[e]
<1> DEFINE F == Kept(s, T)
           n == Len(s)
           Has(q) == \E k \in 1 .. Len(q) : q[k] = s[e]
           U == {i \in 0 .. n : i < e \/ Has(F[i])}
<1>1. /\ n \in Nat /\ F[0] = <<>> /\ F \in [0 .. n -> Seq(S)]
      /\ \A i \in 1 .. n : F[i] = IF i \in T THEN Append(F[i - 1], s[i]) ELSE F[i - 1]
    BY KeptDef
<1> HIDE DEF F
<1>2. 0 \in U
    BY <1>1
<1>3. ASSUME NEW q \in Seq(S), NEW x \in S, Has(q) \/ x = s[e]
      PROVE  Has(Append(q, x))
    <2>1. /\ Len(Append(q, x)) = Len(q) + 1 /\ Append(q, x)[Len(q) + 1] = x
          /\ \A k \in 1 .. Len(q) : Append(q, x)[k] = q[k]
          /\ Len(q) \in Nat
        BY Appending
    <2>2. CASE Has(q)
        BY <2>1, <2>2
    <2>3. CASE x = s[e]
        BY <2>1, <2>3
    <2> QED BY <1>3, <2>2, <2>3
<1>4. ASSUME NEW i \in 0 .. n - 1, i \in U PROVE i + 1 \in U
    <2>1. i + 1 \in 1 .. n /\ i + 1 \in 0 .. n /\ (i + 1) - 1 = i /\ i \in 0 .. n
        BY <1>1
    <2>2. F[i] \in Seq(S) /\ s[i + 1] \in S
        BY <1>1, <2>1
    <2>3. F[i + 1] = IF i + 1 \in T THEN Append(F[i], s[i + 1]) ELSE F[i]
        BY <1>1, <2>1
    <2> HIDE DEF Has
    <2>4. CASE i + 1 < e
        BY <2>1, <2>4
    <2>5. CASE i + 1 = e
        <3>1. F[i + 1] = Append(F[i], s[i + 1]) /\ s[i + 1] = s[e]
            BY <2>3, <2>5
        <3> QED BY <1>3, <2>1, <2>2, <3>1
    <2>6. CASE i + 1 > e
        <3>1. Has(F[i])
            BY <1>4, <2>1, <2>6
        <3>2. Has(F[i + 1])
            BY <1>3, <2>2, <2>3, <3>1
        <3> QED BY <2>1, <3>2
    <2> QED BY <2>1, <2>4, <2>5, <2>6
<1>5. n \in U
    <2> HIDE DEF U
    <2>1. 0 .. n \subseteq U
        BY <1>1, <1>2, <1>4, UpToN
    <2> QED BY <1>1, <2>1
<1>6. Has(F[n]) /\ F[n] \in Seq(S)
    BY <1>1, <1>5
<1>7. Pick(s, T) = F[n]
    BY DEF Pick, F
<1> QED BY <1>6, <1>7

\* And what is in a piece is in the whole.
LEMMA FlattenHas ==
    ASSUME NEW S, NEW q \in Seq(Seq(S)), NEW p \in 1 .. Len(q), NEW k \in 1 .. Len(q[p])
    PROVE  \E m \in DOMAIN FlattenSeq(q) : FlattenSeq(q)[m] = q[p][k]
<1> DEFINE n == Len(q)
           x == q[p][k]
           Has(w) == \E m \in 1 .. Len(w) : w[m] = x
<1>0. n \in Nat /\ ~ (n < p) /\ \A i \in 1 .. n : q[i] \in Seq(S)
    OBVIOUS
<1>1. PICK F : /\ F \in [0 .. n -> Seq(S)] /\ F[0] = <<>>
               /\ \A i \in 1 .. n : F[i] = F[i - 1] \o q[i]
               /\ FlattenSeq(q) = F[n]
    BY FlattenDef
<1> DEFINE U == {i \in 0 .. n : i < p \/ Has(F[i])}
<1>2. 0 \in U
    BY <1>0
<1>3. ASSUME NEW v \in Seq(S), NEW w \in Seq(S), Has(v) \/ Has(w)
      PROVE  Has(v \o w)
    <2>1. /\ Len(v \o w) = Len(v) + Len(w) /\ Len(v) \in Nat /\ Len(w) \in Nat
          /\ \A m \in 1 .. Len(v) : (v \o w)[m] = v[m]
          /\ \A m \in 1 .. Len(w) : (v \o w)[Len(v) + m] = w[m]
        OBVIOUS
    <2>2. CASE Has(v)
        BY <2>1, <2>2
    <2>3. CASE Has(w)
        <3>1. PICK m \in 1 .. Len(w) : w[m] = x
            BY <2>3
        <3>2. Len(v) + m \in 1 .. Len(v \o w) /\ (v \o w)[Len(v) + m] = x
            BY <2>1, <3>1
        <3> QED BY <3>2
    <2> QED BY <1>3, <2>2, <2>3
<1>4. Has(q[p])
    OBVIOUS
<1> HIDE DEF Has
<1>5. ASSUME NEW i \in 0 .. n - 1, i \in U PROVE i + 1 \in U
    <2>1. i + 1 \in 1 .. n /\ i + 1 \in 0 .. n /\ (i + 1) - 1 = i /\ i \in 0 .. n
        BY <1>0
    <2>2. F[i] \in Seq(S) /\ q[i + 1] \in Seq(S) /\ F[i + 1] = F[i] \o q[i + 1]
        BY <1>0, <1>1, <2>1
    <2>3. CASE i + 1 < p
        BY <2>1, <2>3
    <2>4. CASE i + 1 = p
        <3>1. Has(F[i + 1])
            BY <1>3, <1>4, <2>2, <2>4
        <3> QED BY <2>1, <3>1
    <2>5. CASE i + 1 > p
        <3>1. Has(F[i])
            BY <1>5, <2>1, <2>5
        <3>2. Has(F[i + 1])
            BY <1>3, <2>2, <3>1
        <3> QED BY <2>1, <3>2
    <2> QED BY <2>1, <2>3, <2>4, <2>5
<1>6. n \in U
    <2> HIDE DEF U
    <2>1. 0 .. n \subseteq U
        BY <1>0, <1>2, <1>5, UpToN
    <2> QED BY <1>0, <2>1
<1>7. Has(F[n]) /\ F[n] \in Seq(S)
    <2>1. Has(F[n])
        BY <1>0, <1>6
    <2> HIDE DEF n
    <2>2. n \in 0 .. n
        BY <1>0
    <2>3. F[n] \in Seq(S)
        BY <1>1, <2>2
    <2> QED BY <2>1, <2>3
<1> QED BY <1>1, <1>7 DEF Has

\* Two lists of pieces, of which the second is one place ahead until the last.
LEMMA FlattenShifted ==
    ASSUME NEW S, NEW p \in Seq(Seq(S)), NEW q \in Seq(Seq(S)), Len(p) = Len(q),
           \A i \in 1 .. Len(p) : i < Len(p) => p[i] = IF i = 1 THEN <<>> ELSE q[i - 1],
           \A i \in 1 .. Len(p) : i = Len(p) - 1 => q[i] = <<>>,
           Len(p) > 0 => p[Len(p)] = q[Len(p)]
    PROVE  FlattenSeq(p) = FlattenSeq(q)
<1>0. PICK n \in Nat : n = Len(p) /\ n = Len(q)
    OBVIOUS
<1>1. PICK F : /\ F \in [0 .. n -> Seq(S)] /\ F[0] = <<>>
               /\ \A i \in 1 .. n : F[i] = F[i - 1] \o p[i]
               /\ FlattenSeq(p) = F[n]
    <2>1. PICK F : /\ F \in [0 .. Len(p) -> Seq(S)] /\ F[0] = <<>>
                   /\ \A i \in 1 .. Len(p) : F[i] = F[i - 1] \o p[i]
                   /\ FlattenSeq(p) = F[Len(p)]
        BY FlattenDef
    <2> QED BY <1>0, <2>1, Zenon
<1>2. PICK G : /\ G \in [0 .. n -> Seq(S)] /\ G[0] = <<>>
               /\ \A i \in 1 .. n : G[i] = G[i - 1] \o q[i]
               /\ FlattenSeq(q) = G[n]
    <2>1. PICK G : /\ G \in [0 .. Len(q) -> Seq(S)] /\ G[0] = <<>>
                   /\ \A i \in 1 .. Len(q) : G[i] = G[i - 1] \o q[i]
                   /\ FlattenSeq(q) = G[Len(q)]
        BY FlattenDef
    <2> QED BY <1>0, <2>1, Zenon
<1>3. /\ n \in Nat
      /\ \A i \in 1 .. n : i < n => p[i] = IF i = 1 THEN <<>> ELSE q[i - 1]
      /\ \A i \in 1 .. n : i = n - 1 => q[i] = <<>>
      /\ n > 0 => p[n] = q[n]
    BY <1>0, Zenon
<1>3a. n \in Nat
    BY <1>0
<1>4. \A x \in Seq(S) : x \o <<>> = x
    OBVIOUS
<1>5. CASE n = 0
    BY <1>1, <1>2, <1>5
<1>6. CASE n = 1
    <2>1. 1 \in 1 .. n /\ 1 - 1 = 0 /\ n > 0
        BY <1>6
    <2>2. F[1] = F[0] \o p[1] /\ G[1] = G[0] \o q[1] /\ p[1] = q[1]
        BY <1>1, <1>2, <1>3, <1>6, <2>1
    <2> QED BY <1>1, <1>2, <1>6, <2>2
<1>7. CASE n > 1
    <2> DEFINE U == {i \in 0 .. n - 1 : i = 0 \/ F[i] = G[i - 1]}
               m == n - 1
    <2>0. m \in Nat /\ m > 0 /\ n = m + 1 /\ 0 .. n - 1 = 0 .. m
        BY <1>3a, <1>7
    <2>1. 0 \in U
        BY <2>0
    <2>2. ASSUME NEW i \in 0 .. m - 1, i \in U PROVE i + 1 \in U
        <3>1. /\ i + 1 \in 1 .. n /\ i + 1 < n /\ i + 1 \in 0 .. n - 1 /\ (i + 1) - 1 = i
              /\ i \in 0 .. n /\ (i + 1 = 1 <=> i = 0) /\ (i # 0 => i \in 1 .. n)
            BY <1>3, <2>0
        <3>2. F[i + 1] = F[i] \o p[i + 1] /\ p[i + 1] = IF i = 0 THEN <<>> ELSE q[i]
            BY <1>1, <1>3, <3>1
        <3>3. F[i] \in Seq(S)
            BY <1>1, <3>1
        <3>4. F[i + 1] = G[i]
            <4>1. CASE i = 0
                BY <1>1, <1>2, <1>4, <3>2, <3>3, <4>1
            <4>2. CASE i # 0
                BY <1>2, <2>2, <3>1, <3>2, <4>2
            <4> QED BY <4>1, <4>2
        <3> QED BY <3>1, <3>4
    <2>3. m \in U
        <3> HIDE DEF U
        <3>1. 0 .. m \subseteq U
            BY <2>0, <2>1, <2>2, UpToN
        <3> QED BY <2>0, <3>1
    <2>4. F[m] = G[m - 1]
        BY <2>0, <2>3
    <2>5. G[m] = G[m - 1]
        <3>1. m \in 1 .. n /\ m - 1 \in 0 .. n /\ m = n - 1
            BY <1>3, <2>0
        <3>2. G[m] = G[m - 1] \o q[m] /\ q[m] = <<>> /\ G[m - 1] \in Seq(S)
            BY <1>2, <1>3, <3>1
        <3> QED BY <1>4, <3>2
    <2>6. F[n] = F[m] \o p[n] /\ G[n] = G[m] \o q[n] /\ p[n] = q[n]
        <3>1. n \in 1 .. n /\ n - 1 = m /\ n > 0
            BY <1>3, <2>0
        <3> QED BY <1>1, <1>2, <1>3, <3>1
    <2> QED BY <1>1, <1>2, <2>4, <2>5, <2>6
<1> QED BY <1>3, <1>5, <1>6, <1>7

\* Where the scan of an h= list ends a name.
EndOfName(h, i) == IF i < Len(h) THEN i + 1 ELSE i

\* It finds the names that stand between the colons.
LEMMA NameSame ==
    ASSUME NEW h \in Seq(Chars), NameList(h), NEW i \in 1 .. Len(h), LastOfName(h, i)
    PROVE  /\ EndOfName(h, i) \in NameEnds(h)
           /\ NameAt(h, EndOfName(h, i)) = RefName(h, i)
<1> DEFINE e == EndOfName(h, i)
           before == {0} \cup {j \in NameEnds(h) : j < e}
           colons == {0} \cup {j \in 1 .. i : h[j] = Separator}
<1>1. Len(h) \in Nat /\ DOMAIN h = 1 .. Len(h) /\ h[i] # Separator
    BY DEF LastOfName
<1>1a. i \in Nat /\ Len(h) \in Nat /\ i <= Len(h)
    OBVIOUS
<1>2. CASE i < Len(h)
    <2>1. e = i + 1 /\ h[i + 1] = Separator /\ i + 1 \in 1 .. Len(h)
        BY <1>1, <1>2 DEF LastOfName, EndOfName
    <2>2. i + 1 < Len(h)
        BY <1>1, <2>1 DEF NameList
    <2> HIDE DEF e
    <2>3. before = colons
        BY <1>1, <2>1, <2>2 DEF NameEnds
    <2>4. e \in NameEnds(h)
        BY <1>1, <2>1 DEF NameEnds
    <2>4a. e # Len(h) /\ e - 1 = i
        BY <1>1a, <2>1, <2>2
    <2> HIDE DEF before, colons
    <2>5. NameAt(h, e) = SubSeq(h, Max(before) + 1, e - 1)
        BY <2>4a DEF NameAt, before
    <2>6. RefName(h, i) = SubSeq(h, Max(colons) + 1, i)
        BY DEF RefName, colons
    <2> QED BY <2>3, <2>4, <2>4a, <2>5, <2>6 DEF e
<1>3. CASE ~ (i < Len(h))
    <2>0. i = Len(h)
        BY <1>1a, <1>3
    <2>1. e = i /\ i = Len(h)
        BY <1>3, <2>0 DEF EndOfName
    <2> HIDE DEF e
    <2>2. before = colons
        BY <1>1, <2>1 DEF NameEnds
    <2>3. e \in NameEnds(h)
        BY <1>1, <2>1 DEF NameEnds
    <2> HIDE DEF before, colons
    <2>4. NameAt(h, e) = SubSeq(h, Max(before) + 1, e)
        BY <2>1 DEF NameAt, before
    <2>5. RefName(h, i) = SubSeq(h, Max(colons) + 1, i)
        BY DEF RefName, colons
    <2> QED BY <2>1, <2>2, <2>3, <2>4, <2>5 DEF e
<1> QED BY <1>2, <1>3

\* A name of a list in lower case is in lower case.
LEMMA NameLower ==
    ASSUME NEW h \in Seq(Chars), LowerCase(h), NEW i \in 1 .. Len(h)
    PROVE  RefName(h, i) \in Seq(Chars) /\ str_to_lower(RefName(h, i)) = RefName(h, i)
<1> DEFINE colons == {0} \cup {j \in 1 .. i : h[j] = Separator}
           m == Max(colons)
           w == RefName(h, i)
<1>1. i \in Nat /\ Len(h) \in Nat /\ i <= Len(h) /\ colons \subseteq 0 .. i /\ colons # {}
    OBVIOUS
<1>2. m \in 0 .. i
    <2> HIDE DEF colons
    <2>1. m \in colons
        BY <1>1, MaxIn
    <2> QED BY <1>1, <2>1
<1>3. w = SubSeq(h, m + 1, i)
    BY DEF RefName
<1> HIDE DEF m, w
<1>4. m + 1 \in Nat \ {0} /\ m + 1 <= i + 1 /\ i - (m + 1) + 1 \in Nat
    BY <1>1, <1>2
<1>5. /\ w \in Seq(Chars) /\ Len(w) = i - (m + 1) + 1
      /\ \A k \in 1 .. i - (m + 1) + 1 : w[k] = h[m + 1 + k - 1]
    BY <1>1, <1>3, <1>4, PartOf
<1>6. \A j \in 1 .. Len(h) : tolower(h[j]) = h[j]
    BY DEF LowerCase, str_to_lower
<1>7. \A k \in 1 .. Len(w) : tolower(w[k]) = w[k]
    <2> SUFFICES ASSUME NEW k \in 1 .. Len(w) PROVE tolower(w[k]) = w[k]
        OBVIOUS
    <2>1. k \in 1 .. i - (m + 1) + 1 /\ m + 1 + k - 1 \in 1 .. Len(h)
        BY <1>1, <1>2, <1>5
    <2> HIDE DEF m
    <2> QED BY <1>5, <1>6, <2>1
<1>8. str_to_lower(w) = w
    <2>1. str_to_lower(w) = [k \in 1 .. Len(w) |-> tolower(w[k])]
        BY <1>5 DEF str_to_lower
    <2>2. w = [k \in 1 .. Len(w) |-> w[k]]
        BY <1>5
    <2>3. [k \in 1 .. Len(w) |-> tolower(w[k])] = [k \in 1 .. Len(w) |-> w[k]]
        BY <1>7
    <2> QED BY <2>1, <2>2, <2>3
<1> QED BY <1>5, <1>8 DEF w

\* The header with index k begins like the i-th name.
Begins(h, headers, i) ==
    {k \in DOMAIN headers : At(str_to_lower(headers[k].key), 1, str_to_lower(RefName(h, i)))}

\* What the scan takes at position e, and what the name that ends at i asks for.
Taken(h, headers, e) ==
    IF e \notin NameEnds(h) THEN <<>>
    ELSE Pick(headers, {k \in DOMAIN headers :
                            At(str_to_lower(headers[k].key), 1, NameAt(h, e))})

Asked(h, headers, i) ==
    IF LastOfName(h, i) THEN Pick(headers, Named(RefName(h, i), headers)) ELSE <<>>

AllTaken(h, headers) == [e \in DOMAIN h |-> Taken(h, headers, e)]

AllAsked(h, headers) == [i \in DOMAIN h |-> Asked(h, headers, i)]

\* The mail's headers, and a list of names that the code reads as it is meant.
Selecting(h, headers, S) ==
    /\ h \in Seq(Chars) /\ NameList(h) /\ LowerCase(h)
    /\ headers \in Seq(S)
    /\ \A k \in DOMAIN headers : headers[k].key \in Seq(Chars)

\* At the end of a name every header is taken that begins like it, among them those of
\* that name.
LEMMA NameTaken ==
    ASSUME NEW S, NEW h, NEW headers, Selecting(h, headers, S),
           NEW i \in 1 .. Len(h), LastOfName(h, i)
    PROVE  /\ EndOfName(h, i) \in 1 .. Len(h)
           /\ Taken(h, headers, EndOfName(h, i)) = Pick(headers, Begins(h, headers, i))
           /\ Named(RefName(h, i), headers) \subseteq Begins(h, headers, i)
<1> DEFINE e == EndOfName(h, i)
           w == RefName(h, i)
<1>1. h \in Seq(Chars) /\ NameList(h) /\ LowerCase(h)
    BY DEF Selecting
<1>2. e \in NameEnds(h) /\ NameAt(h, e) = w
    BY <1>1, NameSame
<1>3. w \in Seq(Chars) /\ str_to_lower(w) = w
    BY <1>1, NameLower
<1>4. e \in 1 .. Len(h)
    BY <1>1, <1>2 DEF NameEnds
<1> HIDE DEF e, w
<1>5. Taken(h, headers, e) = Pick(headers, {k \in DOMAIN headers :
                                               At(str_to_lower(headers[k].key), 1, w)})
    BY <1>2 DEF Taken
<1>6. Begins(h, headers, i) = {k \in DOMAIN headers : At(str_to_lower(headers[k].key), 1, w)}
    BY <1>3 DEF Begins, w
<1>7. ASSUME NEW k \in Named(w, headers) PROVE k \in Begins(h, headers, i)
    <2>1. /\ k \in DOMAIN headers /\ headers[k].key \in Seq(Chars)
          /\ str_to_lower(headers[k].key) = str_to_lower(w)
        BY <1>7 DEF Named, Selecting
    <2>2. At(str_to_lower(headers[k].key), 1, str_to_lower(headers[k].key))
        BY <2>1, BeginsWithItself
    <2> QED BY <1>3, <1>6, <2>1, <2>2
<1> QED BY <1>4, <1>5, <1>6, <1>7 DEF e, w

\* Both are lists of lists of headers.
LEMMA PiecesTyped ==
    ASSUME NEW S, NEW h, NEW headers, Selecting(h, headers, S)
    PROVE  /\ AllTaken(h, headers) \in Seq(Seq(S)) /\ Len(AllTaken(h, headers)) = Len(h)
           /\ AllAsked(h, headers) \in Seq(Seq(S)) /\ Len(AllAsked(h, headers)) = Len(h)
<1> DEFINE T(e) == Taken(h, headers, e)
           A(i) == Asked(h, headers, i)
           L == Seq(S)
<1>1. headers \in Seq(S) /\ h \in Seq(Chars) /\ DOMAIN h = 1 .. Len(h) /\ Len(h) \in Nat
    BY DEF Selecting
<1>2. \A e \in DOMAIN h : T(e) \in L /\ A(e) \in L
    <2>1. \A B : Pick(headers, B) \in Seq(S)
        BY <1>1, PickTyped
    <2> QED BY <2>1 DEF Taken, Asked
<1> HIDE DEF T, A, L
<1>3. /\ [e \in DOMAIN h |-> T(e)] \in Seq(L) /\ Len([e \in DOMAIN h |-> T(e)]) = Len(h)
      /\ [i \in DOMAIN h |-> A(i)] \in Seq(L) /\ Len([i \in DOMAIN h |-> A(i)]) = Len(h)
    BY <1>1, <1>2
<1> QED BY <1>3 DEF T, A, L, AllTaken, AllAsked

\* None of the named headers is left out.
LEMMA NamedChosen ==
    ASSUME NEW S, NEW h, NEW headers, Selecting(h, headers, S),
           NEW i \in 1 .. Len(h), LastOfName(h, i), NEW e \in Named(RefName(h, i), headers)
    PROVE  \E k \in DOMAIN SelectHeaders(h, headers) : SelectHeaders(h, headers)[k] = headers[e]
<1> DEFINE q == AllTaken(h, headers)
           p == EndOfName(h, i)
           B == Begins(h, headers, i)
<1>1. headers \in Seq(S) /\ h \in Seq(Chars) /\ DOMAIN h = 1 .. Len(h)
    BY DEF Selecting
<1>2. p \in 1 .. Len(h) /\ Taken(h, headers, p) = Pick(headers, B) /\ e \in B
    BY NameTaken
<1>3. e \in 1 .. Len(headers)
    BY <1>1 DEF Named
<1>4. q \in Seq(Seq(S)) /\ Len(q) = Len(h)
    BY PiecesTyped
<1>5. q[p] = Pick(headers, B)
    BY <1>1, <1>2 DEF AllTaken
<1>6. SelectHeaders(h, headers) = FlattenSeq(q)
    BY DEF SelectHeaders, Taken, AllTaken
<1> HIDE DEF q, p, B
<1>7. PICK k \in DOMAIN Pick(headers, B) : Pick(headers, B)[k] = headers[e]
    BY <1>1, <1>2, <1>3, PickHas
<1>8. Pick(headers, B) \in Seq(S)
    BY <1>1, PickTyped
<1>9. p \in 1 .. Len(q) /\ k \in 1 .. Len(q[p]) /\ q[p][k] = headers[e]
    BY <1>2, <1>4, <1>5, <1>7, <1>8
<1>10. \E m \in DOMAIN FlattenSeq(q) : FlattenSeq(q)[m] = q[p][k]
    BY <1>4, <1>9, FlattenHas
<1> QED BY <1>6, <1>9, <1>10

\* If nothing rivals with a name, the scan takes what the name asks for, one position
\* later unless it is the last.
LEMMA SelectedExactly ==
    ASSUME NEW S, NEW h, NEW headers, Selecting(h, headers, S), NoRivals(h, headers)
    PROVE  SelectHeaders(h, headers) = FlattenSeq(AllAsked(h, headers))
<1> DEFINE T(e) == Taken(h, headers, e)
           A(i) == Asked(h, headers, i)
           p == AllTaken(h, headers)
           q == AllAsked(h, headers)
           n == Len(h)
<1>1. h \in Seq(Chars) /\ DOMAIN h = 1 .. n /\ n \in Nat
    BY DEF Selecting
<1>2. p \in Seq(Seq(S)) /\ q \in Seq(Seq(S)) /\ Len(p) = n /\ Len(q) = n
    BY PiecesTyped
<1>3. SelectHeaders(h, headers) = FlattenSeq(p)
    BY DEF SelectHeaders, Taken, AllTaken
<1>3a. /\ \A i \in 1 .. n : h[i] = Separator => i > 1 /\ i < n /\ h[i - 1] # Separator
       /\ \A i \in 1 .. n : i \in NameEnds(h) <=> h[i] = Separator \/ i = n
    BY <1>1 DEF Selecting, NameList, NameEnds
<1>3b. \A i : /\ LastOfName(h, i) <=> h[i] # Separator /\ (i < n => h[i + 1] = Separator)
              /\ EndOfName(h, i) = IF i < n THEN i + 1 ELSE i
    BY DEF LastOfName, EndOfName
<1>4. ASSUME NEW i \in 1 .. n, LastOfName(h, i)
      PROVE  T(EndOfName(h, i)) = A(i)
    <2>1. Begins(h, headers, i) = Named(RefName(h, i), headers)
        <3>1. Named(RefName(h, i), headers) \subseteq Begins(h, headers, i)
            BY <1>4, NameTaken
        <3>2. ASSUME NEW k \in Begins(h, headers, i) PROVE k \in Named(RefName(h, i), headers)
            <4>1. k \in DOMAIN headers
                  /\ At(str_to_lower(headers[k].key), 1, str_to_lower(RefName(h, i)))
                BY <3>2 DEF Begins
            <4>2. Named(RefName(h, i), headers) = {k}
                BY <1>1, <1>4, <4>1 DEF NoRivals
            <4> QED BY <4>2
        <3> QED BY <3>1, <3>2
    <2>2. T(EndOfName(h, i)) = Pick(headers, Begins(h, headers, i))
        BY <1>4, NameTaken
    <2> QED BY <1>4, <2>1, <2>2 DEF Asked
<1> HIDE DEF n
<1>5. ASSUME NEW i \in 1 .. n, i = n PROVE T(i) = A(i)
    <2>1. h[i] # Separator
        BY <1>1, <1>5, <1>3a
    <2>2. LastOfName(h, i) /\ EndOfName(h, i) = i
        BY <1>1, <1>5, <1>3b, <2>1
    <2> QED BY <1>4, <2>2
<1>6. ASSUME NEW i \in 1 .. n, i = n - 1 PROVE A(i) = <<>>
    <2>1. i + 1 \in 1 .. n /\ i + 1 = n /\ i < n
        BY <1>1, <1>6
    <2>2. h[i + 1] # Separator
        BY <1>1, <1>3a, <2>1
    <2>3. ~ LastOfName(h, i)
        BY <1>3b, <2>1, <2>2
    <2> QED BY <2>3 DEF Asked
<1>7. ASSUME NEW i \in 1 .. n, i < n PROVE T(i) = IF i = 1 THEN <<>> ELSE A(i - 1)
    <2>1. CASE h[i] = Separator
        <3>1. i > 1 /\ h[i - 1] # Separator /\ i - 1 \in 1 .. n /\ i - 1 < n /\ (i - 1) + 1 = i
            BY <1>1, <1>7, <1>3a, <2>1
        <3>2. LastOfName(h, i - 1) /\ EndOfName(h, i - 1) = i
            BY <1>3b, <2>1, <3>1
        <3>3. T(i) = A(i - 1)
            BY <1>4, <3>1, <3>2
        <3> QED BY <3>1, <3>3
    <2>2. CASE h[i] # Separator
        <3>1. i \notin NameEnds(h)
            BY <1>1, <1>7, <1>3a, <2>2
        <3>2. T(i) = <<>>
            BY <3>1 DEF Taken
        <3>3. ASSUME i # 1 PROVE A(i - 1) = <<>>
            <4>1. i - 1 < n /\ (i - 1) + 1 = i
                BY <1>1, <1>7, <3>3
            <4>2. ~ LastOfName(h, i - 1)
                BY <1>3b, <2>2, <4>1
            <4> QED BY <4>2 DEF Asked
        <3> QED BY <3>2, <3>3
    <2> QED BY <2>1, <2>2
<1>8. /\ \A i \in 1 .. n : i < n => p[i] = IF i = 1 THEN <<>> ELSE q[i - 1]
      /\ \A i \in 1 .. n : i = n - 1 => q[i] = <<>>
      /\ n > 0 => p[n] = q[n]
    <2>1. \A i \in 1 .. n : p[i] = T(i) /\ q[i] = A(i)
        BY <1>1 DEF AllTaken, AllAsked
    <2>2. \A i \in 1 .. n : i # 1 => i - 1 \in 1 .. n
        BY <1>1
    <2>3. n > 0 => n \in 1 .. n
        BY <1>1
    <2> HIDE DEF T, A, p, q
    <2>4. ASSUME NEW i \in 1 .. n, i < n PROVE p[i] = IF i = 1 THEN <<>> ELSE q[i - 1]
        BY <1>7, <2>1, <2>2, <2>4
    <2>5. ASSUME NEW i \in 1 .. n, i = n - 1 PROVE q[i] = <<>>
        BY <1>6, <2>1, <2>5
    <2>6. n > 0 => p[n] = q[n]
        BY <1>5, <2>1, <2>3
    <2> QED BY <2>4, <2>5, <2>6
<1> HIDE DEF p, q
<1>9. /\ \A i \in 1 .. Len(p) : i < Len(p) => p[i] = IF i = 1 THEN <<>> ELSE q[i - 1]
      /\ \A i \in 1 .. Len(p) : i = Len(p) - 1 => q[i] = <<>>
      /\ Len(p) > 0 => p[Len(p)] = q[Len(p)]
      /\ Len(p) = Len(q)
    BY <1>2, <1>8, Zenon
<1>10. FlattenSeq(p) = FlattenSeq(q)
    BY <1>2, <1>9, FlattenShifted
<1> QED BY <1>3, <1>10 DEF q

\* Every header that the h= list names, in the lower case, enters the hash, and if
\* no key continues a name and no name is there twice, nothing else does.
THEOREM SelectionIsExact == TextSpec => []SelectionAgrees
<1>1. InputsTyped => SelectionAgrees
    <2> SUFFICES ASSUME InputsTyped, job = "select", NEW keys \in KeyLists,
                        NameList(input), LowerCase(input)
                 PROVE  LET headers == HeadersOf(keys)
                            chosen == SelectHeaders(input, headers)
                        IN /\ \A i \in DOMAIN input : LastOfName(input, i) =>
                                 \A e \in Named(RefName(input, i), headers) :
                                    \E k \in DOMAIN chosen : chosen[k] = headers[e]
                           /\ NoRivals(input, headers) =>
                                 chosen = FlattenSeq([i \in DOMAIN input |->
                                     IF LastOfName(input, i)
                                     THEN Pick(headers, Named(RefName(input, i), headers))
                                     ELSE <<>>])
        BY DEF SelectionAgrees
    <2> DEFINE headers == HeadersOf(keys)
               S == {headers[i] : i \in DOMAIN keys}
    <2>1. keys \in Seq(Seq(Chars)) /\ input \in Seq(Chars)
        BY TextsAssumption DEF InputsTyped, TextJobs
    <2>2. Selecting(input, headers, S)
        <3>1. /\ DOMAIN headers = 1 .. Len(keys) /\ Len(keys) \in Nat
              /\ \A k \in DOMAIN headers : headers[k].key = keys[k] /\ keys[k] \in Seq(Chars)
              /\ \A k \in 1 .. Len(keys) : headers[k] \in S
            BY <2>1 DEF HeadersOf
        <3>2. headers = [k \in 1 .. Len(keys) |-> headers[k]]
            BY <2>1 DEF HeadersOf
        <3> HIDE DEF headers, S
        <3>3. headers \in Seq(S)
            BY <3>1, <3>2
        <3> QED BY <2>1, <3>1, <3>3 DEF Selecting
    <2> HIDE DEF headers, S
    <2>3. ASSUME NEW i \in DOMAIN input, LastOfName(input, i),
                 NEW e \in Named(RefName(input, i), headers)
          PROVE  \E k \in DOMAIN SelectHeaders(input, headers) :
                    SelectHeaders(input, headers)[k] = headers[e]
        <3>1. i \in 1 .. Len(input)
            BY <2>1
        <3> QED BY <2>2, <2>3, <3>1, NamedChosen
    <2>4. ASSUME NoRivals(input, headers)
          PROVE  SelectHeaders(input, headers) =
                    FlattenSeq(AllAsked(input, headers))
        BY <2>2, <2>4, SelectedExactly
    <2> QED BY <2>3, <2>4 DEF headers, Asked, AllAsked
<1> QED BY <1>1, TextsTyped, PTL
=============================================================================
