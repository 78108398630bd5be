---------------------------- MODULE TextsProofs ----------------------------
(***************************************************************************)
(* The text algorithms on every input: induction over texts, the growing    *)
(* buffers, the body of a mail, and canonicalisation.                      *)
(***************************************************************************)
EXTENDS Texts, WellFoundedInduction, FiniteSetTheorems, TLAPS

-----------------------------------------------------------------------------
(* Induction and recursion over 0 .. n, with sets in the place of predicates *)

\* A set that has 0 and with each number below n the next one has all up to n.
LEMMA UpToN ==
    ASSUME NEW n \in Nat, NEW T, 0 \in T, \A i \in 0 .. n - 1 : i \in T => i + 1 \in T
    PROVE  0 .. n \subseteq T
<1> DEFINE U == {i \in 0 .. n : i \notin T}
<1> SUFFICES ASSUME U # {} PROVE FALSE
    OBVIOUS
<1>1. U \subseteq Nat
    OBVIOUS
<1>2. PICK i \in U : \A j \in U : ~ (<<j, i>> \in OpToRel(<, Nat))
    BY <1>1, WFMin, NatLessThanWellFounded
<1>3. \A j \in U : ~ (j < i)
    BY <1>1, <1>2 DEF OpToRel
<1>4. i # 0 /\ i - 1 \in 0 .. n - 1
    OBVIOUS
<1>5. i - 1 \in T
    BY <1>3, <1>4
<1> QED BY <1>4, <1>5

\* f is computed from base by the steps g up to m.
Computes(f, m, S, base, g) ==
    /\ f \in [0 .. m -> S]
    /\ f[0] = base
    /\ \A i \in 1 .. m : f[i] = g[i][f[i - 1]]

\* A recursive function over 0 .. n exists if its steps stay inside a set.
LEMMA Recursion ==
    ASSUME NEW n \in Nat, NEW S, NEW base \in S, NEW g \in [1 .. n -> [S -> S]]
    PROVE  \E f : Computes(f, n, S, base, g)
<1> DEFINE T == {m \in 0 .. n : \E f : Computes(f, m, S, base, g)}
<1>1. 0 \in T
    <2>1. Computes([i \in 0 .. 0 |-> base], 0, S, base, g)
        BY DEF Computes
    <2> QED BY <2>1
<1>2. ASSUME NEW m \in 0 .. n - 1, m \in T PROVE m + 1 \in T
    <2>1. PICK f : Computes(f, m, S, base, g)
        BY <1>2
    <2> DEFINE x == g[m + 1][f[m]]
               h == [i \in 0 .. m + 1 |-> IF i = m + 1 THEN x ELSE f[i]]
    <2>2. x \in S
        BY <2>1 DEF Computes
    <2>4. h \in [0 .. m + 1 -> S] /\ h[0] = base
        BY <2>1, <2>2 DEF Computes
    <2>5. ASSUME NEW i \in 1 .. m + 1 PROVE h[i] = g[i][h[i - 1]]
        <3>1. CASE i = m + 1
            BY <3>1
        <3>2. CASE i # m + 1
            BY <2>1, <3>2 DEF Computes
        <3> QED BY <3>1, <3>2
    <2>6. Computes(h, m + 1, S, base, g)
        BY <2>4, <2>5 DEF Computes
    <2> QED BY <2>6
<1>3. 0 .. n \subseteq T
    <2> HIDE DEF T
    <2> QED BY <1>1, <1>2, UpToN
<1> QED BY <1>3

\* A function stays in a set that it begins in and no step leaves.
LEMMA Stays ==
    ASSUME NEW n \in Nat, NEW S, NEW F, F[0] \in S,
           \A i \in 1 .. n : F[i - 1] \in S => F[i] \in S
    PROVE  \A i \in 0 .. n : F[i] \in S
<1> DEFINE U == {i \in 0 .. n : F[i] \in S}
<1>1. 0 \in U
    OBVIOUS
<1>2. ASSUME NEW i \in 0 .. n - 1, i \in U PROVE i + 1 \in U
    <2>1. i + 1 \in 1 .. n /\ (i + 1) - 1 = i
        OBVIOUS
    <2> QED BY <1>2, <2>1
<1> HIDE DEF U
<1>3. 0 .. n \subseteq U
    BY <1>1, <1>2, UpToN
<1> QED BY <1>3 DEF U

-----------------------------------------------------------------------------
(* Kept and Pick *)

\* What Kept computes, step by step.
LEMMA KeptDef ==
    ASSUME NEW S, NEW s \in Seq(S), NEW T
    PROVE  /\ Kept(s, T) \in [0 .. Len(s) -> Seq(S)]
           /\ Kept(s, T)[0] = <<>>
           /\ \A n \in 1 .. Len(s) : Kept(s, T)[n] =
                 IF n \in T THEN Append(Kept(s, T)[n - 1], s[n]) ELSE Kept(s, T)[n - 1]
<1> DEFINE n == Len(s)
           g == [i \in 1 .. n |-> [x \in Seq(S) |-> IF i \in T THEN Append(x, s[i]) ELSE x]]
           F == CHOOSE f : f = [i \in 0 .. n |->
                    IF i = 0 THEN <<>> ELSE IF i \in T THEN Append(f[i - 1], s[i]) ELSE f[i - 1]]
<1>0. n \in Nat /\ <<>> \in Seq(S) /\ \A i \in 1 .. n : s[i] \in S
    OBVIOUS
<1>1. PICK f : Computes(f, n, Seq(S), <<>>, g)
    <2>1. g \in [1 .. n -> [Seq(S) -> Seq(S)]]
        OBVIOUS
    <2> HIDE DEF g, n
    <2> QED BY <1>0, <2>1, Recursion
<1>2. \A i \in 1 .. n : f[i - 1] \in Seq(S)
    <2> HIDE DEF g, n
    <2> QED BY <1>0, <1>1 DEF Computes
<1>3. \A i \in 1 .. n : f[i] = IF i \in T THEN Append(f[i - 1], s[i]) ELSE f[i - 1]
    BY <1>1, <1>2 DEF Computes
<1> HIDE DEF n
<1>4. \A i \in 0 .. n : i # 0 => i \in 1 .. n
    BY <1>0
<1>5. f = [i \in 0 .. n |->
              IF i = 0 THEN <<>> ELSE IF i \in T THEN Append(f[i - 1], s[i]) ELSE f[i - 1]]
    <2> HIDE DEF g
    <2>1. f[0] = <<>> /\ f \in [0 .. n -> Seq(S)]
        BY <1>1 DEF Computes
    <2>2. \A i \in 0 .. n : f[i] =
             IF i = 0 THEN <<>> ELSE IF i \in T THEN Append(f[i - 1], s[i]) ELSE f[i - 1]
        BY <1>3, <1>4, <2>1
    <2> QED BY <2>1, <2>2
<1>6. F = [i \in 0 .. n |->
              IF i = 0 THEN <<>> ELSE IF i \in T THEN Append(F[i - 1], s[i]) ELSE F[i - 1]]
    BY <1>5
<1>7. Kept(s, T) = F
    BY DEF Kept, n
<1> HIDE DEF F
<1>8. 0 \in 0 .. n /\ \A i \in 1 .. n : i \in 0 .. n /\ i # 0
    BY <1>0
<1>9. /\ F[0] = <<>>
      /\ \A i \in 1 .. n : F[i] = IF i \in T THEN Append(F[i - 1], s[i]) ELSE F[i - 1]
    BY <1>6, <1>8
<1>10. ASSUME NEW i \in 1 .. n, F[i - 1] \in Seq(S) PROVE F[i] \in Seq(S)
    <2>1. s[i] \in S
        BY <1>0
    <2>2. Append(F[i - 1], s[i]) \in Seq(S)
        BY <1>10, <2>1
    <2> QED BY <1>9, <1>10, <2>2
<1>11. \A i \in 0 .. n : F[i] \in Seq(S)
    <2> DEFINE Q == Seq(S)
    <2>1. F[0] \in Q /\ \A i \in 1 .. n : F[i - 1] \in Q => F[i] \in Q
        BY <1>0, <1>9, <1>10
    <2> HIDE DEF Q
    <2>2. \A i \in 0 .. n : F[i] \in Q
        BY <1>0, <2>1, Stays
    <2> QED BY <2>2 DEF Q
<1>12. F \in [0 .. n -> Seq(S)]
    BY <1>6, <1>11
<1> QED BY <1>7, <1>9, <1>12 DEF n

-----------------------------------------------------------------------------
(* The growing buffers *)

\* Buffers whose writes have all stayed inside.
Buffer == [alloc : Nat, size : Nat, fits : {TRUE}]

\* Storing a character keeps to the buffer and leaves two bytes behind it.
LEMMA StoreDataFits ==
    ASSUME NEW b \in Buffer
    PROVE  /\ StoreData(b) \in Buffer
           /\ StoreData(b).size = b.size + 1
           /\ StoreData(b).alloc >= b.size + 3
<1> DEFINE grown == IF b.size + 2 >= b.alloc THEN [b EXCEPT !.alloc = b.size + Chunk] ELSE b
<1>1. /\ grown.alloc \in Nat /\ grown.size = b.size /\ b.size \in Nat
      /\ grown.alloc >= b.size + 3
    BY ChunkAssumption DEF Buffer
<1>2. grown.fits = TRUE
    BY DEF Buffer
<1>3. StoreData(b) = [alloc |-> grown.alloc, size |-> grown.size + 1,
                      fits |-> grown.fits /\ grown.size + 1 + 0 <= grown.alloc]
    BY DEF StoreData, Write
<1> HIDE DEF grown
<1>4. (grown.fits /\ grown.size + 1 + 0 <= grown.alloc) = TRUE
    BY <1>1, <1>2
<1>5. StoreData(b) = [alloc |-> grown.alloc, size |-> grown.size + 1, fits |-> TRUE]
    BY <1>3, <1>4
<1> QED BY <1>1, <1>5 DEF Buffer

\* What Stored computes, step by step.
LEMMA StoredDef ==
    ASSUME NEW n \in Nat
    PROVE  /\ Stored(n) \in [0 .. n -> Buffer]
           /\ Stored(n)[0] = Empty
           /\ \A i \in 1 .. n : Stored(n)[i] = StoreData(Stored(n)[i - 1])
<1> DEFINE g == [i \in 1 .. n |-> [x \in Buffer |-> StoreData(x)]]
           F == CHOOSE f : f = [i \in 0 .. n |-> IF i = 0 THEN Empty ELSE StoreData(f[i - 1])]
<1>1. PICK f : Computes(f, n, Buffer, Empty, g)
    <2>1. g \in [1 .. n -> [Buffer -> Buffer]]
        BY StoreDataFits
    <2>2. Empty \in Buffer
        BY DEF Empty, Buffer
    <2> HIDE DEF g
    <2> QED BY <2>1, <2>2, Recursion
<1>2. /\ f \in [0 .. n -> Buffer] /\ f[0] = Empty
      /\ \A i \in 1 .. n : f[i] = StoreData(f[i - 1])
    <2>1. f \in [0 .. n -> Buffer] /\ f[0] = Empty /\ \A i \in 1 .. n : f[i] = g[i][f[i - 1]]
        BY <1>1 DEF Computes
    <2>2. \A i \in 1 .. n : f[i - 1] \in Buffer
        BY <2>1
    <2> QED BY <2>1, <2>2
<1>3. \A i \in 0 .. n : i # 0 => i \in 1 .. n
    OBVIOUS
<1>4. \A i \in 0 .. n : f[i] = IF i = 0 THEN Empty ELSE StoreData(f[i - 1])
    BY <1>2, <1>3
<1>5. f = [i \in 0 .. n |-> IF i = 0 THEN Empty ELSE StoreData(f[i - 1])]
    BY <1>2, <1>4
<1>6. F = [i \in 0 .. n |-> IF i = 0 THEN Empty ELSE StoreData(F[i - 1])]
    BY <1>5
<1>7. Stored(n) = F
    BY DEF Stored
<1> HIDE DEF F
<1>8. 0 \in 0 .. n /\ \A i \in 1 .. n : i \in 0 .. n /\ i # 0
    OBVIOUS
<1>9. F[0] = Empty /\ \A i \in 1 .. n : F[i] = StoreData(F[i - 1])
    BY <1>6, <1>8
<1>10. F[0] \in Buffer /\ \A i \in 1 .. n : F[i - 1] \in Buffer => F[i] \in Buffer
    <2>1. Empty \in Buffer
        BY DEF Empty, Buffer
    <2> QED BY <1>9, <2>1, StoreDataFits
<1>11. \A i \in 0 .. n : F[i] \in Buffer
    BY <1>10, Stays
<1> QED BY <1>6, <1>7, <1>9, <1>11

\* Two bytes are free behind the characters of a mail that is not empty.
LEMMA DataAllocRoom ==
    ASSUME NEW n \in Nat, n > 0
    PROVE  data_alloc(n) \in Nat /\ data_alloc(n) >= n + 2
<1> DEFINE F == Stored(n)
           U == {i \in 0 .. n : F[i].size = i}
<1>1. /\ F \in [0 .. n -> Buffer] /\ F[0] = Empty
      /\ \A i \in 1 .. n : F[i] = StoreData(F[i - 1])
    BY StoredDef
<1> HIDE DEF F
<1>2. 0 \in U
    BY <1>1 DEF Empty
<1>3. ASSUME NEW i \in 0 .. n - 1, i \in U PROVE i + 1 \in U
    <2>1. F[i] \in Buffer /\ F[i].size = i /\ F[i + 1] = StoreData(F[i])
        BY <1>1, <1>3
    <2> QED BY <2>1, StoreDataFits
<1> HIDE DEF U
<1>4. 0 .. n \subseteq U
    BY <1>2, <1>3, UpToN
<1>5. n - 1 \in U /\ n \in 1 .. n /\ n - 1 \in 0 .. n
    BY <1>4
<1>6. F[n - 1].size = n - 1 /\ F[n - 1] \in Buffer /\ F[n] = StoreData(F[n - 1])
    BY <1>1, <1>5 DEF U
<1>7. F[n].alloc >= n + 2 /\ F[n] \in Buffer
    BY <1>6, StoreDataFits
<1> QED BY <1>7 DEF data_alloc, F, Buffer

\* A reply of any length keeps to its buffer.
LEMMA ResponseFits ==
    ASSUME NEW b \in Buffer, NEW n \in Nat
    PROVE  response_append(b, n) \in Buffer
<1> DEFINE grown == IF b.size + n + 1 >= b.alloc
                    THEN [b EXCEPT !.alloc = b.size + n + Chunk] ELSE b
<1>1. /\ grown.alloc \in Nat /\ grown.size = b.size /\ b.size \in Nat
      /\ grown.alloc >= b.size + n + 1
    BY ChunkAssumption DEF Buffer
<1>2. grown.fits = TRUE
    BY DEF Buffer
<1>3. response_append(b, n) = [alloc |-> grown.alloc, size |-> grown.size + n,
                               fits |-> grown.fits /\ grown.size + n + 1 <= grown.alloc]
    BY DEF response_append, Write
<1> HIDE DEF grown
<1>4. (grown.fits /\ grown.size + n + 1 <= grown.alloc) = TRUE
    BY <1>1, <1>2
<1>5. response_append(b, n) = [alloc |-> grown.alloc, size |-> grown.size + n, fits |-> TRUE]
    BY <1>3, <1>4
<1> QED BY <1>1, <1>5 DEF Buffer

\* JSON buffers whose text fits what alloc_size says.
SafeBuffer == {b \in Buffer : b.size <= b.alloc}

\* A value that is no longer than a chunk keeps to the JSON buffer.
LEMMA StringBufferFits ==
    ASSUME NEW b \in SafeBuffer, NEW n \in Nat, n <= Chunk
    PROVE  string_buffer_append(b, n) \in SafeBuffer
<1> DEFINE grown == IF n >= b.alloc - b.size THEN [b EXCEPT !.alloc = @ + Chunk] ELSE b
<1>1. CASE n = 0
    BY <1>1 DEF string_buffer_append
<1>2. CASE n # 0
    <2>1. /\ grown.alloc \in Nat /\ grown.size = b.size /\ b.size \in Nat
          /\ grown.alloc >= b.size + n
        BY ChunkAssumption DEF SafeBuffer, Buffer
    <2>2. grown.fits = TRUE
        BY DEF SafeBuffer, Buffer
    <2>3. string_buffer_append(b, n) =
             [alloc |-> grown.alloc, size |-> grown.size + n,
              fits |-> grown.fits /\ grown.size + n + 0 <= grown.alloc]
        BY <1>2 DEF string_buffer_append, Write
    <2> HIDE DEF grown
    <2>4. (grown.fits /\ grown.size + n + 0 <= grown.alloc) = TRUE
        BY <2>1, <2>2
    <2>5. string_buffer_append(b, n) =
             [alloc |-> grown.alloc, size |-> grown.size + n, fits |-> TRUE]
        BY <2>3, <2>4
    <2> QED BY <2>1, <2>5 DEF SafeBuffer, Buffer
<1> QED BY <1>1, <1>2

\* What Appended computes for response_append, step by step.
LEMMA ResponseFitsDef ==
    ASSUME NEW s \in Seq(Nat)
    PROVE  Appended(response_append, s) \in [0 .. Len(s) -> Buffer]
<1> DEFINE n == Len(s)
           g == [i \in 1 .. n |-> [x \in Buffer |-> response_append(x, s[i])]]
           F == CHOOSE f : f = [i \in 0 .. n |->
                    IF i = 0 THEN Empty ELSE response_append(f[i - 1], s[i])]
<1>0. /\ n \in Nat /\ Empty \in Buffer
      /\ \A i \in 1 .. n : \A x \in Buffer : response_append(x, s[i]) \in Buffer
    <2>1. Empty \in Buffer
        BY DEF Empty, Buffer
    <2>2. \A i \in 1 .. n : s[i] \in Nat
        OBVIOUS
    <2> QED BY <2>1, <2>2, ResponseFits
<1>1. PICK f : Computes(f, n, Buffer, Empty, g)
    <2>1. g \in [1 .. n -> [Buffer -> Buffer]]
        BY <1>0
    <2> HIDE DEF g, n
    <2> QED BY <1>0, <2>1, Recursion
<1> HIDE DEF n
<1>2. /\ f \in [0 .. n -> Buffer] /\ f[0] = Empty
      /\ \A i \in 1 .. n : f[i] = response_append(f[i - 1], s[i])
    <2>1. f \in [0 .. n -> Buffer] /\ f[0] = Empty /\ \A i \in 1 .. n : f[i] = g[i][f[i - 1]]
        BY <1>1 DEF Computes
    <2>2. \A i \in 1 .. n : f[i - 1] \in Buffer
        BY <1>0, <2>1
    <2> QED BY <2>1, <2>2
<1>3. \A i \in 0 .. n : i # 0 => i \in 1 .. n
    BY <1>0
<1>4. \A i \in 0 .. n : f[i] = IF i = 0 THEN Empty ELSE response_append(f[i - 1], s[i])
    BY <1>2, <1>3
<1>5. f = [i \in 0 .. n |-> IF i = 0 THEN Empty ELSE response_append(f[i - 1], s[i])]
    BY <1>2, <1>4
<1>6. F = [i \in 0 .. n |-> IF i = 0 THEN Empty ELSE response_append(F[i - 1], s[i])]
    BY <1>5
<1>7. Appended(response_append, s) = F
    BY DEF Appended, n
<1> HIDE DEF F
<1>8. 0 \in 0 .. n /\ \A i \in 1 .. n : i \in 0 .. n /\ i # 0
    BY <1>0
<1>9. F[0] = Empty /\ \A i \in 1 .. n : F[i] = response_append(F[i - 1], s[i])
    BY <1>6, <1>8
<1>10. F[0] \in Buffer /\ \A i \in 1 .. n : F[i - 1] \in Buffer => F[i] \in Buffer
    BY <1>0, <1>9
<1>11. \A i \in 0 .. n : F[i] \in Buffer
    BY <1>0, <1>10, Stays
<1> QED BY <1>6, <1>7, <1>11 DEF n

\* What Appended computes for string_buffer_append, step by step.
LEMMA StringBufferFitsDef ==
    ASSUME NEW s \in Seq(Nat), \A i \in DOMAIN s : s[i] <= Chunk
    PROVE  Appended(string_buffer_append, s) \in [0 .. Len(s) -> SafeBuffer]
<1> DEFINE n == Len(s)
           g == [i \in 1 .. n |-> [x \in SafeBuffer |-> string_buffer_append(x, s[i])]]
           F == CHOOSE f : f = [i \in 0 .. n |->
                    IF i = 0 THEN Empty ELSE string_buffer_append(f[i - 1], s[i])]
<1>0. /\ n \in Nat /\ Empty \in SafeBuffer
      /\ \A i \in 1 .. n : \A x \in SafeBuffer : string_buffer_append(x, s[i]) \in SafeBuffer
    <2>1. Empty \in SafeBuffer
        BY DEF Empty, Buffer, SafeBuffer
    <2>2. \A i \in 1 .. n : s[i] \in Nat
        OBVIOUS
    <2> QED BY <2>1, <2>2, StringBufferFits
<1>1. PICK f : Computes(f, n, SafeBuffer, Empty, g)
    <2>1. g \in [1 .. n -> [SafeBuffer -> SafeBuffer]]
        BY <1>0
    <2> HIDE DEF g, n
    <2> QED BY <1>0, <2>1, Recursion
<1> HIDE DEF n
<1>2. /\ f \in [0 .. n -> SafeBuffer] /\ f[0] = Empty
      /\ \A i \in 1 .. n : f[i] = string_buffer_append(f[i - 1], s[i])
    <2>1. f \in [0 .. n -> SafeBuffer] /\ f[0] = Empty /\ \A i \in 1 .. n : f[i] = g[i][f[i - 1]]
        BY <1>1 DEF Computes
    <2>2. \A i \in 1 .. n : f[i - 1] \in SafeBuffer
        BY <1>0, <2>1
    <2> QED BY <2>1, <2>2
<1>3. \A i \in 0 .. n : i # 0 => i \in 1 .. n
    BY <1>0
<1>4. \A i \in 0 .. n : f[i] = IF i = 0 THEN Empty ELSE string_buffer_append(f[i - 1], s[i])
    BY <1>2, <1>3
<1>5. f = [i \in 0 .. n |-> IF i = 0 THEN Empty ELSE string_buffer_append(f[i - 1], s[i])]
    BY <1>2, <1>4
<1>6. F = [i \in 0 .. n |-> IF i = 0 THEN Empty ELSE string_buffer_append(F[i - 1], s[i])]
    BY <1>5
<1>7. Appended(string_buffer_append, s) = F
    BY DEF Appended, n
<1> HIDE DEF F
<1>8. 0 \in 0 .. n /\ \A i \in 1 .. n : i \in 0 .. n /\ i # 0
    BY <1>0
<1>9. F[0] = Empty /\ \A i \in 1 .. n : F[i] = string_buffer_append(F[i - 1], s[i])
    BY <1>6, <1>8
<1>10. F[0] \in SafeBuffer /\ \A i \in 1 .. n : F[i - 1] \in SafeBuffer => F[i] \in SafeBuffer
    BY <1>0, <1>9
<1>11. \A i \in 0 .. n : F[i] \in SafeBuffer
    BY <1>0, <1>10, Stays
<1> QED BY <1>6, <1>7, <1>11 DEF n

-----------------------------------------------------------------------------
(* The inputs *)

\* What the jobs work on.
InputsTyped ==
    /\ job \in TextJobs => input \in Seq(Chars)
    /\ job = "append" => input \in Seq(Nat)

\* The input of a job is a text, or a list of lengths.
LEMMA TextsTyped == TextSpec => []InputsTyped
<1>1. TextInit => InputsTyped
    BY DEF TextInit, InputsTyped
<1>2. InputsTyped /\ [TextNext]_textVars => InputsTyped'
    <2> SUFFICES ASSUME InputsTyped, [TextNext]_textVars PROVE InputsTyped'
        OBVIOUS
    <2>1. CASE TextNext
        <3>1. PICK t \in Alphabet[job] : input' = input \o t
            BY <2>1 DEF TextNext
        <3>2. job' = job
            BY <2>1 DEF TextNext
        <3>3. ASSUME job \in TextJobs PROVE input' \in Seq(Chars)
            <4>1. input \in Seq(Chars) /\ t \in Seq(Chars)
                BY <3>1, <3>3, TextsAssumption DEF InputsTyped
            <4> QED BY <3>1, <4>1
        <3>4. ASSUME job = "append" PROVE input' \in Seq(Nat)
            <4>1. input \in Seq(Nat) /\ t \in Seq(Nat)
                BY <3>1, <3>4, TextsAssumption DEF InputsTyped
            <4> QED BY <3>1, <4>1
        <3> QED BY <3>2, <3>3, <3>4 DEF InputsTyped
    <2>2. CASE UNCHANGED textVars
        BY <2>2 DEF textVars, InputsTyped
    <2> QED BY <2>1, <2>2
<1> QED BY <1>1, <1>2, PTL DEF TextSpec

\* No append writes behind its buffer: response_append for values of any
\* lengths, string_buffer_append if none is longer than a chunk.
THEOREM AppendsStayInside == TextSpec => []AppendsFit
<1>1. InputsTyped => AppendsFit
    <2> SUFFICES ASSUME InputsTyped, job = "append" PROVE AppendsFit
        BY DEF AppendsFit
    <2>1. input \in Seq(Nat) /\ Len(input) \in 0 .. Len(input)
        BY DEF InputsTyped
    <2>2. Appended(response_append, input)[Len(input)] \in Buffer
        BY <2>1, ResponseFitsDef
    <2>3. ASSUME \A i \in DOMAIN input : input[i] <= Chunk
          PROVE  Appended(string_buffer_append, input)[Len(input)] \in SafeBuffer
        BY <2>1, <2>3, StringBufferFitsDef
    <2>4. \A b \in Buffer : b.fits
        BY DEF Buffer
    <2>5. \A b \in SafeBuffer : b.fits
        BY DEF Buffer, SafeBuffer
    <2> QED BY <2>2, <2>3, <2>4, <2>5 DEF AppendsFit
<1> QED BY <1>1, TextsTyped, PTL

-----------------------------------------------------------------------------
(* Positions *)

\* A set of naturals that is not empty has its Min.
LEMMA MinIn ==
    ASSUME NEW A, A \subseteq Nat, A # {}
    PROVE  Min(A) \in A /\ \A y \in A : Min(A) <= y
<1>1. PICK x \in A : \A y \in A : ~ (<<y, x>> \in OpToRel(<, Nat))
    BY WFMin, NatLessThanWellFounded
<1>2. ASSUME NEW y \in A PROVE x <= y
    <2>1. y \in Nat /\ x \in Nat /\ ~ (y < x)
        BY <1>1 DEF OpToRel
    <2> QED BY <2>1
<1> QED BY <1>2 DEF Min

\* A bounded set of naturals that is not empty has its Max.
LEMMA MaxIn ==
    ASSUME NEW m \in Nat, NEW A, A \subseteq 0 .. m, A # {}
    PROVE  Max(A) \in A /\ \A y \in A : Max(A) >= y
<1> DEFINE B == {n \in 0 .. m : m - n \in A}
<1>1. B \subseteq Nat /\ B # {}
    <2>1. PICK a : a \in A
        OBVIOUS
    <2>2. a \in 0 .. m
        BY <2>1
    <2>3. m - a \in 0 .. m /\ m - (m - a) = a
        BY <2>2
    <2>4. m - a \in B
        BY <2>1, <2>3
    <2> QED BY <2>4
<1>2. Min(B) \in B /\ \A y \in B : Min(B) <= y
    <2> HIDE DEF B
    <2> QED BY <1>1, MinIn
<1> DEFINE x == m - Min(B)
<1>3. x \in A
    BY <1>2
<1>4. ASSUME NEW y \in A PROVE x >= y
    <2>1. m - y \in 0 .. m /\ m - (m - y) = y
        OBVIOUS
    <2>2. m - y \in B
        BY <2>1
    <2>3. Min(B) <= m - y /\ Min(B) \in 0 .. m
        BY <1>2, <2>2
    <2> HIDE DEF B
    <2> QED BY <2>3
<1> HIDE DEF x
<1> QED BY <1>3, <1>4 DEF Max

\* The characters of t stand at position i of s.
StandsAt(s, i, t) ==
    i + Len(t) - 1 <= Len(s) /\ \A k \in 1 .. Len(t) : s[i + k - 1] = t[k]

\* strncmp, character by character.
LEMMA AtChars ==
    ASSUME NEW S, NEW s \in Seq(S), NEW t \in Seq(S), NEW i \in Nat \ {0}
    PROVE  At(s, i, t) <=> StandsAt(s, i, t)
<1>1. ASSUME i + Len(t) - 1 <= Len(s)
      PROVE  SubSeq(s, i, i + Len(t) - 1) = t
                <=> \A k \in 1 .. Len(t) : s[i + k - 1] = t[k]
    <2> DEFINE sub == SubSeq(s, i, i + Len(t) - 1)
    <2>1. /\ sub \in Seq(S) /\ Len(sub) = Len(t)
          /\ \A k \in 1 .. Len(t) : sub[k] = s[i + k - 1]
        BY <1>1
    <2> HIDE DEF sub
    <2>2. sub = t <=> \A k \in 1 .. Len(t) : sub[k] = t[k]
        BY <2>1
    <2> QED BY <2>1, <2>2 DEF sub
<1> QED BY <1>1 DEF At, StandsAt

\* A look ahead from i ends at most one position behind the text.
LEMMA LastReadBound ==
    ASSUME NEW s \in Seq(Chars), NEW t \in Seq(Chars), Len(t) > 0,
           NEW i \in Nat \ {0}, i <= Len(s) + 1
    PROVE  LastRead(s, i, t) \in Nat /\ LastRead(s, i, t) <= Len(s) + 1
<1> DEFINE same == {n \in 0 .. Len(t) - 1 : At(s, i, SubSeq(t, 1, n))}
<1>1. 0 \in same
    <2>1. SubSeq(t, 1, 0) = <<>> /\ SubSeq(s, i, i - 1) = <<>> /\ Len(<<>>) = 0
        OBVIOUS
    <2>2. At(s, i, <<>>)
        BY <2>1 DEF At
    <2>3. 0 \in 0 .. Len(t) - 1
        OBVIOUS
    <2> QED BY <2>1, <2>2, <2>3
<1>2. \A n \in same : i + n <= Len(s) + 1
    <2> SUFFICES ASSUME NEW n \in 0 .. Len(t) - 1, At(s, i, SubSeq(t, 1, n))
                 PROVE  i + n <= Len(s) + 1
        OBVIOUS
    <2>1. Len(SubSeq(t, 1, n)) = n
        OBVIOUS
    <2> QED BY <2>1 DEF At
<1>3. same \subseteq 0 .. Len(t) - 1 /\ Len(t) - 1 \in Nat
    OBVIOUS
<1>4. LastRead(s, i, t) = i + Max(same)
    BY DEF LastRead
<1> HIDE DEF same
<1>5. Max(same) \in same
    BY <1>1, <1>3, MaxIn
<1>6. Max(same) \in 0 .. Len(t) - 1 /\ i + Max(same) <= Len(s) + 1
    BY <1>2, <1>3, <1>5
<1> QED BY <1>4, <1>6

\* One sequence behind another.
LEMMA Joined ==
    ASSUME NEW S, NEW a \in Seq(S), NEW b \in Seq(S)
    PROVE  /\ a \o b \in Seq(S) /\ Len(a \o b) = Len(a) + Len(b)
           /\ \A k \in 1 .. Len(a) : (a \o b)[k] = a[k]
           /\ \A k \in 1 .. Len(b) : (a \o b)[Len(a) + k] = b[k]
    OBVIOUS

\* Sequences with the same elements.
LEMMA SameSeq ==
    ASSUME NEW S, NEW a \in Seq(S), NEW b \in Seq(S), Len(a) = Len(b),
           \A k \in 1 .. Len(a) : a[k] = b[k]
    PROVE  a = b
    OBVIOUS

\* A part of a sequence.
LEMMA PartOf ==
    ASSUME NEW S, NEW s \in Seq(S), NEW a \in Nat \ {0}, NEW b \in Nat, a <= b + 1, b <= Len(s)
    PROVE  /\ SubSeq(s, a, b) \in Seq(S) /\ Len(SubSeq(s, a, b)) = b - a + 1
           /\ \A k \in 1 .. b - a + 1 : SubSeq(s, a, b)[k] = s[a + k - 1]
    OBVIOUS

\* A part that is one character longer.
LEMMA PartMore ==
    ASSUME NEW S, NEW s \in Seq(S), NEW a \in Nat \ {0}, NEW b \in Nat, a <= b + 1, b + 1 <= Len(s)
    PROVE  SubSeq(s, a, b + 1) = Append(SubSeq(s, a, b), s[b + 1])
<1> DEFINE p == SubSeq(s, a, b)
           q == SubSeq(s, a, b + 1)
           r == Append(p, s[b + 1])
           m == b - a + 1
<1>1. /\ m \in Nat /\ b <= Len(s) /\ b + 1 \in Nat /\ a <= (b + 1) + 1 /\ (b + 1) - a + 1 = m + 1
      /\ a + (m + 1) - 1 = b + 1 /\ s[b + 1] \in S
    OBVIOUS
<1>2. p \in Seq(S) /\ Len(p) = m /\ \A k \in 1 .. m : p[k] = s[a + k - 1]
    BY <1>1, PartOf
<1>3. q \in Seq(S) /\ Len(q) = m + 1 /\ \A k \in 1 .. m + 1 : q[k] = s[a + k - 1]
    <2>1. q \in Seq(S) /\ Len(q) = (b + 1) - a + 1
          /\ \A k \in 1 .. (b + 1) - a + 1 : q[k] = s[a + k - 1]
        BY <1>1, PartOf
    <2> QED BY <1>1, <2>1
<1> HIDE DEF p, q, m
<1>4. r \in Seq(S) /\ Len(r) = Len(p) + 1 /\ r[Len(p) + 1] = s[b + 1]
      /\ \A k \in 1 .. Len(p) : r[k] = p[k]
    <2>1. p \in Seq(S) /\ s[b + 1] \in S
        BY <1>1, <1>2
    <2> QED BY <2>1
<1> HIDE DEF r
<1>5. \A k \in 1 .. m + 1 : k \in 1 .. m \/ k = m + 1
    BY <1>1
<1>6. (\A k \in 1 .. m : k \in 1 .. m + 1) /\ m + 1 \in 1 .. m + 1
    BY <1>1
<1>7. \A k \in 1 .. m + 1 : q[k] = r[k]
    BY <1>1, <1>2, <1>3, <1>4, <1>5, <1>6
<1>8. q = r
    <2>1. q \in Seq(S) /\ r \in Seq(S) /\ Len(q) = Len(r) /\ \A k \in 1 .. Len(q) : q[k] = r[k]
        BY <1>2, <1>3, <1>4, <1>7
    <2> QED BY <2>1, SameSeq
<1> QED BY <1>8 DEF p, q, r

\* The texts with which the parser compares.
LEMMA LineBreaks ==
    /\ CRLF \in Seq(Chars) /\ Len(CRLF) = 2 /\ CRLF[1] = CR /\ CRLF[2] = LF
    /\ CRLF \o CRLF \in Seq(Chars) /\ Len(CRLF \o CRLF) = 4
    /\ CRLF \o CRLF = <<CR, LF, CR, LF>>
    /\ CRLF \o <<SP>> \in Seq(Chars) /\ Len(CRLF \o <<SP>>) = 3
<1>1. CR \in Chars /\ LF \in Chars /\ SP \in Chars
    BY TextsAssumption DEF Blank
<1>2. CRLF \in Seq(Chars) /\ Len(CRLF) = 2 /\ CRLF[1] = CR /\ CRLF[2] = LF
    BY <1>1 DEF CRLF
<1>3. <<SP>> \in Seq(Chars) /\ Len(<<SP>>) = 1
    BY <1>1
<1>4. CRLF \o CRLF \in Seq(Chars) /\ Len(CRLF \o CRLF) = 4
    <2>1. CRLF \in Seq(Chars)
        BY <1>2
    <2>2. CRLF \o CRLF \in Seq(Chars) /\ Len(CRLF \o CRLF) = Len(CRLF) + Len(CRLF)
        BY <2>1, Joined
    <2> QED BY <1>2, <2>2
<1>5. CRLF \o <<SP>> \in Seq(Chars) /\ Len(CRLF \o <<SP>>) = 3
    BY <1>2, <1>3
<1>6. CRLF \o CRLF = <<CR, LF, CR, LF>>
    <2> DEFINE four == <<CR, LF, CR, LF>>
    <2>1. four \in Seq(Chars) /\ Len(four) = 4
        BY <1>1
    <2>2. /\ (CRLF \o CRLF)[1] = CR /\ (CRLF \o CRLF)[2] = LF
          /\ (CRLF \o CRLF)[3] = CR /\ (CRLF \o CRLF)[4] = LF
        <3>1. 1 \in 1 .. 2 /\ 2 \in 1 .. 2 /\ 2 + 1 = 3 /\ 2 + 2 = 4
            OBVIOUS
        <3>2. CRLF \in Seq(Chars)
            BY <1>2
        <3>3. /\ \A k \in 1 .. Len(CRLF) : (CRLF \o CRLF)[k] = CRLF[k]
              /\ \A k \in 1 .. Len(CRLF) : (CRLF \o CRLF)[Len(CRLF) + k] = CRLF[k]
            BY <3>2, Joined
        <3> DEFINE twice == CRLF \o CRLF
        <3> HIDE DEF twice
        <3>4. /\ \A k \in 1 .. 2 : twice[k] = CRLF[k]
              /\ \A k \in 1 .. 2 : twice[2 + k] = CRLF[k]
            BY <1>2, <3>3 DEF twice
        <3>5. twice[1] = CR /\ twice[2] = LF /\ twice[3] = CR /\ twice[4] = LF
            BY <1>2, <3>1, <3>4
        <3> QED BY <3>5 DEF twice
    <2>3. four[1] = CR /\ four[2] = LF /\ four[3] = CR /\ four[4] = LF
        OBVIOUS
    <2> HIDE DEF four
    <2>4. \A k \in 1 .. 4 : (CRLF \o CRLF)[k] = four[k]
        <3>1. \A k \in 1 .. 4 : k = 1 \/ k = 2 \/ k = 3 \/ k = 4
            OBVIOUS
        <3> QED BY <2>2, <2>3, <3>1
    <2>5. CRLF \o CRLF = four
        BY <1>4, <2>1, <2>4
    <2> QED BY <2>5 DEF four
<1> QED BY <1>2, <1>4, <1>5, <1>6

-----------------------------------------------------------------------------
(* The rounds of request_parse_data *)

\* A C string that is written, or what malloc left.
CText == Seq(Chars) \cup {Leftover}

ParserState ==
    [i : Nat \ {0}, done : BOOLEAN, is_key : BOOLEAN, text : Seq(Chars), key : CText,
     headers : Seq([key : CText, value : CText]), wild : BOOLEAN, read : Nat]

\* The looks ahead leave all but i, done and read alone; read stays at most one
\* position behind what is in memory.
LEMMA LookAheadIs ==
    ASSUME NEW st \in ParserState, NEW mem \in Seq(Chars), NEW len \in Nat,
           st.i <= Len(mem), st.read <= Len(mem) + 1
    PROVE  LET next == LookAhead(st, mem, len)
               blank == At(mem, st.i, CRLF \o CRLF)
           IN /\ next = [st EXCEPT !.i = IF blank THEN st.i + 2 ELSE st.i,
                                   !.done = IF blank THEN TRUE ELSE st.done,
                                   !.read = next.read]
              /\ next.read \in Nat /\ next.read <= Len(mem) + 1
<1> DEFINE blank == At(mem, st.i, CRLF \o CRLF)
           then == BlankLine(st, mem)
           seen == IF len - st.i > 1 THEN LastRead(mem, st.i, CRLF \o CRLF) ELSE st.i
           fold == LastRead(mem, then.i, CRLF \o <<SP>>)
           read == Max({then.read, seen, fold})
<1>1. st.i \in Nat \ {0} /\ st.read \in Nat
    BY DEF ParserState
<1>2. then = [st EXCEPT !.i = IF blank THEN st.i + 2 ELSE st.i,
                        !.done = IF blank THEN TRUE ELSE st.done]
    BY DEF BlankLine, ParserState
<1>3. /\ then.i = (IF blank THEN st.i + 2 ELSE st.i) /\ then.read = st.read
    BY <1>2 DEF ParserState
<1>4. blank => st.i + 3 <= Len(mem)
    BY DEF At, CRLF
<1>5. /\ CRLF \o CRLF \in Seq(Chars) /\ Len(CRLF \o CRLF) = 4
      /\ CRLF \o <<SP>> \in Seq(Chars) /\ Len(CRLF \o <<SP>>) = 3
    BY LineBreaks
<1>6. seen \in Nat /\ seen <= Len(mem) + 1
    <2>1. st.i <= Len(mem) + 1 /\ Len(CRLF \o CRLF) > 0
        BY <1>1, <1>5
    <2>2. LET r == LastRead(mem, st.i, CRLF \o CRLF) IN r \in Nat /\ r <= Len(mem) + 1
        BY <1>1, <1>5, <2>1, LastReadBound
    <2> QED BY <1>1, <2>1, <2>2
<1>7. then.i \in Nat \ {0} /\ then.i <= Len(mem) + 1
    BY <1>1, <1>3, <1>4
<1>8. fold \in Nat /\ fold <= Len(mem) + 1
    <2>1. Len(CRLF \o <<SP>>) > 0
        BY <1>5
    <2> QED BY <1>5, <1>7, <2>1, LastReadBound
<1>9. LookAhead(st, mem, len) = [then EXCEPT !.read = read]
    BY DEF LookAhead
<1>10. read \in Nat /\ read <= Len(mem) + 1
    <2> DEFINE A == {then.read, seen, fold}
    <2> HIDE DEF then, seen, fold
    <2>1. A \subseteq 0 .. Len(mem) + 1 /\ A # {} /\ Len(mem) + 1 \in Nat
        BY <1>1, <1>3, <1>6, <1>8
    <2> HIDE DEF A
    <2>2. Max(A) \in A
        BY <2>1, MaxIn
    <2>3. read = Max(A)
        BY DEF A
    <2> HIDE DEF read
    <2>4. read \in 0 .. Len(mem) + 1
        BY <2>1, <2>2, <2>3
    <2> QED BY <2>1, <2>4
<1> HIDE DEF read, blank, then
<1>11. LookAhead(st, mem, len) =
          [st EXCEPT !.i = IF blank THEN st.i + 2 ELSE st.i,
                     !.done = IF blank THEN TRUE ELSE st.done, !.read = read]
    BY <1>2, <1>9 DEF ParserState
<1>12. LookAhead(st, mem, len).read = read
    BY <1>11 DEF ParserState
<1> QED BY <1>10, <1>11, <1>12 DEF blank

\* The four ends of a round, from the state after the looks ahead.
LEMMA EndsTyped ==
    ASSUME NEW st \in ParserState, NEW c \in Chars
    PROVE  /\ Colon(st) \in ParserState /\ Colon(st).read = st.read
           /\ Fold(st) \in ParserState /\ Fold(st).read = st.read
           /\ EndOfHeader(st) \in ParserState /\ EndOfHeader(st).read = st.read
           /\ Character(st, c) \in ParserState /\ Character(st, c).read = st.read
<1>1. Colon(st) \in ParserState /\ Colon(st).read = st.read
    <2> DEFINE wild == st.wild \/ Wild(st)
               i == st.i + 2
               text == st.text
    <2>1. /\ wild \in BOOLEAN /\ i \in Nat \ {0} /\ text \in CText
          /\ <<>> \in Seq(Chars) /\ FALSE \in BOOLEAN
        BY DEF ParserState, CText
    <2>2. Colon(st) = [st EXCEPT !.key = text, !.is_key = FALSE, !.text = <<>>, !.i = i,
                                 !.wild = wild]
        BY DEF Colon
    <2> HIDE DEF wild, i, text
    <2> QED BY <2>1, <2>2 DEF ParserState
<1>2. Fold(st) \in ParserState /\ Fold(st).read = st.read
    BY DEF Fold, ParserState
<1>3. EndOfHeader(st) \in ParserState /\ EndOfHeader(st).read = st.read
    <2> DEFINE entry == [key |-> IF st.is_key THEN Leftover ELSE st.key,
                         value |-> IF st.is_key THEN Leftover ELSE st.text]
    <2>1. entry \in [key : CText, value : CText]
        BY DEF ParserState, CText
    <2> HIDE DEF entry
    <2>2. Append(st.headers, entry) \in Seq([key : CText, value : CText])
        BY <2>1 DEF ParserState
    <2> DEFINE headers == Append(st.headers, entry)
               i == st.i + 2
    <2>3. EndOfHeader(st) = [st EXCEPT !.headers = headers, !.is_key = TRUE,
                                       !.text = <<>>, !.key = Leftover, !.i = i]
        BY DEF EndOfHeader, entry
    <2>4. i \in Nat \ {0} /\ Leftover \in CText /\ <<>> \in Seq(Chars) /\ TRUE \in BOOLEAN
        BY DEF ParserState, CText
    <2> HIDE DEF headers, i
    <2>5. headers \in Seq([key : CText, value : CText])
        BY <2>2 DEF headers
    <2> QED BY <2>3, <2>4, <2>5 DEF ParserState
<1>4. Character(st, c) \in ParserState /\ Character(st, c).read = st.read
    <2> DEFINE max == IF st.is_key THEN KEY_MAX_LEN ELSE VALUE_MAX_LEN
               drop == c = NUL \/ (st.is_key /\ c = SP) \/ Len(st.text) >= max - 1
               text == IF drop THEN st.text ELSE Append(st.text, c)
               wild == st.wild \/ (~ drop /\ Wild(st))
               i == st.i + 1
    <2>1. text \in Seq(Chars) /\ wild \in BOOLEAN /\ i \in Nat \ {0}
        BY DEF ParserState
    <2>2. Character(st, c) = [st EXCEPT !.text = text, !.i = i, !.wild = wild]
        BY DEF Character
    <2> HIDE DEF text, wild, i
    <2> QED BY <2>1, <2>2 DEF ParserState
<1> QED BY <1>1, <1>2, <1>3, <1>4

\* A round keeps the types and reads at most one position behind the memory.
LEMMA RoundTyped ==
    ASSUME NEW st \in ParserState, NEW mem \in Seq(Chars), NEW len \in Nat,
           st.i <= Len(mem), st.read <= Len(mem) + 1
    PROVE  Round(st, mem, len) \in ParserState /\ Round(st, mem, len).read <= Len(mem) + 1
<1> DEFINE next == LookAhead(st, mem, len)
           cur == mem[st.i]
<1>1. next \in ParserState /\ next.read <= Len(mem) + 1
    <2> DEFINE blank == At(mem, st.i, CRLF \o CRLF)
    <2> DEFINE i == IF blank THEN st.i + 2 ELSE st.i
               done == IF blank THEN TRUE ELSE st.done
               read == next.read
    <2>1. next = [st EXCEPT !.i = i, !.done = done, !.read = read]
        BY LookAheadIs
    <2>2. read \in Nat /\ read <= Len(mem) + 1
        BY LookAheadIs
    <2>3. i \in Nat \ {0} /\ done \in BOOLEAN
        <3>1. st.i \in Nat \ {0} /\ st.i + 2 \in Nat \ {0} /\ st.done \in BOOLEAN
            BY DEF ParserState
        <3> HIDE DEF blank
        <3> QED BY <3>1
    <2> HIDE DEF next, i, done, read
    <2> QED BY <2>1, <2>2, <2>3 DEF ParserState
<1>2. cur \in Chars
    BY DEF ParserState
<1> HIDE DEF next, cur
<1>3. \/ Round(st, mem, len) = Colon(next)
      \/ Round(st, mem, len) = Fold(next)
      \/ Round(st, mem, len) = EndOfHeader(next)
      \/ Round(st, mem, len) = Character(next, cur)
    BY DEF Round, next, cur
<1> QED BY <1>1, <1>2, <1>3, EndsTyped

\* What Rounds computes, step by step.
LEMMA RoundsDef ==
    ASSUME NEW data \in Seq(Chars), NEW beyond \in Chars
    PROVE  LET mem == Append(data, beyond)
               F == Rounds(data, beyond)
           IN /\ F \in [0 .. Len(data) -> ParserState]
              /\ \A n \in 0 .. Len(data) : F[n].read <= Len(data) + 2
              /\ F[0] = Start
              /\ \A n \in 1 .. Len(data) : F[n] =
                    IF F[n - 1].done \/ F[n - 1].i > Len(data) THEN F[n - 1]
                    ELSE Round(F[n - 1], mem, Len(data))
<1> DEFINE mem == Append(data, beyond)
           len == Len(data)
           S == {st \in ParserState : st.read <= len + 2}
           step(st) == IF st.done \/ st.i > len THEN st ELSE Round(st, mem, len)
           g == [n \in 1 .. len |-> [st \in S |-> step(st)]]
           F == CHOOSE f : f = [n \in 0 .. len |-> IF n = 0 THEN Start ELSE step(f[n - 1])]
<1>0. len \in Nat /\ mem \in Seq(Chars) /\ Len(mem) = len + 1
    OBVIOUS
<1> HIDE DEF mem, len
<1>1. Start \in S
    BY <1>0 DEF Start, ParserState, CText
<1>2. ASSUME NEW st \in S PROVE step(st) \in S
    <2>1. CASE st.done \/ st.i > len
        BY <2>1
    <2>2. CASE ~ (st.done \/ st.i > len)
        <3>1. st \in ParserState /\ st.i <= Len(mem) /\ st.read <= Len(mem) + 1
            BY <1>0, <2>2 DEF ParserState
        <3>2. Round(st, mem, len) \in ParserState /\ Round(st, mem, len).read <= Len(mem) + 1
            BY <1>0, <3>1, RoundTyped
        <3>3. Round(st, mem, len) \in S
            BY <1>0, <3>2 DEF ParserState
        <3> QED BY <2>2, <3>3
    <2> QED BY <2>1, <2>2
<1>3. PICK f : Computes(f, len, S, Start, g)
    <2>1. g \in [1 .. len -> [S -> S]]
        BY <1>2
    <2> HIDE DEF g, S
    <2> QED BY <1>0, <1>1, <2>1, Recursion
<1> HIDE DEF S
<1>4. /\ f \in [0 .. len -> S] /\ f[0] = Start
      /\ \A n \in 1 .. len : f[n] = step(f[n - 1])
    <2>1. f \in [0 .. len -> S] /\ f[0] = Start /\ \A n \in 1 .. len : f[n] = g[n][f[n - 1]]
        BY <1>3 DEF Computes
    <2>2. \A n \in 1 .. len : f[n - 1] \in S
        BY <1>0, <2>1
    <2> QED BY <2>1, <2>2
<1>5. \A n \in 0 .. len : n # 0 => n \in 1 .. len
    BY <1>0
<1>6. f = [n \in 0 .. len |-> IF n = 0 THEN Start ELSE step(f[n - 1])]
    <2>1. \A n \in 0 .. len : f[n] = IF n = 0 THEN Start ELSE step(f[n - 1])
        BY <1>4, <1>5
    <2> QED BY <1>4, <2>1
<1>7. F = [n \in 0 .. len |-> IF n = 0 THEN Start ELSE step(F[n - 1])]
    BY <1>6
<1>8. Rounds(data, beyond) = F
    BY DEF Rounds, mem, len
<1> HIDE DEF F
<1>9. 0 \in 0 .. len /\ \A n \in 1 .. len : n \in 0 .. len /\ n # 0
    BY <1>0
<1>10. F[0] = Start /\ \A n \in 1 .. len : F[n] = step(F[n - 1])
    BY <1>7, <1>9
<1>11. F[0] \in S /\ \A n \in 1 .. len : F[n - 1] \in S => F[n] \in S
    BY <1>1, <1>2, <1>10
<1>12. \A n \in 0 .. len : F[n] \in S
    BY <1>0, <1>11, Stays
<1>13. \A n \in 0 .. len : F[n] \in ParserState /\ F[n].read <= len + 2
    BY <1>12 DEF S
<1>14. F \in [0 .. len -> ParserState]
    BY <1>7, <1>13
<1> QED BY <1>8, <1>10, <1>13, <1>14 DEF mem, len

\* What is stored of a text.
LEMMA ReceivedIs ==
    ASSUME NEW text \in Seq(Chars)
    PROVE  /\ Received(text) \in Seq(Chars)
           /\ Len(Received(text)) = Len(text) + 5
           /\ \A i \in 1 .. Len(text) : Received(text)[i] = text[i]
           /\ Received(text)[Len(text) + 1] = NUL
<1> DEFINE tail == <<NUL, LF, ".", CR, LF>>
<1>1. tail \in Seq(Chars) /\ Len(tail) = 5 /\ tail[1] = NUL
    BY TextsAssumption DEF Blank
<1>2. Received(text) = text \o tail
    BY DEF Received
<1> HIDE DEF tail
<1>3. tail \in Seq(Chars) /\ 1 \in 1 .. Len(tail)
    BY <1>1
<1>4. /\ text \o tail \in Seq(Chars) /\ Len(text \o tail) = Len(text) + Len(tail)
      /\ \A i \in 1 .. Len(text) : (text \o tail)[i] = text[i]
      /\ (text \o tail)[Len(text) + 1] = tail[1]
    BY <1>3, Joined
<1> QED BY <1>1, <1>2, <1>4

\* Whatever arrives, request_parse_data looks no further than data_alloc, which
\* the two bytes of reserve in request_parse_commands make possible.
THEOREM LookAheadStaysInside == TextSpec => []ReadsInBounds
<1>1. InputsTyped => ReadsInBounds
    <2> SUFFICES ASSUME InputsTyped, job = "mail", NEW beyond \in {SP, LF, "a"},
                        {SP, LF, "a"} \subseteq Chars
                 PROVE  LET data == Received(input)
                        IN request_parse_data(data, beyond).read <= data_alloc(Len(data))
        BY TextsAssumption DEF ReadsInBounds, Blank
    <2> DEFINE data == Received(input)
               end == Rounds(data, beyond)[Len(data)]
    <2>1. input \in Seq(Chars) /\ beyond \in Chars
        BY DEF InputsTyped, TextJobs
    <2>2. data \in Seq(Chars) /\ Len(data) \in Nat /\ Len(data) > 0
        BY <2>1, ReceivedIs
    <2>3. request_parse_data(data, beyond).read = end.read
        BY DEF request_parse_data
    <2> HIDE DEF data
    <2>4. end.read <= Len(data) + 2 /\ end.read \in Nat
        BY <2>1, <2>2, RoundsDef DEF ParserState
    <2>5. data_alloc(Len(data)) \in Nat /\ data_alloc(Len(data)) >= Len(data) + 2
        BY <2>2, DataAllocRoom
    <2> HIDE DEF end
    <2> QED BY <2>2, <2>3, <2>4, <2>5 DEF data
<1> QED BY <1>1, TextsTyped, PTL

-----------------------------------------------------------------------------
(* Where the rounds of a usual mail stop *)

\* The state after the looks ahead.
LEMMA LookAheadFields ==
    ASSUME NEW st \in ParserState, NEW mem \in Seq(Chars), NEW len \in Nat,
           st.i <= Len(mem), st.read <= Len(mem) + 1
    PROVE  LET next == LookAhead(st, mem, len)
               blank == At(mem, st.i, CRLF \o CRLF)
           IN /\ next \in ParserState
              /\ next.i = (IF blank THEN st.i + 2 ELSE st.i)
              /\ next.done = (IF blank THEN TRUE ELSE st.done)
              /\ next.is_key = st.is_key /\ next.text = st.text /\ next.key = st.key
              /\ next.headers = st.headers /\ next.wild = st.wild
<1> DEFINE blank == At(mem, st.i, CRLF \o CRLF)
           next == LookAhead(st, mem, len)
           i == IF blank THEN st.i + 2 ELSE st.i
           done == IF blank THEN TRUE ELSE st.done
           read == next.read
<1>1. next = [st EXCEPT !.i = i, !.done = done, !.read = read]
    BY LookAheadIs
<1>2. read \in Nat /\ read <= Len(mem) + 1
    BY LookAheadIs
<1>3. i \in Nat \ {0} /\ done \in BOOLEAN
    <2>1. st.i \in Nat \ {0} /\ st.i + 2 \in Nat \ {0} /\ st.done \in BOOLEAN
        BY DEF ParserState
    <2> HIDE DEF blank
    <2> QED BY <2>1
<1> HIDE DEF next, read, i, done
<1>4. next \in ParserState
    BY <1>1, <1>2, <1>3 DEF ParserState
<1>5. /\ next.i = i /\ next.done = done
      /\ next.is_key = st.is_key /\ next.text = st.text /\ next.key = st.key
      /\ next.headers = st.headers /\ next.wild = st.wild
    BY <1>1 DEF ParserState
<1> QED BY <1>4, <1>5 DEF next, i, done

\* What the four ends of a round do to the position and the kind of text.
LEMMA EndsMove ==
    ASSUME NEW st \in ParserState, NEW c \in Chars
    PROVE  /\ /\ Colon(st).i = st.i + 2 /\ Colon(st).done = st.done
              /\ Colon(st).is_key = FALSE
           /\ /\ Fold(st).i = st.i + 3 /\ Fold(st).done = st.done
              /\ Fold(st).is_key = st.is_key
           /\ /\ EndOfHeader(st).i = st.i + 2 /\ EndOfHeader(st).done = st.done
              /\ EndOfHeader(st).is_key = TRUE
           /\ /\ Character(st, c).i = st.i + 1 /\ Character(st, c).done = st.done
              /\ Character(st, c).is_key = st.is_key
<1>1. Colon(st).i = st.i + 2 /\ Colon(st).done = st.done /\ Colon(st).is_key = FALSE
    BY DEF Colon, ParserState
<1>2. Fold(st).i = st.i + 3 /\ Fold(st).done = st.done /\ Fold(st).is_key = st.is_key
    BY DEF Fold, ParserState
<1>3. /\ EndOfHeader(st).i = st.i + 2 /\ EndOfHeader(st).done = st.done
      /\ EndOfHeader(st).is_key = TRUE
    BY DEF EndOfHeader, ParserState
<1>4. /\ Character(st, c).i = st.i + 1 /\ Character(st, c).done = st.done
      /\ Character(st, c).is_key = st.is_key
    BY DEF Character, ParserState
<1> QED BY <1>1, <1>2, <1>3, <1>4

\* The comparisons of a round, character by character.
LEMMA LooksAtChars ==
    ASSUME NEW s \in Seq(Chars), NEW i \in Nat \ {0}
    PROVE  /\ At(s, i, CRLF) <=> i + 1 <= Len(s) /\ s[i] = CR /\ s[i + 1] = LF
           /\ At(s, i, CRLF \o CRLF) <=> /\ i + 3 <= Len(s) /\ s[i] = CR /\ s[i + 1] = LF
                                         /\ s[i + 2] = CR /\ s[i + 3] = LF
           /\ FoldsAt(s, i) <=> /\ i + 2 <= Len(s) /\ s[i] = CR /\ s[i + 1] = LF
                                /\ s[i + 2] \in WSP
<1>0. CR \in Chars /\ LF \in Chars /\ WSP \subseteq Chars
    BY TextsAssumption DEF Blank, WSP
<1>1. At(s, i, CRLF) <=> i + 1 <= Len(s) /\ s[i] = CR /\ s[i + 1] = LF
    <2>1. At(s, i, CRLF) <=> /\ i + 2 - 1 <= Len(s)
                             /\ \A k \in 1 .. 2 : s[i + k - 1] = CRLF[k]
        <3>1. CRLF \in Seq(Chars)
            BY LineBreaks
        <3>2. At(s, i, CRLF) <=> StandsAt(s, i, CRLF)
            BY <3>1, AtChars
        <3>3. Len(CRLF) = 2
            BY LineBreaks
        <3> QED BY <3>2, <3>3 DEF StandsAt
    <2>2. (\A k \in 1 .. 2 : s[i + k - 1] = CRLF[k]) <=> s[i] = CRLF[1] /\ s[i + 1] = CRLF[2]
        <3>1. \A k \in 1 .. 2 : k = 1 \/ k = 2
            OBVIOUS
        <3>2. i + 1 - 1 = i /\ i + 2 - 1 = i + 1 /\ 1 \in 1 .. 2 /\ 2 \in 1 .. 2
            OBVIOUS
        <3> QED BY <3>1, <3>2
    <2> QED BY <2>1, <2>2, LineBreaks
<1>2. At(s, i, CRLF \o CRLF) <=> /\ i + 3 <= Len(s) /\ s[i] = CR /\ s[i + 1] = LF
                                 /\ s[i + 2] = CR /\ s[i + 3] = LF
    <2> DEFINE four == <<CR, LF, CR, LF>>
    <2>1. four \in Seq(Chars) /\ Len(four) = 4 /\ CRLF \o CRLF = four
        BY <1>0, LineBreaks
    <2>2. four[1] = CR /\ four[2] = LF /\ four[3] = CR /\ four[4] = LF
        OBVIOUS
    <2> HIDE DEF four
    <2>3. At(s, i, four) <=> /\ i + 4 - 1 <= Len(s)
                             /\ \A k \in 1 .. 4 : s[i + k - 1] = four[k]
        <3>1. four \in Seq(Chars)
            BY <2>1
        <3>2. At(s, i, four) <=> StandsAt(s, i, four)
            BY <3>1, AtChars
        <3>3. Len(four) = 4
            BY <2>1
        <3> QED BY <3>2, <3>3 DEF StandsAt
    <2>4. (\A k \in 1 .. 4 : s[i + k - 1] = four[k]) <=>
              /\ s[i] = four[1] /\ s[i + 1] = four[2]
              /\ s[i + 2] = four[3] /\ s[i + 3] = four[4]
        <3>1. \A k \in 1 .. 4 : k = 1 \/ k = 2 \/ k = 3 \/ k = 4
            OBVIOUS
        <3>2. /\ i + 1 - 1 = i /\ i + 2 - 1 = i + 1 /\ i + 3 - 1 = i + 2 /\ i + 4 - 1 = i + 3
              /\ 1 \in 1 .. 4 /\ 2 \in 1 .. 4 /\ 3 \in 1 .. 4 /\ 4 \in 1 .. 4
            OBVIOUS
        <3> QED BY <3>1, <3>2
    <2> QED BY <2>1, <2>2, <2>3, <2>4
<1>3. FoldsAt(s, i) <=> /\ i + 2 <= Len(s) /\ s[i] = CR /\ s[i + 1] = LF
                        /\ s[i + 2] \in WSP
    <2>1. ASSUME NEW w \in WSP
          PROVE  At(s, i, Append(CRLF, w)) <=>
                    i + 2 <= Len(s) /\ s[i] = CR /\ s[i + 1] = LF /\ s[i + 2] = w
        <3> DEFINE three == Append(CRLF, w)
        <3>1. w \in Chars
            BY <1>0
        <3>2. /\ three \in Seq(Chars) /\ Len(three) = 3
              /\ three[1] = CR /\ three[2] = LF /\ three[3] = w
            BY <3>1, LineBreaks
        <3> HIDE DEF three
        <3>3. At(s, i, three) <=> /\ i + 3 - 1 <= Len(s)
                                  /\ \A k \in 1 .. 3 : s[i + k - 1] = three[k]
            <4>1. three \in Seq(Chars)
                BY <3>2
            <4>2. At(s, i, three) <=> StandsAt(s, i, three)
                BY <4>1, AtChars
            <4>3. Len(three) = 3
                BY <3>2
            <4> QED BY <4>2, <4>3 DEF StandsAt
        <3>4. (\A k \in 1 .. 3 : s[i + k - 1] = three[k]) <=>
                 s[i] = three[1] /\ s[i + 1] = three[2] /\ s[i + 2] = three[3]
            <4>1. \A k \in 1 .. 3 : k = 1 \/ k = 2 \/ k = 3
                OBVIOUS
            <4>2. /\ i + 1 - 1 = i /\ i + 2 - 1 = i + 1 /\ i + 3 - 1 = i + 2
                  /\ 1 \in 1 .. 3 /\ 2 \in 1 .. 3 /\ 3 \in 1 .. 3
                OBVIOUS
            <4> QED BY <4>1, <4>2
        <3> QED BY <3>2, <3>3, <3>4 DEF three
    <2> QED BY <2>1 DEF FoldsAt
<1> QED BY <1>1, <1>2, <1>3

\* UpTo by the position at which it stops.
LEMMA UpToIs ==
    ASSUME NEW S, NEW s \in Seq(S), NEW C, NEW i \in Nat \ {0}, NEW e \in i .. Len(s),
           s[e] \in C, \A j \in i .. e - 1 : s[j] \notin C
    PROVE  UpTo(s, i, C) = SubSeq(s, i, e - 1)
<1> DEFINE stops == {j \in i .. Len(s) : s[j] \in C}
<1>1. e \in stops
    OBVIOUS
<1>2. stops \subseteq Nat
    OBVIOUS
<1>3. \A j \in stops : e <= j
    OBVIOUS
<1>4. UpTo(s, i, C) = IF stops = {} THEN SubSeq(s, i, Len(s)) ELSE SubSeq(s, i, Min(stops) - 1)
    BY DEF UpTo
<1> HIDE DEF stops
<1>5. Min(stops) = e
    <2>1. Min(stops) \in stops /\ Min(stops) <= e
        BY <1>1, <1>2, MinIn
    <2>2. e <= Min(stops) /\ e \in Nat /\ Min(stops) \in Nat
        BY <1>1, <1>2, <1>3, <2>1
    <2> QED BY <2>1, <2>2
<1> QED BY <1>1, <1>4, <1>5

\* A text in the memory of the parser.
LEMMA MailMemory ==
    ASSUME NEW text \in Seq(Chars)
    PROVE  LET mem == Append(Received(text), SP)
           IN /\ mem \in Seq(Chars) /\ Len(mem) = Len(text) + 6
              /\ \A i \in 1 .. Len(text) : mem[i] = text[i]
              /\ mem[Len(text) + 1] = NUL
<1> DEFINE data == Received(text)
<1>1. /\ data \in Seq(Chars) /\ Len(data) = Len(text) + 5
      /\ \A i \in 1 .. Len(text) : data[i] = text[i]
      /\ data[Len(text) + 1] = NUL
    BY ReceivedIs
<1>2. SP \in Chars
    BY TextsAssumption DEF Blank
<1> HIDE DEF data
<1>3. data \in Seq(Chars)
    BY <1>1
<1>4. /\ Append(data, SP) \in Seq(Chars) /\ Len(Append(data, SP)) = Len(data) + 1
      /\ \A i \in 1 .. Len(data) : Append(data, SP)[i] = data[i]
    BY <1>2, <1>3
<1> DEFINE mem == Append(data, SP)
<1> HIDE DEF mem
<1>5. /\ mem \in Seq(Chars) /\ Len(mem) = Len(data) + 1
      /\ \A i \in 1 .. Len(data) : mem[i] = data[i]
    BY <1>4 DEF mem
<1>6. Len(text) \in Nat
    OBVIOUS
<1>7. /\ \A i \in 1 .. Len(text) : mem[i] = text[i]
      /\ mem[Len(text) + 1] = NUL
    BY <1>1, <1>5, <1>6
<1> QED BY <1>1, <1>5, <1>6, <1>7 DEF mem, data

\* The header part ends at the first blank line.
LEMMA HeaderEndIs ==
    ASSUME NEW text \in Seq(Chars), HasBody(text)
    PROVE  LET end == HeaderEnd(text)
           IN /\ end \in Nat \ {0} /\ end + 3 <= Len(text)
              /\ text[end] = CR /\ text[end + 1] = LF
              /\ text[end + 2] = CR /\ text[end + 3] = LF
              /\ \A i \in 1 .. end - 1 : ~ At(text, i, CRLF \o CRLF)
<1> DEFINE A == {i \in DOMAIN text : At(text, i, CRLF \o CRLF)}
           end == HeaderEnd(text)
<1>1. A # {} /\ A \subseteq Nat
    BY DEF HasBody
<1>2. end = Min(A)
    BY DEF HeaderEnd
<1>3. end \in A /\ \A y \in A : end <= y
    <2> HIDE DEF A, end
    <2> QED BY <1>1, <1>2, MinIn
<1> HIDE DEF end
<1>4. end \in 1 .. Len(text) /\ At(text, end, CRLF \o CRLF)
    BY <1>3
<1>5. /\ end \in Nat \ {0} /\ end + 3 <= Len(text)
      /\ text[end] = CR /\ text[end + 1] = LF /\ text[end + 2] = CR /\ text[end + 3] = LF
    <2>1. end \in Nat \ {0}
        BY <1>4
    <2> QED BY <1>4, <2>1, LooksAtChars
<1>6. ASSUME NEW i \in 1 .. end - 1 PROVE ~ At(text, i, CRLF \o CRLF)
    <2>1. i \in 1 .. Len(text) /\ ~ (end <= i)
        BY <1>5
    <2> QED BY <1>3, <2>1
<1> QED BY <1>5, <1>6 DEF end

\* Position i belongs to a field, and no colon of the field comes before it.
InName(text, i) ==
    \E start \in FieldStarts(text) :
        /\ start <= i
        /\ \A j \in start .. i - 1 : text[j] # ":" /\ j \notin FieldEnds(text)

\* The first colon of a field of a usual mail is followed by a space.
LEMMA ColonThenSpace ==
    ASSUME NEW text \in Seq(Chars), HasBody(text),
           \A start \in FieldStarts(text) : UsualField(FieldText(text, start)),
           NEW i \in 1 .. HeaderEnd(text) - 1, InName(text, i), text[i] = ":"
    PROVE  text[i + 1] = SP
<1> DEFINE end == HeaderEnd(text)
<1>1. /\ end \in Nat \ {0} /\ end + 3 <= Len(text)
      /\ text[end] = CR /\ text[end + 1] = LF
    BY HeaderEndIs
<1> HIDE DEF end
<1>2. PICK start \in FieldStarts(text) :
          /\ start <= i
          /\ \A j \in start .. i - 1 : text[j] # ":" /\ j \notin FieldEnds(text)
    BY DEF InName
<1>3. start \in 1 .. end /\ i \in 1 .. end - 1
    BY DEF FieldStarts, end
<1> DEFINE ends == {j \in FieldEnds(text) : j >= start}
           e == Min(ends)
           field == FieldText(text, start)
<1>4. end \in ends
    <2>1. At(text, end, CRLF)
        BY <1>1, LooksAtChars
    <2>2. end \notin Folds(text)
        BY <1>1 DEF Folds, end
    <2> QED BY <1>1, <1>3, <2>1, <2>2 DEF FieldEnds, end
<1>5. ends \subseteq Nat /\ \A j \in ends : j \in 1 .. end /\ text[j] = CR /\ j >= start
    <2> SUFFICES ASSUME NEW j \in ends PROVE j \in Nat /\ j \in 1 .. end /\ text[j] = CR /\ j >= start
        OBVIOUS
    <2>1. j \in 1 .. end /\ At(text, j, CRLF) /\ j >= start
        BY DEF FieldEnds, end
    <2> QED BY <1>1, <2>1, LooksAtChars
<1>6. e \in ends /\ e <= end
    <2> HIDE DEF ends
    <2> QED BY <1>4, <1>5, MinIn
<1>7. e \in 1 .. end /\ text[e] = CR /\ e >= start /\ e \in FieldEnds(text)
    BY <1>5, <1>6
<1>8. field = SubSeq(text, start, e - 1)
    BY DEF FieldText
<1> HIDE DEF e, ends, field
<1>9. i < e
    <2>1. CR # ":"
        BY DEF CR
    <2>2. ~ (e \in start .. i - 1)
        BY <1>2, <1>7
    <2> QED BY <1>3, <1>7, <2>1, <2>2
<1>10. /\ field \in Seq(Chars) /\ Len(field) = e - start
       /\ \A k \in 1 .. e - start : field[k] = text[start + k - 1]
    <2>1. /\ start \in Nat \ {0} /\ e - 1 \in Nat /\ start <= e - 1 + 1 /\ e - 1 <= Len(text)
          /\ e - 1 - start + 1 = e - start
        BY <1>1, <1>2, <1>3, <1>7, <1>9
    <2>2. /\ field \in Seq(Chars) /\ Len(field) = e - 1 - start + 1
          /\ \A n \in 1 .. e - 1 - start + 1 : field[n] = text[start + n - 1]
        BY <1>8, <2>1, PartOf
    <2> QED BY <2>1, <2>2
<1> DEFINE k == i - start + 1
<1>11. k \in 1 .. e - start /\ start + k - 1 = i
    BY <1>2, <1>3, <1>7, <1>9
<1>12. field[k] = ":"
    BY <1>10, <1>11
<1>13. \A j \in 1 .. k - 1 : field[j] \notin {":"}
    <2> SUFFICES ASSUME NEW j \in 1 .. k - 1 PROVE field[j] # ":"
        OBVIOUS
    <2>1. start + j - 1 \in start .. i - 1 /\ j \in 1 .. e - start
        BY <1>3, <1>7, <1>11
    <2> QED BY <1>2, <1>10, <2>1
<1>14. UpTo(field, 1, {":"}) = SubSeq(field, 1, k - 1)
    <2>1. k \in 1 .. Len(field) /\ field[k] \in {":"} /\ 1 \in Nat \ {0}
        BY <1>10, <1>11, <1>12
    <2>2. field \in Seq(Chars)
        BY <1>10
    <2> HIDE DEF k
    <2> QED BY <1>13, <2>1, <2>2, UpToIs
<1>15. Len(UpTo(field, 1, {":"})) = k - 1
    <2>1. k - 1 \in 0 .. Len(field) /\ field \in Seq(Chars)
        BY <1>3, <1>7, <1>10, <1>11
    <2> HIDE DEF k
    <2> QED BY <1>14, <2>1
<1>16. At(field, k, <<":", SP>>)
    <2>1. UsualField(field)
        BY DEF field
    <2>2. At(field, Len(UpTo(field, 1, {":"})) + 1, <<":", SP>>)
        BY <2>1 DEF UsualField
    <2>3. k - 1 + 1 = k
        BY <1>11
    <2> QED BY <1>15, <2>2, <2>3
<1>17. k + 1 <= Len(field) /\ field[k + 1] = SP
    <2> DEFINE two == <<":", SP>>
    <2>1. Len(two) = 2 /\ two[2] = SP
        OBVIOUS
    <2>2. k + 2 - 1 <= Len(field) /\ SubSeq(field, k, k + 2 - 1) = two
        BY <1>16, <2>1 DEF At
    <2> HIDE DEF two
    <2>3. k + 1 <= Len(field) /\ SubSeq(field, k, k + 1) = two /\ k \in 1 .. Len(field)
        BY <1>3, <1>7, <1>10, <1>11, <2>2
    <2>4. field \in Seq(Chars) /\ k \in Nat \ {0}
        BY <1>10, <2>3
    <2> HIDE DEF k
    <2>5. SubSeq(field, k, k + 1)[2] = field[k + 1]
        BY <2>3, <2>4
    <2> QED BY <2>1, <2>3, <2>5
<1>18. k + 1 \in 1 .. e - start /\ start + (k + 1) - 1 = i + 1
    BY <1>3, <1>7, <1>10, <1>11, <1>17
<1> QED BY <1>10, <1>17, <1>18

\* The four rounds inside the header part of a usual mail, none of which jumps
\* over its end.
LEMMA HeaderRound ==
    ASSUME NEW text \in Seq(Chars), UsualMail(text), NEW st \in ParserState,
           st.read <= Len(text) + 7, st.i < HeaderEnd(text),
           st.is_key => InName(text, st.i)
    PROVE  LET mem == Append(Received(text), SP)
               len == Len(Received(text))
               next == LookAhead(st, mem, len)
               r == Round(st, mem, len)
               i == st.i
               end == HeaderEnd(text)
           IN /\ next \in ParserState
              /\ next.i = i /\ next.done = st.done /\ next.is_key = st.is_key
              /\ next.text = st.text /\ next.key = st.key
              /\ next.headers = st.headers /\ next.wild = st.wild
              /\ \/ /\ r = Colon(next) /\ st.is_key /\ i + 2 <= end
                    /\ text[i] = ":" /\ text[i + 1] = SP
                 \/ /\ r = Fold(next) /\ i + 3 <= end /\ i \in Folds(text)
                    /\ text[i] = CR /\ text[i + 1] = LF /\ text[i + 2] \in WSP
                 \/ /\ r = EndOfHeader(next) /\ i + 2 <= end
                    /\ i \in FieldEnds(text) /\ i + 2 \in FieldStarts(text)
                    /\ text[i] = CR /\ text[i + 1] = LF
                 \/ /\ r = Character(next, text[i]) /\ i + 1 <= end
                    /\ text[i] # CR /\ (st.is_key => text[i] # ":")
<1> DEFINE mem == Append(Received(text), SP)
           len == Len(Received(text))
           next == LookAhead(st, mem, len)
           r == Round(st, mem, len)
           i == st.i
           end == HeaderEnd(text)
<1>0. /\ HasBody(text) /\ NoBareCR(text)
      /\ \A start \in FieldStarts(text) : UsualField(FieldText(text, start))
    BY DEF UsualMail
<1>1. /\ end \in Nat \ {0} /\ end + 3 <= Len(text)
      /\ text[end] = CR /\ text[end + 1] = LF
      /\ \A j \in 1 .. end - 1 : ~ At(text, j, CRLF \o CRLF)
    BY <1>0, HeaderEndIs
<1>2. /\ mem \in Seq(Chars) /\ Len(mem) = Len(text) + 6
      /\ \A j \in 1 .. Len(text) : mem[j] = text[j]
    BY MailMemory
<1>3. i \in Nat \ {0} /\ i < end /\ len \in Nat
    <2>1. Received(text) \in Seq(Chars)
        BY ReceivedIs
    <2> QED BY <2>1 DEF ParserState
<1>4. r = IF mem[i] = ":" /\ st.is_key THEN Colon(next)
          ELSE IF FoldsAt(mem, next.i) THEN Fold(next)
          ELSE IF mem[i] = CR THEN EndOfHeader(next)
          ELSE Character(next, mem[i])
    BY DEF Round
<1>5. ~ At(mem, i, CRLF \o CRLF)
    <2> SUFFICES ASSUME At(mem, i, CRLF \o CRLF) PROVE FALSE
        OBVIOUS
    <2> HIDE DEF mem, end
    <2>1. mem[i] = CR /\ mem[i + 1] = LF /\ mem[i + 2] = CR /\ mem[i + 3] = LF
        BY <1>2, <1>3, LooksAtChars
    <2>2. i + 3 <= Len(text) /\ i \in 1 .. end - 1
        BY <1>1, <1>3
    <2>3. /\ i \in 1 .. Len(text) /\ i + 1 \in 1 .. Len(text)
          /\ i + 2 \in 1 .. Len(text) /\ i + 3 \in 1 .. Len(text)
        BY <1>3, <2>2
    <2>4. text[i] = CR /\ text[i + 1] = LF /\ text[i + 2] = CR /\ text[i + 3] = LF
        BY <1>2, <2>1, <2>3
    <2>5. At(text, i, CRLF \o CRLF)
        BY <1>3, <2>2, <2>4, LooksAtChars
    <2> QED BY <1>1, <2>2, <2>5
<1>6. /\ next \in ParserState
      /\ next.i = i /\ next.done = st.done /\ next.is_key = st.is_key
      /\ next.text = st.text /\ next.key = st.key
      /\ next.headers = st.headers /\ next.wild = st.wild
    <2> HIDE DEF mem, len, end
    <2>1. st.i <= Len(mem) /\ st.read <= Len(mem) + 1
        BY <1>1, <1>2, <1>3 DEF ParserState
    <2> QED BY <1>2, <1>3, <1>5, <2>1, LookAheadFields
<1> HIDE DEF mem, len, next, r, end
<1>7. mem[i] = text[i] /\ mem[i + 1] = text[i + 1] /\ mem[i + 2] = text[i + 2]
    <2>1. i \in 1 .. Len(text) /\ i + 1 \in 1 .. Len(text) /\ i + 2 \in 1 .. Len(text)
        BY <1>1, <1>3
    <2> QED BY <1>2, <2>1
<1>8. CASE mem[i] = ":" /\ st.is_key
    <2>1. i \in 1 .. HeaderEnd(text) - 1 /\ text[i] = ":" /\ InName(text, i)
        BY <1>1, <1>3, <1>7, <1>8 DEF end
    <2>2. text[i + 1] = SP
        BY <1>0, <2>1, ColonThenSpace
    <2>3. i + 1 # end
        BY <1>1, <2>2 DEF SP, CR
    <2>4. i + 2 <= end
        BY <1>1, <1>3, <2>3
    <2> QED BY <1>4, <1>6, <1>8, <2>1, <2>2, <2>4 DEF mem, len, next, r, end
<1>9. CASE ~ (mem[i] = ":" /\ st.is_key) /\ FoldsAt(mem, i)
    <2>1. text[i] = CR /\ text[i + 1] = LF /\ text[i + 2] \in WSP
        BY <1>2, <1>3, <1>7, <1>9, LooksAtChars
    <2>2. i + 1 # end /\ i + 2 # end
        BY <1>1, <2>1 DEF WSP, SP, TAB, CR, LF
    <2>3. i + 3 <= end
        BY <1>1, <1>3, <2>2
    <2>4. i \in Folds(text)
        <3>1. At(text, i, CRLF)
            BY <1>1, <1>3, <2>1, <2>3, LooksAtChars
        <3> QED BY <1>1, <1>3, <2>1, <3>1 DEF Folds, end
    <2> QED BY <1>4, <1>6, <1>9, <2>1, <2>3, <2>4 DEF mem, len, next, r, end
<1>10. CASE ~ FoldsAt(mem, i) /\ mem[i] = CR
    <2>1. At(text, i, CRLF)
        <3>1. i \in DOMAIN text
            BY <1>1, <1>3
        <3> QED BY <1>0, <1>7, <1>10, <3>1 DEF NoBareCR
    <2>2. text[i] = CR /\ text[i + 1] = LF
        BY <1>3, <2>1, LooksAtChars
    <2>3. i + 1 # end
        BY <1>1, <2>2 DEF CR, LF
    <2>4. i + 2 <= end
        BY <1>1, <1>3, <2>3
    <2>5. text[i + 2] \notin WSP
        <3>1. i + 2 <= Len(mem)
            BY <1>1, <1>2, <1>3
        <3> QED BY <1>2, <1>3, <1>7, <1>10, <2>2, <3>1, LooksAtChars
    <2>6. i \in FieldEnds(text)
        BY <1>1, <1>3, <2>1, <2>5 DEF FieldEnds, Folds, end
    <2>7. i + 2 \in FieldStarts(text)
        <3>1. i + 2 \in 1 .. HeaderEnd(text) /\ (i + 2) - 2 = i
            BY <1>1, <1>3, <2>4 DEF end
        <3>2. (i + 2) - 2 \in FieldEnds(text)
            BY <2>6, <3>1
        <3> DEFINE start == i + 2
        <3> HIDE DEF start
        <3>3. start \in 1 .. HeaderEnd(text) /\ start - 2 \in FieldEnds(text)
            BY <3>1, <3>2 DEF start
        <3>4. start \in FieldStarts(text)
            BY <3>3 DEF FieldStarts
        <3> QED BY <3>4 DEF start
    <2>8. mem[i] # ":"
        BY <1>10 DEF CR
    <2> QED BY <1>4, <1>6, <1>10, <2>2, <2>4, <2>6, <2>7, <2>8 DEF mem, len, next, r, end
<1>11. CASE ~ (mem[i] = ":" /\ st.is_key) /\ ~ FoldsAt(mem, i) /\ mem[i] # CR
    <2>1. i + 1 <= end
        BY <1>1, <1>3
    <2> QED BY <1>4, <1>6, <1>7, <1>11, <2>1 DEF mem, len, next, r, end
<1> QED BY <1>8, <1>9, <1>10, <1>11

\* The round at the blank line goes to the body.
LEMMA BlankLineRound ==
    ASSUME NEW text \in Seq(Chars), UsualMail(text), NEW st \in ParserState,
           st.read <= Len(text) + 7, st.i = HeaderEnd(text)
    PROVE  LET mem == Append(Received(text), SP)
               len == Len(Received(text))
               next == LookAhead(st, mem, len)
               r == Round(st, mem, len)
           IN /\ next \in ParserState
              /\ next.is_key = st.is_key /\ next.text = st.text /\ next.key = st.key
              /\ next.headers = st.headers /\ next.wild = st.wild
              /\ r = EndOfHeader(next)
              /\ r.done = TRUE /\ r.i = HeaderEnd(text) + 4
<1> DEFINE mem == Append(Received(text), SP)
           len == Len(Received(text))
           next == LookAhead(st, mem, len)
           r == Round(st, mem, len)
           end == HeaderEnd(text)
<1>0. /\ HasBody(text)
      /\ ~ (RefBodyText(text) # <<>> /\ RefBodyText(text)[1] \in WSP)
    BY DEF UsualMail
<1>1. /\ end \in Nat \ {0} /\ end + 3 <= Len(text)
      /\ text[end] = CR /\ text[end + 1] = LF /\ text[end + 2] = CR /\ text[end + 3] = LF
    BY <1>0, HeaderEndIs
<1>2. /\ mem \in Seq(Chars) /\ Len(mem) = Len(text) + 6
      /\ \A j \in 1 .. Len(text) : mem[j] = text[j]
      /\ mem[Len(text) + 1] = NUL
    BY MailMemory
<1>3. len \in Nat
    <2>1. Received(text) \in Seq(Chars)
        BY ReceivedIs
    <2> QED BY <2>1
<1>4. r = IF mem[st.i] = ":" /\ st.is_key THEN Colon(next)
          ELSE IF FoldsAt(mem, next.i) THEN Fold(next)
          ELSE IF mem[st.i] = CR THEN EndOfHeader(next)
          ELSE Character(next, mem[st.i])
    BY DEF Round
<1>5. RefBodyText(text) = SubSeq(text, end + 4, Len(text))
    BY DEF RefBodyText
<1> HIDE DEF mem, len, end
<1>6. mem[end] = CR /\ mem[end + 1] = LF /\ mem[end + 2] = CR /\ mem[end + 3] = LF
    <2>1. /\ end \in 1 .. Len(text) /\ end + 1 \in 1 .. Len(text)
          /\ end + 2 \in 1 .. Len(text) /\ end + 3 \in 1 .. Len(text)
        BY <1>1
    <2> QED BY <1>1, <1>2, <2>1
<1>7. st.i = end /\ At(mem, st.i, CRLF \o CRLF)
    <2>1. At(mem, end, CRLF \o CRLF)
        <3>1. end \in Nat \ {0} /\ end + 3 <= Len(mem)
            BY <1>1, <1>2
        <3> QED BY <1>2, <1>6, <3>1, LooksAtChars
    <2> QED BY <2>1 DEF end
<1>8. /\ next \in ParserState /\ next.i = end + 2 /\ next.done = TRUE
      /\ next.is_key = st.is_key /\ next.text = st.text /\ next.key = st.key
      /\ next.headers = st.headers /\ next.wild = st.wild
    <2>1. st.i <= Len(mem) /\ st.read <= Len(mem) + 1
        BY <1>1, <1>2, <1>7 DEF ParserState
    <2> QED BY <1>2, <1>3, <1>7, <2>1, LookAheadFields
<1>9. mem[end + 4] \notin WSP
    <2>1. CASE end + 4 <= Len(text)
        <3>1. mem[end + 4] = text[end + 4]
            BY <1>1, <1>2, <2>1
        <3>2. RefBodyText(text) # <<>> /\ RefBodyText(text)[1] = text[end + 4]
            <4>1. end + 4 \in Nat \ {0} /\ Len(text) \in Nat /\ end + 4 <= Len(text) + 1
                BY <1>1, <2>1
            <4>2. /\ Len(RefBodyText(text)) = Len(text) - (end + 4) + 1
                  /\ \A k \in 1 .. Len(text) - (end + 4) + 1 :
                        RefBodyText(text)[k] = text[end + 4 + k - 1]
                BY <1>5, <4>1, PartOf
            <4>3. 1 \in 1 .. Len(text) - (end + 4) + 1 /\ end + 4 + 1 - 1 = end + 4
                BY <1>1, <2>1
            <4>4. Len(RefBodyText(text)) # 0
                BY <1>1, <2>1, <4>2
            <4> QED BY <4>2, <4>3, <4>4
        <3> QED BY <1>0, <3>1, <3>2
    <2>2. CASE ~ (end + 4 <= Len(text))
        <3>1. end + 4 = Len(text) + 1
            BY <1>1, <2>2
        <3> QED BY <1>2, <3>1 DEF NUL, WSP, SP, TAB
    <2> QED BY <2>1, <2>2
<1>10. ~ FoldsAt(mem, next.i)
    <2>1. next.i \in Nat \ {0} /\ next.i + 2 = end + 4
        BY <1>1, <1>8
    <2> QED BY <1>2, <1>9, <2>1, LooksAtChars
<1> HIDE DEF next
<1>11. r = EndOfHeader(next)
    <2>1. CR # ":"
        BY DEF CR
    <2> HIDE DEF r
    <2> QED BY <1>4, <1>6, <1>7, <1>10, <2>1
<1>12. CR \in Chars
    BY TextsAssumption DEF Blank
<1>13. r.done = TRUE /\ r.i = end + 4
    <2>1. EndOfHeader(next).i = next.i + 2 /\ EndOfHeader(next).done = next.done
        BY <1>8, <1>12, EndsMove
    <2> QED BY <1>1, <1>8, <1>11, <2>1
<1> QED BY <1>8, <1>11, <1>13 DEF mem, len, next, r, end

\* A name goes on behind characters that are neither colons nor ends of a field.
LEMMA NameGoesOn ==
    ASSUME NEW text \in Seq(Chars), NEW i \in Nat \ {0}, NEW n \in Nat, InName(text, i), n > i,
           \A j \in i .. n - 1 : text[j] # ":" /\ j \notin FieldEnds(text)
    PROVE  InName(text, n)
<1>1. PICK start \in FieldStarts(text) :
          /\ start <= i
          /\ \A j \in start .. i - 1 : text[j] # ":" /\ j \notin FieldEnds(text)
    BY DEF InName
<1>2. start \in Nat
    BY DEF FieldStarts
<1>3. \A j \in start .. n - 1 : j \in start .. i - 1 \/ j \in i .. n - 1
    BY <1>1, <1>2
<1>4. start <= n
    BY <1>1, <1>2
<1> QED BY <1>1, <1>3, <1>4 DEF InName

\* A field's start is in its name.
LEMMA NameBegins ==
    ASSUME NEW text, NEW start \in FieldStarts(text)
    PROVE  InName(text, start)
<1>1. start \in Int
    BY DEF FieldStarts
<1> QED BY <1>1 DEF InName

\* Where the parser of a usual mail is after n rounds: in the header part, or
\* behind the blank line.
ParserPlace(text, n, st) ==
    /\ st \in ParserState
    /\ ~ st.done => /\ n < st.i /\ st.i <= HeaderEnd(text)
                    /\ st.is_key => InName(text, st.i)
    /\ st.done => st.i = HeaderEnd(text) + 4

\* A round inside the header part keeps the parser in its place.
LEMMA HeaderRoundPlace ==
    ASSUME NEW text \in Seq(Chars), UsualMail(text), NEW n \in Nat, NEW st,
           ParserPlace(text, n, st), ~ st.done,
           st.read <= Len(text) + 7, st.i < HeaderEnd(text)
    PROVE  LET r == Round(st, Append(Received(text), SP), Len(Received(text)))
           IN r \in ParserState => ParserPlace(text, n + 1, r)
<1> DEFINE mem == Append(Received(text), SP)
           len == Len(Received(text))
           next == LookAhead(st, mem, len)
           r == Round(st, mem, len)
           i == st.i
           end == HeaderEnd(text)
<1>1. /\ st \in ParserState /\ n < i /\ i < end /\ i \in Nat \ {0} /\ st.done = FALSE
      /\ st.is_key => InName(text, i)
    BY DEF ParserPlace, ParserState
<1>2. /\ next \in ParserState
      /\ next.i = i /\ next.done = st.done /\ next.is_key = st.is_key
      /\ \/ /\ r = Colon(next) /\ st.is_key /\ i + 2 <= end
            /\ text[i] = ":" /\ text[i + 1] = SP
         \/ /\ r = Fold(next) /\ i + 3 <= end /\ i \in Folds(text)
            /\ text[i] = CR /\ text[i + 1] = LF /\ text[i + 2] \in WSP
         \/ /\ r = EndOfHeader(next) /\ i + 2 <= end
            /\ i \in FieldEnds(text) /\ i + 2 \in FieldStarts(text)
            /\ text[i] = CR /\ text[i + 1] = LF
         \/ /\ r = Character(next, text[i]) /\ i + 1 <= end
            /\ text[i] # CR /\ (st.is_key => text[i] # ":")
    BY <1>1, HeaderRound
<1>3. HasBody(text)
    BY DEF UsualMail
<1>4. end \in Nat \ {0} /\ end + 3 <= Len(text)
    BY <1>3, HeaderEndIs
<1> HIDE DEF mem, len, next, r, end
<1>5. text[i] \in Chars /\ CR \in Chars
    <2>1. i \in 1 .. Len(text)
        BY <1>1, <1>4
    <2> QED BY <2>1, TextsAssumption DEF Blank
<1>6. \A j \in FieldEnds(text) : text[j] = CR
    <2> SUFFICES ASSUME NEW j \in FieldEnds(text) PROVE text[j] = CR
        OBVIOUS
    <2>1. j \in Nat \ {0} /\ At(text, j, CRLF)
        BY <1>4 DEF FieldEnds, end
    <2> QED BY <2>1, LooksAtChars
<1>0. /\ Colon(next).i = i + 2 /\ Colon(next).done = FALSE /\ Colon(next).is_key = FALSE
      /\ Fold(next).i = i + 3 /\ Fold(next).done = FALSE /\ Fold(next).is_key = st.is_key
      /\ EndOfHeader(next).i = i + 2 /\ EndOfHeader(next).done = FALSE
      /\ Character(next, text[i]).i = i + 1 /\ Character(next, text[i]).done = FALSE
      /\ Character(next, text[i]).is_key = st.is_key
    <2>1. /\ next \in ParserState /\ next.i = i /\ next.done = FALSE
          /\ next.is_key = st.is_key
        BY <1>1, <1>2
    <2>2. next \in ParserState /\ text[i] \in Chars
        BY <1>5, <2>1
    <2> DEFINE c == text[i]
    <2> HIDE DEF c
    <2>3. /\ Colon(next).i = next.i + 2 /\ Colon(next).done = next.done
          /\ Colon(next).is_key = FALSE
          /\ Fold(next).i = next.i + 3 /\ Fold(next).done = next.done
          /\ Fold(next).is_key = next.is_key
          /\ EndOfHeader(next).i = next.i + 2 /\ EndOfHeader(next).done = next.done
          /\ Character(next, c).i = next.i + 1 /\ Character(next, c).done = next.done
          /\ Character(next, c).is_key = next.is_key
        <3>1. next \in ParserState /\ c \in Chars
            BY <2>2 DEF c
        <3> QED BY <3>1, EndsMove
    <2>4. LET d == Character(next, text[i])
          IN d.i = next.i + 1 /\ d.done = next.done /\ d.is_key = next.is_key
        BY <2>3 DEF c
    <2> QED BY <2>1, <2>3, <2>4
<1> SUFFICES ASSUME r \in ParserState PROVE ParserPlace(text, n + 1, r)
    BY DEF r, mem, len
<1> SUFFICES /\ r.done = FALSE /\ n + 1 < r.i /\ r.i <= end
             /\ r.is_key => InName(text, r.i)
    BY DEF ParserPlace, end
<1>7. CASE r = Colon(next) /\ i + 2 <= end
    <2>1. r.i = i + 2 /\ r.done = FALSE /\ r.is_key = FALSE
        BY <1>0, <1>7
    <2> QED BY <1>1, <1>7, <2>1
<1>8. CASE /\ r = Fold(next) /\ i + 3 <= end /\ i \in Folds(text)
           /\ text[i] = CR /\ text[i + 1] = LF /\ text[i + 2] \in WSP
    <2>1. r.i = i + 3 /\ r.done = FALSE /\ r.is_key = st.is_key
        BY <1>0, <1>8
    <2>2. ASSUME NEW j \in i .. i + 3 - 1 PROVE text[j] # ":" /\ j \notin FieldEnds(text)
        <3>1. j = i \/ j = i + 1 \/ j = i + 2
            BY <1>1
        <3>2. i \notin FieldEnds(text)
            BY <1>8 DEF FieldEnds
        <3>3. text[j] \in {CR, LF} \cup WSP /\ (text[j] = CR => j = i)
            BY <1>8, <3>1 DEF WSP, CR, LF, SP, TAB
        <3> QED BY <1>6, <3>2, <3>3 DEF WSP, CR, LF, SP, TAB
    <2>3. st.is_key => InName(text, i + 3)
        <3> DEFINE m == i + 3
        <3>1. m \in Nat /\ m > i /\ i \in Nat \ {0} /\ (st.is_key => InName(text, i))
            BY <1>1
        <3>2. ASSUME NEW j \in i .. m - 1 PROVE text[j] # ":" /\ j \notin FieldEnds(text)
            <4>1. j \in i .. i + 3 - 1
                BY <3>1
            <4> QED BY <2>2, <4>1
        <3> HIDE DEF m, i
        <3>3. st.is_key => InName(text, m)
            BY <3>1, <3>2, NameGoesOn
        <3> QED BY <3>3 DEF m, i
    <2> QED BY <1>1, <1>8, <2>1, <2>3
<1>9. CASE r = EndOfHeader(next) /\ i + 2 <= end /\ i + 2 \in FieldStarts(text)
    <2>1. r.i = i + 2 /\ r.done = FALSE
        BY <1>0, <1>9
    <2>2. InName(text, i + 2)
        BY <1>9, NameBegins
    <2> QED BY <1>1, <1>9, <2>1, <2>2
<1>10. CASE /\ r = Character(next, text[i]) /\ i + 1 <= end
            /\ text[i] # CR /\ (st.is_key => text[i] # ":")
    <2>1. r.i = i + 1 /\ r.done = FALSE /\ r.is_key = st.is_key
        BY <1>0, <1>10
    <2>2. ASSUME st.is_key, NEW j \in i .. i + 1 - 1
          PROVE  text[j] # ":" /\ j \notin FieldEnds(text)
        <3>1. j = i
            BY <1>1
        <3> QED BY <1>6, <1>10, <2>2, <3>1
    <2>3. st.is_key => InName(text, i + 1)
        <3>1. i + 1 \in Nat /\ i + 1 > i
            BY <1>1
        <3> QED BY <1>1, <2>2, <3>1, NameGoesOn
    <2> QED BY <1>1, <1>10, <2>1, <2>3
<1> QED BY <1>2, <1>7, <1>8, <1>9, <1>10

\* After all rounds the parser of a usual mail is behind the blank line.
LEMMA ParserStops ==
    ASSUME NEW text \in Seq(Chars), UsualMail(text)
    PROVE  LET end == Rounds(Received(text), SP)[Len(Received(text))]
           IN end.done = TRUE /\ end.i = HeaderEnd(text) + 4
<1> DEFINE data == Received(text)
           mem == Append(data, SP)
           len == Len(data)
           F == Rounds(data, SP)
           U == {n \in 0 .. len : ParserPlace(text, n, F[n])}
<1>1. data \in Seq(Chars) /\ len = Len(text) + 5 /\ len \in Nat
    BY ReceivedIs
<1>2. SP \in Chars
    BY TextsAssumption DEF Blank
<1>3. /\ F \in [0 .. len -> ParserState]
      /\ \A n \in 0 .. len : F[n].read <= len + 2
      /\ F[0] = Start
      /\ \A n \in 1 .. len : F[n] =
            IF F[n - 1].done \/ F[n - 1].i > len THEN F[n - 1] ELSE Round(F[n - 1], mem, len)
    <2> HIDE DEF data
    <2> QED BY <1>1, <1>2, RoundsDef
<1>4. HasBody(text)
    BY DEF UsualMail
<1>5. HeaderEnd(text) \in Nat \ {0} /\ HeaderEnd(text) + 3 <= Len(text)
    BY <1>4, HeaderEndIs
<1> HIDE DEF F
<1>6. 0 \in U
    <2>1. 1 \in FieldStarts(text)
        BY <1>5 DEF FieldStarts
    <2>2. InName(text, 1)
        BY <2>1, NameBegins
    <2>3. Start.done = FALSE /\ Start.i = 1 /\ Start.is_key = TRUE
        BY DEF Start
    <2>4. F[0] \in ParserState /\ 0 \in 0 .. len
        BY <1>1, <1>3
    <2> QED BY <1>3, <1>5, <2>2, <2>3, <2>4 DEF ParserPlace
<1>7. ASSUME NEW n \in 0 .. len - 1, n \in U PROVE n + 1 \in U
    <2> DEFINE st == F[n]
               r == F[n + 1]
    <2> HIDE DEF data, len, mem
    <2>1. /\ n + 1 \in 1 .. len /\ (n + 1) - 1 = n /\ n \in Nat
          /\ n \in 0 .. len /\ n + 1 \in 0 .. len
        BY <1>1
    <2>2. /\ st \in ParserState /\ r \in ParserState /\ st.read <= len + 2
          /\ r = IF st.done \/ st.i > len THEN st ELSE Round(st, mem, len)
        <3>1. F[n + 1] = IF F[(n + 1) - 1].done \/ F[(n + 1) - 1].i > len THEN F[(n + 1) - 1]
                         ELSE Round(F[(n + 1) - 1], mem, len)
            BY <1>3, <2>1
        <3>2. F[n] \in ParserState /\ F[n + 1] \in ParserState /\ F[n].read <= len + 2
            BY <1>3, <2>1
        <3> QED BY <2>1, <3>1, <3>2
    <2>3. ParserPlace(text, n, st)
        BY <1>7
    <2> HIDE DEF st, r
    <2>4. CASE st.done
        <3>1. r = st
            BY <2>2, <2>4
        <3>2. ParserPlace(text, n + 1, r)
            BY <2>3, <2>4, <3>1 DEF ParserPlace
        <3> QED BY <2>1, <3>2 DEF r
    <2>5. CASE ~ st.done
        <3>1. st.i <= HeaderEnd(text) /\ st.i \in Nat \ {0}
            BY <2>2, <2>3, <2>5 DEF ParserPlace, ParserState
        <3>2. r = Round(st, mem, len)
            BY <1>1, <1>5, <2>2, <2>5, <3>1
        <3>3. st.read <= Len(text) + 7
            BY <1>1, <2>2 DEF ParserState
        <3>4. ParserPlace(text, n + 1, r)
            <4>1. CASE st.i < HeaderEnd(text)
                BY <2>1, <2>2, <2>3, <2>5, <3>2, <3>3, <4>1, HeaderRoundPlace DEF mem, len, data
            <4>2. CASE st.i = HeaderEnd(text)
                <5>1. r.done = TRUE /\ r.i = HeaderEnd(text) + 4
                    <6>1. st \in ParserState
                        BY <2>2
                    <6>2. LET end == Round(st, Append(Received(text), SP), Len(Received(text)))
                          IN end.done = TRUE /\ end.i = HeaderEnd(text) + 4
                        BY <3>3, <4>2, <6>1, BlankLineRound
                    <6> QED BY <3>2, <6>2 DEF mem, len, data
                <5> QED BY <2>2, <5>1 DEF ParserPlace
            <4> QED BY <1>5, <3>1, <4>1, <4>2
        <3> QED BY <2>1, <3>4 DEF r
    <2> QED BY <2>4, <2>5
<1> HIDE DEF U, data, len
<1>8. 0 .. len \subseteq U
    BY <1>1, <1>6, <1>7, UpToN
<1>9. ParserPlace(text, len, F[len])
    BY <1>1, <1>8 DEF U
<1>10. F[len].done = TRUE
    <2>1. F[len] \in ParserState
        BY <1>9 DEF ParserPlace
    <2>2. F[len].done \in BOOLEAN /\ F[len].i \in Nat
        BY <2>1 DEF ParserState
    <2>3. ASSUME ~ F[len].done PROVE FALSE
        <3>1. len < F[len].i /\ F[len].i <= HeaderEnd(text)
            BY <1>9, <2>3 DEF ParserPlace
        <3> QED BY <1>1, <1>5, <2>2, <3>1
    <2> QED BY <2>2, <2>3
<1> QED BY <1>9, <1>10 DEF ParserPlace, F, len, data

\* The body of every usual mail arrives as it was sent: request_parse_data ends
\* the headers at the first blank line, over which none of its jumps leads, and
\* the NUL behind the mail ends the body.
THEOREM BodyArrives == TextSpec => []BodySurvives
<1>1. InputsTyped => BodySurvives
    <2> SUFFICES ASSUME InputsTyped, job = "mail", UsualMail(input)
                 PROVE  request_parse_data(Received(input), SP).body = RefBodyText(input)
        BY DEF BodySurvives
    <2> DEFINE text == input
               data == Received(text)
               end == Rounds(data, SP)[Len(data)]
               h == HeaderEnd(text) + 4
               rest == SubSeq(data, h, Len(data))
               e == Len(text) + 1 - h + 1
    <2>1. text \in Seq(Chars)
        BY DEF InputsTyped, TextJobs
    <2>2. end.done = TRUE /\ end.i = h
        BY <2>1, ParserStops
    <2>3. request_parse_data(data, SP).body =
             IF end.done /\ end.i <= Len(data)
             THEN CString(SubSeq(data, end.i, Len(data))) ELSE Leftover
        BY DEF request_parse_data
    <2>4. HasBody(text) /\ \A i \in DOMAIN text : text[i] # NUL
        BY DEF UsualMail
    <2>5. h \in Nat \ {0} /\ h <= Len(text) + 1
        BY <2>1, <2>4, HeaderEndIs
    <2>6. /\ data \in Seq(Chars) /\ Len(data) = Len(text) + 5
          /\ \A i \in 1 .. Len(text) : data[i] = text[i]
          /\ data[Len(text) + 1] = NUL
        BY <2>1, ReceivedIs
    <2>7. RefBodyText(text) = SubSeq(text, h, Len(text))
        BY DEF RefBodyText
    <2> HIDE DEF text, data, end, h
    <2>8. request_parse_data(data, SP).body = CString(rest)
        <3>1. h <= Len(data)
            BY <2>1, <2>5, <2>6
        <3> QED BY <2>2, <2>3, <3>1
    <2>9. /\ rest \in Seq(Chars) /\ Len(rest) = Len(data) - h + 1
          /\ \A k \in 1 .. Len(data) - h + 1 : rest[k] = data[h + k - 1]
        <3>1. data \in Seq(Chars) /\ Len(data) \in Nat /\ h <= Len(data) + 1
            BY <2>1, <2>5, <2>6
        <3> QED BY <2>5, <3>1, PartOf
    <2> HIDE DEF rest
    <2>10. e \in 1 .. Len(rest) /\ h + e - 1 = Len(text) + 1
        BY <2>1, <2>5, <2>6, <2>9
    <2>11. rest[e] = NUL
        BY <2>6, <2>9, <2>10
    <2>12. ASSUME NEW k \in 1 .. e - 1
           PROVE  rest[k] = text[h + k - 1] /\ rest[k] # NUL
        <3>1. /\ k \in 1 .. Len(data) - h + 1 /\ h + k - 1 \in 1 .. Len(text)
              /\ h + k - 1 \in DOMAIN text
            BY <2>1, <2>5, <2>6
        <3> QED BY <2>4, <2>6, <2>9, <3>1
    <2>13. CString(rest) = SubSeq(rest, 1, e - 1)
        <3> HIDE DEF e
        <3>1. rest[e] \in {NUL} /\ \A k \in 1 .. e - 1 : rest[k] \notin {NUL}
            BY <2>11, <2>12
        <3>2. 1 \in Nat \ {0} /\ rest \in Seq(Chars)
            BY <2>9
        <3> QED BY <2>10, <3>1, <3>2, UpToIs DEF CString
    <2>14. /\ SubSeq(rest, 1, e - 1) \in Seq(Chars)
           /\ Len(SubSeq(rest, 1, e - 1)) = e - 1
           /\ \A k \in 1 .. e - 1 : SubSeq(rest, 1, e - 1)[k] = rest[k]
        <3>1. e - 1 \in Nat /\ e - 1 <= Len(rest) /\ 1 <= e - 1 + 1 /\ e - 1 - 1 + 1 = e - 1
            BY <2>1, <2>5, <2>10
        <3>2. rest \in Seq(Chars) /\ 1 \in Nat \ {0} /\ \A k \in 1 .. e - 1 : 1 + k - 1 = k
            BY <2>9
        <3> HIDE DEF e
        <3>3. /\ SubSeq(rest, 1, e - 1) \in Seq(Chars)
              /\ Len(SubSeq(rest, 1, e - 1)) = e - 1 - 1 + 1
              /\ \A k \in 1 .. e - 1 - 1 + 1 : SubSeq(rest, 1, e - 1)[k] = rest[1 + k - 1]
            BY <3>1, <3>2, PartOf
        <3> QED BY <3>1, <3>2, <3>3
    <2>15. /\ SubSeq(text, h, Len(text)) \in Seq(Chars)
           /\ Len(SubSeq(text, h, Len(text))) = e - 1
           /\ \A k \in 1 .. e - 1 : SubSeq(text, h, Len(text))[k] = text[h + k - 1]
        <3>1. e - 1 = Len(text) - h + 1 /\ Len(text) \in Nat /\ Len(text) <= Len(text)
            BY <2>1, <2>5
        <3> HIDE DEF e
        <3> QED BY <2>1, <2>5, <3>1, PartOf
    <2> DEFINE a == SubSeq(rest, 1, e - 1)
               b == SubSeq(text, h, Len(text))
    <2>16. \A k \in 1 .. e - 1 : a[k] = b[k]
        BY <2>12, <2>14, <2>15
    <2>17. a \in Seq(Chars) /\ b \in Seq(Chars) /\ Len(a) = Len(b) /\ Len(a) = e - 1
        BY <2>14, <2>15
    <2> HIDE DEF a, b
    <2>18. a = b
        <3>1. a \in Seq(Chars) /\ b \in Seq(Chars) /\ Len(a) = Len(b)
            BY <2>17
        <3>2. \A k \in 1 .. Len(a) : a[k] = b[k]
            BY <2>16, <2>17
        <3> QED BY <3>1, <3>2, SameSeq
    <2> QED BY <2>7, <2>8, <2>13, <2>18 DEF a, b, data, text
<1> QED BY <1>1, TextsTyped, PTL

-----------------------------------------------------------------------------
(* Pick, from one text to the next *)

\* Up to n the two texts, and the two sets of positions, agree.
Agree(r, s, A, B, n) ==
    /\ n <= Len(r) /\ n <= Len(s)
    /\ \A i \in 1 .. n : r[i] = s[i] /\ (i \in A <=> i \in B)

\* Texts and sets that agree up to n keep the same.
LEMMA KeptAgree ==
    ASSUME NEW S, NEW r \in Seq(S), NEW s \in Seq(S), NEW A, NEW B, NEW n \in Nat,
           Agree(r, s, A, B, n)
    PROVE  Kept(r, A)[n] = Kept(s, B)[n]
<1> DEFINE F == Kept(r, A)
           G == Kept(s, B)
           U == {i \in 0 .. n : F[i] = G[i]}
<1>1. /\ F[0] = <<>>
      /\ \A i \in 1 .. Len(r) : F[i] = IF i \in A THEN Append(F[i - 1], r[i]) ELSE F[i - 1]
    BY KeptDef
<1>2. /\ G[0] = <<>>
      /\ \A i \in 1 .. Len(s) : G[i] = IF i \in B THEN Append(G[i - 1], s[i]) ELSE G[i - 1]
    BY KeptDef
<1> HIDE DEF F, G
<1>3. 0 \in U
    BY <1>1, <1>2
<1>4. ASSUME NEW i \in 0 .. n - 1, i \in U PROVE i + 1 \in U
    <2>1. /\ i + 1 \in 1 .. n /\ i + 1 \in 1 .. Len(r) /\ i + 1 \in 1 .. Len(s)
          /\ i + 1 \in 0 .. n /\ (i + 1) - 1 = i
        BY DEF Agree
    <2>2. F[i + 1] = IF i + 1 \in A THEN Append(F[i], r[i + 1]) ELSE F[i]
        BY <1>1, <2>1
    <2>3. G[i + 1] = IF i + 1 \in B THEN Append(G[i], s[i + 1]) ELSE G[i]
        BY <1>2, <2>1
    <2>4. F[i] = G[i] /\ r[i + 1] = s[i + 1] /\ (i + 1 \in A <=> i + 1 \in B)
        BY <1>4, <2>1 DEF Agree
    <2>5. F[i + 1] = G[i + 1]
        BY <2>2, <2>3, <2>4
    <2> QED BY <2>1, <2>5
<1> HIDE DEF U
<1>5. 0 .. n \subseteq U
    BY <1>3, <1>4, UpToN
<1> QED BY <1>5 DEF U, F, G

\* Pick keeps the type, and nothing of nothing.
LEMMA PickTyped ==
    ASSUME NEW S, NEW s \in Seq(S), NEW T
    PROVE  Pick(s, T) \in Seq(S) /\ (s = <<>> => Pick(s, T) = <<>>)
<1>1. Kept(s, T) \in [0 .. Len(s) -> Seq(S)] /\ Kept(s, T)[0] = <<>>
    BY KeptDef
<1>2. Len(s) \in 0 .. Len(s) /\ (s = <<>> => Len(s) = 0)
    OBVIOUS
<1> QED BY <1>1, <1>2 DEF Pick

\* Up to n the two sets of positions agree.
SameUpTo(A, B, n) == \A i \in 1 .. n : i \in A <=> i \in B

\* Pick from a text with one more character.
LEMMA PickAppend ==
    ASSUME NEW S, NEW s \in Seq(S), NEW c \in S, NEW A, NEW B, SameUpTo(A, B, Len(s))
    PROVE  Pick(Append(s, c), B) =
               IF Len(s) + 1 \in B THEN Append(Pick(s, A), c) ELSE Pick(s, A)
<1> DEFINE r == Append(s, c)
           n == Len(s)
           F == Kept(r, B)
<1>1. r \in Seq(S) /\ Len(r) = n + 1 /\ r[n + 1] = c /\ \A i \in 1 .. n : r[i] = s[i]
    OBVIOUS
<1>2. n \in Nat /\ n <= Len(r) /\ n <= Len(s) /\ n + 1 \in 1 .. n + 1 /\ (n + 1) - 1 = n
    OBVIOUS
<1> HIDE DEF r, n
<1>3. r \in Seq(S)
    BY <1>1
<1>4. \A i \in 1 .. Len(r) : F[i] = IF i \in B THEN Append(F[i - 1], r[i]) ELSE F[i - 1]
    BY <1>3, KeptDef
<1> HIDE DEF F
<1>5. F[n + 1] = IF n + 1 \in B THEN Append(F[n], c) ELSE F[n]
    BY <1>1, <1>2, <1>4
<1>6. F[n] = Kept(s, A)[n]
    <2>1. Agree(r, s, B, A, n)
        BY <1>1, <1>2 DEF n, Agree, SameUpTo
    <2>2. s \in Seq(S) /\ n \in Nat
        BY <1>2
    <2>3. Kept(r, B)[n] = Kept(s, A)[n]
        BY <1>3, <2>1, <2>2, KeptAgree
    <2> QED BY <2>3 DEF F
<1>7. Pick(r, B) = F[n + 1] /\ Pick(s, A) = Kept(s, A)[n]
    BY <1>1 DEF Pick, F, n
<1> QED BY <1>5, <1>6, <1>7 DEF r, n

\* Pick with all positions leaves the text alone.
LEMMA PickAll ==
    ASSUME NEW S, NEW s \in Seq(S), NEW T, \A i \in 1 .. Len(s) : i \in T
    PROVE  Pick(s, T) = s
<1> DEFINE n == Len(s)
           F == Kept(s, T)
           Good(i) == /\ F[i] \in Seq(S) /\ Len(F[i]) = i
                      /\ \A k \in 1 .. i : F[i][k] = s[k]
           U == {i \in 0 .. n : Good(i)}
<1>0. n \in Nat /\ \A i \in 1 .. n : s[i] \in S /\ i \in T
    OBVIOUS
<1>1. /\ F[0] = <<>>
      /\ \A i \in 1 .. n : F[i] = IF i \in T THEN Append(F[i - 1], s[i]) ELSE F[i - 1]
    BY KeptDef
<1> HIDE DEF F, n
<1>2. 0 \in U
    <2>1. <<>> \in Seq(S) /\ Len(<<>>) = 0 /\ 0 \in 0 .. n /\ \A k \in 1 .. 0 : FALSE
        BY <1>0
    <2>2. Good(0)
        BY <1>1, <2>1
    <2> QED BY <2>1, <2>2
<1>3. ASSUME NEW i \in 0 .. n - 1, i \in U PROVE i + 1 \in U
    <2>1. i + 1 \in 1 .. n /\ i + 1 \in 0 .. n /\ (i + 1) - 1 = i /\ i \in Nat
        BY <1>0
    <2>2. F[i + 1] = Append(F[i], s[i + 1]) /\ s[i + 1] \in S
        BY <1>0, <1>1, <2>1
    <2>3. F[i] \in Seq(S) /\ Len(F[i]) = i /\ \A k \in 1 .. i : F[i][k] = s[k]
        BY <1>3
    <2> DEFINE x == F[i]
    <2> HIDE DEF x
    <2>4. x \in Seq(S)
        BY <2>3 DEF x
    <2>5. /\ Append(x, s[i + 1]) \in Seq(S) /\ Len(Append(x, s[i + 1])) = Len(x) + 1
          /\ Append(x, s[i + 1])[Len(x) + 1] = s[i + 1]
          /\ \A k \in 1 .. Len(x) : Append(x, s[i + 1])[k] = x[k]
        BY <2>2, <2>4
    <2>6. \A k \in 1 .. i + 1 : k \in 1 .. i \/ k = i + 1
        BY <2>1
    <2>7. Good(i + 1)
        BY <2>1, <2>2, <2>3, <2>5, <2>6 DEF x
    <2> QED BY <2>1, <2>7
<1>4. n \in U
    <2> HIDE DEF U
    <2>1. 0 .. n \subseteq U
        BY <1>0, <1>2, <1>3, UpToN
    <2> QED BY <1>0, <2>1
<1>5. F[n] \in Seq(S) /\ Len(F[n]) = Len(s) /\ \A k \in 1 .. Len(F[n]) : F[n][k] = s[k]
    BY <1>4 DEF n
<1>6. F[n] = s
    BY <1>5, SameSeq
<1> QED BY <1>6 DEF Pick, F, n

\* Pick without a position gives nothing.
LEMMA PickNone ==
    ASSUME NEW S, NEW s \in Seq(S), NEW T, \A i \in 1 .. Len(s) : i \notin T
    PROVE  Pick(s, T) = <<>>
<1> DEFINE n == Len(s)
           F == Kept(s, T)
           Q == {<<>>}
<1>0. n \in Nat /\ \A i \in 1 .. n : i \notin T
    OBVIOUS
<1>1. /\ F[0] = <<>>
      /\ \A i \in 1 .. n : F[i] = IF i \in T THEN Append(F[i - 1], s[i]) ELSE F[i - 1]
    BY KeptDef
<1> HIDE DEF F, n
<1>2. F[0] \in Q /\ \A i \in 1 .. n : F[i - 1] \in Q => F[i] \in Q
    BY <1>0, <1>1
<1> HIDE DEF Q
<1>3. \A i \in 0 .. n : F[i] \in Q
    BY <1>0, <1>2, Stays
<1>4. F[n] = <<>>
    BY <1>0, <1>3 DEF Q
<1> QED BY <1>4 DEF Pick, F, n

-----------------------------------------------------------------------------
(* Canonicalisation, from one text to the next *)

\* A text with one more character.
LEMMA Appending ==
    ASSUME NEW S, NEW s \in Seq(S), NEW c \in S
    PROVE  /\ Append(s, c) \in Seq(S) /\ Len(Append(s, c)) = Len(s) + 1
           /\ Append(s, c)[Len(s) + 1] = c /\ \A i \in 1 .. Len(s) : Append(s, c)[i] = s[i]
           /\ Append(s, c) # <<>> /\ Len(s) \in Nat
    OBVIOUS

\* s without the characters of W at its end.
Shortened(s, W) == Pick(s, {i \in DOMAIN s : \E j \in i .. Len(s) : s[j] \notin W})

\* A text that ends with another character stays; one of W at the end goes.
LEMMA ShortenedAppend ==
    ASSUME NEW s \in Seq(Chars), NEW c \in Chars, NEW W
    PROVE  Shortened(Append(s, c), W) = IF c \in W THEN Shortened(s, W) ELSE Append(s, c)
<1> DEFINE r == Append(s, c)
           A == {i \in DOMAIN s : \E j \in i .. Len(s) : s[j] \notin W}
           B == {i \in DOMAIN r : \E j \in i .. Len(r) : r[j] \notin W}
<1>1. /\ r \in Seq(Chars) /\ Len(r) = Len(s) + 1 /\ Len(s) \in Nat
      /\ r[Len(s) + 1] = c /\ \A i \in 1 .. Len(s) : r[i] = s[i]
    BY Appending
<1>2. DOMAIN r = 1 .. Len(s) + 1 /\ DOMAIN s = 1 .. Len(s)
    BY <1>1
<1>3. Shortened(r, W) = Pick(r, B) /\ Shortened(s, W) = Pick(s, A)
    BY DEF Shortened
<1> HIDE DEF r
<1>4. CASE c \in W
    <2>1. SameUpTo(A, B, Len(s))
        <3> SUFFICES ASSUME NEW i \in 1 .. Len(s) PROVE i \in A <=> i \in B
            BY DEF SameUpTo
        <3>1. ASSUME NEW j \in i .. Len(s), s[j] \notin W PROVE i \in B
            <4>1. j \in i .. Len(r) /\ r[j] \notin W
                BY <1>1, <3>1
            <4> QED BY <1>1, <1>2, <4>1
        <3>2. ASSUME NEW j \in i .. Len(r), r[j] \notin W PROVE i \in A
            <4>1. j # Len(s) + 1
                BY <1>1, <1>4, <3>2
            <4>2. j \in i .. Len(s) /\ s[j] \notin W
                BY <1>1, <3>2, <4>1
            <4> QED BY <1>2, <4>2
        <3> QED BY <3>1, <3>2
    <2>2. Len(s) + 1 \notin B
        BY <1>1, <1>4
    <2> HIDE DEF A, B
    <2>3. Pick(Append(s, c), B) =
             IF Len(s) + 1 \in B THEN Append(Pick(s, A), c) ELSE Pick(s, A)
        BY <2>1, PickAppend
    <2> QED BY <1>3, <1>4, <2>2, <2>3 DEF r
<1>5. CASE c \notin W
    <2>1. \A i \in 1 .. Len(r) : i \in B
        BY <1>1, <1>2, <1>5
    <2> HIDE DEF B
    <2>2. Pick(r, B) = r
        BY <1>1, <2>1, PickAll
    <2> QED BY <1>3, <1>5, <2>2 DEF r
<1> QED BY <1>4, <1>5

\* rtrim ignores white space at the end, rtrim_lines the ends of lines.
LEMMA RtrimAppend ==
    ASSUME NEW s \in Seq(Chars), NEW c \in Chars
    PROVE  /\ rtrim(Append(s, c)) = IF c \in WSP THEN rtrim(s) ELSE Append(s, c)
           /\ rtrim_lines(Append(s, c)) = IF c \in {CR, LF} THEN rtrim_lines(s) ELSE Append(s, c)
<1>1. \A x : rtrim(x) = Shortened(x, WSP) /\ rtrim_lines(x) = Shortened(x, {CR, LF})
    BY DEF rtrim, rtrim_lines, Shortened
<1> QED BY <1>1, ShortenedAppend

\* ltrim is empty as long as there is only white space, and then grows.
LEMMA LtrimAppend ==
    ASSUME NEW s \in Seq(Chars), NEW c \in Chars
    PROVE  ltrim(Append(s, c)) =
               IF c \in WSP /\ ltrim(s) = <<>> THEN <<>> ELSE Append(ltrim(s), c)
<1> DEFINE r == Append(s, c)
           A == {i \in DOMAIN s : \E j \in 1 .. i : s[j] \notin WSP}
           B == {i \in DOMAIN r : \E j \in 1 .. i : r[j] \notin WSP}
           n == Len(s)
<1>1. /\ r \in Seq(Chars) /\ Len(r) = n + 1 /\ n \in Nat
      /\ r[n + 1] = c /\ \A i \in 1 .. n : r[i] = s[i]
    BY Appending
<1>2. DOMAIN r = 1 .. n + 1 /\ DOMAIN s = 1 .. n
    BY <1>1
<1>3. ltrim(r) = Pick(r, B) /\ ltrim(s) = Pick(s, A)
    BY DEF ltrim
<1> HIDE DEF r, n
<1>4. SameUpTo(A, B, n)
    <2> SUFFICES ASSUME NEW i \in 1 .. n PROVE i \in A <=> i \in B
        BY DEF SameUpTo
    <2>1. i \in 1 .. n + 1 /\ \A j \in 1 .. i : j \in 1 .. n
        BY <1>1
    <2>2. \A j \in 1 .. i : r[j] = s[j]
        BY <1>1, <2>1
    <2> QED BY <1>2, <2>1, <2>2
<1>5. n + 1 \in B <=> c \notin WSP \/ \E j \in 1 .. n : s[j] \notin WSP
    <2>1. \A j \in 1 .. n + 1 : j \in 1 .. n \/ j = n + 1
        BY <1>1
    <2>2. n + 1 \in 1 .. n + 1 /\ \A j \in 1 .. n : j \in 1 .. n + 1
        BY <1>1
    <2> QED BY <1>1, <1>2, <2>1, <2>2
<1>6. ltrim(s) = <<>> <=> \A j \in 1 .. n : s[j] \in WSP
    <2>1. ASSUME \A j \in 1 .. n : s[j] \in WSP PROVE ltrim(s) = <<>>
        <3>1. \A i \in 1 .. Len(s) : i \notin A
            <4> SUFFICES ASSUME NEW i \in 1 .. n PROVE i \notin A
                BY DEF n
            <4>1. \A j \in 1 .. i : j \in 1 .. n
                BY <1>1
            <4> QED BY <2>1, <4>1
        <3> HIDE DEF A
        <3> QED BY <1>3, <3>1, PickNone
    <2>2. ASSUME NEW j \in 1 .. n, s[j] \notin WSP PROVE ltrim(s) # <<>>
        <3>1. n \in A
            BY <1>1, <1>2, <2>2
        <3> HIDE DEF A
        <3> DEFINE F == Kept(s, A)
        <3>2. /\ F \in [0 .. n -> Seq(Chars)]
              /\ \A k \in 1 .. n : F[k] = IF k \in A THEN Append(F[k - 1], s[k]) ELSE F[k - 1]
            BY KeptDef DEF n
        <3> HIDE DEF F
        <3>3. n \in 1 .. n /\ n - 1 \in 0 .. n
            BY <1>1
        <3>4. F[n] = Append(F[n - 1], s[n]) /\ F[n - 1] \in Seq(Chars) /\ s[n] \in Chars
            <4>1. F[n] = Append(F[n - 1], s[n])
                BY <3>1, <3>2, <3>3
            <4>2. F[n - 1] \in Seq(Chars)
                BY <3>2, <3>3
            <4>3. \A k \in 1 .. n : s[k] \in Chars
                BY DEF n
            <4> QED BY <3>3, <4>1, <4>2, <4>3
        <3>5. F[n] # <<>>
            BY <3>4, Appending
        <3> QED BY <1>3, <3>5 DEF Pick, F, n
    <2> QED BY <2>1, <2>2
<1> HIDE DEF A, B
<1>7. Pick(r, B) = IF n + 1 \in B THEN Append(Pick(s, A), c) ELSE Pick(s, A)
    BY <1>4, PickAppend DEF r, n
<1> QED BY <1>3, <1>5, <1>6, <1>7 DEF r

\* Collapse turns a tab into a space and drops white space behind white space.
LEMMA CollapseAppend ==
    ASSUME NEW s \in Seq(Chars), NEW c \in Chars
    PROVE  Collapse(Append(s, c)) =
               IF c \notin WSP THEN Append(Collapse(s), c)
               ELSE IF Len(s) > 0 /\ s[Len(s)] \in WSP THEN Collapse(s)
               ELSE Append(Collapse(s), SP)
<1> DEFINE n == Len(s)
           r == Append(s, c)
           one(x) == IF x = TAB THEN SP ELSE x
           ss == [i \in DOMAIN s |-> IF s[i] = TAB THEN SP ELSE s[i]]
           rr == [i \in DOMAIN r |-> IF r[i] = TAB THEN SP ELSE r[i]]
           A == {i \in DOMAIN s : ~ (i > 1 /\ ss[i] = SP /\ ss[i - 1] = SP)}
           B == {i \in DOMAIN r : ~ (i > 1 /\ rr[i] = SP /\ rr[i - 1] = SP)}
<1>0. SP \in Chars
    BY TextsAssumption DEF Blank
<1>1. /\ r \in Seq(Chars) /\ Len(r) = n + 1 /\ n \in Nat
      /\ r[n + 1] = c /\ \A i \in 1 .. n : r[i] = s[i]
    BY Appending
<1>2. DOMAIN r = 1 .. n + 1 /\ DOMAIN s = 1 .. n
    BY <1>1
<1>3. Collapse(r) = Pick(rr, B) /\ Collapse(s) = Pick(ss, A)
    BY DEF Collapse
<1>4. \A x \in Chars : (one(x) = SP <=> x \in WSP) /\ one(x) \in Chars
    BY <1>0 DEF WSP, SP, TAB
<1> HIDE DEF r, n
<1>5. /\ \A i \in 1 .. n : ss[i] = one(s[i]) /\ s[i] \in Chars
      /\ \A i \in 1 .. n + 1 : rr[i] = one(r[i])
    BY <1>2 DEF n
<1>6. /\ ss \in Seq(Chars) /\ Len(ss) = n
    <2>1. ss \in [1 .. n -> Chars]
        BY <1>2, <1>4, <1>5
    <2> HIDE DEF ss
    <2> QED BY <1>1, <2>1
<1>7. rr = Append(ss, one(c))
    <2>1. /\ Append(ss, one(c)) \in Seq(Chars) /\ Len(Append(ss, one(c))) = Len(ss) + 1
          /\ Append(ss, one(c))[Len(ss) + 1] = one(c)
          /\ \A i \in 1 .. Len(ss) : Append(ss, one(c))[i] = ss[i]
        <3>1. ss \in Seq(Chars) /\ one(c) \in Chars
            BY <1>4, <1>6
        <3> HIDE DEF ss, one
        <3> QED BY <3>1, Appending
    <2>2. rr \in [1 .. n + 1 -> Chars]
        <3>1. \A i \in 1 .. n + 1 : r[i] \in Chars
            BY <1>1
        <3> QED BY <1>2, <1>4, <1>5, <3>1
    <2>3. rr \in Seq(Chars) /\ Len(rr) = n + 1
        <3> HIDE DEF rr
        <3> QED BY <1>1, <2>2
    <2>4. \A i \in 1 .. n : rr[i] = ss[i]
        BY <1>1, <1>5
    <2>5. rr[n + 1] = one(c)
        BY <1>1, <1>5
    <2> DEFINE q == Append(ss, one(c))
    <2> HIDE DEF q, rr, ss, one
    <2>6. q \in Seq(Chars) /\ Len(q) = n + 1
        BY <1>6, <2>1 DEF q
    <2>7. \A i \in 1 .. n + 1 : rr[i] = q[i]
        <3>1. \A i \in 1 .. n + 1 : i \in 1 .. n \/ i = n + 1
            BY <1>1
        <3> QED BY <1>6, <2>1, <2>4, <2>5, <3>1 DEF q
    <2>8. rr = q
        <3>1. rr \in Seq(Chars) /\ q \in Seq(Chars) /\ Len(rr) = Len(q)
            BY <2>3, <2>6
        <3>2. \A i \in 1 .. Len(rr) : rr[i] = q[i]
            BY <2>3, <2>7
        <3> QED BY <3>1, <3>2, SameSeq
    <2> QED BY <2>8 DEF q
<1>8. SameUpTo(A, B, n)
    <2> SUFFICES ASSUME NEW i \in 1 .. n PROVE i \in A <=> i \in B
        BY DEF SameUpTo
    <2>1. i \in 1 .. n + 1 /\ (i > 1 => i - 1 \in 1 .. n /\ i - 1 \in 1 .. n + 1)
        BY <1>1
    <2>2. rr[i] = ss[i] /\ (i > 1 => rr[i - 1] = ss[i - 1])
        <3> HIDE DEF rr, ss
        <3> QED BY <1>1, <1>5, <2>1
    <2> HIDE DEF rr, ss
    <2> QED BY <1>2, <2>1, <2>2
<1>9. n + 1 \in B <=> ~ (n > 0 /\ c \in WSP /\ s[n] \in WSP)
    <2>1. /\ n + 1 \in 1 .. n + 1 /\ (n + 1 > 1 <=> n > 0) /\ (n + 1) - 1 = n
          /\ n > 0 => n \in 1 .. n /\ n \in 1 .. n + 1
        BY <1>1
    <2>2. rr[n + 1] = SP <=> c \in WSP
        BY <1>1, <1>4, <1>5, <2>1
    <2>3. n > 0 => (rr[n] = SP <=> s[n] \in WSP)
        BY <1>1, <1>4, <1>5, <2>1
    <2> HIDE DEF rr
    <2> QED BY <1>2, <2>1, <2>2, <2>3
<1>10. Pick(rr, B) = IF n + 1 \in B THEN Append(Pick(ss, A), one(c)) ELSE Pick(ss, A)
    <2> DEFINE d == one(c)
    <2>1. ss \in Seq(Chars) /\ d \in Chars /\ SameUpTo(A, B, Len(ss))
        BY <1>4, <1>6, <1>8
    <2> HIDE DEF A, B, ss, rr, d
    <2>2. Pick(Append(ss, d), B) =
             IF Len(ss) + 1 \in B THEN Append(Pick(ss, A), d) ELSE Pick(ss, A)
        BY <2>1, PickAppend
    <2> QED BY <1>6, <1>7, <2>2 DEF d
<1>11. (c \notin WSP => one(c) = c) /\ (c \in WSP => one(c) = SP)
    BY DEF WSP, SP, TAB
<1> HIDE DEF A, B, ss, rr, one
<1> QED BY <1>1, <1>3, <1>9, <1>10, <1>11 DEF r, n

\* s with a space in the place of every blank.
Worded(s) == [i \in DOMAIN s |-> IF s[i] \notin Blank THEN s[i] ELSE SP]

\* The reference form of a text behind which a word may follow.
RefOpen(s) == Pick(Worded(s), {i \in DOMAIN s :
                  s[i] \notin Blank \/ (i > 1 /\ s[i - 1] \notin Blank)})

\* The characters that RefValue keeps.
RefSet(s) == {i \in DOMAIN s :
                  \/ s[i] \notin Blank
                  \/ i > 1 /\ s[i - 1] \notin Blank /\ \E j \in i .. Len(s) : s[j] \notin Blank}

\* Worded works on each character alone.
LEMMA WordedAppend ==
    ASSUME NEW s \in Seq(Chars), NEW c \in Chars
    PROVE  /\ Worded(s) \in Seq(Chars) /\ Len(Worded(s)) = Len(s)
           /\ Worded(Append(s, c)) = Append(Worded(s), IF c \notin Blank THEN c ELSE SP)
<1> DEFINE n == Len(s)
           r == Append(s, c)
           one(x) == IF x \notin Blank THEN x ELSE SP
           ss == Worded(s)
           rr == Worded(r)
           q == Append(ss, one(c))
<1>0. SP \in Chars
    BY TextsAssumption DEF Blank
<1>1. /\ r \in Seq(Chars) /\ Len(r) = n + 1 /\ n \in Nat
      /\ r[n + 1] = c /\ \A i \in 1 .. n : r[i] = s[i]
    BY Appending
<1>2. DOMAIN r = 1 .. n + 1 /\ DOMAIN s = 1 .. n
    BY <1>1
<1>3. \A x \in Chars : one(x) \in Chars
    BY <1>0
<1>4. (\A i \in 1 .. n : s[i] \in Chars) /\ \A i \in 1 .. n + 1 : r[i] \in Chars
    BY <1>1
<1>5. ss = [i \in 1 .. n |-> one(s[i])] /\ rr = [i \in 1 .. n + 1 |-> one(r[i])]
    BY <1>2 DEF Worded
<1> HIDE DEF n, r, one, ss, rr
<1>6. ss \in [1 .. n -> Chars] /\ rr \in [1 .. n + 1 -> Chars]
    BY <1>3, <1>4, <1>5
<1>7. ss \in Seq(Chars) /\ Len(ss) = n /\ rr \in Seq(Chars) /\ Len(rr) = n + 1
    <2>1. ss \in Seq(Chars) /\ Len(ss) = n
        BY <1>1, <1>6
    <2>2. n + 1 \in Nat
        BY <1>1
    <2>3. rr \in Seq(Chars) /\ Len(rr) = n + 1
        BY <1>6, <2>2
    <2> QED BY <2>1, <2>3
<1>8. /\ q \in Seq(Chars) /\ Len(q) = n + 1 /\ q[n + 1] = one(c)
      /\ \A i \in 1 .. n : q[i] = ss[i]
    <2>1. ss \in Seq(Chars) /\ one(c) \in Chars
        BY <1>3, <1>7
    <2>2. /\ q \in Seq(Chars) /\ Len(q) = Len(ss) + 1 /\ q[Len(ss) + 1] = one(c)
          /\ \A i \in 1 .. Len(ss) : q[i] = ss[i]
        BY <2>1, Appending
    <2> HIDE DEF q
    <2> QED BY <1>7, <2>2
<1> HIDE DEF q
<1>9. \A i \in 1 .. n + 1 : rr[i] = q[i]
    <2>1. \A i \in 1 .. n + 1 : i \in 1 .. n \/ i = n + 1
        BY <1>1
    <2>2. n + 1 \in 1 .. n + 1 /\ \A i \in 1 .. n : i \in 1 .. n + 1
        BY <1>1
    <2> QED BY <1>1, <1>5, <1>8, <2>1, <2>2
<1>10. rr = q
    <2>1. rr \in Seq(Chars) /\ q \in Seq(Chars) /\ Len(rr) = Len(q)
        BY <1>7, <1>8
    <2>2. \A i \in 1 .. Len(rr) : rr[i] = q[i]
        BY <1>7, <1>9
    <2> QED BY <2>1, <2>2, SameSeq
<1> QED BY <1>7, <1>10 DEF q, n, r, one, ss, rr

\* RefValue is the pick of RefSet.
LEMMA RefValueIs ==
    ASSUME NEW s
    PROVE  RefValue(s) = Pick(Worded(s), RefSet(s))
    BY DEF RefValue, Worded, RefSet

\* A blank at the end adds nothing to the reference form, a word opens it.
LEMMA RefValueAppend ==
    ASSUME NEW s \in Seq(Chars), NEW c \in Chars
    PROVE  RefValue(Append(s, c)) = IF c \in Blank THEN RefValue(s) ELSE Append(RefOpen(s), c)
<1> DEFINE n == Len(s)
           r == Append(s, c)
           A == RefSet(s)
           B == RefSet(r)
           D == {i \in DOMAIN s : s[i] \notin Blank \/ (i > 1 /\ s[i - 1] \notin Blank)}
           d == IF c \notin Blank THEN c ELSE SP
           w == Worded(s)
<1>1. /\ r \in Seq(Chars) /\ Len(r) = n + 1 /\ n \in Nat
      /\ r[n + 1] = c /\ \A i \in 1 .. n : r[i] = s[i]
    BY Appending
<1>2. DOMAIN r = 1 .. n + 1 /\ DOMAIN s = 1 .. n
    BY <1>1
<1>3. w \in Seq(Chars) /\ Len(w) = n /\ Worded(r) = Append(w, d) /\ d \in Chars
    BY WordedAppend, TextsAssumption DEF Blank
<1>4. RefValue(s) = Pick(w, A) /\ RefValue(r) = Pick(Append(w, d), B) /\ RefOpen(s) = Pick(w, D)
    BY <1>3, RefValueIs DEF RefOpen
<1> HIDE DEF n, r, w, d
<1>5. ASSUME NEW i \in 1 .. n
      PROVE  i \in 1 .. n + 1 /\ (i > 1 => i - 1 \in 1 .. n) /\ r[i] = s[i]
             /\ (i > 1 => r[i - 1] = s[i - 1])
    BY <1>1
<1>6. CASE c \in Blank
    <2>1. SameUpTo(A, B, n)
        <3> SUFFICES ASSUME NEW i \in 1 .. n PROVE i \in A <=> i \in B
            BY DEF SameUpTo
        <3>1. (\E j \in i .. Len(s) : s[j] \notin Blank) <=> \E j \in i .. Len(r) : r[j] \notin Blank
            <4>1. ASSUME NEW j \in i .. n, s[j] \notin Blank PROVE j \in i .. n + 1 /\ r[j] \notin Blank
                BY <1>1, <4>1
            <4>2. ASSUME NEW j \in i .. n + 1, r[j] \notin Blank PROVE j \in i .. n /\ s[j] \notin Blank
                <5>1. j # n + 1
                    BY <1>1, <1>6, <4>2
                <5> QED BY <1>1, <4>2, <5>1
            <4>3. Len(r) = n + 1 /\ Len(s) = n
                BY <1>1 DEF n
            <4> QED BY <4>1, <4>2, <4>3
        <3> QED BY <1>2, <1>5, <3>1 DEF RefSet
    <2>2. n + 1 \notin B
        <3>1. \A j \in n + 1 .. Len(r) : j = n + 1
            BY <1>1
        <3> QED BY <1>1, <1>6, <3>1 DEF RefSet
    <2> HIDE DEF A, B
    <2>3. Pick(Append(w, d), B) =
             IF Len(w) + 1 \in B THEN Append(Pick(w, A), d) ELSE Pick(w, A)
        BY <1>3, <2>1, PickAppend
    <2> QED BY <1>3, <1>4, <1>6, <2>2, <2>3 DEF r
<1>7. CASE c \notin Blank
    <2>1. SameUpTo(D, B, n)
        <3> SUFFICES ASSUME NEW i \in 1 .. n PROVE i \in D <=> i \in B
            BY DEF SameUpTo
        <3>1. \E j \in i .. Len(r) : r[j] \notin Blank
            <4>1. n + 1 \in i .. Len(r)
                BY <1>1
            <4> QED BY <1>1, <1>7, <4>1
        <3> QED BY <1>2, <1>5, <3>1 DEF RefSet
    <2>2. n + 1 \in B
        <3>1. n + 1 \in 1 .. n + 1
            BY <1>1
        <3> QED BY <1>1, <1>2, <1>7, <3>1 DEF RefSet
    <2> HIDE DEF D, B
    <2>3. Pick(Append(w, d), B) =
             IF Len(w) + 1 \in B THEN Append(Pick(w, D), d) ELSE Pick(w, D)
        BY <1>3, <2>1, PickAppend
    <2> QED BY <1>3, <1>4, <1>7, <2>2, <2>3 DEF r, d
<1> QED BY <1>6, <1>7

\* The open form takes a space behind a word and ignores further blanks.
LEMMA RefOpenAppend ==
    ASSUME NEW s \in Seq(Chars), NEW c \in Chars
    PROVE  RefOpen(Append(s, c)) =
               IF c \notin Blank THEN Append(RefOpen(s), c)
               ELSE IF Len(s) > 0 /\ s[Len(s)] \notin Blank THEN Append(RefOpen(s), SP)
               ELSE RefOpen(s)
<1> DEFINE n == Len(s)
           r == Append(s, c)
           A == {i \in DOMAIN s : s[i] \notin Blank \/ (i > 1 /\ s[i - 1] \notin Blank)}
           B == {i \in DOMAIN r : r[i] \notin Blank \/ (i > 1 /\ r[i - 1] \notin Blank)}
           d == IF c \notin Blank THEN c ELSE SP
           w == Worded(s)
<1>1. /\ r \in Seq(Chars) /\ Len(r) = n + 1 /\ n \in Nat
      /\ r[n + 1] = c /\ \A i \in 1 .. n : r[i] = s[i]
    BY Appending
<1>2. DOMAIN r = 1 .. n + 1 /\ DOMAIN s = 1 .. n
    BY <1>1
<1>3. w \in Seq(Chars) /\ Len(w) = n /\ Worded(r) = Append(w, d) /\ d \in Chars
    BY WordedAppend, TextsAssumption DEF Blank
<1>4. RefOpen(r) = Pick(Append(w, d), B) /\ RefOpen(s) = Pick(w, A)
    BY <1>3 DEF RefOpen
<1> HIDE DEF n, r, w, d
<1>5. SameUpTo(A, B, n)
    <2> SUFFICES ASSUME NEW i \in 1 .. n PROVE i \in A <=> i \in B
        BY DEF SameUpTo
    <2>1. i \in 1 .. n + 1 /\ (i > 1 => i - 1 \in 1 .. n)
        BY <1>1
    <2> QED BY <1>1, <1>2, <2>1
<1>6. n + 1 \in B <=> c \notin Blank \/ (n > 0 /\ s[n] \notin Blank)
    <2>1. /\ n + 1 \in 1 .. n + 1 /\ (n + 1 > 1 <=> n > 0) /\ (n + 1) - 1 = n
          /\ n > 0 => n \in 1 .. n
        BY <1>1
    <2> QED BY <1>1, <1>2, <2>1
<1> HIDE DEF A, B
<1>7. Pick(Append(w, d), B) =
         IF Len(w) + 1 \in B THEN Append(Pick(w, A), d) ELSE Pick(w, A)
    BY <1>3, <1>5, PickAppend
<1> QED BY <1>3, <1>4, <1>6, <1>7 DEF r, d, n

\* What header canonicalisation makes of a text behind which more may follow.
Squeezed(u) == ltrim(Collapse(u))

Canonical(u) == ltrim(rtrim(Collapse(u)))

\* A further white space changes nothing.
Quiet(u) == Squeezed(u) = <<>> \/ (Len(u) > 0 /\ u[Len(u)] \in WSP)

\* Collapse keeps the type.
LEMMA CollapseTyped ==
    ASSUME NEW u \in Seq(Chars)
    PROVE  Collapse(u) \in Seq(Chars)
<1> DEFINE spaced == [i \in DOMAIN u |-> IF u[i] = TAB THEN SP ELSE u[i]]
<1>1. spaced \in Seq(Chars)
    <2>1. DOMAIN u = 1 .. Len(u) /\ Len(u) \in Nat /\ \A i \in 1 .. Len(u) : u[i] \in Chars
        OBVIOUS
    <2>2. SP \in Chars
        BY TextsAssumption DEF Blank
    <2>3. spaced \in [1 .. Len(u) -> Chars]
        BY <2>1, <2>2
    <2> HIDE DEF spaced
    <2> QED BY <2>1, <2>3
<1> HIDE DEF spaced
<1> QED BY <1>1, PickTyped DEF Collapse, spaced

\* The canonical form, from one text to the next.
LEMMA CanonicalAppend ==
    ASSUME NEW u \in Seq(Chars), NEW c \in Chars
    PROVE  /\ Canonical(Append(u, c)) =
                 IF c \in WSP THEN Canonical(u) ELSE Append(Squeezed(u), c)
           /\ Squeezed(Append(u, c)) = IF c \notin WSP THEN Append(Squeezed(u), c)
                                       ELSE IF Quiet(u) THEN Squeezed(u)
                                       ELSE Append(Squeezed(u), SP)
           /\ Squeezed(u) \in Seq(Chars)
<1> DEFINE w == Collapse(u)
<1>0. SP \in Chars /\ SP \in WSP
    BY TextsAssumption DEF Blank, WSP
<1>1. w \in Seq(Chars)
    BY CollapseTyped
<1>2. Collapse(Append(u, c)) = IF c \notin WSP THEN Append(w, c)
                               ELSE IF Len(u) > 0 /\ u[Len(u)] \in WSP THEN w
                               ELSE Append(w, SP)
    BY CollapseAppend
<1> HIDE DEF w
<1>3. /\ rtrim(Append(w, c)) = IF c \in WSP THEN rtrim(w) ELSE Append(w, c)
      /\ rtrim(Append(w, SP)) = rtrim(w)
    BY <1>0, <1>1, RtrimAppend
<1>4. /\ ltrim(Append(w, c)) = IF c \in WSP /\ ltrim(w) = <<>> THEN <<>> ELSE Append(ltrim(w), c)
      /\ ltrim(Append(w, SP)) = IF ltrim(w) = <<>> THEN <<>> ELSE Append(ltrim(w), SP)
    BY <1>0, <1>1, LtrimAppend
<1>5. ltrim(w) \in Seq(Chars)
    BY <1>1, PickTyped DEF ltrim
<1>6. Squeezed(u) = ltrim(w) /\ Canonical(u) = ltrim(rtrim(w))
    BY DEF Squeezed, Canonical, w
<1>7. Canonical(Append(u, c)) = IF c \in WSP THEN Canonical(u) ELSE Append(Squeezed(u), c)
    BY <1>2, <1>3, <1>4, <1>6 DEF Canonical
<1>8. Squeezed(Append(u, c)) = IF c \notin WSP THEN Append(Squeezed(u), c)
                               ELSE IF Quiet(u) THEN Squeezed(u)
                               ELSE Append(Squeezed(u), SP)
    BY <1>2, <1>4, <1>6 DEF Squeezed, Quiet
<1> QED BY <1>5, <1>6, <1>7, <1>8

\* Nothing of nothing.
LEMMA CanonicalNothing ==
    /\ Canonical(<<>>) = <<>> /\ Squeezed(<<>>) = <<>>
    /\ RefValue(<<>>) = <<>> /\ RefOpen(<<>>) = <<>>
<1> DEFINE e == <<>>
<1>1. e \in Seq(Chars) /\ DOMAIN e = {} /\ e = <<>>
    OBVIOUS
<1>2. [i \in DOMAIN e |-> IF e[i] = TAB THEN SP ELSE e[i]] = e /\ Worded(e) = e
    BY <1>1 DEF Worded
<1> HIDE DEF e
<1>3. \A T : Pick(e, T) = e
    BY <1>1, PickTyped
<1>4. Collapse(e) = e /\ rtrim(e) = e /\ ltrim(e) = e
    BY <1>2, <1>3 DEF Collapse, rtrim, ltrim
<1>5. RefValue(e) = e /\ RefOpen(e) = e
    BY <1>2, <1>3, RefValueIs DEF RefOpen
<1> QED BY <1>1, <1>4, <1>5 DEF Canonical, Squeezed

\* The first characters of a text, one by one.
LEMMA FirstChars ==
    ASSUME NEW S, NEW s \in Seq(S)
    PROVE  /\ SubSeq(s, 1, 0) = <<>> /\ SubSeq(s, 1, Len(s)) = s
           /\ \A k \in 0 .. Len(s) : SubSeq(s, 1, k) \in Seq(S) /\ Len(SubSeq(s, 1, k)) = k
           /\ \A k \in 1 .. Len(s) : SubSeq(s, 1, k)[k] = s[k]
           /\ \A k \in 0 .. Len(s) - 1 : SubSeq(s, 1, k + 1) = Append(SubSeq(s, 1, k), s[k + 1])
<1>1. Len(s) \in Nat /\ 1 \in Nat \ {0}
    OBVIOUS
<1>2. \A k \in 0 .. Len(s) : /\ SubSeq(s, 1, k) \in Seq(S) /\ Len(SubSeq(s, 1, k)) = k
                             /\ \A m \in 1 .. k : SubSeq(s, 1, k)[m] = s[m]
    <2> SUFFICES ASSUME NEW k \in 0 .. Len(s)
                 PROVE  /\ SubSeq(s, 1, k) \in Seq(S) /\ Len(SubSeq(s, 1, k)) = k
                        /\ \A m \in 1 .. k : SubSeq(s, 1, k)[m] = s[m]
        OBVIOUS
    <2>1. k \in Nat /\ 1 <= k + 1 /\ k <= Len(s) /\ k - 1 + 1 = k /\ \A m \in 1 .. k : 1 + m - 1 = m
        BY <1>1
    <2>2. /\ SubSeq(s, 1, k) \in Seq(S) /\ Len(SubSeq(s, 1, k)) = k - 1 + 1
          /\ \A m \in 1 .. k - 1 + 1 : SubSeq(s, 1, k)[m] = s[1 + m - 1]
        BY <1>1, <2>1, PartOf
    <2> QED BY <2>1, <2>2
<1>3. SubSeq(s, 1, 0) = <<>> /\ SubSeq(s, 1, Len(s)) = s
    <2>1. SubSeq(s, 1, Len(s)) = s
        <3> DEFINE p == SubSeq(s, 1, Len(s))
        <3>1. p \in Seq(S) /\ Len(p) = Len(s) /\ \A m \in 1 .. Len(s) : p[m] = s[m]
            BY <1>1, <1>2
        <3> HIDE DEF p
        <3>2. p = s
            BY <3>1, SameSeq
        <3> QED BY <3>2 DEF p
    <2> QED BY <2>1
<1>4. \A k \in 1 .. Len(s) : SubSeq(s, 1, k)[k] = s[k]
    BY <1>1, <1>2
<1>5. ASSUME NEW k \in 0 .. Len(s) - 1
      PROVE  SubSeq(s, 1, k + 1) = Append(SubSeq(s, 1, k), s[k + 1])
    <2> DEFINE p == SubSeq(s, 1, k)
               q == SubSeq(s, 1, k + 1)
    <2>1. k \in 0 .. Len(s) /\ k + 1 \in 0 .. Len(s) /\ k + 1 \in 1 .. Len(s) /\ k \in Nat
        BY <1>1
    <2>2. p \in Seq(S) /\ Len(p) = k /\ \A m \in 1 .. k : p[m] = s[m]
        BY <1>2, <2>1
    <2>3. q \in Seq(S) /\ Len(q) = k + 1 /\ \A m \in 1 .. k + 1 : q[m] = s[m]
        BY <1>2, <2>1
    <2>4. s[k + 1] \in S
        BY <2>1
    <2> DEFINE x == s[k + 1]
               r == Append(p, x)
    <2> HIDE DEF p, q, x
    <2>5. p \in Seq(S) /\ x \in S
        BY <2>2, <2>4 DEF x
    <2>6. /\ r \in Seq(S) /\ Len(r) = Len(p) + 1 /\ r[Len(p) + 1] = x
          /\ \A m \in 1 .. Len(p) : r[m] = p[m]
        BY <2>5, Appending
    <2> HIDE DEF r
    <2>7. \A m \in 1 .. k + 1 : m \in 1 .. k \/ m = k + 1
        BY <2>1
    <2>8. \A m \in 1 .. k : m \in 1 .. k + 1
        BY <2>1
    <2>9. k + 1 \in 1 .. k + 1
        BY <2>1
    <2>10. \A m \in 1 .. k + 1 : q[m] = r[m]
        BY <2>2, <2>3, <2>6, <2>7, <2>8, <2>9 DEF x
    <2>11. q \in Seq(S) /\ r \in Seq(S) /\ Len(q) = Len(r) /\ \A m \in 1 .. Len(q) : q[m] = r[m]
        BY <2>2, <2>3, <2>6, <2>10
    <2>12. q = r
        BY <2>11, SameSeq
    <2> QED BY <2>12 DEF p, q, r, x
<1> QED BY <1>2, <1>3, <1>4, <1>5

\* In a folded value exactly the characters of line breaks go, and a line break
\* is followed by a blank.
LEMMA FoldedIs ==
    ASSUME NEW s \in Seq(Chars), Folded(s), NEW k \in 1 .. Len(s)
    PROVE  /\ ~ At(s, k, CRLF) /\ ~ (k > 1 /\ At(s, k - 1, CRLF)) <=> s[k] \notin {CR, LF}
           /\ k < Len(s) /\ s[k] \in {CR, LF} => s[k + 1] \in Blank
<1>1. \A j \in Nat \ {0} : At(s, j, CRLF) <=> j + 1 <= Len(s) /\ s[j] = CR /\ s[j + 1] = LF
    BY LooksAtChars
<1>2. k \in Nat \ {0} /\ (k > 1 => k - 1 \in Nat \ {0} /\ (k - 1) + 1 = k) /\ (k - 1) + 2 = k + 1
    OBVIOUS
<1>3. CR # LF /\ LF \in Blank /\ WSP \subseteq Blank
    BY DEF CR, LF, Blank, WSP
<1>4. ASSUME s[k] \in {CR, LF}
      PROVE  \/ At(s, k, CRLF) /\ s[k] = CR /\ s[k + 1] = LF
             \/ k > 1 /\ At(s, k - 1, CRLF) /\ s[k] = LF /\ s[k + 1] \in WSP
    <2>1. k \in DOMAIN s
        OBVIOUS
    <2>2. PICK j \in {k, k - 1} \ {0} : At(s, j, CRLF) /\ j + 2 <= Len(s) /\ s[j + 2] \in WSP
        BY <1>4, <2>1 DEF Folded
    <2>3. CASE j = k
        BY <1>1, <1>2, <2>2, <2>3
    <2>4. CASE j = k - 1
        <3>1. k > 1
            BY <2>2, <2>4
        <3>2. s[k] = LF
            BY <1>1, <1>2, <2>2, <2>4, <3>1
        <3> QED BY <1>2, <2>2, <2>4, <3>1, <3>2
    <2> QED BY <2>2, <2>3, <2>4
<1>5. At(s, k, CRLF) => s[k] = CR
    BY <1>1, <1>2
<1>6. k > 1 /\ At(s, k - 1, CRLF) => s[k] = LF
    BY <1>1, <1>2
<1> QED BY <1>3, <1>4, <1>5, <1>6

\* The code's form u of a text that begins with p, and ends there with b.
Matches(u, p, first, b) ==
    /\ Canonical(u) = RefValue(p)
    /\ first \/ b \in WSP => Quiet(u)
    /\ ~ first /\ b \notin Blank => ~ Quiet(u) /\ RefOpen(p) = Squeezed(u)
    /\ first \/ b \in Blank => RefOpen(p) = IF Quiet(u) THEN Squeezed(u)
                                            ELSE Append(Squeezed(u), SP)

\* One more character keeps the code's form and the reference together.
LEMMA MatchesMore ==
    ASSUME NEW u \in Seq(Chars), NEW p \in Seq(Chars), NEW c \in Chars,
           Matches(u, p, Len(p) = 0, p[Len(p)]),
           c \notin Blank => Len(p) = 0 \/ p[Len(p)] \notin {CR, LF}
    PROVE  Matches(IF c \in {CR, LF} THEN u ELSE Append(u, c), Append(p, c), FALSE, c)
<1> DEFINE first == Len(p) = 0
           b == p[Len(p)]
           E == Squeezed(u)
           O == RefOpen(p)
           v == Append(u, c)
           q == Append(p, c)
<1>0. WSP \subseteq Blank /\ Blank = WSP \cup {CR, LF} /\ \A x \in WSP : x \notin {CR, LF}
    BY DEF WSP, Blank, SP, TAB, CR, LF
<1>1. Len(p) \in Nat /\ (Len(p) > 0 <=> ~ first)
    OBVIOUS
<1>2. /\ Canonical(v) = IF c \in WSP THEN Canonical(u) ELSE Append(E, c)
      /\ Squeezed(v) = IF c \notin WSP THEN Append(E, c)
                       ELSE IF Quiet(u) THEN E ELSE Append(E, SP)
      /\ E \in Seq(Chars)
    BY CanonicalAppend
<1>3. RefValue(q) = IF c \in Blank THEN RefValue(p) ELSE Append(O, c)
    BY RefValueAppend
<1>4. RefOpen(q) = IF c \notin Blank THEN Append(O, c)
                   ELSE IF ~ first /\ b \notin Blank THEN Append(O, SP) ELSE O
    BY <1>1, RefOpenAppend
<1>5. Len(v) > 0 /\ v[Len(v)] = c
    <2>1. Len(v) = Len(u) + 1 /\ v[Len(u) + 1] = c /\ Len(u) \in Nat
        BY Appending
    <2> QED BY <2>1
<1>6. /\ Canonical(u) = RefValue(p)
      /\ first \/ b \in WSP => Quiet(u)
      /\ ~ first /\ b \notin Blank => ~ Quiet(u) /\ O = E
      /\ first \/ b \in Blank => O = IF Quiet(u) THEN E ELSE Append(E, SP)
    BY DEF Matches
<1>7. c \notin Blank => first \/ b \notin {CR, LF}
    OBVIOUS
<1> HIDE DEF first, b, E, O, v, q
<1>8. CASE c \notin Blank
    <2>1. O = E
        BY <1>0, <1>6, <1>7, <1>8
    <2>2. c \notin WSP /\ c \notin {CR, LF}
        BY <1>0, <1>8
    <2>3. Squeezed(v) = Append(E, c) /\ Append(E, c) # <<>>
        BY <1>2, <2>2, Appending
    <2>4. ~ Quiet(v)
        BY <1>5, <2>2, <2>3 DEF Quiet
    <2>5. Matches(v, q, FALSE, c)
        <3>1. Canonical(v) = RefValue(q)
            BY <1>2, <1>3, <1>8, <2>1, <2>2
        <3>2. RefOpen(q) = Squeezed(v)
            BY <1>4, <1>8, <2>1, <2>3
        <3> QED BY <1>8, <2>2, <2>4, <3>1, <3>2 DEF Matches
    <2> QED BY <2>2, <2>5 DEF v, q
<1>9. CASE c \in WSP
    <2>1. c \in Blank /\ c \notin {CR, LF}
        BY <1>0, <1>9
    <2>2. Quiet(v)
        BY <1>5, <1>9 DEF Quiet
    <2>3. Canonical(v) = RefValue(q)
        BY <1>2, <1>3, <1>6, <1>9, <2>1
    <2>4. RefOpen(q) = Squeezed(v)
        <3>1. Squeezed(v) = IF Quiet(u) THEN E ELSE Append(E, SP)
            BY <1>2, <1>9
        <3>2. CASE ~ first /\ b \notin Blank
            <4>1. O = E /\ ~ Quiet(u)
                BY <1>6, <3>2
            <4>2. RefOpen(q) = Append(O, SP)
                BY <1>4, <2>1, <3>2
            <4> QED BY <3>1, <4>1, <4>2
        <3>3. CASE first \/ b \in Blank
            <4>1. RefOpen(q) = O
                BY <1>4, <2>1, <3>3
            <4>2. O = IF Quiet(u) THEN E ELSE Append(E, SP)
                BY <1>6, <3>3
            <4> QED BY <3>1, <4>1, <4>2
        <3> QED BY <3>2, <3>3
    <2>5. Matches(v, q, FALSE, c)
        BY <2>1, <2>2, <2>3, <2>4 DEF Matches
    <2> QED BY <2>1, <2>5 DEF v, q
<1>10. CASE c \in {CR, LF}
    <2>1. c \in Blank /\ c \notin WSP
        BY <1>0, <1>10
    <2>2. Canonical(u) = RefValue(q)
        BY <1>3, <1>6, <2>1
    <2>3. RefOpen(q) = IF Quiet(u) THEN Squeezed(u) ELSE Append(Squeezed(u), SP)
        BY <1>4, <1>6, <2>1 DEF E
    <2>4. Matches(u, q, FALSE, c)
        BY <2>1, <2>2, <2>3 DEF Matches
    <2> QED BY <1>10, <2>4 DEF q
<1> QED BY <1>0, <1>8, <1>9, <1>10

\* The canonical form of a folded value is the reference.
LEMMA CanonValueIs ==
    ASSUME NEW s \in Seq(Chars), Folded(s)
    PROVE  CanonValue(s) = RefValue(s)
<1> DEFINE n == Len(s)
           T == {i \in DOMAIN s : ~ At(s, i, CRLF) /\ ~ (i > 1 /\ At(s, i - 1, CRLF))}
           K == Kept(s, T)
           P(k) == SubSeq(s, 1, k)
           U == {k \in 0 .. n : Matches(K[k], P(k), k = 0, P(k)[k])}
<1>0. n \in Nat /\ DOMAIN s = 1 .. n /\ \A k \in 1 .. n : s[k] \in Chars
    OBVIOUS
<1>1. /\ K \in [0 .. n -> Seq(Chars)] /\ K[0] = <<>>
      /\ \A k \in 1 .. n : K[k] = IF k \in T THEN Append(K[k - 1], s[k]) ELSE K[k - 1]
    <2> HIDE DEF T
    <2> QED BY KeptDef
<1>2. /\ P(0) = <<>> /\ P(n) = s
      /\ \A k \in 0 .. n : P(k) \in Seq(Chars) /\ Len(P(k)) = k
      /\ \A k \in 1 .. n : P(k)[k] = s[k]
      /\ \A k \in 0 .. n - 1 : P(k + 1) = Append(P(k), s[k + 1])
    <2>1. P(0) = <<>> /\ P(n) = s
        BY FirstChars
    <2>2. \A k \in 0 .. n : P(k) \in Seq(Chars) /\ Len(P(k)) = k
        BY FirstChars
    <2>3. \A k \in 1 .. n : P(k)[k] = s[k]
        BY FirstChars
    <2>4. \A k \in 0 .. n - 1 : P(k + 1) = Append(P(k), s[k + 1])
        BY FirstChars
    <2> QED BY <2>1, <2>2, <2>3, <2>4
<1>3. \A k \in 1 .. n : /\ k \in T <=> s[k] \notin {CR, LF}
                        /\ k < n /\ s[k] \in {CR, LF} => s[k + 1] \in Blank
    BY <1>0, FoldedIs
<1>4. CanonValue(s) = Canonical(K[n])
    BY DEF CanonValue, Canonical, Unfold, Pick
<1> HIDE DEF n, T, K, P
<1>5. 0 \in U
    <2>1. Canonical(K[0]) = RefValue(P(0)) /\ Squeezed(K[0]) = <<>> /\ RefOpen(P(0)) = <<>>
        BY <1>1, <1>2, CanonicalNothing
    <2>2. Quiet(K[0])
        BY <2>1 DEF Quiet
    <2>3. Matches(K[0], P(0), 0 = 0, P(0)[0])
        BY <2>1, <2>2 DEF Matches
    <2> QED BY <1>0, <2>3
<1>6. ASSUME NEW k \in 0 .. n - 1, k \in U PROVE k + 1 \in U
    <2> DEFINE u == K[k]
               p == P(k)
               c == s[k + 1]
    <2>1. /\ k \in 0 .. n /\ k + 1 \in 0 .. n /\ k + 1 \in 1 .. n /\ (k + 1) - 1 = k
          /\ k + 1 # 0 /\ (k # 0 => k \in 1 .. n /\ k < n)
        BY <1>0
    <2>2. u \in Seq(Chars) /\ p \in Seq(Chars) /\ Len(p) = k /\ c \in Chars
        BY <1>0, <1>1, <1>2, <2>1
    <2>3. Matches(u, p, Len(p) = 0, p[Len(p)])
        BY <1>6, <2>2
    <2>4. c \notin Blank => Len(p) = 0 \/ p[Len(p)] \notin {CR, LF}
        BY <1>2, <1>3, <2>1, <2>2
    <2>5. K[k + 1] = IF c \in {CR, LF} THEN u ELSE Append(u, c)
        BY <1>1, <1>3, <2>1
    <2>6. P(k + 1) = Append(p, c) /\ P(k + 1)[k + 1] = c
        BY <1>2, <2>1
    <2> HIDE DEF u, p, c
    <2>7. Matches(IF c \in {CR, LF} THEN u ELSE Append(u, c), Append(p, c), FALSE, c)
        BY <2>2, <2>3, <2>4, MatchesMore
    <2>8. Matches(K[k + 1], P(k + 1), k + 1 = 0, P(k + 1)[k + 1])
        BY <2>1, <2>5, <2>6, <2>7
    <2> QED BY <2>1, <2>8
<1>7. n \in U
    <2> HIDE DEF U
    <2>1. 0 .. n \subseteq U
        BY <1>0, <1>5, <1>6, UpToN
    <2> QED BY <1>0, <2>1
<1>8. Canonical(K[n]) = RefValue(P(n))
    BY <1>7 DEF Matches
<1> QED BY <1>2, <1>4, <1>8

\* No blank but a space, none in front, no two together.
Neat(o) ==
    /\ \A i \in 1 .. Len(o) : o[i] \notin {TAB, CR, LF}
    /\ Len(o) > 0 => o[1] # SP
    /\ \A i \in 2 .. Len(o) : ~ (o[i] = SP /\ o[i - 1] = SP)

\* No space at the end.
Closed(o) == Len(o) > 0 => o[Len(o)] # SP

\* A word, or a space behind a word, keeps a text neat.
LEMMA NeatAppend ==
    ASSUME NEW o \in Seq(Chars), Neat(o), NEW c \in Chars,
           c \notin Blank \/ (c = SP /\ Len(o) > 0 /\ Closed(o))
    PROVE  /\ Neat(Append(o, c)) /\ Len(Append(o, c)) > 0
           /\ c \notin Blank => Closed(Append(o, c))
<1> DEFINE r == Append(o, c)
           n == Len(o)
<1>1. /\ r \in Seq(Chars) /\ Len(r) = n + 1 /\ n \in Nat
      /\ r[n + 1] = c /\ \A i \in 1 .. n : r[i] = o[i]
    BY Appending
<1>2. c \notin {TAB, CR, LF} /\ (c \notin Blank => c # SP)
    BY DEF Blank, SP, TAB, CR, LF
<1>3. c = SP => n > 0 /\ o[n] # SP
    BY <1>2 DEF Closed
<1>4. /\ \A i \in 1 .. n : o[i] \notin {TAB, CR, LF}
      /\ n > 0 => o[1] # SP
      /\ \A i \in 2 .. n : ~ (o[i] = SP /\ o[i - 1] = SP)
    BY DEF Neat
<1> HIDE DEF r, n
<1>5. \A i \in 1 .. n + 1 : r[i] \notin {TAB, CR, LF}
    <2>1. \A i \in 1 .. n + 1 : i \in 1 .. n \/ i = n + 1
        BY <1>1
    <2> QED BY <1>1, <1>2, <1>4, <2>1
<1>6. r[1] # SP
    <2>1. CASE n = 0
        BY <1>1, <1>3, <2>1
    <2>2. CASE n > 0
        <3>1. 1 \in 1 .. n
            BY <1>1, <2>2
        <3> QED BY <1>1, <1>4, <2>2, <3>1
    <2> QED BY <1>1, <2>1, <2>2
<1>7. \A i \in 2 .. n + 1 : ~ (r[i] = SP /\ r[i - 1] = SP)
    <2> SUFFICES ASSUME NEW i \in 2 .. n + 1 PROVE ~ (r[i] = SP /\ r[i - 1] = SP)
        OBVIOUS
    <2>1. CASE i = n + 1
        <3>1. i - 1 = n /\ n \in 1 .. n
            BY <1>1, <2>1
        <3> QED BY <1>1, <1>3, <2>1, <3>1
    <2>2. CASE i # n + 1
        <3>1. i \in 2 .. n /\ i \in 1 .. n /\ i - 1 \in 1 .. n
            BY <1>1, <2>2
        <3> QED BY <1>1, <1>4, <3>1
    <2> QED BY <2>1, <2>2
<1>8. Neat(r) /\ Len(r) > 0
    BY <1>1, <1>5, <1>6, <1>7 DEF Neat
<1>9. c \notin Blank => Closed(r)
    BY <1>1, <1>2 DEF Closed
<1> QED BY <1>8, <1>9 DEF r

\* The reference form is neat and closed.
LEMMA RefValueNeat ==
    ASSUME NEW s \in Seq(Chars)
    PROVE  RefValue(s) \in Seq(Chars) /\ Neat(RefValue(s)) /\ Closed(RefValue(s))
<1> DEFINE n == Len(s)
           P(k) == SubSeq(s, 1, k)
           Good(k) == LET R == RefValue(P(k)) O == RefOpen(P(k)) IN
                      /\ R \in Seq(Chars) /\ Neat(R) /\ Closed(R)
                      /\ O \in Seq(Chars) /\ Neat(O)
                      /\ k > 0 /\ P(k)[k] \notin Blank => Len(O) > 0 /\ Closed(O)
           U == {k \in 0 .. n : Good(k)}
<1>0. n \in Nat /\ \A k \in 1 .. n : s[k] \in Chars
    OBVIOUS
<1>1. /\ P(0) = <<>> /\ P(n) = s
      /\ \A k \in 0 .. n : P(k) \in Seq(Chars) /\ Len(P(k)) = k
      /\ \A k \in 1 .. n : P(k)[k] = s[k]
      /\ \A k \in 0 .. n - 1 : P(k + 1) = Append(P(k), s[k + 1])
    BY FirstChars
<1> HIDE DEF n, P
<1>2. 0 \in U
    <2>1. RefValue(P(0)) = <<>> /\ RefOpen(P(0)) = <<>>
        BY <1>1, CanonicalNothing
    <2>2. <<>> \in Seq(Chars) /\ Neat(<<>>) /\ Closed(<<>>)
        BY DEF Neat, Closed
    <2>3. Good(0)
        BY <2>1, <2>2
    <2> QED BY <1>0, <2>3
<1>3. ASSUME NEW k \in 0 .. n - 1, k \in U PROVE k + 1 \in U
    <2> DEFINE p == P(k)
               c == s[k + 1]
               R == RefValue(p)
               O == RefOpen(p)
               q == Append(p, c)
    <2>1. k \in 0 .. n /\ k + 1 \in 0 .. n /\ k + 1 \in 1 .. n /\ k \in Nat
        BY <1>0
    <2>2. p \in Seq(Chars) /\ Len(p) = k /\ c \in Chars
        BY <1>0, <1>1, <2>1
    <2>3. P(k + 1) = q /\ P(k + 1)[k + 1] = c
        BY <1>1, <2>1
    <2>4. /\ R \in Seq(Chars) /\ Neat(R) /\ Closed(R)
          /\ O \in Seq(Chars) /\ Neat(O)
          /\ k > 0 /\ p[k] \notin Blank => Len(O) > 0 /\ Closed(O)
        BY <1>3
    <2>5. RefValue(q) = IF c \in Blank THEN R ELSE Append(O, c)
        BY <2>2, RefValueAppend
    <2>6. RefOpen(q) = IF c \notin Blank THEN Append(O, c)
                       ELSE IF k > 0 /\ p[k] \notin Blank THEN Append(O, SP)
                       ELSE O
        BY <2>2, RefOpenAppend
    <2> HIDE DEF p, c, R, O, q
    <2>7. Good(k + 1)
        <3>1. CASE c \notin Blank
            <4> DEFINE x == Append(O, c)
            <4>1. x \in Seq(Chars)
                BY <2>2, <2>4, Appending
            <4>2. Neat(x) /\ Len(x) > 0 /\ Closed(x)
                BY <2>2, <2>4, <3>1, NeatAppend
            <4> HIDE DEF x
            <4>3. RefValue(q) = x /\ RefOpen(q) = x
                BY <2>5, <2>6, <3>1 DEF x
            <4> QED BY <2>3, <4>1, <4>2, <4>3
        <3>2. CASE c \in Blank /\ k > 0 /\ p[k] \notin Blank
            <4> DEFINE x == Append(O, SP)
            <4>1. SP \in Chars
                BY TextsAssumption DEF Blank
            <4>2. x \in Seq(Chars)
                BY <2>4, <4>1, Appending
            <4>3. Neat(x)
                <5> DEFINE d == SP
                <5>1. d \in Chars /\ d = SP
                    BY <4>1
                <5>2. Len(O) > 0 /\ Closed(O) /\ Neat(O) /\ O \in Seq(Chars)
                    BY <2>4, <3>2
                <5> HIDE DEF d
                <5>3. Neat(Append(O, d))
                    BY <5>1, <5>2, NeatAppend
                <5> QED BY <5>3 DEF d
            <4> HIDE DEF x
            <4>4. RefValue(q) = R /\ RefOpen(q) = x
                BY <2>5, <2>6, <3>2 DEF x
            <4> QED BY <2>3, <2>4, <3>2, <4>2, <4>3, <4>4
        <3>3. CASE c \in Blank /\ ~ (k > 0 /\ p[k] \notin Blank)
            <4>1. RefValue(q) = R /\ RefOpen(q) = O
                BY <2>5, <2>6, <3>3
            <4> QED BY <2>3, <2>4, <3>3, <4>1
        <3> QED BY <3>1, <3>2, <3>3
    <2> QED BY <2>1, <2>7
<1>4. n \in U
    <2> HIDE DEF U
    <2>1. 0 .. n \subseteq U
        BY <1>0, <1>2, <1>3, UpToN
    <2> QED BY <1>0, <2>1
<1> QED BY <1>1, <1>4

\* Canonicalisation leaves a neat and closed text alone.
LEMMA NeatStays ==
    ASSUME NEW s \in Seq(Chars), Neat(s), Closed(s)
    PROVE  CanonValue(s) = s
<1> DEFINE n == Len(s)
<1>0. n \in Nat /\ DOMAIN s = 1 .. n /\ \A i \in 1 .. n : i \in Nat \ {0}
    OBVIOUS
<1>1. /\ \A i \in 1 .. n : s[i] \notin {TAB, CR, LF}
      /\ n > 0 => s[1] # SP /\ s[n] # SP
      /\ \A i \in 2 .. n : ~ (s[i] = SP /\ s[i - 1] = SP)
    BY DEF Neat, Closed
<1>2. Unfold(s) = s
    <2> DEFINE T == {i \in DOMAIN s : ~ At(s, i, CRLF) /\ ~ (i > 1 /\ At(s, i - 1, CRLF))}
    <2>1. ASSUME NEW i \in 1 .. n PROVE i \in T
        <3>1. At(s, i, CRLF) => s[i] = CR
            BY <1>0, LooksAtChars
        <3>2. i > 1 => i - 1 \in 1 .. n
            BY <1>0
        <3>3. i > 1 /\ At(s, i - 1, CRLF) => s[i - 1] = CR
            BY <1>0, <3>2, LooksAtChars
        <3> QED BY <1>0, <1>1, <3>1, <3>2, <3>3
    <2> HIDE DEF T
    <2>2. Pick(s, T) = s
        BY <2>1, PickAll
    <2> QED BY <2>2 DEF Unfold, T
<1>3. Collapse(s) = s
    <2> DEFINE spaced == [i \in DOMAIN s |-> IF s[i] = TAB THEN SP ELSE s[i]]
               T == {i \in DOMAIN s : ~ (i > 1 /\ spaced[i] = SP /\ spaced[i - 1] = SP)}
    <2>1. spaced = s
        BY <1>0, <1>1
    <2>2. Collapse(s) = Pick(spaced, T)
        BY DEF Collapse
    <2>3. \A i \in 1 .. n : i \in T
        <3> SUFFICES ASSUME NEW i \in 1 .. n, i > 1, s[i] = SP, s[i - 1] = SP PROVE FALSE
            BY <1>0, <2>1
        <3>1. i \in 2 .. n
            BY <1>0
        <3> QED BY <1>1, <3>1
    <2> HIDE DEF spaced, T
    <2>4. Pick(s, T) = s
        BY <2>3, PickAll
    <2> QED BY <2>1, <2>2, <2>4
<1>4. n > 0 => s[1] \notin WSP /\ s[n] \notin WSP
    <2>1. n > 0 => 1 \in 1 .. n /\ n \in 1 .. n
        BY <1>0
    <2> QED BY <1>1, <2>1 DEF WSP
<1>5. rtrim(s) = s
    <2> DEFINE T == {i \in DOMAIN s : \E j \in i .. Len(s) : s[j] \notin WSP}
    <2>1. \A i \in 1 .. n : i \in T
        BY <1>0, <1>4
    <2> HIDE DEF T
    <2>2. Pick(s, T) = s
        BY <2>1, PickAll
    <2> QED BY <2>2 DEF rtrim, T
<1>6. ltrim(s) = s
    <2> DEFINE T == {i \in DOMAIN s : \E j \in 1 .. i : s[j] \notin WSP}
    <2>1. \A i \in 1 .. n : i \in T
        BY <1>0, <1>4
    <2> HIDE DEF T
    <2>2. Pick(s, T) = s
        BY <2>1, PickAll
    <2> QED BY <2>2 DEF ltrim, T
<1> QED BY <1>2, <1>3, <1>5, <1>6 DEF CanonValue

\* relaxed_header_canon gives every folded value, of any length, the one form
\* of RFC 4871, and leaves that form alone.
THEOREM HeaderCanonIsExact == TextSpec => []HeaderCanonAgrees
<1>1. InputsTyped => HeaderCanonAgrees
    <2> SUFFICES ASSUME InputsTyped, job = "value", Folded(input)
                 PROVE  /\ CanonValue(input) = RefValue(input)
                        /\ CanonValue(CanonValue(input)) = CanonValue(input)
        BY DEF HeaderCanonAgrees
    <2>1. input \in Seq(Chars)
        BY DEF InputsTyped, TextJobs
    <2>2. CanonValue(input) = RefValue(input)
        BY <2>1, CanonValueIs
    <2>3. /\ RefValue(input) \in Seq(Chars)
          /\ Neat(RefValue(input)) /\ Closed(RefValue(input))
        BY <2>1, RefValueNeat
    <2>4. CanonValue(RefValue(input)) = RefValue(input)
        BY <2>3, NeatStays
    <2> QED BY <2>2, <2>4
<1> QED BY <1>1, TextsTyped, PTL

-----------------------------------------------------------------------------
(* Flattening *)

\* What FlattenSeq computes, step by step.
LEMMA FlattenDef ==
    ASSUME NEW S, NEW q \in Seq(Seq(S))
    PROVE  \E F : /\ F \in [0 .. Len(q) -> Seq(S)] /\ F[0] = <<>>
                  /\ \A i \in 1 .. Len(q) : F[i] = F[i - 1] \o q[i]
                  /\ FlattenSeq(q) = F[Len(q)]
<1> DEFINE n == Len(q)
           g == [i \in 1 .. n |-> [x \in Seq(S) |-> x \o q[i]]]
<1>0. n \in Nat /\ <<>> \in Seq(S) /\ \A i \in 1 .. n : q[i] \in Seq(S)
    OBVIOUS
<1>1. PICK f : Computes(f, n, Seq(S), <<>>, g)
    <2>1. \A i \in 1 .. n, x \in Seq(S) : x \o q[i] \in Seq(S)
        BY <1>0, Joined
    <2>2. g \in [1 .. n -> [Seq(S) -> Seq(S)]]
        BY <2>1
    <2> HIDE DEF g, n
    <2> QED BY <1>0, <2>2, Recursion
<1>2. \A i \in 1 .. n : f[i - 1] \in Seq(S)
    <2> HIDE DEF g, n
    <2> QED BY <1>0, <1>1 DEF Computes
<1>3. \A i \in 1 .. n : f[i] = f[i - 1] \o q[i]
    BY <1>1, <1>2 DEF Computes
<1>4. f \in [0 .. n -> Seq(S)] /\ f[0] = <<>>
    BY <1>1 DEF Computes
<1> HIDE DEF g
<1>5. CASE n = 0
    <2>1. q = <<>>
        BY <1>5
    <2>2. FlattenSeq(q) = f[n]
        BY <1>4, <1>5, <2>1 DEF FlattenSeq
    <2> QED BY <1>3, <1>4, <2>2
<1>6. CASE n # 0
    <2> DEFINE h == [i \in 1 .. n |-> f[i]]
               H == CHOOSE y : y = [i \in 1 .. n |-> IF i = 1 THEN q[i] ELSE y[i - 1] \o q[i]]
    <2>1. FlattenSeq(q) = H[n]
        BY <1>6 DEF FlattenSeq
    <2> HIDE DEF n
    <2>2. n \in 1 .. n /\ 1 \in 1 .. n /\ 1 - 1 = 0 /\ \A i \in 1 .. n : i # 1 => i - 1 \in 1 .. n
        BY <1>0, <1>6
    <2>3. f[1] = q[1]
        <3>1. f[1] = <<>> \o q[1] /\ q[1] \in Seq(S)
            BY <1>0, <1>3, <1>4, <2>2
        <3> QED BY <3>1
    <2>4. h = [i \in 1 .. n |-> IF i = 1 THEN q[i] ELSE h[i - 1] \o q[i]]
        BY <1>3, <2>2, <2>3
    <2>5. H = [i \in 1 .. n |-> IF i = 1 THEN q[i] ELSE H[i - 1] \o q[i]]
        BY <2>4
    <2> HIDE DEF H, h
    <2> DEFINE U == {i \in 0 .. n : i = 0 \/ H[i] = f[i]}
    <2>6. 0 \in U
        BY <1>0
    <2>7. ASSUME NEW i \in 0 .. n - 1, i \in U PROVE i + 1 \in U
        <3>1. i + 1 \in 1 .. n /\ i + 1 \in 0 .. n /\ (i + 1) - 1 = i /\ (i + 1 = 1 <=> i = 0)
            BY <1>0
        <3>2. H[i + 1] = IF i = 0 THEN q[i + 1] ELSE H[i] \o q[i + 1]
            BY <2>5, <3>1
        <3>3. i # 0 => H[i] = f[i]
            BY <2>7
        <3>4. f[i + 1] = f[i] \o q[i + 1]
            BY <1>3, <3>1
        <3>5. H[i + 1] = f[i + 1]
            <4>1. CASE i = 0
                BY <2>3, <3>2, <4>1
            <4>2. CASE i # 0
                BY <3>2, <3>3, <3>4, <4>2
            <4> QED BY <4>1, <4>2
        <3> QED BY <3>1, <3>5
    <2>8. n \in U
        <3> HIDE DEF U
        <3>1. 0 .. n \subseteq U
            BY <1>0, <2>6, <2>7, UpToN
        <3> QED BY <1>0, <3>1
    <2>9. FlattenSeq(q) = f[n]
        BY <1>6, <2>1, <2>8
    <2> QED BY <1>3, <1>4, <2>9 DEF n
<1> QED BY <1>5, <1>6

\* A list of pieces with one more.
LEMMA FlattenAppend ==
    ASSUME NEW S, NEW q \in Seq(Seq(S)), NEW x \in Seq(S)
    PROVE  /\ FlattenSeq(Append(q, x)) = FlattenSeq(q) \o x
           /\ FlattenSeq(q) \in Seq(S)
<1> DEFINE r == Append(q, x)
           n == Len(q)
<1>1. /\ r \in Seq(Seq(S)) /\ Len(r) = n + 1 /\ n \in Nat
      /\ r[n + 1] = x /\ \A i \in 1 .. n : r[i] = q[i]
    BY Appending
<1> HIDE DEF r
<1>2. PICK F : /\ F \in [0 .. n -> Seq(S)] /\ F[0] = <<>>
               /\ \A i \in 1 .. n : F[i] = F[i - 1] \o q[i]
               /\ FlattenSeq(q) = F[n]
    BY FlattenDef
<1>3. PICK G : /\ G \in [0 .. Len(r) -> Seq(S)] /\ G[0] = <<>>
               /\ \A i \in 1 .. Len(r) : G[i] = G[i - 1] \o r[i]
               /\ FlattenSeq(r) = G[Len(r)]
    BY <1>1, FlattenDef
<1> HIDE DEF n
<1> DEFINE U == {i \in 0 .. n : F[i] = G[i]}
<1>4. 0 \in U
    BY <1>1, <1>2, <1>3
<1>5. ASSUME NEW i \in 0 .. n - 1, i \in U PROVE i + 1 \in U
    <2>1. i + 1 \in 1 .. n /\ i + 1 \in 1 .. n + 1 /\ i + 1 \in 0 .. n /\ (i + 1) - 1 = i
        BY <1>1
    <2>2. F[i + 1] = F[i] \o q[i + 1] /\ G[i + 1] = G[i] \o q[i + 1]
        BY <1>1, <1>2, <1>3, <2>1
    <2> QED BY <1>5, <2>1, <2>2
<1>6. F[n] = G[n]
    <2> HIDE DEF U
    <2>1. 0 .. n \subseteq U
        BY <1>1, <1>4, <1>5, UpToN
    <2> QED BY <1>1, <2>1 DEF U
<1>7. G[n + 1] = G[n] \o x
    <2>1. n + 1 \in 1 .. Len(r) /\ (n + 1) - 1 = n
        BY <1>1
    <2> QED BY <1>1, <1>3, <2>1
<1>8. F[n] \in Seq(S)
    BY <1>1, <1>2
<1> QED BY <1>1, <1>2, <1>3, <1>6, <1>7, <1>8 DEF r

-----------------------------------------------------------------------------
(* The body *)

\* A word follows i before any of C.
Later(s, i, C) == \E j \in i + 1 .. Len(s) :
                      s[j] \notin Blank /\ \A k \in i + 1 .. j - 1 : s[k] \notin C

\* i is on the last line.
OnLast(s, i) == \A k \in i + 1 .. Len(s) : s[k] # LF

Repeats(s, i) == i > 1 /\ s[i - 1] \in WSP

\* What becomes of the character at i if a word follows behind s, on a later
\* line (more) or on the last one (word).
BodyPiece(s, i, more, word) ==
    IF s[i] \notin Blank THEN <<s[i]>>
    ELSE IF s[i] = LF THEN IF more \/ Later(s, i, {}) THEN CRLF ELSE <<>>
    ELSE IF s[i] = CR THEN <<>>
    ELSE IF (Later(s, i, {LF}) \/ (word /\ OnLast(s, i))) /\ ~ Repeats(s, i)
    THEN <<SP>> ELSE <<>>

BodyPieces(s, more, word) == [i \in DOMAIN s |-> BodyPiece(s, i, more, word)]

BodyForm(s, more, word) == FlattenSeq(BodyPieces(s, more, word))

\* The reference form is the one behind which nothing follows.
LEMMA RefBodyIs ==
    ASSUME NEW s \in Seq(Chars)
    PROVE  RefBody(s) = BodyForm(s, FALSE, FALSE) \o CRLF
<1> DEFINE later(i, C) == \E j \in i + 1 .. Len(s) :
                             s[j] \notin Blank /\ \A k \in i + 1 .. j - 1 : s[k] \notin C
           kept(i) == CASE s[i] \notin Blank -> <<s[i]>>
                        [] s[i] = LF -> IF later(i, {}) THEN CRLF ELSE <<>>
                        [] s[i] = CR -> <<>>
                        [] OTHER -> IF later(i, {LF}) /\ ~ (i > 1 /\ s[i - 1] \in WSP)
                                    THEN <<SP>> ELSE <<>>
<1>1. RefBody(s) = FlattenSeq([i \in DOMAIN s |-> kept(i)]) \o CRLF
    BY DEF RefBody
<1>2. ASSUME NEW i \in DOMAIN s PROVE kept(i) = BodyPiece(s, i, FALSE, FALSE)
    <2>1. later(i, {}) <=> Later(s, i, {})
        BY DEF Later
    <2>2. later(i, {LF}) <=> Later(s, i, {LF})
        BY DEF Later
    <2>3. (i > 1 /\ s[i - 1] \in WSP) <=> Repeats(s, i)
        BY DEF Repeats
    <2> HIDE DEF later
    <2>4. LF \in Blank /\ CR \in Blank /\ CR # LF
        BY DEF Blank, CR, LF
    <2>5. CASE s[i] \notin Blank
        BY <2>4, <2>5 DEF BodyPiece
    <2>6. CASE s[i] = LF
        BY <2>1, <2>4, <2>6 DEF BodyPiece
    <2>7. CASE s[i] = CR
        BY <2>4, <2>7 DEF BodyPiece
    <2>8. CASE s[i] \in Blank /\ s[i] # LF /\ s[i] # CR
        BY <2>2, <2>3, <2>8 DEF BodyPiece
    <2> QED BY <2>5, <2>6, <2>7, <2>8
<1> HIDE DEF kept
<1>3. [i \in DOMAIN s |-> kept(i)] = BodyPieces(s, FALSE, FALSE)
    BY <1>2 DEF BodyPieces
<1> QED BY <1>1, <1>3 DEF BodyForm

\* The pieces are texts.
LEMMA BodyPiecesTyped ==
    ASSUME NEW s \in Seq(Chars), NEW more \in BOOLEAN, NEW word \in BOOLEAN
    PROVE  BodyPieces(s, more, word) \in Seq(Seq(Chars)) /\ Len(BodyPieces(s, more, word)) = Len(s)
<1>1. DOMAIN s = 1 .. Len(s) /\ Len(s) \in Nat /\ \A i \in 1 .. Len(s) : s[i] \in Chars
    OBVIOUS
<1>2. SP \in Chars /\ <<SP>> \in Seq(Chars) /\ <<>> \in Seq(Chars) /\ CRLF \in Seq(Chars)
    BY LineBreaks, TextsAssumption DEF Blank
<1>3. ASSUME NEW i \in 1 .. Len(s) PROVE BodyPiece(s, i, more, word) \in Seq(Chars)
    <2>1. <<s[i]>> \in Seq(Chars)
        BY <1>1
    <2> QED BY <1>2, <2>1 DEF BodyPiece
<1> DEFINE q == BodyPieces(s, more, word)
<1>4. q \in [1 .. Len(s) -> Seq(Chars)]
    BY <1>1, <1>3 DEF BodyPieces
<1> HIDE DEF q
<1>5. q \in Seq(Seq(Chars)) /\ Len(q) = Len(s)
    BY <1>1, <1>4
<1> QED BY <1>5 DEF q

\* What one more character does to a look ahead.
LEMMA LaterAppend ==
    ASSUME NEW s \in Seq(Chars), NEW c \in Chars, NEW i \in 1 .. Len(s), NEW C
    PROVE  /\ Later(Append(s, c), i, C) <=>
                 Later(s, i, C) \/ (c \notin Blank /\ \A k \in i + 1 .. Len(s) : s[k] \notin C)
           /\ OnLast(Append(s, c), i) <=> OnLast(s, i) /\ c # LF
           /\ Repeats(Append(s, c), i) <=> Repeats(s, i)
           /\ Append(s, c)[i] = s[i]
<1> DEFINE r == Append(s, c)
           n == Len(s)
<1>1. /\ r \in Seq(Chars) /\ Len(r) = n + 1 /\ n \in Nat
      /\ r[n + 1] = c /\ \A k \in 1 .. n : r[k] = s[k]
    BY Appending
<1> HIDE DEF r, n
<1>2. i \in 1 .. n /\ \A k \in i + 1 .. n : k \in 1 .. n /\ k \in i + 1 .. n + 1
    BY <1>1 DEF n
<1>3. n + 1 \in i + 1 .. n + 1 /\ \A k \in i + 1 .. n + 1 : k \in i + 1 .. n \/ k = n + 1
    BY <1>1, <1>2
<1>4. ASSUME Later(r, i, C)
      PROVE  Later(s, i, C) \/ (c \notin Blank /\ \A k \in i + 1 .. n : s[k] \notin C)
    <2>1. PICK j \in i + 1 .. n + 1 : r[j] \notin Blank /\ \A k \in i + 1 .. j - 1 : r[k] \notin C
        BY <1>1, <1>4 DEF Later
    <2>2. CASE j = n + 1
        <3>1. \A k \in i + 1 .. n : k \in i + 1 .. j - 1
            BY <1>1, <1>2, <2>2
        <3> QED BY <1>1, <1>2, <2>1, <2>2, <3>1
    <2>3. CASE j # n + 1
        <3>1. j \in i + 1 .. n /\ j \in 1 .. n
            BY <1>2, <1>3, <2>3
        <3>2. \A k \in i + 1 .. j - 1 : k \in 1 .. n
            BY <1>1, <1>2, <3>1
        <3>3. s[j] \notin Blank /\ \A k \in i + 1 .. j - 1 : s[k] \notin C
            BY <1>1, <2>1, <3>1, <3>2
        <3> QED BY <3>1, <3>3 DEF Later, n
    <2> QED BY <2>2, <2>3
<1>5. ASSUME Later(s, i, C) PROVE Later(r, i, C)
    <2>1. PICK j \in i + 1 .. n : s[j] \notin Blank /\ \A k \in i + 1 .. j - 1 : s[k] \notin C
        BY <1>5 DEF Later, n
    <2>2. j \in 1 .. n /\ j \in i + 1 .. n + 1 /\ \A k \in i + 1 .. j - 1 : k \in 1 .. n
        BY <1>1, <1>2
    <2>3. r[j] \notin Blank /\ \A k \in i + 1 .. j - 1 : r[k] \notin C
        BY <1>1, <2>1, <2>2
    <2> QED BY <1>1, <2>2, <2>3 DEF Later
<1>6. ASSUME c \notin Blank, \A k \in i + 1 .. n : s[k] \notin C PROVE Later(r, i, C)
    <2>1. (n + 1) - 1 = n
        BY <1>1
    <2>2. r[n + 1] \notin Blank /\ \A k \in i + 1 .. (n + 1) - 1 : r[k] \notin C
        BY <1>1, <1>2, <1>6, <2>1
    <2> QED BY <1>1, <1>3, <2>2 DEF Later
<1>7. OnLast(r, i) <=> OnLast(s, i) /\ c # LF
    <2>1. ASSUME OnLast(r, i) PROVE OnLast(s, i) /\ c # LF
        BY <1>1, <1>2, <1>3, <2>1 DEF OnLast, n
    <2>2. ASSUME OnLast(s, i), c # LF PROVE OnLast(r, i)
        BY <1>1, <1>2, <1>3, <2>2 DEF OnLast, n
    <2> QED BY <2>1, <2>2
<1>8. Repeats(r, i) <=> Repeats(s, i)
    <2>1. i > 1 => i - 1 \in 1 .. n
        BY <1>1, <1>2
    <2> QED BY <1>1, <2>1 DEF Repeats
<1>9. r[i] = s[i]
    BY <1>1, <1>2
<1> QED BY <1>4, <1>5, <1>6, <1>7, <1>8, <1>9 DEF r, n

\* The pieces of s are the first pieces of r.
SamePieces(r, s, more, word, m, w) ==
    \A i \in 1 .. Len(s) : BodyPiece(r, i, more, word) = BodyPiece(s, i, m, w)

\* A form grows by the piece of the new character.
LEMMA BodyFormGrows ==
    ASSUME NEW s \in Seq(Chars), NEW c \in Chars, NEW more \in BOOLEAN, NEW word \in BOOLEAN,
           NEW m \in BOOLEAN, NEW w \in BOOLEAN,
           SamePieces(Append(s, c), s, more, word, m, w)
    PROVE  /\ BodyForm(Append(s, c), more, word) =
                 BodyForm(s, m, w) \o BodyPiece(Append(s, c), Len(s) + 1, more, word)
           /\ BodyForm(s, m, w) \in Seq(Chars)
<1> DEFINE r == Append(s, c)
           n == Len(s)
           q == BodyPieces(r, more, word)
           p == BodyPieces(s, m, w)
           x == BodyPiece(r, n + 1, more, word)
           pp == Append(p, x)
<1>1. r \in Seq(Chars) /\ Len(r) = n + 1 /\ n \in Nat
    BY Appending
<1>2. DOMAIN r = 1 .. n + 1 /\ DOMAIN s = 1 .. n /\ n + 1 \in 1 .. n + 1
    BY <1>1
<1>3. \A i \in 1 .. n : BodyPiece(r, i, more, word) = BodyPiece(s, i, m, w)
    BY DEF SamePieces
<1> HIDE DEF r
<1>4. q \in Seq(Seq(Chars)) /\ Len(q) = n + 1
    BY <1>1, BodyPiecesTyped
<1>5. p \in Seq(Seq(Chars)) /\ Len(p) = n
    BY BodyPiecesTyped
<1>6. \A i \in 1 .. n + 1 : q[i] = BodyPiece(r, i, more, word)
    BY <1>2 DEF BodyPieces
<1>7. \A i \in 1 .. n : p[i] = BodyPiece(s, i, m, w)
    BY <1>2 DEF BodyPieces
<1>8. x \in Seq(Chars)
    <2>1. q[n + 1] \in Seq(Chars)
        <3> HIDE DEF q, n
        <3> QED BY <1>2, <1>4
    <2> QED BY <1>2, <1>6, <2>1
<1> HIDE DEF n, q, p, x
<1>9. /\ pp \in Seq(Seq(Chars)) /\ Len(pp) = Len(p) + 1
      /\ pp[Len(p) + 1] = x /\ \A i \in 1 .. Len(p) : pp[i] = p[i]
    <2>1. p \in Seq(Seq(Chars))
        BY <1>5
    <2> QED BY <1>8, <2>1, Appending
<1> HIDE DEF pp
<1>10. q = pp
    <2>1. \A i \in 1 .. n + 1 : i \in 1 .. n \/ i = n + 1
        BY <1>1
    <2>2. \A i \in 1 .. n : i \in 1 .. n + 1
        BY <1>1
    <2>3. \A i \in 1 .. n : q[i] = pp[i]
        BY <1>3, <1>5, <1>6, <1>7, <1>9, <2>2
    <2>4. q[n + 1] = pp[n + 1]
        BY <1>2, <1>5, <1>6, <1>9 DEF x
    <2>5. \A i \in 1 .. Len(q) : q[i] = pp[i]
        BY <1>4, <2>1, <2>3, <2>4
    <2>6. q \in Seq(Seq(Chars)) /\ pp \in Seq(Seq(Chars)) /\ Len(q) = Len(pp)
        BY <1>4, <1>5, <1>9
    <2> QED BY <2>5, <2>6, SameSeq
<1>11. FlattenSeq(pp) = FlattenSeq(p) \o x /\ FlattenSeq(p) \in Seq(Chars)
    <2>1. p \in Seq(Seq(Chars))
        BY <1>5
    <2> QED BY <1>8, <2>1, FlattenAppend DEF pp
<1> QED BY <1>10, <1>11 DEF BodyForm, p, q, x, r, n

\* One character, or none, behind a text.
LEMMA JoinOne ==
    ASSUME NEW S, NEW a \in Seq(S), NEW c \in S
    PROVE  a \o <<c>> = Append(a, c) /\ a \o <<>> = a
    OBVIOUS

\* The forms of a text with one more character.
LEMMA BodyFormAppend ==
    ASSUME NEW s \in Seq(Chars), NEW c \in Chars, NEW more \in BOOLEAN, NEW word \in BOOLEAN
    PROVE  /\ BodyForm(s, more, word) \in Seq(Chars)
           /\ c \notin Blank =>
                 BodyForm(Append(s, c), more, word) = Append(BodyForm(s, TRUE, TRUE), c)
           /\ c \in WSP =>
                 BodyForm(Append(s, c), more, word) =
                    IF word /\ ~ (Len(s) > 0 /\ s[Len(s)] \in WSP)
                    THEN Append(BodyForm(s, more, word), SP) ELSE BodyForm(s, more, word)
           /\ c = CR => BodyForm(Append(s, c), more, word) = BodyForm(s, more, word)
           /\ c = LF => BodyForm(Append(s, c), more, word) =
                           IF more THEN BodyForm(s, more, FALSE) \o CRLF
                           ELSE BodyForm(s, more, FALSE)
<1> DEFINE r == Append(s, c)
           n == Len(s)
           x == BodyPiece(r, n + 1, more, word)
<1>1. Len(r) = n + 1 /\ r[n + 1] = c /\ n \in Nat /\ \A i \in 1 .. n : r[i] = s[i]
    BY Appending
<1>2. \A i \in 1 .. n : /\ r[i] = s[i]
                        /\ Repeats(r, i) <=> Repeats(s, i)
                        /\ OnLast(r, i) <=> OnLast(s, i) /\ c # LF
                        /\ Later(r, i, {}) <=> Later(s, i, {}) \/ c \notin Blank
                        /\ Later(r, i, {LF}) <=>
                              Later(s, i, {LF}) \/ (c \notin Blank /\ OnLast(s, i))
    <2> SUFFICES ASSUME NEW i \in 1 .. n
                 PROVE  /\ r[i] = s[i]
                        /\ Repeats(r, i) <=> Repeats(s, i)
                        /\ OnLast(r, i) <=> OnLast(s, i) /\ c # LF
                        /\ Later(r, i, {}) <=> Later(s, i, {}) \/ c \notin Blank
                        /\ Later(r, i, {LF}) <=>
                              Later(s, i, {LF}) \/ (c \notin Blank /\ OnLast(s, i))
        OBVIOUS
    <2>1. /\ r[i] = s[i]
          /\ Repeats(r, i) <=> Repeats(s, i)
          /\ OnLast(r, i) <=> OnLast(s, i) /\ c # LF
        BY LaterAppend
    <2>2. Later(r, i, {}) <=>
             Later(s, i, {}) \/ (c \notin Blank /\ \A k \in i + 1 .. Len(s) : s[k] \notin {})
        BY LaterAppend
    <2>3. Later(r, i, {LF}) <=>
             Later(s, i, {LF}) \/ (c \notin Blank /\ \A k \in i + 1 .. Len(s) : s[k] \notin {LF})
        BY LaterAppend
    <2>4. OnLast(s, i) <=> \A k \in i + 1 .. Len(s) : s[k] \notin {LF}
        BY DEF OnLast
    <2> QED BY <2>1, <2>2, <2>3, <2>4
<1>3. /\ \A C : ~ Later(r, n + 1, C)
      /\ OnLast(r, n + 1)
      /\ Repeats(r, n + 1) <=> n > 0 /\ s[n] \in WSP
    <2>1. (n + 1) + 1 .. Len(r) = {} /\ (n + 1 > 1 <=> n > 0) /\ (n + 1) - 1 = n
        BY <1>1
    <2>2. n > 0 => r[n] = s[n]
        BY <1>1
    <2> HIDE DEF r, n
    <2>3. \A C : ~ Later(r, n + 1, C)
        BY <2>1 DEF Later
    <2>4. OnLast(r, n + 1)
        BY <2>1 DEF OnLast
    <2>5. Repeats(r, n + 1) <=> n > 0 /\ s[n] \in WSP
        BY <2>1, <2>2 DEF Repeats
    <2> QED BY <2>3, <2>4, <2>5
<1>4. /\ WSP \subseteq Blank /\ CR \in Blank /\ LF \in Blank /\ CR # LF
      /\ CR \notin WSP /\ LF \notin WSP
    BY DEF Blank, WSP, SP, TAB, CR, LF
<1>5. SP \in Chars /\ CRLF \in Seq(Chars)
    BY LineBreaks, TextsAssumption DEF Blank
<1>6. BodyForm(s, more, word) \in Seq(Chars) /\ BodyForm(s, TRUE, TRUE) \in Seq(Chars)
      /\ BodyForm(s, more, FALSE) \in Seq(Chars)
    <2>1. \A m, w \in BOOLEAN : BodyForm(s, m, w) \in Seq(Chars)
        <3> SUFFICES ASSUME NEW m \in BOOLEAN, NEW w \in BOOLEAN
                     PROVE  BodyForm(s, m, w) \in Seq(Chars)
            OBVIOUS
        <3>1. BodyPieces(s, m, w) \in Seq(Seq(Chars))
            BY BodyPiecesTyped
        <3>2. <<>> \in Seq(Chars)
            OBVIOUS
        <3> QED BY <3>1, <3>2, FlattenAppend DEF BodyForm
    <2> QED BY <2>1
<1> HIDE DEF r, n, x
<1>12. ASSUME NEW m \in BOOLEAN, NEW w \in BOOLEAN, SamePieces(r, s, more, word, m, w)
       PROVE  BodyForm(r, more, word) = BodyForm(s, m, w) \o x
    BY <1>12, BodyFormGrows DEF r, n, x
<1>7. ASSUME c \notin Blank
      PROVE  BodyForm(r, more, word) = Append(BodyForm(s, TRUE, TRUE), c)
    <2>1. SamePieces(r, s, more, word, TRUE, TRUE)
        <3> SUFFICES ASSUME NEW i \in 1 .. n
                     PROVE  BodyPiece(r, i, more, word) = BodyPiece(s, i, TRUE, TRUE)
            BY DEF SamePieces, n
        <3>1. c # LF
            BY <1>4, <1>7
        <3> QED BY <1>2, <1>7, <3>1 DEF BodyPiece
    <2>2. BodyForm(r, more, word) = BodyForm(s, TRUE, TRUE) \o x
        BY <1>12, <2>1, Zenon
    <2>3. x = <<c>>
        BY <1>1, <1>7 DEF x, BodyPiece
    <2> QED BY <1>6, <2>2, <2>3, JoinOne
<1>8. ASSUME c \in Blank, c # LF
      PROVE  BodyForm(r, more, word) = BodyForm(s, more, word) \o x
    <2>1. SamePieces(r, s, more, word, more, word)
        <3> SUFFICES ASSUME NEW i \in 1 .. n
                     PROVE  BodyPiece(r, i, more, word) = BodyPiece(s, i, more, word)
            BY DEF SamePieces, n
        <3> QED BY <1>2, <1>8 DEF BodyPiece
    <2> QED BY <2>1, BodyFormGrows DEF r, n, x
<1>9. ASSUME c \in WSP
      PROVE  BodyForm(r, more, word) =
                IF word /\ ~ (n > 0 /\ s[n] \in WSP)
                THEN Append(BodyForm(s, more, word), SP) ELSE BodyForm(s, more, word)
    <2>1. c \in Blank /\ c # LF /\ c # CR
        BY <1>4, <1>9
    <2>2. x = IF word /\ ~ (n > 0 /\ s[n] \in WSP) THEN <<SP>> ELSE <<>>
        BY <1>1, <1>3, <2>1 DEF x, BodyPiece
    <2>3. BodyForm(r, more, word) = BodyForm(s, more, word) \o x
        BY <1>8, <2>1
    <2>4. /\ BodyForm(s, more, word) \o <<SP>> = Append(BodyForm(s, more, word), SP)
          /\ BodyForm(s, more, word) \o <<>> = BodyForm(s, more, word)
        BY <1>5, <1>6, JoinOne
    <2> QED BY <2>2, <2>3, <2>4
<1>10. ASSUME c = CR PROVE BodyForm(r, more, word) = BodyForm(s, more, word)
    <2>1. x = <<>>
        BY <1>1, <1>4, <1>10 DEF x, BodyPiece
    <2>2. BodyForm(r, more, word) = BodyForm(s, more, word) \o x
        BY <1>4, <1>8, <1>10
    <2> QED BY <1>5, <1>6, <2>1, <2>2, JoinOne
<1>11. ASSUME c = LF
       PROVE  BodyForm(r, more, word) = IF more THEN BodyForm(s, more, FALSE) \o CRLF
                                        ELSE BodyForm(s, more, FALSE)
    <2>1. SamePieces(r, s, more, word, more, FALSE)
        <3> SUFFICES ASSUME NEW i \in 1 .. n
                     PROVE  BodyPiece(r, i, more, word) = BodyPiece(s, i, more, FALSE)
            BY DEF SamePieces, n
        <3>1. c \in Blank
            BY <1>4, <1>11
        <3> QED BY <1>2, <1>11, <3>1 DEF BodyPiece
    <2>2. BodyForm(r, more, word) = BodyForm(s, more, FALSE) \o x
        BY <1>12, <2>1, Zenon
    <2>3. x = IF more THEN CRLF ELSE <<>>
        BY <1>1, <1>3, <1>4, <1>11 DEF x, BodyPiece
    <2>4. BodyForm(s, more, FALSE) \o <<>> = BodyForm(s, more, FALSE)
        BY <1>5, <1>6, JoinOne
    <2> QED BY <2>2, <2>3, <2>4
<1> QED BY <1>6, <1>7, <1>9, <1>10, <1>11 DEF r, n

\* A text behind another, and a character behind both.
LEMMA JoinAppend ==
    ASSUME NEW a \in Seq(Chars), NEW b \in Seq(Chars), NEW c \in Chars
    PROVE  a \o Append(b, c) = Append(a \o b, c)
    OBVIOUS

\* Texts one behind the other.
LEMMA JoinMore ==
    ASSUME NEW a \in Seq(Chars), NEW b \in Seq(Chars), NEW c \in Chars
    PROVE  /\ a \o Append(b, c) = Append(a \o b, c)
           /\ a \o CRLF = Append(Append(a, CR), LF)
           /\ a \o <<>> = a
           /\ a \o b \in Seq(Chars) /\ a \o CRLF \in Seq(Chars) /\ Len(a \o CRLF) = Len(a) + 2
<1>1. CR \in Chars /\ LF \in Chars
    BY TextsAssumption DEF Blank
<1>2. a \o Append(b, c) = Append(a \o b, c)
    OBVIOUS
<1>3. a \o CRLF = Append(Append(a, CR), LF)
    BY <1>1 DEF CRLF
<1>4. Append(Append(a, CR), LF) \in Seq(Chars) /\ Len(Append(Append(a, CR), LF)) = Len(a) + 2
    BY <1>1
<1>5. a \o <<>> = a
    OBVIOUS
<1>6. a \o b \in Seq(Chars)
    BY Joined
<1> QED BY <1>2, <1>3, <1>4, <1>5, <1>6

\* out: the lines that have ended; line: the last one, up to here; p: the text
\* up to here.
BodyMatches(out, line, p) ==
    /\ BodyForm(p, TRUE, FALSE) = out \o Collapse(rtrim(line))
    /\ BodyForm(p, TRUE, TRUE) = out \o Collapse(line)
    /\ BodyForm(p, FALSE, FALSE) = rtrim_lines(BodyForm(p, TRUE, FALSE))

\* A space at the end.
EndsBlank(s) == Len(s) > 0 /\ s[Len(s)] \in WSP

\* One more character keeps the code's lines and the reference together.
LEMMA BodyMatchesMore ==
    ASSUME NEW out \in Seq(Chars), NEW line \in Seq(Chars), NEW p \in Seq(Chars), NEW c \in Chars,
           BodyMatches(out, line, p), c \in WSP => (EndsBlank(line) <=> EndsBlank(p))
    PROVE  /\ c \notin {CR, LF} => BodyMatches(out, Append(line, c), Append(p, c))
           /\ c = CR => BodyMatches(out, line, Append(p, c))
           /\ c = LF => BodyMatches(out \o Collapse(rtrim(line)) \o CRLF, <<>>, Append(p, c))
<1> DEFINE q == Append(p, c)
           R == BodyForm(p, FALSE, FALSE)
           Z == BodyForm(p, TRUE, FALSE)
           O == BodyForm(p, TRUE, TRUE)
           m == Append(line, c)
           rt == rtrim(line)
<1>0. /\ WSP \subseteq Blank /\ CR \in Blank /\ LF \in Blank /\ CR # LF /\ CR \in Chars /\ LF \in Chars
      /\ CR \notin WSP /\ LF \notin WSP /\ SP \in Chars /\ Blank = WSP \cup {CR, LF}
    BY TextsAssumption DEF Blank, WSP, SP, TAB, CR, LF
<1>1. Z = out \o Collapse(rt) /\ O = out \o Collapse(line) /\ R = rtrim_lines(Z)
    BY DEF BodyMatches
<1>2. rt \in Seq(Chars)
    BY PickTyped DEF rtrim
<1>3. \A more, word \in BOOLEAN :
         /\ BodyForm(p, more, word) \in Seq(Chars)
         /\ c \notin Blank => BodyForm(q, more, word) = Append(O, c)
         /\ c \in WSP => BodyForm(q, more, word) =
               IF word /\ ~ EndsBlank(p) THEN Append(BodyForm(p, more, word), SP)
               ELSE BodyForm(p, more, word)
         /\ c = CR => BodyForm(q, more, word) = BodyForm(p, more, word)
         /\ c = LF => BodyForm(q, more, word) =
               IF more THEN BodyForm(p, more, FALSE) \o CRLF ELSE BodyForm(p, more, FALSE)
    BY BodyFormAppend DEF EndsBlank
<1>4. Collapse(line) \in Seq(Chars) /\ Collapse(rt) \in Seq(Chars)
    BY <1>2, CollapseTyped
<1>5. R \in Seq(Chars) /\ Z \in Seq(Chars) /\ O \in Seq(Chars)
    BY <1>3, Zenon
<1>6. /\ Collapse(m) = IF c \notin WSP THEN Append(Collapse(line), c)
                       ELSE IF EndsBlank(line) THEN Collapse(line)
                       ELSE Append(Collapse(line), SP)
      /\ rtrim(m) = IF c \in WSP THEN rt ELSE m
    BY CollapseAppend, RtrimAppend DEF EndsBlank
<1> HIDE DEF q, R, Z, O, m, rt
<1>7. CASE c \notin Blank
    <2>1. /\ BodyForm(q, FALSE, FALSE) = Append(O, c)
          /\ BodyForm(q, TRUE, FALSE) = Append(O, c)
          /\ BodyForm(q, TRUE, TRUE) = Append(O, c)
        BY <1>3, <1>7, Zenon
    <2>2. c \notin WSP /\ c \notin {CR, LF}
        BY <1>0, <1>7
    <2>3. out \o Append(Collapse(line), c) = Append(out \o Collapse(line), c)
        <3> DEFINE w == Collapse(line)
        <3>1. w \in Seq(Chars)
            BY <1>4
        <3> HIDE DEF w
        <3>2. out \o Append(w, c) = Append(out \o w, c)
            <4>1. out \in Seq(Chars) /\ w \in Seq(Chars) /\ c \in Chars
                BY <3>1
            <4> QED BY <4>1, JoinAppend, Zenon
        <3> QED BY <3>2 DEF w
    <2>4. rtrim_lines(Append(O, c)) = Append(O, c)
        BY <1>5, <2>2, RtrimAppend
    <2>5. BodyMatches(out, m, q)
        <3>1. Collapse(m) = Append(Collapse(line), c) /\ rtrim(m) = m
            BY <1>6, <2>2
        <3>2. out \o Collapse(m) = Append(O, c)
            BY <1>1, <2>3, <3>1
        <3> QED BY <2>1, <2>4, <3>1, <3>2 DEF BodyMatches
    <2> QED BY <1>0, <1>7, <2>5 DEF m, q
<1>8. CASE c \in WSP
    <2>1. /\ BodyForm(q, FALSE, FALSE) = R
          /\ BodyForm(q, TRUE, FALSE) = Z
          /\ BodyForm(q, TRUE, TRUE) = IF ~ EndsBlank(p) THEN Append(O, SP) ELSE O
        BY <1>3, <1>8, Zenon DEF R, Z, O
    <2>2. c \notin {CR, LF}
        BY <1>0, <1>8
    <2>3. out \o Append(Collapse(line), SP) = Append(out \o Collapse(line), SP)
        <3> DEFINE w == Collapse(line)
        <3>1. w \in Seq(Chars)
            BY <1>4
        <3> HIDE DEF w
        <3>2. out \o Append(w, SP) = Append(out \o w, SP)
            <4>1. out \in Seq(Chars) /\ w \in Seq(Chars) /\ SP \in Chars
                BY <1>0, <3>1
            <4> QED BY <4>1, JoinAppend, Zenon
        <3> QED BY <3>2 DEF w
    <2>4. BodyMatches(out, m, q)
        <3>1. Collapse(m) = (IF EndsBlank(line) THEN Collapse(line) ELSE Append(Collapse(line), SP))
              /\ rtrim(m) = rt
            BY <1>6, <1>8
        <3>2. EndsBlank(line) <=> EndsBlank(p)
            BY <1>8
        <3>3. out \o Collapse(m) = IF ~ EndsBlank(p) THEN Append(O, SP) ELSE O
            BY <1>1, <2>3, <3>1, <3>2
        <3> QED BY <1>1, <2>1, <3>1, <3>3 DEF BodyMatches
    <2> QED BY <1>0, <1>8, <2>2, <2>4 DEF m, q
<1>9. CASE c = CR
    <2>1. /\ BodyForm(q, FALSE, FALSE) = R
          /\ BodyForm(q, TRUE, FALSE) = Z
          /\ BodyForm(q, TRUE, TRUE) = O
        BY <1>3, <1>9, Zenon DEF R, Z, O
    <2>2. BodyMatches(out, line, q)
        BY <1>1, <2>1 DEF BodyMatches, rt
    <2> QED BY <1>0, <1>9, <2>2 DEF q
<1>10. CASE c = LF
    <2>1. /\ BodyForm(q, FALSE, FALSE) = R
          /\ BodyForm(q, TRUE, FALSE) = Z \o CRLF
          /\ BodyForm(q, TRUE, TRUE) = Z \o CRLF
        BY <1>3, <1>10, Zenon DEF R, Z, O
    <2> DEFINE e == <<>>
    <2>2. e \in Seq(Chars) /\ rtrim(e) = e /\ Collapse(e) = e
        <3>1. e \in Seq(Chars) /\ DOMAIN e = {} /\ e = <<>>
            OBVIOUS
        <3>2. [i \in DOMAIN e |-> IF e[i] = TAB THEN SP ELSE e[i]] = e
            BY <3>1
        <3> HIDE DEF e
        <3>3. \A T : Pick(e, T) = e
            BY <3>1, PickTyped
        <3> QED BY <3>1, <3>2, <3>3 DEF Collapse, rtrim
    <2> DEFINE zz == Z \o CRLF
    <2>3. zz = Append(Append(Z, CR), LF) /\ zz \in Seq(Chars) /\ zz \o <<>> = zz
        <3>1. zz = Append(Append(Z, CR), LF) /\ zz \in Seq(Chars)
            BY <1>0, <1>5, JoinMore
        <3> HIDE DEF zz
        <3> QED BY <1>0, <3>1, JoinMore
    <2>4. rtrim_lines(zz) = rtrim_lines(Z)
        <3> DEFINE z1 == Append(Z, CR)
        <3>1. z1 \in Seq(Chars) /\ rtrim_lines(z1) = rtrim_lines(Z)
            BY <1>0, <1>5, RtrimAppend, Appending
        <3> HIDE DEF z1
        <3>2. rtrim_lines(Append(z1, LF)) = rtrim_lines(z1)
            BY <1>0, <3>1, RtrimAppend
        <3> QED BY <2>3, <3>1, <3>2 DEF z1
    <2> HIDE DEF e, zz
    <2>5. BodyMatches(zz, e, q)
        <3>1. zz \o e = zz
            BY <2>3 DEF e
        <3> QED BY <1>1, <2>1, <2>2, <2>4, <3>1 DEF BodyMatches, zz
    <2>6. zz = out \o Collapse(rtrim(line)) \o CRLF
        BY <1>1 DEF zz, rt
    <2> QED BY <1>0, <1>10, <2>5, <2>6 DEF q, e
<1> QED BY <1>0, <1>7, <1>8, <1>9, <1>10

BodyState == [out : Seq(Chars), offset : Nat \ {0}]

\* A line, and what becomes of it, are texts.
LEMMA LineTyped ==
    ASSUME NEW s \in Seq(Chars), NEW a \in Nat \ {0}, NEW i \in 1 .. Len(s)
    PROVE  /\ LineOf(s, a, i) \in Seq(Chars)
           /\ relaxed_body_canon_line(LineOf(s, a, i)) \in Seq(Chars)
<1> DEFINE e == IF i > 1 /\ s[i - 1] = CR THEN i - 2 ELSE i - 1
           line == SubSeq(s, a, e)
<1>1. e \in Nat /\ e <= Len(s)
    OBVIOUS
<1> HIDE DEF e
<1>2. line \in Seq(Chars)
    <2>1. CASE a <= e + 1
        BY <1>1, <2>1, PartOf
    <2>2. CASE ~ (a <= e + 1)
        BY <1>1, <2>2
    <2> QED BY <2>1, <2>2
<1>3. LineOf(s, a, i) = line
    BY DEF LineOf, e
<1> HIDE DEF line
<1>4. rtrim(line) \in Seq(Chars)
    BY <1>2, PickTyped DEF rtrim
<1>5. Collapse(rtrim(line)) \in Seq(Chars)
    BY <1>4, CollapseTyped
<1> QED BY <1>2, <1>3, <1>5 DEF relaxed_body_canon_line

\* What BodyLines computes, step by step.
LEMMA BodyLinesDef ==
    ASSUME NEW s \in Seq(Chars)
    PROVE  LET F == BodyLines(s)
           IN /\ F \in [0 .. Len(s) -> BodyState]
              /\ F[0] = [out |-> <<>>, offset |-> 1]
              /\ \A i \in 1 .. Len(s) : F[i] =
                    IF s[i] # LF THEN F[i - 1]
                    ELSE [out |-> F[i - 1].out
                                  \o relaxed_body_canon_line(LineOf(s, F[i - 1].offset, i)) \o CRLF,
                          offset |-> i + 1]
<1> DEFINE n == Len(s)
           S == BodyState
           base == [out |-> <<>>, offset |-> 1]
           step(i, st) == IF s[i] # LF THEN st
                          ELSE [out |-> st.out \o relaxed_body_canon_line(LineOf(s, st.offset, i))
                                        \o CRLF,
                                offset |-> i + 1]
           g == [i \in 1 .. n |-> [st \in S |-> step(i, st)]]
           F == CHOOSE f : f = [i \in 0 .. n |-> IF i = 0 THEN base ELSE step(i, f[i - 1])]
<1>0. n \in Nat
    OBVIOUS
<1>1. base \in S
    BY DEF BodyState
<1>2. ASSUME NEW i \in 1 .. n, NEW st \in S PROVE step(i, st) \in S
    <2> DEFINE line == relaxed_body_canon_line(LineOf(s, st.offset, i))
               o == st.out
    <2>1. line \in Seq(Chars) /\ o \in Seq(Chars)
        BY LineTyped DEF BodyState
    <2> HIDE DEF line, o
    <2>2. o \o line \in Seq(Chars)
        BY <2>1, Joined
    <2>3. (o \o line) \o CRLF \in Seq(Chars)
        <3> DEFINE x == o \o line
        <3>1. x \in Seq(Chars) /\ CRLF \in Seq(Chars)
            BY <2>2, LineBreaks
        <3> HIDE DEF x
        <3>2. x \o CRLF \in Seq(Chars)
            BY <3>1, Joined
        <3> QED BY <3>2 DEF x
    <2>4. i + 1 \in Nat \ {0}
        BY <1>0
    <2> DEFINE y == (o \o line) \o CRLF
    <2>5. y \in Seq(Chars)
        BY <2>3
    <2> HIDE DEF y
    <2>6. [out |-> y, offset |-> i + 1] \in S
        BY <2>4, <2>5 DEF BodyState
    <2> QED BY <2>6 DEF y, line, o
<1>3. PICK f : Computes(f, n, S, base, g)
    <2>1. g \in [1 .. n -> [S -> S]]
        <3> HIDE DEF step, S, n
        <3> QED BY <1>2
    <2> HIDE DEF g, S, base, n
    <2> QED BY <1>0, <1>1, <2>1, Recursion
<1> HIDE DEF S, step, n
<1>4. /\ f \in [0 .. n -> S] /\ f[0] = base
      /\ \A i \in 1 .. n : f[i] = step(i, f[i - 1])
    <2>1. f \in [0 .. n -> S] /\ f[0] = base /\ \A i \in 1 .. n : f[i] = g[i][f[i - 1]]
        BY <1>3 DEF Computes
    <2>2. \A i \in 1 .. n : f[i - 1] \in S
        BY <1>0, <2>1
    <2> QED BY <2>1, <2>2
<1>5. \A i \in 0 .. n : i # 0 => i \in 1 .. n
    BY <1>0
<1>6. f = [i \in 0 .. n |-> IF i = 0 THEN base ELSE step(i, f[i - 1])]
    <2> HIDE DEF base
    <2>1. \A i \in 0 .. n : f[i] = IF i = 0 THEN base ELSE step(i, f[i - 1])
        BY <1>4, <1>5
    <2> QED BY <1>4, <2>1
<1>7. F = [i \in 0 .. n |-> IF i = 0 THEN base ELSE step(i, F[i - 1])]
    BY <1>6
<1>8. BodyLines(s) = F
    BY DEF BodyLines, step, n
<1> HIDE DEF F, base
<1>9. 0 \in 0 .. n /\ \A i \in 1 .. n : i \in 0 .. n /\ i # 0
    BY <1>0
<1>10. F[0] = base /\ \A i \in 1 .. n : F[i] = step(i, F[i - 1])
    BY <1>7, <1>9
<1>11. F[0] \in S /\ \A i \in 1 .. n : F[i - 1] \in S => F[i] \in S
    BY <1>1, <1>2, <1>10
<1>12. \A i \in 0 .. n : F[i] \in S
    BY <1>0, <1>11, Stays
<1>13. F \in [0 .. n -> BodyState]
    BY <1>7, <1>12 DEF S
<1> QED BY <1>8, <1>10, <1>13 DEF n, base, step

\* No form is longer than most.
FormsWithin(s, most) == \A m, w \in BOOLEAN : Len(BodyForm(s, m, w)) <= most

\* A character makes the forms at most two longer.
LEMMA FormsLonger ==
    ASSUME NEW p \in Seq(Chars), NEW c \in Chars, NEW most \in Nat, FormsWithin(p, most)
    PROVE  FormsWithin(Append(p, c), most + 2)
<1> DEFINE q == Append(p, c)
<1>1. \A mm, ww \in BOOLEAN :
         /\ BodyForm(p, mm, ww) \in Seq(Chars)
         /\ c \notin Blank => BodyForm(q, mm, ww) = Append(BodyForm(p, TRUE, TRUE), c)
         /\ c \in WSP => BodyForm(q, mm, ww) =
               IF ww /\ ~ EndsBlank(p) THEN Append(BodyForm(p, mm, ww), SP) ELSE BodyForm(p, mm, ww)
         /\ c = CR => BodyForm(q, mm, ww) = BodyForm(p, mm, ww)
         /\ c = LF => BodyForm(q, mm, ww) =
               IF mm THEN BodyForm(p, mm, FALSE) \o CRLF ELSE BodyForm(p, mm, FALSE)
    BY BodyFormAppend DEF EndsBlank
<1>2. \A mm, ww \in BOOLEAN : Len(BodyForm(p, mm, ww)) <= most
    BY DEF FormsWithin
<1>3. SP \in Chars /\ (c \notin Blank \/ c \in WSP \/ c = CR \/ c = LF)
    BY TextsAssumption DEF Blank, WSP
<1> HIDE DEF q
<1>4. ASSUME NEW m \in BOOLEAN, NEW w \in BOOLEAN PROVE Len(BodyForm(q, m, w)) <= most + 2
    <2> DEFINE x == BodyForm(p, TRUE, TRUE)
               y == BodyForm(p, m, w)
               z == BodyForm(p, m, FALSE)
    <2>1. /\ c \notin Blank => BodyForm(q, m, w) = Append(x, c)
          /\ c \in WSP => BodyForm(q, m, w) = IF w /\ ~ EndsBlank(p) THEN Append(y, SP) ELSE y
          /\ c = CR => BodyForm(q, m, w) = y
          /\ c = LF => BodyForm(q, m, w) = IF m THEN z \o CRLF ELSE z
        BY <1>1, Zenon
    <2>2. x \in Seq(Chars) /\ y \in Seq(Chars) /\ z \in Seq(Chars)
        BY <1>1, Zenon
    <2>3. Len(x) <= most /\ Len(y) <= most /\ Len(z) <= most
        BY <1>2, Zenon
    <2> HIDE DEF x, y, z
    <2>4. Len(Append(x, c)) = Len(x) + 1
        BY <2>2
    <2>5. Len(Append(y, SP)) = Len(y) + 1
        BY <1>3, <2>2
    <2>6. Len(z \o CRLF) = Len(z) + 2
        BY <1>3, <2>2, JoinMore
    <2>7. Len(x) \in Nat /\ Len(y) \in Nat /\ Len(z) \in Nat
        BY <2>2
    <2>8. Len(BodyForm(q, m, w)) \in {Len(x) + 1, Len(y) + 1, Len(y), Len(z) + 2, Len(z)}
        BY <1>3, <2>1, <2>4, <2>5, <2>6
    <2> QED BY <2>3, <2>7, <2>8
<1> QED BY <1>4 DEF FormsWithin, q

\* A form is at most twice as long as its text.
LEMMA BodyFormShort ==
    ASSUME NEW s \in Seq(Chars), NEW more \in BOOLEAN, NEW word \in BOOLEAN
    PROVE  Len(BodyForm(s, more, word)) <= 2 * Len(s)
<1> DEFINE n == Len(s)
           P(k) == SubSeq(s, 1, k)
           Short(k) == \A m, w \in BOOLEAN : Len(BodyForm(P(k), m, w)) <= 2 * k
           U == {k \in 0 .. n : Short(k)}
<1>0. n \in Nat /\ \A k \in 1 .. n : s[k] \in Chars
    OBVIOUS
<1>1. /\ P(0) = <<>> /\ P(n) = s
      /\ \A k \in 0 .. n : P(k) \in Seq(Chars)
      /\ \A k \in 0 .. n - 1 : P(k + 1) = Append(P(k), s[k + 1])
    BY FirstChars
<1> HIDE DEF n, P
<1>2. 0 \in U
    <2>1. ASSUME NEW m \in BOOLEAN, NEW w \in BOOLEAN PROVE Len(BodyForm(P(0), m, w)) <= 2 * 0
        <3>1. BodyPieces(P(0), m, w) \in Seq(Seq(Chars)) /\ Len(BodyPieces(P(0), m, w)) = Len(P(0))
            BY <1>0, <1>1, BodyPiecesTyped
        <3>2. BodyPieces(P(0), m, w) = <<>>
            BY <1>1, <3>1
        <3>3. BodyForm(P(0), m, w) = <<>>
            BY <3>2 DEF BodyForm, FlattenSeq
        <3> QED BY <3>3
    <2> QED BY <1>0, <2>1
<1>3. ASSUME NEW k \in 0 .. n - 1, k \in U PROVE k + 1 \in U
    <2> DEFINE p == P(k)
               c == s[k + 1]
               q == Append(p, c)
    <2>1. k + 1 \in 0 .. n /\ k + 1 \in 1 .. n /\ k \in 0 .. n /\ k \in Nat
        BY <1>0
    <2>2. p \in Seq(Chars) /\ c \in Chars /\ P(k + 1) = q
        BY <1>0, <1>1, <2>1
    <2>3. \A m, w \in BOOLEAN : Len(BodyForm(p, m, w)) <= 2 * k
        BY <1>3
    <2> HIDE DEF p, c
    <2>4. \A m, w \in BOOLEAN : Len(BodyForm(q, m, w)) <= 2 * k + 2
        <3>1. 2 * k \in Nat
            BY <2>1
        <3>2. FormsWithin(p, 2 * k)
            BY <2>3 DEF FormsWithin
        <3>3. FormsWithin(q, 2 * k + 2)
            BY <2>2, <3>1, <3>2, FormsLonger
        <3> QED BY <3>3 DEF FormsWithin
    <2>5. 2 * k + 2 = 2 * (k + 1)
        BY <2>1
    <2> QED BY <2>1, <2>2, <2>4, <2>5
<1>4. n \in U
    <2> HIDE DEF U
    <2>1. 0 .. n \subseteq U
        BY <1>0, <1>2, <1>3, UpToN
    <2> QED BY <1>0, <2>1
<1> QED BY <1>1, <1>4 DEF n

\* The lines of the code and the reference up to any position.
LEMMA BodyLinesMatch ==
    ASSUME NEW s \in Seq(Chars), NoBareCR(s), NEW k \in 0 .. Len(s)
    PROVE  LET st == BodyLines(s)[k]
           IN /\ st.offset \in 1 .. k + 1
              /\ LineOf(s, st.offset, k + 1) \in Seq(Chars)
              /\ BodyMatches(st.out, LineOf(s, st.offset, k + 1), SubSeq(s, 1, k))
<1> DEFINE n == Len(s)
           F == BodyLines(s)
           P(i) == SubSeq(s, 1, i)
           L(i) == LineOf(s, F[i].offset, i + 1)
           Good(i) == /\ F[i].offset \in 1 .. i + 1
                      /\ F[i].offset = i + 1 => i = 0 \/ s[i] = LF
                      /\ BodyMatches(F[i].out, L(i), P(i))
           U == {i \in 0 .. n : Good(i)}
<1>0. n \in Nat /\ \A i \in 1 .. n : s[i] \in Chars
    OBVIOUS
<1>1. /\ P(0) = <<>> /\ P(n) = s
      /\ \A i \in 0 .. n : P(i) \in Seq(Chars) /\ Len(P(i)) = i
      /\ \A i \in 1 .. n : P(i)[i] = s[i]
      /\ \A i \in 0 .. n - 1 : P(i + 1) = Append(P(i), s[i + 1])
    BY FirstChars
<1>2. /\ F \in [0 .. n -> BodyState]
      /\ F[0] = [out |-> <<>>, offset |-> 1]
      /\ \A i \in 1 .. n : F[i] =
            IF s[i] # LF THEN F[i - 1]
            ELSE [out |-> F[i - 1].out
                          \o relaxed_body_canon_line(LineOf(s, F[i - 1].offset, i)) \o CRLF,
                  offset |-> i + 1]
    BY BodyLinesDef
<1>3. ASSUME NEW i \in 1 .. n, s[i] = CR PROVE i < n /\ s[i + 1] = LF
    <2>1. At(s, i, CRLF)
        BY <1>3 DEF NoBareCR
    <2>2. i + 1 <= Len(s) /\ s[i + 1] = LF
        BY <2>1, LooksAtChars
    <2> QED BY <2>2
<1>4. ASSUME NEW i \in 0 .. n, NEW a \in 1 .. i + 1
      PROVE  /\ LineOf(s, a, i + 1) = SubSeq(s, a, IF i > 0 /\ s[i] = CR THEN i - 1 ELSE i)
             /\ SubSeq(s, a, i) \in Seq(Chars) /\ Len(SubSeq(s, a, i)) = i - a + 1
    <2>1. (i + 1 > 1 <=> i > 0) /\ (i + 1) - 1 = i /\ (i + 1) - 2 = i - 1 /\ i \in Nat
        BY <1>0
    <2>2. a \in Nat \ {0} /\ a <= i + 1 /\ i <= Len(s)
        BY <2>1
    <2>3. SubSeq(s, a, i) \in Seq(Chars) /\ Len(SubSeq(s, a, i)) = i - a + 1
        BY <2>1, <2>2, PartOf
    <2> QED BY <2>1, <2>3 DEF LineOf
<1>5. CRLF \in Seq(Chars) /\ LF # CR /\ LF \notin WSP /\ CR \notin WSP
    BY LineBreaks DEF LF, CR, WSP, SP, TAB
<1> HIDE DEF n, F, P
<1>6. 0 \in U
    <2>1. 0 \in 0 .. n /\ 1 \in 1 .. 0 + 1
        BY <1>0
    <2>2. F[0].offset = 1 /\ F[0].out = <<>>
        BY <1>2
    <2>3. L(0) = <<>>
        <3>1. L(0) = SubSeq(s, 1, 0)
            BY <1>4, <2>1, <2>2
        <3> QED BY <1>1, <3>1 DEF P
    <2> DEFINE e == <<>>
    <2>4. e \in Seq(Chars) /\ rtrim(e) = e /\ Collapse(e) = e /\ rtrim_lines(e) = e /\ e \o e = e
        <3>1. e \in Seq(Chars) /\ DOMAIN e = {} /\ e = <<>> /\ e \o e = e
            OBVIOUS
        <3>2. [i \in DOMAIN e |-> IF e[i] = TAB THEN SP ELSE e[i]] = e
            BY <3>1
        <3> HIDE DEF e
        <3>3. \A T : Pick(e, T) = e
            BY <3>1, PickTyped
        <3> QED BY <3>1, <3>2, <3>3 DEF Collapse, rtrim, rtrim_lines
    <2>5. \A m, w \in BOOLEAN : BodyForm(e, m, w) = e
        <3> SUFFICES ASSUME NEW m \in BOOLEAN, NEW w \in BOOLEAN PROVE BodyForm(e, m, w) = e
            OBVIOUS
        <3>1. BodyPieces(e, m, w) \in Seq(Seq(Chars)) /\ Len(BodyPieces(e, m, w)) = Len(e)
            BY <2>4, BodyPiecesTyped
        <3>2. BodyPieces(e, m, w) = <<>>
            BY <3>1
        <3> QED BY <3>2 DEF BodyForm, FlattenSeq
    <2>6. BodyForm(e, TRUE, FALSE) = e /\ BodyForm(e, TRUE, TRUE) = e /\ BodyForm(e, FALSE, FALSE) = e
        BY <2>5, Zenon
    <2> HIDE DEF e
    <2>7. BodyMatches(e, e, e)
        BY <2>4, <2>6 DEF BodyMatches
    <2>8. BodyMatches(F[0].out, L(0), P(0))
        BY <1>1, <2>2, <2>3, <2>7 DEF e
    <2> QED BY <2>1, <2>2, <2>8
<1>7. ASSUME NEW i \in 0 .. n - 1, i \in U PROVE i + 1 \in U
    <2> DEFINE st == F[i]
               a == st.offset
               o == st.out
               c == s[i + 1]
               line == L(i)
               p == P(i)
    <2>1. /\ i \in 0 .. n /\ i + 1 \in 0 .. n /\ i + 1 \in 1 .. n /\ (i + 1) - 1 = i /\ i \in Nat
          /\ i > 0 => i \in 1 .. n
        BY <1>0
    <2>2. o \in Seq(Chars) /\ p \in Seq(Chars) /\ c \in Chars /\ Len(p) = i
        BY <1>0, <1>1, <1>2, <2>1 DEF BodyState
    <2>3. a \in 1 .. i + 1 /\ (a = i + 1 => i = 0 \/ s[i] = LF) /\ BodyMatches(o, line, p)
        BY <1>7
    <2>4. line = LineOf(s, a, i + 1)
        OBVIOUS
    <2>5. line \in Seq(Chars)
        <3>1. a \in Nat \ {0} /\ i + 1 \in 1 .. Len(s)
            BY <2>1, <2>3 DEF n
        <3> QED BY <2>4, <3>1, LineTyped
    <2>6. F[i + 1] = IF c # LF THEN st
                     ELSE [out |-> o \o Collapse(rtrim(line)) \o CRLF, offset |-> i + 2]
        <3>1. (i + 1) + 1 = i + 2
            BY <2>1
        <3> QED BY <1>2, <2>1, <2>4, <3>1 DEF relaxed_body_canon_line
    <2>7. P(i + 1) = Append(p, c)
        BY <1>1, <2>1
    <2>8. c # LF => ~ (i > 0 /\ s[i] = CR)
        BY <1>3, <2>1
    <2>9. i > 0 => p[i] = s[i]
        BY <1>1, <2>1
    <2> HIDE DEF st, a, o, c, line, p
    <2>10. c # LF => line = SubSeq(s, a, i)
        BY <1>4, <2>1, <2>3, <2>4, <2>8
    <2>11. c \in WSP => (EndsBlank(line) <=> EndsBlank(p))
        <3> SUFFICES ASSUME c # LF PROVE EndsBlank(line) <=> EndsBlank(p)
            BY <1>5
        <3> DEFINE l == SubSeq(s, a, i)
        <3>1. l \in Seq(Chars) /\ Len(l) = i - a + 1 /\ line = l
            BY <1>4, <2>1, <2>3, <2>10
        <3>2. CASE a = i + 1
            <4>1. Len(l) = 0
                BY <2>1, <3>1, <3>2
            <4>2. ~ EndsBlank(p)
                BY <1>5, <2>2, <2>3, <2>9, <3>2 DEF EndsBlank
            <4> QED BY <3>1, <4>1, <4>2 DEF EndsBlank
        <3>3. CASE a # i + 1
            <4>1. a \in Nat \ {0} /\ a <= i /\ i > 0 /\ i - a + 1 \in 1 .. i - a + 1
                  /\ a + (i - a + 1) - 1 = i /\ i <= Len(s)
                BY <2>1, <2>3, <3>3 DEF n
            <4>2. \A m \in 1 .. i - a + 1 : l[m] = s[a + m - 1]
                BY <2>1, <4>1, PartOf
            <4> HIDE DEF l
            <4>3. l[i - a + 1] = s[i] /\ Len(l) > 0
                BY <2>1, <2>3, <3>1, <4>1, <4>2
            <4> QED BY <2>2, <2>9, <3>1, <4>1, <4>3 DEF EndsBlank
        <3> QED BY <3>2, <3>3
    <2>12. /\ c \notin {CR, LF} => BodyMatches(o, Append(line, c), Append(p, c))
           /\ c = CR => BodyMatches(o, line, Append(p, c))
           /\ c = LF => BodyMatches(o \o Collapse(rtrim(line)) \o CRLF, <<>>, Append(p, c))
        BY <2>2, <2>3, <2>5, <2>11, BodyMatchesMore
    <2>13. CASE c = LF
        <3> DEFINE b == i + 2
        <3>1. b \in 1 .. (i + 1) + 1 /\ b = (i + 1) + 1 /\ b \in Nat \ {0}
            BY <2>1
        <3>2. F[i + 1].offset = b /\ F[i + 1].out = o \o Collapse(rtrim(line)) \o CRLF
            BY <2>6, <2>13
        <3>3. L(i + 1) = <<>>
            <4>1. L(i + 1) = SubSeq(s, b, i + 1) /\ Len(SubSeq(s, b, i + 1)) = (i + 1) - b + 1
                  /\ SubSeq(s, b, i + 1) \in Seq(Chars)
                BY <1>4, <1>5, <2>1, <2>13, <3>1, <3>2 DEF c
            <4>2. (i + 1) - b + 1 = 0
                BY <2>1
            <4> QED BY <4>1, <4>2
        <3>4. BodyMatches(F[i + 1].out, L(i + 1), P(i + 1))
            BY <2>7, <2>12, <2>13, <3>2, <3>3
        <3>5. Good(i + 1)
            BY <2>13, <3>1, <3>2, <3>4 DEF c
        <3> QED BY <2>1, <3>5
    <2>14. CASE c # LF
        <3>1. F[i + 1].offset = a /\ F[i + 1].out = o
            BY <2>6, <2>14 DEF st, a, o
        <3>2. a \in 1 .. (i + 1) + 1 /\ a # (i + 1) + 1 /\ a \in Nat \ {0}
            BY <2>1, <2>3
        <3>3. L(i + 1) = SubSeq(s, a, IF c = CR THEN i ELSE i + 1)
            <4>1. i + 1 > 0
                BY <2>1
            <4> QED BY <1>4, <2>1, <3>1, <3>2, <4>1 DEF c
        <3>4. c # CR => L(i + 1) = Append(line, c)
            <4>1. SubSeq(s, a, i + 1) = Append(SubSeq(s, a, i), s[i + 1])
                <5>1. a \in Nat \ {0} /\ i \in Nat /\ i + 1 \in Nat /\ a <= i + 1 /\ a <= (i + 1) + 1
                      /\ i <= Len(s) /\ i + 1 <= Len(s)
                    BY <2>1, <2>3 DEF n
                <5> QED BY <5>1, PartMore
            <4> QED BY <2>10, <2>14, <3>3, <4>1 DEF c
        <3>5. BodyMatches(F[i + 1].out, L(i + 1), P(i + 1))
            <4>1. CASE c = CR
                BY <2>7, <2>10, <2>12, <2>14, <3>1, <3>3, <4>1
            <4>2. CASE c # CR
                BY <2>7, <2>12, <2>14, <3>1, <3>4, <4>2
            <4> QED BY <4>1, <4>2
        <3>6. Good(i + 1)
            BY <3>1, <3>2, <3>5
        <3> QED BY <2>1, <3>6
    <2> QED BY <2>13, <2>14
<1>8. k \in U
    <2> HIDE DEF U
    <2>1. 0 .. n \subseteq U
        BY <1>0, <1>6, <1>7, UpToN
    <2> QED BY <2>1 DEF n
<1>9. F[k].offset \in 1 .. k + 1 /\ BodyMatches(F[k].out, L(k), P(k))
    BY <1>8
<1>10. L(k) \in Seq(Chars)
    <2> DEFINE a == F[k].offset
               e == IF k > 0 /\ s[k] = CR THEN k - 1 ELSE k
    <2>1. L(k) = SubSeq(s, a, e)
        BY <1>4, <1>9 DEF n
    <2>2. e \in Nat /\ e <= Len(s) /\ a \in Nat \ {0}
        BY <1>0, <1>9 DEF n
    <2> HIDE DEF a, e
    <2>3. SubSeq(s, a, e) \in Seq(Chars)
        <3>1. CASE a <= e + 1
            BY <2>2, <3>1, PartOf
        <3>2. CASE ~ (a <= e + 1)
            BY <2>2, <3>2
        <3> QED BY <3>1, <3>2
    <2> QED BY <2>1, <2>3
<1> QED BY <1>9, <1>10 DEF F, P

\* relaxed_body_canon gives every body, of any length, the one form of RFC
\* 4871, and stays inside the memory that it allocates.
THEOREM BodyCanonIsExact == TextSpec => []BodyCanonAgrees
<1>1. InputsTyped => BodyCanonAgrees
    <2> SUFFICES ASSUME InputsTyped, job = "body", NoBareCR(input)
                 PROVE  /\ relaxed_body_canon(input) = RefBody(input)
                        /\ Len(BodyLines(input)[Len(input)].out) + 2 < 2 * Len(input) + 3
                        /\ Len(relaxed_body_canon(input)) < 2 * Len(input) + 3
        BY DEF BodyCanonAgrees
    <2> DEFINE s == input
               n == Len(s)
               all == BodyLines(s)[n]
               a == all.offset
               o == all.out
               line == LineOf(s, a, n + 1)
               Z == BodyForm(s, TRUE, FALSE)
               R == BodyForm(s, FALSE, FALSE)
    <2>1. s \in Seq(Chars)
        BY DEF InputsTyped, TextJobs
    <2>2. n \in Nat /\ n \in 0 .. Len(s) /\ SubSeq(s, 1, n) = s
        BY <2>1, FirstChars
    <2>3. a \in 1 .. n + 1 /\ line \in Seq(Chars) /\ BodyMatches(o, line, s)
        BY <2>1, <2>2, BodyLinesMatch
    <2>4. o \in Seq(Chars)
        BY <2>1, <2>2, BodyLinesDef DEF BodyState
    <2>5. line = SubSeq(s, a, n)
        <3>1. (n + 1) - 1 = n
            BY <2>2
        <3>2. ~ (n + 1 > 1 /\ s[n] = CR)
            <4> SUFFICES ASSUME n > 0, s[n] = CR PROVE FALSE
                BY <2>2
            <4>1. n \in DOMAIN s /\ n \in Nat \ {0}
                BY <2>1, <2>2
            <4>2. At(s, n, CRLF)
                BY <4>1 DEF NoBareCR
            <4>3. n + 1 <= Len(s)
                BY <2>1, <4>1, <4>2, LooksAtChars
            <4> QED BY <2>2, <4>3
        <3> QED BY <3>1, <3>2 DEF LineOf
    <2>6. Z = o \o Collapse(rtrim(line)) /\ R = rtrim_lines(Z)
        BY <2>3 DEF BodyMatches
    <2>7. Z \in Seq(Chars) /\ R \in Seq(Chars) /\ Len(Z) <= 2 * n /\ Len(R) <= 2 * n
        <3>1. \A m, w \in BOOLEAN : BodyForm(s, m, w) \in Seq(Chars) /\ Len(BodyForm(s, m, w)) <= 2 * n
            <4>1. SP \in Chars
                BY TextsAssumption DEF Blank
            <4> QED BY <2>1, <4>1, BodyFormAppend, BodyFormShort
        <3> QED BY <3>1, Zenon
    <2> DEFINE w == Collapse(rtrim(line))
    <2>8. w \in Seq(Chars)
        <3>1. rtrim(line) \in Seq(Chars)
            BY <2>3, PickTyped DEF rtrim
        <3> QED BY <3>1, CollapseTyped
    <2>9. relaxed_body_canon(s) = R \o CRLF
        <3>1. relaxed_body_canon(s) =
                 rtrim_lines(o \o (IF a > n THEN <<>> ELSE w \o CRLF)) \o CRLF
            BY <2>5 DEF relaxed_body_canon, relaxed_body_canon_line
        <3>2. CASE a > n
            <4> DEFINE e == <<>>
            <4>1. Len(line) = 0
                <5>1. a = n + 1 /\ a \in Nat \ {0} /\ n <= Len(s) /\ a <= n + 1 /\ n - a + 1 = 0
                    BY <2>2, <2>3, <3>2
                <5> HIDE DEF a, n, line, s
                <5>2. Len(SubSeq(s, a, n)) = n - a + 1
                    BY <2>1, <2>2, <5>1, PartOf
                <5> QED BY <2>5, <5>1, <5>2
            <4>2. line = e
                <5> HIDE DEF line
                <5> QED BY <2>3, <4>1
            <4>3. Collapse(rtrim(e)) = e
                <5>1. e \in Seq(Chars) /\ DOMAIN e = {} /\ e = <<>>
                    OBVIOUS
                <5>2. [i \in DOMAIN e |-> IF e[i] = TAB THEN SP ELSE e[i]] = e
                    BY <5>1
                <5> HIDE DEF e
                <5>3. \A T : Pick(e, T) = e
                    BY <5>1, PickTyped
                <5> QED BY <5>1, <5>2, <5>3 DEF Collapse, rtrim
            <4>4. Z = o \o <<>>
                BY <2>6, <4>2, <4>3
            <4> HIDE DEF a, o, w, Z, R, n, s
            <4> QED BY <2>6, <3>1, <3>2, <4>4
        <3>3. CASE ~ (a > n)
            <4> HIDE DEF a, o, w, Z, R, n, s, line
            <4>0. CR \in Chars /\ LF \in Chars
                BY TextsAssumption DEF Blank
            <4>1. o \o (w \o CRLF) = Append(Append(Z, CR), LF)
                <5>1. w \o CRLF = Append(Append(w, CR), LF)
                    BY <2>8, <4>0, JoinMore
                <5> DEFINE v == Append(w, CR)
                <5>2. v \in Seq(Chars)
                    BY <2>8, <4>0, Appending
                <5>3. o \o v = Append(o \o w, CR)
                    BY <2>4, <2>8, <4>0, JoinMore
                <5> HIDE DEF v
                <5>4. o \o Append(v, LF) = Append(o \o v, LF)
                    BY <2>4, <4>0, <5>2, JoinMore
                <5> QED BY <2>6, <5>1, <5>3, <5>4 DEF v, w
            <4>2. rtrim_lines(Append(Append(Z, CR), LF)) = rtrim_lines(Z)
                <5> DEFINE z1 == Append(Z, CR)
                <5>1. z1 \in Seq(Chars) /\ rtrim_lines(z1) = rtrim_lines(Z)
                    BY <2>7, <4>0, RtrimAppend, Appending
                <5> HIDE DEF z1
                <5>2. rtrim_lines(Append(z1, LF)) = rtrim_lines(z1)
                    BY <4>0, <5>1, RtrimAppend
                <5> QED BY <5>1, <5>2 DEF z1
            <4> QED BY <2>6, <3>1, <3>3, <4>1, <4>2
        <3> QED BY <3>2, <3>3
    <2>10. RefBody(s) = R \o CRLF
        BY <2>1, RefBodyIs
    <2>11. Len(o) <= Len(Z) /\ Len(o) \in Nat
        <3> HIDE DEF o, w, Z
        <3>1. Len(o \o w) = Len(o) + Len(w) /\ Len(o) \in Nat /\ Len(w) \in Nat
            BY <2>4, <2>8, Joined
        <3>2. Z = o \o w
            BY <2>6 DEF w
        <3> QED BY <3>1, <3>2
    <2>12. Len(R \o CRLF) = Len(R) + 2 /\ Len(R) \in Nat /\ Len(Z) \in Nat
        <3>1. SP \in Chars
            BY TextsAssumption DEF Blank
        <3> HIDE DEF R, Z
        <3> QED BY <2>7, <3>1, JoinMore
    <2> HIDE DEF a, o, w, Z, R, n, line
    <2>13. Len(o) + 2 < 2 * n + 3 /\ Len(relaxed_body_canon(s)) < 2 * n + 3
        BY <2>2, <2>7, <2>9, <2>11, <2>12
    <2> QED BY <2>9, <2>10, <2>13 DEF o, n
<1> QED BY <1>1, TextsTyped, PTL

-----------------------------------------------------------------------------
(* A part of a text *)

\* No position of T from a to b.
NoneIn(T, a, b) == \A i \in a .. b : i \notin T

\* Nothing is kept before the first position, and nothing more behind the last.
LEMMA KeptOutside ==
    ASSUME NEW S, NEW s \in Seq(S), NEW T, NEW k \in 0 .. Len(s)
    PROVE  /\ NoneIn(T, 1, k) => Kept(s, T)[k] = <<>>
           /\ NoneIn(T, k + 1, Len(s)) => Pick(s, T) = Kept(s, T)[k]
<1> DEFINE n == Len(s)
           F == Kept(s, T)
<1>0. n \in Nat /\ k \in Nat /\ k <= n
    OBVIOUS
<1>1. /\ F[0] = <<>>
      /\ \A i \in 1 .. n : F[i] = IF i \in T THEN Append(F[i - 1], s[i]) ELSE F[i - 1]
    BY KeptDef
<1>2. Pick(s, T) = F[n]
    BY DEF Pick
<1> HIDE DEF F, n
<1>3. ASSUME NoneIn(T, 1, k) PROVE F[k] = <<>>
    <2> DEFINE U == {i \in 0 .. k : F[i] = <<>>}
    <2>1. 0 \in U
        BY <1>0, <1>1
    <2>2. ASSUME NEW i \in 0 .. k - 1, i \in U PROVE i + 1 \in U
        <3>1. i + 1 \in 1 .. n /\ i + 1 \in 1 .. k /\ i + 1 \in 0 .. k /\ (i + 1) - 1 = i
            BY <1>0
        <3>2. i + 1 \notin T
            BY <1>3, <3>1 DEF NoneIn
        <3> QED BY <1>1, <2>2, <3>1, <3>2
    <2> HIDE DEF U
    <2>3. 0 .. k \subseteq U
        BY <1>0, <2>1, <2>2, UpToN
    <2> QED BY <1>0, <2>3 DEF U
<1>4. ASSUME NoneIn(T, k + 1, n) PROVE F[n] = F[k]
    <2> DEFINE U == {i \in 0 .. n - k : F[k + i] = F[k]}
    <2>0. n - k \in Nat
        BY <1>0
    <2>1. 0 \in U
        <3>1. k + 0 = k /\ 0 \in 0 .. n - k
            BY <1>0, <2>0
        <3> QED BY <3>1
    <2>2. ASSUME NEW i \in 0 .. (n - k) - 1, i \in U PROVE i + 1 \in U
        <3>1. /\ k + (i + 1) \in 1 .. n /\ k + (i + 1) \in k + 1 .. n /\ i + 1 \in 0 .. n - k
              /\ (k + (i + 1)) - 1 = k + i
            BY <1>0
        <3>2. k + (i + 1) \notin T
            BY <1>4, <3>1 DEF NoneIn
        <3>3. F[k + (i + 1)] = F[k + i]
            BY <1>1, <3>1, <3>2
        <3> QED BY <2>2, <3>1, <3>3
    <2> HIDE DEF U
    <2>3. 0 .. n - k \subseteq U
        BY <2>0, <2>1, <2>2, UpToN
    <2>4. n - k \in 0 .. n - k /\ k + (n - k) = n
        BY <1>0
    <2> QED BY <2>3, <2>4 DEF U
<1> QED BY <1>2, <1>3, <1>4 DEF F, n

\* A holds the positions, counted in s, that T holds of the part from a to b.
Shifted(A, T, a, b) ==
    /\ A \subseteq a .. b
    /\ \A k \in a .. b : k \in A <=> k - a + 1 \in T

\* Pick from a part is pick from the whole.
LEMMA PickPart ==
    ASSUME NEW S, NEW s \in Seq(S), NEW a \in Nat \ {0}, NEW b \in Nat, a <= b + 1, b <= Len(s),
           NEW T, NEW A, Shifted(A, T, a, b)
    PROVE  Pick(SubSeq(s, a, b), T) = Pick(s, A)
<1> DEFINE p == SubSeq(s, a, b)
           n == Len(s)
           m == b - a + 1
           F == Kept(p, T)
           G == Kept(s, A)
           U == {i \in 0 .. m : F[i] = G[(a - 1) + i]}
<1>0. /\ n \in Nat /\ m \in Nat /\ a - 1 \in 0 .. n /\ b \in 0 .. n /\ (a - 1) + m = b
      /\ (a - 1) + 0 = a - 1
    OBVIOUS
<1>1. p \in Seq(S) /\ Len(p) = m /\ \A k \in 1 .. m : p[k] = s[a + k - 1]
    BY PartOf
<1>2. /\ F[0] = <<>>
      /\ \A i \in 1 .. m : F[i] = IF i \in T THEN Append(F[i - 1], p[i]) ELSE F[i - 1]
    <2> HIDE DEF p, m
    <2>1. p \in Seq(S)
        BY <1>1
    <2>2. /\ F[0] = <<>>
          /\ \A i \in 1 .. Len(p) : F[i] = IF i \in T THEN Append(F[i - 1], p[i]) ELSE F[i - 1]
        BY <2>1, KeptDef
    <2> HIDE DEF F
    <2> QED BY <1>1, <2>2
<1>3. \A i \in 1 .. n : G[i] = IF i \in A THEN Append(G[i - 1], s[i]) ELSE G[i - 1]
    BY KeptDef
<1>4. A \subseteq a .. b /\ \A k \in a .. b : k \in A <=> k - a + 1 \in T
    BY DEF Shifted
<1>5. NoneIn(A, 1, a - 1) /\ NoneIn(A, b + 1, n)
    BY <1>0, <1>4 DEF NoneIn
<1>6. G[a - 1] = <<>> /\ Pick(s, A) = G[b]
    <2> DEFINE c == a - 1
    <2>1. c \in 0 .. Len(s) /\ b \in 0 .. Len(s) /\ NoneIn(A, 1, c) /\ NoneIn(A, b + 1, Len(s))
        BY <1>0, <1>5
    <2> HIDE DEF c
    <2>2. Kept(s, A)[c] = <<>> /\ Pick(s, A) = Kept(s, A)[b]
        BY <2>1, KeptOutside
    <2> QED BY <2>2 DEF c
<1>7. Pick(p, T) = F[m]
    <2> HIDE DEF m, p
    <2> QED BY <1>1 DEF Pick
<1> HIDE DEF F, G, p, n, m
<1>8. 0 \in U
    BY <1>0, <1>2, <1>6
<1>9. ASSUME NEW i \in 0 .. m - 1, i \in U PROVE i + 1 \in U
    <2> DEFINE k == (a - 1) + (i + 1)
    <2>1. /\ i + 1 \in 1 .. m /\ i + 1 \in 0 .. m /\ (i + 1) - 1 = i
          /\ k \in 1 .. n /\ k \in a .. b /\ k - 1 = (a - 1) + i /\ k - a + 1 = i + 1
          /\ a + (i + 1) - 1 = k
        BY <1>0 DEF m, n
    <2> HIDE DEF k
    <2>2. F[i + 1] = IF i + 1 \in T THEN Append(F[i], s[k]) ELSE F[i]
        BY <1>1, <1>2, <2>1
    <2>3. G[k] = IF k \in A THEN Append(G[(a - 1) + i], s[k]) ELSE G[(a - 1) + i]
        BY <1>3, <2>1
    <2>4. k \in A <=> i + 1 \in T
        BY <1>4, <2>1
    <2>5. F[i + 1] = G[k]
        BY <1>9, <2>2, <2>3, <2>4
    <2> QED BY <2>1, <2>5 DEF k
<1>10. F[m] = G[(a - 1) + m]
    <2> HIDE DEF U
    <2>1. 0 .. m \subseteq U
        BY <1>0, <1>8, <1>9, UpToN
    <2> QED BY <1>0, <2>1 DEF U
<1> QED BY <1>0, <1>6, <1>7, <1>10 DEF p

\* The characters from a on, up to the first of C, without those of W.
Span(s, a, C, W) == {k \in a .. Len(s) : s[k] \notin W /\ \A j \in a .. k : s[j] \notin C}

\* A position that is kept leaves something.
LEMMA KeptSome ==
    ASSUME NEW S, NEW s \in Seq(S), NEW T, NEW k \in 0 .. Len(s), NEW i \in 1 .. k, i \in T
    PROVE  Kept(s, T)[k] # <<>>
<1> DEFINE F == Kept(s, T)
           U == {n \in 0 .. k : n >= i => Len(F[n]) > 0}
<1>0. k \in Nat /\ i \in Nat /\ i > 0 /\ k <= Len(s) /\ Len(s) \in Nat
    OBVIOUS
<1>1. /\ F \in [0 .. Len(s) -> Seq(S)]
      /\ \A n \in 1 .. Len(s) : F[n] = IF n \in T THEN Append(F[n - 1], s[n]) ELSE F[n - 1]
    BY KeptDef
<1> HIDE DEF F
<1>2. 0 \in U
    BY <1>0
<1>3. ASSUME NEW m \in 0 .. k - 1, m \in U PROVE m + 1 \in U
    <2> DEFINE n == m + 1
    <2>1. n \in 1 .. Len(s) /\ n \in 0 .. k /\ n - 1 = m /\ m \in 0 .. Len(s) /\ m \in Nat
        BY <1>0
    <2> HIDE DEF n, U
    <2>2. F[m] \in Seq(S) /\ s[n] \in S
        <3>1. F[m] \in Seq(S)
            BY <1>1, <2>1
        <3>2. s[n] \in S
            BY <2>1
        <3> QED BY <3>1, <3>2
    <2>3. F[n] = IF n \in T THEN Append(F[m], s[n]) ELSE F[m]
        BY <1>1, <2>1
    <2>4. Len(Append(F[m], s[n])) > 0
        BY <2>2
    <2>5. ASSUME n >= i PROVE Len(F[n]) > 0
        <3>1. CASE n \in T
            BY <2>3, <2>4, <3>1
        <3>2. CASE n \notin T
            <4>1. m >= i
                BY <1>0, <2>1, <2>5, <3>2
            <4> QED BY <1>3, <2>3, <3>2, <4>1 DEF U
        <3> QED BY <3>1, <3>2
    <2>6. n \in U
        BY <2>1, <2>5 DEF U
    <2> QED BY <2>6 DEF n
<1>4. 0 .. k \subseteq U
    <2> HIDE DEF U
    <2> QED BY <1>0, <1>2, <1>3, UpToN
<1>5. Len(F[k]) > 0
    <2>1. k \in 0 .. k /\ k >= i
        BY <1>0
    <2> QED BY <1>4, <2>1
<1>6. Len(<<>>) = 0
    OBVIOUS
<1> QED BY <1>5, <1>6 DEF F

\* The part of a text up to a character of C.
LEMMA UpToEnds ==
    ASSUME NEW S, NEW s \in Seq(S), NEW a \in Nat \ {0}, a <= Len(s) + 1, NEW C
    PROVE  \E b \in Nat :
              /\ UpTo(s, a, C) = SubSeq(s, a, b) /\ a <= b + 1 /\ b <= Len(s)
              /\ (\A j \in a .. b : s[j] \notin C) /\ (b < Len(s) => s[b + 1] \in C)
<1> DEFINE n == Len(s)
           stops == {j \in a .. n : s[j] \in C}
           b == IF stops = {} THEN n ELSE Min(stops) - 1
<1>0. n \in Nat
    OBVIOUS
<1>1. UpTo(s, a, C) = SubSeq(s, a, b)
    BY DEF UpTo
<1>2. b \in Nat /\ a <= b + 1 /\ b <= n /\ (\A j \in a .. b : s[j] \notin C) /\ (b < n => s[b + 1] \in C)
    <2>1. CASE stops = {}
        BY <1>0, <2>1
    <2>2. CASE stops # {}
        <3>1. stops \subseteq Nat
            OBVIOUS
        <3>2. Min(stops) \in stops /\ \A y \in stops : Min(stops) <= y
            <4> HIDE DEF stops
            <4> QED BY <2>2, <3>1, MinIn
        <3> DEFINE x == Min(stops)
        <3>3. x \in a .. n /\ s[x] \in C /\ \A j \in a .. n : s[j] \in C => x <= j
            BY <3>2
        <3>4. b = x - 1
            BY <2>2
        <3> HIDE DEF x, stops, b
        <3>5. b \in Nat /\ a <= b + 1 /\ b <= n /\ b + 1 = x
            BY <1>0, <3>3, <3>4
        <3>6. \A j \in a .. b : s[j] \notin C
            BY <1>0, <3>3, <3>4
        <3> QED BY <3>3, <3>5, <3>6
    <2> QED BY <2>1, <2>2
<1> HIDE DEF b
<1> QED BY <1>1, <1>2

\* The same, character by character.
LEMMA UpToChars ==
    ASSUME NEW S, NEW s \in Seq(S), NEW a \in Nat \ {0}, a <= Len(s) + 1, NEW C
    PROVE  LET p == UpTo(s, a, C)
           IN /\ p \in Seq(S) /\ Len(p) \in Nat /\ a + Len(p) <= Len(s) + 1
              /\ \A k \in 1 .. Len(p) : p[k] = s[a + k - 1] /\ p[k] \notin C
              /\ a + Len(p) <= Len(s) => s[a + Len(p)] \in C
<1> DEFINE n == Len(s)
<1>0. n \in Nat
    OBVIOUS
<1>1. PICK b \in Nat :
         /\ UpTo(s, a, C) = SubSeq(s, a, b) /\ a <= b + 1 /\ b <= n
         /\ (\A j \in a .. b : s[j] \notin C) /\ (b < n => s[b + 1] \in C)
    BY UpToEnds
<1> DEFINE p == SubSeq(s, a, b)
           m == Len(p)
<1>2. p \in Seq(S) /\ m = b - a + 1 /\ \A k \in 1 .. b - a + 1 : p[k] = s[a + k - 1]
    BY <1>1, PartOf
<1> HIDE DEF p, m
<1>3. m \in Nat /\ a + m <= n + 1 /\ a + m = b + 1 /\ (a + m <= n => b < n)
    BY <1>0, <1>1, <1>2
<1>4. ASSUME NEW k \in 1 .. m PROVE p[k] = s[a + k - 1] /\ p[k] \notin C
    <2>1. k \in 1 .. b - a + 1 /\ a + k - 1 \in a .. b
        BY <1>1, <1>2
    <2> QED BY <1>1, <1>2, <2>1
<1>5. a + m <= n => s[a + m] \in C
    BY <1>1, <1>3
<1> QED BY <1>1, <1>2, <1>3, <1>4, <1>5 DEF p, m

\* Without of UpTo, as one pick.
LEMMA SpanIs ==
    ASSUME NEW S, NEW s \in Seq(S), NEW a \in Nat \ {0}, a <= Len(s) + 1, NEW C, NEW W
    PROVE  Without(UpTo(s, a, C), W) = Pick(s, Span(s, a, C, W))
<1> DEFINE n == Len(s)
<1>0. n \in Nat
    OBVIOUS
<1>1. PICK b \in Nat :
         /\ UpTo(s, a, C) = SubSeq(s, a, b) /\ a <= b + 1 /\ b <= n
         /\ (\A j \in a .. b : s[j] \notin C) /\ (b < n => s[b + 1] \in C)
    BY UpToEnds
<1> DEFINE p == SubSeq(s, a, b)
           T == {i \in DOMAIN p : p[i] \notin W}
           A == Span(s, a, C, W)
<1>2. b \in Nat /\ a <= b + 1 /\ b <= n /\ (\A j \in a .. b : s[j] \notin C) /\ (b < n => s[b + 1] \in C)
    BY <1>1
<1>3. p \in Seq(S) /\ Len(p) = b - a + 1 /\ \A k \in 1 .. b - a + 1 : p[k] = s[a + k - 1]
    BY <1>2, PartOf
<1>4. DOMAIN p = 1 .. b - a + 1
    <2> HIDE DEF p
    <2> QED BY <1>3
<1>5. Shifted(A, T, a, b)
    <2>1. A \subseteq a .. b
        <3> SUFFICES ASSUME NEW k \in A PROVE k \in a .. b
            OBVIOUS
        <3>1. k \in a .. n /\ \A j \in a .. k : s[j] \notin C
            BY DEF Span
        <3>2. ~ (b < k)
            <4> SUFFICES ASSUME b < k PROVE FALSE
                OBVIOUS
            <4>1. b + 1 \in a .. k /\ b < n
                BY <1>0, <1>2, <3>1
            <4> QED BY <1>2, <3>1, <4>1
        <3> QED BY <1>2, <3>1, <3>2
    <2>2. ASSUME NEW k \in a .. b PROVE k \in A <=> k - a + 1 \in T
        <3>1. k \in a .. n /\ k - a + 1 \in 1 .. b - a + 1 /\ a + (k - a + 1) - 1 = k
            BY <1>0, <1>2
        <3>2. \A j \in a .. k : j \in a .. b
            BY <1>2
        <3>3. p[k - a + 1] = s[k]
            <4> HIDE DEF p
            <4> QED BY <1>3, <3>1
        <3> HIDE DEF p
        <3> QED BY <1>2, <1>4, <3>1, <3>2, <3>3 DEF Span
    <2> QED BY <2>1, <2>2 DEF Shifted
<1> HIDE DEF T, A
<1>6. Pick(p, T) = Pick(s, A)
    BY <1>2, <1>5, PickPart
<1> QED BY <1>1, <1>6 DEF Without, T, A, p
=============================================================================
