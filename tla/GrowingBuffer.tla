--------------------------- MODULE GrowingBuffer ---------------------------
(***************************************************************************)
(* The buffers that grow as text is appended: a mail's content (data), a   *)
(* reply (response_append) and the JSON document (string_buffer_append).   *)
(* Only lengths matter.  A buffer is [alloc, size, fits]: the bytes        *)
(* allocated, the bytes in use and whether every write so far stayed       *)
(* inside the allocation.                                                  *)
(***************************************************************************)
EXTENDS Integers, Sequences

CONSTANT Chunk  \* 512: STRING_BUFFER_CHUNK_SIZE and the constant in the others

ASSUME ChunkAssumption == Chunk \in Nat \ {0, 1, 2}

Empty == [alloc |-> 0, size |-> 0, fits |-> TRUE]

\* The buffer after n bytes, and `room` bytes behind them, were written.
Write(b, n, room) ==
    [alloc |-> b.alloc, size |-> b.size + n,
     fits |-> b.fits /\ b.size + n + room <= b.alloc]

\* Mutant: without the two bytes of reserve.
StoreData_tight(b) ==
    Write(IF b.size >= b.alloc THEN [b EXCEPT !.alloc = b.size + Chunk] ELSE b, 1, 0)

\* One character of a mail; request_parse_data reads behind the last one.
StoreData(b) ==
    Write(IF b.size + 2 >= b.alloc THEN [b EXCEPT !.alloc = b.size + Chunk] ELSE b, 1, 0)

\* The buffer after n of data_len characters.
Stored(data_len) ==
    LET stored[n \in 0 .. data_len] == IF n = 0 THEN Empty ELSE StoreData(stored[n - 1])
    IN stored

\* data_alloc once data_len characters are stored.
data_alloc(data_len) == Stored(data_len)[data_len].alloc

\* Mutant: the terminating byte is forgotten in the allocation.
response_append_exact(b, n) ==
    Write(IF b.size + n + 1 >= b.alloc THEN [b EXCEPT !.alloc = b.size + n] ELSE b, n, 1)

\* A reply, with its terminating byte.
response_append(b, n) ==
    Write(IF b.size + n + 1 >= b.alloc THEN [b EXCEPT !.alloc = b.size + n + Chunk] ELSE b,
          n, 1)

\* One chunk more, whatever the length of the value; alloc_size leaves out the
\* byte for the terminator that is allocated with it.
string_buffer_append(b, n) ==
    IF n = 0 THEN b
    ELSE LET grown == IF n >= b.alloc - b.size THEN [b EXCEPT !.alloc = @ + Chunk] ELSE b
         IN Write(grown, n, 0)

\* The buffer after each of the values of these lengths.
Appended(append(_, _), lengths) ==
    LET appended[i \in 0 .. Len(lengths)] ==
          IF i = 0 THEN Empty ELSE append(appended[i - 1], lengths[i])
    IN appended
=============================================================================
