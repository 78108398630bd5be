----------------------------- MODULE MailParser -----------------------------
(***************************************************************************)
(* request_parse_data: from the bytes of a mail to its headers and body.   *)
(* A round of its loop may move i by more than one character, and the      *)
(* blank line that ends the headers is handled in the middle of a round,   *)
(* with `cur` still the old character.  Positions count from 1 here and    *)
(* from 0 in the code; in_line_folding is never set there.                 *)
(***************************************************************************)
EXTENDS DkimText, GrowingBuffer

CONSTANTS HEADER_MAX_LEN,                 \* entries of the headers array
          KEY_MAX_LEN, VALUE_MAX_LEN      \* sizes of the two buffers of an entry

ASSUME ParserAssumption ==
    /\ HEADER_MAX_LEN \in Nat \ {0}
    /\ KEY_MAX_LEN \in Nat \ {0} /\ VALUE_MAX_LEN \in Nat \ {0}

\* What request_parse_commands has stored when the end of data is found: the
\* dot line is still there and its first CR is a NUL.
Received(text) == text \o <<NUL, LF, ".", CR, LF>>

\* The last position that strncmp, or the chain of && on data[i+k], looks at.
LastRead(s, i, t) ==
    LET same == {n \in 0 .. Len(t) - 1 : At(s, i, SubSeq(t, 1, n))}
    IN i + Max(same)

\* An entry of req->headers before it is written; text is what is written to
\* its key (is_key) or value up to now.
Start == [i |-> 1, done |-> FALSE, is_key |-> TRUE, text |-> <<>>, key |-> Leftover,
          headers |-> <<>>, wild |-> FALSE, read |-> 0]

\* An entry behind the array is a wild pointer.
Wild(st) == Len(st.headers) >= HEADER_MAX_LEN

Colon(st) ==
    [st EXCEPT !.key = st.text, !.is_key = FALSE, !.text = <<>>, !.i = @ + 2,
               !.wild = @ \/ Wild(st)]

\* All three characters of the fold go.
Fold(st) == [st EXCEPT !.i = @ + 3]

\* Mutant: the length of the value is not reset before the next key.
EndOfHeader_appends(st) ==
    [st EXCEPT !.headers = Append(@, [key |-> st.key, value |-> st.text]),
               !.is_key = TRUE, !.i = @ + 2]

\* Without a colon neither the key nor the value of the entry is terminated.
EndOfHeader(st) ==
    [st EXCEPT !.headers = Append(@, [key |-> IF st.is_key THEN Leftover ELSE st.key,
                                      value |-> IF st.is_key THEN Leftover ELSE st.text]),
               !.is_key = TRUE, !.text = <<>>, !.key = Leftover, !.i = @ + 2]

\* Spaces of a key and what does not fit are dropped; a NUL is skipped.
Character(st, cur) ==
    LET max == IF st.is_key THEN KEY_MAX_LEN ELSE VALUE_MAX_LEN
        drop == cur = NUL \/ (st.is_key /\ cur = SP) \/ Len(st.text) >= max - 1
    IN [st EXCEPT !.text = IF drop THEN @ ELSE Append(@, cur), !.i = @ + 1,
                  !.wild = @ \/ (~ drop /\ Wild(st))]

\* Mutant: the blank line is skipped as a whole before the header is ended.
BlankLine_whole(st, data) ==
    IF At(data, st.i, CRLF \o CRLF) THEN [st EXCEPT !.i = @ + 4, !.done = TRUE] ELSE st

\* i moves to the second CRLF; the code compares data[i+3] up to data_len.
BlankLine(st, data) ==
    IF At(data, st.i, CRLF \o CRLF) THEN [st EXCEPT !.i = @ + 2, !.done = TRUE] ELSE st

\* The looks ahead of a round: at a blank line, and from there at a fold.
LookAhead(st, mem, data_len) ==
    LET seen == IF data_len - st.i > 1 THEN LastRead(mem, st.i, CRLF \o CRLF) ELSE st.i
        then == BlankLine(st, mem)
    IN [then EXCEPT !.read = Max({@, seen, LastRead(mem, then.i, CRLF \o <<SP>>)})]

FoldsAt(mem, i) == \E w \in WSP : At(mem, i, Append(CRLF, w))

\* One round.  mem is the data and the bytes behind it.
Round(st, mem, data_len) ==
    LET cur == mem[st.i]
        next == LookAhead(st, mem, data_len)
    IN IF cur = ":" /\ st.is_key THEN Colon(next)
       ELSE IF FoldsAt(mem, next.i) THEN Fold(next)
       ELSE IF cur = CR THEN EndOfHeader(next)
       ELSE Character(next, cur)

\* The state after n rounds.  beyond: the byte behind the data, which nobody has
\* written.
Rounds(data, beyond) ==
    LET mem == Append(data, beyond)
        after[n \in 0 .. Len(data)] ==
          IF n = 0 THEN Start
          ELSE LET st == after[n - 1]
               IN IF st.done \/ st.i > Len(data) THEN st ELSE Round(st, mem, Len(data))
    IN after

request_parse_data(data, beyond) ==
    LET end == Rounds(data, beyond)[Len(data)]
    IN [headers |-> end.headers, wild |-> end.wild, read |-> end.read,
        body |-> IF end.done /\ end.i <= Len(data)
                 THEN CString(SubSeq(data, end.i, Len(data))) ELSE Leftover]

-----------------------------------------------------------------------------
(* Reference: fields and body of a mail, by the position of its line breaks *)

HasBody(text) == \E i \in DOMAIN text : At(text, i, CRLF \o CRLF)

HeaderEnd(text) ==
    Min({i \in DOMAIN text : At(text, i, CRLF \o CRLF)})

RefBodyText(text) == SubSeq(text, HeaderEnd(text) + 4, Len(text))

\* The CRLFs in the header part that fold a field, and those that end one.
Folds(text) == {i \in 1 .. HeaderEnd(text) - 1 :
                   At(text, i, CRLF) /\ text[i + 2] \in WSP}
FieldEnds(text) == {i \in 1 .. HeaderEnd(text) : At(text, i, CRLF)} \ Folds(text)

FieldStarts(text) == {i \in 1 .. HeaderEnd(text) : i = 1 \/ i - 2 \in FieldEnds(text)}

\* Which field, counted from the first, the one that begins at start is.
FieldNumber(text, start) == Cardinality({i \in FieldStarts(text) : i <= start})

\* The field that begins at start, without the CRLF that ends it.
FieldText(text, start) ==
    LET ends == {i \in FieldEnds(text) : i >= start}
    IN SubSeq(text, start, Min(ends) - 1)

RefKey(text, start) == UpTo(FieldText(text, start), 1, {":"})
RawValue(text, start) ==
    LET field == FieldText(text, start)
    IN SubSeq(field, Len(RefKey(text, start)) + 2, Len(field))

\* A field as mail programs write it: a name, a colon and a space.
UsualField(field) ==
    LET name == UpTo(field, 1, {":"})
    IN /\ Len(name) \in 1 .. KEY_MAX_LEN - 1
       /\ \A i \in DOMAIN name : name[i] \notin Blank
       /\ At(field, Len(name) + 1, <<":", SP>>)
       /\ Len(field) - Len(name) - 2 < VALUE_MAX_LEN

\* A fold with more white space than the one character behind the CRLF.
WideFold(text, i) ==
    \/ i > 1 /\ text[i - 1] \in WSP
    \/ text[i + 3] \in WSP

UsualMail(text) ==
    /\ HasBody(text)
    /\ NoBareCR(text) /\ \A i \in DOMAIN text : text[i] # NUL
    /\ \A i \in 1 .. HeaderEnd(text) : text[i] = LF => i > 1 /\ text[i - 1] = CR
    /\ Cardinality(FieldStarts(text)) <= HEADER_MAX_LEN
    /\ \A start \in FieldStarts(text) : UsualField(FieldText(text, start))
    /\ \A i \in Folds(text) : WideFold(text, i)
    /\ ~ (RefBodyText(text) # <<>> /\ RefBodyText(text)[1] \in WSP)
=============================================================================
