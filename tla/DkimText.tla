------------------------------ MODULE DkimText ------------------------------
(***************************************************************************)
(* The text algorithms of firm-dkim: relaxed canonicalisation of headers   *)
(* and body, the tag lists of signatures and DNS records, which headers a  *)
(* signature covers, and the text that is verified.  A header is           *)
(* [key, value]; RSA is left out, so that a signature is good when the     *)
(* verifier arrives at the text that was signed.                           *)
(***************************************************************************)
EXTENDS CharText

CONSTANTS DKIM_VALUE_MAX_LEN,  \* size of the buffer of a signature's tag
          DKIM_RECORD_MAX_LEN, \* size of the buffer of a DNS record's tag
          Leftover,            \* what malloc left in a tag that is missing
          IncludedMax          \* entries of inc_headers (50)

ASSUME DkimAssumption ==
    {DKIM_VALUE_MAX_LEN, DKIM_RECORD_MAX_LEN, IncludedMax} \subseteq Nat \ {0}

-----------------------------------------------------------------------------
(* Trimming and the two canonicalisations *)

rtrim(s) == Pick(s, {i \in DOMAIN s : \E j \in i .. Len(s) : s[j] \notin WSP})

ltrim(s) == Pick(s, {i \in DOMAIN s : \E j \in 1 .. i : s[j] \notin WSP})

rtrim_lines(s) == Pick(s, {i \in DOMAIN s : \E j \in i .. Len(s) : s[j] \notin {CR, LF}})

tolower(c) == CASE c = "F" -> "f" [] c = "DKIM-Signature" -> "dkim-signature" [] OTHER -> c

str_to_lower(s) == [i \in DOMAIN s |-> tolower(s[i])]

\* Every CRLF goes, whatever follows it.
Unfold(s) ==
    Pick(s, {i \in DOMAIN s : ~ At(s, i, CRLF) /\ ~ (i > 1 /\ At(s, i - 1, CRLF))})

\* Tabs become spaces, and of a run of them the first stays.
Collapse(s) ==
    LET spaced == [i \in DOMAIN s |-> IF s[i] = TAB THEN SP ELSE s[i]]
    IN Pick(spaced, {i \in DOMAIN s : ~ (i > 1 /\ spaced[i] = SP /\ spaced[i - 1] = SP)})

\* Mutant: the trailing white space stays.
CanonValue_untrimmed(s) == ltrim(Collapse(Unfold(s)))

CanonValue(s) == ltrim(rtrim(Collapse(Unfold(s))))

\* Mutant: the keys keep their case.
relaxed_header_canon_keeps_case(headers) ==
    [i \in DOMAIN headers |->
        [key |-> headers[i].key, value |-> CanonValue(headers[i].value)]]

relaxed_header_canon(headers) ==
    [i \in DOMAIN headers |->
        [key |-> str_to_lower(headers[i].key), value |-> CanonValue(headers[i].value)]]

relaxed_body_canon_line(s) == Collapse(rtrim(s))

\* The line of the body that begins at offset and ends with the LF at i.
LineOf(body, offset, i) ==
    SubSeq(body, offset, IF i > 1 /\ body[i - 1] = CR THEN i - 2 ELSE i - 1)

\* BodyLines(body)[i], out: the lines up to position i; offset: where the
\* current one begins.
BodyLines(body) ==
    LET lines[i \in 0 .. Len(body)] ==
          IF i = 0 THEN [out |-> <<>>, offset |-> 1]
          ELSE LET st == lines[i - 1]
                   line == LineOf(body, st.offset, i)
               IN IF body[i] # LF THEN st
                  ELSE [out |-> st.out \o relaxed_body_canon_line(line) \o CRLF,
                        offset |-> i + 1]
    IN lines

\* Mutant: the last line counts only when it is terminated.
relaxed_body_canon_terminated(body) == rtrim_lines(BodyLines(body)[Len(body)].out) \o CRLF

relaxed_body_canon(body) ==
    LET all == BodyLines(body)[Len(body)]
        rest == SubSeq(body, all.offset, Len(body))
        last == IF all.offset > Len(body) THEN <<>>
                ELSE relaxed_body_canon_line(rest) \o CRLF
    IN rtrim_lines(all.out \o last) \o CRLF

-----------------------------------------------------------------------------
(* Tag lists.  A tag's name is a sequence of characters. *)

SignatureTags == {<<"v">>, <<"a">>, <<"c">>, <<"d">>, <<"s">>, <<"b", "h">>, <<"b">>, <<"h">>}
RecordTags == {<<"k">>, <<"p">>}

\* What ends an element of a tag list.
TagEnd == ";"

BufferSize(t) == IF t \in RecordTags THEN DKIM_RECORD_MAX_LEN ELSE DKIM_VALUE_MAX_LEN

TagsAt(tags, s, i) == {t \in tags : At(s, i, Append(t, "="))}

\* The tag at which the scan st has arrived.
BeginTag(st, t) == [skip |-> Len(t), tag |-> t, out |-> [st.out EXCEPT ![t] = <<>>]]

\* A character of the value of st.tag.
TagCharacter(st, c) ==
    IF c = TagEnd THEN [st EXCEPT !.tag = <<>>]
    ELSE IF c \in WSP \/ Len(st.out[st.tag]) >= BufferSize(st.tag) - 1 THEN st
    ELSE [st EXCEPT !.out[st.tag] = Append(@, c)]

TagStep(tags, s, st, i) ==
    IF st.skip > 0 THEN [st EXCEPT !.skip = @ - 1]
    ELSE IF st.tag # <<>> THEN TagCharacter(st, s[i])
    ELSE IF TagsAt(tags, s, i) = {} THEN st
    ELSE BeginTag(st, CHOOSE t \in TagsAt(tags, s, i) : TRUE)

\* The scan over s, after each character: skip is what is left of a tag's name,
\* tag the one whose value is being read.
ScanTags(tags, s) ==
    LET scan[i \in 0 .. Len(s)] ==
          IF i = 0 THEN [skip |-> 0, tag |-> <<>>, out |-> [t \in tags |-> Leftover]]
          ELSE TagStep(tags, s, scan[i - 1], i)
    IN scan

\* Mutant: without the branch for "bh=".
dkim_parse_header_without_bh(sig) ==
    <<"b", "h">> :> Leftover @@ ScanTags(SignatureTags \ {<<"b", "h">>}, sig)[Len(sig)].out

dkim_parse_header(sig) == ScanTags(SignatureTags, sig)[Len(sig)].out

dkim_parse_dns(txt) == ScanTags(RecordTags, txt)[Len(txt)].out

-----------------------------------------------------------------------------
(* Which headers a signature covers, and the text that is verified *)

\* The first header of that name; its value is what is parsed.
dkim_get_header(headers) ==
    LET found == {i \in DOMAIN headers : headers[i].key = <<"DKIM-Signature">>}
    IN Min(found)

Separator == ":"

\* Where a name of the h= list ends: at a colon or at the last character, which
\* belongs to the name even if it is a colon.
NameEnds(h) == {i \in DOMAIN h : h[i] = Separator \/ i = Len(h)}

NameAt(h, i) ==
    LET before == {0} \cup {j \in NameEnds(h) : j < i}
        offset == Max(before) + 1
    IN SubSeq(h, offset, IF i = Len(h) THEN i ELSE i - 1)

\* Mutant: the key is compared as it is written in the mail.
SelectHeaders_exact_case(h, headers) ==
    FlattenSeq([i \in DOMAIN h |->
        IF i \notin NameEnds(h) THEN <<>>
        ELSE Pick(headers, {k \in DOMAIN headers : At(headers[k].key, 1, NameAt(h, i))})])

\* For each name, every header whose key in lower case begins with it.
SelectHeaders(h, headers) ==
    FlattenSeq([i \in DOMAIN h |->
        IF i \notin NameEnds(h) THEN <<>>
        ELSE Pick(headers, {k \in DOMAIN headers :
                               At(str_to_lower(headers[k].key), 1, NameAt(h, i))})])

header_str(headers) ==
    FlattenSeq([i \in DOMAIN headers |->
        headers[i].key \o <<":">> \o headers[i].value
            \o (IF i < Len(headers) THEN CRLF ELSE <<>>)])

\* Mutant: the search begins at the end of the text.
RemoveSignature_from_end(str, b) ==
    LET found == {i \in 3 .. Len(str) : At(str, i - 1, <<"b", "=">>)}
    IN IF found = {} THEN str
       ELSE SubSeq(str, 1, Max(found))

\* Cut behind the last "b=" that is at least strlen(b) before the end.
RemoveSignature(str, b) ==
    LET found == {i \in 3 .. Len(str) - Len(b) + 1 : At(str, i - 1, <<"b", "=">>)}
    IN IF found = {} THEN str
       ELSE SubSeq(str, 1, Max(found))

DkimHeader(value) == [key |-> <<"dkim-signature">>, value |-> value]

\* Only these two are supported; a tag that is missing is not noticed, as the fields
\* are arrays and never NULL.
dkim_check_compability(dh) ==
    /\ At(dh[<<"a">>], 1, <<"rsa-sha256">>)
    /\ At(dh[<<"c">>], 1, <<"relaxed/relaxed">>)

\* The base64 form of a SHA256 hash: a text without blanks (external).
Digest(s) == Without(s, Blank)

dkim_validate_body_hash(dh, body) ==
    At(dh[<<"b", "h">>], 1, Digest(relaxed_body_canon(body)))

\* It does not come to the comparison; or inc_headers is written behind its end, and
\* nothing can be said any more.
Refused == <<>>
Overrun == <<NUL>>

\* The text whose hash is compared with the signature.
dkim_validate(headers, body) ==
    LET sig == headers[dkim_get_header(headers)].value
        dh == dkim_parse_header(sig)
        chosen == SelectHeaders(dh[<<"h">>], headers)
        covered == Append(chosen, DkimHeader(sig))
    IN IF Len(chosen) > IncludedMax THEN Overrun
       ELSE IF ~ (dkim_check_compability(dh) /\ dkim_validate_body_hash(dh, body)) THEN Refused
       ELSE IF Len(covered) > IncludedMax THEN Overrun
       ELSE RemoveSignature(header_str(relaxed_header_canon(covered)), dh[<<"b">>])

-----------------------------------------------------------------------------
(* Reference definitions, from the comments in the code and from RFC 4871 *)

\* Every run of blanks between two words is one space, and no other blank stays.
RefValue(s) ==
    LET word(i) == s[i] \notin Blank
        spaced == [i \in DOMAIN s |-> IF word(i) THEN s[i] ELSE SP]
    IN Pick(spaced, {i \in DOMAIN s :
            \/ word(i)
            \/ i > 1 /\ word(i - 1) /\ \E j \in i .. Len(s) : word(j)})

\* A CRLF in a header value is a fold.
Folded(s) == \A i \in DOMAIN s :
    s[i] \in {CR, LF} =>
        \E j \in {i, i - 1} \ {0} : At(s, j, CRLF) /\ j + 2 <= Len(s) /\ s[j + 2] \in WSP

\* A line break stays if a word follows on a later line, a blank if it is the
\* first of its run and a word follows on the same line.
RefBody(s) ==
    LET later(i, C) == \E j \in i + 1 .. Len(s) :
                          s[j] \notin Blank /\ \A k \in i + 1 .. j - 1 : s[k] \notin C
        kept(i) == CASE s[i] \notin Blank -> <<s[i]>>
                     [] s[i] = LF -> IF later(i, {}) THEN CRLF ELSE <<>>
                     [] s[i] = CR -> <<>>
                     [] OTHER -> IF later(i, {LF}) /\ ~ (i > 1 /\ s[i - 1] \in WSP)
                                 THEN <<SP>> ELSE <<>>
    IN FlattenSeq([i \in DOMAIN s |-> kept(i)]) \o CRLF

NoBareCR(s) == \A i \in DOMAIN s : s[i] = CR => At(s, i, CRLF)

\* Position i is the first of its element of the tag list, but for blanks.
Leads(s, i) ==
    /\ s[i] \notin WSP
    /\ \A j \in 1 .. i - 1 : s[j] = TagEnd \/ s[j] \in WSP \/ \E k \in j .. i - 1 : s[k] = TagEnd

\* Elements with a tag of ours at their head; the others contain none.
TagHeads(tags, s) == {i \in DOMAIN s : Leads(s, i) /\ TagsAt(tags, s, i) # {}}

CleanTagList(tags, s) ==
    \A i \in DOMAIN s : TagsAt(tags, s, i) # {} =>
        \E j \in TagHeads(tags, s) : j <= i /\ TagEnd \notin {s[k] : k \in j .. i}

\* The elements whose tag is t.
TagPlaces(tags, s, t) == {i \in TagHeads(tags, s) : At(s, i, Append(t, "="))}

RefTag(tags, s, t) ==
    LET heads == TagPlaces(tags, s, t)
        last == Max(heads)
    IN IF heads = {} THEN Leftover
       ELSE Without(UpTo(s, last + Len(t) + 1, {TagEnd}), WSP)

\* Where a name of an h= list ends, which is a list of names between colons.
LastOfName(h, i) == h[i] # Separator /\ (i < Len(h) => h[i + 1] = Separator)

RefName(h, i) ==
    LET colons == {0} \cup {j \in 1 .. i : h[j] = Separator}
    IN SubSeq(h, Max(colons) + 1, i)

\* No name is empty.
NameList(h) ==
    \A i \in DOMAIN h : h[i] = Separator =>
        i > 1 /\ i < Len(h) /\ h[i - 1] # Separator

\* The headers of that name, whatever the case of either.
Named(name, headers) ==
    {e \in DOMAIN headers : str_to_lower(headers[e].key) = str_to_lower(name)}
=============================================================================
