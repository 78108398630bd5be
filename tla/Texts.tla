------------------------------- MODULE Texts -------------------------------
(***************************************************************************)
(* The text algorithms on all short inputs.  A state is one input of one   *)
(* algorithm (job); a step makes the input longer, so that every text over *)
(* the job's alphabet is visited up to the bound.                          *)
(***************************************************************************)
EXTENDS MailParser, ConfigFile

CONSTANTS Jobs,
          Chars,      \* the characters of texts
          Alphabet,   \* Alphabet[job]: what a step may append
          MaxSteps,   \* MaxSteps[job]: bound on the steps
          KeyLists    \* the keys of the headers that a signature may cover

\* The jobs whose input is a text.
TextJobs == {"value", "body", "tags", "select", "sign", "mail", "config"}

ASSUME TextsAssumption ==
    /\ Blank \cup {NUL, ".", "a", "x"} \subseteq Chars
    /\ \A j \in TextJobs : Alphabet[j] \subseteq Seq(Chars)
    /\ Alphabet["append"] \subseteq Seq(Nat)
    /\ KeyLists \subseteq Seq(Seq(Chars))

VARIABLES job, input, steps

textVars == <<job, input, steps>>

TextInit == job \in Jobs /\ input = <<>> /\ steps = 0

TextNext ==
    /\ steps < MaxSteps[job]
    /\ steps' = steps + 1
    /\ \E t \in Alphabet[job] : input' = input \o t
    /\ UNCHANGED job

TextSpec == TextInit /\ [][TextNext]_textVars

-----------------------------------------------------------------------------
(* Canonicalisation and tags *)

\* relaxed_header_canon gives every folded value the one form that RFC 4871
\* asks for, however blanks, tabs and folds are mixed, and leaves that form
\* alone: signer and verifier meet in it.
HeaderCanonAgrees ==
    job = "value" /\ Folded(input) =>
        /\ CanonValue(input) = RefValue(input)
        /\ CanonValue(CanonValue(input)) = CanonValue(input)

\* relaxed_body_canon does the same for a body, with bare LFs as line ends and
\* an empty body as one CRLF, and stays inside the body_len*2+3 bytes that it
\* allocates.
BodyCanonAgrees ==
    job = "body" /\ NoBareCR(input) =>
        /\ relaxed_body_canon(input) = RefBody(input)
        /\ Len(BodyLines(input)[Len(input)].out) + 2 < 2 * Len(input) + 3
        /\ Len(relaxed_body_canon(input)) < 2 * Len(input) + 3

\* dkim_parse_header finds each tag's value, without white space, in any order
\* of the tags and next to unknown ones, and never takes bh= for b= or h=.
TagsAgree ==
    job = "tags" /\ CleanTagList(SignatureTags, input) =>
        \A t \in SignatureTags :
            LET value == RefTag(SignatureTags, input, t)
            IN TagPlaces(SignatureTags, input, t) = {} \/ Len(value) < DKIM_VALUE_MAX_LEN =>
                  dkim_parse_header(input)[t] = value

-----------------------------------------------------------------------------
(* The text that is signed *)

\* Headers with these keys, no two of them the same.
HeadersOf(keys) ==
    [i \in DOMAIN keys |-> [key |-> keys[i], value |-> [j \in 1 .. i |-> "x"]]]

\* The names are in lower case, as dkim_create and many signers write them: only the keys
\* of the mail are folded.
LowerCase(h) == str_to_lower(h) = h

\* No key continues a listed name, no two have the same and no name is listed twice:
\* the first n characters are compared, and every header that agrees is taken.
NoRivals(h, headers) ==
    \A i \in DOMAIN h : LastOfName(h, i) =>
        /\ \A e \in DOMAIN headers :
              At(str_to_lower(headers[e].key), 1, str_to_lower(RefName(h, i))) =>
                  Named(RefName(h, i), headers) = {e}
        /\ \A j \in DOMAIN h : LastOfName(h, j) /\ RefName(h, j) = RefName(h, i) => j = i

\* The headers that the h= list of a signature names enter the hash: whatever the
\* case of their keys, wherever they stand in the mail and however many others there
\* are, none is left out; and if nothing rivals with a name, it is those headers and
\* no more, in the order of the list.
SelectionAgrees ==
    job = "select" => \A keys \in KeyLists : NameList(input) /\ LowerCase(input) =>
        LET headers == HeadersOf(keys)
            chosen == SelectHeaders(input, headers)
        IN /\ \A i \in DOMAIN input : LastOfName(input, i) =>
                 \A e \in Named(RefName(input, i), headers) :
                    \E k \in DOMAIN chosen : chosen[k] = headers[e]
           /\ NoRivals(input, headers) =>
                 chosen = FlattenSeq([i \in DOMAIN input |->
                     IF LastOfName(input, i)
                     THEN Pick(headers, Named(RefName(input, i), headers)) ELSE <<>>])

\* The b= tag is the last element of the list and '=' only ends its value, as
\* padding that no white space splits; the value fits its buffer.  The parser of
\* the mail has left no line break in the header.
SignatureLast(s) ==
    /\ CleanTagList(SignatureTags, s)
    /\ \A i \in DOMAIN s : s[i] \notin {CR, LF}
    /\ \E i \in TagHeads(SignatureTags, s) :
          /\ At(s, i, <<"b", "=">>)
          /\ \A j \in i + 2 .. Len(s) : s[j] # TagEnd
          /\ \A j \in i + 2 .. Len(s) : s[j] = "=" =>
                \A k \in j .. Len(s) : s[k] = "=" \/ \A n \in k .. Len(s) : s[n] \in WSP
    /\ Len(RefTag(SignatureTags, s, <<"b">>)) \in 1 .. DKIM_VALUE_MAX_LEN - 1

\* Before hashing, the signature's own value and nothing else is cut from its
\* header, although the search for "b=" starts from a length that has lost the
\* white space inside the value.
SignatureRemoved ==
    job = "tags" /\ SignatureLast(input) =>
        LET text == <<"dkim-signature", ":">> \o CanonValue(input)
            b == dkim_parse_header(input)[<<"b">>]
            cut == RemoveSignature(text, b)
        IN /\ At(text, 1, cut)
           /\ At(cut, Len(cut) - 1, <<"b", "=">>)
           /\ Without(SubSeq(text, Len(cut) + 1, Len(text)), WSP) = b

\* A header as it is sent.
Sent(header) == header.key \o <<":", SP>> \o header.value \o CRLF

\* What a signer of RFC 4871 writes before its signature, with the algorithm and the
\* canonicalisation that are supported here; it lists the headers from below.
SignatureTagList(keys, body) ==
    <<"v", "=", "1", TagEnd, SP, "a", "=", "rsa-sha256", TagEnd, SP,
      "c", "=", "relaxed/relaxed", TagEnd, SP, "h", "=">>
    \o FlattenSeq([i \in DOMAIN keys |->
          str_to_lower(Reverse(keys)[i]) \o (IF i < Len(keys) THEN <<Separator>> ELSE <<>>)])
    \o <<TagEnd, SP, "b", "h", "=">> \o Digest(RefBody(body)) \o <<TagEnd, SP, "b", "=">>

\* And the text that it signs.
SignedText(headers, tags) ==
    FlattenSeq([i \in DOMAIN headers |->
        LET header == Reverse(headers)[i]
        IN str_to_lower(header.key) \o <<Separator>> \o RefValue(header.value) \o CRLF])
    \o <<"dkim-signature", Separator>> \o RefValue(tags)

\* The signature, in base64 and folded anywhere but inside its padding.
SignatureValue(s) ==
    /\ Folded(s)
    /\ \A i \in DOMAIN s : s[i] = "=" => \A j \in i .. Len(s) : s[j] = "="
    /\ Len(Without(s, Blank)) < DKIM_VALUE_MAX_LEN

\* A mail that was signed as RFC 4871 asks for is, once request_parse_data has taken
\* it apart, not refused, and dkim_validate hashes the very text that was signed:
\* parsing, selection, canonicalisation and the cut of the signature fit together for
\* as many headers as the parser keeps.
SignedTextHashed ==
    job = "sign" /\ SignatureValue(input) => \A keys \in KeyLists :
        LET headers == HeadersOf(keys)
            body == <<"x">>
            tags == SignatureTagList(keys, body)
            all == <<[key |-> <<"DKIM-Signature">>, value |-> tags \o input]>> \o headers
            mail == FlattenSeq([i \in DOMAIN all |-> Sent(all[i])]) \o CRLF \o body
            got == request_parse_data(Received(mail), SP)
        IN /\ Len(all) <= HEADER_MAX_LEN
           /\ \A i, j \in DOMAIN keys :
                 At(str_to_lower(keys[i]), 1, str_to_lower(keys[j])) => i = j
           => dkim_validate(got.headers, got.body) = SignedText(headers, tags)

-----------------------------------------------------------------------------
(* From the socket to the mail *)

\* Whatever arrives, and whatever lies behind it in memory, the parser's look
\* ahead stays inside data_alloc.
ReadsInBounds ==
    job = "mail" => \A beyond \in {SP, LF, "a"} :
        LET data == Received(input)
        IN request_parse_data(data, beyond).read <= data_alloc(Len(data))

\* The fields of a usual mail arrive with their names, and with values that
\* have the canonical form of what was sent: the parser's own way of unfolding
\* does not break a signature.
FieldsSurvive ==
    job = "mail" /\ UsualMail(input) =>
        LET got == request_parse_data(Received(input), SP)
        IN /\ ~ got.wild
           /\ Len(got.headers) = Cardinality(FieldStarts(input))
           /\ \A start \in FieldStarts(input) :
                 LET header == got.headers[FieldNumber(input, start)]
                 IN /\ header.key = RefKey(input, start)
                    /\ CanonValue(header.value) = RefValue(RawValue(input, start))

\* The body of a usual mail arrives as it was sent.
BodySurvives ==
    job = "mail" /\ UsualMail(input) =>
        request_parse_data(Received(input), SP).body = RefBodyText(input)

\* No append writes behind its buffer: for a reply of any length, for JSON as
\* long as no single value is longer than a chunk.
AppendsFit ==
    job = "append" =>
        /\ Appended(response_append, input)[Len(input)].fits
        /\ (\A i \in DOMAIN input : input[i] <= Chunk) =>
              Appended(string_buffer_append, input)[Len(input)].fits

-----------------------------------------------------------------------------
(* Configuration *)

\* The settings are those of the last line for each key, comments, blanks and
\* the lines for other keys aside.
ConfigAgrees ==
    job = "config" /\ PlainValues(input) =>
        \A key \in Settings :
            config_load(input, config_load_default)[key] =
                RefConfig(input, config_load_default, key)
=============================================================================
