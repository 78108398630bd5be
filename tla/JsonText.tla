------------------------------ MODULE JsonText ------------------------------
(***************************************************************************)
(* The conversion of a report from XML to JSON.  The XML is libxml's tree: *)
(* a list of nodes, each an element or a text; the JSON is a sequence of   *)
(* tokens, a string being the sequence of its characters.                  *)
(***************************************************************************)
EXTENDS CharText

Element(name, children) ==
    [elem |-> TRUE, name |-> name, children |-> children, text |-> <<>>]
TextNode(text) == [elem |-> FALSE, name |-> <<>>, children |-> <<>>, text |-> text]

Backslash == "\\"
Quote == "quote"

\* A quote is not among them.
EscapeChar(c) ==
    CASE c = TAB -> <<Backslash, "t">>
      [] c = LF -> <<Backslash, "n">>
      [] c = Backslash -> <<Backslash, Backslash>>
      [] c = CR -> <<Backslash, "r">>
      [] OTHER -> <<c>>

json_escape(s) == FlattenSeq([i \in DOMAIN s |-> EscapeChar(s[i])])

\* The text in a node and below it (libxml).
RECURSIVE xmlNodeGetContent(_)
xmlNodeGetContent(node) ==
    node.text \o FlattenSeq([i \in DOMAIN node.children |->
                                xmlNodeGetContent(node.children[i])])

\* A token is its kind and, for a string, its characters.
Str(s) == <<"str", s>>
Tok(kind) == <<kind, <<>>>>

\* Whether an element comes before position i.
NotFirst(nodes, i, IsMember(_)) == \E j \in 1 .. i - 1 : IsMember(nodes[j])

\* The tokens of the members among the nodes, with a comma before each but the
\* first (`first` in the code).
Members(nodes, IsMember(_), Tokens(_)) ==
    FlattenSeq([i \in DOMAIN nodes |->
        IF ~ IsMember(nodes[i]) THEN <<>>
        ELSE (IF NotFirst(nodes, i, IsMember) THEN <<Tok(",")>> ELSE <<>>)
                \o Tokens(nodes[i])])

IsElement(node) == node.elem

\* An element with one child becomes that child's text, with none the empty
\* string, with more an object.
RECURSIVE to_json(_)
to_json(nodes) ==
    LET member(node) ==
          <<Str(node.name), Tok(":")>> \o
          (IF node.children = <<>> THEN <<Str(<<>>)>>
           ELSE IF Len(node.children) = 1
           THEN <<Str(json_escape(xmlNodeGetContent(node.children[1])))>>
           ELSE to_json(node.children))
    IN <<Tok("{")>> \o Members(nodes, IsElement, member) \o <<Tok("}")>>

IsRecord(node) == node.elem /\ node.name = <<"record">>

records_to_json(nodes) ==
    <<Str(<<"records">>), Tok(":"), Tok("[")>>
        \o Members(nodes, IsRecord, LAMBDA node : to_json(node.children)) \o <<Tok("]")>>

\* The members of the document's root: a comma goes before the policy, not
\* before the metadata, if anything was written before.
TopLevel(nodes) ==
    LET part(key, node) == <<Str(<<key>>), Tok(":")>> \o to_json(node.children)
        step(out, node) ==
          IF ~ node.elem THEN out
          ELSE IF node.name = <<"report_metadata">> THEN out \o part("metadata", node)
          ELSE IF node.name = <<"policy_published">>
          THEN out \o (IF out = <<>> THEN <<>> ELSE <<Tok(",")>>) \o part("policy", node)
          ELSE out
    IN FoldLeft(step, <<>>, nodes)

\* Mutant: no comma before the records.
parse_xml_joined(nodes) == TopLevel(nodes) \o records_to_json(nodes)

parse_xml(nodes) ==
    LET top == TopLevel(nodes)
    IN top \o (IF top = <<>> THEN <<>> ELSE <<Tok(",")>>) \o records_to_json(nodes)

-----------------------------------------------------------------------------
(* Reference: a recogniser of JSON, and the inverse of escaping *)

\* want: "value", "key", "colon", "next" (comma or end), "first" (just behind an
\* opening bracket) or "bad".  A string that holds a quote ends too early.
JsonStep(st, t) ==
    LET kind == t[1]
        top == IF st.open = <<>> THEN "" ELSE st.open[Len(st.open)]
        valueHere == st.want = "value" \/ (st.want = "first" /\ top = "[")
        keyHere == st.want = "key" \/ (st.want = "first" /\ top = "{")
        closes == st.want \in {"first", "next"}
        good == kind = "str" /\ \A i \in DOMAIN t[2] : t[2][i] # Quote
        to(w) == [st EXCEPT !.want = w]
        pop == [open |-> SubSeq(st.open, 1, Len(st.open) - 1), want |-> "next"]
    IN CASE kind \in {"{", "["} /\ valueHere ->
                [open |-> Append(st.open, kind), want |-> "first"]
         [] kind = "}" /\ top = "{" /\ closes -> pop
         [] kind = "]" /\ top = "[" /\ closes -> pop
         [] kind = ":" /\ st.want = "colon" -> to("value")
         [] kind = "," /\ st.want = "next" /\ top = "{" -> to("key")
         [] kind = "," /\ st.want = "next" /\ top = "[" -> to("value")
         [] good /\ keyHere -> to("colon")
         [] good /\ valueHere -> to("next")
         [] OTHER -> to("bad")

\* Members of an object, without the braces around them.
IsMembers(tokens) ==
    LET end == FoldLeft(JsonStep, [open |-> <<"{">>, want |-> "first"], tokens)
    IN end.open = <<"{">> /\ end.want \in {"first", "next"}

Unescape(s) ==
    LET plain(c) == CASE c = "t" -> TAB [] c = "n" -> LF [] c = "r" -> CR [] OTHER -> c
        step(st, c) ==
          IF st.escaped THEN [out |-> Append(st.out, plain(c)), escaped |-> FALSE]
          ELSE IF c = Backslash THEN [st EXCEPT !.escaped = TRUE]
          ELSE [st EXCEPT !.out = Append(@, c)]
    IN FoldLeft(step, [out |-> <<>>, escaped |-> FALSE], s).out

\* The keys of a JSON text, in order.
KeysOf(tokens) ==
    LET keys == Pick(tokens, {i \in 1 .. Len(tokens) - 1 : tokens[i + 1] = Tok(":")})
    IN [i \in DOMAIN keys |-> keys[i][2]]

\* The names of all elements below the nodes, in document order.
RECURSIVE NamesOf(_)
NamesOf(nodes) ==
    FlattenSeq([i \in DOMAIN nodes |->
        IF nodes[i].elem THEN <<nodes[i].name>> \o NamesOf(nodes[i].children) ELSE <<>>])

\* No element has an element for its only child, as in a document written with
\* line breaks and indentation.
RECURSIVE Indented(_)
Indented(nodes) ==
    \A i \in DOMAIN nodes :
        LET inner == nodes[i].children
        IN Indented(inner) /\ ~ (Len(inner) = 1 /\ inner[1].elem)
=============================================================================
