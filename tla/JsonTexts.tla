----------------------------- MODULE JsonTexts -----------------------------
(* The texts with those for the JSON conversion. *)
EXTENDS Texts, JsonText

\* The metadata and the policy of a report come once and in this order.
SchemaOrder(nodes) ==
    \A i, j \in DOMAIN nodes :
        /\ /\ nodes[j].name = <<"report_metadata">>
           /\ nodes[i].name \in {<<"report_metadata">>, <<"policy_published">>}
           => j <= i
        /\ nodes[i].name = <<"policy_published">> /\ nodes[j].name = nodes[i].name => i = j

\* The keys to expect: those of the three parts, and in each a key for every
\* element.
ExpectedKeys(nodes) ==
    LET inside(name, key) ==
          FlattenSeq([i \in DOMAIN nodes |->
              IF nodes[i].elem /\ nodes[i].name = name
              THEN key \o NamesOf(nodes[i].children) ELSE <<>>])
    IN inside(<<"report_metadata">>, <<<<"metadata">>>>)
       \o inside(<<"policy_published">>, <<<<"policy">>>>)
       \o <<<<"records">>>> \o inside(<<"record">>, <<>>)

\* A quote in a text is not escaped and would end its JSON string.
NoQuotes(nodes) ==
    \A i \in DOMAIN nodes :
        LET text == xmlNodeGetContent(nodes[i])
        IN \A j \in DOMAIN text : text[j] # Quote

\* Escaping loses nothing and at most doubles the text; what is posted for a report
\* without quotes in the order of the DMARC schema consists of well-formed members,
\* a comma between each two, with a key for every element of an indented document.
\* It is not a JSON text, as README.md has it: the braces around it are not written.
MembersAgree ==
    /\ job = "value" =>
          /\ Unescape(json_escape(input)) = input
          /\ Len(json_escape(input)) <= 2 * Len(input)
    /\ job = "json" /\ SchemaOrder(input) /\ NoQuotes(input) =>
          /\ IsMembers(parse_xml(input))
          /\ Indented(input) => KeysOf(parse_xml(input)) = ExpectedKeys(input)
=============================================================================
