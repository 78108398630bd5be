------------------------------ MODULE MCTexts ------------------------------
(* The alphabets and bounds of Texts. *)
EXTENDS JsonTexts

AllJobs == {"value", "body", "tags", "select", "sign", "mail", "append", "config", "json"}

AllChars == Blank \cup {NUL, Backslash, "a", "t", "b", "h", "x", "f", "F", "n", "s", "1",
                        "=", ";", ":", ".", "#"}

Singles(S) == {<<c>> : c \in S}

\* Whole header lines, one of them folded, bring mails with several fields
\* within the bound.
MailPieces == Singles({"a", ":", SP, LF}) \cup
    {CRLF, <<":", SP>>, <<"a", ":", SP, "a", CR, LF>>,
     <<"a", ":", SP, "a", CR, LF, SP, TAB, "a", CR, LF>>}

Leaf(name, text) == Element(name, <<TextNode(text)>>)
Space == TextNode(<<LF, SP>>)

JsonNodes == {
    Space,
    Element(<<"report_metadata">>, <<Space, Leaf(<<"org">>, <<"a", TAB>>), Space,
                                     Element(<<"email">>, <<>>), Space>>),
    Element(<<"policy_published">>, <<Space, Leaf(<<"domain">>, <<"a">>), Space>>),
    Element(<<"policy_published">>, <<>>),
    Element(<<"policy_published">>, <<Leaf(<<"domain">>, <<Quote>>)>>),
    Element(<<"record">>, <<Space, Element(<<"row">>,
        <<Space, Leaf(<<"ip">>, <<Backslash>>), Space, Leaf(<<"n">>, <<"1">>), Space>>), Space>>),
    Element(<<"record">>, <<Element(<<"row">>, <<Leaf(<<"ip">>, <<"a">>)>>)>>),
    Element(<<"other">>, <<Space>>)}

AlphabetOf == [j \in AllJobs |->
    CASE j = "value" -> Singles({"a", "t", SP, TAB, Backslash}) \cup {CRLF}
      [] j = "body" -> Singles({"a", SP, TAB, CR, LF})
      [] j = "tags" -> Singles({"b", "h", "x", "=", ";", SP}) \cup
                       {<<"b", "=">>, <<";", "b", "h", "=">>}
      [] j = "select" -> Singles({"f", "F", "t", ":"})
      [] j = "sign" -> Singles({"b", "x", "="}) \cup {<<CR, LF, SP>>, <<CR, LF, SP, TAB>>}
      [] j = "mail" -> MailPieces
      [] j = "append" -> Singles({0, 1, 3, 4, 5, 9})
      [] j = "config" -> Singles({"n", "s", "=", "1", SP, TAB, "#", LF}) \cup
                         {<<"n", "=", "1", LF>>, <<"s", "=", "1", LF>>}
      [] j = "json" -> Singles(JsonNodes)]

StepsOf == [j \in AllJobs |->
    CASE j = "value" -> 5 [] j = "body" -> 6 [] j = "tags" -> 5
      [] j = "select" -> 5 [] j = "sign" -> 5 [] j = "mail" -> 5
      [] j = "append" -> 5 [] j = "config" -> 5 [] j = "json" -> 4]

HeaderKeys == {<<>>, <<<<"F">>>>, <<<<"t">>, <<"F">>>>, <<<<"F">>, <<"f", "t">>>>,
               <<<<"t">>, <<"F">>, <<"x">>>>, <<<<"F">>, <<"f", "t">>, <<"t">>>>,
               <<<<"f", "t">>, <<"t">>, <<"F", "t">>>>}

NumberKeys == {<<"n">>}
NameKeys == {<<"s">>}
DefaultsOf == <<"n">> :> 7 @@ <<"s">> :> <<"d">>
=============================================================================
