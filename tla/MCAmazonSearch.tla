---------------------------- MODULE MCAmazonSearch ----------------------------
EXTENDS AmazonSearch

MCLetters == <<"a", "b">>

MCLower == [c \in {"a", "b", "A"} |-> IF c = "A" THEN "a" ELSE c]

\* Empty, of odd and even length, words in both orders, repeated, joined by
\* punctuation, and a word that begins with another.
MCTexts == {<<>>, <<"a">>, <<"a", " ", "b">>, <<"b", "-", "a", "b">>, <<"b", "a", " ", "A", " ", "b">>}

\* All short queries, and phrases closed, open and mixed.
MCQueries ==
    SeqOf({"a", "b", " ", "\""}, MaxQuery) \cup
    {<<"\"", "a", " ", "b", "\"">>, <<"\"", "a", "-", "b">>, <<"b", " ", "A">>,
     <<"\"", "a", " ", "a", "b", "\"">>,
     <<"b", "\"", "a", " ", "b", "\"", "a">>, <<"\"", "a", "\"", "a", "b", "\"">>}
===============================================================================
