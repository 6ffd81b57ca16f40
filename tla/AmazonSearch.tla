----------------------------- MODULE AmazonSearch -----------------------------
(***************************************************************************)
(* The review database (amazon-reviews/): mkamazondb writes a database     *)
(* file and a keyword index, and the amazon class reads both in place.     *)
(* Texts are sequences of characters.  A file is a function from offsets   *)
(* to what begins there: strings take their length and a terminator,       *)
(* numbers their width; so padding and offsets are the code's.             *)
(***************************************************************************)
EXTENDS Naturals, Sequences, FiniteSets, SequencesExt, FiniteSetsExt

CONSTANTS
    Letters,      \* the characters of words in lower case, in alphabetical order
    Lower,        \* tolower, from the characters of words to Letters
    Texts,        \* the texts of fields
    Reviews,      \* bound on the number of reviews
    Fields,       \* number of text fields of a review
    MaxOffset,    \* word offsets are stored modulo MaxOffset
    MaxQuery,     \* bound on the length up to which every query is tried
    Queries       \* the queries

\* Characters are letters, the quote, the space, and others that separate words.
Others == {" ", "-", "\""}

ASSUME AmazonAssumption ==
    /\ Range(Lower) = Range(Letters) /\ Range(Letters) \subseteq DOMAIN Lower
    /\ DOMAIN Lower \cap Others = {}
    /\ Texts \cup Queries \subseteq Seq(DOMAIN Lower \cup Others)
    /\ {Reviews, Fields, MaxOffset} \subseteq Nat \ {0} /\ MaxQuery \in Nat

VARIABLES recs,     \* the reviews: a sequence of functions from fields to texts
          db, kwi,  \* the two files
          query,
          answer    \* the set of review indexes that searchKeywordIndex returns

vars == <<recs, db, kwi, query, answer>>

-------------------------------------------------------------------------------
(* Words                                                                   *)

splitWords(text) ==
    LET flush(s) == [words |-> IF s.cur = <<>> THEN s.words ELSE Append(s.words, s.cur),
                     cur |-> <<>>]
        step(s, c) == IF c \in DOMAIN Lower THEN [s EXCEPT !.cur = Append(@, Lower[c])] ELSE flush(s)
    IN  flush(FoldLeft(step, [words |-> <<>>, cur |-> <<>>], text)).words

\* strcmp(v, w) < 0, and the order of std::map's keys.
Less(v, w) ==
    LET rank(c) == CHOOSE k \in DOMAIN Letters : Letters[k] = c
    IN  \/ IsStrictPrefix(v, w)
        \/ \E k \in DOMAIN v \cap DOMAIN w :
              /\ SubSeq(v, 1, k - 1) = SubSeq(w, 1, k - 1)
              /\ rank(v[k]) < rank(w[k])

Even(p) == p + (p % 2)

-------------------------------------------------------------------------------
(* mkamazondb                                                              *)

\* Where the parts of record r begin, if it begins at p: its texts, the rating
\* after the second (title, category, rating, headline, body), the date, the end.
Starts(r, p) ==
    LET after(k) == p + FoldLeft(LAMBDA n, f : n + Len(r[f]) + 1, 0, [f \in 1 .. k |-> f])
                      + IF k >= 2 THEN 1 ELSE 0
    IN  [texts |-> [f \in 1 .. Fields |-> after(f - 1)],
         date |-> Even(after(Fields)), end |-> Even(after(Fields)) + 4]

\* The offsets of the records: each begins where the one before ends.
Offsets(rs) ==
    FoldLeft(LAMBDA os, k : Append(os, Starts(rs[k], os[k]).end),
             <<4 + 4 * Len(rs)>>, [k \in 1 .. Len(rs) |-> k])

Database(rs) ==
    LET os == Offsets(rs)
        record(k) == [p \in Range(Starts(rs[k], os[k]).texts) |->
                        rs[k][CHOOSE f \in 1 .. Fields : Starts(rs[k], os[k]).texts[f] = p]]
                     @@ (Starts(rs[k], os[k]).date :> <<"date", k>>)
    IN  [count |-> Len(rs), offset |-> [k \in 1 .. Len(rs) |-> os[k]],
         at |-> FoldLeft(LAMBDA f, k : f @@ record(k), [p \in {} |-> <<>>],
                         [k \in 1 .. Len(rs) |-> k])]

\* The occurrences of word w: review, field, offset (24 bits of the location).
Occurrences(rs, w) ==
    {o \in (1 .. Len(rs)) \X (1 .. Fields) \X (0 .. MaxOffset - 1) :
        LET words == splitWords(rs[o[1]][o[2]])
        IN  \E j \in DOMAIN words : words[j] = w /\ (j - 1) % MaxOffset = o[3]}

Keywords(rs) == UNION {Range(splitWords(rs[k][f])) : k \in 1 .. Len(rs), f \in 1 .. Fields}

KeywordIndex(rs) ==
    [n \in 1 .. Cardinality(Keywords(rs)) |->
        LET w == SetToSortSeq(Keywords(rs), Less)[n]
        IN  [keyword |-> w, occurrences |-> Occurrences(rs, w)]]

-------------------------------------------------------------------------------
(* The amazon class                                                        *)

NoReview == [texts |-> <<>>, date |-> 0]

\* Mutant: the padding is taken from the length of the record, not its place.
getReviewUnaligned(k) ==
    LET texts == Starts(recs[k], db.offset[k]).texts
        last == texts[Fields] + Len(recs[k][Fields]) + 1
    IN  IF k > db.count THEN NoReview
        ELSE [texts |-> [f \in 1 .. Fields |-> db.at[texts[f]]],
              date |-> IF (last - db.offset[k]) % 2 = 1 THEN last + 1 ELSE last]

\* getReview: none beyond the table; from the offset table, text after text; then the rating; and the
\* date at the next even place.
getReview(k) ==
    LET step(s, f) ==
            [texts |-> Append(s.texts, db.at[s.p]),
             p |-> s.p + Len(db.at[s.p]) + 1 + IF f = 2 THEN 1 ELSE 0]
        end == FoldLeft(step, [texts |-> <<>>, p |-> db.offset[k]], [f \in 1 .. Fields |-> f])
    IN  IF k > db.count THEN NoReview ELSE [texts |-> end.texts, date |-> Even(end.p)]

\* std::lower_bound: the first entry that is not less.
lowerBound(w) == Cardinality({n \in DOMAIN kwi : Less(kwi[n].keyword, w)}) + 1

findKeyword(w) ==
    LET it == lowerBound(w)
    IN  IF it \in DOMAIN kwi /\ kwi[it].keyword = w THEN kwi[it].occurrences ELSE {}

\* Mutant: a phrase that is not closed is dropped.
convertQueryClosed(q) ==
    LET quotes == {k \in DOMAIN q : q[k] = "\""}
        close(k) == {j \in quotes : j > k}
        step(s, k) ==
            IF k < s.next THEN s
            ELSE IF q[k] # "\"" THEN [s EXCEPT !.word = Append(@, q[k])]
            ELSE IF close(k) = {} THEN [s EXCEPT !.next = Len(q) + 1]
            ELSE LET phrase == splitWords(SubSeq(q, k + 1, Min(close(k)) - 1))
                 IN  [next |-> Min(close(k)) + 1, word |-> <<>>,
                      terms |-> s.terms \o [n \in DOMAIN splitWords(s.word) |-> <<splitWords(s.word)[n]>>]
                                \o IF phrase = <<>> THEN <<>> ELSE <<phrase>>]
        end == FoldLeft(step, [terms |-> <<>>, word |-> <<>>, next |-> 1], [k \in DOMAIN q |-> k])
    IN  end.terms \o [n \in DOMAIN splitWords(end.word) |-> <<splitWords(end.word)[n]>>]

\* convertQuery: a word outside quotes is a term, and so is a quoted phrase; the
\* last quote may be missing.  Word and next are the text outside quotes since
\* the last one, and where to go on.
convertQuery(q) ==
    LET quotes == {k \in DOMAIN q : q[k] = "\""}
        close(k) == Min({j \in quotes : j > k} \cup {Len(q) + 1})
        single(text) == [n \in DOMAIN splitWords(text) |-> <<splitWords(text)[n]>>]
        step(s, k) ==
            IF k < s.next THEN s
            ELSE IF q[k] # "\"" THEN [s EXCEPT !.word = Append(@, q[k])]
            ELSE LET phrase == splitWords(SubSeq(q, k + 1, close(k) - 1))
                 IN  [next |-> close(k) + 1, word |-> <<>>,
                      terms |-> s.terms \o single(s.word)
                                \o IF phrase = <<>> THEN <<>> ELSE <<phrase>>]
        end == FoldLeft(step, [terms |-> <<>>, word |-> <<>>, next |-> 1], [k \in DOMAIN q |-> k])
    IN  end.terms \o single(end.word)

\* Mutant: the field of the anchor is not compared.
MatchesAnyField(term) ==
    {o[1] : o \in {o \in findKeyword(term[1]) :
        \A k \in 2 .. Len(term) : \E f \in 1 .. Fields :
            <<o[1], f, o[3] + k - 1>> \in findKeyword(term[k])}}

\* The reviews that match a term: an occurrence of its first word with the others
\* at the next offsets of the same field.
Matches(term) ==
    {o[1] : o \in {o \in findKeyword(term[1]) :
        \A k \in 2 .. Len(term) : <<o[1], o[2], o[3] + k - 1>> \in findKeyword(term[k])}}

\* Terms are combined by intersection; a query without terms finds nothing.
searchKeywordIndex(q) ==
    IF convertQuery(q) = <<>> THEN {}
    ELSE {k \in 1 .. db.count : \A n \in DOMAIN convertQuery(q) : k \in Matches(convertQuery(q)[n])}

-------------------------------------------------------------------------------
\* Before mkamazondb has run.
NoFile == [count |-> 0, offset |-> <<>>, at |-> <<>>]

Init ==
    /\ recs \in SeqOf([1 .. Fields -> Texts], Reviews)
    /\ db = NoFile /\ kwi = <<>> /\ query = <<>> /\ answer = {}

Build ==
    /\ db = NoFile /\ recs # <<>>
    /\ db' = Database(recs)
    /\ kwi' = KeywordIndex(recs)
    /\ UNCHANGED <<recs, query, answer>>

Search(q) ==
    /\ db # NoFile /\ query = <<>>
    /\ query' = q
    /\ answer' = searchKeywordIndex(q)
    /\ UNCHANGED <<recs, db, kwi>>

Next == Build \/ \E q \in Queries : Search(q)

Spec == Init /\ [][Next]_vars

-------------------------------------------------------------------------------
(* Properties                                                              *)

\* Every review is read back from its place: its texts, and the date at the very
\* offset where it was written, whatever lengths come before; beyond the last, none.
ReviewsReadBack ==
    \A k \in 1 .. db.count :
        /\ getReview(k).texts = [f \in 1 .. Fields |-> recs[k][f]]
        /\ getReview(k).date \in DOMAIN db.at
        /\ db.at[getReview(k).date] = <<"date", k>>
        /\ getReview(db.count + k) = NoReview

\* Whether a text contains the words of a term one after the other.
HasPhrase(text, term) ==
    LET words == splitWords(text)
    IN  \E j \in 0 .. Len(words) :
            /\ j + Len(term) =< Len(words)
            /\ SubSeq(words, j + 1, j + Len(term)) = term

\* The search, by index, finds the reviews that the texts themselves show: those
\* where each term of the query is found within one field.
SearchIsExact ==
    query # <<>> =>
        answer = {k \in 1 .. db.count :
                    /\ convertQuery(query) # <<>>
                    /\ \A n \in DOMAIN convertQuery(query) :
                          \E f \in 1 .. Fields : HasPhrase(recs[k][f], convertQuery(query)[n])}

\* Splitting a query into terms loses no word and keeps their order, with quotes
\* anywhere, also one that is never closed; only quoted words are joined.
QueryKeepsWords ==
    query # <<>> =>
        /\ FlattenSeq(convertQuery(query)) = splitWords(query)
        /\ (\A k \in DOMAIN query : query[k] # "\"") =>
              \A n \in DOMAIN convertQuery(query) : Len(convertQuery(query)[n]) = 1
===============================================================================
