------------------------------ MODULE StshParse ------------------------------
(***************************************************************************)
(* The command-line parser of stsh (stsh-parse.cc): a lexer over the       *)
(* characters of a line, and one pass over its tokens that builds the      *)
(* pipeline.  Each iteration of the pass is a step.  Every line of at most *)
(* MaxLine characters is parsed.                                           *)
(***************************************************************************)
EXTENDS Naturals, Sequences, FiniteSets, SequencesExt

CONSTANTS Letters,   \* characters of words
          MaxLine    \* bound on the length of lines

ASSUME ParseAssumption ==
    MaxLine \in Nat /\ Letters \cap {" ", "|", "<", ">", "&"} = {}

Operators == {"|", "<", ">", "&"}
Characters == Letters \cup Operators \cup {" "}

VARIABLES line, tokens,
          i,         \* the token to look at
          current,   \* argv of the stage being built
          commands, input, output, background, valid,
          phase

vars == <<line, tokens, i, current, commands, input, output, background, valid, phase>>
result == <<commands, input, output, background, valid>>

-------------------------------------------------------------------------------
\* Mutant: an operator does not end the word before it.
lexGlued(chars) ==
    LET step(s, c) ==
            CASE c = " " -> [s EXCEPT !.tokens = IF s.cur = <<>> THEN @ ELSE Append(@, s.cur),
                                      !.cur = <<>>]
              [] c \in Operators -> [s EXCEPT !.tokens = Append(@, <<c>>)]
              [] OTHER -> [s EXCEPT !.cur = Append(@, c)]
        end == FoldLeft(step, [tokens |-> <<>>, cur |-> <<>>], chars)
    IN  IF end.cur = <<>> THEN end.tokens ELSE Append(end.tokens, end.cur)

\* A token is a sequence of characters.
lex(chars) ==
    LET flush(s) == [tokens |-> IF s.cur = <<>> THEN s.tokens ELSE Append(s.tokens, s.cur),
                     cur |-> <<>>]
        step(s, c) ==
            CASE c = " " -> flush(s)
              [] c \in Operators -> [flush(s) EXCEPT !.tokens = Append(@, <<c>>)]
              [] OTHER -> [s EXCEPT !.cur = Append(@, c)]
    IN  flush(FoldLeft(step, [tokens |-> <<>>, cur |-> <<>>], chars)).tokens

isOperator(t) == t \in {<<c>> : c \in Operators}

Init ==
    /\ line \in SeqOf(Characters, MaxLine)
    /\ tokens = <<>> /\ i = 1 /\ current = <<>>
    /\ commands = <<>> /\ input = <<>> /\ output = <<>>
    /\ background = FALSE /\ valid = TRUE
    /\ phase = "lex"

Lex ==
    /\ phase = "lex"
    /\ tokens' = lex(line)
    /\ phase' = "parse"
    /\ UNCHANGED <<line, i, current, result>>

-------------------------------------------------------------------------------
(* The loop of parsePipeline                                               *)

Looking(t) == phase = "parse" /\ valid /\ i =< Len(tokens) /\ tokens[i] = t
FilenameFollows == i + 1 =< Len(tokens) /\ ~isOperator(tokens[i + 1])

Fail ==
    /\ valid' = FALSE
    /\ UNCHANGED <<line, tokens, i, current, commands, input, output, background, phase>>

Pipe ==
    /\ Looking(<<"|">>)
    /\ \/ current = <<>> /\ Fail
       \/ /\ current # <<>>
          /\ commands' = Append(commands, current)
          /\ current' = <<>>
          /\ i' = i + 1
          /\ UNCHANGED <<line, tokens, input, output, background, valid, phase>>

Input ==
    /\ Looking(<<"<">>)
    /\ \/ ~FilenameFollows /\ Fail
       \/ /\ FilenameFollows
          /\ input' = tokens[i + 1]
          /\ i' = i + 2
          /\ UNCHANGED <<line, tokens, current, commands, output, background, valid, phase>>

\* Mutant: the file name stays an argument.
OutputKeepsName ==
    /\ Looking(<<">">>)
    /\ \/ ~FilenameFollows /\ Fail
       \/ /\ FilenameFollows
          /\ output' = tokens[i + 1]
          /\ i' = i + 1
          /\ UNCHANGED <<line, tokens, current, commands, input, background, valid, phase>>

Output ==
    /\ Looking(<<">">>)
    /\ \/ ~FilenameFollows /\ Fail
       \/ /\ FilenameFollows
          /\ output' = tokens[i + 1]
          /\ i' = i + 2
          /\ UNCHANGED <<line, tokens, current, commands, input, background, valid, phase>>

Background ==
    /\ Looking(<<"&">>)
    /\ \/ i # Len(tokens) /\ Fail
       \/ /\ i = Len(tokens)
          /\ background' = TRUE
          /\ i' = i + 1
          /\ UNCHANGED <<line, tokens, current, commands, input, output, valid, phase>>

Word ==
    /\ phase = "parse" /\ valid /\ i =< Len(tokens)
    /\ ~isOperator(tokens[i])
    /\ current' = Append(current, tokens[i])
    /\ i' = i + 1
    /\ UNCHANGED <<line, tokens, result, phase>>

\* After the loop: the last stage, if it has a word, and the last check.
Finish ==
    /\ phase = "parse"
    /\ ~valid \/ i > Len(tokens)
    /\ phase' = "done"
    /\ commands' = IF valid /\ current # <<>> THEN Append(commands, current) ELSE commands
    /\ valid' = (valid /\ ~(commands' = <<>> /\ (input # <<>> \/ output # <<>>)))
    /\ UNCHANGED <<line, tokens, i, current, input, output, background>>

Done == phase = "done" /\ UNCHANGED vars

Next ==
    Lex \/ Pipe \/ Input \/ Output \/ Background \/ Word \/ Finish \/ Done

Spec == Init /\ [][Next]_vars

-------------------------------------------------------------------------------
(* Properties                                                              *)

Words == Seq(Letters) \ {<<>>}

TypeOK ==
    /\ tokens \in Seq(Words \cup {<<c>> : c \in Operators})
    /\ i \in 1 .. Len(tokens) + 1
    /\ commands \in Seq(Seq(Words) \ {<<>>}) /\ current \in Seq(Words)
    /\ input \in Words \cup {<<>>} /\ output \in Words \cup {<<>>}
    /\ background \in BOOLEAN /\ valid \in BOOLEAN

\* Lexing neither loses nor invents: the tokens spell the line without its spaces,
\* operators "always their own token even when written flush against a word"
\* (stsh-parse.cc:15), and words end only at a space or an operator.
LexIsExact ==
    phase # "lex" =>
        /\ FlattenSeq(tokens) = SelectSeq(line, LAMBDA c : c # " ")
        /\ \A k \in DOMAIN tokens : isOperator(tokens[k]) \/ tokens[k] \in Words
        /\ Len(tokens) = Cardinality({k \in DOMAIN line :
              \/ line[k] \in Operators
              \/ line[k] \in Letters /\ ~(k > 1 /\ line[k - 1] \in Letters)})

\* A word is a file name if it follows "<" or ">", and an argument otherwise.
IsArgument(k) ==
    ~isOperator(tokens[k]) /\ ~(k > 1 /\ tokens[k - 1] \in {<<"<">>, <<">">>})

\* Every argument of an accepted line is in one command, in order, and no file
\* name is; the redirections are the last of their kind; and "a trailing & for
\* background execution" (stsh-parse.h:5) is there if any is, with nothing after it.
ArgumentsAreKept ==
    TypeOK /\ (phase = "done" /\ valid =>
        LET args == SetToSortSeq({k \in DOMAIN tokens : IsArgument(k)}, <)
            last(op) == {k \in DOMAIN tokens :
                           /\ k > 1 /\ tokens[k - 1] = op
                           /\ \A j \in k .. Len(tokens) - 1 : tokens[j] # op}
        IN  /\ FlattenSeq(commands) = [n \in DOMAIN args |-> tokens[args[n]]]
            /\ \A k \in last(<<"<">>) : input = tokens[k]
            /\ \A k \in last(<<">">>) : output = tokens[k]
            /\ background <=> \E k \in DOMAIN tokens : tokens[k] = <<"&">>
            /\ \A k \in DOMAIN tokens : tokens[k] = <<"&">> => k = Len(tokens))
===============================================================================
