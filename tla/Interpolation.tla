--------------------------- MODULE Interpolation ---------------------------
(***************************************************************************)
(* interpolate_params and format_value, the same in cubrid-client and      *)
(* cubrid-tokio: the placeholders of a statement are replaced by literals  *)
(* before it is sent, so the server sees one text and must find the        *)
(* parameters in it as values, and nothing of them as SQL.                 *)
(*                                                                         *)
(* A text is a sequence of characters; a run of characters that mean       *)
(* nothing to the scanner or to SQL's lexer ("NULL", "12") is one element. *)
(* `lex' is the server's lexer at the end of the output so far, there for  *)
(* the properties only.                                                    *)
(***************************************************************************)
EXTENDS Integers, Sequences, FiniteSets, SequencesExt

CONSTANTS Statements,  \* texts with placeholders
          ParamLists   \* sequences of values: [variant, text]

Variants == {"Null", "Bool", "Number", "String", "Bytes", "Date", "Time", "Timestamp",
             "Datetime"}

ASSUME TextsAssumption ==
    /\ \A s \in Statements : s \in Seq(STRING)
    /\ \A ps \in ParamLists :
          ps \in Seq([variant : Variants, text : Seq(STRING)])

(* Only a string can bring a quote with it. *)
ASSUME QuotesAssumption ==
    \A ps \in ParamLists : \A n \in DOMAIN ps : \A k \in DOMAIN ps[n].text :
        ps[n].text[k] = "'" => ps[n].variant = "String"

(* What to_string makes of a boolean or a number has one character that    *)
(* could matter to the lexer: the sign of a negative number, in front.     *)
ASSUME BareWordsAssumption ==
    \A ps \in ParamLists : \A n \in DOMAIN ps : \A m \in DOMAIN ps[n].text :
        ps[n].variant \in {"Bool", "Number"} =>
            /\ ps[n].text[m] \notin {"/", "*", "\""}
            /\ ps[n].text[m] = "-" => ps[n].variant = "Number" /\ m = 1

VARIABLES
    sql, params,       \* the arguments; never change
    i,                 \* characters consumed
    literal,           \* the inner loop that skips a literal
    param_idx,         \* parameters used
    stage,             \* scanning, or the part of a value that is written next
    k,                 \* characters of that part written
    result,            \* the output
    lex,               \* the server's lexer
    lost               \* what took the lexer into a comment or an identifier

vars == <<sql, params, i, literal, param_idx, stage, k, result, lex, lost>>

Init ==
    /\ sql \in Statements
    /\ params \in ParamLists
    /\ i = 0
    /\ literal = FALSE
    /\ param_idx = 0
    /\ stage = "scan"
    /\ k = 0
    /\ result = <<>>
    /\ lex = "code"
    /\ lost = "no"

-----------------------------------------------------------------------------
(* SQL's lexer: literals end at a quote that is not doubled; a comment or  *)
(* a quoted identifier is where the scanner does not follow.               *)

Outside == {"code", "dash", "slash", "quote"}

Lex(s, c) ==
    IF s = "lost" THEN "lost"
    ELSE IF s = "literal" THEN IF c = "'" THEN "quote" ELSE "literal"
    ELSE CASE c = "'" -> "literal"
           [] c = "-" -> IF s = "dash" THEN "lost" ELSE "dash"
           [] c = "/" -> IF s = "slash" THEN "lost" ELSE "slash"
           [] c = "*" -> IF s = "slash" THEN "lost" ELSE "code"
           [] c = "\"" -> "lost"
           [] OTHER -> "code"

(* push: one character goes out. *)
Push(c, who) ==
    /\ result' = Append(result, c)
    /\ lex' = Lex(lex, c)
    /\ lost' = IF lost = "no" /\ lex' = "lost" THEN who ELSE lost
    /\ UNCHANGED <<sql, params>>

-----------------------------------------------------------------------------
(* Mutant of FormatValue: a string goes out as it is. *)
FormatValueBare(v) ==
    CASE v.variant = "Null" -> [word |-> <<"NULL">>, quoted |-> FALSE]
      [] v.variant \in {"Bool", "Number", "String"} -> [word |-> v.text, quoted |-> FALSE]
      [] OTHER -> [word |-> <<v.variant>>, quoted |-> TRUE]

(* format_value: a word, then for most types a quoted text. *)

FormatValue(v) ==
    CASE v.variant = "Null" -> [word |-> <<"NULL">>, quoted |-> FALSE]
      [] v.variant \in {"Bool", "Number"} -> [word |-> v.text, quoted |-> FALSE]
      [] v.variant = "String" -> [word |-> <<>>, quoted |-> TRUE]
      [] v.variant = "Bytes" -> [word |-> <<"X">>, quoted |-> TRUE]
      [] v.variant = "Date" -> [word |-> <<"DATE">>, quoted |-> TRUE]
      [] v.variant = "Time" -> [word |-> <<"TIME">>, quoted |-> TRUE]
      [] v.variant = "Timestamp" -> [word |-> <<"TIMESTAMP">>, quoted |-> TRUE]
      [] v.variant = "Datetime" -> [word |-> <<"DATETIME">>, quoted |-> TRUE]

Value == params[param_idx + 1]

WriteWord ==
    /\ stage = "word"
    /\ k < Len(FormatValue(Value).word)
    /\ Push(FormatValue(Value).word[k + 1], "value")
    /\ k' = k + 1
    /\ UNCHANGED <<i, literal, param_idx, stage>>

OpenQuote ==
    /\ stage = "word"
    /\ k = Len(FormatValue(Value).word)
    /\ FormatValue(Value).quoted
    /\ Push("'", "value")
    /\ stage' = "text"
    /\ k' = 0
    /\ UNCHANGED <<i, literal, param_idx>>

(* Mutant of WriteText: quotes are not doubled. *)
WriteTextRaw ==
    /\ stage = "text"
    /\ k < Len(Value.text)
    /\ Push(Value.text[k + 1], "value")
    /\ k' = k + 1
    /\ UNCHANGED <<i, literal, param_idx, stage>>

(* replace('\'', "''"): a quote goes out twice. *)
WriteText ==
    /\ stage = "text"
    /\ k < Len(Value.text)
    /\ \/ Value.text[k + 1] # "'" /\ Push(Value.text[k + 1], "value") /\ UNCHANGED stage
       \/ Value.text[k + 1] = "'" /\ Push("'", "value") /\ stage' = "again"
    /\ k' = k + 1
    /\ UNCHANGED <<i, literal, param_idx>>

WriteQuoteAgain ==
    /\ stage = "again"
    /\ Push("'", "value")
    /\ stage' = "text"
    /\ UNCHANGED <<i, literal, param_idx, k>>

CloseQuote ==
    /\ stage = "text"
    /\ k = Len(Value.text)
    /\ Push("'", "value")
    /\ stage' = "scan"
    /\ param_idx' = param_idx + 1
    /\ UNCHANGED <<i, literal, k>>

(* A value that is not quoted ends with its word. *)
WordDone ==
    /\ stage = "word"
    /\ k = Len(FormatValue(Value).word)
    /\ ~FormatValue(Value).quoted
    /\ stage' = "scan"
    /\ param_idx' = param_idx + 1
    /\ UNCHANGED <<sql, params, i, literal, k, result, lex, lost>>

-----------------------------------------------------------------------------
(* interpolate_params *)

Placeholder(c) == c = "?" /\ ~literal /\ param_idx < Len(params)

(* No parameters: the statement as it is. *)
NoParams ==
    /\ stage = "scan"
    /\ params = <<>>
    /\ result' = sql
    /\ stage' = "done"
    /\ UNCHANGED <<sql, params, i, literal, param_idx, k, lex, lost>>

Replace ==
    /\ stage = "scan"
    /\ params # <<>>
    /\ i < Len(sql)
    /\ Placeholder(sql[i + 1])
    /\ stage' = "word"
    /\ k' = 0
    /\ i' = i + 1
    /\ UNCHANGED <<sql, params, literal, param_idx, result, lex, lost>>

(* Mutant of Copy: literals are not skipped. *)
CopyEverywhere ==
    /\ stage = "scan"
    /\ params # <<>>
    /\ i < Len(sql)
    /\ ~Placeholder(sql[i + 1])
    /\ Push(sql[i + 1], "sql")
    /\ i' = i + 1
    /\ UNCHANGED <<literal, param_idx, stage, k>>

(* Any other character is copied; a quote enters or leaves a literal. *)
Copy ==
    /\ stage = "scan"
    /\ params # <<>>
    /\ i < Len(sql)
    /\ ~Placeholder(sql[i + 1])
    /\ Push(sql[i + 1], "sql")
    /\ literal' = IF sql[i + 1] = "'" THEN ~literal ELSE literal
    /\ i' = i + 1
    /\ UNCHANGED <<param_idx, stage, k>>

Done ==
    /\ stage = "scan"
    /\ params # <<>>
    /\ i = Len(sql)
    /\ stage' = "done"
    /\ UNCHANGED <<sql, params, i, literal, param_idx, k, result, lex, lost>>

Next ==
    \/ NoParams \/ Replace \/ Copy \/ Done
    \/ WriteWord \/ OpenQuote \/ WriteText \/ WriteQuoteAgain \/ CloseQuote \/ WordDone

Spec == Init /\ [][Next]_vars

-----------------------------------------------------------------------------
(* Properties *)

TypeOK ==
    /\ sql \in Statements
    /\ params \in ParamLists
    /\ i \in 0 .. Len(sql)
    /\ literal \in BOOLEAN
    /\ param_idx \in 0 .. Len(params)
    /\ stage \in {"scan", "word", "text", "again", "done"}
    /\ stage \in {"word", "text", "again"} => param_idx < Len(params)
    /\ k \in Nat
    /\ lex \in Outside \cup {"literal", "lost"}
    /\ lost \in {"no", "sql", "value"}

(* The server reads the parameters as values: as long as the statement has *)
(* not begun a comment or a quoted identifier, scanner and lexer agree on  *)
(* what is inside a literal, a value starts and ends outside of one, and   *)
(* every character of its text is inside one, whatever the text.           *)
ValuesContained ==
    lost = "no" =>
        /\ stage = "scan" => (literal <=> lex = "literal")
        /\ stage = "word" => lex \in Outside
        /\ stage = "text" => lex = "literal"
        /\ stage = "again" => lex = "quote"

(* No value takes the lexer into a comment, save for a negative number     *)
(* right after a minus sign: `-?' and -1 make `--1'.                       *)
ValuesStartNoComment ==
    lost = "value" =>
        /\ Len(result) >= 2
        /\ \E n \in 1 .. Len(result) - 1 : result[n] = "-" /\ result[n + 1] = "-"
        /\ \E n \in DOMAIN params : params[n].variant = "Number" /\ params[n].text[1] = "-"

(* Quotes of a statement before position n: an odd number of them means    *)
(* that n is inside a literal.                                             *)
QuotesBefore(s, n) == Cardinality({m \in 1 .. n - 1 : s[m] = "'"})

IsMark(s, n) == s[n] = "?" /\ QuotesBefore(s, n) % 2 = 0

MarksUpTo(s, n) == Cardinality({m \in 1 .. n : IsMark(s, m)})

Doubled(text) ==
    FlattenSeq([n \in DOMAIN text |-> IF text[n] = "'" THEN <<"'", "'">> ELSE <<text[n]>>])

Formatted(v) ==
    FormatValue(v).word
    \o (IF FormatValue(v).quoted THEN <<"'">> \o Doubled(v.text) \o <<"'">> ELSE <<>>)

(* What becomes of the n-th character of a statement. *)
Piece(s, ps, n) ==
    IF IsMark(s, n) /\ MarksUpTo(s, n) <= Len(ps) THEN Formatted(ps[MarksUpTo(s, n)])
    ELSE <<s[n]>>

(* The result is the statement with the n-th placeholder outside literals  *)
(* replaced by the n-th parameter; placeholders without a parameter stay,  *)
(* and so does all the rest.                                               *)
PlaceholdersReplaced ==
    stage = "done" =>
        result = FlattenSeq([n \in 1 .. Len(sql) |-> Piece(sql, params, n)])
=============================================================================
