------------------------ MODULE InterpolationProofs ------------------------
(***************************************************************************)
(* Parameters stay inside their literals, for statements and parameters of *)
(* any length: scanner and lexer change between inside and outside of a    *)
(* literal at the same characters, and a doubled quote brings the lexer    *)
(* back to where it was.                                                   *)
(***************************************************************************)
EXTENDS Interpolation, SequenceLemmas

(* The lexer is lost only if something took it there, and values are       *)
(* written outside the statement's literals only.                          *)
LostKnown ==
    /\ lost = "no" => lex # "lost"
    /\ stage \in {"word", "text", "again"} => literal = FALSE

IInv == TypeOK /\ ValuesContained /\ LostKnown

LexStates == Outside \cup {"literal", "lost"}

(* One character of the lexer: a quote enters a literal from outside, and  *)
(* nothing else does; a literal ends at a quote only.                      *)
LEMMA LexFacts ==
    ASSUME NEW s \in LexStates, NEW c
    PROVE  /\ Lex(s, c) \in LexStates
           /\ s = "literal" => Lex(s, c) = IF c = "'" THEN "quote" ELSE "literal"
           /\ s \in Outside /\ c = "'" => Lex(s, c) = "literal"
           /\ s \in Outside /\ c # "'" => Lex(s, c) \in Outside \cup {"lost"}
<1>1. CASE s = "lost"
  BY <1>1 DEF Lex, LexStates, Outside
<1>2. CASE s = "literal"
  <2>1. Lex(s, c) = IF c = "'" THEN "quote" ELSE "literal"
    BY <1>2 DEF Lex
  <2>2. s \notin Outside
    BY <1>2 DEF Outside
  <2>3. Lex(s, c) \in LexStates
    BY <2>1 DEF LexStates, Outside
  <2> QED BY <2>1, <2>2, <2>3
<1>3. CASE s \in Outside /\ c = "'"
  BY <1>3 DEF Lex, LexStates, Outside
<1>4. CASE s \in Outside /\ c # "'"
  <2>1. Lex(s, c) \in Outside \cup {"lost"}
    BY <1>4 DEF Lex, Outside
  <2> QED BY <1>4, <2>1 DEF LexStates, Outside
<1> QED BY <1>1, <1>2, <1>3, <1>4 DEF LexStates

(* Statements and parameter lists have a length, and parameters a variant  *)
(* and a text.                                                             *)
LEMMA TextFacts ==
    /\ \A s \in Statements : Len(s) \in Nat
    /\ \A ps \in ParamLists :
          /\ Len(ps) \in Nat
          /\ \A n \in 1 .. Len(ps) : /\ n \in DOMAIN ps
                                      /\ ps[n].variant \in Variants
                                      /\ ps[n].text \in Seq(STRING)
<1>1. ASSUME NEW s \in Statements PROVE Len(s) \in Nat
  <2>1. s \in Seq(STRING)
    BY TextsAssumption
  <2> QED BY <2>1
<1>2. ASSUME NEW ps \in ParamLists
      PROVE  /\ Len(ps) \in Nat
             /\ \A n \in 1 .. Len(ps) : /\ n \in DOMAIN ps
                                         /\ ps[n].variant \in Variants
                                         /\ ps[n].text \in Seq(STRING)
  <2> DEFINE V == [variant : Variants, text : Seq(STRING)]
  <2>1. ps \in Seq(V)
    BY TextsAssumption
  <2>2. \A v \in V : v.variant \in Variants /\ v.text \in Seq(STRING)
    OBVIOUS
  <2> HIDE DEF V
  <2>3. /\ Len(ps) \in Nat
        /\ \A n \in 1 .. Len(ps) : n \in DOMAIN ps /\ ps[n] \in V
    BY <2>1
  <2> QED BY <2>2, <2>3
<1> QED BY <1>1, <1>2

(* The parts of a value: its text is a text, and its word has no quote. *)
LEMMA ValueFacts ==
    ASSUME TypeOK, param_idx < Len(params)
    PROVE  /\ DOMAIN FormatValue(Value).word = 1 .. Len(FormatValue(Value).word)
           /\ Len(FormatValue(Value).word) \in Nat
           /\ FormatValue(Value).quoted \in BOOLEAN
           /\ \A n \in DOMAIN FormatValue(Value).word : FormatValue(Value).word[n] # "'"
<1>1. param_idx + 1 \in 1 .. Len(params) /\ params \in ParamLists
  BY TextFacts DEF TypeOK
<1>2. Value.text \in Seq(STRING) /\ Value.variant \in Variants /\ param_idx + 1 \in DOMAIN params
  BY <1>1, TextFacts DEF Value
<1>3. \A n \in DOMAIN Value.text : Value.text[n] = "'" => Value.variant = "String"
  BY <1>1, <1>2, QuotesAssumption DEF Value
<1>5. CASE Value.variant \in {"Bool", "Number"}
  <2>1. FormatValue(Value) = [word |-> Value.text, quoted |-> FALSE]
    BY <1>5 DEF FormatValue
  <2> QED BY <1>2, <1>3, <1>5, <2>1
<1>6. CASE Value.variant \notin {"Bool", "Number"}
  <2>1. FormatValue(Value).word \in
            {<<>>, <<"NULL">>, <<"X">>, <<"DATE">>, <<"TIME">>, <<"TIMESTAMP">>, <<"DATETIME">>}
    BY <1>2, <1>6 DEF FormatValue, Variants
  <2>2. FormatValue(Value).quoted \in BOOLEAN
    BY <1>2, <1>6 DEF FormatValue, Variants
  <2>3. ASSUME NEW w, w # "'", FormatValue(Value).word = <<w>> PROVE
              /\ DOMAIN FormatValue(Value).word = 1 .. Len(FormatValue(Value).word)
              /\ Len(FormatValue(Value).word) \in Nat
              /\ \A n \in DOMAIN FormatValue(Value).word : FormatValue(Value).word[n] # "'"
    BY <2>3
  <2>4. CASE FormatValue(Value).word = <<>>
    BY <2>2, <2>4
  <2>5. CASE FormatValue(Value).word # <<>>
    <3>1. PICK w \in {"NULL", "X", "DATE", "TIME", "TIMESTAMP", "DATETIME"} :
              FormatValue(Value).word = <<w>>
      BY <2>1, <2>5, Zenon
    <3>2. w # "'"
      OBVIOUS
    <3> QED BY <2>2, <2>3, <3>1, <3>2
  <2> QED BY <2>4, <2>5
<1> QED BY <1>5, <1>6

(* What a push leaves for the invariant to settle. *)
LEMMA PushFacts ==
    ASSUME IInv, NEW c, NEW who \in {"sql", "value"}, Push(c, who)
    PROVE  /\ sql' = sql /\ params' = params
           /\ lex' = Lex(lex, c)
           /\ lex' \in LexStates
           /\ lost' \in {"no", "sql", "value"}
           /\ lost' = "no" => lost = "no" /\ lex # "lost" /\ lex' # "lost"
<1>1. lex \in LexStates
  BY DEF IInv, TypeOK, LexStates
<1>2. lex' = Lex(lex, c) /\ lex' \in LexStates
  BY <1>1, LexFacts DEF Push
<1> QED BY <1>2 DEF Push, IInv, TypeOK, LostKnown

LEMMA InitInv == Init => IInv
<1> SUFFICES ASSUME Init PROVE IInv
  OBVIOUS
<1>1. Len(sql) \in Nat /\ Len(params) \in Nat
  BY TextFacts DEF Init
<1>2. TypeOK
  <2>1. i \in 0 .. Len(sql) /\ param_idx \in 0 .. Len(params) /\ k \in Nat
    BY <1>1 DEF Init
  <2>2. literal \in BOOLEAN /\ lex \in Outside \cup {"literal", "lost"}
    BY DEF Init, Outside
  <2> QED BY <2>1, <2>2 DEF Init, TypeOK
<1>3. ValuesContained /\ LostKnown
  BY DEF Init, ValuesContained, LostKnown
<1> QED BY <1>2, <1>3 DEF IInv

LEMMA NextInv == IInv /\ [Next]_vars => IInv'
<1> SUFFICES ASSUME IInv, [Next]_vars PROVE IInv'
  OBVIOUS
<1> USE DEF IInv
<1>0. Len(sql) \in Nat /\ Len(params) \in Nat
  BY TextFacts DEF TypeOK
<1>l. lex \in LexStates
  BY DEF TypeOK, LexStates
<1>1. CASE NoParams
  BY <1>0, <1>1 DEF NoParams, TypeOK, ValuesContained, LostKnown
<1>2. CASE Replace
  <2>1. Placeholder(sql[i + 1]) /\ stage = "scan"
    BY <1>2 DEF Replace
  <2>2. ~literal /\ param_idx < Len(params)
    BY <2>1 DEF Placeholder
  <2>3. TypeOK' /\ LostKnown'
    BY <1>0, <1>2, <2>2 DEF Replace, TypeOK, LostKnown
  <2>4. ValuesContained'
    BY <1>2, <2>1, <2>2 DEF Replace, TypeOK, ValuesContained, LostKnown
  <2> QED BY <2>3, <2>4
<1>3. CASE Copy
  <2> DEFINE c == sql[i + 1]
  <2>1. Push(c, "sql") /\ stage = "scan" /\ stage' = "scan"
    BY <1>3 DEF Copy
  <2>2. /\ sql' = sql /\ params' = params /\ lex' = Lex(lex, c) /\ lex' \in LexStates
        /\ lost' \in {"no", "sql", "value"}
        /\ lost' = "no" => lost = "no" /\ lex # "lost" /\ lex' # "lost"
    BY <2>1, PushFacts
  <2>3. TypeOK'
    <3>1. literal' \in BOOLEAN
      BY <1>3 DEF Copy, TypeOK
    <3>2. i' \in 0 .. Len(sql)
      BY <1>0, <1>3 DEF Copy, TypeOK
    <3>3. param_idx' = param_idx /\ stage' = stage /\ k' = k
      BY <1>3 DEF Copy
    <3> QED BY <2>2, <3>1, <3>2, <3>3 DEF TypeOK, LexStates
  <2>4. ValuesContained'
    <3>1. SUFFICES ASSUME lost' = "no" PROVE literal' <=> lex' = "literal"
      BY <2>1 DEF ValuesContained
    <3>2. lost = "no" /\ lex # "lost" /\ lex' # "lost"
      BY <2>2, <3>1
    <3>3. literal <=> lex = "literal"
      BY <2>1, <3>2 DEF ValuesContained
    <3>4. literal' = IF c = "'" THEN ~literal ELSE literal
      BY <1>3 DEF Copy
    <3>5. CASE lex = "literal"
      BY <1>l, <2>2, <3>3, <3>4, <3>5, LexFacts DEF TypeOK
    <3>6. CASE lex # "literal"
      <4>1. lex \in Outside
        BY <1>l, <3>2, <3>6 DEF LexStates
      <4>2. CASE c = "'"
        BY <1>l, <2>2, <3>3, <3>4, <3>6, <4>1, <4>2, LexFacts DEF TypeOK
      <4>3. CASE c # "'"
        <5>1. lex' \in Outside
          BY <1>l, <2>2, <3>2, <4>1, <4>3, LexFacts
        <5>2. lex' # "literal"
          BY <5>1 DEF Outside
        <5> QED BY <3>3, <3>4, <3>6, <4>3, <5>2
      <4> QED BY <4>2, <4>3
    <3> QED BY <3>5, <3>6
  <2>9. LostKnown'
    BY <1>3, <2>1, <2>2 DEF Copy, LostKnown
  <2> QED BY <2>3, <2>4, <2>9
<1>4. CASE Done
  BY <1>0, <1>4 DEF Done, TypeOK, ValuesContained, LostKnown
<1>5. CASE WriteWord
  <2> DEFINE c == FormatValue(Value).word[k + 1]
  <2>1. Push(c, "value") /\ stage = "word" /\ stage' = "word" /\ param_idx < Len(params)
    BY <1>5 DEF WriteWord, TypeOK
  <2>2. /\ sql' = sql /\ params' = params /\ lex' = Lex(lex, c) /\ lex' \in LexStates
        /\ lost' \in {"no", "sql", "value"}
        /\ lost' = "no" => lost = "no" /\ lex # "lost" /\ lex' # "lost"
    BY <2>1, PushFacts
  <2>3. TypeOK'
    BY <1>0, <1>5, <2>2 DEF WriteWord, TypeOK, LexStates
  <2>4. c # "'"
    <3>1. k + 1 \in DOMAIN FormatValue(Value).word
      BY <1>5, <2>1, ValueFacts DEF WriteWord, TypeOK
    <3> QED BY <2>1, <3>1, ValueFacts
  <2>5. ValuesContained'
    <3>1. SUFFICES ASSUME lost' = "no" PROVE lex' \in Outside
      BY <2>1 DEF ValuesContained
    <3>2. lex \in Outside
      BY <2>1, <2>2, <3>1 DEF ValuesContained
    <3> QED BY <1>l, <2>2, <2>4, <3>1, <3>2, LexFacts
  <2>9. LostKnown'
    BY <1>5, <2>1, <2>2 DEF WriteWord, LostKnown
  <2> QED BY <2>3, <2>5, <2>9
<1>6. CASE OpenQuote
  <2>1. Push("'", "value") /\ stage = "word" /\ stage' = "text"
    BY <1>6 DEF OpenQuote
  <2>2. /\ sql' = sql /\ params' = params /\ lex' = Lex(lex, "'") /\ lex' \in LexStates
        /\ lost' \in {"no", "sql", "value"}
        /\ lost' = "no" => lost = "no" /\ lex # "lost" /\ lex' # "lost"
    BY <2>1, PushFacts
  <2>3. TypeOK'
    BY <1>0, <1>6, <2>2 DEF OpenQuote, TypeOK, LexStates
  <2>4. ValuesContained'
    <3>1. SUFFICES ASSUME lost' = "no" PROVE lex' = "literal"
      BY <2>1 DEF ValuesContained
    <3>2. lex \in Outside
      BY <2>1, <2>2, <3>1 DEF ValuesContained
    <3> QED BY <1>l, <2>2, <3>2, LexFacts
  <2>9. LostKnown'
    BY <1>6, <2>1, <2>2 DEF OpenQuote, LostKnown
  <2> QED BY <2>3, <2>4, <2>9
<1>7. CASE WriteText
  <2> DEFINE c == Value.text[k + 1]
  <2>1. /\ stage = "text" /\ Push(c, "value")
        /\ c # "'" => stage' = "text"
        /\ c = "'" => stage' = "again"
        /\ stage' \in {"text", "again"}
    BY <1>7 DEF WriteText
  <2>2. /\ sql' = sql /\ params' = params /\ lex' = Lex(lex, c) /\ lex' \in LexStates
        /\ lost' \in {"no", "sql", "value"}
        /\ lost' = "no" => lost = "no" /\ lex # "lost" /\ lex' # "lost"
    BY <2>1, PushFacts
  <2>3. TypeOK'
    BY <1>0, <1>7, <2>1, <2>2 DEF WriteText, TypeOK, LexStates
  <2>4. ValuesContained'
    <3>1. SUFFICES ASSUME lost' = "no"
                   PROVE lex' = IF c = "'" THEN "quote" ELSE "literal"
      BY <2>1 DEF ValuesContained
    <3>2. lex = "literal"
      BY <2>1, <2>2, <3>1 DEF ValuesContained
    <3> QED BY <1>l, <2>2, <3>2, LexFacts
  <2>9. LostKnown'
    BY <1>7, <2>1, <2>2 DEF WriteText, LostKnown
  <2> QED BY <2>3, <2>4, <2>9
<1>8. CASE WriteQuoteAgain
  <2>1. Push("'", "value") /\ stage = "again" /\ stage' = "text"
    BY <1>8 DEF WriteQuoteAgain
  <2>2. /\ sql' = sql /\ params' = params /\ lex' = Lex(lex, "'") /\ lex' \in LexStates
        /\ lost' \in {"no", "sql", "value"}
        /\ lost' = "no" => lost = "no" /\ lex # "lost" /\ lex' # "lost"
    BY <2>1, PushFacts
  <2>3. TypeOK'
    BY <1>0, <1>8, <2>2 DEF WriteQuoteAgain, TypeOK, LexStates
  <2>4. ValuesContained'
    <3>1. SUFFICES ASSUME lost' = "no" PROVE lex' = "literal"
      BY <2>1 DEF ValuesContained
    <3>2. lex \in Outside
      BY <2>1, <2>2, <3>1 DEF ValuesContained, Outside
    <3> QED BY <1>l, <2>2, <3>2, LexFacts
  <2>9. LostKnown'
    BY <1>8, <2>1, <2>2 DEF WriteQuoteAgain, LostKnown
  <2> QED BY <2>3, <2>4, <2>9
<1>9. CASE CloseQuote
  <2>1. /\ Push("'", "value") /\ stage = "text" /\ stage' = "scan"
        /\ literal' = literal
    BY <1>9 DEF CloseQuote
  <2>2. /\ sql' = sql /\ params' = params /\ lex' = Lex(lex, "'") /\ lex' \in LexStates
        /\ lost' \in {"no", "sql", "value"}
        /\ lost' = "no" => lost = "no" /\ lex # "lost" /\ lex' # "lost"
    BY <2>1, PushFacts
  <2>3. TypeOK'
    BY <1>0, <1>9, <2>2 DEF CloseQuote, TypeOK, LexStates
  <2>4. ValuesContained'
    <3>1. SUFFICES ASSUME lost' = "no" PROVE ~literal /\ lex' # "literal"
      BY <2>1 DEF ValuesContained
    <3>2. lex = "literal"
      BY <2>1, <2>2, <3>1 DEF ValuesContained
    <3>3. literal = FALSE
      BY <2>1 DEF LostKnown
    <3>4. lex' = "quote"
      BY <1>l, <2>2, <3>2, LexFacts
    <3> QED BY <3>3, <3>4
  <2>9. LostKnown'
    BY <1>9, <2>1, <2>2 DEF CloseQuote, LostKnown
  <2> QED BY <2>3, <2>4, <2>9
<1>10. CASE WordDone
  <2>1. TypeOK' /\ LostKnown'
    BY <1>0, <1>10 DEF WordDone, TypeOK, LostKnown
  <2>2. ValuesContained'
    BY <1>10 DEF WordDone, ValuesContained, LostKnown, Outside
  <2> QED BY <2>1, <2>2
<1>11. CASE UNCHANGED vars
  BY <1>11 DEF vars, TypeOK, ValuesContained, LostKnown, Placeholder
<1> QED BY <1>1, <1>2, <1>3, <1>4, <1>5, <1>6, <1>7, <1>8, <1>9, <1>10, <1>11 DEF Next

(* For all statements and parameters, every parameter reaches the server   *)
(* inside a literal of its own or as a bare word: format_value's doubling  *)
(* of quotes and interpolate_params's skipping of literals fit together,   *)
(* up to the first comment or quoted identifier of the statement.          *)
THEOREM ParametersContained == Spec => []ValuesContained
<1>1. Spec => []IInv
  BY InitInv, NextInv, PTL DEF Spec
<1>2. IInv => ValuesContained
  BY DEF IInv
<1> QED BY <1>1, <1>2, PTL

-----------------------------------------------------------------------------
(* What the output is made of; the provers do not know that a literal is a *)
(* string.                                                                 *)
Chars == STRING \cup {"'", "NULL", "X", "DATE", "TIME", "TIMESTAMP", "DATETIME"}

(* ValuesStartNoComment is not inductive: that the lexer has seen a minus  *)
(* must be tied to the output, and the statement without parameters, which *)
(* goes out in one piece, to a lexer that has seen nothing.                *)
CommentInv ==
    /\ result \in Seq(Chars)
    /\ lost = "no" /\ lex = "dash" => result # <<>> /\ result[Len(result)] = "-"
    /\ params = <<>> => lost = "no" /\ lex = "code"
    /\ ValuesStartNoComment

(* Two minus signs in a row at the end of the output. *)
LEMMA MinusAppended ==
    ASSUME NEW s \in Seq(Chars), s # <<>>, s[Len(s)] = "-"
    PROVE  LET t == Append(s, "-") IN
           /\ Len(t) >= 2
           /\ \E n \in 1 .. Len(t) - 1 : t[n] = "-" /\ t[n + 1] = "-"
<1> DEFINE t == Append(s, "-")
<1>1. Len(s) \in Nat /\ Len(s) >= 1 /\ Len(t) = Len(s) + 1
  OBVIOUS
<1>2. t[Len(s)] = "-" /\ t[Len(s) + 1] = "-"
  BY <1>1
<1>3. Len(s) \in 1 .. Len(t) - 1
  BY <1>1
<1> HIDE DEF t
<1>4. \E n \in 1 .. Len(t) - 1 : t[n] = "-" /\ t[n + 1] = "-"
  BY <1>2, <1>3
<1> QED BY <1>1, <1>4 DEF t

(* Outside of literals the lexer stops following at few characters. *)
LEMMA LexLost ==
    ASSUME NEW s \in Outside, NEW c, Lex(s, c) = "lost"
    PROVE  c \in {"/", "*", "\""} \/ (c = "-" /\ s = "dash")
BY DEF Lex, Outside

(* It remembers a minus only if that was the last character. *)
LEMMA LexDash ==
    ASSUME NEW s \in LexStates, NEW c, Lex(s, c) = "dash"
    PROVE  c = "-"
<1>1. CASE s = "lost"
  BY <1>1 DEF Lex
<1>2. CASE s = "literal"
  BY <1>2 DEF Lex
<1>3. CASE s \in Outside /\ c # "-"
  BY <1>3 DEF Lex, Outside
<1> QED BY <1>1, <1>2, <1>3 DEF LexStates

(* A push that does not lose the lexer to a value keeps the invariant. *)
LEMMA PushKeeps ==
    ASSUME IInv, CommentInv, params # <<>>,
           NEW c \in Chars, NEW who \in {"sql", "value"}, Push(c, who),
           who = "value" /\ lost = "no" => lex' # "lost"
    PROVE  CommentInv'
<1>1. /\ result' = Append(result, c) /\ params' = params
      /\ lost' = IF lost = "no" /\ lex' = "lost" THEN who ELSE lost
  BY DEF Push
<1>2. result \in Seq(Chars) /\ result' \in Seq(Chars) /\ Len(result) \in Nat
  BY <1>1 DEF CommentInv
<1>3. result' # <<>> /\ result'[Len(result')] = c
  BY <1>1, <1>2
<1>4. lex' = "dash" => c = "-"
  <2>1. lex \in LexStates /\ lex' = Lex(lex, c)
    BY PushFacts DEF IInv, TypeOK, LexStates
  <2> QED BY <2>1, LexDash
<1>5. ValuesStartNoComment'
  <2> SUFFICES ASSUME lost' = "value"
               PROVE  /\ Len(result') >= 2
                      /\ \E n \in 1 .. Len(result') - 1 : result'[n] = "-" /\ result'[n + 1] = "-"
                      /\ \E n \in DOMAIN params : params[n].variant = "Number"
                                                  /\ params[n].text[1] = "-"
    BY <1>1 DEF ValuesStartNoComment
  <2>1. lost = "value"
    BY <1>1
  <2>2. PICK n \in 1 .. Len(result) - 1 : result[n] = "-" /\ result[n + 1] = "-"
    BY <2>1 DEF CommentInv, ValuesStartNoComment
  <2>3. /\ Len(result) >= 2
        /\ \E m \in DOMAIN params : params[m].variant = "Number" /\ params[m].text[1] = "-"
    BY <2>1 DEF CommentInv, ValuesStartNoComment
  <2>4. Len(result') = Len(result) + 1 /\ n \in 1 .. Len(result') - 1
    BY <1>1, <1>2
  <2>5. result'[n] = "-" /\ result'[n + 1] = "-"
    BY <1>1, <1>2, <2>2
  <2> QED BY <1>2, <2>3, <2>4, <2>5
<1> QED BY <1>1, <1>2, <1>3, <1>4, <1>5 DEF CommentInv

(* The characters of a value's word, and which of them lose the lexer. *)
LEMMA WordFacts ==
    ASSUME TypeOK, stage = "word", k < Len(FormatValue(Value).word)
    PROVE  LET c == FormatValue(Value).word[k + 1] IN
           /\ c \in Chars
           /\ c \notin {"/", "*", "\""}
           /\ c = "-" => /\ param_idx + 1 \in DOMAIN params
                         /\ params[param_idx + 1].variant = "Number"
                         /\ params[param_idx + 1].text[1] = "-"
<1> DEFINE c == FormatValue(Value).word[k + 1]
<1>1. param_idx + 1 \in 1 .. Len(params) /\ params \in ParamLists /\ param_idx < Len(params)
  BY TextFacts DEF TypeOK
<1>2. Value.text \in Seq(STRING) /\ Value.variant \in Variants /\ param_idx + 1 \in DOMAIN params
  BY <1>1, TextFacts DEF Value
<1>3. k + 1 \in DOMAIN FormatValue(Value).word
  BY <1>1, ValueFacts DEF TypeOK
<1>5. CASE Value.variant \in {"Bool", "Number"}
  <2>1. FormatValue(Value) = [word |-> Value.text, quoted |-> FALSE]
    BY <1>5 DEF FormatValue
  <2>2. c = Value.text[k + 1] /\ k + 1 \in DOMAIN Value.text
    BY <1>3, <2>1
  <2>3. c \in Chars
    BY <1>2, <2>2 DEF Chars
  <2>4. /\ c \notin {"/", "*", "\""}
        /\ c = "-" => Value.variant = "Number" /\ k + 1 = 1
    BY <1>1, <1>2, <1>5, <2>2, BareWordsAssumption DEF Value
  <2> HIDE DEF c
  <2> QED BY <1>2, <2>2, <2>3, <2>4 DEF Value, c
<1>6. CASE Value.variant \notin {"Bool", "Number"}
  <2>1. FormatValue(Value).word \in
            {<<>>, <<"NULL">>, <<"X">>, <<"DATE">>, <<"TIME">>, <<"TIMESTAMP">>, <<"DATETIME">>}
    BY <1>2, <1>6 DEF FormatValue, Variants
  <2>2. FormatValue(Value).word # <<>>
    BY <1>3
  <2>3. PICK w \in {"NULL", "X", "DATE", "TIME", "TIMESTAMP", "DATETIME"} :
            FormatValue(Value).word = <<w>>
    BY <2>1, <2>2, Zenon
  <2>4. c = w
    BY <1>3, <2>3
  <2> HIDE DEF c
  <2>5. c \in Chars /\ c \notin {"/", "*", "\""} /\ c # "-"
    BY <2>4 DEF Chars
  <2> QED BY <2>5 DEF c
<1> QED BY <1>5, <1>6

LEMMA CommentInit == Init => CommentInv
<1> SUFFICES ASSUME Init PROVE CommentInv
  OBVIOUS
<1> QED BY DEF Init, CommentInv, ValuesStartNoComment

LEMMA CommentNext == IInv /\ CommentInv /\ [Next]_vars => CommentInv'
<1> SUFFICES ASSUME IInv, CommentInv, [Next]_vars PROVE CommentInv'
  OBVIOUS
<1>t. TypeOK /\ ValuesContained
  BY DEF IInv
<1>l. lex \in LexStates
  BY <1>t DEF TypeOK, LexStates
<1>s. sql \in Seq(STRING) /\ Len(params) \in Nat
  BY <1>t, TextFacts, TextsAssumption DEF TypeOK
<1>p. stage \in {"word", "text", "again"} => params # <<>>
  <2>1. stage \in {"word", "text", "again"} => param_idx < Len(params) /\ param_idx \in 0 .. Len(params)
    BY <1>t DEF TypeOK
  <2> QED BY <1>s, <2>1
<1>v. stage = "text" => Value.text \in Seq(STRING)
  <2>1. stage = "text" => param_idx + 1 \in 1 .. Len(params) /\ params \in ParamLists
    BY <1>s, <1>t DEF TypeOK
  <2> QED BY <2>1, TextFacts DEF Value
<1>1. CASE NoParams
  <2>1. /\ params = <<>> /\ params' = params /\ lost' = lost /\ lex' = lex /\ result' = sql
    BY <1>1 DEF NoParams
  <2>2. lost = "no" /\ lex = "code"
    BY <2>1 DEF CommentInv
  <2>3. sql \in Seq(Chars)
    <3>1. STRING \subseteq Chars
      BY DEF Chars
    <3> QED BY <1>s, <3>1, SeqMonotonic
  <2> QED BY <2>1, <2>2, <2>3 DEF CommentInv, ValuesStartNoComment
<1>2. CASE Replace \/ Done \/ WordDone \/ UNCHANGED vars
  <2>1. UNCHANGED <<params, result, lex, lost>>
    BY <1>2 DEF Replace, Done, WordDone, vars
  <2> QED BY <2>1 DEF CommentInv, ValuesStartNoComment
<1>3. CASE Copy
  <2>1. Push(sql[i + 1], "sql") /\ params # <<>> /\ i < Len(sql)
    BY <1>3 DEF Copy
  <2>2. sql[i + 1] \in Chars
    BY <1>s, <1>t, <2>1 DEF TypeOK, Chars
  <2> QED BY <2>1, <2>2, PushKeeps
<1>4. CASE WriteWord
  <2> DEFINE c == FormatValue(Value).word[k + 1]
  <2>1. stage = "word" /\ k < Len(FormatValue(Value).word) /\ Push(c, "value")
    BY <1>4 DEF WriteWord
  <2>2. /\ c \in Chars
        /\ c \notin {"/", "*", "\""}
        /\ c = "-" => /\ param_idx + 1 \in DOMAIN params
                      /\ params[param_idx + 1].variant = "Number"
                      /\ params[param_idx + 1].text[1] = "-"
    BY <1>t, <2>1, WordFacts
  <2> HIDE DEF c
  <2>3. CASE ~(lost = "no" /\ lex' = "lost")
    BY <1>p, <2>1, <2>2, <2>3, PushKeeps
  <2>4. CASE lost = "no" /\ lex' = "lost"
    <3>1. lex \in Outside
      BY <1>t, <2>1, <2>4 DEF ValuesContained
    <3>2. Lex(lex, c) = "lost" /\ result' = Append(result, c) /\ params' = params
      BY <2>1, <2>4 DEF Push
    <3>3. c = "-" /\ lex = "dash"
      BY <2>2, <3>1, <3>2, LexLost
    <3>4. result \in Seq(Chars) /\ result # <<>> /\ result[Len(result)] = "-"
      BY <2>4, <3>3 DEF CommentInv
    <3>5. /\ Len(result') >= 2
          /\ \E n \in 1 .. Len(result') - 1 : result'[n] = "-" /\ result'[n + 1] = "-"
      BY <3>2, <3>3, <3>4, MinusAppended
    <3>6. \E n \in DOMAIN params' : params'[n].variant = "Number" /\ params'[n].text[1] = "-"
      BY <2>2, <3>2, <3>3
    <3>7. result' \in Seq(Chars)
      <4>1. c \in Chars
        BY <2>2
      <4>2. result' = Append(result, c) /\ result \in Seq(Chars)
        BY <3>2, <3>4
      <4> QED BY <4>1, <4>2
    <3>8. params' # <<>>
      BY <1>p, <2>1, <3>2
    <3> QED BY <2>4, <3>5, <3>6, <3>7, <3>8 DEF CommentInv, ValuesStartNoComment
  <2> QED BY <2>3, <2>4
<1>5. CASE OpenQuote \/ WriteQuoteAgain
  <2>1. Push("'", "value") /\ stage \in {"word", "again"}
    BY <1>5 DEF OpenQuote, WriteQuoteAgain
  <2>2. lost = "no" => lex' # "lost"
    <3>1. lost = "no" => lex \in Outside
      BY <1>t, <2>1 DEF ValuesContained, Outside
    <3> QED BY <1>l, <2>1, <3>1, LexFacts DEF Push
  <2>3. "'" \in Chars
    BY DEF Chars
  <2> QED BY <1>p, <2>1, <2>2, <2>3, PushKeeps
<1>6. CASE WriteText \/ CloseQuote
  <2>1. PICK c \in Chars : Push(c, "value")
    <3>1. CASE WriteText
      <4>1. Push(Value.text[k + 1], "value") /\ k < Len(Value.text) /\ stage = "text"
        BY <3>1 DEF WriteText
      <4>2. Value.text[k + 1] \in Chars
        BY <1>t, <1>v, <4>1 DEF TypeOK, Chars
      <4> QED BY <4>1, <4>2
    <3>2. CASE CloseQuote
      <4>1. Push("'", "value") /\ "'" \in Chars
        BY <3>2 DEF CloseQuote, Chars
      <4> QED BY <4>1
    <3> QED BY <1>6, <3>1, <3>2
  <2>2. stage = "text"
    BY <1>6 DEF WriteText, CloseQuote
  <2>3. lost = "no" => lex' # "lost"
    <3>1. lost = "no" => lex = "literal"
      BY <1>t, <2>2 DEF ValuesContained
    <3> QED BY <1>l, <2>1, <3>1, LexFacts DEF Push
  <2> QED BY <1>p, <2>1, <2>2, <2>3, PushKeeps
<1> QED BY <1>1, <1>2, <1>3, <1>4, <1>5, <1>6 DEF Next

(* A value written by format_value never opens a comment or a quoted       *)
(* identifier, for all statements and parameters, except where             *)
(* interpolate_params puts a negative number right behind a minus sign.    *)
THEOREM NoCommentFromValues == Spec => []ValuesStartNoComment
<1>1. Init => IInv /\ CommentInv
  BY InitInv, CommentInit
<1>2. IInv /\ CommentInv /\ [Next]_vars => (IInv /\ CommentInv)'
  BY NextInv, CommentNext
<1>3. CommentInv => ValuesStartNoComment
  BY DEF CommentInv
<1> QED BY <1>1, <1>2, <1>3, PTL DEF Spec

-----------------------------------------------------------------------------
(* What the output is: PlaceholdersReplaced.                               *)

(* The output for the first n characters of a statement. *)
Prefix(s, ps, n) == FlattenSeq([m \in 1 .. n |-> Piece(s, ps, m)])

(* A quoted value, as far as n characters of its text. *)
Quoting(v, n) == (FormatValue(v).word \o <<"'">>) \o Doubled(SubSeq(v.text, 1, n))

(* The scanner's flag is the parity of the quotes it has passed.           *)
LiteralInStep == literal <=> QuotesBefore(sql, i + 1) % 2 = 1

(* Between values the output is that of the characters consumed, and the   *)
(* parameters used are as many as the placeholders passed.                 *)
ScanInStep ==
    stage = "scan" /\ params # <<>> =>
        /\ param_idx = IF MarksUpTo(sql, i) <= Len(params)
                       THEN MarksUpTo(sql, i) ELSE Len(params)
        /\ result = Prefix(sql, params, i)

(* Inside a value the output has a part of it after the characters before  *)
(* its placeholder.                                                        *)
ValueInStep ==
    stage \in {"word", "text", "again"} =>
        /\ i >= 1 /\ IsMark(sql, i) /\ MarksUpTo(sql, i) = param_idx + 1
        /\ stage = "word" =>
              /\ k <= Len(FormatValue(Value).word)
              /\ result = Prefix(sql, params, i - 1) \o SubSeq(FormatValue(Value).word, 1, k)
        /\ stage = "text" =>
              /\ FormatValue(Value).quoted
              /\ k <= Len(Value.text)
              /\ result = Prefix(sql, params, i - 1) \o Quoting(Value, k)
        /\ stage = "again" =>
              /\ FormatValue(Value).quoted
              /\ k \in 1 .. Len(Value.text) /\ Value.text[k] = "'"
              /\ result = Prefix(sql, params, i - 1) \o (Quoting(Value, k - 1) \o <<"'">>)

ReplaceInv == LiteralInStep /\ ScanInStep /\ ValueInStep /\ PlaceholdersReplaced

-----------------------------------------------------------------------------
(* Counting quotes and placeholders *)

(* One more number to look at: it counts, or it does not.                  *)
LEMMA CountOneMore ==
    ASSUME NEW n \in Nat, NEW P, NEW Q, Q = P \/ Q = P \cup {n}, P \subseteq 1 .. n - 1
    PROVE  /\ Cardinality(P) \in Nat
           /\ Cardinality(Q) = Cardinality(P) + (IF n \in Q THEN 1 ELSE 0)
<1>1. IsFiniteSet(P)
  <2>1. n - 1 \in Int /\ 1 \in Int
    OBVIOUS
  <2>2. IsFiniteSet(1 .. n - 1)
    BY <2>1, FS_Interval
  <2>. QED  BY <2>2, FS_Subset
<1>2. Cardinality(P) \in Nat
  BY <1>1, FS_CardinalityType
<1>3. n \notin P
  OBVIOUS
<1>4. Cardinality(P \cup {n}) = Cardinality(P) + 1
  BY <1>1, <1>3, FS_AddElement
<1>. QED  BY <1>2, <1>3, <1>4

LEMMA QuotesCounted ==
    ASSUME NEW s, NEW n \in Nat \ {0}
    PROVE  /\ QuotesBefore(s, n) \in Nat
           /\ QuotesBefore(s, n + 1) = QuotesBefore(s, n) + (IF s[n] = "'" THEN 1 ELSE 0)
<1>. DEFINE P == {m \in 1 .. n - 1 : s[m] = "'"}
<1>. DEFINE Q == {m \in 1 .. (n + 1) - 1 : s[m] = "'"}
<1>1. P \subseteq 1 .. n - 1
  OBVIOUS
<1>2. n \in Q <=> s[n] = "'"
  OBVIOUS
<1>3. Q = P \/ Q = P \cup {n}
  <2>1. \A m : m \in 1 .. (n + 1) - 1 <=> m \in 1 .. n - 1 \/ m = n
    OBVIOUS
  <2>. QED  BY <2>1
<1>4. QuotesBefore(s, n) = Cardinality(P) /\ QuotesBefore(s, n + 1) = Cardinality(Q)
  BY DEF QuotesBefore
<1>. HIDE DEF P, Q
<1>5. /\ Cardinality(P) \in Nat
      /\ Cardinality(Q) = Cardinality(P) + (IF n \in Q THEN 1 ELSE 0)
  BY <1>1, <1>3, CountOneMore
<1>. QED  BY <1>2, <1>4, <1>5

LEMMA MarksCounted ==
    ASSUME NEW s, NEW n \in Nat
    PROVE  /\ MarksUpTo(s, n) \in Nat
           /\ MarksUpTo(s, n + 1) = MarksUpTo(s, n) + (IF IsMark(s, n + 1) THEN 1 ELSE 0)
<1>. DEFINE P == {m \in 1 .. n : IsMark(s, m)}
<1>. DEFINE Q == {m \in 1 .. n + 1 : IsMark(s, m)}
<1>1. P \subseteq 1 .. (n + 1) - 1
  OBVIOUS
<1>2. n + 1 \in Q <=> IsMark(s, n + 1)
  OBVIOUS
<1>3. Q = P \/ Q = P \cup {n + 1}
  <2>1. \A m : m \in 1 .. n + 1 <=> m \in 1 .. n \/ m = n + 1
    OBVIOUS
  <2>. QED  BY <2>1
<1>4. MarksUpTo(s, n) = Cardinality(P) /\ MarksUpTo(s, n + 1) = Cardinality(Q)
  BY DEF MarksUpTo
<1>. HIDE DEF P, Q
<1>5. /\ Cardinality(P) \in Nat
      /\ Cardinality(Q) = Cardinality(P) + (IF n + 1 \in Q THEN 1 ELSE 0)
  <2>1. n + 1 \in Nat
    OBVIOUS
  <2>. QED  BY <1>1, <1>3, <2>1, CountOneMore
<1>. QED  BY <1>2, <1>4, <1>5

LEMMA NothingCounted == ASSUME NEW s PROVE QuotesBefore(s, 1) = 0 /\ MarksUpTo(s, 0) = 0
<1>1. {m \in 1 .. 1 - 1 : s[m] = "'"} = {} /\ {m \in 1 .. 0 : IsMark(s, m)} = {}
  OBVIOUS
<1>. QED  BY <1>1, FS_EmptySet DEF QuotesBefore, MarksUpTo

-----------------------------------------------------------------------------
(* The pieces of the output *)

LEMMA FormatTyped ==
    ASSUME NEW v, v.variant \in Variants, v.text \in Seq(STRING)
    PROVE  /\ FormatValue(v).word \in Seq(Chars)
           /\ FormatValue(v).quoted \in BOOLEAN
           /\ v.text \in Seq(Chars)
<1>1. v.text \in Seq(Chars)
  <2>1. STRING \subseteq Chars
    BY DEF Chars
  <2>. QED  BY <2>1, SeqMonotonic
<1>2. CASE v.variant \in {"Bool", "Number"}
  BY <1>1, <1>2 DEF FormatValue
<1>3. CASE v.variant \notin {"Bool", "Number"}
  <2>1. /\ FormatValue(v).word \in
            {<<>>, <<"NULL">>, <<"X">>, <<"DATE">>, <<"TIME">>, <<"TIMESTAMP">>, <<"DATETIME">>}
        /\ FormatValue(v).quoted \in BOOLEAN
    BY <1>3 DEF FormatValue, Variants
  <2>2. CASE FormatValue(v).word = <<>>
    BY <1>1, <2>1, <2>2
  <2>3. CASE FormatValue(v).word # <<>>
    <3>1. PICK w \in {"NULL", "X", "DATE", "TIME", "TIMESTAMP", "DATETIME"} :
              FormatValue(v).word = <<w>>
      BY <2>1, <2>3, Zenon
    <3>2. w \in Chars
      BY DEF Chars
    <3>. QED  BY <1>1, <2>1, <3>1, <3>2
  <2>. QED  BY <2>2, <2>3
<1>. QED  BY <1>2, <1>3

(* replace: the doubled text grows by a character, or by two quotes.       *)
LEMMA DoubledGrows ==
    ASSUME NEW text \in Seq(Chars), NEW n \in Nat, n < Len(text)
    PROVE  /\ Doubled(SubSeq(text, 1, n)) \in Seq(Chars)
           /\ Doubled(SubSeq(text, 1, n + 1)) =
                Doubled(SubSeq(text, 1, n)) \o
                (IF text[n + 1] = "'" THEN <<"'", "'">> ELSE <<text[n + 1]>>)
<1>. DEFINE e(c) == IF c = "'" THEN <<"'", "'">> ELSE <<c>>
<1>. DEFINE t == SubSeq(text, 1, n)
<1>. DEFINE u == SubSeq(text, 1, n + 1)
<1>. DEFINE g == [m \in DOMAIN t |-> e(t[m])]
<1>. DEFINE f == [m \in DOMAIN u |-> e(u[m])]
<1>1. ASSUME NEW c \in Chars PROVE e(c) \in Seq(Chars)
  <2>1. "'" \in Chars
    BY DEF Chars
  <2>. QED  BY <2>1
<1>2. /\ DOMAIN t = 1 .. n /\ DOMAIN u = 1 .. n + 1
      /\ \A m \in 1 .. n : t[m] = text[m] /\ text[m] \in Chars
      /\ \A m \in 1 .. n + 1 : u[m] = text[m] /\ text[m] \in Chars
  OBVIOUS
<1>3. Doubled(t) = FlattenSeq(g) /\ Doubled(u) = FlattenSeq(f)
  BY DEF Doubled
<1>. HIDE DEF t, u, e
<1>4. g \in [1 .. n -> Seq(Chars)] /\ f \in [1 .. n + 1 -> Seq(Chars)]
  BY <1>1, <1>2
<1>5. \A m \in 1 .. n : g[m] = f[m]
  BY <1>2
<1>6. f[n + 1] = e(text[n + 1])
  BY <1>2
<1>. HIDE DEF f, g
<1>7. g \in Seq(Seq(Chars)) /\ f[n + 1] \in Seq(Chars) /\ f = Append(g, f[n + 1])
  BY <1>4, <1>5, OneMore
<1>8. FlattenSeq(g) \in Seq(Chars) /\ FlattenSeq(f) = FlattenSeq(g) \o f[n + 1]
  BY <1>7, FlattenAppend
<1>. QED  BY <1>3, <1>6, <1>8 DEF e, t, u

LEMMA DoubledTyped ==
    ASSUME NEW text \in Seq(Chars)
    PROVE  /\ Doubled(SubSeq(text, 1, 0)) = <<>>
           /\ \A n \in 0 .. Len(text) : Doubled(SubSeq(text, 1, n)) \in Seq(Chars)
           /\ Doubled(text) \in Seq(Chars)
<1>1. Doubled(SubSeq(text, 1, 0)) = <<>>
  <2>1. SubSeq(text, 1, 0) = <<>>
    BY SubSeqEmpty
  <2>2. [m \in DOMAIN <<>> |-> IF <<>>[m] = "'" THEN <<"'", "'">> ELSE << <<>>[m] >>] = <<>>
    OBVIOUS
  <2>. QED  BY <2>1, <2>2 DEF Doubled, FlattenSeq
<1>2. ASSUME NEW n \in 0 .. Len(text) PROVE Doubled(SubSeq(text, 1, n)) \in Seq(Chars)
  <2>1. CASE n < Len(text)
    <3>1. n \in Nat
      OBVIOUS
    <3>. QED  BY <2>1, <3>1, DoubledGrows
  <2>2. CASE n = Len(text) /\ n > 0
    <3>1. n - 1 \in Nat /\ n - 1 < Len(text) /\ (n - 1) + 1 = n
      BY <2>2
    <3>2. /\ Doubled(SubSeq(text, 1, n - 1)) \in Seq(Chars)
          /\ Doubled(SubSeq(text, 1, n)) = Doubled(SubSeq(text, 1, n - 1)) \o
                (IF text[n] = "'" THEN <<"'", "'">> ELSE <<text[n]>>)
      BY <3>1, DoubledGrows
    <3>3. text[n] \in Chars /\ "'" \in Chars
      BY <2>2 DEF Chars
    <3>4. (IF text[n] = "'" THEN <<"'", "'">> ELSE <<text[n]>>) \in Seq(Chars)
      <4>1. \A c \in Chars : <<c>> \in Seq(Chars) /\ <<c, c>> \in Seq(Chars)
        OBVIOUS
      <4>. QED  BY <3>3, <4>1
    <3>. QED  BY <3>2, <3>4, ConcatProperties
  <2>3. CASE n = 0
    <3>1. <<>> \in Seq(Chars)
      OBVIOUS
    <3>. QED  BY <1>1, <2>3, <3>1, Zenon
  <2>. QED  BY <2>1, <2>2, <2>3
<1>3. SubSeq(text, 1, Len(text)) = text /\ Len(text) \in 0 .. Len(text)
  BY SubSeqFull
<1>. QED  BY <1>1, <1>2, <1>3

LEMMA FormattedTyped ==
    ASSUME NEW v, v.variant \in Variants, v.text \in Seq(STRING)
    PROVE  Formatted(v) \in Seq(Chars)
<1>1. /\ FormatValue(v).word \in Seq(Chars) /\ Doubled(v.text) \in Seq(Chars)
      /\ <<"'">> \in Seq(Chars) /\ <<>> \in Seq(Chars)
  <2>1. "'" \in Chars
    BY DEF Chars
  <2>. QED  BY <2>1, FormatTyped, DoubledTyped
<1>2. <<"'">> \o Doubled(v.text) \o <<"'">> \in Seq(Chars)
  BY <1>1, ConcatProperties
<1>. QED  BY <1>1, <1>2, ConcatProperties DEF Formatted

LEMMA PieceTyped ==
    ASSUME NEW s \in Statements, NEW ps \in ParamLists, NEW n \in 1 .. Len(s)
    PROVE  Piece(s, ps, n) \in Seq(Chars)
<1>1. CASE ~(IsMark(s, n) /\ MarksUpTo(s, n) <= Len(ps))
  <2>1. s \in Seq(STRING)
    BY TextsAssumption
  <2>2. s[n] \in Chars
    BY <2>1 DEF Chars
  <2>. QED  BY <1>1, <2>2 DEF Piece
<1>2. CASE IsMark(s, n) /\ MarksUpTo(s, n) <= Len(ps)
  <2>1. n \in Nat /\ n - 1 \in Nat /\ (n - 1) + 1 = n
    BY TextFacts
  <2>2. MarksUpTo(s, n - 1) \in Nat /\ MarksUpTo(s, n) = MarksUpTo(s, n - 1) + 1
    BY <1>2, <2>1, MarksCounted
  <2>3. MarksUpTo(s, n) \in 1 .. Len(ps)
    BY <1>2, <2>2, TextFacts
  <2>. DEFINE v == ps[MarksUpTo(s, n)]
  <2>4. v.variant \in Variants /\ v.text \in Seq(STRING)
    BY <2>3, TextFacts
  <2>. HIDE DEF v
  <2>5. Formatted(v) \in Seq(Chars)
    BY <2>4, FormattedTyped
  <2>. QED  BY <1>2, <2>5 DEF Piece, v
<1>. QED  BY <1>1, <1>2

(* The output of one more character. *)
LEMMA PrefixGrows ==
    ASSUME NEW s \in Statements, NEW ps \in ParamLists, NEW n \in Nat, n < Len(s)
    PROVE  /\ Prefix(s, ps, n) \in Seq(Chars)
           /\ Piece(s, ps, n + 1) \in Seq(Chars)
           /\ Prefix(s, ps, n + 1) = Prefix(s, ps, n) \o Piece(s, ps, n + 1)
<1>. DEFINE f == [m \in 1 .. n + 1 |-> Piece(s, ps, m)]
<1>. DEFINE g == [m \in 1 .. n |-> Piece(s, ps, m)]
<1>1. \A m \in 1 .. n + 1 : m \in 1 .. Len(s)
  BY TextFacts
<1>2. \A m \in 1 .. n + 1 : Piece(s, ps, m) \in Seq(Chars)
  BY <1>1, PieceTyped
<1>3. n + 1 \in 1 .. n + 1 /\ \A m \in 1 .. n : m \in 1 .. n + 1
  OBVIOUS
<1>4. /\ f \in [1 .. n + 1 -> Seq(Chars)] /\ g \in [1 .. n -> Seq(Chars)]
      /\ f[n + 1] = Piece(s, ps, n + 1) /\ \A m \in 1 .. n : g[m] = f[m]
  BY <1>2, <1>3
<1>5. Prefix(s, ps, n + 1) = FlattenSeq(f) /\ Prefix(s, ps, n) = FlattenSeq(g)
  BY DEF Prefix
<1>. HIDE DEF f, g
<1>6. g \in Seq(Seq(Chars)) /\ f[n + 1] \in Seq(Chars) /\ f = Append(g, f[n + 1])
  BY <1>4, OneMore
<1>7. FlattenSeq(g) \in Seq(Chars) /\ FlattenSeq(f) = FlattenSeq(g) \o f[n + 1]
  BY <1>6, FlattenAppend
<1>. QED  BY <1>4, <1>5, <1>6, <1>7

LEMMA PrefixEmpty == ASSUME NEW s, NEW ps PROVE Prefix(s, ps, 0) = <<>>
<1>1. [m \in 1 .. 0 |-> Piece(s, ps, m)] = <<>>
  OBVIOUS
<1>. QED  BY <1>1 DEF Prefix, FlattenSeq

(* Without parameters every character stays. *)
LEMMA NothingReplaced ==
    ASSUME NEW s \in Statements, <<>> \in ParamLists
    PROVE  Prefix(s, <<>>, Len(s)) = s
<1>1. s \in Seq(STRING) /\ Len(s) \in Nat
  BY TextsAssumption
<1>. DEFINE T == {m \in Nat : m <= Len(s) => Prefix(s, <<>>, m) = SubSeq(s, 1, m)}
<1>2. 0 \in T
  <2>1. SubSeq(s, 1, 0) = <<>>
    BY SubSeqEmpty
  <2>2. Prefix(s, <<>>, 0) = <<>>
    BY PrefixEmpty
  <2>. QED  BY <2>1, <2>2
<1>3. ASSUME NEW m \in 0 .. Len(s) - 1, m \in T PROVE m + 1 \in T
  <2>1. m \in Nat /\ m < Len(s) /\ m + 1 \in 1 .. Len(s)
    BY <1>1
  <2>2. MarksUpTo(s, m) \in Nat /\
        MarksUpTo(s, m + 1) = MarksUpTo(s, m) + (IF IsMark(s, m + 1) THEN 1 ELSE 0)
    BY <2>1, MarksCounted
  <2>3. Len(<<>>) = 0 /\ ~(IsMark(s, m + 1) /\ MarksUpTo(s, m + 1) <= 0)
    BY <2>2
  <2>4. Piece(s, <<>>, m + 1) = <<s[m + 1]>>
    BY <2>3 DEF Piece
  <2>5. Prefix(s, <<>>, m + 1) = Prefix(s, <<>>, m) \o <<s[m + 1]>>
    BY <2>1, <2>4, PrefixGrows
  <2>6. SubSeq(s, 1, m + 1) = SubSeq(s, 1, m) \o <<s[m + 1]>>
    <3>1. 1 \in 1 .. Len(s) /\ m + 1 \in 1 .. Len(s) /\ (m + 1) - 1 = m
      BY <2>1
    <3>. QED  BY <1>1, <3>1, SubSeqRecursiveSecond
  <2>7. Prefix(s, <<>>, m) = SubSeq(s, 1, m)
    BY <1>3, <2>1
  <2>. QED  BY <2>1, <2>5, <2>6, <2>7
<1>. HIDE DEF T
<1>4. Len(s) \in T
  BY <1>1, <1>2, <1>3, SetInduction
<1>. QED  BY <1>1, <1>4, SubSeqFull DEF T

-----------------------------------------------------------------------------
(* The parts of a value *)

LEMMA AppendInside ==
    ASSUME NEW p \in Seq(Chars), NEW q \in Seq(Chars), NEW c \in Chars
    PROVE  /\ Append(p \o q, c) = p \o Append(q, c)
           /\ Append(q, c) = q \o <<c>> /\ <<c>> \in Seq(Chars)
<1>1. /\ <<c>> \in Seq(Chars) /\ p \o q \in Seq(Chars)
  BY ConcatProperties
<1>2. Append(q, c) = q \o <<c>> /\ Append(p \o q, c) = (p \o q) \o <<c>>
  BY <1>1, AppendIsConcat
<1>3. (p \o q) \o <<c>> = p \o (q \o <<c>>)
  BY <1>1, ConcatAssociative
<1>. QED  BY <1>1, <1>2, <1>3

(* A quote, the text with quotes doubled, a quote: what format! makes.     *)
LEMMA QuotingGrows ==
    ASSUME NEW v, v.variant \in Variants, v.text \in Seq(STRING)
    PROVE  /\ Quoting(v, 0) = Append(FormatValue(v).word, "'")
           /\ \A n \in 0 .. Len(v.text) : Quoting(v, n) \in Seq(Chars)
           /\ \A n \in 0 .. Len(v.text) - 1 :
                 Quoting(v, n + 1) = IF v.text[n + 1] = "'"
                                     THEN Append(Append(Quoting(v, n), "'"), "'")
                                     ELSE Append(Quoting(v, n), v.text[n + 1])
           /\ FormatValue(v).quoted =>
                 Append(Quoting(v, Len(v.text)), "'") = Formatted(v)
           /\ ~FormatValue(v).quoted => FormatValue(v).word = Formatted(v)
<1>. DEFINE w == FormatValue(v).word
<1>. DEFINE t == v.text
<1>. DEFINE q == <<"'">>
<1>. DEFINE D(n) == Doubled(SubSeq(t, 1, n))
<1>1. w \in Seq(Chars) /\ t \in Seq(Chars) /\ Len(t) \in Nat
  BY FormatTyped
<1>2. "'" \in Chars /\ q \in Seq(Chars)
  BY DEF Chars
<1>3. /\ D(0) = <<>> /\ Doubled(t) \in Seq(Chars)
      /\ \A n \in 0 .. Len(t) : D(n) \in Seq(Chars)
  BY <1>1, DoubledTyped
<1>4. \A n \in 0 .. Len(t) - 1 :
          D(n + 1) = D(n) \o (IF t[n + 1] = "'" THEN <<"'", "'">> ELSE <<t[n + 1]>>)
  <2>1. ASSUME NEW n \in 0 .. Len(t) - 1 PROVE n \in Nat /\ n < Len(t)
    BY <1>1
  <2>. QED  BY <1>1, <2>1, DoubledGrows
<1>5. \A n : Quoting(v, n) = (w \o q) \o D(n)
  BY DEF Quoting
<1>6. D(Len(t)) = Doubled(t)
  <2>1. SubSeq(t, 1, Len(t)) = t
    BY <1>1, SubSeqFull
  <2>. QED  BY <2>1
<1>7. Formatted(v) = w \o (IF FormatValue(v).quoted THEN (q \o Doubled(t)) \o q ELSE <<>>)
  BY DEF Formatted
<1>. HIDE DEF w, t, q, D
<1>8. w \o q \in Seq(Chars) /\ w \o q = Append(w, "'")
  BY <1>1, <1>2, ConcatProperties, AppendInside DEF q
<1>9. Quoting(v, 0) = Append(w, "'")
  BY <1>3, <1>5, <1>8, ConcatEmptySeq
<1>10. \A n \in 0 .. Len(t) : Quoting(v, n) \in Seq(Chars)
  BY <1>3, <1>5, <1>8, ConcatProperties
<1>11. ASSUME NEW n \in 0 .. Len(t) - 1
       PROVE  Quoting(v, n + 1) = IF t[n + 1] = "'" THEN Append(Append(Quoting(v, n), "'"), "'")
                                  ELSE Append(Quoting(v, n), t[n + 1])
  <2>1. D(n) \in Seq(Chars) /\ t[n + 1] \in Chars
    BY <1>1, <1>3
  <2>2. CASE t[n + 1] # "'"
    <3>1. D(n + 1) = Append(D(n), t[n + 1])
      <4>1. D(n + 1) = D(n) \o <<t[n + 1]>>
        BY <1>4, <2>2
      <4>2. Append(D(n), t[n + 1]) = D(n) \o <<t[n + 1]>>
        BY <2>1, AppendIsConcat
      <4>. QED  BY <4>1, <4>2
    <3>2. Append((w \o q) \o D(n), t[n + 1]) = (w \o q) \o Append(D(n), t[n + 1])
      BY <1>8, <2>1, AppendInside
    <3>. QED  BY <1>5, <2>2, <3>1, <3>2
  <2>3. CASE t[n + 1] = "'"
    <3>1. D(n + 1) = D(n) \o <<"'", "'">>
      BY <1>4, <2>3
    <3>2. D(n) \o <<"'", "'">> = Append(Append(D(n), "'"), "'")
      <4>1. <<"'", "'">> = q \o q
        BY DEF q
      <4>2. (D(n) \o q) \o q = D(n) \o (q \o q)
        BY <1>2, <2>1, ConcatAssociative
      <4>3. Append(D(n), "'") = D(n) \o q /\ D(n) \o q \in Seq(Chars)
        BY <1>2, <2>1, AppendInside, ConcatProperties DEF q
      <4>4. Append(D(n) \o q, "'") = (D(n) \o q) \o q
        BY <1>2, <4>3, AppendInside DEF q
      <4>. QED  BY <4>1, <4>2, <4>3, <4>4
    <3>3. /\ Append(D(n), "'") \in Seq(Chars)
          /\ Append((w \o q) \o D(n), "'") = (w \o q) \o Append(D(n), "'")
      BY <1>2, <1>8, <2>1, AppendInside, AppendProperties
    <3>4. Append((w \o q) \o Append(D(n), "'"), "'") = (w \o q) \o Append(Append(D(n), "'"), "'")
      BY <1>2, <1>8, <3>3, AppendInside
    <3>. QED  BY <1>5, <2>3, <3>1, <3>2, <3>3, <3>4
  <2>. QED  BY <2>2, <2>3
<1>12. Append(Quoting(v, Len(t)), "'") = w \o ((q \o Doubled(t)) \o q)
  <2>1. Quoting(v, Len(t)) = (w \o q) \o Doubled(t)
    BY <1>5, <1>6
  <2>2. (w \o q) \o Doubled(t) = w \o (q \o Doubled(t))
    <3>1. w \in Seq(Chars) /\ q \in Seq(Chars) /\ Doubled(t) \in Seq(Chars)
      BY <1>1, <1>2, <1>3
    <3>. QED  BY <3>1, ConcatAssociative
  <2>3. q \o Doubled(t) \in Seq(Chars)
    BY <1>2, <1>3, ConcatProperties
  <2>4. /\ Append(w \o (q \o Doubled(t)), "'") = w \o Append(q \o Doubled(t), "'")
        /\ Append(q \o Doubled(t), "'") = (q \o Doubled(t)) \o q
    BY <1>1, <1>2, <2>3, AppendInside DEF q
  <2>. QED  BY <2>1, <2>2, <2>4
<1>13. w \o <<>> = w
  BY <1>1, ConcatEmptySeq
<1>. QED  BY <1>7, <1>9, <1>10, <1>11, <1>12, <1>13 DEF w, t

-----------------------------------------------------------------------------
(* The invariant *)

LEMMA ReplaceInit == Init => ReplaceInv
<1>. SUFFICES ASSUME Init PROVE ReplaceInv
  OBVIOUS
<1>1. LiteralInStep
  BY NothingCounted DEF Init, LiteralInStep
<1>2. ScanInStep
  <2>1. Len(params) \in Nat
    BY TextFacts DEF Init
  <2>2. MarksUpTo(sql, i) = 0 /\ Prefix(sql, params, i) = <<>>
    BY NothingCounted, PrefixEmpty DEF Init
  <2>. QED  BY <2>1, <2>2 DEF Init, ScanInStep
<1>3. ValueInStep /\ PlaceholdersReplaced
  BY DEF Init, ValueInStep, PlaceholdersReplaced
<1>. QED  BY <1>1, <1>2, <1>3 DEF ReplaceInv

(* The types of statement and value while one of them is copied. *)
LEMMA ReplaceTypes ==
    ASSUME TypeOK
    PROVE  /\ sql \in Statements /\ params \in ParamLists
           /\ Len(sql) \in Nat /\ Len(params) \in Nat /\ i \in Nat /\ k \in Nat
           /\ \A n \in 1 .. Len(sql) : sql[n] \in Chars
           /\ stage \in {"word", "text", "again"} =>
                 /\ Value.variant \in Variants
                 /\ Value.text \in Seq(STRING)
                 /\ FormatValue(Value).word \in Seq(Chars)
                 /\ Len(FormatValue(Value).word) \in Nat
                 /\ FormatValue(Value).quoted \in BOOLEAN
                 /\ Len(Value.text) \in Nat
                 /\ \A n \in 1 .. Len(Value.text) : Value.text[n] \in Chars
<1>1. /\ sql \in Statements /\ params \in ParamLists
      /\ Len(sql) \in Nat /\ Len(params) \in Nat /\ i \in Nat /\ k \in Nat
  BY TextFacts DEF TypeOK
<1>2. \A n \in 1 .. Len(sql) : sql[n] \in Chars
  <2>1. sql \in Seq(STRING)
    BY <1>1, TextsAssumption
  <2>. QED  BY <2>1 DEF Chars
<1>3. ASSUME stage \in {"word", "text", "again"}
      PROVE  /\ Value.variant \in Variants
             /\ Value.text \in Seq(STRING)
             /\ FormatValue(Value).word \in Seq(Chars)
             /\ Len(FormatValue(Value).word) \in Nat
             /\ FormatValue(Value).quoted \in BOOLEAN
             /\ Len(Value.text) \in Nat
             /\ \A n \in 1 .. Len(Value.text) : Value.text[n] \in Chars
  <2>1. param_idx + 1 \in 1 .. Len(params)
    BY <1>1, <1>3 DEF TypeOK
  <2>2. Value.variant \in Variants /\ Value.text \in Seq(STRING)
    BY <1>1, <2>1, TextFacts DEF Value
  <2>3. FormatValue(Value).word \in Seq(Chars) /\ FormatValue(Value).quoted \in BOOLEAN
    BY <2>2, FormatTyped
  <2>. QED  BY <2>2, <2>3 DEF Chars
<1>. QED  BY <1>1, <1>2, <1>3

(* One more character of a value. *)
LEMMA ValueGrows ==
    ASSUME IInv, ReplaceInv, stage \in {"word", "text", "again"},
           stage' \in {"word", "text", "again"},
           NEW c \in Chars, Push(c, "value"), UNCHANGED <<i, literal, param_idx>>,
           NEW part \in Seq(Chars), result = Prefix(sql, params, i - 1) \o part,
           \/ /\ stage' = "word" /\ k' <= Len(FormatValue(Value).word)
              /\ Append(part, c) = SubSeq(FormatValue(Value).word, 1, k')
           \/ /\ stage' = "text" /\ FormatValue(Value).quoted /\ k' <= Len(Value.text)
              /\ Append(part, c) = Quoting(Value, k')
           \/ /\ stage' = "again" /\ FormatValue(Value).quoted
              /\ k' \in 1 .. Len(Value.text) /\ Value.text[k'] = "'"
              /\ Append(part, c) = Quoting(Value, k' - 1) \o <<"'">>
    PROVE  ReplaceInv'
<1>1. result' = Append(result, c) /\ sql' = sql /\ params' = params
  BY DEF Push
<1>2. Value' = Value
  BY <1>1 DEF Value
<1>3. /\ i \in Nat /\ i - 1 \in Nat /\ i - 1 < Len(sql)
      /\ IsMark(sql, i) /\ MarksUpTo(sql, i) = param_idx + 1
      /\ sql \in Statements /\ params \in ParamLists
  BY ReplaceTypes DEF IInv, TypeOK, ReplaceInv, ValueInStep
<1>4. Prefix(sql, params, i - 1) \in Seq(Chars)
  BY <1>3, PrefixGrows
<1>5. result' = Prefix(sql, params, i - 1) \o Append(part, c)
  BY <1>1, <1>4, AppendInside
<1>6. ValueInStep'
  <2>1. i' >= 1 /\ IsMark(sql', i') /\ MarksUpTo(sql', i') = param_idx' + 1
    BY <1>1, <1>3
  <2>2. result' = Prefix(sql', params', i' - 1) \o Append(part, c)
    BY <1>1, <1>5
  <2>3. CASE stage' = "word"
    BY <1>2, <2>1, <2>2, <2>3 DEF ValueInStep
  <2>4. CASE stage' = "text"
    BY <1>2, <2>1, <2>2, <2>4 DEF ValueInStep
  <2>5. CASE stage' = "again"
    BY <1>2, <2>1, <2>2, <2>5 DEF ValueInStep
  <2>. QED  BY <2>3, <2>4, <2>5
<1>7. LiteralInStep' /\ ScanInStep' /\ PlaceholdersReplaced'
  BY <1>1 DEF ReplaceInv, LiteralInStep, ScanInStep, PlaceholdersReplaced
<1>. QED  BY <1>6, <1>7 DEF ReplaceInv

(* A value ends: its placeholder has been replaced. *)
LEMMA ValueEnds ==
    ASSUME IInv, ReplaceInv, stage \in {"word", "text"}, stage' = "scan",
           UNCHANGED <<sql, params, i, literal>>, param_idx' = param_idx + 1,
           result' = Prefix(sql, params, i - 1) \o Formatted(Value)
    PROVE  ReplaceInv'
<1>1. /\ i \in Nat /\ i - 1 \in Nat /\ i - 1 < Len(sql) /\ (i - 1) + 1 = i
      /\ IsMark(sql, i) /\ MarksUpTo(sql, i) = param_idx + 1
      /\ sql \in Statements /\ params \in ParamLists
      /\ param_idx + 1 <= Len(params)
  BY ReplaceTypes DEF IInv, TypeOK, ReplaceInv, ValueInStep
<1>2. Piece(sql, params, i) = Formatted(Value)
  BY <1>1 DEF Piece, Value
<1>3. Prefix(sql, params, i) = Prefix(sql, params, i - 1) \o Piece(sql, params, i)
  BY <1>1, PrefixGrows
<1>4. ScanInStep'
  BY <1>1, <1>2, <1>3 DEF ScanInStep
<1>5. LiteralInStep' /\ ValueInStep' /\ PlaceholdersReplaced'
  BY DEF ReplaceInv, LiteralInStep, ValueInStep, PlaceholdersReplaced
<1>. QED  BY <1>4, <1>5 DEF ReplaceInv

LEMMA ReplaceNext == IInv /\ ReplaceInv /\ [Next]_vars => ReplaceInv'
<1>. SUFFICES ASSUME IInv, ReplaceInv, [Next]_vars PROVE ReplaceInv'
  OBVIOUS
<1>1. TypeOK
  BY DEF IInv
<1>2. "'" \in Chars
  BY DEF Chars
<1>3. CASE NoParams
  <2>1. /\ params = <<>> /\ stage' = "done" /\ result' = sql
        /\ UNCHANGED <<sql, params, i, literal>>
    BY <1>3 DEF NoParams
  <2>2. Prefix(sql, params, Len(sql)) = sql
    BY <1>1, <2>1, ReplaceTypes, NothingReplaced
  <2>3. PlaceholdersReplaced'
    BY <2>1, <2>2 DEF PlaceholdersReplaced, Prefix
  <2>. QED  BY <2>1, <2>3 DEF ReplaceInv, LiteralInStep, ScanInStep, ValueInStep
<1>4. CASE Replace
  <2>1. /\ stage = "scan" /\ params # <<>> /\ i < Len(sql) /\ sql[i + 1] = "?" /\ ~literal
        /\ param_idx < Len(params) /\ stage' = "word" /\ k' = 0 /\ i' = i + 1
        /\ UNCHANGED <<sql, params, literal, param_idx, result>>
    BY <1>4 DEF Replace, Placeholder
  <2>2. /\ i \in Nat /\ i + 1 \in Nat \ {0} /\ (i + 1) - 1 = i /\ Len(params) \in Nat
        /\ sql \in Statements /\ params \in ParamLists
    BY <1>1, ReplaceTypes
  <2>3. /\ QuotesBefore(sql, i + 1) \in Nat /\ QuotesBefore(sql, i + 1) % 2 # 1
        /\ QuotesBefore(sql, (i + 1) + 1) = QuotesBefore(sql, i + 1)
    <3>1. /\ QuotesBefore(sql, i + 1) \in Nat
          /\ QuotesBefore(sql, (i + 1) + 1) =
                 QuotesBefore(sql, i + 1) + (IF sql[i + 1] = "'" THEN 1 ELSE 0)
      BY <2>2, QuotesCounted
    <3>2. QuotesBefore(sql, i + 1) % 2 # 1
      BY <2>1 DEF ReplaceInv, LiteralInStep
    <3>3. sql[i + 1] # "'"
      BY <2>1
    <3>. QED  BY <3>1, <3>2, <3>3
  <2>4. QuotesBefore(sql, i + 1) % 2 = 0
    BY <2>3
  <2>5. IsMark(sql, i + 1)
    BY <2>1, <2>4 DEF IsMark
  <2>6. MarksUpTo(sql, i) \in Nat /\ MarksUpTo(sql, i + 1) = MarksUpTo(sql, i) + 1
    BY <2>2, <2>5, MarksCounted
  <2>7. MarksUpTo(sql, i) = param_idx /\ result = Prefix(sql, params, i)
    BY <2>1, <2>2, <2>6 DEF ReplaceInv, ScanInStep
  <2>8. /\ SubSeq(FormatValue(Value').word, 1, 0) = <<>>
        /\ 0 <= Len(FormatValue(Value').word)
    <3>1. Value'.variant \in Variants /\ Value'.text \in Seq(STRING)
      <4>1. param_idx + 1 \in 1 .. Len(params) /\ Value' = params[param_idx + 1]
        BY <1>1, <2>1, <2>2 DEF TypeOK, Value
      <4>. QED  BY <2>2, <4>1, TextFacts
    <3>2. FormatValue(Value').word \in Seq(Chars)
      BY <3>1, FormatTyped
    <3>. QED  BY <3>2, SubSeqEmpty
  <2>9. Prefix(sql, params, i) \o <<>> = Prefix(sql, params, i)
    BY <2>1, <2>2, PrefixGrows, ConcatEmptySeq
  <2>10. ValueInStep'
    <3>1. i' >= 1 /\ IsMark(sql', i') /\ MarksUpTo(sql', i') = param_idx' + 1
      BY <2>1, <2>2, <2>5, <2>6, <2>7
    <3>2. result' = Prefix(sql', params', i' - 1) \o SubSeq(FormatValue(Value').word, 1, k')
      BY <2>1, <2>2, <2>7, <2>8, <2>9
    <3>. QED  BY <2>1, <2>8, <3>1, <3>2 DEF ValueInStep
  <2>11. LiteralInStep'
    BY <2>1, <2>3 DEF LiteralInStep
  <2>. QED  BY <2>1, <2>10, <2>11 DEF ReplaceInv, ScanInStep, PlaceholdersReplaced
<1>5. CASE Copy
  <2>1. /\ stage = "scan" /\ params # <<>> /\ i < Len(sql) /\ ~Placeholder(sql[i + 1])
        /\ result' = Append(result, sql[i + 1]) /\ stage' = "scan" /\ i' = i + 1
        /\ literal' = IF sql[i + 1] = "'" THEN ~literal ELSE literal
        /\ UNCHANGED <<sql, params, param_idx>>
    BY <1>5 DEF Copy, Push
  <2>2. /\ i \in Nat /\ i + 1 \in Nat \ {0} /\ (i + 1) - 1 = i /\ Len(params) \in Nat
        /\ i + 1 \in 1 .. Len(sql) /\ sql[i + 1] \in Chars
        /\ sql \in Statements /\ params \in ParamLists
    BY <1>1, <2>1, ReplaceTypes
  <2>3. /\ QuotesBefore(sql, i + 1) \in Nat
        /\ QuotesBefore(sql, (i + 1) + 1) =
               QuotesBefore(sql, i + 1) + (IF sql[i + 1] = "'" THEN 1 ELSE 0)
    BY <2>2, QuotesCounted
  <2>4. literal <=> QuotesBefore(sql, i + 1) % 2 = 1
    BY DEF ReplaceInv, LiteralInStep
  <2>5. LiteralInStep'
    <3>1. CASE sql[i + 1] = "'"
      <4>1. (QuotesBefore(sql, i + 1) + 1) % 2 = 1 <=> QuotesBefore(sql, i + 1) % 2 # 1
        BY <2>3
      <4>2. literal' <=> ~literal
        BY <1>1, <2>1, <3>1 DEF TypeOK
      <4>. QED  BY <2>1, <2>3, <2>4, <3>1, <4>1, <4>2 DEF LiteralInStep
    <3>2. CASE sql[i + 1] # "'"
      BY <2>1, <2>3, <2>4, <3>2 DEF LiteralInStep
    <3>. QED  BY <3>1, <3>2
  <2>6. /\ MarksUpTo(sql, i) \in Nat
        /\ MarksUpTo(sql, i + 1) = MarksUpTo(sql, i) + (IF IsMark(sql, i + 1) THEN 1 ELSE 0)
    BY <2>2, MarksCounted
  <2>7. /\ param_idx = IF MarksUpTo(sql, i) <= Len(params)
                       THEN MarksUpTo(sql, i) ELSE Len(params)
        /\ result = Prefix(sql, params, i)
    BY <2>1 DEF ReplaceInv, ScanInStep
  <2>8. IsMark(sql, i + 1) => param_idx = Len(params) /\ MarksUpTo(sql, i) >= Len(params)
    <3>1. SUFFICES ASSUME IsMark(sql, i + 1)
                   PROVE  param_idx = Len(params) /\ MarksUpTo(sql, i) >= Len(params)
      OBVIOUS
    <3>2. sql[i + 1] = "?" /\ ~literal
      BY <2>4, <3>1 DEF IsMark
    <3>3. ~(param_idx < Len(params))
      BY <2>1, <3>2 DEF Placeholder
    <3>. QED  BY <2>2, <2>6, <2>7, <3>3
  <2>9. Piece(sql, params, i + 1) = <<sql[i + 1]>>
    BY <2>2, <2>6, <2>8 DEF Piece
  <2>10. /\ Prefix(sql, params, i) \in Seq(Chars)
         /\ Prefix(sql, params, i + 1) = Prefix(sql, params, i) \o <<sql[i + 1]>>
    BY <2>1, <2>2, <2>9, PrefixGrows
  <2>11. result' = Prefix(sql, params, i + 1)
    <3>1. Append(Prefix(sql, params, i), sql[i + 1]) = Prefix(sql, params, i) \o <<sql[i + 1]>>
      BY <2>2, <2>10, AppendIsConcat
    <3>. QED  BY <2>1, <2>7, <2>10, <3>1
  <2>12. param_idx = IF MarksUpTo(sql, i + 1) <= Len(params)
                     THEN MarksUpTo(sql, i + 1) ELSE Len(params)
    BY <2>2, <2>6, <2>7, <2>8
  <2>13. ScanInStep'
    BY <2>1, <2>11, <2>12 DEF ScanInStep
  <2>. QED  BY <2>1, <2>5, <2>13 DEF ReplaceInv, ValueInStep, PlaceholdersReplaced
<1>6. CASE Done
  <2>1. /\ stage = "scan" /\ params # <<>> /\ i = Len(sql) /\ stage' = "done"
        /\ UNCHANGED <<sql, params, i, literal, result>>
    BY <1>6 DEF Done
  <2>2. result = Prefix(sql, params, Len(sql))
    BY <2>1 DEF ReplaceInv, ScanInStep
  <2>3. PlaceholdersReplaced'
    BY <2>1, <2>2 DEF PlaceholdersReplaced, Prefix
  <2>. QED  BY <2>1, <2>3 DEF ReplaceInv, LiteralInStep, ScanInStep, ValueInStep
<1>7. CASE WriteWord
  <2>. DEFINE w == FormatValue(Value).word
  <2>1. /\ stage = "word" /\ k < Len(w) /\ Push(w[k + 1], "value") /\ k' = k + 1
        /\ UNCHANGED <<i, literal, param_idx>> /\ stage' = "word"
    BY <1>7 DEF WriteWord
  <2>2. w \in Seq(Chars) /\ Len(w) \in Nat /\ k \in Nat
    BY <1>1, <2>1, ReplaceTypes
  <2>3. result = Prefix(sql, params, i - 1) \o SubSeq(w, 1, k)
    BY <2>1 DEF ReplaceInv, ValueInStep
  <2>. HIDE DEF w
  <2>4. SubSeq(w, 1, k) \in Seq(Chars) /\ w[k + 1] \in Chars
    BY <2>1, <2>2
  <2>5. Append(SubSeq(w, 1, k), w[k + 1]) = SubSeq(w, 1, k + 1)
    <3>1. 1 \in 1 .. Len(w) /\ k + 1 \in 1 .. Len(w) /\ (k + 1) - 1 = k
      BY <2>1, <2>2
    <3>2. SubSeq(w, 1, k + 1) = SubSeq(w, 1, k) \o <<w[k + 1]>>
      BY <2>2, <3>1, SubSeqRecursiveSecond
    <3>. QED  BY <2>4, <3>2, AppendIsConcat
  <2>6. k' <= Len(w) /\ Append(SubSeq(w, 1, k), w[k + 1]) = SubSeq(w, 1, k')
    BY <2>1, <2>2, <2>5
  <2>. QED  BY <2>1, <2>3, <2>4, <2>6, ValueGrows DEF w
<1>8. CASE OpenQuote
  <2>. DEFINE w == FormatValue(Value).word
  <2>1. /\ stage = "word" /\ k = Len(w) /\ FormatValue(Value).quoted /\ Push("'", "value")
        /\ stage' = "text" /\ k' = 0 /\ UNCHANGED <<i, literal, param_idx>>
    BY <1>8 DEF OpenQuote
  <2>2. /\ w \in Seq(Chars) /\ Len(Value.text) \in Nat
        /\ Value.variant \in Variants /\ Value.text \in Seq(STRING)
    BY <1>1, <2>1, ReplaceTypes
  <2>3. SubSeq(w, 1, k) = w
    BY <2>1, <2>2, SubSeqFull
  <2>4. result = Prefix(sql, params, i - 1) \o w
    BY <2>1, <2>3 DEF ReplaceInv, ValueInStep
  <2>5. Append(w, "'") = Quoting(Value, k') /\ k' <= Len(Value.text)
    BY <2>1, <2>2, QuotingGrows
  <2>. HIDE DEF w
  <2>. QED  BY <1>2, <2>1, <2>2, <2>4, <2>5, ValueGrows
<1>9. CASE WriteText
  <2>. DEFINE c == Value.text[k + 1]
  <2>1. /\ stage = "text" /\ k < Len(Value.text) /\ Push(c, "value") /\ k' = k + 1
        /\ \/ c # "'" /\ stage' = "text"
           \/ c = "'" /\ stage' = "again"
        /\ UNCHANGED <<i, literal, param_idx>>
    BY <1>9 DEF WriteText
  <2>2. /\ Value.variant \in Variants /\ Value.text \in Seq(STRING)
        /\ Len(Value.text) \in Nat /\ k \in Nat /\ c \in Chars
    BY <1>1, <2>1, ReplaceTypes
  <2>3. /\ FormatValue(Value).quoted
        /\ result = Prefix(sql, params, i - 1) \o Quoting(Value, k)
    BY <2>1 DEF ReplaceInv, ValueInStep
  <2>4. k \in 0 .. Len(Value.text) /\ k \in 0 .. Len(Value.text) - 1
    BY <2>1, <2>2
  <2>5. /\ Quoting(Value, k) \in Seq(Chars)
        /\ c # "'" => Quoting(Value, k + 1) = Append(Quoting(Value, k), c)
    BY <2>2, <2>4, QuotingGrows
  <2>6. k' <= Len(Value.text) /\ k' \in 1 .. Len(Value.text) /\ k' - 1 = k
    BY <2>1, <2>2
  <2>7. CASE c # "'"
    BY <2>1, <2>2, <2>3, <2>5, <2>6, <2>7, ValueGrows
  <2>8. CASE c = "'"
    <3>1. Append(Quoting(Value, k), c) = Quoting(Value, k' - 1) \o <<"'">>
      BY <2>2, <2>5, <2>6, <2>8, AppendIsConcat
    <3>2. Value.text[k'] = "'"
      BY <2>1, <2>8
    <3>. QED  BY <2>1, <2>2, <2>3, <2>5, <2>6, <2>8, <3>1, <3>2, ValueGrows
  <2>. QED  BY <2>7, <2>8
<1>10. CASE WriteQuoteAgain
  <2>1. /\ stage = "again" /\ Push("'", "value") /\ stage' = "text"
        /\ UNCHANGED <<i, literal, param_idx, k>>
    BY <1>10 DEF WriteQuoteAgain
  <2>2. /\ Value.variant \in Variants /\ Value.text \in Seq(STRING)
        /\ Len(Value.text) \in Nat
    BY <1>1, <2>1, ReplaceTypes
  <2>3. /\ FormatValue(Value).quoted /\ k \in 1 .. Len(Value.text) /\ Value.text[k] = "'"
        /\ result = Prefix(sql, params, i - 1) \o (Quoting(Value, k - 1) \o <<"'">>)
    BY <2>1 DEF ReplaceInv, ValueInStep
  <2>4. /\ k - 1 \in 0 .. Len(Value.text) /\ k - 1 \in 0 .. Len(Value.text) - 1
        /\ (k - 1) + 1 = k
    BY <2>2, <2>3
  <2>5. /\ Quoting(Value, k - 1) \in Seq(Chars)
        /\ Quoting(Value, k) = Append(Append(Quoting(Value, k - 1), "'"), "'")
    BY <2>2, <2>3, <2>4, QuotingGrows
  <2>6. Append(Quoting(Value, k - 1), "'") = Quoting(Value, k - 1) \o <<"'">>
    BY <1>2, <2>5, AppendIsConcat
  <2>7. Append(Quoting(Value, k - 1), "'") \in Seq(Chars)
    BY <1>2, <2>5, AppendProperties
  <2>8. k' <= Len(Value.text) /\ Quoting(Value, k') = Quoting(Value, k)
    BY <2>1, <2>2, <2>3
  <2>. QED  BY <1>2, <2>1, <2>3, <2>5, <2>6, <2>7, <2>8, ValueGrows
<1>11. CASE CloseQuote
  <2>1. /\ stage = "text" /\ k = Len(Value.text) /\ result' = Append(result, "'")
        /\ stage' = "scan" /\ param_idx' = param_idx + 1 /\ UNCHANGED <<sql, params, i, literal>>
    BY <1>11 DEF CloseQuote, Push
  <2>2. /\ Value.variant \in Variants /\ Value.text \in Seq(STRING)
        /\ Len(Value.text) \in Nat
    BY <1>1, <2>1, ReplaceTypes
  <2>3. /\ FormatValue(Value).quoted
        /\ result = Prefix(sql, params, i - 1) \o Quoting(Value, k)
    BY <2>1 DEF ReplaceInv, ValueInStep
  <2>4. k \in 0 .. Len(Value.text)
    BY <2>1, <2>2
  <2>5. Quoting(Value, k) \in Seq(Chars) /\ Append(Quoting(Value, k), "'") = Formatted(Value)
    BY <2>1, <2>2, <2>3, <2>4, QuotingGrows
  <2>6. Prefix(sql, params, i - 1) \in Seq(Chars)
    <3>1. /\ i - 1 \in Nat /\ i - 1 < Len(sql)
          /\ sql \in Statements /\ params \in ParamLists
      BY <1>1, <2>1, ReplaceTypes DEF TypeOK, ReplaceInv, ValueInStep
    <3>. QED  BY <3>1, PrefixGrows
  <2>7. result' = Prefix(sql, params, i - 1) \o Formatted(Value)
    <3>1. Append(Prefix(sql, params, i - 1) \o Quoting(Value, k), "'") =
              Prefix(sql, params, i - 1) \o Append(Quoting(Value, k), "'")
      BY <1>2, <2>5, <2>6, AppendInside
    <3>. QED  BY <2>1, <2>3, <2>5, <3>1
  <2>. QED  BY <2>1, <2>7, ValueEnds
<1>12. CASE WordDone
  <2>. DEFINE w == FormatValue(Value).word
  <2>1. /\ stage = "word" /\ k = Len(w) /\ ~FormatValue(Value).quoted /\ result' = result
        /\ stage' = "scan" /\ param_idx' = param_idx + 1 /\ UNCHANGED <<sql, params, i, literal>>
    BY <1>12 DEF WordDone
  <2>2. w \in Seq(Chars) /\ Value.variant \in Variants /\ Value.text \in Seq(STRING)
    BY <1>1, <2>1, ReplaceTypes
  <2>3. SubSeq(w, 1, k) = w /\ w = Formatted(Value)
    BY <2>1, <2>2, SubSeqFull, QuotingGrows
  <2>4. result' = Prefix(sql, params, i - 1) \o Formatted(Value)
    BY <2>1, <2>3 DEF ReplaceInv, ValueInStep
  <2>. QED  BY <2>1, <2>4, ValueEnds
<1>13. CASE UNCHANGED vars
  BY <1>13 DEF vars, ReplaceInv, LiteralInStep, ScanInStep, ValueInStep, Value,
     PlaceholdersReplaced
<1>. QED
  BY <1>3, <1>4, <1>5, <1>6, <1>7, <1>8, <1>9, <1>10, <1>11, <1>12, <1>13 DEF Next

(* For all statements and parameters, what interpolate_params returns is   *)
(* the statement with the n-th placeholder outside literals replaced by    *)
(* what format_value makes of the n-th parameter; placeholders without a   *)
(* parameter and all other characters stay as they are.                    *)
THEOREM ParametersInOrder == Spec => []PlaceholdersReplaced
<1>1. Init => IInv /\ ReplaceInv
  BY InitInv, ReplaceInit
<1>2. IInv /\ ReplaceInv /\ [Next]_vars => (IInv /\ ReplaceInv)'
  BY NextInv, ReplaceNext
<1>3. ReplaceInv => PlaceholdersReplaced
  BY DEF ReplaceInv
<1>. QED  BY <1>1, <1>2, <1>3, PTL DEF Spec
=============================================================================
