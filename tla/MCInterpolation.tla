-------------------------- MODULE MCInterpolation --------------------------
(* Statements and parameters for TLC: the .cfg file gives the bounds. *)
EXTENDS Interpolation

CONSTANTS MaxLength,   \* characters of a statement
          MaxParams    \* parameters of a call

Texts == BoundedSeq({"?", "'", "-", "a"}, MaxLength) \cup
         {<<"/", "*", "'", "?">>, <<"\"", "'", "?", "\"">>, <<"/", "/", "?">>, <<"a", "/", "?">>}

V(variant, text) == [variant |-> variant, text |-> text]

Values ==
    {V("Null", <<>>), V("Number", <<"1">>), V("Number", <<"-", "1">>), V("String", <<>>),
     V("String", <<"?", "a">>), V("String", <<"'", "-", "-">>), V("String", <<"'", "'">>),
     V("Bool", <<"1">>), V("Bytes", <<"a0">>), V("Date", <<"2024", "-", "01">>),
     V("Time", <<"10:00">>), V("Timestamp", <<"2024", "-", "01">>),
     V("Datetime", <<"2024", "-", "01">>)}

Lists == BoundedSeq(Values, MaxParams)
=============================================================================
