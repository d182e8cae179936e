\* All statements of up to four characters over quote, placeholder, minus and a
\* letter, with up to two parameters of any variant.
CONSTANTS
    MaxLength = 4
    MaxParams = 2
    Statements <- Texts
    ParamLists <- Lists
SPECIFICATION Spec
INVARIANTS
    ValuesContained
    ValuesStartNoComment
    PlaceholdersReplaced
CHECK_DEADLOCK FALSE
