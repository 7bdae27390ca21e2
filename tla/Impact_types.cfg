\* The impact of a change along edges of some types: of parallel edges only the
\* latest is asked for its type.
SPECIFICATION ReachSpec
CONSTANTS
    NoFile = NoFile
    NoLabel = NoLabel
    Dot <- DotLetter
    Colon <- ColonLetter
    Digits <- LineDigits
    Scheme <- Schemes
    NoAlias = NoAlias
    NoLine = NoLine
    Nowhere = Nowhere
    Unanswered = Unanswered
INVARIANT ImpactFollowsTypes
CHECK_DEADLOCK FALSE
