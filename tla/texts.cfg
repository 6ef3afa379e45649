SPECIFICATION Spec
CONSTANTS
    Alphabet = {"0", "1", "+", ":", " ", "!", "n", "O", "skin tone", "arabic three"}
    MaxLength = 5
    MinDigits = 2
    MaxDigits = 3
    Limits = {3, 4}
CHECK_DEADLOCK FALSE
INVARIANTS
    SpellingsAgree
    KeepsEveryDigit
    OnlyTokensRate
    RepliesFit
PROPERTIES
    SeparatorsIrrelevant
    RatingSurvives
