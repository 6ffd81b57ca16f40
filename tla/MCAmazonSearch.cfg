CONSTANTS
    Letters <- MCLetters
    Lower <- MCLower
    Texts <- MCTexts
    Reviews = 2
    Fields = 2
    MaxOffset = 8
    MaxQuery = 2
    Queries <- MCQueries
SPECIFICATION Spec
CHECK_DEADLOCK FALSE
INVARIANTS
    ReviewsReadBack
    SearchIsExact
    QueryKeepsWords
