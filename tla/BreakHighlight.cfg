SPECIFICATION ReconSpec
CONSTANTS
    None = None
    Failed = Failed
    Segments <- MCSegments
    Spellings <- MCSpellings
    AccountMap <- MCAccountMap
    BasePrice <- MCBasePrice
    Catalogs <- MCCatalogs
    Answers <- MCAnswers
INVARIANT HighlightedRowsAreBreaks
