\* All strings of the characters that matter; a document of one track or two
\* empty ones, its text read in pieces.
CONSTANTS
    Names <- MCNames
    Texts <- MCTexts
    PathNames <- MCPathNames
    MaxText = 9
    Titles <- MCTitles
    MaxCalls = 8
    Sizes = {1, 2, 7}
SPECIFICATION FairSpec
INVARIANTS
    TypeOK
    NamesSanitized
    TextsEscaped
    RelativePathsLead
    ElementsSuffice
    TagsNested
    PartsJoin
PROPERTIES
    CallsEnd
