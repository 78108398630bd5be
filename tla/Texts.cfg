CONSTANTS
    Jobs <- AllJobs
    Chars <- AllChars
    Alphabet <- AlphabetOf
    MaxSteps <- StepsOf
    KeyLists <- HeaderKeys
    IntKeys <- NumberKeys
    TextKeys <- NameKeys
    Defaults <- DefaultsOf
    Leftover = Undefined
    IncludedMax = 3
    DKIM_RECORD_MAX_LEN = 8
    DKIM_VALUE_MAX_LEN = 5
    HEADER_MAX_LEN = 3
    KEY_MAX_LEN = 3
    VALUE_MAX_LEN = 50
    Chunk = 4
SPECIFICATION TextSpec
CHECK_DEADLOCK FALSE
INVARIANTS
    HeaderCanonAgrees
    BodyCanonAgrees
    TagsAgree
    SelectionAgrees
    SignatureRemoved
    SignedTextHashed
    ReadsInBounds
    FieldsSurvive
    BodySurvives
    AppendsFit
    ConfigAgrees
    MembersAgree
