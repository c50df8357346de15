SPECIFICATION Spec
CONSTANTS
    NotArray = NotArray
    Omitted = Omitted
    Actions <- MCActions
    NoRule = NoRule
    NoPayload = NoPayload
    OwnText = OwnText
    Conditions <- MCConditions
    Depth <- MCDepth
    Payloads <- MCPayloads
    TextOf <- MCTextOf
    NumberOf <- MCNumberOf
    Collate <- MCCollate
    Includes <- MCIncludes
    StartsWith <- MCStartsWith
    EndsWith <- MCEndsWith
    Compiles <- MCCompiles
    Matches <- MCMatches
    Element <- MCElement
    LeafText <- MCLeafText
INVARIANTS
    RuleFiresByItsClauses
    OneBadLeafSilencesTheRule
    DetailsExplainTheResult
    PreviewForetellsTheEvent
    SameTextSameMeaning
