SPECIFICATION Spec
CONSTANTS
    None = None
    p1 = p1
    p2 = p2
    family = family
    Parts <- MCParts
    Texts <- MCTexts
    Matches <- MCMatches
    Questions <- MCQuestions
    Replies <- MCReplies
    Catalogs <- MCCatalogs
    Grants <- MCGrants
    MaxTurns = 3
INVARIANTS
    ExplicitInputWins
CHECK_DEADLOCK FALSE
