\* Six messages at most, one keyword in each besides its text.
SPECIFICATION FairSpec
CONSTANTS
    plain = plain  optimize = optimize
    Empty = Empty  None = None
    Texts = {plain, optimize, Empty}
    LightTexts = {optimize}
    ClientTexts = {optimize}
    MaxMentions = 1
    MaxTurns = 5
INVARIANT TypeOK
INVARIANT LastWordKept
INVARIANT BriefAccountedFor
INVARIANT TurnsBounded
INVARIANT ConflictsResolvable
PROPERTY ConversationEnds
