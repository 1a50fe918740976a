\* A list request while records come and go.
CONSTANTS
    Id <- Ids
    Name <- Spellings
    Field <- Fields
    Lower <- LowerCase
    Meets <- Met
    Scope <- GuardLets
    Policy <- PlainPolicies
    Filters <- SomeFilters
    Limits <- SomeLimits
    Offsets <- SomeOffsets
    MaxChanges = 2

SPECIFICATION LSpec
CHECK_DEADLOCK FALSE

INVARIANTS
    LTypeOK
    AnswersFromItsTime
    PageHasRows
    PolicyIsKept
