\* Policies with a field on both lists, or a mask on a camel-case name.
CONSTANTS
    Id <- Ids
    Name <- Spellings
    Field <- Fields
    Lower <- LowerCase
    Meets <- Met
    Scope <- GuardLets
    Policy <- OddPolicies
    Filters <- SomeFilters
    Limits <- SomeLimits
    Offsets <- SomeOffsets
    MaxChanges = 0

SPECIFICATION LSpec
CHECK_DEADLOCK FALSE

INVARIANTS
    PolicyIsKept
