CONSTANTS
    Clock <- MCClock
    GroupLists <- MCGroupLists
    MaxRestarts = 1
    NoRequest = NoRequest
    Never = Never
    NoGroups = NoGroups
SPECIFICATION Spec
INVARIANTS
    ExpiryExact
