\* A source that changes twice, pages of one row, and a listing in two calls.
SPECIFICATION Spec
CONSTANTS
    a = a
    b = b
    c = c
    Names <- MCNames
    Start <- MCStart
    PageSize = 1
    ListSize = 1
    MaxChanges = 2
    MaxDeaths = 1
INVARIANTS AmendedUpstream NothingStale
PROPERTIES EventuallyCorrected
