CONSTANTS
    MaxUsers = 5
    MaxPageSize = 3
    NoOffset = NoOffset

SPECIFICATION Spec
CHECK_DEADLOCK FALSE

INVARIANT PagesCoverFiltered
