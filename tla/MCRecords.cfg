CONSTANTS
    MaxArgs = 5
    Plain <- MCPlain
    Directives <- MCDirectives
    CallOf <- MCCallOf
    Calls <- MCCalls
    Capacity = 3
    BufMax = 112
    SizeMod = 216
    MaxAttrs = 3
    MaxCalls = 3
SPECIFICATION Spec
INVARIANT ReceiverRecovers
INVARIANT RecordsAligned
INVARIANT AttrsCutRight
INVARIANT ArgsAsPassed
CHECK_DEADLOCK FALSE
