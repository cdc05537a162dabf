SPECIFICATION Spec
CONSTANTS
    Threads = {t1, t2}
    Block = 2
    MaxSpans = 3
    MaxCalls = 4
    MaxAsync = 1
SYMMETRY Symmetry
INVARIANT UniqueSpans
INVARIANT EndHasBegin
INVARIANT SpanOrder
INVARIANT ParentIsInnermost
