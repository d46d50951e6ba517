\* Statements with up to two calls on a list of up to three elements.
SPECIFICATION Spec
CONSTANTS
    Elems = {1, 2, 3, 4, 5, 6, 7, 8, 9}
    MaxLen = 3
    MaxCalls = 2
INVARIANTS
    Aligned
    BoundFromOwn
PROPERTIES
    RefreshedIffChanged
\* What the handlers do not follow is not followed further.
CONSTRAINT
    Followed
