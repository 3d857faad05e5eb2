\* Two readers that have read the clock before either raises it, and as many
\* accesses as it takes to fill the clock of a page while the hand waits.
CONSTANTS
    Reader = {r1, r2}
    MaxAccess = 9
SPECIFICATION Spec
PROPERTY Recycled
