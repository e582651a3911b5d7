\* Every program within one of four bounds, and every text cut from one.
CONSTANT Bounds <- AllBounds
SPECIFICATION Spec
INVARIANTS TypeOK BlocksMatch PrecedenceObeyed ReadAlike
\* A text is accepted or refused and nothing follows.
CHECK_DEADLOCK FALSE
