\* A stream that is never reset, in four slots so that chunks wrap around, and
\* overwriting with resets requested from both sides.
CONSTANTS
    Slots = 4
    Clients <- MCClients
SPECIFICATION Spec
INVARIANTS TypeOK NoRace ResetOnce
PROPERTIES ImplementsFifo
CHECK_DEADLOCK FALSE
