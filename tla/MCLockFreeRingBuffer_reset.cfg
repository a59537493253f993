\* The queue of fade events, reset by its writer while its reader runs.
CONSTANTS
    Slots = 4
    Clients <- FadeClients
SPECIFICATION Spec
PROPERTIES EachItemOnce
CHECK_DEADLOCK FALSE
