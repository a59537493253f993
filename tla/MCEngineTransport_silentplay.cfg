\* One fade out, with every fade configured and files only.
CONSTANTS
    Sources = {"file"}
    Settings <- AllFades
    MaxFades = 1
SPECIFICATION Spec
INVARIANTS PlayingIsHeard
