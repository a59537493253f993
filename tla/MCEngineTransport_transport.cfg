\* Two transport transitions: a pause and a stop, or one of them twice.
CONSTANTS
    Sources = {"file", "radio"}
    Settings <- SomeSettings
    MaxFades = 2
SPECIFICATION FairSpec
INVARIANTS TypeOK DrainIsPolled PipeFollowsEngine
PROPERTIES OnlyAskedFor DrainEnds
