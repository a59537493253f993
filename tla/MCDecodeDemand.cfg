\* The watermarks of the smallest ratios the settings allow: the stream counts
\* as low to the mixer well before it does to the decoder.
CONSTANTS
    Space = 5
    BufferLow = 3
    Low = 1
    High = 2
    MaxReinits = 2
SPECIFICATION Spec
INVARIANTS TypeOK StoppedTimerForgets
PROPERTIES DryStreamIsFed
