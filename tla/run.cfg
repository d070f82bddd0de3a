SPECIFICATION FairSpec
CONSTANTS
    Name <- MCName
    Value = {null, v1, v2}
    Null = null
    Time = {1, 2}
    Program <- MCProgram
    Script = {"a", "b", "c"}
    Inherited = {absent, v1}
    Absent = absent
INVARIANTS TypeOK Threaded EffectsInOrder EffectsOnce ZeroMeansComplete ProducersFirst ReadsWhatIsRecorded
PROPERTY Stops
CHECK_DEADLOCK FALSE
