SPECIFICATION FairSpec
CONSTANTS
    Repo = {qmesh, quic}
    Self = qmesh
    Packed = quic
    qmesh = qmesh
    quic = quic
    OnPins = {"released"}
    Pins = pins
    None = None
    Begun = Begun
    Torn = Torn
    Modes = 2
    HostChecks <- MCHostChecks
    LinuxChecks <- MCLinuxChecks
    Dirty = Dirty
    Touched = {quic}
    Gates = {g}
    MaxEdits = 1
    MaxRuns = 2
    MaxLog = 2
CHECK_DEADLOCK FALSE
INVARIANTS
    TypeOK
    ReportsTrue
    TimedOutIsOver
    HostResultFinal
    VerificationTrue
PROPERTIES
    CheckpointEnds
