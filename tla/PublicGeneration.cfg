\* A candidate that changes an image file, one that changes none, and the
\* restoration of the delivered generation; one boot, one upset of systemd.
SPECIFICATION Spec
CONSTANTS
    i1 = i1  i2 = i2  i3 = i3
    Installers = {i1, i2, i3}
    Changed <- ThreeChanged
    Candidate <- ThreeCandidates
    Base = Base  Stopped = Stopped  NoEvidence = NoEvidence
    NoLock = NoLock  NoPacket = NoPacket
    Rows = 2
    MaxUpsets = 1
    MaxBoot = 1
INVARIANTS OneOwner ContainmentTruthful CompleteMeansInstalled
PROPERTIES SelectorLast ObserversWhole
CHECK_DEADLOCK FALSE
