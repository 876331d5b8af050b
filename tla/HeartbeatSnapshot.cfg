\* Commits, queue changes and reboots under a sampler that dies, with a reader.
SPECIFICATION Spec
CONSTANTS
    Floor = 1
    NoSample = NoSample
    Contents = {"empty", "pending"}
    MaxTime = 2
    MaxReceipts = 2
    MaxChanges = 2
INVARIANTS PublishedRecorded PublishedCoherent
PROPERTIES PublicationAdvances CadenceHonest PassedOnCurrentEvidence
\* The bounds of the clock end every behaviour.
CHECK_DEADLOCK FALSE
