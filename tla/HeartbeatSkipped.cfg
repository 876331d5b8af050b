\* A reader that misses a degraded publication between two healthy ones.
SPECIFICATION Spec
CONSTANTS
    Floor = 2
    NoSample = NoSample
    Contents = {"empty"}
    MaxTime = 7
    MaxReceipts = 0
    MaxChanges = 0
PROPERTIES HealthySinceDegraded
\* The bounds of the clock end every behaviour.
CHECK_DEADLOCK FALSE
