\* Snapshots on time, late, skipped and of changing lanes; rows repeated, reordered, clashing.
SPECIFICATION Spec
CONSTANTS
    laneA = laneA  laneB = laneB
    MemberLists <- SomeMembers
    SlotLists <- SomeSlots
    Identities <- SomeIdentities
    Completions = {TRUE}
    Ceiling = 1
    WindowLength = 2
    MaxSequence = 4
    MaxTime = 3
    MaxCalls = 4
    NoSnapshot = NoSnapshot
INVARIANTS CountsDistinct EligibleExactly
SYMMETRY LaneSymmetry
\* A bounded number of calls.
CHECK_DEADLOCK FALSE
