\* One attempt of each kind, its failures anywhere, and what a later process does.
SPECIFICATION Spec
CONSTANTS
    Order <- MCOrder
    Replaced <- MCReplaced
    Pieces <- MCPieces
    MaxForeign = 2
INVARIANTS PriorSurvives InputsRecoverable WitnessMeansComplete OutcomeTruthful
PROPERTIES ForeignKept RuntimeOwned StartsOnWholeMaterial
\* An attempt that has ended.
CHECK_DEADLOCK FALSE
