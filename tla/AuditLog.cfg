\* Silent and dying peers, kills and power losses between the steps of appends.
SPECIFICATION FairSpec
CONSTANTS
    Peers = {1, 2, 3}
    NoPeer = NoPeer
    RequestOf <- RequestOfPeer
    Window = 4
    MaxFaults = 2
INVARIANTS AnswerTruthful AppendedOnce 
PROPERTIES PeersAnswered
\* The system stops when every peer has been served.
CHECK_DEADLOCK FALSE
