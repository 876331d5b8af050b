\* An append that was interrupted, and the acknowledged one after it.
SPECIFICATION Spec
CONSTANTS
    Peers = {1, 2, 3}
    NoPeer = NoPeer
    RequestOf <- RequestOfPeer
    Window = 6
    MaxFaults = 1
INVARIANTS RecordedReadable
\* The system stops when every peer has been served.
CHECK_DEADLOCK FALSE
