\* Two workers drain four tasks of two requests.
SPECIFICATION Spec
CONSTANTS
    r1 = r1  r2 = r2  t1 = t1  t2 = t2  t3 = t3  t4 = t4  w1 = w1  w2 = w2
    Requests = {r1, r2}
    Tasks = {t1, t2, t3, t4}
    Request <- SharedRequest
    DedupeKey <- SharedKey
    Workers = {w1, w2}
    Results = {ok, other}
    NoResult = NoResult
    QueueLimit = 2
    MaxPosition = 3
    MaxChanges = 1
INVARIANTS OneForward OutcomeReturned
PROPERTIES OnlyConsumedLeaves
SYMMETRY WorkerSymmetry
\* A lost reservation at the head stops the queue.
CHECK_DEADLOCK FALSE
