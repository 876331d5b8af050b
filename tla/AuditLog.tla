-------------------------------- MODULE AuditLog --------------------------------
(***************************************************************************)
(* The audit service of serein_stage1/audit.py: serve_socket() takes one     *)
(* peer at a time, append_event() appends its event to a JSON-lines file and *)
(* acknowledges it after fsync, read_recent_terminal() finds the one event of  *)
(* a request in the newest part of the file.  The process may be killed and    *)
(* the machine may lose power between any two steps.                         *)
(*                                                                         *)
(* An event is written by at least one os.write: it is abstracted to two       *)
(* pieces, the second of which ends the line.                                *)
(***************************************************************************)
EXTENDS Integers, Sequences, FiniteSets

CONSTANTS
    Peers,          \* connections, each with one event to record
    NoPeer,
    RequestOf,      \* the request a peer's event is about
    Window,         \* size of the part of the file a reader looks at, in pieces
    MaxFaults       \* bound of the model: deaths and power losses

ASSUME AuditAssumption ==
    /\ IsFiniteSet(Peers) /\ NoPeer \notin Peers /\ DOMAIN RequestOf = Peers
    /\ Window \in Nat \ {0} /\ MaxFaults \in Nat

VARIABLES
    file,       \* the pieces in the file
    synced,     \* how many of them an fsync has covered
    named,      \* the directory entry of the file is durable
    server,     \* phase of the service and the peer it serves
    backlog,    \* connections not yet accepted: systemd owns the listener
    frame,      \* what each peer has sent
    answer,     \* how each peer's exchange stands
    faults

vars == <<file, synced, named, server, backlog, frame, answer, faults>>
disk == <<file, synced, named>>
peers == <<backlog, frame, answer>>

Phases == {"ACCEPT", "RECEIVE", "APPEND", "PARTIAL", "WRITTEN", "SYNCED", "RECORDED", "DENIED"}
Pieces == [peer : Peers, last : BOOLEAN]
Idle == [phase |-> "ACCEPT", peer |-> NoPeer]

TypeOK ==
    /\ file \in Seq(Pieces) /\ synced \in 0..Len(file) /\ named \in BOOLEAN
    /\ server \in [phase : Phases, peer : Peers \cup {NoPeer}]
    /\ backlog \in Seq(Peers)
    /\ frame \in [Peers -> {"NONE", "EVENT", "INVALID"}]
    /\ answer \in [Peers -> {"NEW", "WAITING", "RECORDED", "DENIED", "LOST"}]
    /\ faults \in 0..MaxFaults

Init ==
    /\ file = <<>> /\ synced = 0 /\ named = FALSE
    /\ server = Idle /\ backlog = <<>>
    /\ frame = [p \in Peers |-> "NONE"] /\ answer = [p \in Peers |-> "NEW"]
    /\ faults = 0

-----------------------------------------------------------------------------
(***************************************************************************)
(* Peers.                                                                  *)
(***************************************************************************)

Connect(p) ==
    /\ answer[p] = "NEW"
    /\ answer' = [answer EXCEPT ![p] = "WAITING"]
    /\ backlog' = Append(backlog, p)
    /\ UNCHANGED <<disk, server, frame, faults>>

\* One frame; decode_event admits it or not.
Send(p) ==
    /\ answer[p] = "WAITING" /\ frame[p] = "NONE"
    /\ \E f \in {"EVENT", "INVALID"} : frame' = [frame EXCEPT ![p] = f]
    /\ UNCHANGED <<disk, server, backlog, answer, faults>>

\* The peer dies; what it has sent stays readable.
Leave(p) ==
    /\ answer[p] = "WAITING"
    /\ answer' = [answer EXCEPT ![p] = "LOST"]
    /\ UNCHANGED <<disk, server, backlog, frame, faults>>

-----------------------------------------------------------------------------
(***************************************************************************)
(* serve_socket and append_event.                                          *)
(***************************************************************************)

Goto(from, to) ==
    /\ server.phase = from
    /\ server' = [server EXCEPT !.phase = to]

Accept ==
    /\ server.phase = "ACCEPT" /\ backlog # <<>>
    /\ server' = [phase |-> "RECEIVE", peer |-> Head(backlog)]
    /\ backlog' = Tail(backlog)
    /\ UNCHANGED <<disk, frame, answer, faults>>

ReceiveEvent ==
    /\ Goto("RECEIVE", "APPEND") /\ frame[server.peer] = "EVENT"
    /\ UNCHANGED <<disk, peers, faults>>

\* Mutation: a silent peer is waited for.
WaitForFrame ==
    /\ Goto("RECEIVE", "DENIED") /\ frame[server.peer] = "INVALID"
    /\ UNCHANGED <<disk, peers, faults>>

\* The exchange's deadline, the end of the stream or an invalid event.
RefuseFrame ==
    /\ Goto("RECEIVE", "DENIED") /\ frame[server.peer] # "EVENT"
    /\ UNCHANGED <<disk, peers, faults>>

WritePiece(from, to, last) ==
    /\ Goto(from, to)
    /\ file' = Append(file, [peer |-> server.peer, last |-> last])
    /\ UNCHANGED <<synced, named, peers, faults>>

\* Mutation: no fsync before the acknowledgement.
WrittenOnly == Goto("WRITTEN", "SYNCED") /\ UNCHANGED <<disk, peers, faults>>

SyncFile ==
    /\ Goto("WRITTEN", "SYNCED") /\ synced' = Len(file)
    /\ UNCHANGED <<file, named, peers, faults>>

\* File fsync alone does not make its first directory entry durable.
SyncDirectory ==
    /\ Goto("SYNCED", "RECORDED") /\ named' = TRUE
    /\ UNCHANGED <<file, synced, peers, faults>>

\* A peer that has left does not erase a recorded event.
Respond ==
    LET p == server.peer IN
    /\ server.phase \in {"RECORDED", "DENIED"} /\ server' = Idle
    /\ answer' = IF answer[p] = "WAITING" THEN [answer EXCEPT ![p] = server.phase] ELSE answer
    /\ UNCHANGED <<disk, backlog, frame, faults>>

\* Mutation: a restarted service takes the interrupted exchange up again.
DieAndRetry ==
    /\ faults < MaxFaults /\ faults' = faults + 1
    /\ server.phase # "ACCEPT" /\ server' = Idle
    /\ backlog' = <<server.peer>> \o backlog
    /\ UNCHANGED <<disk, frame, answer>>

\* A failed write, fsync or custody check raises out of serve_socket, or the
\* process is killed; systemd restarts it.  The connection is closed.
Die ==
    /\ faults < MaxFaults /\ faults' = faults + 1
    /\ server.phase # "ACCEPT" /\ server' = Idle
    /\ answer' = IF answer[server.peer] = "WAITING"
                 THEN [answer EXCEPT ![server.peer] = "LOST"] ELSE answer
    /\ UNCHANGED <<disk, backlog, frame>>

Durable == IF named THEN synced ELSE 0

\* The machine keeps what is durable and any more of the file's beginning.
PowerLoss ==
    /\ faults < MaxFaults /\ faults' = faults + 1
    /\ \E kept \in Durable..Len(file) :
          file' = SubSeq(file, 1, kept) /\ synced' = kept /\ named' = (named \/ kept > 0)
    /\ server' = Idle /\ backlog' = <<>>
    /\ answer' = [p \in Peers |-> IF answer[p] = "WAITING" THEN "LOST" ELSE answer[p]]
    /\ UNCHANGED frame

PeerStep == \E p \in Peers : Connect(p) \/ Send(p) \/ Leave(p)

ServerStep ==
    \/ Accept \/ ReceiveEvent \/ RefuseFrame
    \/ WritePiece("APPEND", "PARTIAL", FALSE) \/ WritePiece("PARTIAL", "WRITTEN", TRUE)
    \/ SyncFile \/ SyncDirectory \/ Respond

Next == PeerStep \/ ServerStep \/ Die \/ PowerLoss

Spec == Init /\ [][Next]_vars

\* The service is always restarted and its reads and writes return.
FairSpec == Spec /\ WF_vars(ServerStep)

-----------------------------------------------------------------------------
(***************************************************************************)
(* read_recent_terminal.                                                   *)
(***************************************************************************)

\* The ends of the lines a reader splits the window into: the first line is
\* given up when the window does not begin with the file, as is a last line
\* without an end.
LineEnds ==
    LET offset == IF Len(file) > Window THEN Len(file) - Window ELSE 0
        ends == {j \in offset + 1..Len(file) : file[j].last}
    IN  IF offset = 0 THEN ends ELSE {j \in ends : \E i \in ends : i < j}

\* A line decodes when it holds one event.
Decodes(end) == end <= 2 \/ file[end - 2].last

\* Mutation: the newest matching event is taken.
NewestTerminal(request) ==
    LET matching == {j \in LineEnds : RequestOf[file[j].peer] = request} IN
    IF matching # {} /\ \A j \in LineEnds : Decodes(j)
    THEN file[CHOOSE j \in matching : \A i \in matching : i <= j].peer ELSE NoPeer

\* One undecodable line denies the read, and so do two events of the request.
Terminal(request) ==
    LET matching == {j \in LineEnds : RequestOf[file[j].peer] = request} IN
    IF Cardinality(matching) = 1 /\ \A j \in LineEnds : Decodes(j)
    THEN file[CHOOSE j \in matching : TRUE].peer ELSE NoPeer

-----------------------------------------------------------------------------
(***************************************************************************)
(* Properties.                                                             *)
(***************************************************************************)

PiecesOf(p) == {j \in 1..Len(file) : file[j].peer = p}

\* A peer told RECORDED has its whole event where no power loss reaches it, and
\* one told DENIED has nothing in the log.
AnswerTruthful ==
    \A p \in Peers :
        /\ answer[p] = "RECORDED" =>
              \E j \in 1..Durable - 1 : PiecesOf(p) = {j, j + 1} /\ file[j + 1].last
        /\ answer[p] = "DENIED" => PiecesOf(p) = {}

\* No event is in the log twice: an interrupted append is never repeated.
AppendedOnce == \A p \in Peers : Cardinality(PiecesOf(p)) <= 2

\* The terminal event a reader accepts is the only acknowledged one of its
\* request in what it reads: an ambiguous request has none.
SoleTerminal ==
    \A p, q \in Peers :
        (RequestOf[p] = RequestOf[q] /\ p # q /\ Terminal(RequestOf[p]) = p /\ answer[q] = "RECORDED")
        => \A j \in LineEnds : file[j].peer # q

\* Every peer that connects is answered or has lost its connection, whatever
\* the peers before it send or fail to send.
PeersAnswered == \A p \in Peers : answer[p] = "WAITING" ~> answer[p] # "WAITING"

\* An acknowledged event that is in the window, alone of its request, is read:
\* "An older event outside the 1MiB window is unavailable", and an unfinished
\* append is only skipped (read_recent_terminal).
RecordedReadable ==
    \A p \in Peers :
        LET same == {j \in LineEnds : RequestOf[file[j].peer] = RequestOf[p]} IN
        (answer[p] = "RECORDED" /\ {file[j].peer : j \in same} = {p})
        => Terminal(RequestOf[p]) = p
================================================================================
