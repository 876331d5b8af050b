----------------------------- MODULE AuditLogProofs -----------------------------
(***************************************************************************)
(* Proofs about AuditLog for any peers, any requests, any window and any       *)
(* number of faults.                                                       *)
(*                                                                         *)
(* What a peer is told rests on three facts about the file.  The pieces of one   *)
(* peer lie together, because one peer is served at a time and its append is   *)
(* never taken up again.  While it is served they are the end of the file, so   *)
(* that one fsync covers all of them.  And a power loss keeps a beginning of    *)
(* the file that holds at least the durable part.                          *)
(***************************************************************************)
EXTENDS AuditLog, FiniteSetTheorems, SequenceTheorems, TLAPS

Unanswered == {"WAITING", "LOST"}

\* A connection waits once, is not the one served and has nothing in the log.
Waits(p) == \E i \in 1..Len(backlog) : backlog[i] = p

Backlog ==
    \A p \in Peers :
        /\ \A i, j \in 1..Len(backlog) : backlog[i] = p /\ backlog[j] = p => i = j
        /\ Waits(p) => answer[p] \in Unanswered /\ PiecesOf(p) = {} /\ server.peer # p

\* A peer that has not connected has nothing in the log.
Fresh == \A p \in Peers : answer[p] = "NEW" => PiecesOf(p) = {}

\* Its piece is the end of the file, and so are its two pieces.
HalfWritten(p) == PiecesOf(p) = {Len(file)}
AllWritten(p) == PiecesOf(p) = {Len(file) - 1, Len(file)} /\ file[Len(file)].last

\* What the file holds of the peer that is served.
Held(p) ==
    /\ answer[p] \in Unanswered
    /\ server.phase # "ACCEPT"
    /\ server.phase \in {"RECEIVE", "APPEND", "DENIED"} => PiecesOf(p) = {}
    /\ server.phase = "PARTIAL" => HalfWritten(p)
    /\ server.phase \in {"WRITTEN", "SYNCED", "RECORDED"} => AllWritten(p)
    /\ server.phase \in {"SYNCED", "RECORDED"} => synced = Len(file)
    /\ server.phase = "RECORDED" => named

Serving ==
    /\ server.phase # "ACCEPT" => server.peer \in Peers
    /\ \A p \in Peers : server.peer = p => Held(p)

\* The pieces of a peer lie together.
Compact == \A p \in Peers : \E j \in 0..Len(file) : PiecesOf(p) \subseteq {j, j + 1}

AuditInv == TypeOK /\ Backlog /\ Fresh /\ Serving /\ Compact /\ AnswerTruthful

-----------------------------------------------------------------------------
(***************************************************************************)
(* The file.                                                               *)
(***************************************************************************)

\* A piece is written at the end, for the peer that is served.
LEMMA FileGrows ==
    ASSUME TypeOK, NEW q \in Peers, NEW b \in BOOLEAN,
           file' = Append(file, [peer |-> q, last |-> b])
    PROVE  /\ file' \in Seq(Pieces) /\ Len(file') = Len(file) + 1
           /\ \A p : p # q => PiecesOf(p)' = PiecesOf(p)
           /\ PiecesOf(q)' = PiecesOf(q) \cup {Len(file) + 1}
           /\ \A i \in 1..Len(file) : file'[i] = file[i]
           /\ file'[Len(file) + 1].last = b
<1> DEFINE e == [peer |-> q, last |-> b]
<1>1. e \in Pieces /\ e.peer = q /\ e.last = b
    BY DEF Pieces
<1> HIDE DEF e
<1>2. file \in Seq(Pieces) /\ file' = Append(file, e) /\ Len(file) \in Nat
    BY DEF TypeOK, e
<1>3. /\ file' \in Seq(Pieces) /\ Len(file') = Len(file) + 1
      /\ \A i \in 1..Len(file) : file'[i] = file[i]
      /\ file'[Len(file) + 1] = e
    BY <1>1, <1>2, AppendProperties
<1>4. /\ \A p : PiecesOf(p) = {j \in 1..Len(file) : file[j].peer = p}
      /\ \A p : PiecesOf(p)' = {j \in 1..Len(file') : file'[j].peer = p}
    BY DEF PiecesOf
<1>5. ASSUME NEW p, p # q PROVE PiecesOf(p)' = PiecesOf(p)
  <2>1. \A j : j \in PiecesOf(p)' <=> j \in 1..Len(file) + 1 /\ file'[j].peer = p
      BY <1>3, <1>4
  <2>2. file'[Len(file) + 1].peer # p
      BY <1>1, <1>3, <1>5
  <2>3. \A j \in 1..Len(file) + 1 : j \in 1..Len(file) \/ j = Len(file) + 1
      BY <1>2
  <2>4. \A j \in 1..Len(file) : j \in 1..Len(file) + 1 /\ file'[j].peer = file[j].peer
      BY <1>2, <1>3
  <2>5. \A j : j \in PiecesOf(p)' <=> j \in PiecesOf(p)
      BY <2>1, <2>2, <2>3, <2>4, <1>4
  <2> QED
      BY <2>5, <1>4
<1>6. PiecesOf(q)' = PiecesOf(q) \cup {Len(file) + 1}
    BY <1>1, <1>2, <1>3, <1>4
<1> QED
    BY <1>1, <1>3, <1>5, <1>6

\* A power loss keeps the beginning of the file.
LEMMA FileCut ==
    ASSUME TypeOK, NEW k \in 0..Len(file), file' = SubSeq(file, 1, k)
    PROVE  /\ file' \in Seq(Pieces) /\ Len(file') = k
           /\ \A p : PiecesOf(p)' = PiecesOf(p) \cap 1..k
           /\ \A i \in 1..k : file'[i] = file[i]
<1>1. file \in Seq(Pieces) /\ Len(file) \in Nat /\ k \in Int /\ k \in Nat
    BY DEF TypeOK
<1>2. \A i \in 1..k : file[i] \in Pieces
    BY <1>1
<1>3. /\ file' \in Seq(Pieces) /\ Len(file') = (IF 1 <= k THEN k - 1 + 1 ELSE 0)
      /\ \A i \in 1..k - 1 + 1 : file'[i] = file[1 + i - 1]
    BY <1>1, <1>2, SubSeqProperties
<1>4. Len(file') = k /\ \A i \in 1..k : file'[i] = file[i]
    BY <1>1, <1>3
<1>5. /\ \A p : PiecesOf(p) = {j \in 1..Len(file) : file[j].peer = p}
      /\ \A p : PiecesOf(p)' = {j \in 1..Len(file') : file'[j].peer = p}
    BY DEF PiecesOf
<1>6. \A p : PiecesOf(p)' = PiecesOf(p) \cap 1..k
    BY <1>1, <1>4, <1>5
<1> QED
    BY <1>3, <1>4, <1>6

LEMMA FileKept ==
    ASSUME UNCHANGED file
    PROVE  /\ \A p : PiecesOf(p)' = PiecesOf(p)
           /\ \A p : HalfWritten(p)' = HalfWritten(p)
           /\ \A p : AllWritten(p)' = AllWritten(p)
BY DEF PiecesOf, HalfWritten, AllWritten

LEMMA PiecesInFile ==
    ASSUME TypeOK, NEW p
    PROVE  PiecesOf(p) \in SUBSET (1..Len(file)) /\ Len(file) \in Nat
BY DEF PiecesOf, TypeOK

LEMMA Served ==
    ASSUME TypeOK, NEW from, NEW to \in Phases, Goto(from, to)
    PROVE  /\ server'.phase = to /\ server'.peer = server.peer /\ server.phase = from
           /\ server' \in [phase : Phases, peer : Peers \cup {NoPeer}]
BY DEF TypeOK, Goto

LEMMA IdleTyped ==
    /\ Idle \in [phase : Phases, peer : Peers \cup {NoPeer}]
    /\ Idle.phase = "ACCEPT" /\ Idle.peer = NoPeer
BY DEF Idle, Phases
-----------------------------------------------------------------------------
(***************************************************************************)
(* Peers.                                                                  *)
(***************************************************************************)

LEMMA DurableTyped ==
    ASSUME TypeOK
    PROVE  Durable \in 0..Len(file)
BY DEF TypeOK, Durable

\* Answers stay true while the file is kept and no less of it is durable.
LEMMA TruthKept ==
    ASSUME TypeOK, AnswerTruthful, UNCHANGED file, Durable' \in Int, Durable <= Durable',
           \A p \in Peers : answer'[p] \in {"RECORDED", "DENIED"} =>
               \/ answer'[p] = answer[p]
               \/ answer'[p] = "DENIED" /\ PiecesOf(p) = {}
               \/ /\ answer'[p] = "RECORDED"
                  /\ \E j \in 1..Durable - 1 : PiecesOf(p) = {j, j + 1} /\ file[j + 1].last
    PROVE  AnswerTruthful'
<1> SUFFICES ASSUME NEW p \in Peers
             PROVE  /\ answer'[p] = "RECORDED" =>
                          \E j \in 1..Durable' - 1 : PiecesOf(p)' = {j, j + 1} /\ file'[j + 1].last
                    /\ answer'[p] = "DENIED" => PiecesOf(p)' = {}
    BY DEF AnswerTruthful
<1>1. PiecesOf(p)' = PiecesOf(p) /\ file' = file
    BY FileKept
<1>2. /\ answer[p] = "RECORDED" =>
            \E j \in 1..Durable - 1 : PiecesOf(p) = {j, j + 1} /\ file[j + 1].last
      /\ answer[p] = "DENIED" => PiecesOf(p) = {}
    BY DEF AnswerTruthful
<1>3. Durable \in Int
    BY DurableTyped DEF TypeOK
<1>4. \A j \in 1..Durable - 1 : j \in 1..Durable' - 1
  <2>1. \A a, b \in Int : a <= b => \A j \in 1..a - 1 : j \in 1..b - 1
      OBVIOUS
  <2> QED
      BY <1>3, <2>1
<1> QED
    BY <1>1, <1>2, <1>4

LEMMA CompactKept ==
    ASSUME Compact, UNCHANGED file
    PROVE  Compact'
BY FileKept DEF Compact

LEMMA PeersInvariant ==
    ASSUME AuditInv, PeerStep
    PROVE  AuditInv'
<1> USE DEF AuditInv
<1>1. PICK p \in Peers : Connect(p) \/ Send(p) \/ Leave(p)
    BY DEF PeerStep
<1>2. /\ UNCHANGED <<file, synced, named, server, faults>>
      /\ \A q \in Peers : PiecesOf(q)' = PiecesOf(q) /\ HalfWritten(q)' = HalfWritten(q)
                            /\ AllWritten(q)' = AllWritten(q)
      /\ Durable' = Durable
    BY <1>1, FileKept DEF Connect, Send, Leave, disk, Durable
<1>3. /\ answer \in [Peers -> {"NEW", "WAITING", "RECORDED", "DENIED", "LOST"}]
      /\ backlog \in Seq(Peers) /\ Len(backlog) \in Nat
      /\ frame \in [Peers -> {"NONE", "EVENT", "INVALID"}]
    BY DEF TypeOK
<1>4. /\ answer' \in [Peers -> {"NEW", "WAITING", "RECORDED", "DENIED", "LOST"}]
      /\ \A q \in Peers : \/ answer'[q] = answer[q]
                          \/ answer[q] \in {"NEW", "WAITING"} /\ answer'[q] \in Unanswered
    BY <1>1, <1>3 DEF Connect, Send, Leave, Unanswered
<1>5. frame' \in [Peers -> {"NONE", "EVENT", "INVALID"}]
    BY <1>1, <1>3 DEF Connect, Send, Leave
<1>6. \/ backlog' = backlog
      \/ backlog' = Append(backlog, p) /\ answer[p] = "NEW" /\ answer'[p] = "WAITING"
    BY <1>1, <1>3 DEF Connect, Send, Leave
<1>7. /\ backlog' \in Seq(Peers)
      /\ \/ Len(backlog') = Len(backlog)
         \/ /\ Len(backlog') = Len(backlog) + 1 /\ backlog'[Len(backlog) + 1] = p
            /\ answer[p] = "NEW" /\ answer'[p] = "WAITING"
      /\ \A i \in 1..Len(backlog) : backlog'[i] = backlog[i]
    BY <1>3, <1>6, AppendProperties
<1>8. TypeOK'
    BY <1>2, <1>4, <1>5, <1>7 DEF TypeOK
<1>9. Backlog'
  <2> SUFFICES ASSUME NEW q \in Peers
               PROVE  /\ \A i, j \in 1..Len(backlog') :
                            backlog'[i] = q /\ backlog'[j] = q => i = j
                      /\ Waits(q)' => /\ answer'[q] \in Unanswered /\ PiecesOf(q)' = {}
                                      /\ server'.peer # q
      BY DEF Backlog
  <2>1. /\ \A i, j \in 1..Len(backlog) : backlog[i] = q /\ backlog[j] = q => i = j
        /\ Waits(q) => answer[q] \in Unanswered /\ PiecesOf(q) = {} /\ server.peer # q
      BY DEF Backlog
  <2>2. /\ Waits(q) <=> \E i \in 1..Len(backlog) : backlog[i] = q
        /\ Waits(q)' <=> \E i \in 1..Len(backlog') : backlog'[i] = q
      BY DEF Waits
  <2>3. answer[q] = "NEW" => ~Waits(q)
      BY <2>1 DEF Unanswered
  <2>4. \A i, j \in 1..Len(backlog') : backlog'[i] = q /\ backlog'[j] = q => i = j
      BY <1>3, <1>7, <2>1, <2>2, <2>3
  <2>5. CASE Waits(q)
      BY <2>1, <2>4, <2>5, <1>2, <1>4 DEF Unanswered
  <2>6. CASE ~Waits(q) /\ Waits(q)'
    <3>1. q = p /\ answer[q] = "NEW" /\ answer'[q] = "WAITING"
        BY <1>3, <1>7, <2>2, <2>6
    <3>2. PiecesOf(q) = {}
        BY <3>1 DEF Fresh
    <3>3. server.peer # q
        BY <3>1 DEF Serving, Held, Unanswered
    <3> QED
        BY <2>4, <3>1, <3>2, <3>3, <1>2 DEF Unanswered
  <2> QED
      BY <2>4, <2>5, <2>6
<1>10. Fresh'
    BY <1>2, <1>4 DEF Fresh, Unanswered
<1>11. Serving'
    BY <1>2, <1>4 DEF Serving, Held, Unanswered
<1>12. Compact'
    BY <1>2, CompactKept
<1>13. AnswerTruthful'
  <2>1. \A q \in Peers : answer'[q] \in {"RECORDED", "DENIED"} => answer'[q] = answer[q]
      BY <1>4 DEF Unanswered
  <2>2. Durable' \in Int /\ Durable <= Durable'
      BY <1>2, DurableTyped DEF TypeOK
  <2> QED
      BY <1>2, <2>1, <2>2, TruthKept
<1> QED
    BY <1>8, <1>9, <1>10, <1>11, <1>12, <1>13
-----------------------------------------------------------------------------
(***************************************************************************)
(* The service.                                                            *)
(***************************************************************************)

\* Steps between which only the phase moves.
LEMMA BacklogKept ==
    ASSUME Backlog, UNCHANGED <<file, backlog, answer>>, server'.peer = server.peer
    PROVE  Backlog'
<1>1. \A p : PiecesOf(p)' = PiecesOf(p) /\ Waits(p)' = Waits(p)
    BY FileKept DEF Waits
<1> QED
    BY <1>1 DEF Backlog

LEMMA FreshKept ==
    ASSUME Fresh, UNCHANGED file, \A p \in Peers : answer'[p] = "NEW" => answer[p] = "NEW"
    PROVE  Fresh'
BY FileKept DEF Fresh

LEMMA AcceptInvariant ==
    ASSUME AuditInv, Accept
    PROVE  AuditInv'
<1> USE DEF AuditInv
<1>1. /\ server.phase = "ACCEPT" /\ backlog # <<>>
      /\ server' = [phase |-> "RECEIVE", peer |-> Head(backlog)] /\ backlog' = Tail(backlog)
      /\ UNCHANGED <<file, synced, named, frame, answer, faults>>
    BY DEF Accept, disk
<1>2. backlog \in Seq(Peers) /\ Len(backlog) \in Nat /\ Len(backlog) # 0
    BY <1>1 DEF TypeOK
<1>3. /\ Head(backlog) \in Peers /\ Head(backlog) = backlog[1]
      /\ backlog' \in Seq(Peers) /\ Len(backlog') = Len(backlog) - 1
      /\ \A i \in 1..Len(backlog') : backlog'[i] = backlog[i + 1]
    BY <1>1, <1>2, HeadTailProperties
<1>4. server'.phase = "RECEIVE" /\ server'.peer = Head(backlog)
    BY <1>1
<1>5. TypeOK'
  <2>1. server' \in [phase : Phases, peer : Peers \cup {NoPeer}]
      BY <1>1, <1>3 DEF Phases
  <2> QED
      BY <1>1, <1>3, <2>1 DEF TypeOK
<1>6. \A p \in Peers : PiecesOf(p)' = PiecesOf(p)
    BY <1>1, FileKept
<1>7. Backlog'
  <2> SUFFICES ASSUME NEW q \in Peers
               PROVE  /\ \A i, j \in 1..Len(backlog') :
                            backlog'[i] = q /\ backlog'[j] = q => i = j
                      /\ Waits(q)' => /\ answer'[q] \in Unanswered /\ PiecesOf(q)' = {}
                                      /\ server'.peer # q
      BY DEF Backlog
  <2>1. /\ \A i, j \in 1..Len(backlog) : backlog[i] = q /\ backlog[j] = q => i = j
        /\ Waits(q) => answer[q] \in Unanswered /\ PiecesOf(q) = {} /\ server.peer # q
      BY DEF Backlog
  <2>2. /\ Waits(q) <=> \E i \in 1..Len(backlog) : backlog[i] = q
        /\ Waits(q)' <=> \E i \in 1..Len(backlog') : backlog'[i] = q
      BY DEF Waits
  <2>3. \A i \in 1..Len(backlog') : i \in Int /\ i + 1 \in 1..Len(backlog) /\ i + 1 # 1
      BY <1>2, <1>3
  <2>4. \A i, j \in 1..Len(backlog') : backlog'[i] = q /\ backlog'[j] = q => i = j
      BY <1>3, <2>1, <2>3
  <2>5. ASSUME Waits(q)' PROVE Waits(q) /\ Head(backlog) # q
    <3>1. PICK i \in 1..Len(backlog') : backlog'[i] = q
        BY <2>2, <2>5
    <3>2. i + 1 \in 1..Len(backlog) /\ backlog[i + 1] = q /\ i + 1 # 1 /\ 1 \in 1..Len(backlog)
        BY <3>1, <1>2, <1>3, <2>3
    <3> QED
        BY <3>2, <2>1, <2>2, <1>3
  <2> QED
      BY <2>1, <2>4, <2>5, <1>1, <1>4, <1>6
<1>8. Serving'
  <2>1. Waits(Head(backlog))
      BY <1>2, <1>3 DEF Waits
  <2>2. answer[Head(backlog)] \in Unanswered /\ PiecesOf(Head(backlog)) = {}
      BY <2>1, <1>3 DEF Backlog
  <2>3. ASSUME NEW p \in Peers, server'.peer = p PROVE Held(p)'
      BY <2>2, <2>3, <1>1, <1>3, <1>4, <1>6 DEF Held
  <2> QED
      BY <2>3, <1>3, <1>4 DEF Serving
<1>9. Fresh' /\ Compact' /\ AnswerTruthful'
  <2>1. Durable' = Durable /\ Durable \in Int
      BY <1>1, DurableTyped DEF Durable, TypeOK
  <2> QED
      BY <1>1, <2>1, FreshKept, CompactKept, TruthKept
<1> QED
    BY <1>5, <1>7, <1>8, <1>9

\* Moves of the phase that leave the file, its peer and the answers alone.
LEMMA MoveInvariant ==
    ASSUME AuditInv, ReceiveEvent \/ RefuseFrame \/ SyncFile \/ SyncDirectory
    PROVE  AuditInv'
<1> USE DEF AuditInv
<1>1. UNCHANGED <<file, backlog, frame, answer, faults>>
    BY DEF ReceiveEvent, RefuseFrame, SyncFile, SyncDirectory, disk, peers
<1>2. /\ \/ server.phase = "RECEIVE" /\ server'.phase \in {"APPEND", "DENIED"}
         \/ server.phase = "WRITTEN" /\ server'.phase = "SYNCED" /\ synced' = Len(file)
         \/ server.phase = "SYNCED" /\ server'.phase = "RECORDED" /\ named' = TRUE
      /\ server'.peer = server.peer
      /\ server' \in [phase : Phases, peer : Peers \cup {NoPeer}]
  <2>1. {"APPEND", "DENIED", "SYNCED", "RECORDED"} \subseteq Phases
      BY DEF Phases
  <2> QED
      BY <2>1, Served DEF ReceiveEvent, RefuseFrame, SyncFile, SyncDirectory
<1>3. /\ \/ synced' = synced
         \/ server.phase = "WRITTEN" /\ server'.phase = "SYNCED" /\ synced' = Len(file)
      /\ \/ named' = named
         \/ named' = TRUE
  <2>1. CASE ReceiveEvent \/ RefuseFrame
      BY <2>1 DEF ReceiveEvent, RefuseFrame, disk
  <2>2. CASE SyncFile
    <3>1. server.phase = "WRITTEN" /\ server'.phase = "SYNCED"
        BY <2>2, Served DEF SyncFile, Phases
    <3> QED
        BY <2>2, <3>1 DEF SyncFile
  <2>3. CASE SyncDirectory
      BY <2>3 DEF SyncDirectory
  <2> QED
      BY <2>1, <2>2, <2>3
<1>4. file \in Seq(Pieces) /\ Len(file) \in Nat /\ synced \in 0..Len(file) /\ named \in BOOLEAN
    BY DEF TypeOK
<1>5. TypeOK'
  <2>1. synced' \in 0..Len(file')
    <3>1. CASE synced' = synced
        BY <3>1, <1>1, <1>4
    <3>2. CASE synced' = Len(file)
        BY <3>2, <1>1, <1>4
    <3> QED
        BY <3>1, <3>2, <1>3
  <2>2. named' \in BOOLEAN
      BY <1>3, <1>4, Zenon
  <2> QED
      BY <1>1, <1>2, <2>1, <2>2 DEF TypeOK
<1>6. Backlog' /\ Fresh' /\ Compact'
    BY <1>1, <1>2, BacklogKept, FreshKept, CompactKept
<1>7. Serving'
  <2>1. server'.peer \in Peers
      BY <1>2 DEF Serving
  <2>2. ASSUME NEW p \in Peers, server'.peer = p PROVE Held(p)'
    <3>1. Held(p)
        BY <2>2, <1>2 DEF Serving
    <3>2. /\ PiecesOf(p)' = PiecesOf(p) /\ HalfWritten(p)' = HalfWritten(p)
          /\ AllWritten(p)' = AllWritten(p)
        BY <1>1, FileKept
    <3> QED
        BY <3>1, <3>2, <1>1, <1>2, <1>3 DEF Held
  <2> QED
      BY <2>1, <2>2 DEF Serving
<1>8. AnswerTruthful'
  <2>1. Durable \in Int /\ Durable' \in Int /\ Durable <= Durable'
      BY <1>3, <1>4 DEF Durable
  <2> QED
      BY <1>1, <2>1, TruthKept
<1> QED
    BY <1>5, <1>6, <1>7, <1>8

\* The exchange ends: it is answered, or its connection is lost.
LEMMA EndInvariant ==
    ASSUME AuditInv, Respond \/ Die
    PROVE  AuditInv'
<1> USE DEF AuditInv
<1> PICK p : p = server.peer
    OBVIOUS
<1>1. /\ UNCHANGED <<file, synced, named, frame, backlog>> /\ server' = Idle
      /\ server.phase # "ACCEPT" /\ server.phase \in Phases
    BY DEF Respond, Die, disk, TypeOK
<1>2. p \in Peers /\ Held(p)
    BY <1>1 DEF Serving
<1>3. answer \in [Peers -> {"NEW", "WAITING", "RECORDED", "DENIED", "LOST"}]
    BY DEF TypeOK
<1>4. /\ answer' \in [Peers -> {"NEW", "WAITING", "RECORDED", "DENIED", "LOST"}]
      /\ \A q \in Peers : q # p => answer'[q] = answer[q]
      /\ \/ answer'[p] = answer[p]
         \/ answer'[p] = "LOST"
         \/ answer'[p] = server.phase /\ server.phase \in {"RECORDED", "DENIED"}
    BY <1>2, <1>3 DEF Respond, Die
<1>5. TypeOK'
  <2>1. faults' \in 0..MaxFaults
      BY AuditAssumption DEF Respond, Die, TypeOK
  <2> QED
      BY <1>1, <1>4, <2>1, IdleTyped DEF TypeOK
<1>6. /\ \A q : PiecesOf(q)' = PiecesOf(q) /\ Waits(q)' = Waits(q)
      /\ server'.peer = NoPeer /\ server'.phase = "ACCEPT"
      /\ NoPeer \notin Peers
    BY <1>1, FileKept, IdleTyped, AuditAssumption DEF Waits
<1>7. Backlog'
    BY <1>1, <1>2, <1>4, <1>6 DEF Backlog
<1>8. Fresh' /\ Compact'
    BY <1>1, <1>2, <1>4, FreshKept, CompactKept DEF Held, Unanswered
<1>9. Serving'
    BY <1>6 DEF Serving
<1>10. AnswerTruthful'
  <2>1. Durable' = Durable /\ Durable \in Int
      BY <1>1, DurableTyped DEF Durable, TypeOK
  <2>2. CASE answer'[p] = "RECORDED" /\ server.phase = "RECORDED"
    <3>1. PiecesOf(p) = {Len(file) - 1, Len(file)} /\ file[Len(file)].last /\ Durable = Len(file)
        BY <1>2, <2>2 DEF Held, AllWritten, Durable
    <3>2. PiecesOf(p) \in SUBSET (1..Len(file)) /\ Len(file) \in Nat
        BY PiecesInFile
    <3> DEFINE j == Len(file) - 1
    <3>3. j \in 1..Durable - 1 /\ j + 1 = Len(file)
        BY <3>1, <3>2
    <3>4. \E i \in 1..Durable - 1 : PiecesOf(p) = {i, i + 1} /\ file[i + 1].last
      <4>1. PiecesOf(p) = {j, j + 1} /\ file[j + 1].last
          BY <3>1, <3>3
      <4> HIDE DEF j
      <4> QED
          BY <3>3, <4>1
    <3> QED
        BY <1>1, <1>4, <2>1, <2>2, <3>4, TruthKept
  <2>3. CASE answer'[p] = "DENIED" /\ server.phase = "DENIED"
    <3>1. PiecesOf(p) = {}
        BY <1>2, <2>3 DEF Held
    <3> QED
        BY <1>1, <1>4, <2>1, <2>3, <3>1, TruthKept
  <2>4. CASE answer'[p] = answer[p] \/ answer'[p] = "LOST"
      BY <1>1, <1>4, <2>1, <2>4, TruthKept
  <2> QED
      BY <1>4, <2>2, <2>3, <2>4
<1> QED
    BY <1>5, <1>7, <1>8, <1>9, <1>10

\* One piece of the event of the peer that is served.
LEMMA WriteInvariant ==
    ASSUME AuditInv, WritePiece("APPEND", "PARTIAL", FALSE) \/ WritePiece("PARTIAL", "WRITTEN", TRUE)
    PROVE  AuditInv'
<1> USE DEF AuditInv
<1> PICK p : p = server.peer
    OBVIOUS
<1>1. /\ UNCHANGED <<synced, named, frame, backlog, answer, faults>>
      /\ \/ /\ server.phase = "APPEND" /\ server'.phase = "PARTIAL"
            /\ file' = Append(file, [peer |-> p, last |-> FALSE])
         \/ /\ server.phase = "PARTIAL" /\ server'.phase = "WRITTEN"
            /\ file' = Append(file, [peer |-> p, last |-> TRUE])
      /\ server'.peer = p
      /\ server' \in [phase : Phases, peer : Peers \cup {NoPeer}]
  <2>1. "PARTIAL" \in Phases /\ "WRITTEN" \in Phases
      BY DEF Phases
  <2> QED
      BY <2>1, Served DEF WritePiece, peers
<1>2. p \in Peers /\ Held(p) /\ Len(file) \in Nat
    BY <1>1 DEF Serving, TypeOK
<1>3. /\ file' \in Seq(Pieces) /\ Len(file') = Len(file) + 1
      /\ \A q : q # p => PiecesOf(q)' = PiecesOf(q)
      /\ PiecesOf(p)' = PiecesOf(p) \cup {Len(file) + 1}
      /\ \A i \in 1..Len(file) : file'[i] = file[i]
      /\ server'.phase = "WRITTEN" => file'[Len(file) + 1].last
    BY <1>1, <1>2, FileGrows
<1>4. TypeOK'
    BY <1>1, <1>2, <1>3 DEF TypeOK
<1>5. Backlog'
  <2>1. \A q : Waits(q)' = Waits(q)
      BY <1>1 DEF Waits
  <2> QED
      BY <2>1, <1>1, <1>3 DEF Backlog
<1>6. Fresh'
    BY <1>1, <1>2, <1>3 DEF Fresh, Held, Unanswered
<1>7. Held(p)'
  <2>1. CASE server.phase = "APPEND"
      BY <1>1, <1>2, <1>3, <2>1 DEF Held, HalfWritten
  <2>2. CASE server.phase = "PARTIAL"
    <3>1. PiecesOf(p)' = {Len(file') - 1, Len(file')} /\ file'[Len(file')].last
        BY <1>1, <1>2, <1>3, <2>2 DEF Held, HalfWritten
    <3> QED
        BY <3>1, <1>1, <1>2, <2>2 DEF Held, AllWritten
  <2> QED
      BY <1>1, <2>1, <2>2
<1>8. Serving'
    BY <1>1, <1>2, <1>7 DEF Serving
<1>9. Compact'
  <2> SUFFICES ASSUME NEW q \in Peers
               PROVE  \E j \in 0..Len(file') : PiecesOf(q)' \subseteq {j, j + 1}
      BY DEF Compact
  <2>1. CASE q # p
      BY <2>1, <1>2, <1>3 DEF Compact
  <2>2. CASE q = p
    <3>1. PiecesOf(p) = {} \/ PiecesOf(p) = {Len(file)}
        BY <1>1, <1>2 DEF Held, HalfWritten
    <3> QED
        BY <2>2, <3>1, <1>2, <1>3
  <2> QED
      BY <2>1, <2>2
<1>10. AnswerTruthful'
  <2> SUFFICES ASSUME NEW q \in Peers
               PROVE  /\ answer'[q] = "RECORDED" =>
                            \E j \in 1..Durable' - 1 : PiecesOf(q)' = {j, j + 1} /\ file'[j + 1].last
                      /\ answer'[q] = "DENIED" => PiecesOf(q)' = {}
      BY DEF AnswerTruthful
  <2>1. answer'[q] = answer[q] /\ Durable' = Durable
      BY <1>1 DEF Durable
  <2>2. answer[q] \in {"RECORDED", "DENIED"} => PiecesOf(q)' = PiecesOf(q)
      BY <1>2, <1>3 DEF Held, Unanswered
  <2>3. /\ answer[q] = "RECORDED" =>
              \E j \in 1..Durable - 1 : PiecesOf(q) = {j, j + 1} /\ file[j + 1].last
        /\ answer[q] = "DENIED" => PiecesOf(q) = {}
      BY DEF AnswerTruthful
  <2>4. \A j \in 1..Durable - 1 : file'[j + 1] = file[j + 1]
      BY <1>2, <1>3, DurableTyped
  <2> QED
      BY <2>1, <2>2, <2>3, <2>4
<1> QED
    BY <1>4, <1>5, <1>6, <1>8, <1>9, <1>10
-----------------------------------------------------------------------------
(***************************************************************************)
(* A power loss.                                                           *)
(***************************************************************************)

LEMMA PowerLossInvariant ==
    ASSUME AuditInv, PowerLoss
    PROVE  AuditInv'
<1> USE DEF AuditInv
<1>1. PICK k \in Durable..Len(file) :
        file' = SubSeq(file, 1, k) /\ synced' = k /\ named' = (named \/ k > 0)
    BY DEF PowerLoss
<1>2. Len(file) \in Nat /\ Durable \in 0..Len(file) /\ k \in 0..Len(file) /\ Durable <= k
    BY <1>1, DurableTyped DEF TypeOK
<1>3. /\ file' \in Seq(Pieces) /\ Len(file') = k
      /\ \A p : PiecesOf(p)' = PiecesOf(p) \cap 1..k
      /\ \A i \in 1..k : file'[i] = file[i]
    BY <1>1, <1>2, FileCut
<1>4. /\ server' = Idle /\ backlog' = <<>> /\ frame' = frame /\ faults' \in 0..MaxFaults
      /\ answer' \in [Peers -> {"NEW", "WAITING", "RECORDED", "DENIED", "LOST"}]
      /\ \A p \in Peers : answer'[p] = "LOST" \/ answer'[p] = answer[p]
    BY AuditAssumption DEF PowerLoss, TypeOK
<1>5. TypeOK'
  <2>1. synced' \in 0..Len(file')
      BY <1>1, <1>2, <1>3
  <2>2. named' \in BOOLEAN
      BY <1>1, Zenon
  <2> QED
      BY <1>3, <1>4, <2>1, <2>2, IdleTyped DEF TypeOK
<1>6. server'.phase = "ACCEPT" /\ server'.peer = NoPeer /\ NoPeer \notin Peers
    BY <1>4, IdleTyped, AuditAssumption
<1>7. Backlog' /\ Serving'
    BY <1>4, <1>6 DEF Backlog, Waits, Serving
<1>8. Fresh'
    BY <1>3, <1>4 DEF Fresh
<1>9. Compact'
  <2> SUFFICES ASSUME NEW p \in Peers
               PROVE  \E j \in 0..Len(file') : PiecesOf(p)' \subseteq {j, j + 1}
      BY DEF Compact
  <2>1. PICK j \in 0..Len(file) : PiecesOf(p) \subseteq {j, j + 1}
      BY DEF Compact
  <2>2. CASE j <= k
      BY <2>1, <2>2, <1>2, <1>3
  <2>3. CASE ~(j <= k)
    <3>1. PiecesOf(p)' = {}
        BY <2>1, <2>3, <1>2, <1>3
    <3> QED
        BY <3>1, <1>2, <1>3
  <2> QED
      BY <2>2, <2>3
<1>10. AnswerTruthful'
  <2> SUFFICES ASSUME NEW p \in Peers
               PROVE  /\ answer'[p] = "RECORDED" =>
                            \E j \in 1..Durable' - 1 : PiecesOf(p)' = {j, j + 1} /\ file'[j + 1].last
                      /\ answer'[p] = "DENIED" => PiecesOf(p)' = {}
      BY DEF AnswerTruthful
  <2>1. CASE answer'[p] = "RECORDED"
    <3>1. PICK j \in 1..Durable - 1 : PiecesOf(p) = {j, j + 1} /\ file[j + 1].last
        BY <2>1, <1>4 DEF AnswerTruthful
    <3>2. j \in 1..k /\ j + 1 \in 1..k
        BY <1>2
    <3>3. Durable' = k
      <4>1. k > 0
          BY <3>2
      <4>2. named' = TRUE
          BY <4>1, <1>1
      <4> QED
          BY <4>2, <1>1 DEF Durable
    <3>4. PiecesOf(p)' = {j, j + 1} /\ file'[j + 1].last
        BY <3>1, <3>2, <1>3
    <3>5. j \in 1..Durable' - 1
        BY <3>2, <3>3, <1>2
    <3> QED
        BY <2>1, <3>4, <3>5
  <2>2. CASE answer'[p] = "DENIED"
      BY <2>2, <1>3, <1>4 DEF AnswerTruthful
  <2> QED
      BY <2>1, <2>2
<1> QED
    BY <1>5, <1>7, <1>8, <1>9, <1>10

-----------------------------------------------------------------------------
(***************************************************************************)
(* The theorems.                                                           *)
(***************************************************************************)

\* The invariant holds in every state of the service, its file and its peers,
\* whatever dies between two steps of an append (serve_socket, append_event).
THEOREM AuditInductive == Spec => []AuditInv
<1>1. Init => AuditInv
  <2> SUFFICES ASSUME Init PROVE AuditInv
      OBVIOUS
  <2>1. TypeOK
    <3>1. file \in Seq(Pieces) /\ Len(file) = 0 /\ backlog \in Seq(Peers) /\ Len(backlog) = 0
        BY DEF Init
    <3>2. synced \in 0..Len(file) /\ faults \in 0..MaxFaults
        BY <3>1, AuditAssumption DEF Init
    <3>3. named \in BOOLEAN
        BY DEF Init
    <3>4. server \in [phase : Phases, peer : Peers \cup {NoPeer}]
        BY IdleTyped DEF Init
    <3>5. /\ frame \in [Peers -> {"NONE", "EVENT", "INVALID"}]
          /\ answer \in [Peers -> {"NEW", "WAITING", "RECORDED", "DENIED", "LOST"}]
        BY DEF Init
    <3> QED
        BY <3>1, <3>2, <3>3, <3>4, <3>5 DEF TypeOK
  <2>2. \A p : PiecesOf(p) = {}
      BY DEF Init, PiecesOf
  <2>3. Backlog
      BY DEF Init, Backlog, Waits
  <2>4. Serving
      BY IdleTyped, AuditAssumption DEF Init, Serving
  <2>5. Fresh /\ AnswerTruthful
      BY <2>2 DEF Init, Fresh, AnswerTruthful
  <2>6. Compact
      BY <2>2 DEF Compact, Init
  <2> QED
      BY <2>1, <2>3, <2>4, <2>5, <2>6 DEF AuditInv
<1>2. AuditInv /\ [Next]_vars => AuditInv'
  <2> SUFFICES ASSUME AuditInv, [Next]_vars PROVE AuditInv'
      OBVIOUS
  <2>1. CASE PeerStep
      BY <2>1, PeersInvariant
  <2>2. CASE ServerStep
      BY <2>2, AcceptInvariant, MoveInvariant, WriteInvariant, EndInvariant DEF ServerStep
  <2>3. CASE Die
      BY <2>3, EndInvariant
  <2>4. CASE PowerLoss
      BY <2>4, PowerLossInvariant
  <2>5. CASE UNCHANGED vars
    <3>1. /\ UNCHANGED <<file, synced, named, server, backlog, frame, answer, faults>>
          /\ Durable' = Durable /\ Durable \in Int
        BY <2>5, DurableTyped DEF vars, Durable, AuditInv, TypeOK
    <3>2. TypeOK'
        BY <3>1 DEF AuditInv, TypeOK
    <3>3. Backlog' /\ Fresh' /\ Compact' /\ AnswerTruthful'
        BY <3>1, BacklogKept, FreshKept, CompactKept, TruthKept DEF AuditInv
    <3>4. Serving'
        BY <3>1, FileKept DEF AuditInv, Serving, Held
    <3> QED
        BY <3>2, <3>3, <3>4 DEF AuditInv
  <2> QED
      BY <2>1, <2>2, <2>3, <2>4, <2>5 DEF Next
<1> QED
    BY <1>1, <1>2, PTL DEF Spec

\* A peer told that its event is recorded finds it whole where no later power
\* loss reaches, and one told that it is denied has left nothing behind.
THEOREM AnswersTruthful == Spec => []AnswerTruthful
<1>1. AuditInv => AnswerTruthful
    BY DEF AuditInv
<1> QED
    BY <1>1, AuditInductive, PTL

\* No death, restart or power loss puts an event into the log twice.
THEOREM AppendedAtMostOnce == Spec => []AppendedOnce
<1>1. AuditInv => AppendedOnce
  <2> SUFFICES ASSUME AuditInv, NEW p \in Peers
               PROVE  Cardinality(PiecesOf(p)) <= 2
      BY DEF AppendedOnce
  <2>1. PICK j \in 0..Len(file) : PiecesOf(p) \subseteq {j, j + 1}
      BY DEF AuditInv, Compact
  <2>2. IsFiniteSet({j}) /\ Cardinality({j}) = 1
      BY FS_Singleton
  <2>3. /\ IsFiniteSet({j} \cup {j + 1})
        /\ Cardinality({j} \cup {j + 1}) =
              IF j + 1 \in {j} THEN Cardinality({j}) ELSE Cardinality({j}) + 1
      BY <2>2, FS_AddElement
  <2>4. Cardinality({j} \cup {j + 1}) <= 2
      BY <2>2, <2>3
  <2>5. PiecesOf(p) \in SUBSET ({j} \cup {j + 1})
      BY <2>1
  <2>6. IsFiniteSet(PiecesOf(p)) /\ Cardinality(PiecesOf(p)) <= Cardinality({j} \cup {j + 1})
      BY <2>3, <2>5, FS_Subset
  <2>7. Cardinality(PiecesOf(p)) \in Nat /\ Cardinality({j} \cup {j + 1}) \in Nat
      BY <2>3, <2>6, FS_CardinalityType
  <2> QED
      BY <2>4, <2>6, <2>7
<1> QED
    BY <1>1, AuditInductive, PTL

\* The terminal event a reader accepts is the only one of its request in the part
\* of the file it reads (read_recent_terminal).
THEOREM TerminalAlwaysSole == Spec => []SoleTerminal
<1>1. AuditInv => SoleTerminal
  <2> SUFFICES ASSUME AuditInv, NEW p \in Peers, NEW q \in Peers,
                      RequestOf[p] = RequestOf[q], p # q, Terminal(RequestOf[p]) = p,
                      NEW j \in LineEnds, file[j].peer = q
               PROVE  FALSE
      BY DEF SoleTerminal
  <2> DEFINE matching == {i \in LineEnds : RequestOf[file[i].peer] = RequestOf[p]}
  <2>1. /\ Cardinality(matching) = 1
        /\ file[CHOOSE i \in matching : TRUE].peer = p
      BY AuditAssumption DEF Terminal
  <2>2. LineEnds \in SUBSET (1..Len(file)) /\ Len(file) \in Nat
    <3>1. Len(file) \in Nat /\ Window \in Nat
        BY AuditAssumption DEF AuditInv, TypeOK
    <3> QED
        BY <3>1 DEF LineEnds
  <2>3. IsFiniteSet(1..Len(file))
      BY <2>2, FS_Interval
  <2>4. matching \in SUBSET (1..Len(file))
      BY <2>2
  <2>5. IsFiniteSet(matching)
      BY <2>3, <2>4, FS_Subset
  <2>6. PICK x : matching = {x}
      BY <2>1, <2>5, FS_Singleton
  <2>7. j \in matching
      OBVIOUS
  <2>8. (CHOOSE i \in matching : TRUE) \in matching
      BY <2>7
  <2> QED
      BY <2>1, <2>6, <2>7, <2>8
<1> QED
    BY <1>1, AuditInductive, PTL

-----------------------------------------------------------------------------
(***************************************************************************)
(* What AuditTorn finds, and nothing else, makes an event unreadable.        *)
(***************************************************************************)

\* The first piece of an event of p.
Begins(piece, p) == piece.peer = p /\ ~piece.last

\* The end of a line follows the beginning of the same event, and what the
\* served peer has begun is the end of the file.
Lines ==
    /\ \A j \in 1..Len(file) :
          file[j].last => j > 1 /\ Begins(file[j - 1], file[j].peer)
    /\ server.phase = "PARTIAL" => Len(file) > 0 /\ Begins(file[Len(file)], server.peer)

\* Without a fault every append is finished before the next one begins.
Whole ==
    faults = 0 => \A j \in 1..Len(file) :
        ~file[j].last => \/ j < Len(file) /\ file[j + 1].last
                         \/ j = Len(file) /\ server.phase = "PARTIAL"

\* An append that was interrupted, with another event on the same line.
Torn(j) == j < Len(file) /\ ~file[j].last /\ ~file[j + 1].last

LinesInv == Lines /\ Whole

LEMMA LinesInductive == Spec => []LinesInv
<1>1. Init => LinesInv
    BY IdleTyped DEF Init, LinesInv, Lines, Whole
<1>2. AuditInv /\ LinesInv /\ [Next]_vars => LinesInv'
  <2> SUFFICES ASSUME AuditInv, LinesInv, [Next]_vars PROVE LinesInv'
      OBVIOUS
  <2>0. file \in Seq(Pieces) /\ Len(file) \in Nat /\ faults \in 0..MaxFaults /\ MaxFaults \in Nat
      BY AuditAssumption DEF AuditInv, TypeOK
  <2>1. ASSUME UNCHANGED file, faults' = faults,
               server' = server \/ (server.phase # "PARTIAL" /\ server'.phase # "PARTIAL")
        PROVE  LinesInv'
      BY <2>1 DEF LinesInv, Lines, Whole
  <2>2. CASE PeerStep \/ UNCHANGED vars
      BY <2>1, <2>2 DEF PeerStep, Connect, Send, Leave, vars, disk
  <2>3. CASE Accept \/ ReceiveEvent \/ RefuseFrame \/ SyncFile \/ SyncDirectory \/ Respond
    <3>1. UNCHANGED <<file, faults>> /\ server.phase # "PARTIAL"
        BY <2>3 DEF Accept, ReceiveEvent, RefuseFrame, SyncFile, SyncDirectory, Respond, Goto, disk
    <3>2. server'.phase # "PARTIAL"
        BY <2>3, IdleTyped, Served DEF AuditInv, Phases, Accept, ReceiveEvent, RefuseFrame,
                                       SyncFile, SyncDirectory, Respond
    <3> QED
        BY <2>1, <3>1, <3>2
  <2>4. ASSUME NEW b \in BOOLEAN, NEW from, NEW to \in Phases, WritePiece(from, to, b),
               b => from = "PARTIAL" /\ to = "WRITTEN",
               ~b => from = "APPEND" /\ to = "PARTIAL"
        PROVE  LinesInv'
    <3>1. /\ server'.phase = to /\ server'.peer = server.peer /\ server.phase = from
          /\ server.peer \in Peers /\ faults' = faults
        BY <2>4, Served DEF WritePiece, AuditInv, Serving
    <3>2. /\ Len(file') = Len(file) + 1 /\ \A j \in 1..Len(file) : file'[j] = file[j]
          /\ file'[Len(file) + 1] = [peer |-> server.peer, last |-> b]
        BY <2>0, <2>4, <3>1 DEF WritePiece, Pieces
    <3>3. ASSUME NEW j \in 1..Len(file'), file'[j].last
          PROVE  j > 1 /\ Begins(file'[j - 1], file'[j].peer)
      <4>1. CASE j \in 1..Len(file)
        <5>1. file'[j] = file[j] /\ j > 1 /\ Begins(file[j - 1], file[j].peer)
            BY <3>2, <3>3, <4>1 DEF LinesInv, Lines
        <5>2. j - 1 \in 1..Len(file)
            BY <2>0, <4>1, <5>1
        <5>3. file'[j - 1] = file[j - 1]
            BY <3>2, <5>2
        <5> QED
            BY <5>1, <5>3
      <4>2. CASE j = Len(file) + 1
        <5>1. file'[j].peer = server.peer /\ b
            BY <3>2, <3>3, <4>2
        <5>2. Len(file) > 0 /\ Begins(file[Len(file)], server.peer)
            BY <2>4, <3>1, <5>1 DEF LinesInv, Lines
        <5>3. Len(file) \in 1..Len(file) /\ j - 1 = Len(file) /\ j > 1
            BY <2>0, <4>2, <5>2
        <5>4. file'[Len(file)] = file[Len(file)]
            BY <3>2, <5>3
        <5> QED
            BY <5>1, <5>2, <5>3, <5>4
      <4> QED
          BY <2>0, <3>2, <4>1, <4>2
    <3>4. Lines'
      <4>1. ASSUME server'.phase = "PARTIAL"
            PROVE  Len(file') > 0 /\ Begins(file'[Len(file')], server'.peer)
        <5>1. ~b
            BY <2>4, <3>1, <4>1
        <5> QED
            BY <2>0, <3>1, <3>2, <5>1 DEF Begins
      <4> QED
          BY <3>3, <4>1 DEF Lines
    <3>5. ASSUME faults = 0, NEW j \in 1..Len(file'), ~file'[j].last
          PROVE  \/ j < Len(file') /\ file'[j + 1].last
                 \/ j = Len(file') /\ server'.phase = "PARTIAL"
      <4>1. CASE j \in 1..Len(file)
          BY <2>0, <2>4, <3>1, <3>2, <3>5, <4>1 DEF LinesInv, Whole
      <4>2. CASE j = Len(file) + 1
          BY <2>4, <3>1, <3>2, <3>5, <4>2
      <4> QED
          BY <2>0, <3>2, <4>1, <4>2
    <3> QED
        BY <3>1, <3>4, <3>5 DEF LinesInv, Whole
  <2>5. CASE WritePiece("APPEND", "PARTIAL", FALSE) \/ WritePiece("PARTIAL", "WRITTEN", TRUE)
      BY <2>4, <2>5 DEF Phases
  <2>6. CASE Die
      BY <2>0, <2>6, IdleTyped DEF Die, LinesInv, Lines, Whole, disk
  <2>7. CASE PowerLoss
    <3>1. PICK kept \in 0..Len(file) : file' = SubSeq(file, 1, kept)
        BY <2>0, <2>7, DurableTyped DEF PowerLoss, AuditInv, TypeOK
    <3>2. Len(file') = kept /\ \A j \in 1..kept : file'[j] = file[j]
        BY <2>0, <3>1
    <3>3. server'.phase # "PARTIAL" /\ faults' # 0
        BY <2>0, <2>7, IdleTyped DEF PowerLoss
    <3>4. ASSUME NEW j \in 1..Len(file'), file'[j].last
          PROVE  j > 1 /\ Begins(file'[j - 1], file'[j].peer)
      <4>1. j \in 1..Len(file) /\ file'[j] = file[j]
          BY <2>0, <3>1, <3>2
      <4>2. j > 1 /\ Begins(file[j - 1], file[j].peer)
          BY <3>4, <4>1 DEF LinesInv, Lines
      <4>3. j - 1 \in 1..kept
          BY <2>0, <3>1, <3>2, <4>1, <4>2
      <4> QED
          BY <3>2, <4>1, <4>2, <4>3
    <3> QED
        BY <3>3, <3>4 DEF LinesInv, Lines, Whole
  <2> QED
      BY <2>2, <2>3, <2>5, <2>6, <2>7 DEF Next, ServerStep
<1> QED
    BY <1>1, <1>2, AuditInductive, PTL DEF Spec

\* The lines a reader splits are in the file, and each but those at its beginning
\* comes after a place of the window.
LEMMA LineEndsInWindow ==
    ASSUME AuditInv, LinesInv, NEW end \in LineEnds
    PROVE  /\ end \in 1..Len(file) /\ file[end].last
           /\ end > 2 => end - 2 > Len(file) - Window
<1>1. Len(file) \in Nat /\ Window \in Nat
    BY AuditAssumption DEF AuditInv, TypeOK
<1>2. end \in 1..Len(file) /\ file[end].last
    BY <1>1 DEF LineEnds
<1>3. CASE Len(file) <= Window
    BY <1>1, <1>2, <1>3
<1>4. CASE Len(file) > Window
  <2>1. PICK i \in Len(file) - Window + 1..Len(file) : file[i].last /\ i < end
      BY <1>1, <1>4 DEF LineEnds
  <2>2. ~file[end - 1].last
      BY <1>2 DEF LinesInv, Lines, Begins
  <2>3. i # end - 1
      BY <2>1, <2>2
  <2> QED
      BY <1>1, <1>2, <1>4, <2>1, <2>3
<1> QED
    BY <1>1, <1>3, <1>4

\* An acknowledged event alone of its request in the window is read unless an
\* interrupted append in the window took another event onto its line, and is
\* always read where nothing was ever interrupted (append_event,
\* read_recent_terminal).
THEOREM UnreadableOnlyWhenTorn ==
    Spec => [](/\ RecordedReadable \/ \E j \in 1..Len(file) : j > Len(file) - Window /\ Torn(j)
               /\ faults = 0 => RecordedReadable)
<1>1. ASSUME AuditInv, LinesInv,
             \A j \in 1..Len(file) : j > Len(file) - Window => ~Torn(j)
      PROVE  RecordedReadable
  <2> SUFFICES ASSUME NEW p \in Peers, answer[p] = "RECORDED",
                      {file[j].peer : j \in {j \in LineEnds :
                          RequestOf[file[j].peer] = RequestOf[p]}} = {p}
               PROVE  Terminal(RequestOf[p]) = p
      BY DEF RecordedReadable
  <2> DEFINE matching == {j \in LineEnds : RequestOf[file[j].peer] = RequestOf[p]}
  <2>1. Len(file) \in Nat
      BY <1>1 DEF AuditInv, TypeOK
  <2>2. ASSUME NEW end \in LineEnds
        PROVE  Decodes(end)
    <3> SUFFICES ASSUME end > 2 PROVE file[end - 2].last
        BY <1>1, LineEndsInWindow, <2>1 DEF Decodes
    <3>1. end \in 1..Len(file) /\ file[end].last /\ end - 2 > Len(file) - Window
        BY <1>1, LineEndsInWindow
    <3>2. ~file[end - 1].last
        BY <1>1, <3>1 DEF LinesInv, Lines, Begins
    <3>3. ~Torn(end - 2)
        BY <1>1, <2>1, <3>1
    <3> QED
        BY <2>1, <3>1, <3>2, <3>3 DEF Torn
  <2>3. PICK k \in 1..Durable - 1 : PiecesOf(p) = {k, k + 1}
      BY <1>1 DEF AuditInv, AnswerTruthful
  <2>4. ASSUME NEW j \in matching
        PROVE  j = k + 1 /\ file[j].peer = p
    <3>1. file[j].peer = p
        OBVIOUS
    <3>2. j \in 1..Len(file) /\ j > 1 /\ file[j - 1].peer = p
        BY <1>1, LineEndsInWindow, <3>1 DEF LinesInv, Lines, Begins
    <3>3. j \in PiecesOf(p) /\ j - 1 \in PiecesOf(p)
        BY <2>1, <3>1, <3>2 DEF PiecesOf
    <3>4. Durable \in Int /\ k \in Int
        BY <1>1, DurableTyped DEF AuditInv, TypeOK
    <3> QED
        BY <2>3, <3>1, <3>2, <3>3, <3>4
  <2>5. matching # {}
      OBVIOUS
  <2>6. matching = {k + 1}
      BY <2>4, <2>5
  <2>7. Cardinality(matching) = 1
      BY <2>6, FS_Singleton
  <2>8. (CHOOSE j \in matching : TRUE) \in matching
      BY <2>5
  <2> QED
      BY <2>2, <2>4, <2>7, <2>8 DEF Terminal
<1>2. ASSUME AuditInv, LinesInv, faults = 0
      PROVE  \A j \in 1..Len(file) : ~Torn(j)
    BY <1>2 DEF LinesInv, Whole, Torn, AuditInv, TypeOK
<1>3. AuditInv /\ LinesInv =>
          /\ RecordedReadable \/ \E j \in 1..Len(file) : j > Len(file) - Window /\ Torn(j)
          /\ faults = 0 => RecordedReadable
    BY <1>1, <1>2
<1> QED
    BY <1>3, AuditInductive, LinesInductive, PTL
=================================================================================
