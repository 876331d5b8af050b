----------------------- MODULE OperationsHeartbeatProofs -----------------------
(***************************************************************************)
(* Proofs about OperationsHeartbeat for any floor, any contents of the queue   *)
(* and any bounds.                                                         *)
(*                                                                         *)
(* A publication is the end of seven steps during which both stores and the    *)
(* published file are read, and the sampler may die at each of them.  The      *)
(* invariant says what the sample it carries means until then: how it follows  *)
(* the published one (Sampled), which checks it has passed (Coherent) and that  *)
(* it is in the audit log (Acknowledged).  The coherence of two stores that are *)
(* never locked together rests on one of them only growing.                  *)
(***************************************************************************)
EXTENDS OperationsHeartbeat, TLAPS

Taken == {"COMPARE", "RECOVER", "RESELECT", "AUDITED", "AGREED"}
Compared == {"RESELECT", "AUDITED", "AGREED"}

\* The running sampler follows the published sample of this boot.
FollowsPublished == sampler.phase # "DOWN" => sampler.previous = Predecessor

\* A sample continues its predecessor and is not of the future.
Sampled ==
    sampler.phase \in Taken =>
        /\ sampler.value \in Samples /\ sampler.value.boot = boot
        /\ sampler.value.sequence = NextSequence(sampler.previous)
        /\ sampler.value.cadence = Cadence(sampler.previous, sampler.value.at)
        /\ sampler.previous # NoSample => /\ sampler.previous.at < sampler.value.at
                                          /\ sampler.previous.receipts <= sampler.value.receipts
        /\ sampler.value.receipts <= receipts
        /\ sampler.value.queue = sampler.queued

\* When the queue was found unchanged, the stores were as the sample says unless
\* the history had grown by then, and then it has still grown at the next check.
Coherent ==
    /\ <<receipts, queue>> \in seen
    /\ sampler.phase = "RECOVER" /\ receipts = sampler.value.receipts =>
           <<sampler.value.receipts, sampler.value.queue>> \in seen
    /\ sampler.phase \in Compared => <<sampler.value.receipts, sampler.value.queue>> \in seen

Acknowledged == sampler.phase \in {"AUDITED", "AGREED"} => sampler.value \in audit

PublishedPast == output # NoSample => output.receipts <= receipts

\* The queue was read when the history is.
Queued == sampler.phase \in {"READ"} \cup Taken => sampler.queued \in Contents

\* What a waiting conversation last read.
ReaderBacked ==
    reader.phase # "IDLE" =>
        reader.prior \in audit /\ reader.prior.boot = boot /\ reader.since < reader.prior.at

HeartbeatInv ==
    /\ TypeOK /\ FollowsPublished /\ Sampled /\ Coherent /\ Acknowledged /\ PublishedPast
    /\ Queued /\ ReaderBacked /\ PublishedRecorded /\ PublishedCoherent

-----------------------------------------------------------------------------
Samplers == [phase : Phases, selected : Contents \cup {NoSample},
             queued : Contents \cup {NoSample}, value : Samples \cup {NoSample},
             previous : Samples \cup {NoSample}]

\* What a step of the sampler that takes, keeps or gives up a sample leaves alone.
LEMMA SamplerMoves ==
  ASSUME sampler \in Samplers, NEW phase \in Phases, sampler' = [sampler EXCEPT !.phase = phase]
  PROVE  /\ sampler' \in Samplers /\ sampler'.phase = phase
         /\ sampler'.selected = sampler.selected /\ sampler'.queued = sampler.queued
         /\ sampler'.value = sampler.value /\ sampler'.previous = sampler.previous
  BY DEF Samplers

LEMMA DiscardMoves ==
  ASSUME sampler \in Samplers, Discard
  PROVE  /\ sampler' \in Samplers /\ sampler'.phase = "SELECT"
         /\ sampler'.previous = sampler.previous
  BY DEF Samplers, Discard, Phases

LEMMA DownType == Down \in Samplers /\ Down.phase = "DOWN"
  BY DEF Down, Samplers, Phases

\* A process that is not there, or has not taken a sample, promises nothing.
LEMMA NoSampleTaken ==
  ASSUME sampler'.phase \notin Taken
  PROVE  Sampled' /\ Acknowledged' /\ (<<receipts, queue>> \in seen => Coherent)'
  BY DEF Sampled, Acknowledged, Coherent, Taken, Compared

LEMMA InitOK == Init => HeartbeatInv
<1> SUFFICES ASSUME Init PROVE HeartbeatInv
  OBVIOUS
<1>1. TypeOK
  <2>1. sampler \in Samplers /\ 0 \in 0..MaxTime /\ 0 \in 0..MaxReceipts /\ 0 \in 0..MaxChanges
    BY DownType, HeartbeatAssumption DEF Init
  <2>2. reader \in [phase : {"IDLE", "READING", "PASSED"}, prior : Samples \cup {NoSample},
                    since : 0..MaxTime]
    BY <2>1 DEF Init, NoReader
  <2> QED BY <2>1, <2>2 DEF Init, TypeOK, Samplers
<1> QED BY <1>1 DEF Init, HeartbeatInv, FollowsPublished, Sampled, Coherent, Acknowledged, PublishedPast,
        Queued, ReaderBacked, PublishedRecorded, PublishedCoherent, Down, NoReader, Taken, Compared

\* The sampler's types.
LEMMA SamplerType ==
  ASSUME HeartbeatInv, [Next]_vars
  PROVE  sampler' \in Samplers /\ degraded' \in Nat /\ audit' \subseteq Samples
         /\ output' \in Samples \cup {NoSample}
<1>0. /\ sampler \in Samplers /\ degraded \in Nat /\ audit \subseteq Samples /\ queue \in Contents
      /\ output \in Samples \cup {NoSample} /\ clock \in 0..MaxTime /\ receipts \in 0..MaxReceipts
      /\ boot \in 0..MaxChanges
  BY DEF HeartbeatInv, TypeOK, Samplers
<1>v. sampler.phase \in Taken => sampler.value \in Samples
  BY DEF HeartbeatInv, Sampled
<1>1. ASSUME UNCHANGED <<degraded, audit, output>>, sampler' \in Samplers
      PROVE  /\ sampler' \in Samplers /\ degraded' \in Nat /\ audit' \subseteq Samples
             /\ output' \in Samples \cup {NoSample}
  BY <1>0, <1>1
<1>2. CASE Start
  <2>1. Predecessor \in Samples \cup {NoSample}
    BY <1>0 DEF Predecessor
  <2>2. sampler' \in Samplers
    BY <1>0, <1>2, <2>1, DownType DEF Start, Samplers, Phases
  <2> QED BY <1>1, <1>2, <2>2 DEF Start
<1>3. CASE Select \/ ObserveQueue
  <2>1. sampler' \in Samplers
    BY <1>0, <1>3 DEF Select, ObserveQueue, Samplers, Phases
  <2> QED BY <1>1, <1>3, <2>1 DEF Select, ObserveQueue
<1>4. CASE ObserveReplay
  <2> DEFINE p == sampler.previous
             v == [boot |-> boot, sequence |-> NextSequence(p), at |-> clock,
                   cadence |-> Cadence(p, clock), receipts |-> receipts, queue |-> sampler.queued]
  <2>1. sampler' = [sampler EXCEPT !.phase = "COMPARE", !.value = v]
    BY <1>4 DEF ObserveReplay
  <2>2. NextSequence(p) \in Nat \ {0}
    BY <1>0 DEF NextSequence, Samplers, Samples
  <2>3. Cadence(p, clock) \in Cadences
    BY DEF Cadence, Cadences
  <2>4. sampler.queued \in Contents
    BY <1>4 DEF HeartbeatInv, Queued, ObserveReplay
  <2>5. v \in Samples
    BY <1>0, <2>2, <2>3, <2>4 DEF Samples
  <2> HIDE DEF v
  <2>6. sampler' \in Samplers
    BY <1>0, <2>1, <2>5 DEF Samplers, Phases
  <2> QED BY <1>1, <1>4, <2>6 DEF ObserveReplay
<1>5. ASSUME NEW phase \in Phases, sampler' = [sampler EXCEPT !.phase = phase] \/ Discard \/ sampler' = Down
      PROVE  sampler' \in Samplers
  BY <1>0, <1>5, SamplerMoves, DiscardMoves, DownType
<1>6. CASE ObserveEnd \/ Recover("RECOVER", "RESELECT") \/ Agree
  <2>1. sampler' \in Samplers
    BY <1>5, <1>6 DEF ObserveEnd, Recover, Agree, Phases
  <2> QED BY <1>1, <1>6, <2>1 DEF ObserveEnd, Recover, Agree
<1>7. CASE Record
  <2>1. sampler' \in Samplers
    BY <1>5, <1>7 DEF Record, Phases
  <2>2. audit' \subseteq Samples
    BY <1>0, <1>v, <1>7 DEF Record, Taken
  <2> QED BY <1>0, <1>7, <2>1, <2>2 DEF Record
<1>8. CASE Publish
  <2>1. sampler.value \in Samples
    BY <1>v, <1>8 DEF Publish, Taken
  <2>2. sampler' \in Samplers
    BY <1>0, <1>8, <2>1 DEF Publish, Samplers, Phases
  <2>3. degraded' \in Nat
    BY <1>0, <1>8, <2>1 DEF Publish, Samples
  <2> QED BY <1>0, <1>8, <2>1, <2>2, <2>3 DEF Publish
<1>9. CASE Die \/ Reboot
  BY <1>0, <1>9, DownType DEF Die, Reboot
<1>10. CASE ReaderStep \/ Commit \/ ChangeQueue \/ Tick \/ UNCHANGED vars
  <2>1. UNCHANGED <<sampler, degraded, audit, output>>
    BY <1>10 DEF ReaderStep, BeginBoundary, ReadNext, EndBoundary, Commit, ChangeQueue, Tick, vars
  <2> QED BY <1>0, <2>1
<1> QED BY <1>2, <1>3, <1>4, <1>6, <1>7, <1>8, <1>9, <1>10 DEF Next, SamplerStep

\* The stores only grow, and every pair of contents they have is seen.
LEMMA StoresGrow ==
  ASSUME HeartbeatInv, [Next]_vars
  PROVE  /\ receipts \in Nat /\ receipts' \in Nat /\ receipts <= receipts' /\ seen \subseteq seen'
         /\ <<receipts', queue'>> \in seen'
<1>0. receipts \in 0..MaxReceipts /\ MaxReceipts \in Nat /\ <<receipts, queue>> \in seen
  BY HeartbeatAssumption DEF HeartbeatInv, TypeOK, Coherent
<1>1. CASE Commit
  BY <1>0, <1>1 DEF Commit
<1>2. CASE ChangeQueue
  BY <1>0, <1>2 DEF ChangeQueue
<1>3. ASSUME UNCHANGED stores
      PROVE  /\ receipts \in Nat /\ receipts' \in Nat /\ receipts <= receipts' /\ seen \subseteq seen'
             /\ <<receipts', queue'>> \in seen'
  BY <1>0, <1>3 DEF stores
<1>4. CASE SamplerStep \/ ReaderStep
  BY <1>3, <1>4 DEF SamplerStep, ReaderStep, Start, Select, ObserveQueue, ObserveReplay, ObserveEnd,
     Recover, Record, Agree, Publish, Die, BeginBoundary, ReadNext, EndBoundary
<1>5. CASE Tick \/ Reboot \/ UNCHANGED vars
  <2>1. UNCHANGED stores
    BY <1>5 DEF Tick, Reboot, vars, stores
  <2> QED BY <1>3, <2>1
<1> QED BY <1>1, <1>2, <1>4, <1>5 DEF Next

\* A sample stays in the log; only a publication replaces the file.
LEMMA EvidenceGrows ==
  ASSUME [Next]_vars
  PROVE  audit \subseteq audit' /\ (Publish \/ UNCHANGED output)
<1>1. CASE Record
  BY <1>1 DEF Record
<1>2. CASE Start \/ Select \/ ObserveQueue \/ ObserveReplay \/ ObserveEnd \/ Die
  BY <1>2 DEF Start, Select, ObserveQueue, ObserveReplay, ObserveEnd, Die
<1>3. CASE Recover("RECOVER", "RESELECT") \/ Agree \/ Publish
  BY <1>3 DEF Recover, Agree, Publish
<1>4. CASE ReaderStep \/ Commit \/ ChangeQueue
  BY <1>4 DEF ReaderStep, BeginBoundary, ReadNext, EndBoundary, Commit, ChangeQueue
<1>5. CASE Tick \/ Reboot \/ UNCHANGED vars
  BY <1>5 DEF Tick, Reboot, vars
<1> QED BY <1>1, <1>2, <1>3, <1>4, <1>5 DEF Next, SamplerStep

\* Types survive every step.
LEMMA TypeStep == HeartbeatInv /\ [Next]_vars => TypeOK'
<1> SUFFICES ASSUME HeartbeatInv, [Next]_vars PROVE TypeOK'
  OBVIOUS
<1> USE HeartbeatAssumption
<1>0. TypeOK
  BY DEF HeartbeatInv
<1>1. /\ clock' \in 0..MaxTime /\ boot' \in 0..MaxChanges /\ started' \in 0..MaxTime
      /\ receipts' \in 0..MaxReceipts /\ queue' \in Contents /\ changes' \in 0..MaxChanges
      /\ seen' \subseteq (0..MaxReceipts) \X Contents
  <2>1. CASE Commit
    <3>1. receipts' \in 0..MaxReceipts /\ queue \in Contents
      BY <1>0, <2>1 DEF Commit, TypeOK
    <3> QED BY <1>0, <2>1, <3>1 DEF Commit, TypeOK, process
  <2>2. CASE ChangeQueue
    <3>1. queue' \in Contents /\ changes' \in 0..MaxChanges /\ receipts \in 0..MaxReceipts
      BY <1>0, <2>2 DEF ChangeQueue, TypeOK
    <3> QED BY <1>0, <2>2, <3>1 DEF ChangeQueue, TypeOK, process
  <2>3. CASE Tick
    BY <1>0, <2>3 DEF Tick, TypeOK, process, stores
  <2>4. CASE Reboot
    <3>1. boot' \in 0..MaxChanges
      BY <1>0, <2>4 DEF Reboot, TypeOK
    <3> QED BY <1>0, <2>4, <3>1 DEF Reboot, TypeOK, stores
  <2>5. CASE Start
    BY <1>0, <2>5 DEF Start, TypeOK, stores
  <2>6. ASSUME UNCHANGED <<clock, process, stores>>
        PROVE  /\ clock' \in 0..MaxTime /\ boot' \in 0..MaxChanges /\ started' \in 0..MaxTime
               /\ receipts' \in 0..MaxReceipts /\ queue' \in Contents /\ changes' \in 0..MaxChanges
               /\ seen' \subseteq (0..MaxReceipts) \X Contents
    BY <1>0, <2>6 DEF TypeOK, process, stores
  <2>7. CASE Select \/ ObserveQueue \/ ObserveReplay \/ ObserveEnd \/ Die \/ Publish \/ Record
             \/ Recover("RECOVER", "RESELECT") \/ Agree \/ ReaderStep
    <3>1. UNCHANGED <<clock, process, stores>>
      BY <2>7 DEF Select, ObserveQueue, ObserveReplay, ObserveEnd, Die, Publish, Record, Recover, Agree,
         ReaderStep, BeginBoundary, ReadNext, EndBoundary
    <3> QED BY <2>6, <3>1
  <2>8. CASE UNCHANGED vars
    BY <2>6, <2>8 DEF vars, process, stores
  <2> QED BY <2>1, <2>2, <2>3, <2>4, <2>5, <2>7, <2>8 DEF Next, SamplerStep
<1>2. reader' \in [phase : {"IDLE", "READING", "PASSED"}, prior : Samples \cup {NoSample},
                   since : 0..MaxTime]
  <2>0. /\ reader \in [phase : {"IDLE", "READING", "PASSED"}, prior : Samples \cup {NoSample},
                       since : 0..MaxTime]
        /\ NoReader \in [phase : {"IDLE", "READING", "PASSED"}, prior : Samples \cup {NoSample},
                         since : 0..MaxTime]
        /\ output \in Samples \cup {NoSample} /\ started \in 0..MaxTime
    BY <1>0 DEF TypeOK, NoReader
  <2>1. CASE BeginBoundary
    BY <2>0, <2>1 DEF BeginBoundary
  <2>2. CASE ReadNext
    BY <2>0, <2>2 DEF ReadNext
  <2>3. CASE EndBoundary \/ Reboot
    BY <2>0, <2>3 DEF EndBoundary, Reboot
  <2>4. CASE SamplerStep \/ Commit \/ ChangeQueue \/ Tick \/ UNCHANGED vars
    <3>1. UNCHANGED reader
      BY <2>4 DEF SamplerStep, Start, Select, ObserveQueue, ObserveReplay, ObserveEnd, Die, Publish,
         Record, Recover, Agree, Commit, ChangeQueue, Tick, vars
    <3> QED BY <2>0, <3>1
  <2> QED BY <2>1, <2>2, <2>3, <2>4 DEF Next, ReaderStep
<1> QED BY <1>1, <1>2, SamplerType DEF TypeOK, Samplers

\* What is published was recorded, coherent and not of the future.
LEMMA OutputStep ==
  HeartbeatInv /\ [Next]_vars => (PublishedPast /\ PublishedRecorded /\ PublishedCoherent)'
<1> SUFFICES ASSUME HeartbeatInv, [Next]_vars, output' # NoSample
             PROVE  /\ output'.receipts <= receipts' /\ output' \in audit'
                    /\ <<output'.receipts, output'.queue>> \in seen'
  BY DEF PublishedPast, PublishedRecorded, PublishedCoherent
<1>1. CASE Publish
  <2>1. sampler.phase = "AGREED" /\ output' = sampler.value /\ UNCHANGED <<receipts, audit, seen>>
    BY <1>1 DEF Publish, stores
  <2> QED BY <2>1 DEF HeartbeatInv, Sampled, Coherent, Acknowledged, Taken, Compared
<1>2. CASE UNCHANGED output
  <2>1. /\ output.receipts <= receipts /\ output \in audit
        /\ <<output.receipts, output.queue>> \in seen
    BY <1>2 DEF HeartbeatInv, PublishedPast, PublishedRecorded, PublishedCoherent
  <2>2. output.receipts \in Nat
    BY <1>2, HeartbeatAssumption DEF HeartbeatInv, TypeOK, Samples
  <2> QED BY <1>2, <2>1, <2>2, StoresGrow, EvidenceGrows
<1> QED BY <1>1, <1>2, EvidenceGrows

\* What a conversation is waiting on was recorded, in this boot, by the process
\* that was running when it began.
LEMMA ReaderStepped == HeartbeatInv /\ [Next]_vars => ReaderBacked'
<1> SUFFICES ASSUME HeartbeatInv, [Next]_vars PROVE ReaderBacked'
  OBVIOUS
<1>0. output # NoSample => output \in audit
  BY DEF HeartbeatInv, PublishedRecorded
<1>1. CASE BeginBoundary
  BY <1>0, <1>1 DEF BeginBoundary, Admissible, ReaderBacked, process
<1>2. CASE ReadNext
  <2>1. /\ output # NoSample /\ output.boot = boot /\ output.at > started /\ reader.since = started
        /\ UNCHANGED <<audit, boot>>
        /\ reader' \in {[reader EXCEPT !.prior = output], [reader EXCEPT !.phase = "PASSED"]}
        /\ reader.phase = "READING"
    BY <1>2 DEF ReadNext, Admissible, SameServices, process
  <2>2. /\ reader'.since = reader.since /\ reader'.prior \in {output, reader.prior}
    BY <2>1 DEF HeartbeatInv, TypeOK
  <2>3. output.at \in Nat /\ started \in Nat
    BY <2>1, HeartbeatAssumption DEF HeartbeatInv, TypeOK, Samples
  <2>4. started < output.at
    BY <2>1, <2>3
  <2> QED BY <1>0, <2>1, <2>2, <2>4 DEF HeartbeatInv, ReaderBacked
<1>3. CASE EndBoundary \/ Reboot
  BY <1>3 DEF EndBoundary, Reboot, ReaderBacked, NoReader
<1>4. CASE SamplerStep \/ Commit \/ ChangeQueue \/ Tick \/ UNCHANGED vars
  <2>1. UNCHANGED <<reader, boot>>
    BY <1>4 DEF SamplerStep, Start, Select, ObserveQueue, ObserveReplay, ObserveEnd, Die, Publish,
       Record, Recover, Agree, Commit, ChangeQueue, Tick, vars, process
  <2> QED BY <2>1, EvidenceGrows DEF HeartbeatInv, ReaderBacked
<1> QED BY <1>1, <1>2, <1>3, <1>4 DEF Next, ReaderStep

\* What the sampler carries, after any step that leaves it to go on.
SamplerKnows == FollowsPublished /\ Queued /\ Sampled /\ Coherent /\ Acknowledged

\* A sampler with no sample: it started, gave one up, or is not there.
LEMMA KnowsNothing ==
  ASSUME HeartbeatInv, [Next]_vars, sampler'.phase \notin Taken \cup {"READ"},
         sampler'.phase # "DOWN" => sampler'.previous = Predecessor'
  PROVE  SamplerKnows'
<1>1. <<receipts, queue>>' \in seen'
  BY StoresGrow
<1>2. sampler'.phase \notin Taken /\ sampler'.phase # "READ"
  BY DEF Taken
<1> QED BY <1>1, <1>2 DEF SamplerKnows, FollowsPublished, Queued, Sampled, Coherent, Acknowledged, Taken, Compared

\* A sample that is carried on, in the same phase or the next one.
LEMMA KnowsOn ==
  ASSUME HeartbeatInv, [Next]_vars, sampler' \in Samplers, boot' = boot, output' = output,
         sampler'.value = sampler.value, sampler'.previous = sampler.previous,
         sampler'.queued = sampler.queued,
         sampler.phase # "DOWN", sampler'.phase \in Taken => sampler.phase \in Taken,
         sampler'.phase = "READ" => sampler.phase = "READ",
         sampler'.phase = "RECOVER" /\ receipts' = sampler.value.receipts =>
             <<sampler.value.receipts, sampler.value.queue>> \in seen',
         sampler'.phase \in Compared =>
             \/ sampler.phase \in Compared
             \/ <<sampler.value.receipts, sampler.value.queue>> \in seen',
         sampler'.phase \in {"AUDITED", "AGREED"} => sampler.value \in audit'
  PROVE  SamplerKnows'
<1>1. FollowsPublished'
  BY DEF HeartbeatInv, FollowsPublished, Predecessor
<1>2. Queued'
  BY DEF HeartbeatInv, Queued, Taken
<1>3. Sampled'
  <2>1. sampler.phase \in Taken => sampler.value.receipts \in Nat
    BY HeartbeatAssumption DEF HeartbeatInv, Sampled, Samples
  <2>2. sampler.phase \in Taken => sampler.value.receipts <= receipts'
    BY <2>1, StoresGrow DEF HeartbeatInv, Sampled
  <2> QED BY <2>2 DEF HeartbeatInv, Sampled
<1>4. Coherent'
  BY StoresGrow DEF HeartbeatInv, Coherent
<1>5. Acknowledged'
  BY DEF Acknowledged
<1> QED BY <1>1, <1>2, <1>3, <1>4, <1>5 DEF SamplerKnows

\* Other processes, while a sample is carried: a commit in between is one the
\* comparison of the histories will see.
LEMMA KnowsOthers ==
  ASSUME HeartbeatInv, [Next]_vars, UNCHANGED <<sampler, boot, output>>
  PROVE  SamplerKnows'
<1>1. CASE sampler.phase = "DOWN"
  BY <1>1, KnowsNothing DEF Taken
<1>2. CASE sampler.phase # "DOWN"
  <2>1. sampler' \in Samplers
    BY DEF HeartbeatInv, TypeOK, Samplers
  <2>2. ASSUME sampler.phase = "RECOVER", receipts' = sampler.value.receipts
        PROVE  <<sampler.value.receipts, sampler.value.queue>> \in seen'
    <3>1. /\ sampler.value.receipts <= receipts /\ receipts <= receipts'
          /\ receipts \in Nat /\ sampler.value.receipts \in Nat
      BY <2>2, StoresGrow, HeartbeatAssumption DEF HeartbeatInv, Sampled, Taken, Samples
    <3>2. receipts = sampler.value.receipts
      BY <2>2, <3>1
    <3> QED BY <2>2, <3>2, StoresGrow DEF HeartbeatInv, Coherent
  <2>3. sampler.phase \in {"AUDITED", "AGREED"} => sampler.value \in audit'
    BY EvidenceGrows DEF HeartbeatInv, Acknowledged
  <2> QED BY <1>2, <2>1, <2>2, <2>3, KnowsOn
<1> QED BY <1>1, <1>2

\* Every step of the sampler.
LEMMA SamplerStepped == HeartbeatInv /\ [Next]_vars => SamplerKnows'
<1> SUFFICES ASSUME HeartbeatInv, [Next]_vars PROVE SamplerKnows'
  OBVIOUS
<1>0. /\ sampler \in Samplers /\ sampler' \in Samplers
      /\ sampler.phase # "DOWN" => sampler.previous = Predecessor
      /\ output \in Samples \cup {NoSample} /\ clock \in 0..MaxTime /\ receipts \in 0..MaxReceipts
  BY SamplerType DEF HeartbeatInv, TypeOK, Samplers, FollowsPublished
<1>1. CASE Start
  <2>1. sampler' = [Down EXCEPT !.phase = "SELECT", !.previous = Predecessor] /\ UNCHANGED <<output, boot>>
    BY <1>1 DEF Start
  <2>2. sampler'.phase = "SELECT" /\ sampler'.previous = Predecessor
    BY <2>1, DownType DEF Samplers
  <2>3. Predecessor' = Predecessor
    BY <2>1 DEF Predecessor
  <2> QED BY <2>2, <2>3, KnowsNothing DEF Taken
<1>2. CASE Select
  <2>1. /\ sampler.phase = "SELECT" /\ sampler'.phase = "OBSERVE" /\ sampler'.previous = sampler.previous
        /\ UNCHANGED <<output, boot>>
    BY <1>0, <1>2 DEF Select, Samplers, process
  <2>2. Predecessor' = Predecessor
    BY <2>1 DEF Predecessor
  <2> QED BY <1>0, <2>1, <2>2, KnowsNothing DEF Taken
<1>3. CASE ObserveQueue
  <2>1. /\ sampler.phase = "OBSERVE" /\ sampler'.phase = "READ" /\ sampler'.previous = sampler.previous
        /\ sampler'.queued = queue /\ UNCHANGED <<output, boot>> /\ queue \in Contents
    BY <1>0, <1>3 DEF ObserveQueue, Samplers, process, HeartbeatInv, TypeOK
  <2>2. Predecessor' = Predecessor
    BY <2>1 DEF Predecessor
  <2>3. FollowsPublished' /\ Queued'
    BY <1>0, <2>1, <2>2 DEF FollowsPublished, Queued
  <2>4. Sampled' /\ Acknowledged' /\ Coherent'
    BY <2>1, StoresGrow DEF Sampled, Acknowledged, Coherent, Taken, Compared
  <2> QED BY <2>3, <2>4 DEF SamplerKnows
<1>4. CASE ObserveReplay
  <2> DEFINE p == sampler.previous
             v == [boot |-> boot, sequence |-> NextSequence(p), at |-> clock,
                   cadence |-> Cadence(p, clock), receipts |-> receipts, queue |-> sampler.queued]
  <2>1. /\ sampler.phase = "READ" /\ sampler' = [sampler EXCEPT !.phase = "COMPARE", !.value = v]
        /\ UNCHANGED <<output, boot, receipts>> /\ (p # NoSample => p.at < clock)
    BY <1>4 DEF ObserveReplay, process, stores
  <2>2. /\ v.boot = boot /\ v.sequence = NextSequence(p) /\ v.at = clock /\ v.cadence = Cadence(p, v.at)
        /\ v.receipts = receipts /\ v.queue = sampler.queued
    OBVIOUS
  <2> HIDE DEF v
  <2>3. /\ sampler'.phase = "COMPARE" /\ sampler'.value = v /\ sampler'.previous = p
        /\ sampler'.queued = sampler.queued
    BY <1>0, <2>1 DEF Samplers
  <2>4. p # NoSample => p.receipts <= receipts
    BY <1>0, <2>1 DEF HeartbeatInv, PublishedPast, Predecessor
  <2>5. v \in Samples
    <3>1. v.sequence \in Nat \ {0}
      BY <1>0, <2>2 DEF NextSequence, Samplers, Samples
    <3>2. v.cadence \in Cadences
      BY <2>2 DEF Cadence, Cadences
    <3>3. v.queue \in Contents /\ boot \in 0..MaxChanges
      BY <2>1, <2>2 DEF HeartbeatInv, Queued, TypeOK
    <3> QED BY <1>0, <2>2, <3>1, <3>2, <3>3 DEF v, Samples
  <2>6. Predecessor' = Predecessor
    BY <2>1 DEF Predecessor
  <2>7. FollowsPublished' /\ Queued'
    BY <1>0, <2>1, <2>3, <2>6 DEF FollowsPublished, Queued, HeartbeatInv
  <2>8. Sampled'
    BY <1>0, <2>1, <2>2, <2>3, <2>4, <2>5 DEF Sampled
  <2>9. Acknowledged' /\ Coherent'
    BY <2>3, StoresGrow DEF Acknowledged, Coherent, Compared
  <2> QED BY <2>7, <2>8, <2>9 DEF SamplerKnows
<1>5. CASE ObserveEnd
  <2>1. /\ sampler.phase = "COMPARE" /\ queue = sampler.queued /\ sampler' = [sampler EXCEPT !.phase = "RECOVER"]
        /\ UNCHANGED <<output, boot, receipts, queue, seen>>
    BY <1>5 DEF ObserveEnd, process, stores
  <2>2. sampler'.phase = "RECOVER" /\ sampler'.value = sampler.value /\ sampler'.previous = sampler.previous
        /\ sampler'.queued = sampler.queued
    BY <1>0, <2>1 DEF Samplers
  <2>3. sampler.value.queue = queue
    BY <2>1 DEF HeartbeatInv, Sampled, Taken
  <2>4. <<receipts, queue>> \in seen'
    BY <2>1 DEF HeartbeatInv, Coherent
  <2> QED BY <1>0, <2>1, <2>2, <2>3, <2>4, KnowsOn DEF Taken, Compared
<1>6. ASSUME NEW from \in {"RECOVER", "AUDITED"}, NEW to \in {"RESELECT", "AGREED"},
             from = "RECOVER" <=> to = "RESELECT", Recover(from, to)
      PROVE  SamplerKnows'
  <2>1. UNCHANGED <<output, boot, receipts, seen, audit>> /\ sampler.phase = from
    BY <1>6 DEF Recover, process, stores
  <2>2. Predecessor' = Predecessor
    BY <2>1 DEF Predecessor
  <2>3. CASE Discard
    BY <1>0, <2>1, <2>2, <2>3, DiscardMoves, KnowsNothing DEF Taken
  <2>4. CASE receipts = sampler.value.receipts /\ sampler' = [sampler EXCEPT !.phase = to]
    <3>1. sampler'.phase = to /\ sampler'.value = sampler.value /\ sampler'.previous = sampler.previous
          /\ sampler'.queued = sampler.queued
      BY <1>0, <2>4 DEF Samplers
    <3>2. from = "RECOVER" => <<sampler.value.receipts, sampler.value.queue>> \in seen'
      BY <2>1, <2>4 DEF HeartbeatInv, Coherent
    <3>3. from = "AUDITED" => sampler.value \in audit'
      BY <2>1 DEF HeartbeatInv, Acknowledged
    <3> QED BY <1>0, <1>6, <2>1, <3>1, <3>2, <3>3, KnowsOn DEF Taken, Compared
  <2> QED BY <1>6, <2>3, <2>4 DEF Recover
<1>7. CASE Record
  <2>1. UNCHANGED <<output, boot>> /\ sampler.phase = "RESELECT"
    BY <1>7 DEF Record, process
  <2>2. Predecessor' = Predecessor
    BY <2>1 DEF Predecessor
  <2>3. CASE Discard
    BY <1>0, <2>1, <2>2, <2>3, DiscardMoves, KnowsNothing DEF Taken
  <2>4. CASE sampler' = Down
    BY <2>4, DownType, KnowsNothing DEF Taken
  <2>5. CASE audit' = audit \cup {sampler.value} /\ sampler' = [sampler EXCEPT !.phase = "AUDITED"]
    <3>1. sampler'.phase = "AUDITED" /\ sampler'.value = sampler.value /\ sampler'.previous = sampler.previous
          /\ sampler'.queued = sampler.queued
      BY <1>0, <2>5 DEF Samplers
    <3> QED BY <1>0, <2>1, <2>5, <3>1, KnowsOn DEF Taken, Compared
  <2> QED BY <1>7, <2>3, <2>4, <2>5 DEF Record
<1>8. CASE Agree
  BY <1>6, <1>8 DEF Agree
<1>9. CASE Publish
  <2>1. /\ output' = sampler.value /\ boot' = boot /\ sampler.phase = "AGREED"
        /\ sampler'.phase = "SELECT" /\ sampler'.previous = sampler.value
    BY <1>0, <1>9 DEF Publish, Samplers, process
  <2>2. sampler.value.boot = boot
    BY <2>1 DEF HeartbeatInv, Sampled, Taken
  <2>3. sampler'.previous = Predecessor'
    BY <2>1, <2>2 DEF Predecessor
  <2> QED BY <2>1, <2>3, KnowsNothing DEF Taken
<1>10. CASE Die \/ Reboot
  <2>1. sampler'.phase = "DOWN"
    BY <1>10, DownType DEF Die, Reboot
  <2> QED BY <2>1, KnowsNothing DEF Taken
<1>11. CASE ReaderStep \/ Commit \/ ChangeQueue \/ Tick \/ UNCHANGED vars
  <2>1. UNCHANGED <<sampler, boot, output>>
    BY <1>11 DEF ReaderStep, BeginBoundary, ReadNext, EndBoundary, Commit, ChangeQueue, Tick, vars, process
  <2> QED BY <2>1, KnowsOthers
<1> QED BY <1>1, <1>2, <1>3, <1>4, <1>5, <1>6, <1>7, <1>8, <1>9, <1>10, <1>11 DEF Next, SamplerStep

-----------------------------------------------------------------------------
\* The inductive invariant holds throughout.
THEOREM HeartbeatInductive == Spec => []HeartbeatInv
<1>1. HeartbeatInv /\ [Next]_vars => HeartbeatInv'
  BY TypeStep, OutputStep, ReaderStepped, SamplerStepped DEF HeartbeatInv, SamplerKnows
<1> QED BY InitOK, <1>1, PTL DEF Spec

\* What is published was acknowledged by the audit first (serve of
\* kernel_operations.py, record_operations_observation).
THEOREM PublishedAlwaysRecorded == Spec => []PublishedRecorded
<1>1. HeartbeatInv => PublishedRecorded
  BY DEF HeartbeatInv
<1> QED BY HeartbeatInductive, <1>1, PTL

\* A publication is a pair of contents the two stores had at one instant,
\* whatever is committed and queued while they are read one after the other and
\* however often the queue returns to an earlier content (observe).
THEOREM PublishedAlwaysCoherent == Spec => []PublishedCoherent
<1>1. HeartbeatInv => PublishedCoherent
  BY DEF HeartbeatInv
<1> QED BY HeartbeatInductive, <1>1, PTL

\* A publication ends a whole sample, of the running boot, that continues what
\* was published before it in this boot.
LEMMA PublicationFollows ==
  ASSUME HeartbeatInv, [Next]_vars, output' # output
  PROVE  /\ output' \in Samples /\ output'.boot = boot
         /\ output'.sequence = NextSequence(Predecessor)
         /\ output'.cadence = Cadence(Predecessor, output'.at)
         /\ Predecessor # NoSample => /\ Predecessor.at < output'.at
                                      /\ Predecessor.receipts <= output'.receipts
<1>1. Publish
  BY EvidenceGrows
<1>2. output' = sampler.value /\ sampler.phase = "AGREED"
  BY <1>1 DEF Publish
<1>3. sampler.previous = Predecessor
  BY <1>2 DEF HeartbeatInv, FollowsPublished
<1> QED BY <1>2, <1>3 DEF HeartbeatInv, Sampled, Taken

\* Publications of one boot are contiguous, advance in time and never lose replay
\* history, however many processes write them (observe, serve).
THEOREM PublicationsAdvance == Spec => PublicationAdvances
<1> DEFINE Advances ==
             Publishes /\ Follows =>
                 /\ output'.sequence = output.sequence + 1
                 /\ output.at < output'.at /\ output.receipts <= output'.receipts
<1>1. HeartbeatInv /\ [Next]_vars => [Advances]_output
  <2> SUFFICES ASSUME HeartbeatInv, [Next]_vars, Publishes, Follows
               PROVE  /\ output'.sequence = output.sequence + 1
                      /\ output.at < output'.at /\ output.receipts <= output'.receipts
    OBVIOUS
  <2>1. Predecessor = output /\ output # NoSample
    BY PublicationFollows DEF Publishes, Follows, Predecessor
  <2> QED BY <2>1, PublicationFollows DEF Publishes, NextSequence
<1> QED BY HeartbeatInductive, <1>1, PTL DEF Spec, PublicationAdvances

\* A cadence is claimed only of the gap to what was published before, so neither
\* discarded samples nor a restart make a slow sampler look healthy (observe).
THEOREM CadenceAlwaysHonest == Spec => CadenceHonest
<1> DEFINE Honest ==
             Publishes =>
                 output'.cadence =
                   IF ~Follows THEN "UNPROVEN"
                   ELSE IF output'.at - output.at <= Floor THEN "OBSERVED" ELSE "DEGRADED"
<1>1. HeartbeatInv /\ [Next]_vars => [Honest]_output
  <2> SUFFICES ASSUME HeartbeatInv, [Next]_vars, Publishes
               PROVE  output'.cadence =
                        IF ~Follows THEN "UNPROVEN"
                        ELSE IF output'.at - output.at <= Floor THEN "OBSERVED" ELSE "DEGRADED"
    OBVIOUS
  <2>1. output'.boot = boot /\ output'.cadence = Cadence(Predecessor, output'.at)
    BY PublicationFollows DEF Publishes
  <2>2. Predecessor = IF Follows THEN output ELSE NoSample
    BY <2>1 DEF Predecessor, Follows
  <2> QED BY <2>1, <2>2 DEF Cadence, Follows
<1> QED BY HeartbeatInductive, <1>1, PTL DEF Spec, CadenceHonest

\* A conversation passes only on two recorded observations of this boot and of
\* the process that runs, at the healthy rate (verify_installed_conversation_boundary).
THEOREM PassedOnlyOnCurrent == Spec => PassedOnCurrentEvidence
<1> DEFINE Current ==
             Passes =>
                 /\ {reader.prior, output} \subseteq audit
                 /\ output.boot = boot /\ reader.prior.boot = boot
                 /\ started < reader.prior.at
                 /\ output.at - reader.prior.at <= Floor * (output.sequence - reader.prior.sequence)
<1>1. HeartbeatInv /\ [Next]_vars => [Current]_vars
  <2> SUFFICES ASSUME HeartbeatInv, [Next]_vars, Passes
               PROVE  /\ {reader.prior, output} \subseteq audit
                      /\ output.boot = boot /\ reader.prior.boot = boot
                      /\ started < reader.prior.at
                      /\ output.at - reader.prior.at <= Floor * (output.sequence - reader.prior.sequence)
    OBVIOUS
  <2>1. ReadNext
    <3>1. ~UNCHANGED reader /\ ~EndBoundary /\ ~BeginBoundary /\ ~Reboot
      BY DEF Passes, EndBoundary, BeginBoundary, Reboot, NoReader
    <3> QED BY <3>1 DEF Next, ReaderStep, SamplerStep, Start, Select, ObserveQueue, ObserveReplay,
       ObserveEnd, Die, Publish, Record, Recover, Agree, Commit, ChangeQueue, Tick, vars
  <2>2. /\ output # NoSample /\ output.boot = boot /\ reader.since = started
        /\ IF ~Healthy(reader.prior, output) THEN reader' = [reader EXCEPT !.prior = output]
           ELSE /\ output.at - reader.prior.at <= (output.sequence - reader.prior.sequence) * Floor
                /\ reader' = [reader EXCEPT !.phase = "PASSED"]
    BY <2>1 DEF ReadNext, Admissible, SameServices
  <2>3. Healthy(reader.prior, output)
    BY <2>2 DEF Passes, HeartbeatInv, TypeOK
  <2>4. /\ reader.prior \in audit /\ reader.prior.boot = boot /\ reader.since < reader.prior.at
        /\ output \in audit
    BY <2>2 DEF Passes, HeartbeatInv, ReaderBacked, PublishedRecorded
  <2>5. output \in Samples /\ reader.prior \in Samples
    BY <2>4 DEF HeartbeatInv, TypeOK
  <2>6. output.at - reader.prior.at <= Floor * (output.sequence - reader.prior.sequence)
    <3>1. /\ output.sequence \in Int /\ reader.prior.sequence \in Int /\ Floor \in Int
      BY <2>5, HeartbeatAssumption DEF Samples
    <3>2. \A a, b \in Int : a * b = b * a
      OBVIOUS
    <3> QED BY <2>2, <2>3, <3>1, <3>2
  <2> QED BY <2>2, <2>4, <2>6
<1> QED BY HeartbeatInductive, <1>1, PTL DEF Spec, PassedOnCurrentEvidence
=============================================================================
