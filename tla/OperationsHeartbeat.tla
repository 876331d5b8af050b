-------------------------- MODULE OperationsHeartbeat --------------------------
(***************************************************************************)
(* The Operations sampler, serve() and observe() of                          *)
(* serein_stage1/kernel_operations.py, and the reader that gates dispatch on *)
(* it, verify_installed_conversation_boundary.  The sampler compares two      *)
(* stores other processes write (the replay store and the queue), records    *)
(* each sample in the audit log and replaces one published file; it may die   *)
(* between any two steps and is restarted by systemd.                        *)
(*                                                                         *)
(* A replay history is abstracted to its number of receipts, which only      *)
(* grows (ReplayProgression of ReplayStore), the queue to its content, which   *)
(* may return to an earlier one.  One tick of the clock is half a second.    *)
(***************************************************************************)
EXTENDS Integers

CONSTANTS
    Floor,          \* HEARTBEAT_FLOOR_SECONDS in ticks: the slowest healthy gap
    NoSample,
    Contents,       \* contents of the queue
    MaxTime,        \* bound of the model: ticks
    MaxReceipts,    \* bound of the model: commits
    MaxChanges      \* bound of the model: queue changes, a reboot for two

ASSUME HeartbeatAssumption ==
    /\ Floor \in Nat \ {0} /\ MaxTime \in Nat
    /\ MaxReceipts \in Nat /\ MaxChanges \in Nat

VARIABLES
    clock,      \* time.monotonic_ns
    boot,       \* boot_id
    receipts,   \* the replay history
    queue,      \* the content of the queue
    sampler,    \* the sampler process
    started,    \* when the running sampler process was started
    audit,      \* the samples in the audit log
    output,     \* the published file
    reader,     \* the boundary of one conversation
    degraded,   \* history: sequence of this boot's last degraded publication
    seen,       \* history: the pairs of contents both stores had at once
    changes

vars == <<clock, boot, receipts, queue, sampler, started, audit, output, reader, degraded,
          seen, changes>>

Cadences == {"UNPROVEN", "OBSERVED", "DEGRADED"}
Samples == [boot : 0..MaxChanges, sequence : Nat \ {0}, at : 0..MaxTime, cadence : Cadences,
            receipts : 0..MaxReceipts, queue : Contents]

Phases == {"DOWN", "SELECT", "OBSERVE", "READ", "COMPARE", "RECOVER", "RESELECT", "AUDITED", "AGREED"}

Down == [phase |-> "DOWN", selected |-> NoSample, queued |-> NoSample, value |-> NoSample,
         previous |-> NoSample]
NoReader == [phase |-> "IDLE", prior |-> NoSample, since |-> 0]

TypeOK ==
    /\ clock \in 0..MaxTime /\ boot \in 0..MaxChanges /\ started \in 0..MaxTime
    /\ receipts \in 0..MaxReceipts /\ queue \in Contents
    /\ sampler \in [phase : Phases, selected : Contents \cup {NoSample},
                    queued : Contents \cup {NoSample}, value : Samples \cup {NoSample}, previous : Samples \cup {NoSample}]
    /\ audit \subseteq Samples /\ output \in Samples \cup {NoSample}
    /\ reader \in [phase : {"IDLE", "READING", "PASSED"}, prior : Samples \cup {NoSample},
                   since : 0..MaxTime]
    /\ degraded \in Nat /\ changes \in 0..MaxChanges
    /\ seen \subseteq (0..MaxReceipts) \X Contents

Init ==
    /\ clock = 0 /\ boot = 0 /\ started = 0 /\ receipts = 0 /\ queue \in Contents
    /\ sampler = Down /\ audit = {} /\ output = NoSample
    /\ reader = NoReader /\ degraded = 0
    /\ seen = {<<receipts, queue>>} /\ changes = 0

stores == <<receipts, queue, seen, changes>>
process == <<boot, started>>

-----------------------------------------------------------------------------
(***************************************************************************)
(* The sampler.                                                            *)
(***************************************************************************)

\* Mutation: a restarted process begins a sequence of its own.
PredecessorForgotten == NoSample

\* The predecessor is the published observation of this boot, if any.
Predecessor == IF output # NoSample /\ output.boot = boot THEN output ELSE NoSample

Start ==
    /\ sampler.phase = "DOWN" /\ clock < MaxTime
    /\ sampler' = [Down EXCEPT !.phase = "SELECT", !.previous = Predecessor]
    /\ started' = clock
    /\ UNCHANGED <<clock, boot, stores, audit, output, reader, degraded>>

\* select_installed_conversation without request material.
Select ==
    /\ sampler.phase = "SELECT"
    /\ sampler' = [sampler EXCEPT !.phase = "OBSERVE", !.selected = queue]
    /\ UNCHANGED <<clock, process, stores, audit, output, reader, degraded>>

\* The cadence since the last published observation: at least 60 a minute.
Cadence(previous, at) ==
    IF previous = NoSample THEN "UNPROVEN"
    ELSE IF at - previous.at <= Floor THEN "OBSERVED" ELSE "DEGRADED"

NextSequence(previous) == IF previous = NoSample THEN 1 ELSE previous.sequence + 1

\* observe(): the queue, then the replay history and the clock, then the queue
\* again; an observation at its predecessor's instant is refused.
ObserveQueue ==
    /\ sampler.phase = "OBSERVE"
    /\ sampler' = [sampler EXCEPT !.phase = "READ", !.queued = queue]
    /\ UNCHANGED <<clock, process, stores, audit, output, reader, degraded>>

ObserveReplay ==
    LET p == sampler.previous IN
    /\ sampler.phase = "READ"
    /\ p # NoSample => p.at < clock
    /\ sampler' = [sampler EXCEPT !.phase = "COMPARE", !.value =
            [boot |-> boot, sequence |-> NextSequence(p), at |-> clock,
             cadence |-> Cadence(p, clock), receipts |-> receipts,
             queue |-> sampler.queued]]
    /\ UNCHANGED <<clock, process, stores, audit, output, reader, degraded>>

ObserveEnd ==
    /\ sampler.phase = "COMPARE" /\ queue = sampler.queued
    /\ sampler' = [sampler EXCEPT !.phase = "RECOVER"]
    /\ UNCHANGED <<clock, process, stores, audit, output, reader, degraded>>

\* Mutation: the discarded sample becomes the next one's predecessor.
DiscardRemembers ==
    sampler' = [sampler EXCEPT !.phase = "SELECT", !.previous = sampler.value,
                               !.value = NoSample]

\* The sample is given up; the next one still follows the last published one.
Discard == sampler' = [sampler EXCEPT !.phase = "SELECT", !.value = NoSample]

\* Mutation: the recovered history is not compared with the sampled one.
RecoverUnchecked(from, to) ==
    /\ sampler.phase = from
    /\ sampler' = [sampler EXCEPT !.phase = to]
    /\ UNCHANGED <<clock, process, stores, audit, output, reader, degraded>>

\* recover() of the owned store must see the sampled history: concurrent work
\* invalidates this sample, not the process.
Recover(from, to) ==
    /\ sampler.phase = from
    /\ IF receipts = sampler.value.receipts
       THEN sampler' = [sampler EXCEPT !.phase = to] ELSE Discard
    /\ UNCHANGED <<clock, process, stores, audit, output, reader, degraded>>

\* The queue must still give the selection the sample was taken under.
SelectionCurrent ==
    queue = sampler.selected /\ sampler.value.queue = sampler.selected

\* Mutation: an unacknowledged sample is published all the same.
RecordUnacknowledged ==
    /\ sampler.phase = "RESELECT" /\ SelectionCurrent
    /\ audit' \in {audit, audit \cup {sampler.value}}
    /\ sampler' = [sampler EXCEPT !.phase = "AUDITED"]
    /\ UNCHANGED <<clock, process, stores, output, reader, degraded>>

\* record_operations_observation: acknowledged; timed out before the event was
\* sent; or any other failure, the event appended or not, which ends the process.
Record ==
    /\ sampler.phase = "RESELECT" /\ SelectionCurrent
    /\ \/ audit' = audit \cup {sampler.value} /\ sampler' = [sampler EXCEPT !.phase = "AUDITED"]
       \/ audit' = audit /\ Discard
       \/ audit' \in {audit, audit \cup {sampler.value}} /\ sampler' = Down
    /\ UNCHANGED <<clock, process, stores, output, reader, degraded>>

\* After the wait for the audit the selection and the history are read again.
Agree ==
    /\ sampler.phase = "AUDITED" /\ SelectionCurrent
    /\ Recover("AUDITED", "AGREED")

\* atomic_write replaces the file; only now does the sequence advance.
Publish ==
    /\ sampler.phase = "AGREED"
    /\ output' = sampler.value
    /\ sampler' = [sampler EXCEPT !.phase = "SELECT", !.previous = sampler.value,
                                  !.value = NoSample]
    /\ degraded' = IF sampler.value.cadence = "DEGRADED" THEN sampler.value.sequence
                   ELSE degraded
    /\ UNCHANGED <<clock, process, stores, audit, reader>>

\* Any check raises or the process is killed; systemd restarts it.
Die ==
    /\ sampler.phase # "DOWN"
    /\ sampler' = Down
    /\ UNCHANGED <<clock, process, stores, audit, output, reader, degraded>>

-----------------------------------------------------------------------------
(***************************************************************************)
(* verify_installed_conversation_boundary.                                 *)
(***************************************************************************)

\* Mutation: an observation of an earlier process is admitted.
AdmissibleWhenever(event) == event # NoSample /\ event.sequence >= 2

\* sample(): the services run, and the file is of this boot, of the running
\* process, and no longer the boot's first observation.
Admissible(event) ==
    /\ sampler.phase # "DOWN"
    /\ event # NoSample
    /\ event.boot = boot /\ event.sequence >= 2 /\ event.at > started

BeginBoundary ==
    /\ reader.phase = "IDLE" /\ Admissible(output)
    /\ reader' = [phase |-> "READING", prior |-> output, since |-> started]
    /\ UNCHANGED <<clock, process, stores, sampler, audit, output, degraded>>

\* The controls are the ones the boundary started with.
SameServices == reader.since = started

Healthy(prior, event) == prior.cadence = "OBSERVED" /\ event.cadence = "OBSERVED"

\* Two successive healthy observations pass at the healthy rate; any other
\* change of the file becomes the new prior one.
ReadNext ==
    LET prior == reader.prior
        elapsed == output.at - prior.at
        count == output.sequence - prior.sequence
    IN
    /\ reader.phase = "READING" /\ Admissible(output) /\ SameServices
    /\ output # prior /\ count > 0 /\ elapsed > 0 /\ prior.receipts <= output.receipts
    /\ IF ~Healthy(prior, output)
       THEN reader' = [reader EXCEPT !.prior = output]
       ELSE elapsed <= count * Floor /\ reader' = [reader EXCEPT !.phase = "PASSED"]
    /\ UNCHANGED <<clock, process, stores, sampler, audit, output, degraded>>

\* The boundary refuses, or the exchange it gated is over.
EndBoundary ==
    /\ reader.phase # "IDLE"
    /\ reader' = NoReader
    /\ UNCHANGED <<clock, process, stores, sampler, audit, output, degraded>>

-----------------------------------------------------------------------------
\* Other processes commit receipts and queue work.
Commit ==
    /\ receipts < MaxReceipts /\ receipts' = receipts + 1
    /\ seen' = seen \cup {<<receipts', queue>>}
    /\ UNCHANGED <<clock, process, queue, changes, sampler, audit, output, reader, degraded>>

ChangeQueue ==
    /\ changes + 2 * boot < MaxChanges /\ changes' = changes + 1
    /\ queue' \in Contents \ {queue}
    /\ seen' = seen \cup {<<receipts, queue'>>}
    /\ UNCHANGED <<clock, process, receipts, sampler, audit, output, reader, degraded>>

Tick ==
    /\ clock < MaxTime /\ clock' = clock + 1
    /\ UNCHANGED <<process, stores, sampler, audit, output, reader, degraded>>

Reboot ==
    /\ changes + 2 * boot < MaxChanges - 1 /\ boot' = boot + 1
    /\ sampler' = Down /\ reader' = NoReader /\ degraded' = 0 /\ started' = 0
    /\ clock' = 0
    /\ UNCHANGED <<stores, audit, output>>

SamplerStep ==
    \/ Start \/ Select \/ ObserveQueue \/ ObserveReplay \/ ObserveEnd
    \/ Recover("RECOVER", "RESELECT")
    \/ Record \/ Agree \/ Publish \/ Die

ReaderStep == BeginBoundary \/ ReadNext \/ EndBoundary

Next == SamplerStep \/ ReaderStep \/ Commit \/ ChangeQueue \/ Tick \/ Reboot

Spec == Init /\ [][Next]_vars

-----------------------------------------------------------------------------
(***************************************************************************)
(* Properties.                                                             *)
(***************************************************************************)

\* What is published was acknowledged by the audit first, through lost
\* acknowledgements and restarts ("never publish it as current latest proof").
PublishedRecorded == output # NoSample => output \in audit

\* Publications of one boot are contiguous, advance in time and never lose
\* replay history, whichever process incarnation writes them.
Publishes == output' # output
Follows == output # NoSample /\ output'.boot = output.boot

PublicationAdvances ==
    [][Publishes /\ Follows =>
          /\ output'.sequence = output.sequence + 1
          /\ output.at < output'.at
          /\ output.receipts <= output'.receipts]_output

\* Discarded samples and restarts are not hidden: an observation is OBSERVED
\* only within the floor of the published one before it, and one of a
\* first publication claims no cadence.
CadenceHonest ==
    [][Publishes =>
          output'.cadence =
            IF ~Follows THEN "UNPROVEN"
            ELSE IF output'.at - output.at <= Floor THEN "OBSERVED" ELSE "DEGRADED"]_output

\* What is published is one coherent snapshot: at some instant the replay store
\* and the queue were both as it says, although they are never locked together
\* ("Reject an intervening queue change instead of presenting the two stores as
\* one coherent snapshot").
PublishedCoherent ==
    output # NoSample => <<output.receipts, output.queue>> \in seen

\* A conversation passes only on observations the running process published,
\* both recorded, at the healthy rate.
Passes == reader.phase = "READING" /\ reader'.phase = "PASSED"

PassedOnCurrentEvidence ==
    [][Passes =>
          /\ {reader.prior, output} \subseteq audit
          /\ output.boot = boot /\ reader.prior.boot = boot
          /\ started < reader.prior.at
          /\ output.at - reader.prior.at <= Floor * (output.sequence - reader.prior.sequence)]_vars

\* "two healthy advancing samples must follow the last degraded sample"
\* (verify_installed_conversation_boundary).
HealthySinceDegraded ==
    [][Passes => degraded < reader.prior.sequence]_vars
==============================================================================
