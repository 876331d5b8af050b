------------------------ MODULE InstalledDispatchProofs ------------------------
(***************************************************************************)
(* Proofs about InstalledDispatch for any requests, closures, facts and      *)
(* results, and any number of exchanges and changes.                        *)
(*                                                                         *)
(* What a client is told and what the audit log says are about steps long     *)
(* past, so none of the properties is inductive.  The invariant follows the   *)
(* request instead: SentOnce, where its copies are; Exchange, what the        *)
(* gateway knows in each phase of the exchange it is in; Settled and           *)
(* DenialsKept, why nothing that happens later can make a consumed answer or   *)
(* a recorded denial untrue.                                               *)
(***************************************************************************)
EXTENDS InstalledDispatch, FiniteSetTheorems, TLAPS

Working == InReservation \cup AfterReservation
PreForward == InReservation \cup {"HELD", "CURRENT"}
Answered == {"RETURNED", "POLICED", "RECHECKED", "CONFIRMED", "CONSUMING"}
Ending == {"DECIDED", "AUDITED", "CORRELATED"}
Preserved == {"PRESERVED", "SCOPE"}

\* Neither at the runtime's socket nor ever inferred.
InBacklog(r) == \E i \in DOMAIN backlog : backlog[i] = r
Untouched(r) == inferred[r] = 0 /\ ~InBacklog(r)

\* A gateway that does not serve is in no exchange.
Process ==
    /\ ~up => gateway = Nothing
    /\ gateway.phase # "IDLE" => gateway.r \in Requests

\* A request is at the socket once, then inferred once, and only after it was
\* reserved.
SentOnce ==
    /\ \A r \in Requests :
        /\ inferred[r] \in {0, 1}
        /\ InBacklog(r) => inferred[r] = 0
        /\ attempt[r] = "NONE" => Untouched(r)
    /\ \A i, j \in DOMAIN backlog : backlog[i] = backlog[j] => i = j
    /\ serving # Nobody => inferred[serving] = 1

\* The runtime is done with a consumed attempt.
Settled == \A r \in Requests : attempt[r] = "CONSUMED" => inferred[r] = 1 /\ serving # r

\* What a client reads as answered.
Backed(r, digest) ==
    /\ attempt[r] = "CONSUMED" /\ result[r] = digest
    /\ returned[r] = [status |-> "ANSWERED", digest |-> digest]

\* What a denial says of its request.
DenialHolds(r, denial) ==
    denial.kind \in Preserved =>
        /\ attempt[r] = "RESERVED"
        /\ ~denial.forwarded => Untouched(r)
        /\ denial.observed => returned[r].digest # NoResult

\* What the gateway knows in each phase of its exchange.
Reserved(g) ==
    g.phase \in Working =>
        /\ attempt[g.r] = "RESERVED" /\ bound[g.r] = context /\ g.selected = context
        /\ g.selected # NoContext
Sending(g) ==
    /\ g.phase \in PreForward => Untouched(g.r)
    /\ g.phase \notin {"AWAITING"} \cup Answered \cup Ending => ~g.forwarded
    /\ g.phase \in {"CURRENT", "AWAITING"} \cup Answered => g.selected = g.policy
    /\ g.phase \in {"AWAITING"} \cup Answered => g.forwarded
Receiving(g) ==
    /\ g.phase \in Answered =>
        /\ inferred[g.r] = 1 /\ serving # g.r
        /\ g.answer = returned[g.r] /\ g.answer.digest \in Results
    /\ g.phase \notin Answered \cup Ending => g.answer = NoAnswer
    /\ g.phase \notin Ending => g.reply = NoAnswer /\ g.denial = NoDenial
Telling(g) ==
    g.phase \in Ending =>
        /\ DenialHolds(g.r, g.denial)
        /\ g.reply.status = "ANSWERED" =>
            /\ Backed(g.r, g.reply.digest)
            /\ g.phase \in {"AUDITED", "CORRELATED"} =>
                Recorded([r |-> g.r, status |-> "ANSWERED", digest |-> g.reply.digest], FALSE)
            /\ g.phase = "CORRELATED" /\ g.r \in HttpRequests =>
                Recorded([r |-> g.r, status |-> "ANSWERED", digest |-> g.reply.digest], TRUE)

\* A recorded denial holds, and the gateway never works on its request again.
DenialsKept ==
    \A i \in DOMAIN log :
        /\ DenialHolds(log[i].r, log[i].denial)
        /\ log[i].denial.kind \in Preserved =>
               ~(gateway.phase \in Working /\ gateway.r = log[i].r)

Exchange ==
    Reserved(gateway) /\ Sending(gateway) /\ Receiving(gateway) /\ Telling(gateway)

RoadInv ==
    /\ TypeOK /\ Process /\ SentOnce /\ Settled /\ Exchange /\ DenialsKept /\ AnswersBacked

-----------------------------------------------------------------------------
(***************************************************************************)
(* Types.                                                                  *)
(***************************************************************************)

Gateways == [phase : ToSet(Phases), r : Requests \cup {Nobody},
             policy : Contexts \cup {NoContext}, selected : Contexts \cup {NoContext},
             host : Facts \cup {NoFacts}, answer : Replies, forwarded : BOOLEAN,
             reply : Replies, denial : Denials]

Events == [r : Requests, mapping : BOOLEAN, status : Statuses,
           digest : Results \cup {NoResult}, denial : Denials]

\* The phases of an exchange.
LEMMA PhaseSet ==
  ToSet(Phases) = {"IDLE", "MATCHED", "CHECKED", "SELECTED", "OBSERVED", "RESERVED", "REMATCHED",
            "HELD", "CURRENT", "AWAITING", "RETURNED", "POLICED", "RECHECKED",
            "CONFIRMED", "CONSUMING", "DECIDED", "AUDITED", "CORRELATED"}
<1>1. DOMAIN Phases = 1..18
  BY DEF Phases
<1>2. /\ Phases[1] = "IDLE" /\ Phases[2] = "MATCHED" /\ Phases[3] = "CHECKED"
      /\ Phases[4] = "SELECTED" /\ Phases[5] = "OBSERVED" /\ Phases[6] = "RESERVED"
      /\ Phases[7] = "REMATCHED" /\ Phases[8] = "HELD" /\ Phases[9] = "CURRENT"
      /\ Phases[10] = "AWAITING" /\ Phases[11] = "RETURNED" /\ Phases[12] = "POLICED"
      /\ Phases[13] = "RECHECKED" /\ Phases[14] = "CONFIRMED" /\ Phases[15] = "CONSUMING"
      /\ Phases[16] = "DECIDED" /\ Phases[17] = "AUDITED" /\ Phases[18] = "CORRELATED"
  BY DEF Phases
<1>3. ToSet(Phases) = {Phases[n] : n \in 1..18}
  BY <1>1 DEF ToSet
<1>4. \A n \in 1..18 : \/ n = 1 \/ n = 2 \/ n = 3 \/ n = 4 \/ n = 5 \/ n = 6 \/ n = 7 \/ n = 8
                       \/ n = 9 \/ n = 10 \/ n = 11 \/ n = 12 \/ n = 13 \/ n = 14 \/ n = 15
                       \/ n = 16 \/ n = 17 \/ n = 18
  OBVIOUS
<1> HIDE DEF Phases
<1> QED BY <1>2, <1>3, <1>4

\* The fields of an exchange that is not changed but for its phase.
LEMMA PhaseMoves ==
  ASSUME gateway \in Gateways, NEW phase \in ToSet(Phases), Goto(phase)
  PROVE  /\ gateway' \in Gateways /\ gateway'.phase = phase
         /\ gateway'.r = gateway.r /\ gateway'.policy = gateway.policy
         /\ gateway'.selected = gateway.selected /\ gateway'.host = gateway.host
         /\ gateway'.answer = gateway.answer /\ gateway'.forwarded = gateway.forwarded
         /\ gateway'.reply = gateway.reply /\ gateway'.denial = gateway.denial
  BY DEF Goto, Gateways

\* No exchange is a well typed one.
LEMMA NothingType ==
  Nothing \in Gateways /\ Nothing.phase = "IDLE"
<1>1. "IDLE" \in ToSet(Phases)
  BY PhaseSet
<1>2. NoAnswer \in Replies /\ NoDenial \in Denials
  BY DEF NoAnswer, Replies, Statuses, NoDenial, Denials
<1> QED BY <1>1, <1>2 DEF Nothing, Gateways

\* A denial and the reply that goes with it are well typed.
LEMMA PreserveType ==
  ASSUME gateway \in Gateways, NEW r \in Requests, Preserve(r)
  PROVE  /\ gateway' \in Gateways /\ gateway'.phase = "DECIDED" /\ gateway'.r = gateway.r
         /\ gateway'.reply.status # "ANSWERED"
         /\ \E kind \in DenialKinds : gateway'.denial = Denial(kind)
<1>1. PICK kind \in DenialKinds :
         gateway' = [gateway EXCEPT !.phase = "DECIDED", !.denial = Denial(kind),
             !.reply.status = IF gateway.phase \in BeforeReservation THEN "DENIED"
                              ELSE "UNAVAILABLE"]
  BY DEF Preserve
<1>2. kind \in {"NONE", "PREFLIGHT", "PRESERVED", "SCOPE"}
  BY DEF DenialKinds
<1>3. Denial(kind) \in Denials
  <2>1. NoDenial \in Denials /\ [NoDenial EXCEPT !.kind = kind] \in Denials
    BY <1>2 DEF NoDenial, Denials
  <2>2. gateway.forwarded \in BOOLEAN
    BY DEF Gateways
  <2>3. [kind |-> kind, forwarded |-> gateway.forwarded,
         observed |-> gateway.answer.digest # NoResult] \in Denials
    BY <1>2, <2>2 DEF Denials
  <2> QED BY <2>1, <2>3 DEF Denial
<1> DEFINE status == IF gateway.phase \in BeforeReservation THEN "DENIED" ELSE "UNAVAILABLE"
           reply == [gateway.reply EXCEPT !.status = status]
<1>4. reply \in Replies /\ reply.status # "ANSWERED"
  BY DEF Gateways, Replies, Statuses
<1>5. "DECIDED" \in ToSet(Phases)
  BY PhaseSet
<1>6. gateway' = [gateway EXCEPT !.phase = "DECIDED", !.denial = Denial(kind), !.reply = reply]
  BY <1>1 DEF Gateways
<1> HIDE DEF reply
<1> QED BY <1>3, <1>4, <1>5, <1>6 DEF Gateways

\* Every step of the road keeps the types.
LEMMA TypeStep == TypeOK /\ Process /\ [Next]_vars => TypeOK'
<1> SUFFICES ASSUME TypeOK, Process, [Next]_vars PROVE TypeOK'
  OBVIOUS
<1> USE DispatchAssumption DEF store, runtime, world, At
<1>0. /\ gateway \in Gateways /\ NoAnswer \in Replies
      /\ gateway.phase # "IDLE" => gateway.r \in Requests
  BY DEF TypeOK, Gateways, Process, NoAnswer, Replies, Statuses
<1>p. \A phase \in ToSet(Phases) : Goto(phase) => gateway' \in Gateways
  BY <1>0, PhaseMoves
<1>g. ASSUME gateway' \in Gateways, UNCHANGED <<store, up, context, runtime, log, replies, world>>,
             accepted' \in 0..MaxExchanges
      PROVE  TypeOK'
  BY <1>g DEF TypeOK, Gateways
<1>1. CASE Start BY <1>1 DEF Start, TypeOK
<1>2. ASSUME NEW r \in Requests, Accept(r) PROVE TypeOK'
  <2>1. gateway' = [Nothing EXCEPT !.phase = "MATCHED", !.r = r, !.policy = installed]
    BY <1>2 DEF Accept
  <2>2. gateway' \in Gateways
    BY <2>1, NothingType, PhaseSet DEF Gateways, TypeOK
  <2>3. accepted' \in 0..MaxExchanges
    BY <1>2 DEF Accept, TypeOK
  <2> QED BY <1>2, <1>g, <2>2, <2>3 DEF Accept
<1>3. CASE \/ Current("MATCHED", "CHECKED") \/ Current("HELD", "CURRENT")
           \/ Current("POLICED", "RECHECKED") \/ MatchAgain \/ ObserveHostAgain
           \/ ReturnPolicy \/ ConfirmHost \/ CheckStore
  <2>1. gateway' \in Gateways
    BY <1>3, <1>p, PhaseSet DEF Current, MatchAgain, ObserveHostAgain, ReturnPolicy, ConfirmHost, CheckStore
  <2> QED BY <1>3, <1>g, <2>1
          DEF Current, MatchAgain, ObserveHostAgain, ReturnPolicy, ConfirmHost, CheckStore, TypeOK
<1>4. CASE Select
  <2>1. gateway' = [gateway EXCEPT !.phase = "SELECTED", !.selected = installed]
    BY <1>4 DEF Select
  <2>2. gateway' \in Gateways
    BY <1>0, <2>1, PhaseSet DEF Gateways, TypeOK
  <2> QED BY <1>4, <1>g, <2>2 DEF Select, TypeOK
<1>5. CASE ObserveHost
  <2>1. gateway' = [gateway EXCEPT !.phase = "OBSERVED", !.host = facts]
    BY <1>5 DEF ObserveHost
  <2>2. gateway' \in Gateways
    BY <1>0, <2>1, PhaseSet DEF Gateways, TypeOK
  <2> QED BY <1>5, <1>g, <2>2 DEF ObserveHost, TypeOK
<1>6. CASE ReserveAttempt
  <2>1. gateway' \in Gateways /\ gateway.r \in Requests
    BY <1>0, <1>6, <1>p, PhaseSet DEF ReserveAttempt
  <2>2. /\ attempt' \in [Requests -> AttemptStates \ {"UNUSED"}]
        /\ bound' \in [Requests -> Contexts \cup {NoContext}] /\ owned' \subseteq Requests
    BY <1>6, <2>1 DEF ReserveAttempt, Reserve, TypeOK, AttemptStates
  <2> QED BY <1>6, <2>1, <2>2 DEF ReserveAttempt, Reserve, TypeOK, Gateways
<1>7. CASE Forward
  <2>1. gateway' = [gateway EXCEPT !.phase = "AWAITING", !.forwarded = TRUE]
    BY <1>7 DEF Forward
  <2>2. gateway' \in Gateways
    BY <1>0, <2>1, PhaseSet DEF Gateways
  <2>3. backlog' \in Seq(Requests)
    BY <1>0, <1>7 DEF Forward, TypeOK
  <2> QED BY <1>7, <2>2, <2>3 DEF Forward, TypeOK, Gateways
<1>8. CASE ForwardUnreached
  <2> DEFINE denial == [kind |-> "PRESERVED", forwarded |-> TRUE, observed |-> FALSE]
             reply == [gateway.reply EXCEPT !.status = "UNAVAILABLE"]
  <2>1. denial \in Denials /\ reply \in Replies
    BY <1>0 DEF Denials, Gateways, Replies, Statuses
  <2>2. gateway' = [gateway EXCEPT !.phase = "DECIDED", !.forwarded = TRUE, !.reply = reply,
                                   !.denial = denial]
    BY <1>0, <1>8 DEF ForwardUnreached, Gateways
  <2> HIDE DEF denial, reply
  <2>3. gateway' \in Gateways
    BY <1>0, <2>1, <2>2, PhaseSet DEF Gateways
  <2> QED BY <1>8, <2>3 DEF ForwardUnreached, TypeOK, Gateways
<1>9. CASE ConsumeAttempt
  <2> DEFINE reply == IF gateway.answer.status = "ANSWERED" THEN gateway.answer
                      ELSE [status |-> gateway.answer.status, digest |-> NoResult]
  <2>1. reply \in Replies /\ gateway.r \in Requests /\ gateway.answer.digest \in Results \cup {NoResult}
    BY <1>0, <1>9 DEF Gateways, Replies, Statuses, ConsumeAttempt
  <2>2. gateway' = [gateway EXCEPT !.phase = "DECIDED", !.reply = reply]
    BY <1>9 DEF ConsumeAttempt
  <2>3. /\ attempt' \in [Requests -> AttemptStates \ {"UNUSED"}]
        /\ result' \in [Requests -> Results \cup {NoResult}] /\ owned' \subseteq Requests
    BY <1>9, <2>1 DEF ConsumeAttempt, Consume, TypeOK, AttemptStates
  <2> HIDE DEF reply
  <2>4. gateway' \in Gateways
    BY <1>0, <2>1, <2>2, PhaseSet DEF Gateways
  <2> QED BY <1>9, <2>3, <2>4 DEF ConsumeAttempt, TypeOK, Gateways
<1>10. CASE Fail
  <2>1. gateway' \in Gateways /\ owned' \subseteq Requests
    <3>1. gateway.r \in Requests
      BY <1>0, <1>10 DEF Fail, BeforeReservation, InReservation, AfterReservation
    <3> QED BY <1>0, <1>10, <3>1, PreserveType DEF Fail, Preserve, TypeOK
  <2> QED BY <1>10, <2>1 DEF Fail, TypeOK, Gateways
<1>11. ASSUME NEW from, NEW mapping \in BOOLEAN, NEW to \in ToSet(Phases), from # "IDLE",
              Audit(from, mapping, to)
       PROVE  TypeOK'
  <2> DEFINE reply == [status |-> "UNAVAILABLE", digest |-> NoResult]
  <2>1. reply \in Replies
    BY DEF Replies, Statuses
  <2>2. \/ gateway' = [gateway EXCEPT !.phase = to]
        \/ gateway' = [gateway EXCEPT !.phase = "CORRELATED", !.reply = reply]
    BY <1>11 DEF Audit
  <2> HIDE DEF reply
  <2>3. gateway' \in Gateways
    <3>1. "CORRELATED" \in ToSet(Phases)
      BY PhaseSet
    <3> QED BY <1>0, <1>11, <2>1, <2>2, <3>1 DEF Gateways
  <2>4. Event(mapping) \in Events
    BY <1>0, <1>11 DEF Event, Gateways, Replies, Audit, Events
  <2>5. log' \in Seq(Events)
    <3>1. log \in Seq(Events)
      BY DEF TypeOK, Events
    <3>2. log' \in {log, Append(log, Event(mapping))}
      BY <1>11 DEF Audit
    <3> QED BY <2>4, <3>1, <3>2
  <2> QED BY <1>11, <2>3, <2>5 DEF Audit, TypeOK, Gateways, Events
<1>12. CASE AuditTerminal \/ AuditMapping
  BY <1>11, <1>12, PhaseSet DEF AuditTerminal, AuditMapping
<1>13. CASE SkipMapping
  <2> DEFINE status == IF gateway.r \in HttpRequests THEN "UNAVAILABLE" ELSE gateway.reply.status
             reply == [gateway.reply EXCEPT !.status = status]
  <2>1. reply \in Replies
    BY <1>0 DEF Gateways, Replies, Statuses
  <2>2. gateway' = [gateway EXCEPT !.phase = "CORRELATED", !.reply = reply]
    BY <1>0, <1>13 DEF SkipMapping, Gateways
  <2> HIDE DEF reply
  <2>3. gateway' \in Gateways
    BY <1>0, <2>1, <2>2, PhaseSet DEF Gateways
  <2> QED BY <1>13, <1>g, <2>3 DEF SkipMapping, TypeOK
<1>14. CASE Reply
  <2>1. gateway' \in Gateways
    BY <1>14, NothingType DEF Reply
  <2>2. replies' \subseteq [r : Requests, status : Statuses, digest : Results \cup {NoResult}]
    BY <1>0, <1>14 DEF Reply, TypeOK, Gateways, Replies
  <2> QED BY <1>14, <2>1, <2>2 DEF Reply, TypeOK, Gateways
<1>15. CASE RuntimeAccept
  <2>1. Head(backlog) \in Requests /\ Tail(backlog) \in Seq(Requests)
    BY <1>15 DEF RuntimeAccept, TypeOK
  <2> QED BY <1>15, <2>1 DEF RuntimeAccept, TypeOK
<1>16. CASE RuntimeAnswer
  <2>1. PICK answer \in RuntimeAnswers :
         /\ returned' = [returned EXCEPT ![serving] = answer]
         /\ IF Waiting(serving)
            THEN gateway' = [gateway EXCEPT !.phase = "RETURNED", !.answer = answer]
            ELSE UNCHANGED gateway
    BY <1>16 DEF RuntimeAnswer
  <2>2. answer \in Replies
    BY DEF RuntimeAnswers, Replies
  <2>3. gateway' \in Gateways
    <3>1. "RETURNED" \in ToSet(Phases)
      BY PhaseSet
    <3> QED BY <1>0, <2>1, <2>2, <3>1 DEF Gateways
  <2>4. returned' \in [Requests -> Replies]
    BY <2>1, <2>2 DEF TypeOK
  <2> QED BY <1>16, <2>3, <2>4 DEF RuntimeAnswer, TypeOK, Gateways
<1>17. ASSUME NEW r \in Requests, Unanswered(r)
       PROVE  gateway' \in Gateways /\ owned' \subseteq Requests
  BY <1>0, <1>17, PreserveType DEF Unanswered, Preserve, TypeOK
<1>18. CASE RuntimeClose
  BY <1>17, <1>18 DEF RuntimeClose, TypeOK, Gateways
<1>19. CASE RuntimeRefuse
  <2>1. Head(backlog) \in Requests /\ Tail(backlog) \in Seq(Requests)
    BY <1>19 DEF RuntimeRefuse, TypeOK
  <2> QED BY <1>17, <1>19, <2>1 DEF RuntimeRefuse, TypeOK, Gateways
<1>20. CASE Crash
  BY <1>20, NothingType DEF Crash, TypeOK, Gateways
<1>21. CASE Change \/ Recover
  BY <1>21 DEF Change, Recover, TypeOK
<1>22. CASE UNCHANGED vars
  BY <1>22 DEF vars, TypeOK
<1> QED
  BY <1>1, <1>2, <1>3, <1>4, <1>5, <1>6, <1>7, <1>8, <1>9, <1>10, <1>12, <1>13, <1>14, <1>15,
     <1>16, <1>18, <1>19, <1>20, <1>21, <1>22 DEF Next, GatewayStep, RuntimeStep

-----------------------------------------------------------------------------
(***************************************************************************)
(* What no step takes back.                                                *)
(***************************************************************************)

\* A connection that is added to the backlog.
LEMMA Queued ==
  ASSUME NEW s \in Seq(Requests), NEW r \in Requests
  PROVE  /\ DOMAIN Append(s, r) = DOMAIN s \cup {Len(s) + 1} /\ Len(s) + 1 \notin DOMAIN s
         /\ \A i \in DOMAIN s : Append(s, r)[i] = s[i]
         /\ Append(s, r)[Len(s) + 1] = r
  OBVIOUS

\* A connection that is taken from the backlog.
LEMMA Dequeued ==
  ASSUME NEW s \in Seq(Requests), s # <<>>
  PROVE  /\ Head(s) \in Requests /\ Head(s) = s[1] /\ 1 \in DOMAIN s
         /\ \A i \in DOMAIN Tail(s) : i + 1 \in DOMAIN s /\ Tail(s)[i] = s[i + 1] /\ i + 1 # 1
  OBVIOUS

\* The runtime's side of the road: the one step that sends, and the runtime's own.
LEMMA RuntimeFrame ==
  ASSUME [Next]_vars
  PROVE  Forward \/ RuntimeAccept \/ RuntimeAnswer \/ RuntimeClose \/ RuntimeRefuse \/ UNCHANGED runtime
  BY DEF Next, GatewayStep, RuntimeStep, Start, Accept, Current, Select, ObserveHost, ReserveAttempt,
         MatchAgain, ObserveHostAgain, ForwardUnreached, ReturnPolicy, ConfirmHost, CheckStore, ConsumeAttempt,
         Fail, Audit, AuditTerminal, AuditMapping, SkipMapping, Reply, Crash, Change, Recover, vars, runtime

\* The store's side: one step reserves, one consumes.
LEMMA StoreFrame ==
  ASSUME [Next]_vars
  PROVE  ReserveAttempt \/ ConsumeAttempt \/ UNCHANGED <<attempt, result, bound>>
  BY DEF Next, GatewayStep, RuntimeStep, Start, Accept, Current, Select, ObserveHost, Forward,
         MatchAgain, ObserveHostAgain, ForwardUnreached, ReturnPolicy, ConfirmHost, CheckStore, RuntimeAccept,
         RuntimeAnswer, RuntimeClose, RuntimeRefuse,
         Fail, Audit, AuditTerminal, AuditMapping, SkipMapping, Reply, Crash, Change, Recover, vars, store

\* The audit log: only the two audit exchanges append to it.
LEMMA LogFrame ==
  ASSUME [Next]_vars
  PROVE  AuditTerminal \/ AuditMapping \/ UNCHANGED log
  BY DEF Next, GatewayStep, RuntimeStep, Start, Accept, Current, Select, ObserveHost, Forward,
         MatchAgain, ObserveHostAgain, ForwardUnreached, ReturnPolicy, ConfirmHost, CheckStore, RuntimeAccept,
         RuntimeAnswer, RuntimeClose, RuntimeRefuse, ReserveAttempt, ConsumeAttempt,
         Fail, SkipMapping, Reply, Crash, Change, Recover, vars

\* Nothing changes the attempt of a consumed request, and only the gateway that
\* consumes it that of a reserved one.
LEMMA AttemptKept ==
  ASSUME RoadInv, [Next]_vars, NEW r \in Requests, attempt[r] # "NONE"
  PROVE  /\ bound'[r] = bound[r] /\ attempt'[r] # "NONE"
         /\ attempt[r] = "CONSUMED" => attempt'[r] = "CONSUMED" /\ result'[r] = result[r]
         /\ attempt[r] = "RESERVED" /\ ~(ConsumeAttempt /\ gateway.r = r) =>
              attempt'[r] = "RESERVED"
<1>1. CASE ReserveAttempt
  <2>1. gateway.r \in Requests
    BY <1>1 DEF ReserveAttempt, At, RoadInv, Process
  <2> QED BY <1>1, <2>1 DEF ReserveAttempt, Reserve, RoadInv, TypeOK
<1>2. CASE ConsumeAttempt
  <2>1. gateway.r \in Requests
    BY <1>2 DEF ConsumeAttempt, At, RoadInv, Process
  <2>2. /\ attempt[gateway.r] = "RESERVED" /\ attempt' = [attempt EXCEPT ![gateway.r] = "CONSUMED"]
        /\ result' = [result EXCEPT ![gateway.r] = gateway.answer.digest] /\ bound' = bound
    BY <1>2 DEF ConsumeAttempt, Consume
  <2> QED BY <1>2, <2>1, <2>2 DEF RoadInv, TypeOK
<1> QED BY <1>1, <1>2, StoreFrame

\* A request is not sent behind the back of the gateway that works on it.
LEMMA UntouchedKept ==
  ASSUME RoadInv, [Next]_vars, NEW r \in Requests, Untouched(r),
         ~(Forward /\ gateway.r = r)
  PROVE  Untouched(r)'
<1>0. backlog \in Seq(Requests) /\ inferred \in [Requests -> Nat]
  BY DEF RoadInv, TypeOK
<1>1. CASE Forward
  <2>1. /\ gateway.r \in Requests /\ gateway.r # r /\ backlog' = Append(backlog, gateway.r)
        /\ inferred' = inferred
    BY <1>1 DEF Forward, At, RoadInv, Process
  <2> QED BY <1>0, <2>1, Queued DEF Untouched, InBacklog
<1>2. CASE RuntimeAccept
  <2>1. /\ backlog # <<>> /\ backlog' = Tail(backlog)
        /\ inferred' = [inferred EXCEPT ![Head(backlog)] = @ + 1]
    BY <1>2 DEF RuntimeAccept
  <2>2. Head(backlog) # r
    BY <1>0, <2>1, Dequeued DEF Untouched, InBacklog
  <2> QED BY <1>0, <2>1, <2>2, Dequeued DEF Untouched, InBacklog
<1>3. CASE RuntimeRefuse
  <2>1. backlog # <<>> /\ backlog' = Tail(backlog) /\ inferred' = inferred
    BY <1>3 DEF RuntimeRefuse
  <2> QED BY <1>0, <2>1, Dequeued DEF Untouched, InBacklog
<1>4. CASE RuntimeAnswer \/ RuntimeClose \/ UNCHANGED runtime
  BY <1>4 DEF RuntimeAnswer, RuntimeClose, runtime, Untouched, InBacklog
<1> QED BY <1>1, <1>2, <1>3, <1>4, RuntimeFrame

\* The runtime infers a request once and answers it once.
LEMMA AnswerKept ==
  ASSUME RoadInv, [Next]_vars, NEW r \in Requests, inferred[r] = 1
  PROVE  /\ inferred'[r] = 1
         /\ serving # r => serving' # r /\ returned'[r] = returned[r]
<1>0. /\ backlog \in Seq(Requests) /\ inferred \in [Requests -> Nat] /\ Nobody \notin Requests
      /\ returned \in [Requests -> Replies] /\ ~InBacklog(r)
  BY DispatchAssumption DEF RoadInv, TypeOK, SentOnce
<1>1. CASE RuntimeAccept
  <2>1. /\ backlog # <<>> /\ serving' = Head(backlog) /\ returned' = returned
        /\ inferred' = [inferred EXCEPT ![Head(backlog)] = @ + 1]
    BY <1>1 DEF RuntimeAccept
  <2>2. Head(backlog) # r
    BY <1>0, <2>1, Dequeued DEF InBacklog
  <2> QED BY <1>0, <2>1, <2>2
<1>2. CASE RuntimeAnswer
  BY <1>0, <1>2 DEF RuntimeAnswer
<1>3. CASE RuntimeClose \/ RuntimeRefuse \/ Forward
  BY <1>0, <1>3 DEF RuntimeClose, RuntimeRefuse, Forward
<1>4. CASE UNCHANGED runtime
  BY <1>4 DEF runtime
<1> QED BY <1>1, <1>2, <1>3, <1>4, RuntimeFrame

\* What was returned for a request stays something.
LEMMA ReturnedKept ==
  ASSUME RoadInv, [Next]_vars, NEW r \in Requests, returned[r].digest # NoResult
  PROVE  returned'[r].digest # NoResult
<1>1. CASE RuntimeAnswer
  <2>1. PICK answer \in RuntimeAnswers : returned' = [returned EXCEPT ![serving] = answer]
    BY <1>1 DEF RuntimeAnswer
  <2>2. answer.digest # NoResult
    BY DispatchAssumption DEF RuntimeAnswers
  <2> QED BY <2>1, <2>2 DEF RoadInv, TypeOK
<1>2. CASE RuntimeAccept \/ RuntimeClose \/ RuntimeRefuse \/ Forward
  BY <1>2 DEF RuntimeAccept, RuntimeClose, RuntimeRefuse, Forward
<1>3. CASE UNCHANGED runtime
  BY <1>3 DEF runtime
<1> QED BY <1>1, <1>2, <1>3, RuntimeFrame

\* An audited event stays where it is, and a new one is the gateway's own.
LEMMA LogKept ==
  ASSUME RoadInv, [Next]_vars
  PROVE  /\ \A i \in DOMAIN log : i \in DOMAIN log' /\ log'[i] = log[i]
         /\ \A i \in DOMAIN log' \ DOMAIN log :
              \E mapping \in BOOLEAN : log'[i] = Event(mapping) /\ gateway.phase \in Ending
         /\ log' # log => AuditTerminal \/ AuditMapping
<1>0. log \in Seq(Events) /\ gateway \in Gateways
  BY DEF RoadInv, TypeOK, Events, Gateways
<1>1. ASSUME NEW e \in Events
      PROVE  /\ \A i \in DOMAIN log : i \in DOMAIN Append(log, e) /\ Append(log, e)[i] = log[i]
             /\ \A i \in DOMAIN Append(log, e) \ DOMAIN log : Append(log, e)[i] = e
  BY <1>0
<1>2. ASSUME NEW from \in Ending, NEW mapping \in BOOLEAN, NEW to, Audit(from, mapping, to)
      PROVE  /\ \A i \in DOMAIN log : i \in DOMAIN log' /\ log'[i] = log[i]
             /\ \A i \in DOMAIN log' \ DOMAIN log : log'[i] = Event(mapping)
             /\ gateway.phase \in Ending
  <2>1. gateway.phase = from /\ log' \in {log, Append(log, Event(mapping))}
    BY <1>2 DEF Audit, At
  <2>2. gateway.r \in Requests
    BY <1>2, <2>1 DEF RoadInv, Process, Ending
  <2>3. Event(mapping) \in Events
    BY <1>0, <2>2 DEF Event, Gateways, Replies, Events
  <2> QED BY <1>1, <2>1, <2>3
<1>3. CASE AuditTerminal
  BY <1>2, <1>3 DEF AuditTerminal, Ending
<1>4. CASE AuditMapping
  BY <1>2, <1>4 DEF AuditMapping, Ending
<1>5. CASE UNCHANGED log
  BY <1>5
<1> QED BY <1>3, <1>4, <1>5, LogFrame

\* What is recorded stays recorded.
LEMMA RecordedKept ==
  ASSUME RoadInv, [Next]_vars, NEW reply, NEW mapping, Recorded(reply, mapping)
  PROVE  Recorded(reply, mapping)'
  BY LogKept DEF Recorded

\* What an answer rests on stays.
LEMMA BackedKept ==
  ASSUME RoadInv, [Next]_vars, NEW r \in Requests, NEW digest, Backed(r, digest)
  PROVE  Backed(r, digest)'
  BY AttemptKept, AnswerKept DEF Backed, RoadInv, Settled

\* A denial stays true while the gateway does not work on its request.
LEMMA DenialKept ==
  ASSUME RoadInv, [Next]_vars, NEW r \in Requests, NEW denial, DenialHolds(r, denial),
         denial.kind \in Preserved => ~(gateway.phase \in Working /\ gateway.r = r)
  PROVE  DenialHolds(r, denial)'
<1> SUFFICES ASSUME denial.kind \in Preserved
             PROVE  /\ attempt'[r] = "RESERVED"
                    /\ ~denial.forwarded => Untouched(r)'
                    /\ denial.observed => returned'[r].digest # NoResult
  BY DEF DenialHolds
<1>1. ~(gateway.r = r /\ (Forward \/ ConsumeAttempt))
  BY DEF Forward, ConsumeAttempt, At, Working, AfterReservation
<1> QED BY <1>1, AttemptKept, UntouchedKept, ReturnedKept DEF DenialHolds

-----------------------------------------------------------------------------
(***************************************************************************)
(* The invariant, conjunct by conjunct.                                     *)
(***************************************************************************)

\* Nothing has happened on a new road.
LEMMA InitOK == Init => RoadInv
<1> SUFFICES ASSUME Init PROVE RoadInv
  OBVIOUS
<1>1. TypeOK
  <2>1. gateway \in Gateways /\ log \in Seq(Events) /\ backlog \in Seq(Requests)
    BY NothingType DEF Init
  <2>2. NoAnswer \in Replies
    BY DEF NoAnswer, Replies, Statuses
  <2>3. 0 \in 0..MaxExchanges /\ 0 \in 0..MaxChanges
    BY DispatchAssumption
  <2> QED BY <2>1, <2>2, <2>3 DEF Init, LedgerInit, TypeOK, AttemptStates, Gateways, Events
<1>2. /\ gateway = Nothing /\ log = <<>> /\ backlog = <<>> /\ replies = {} /\ serving = Nobody
      /\ \A r \in Requests : attempt[r] = "NONE" /\ inferred[r] = 0
  BY DEF Init, LedgerInit
<1>3. /\ gateway.phase = "IDLE" /\ gateway.answer = NoAnswer /\ gateway.reply = NoAnswer
      /\ gateway.denial = NoDenial /\ ~gateway.forwarded
  BY <1>2 DEF Nothing
<1>4. Process /\ SentOnce /\ Settled
  BY <1>2, <1>3 DEF Process, SentOnce, Settled, Untouched, InBacklog
<1>5. Exchange
  BY <1>3 DEF Exchange, Reserved, Sending, Receiving, Telling, Working, InReservation,
              AfterReservation, PreForward, Answered, Ending
<1>6. DenialsKept /\ AnswersBacked
  BY <1>2 DEF DenialsKept, AnswersBacked
<1> QED BY <1>1, <1>4, <1>5, <1>6 DEF RoadInv

\* An exchange is in a process, and about a request.
LEMMA ProcessStep == RoadInv /\ [Next]_vars => Process'
<1> SUFFICES ASSUME RoadInv, [Next]_vars PROVE Process'
  OBVIOUS
<1> USE DEF At
<1>0. gateway \in Gateways /\ Process /\ Nothing.phase = "IDLE"
  BY NothingType DEF RoadInv, TypeOK, Gateways
<1>1. CASE UNCHANGED <<gateway, up>>
  BY <1>0, <1>1 DEF Process
<1>2. CASE gateway' = Nothing
  BY <1>0, <1>2 DEF Process
<1>3. CASE up' /\ gateway'.r = gateway.r /\ gateway.phase # "IDLE"
  BY <1>0, <1>3 DEF Process
<1>4. ASSUME NEW r \in Requests, Accept(r) PROVE Process'
  BY <1>4 DEF Accept, Process, Nothing
<1>5. CASE Start
  BY <1>0, <1>5 DEF Start, Process
<1>6. CASE \/ Current("MATCHED", "CHECKED") \/ Current("HELD", "CURRENT")
           \/ Current("POLICED", "RECHECKED") \/ MatchAgain \/ ObserveHostAgain
           \/ ReturnPolicy \/ ConfirmHost \/ CheckStore \/ Select \/ ObserveHost \/ ReserveAttempt \/ Forward
           \/ ForwardUnreached \/ ConsumeAttempt \/ SkipMapping
  <2>1. up /\ up' = up /\ gateway.phase # "IDLE"
    BY <1>6 DEF Current, MatchAgain, ObserveHostAgain, ReturnPolicy, ConfirmHost, CheckStore, Select, store,
       ObserveHost, ReserveAttempt, Forward, ForwardUnreached, ConsumeAttempt, SkipMapping
  <2>2. gateway'.r = gateway.r
    BY <1>0, <1>6 DEF Current, MatchAgain, ObserveHostAgain, ReturnPolicy, ConfirmHost, CheckStore, Select,
       ObserveHost, ReserveAttempt, Forward, ForwardUnreached, ConsumeAttempt, SkipMapping, Goto, Gateways
  <2> QED BY <1>3, <2>1, <2>2
<1>7. ASSUME NEW from, NEW mapping, NEW to, from # "IDLE", Audit(from, mapping, to)
      PROVE  Process'
  <2>1. gateway'.r = gateway.r
    BY <1>0, <1>7 DEF Audit, Gateways
  <2> QED BY <1>3, <1>7, <2>1 DEF Audit
<1>8. CASE Fail
  BY <1>0, <1>3, <1>8 DEF Fail, Preserve, Gateways, BeforeReservation, InReservation, AfterReservation
<1>9. CASE Reply \/ Crash
  BY <1>2, <1>9 DEF Reply, Crash
<1>10. ASSUME NEW r, Unanswered(r), up' = up PROVE Process'
  BY <1>0, <1>1, <1>3, <1>10 DEF Unanswered, Waiting, Preserve, Gateways
<1>11. CASE RuntimeClose \/ RuntimeRefuse
  BY <1>10, <1>11 DEF RuntimeClose, RuntimeRefuse
<1>12. CASE RuntimeAnswer
  BY <1>0, <1>1, <1>3, <1>12 DEF RuntimeAnswer, Waiting, Gateways
<1>13. CASE RuntimeAccept \/ Change \/ Recover \/ UNCHANGED vars
  BY <1>1, <1>13 DEF RuntimeAccept, Change, Recover, vars
<1> QED
  BY <1>4, <1>5, <1>6, <1>7, <1>8, <1>9, <1>11, <1>12, <1>13
     DEF Next, GatewayStep, RuntimeStep, AuditTerminal, AuditMapping

\* No request is sent twice.
LEMMA SentStep == RoadInv /\ [Next]_vars => SentOnce'
<1> SUFFICES ASSUME RoadInv, [Next]_vars PROVE SentOnce'
  OBVIOUS
<1>0. /\ backlog \in Seq(Requests) /\ inferred \in [Requests -> Nat] /\ SentOnce
      /\ serving \in Requests \cup {Nobody} /\ Nobody \notin Requests
  BY DispatchAssumption DEF RoadInv, TypeOK
<1>1. \A r \in Requests : attempt'[r] = "NONE" => attempt[r] = "NONE"
  BY AttemptKept
<1>2. CASE Forward
  <2> PICK q : q = gateway.r
    OBVIOUS
  <2>1. /\ q \in Requests /\ backlog' = Append(backlog, q) /\ inferred' = inferred
        /\ serving' = serving /\ gateway.phase = "CURRENT"
    BY <1>2 DEF Forward, At, RoadInv, Process
  <2>2. Untouched(q) /\ attempt[q] = "RESERVED"
    BY <2>1 DEF RoadInv, Exchange, Sending, Reserved, PreForward, Working, AfterReservation
  <2>3. \A i, j \in DOMAIN backlog' : backlog'[i] = backlog'[j] => i = j
    BY <1>0, <2>1, <2>2, Queued DEF SentOnce, Untouched, InBacklog
  <2>4. \A r \in Requests : InBacklog(r)' => InBacklog(r) \/ r = q
    BY <1>0, <2>1, Queued DEF InBacklog
  <2> QED BY <1>0, <1>1, <2>1, <2>2, <2>3, <2>4 DEF SentOnce, Untouched
<1>3. ASSUME backlog # <<>>, backlog' = Tail(backlog)
      PROVE  /\ \A i, j \in DOMAIN backlog' : backlog'[i] = backlog'[j] => i = j
             /\ \A r \in Requests : InBacklog(r)' => InBacklog(r) /\ r # Head(backlog)
             /\ Head(backlog) \in Requests /\ InBacklog(Head(backlog))
  <2>1. /\ \A i \in DOMAIN backlog' : /\ i \in Nat /\ i + 1 \in DOMAIN backlog
                                      /\ backlog'[i] = backlog[i + 1] /\ i + 1 # 1
        /\ Head(backlog) \in Requests /\ Head(backlog) = backlog[1] /\ 1 \in DOMAIN backlog
    <3>1. Tail(backlog) \in Seq(Requests)
      BY <1>0, <1>3
    <3> QED BY <1>0, <1>3, <3>1, Dequeued
  <2>2. \A i, j \in DOMAIN backlog' : backlog'[i] = backlog'[j] => i = j
    <3> SUFFICES ASSUME NEW i \in DOMAIN backlog', NEW j \in DOMAIN backlog',
                        backlog'[i] = backlog'[j]
                 PROVE  i = j
      OBVIOUS
    <3>1. i + 1 = j + 1
      BY <1>0, <2>1 DEF SentOnce
    <3> QED BY <2>1, <3>1
  <2> QED BY <1>0, <2>1, <2>2 DEF SentOnce, InBacklog
<1>4. CASE RuntimeAccept
  <2> PICK q : q = Head(backlog)
    OBVIOUS
  <2>1. /\ backlog # <<>> /\ backlog' = Tail(backlog) /\ serving' = q
        /\ inferred' = [inferred EXCEPT ![q] = @ + 1]
    BY <1>4 DEF RuntimeAccept
  <2>2. q \in Requests /\ InBacklog(q) /\ inferred[q] = 0
    BY <1>0, <1>3, <2>1 DEF SentOnce
  <2>3. inferred'[q] = 1 /\ \A r \in Requests : r # q => inferred'[r] = inferred[r]
    BY <1>0, <2>1, <2>2
  <2> QED BY <1>0, <1>1, <1>3, <2>1, <2>2, <2>3 DEF SentOnce, Untouched
<1>5. CASE RuntimeRefuse
  <2>1. /\ backlog # <<>> /\ backlog' = Tail(backlog) /\ UNCHANGED <<serving, inferred>>
    BY <1>5 DEF RuntimeRefuse
  <2> QED BY <1>0, <1>1, <1>3, <2>1 DEF SentOnce, Untouched
<1>6. CASE RuntimeAnswer \/ RuntimeClose
  <2>1. serving' = Nobody /\ UNCHANGED <<backlog, inferred>>
    BY <1>6 DEF RuntimeAnswer, RuntimeClose
  <2> QED BY <1>0, <1>1, <2>1 DEF SentOnce, Untouched, InBacklog
<1>7. CASE UNCHANGED runtime
  BY <1>0, <1>1, <1>7 DEF SentOnce, Untouched, InBacklog, runtime
<1> QED BY <1>2, <1>4, <1>5, <1>6, <1>7, RuntimeFrame

\* A consumed attempt was answered.
LEMMA SettledStep == RoadInv /\ [Next]_vars => Settled'
<1> SUFFICES ASSUME RoadInv, [Next]_vars, NEW r \in Requests, attempt'[r] = "CONSUMED"
             PROVE  inferred'[r] = 1 /\ serving' # r
  BY DEF Settled
<1>1. inferred[r] = 1 /\ serving # r
  <2>1. CASE attempt[r] = "CONSUMED"
    BY <2>1 DEF RoadInv, Settled
  <2>2. CASE attempt[r] # "CONSUMED"
    <3>1. ConsumeAttempt /\ gateway.r = r
      <4>1. CASE ReserveAttempt
        BY <2>2, <4>1 DEF ReserveAttempt, Reserve, RoadInv, TypeOK
      <4>2. CASE ConsumeAttempt
        BY <2>2, <4>2 DEF ConsumeAttempt, Consume, RoadInv, TypeOK
      <4> QED BY <2>2, <4>1, <4>2, StoreFrame
    <3>2. gateway.phase = "CONSUMING"
      BY <3>1 DEF ConsumeAttempt, At
    <3> QED BY <3>1, <3>2 DEF RoadInv, Exchange, Receiving, Answered
  <2> QED BY <2>1, <2>2
<1> QED BY <1>1, AnswerKept

\* What the gateway knows of its request outlives every step that is not its own.
LEMMA KnownKept ==
  ASSUME RoadInv, [Next]_vars, NEW h, h = gateway, h.phase # "IDLE"
  PROVE  /\ h.r \in Requests
         /\ ~ReserveAttempt /\ ~ConsumeAttempt => UNCHANGED <<attempt, result, bound>>
         /\ ~Forward /\ Untouched(h.r) => Untouched(h.r)'
         /\ inferred[h.r] = 1 /\ serving # h.r =>
              inferred'[h.r] = 1 /\ serving' # h.r /\ returned'[h.r] = returned[h.r]
         /\ returned[h.r].digest # NoResult => returned'[h.r].digest # NoResult
         /\ h.phase \in Ending =>
              /\ DenialHolds(h.r, h.denial)'
              /\ h.reply.status = "ANSWERED" => Backed(h.r, h.reply.digest)'
<1>1. h.r \in Requests
  BY DEF RoadInv, Process
<1>2. h.phase \in Ending => h.phase \notin Working
  BY DEF Ending, Working, InReservation, AfterReservation
<1>3. Telling(h)
  BY DEF RoadInv, Exchange
<1> QED BY <1>1, <1>2, <1>3, StoreFrame, UntouchedKept, AnswerKept, ReturnedKept, DenialKept, BackedKept
        DEF Telling

\* No exchange, or one that has only been matched so far.
LEMMA FreshKnows ==
  ASSUME NEW g, g.phase \in {"IDLE", "MATCHED", "CHECKED", "SELECTED", "OBSERVED"},
         g.answer = NoAnswer, g.reply = NoAnswer, g.denial = NoDenial, ~g.forwarded
  PROVE  Reserved(g)' /\ Sending(g)' /\ Receiving(g)' /\ Telling(g)'
  BY DEF Reserved, Sending, Receiving, Telling, Working, InReservation, AfterReservation, PreForward,
         Answered, Ending

\* The exchange as another step leaves it.
LEMMA IdleKnows ==
  ASSUME RoadInv, [Next]_vars, NEW h, h = gateway, gateway' = h, context' = context
  PROVE  Reserved(h)' /\ Sending(h)' /\ Receiving(h)' /\ Telling(h)'
<1> USE DEF Working, InReservation, AfterReservation, PreForward, Answered, Ending
<1>0. Reserved(h) /\ Sending(h) /\ Receiving(h) /\ Telling(h) /\ h \in Gateways
  BY DEF RoadInv, Exchange, TypeOK, Gateways
<1>1. CASE h.phase = "IDLE"
  BY <1>0, <1>1, FreshKnows DEF Receiving, Sending
<1>2. CASE h.phase # "IDLE"
  <2>1. ~ReserveAttempt /\ ~ConsumeAttempt /\ ~Forward
    <3>1. gateway'.phase = gateway.phase /\ gateway \in Gateways
      BY <1>0
    <3>2. ASSUME ReserveAttempt PROVE FALSE
      <4>1. gateway.phase = "OBSERVED" /\ gateway' = [gateway EXCEPT !.phase = "RESERVED"]
        BY <3>2 DEF ReserveAttempt, At, Goto
      <4> QED BY <3>1, <4>1 DEF Gateways
    <3>3. ASSUME Forward PROVE FALSE
      <4>1. /\ gateway.phase = "CURRENT"
            /\ gateway' = [gateway EXCEPT !.phase = "AWAITING", !.forwarded = TRUE]
        BY <3>3 DEF Forward, At
      <4> QED BY <3>1, <4>1 DEF Gateways
    <3>4. ASSUME ConsumeAttempt PROVE FALSE
      BY <3>1, <3>4 DEF ConsumeAttempt, At, Gateways
    <3> QED BY <3>2, <3>3, <3>4
  <2>2. UNCHANGED <<attempt, result, bound>>
    BY <1>2, <2>1, KnownKept
  <2>3. Reserved(h)'
    BY <1>0, <2>2 DEF Reserved
  <2>4. Sending(h)'
    BY <1>0, <1>2, <2>1, KnownKept DEF Sending
  <2>5. Receiving(h)'
    BY <1>0, <1>2, KnownKept DEF Receiving
  <2>6. Telling(h)'
    BY <1>0, <1>2, KnownKept, RecordedKept DEF Telling
  <2> QED BY <2>3, <2>4, <2>5, <2>6
<1> QED BY <1>1, <1>2

\* The steps of the gateway that only move it on.
LEMMA MoveKnows ==
  ASSUME RoadInv, [Next]_vars, NEW h, h = gateway, NEW g, g = gateway',
         \/ Current("MATCHED", "CHECKED") \/ Current("HELD", "CURRENT")
         \/ Current("POLICED", "RECHECKED") \/ MatchAgain \/ ObserveHostAgain
         \/ ReturnPolicy \/ ConfirmHost \/ CheckStore
  PROVE  Reserved(g)' /\ Sending(g)' /\ Receiving(g)' /\ Telling(g)'
<1> USE DEF Working, InReservation, AfterReservation, PreForward, Answered, Ending
<1>0. Reserved(h) /\ Sending(h) /\ Receiving(h) /\ Telling(h) /\ h \in Gateways
  BY DEF RoadInv, Exchange, TypeOK, Gateways
<1>1. /\ UNCHANGED <<store, context, runtime, log>> /\ h.phase # "IDLE"
      /\ \/ h.phase = "MATCHED" /\ g.phase = "CHECKED"
         \/ h.phase = "HELD" /\ g.phase = "CURRENT" /\ h.selected \in {NoContext, h.policy}
         \/ h.phase = "POLICED" /\ g.phase = "RECHECKED"
         \/ h.phase = "RESERVED" /\ g.phase = "REMATCHED"
         \/ h.phase = "REMATCHED" /\ g.phase = "HELD"
         \/ h.phase = "RETURNED" /\ g.phase = "POLICED"
         \/ h.phase = "RECHECKED" /\ g.phase = "CONFIRMED"
         \/ h.phase = "CONFIRMED" /\ g.phase = "CONSUMING"
  BY <1>0 DEF Current, MatchAgain, ObserveHostAgain, ReturnPolicy, ConfirmHost, CheckStore, At, Goto, Gateways
<1>2. /\ g.r = h.r /\ g.selected = h.selected /\ g.policy = h.policy /\ g.forwarded = h.forwarded
      /\ g.answer = h.answer /\ g.reply = h.reply /\ g.denial = h.denial
  BY <1>0 DEF Current, MatchAgain, ObserveHostAgain, ReturnPolicy, ConfirmHost, CheckStore, Goto, Gateways
<1>3. UNCHANGED <<attempt, result, bound, inferred, serving, returned, backlog>>
  BY <1>1 DEF store, runtime
<1>4. Untouched(h.r) => Untouched(h.r)'
  BY <1>3 DEF Untouched, InBacklog
<1>5. Reserved(g)'
  BY <1>0, <1>1, <1>2, <1>3 DEF Reserved
<1>6. Sending(g)'
  BY <1>0, <1>1, <1>2, <1>4 DEF Sending, Reserved
<1>7. Receiving(g)'
  BY <1>0, <1>1, <1>2, <1>3 DEF Receiving
<1>8. Telling(g)'
  BY <1>1 DEF Telling
<1> QED BY <1>5, <1>6, <1>7, <1>8

\* An exchange that failed, before or after its reservation.
LEMMA PreserveKnows ==
  ASSUME RoadInv, [Next]_vars, NEW h, h = gateway, NEW g, g = gateway', Preserve(h.r),
         h.phase \in BeforeReservation \cup Working, UNCHANGED attempt
  PROVE  Reserved(g)' /\ Sending(g)' /\ Receiving(g)' /\ Telling(g)'
<1> USE DEF Working, InReservation, AfterReservation, BeforeReservation, PreForward, Answered, Ending,
            Preserved
<1>0. Reserved(h) /\ Sending(h) /\ Receiving(h) /\ Telling(h) /\ gateway \in Gateways
  BY DEF RoadInv, Exchange, TypeOK, Gateways
<1>1. h.r \in Requests /\ h.phase # "IDLE"
  BY DEF RoadInv, Process
<1>2. /\ g.phase = "DECIDED" /\ g.r = h.r /\ g.reply.status # "ANSWERED"
      /\ \E kind \in DenialKinds : g.denial = Denial(kind)
  BY <1>0, <1>1, PreserveType
<1>3. PICK kind \in DenialKinds : g.denial = Denial(kind)
  BY <1>2
<1>4. DenialHolds(h.r, g.denial)'
  <2>1. CASE h.phase \in BeforeReservation \cup InReservation
    <3>1. kind \in {"NONE", "PREFLIGHT"}
      BY <2>1 DEF DenialKinds
    <3>2. g.denial.kind = kind
      BY <1>3, <2>1 DEF Denial, NoDenial
    <3> QED BY <3>1, <3>2 DEF DenialHolds
  <2>2. CASE h.phase \in AfterReservation
    <3>1. g.denial = [kind |-> kind, forwarded |-> h.forwarded, observed |-> h.answer.digest # NoResult]
      BY <1>3, <2>2 DEF Denial
    <3>2. attempt'[h.r] = "RESERVED"
      BY <1>0, <2>2 DEF Reserved
    <3>3. ~h.forwarded => Untouched(h.r)'
      <4>1. ~Forward
        BY <1>0, <1>2 DEF Forward, At, Gateways
      <4>2. ~h.forwarded => Untouched(h.r)
        BY <1>0, <2>2 DEF Sending
      <4> QED BY <1>1, <4>1, <4>2, KnownKept
    <3>4. h.answer.digest # NoResult => returned'[h.r].digest # NoResult
      <4>1. h.answer.digest # NoResult => h.phase \in Answered
        BY <1>0, <2>2 DEF Receiving, NoAnswer
      <4>2. h.phase \in Answered => h.answer = returned[h.r]
        BY <1>0 DEF Receiving
      <4>3. returned[h.r].digest # NoResult => returned'[h.r].digest # NoResult
        BY <1>1, KnownKept
      <4> QED BY <4>1, <4>2, <4>3
    <3>5. g.denial.forwarded = h.forwarded
      BY <3>1
    <3>6. ASSUME h.answer.digest = NoResult PROVE ~g.denial.observed
      <4>1. g.denial = [kind |-> kind, forwarded |-> h.forwarded, observed |-> FALSE]
        BY <3>1, <3>6
      <4> QED BY <4>1
    <3> QED BY <3>2, <3>3, <3>4, <3>5, <3>6 DEF DenialHolds
  <2> QED BY <2>1, <2>2
<1> QED BY <1>2, <1>4 DEF Reserved, Sending, Receiving, Telling

\* The steps that reserve, send and receive.
LEMMA ServeKnows ==
  ASSUME RoadInv, [Next]_vars, NEW h, h = gateway, NEW g, g = gateway', g # h,
         ReserveAttempt \/ Forward \/ ForwardUnreached \/ RuntimeAnswer
  PROVE  Reserved(g)' /\ Sending(g)' /\ Receiving(g)' /\ Telling(g)'
<1> USE DEF Working, InReservation, AfterReservation, PreForward, Answered, Ending
<1>0. Reserved(h) /\ Sending(h) /\ Receiving(h) /\ Telling(h) /\ h \in Gateways
  BY DEF RoadInv, Exchange, TypeOK, Gateways
<1>1. CASE ReserveAttempt
  <2>1. /\ h.phase = "OBSERVED" /\ g = [h EXCEPT !.phase = "RESERVED"] /\ h.r \in Requests
        /\ attempt[h.r] = "NONE" /\ h.selected = context /\ context \in Contexts
        /\ attempt' = [attempt EXCEPT ![h.r] = "RESERVED"] /\ bound' = [bound EXCEPT ![h.r] = context]
        /\ UNCHANGED <<context, runtime>>
    BY <1>1 DEF ReserveAttempt, Reserve, At, Goto, RoadInv, Process, TypeOK, StoreCurrent
  <2>2. g.phase = "RESERVED" /\ g.r = h.r /\ g.selected = h.selected /\ g.forwarded = h.forwarded
        /\ g.answer = h.answer /\ g.reply = h.reply /\ g.denial = h.denial
    BY <1>0, <2>1 DEF Gateways
  <2>3. attempt'[h.r] = "RESERVED" /\ bound'[h.r] = context /\ NoContext \notin Contexts
    BY <2>1, DispatchAssumption DEF RoadInv, TypeOK
  <2>4. Untouched(h.r)'
    BY <2>1 DEF RoadInv, SentOnce, Untouched, InBacklog, runtime
  <2>5. ~h.forwarded
    BY <1>0, <2>1 DEF Sending
  <2> QED BY <1>0, <2>1, <2>2, <2>3, <2>4, <2>5 DEF Reserved, Sending, Receiving, Telling
<1>2. CASE Forward
  <2>1. /\ h.phase = "CURRENT" /\ g = [h EXCEPT !.phase = "AWAITING", !.forwarded = TRUE]
        /\ UNCHANGED <<attempt, bound, context>>
    BY <1>2 DEF Forward, At, store
  <2>2. g.phase = "AWAITING" /\ g.r = h.r /\ g.selected = h.selected /\ g.forwarded
        /\ g.policy = h.policy /\ g.answer = h.answer /\ g.reply = h.reply /\ g.denial = h.denial
    BY <1>0, <2>1 DEF Gateways
  <2> QED BY <1>0, <2>1, <2>2 DEF Reserved, Sending, Receiving, Telling
<1>3. CASE ForwardUnreached
  <2> DEFINE reply == [h.reply EXCEPT !.status = "UNAVAILABLE"]
             denial == [kind |-> "PRESERVED", forwarded |-> TRUE, observed |-> FALSE]
  <2>1. /\ h.phase = "CURRENT" /\ UNCHANGED attempt
        /\ g = [h EXCEPT !.phase = "DECIDED", !.forwarded = TRUE, !.reply = reply, !.denial = denial]
    BY <1>0, <1>3 DEF ForwardUnreached, At, Gateways
  <2>2. reply.status # "ANSWERED" /\ denial.forwarded /\ ~denial.observed
    BY <1>0 DEF Gateways, Replies
  <2> HIDE DEF reply, denial
  <2>3. g.phase = "DECIDED" /\ g.r = h.r /\ g.reply = reply /\ g.denial = denial
    BY <1>0, <2>1 DEF Gateways
  <2>4. attempt'[h.r] = "RESERVED"
    BY <1>0, <2>1 DEF Reserved
  <2> QED BY <2>2, <2>3, <2>4 DEF Reserved, Sending, Receiving, Telling, DenialHolds
<1>4. CASE RuntimeAnswer
  <2>1. /\ h.phase = "AWAITING" /\ h.r = serving /\ serving # Nobody /\ serving' = Nobody
        /\ UNCHANGED <<attempt, bound, context, inferred>>
    BY <1>4 DEF RuntimeAnswer, Waiting, At, store
  <2>2. PICK answer \in RuntimeAnswers :
          /\ returned' = [returned EXCEPT ![serving] = answer]
          /\ g = [h EXCEPT !.phase = "RETURNED", !.answer = answer]
    BY <1>4 DEF RuntimeAnswer
  <2>3. /\ g.phase = "RETURNED" /\ g.r = h.r /\ g.selected = h.selected /\ g.forwarded = h.forwarded
        /\ g.policy = h.policy /\ g.answer = answer /\ g.reply = h.reply /\ g.denial = h.denial
    BY <1>0, <2>2 DEF Gateways
  <2>4. h.r \in Requests /\ returned'[h.r] = answer /\ inferred[h.r] = 1 /\ answer.digest \in Results
        /\ serving' # h.r
    BY <2>1, <2>2, DispatchAssumption DEF RoadInv, TypeOK, Process, SentOnce, RuntimeAnswers
  <2> QED BY <1>0, <2>1, <2>3, <2>4 DEF Reserved, Sending, Receiving, Telling
<1> QED BY <1>1, <1>2, <1>3, <1>4

\* The consumption, and the answer it lets the gateway give.
LEMMA ConsumeKnows ==
  ASSUME RoadInv, [Next]_vars, NEW h, h = gateway, NEW g, g = gateway', ConsumeAttempt
  PROVE  Reserved(g)' /\ Sending(g)' /\ Receiving(g)' /\ Telling(g)'
<1> USE DEF Working, InReservation, AfterReservation, PreForward, Answered, Ending
<1> DEFINE reply == IF h.answer.status = "ANSWERED" THEN h.answer
                    ELSE [status |-> h.answer.status, digest |-> NoResult]
<1>0. Reserved(h) /\ Sending(h) /\ Receiving(h) /\ Telling(h) /\ h \in Gateways
  BY DEF RoadInv, Exchange, TypeOK, Gateways
<1>1. /\ h.phase = "CONSUMING" /\ h.r \in Requests /\ UNCHANGED <<context, runtime, log>>
      /\ attempt' = [attempt EXCEPT ![h.r] = "CONSUMED"]
      /\ result' = [result EXCEPT ![h.r] = h.answer.digest]
      /\ g = [h EXCEPT !.phase = "DECIDED", !.reply = reply]
  BY DEF ConsumeAttempt, Consume, At, RoadInv, Process
<1>2. h.answer \in Replies /\ reply.status = h.answer.status
  BY <1>0 DEF Gateways
<1>3. reply.status = "ANSWERED" => reply = [status |-> "ANSWERED", digest |-> h.answer.digest]
  BY <1>2 DEF Replies
<1> HIDE DEF reply
<1>4. g.phase = "DECIDED" /\ g.r = h.r /\ g.reply = reply /\ g.denial = h.denial
  BY <1>0, <1>1 DEF Gateways
<1>5. h.denial = NoDenial /\ h.answer = returned'[h.r]
  BY <1>0, <1>1 DEF Receiving, runtime
<1>6. attempt'[h.r] = "CONSUMED" /\ result'[h.r] = h.answer.digest
  BY <1>1 DEF RoadInv, TypeOK
<1>7. reply.status = "ANSWERED" => Backed(h.r, reply.digest)'
  <2> SUFFICES ASSUME reply.status = "ANSWERED"
               PROVE  /\ attempt'[h.r] = "CONSUMED" /\ result'[h.r] = reply.digest
                      /\ returned'[h.r] = [status |-> "ANSWERED", digest |-> reply.digest]
    BY DEF Backed
  <2>1. h.answer = [status |-> "ANSWERED", digest |-> h.answer.digest]
    BY <1>2 DEF Replies
  <2>2. reply.digest = h.answer.digest
    BY <1>3
  <2> QED BY <1>5, <1>6, <2>1, <2>2
<1>8. DenialHolds(h.r, h.denial)'
  BY <1>5 DEF DenialHolds, NoDenial, Preserved
<1> QED BY <1>4, <1>7, <1>8 DEF Reserved, Sending, Receiving, Telling

\* The audit exchanges: what the client may read is in the log before it may.
LEMMA AuditKnows ==
  ASSUME RoadInv, [Next]_vars, NEW h, h = gateway, NEW g, g = gateway',
         AuditTerminal \/ AuditMapping \/ SkipMapping
  PROVE  Reserved(g)' /\ Sending(g)' /\ Receiving(g)' /\ Telling(g)'
<1> USE DEF Working, InReservation, AfterReservation, PreForward, Answered, Ending
<1>0. Reserved(h) /\ Sending(h) /\ Receiving(h) /\ Telling(h) /\ h \in Gateways
  BY DEF RoadInv, Exchange, TypeOK, Gateways
<1>1. h.phase \in {"DECIDED", "AUDITED"} /\ h.r \in Requests /\ h.phase \in Ending
  BY DEF AuditTerminal, AuditMapping, Audit, SkipMapping, At, RoadInv, Process
<1>2. /\ DenialHolds(h.r, h.denial)'
      /\ h.reply.status = "ANSWERED" => Backed(h.r, h.reply.digest)'
  BY <1>1, KnownKept
<1> DEFINE event == [r |-> h.r, status |-> "ANSWERED", digest |-> h.reply.digest]
<1>3. ASSUME NEW from, NEW mapping, NEW to, Audit(from, mapping, to), g.reply.status = "ANSWERED"
      PROVE  /\ h.reply.status = "ANSWERED" /\ g.reply = h.reply /\ g.phase = to
             /\ Recorded(event, mapping)'
  <2>1. g # [h EXCEPT !.phase = "CORRELATED", !.reply = [status |-> "UNAVAILABLE", digest |-> NoResult]]
    <3> DEFINE unavailable == [status |-> "UNAVAILABLE", digest |-> NoResult]
    <3>1. unavailable.status # "ANSWERED"
      OBVIOUS
    <3> HIDE DEF unavailable
    <3>2. [h EXCEPT !.phase = "CORRELATED", !.reply = unavailable].reply = unavailable
      BY <1>0 DEF Gateways
    <3> QED BY <1>3, <3>1, <3>2 DEF unavailable
  <2>2. log' = Append(log, Event(mapping)) /\ g = [h EXCEPT !.phase = to]
    BY <1>3, <2>1 DEF Audit
  <2>3. g.reply = h.reply /\ h.reply.status = "ANSWERED" /\ g.phase = to
    BY <1>0, <1>3, <2>2 DEF Gateways
  <2>4. log' [Len(log) + 1] = Event(mapping) /\ Len(log) + 1 \in DOMAIN log'
    BY <2>2 DEF RoadInv, TypeOK
  <2>5. /\ Event(mapping).r = h.r /\ Event(mapping).mapping = mapping
        /\ Event(mapping).status = "ANSWERED" /\ Event(mapping).digest = h.reply.digest
    BY <2>3 DEF Event
  <2> HIDE DEF event
  <2>6. event.r = h.r /\ event.digest = h.reply.digest
    BY DEF event
  <2> QED BY <2>3, <2>4, <2>5, <2>6 DEF Recorded
<1>4. ASSUME NEW from, NEW mapping, NEW to, Audit(from, mapping, to), to \in {"AUDITED", "CORRELATED"}
      PROVE  g.phase \in Ending /\ g.r = h.r /\ g.denial = h.denial
  BY <1>0, <1>4 DEF Audit, Gateways
<1>5. CASE AuditTerminal
  <2>1. g.phase \in Ending /\ g.r = h.r /\ g.denial = h.denial
    BY <1>4, <1>5 DEF AuditTerminal
  <2>2. g.reply.status = "ANSWERED" =>
          /\ h.reply.status = "ANSWERED" /\ g.reply = h.reply /\ g.phase = "AUDITED"
          /\ Recorded(event, FALSE)'
    BY <1>3, <1>5 DEF AuditTerminal
  <2> QED BY <1>2, <2>1, <2>2 DEF Reserved, Sending, Receiving, Telling
<1>6. CASE AuditMapping
  <2>1. g.phase \in Ending /\ g.r = h.r /\ g.denial = h.denial /\ h.phase = "AUDITED"
    BY <1>4, <1>6 DEF AuditMapping, Audit, At
  <2>2. g.reply.status = "ANSWERED" =>
          /\ h.reply.status = "ANSWERED" /\ g.reply = h.reply
          /\ Recorded(event, TRUE)'
    BY <1>3, <1>6 DEF AuditMapping
  <2>3. h.reply.status = "ANSWERED" => Recorded(event, FALSE)'
    BY <1>0, <2>1, RecordedKept DEF Telling
  <2> QED BY <1>2, <2>1, <2>2, <2>3 DEF Reserved, Sending, Receiving, Telling
<1>7. CASE SkipMapping
  <2> DEFINE status == IF h.r \in HttpRequests THEN "UNAVAILABLE" ELSE h.reply.status
             reply == [h.reply EXCEPT !.status = status]
  <2>1. /\ h.phase = "AUDITED" /\ ~NeedsMapping
        /\ g = [h EXCEPT !.phase = "CORRELATED", !.reply = reply]
    BY <1>0, <1>7 DEF SkipMapping, At, Gateways
  <2>2. reply.status = "ANSWERED" => h.r \notin HttpRequests /\ h.reply.status = "ANSWERED"
                                     /\ reply.digest = h.reply.digest
    BY <1>0 DEF Gateways, Replies
  <2> HIDE DEF reply
  <2>3. g.phase = "CORRELATED" /\ g.r = h.r /\ g.reply = reply /\ g.denial = h.denial
    BY <1>0, <2>1 DEF Gateways
  <2>4. h.reply.status = "ANSWERED" => Recorded(event, FALSE)'
    BY <1>0, <2>1, RecordedKept DEF Telling
  <2> QED BY <1>2, <2>2, <2>3, <2>4 DEF Reserved, Sending, Receiving, Telling
<1> QED BY <1>5, <1>6, <1>7

\* What the gateway knows, after any step.
LEMMA ExchangeStep == RoadInv /\ [Next]_vars => Exchange'
<1> SUFFICES ASSUME RoadInv, [Next]_vars, NEW h, h = gateway, NEW g, g = gateway'
             PROVE  Reserved(g)' /\ Sending(g)' /\ Receiving(g)' /\ Telling(g)'
  BY DEF Exchange, Reserved, Sending, Receiving, Telling, DenialHolds, Backed, Recorded, Untouched, InBacklog
<1> DEFINE Knows == Reserved(g)' /\ Sending(g)' /\ Receiving(g)' /\ Telling(g)'
<1> HIDE DEF Knows
<1>0. Reserved(h) /\ Sending(h) /\ Receiving(h) /\ Telling(h) /\ h \in Gateways /\ Process
  BY DEF RoadInv, Exchange, TypeOK, Gateways
<1>1. CASE gateway' = gateway /\ context' = context
  BY <1>1, IdleKnows DEF Knows
<1>2. CASE gateway' = Nothing
  BY <1>2, FreshKnows DEF Nothing, Knows
<1>3. ASSUME NEW r \in Requests, Accept(r) PROVE Knows
  <2>1. g = [Nothing EXCEPT !.phase = "MATCHED", !.r = r, !.policy = installed]
    BY <1>3 DEF Accept
  <2>2. g.phase = "MATCHED" /\ g.answer = NoAnswer /\ g.reply = NoAnswer /\ g.denial = NoDenial
        /\ ~g.forwarded
    BY <2>1 DEF Nothing
  <2> QED BY <2>2, FreshKnows DEF Knows
<1>4. CASE Select \/ ObserveHost
  <2>1. /\ h.phase \in {"CHECKED", "SELECTED"} /\ g.phase \in {"SELECTED", "OBSERVED"}
        /\ g.answer = h.answer /\ g.reply = h.reply /\ g.denial = h.denial /\ g.forwarded = h.forwarded
    BY <1>0, <1>4 DEF Select, ObserveHost, At, Gateways
  <2>2. h.answer = NoAnswer /\ h.reply = NoAnswer /\ h.denial = NoDenial /\ ~h.forwarded
    BY <1>0, <2>1 DEF Receiving, Sending, Answered, Ending
  <2> QED BY <2>1, <2>2, FreshKnows DEF Knows
<1>5. CASE \/ Current("MATCHED", "CHECKED") \/ Current("HELD", "CURRENT")
           \/ Current("POLICED", "RECHECKED") \/ MatchAgain \/ ObserveHostAgain
           \/ ReturnPolicy \/ ConfirmHost \/ CheckStore
  BY <1>5, MoveKnows DEF Knows
<1>6. CASE ReserveAttempt \/ Forward \/ ForwardUnreached \/ RuntimeAnswer
  <2>1. context' = context
    BY <1>6 DEF ReserveAttempt, Forward, ForwardUnreached, RuntimeAnswer
  <2> QED BY <1>1, <1>6, <2>1, ServeKnows DEF Knows
<1>7. CASE ConsumeAttempt
  BY <1>7, ConsumeKnows DEF Knows
<1>8. CASE AuditTerminal \/ AuditMapping \/ SkipMapping
  BY <1>8, AuditKnows DEF Knows
<1>9. CASE Fail
  BY <1>9, PreserveKnows DEF Fail, Working, Knows
<1>10. ASSUME NEW r, Unanswered(r), UNCHANGED <<attempt, context>> PROVE Knows
  <2>1. CASE Waiting(r)
    BY <1>10, <2>1, PreserveKnows DEF Unanswered, Waiting, At, Working, AfterReservation, Knows
  <2>2. CASE ~Waiting(r)
    <3>1. gateway' = gateway /\ context' = context
      BY <1>10, <2>2 DEF Unanswered
    <3> QED BY <1>1, <3>1 DEF Knows
  <2> QED BY <2>1, <2>2
<1>11. CASE RuntimeClose \/ RuntimeRefuse
  <2>1. attempt' = attempt /\ context' = context
    BY <1>11 DEF RuntimeClose, RuntimeRefuse
  <2>2. Unanswered(serving) \/ Unanswered(Head(backlog))
    BY <1>11 DEF RuntimeClose, RuntimeRefuse
  <2> QED BY <1>10, <2>1, <2>2 DEF Knows
<1>12. CASE Start
  BY <1>0, <1>2, <1>12 DEF Start, Process
<1>13. CASE Crash \/ Reply
  BY <1>2, <1>13 DEF Crash, Reply
<1>14. CASE RuntimeAccept \/ Change \/ Recover \/ UNCHANGED vars
  BY <1>1, <1>14 DEF RuntimeAccept, Change, Recover, vars
<1> QED
  BY <1>3, <1>4, <1>5, <1>6, <1>7, <1>8, <1>9, <1>11, <1>12, <1>13, <1>14
     DEF Next, GatewayStep, RuntimeStep, Knows

\* The gateway works on a request only from the reservation on that it made.
LEMMA WorkingBegins ==
  ASSUME RoadInv, [Next]_vars, gateway'.phase \in Working
  PROVE  /\ gateway'.r = gateway.r
         /\ gateway.phase \in Working \/ ReserveAttempt
<1> USE DEF Working, InReservation, AfterReservation, At
<1>0. gateway \in Gateways /\ Nothing.phase = "IDLE"
  BY NothingType DEF RoadInv, TypeOK, Gateways
<1>1. CASE UNCHANGED gateway
  BY <1>1
<1>2. CASE gateway' = Nothing
  BY <1>0, <1>2
<1>3. \A r \in Requests : ~Accept(r)
  BY DEF Accept, Nothing
<1>4. CASE Select \/ ObserveHost \/ ForwardUnreached \/ ConsumeAttempt \/ SkipMapping
  BY <1>0, <1>4 DEF Select, ObserveHost, ForwardUnreached, ConsumeAttempt, SkipMapping, Gateways
<1>5. ~AuditTerminal /\ ~AuditMapping
  BY <1>0 DEF AuditTerminal, AuditMapping, Audit, Gateways
<1>6. ASSUME NEW r, Preserve(r) PROVE FALSE
  BY <1>0, <1>6 DEF Preserve, Gateways
<1>7. CASE Fail
  BY <1>6, <1>7 DEF Fail
<1>8. CASE RuntimeClose \/ RuntimeRefuse
  BY <1>1, <1>6, <1>8 DEF RuntimeClose, RuntimeRefuse, Unanswered
<1>9. CASE Current("MATCHED", "CHECKED")
  BY <1>0, <1>9 DEF Current, Goto, Gateways
<1>10. CASE \/ Current("HELD", "CURRENT") \/ Current("POLICED", "RECHECKED") \/ MatchAgain
            \/ ObserveHostAgain \/ ReturnPolicy \/ ConfirmHost \/ CheckStore \/ ReserveAttempt \/ Forward
  <2>1. gateway'.r = gateway.r
    BY <1>0, <1>10 DEF Current, MatchAgain, ObserveHostAgain, ReturnPolicy, ConfirmHost, CheckStore,
       ReserveAttempt, Forward, Goto, Gateways
  <2> QED BY <1>10, <2>1 DEF Current, MatchAgain, ObserveHostAgain, ReturnPolicy, ConfirmHost, CheckStore, Forward
<1>11. CASE RuntimeAnswer
  BY <1>0, <1>1, <1>11 DEF RuntimeAnswer, Waiting, Gateways
<1>12. CASE Start \/ Change \/ Recover \/ RuntimeAccept \/ UNCHANGED vars
  BY <1>1, <1>12 DEF Start, Change, Recover, RuntimeAccept, vars
<1>13. CASE Crash \/ Reply
  BY <1>2, <1>13 DEF Crash, Reply
<1> QED
  BY <1>3, <1>4, <1>5, <1>7, <1>8, <1>9, <1>10, <1>11, <1>12, <1>13 DEF Next, GatewayStep, RuntimeStep

\* No later step makes a recorded denial untrue.
LEMMA DenialsStep == RoadInv /\ [Next]_vars => DenialsKept'
<1> SUFFICES ASSUME RoadInv, [Next]_vars, NEW i \in DOMAIN log', NEW e, e = log'[i]
             PROVE  /\ DenialHolds(e.r, e.denial)'
                    /\ e.denial.kind \in Preserved =>
                         ~(gateway'.phase \in Working /\ gateway'.r = e.r)
  BY DEF DenialsKept, DenialHolds, Untouched, InBacklog
<1> PICK h : h = gateway
  OBVIOUS
<1>1. /\ e.r \in Requests /\ DenialHolds(e.r, e.denial)
      /\ e.denial.kind \in Preserved => ~(h.phase \in Working /\ h.r = e.r)
  <2>1. CASE i \in DOMAIN log
    <3>1. e = log[i]
      BY <2>1, LogKept
    <3>2. e.r \in Requests
      <4>1. log \in Seq(Events)
        BY DEF RoadInv, TypeOK, Events
      <4>2. e \in Events
        BY <2>1, <3>1, <4>1
      <4> QED BY <4>2 DEF Events
    <3> QED BY <2>1, <3>1, <3>2 DEF RoadInv, DenialsKept
  <2>2. CASE i \notin DOMAIN log
    <3>1. /\ h.phase \in Ending
          /\ \E mapping \in BOOLEAN : e = Event(mapping)
      BY <2>2, LogKept
    <3>2. e.r = h.r /\ e.denial = h.denial
      BY <3>1 DEF Event
    <3>3. h.r \in Requests /\ DenialHolds(h.r, h.denial) /\ h.phase \notin Working
      BY <3>1 DEF RoadInv, Process, Exchange, Telling, Ending, Working, InReservation, AfterReservation
    <3> QED BY <3>2, <3>3
  <2> QED BY <2>1, <2>2
<1>2. DenialHolds(e.r, e.denial)'
  BY <1>1, DenialKept
<1>3. ASSUME e.denial.kind \in Preserved, gateway'.phase \in Working, gateway'.r = e.r PROVE FALSE
  <2>1. ReserveAttempt /\ h.r = e.r
    BY <1>1, <1>3, WorkingBegins
  <2>2. attempt[h.r] = "NONE"
    BY <2>1 DEF ReserveAttempt
  <2> QED BY <1>1, <1>3, <2>1, <2>2 DEF DenialHolds
<1> QED BY <1>2, <1>3

\* No later step makes an answer a client has read untrue.
LEMMA AnswersStep == RoadInv /\ [Next]_vars => AnswersBacked'
<1> SUFFICES ASSUME RoadInv, [Next]_vars, NEW reply \in replies', reply.status = "ANSWERED"
             PROVE  /\ Backed(reply.r, reply.digest)'
                    /\ Recorded(reply, FALSE)'
                    /\ reply.r \in HttpRequests => Recorded(reply, TRUE)'
  BY DEF AnswersBacked, Backed
<1>1. /\ reply.r \in Requests /\ Backed(reply.r, reply.digest) /\ Recorded(reply, FALSE)
      /\ reply.r \in HttpRequests => Recorded(reply, TRUE)
  <2>1. CASE reply \in replies
    BY <2>1 DEF RoadInv, TypeOK, AnswersBacked, Backed
  <2>2. CASE reply \notin replies
    <3>1. Reply
      BY <2>2 DEF Next, GatewayStep, RuntimeStep, Start, Accept, Current, Select, ObserveHost, Forward,
         MatchAgain, ObserveHostAgain, ForwardUnreached, ReturnPolicy, ConfirmHost, CheckStore, RuntimeAccept,
         RuntimeAnswer, RuntimeClose, RuntimeRefuse, ReserveAttempt, ConsumeAttempt, Audit,
         AuditTerminal, AuditMapping, Fail, SkipMapping, Crash, Change, Recover, vars
    <3>2. /\ gateway.phase = "CORRELATED"
          /\ reply = [r |-> gateway.r, status |-> gateway.reply.status, digest |-> gateway.reply.digest]
      BY <2>2, <3>1 DEF Reply, At
    <3>3. gateway.reply.status = "ANSWERED" /\ Telling(gateway) /\ gateway.r \in Requests
      BY <3>2 DEF RoadInv, Exchange, Process
    <3> QED BY <3>2, <3>3 DEF Telling, Ending, Recorded
  <2> QED BY <2>1, <2>2
<1> QED BY <1>1, BackedKept, RecordedKept

-----------------------------------------------------------------------------
(***************************************************************************)
(* The theorems.                                                           *)
(***************************************************************************)

\* The inductive invariant holds throughout: where every request is, what the
\* gateway knows of it in every phase, and what was recorded and replied.
THEOREM RoadInductive == Spec => []RoadInv
<1>1. RoadInv /\ [Next]_vars => RoadInv'
  <2>1. RoadInv /\ [Next]_vars => TypeOK'
    BY TypeStep DEF RoadInv
  <2> QED BY <2>1, ProcessStep, SentStep, SettledStep, ExchangeStep, DenialsStep, AnswersStep DEF RoadInv
<1> QED BY InitOK, <1>1, PTL DEF Spec

\* A request reaches the model at most once and never without a durable
\* reservation, whatever crashes, retries and late runtimes do
\* (conversation_runtime.serve_socket, dispatch_installed_conversation).
THEOREM InferredOnce == Spec => []OneInference
<1>1. ASSUME TypeOK, NEW r \in Requests, ~InBacklog(r) PROVE Copies(r) = inferred[r]
  <2>1. {i \in DOMAIN backlog : backlog[i] = r} = {}
    BY <1>1 DEF InBacklog
  <2>2. Cardinality({i \in DOMAIN backlog : backlog[i] = r}) = 0
    BY <2>1, FS_EmptySet
  <2>3. inferred[r] \in Nat
    BY <1>1 DEF TypeOK
  <2> QED BY <2>2, <2>3 DEF Copies
<1>2. ASSUME SentOnce, NEW r \in Requests, InBacklog(r) PROVE Copies(r) = 1
  <2>1. PICK i \in DOMAIN backlog : backlog[i] = r
    BY <1>2 DEF InBacklog
  <2>2. {j \in DOMAIN backlog : backlog[j] = r} = {i}
    BY <1>2, <2>1 DEF SentOnce
  <2>3. Cardinality({j \in DOMAIN backlog : backlog[j] = r}) = 1
    BY <2>2, FS_Singleton
  <2>4. inferred[r] = 0
    BY <1>2 DEF SentOnce
  <2> QED BY <2>3, <2>4 DEF Copies
<1>3. RoadInv => OneInference
  <2> SUFFICES ASSUME RoadInv, NEW r \in Requests
               PROVE  Copies(r) <= IF attempt[r] \in {"RESERVED", "CONSUMED"} THEN 1 ELSE 0
    BY DEF OneInference
  <2>0. TypeOK /\ SentOnce /\ attempt[r] \in {"NONE", "RESERVED", "CONSUMED"} /\ inferred[r] \in {0, 1}
    BY DEF RoadInv, TypeOK, AttemptStates, SentOnce
  <2>1. CASE InBacklog(r)
    <3>1. Copies(r) = 1 /\ attempt[r] # "NONE"
      BY <1>2, <2>0, <2>1 DEF SentOnce, Untouched
    <3> QED BY <2>0, <3>1
  <2>2. CASE ~InBacklog(r)
    <3>1. Copies(r) = inferred[r] /\ (attempt[r] = "NONE" => inferred[r] = 0)
      BY <1>1, <2>0, <2>2 DEF SentOnce, Untouched
    <3> QED BY <2>0, <3>1
  <2> QED BY <2>1, <2>2
<1> QED BY RoadInductive, <1>3, PTL

\* Whoever reads ANSWERED reads the digest bound to the consumed attempt, which is
\* what the runtime returned and what the audit log holds
\* (handle_installed_companion, record_terminal_event).
THEOREM AnswersAlwaysBacked == Spec => []AnswersBacked
<1>1. RoadInv => AnswersBacked
  BY DEF RoadInv
<1> QED BY RoadInductive, <1>1, PTL

\* A denial in the audit log is never made untrue by what happens after it: its
\* reservation stays preserved, and what was not forwarded is never inferred
\* (denial_evidence of handle_installed_companion).
THEOREM DenialsStayTrue == Spec => []DenialTruthful
<1>1. RoadInv => DenialTruthful
  <2> SUFFICES ASSUME RoadInv, NEW i \in DOMAIN log, log[i].denial.kind \in {"PRESERVED", "SCOPE"}
               PROVE  /\ attempt[log[i].r] = "RESERVED"
                      /\ ~log[i].denial.forwarded => Copies(log[i].r) = 0
                      /\ log[i].denial.observed => returned[log[i].r].digest # NoResult
    BY DEF DenialTruthful
  <2>1. DenialHolds(log[i].r, log[i].denial)
    BY DEF RoadInv, DenialsKept
  <2>2. ASSUME NEW r, Untouched(r) PROVE Copies(r) = 0
    <3>1. {j \in DOMAIN backlog : backlog[j] = r} = {}
      BY <2>2 DEF Untouched, InBacklog
    <3>2. Cardinality({j \in DOMAIN backlog : backlog[j] = r}) = 0 /\ inferred[r] = 0
      BY <2>2, <3>1, FS_EmptySet DEF Untouched
    <3> QED BY <3>2 DEF Copies
  <2> QED BY <2>1, <2>2 DEF DenialHolds, Preserved
<1> QED BY RoadInductive, <1>1, PTL

\* The store's last check is the only way into the consumption.
LEMMA ConsumingBegins ==
  ASSUME RoadInv, [Next]_vars, gateway.phase # "CONSUMING", gateway'.phase = "CONSUMING"
  PROVE  CheckStore
<1>0. gateway \in Gateways /\ Nothing.phase = "IDLE"
  BY NothingType DEF RoadInv, TypeOK, Gateways
<1>1. gateway'.phase \in Working /\ ~ReserveAttempt
  BY <1>0 DEF Working, AfterReservation, ReserveAttempt, Goto, Gateways
<1>2. gateway' # gateway /\ gateway' # Nothing /\ gateway.phase \in Working
  BY <1>0, <1>1, WorkingBegins
<1>3. ~Select /\ ~ObserveHost /\ ~MatchAgain /\ ~ObserveHostAgain /\ ~ReturnPolicy /\ ~ConfirmHost
  BY <1>0 DEF Select, ObserveHost, MatchAgain, ObserveHostAgain, ReturnPolicy, ConfirmHost, Goto, Gateways
<1>4. ~Forward /\ ~ForwardUnreached /\ ~ConsumeAttempt /\ ~SkipMapping /\ ~Reply /\ ~Crash
  BY <1>0, <1>2 DEF Forward, ForwardUnreached, ConsumeAttempt, SkipMapping, Reply, Crash, Gateways
<1>5. /\ ~Current("MATCHED", "CHECKED") /\ ~Current("HELD", "CURRENT")
      /\ ~Current("POLICED", "RECHECKED")
  BY <1>0 DEF Current, Goto, Gateways
<1>6. ~AuditTerminal /\ ~AuditMapping
  BY <1>0 DEF AuditTerminal, AuditMapping, Audit, Gateways
<1>7. \A r : ~Preserve(r)
  BY <1>0 DEF Preserve, Gateways
<1>8. ~Fail /\ ~RuntimeClose /\ ~RuntimeRefuse
  BY <1>2, <1>7 DEF Fail, RuntimeClose, RuntimeRefuse, Unanswered
<1>9. ~RuntimeAnswer
  BY <1>0, <1>2 DEF RuntimeAnswer, Gateways
<1>10. ~Start /\ ~Change /\ ~Recover /\ ~RuntimeAccept /\ ~UNCHANGED vars
  BY <1>2 DEF Start, Change, Recover, RuntimeAccept, vars
<1>11. \A r \in Requests : ~Accept(r)
  BY DEF Accept, Nothing
<1> QED
  BY <1>1, <1>3, <1>4, <1>5, <1>6, <1>8, <1>9, <1>10, <1>11 DEF Next, GatewayStep, RuntimeStep

\* An attempt is spent only by the exchange that was matched in the closure its
\* reservation names, and that closure was still installed at the store's last
\* check (persistent_replay_store.cas); nothing is said of the instant between
\* that check and the COMMIT.
THEOREM OnePolicyThroughout == Spec => ConsumedUnderOnePolicy
<1> DEFINE Checked == ~At("CONSUMING") /\ At("CONSUMING")' => installed = bound[gateway.r]
           Spent == \A r \in Requests :
               attempt[r] = "RESERVED" /\ attempt'[r] = "CONSUMED" =>
                   /\ At("CONSUMING") /\ gateway.r = r
                   /\ bound[r] \in Contexts /\ gateway.policy = bound[r]
<1>1. RoadInv /\ [Next]_vars => Checked
  <2> SUFFICES ASSUME RoadInv, [Next]_vars, ~At("CONSUMING"), At("CONSUMING")'
               PROVE  installed = bound[gateway.r]
    OBVIOUS
  <2>1. gateway.phase # "CONSUMING" /\ gateway'.phase = "CONSUMING"
    BY NothingType DEF At, RoadInv, Process
  <2>2. CheckStore
    BY <2>1, ConsumingBegins
  <2> QED BY <2>2 DEF CheckStore, StoreCurrent
<1>2. RoadInv /\ [Next]_vars => Spent
  <2> SUFFICES ASSUME RoadInv, [Next]_vars, NEW r \in Requests,
                      attempt[r] = "RESERVED", attempt'[r] = "CONSUMED"
               PROVE  /\ At("CONSUMING") /\ gateway.r = r
                      /\ bound[r] \in Contexts /\ gateway.policy = bound[r]
    OBVIOUS
  <2>1. ConsumeAttempt /\ gateway.r = r
    BY AttemptKept
  <2>2. At("CONSUMING") /\ gateway.phase = "CONSUMING"
    BY <2>1 DEF ConsumeAttempt, At
  <2>3. /\ bound[r] = context /\ gateway.selected = context /\ context # NoContext
        /\ gateway.selected = gateway.policy
    BY <2>1, <2>2 DEF RoadInv, Exchange, Reserved, Sending, Working, AfterReservation, Answered
  <2>4. context \in Contexts \cup {NoContext}
    BY DEF RoadInv, TypeOK
  <2> QED BY <2>1, <2>2, <2>3, <2>4
<1>3. RoadInv /\ [Next]_vars => Checked /\ Spent
  BY <1>1, <1>2
<1> QED BY RoadInductive, <1>3, PTL DEF Spec, ConsumedUnderOnePolicy

\* The road asks the replay store for nothing but the reservations and
\* consumptions of one-shot attempts that its ledger allows.
THEOREM RoadUsesLedger == Spec => LedgerSpec
<1>1. Init => LedgerInit
  BY DEF Init
<1>2. RoadInv /\ [Next]_vars => [LedgerNext]_ledger
  <2> SUFFICES ASSUME RoadInv, [Next]_vars, ~UNCHANGED ledger PROVE LedgerNext
    OBVIOUS
  <2>1. ReserveAttempt \/ ConsumeAttempt
    BY StoreFrame DEF ledger
  <2>2. gateway.r \in Requests /\ gateway.answer.digest \in Results \cup {NoResult}
    BY <2>1 DEF ReserveAttempt, ConsumeAttempt, At, RoadInv, Process, TypeOK, Replies
  <2> QED BY <2>1, <2>2 DEF ReserveAttempt, ConsumeAttempt, LedgerNext
<1> QED BY RoadInductive, <1>1, <1>2, PTL DEF Spec, LedgerSpec
==============================================================================
