--------------------------- MODULE InstalledDispatch ---------------------------
(***************************************************************************)
(* The installed HAOS road of the Kernel: the single-threaded gateway        *)
(* (serein_stage1/kernel.py, dispatch_installed_conversation and             *)
(* reserve_installed_conversation of kernel_operations.py), the private      *)
(* conversation runtime (conversation_runtime.py) and the audit exchange, on *)
(* top of the replay store, which is used through the promise ReplayStore    *)
(* is shown to keep: AttemptLedger.                                          *)
(*                                                                         *)
(* A request is its internal request_id.  What the gateway checks of the     *)
(* world around it is kept: the installed closure, the Operations heartbeat  *)
(* and the Outpost host facts; each may change between any two steps.        *)
(***************************************************************************)
EXTENDS AttemptLedger, Integers, Sequences, FiniteSets, SequencesExt

CONSTANTS
    HttpRequests,   \* requests that arrive over the private HTTP road
    Contexts,       \* installed closures: generation, policy, plan, boot, identity
    NoContext,
    Facts,          \* digests of the Outpost host facts
    NoFacts,
    Nobody,         \* no request
    MaxExchanges,   \* bound: connections the gateway accepts
    MaxChanges      \* bound: changes of the installed closure and the host facts

ASSUME DispatchAssumption ==
    /\ HttpRequests \subseteq Requests /\ Nobody \notin Requests
    /\ NoContext \notin Contexts /\ NoFacts \notin Facts /\ NoResult \notin Results
    /\ MaxExchanges \in Nat /\ MaxChanges \in Nat

VARIABLES
    bound,      \* bound[r]: the installed closure r's reservation names
    owned,      \* conversation attempts the gateway's open store may consume
    gateway,    \* the exchange the gateway is in
    up,         \* the gateway process serves
    context,    \* the closure the gateway captured when it opened the store
    backlog,    \* connections waiting at the runtime's socket
    serving,    \* the request the runtime infers
    inferred,   \* how many inferences r has caused
    returned,   \* returned[r]: what the runtime produced for r
    log,        \* the audit log
    replies,    \* what clients received
    installed, facts, heartbeat,    \* the world the gates observe
    accepted, changes

store == <<attempt, result, bound, owned>>
runtime == <<backlog, serving, inferred, returned>>
world == <<installed, facts, heartbeat, changes>>
vars == <<store, gateway, up, context, runtime, log, replies, world, accepted>>

\* The order of the gateway's work on one companion request.
Phases == <<"IDLE", "MATCHED", "CHECKED", "SELECTED", "OBSERVED", "RESERVED", "REMATCHED",
            "HELD", "CURRENT", "AWAITING", "RETURNED", "POLICED", "RECHECKED",
            "CONFIRMED", "CONSUMING", "DECIDED", "AUDITED", "CORRELATED">>
Statuses == {"ANSWERED", "DENIED", "UNAVAILABLE"}
RuntimeAnswers == [status : Statuses, digest : Results]
NoAnswer == [status |-> "DENIED", digest |-> NoResult]

\* denial_evidence: what the private audit says of a failed exchange.
NoDenial == [kind |-> "NONE", forwarded |-> FALSE, observed |-> FALSE]

Nothing == [phase |-> "IDLE", r |-> Nobody, policy |-> NoContext, selected |-> NoContext,
            host |-> NoFacts, answer |-> NoAnswer, forwarded |-> FALSE, reply |-> NoAnswer, denial |-> NoDenial]

Denials == [kind : {"NONE", "PREFLIGHT", "PRESERVED", "SCOPE"}, forwarded : BOOLEAN, observed : BOOLEAN]
Replies == [status : Statuses, digest : Results \cup {NoResult}]

TypeOK ==
    /\ attempt \in [Requests -> AttemptStates \ {"UNUSED"}]
    /\ result \in [Requests -> Results \cup {NoResult}]
    /\ bound \in [Requests -> Contexts \cup {NoContext}]
    /\ owned \subseteq Requests
    /\ gateway \in [phase : ToSet(Phases), r : Requests \cup {Nobody},
                    policy : Contexts \cup {NoContext}, selected : Contexts \cup {NoContext},
                    host : Facts \cup {NoFacts}, answer : Replies, forwarded : BOOLEAN, reply : Replies, denial : Denials]
    /\ up \in BOOLEAN /\ context \in Contexts \cup {NoContext}
    /\ backlog \in Seq(Requests) /\ serving \in Requests \cup {Nobody}
    /\ inferred \in [Requests -> Nat] /\ returned \in [Requests -> Replies]
    /\ log \in Seq([r : Requests, mapping : BOOLEAN, status : Statuses,
                    digest : Results \cup {NoResult}, denial : Denials])
    /\ replies \subseteq [r : Requests, status : Statuses, digest : Results \cup {NoResult}]
    /\ installed \in Contexts /\ facts \in Facts
    /\ heartbeat \in {"HEALTHY", "DEGRADED", "STOPPED"}
    /\ accepted \in 0..MaxExchanges /\ changes \in 0..MaxChanges

Init ==
    /\ LedgerInit
    /\ bound = [r \in Requests |-> NoContext]
    /\ owned = {} /\ gateway = Nothing /\ up = FALSE /\ context = NoContext
    /\ backlog = <<>> /\ serving = Nobody
    /\ inferred = [r \in Requests |-> 0]
    /\ returned = [r \in Requests |-> NoAnswer]
    /\ log = <<>> /\ replies = {}
    /\ installed \in Contexts /\ facts \in Facts /\ heartbeat = "STOPPED"
    /\ accepted = 0 /\ changes = 0

-----------------------------------------------------------------------------
(***************************************************************************)
(* The gates.                                                              *)
(***************************************************************************)

\* current(): the closure is the one the exchange started in.
PolicyCurrent == installed = gateway.policy

\* verify_installed_conversation_boundary: it passes on a healthy heartbeat,
\* waits while it is degraded and refuses when its services do not run.
BoundaryHealthy == heartbeat = "HEALTHY"

\* read_current_host_evidence, bound to the same boot, evidence and facts.
HostUnchanged == facts = gateway.host

\* Mutation: the store's input guard is never evaluated again after open().
StoreUnguarded == TRUE

\* The store's input guard: the closure it was opened in is still installed.
StoreCurrent == installed = context

At(phase) == up /\ gateway.phase = phase

Goto(phase) == gateway' = [gateway EXCEPT !.phase = phase]

-----------------------------------------------------------------------------
(***************************************************************************)
(* The exchange, one step per call that can fail or wait.                  *)
(***************************************************************************)

\* The gateway opens the store in the current closure, passes the boundary once
\* and reports readiness.
Start ==
    /\ ~up /\ BoundaryHealthy
    /\ up' = TRUE /\ context' = installed
    /\ UNCHANGED <<store, gateway, runtime, log, replies, world, accepted>>

\* One request per connection, matched against the installed policy.
Accept(r) ==
    /\ At("IDLE") /\ accepted < MaxExchanges
    /\ gateway' = [Nothing EXCEPT !.phase = "MATCHED", !.r = r, !.policy = installed]
    /\ accepted' = accepted + 1
    /\ UNCHANGED <<store, up, context, runtime, log, replies, world>>

\* current(): re-match and boundary, before the reservation, before the forward
\* and after it; a reserved attempt must be the one the exchange matched.
Current(from, to) ==
    /\ At(from) /\ PolicyCurrent /\ BoundaryHealthy
    /\ gateway.selected \in {NoContext, gateway.policy}
    /\ Goto(to)
    /\ UNCHANGED <<store, up, context, runtime, log, replies, world, accepted>>

\* reserve_installed_conversation matches the request once more.
Select ==
    /\ At("CHECKED")
    /\ gateway' = [gateway EXCEPT !.phase = "SELECTED", !.selected = installed]
    /\ UNCHANGED <<store, up, context, runtime, log, replies, world, accepted>>

ObserveHost ==
    /\ At("SELECTED")
    /\ gateway' = [gateway EXCEPT !.phase = "OBSERVED", !.host = facts]
    /\ UNCHANGED <<store, up, context, runtime, log, replies, world, accepted>>

\* Mutation: a retry takes a preserved reservation over.
ReserveTakesOver ==
    LET r == gateway.r IN
    /\ At("OBSERVED") /\ StoreCurrent /\ gateway.selected = context
    /\ attempt[r] \in {"NONE", "RESERVED"}
    /\ attempt' = [attempt EXCEPT ![r] = "RESERVED"] /\ UNCHANGED result
    /\ bound' = [bound EXCEPT ![r] = context]
    /\ owned' = owned \cup {r}
    /\ Goto("RESERVED")
    /\ UNCHANGED <<up, context, runtime, log, replies, world, accepted>>

\* reserve_request: refused for a request id that has any receipt.  The store's
\* last check and the COMMIT are one step here: the COMMIT reads nothing that a
\* change in between could alter.
ReserveAttempt ==
    LET r == gateway.r IN
    /\ At("OBSERVED") /\ StoreCurrent /\ gateway.selected = context
    /\ attempt[r] = "NONE" /\ Reserve(r)
    /\ bound' = [bound EXCEPT ![r] = context]
    /\ owned' = owned \cup {r}
    /\ Goto("RESERVED")
    /\ UNCHANGED <<up, context, runtime, log, replies, world, accepted>>

\* The policy is matched again after the reservation.
MatchAgain ==
    /\ At("RESERVED") /\ installed = gateway.selected
    /\ Goto("REMATCHED")
    /\ UNCHANGED <<store, up, context, runtime, log, replies, world, accepted>>

\* The host is observed again, and the attempt is the one the exchange matched.
ObserveHostAgain ==
    /\ At("REMATCHED") /\ HostUnchanged
    /\ Goto("HELD")
    /\ UNCHANGED <<store, up, context, runtime, log, replies, world, accepted>>

\* Mutation: forward_attempted is only set once the exchange returned.
ForwardUnnoted ==
    /\ At("CURRENT")
    /\ backlog' = Append(backlog, gateway.r)
    /\ Goto("AWAITING")
    /\ UNCHANGED <<store, up, context, serving, inferred, returned, log, replies,
                   world, accepted>>

\* exchange_private_service('CONVERSATION', await_conversation=True).
Forward ==
    /\ At("CURRENT")
    /\ backlog' = Append(backlog, gateway.r)
    /\ gateway' = [gateway EXCEPT !.phase = "AWAITING", !.forwarded = TRUE]
    /\ UNCHANGED <<store, up, context, serving, inferred, returned, log, replies,
                   world, accepted>>

\* RETURN_POLICY: a returned tool call outside the installed scope is refused.
ReturnPolicy ==
    /\ At("RETURNED")
    /\ Goto("POLICED")
    /\ UNCHANGED <<store, up, context, runtime, log, replies, world, accepted>>

ConfirmHost ==
    /\ At("RECHECKED") /\ HostUnchanged
    /\ Goto("CONFIRMED")
    /\ UNCHANGED <<store, up, context, runtime, log, replies, world, accepted>>

\* consume_request inside its transaction: the owner's capability, the context
\* of the binding, and the closure for the last time.
CheckStore ==
    LET r == gateway.r IN
    /\ At("CONFIRMED") /\ StoreCurrent /\ bound[r] = context /\ r \in owned
    /\ Goto("CONSUMING")
    /\ UNCHANGED <<store, up, context, runtime, log, replies, world, accepted>>

\* The COMMIT spends the attempt and binds the result digest, whatever became of
\* the closure since; the finally clause ends the attempt, and the terminal event
\* takes the runtime's status.
ConsumeAttempt ==
    LET r == gateway.r IN
    /\ At("CONSUMING") /\ Consume(r, gateway.answer.digest)
    /\ owned' = owned \ {r}
    /\ gateway' = [gateway EXCEPT !.phase = "DECIDED", !.reply =
            IF gateway.answer.status = "ANSWERED" THEN gateway.answer
            ELSE [status |-> gateway.answer.status, digest |-> NoResult]]
    /\ UNCHANGED <<bound, up, context, runtime, log, replies, world, accepted>>

\* A step of the exchange raises: before the reservation the client is denied,
\* after it the reservation is preserved, whatever happened, and never retried.
BeforeReservation == {"MATCHED", "CHECKED", "SELECTED", "OBSERVED"}
InReservation == {"RESERVED", "REMATCHED"}
AfterReservation ==
    {"HELD", "CURRENT", "AWAITING", "RETURNED", "POLICED", "RECHECKED", "CONFIRMED",
     "CONSUMING"}

\* What handle_installed_companion makes of the exception's evidence.
Denial(kind) ==
    IF gateway.phase \in AfterReservation
    THEN [kind |-> kind, forwarded |-> gateway.forwarded,
          observed |-> gateway.answer.digest # NoResult]
    ELSE [NoDenial EXCEPT !.kind = kind]

DenialKinds ==
    CASE gateway.phase \in BeforeReservation -> {"NONE", "PREFLIGHT"}
      [] gateway.phase \in InReservation -> {"NONE"}
      [] gateway.phase = "RETURNED" -> {"PRESERVED", "SCOPE"}
      [] OTHER -> {"PRESERVED"}

Preserve(r) ==
    /\ \E kind \in DenialKinds :
         gateway' = [gateway EXCEPT !.phase = "DECIDED", !.denial = Denial(kind),
             !.reply.status = IF gateway.phase \in BeforeReservation THEN "DENIED"
                              ELSE "UNAVAILABLE"]
    /\ owned' = owned \ {r}

Fail ==
    /\ up /\ gateway.phase \in BeforeReservation \cup InReservation \cup AfterReservation
    /\ Preserve(gateway.r)
    /\ UNCHANGED <<attempt, result, bound, up, context, runtime, log, replies, world, accepted>>

\* The socket refuses the connection: the attempt counts as forwarded.
ForwardUnreached ==
    /\ At("CURRENT")
    /\ gateway' = [gateway EXCEPT !.phase = "DECIDED", !.forwarded = TRUE,
            !.reply.status = "UNAVAILABLE",
            !.denial = [kind |-> "PRESERVED", forwarded |-> TRUE, observed |-> FALSE]]
    /\ owned' = owned \ {gateway.r}
    /\ UNCHANGED <<attempt, result, bound, up, context, runtime, log, replies, world, accepted>>

-----------------------------------------------------------------------------
(***************************************************************************)
(* Audit and reply.                                                        *)
(***************************************************************************)

Event(mapping) == [r |-> gateway.r, mapping |-> mapping, status |-> gateway.reply.status,
                   digest |-> gateway.reply.digest, denial |-> gateway.denial]

\* Mutation: the reply does not wait for the acknowledgement.
AuditUnacknowledged(from, mapping, to) ==
    /\ At(from)
    /\ log' \in {log, Append(log, Event(mapping))}
    /\ gateway' = [gateway EXCEPT !.phase = to]
    /\ UNCHANGED <<store, up, context, runtime, replies, world, accepted>>

\* record_terminal_event: appended and acknowledged; appended but the
\* acknowledgement is lost; or not appended at all.  Without an
\* acknowledgement the client learns only that the audit is unavailable.
Audit(from, mapping, to) ==
    /\ At(from)
    /\ log' \in {log, Append(log, Event(mapping))}
    /\ \/ log' # log /\ gateway' = [gateway EXCEPT !.phase = to]
       \/ gateway' = [gateway EXCEPT !.phase = "CORRELATED",
                          !.reply = [status |-> "UNAVAILABLE", digest |-> NoResult]]
    /\ UNCHANGED <<store, up, context, runtime, replies, world, accepted>>

AuditTerminal == Audit("DECIDED", FALSE, "AUDITED")

\* Over HTTP an answer also needs the correlation event before it is public;
\* anything else becomes 503.
NeedsMapping == gateway.r \in HttpRequests /\ gateway.reply.status = "ANSWERED"

AuditMapping == NeedsMapping /\ Audit("AUDITED", TRUE, "CORRELATED")

SkipMapping ==
    /\ At("AUDITED") /\ ~NeedsMapping
    /\ gateway' = [gateway EXCEPT !.phase = "CORRELATED",
            !.reply.status = IF gateway.r \in HttpRequests THEN "UNAVAILABLE" ELSE @]
    /\ UNCHANGED <<store, up, context, runtime, log, replies, world, accepted>>

\* The reply is sent, or the peer has vanished; either way the connection closes.
Reply ==
    /\ At("CORRELATED")
    /\ replies' \in {replies, replies \cup {[r |-> gateway.r, status |-> gateway.reply.status,
                                            digest |-> gateway.reply.digest]}}
    /\ gateway' = Nothing
    /\ UNCHANGED <<store, up, context, runtime, log, world, accepted>>

\* What the gateway waits for without a timeout: the boundary of a degraded
\* heartbeat, the answer to a request the runtime still has, the Outpost's answer
\* to a host read (HTTPS, timeout=None) and the acknowledgement of the audit
\* service (settimeout(None)).
Waits ==
    \/ gateway.phase \in {"MATCHED", "HELD", "POLICED"} /\ PolicyCurrent
         /\ heartbeat = "DEGRADED"
    \/ gateway.phase = "AWAITING" /\ gateway.r \in {serving} \cup ToSet(backlog)
    \/ gateway.phase \in {"SELECTED", "REMATCHED", "RECHECKED"}
    \/ gateway.phase = "DECIDED"
    \/ gateway.phase = "AUDITED" /\ NeedsMapping

-----------------------------------------------------------------------------
(***************************************************************************)
(* The runtime.                                                            *)
(***************************************************************************)

\* The gateway's connection for r is still open.
Waiting(r) == At("AWAITING") /\ gateway.r = r

RuntimeAccept ==
    /\ serving = Nobody /\ backlog # <<>>
    /\ serving' = Head(backlog) /\ backlog' = Tail(backlog)
    /\ inferred' = [inferred EXCEPT ![Head(backlog)] = @ + 1]
    /\ UNCHANGED <<store, gateway, up, context, returned, log, replies, world, accepted>>

\* One inference, one response; call_expected validates it in the gateway.  A
\* response nobody reads is dropped with its connection.
RuntimeAnswer ==
    /\ serving # Nobody
    /\ \E answer \in RuntimeAnswers :
         /\ returned' = [returned EXCEPT ![serving] = answer]
         /\ IF Waiting(serving)
            THEN gateway' = [gateway EXCEPT !.phase = "RETURNED", !.answer = answer]
            ELSE UNCHANGED gateway
    /\ serving' = Nobody
    /\ UNCHANGED <<store, up, context, backlog, inferred, log, replies, world, accepted>>

\* Mutation: the exchange does not notice the closed connection.
UnansweredUnnoticed(r) == UNCHANGED <<gateway, owned>>

\* The gateway of r, if it still waits, sees its connection closed.
Unanswered(r) ==
    IF Waiting(r) THEN Preserve(r) ELSE UNCHANGED <<gateway, owned>>

\* The runtime closes the exchange without a valid response: it died during the
\* inference, or returned what call_expected refuses.
RuntimeClose ==
    /\ serving # Nobody
    /\ serving' = Nobody
    /\ Unanswered(serving)
    /\ UNCHANGED <<attempt, result, bound, up, context, backlog, inferred, returned,
                   log, replies, world, accepted>>

\* An incomplete frame or one that is no longer valid is closed uninferred.
RuntimeRefuse ==
    /\ serving = Nobody /\ backlog # <<>>
    /\ backlog' = Tail(backlog)
    /\ Unanswered(Head(backlog))
    /\ UNCHANGED <<attempt, result, bound, up, context, serving, inferred, returned,
                   log, replies, world, accepted>>

-----------------------------------------------------------------------------
\* The gateway dies at any instant; systemd starts it again.
Crash ==
    /\ up
    /\ up' = FALSE /\ context' = NoContext /\ owned' = {} /\ gateway' = Nothing
    /\ UNCHANGED <<attempt, result, bound, runtime, log, replies, world, accepted>>

\* A newly installed closure, changed host facts, or an Operations heartbeat
\* that misses its cadence or stops.
Change ==
    /\ changes < MaxChanges /\ changes' = changes + 1
    /\ \/ installed' \in Contexts \ {installed} /\ UNCHANGED <<facts, heartbeat>>
       \/ facts' \in Facts \ {facts} /\ UNCHANGED <<installed, heartbeat>>
       \/ heartbeat' \in {"DEGRADED", "STOPPED"} /\ UNCHANGED <<installed, facts>>
    /\ UNCHANGED <<store, gateway, up, context, runtime, log, replies, accepted>>

\* Two healthy advancing samples.
Recover ==
    /\ heartbeat # "HEALTHY" /\ heartbeat' = "HEALTHY"
    /\ UNCHANGED <<store, gateway, up, context, runtime, log, replies, installed, facts,
                   changes, accepted>>

GatewayStep ==
    \/ Current("MATCHED", "CHECKED") \/ Select \/ ObserveHost \/ ReserveAttempt
    \/ MatchAgain \/ ObserveHostAgain \/ Current("HELD", "CURRENT")
    \/ Forward \/ ForwardUnreached \/ ReturnPolicy
    \/ Current("POLICED", "RECHECKED") \/ ConfirmHost \/ CheckStore
    \/ ConsumeAttempt \/ AuditTerminal \/ AuditMapping \/ SkipMapping \/ Reply

RuntimeStep == RuntimeAccept \/ RuntimeAnswer \/ RuntimeClose \/ RuntimeRefuse

Next ==
    \/ GatewayStep \/ Fail \/ RuntimeStep
    \/ \E r \in Requests : Accept(r)
    \/ Start \/ Crash \/ Change \/ Recover

Spec == Init /\ [][Next]_vars

\* What the gateway does by itself: it goes on, or raises where a check denies.
\* A gateway that awaits the runtime is only woken by the connection.
OwnStep == ~Waits /\ (GatewayStep \/ (gateway.phase # "AWAITING" /\ Fail))

\* A gateway that is not waiting keeps running.  Nothing is assumed of what it
\* waits for, nor of the clients, the runtime, Operations or restarts.
FairSpec == Spec /\ WF_vars(OwnStep)

-----------------------------------------------------------------------------
(***************************************************************************)
(* Properties.                                                             *)
(***************************************************************************)

\* A request reaches the model at most once and never without a durable
\* reservation, whatever crashes, retries and late runtimes do: "never retry
\* its inference" (conversation_runtime.serve_socket).
Copies(r) == inferred[r] + Cardinality({i \in DOMAIN backlog : backlog[i] = r})

OneInference ==
    \A r \in Requests :
        Copies(r) <= IF attempt[r] \in {"RESERVED", "CONSUMED"} THEN 1 ELSE 0

\* A client that reads ANSWERED reads what the runtime returned for its request;
\* that digest is bound to the consumed attempt, and the terminal event (over
\* HTTP also the correlation event) is in the audit log.
Recorded(reply, mapping) ==
    \E i \in DOMAIN log :
        /\ log[i].r = reply.r /\ log[i].mapping = mapping
        /\ log[i].status = "ANSWERED" /\ log[i].digest = reply.digest

AnswersBacked ==
    \A reply \in replies :
        reply.status = "ANSWERED" =>
            /\ attempt[reply.r] = "CONSUMED" /\ result[reply.r] = reply.digest
            /\ returned[reply.r] = [status |-> "ANSWERED", digest |-> reply.digest]
            /\ Recorded(reply, FALSE)
            /\ reply.r \in HttpRequests => Recorded(reply, TRUE)

\* What the audit log says of a failed exchange stays true: a preserved
\* reservation is never consumed afterwards, and one recorded as not forwarded
\* never reaches the model ("a preflight failure must never imply reservation or
\* inference occurred", handle_installed_companion).
DenialTruthful ==
    \A i \in DOMAIN log :
        log[i].denial.kind \in {"PRESERVED", "SCOPE"} =>
            /\ attempt[log[i].r] = "RESERVED"
            /\ ~log[i].denial.forwarded => Copies(log[i].r) = 0
            /\ log[i].denial.observed => returned[log[i].r].digest # NoResult

\* One closure from the match to the consumption: an attempt is spent only by the
\* exchange that was matched in the closure its reservation names, and that
\* closure was still the installed one at the store's last check.  One replaced
\* between that check and the COMMIT is not noticed (persistent_replay_store.cas).
ConsumedUnderOnePolicy ==
    [][/\ ~At("CONSUMING") /\ At("CONSUMING")' => installed = bound[gateway.r]
       /\ \A r \in Requests :
            attempt[r] = "RESERVED" /\ attempt'[r] = "CONSUMED" =>
                /\ At("CONSUMING") /\ gateway.r = r
                /\ bound[r] \in Contexts /\ gateway.policy = bound[r]]_vars

\* The single-threaded gateway keeps no connection for ever by itself: every
\* accepted one is released, or the gateway is found again and again in one of
\* the waits that nothing times out.
ExchangeEnds == (gateway.phase # "IDLE" ~> gateway.phase = "IDLE") \/ []<>Waits
==============================================================================
