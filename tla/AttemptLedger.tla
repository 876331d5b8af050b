---------------------------- MODULE AttemptLedger ----------------------------
(***************************************************************************)
(* What the durable replay store promises its callers, and nothing of how: *)
(* every request is one attempt.  An attempt may be witnessed (UNUSED), is  *)
(* reserved at most once, is consumed at most once and only after it was    *)
(* reserved, and the result digest bound at consumption never changes.      *)
(* ReplayStore implements this module; InstalledDispatch and                *)
(* PendingDispatch are built on top of it.                                  *)
(***************************************************************************)
CONSTANTS
    Requests,   \* request identifiers, one replay chain each
    Results,    \* digests of the results a destination can return
    NoResult    \* the outcome column while it is NULL

VARIABLES
    attempt,    \* attempt[r]: the state of the head of r's replay chain
    result      \* result[r]: the result digest bound to r's consumption

ledger == <<attempt, result>>

AttemptStates == {"NONE", "UNUSED", "RESERVED", "CONSUMED"}

LedgerInit ==
    /\ attempt = [r \in Requests |-> "NONE"]
    /\ result = [r \in Requests |-> NoResult]

\* A first receipt is witnessed without reserving the attempt.
Witness(r) ==
    /\ attempt[r] = "NONE"
    /\ attempt' = [attempt EXCEPT ![r] = "UNUSED"]
    /\ UNCHANGED result

\* A new request is reserved in one step, a witnessed one by a compare-and-set.
Reserve(r) ==
    /\ attempt[r] \in {"NONE", "UNUSED"}
    /\ attempt' = [attempt EXCEPT ![r] = "RESERVED"]
    /\ UNCHANGED result

\* The one consumption; a chain without a dispatch binding binds no result.
Consume(r, value) ==
    /\ attempt[r] = "RESERVED"
    /\ attempt' = [attempt EXCEPT ![r] = "CONSUMED"]
    /\ result' = [result EXCEPT ![r] = value]

LedgerNext ==
    \E r \in Requests :
        \/ Witness(r)
        \/ Reserve(r)
        \/ \E value \in Results \cup {NoResult} : Consume(r, value)

LedgerSpec == LedgerInit /\ [][LedgerNext]_ledger
==============================================================================
