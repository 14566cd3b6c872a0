----------------------------- MODULE MCPolling -----------------------------
(***************************************************************************)
(* The poll fallback on one account: the poller runs for ever, and beside  *)
(* it a Pub/Sub delivery, a renewal or a request, one of them at a time.   *)
(***************************************************************************)
EXTENDS AccountSync, FiniteSets

CONSTANTS poller, hook, renewer, h1

\* The poller's loop never stops, and what it retries at every tick, the SELECT of
\* the settings and the list at Google, does not fail forever.
MCSpec ==
  /\ Spec
  /\ WF_vars(SyncStep(poller))
  /\ SF_vars(SyncSettings(poller))
  /\ SF_vars(SyncListed(poller))

\* Bound: one goroutine beside the poller at a time.
OneBeside == Cardinality({w \in Workers \ {poller} : pc[w] # "idle"}) <= 1
=============================================================================
