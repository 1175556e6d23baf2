----------------------------- MODULE TigerBeetle ----------------------------
(***************************************************************************)
(* The part of TigerBeetle the service relies on, and how ledger_repo.rs   *)
(* reads its answers.  A two-phase transfer is pending until it is posted  *)
(* or voided by a request, or expires by TigerBeetle's own clock; each of  *)
(* the three ends it for good.                                             *)
(***************************************************************************)

TransferStates == {"absent", "pending", "posted", "voided", "expired"}

\* The two requests that end a pending transfer, and what they make of it.
Verdicts == {"posted", "voided"}

\* Mutant: every error of a resolution is tolerated.
AnswerTolerant(state) == IF state = "pending" THEN "ok" ELSE "already_resolved"

\* classify_pending_resolution_error: what post_pending_transfer or
\* void_pending_transfer returns for a transfer in a state.  Which of the two
\* verdicts an already resolved transfer got is not told apart, and an
\* expired one is an error like any other.
Answer(state) ==
    CASE state = "pending" -> "ok"
      [] state \in Verdicts -> "already_resolved"
      [] OTHER -> "error"

\* The state the request leaves behind.
Resolved(state, verdict) == IF state = "pending" THEN verdict ELSE state
=============================================================================
