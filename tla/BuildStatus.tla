---------------------------- MODULE BuildStatus ----------------------------
(***************************************************************************)
(* The vocabulary every build module shares: the words Build#status takes  *)
(* (app/models/build.rb) and the two groups of them Target names           *)
(* (app/models/target.rb).  The state pill of an output is a function of   *)
(* these, so it lives here as well.                                        *)
(***************************************************************************)

\* Target::IN_FLIGHT: the build holds one of its owner's slots.
InFlight ==
    {"pending", "in_progress", "sent_to_server", "received_from_server"}

\* Target::UNRESOLVED: no outcome yet, whether or not a slot is held.
Unresolved == InFlight \cup {"queued"}

\* The enum of Build#status.
Status == Unresolved \cup {"success", "failed", "canceled"}

\* Mutant of LiveCandidate: every success is served.
LiveCandidate_any_success(status, completed_with_errors, errors_accepted) ==
    status = "success"

\* Build.live_candidates: what a target may serve to readers.
LiveCandidate(status, completed_with_errors, errors_accepted) ==
    /\ status = "success"
    /\ completed_with_errors => errors_accepted

\* Build#awaiting_review?: imported, flagged, and nobody has decided yet.
AwaitingReview(status, completed_with_errors, errors_accepted) ==
    /\ status = "success"
    /\ completed_with_errors
    /\ ~errors_accepted

\* What BuildCallbacksController#create lets through: a build still waiting
\* on an answer from the build server.
AwaitsCallback == {"pending", "in_progress", "sent_to_server"}
=============================================================================
