---------------------------- MODULE BuildRecheck ----------------------------
(***************************************************************************)
(* BuildRecheckJob against the clock: the looks it takes at one build are  *)
(* scheduled from the start of the build, and its judgement of the import  *)
(* is made from the last sign of life the database shows.  What a look     *)
(* does to the row while others write it is in BuildLifecycle; here is     *)
(* whether the looks come at the right time.                               *)
(*                                                                         *)
(* Time is counted in ticks.  Jobs and looks happen on the tick they are   *)
(* due on.  Names that BuildLifecycle has too carry the module's, since    *)
(* the proofs about the two stand together.                                *)
(***************************************************************************)
EXTENDS Naturals, Sequences

CONSTANTS
    Schedule,       \* RECHECK_SCHEDULE, in ticks since Build#start!
    StallAfter,     \* STALL_AFTER, in ticks
    MaxTime,        \* bound on the clock
    RecheckEnv      \* "death" of an import, "slow_download" of an artifact

ASSUME ScheduleAssumption ==
    /\ Schedule \in Seq(Nat) /\ Schedule # <<>>
    /\ \A j, k \in 1..Len(Schedule) : j <= k => Schedule[j] <= Schedule[k]
ASSUME StallAssumption == StallAfter \in Nat \ {0}
ASSUME MaxTimeAssumption == MaxTime \in Nat
ASSUME RecheckEnvAssumption == RecheckEnv \subseteq {"death", "slow_download"}

VARIABLES
    now,        \* ticks since Build#start!
    attempt,    \* the look that comes next; past the last one when over
    phase,      \* where the build and its import are
    progress    \* last_progress_at: the row's updated_at or its newest file's

recheck == <<now, attempt, phase, progress>>

Importing == {"downloading", "storing"}     \* FullBuildArtifactJob is alive
Received == Importing \cup {"dead"}         \* the row: received_from_server
MaxAttempts == Len(Schedule)

RecheckTypeOK ==
    /\ now \in 0..MaxTime
    /\ attempt \in 1..(MaxAttempts + 1)
    /\ phase \in Received \cup {"sent", "success", "failed"}
    /\ progress \in 0..now

RecheckInit ==
    /\ now = 0
    /\ attempt = 1
    /\ phase = "sent"
    /\ progress = 0

LookIsDue == attempt <= MaxAttempts /\ Schedule[attempt] <= now

\* The webhook, or a status check, brings the server's answer: mark! touches
\* the row, and the import begins with its download.
Receive ==
    /\ phase = "sent"
    /\ phase' = "downloading"
    /\ progress' = now
    /\ UNCHANGED <<now, attempt>>

\* One entry of the zip becomes a BuildFile.
StoreFile ==
    /\ phase \in Importing
    /\ phase' = "storing"
    /\ progress' = now
    /\ UNCHANGED <<now, attempt>>

Finish ==
    /\ phase \in Importing
    /\ phase' = "success"
    /\ progress' = now
    /\ UNCHANGED <<now, attempt>>

\* The server reports a failure, or the import meets an error and says so.
Fail ==
    /\ phase \in Importing \cup {"sent"}
    /\ phase' = "failed"
    /\ progress' = now
    /\ UNCHANGED <<now, attempt>>

\* The worker is killed: no rescue runs, nothing is written.
Die ==
    /\ "death" \in RecheckEnv
    /\ phase \in Importing
    /\ phase' = "dead"
    /\ UNCHANGED <<now, attempt, progress>>

\* Mutants of Stalled: the last attempt only reloads; the clock is measured,
\* not the progress.
Stalled_not_on_last_look == attempt < MaxAttempts /\ progress + StallAfter < now
Stalled_by_the_clock == StallAfter < now

\* BuildRecheckJob#fail_stalled_import.
Stalled == progress + StallAfter < now

NextAttempt ==
    IF phase \in {"success", "failed"} THEN MaxAttempts + 1 ELSE attempt + 1

(***************************************************************************)
(* BuildRecheckJob#perform: look, and look again later unless the build is *)
(* no longer in flight or this was the last attempt.                       *)
(***************************************************************************)
Look ==
    /\ LookIsDue
    /\ \/ /\ phase \in Received
          /\ Stalled
          /\ phase' = "failed"
          /\ progress' = now
          /\ attempt' = MaxAttempts + 1
       \/ /\ ~(phase \in Received /\ Stalled)
          /\ attempt' = NextAttempt
          /\ UNCHANGED <<phase, progress>>
    /\ UNCHANGED now

\* A living import writes a file at least every StallAfter ticks once it has
\* begun to; the download before it writes none.
Lively ==
    \/ phase \notin Importing
    \/ now < progress + StallAfter
    \/ phase = "downloading" /\ "slow_download" \in RecheckEnv

Tick ==
    /\ ~LookIsDue
    /\ Lively
    /\ now < MaxTime
    /\ now' = now + 1
    /\ UNCHANGED <<attempt, phase, progress>>

RecheckNext == Receive \/ StoreFile \/ Finish \/ Fail \/ Die \/ Look \/ Tick

RecheckSpec == RecheckInit /\ [][RecheckNext]_recheck

-----------------------------------------------------------------------------
LooksAreOver == attempt > MaxAttempts

\* What the schedule does guarantee: an import whose last sign of life came
\* more than StallAfter before the last look is not left Building when it dies
\* (the last two entries of RECHECK_SCHEDULE are there for it).
EarlyDeathIsNoticed ==
    LooksAreOver /\ phase = "dead" => progress + StallAfter >= Schedule[MaxAttempts]

\* "a slow but living import of a large site is never cut off part way"
\* (STALL_AFTER): a look fails an import that is alive only in its download,
\* which shows no sign of life, and only one that began more than StallAfter
\* before the last look.
LivingImportIsSpared ==
    [][Look /\ phase' = "failed" =>
         \/ phase \in {"dead", "failed"}
         \/ phase = "downloading" /\ progress + StallAfter < Schedule[MaxAttempts]]_recheck

\* "this job's own checks are actually still running when a stall crosses the
\* threshold, rather than the window having already closed" (STALL_AFTER): an
\* import that died is failed before the looks are over.
StallIsNoticed == LooksAreOver => phase # "dead"
=============================================================================
