--------------------------- MODULE BuildLifecycle ---------------------------
(***************************************************************************)
(* One row of `builds` and everything that may write it: FullBuildJob,     *)
(* the webhook, BuildStatusChecker (author, recheck and watchdog alike),   *)
(* BuildCanceller, FullBuildArtifactJob, FullBuildLogJob, the stall check  *)
(* of BuildRecheckJob, the author's "accept", and the promotion of a       *)
(* queued build.  No statement of the code runs in a transaction, so an    *)
(* actor that reads the row and writes it later is two actions here, and   *)
(* the other actors run in between.                                        *)
(*                                                                         *)
(* Build#mark! is one UPDATE of this row; the pointers of the target and   *)
(* the hand-over of the slot that follow it are in TargetHistory and       *)
(* BuildQueue.  The log text is left out, except that FullBuildLogJob      *)
(* writes the status back together with it.                                *)
(***************************************************************************)
EXTENDS Naturals, BuildStatus

CONSTANTS
    Jobs,       \* FullBuildJob runs of this build, and the server jobs they post
    Hooks,      \* deliveries of the webhook (bound: each is used once)
    Checks,     \* processes that may run BuildStatusChecker#check!
    Imports,    \* FullBuildArtifactJob runs
    NFiles,     \* file entries of the artifact zip
    NoJob,      \* no status URL on record
    NoImport,   \* a file nobody has stored
    Env         \* what the environment may do beyond the ordinary

ASSUME NFilesAssumption == NFiles \in Nat
ASSUME NoneAssumption == NoJob \notin Jobs /\ NoImport \notin Imports
ASSUME EnvAssumption == Env \subseteq
    {"crash", "no_status_url", "lost_cancel_answer", "truncated_log"}

VARIABLES
    status, completed_with_errors, errors_accepted, remote_status_url,
    stored,     \* which import created the BuildFile of each zip entry
    zip,        \* which import attached the zip
    job,        \* where each FullBuildJob run is
    remote,     \* what the build server holds for each of them
    hook,       \* where each webhook request is, and what it reports on
    check,      \* where each status check is, and the answer it got
    cancel,     \* where BuildCanceller#cancel! is
    importPc, importAt, importOf,   \* where each import is, entries done, whose artifact
    logJob,     \* where FullBuildLogJob is, and the status it reloaded
    stall,      \* where BuildRecheckJob#fail_stalled_import is
    accept      \* where BuildsController#accept is

row == <<status, completed_with_errors, errors_accepted, remote_status_url>>
output == <<stored, zip>>
imports == <<importPc, importAt, importOf>>
actors == <<check, cancel, logJob, stall, accept>>
vars == <<row, output, job, remote, hook, imports, actors>>

Entries == 1..NFiles
Artifact == {"success", "partial"}      \* server outcomes with an artifact_url
Finished == Artifact \cup {"failed", "canceled"}
Remote == Finished \cup {"absent", "running"}
JobPc == {"none", "picked", "enqueued", "submitting", "accepted",
          "accepted_no_url", "refused", "done"}

TypeOK ==
    /\ status \in Status
    /\ completed_with_errors \in BOOLEAN
    /\ errors_accepted \in BOOLEAN
    /\ remote_status_url \in Jobs \cup {NoJob}
    /\ stored \in [Entries -> Imports \cup {NoImport}]
    /\ zip \in Imports \cup {NoImport}
    /\ job \in [Jobs -> JobPc]
    /\ remote \in [Jobs -> Remote]
    /\ hook \in [Hooks -> [pc: {"idle", "claimed", "done"}, of: Jobs \cup {NoJob}]]
    /\ check \in [Checks -> [pc: {"idle", "asked", "claimed"},
                             of: Jobs \cup {NoJob}, seen: Remote]]
    /\ cancel \in {"idle", "asked"}
    /\ importPc \in [Imports -> {"idle", "queued", "writing", "zipped", "pruning"}]
    /\ importAt \in [Imports -> 0..NFiles]
    /\ importOf \in [Imports -> Jobs \cup {NoJob}]
    /\ logJob \in [pc: {"idle", "queued", "reloaded"}, seen: Status]
    /\ stall \in {"idle", "claimed"}
    /\ accept \in {"idle", "claimed"}

\* BuildsController#queue_or_start_build has just saved the row: pending with
\* its job enqueued, or queued with none.
Init ==
    /\ \/ status = "queued" /\ job = [j \in Jobs |-> "none"]
       \/ /\ status = "pending"
          /\ \E first \in Jobs :
                job = [j \in Jobs |-> IF j = first THEN "enqueued" ELSE "none"]
    /\ completed_with_errors = FALSE
    /\ errors_accepted = FALSE
    /\ remote_status_url = NoJob
    /\ stored = [f \in Entries |-> NoImport]
    /\ zip = NoImport
    /\ remote = [j \in Jobs |-> "absent"]
    /\ hook = [h \in Hooks |-> [pc |-> "idle", of |-> NoJob]]
    /\ check = [c \in Checks |-> [pc |-> "idle", of |-> NoJob, seen |-> "absent"]]
    /\ cancel = "idle"
    /\ importPc = [i \in Imports |-> "idle"]
    /\ importAt = [i \in Imports |-> 0]
    /\ importOf = [i \in Imports |-> NoJob]
    /\ logJob = [pc |-> "idle", seen |-> "queued"]
    /\ stall = "idle"
    /\ accept = "idle"

(***************************************************************************)
(* Build#mark!: the one funnel for a status.  An unconditional UPDATE: it  *)
(* looks at nothing it overwrites.                                         *)
(***************************************************************************)
Mark(s) ==
    /\ status' = s
    /\ UNCHANGED <<completed_with_errors, errors_accepted, remote_status_url>>

MarkSubmitted(url) ==
    /\ status' = "sent_to_server"
    /\ remote_status_url' = url
    /\ UNCHANGED <<completed_with_errors, errors_accepted>>

MarkReceived(flag) ==
    /\ status' = "received_from_server"
    /\ completed_with_errors' = (completed_with_errors \/ flag)
    /\ UNCHANGED <<errors_accepted, remote_status_url>>

\* FullBuildArtifactJob.perform_later.  An import that ended without storing
\* anything may be run again (bound: |Imports| of them at any one time).
EnqueueImport(j) ==
    /\ \E i \in Imports :
        /\ importPc[i] = "idle"
        /\ i # zip /\ \A f \in Entries : stored[f] # i
        /\ importPc' = [importPc EXCEPT ![i] = "queued"]
        /\ importAt' = [importAt EXCEPT ![i] = 0]
        /\ importOf' = [importOf EXCEPT ![i] = j]

\* Mutant of RecordAnswer: a failure is ignored.
RecordAnswer_ignores_failure(answer, j) ==
    \/ answer \in Artifact /\ MarkReceived(answer = "partial") /\ EnqueueImport(j)
    \/ answer \notin Artifact /\ UNCHANGED <<row, imports>>

\* What the webhook and the status check both do with an answer of the
\* server: its artifact_url, not its status word, decides about an import.
\* A word neither knows changes nothing.
RecordAnswer(answer, j) ==
    \/ /\ answer \in Artifact
       /\ MarkReceived(answer = "partial")
       /\ EnqueueImport(j)
    \/ /\ answer = "failed"
       /\ Mark("failed")
       /\ UNCHANGED imports
    \/ /\ answer \notin Artifact \cup {"failed"}
       /\ UNCHANGED <<row, imports>>

-----------------------------------------------------------------------------
(***************************************************************************)
(* Promotion out of the queue: the row is read as queued, then marked      *)
(* pending and started.                                                    *)
(***************************************************************************)
PromotePick(j) ==
    /\ status = "queued"
    /\ job[j] = "none"
    /\ job' = [job EXCEPT ![j] = "picked"]
    /\ UNCHANGED <<row, output, remote, hook, imports, actors>>

PromoteStart(j) ==
    /\ job[j] = "picked"
    /\ Mark("pending")
    /\ job' = [job EXCEPT ![j] = "enqueued"]
    /\ UNCHANGED <<output, remote, hook, imports, actors>>

(***************************************************************************)
(* FullBuildJob#perform.                                                   *)
(***************************************************************************)
JobStart(j) ==
    /\ job[j] = "enqueued"
    /\ Mark("in_progress")
    /\ job' = [job EXCEPT ![j] = "submitting"]
    /\ UNCHANGED <<output, remote, hook, imports, actors>>

\* The POST: accepted with a status_url or without, refused (or the archive
\* could not be built), or accepted while the answer to us is lost.
JobSubmit(j) ==
    /\ job[j] = "submitting"
    /\ \E answer \in {"accepted", "accepted_no_url", "refused"}, reached \in BOOLEAN :
        /\ answer # "refused" => reached
        /\ answer = "accepted_no_url" => "no_status_url" \in Env
        /\ job' = [job EXCEPT ![j] = answer]
        /\ remote' = [remote EXCEPT ![j] = IF reached THEN "running" ELSE @]
    /\ UNCHANGED <<row, output, hook, imports, actors>>

JobRecord(j) ==
    /\ \/ job[j] = "accepted" /\ MarkSubmitted(j)
       \/ job[j] = "accepted_no_url" /\ Mark("sent_to_server")
       \/ job[j] = "refused" /\ Mark("failed")
    /\ job' = [job EXCEPT ![j] = "done"]
    /\ UNCHANGED <<output, remote, hook, imports, actors>>

\* The worker process is killed: no rescue clause runs.
JobCrash(j) ==
    /\ "crash" \in Env
    /\ job[j] \in {"submitting", "accepted", "accepted_no_url", "refused"}
    /\ job' = [job EXCEPT ![j] = "done"]
    /\ UNCHANGED <<row, output, remote, hook, imports, actors>>

\* External: the build server finishes a job, with or without an artifact.
RemoteFinish(j) ==
    /\ remote[j] = "running"
    /\ \E outcome \in {"success", "partial", "failed"} :
        remote' = [remote EXCEPT ![j] = outcome]
    /\ UNCHANGED <<row, output, job, hook, imports, actors>>

-----------------------------------------------------------------------------
(***************************************************************************)
(* BuildCallbacksController#create: the guard reloads the row, the answer  *)
(* is recorded afterwards.  A delivery may be lost (never taken), late, or *)
(* one of several for the same job.                                        *)
(***************************************************************************)
HookGuard(h) ==
    /\ hook[h].pc = "idle"
    /\ \E j \in Jobs :
        /\ remote[j] \in Finished
        /\ hook' = [hook EXCEPT ![h] =
                [pc |-> IF status \in AwaitsCallback THEN "claimed" ELSE "done",
                 of |-> j]]
    /\ UNCHANGED <<row, output, job, remote, imports, actors>>

\* fetch_full_log_later follows when the payload says its log is truncated.
HookRecord(h) ==
    /\ hook[h].pc = "claimed"
    /\ RecordAnswer(remote[hook[h].of], hook[h].of)
    /\ hook' = [hook EXCEPT ![h] = [pc |-> "done", of |-> @.of]]
    /\ \/ UNCHANGED logJob
       \/ /\ "truncated_log" \in Env
          /\ remote[hook[h].of] # "canceled"
          /\ logJob.pc = "idle"
          /\ logJob' = [pc |-> "queued", seen |-> logJob.seen]
    /\ UNCHANGED <<output, job, remote, check, cancel, stall, accept>>

(***************************************************************************)
(* BuildStatusChecker#check!: loads the row and asks the server, reloads,  *)
(* and acts on the answer it got before the reload.                        *)
(***************************************************************************)
CheckAsk(c) ==
    /\ check[c].pc = "idle"
    /\ status \notin {"success", "failed", "canceled"}
    /\ remote_status_url # NoJob
    /\ check' = [check EXCEPT ![c] =
            [pc |-> "asked", of |-> remote_status_url,
             seen |-> remote[remote_status_url]]]
    /\ UNCHANGED <<row, output, job, remote, hook, imports, cancel, logJob, stall, accept>>

CheckReload(c) ==
    /\ check[c].pc = "asked"
    /\ check' = [check EXCEPT ![c] =
            [pc |-> IF status = "received_from_server" THEN "idle" ELSE "claimed",
             of |-> @.of, seen |-> @.seen]]
    /\ UNCHANGED <<row, output, job, remote, hook, imports, cancel, logJob, stall, accept>>

CheckRecord(c) ==
    /\ check[c].pc = "claimed"
    /\ RecordAnswer(check[c].seen, check[c].of)
    /\ check' = [check EXCEPT ![c] = [pc |-> "idle", of |-> @.of, seen |-> @.seen]]
    /\ UNCHANGED <<output, job, remote, hook, cancel, logJob, stall, accept>>

(***************************************************************************)
(* BuildCanceller#cancel!: with a status URL the server is told first; a   *)
(* job it no longer runs (404, 409) counts as canceled all the same.  An   *)
(* error answer leaves the build alone and is no step; an answer lost      *)
(* after the server obeyed leaves it alone as well.                        *)
(***************************************************************************)
CancelAsk ==
    /\ cancel = "idle"
    /\ status \in Unresolved
    /\ \/ remote_status_url = NoJob /\ UNCHANGED remote /\ cancel' = "asked"
       \/ /\ remote_status_url # NoJob
          /\ remote' = [remote EXCEPT ![remote_status_url] =
                            IF @ = "running" THEN "canceled" ELSE @]
          /\ \/ cancel' = "asked"
             \/ "lost_cancel_answer" \in Env /\ UNCHANGED cancel
    /\ UNCHANGED <<row, output, job, hook, imports, check, logJob, stall, accept>>

CancelRecord ==
    /\ cancel = "asked"
    /\ Mark("canceled")
    /\ cancel' = "idle"
    /\ UNCHANGED <<output, job, remote, hook, imports, check, logJob, stall, accept>>

-----------------------------------------------------------------------------
(***************************************************************************)
(* FullBuildArtifactJob#perform.  The status is looked at once, before the *)
(* download; the unique index on (build_id, relative_path) is what an      *)
(* import meets when another one has stored the same entry.                *)
(***************************************************************************)
ImportGuard(i) ==
    /\ importPc[i] = "queued"
    /\ importPc' = [importPc EXCEPT ![i] =
            IF status \in {"success", "canceled"} THEN "idle" ELSE "writing"]
    /\ UNCHANGED <<row, output, job, remote, hook, importAt, importOf, actors>>

NextEntry(i) == importAt[i] + 1

\* Mutant of ImportFile: no unique index, the later import overwrites.
ImportFile_overwrites(i) ==
    /\ importPc[i] = "writing"
    /\ importAt[i] < NFiles
    /\ stored' = [stored EXCEPT ![NextEntry(i)] = i]
    /\ importAt' = [importAt EXCEPT ![i] = @ + 1]
    /\ UNCHANGED <<row, zip, job, remote, hook, importPc, importOf, actors>>

ImportFile(i) ==
    /\ importPc[i] = "writing"
    /\ importAt[i] < NFiles
    /\ stored[NextEntry(i)] = NoImport
    /\ stored' = [stored EXCEPT ![NextEntry(i)] = i]
    /\ importAt' = [importAt EXCEPT ![i] = @ + 1]
    /\ UNCHANGED <<row, zip, job, remote, hook, importPc, importOf, actors>>

ImportZip(i) ==
    /\ importPc[i] = "writing"
    /\ importAt[i] = NFiles
    /\ zip' = i
    /\ importPc' = [importPc EXCEPT ![i] = "zipped"]
    /\ UNCHANGED <<row, stored, job, remote, hook, importAt, importOf, actors>>

\* Mutant of ImportFinish: success is said before everything is stored.
ImportFinish_early(i) ==
    /\ importPc[i] \in {"writing", "zipped"}
    /\ Mark("success")
    /\ importPc' = [importPc EXCEPT ![i] = "pruning"]
    /\ UNCHANGED <<output, job, remote, hook, importAt, importOf, actors>>

ImportFinish(i) ==
    /\ importPc[i] = "zipped"
    /\ Mark("success")
    /\ importPc' = [importPc EXCEPT ![i] = "pruning"]
    /\ UNCHANGED <<output, job, remote, hook, importAt, importOf, actors>>

\* Target#prune_builds!, whose effect on the other builds is in TargetHistory.
ImportEnd(i) ==
    /\ importPc[i] = "pruning"
    /\ importPc' = [importPc EXCEPT ![i] = "idle"]
    /\ UNCHANGED <<row, output, job, remote, hook, importAt, importOf, actors>>

\* An error answer, a timeout, a bad zip, create! meeting a stored entry, or
\* an error of the pruning after the success: every rescue marks it failed.
ImportFail(i) ==
    /\ importPc[i] \in {"writing", "zipped", "pruning"}
    /\ Mark("failed")
    /\ importPc' = [importPc EXCEPT ![i] = "idle"]
    /\ UNCHANGED <<output, job, remote, hook, importAt, importOf, actors>>

ImportCrash(i) ==
    /\ "crash" \in Env
    /\ importPc[i] # "idle"
    /\ importPc' = [importPc EXCEPT ![i] = "idle"]
    /\ UNCHANGED <<row, output, job, remote, hook, importAt, importOf, actors>>

-----------------------------------------------------------------------------
(***************************************************************************)
(* FullBuildLogJob#perform: reload, then mark! with the status reloaded.   *)
(***************************************************************************)
LogReload ==
    /\ logJob.pc = "queued"
    /\ logJob' = [pc |-> "reloaded", seen |-> status]
    /\ UNCHANGED <<row, output, job, remote, hook, imports, check, cancel, stall, accept>>

LogWrite ==
    /\ logJob.pc = "reloaded"
    /\ Mark(logJob.seen)
    /\ logJob' = [pc |-> "idle", seen |-> logJob.seen]
    /\ UNCHANGED <<output, job, remote, hook, imports, check, cancel, stall, accept>>

(***************************************************************************)
(* BuildRecheckJob#fail_stalled_import: no progress for STALL_AFTER, which *)
(* a long download looks like as well, so it may judge a living import.    *)
(***************************************************************************)
StallReload ==
    /\ stall = "idle"
    /\ status = "received_from_server"
    /\ stall' = "claimed"
    /\ UNCHANGED <<row, output, job, remote, hook, imports, check, cancel, logJob, accept>>

StallRecord ==
    /\ stall = "claimed"
    /\ Mark("failed")
    /\ stall' = "idle"
    /\ UNCHANGED <<output, job, remote, hook, imports, check, cancel, logJob, accept>>

(***************************************************************************)
(* BuildsController#accept, with Build#accept_errors!.                     *)
(***************************************************************************)
AcceptRead ==
    /\ accept = "idle"
    /\ AwaitingReview(status, completed_with_errors, errors_accepted)
    /\ accept' = "claimed"
    /\ UNCHANGED <<row, output, job, remote, hook, imports, check, cancel, logJob, stall>>

AcceptRecord ==
    /\ accept = "claimed"
    /\ status' = "success"
    /\ errors_accepted' = TRUE
    /\ UNCHANGED <<completed_with_errors, remote_status_url>>
    /\ accept' = "idle"
    /\ UNCHANGED <<output, job, remote, hook, imports, check, cancel, logJob, stall>>

-----------------------------------------------------------------------------
JobStep(j) ==
    \/ PromotePick(j) \/ PromoteStart(j)
    \/ JobStart(j) \/ JobSubmit(j) \/ JobRecord(j)

CheckStep(c) == CheckAsk(c) \/ CheckReload(c) \/ CheckRecord(c)

ImportStep(i) ==
    \/ ImportGuard(i) \/ ImportFile(i) \/ ImportZip(i)
    \/ ImportFinish(i) \/ ImportEnd(i) \/ ImportFail(i)

Next ==
    \/ \E j \in Jobs : JobStep(j) \/ JobCrash(j) \/ RemoteFinish(j)
    \/ \E h \in Hooks : HookGuard(h) \/ HookRecord(h)
    \/ \E c \in Checks : CheckStep(c)
    \/ CancelAsk \/ CancelRecord
    \/ \E i \in Imports : ImportStep(i) \/ ImportCrash(i)
    \/ LogReload \/ LogWrite
    \/ StallReload \/ StallRecord
    \/ AcceptRead \/ AcceptRecord

Spec == Init /\ [][Next]_vars

(***************************************************************************)
(* Fairness: what has started goes on (Solid Queue runs every job, a       *)
(* request runs to its end, the server bounds a build by its timeout), and *)
(* BuildWatchdogJob, recurring, checks a build in sent_to_server with a    *)
(* URL for ever.  Nothing says a webhook arrives, an author clicks, a slot *)
(* frees up, or BuildRecheckJob still looks after its last attempt.        *)
(***************************************************************************)
Fairness ==
    /\ \A j \in Jobs :
        /\ WF_vars(PromoteStart(j) \/ JobStart(j) \/ JobSubmit(j) \/ JobRecord(j))
        /\ WF_vars(RemoteFinish(j))
    /\ \A h \in Hooks : WF_vars(HookRecord(h))
    /\ \A c \in Checks :
        /\ WF_vars(status = "sent_to_server" /\ CheckAsk(c))
        /\ WF_vars(CheckReload(c) \/ CheckRecord(c))
    /\ \A i \in Imports : WF_vars(ImportStep(i))
    /\ WF_vars(CancelRecord) /\ WF_vars(LogReload \/ LogWrite)
    /\ WF_vars(StallRecord) /\ WF_vars(AcceptRecord)

FairSpec == Spec /\ Fairness

-----------------------------------------------------------------------------
(***************************************************************************)
(* What readers may see.                                                   *)
(***************************************************************************)
Complete == zip # NoImport /\ \A f \in Entries : stored[f] # NoImport

Live == LiveCandidate(status, completed_with_errors, errors_accepted)

\* Some of what is stored came out of a build the server called failed.
Tainted == \E f \in Entries :
    stored[f] # NoImport /\ remote[importOf[stored[f]]] = "partial"

\* A build says success only when every entry of its artifact and the zip
\* are stored, whichever imports, checks, cancels and late writers raced for
\* the row (FullBuildArtifactJob#perform marks it last; nobody else may say
\* success of a build that is not).
SuccessIsComplete == status = "success" => Complete

\* Two imports of one build never mix their output: every entry and the zip
\* come from the same download, because the loser of the first entry meets
\* the unique index (build_file.rb, FullBuildArtifactJob#perform).
NoMixedOutput ==
    /\ \A f, g \in Entries :
        stored[f] # NoImport /\ stored[g] # NoImport => stored[f] = stored[g]
    /\ NFiles > 0 /\ zip # NoImport => \A f \in Entries : stored[f] = zip

\* Output of a build that reported errors is never live before its author
\* accepted it (Build.live_candidates), however the flag, the import and the
\* acceptance interleave.
UnreviewedErrorsStayHidden == Live /\ Tainted => errors_accepted

\* An acceptance is only ever recorded over complete, flagged output: the
\* guard of BuildsController#accept is read before the write, and what it
\* saw cannot have gone away.
AcceptedOutputExists == errors_accepted => Complete /\ completed_with_errors

\* An answer of the server stands behind every import: the artifact it
\* fetches exists and, when it came of a failed build, the row is flagged
\* before the import can start (RecordAnswer: one UPDATE, then the job).
ImportsHaveArtifact ==
    \A i \in Imports : importPc[i] # "idle" =>
        /\ importOf[i] \in Jobs
        /\ remote[importOf[i]] \in Artifact
        /\ remote[importOf[i]] = "partial" => completed_with_errors

\* Everything above, behind an interface: the row, its imports and every actor
\* on it implement the four moves of PublishedOutput.
Published == INSTANCE PublishedOutput WITH
    complete <- Complete, tainted <- Tainted,
    approved <- errors_accepted, visible <- Live

\* No interleaving shows a reader incomplete or unapproved output, changes
\* output that was whole, or approves what is not there (Build#mark! and its
\* callers against Build.live_candidates).
ImplementsPublishedOutput == Published!Spec

\* What nothing recovers: a build whose processes were killed, or that the
\* server takes without telling where to ask, or has canceled without our
\* hearing of it.
Abandoned ==
    /\ \A j \in Jobs : job[j] \in {"none", "done"}
    /\ \A i \in Imports : importPc[i] = "idle"
    /\ status = "sent_to_server" =>
        remote_status_url = NoJob \/ remote[remote_status_url] = "canceled"

\* A build that holds a slot gives it back: with no webhook at all, whatever
\* the author does, and whichever actor overtakes which, it reaches an outcome
\* or is abandoned (BuildStatusChecker and BuildWatchdogJob, behind the webhook).
InFlightResolves ==
    status \in InFlight ~>
        (status \in {"success", "failed", "canceled"} \/ []Abandoned)

\* build.rb, on the enum of status: "`canceled` is terminal".
CanceledIsTerminal == [][status = "canceled" => status' = "canceled"]_vars

\* BuildStatusChecker#check! and BuildCallbacksController#create guard each
\* other ("whichever gets there first wins") so that nothing imports the same
\* artifact twice: a build that succeeded is not sent back to its import.
SuccessNotImportedAgain ==
    [][status = "success" => status' # "received_from_server"]_vars

-----------------------------------------------------------------------------
(***************************************************************************)
(* The inductive invariant behind the safety properties.                   *)
(***************************************************************************)
\* A server job exists only once it was posted.
UnpostedIsAbsent ==
    \A j \in Jobs : job[j] \in {"none", "picked", "enqueued", "submitting"}
                    => remote[j] = "absent"

\* An actor that holds an answer of the server holds its final one.
AnswersAreFinal ==
    /\ \A h \in Hooks : hook[h].pc = "claimed" =>
            hook[h].of \in Jobs /\ remote[hook[h].of] \in Finished
    /\ \A c \in Checks : check[c].pc # "idle" =>
            /\ check[c].of \in Jobs
            /\ check[c].seen \in Finished => remote[check[c].of] = check[c].seen

\* ... and so does the import that fetched what is stored.
StoredHasArtifact ==
    \A f \in Entries : stored[f] # NoImport =>
        /\ importOf[stored[f]] \in Jobs
        /\ remote[importOf[stored[f]]] \in Artifact
        /\ remote[importOf[stored[f]]] = "partial" => completed_with_errors

\* A running import owns every entry it has passed.
ImportsOwnTheirPrefix ==
    \A i \in Imports : importPc[i] # "idle" =>
        /\ \A f \in 1..importAt[i] : stored[f] = i
        /\ importPc[i] = "zipped" => importAt[i] = NFiles /\ zip # NoImport

\* Entries are stored in order, so the first one decides who wins.
FirstEntryFirst ==
    \A f \in Entries : stored[f] # NoImport => stored[1] # NoImport

\* Whoever may still say success does so of complete output.
SuccessWritersAreRight ==
    /\ logJob.pc = "reloaded" /\ logJob.seen = "success" => Complete
    /\ accept = "claimed" => Complete /\ completed_with_errors

IInv ==
    /\ UnpostedIsAbsent
    /\ AnswersAreFinal
    /\ ImportsHaveArtifact
    /\ StoredHasArtifact
    /\ ImportsOwnTheirPrefix
    /\ FirstEntryFirst
    /\ NoMixedOutput
    /\ SuccessIsComplete
    /\ SuccessWritersAreRight
    /\ AcceptedOutputExists
=============================================================================
