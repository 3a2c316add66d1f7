------------------------ MODULE BuildLifecycle_proofs ------------------------
(***************************************************************************)
(* Proofs about BuildLifecycle for every number of jobs, webhooks, checks, *)
(* imports and files, and about BuildRecheck, which times the looks.       *)
(***************************************************************************)
EXTENDS BuildLifecycle, BuildRecheck, TLAPS

USE NFilesAssumption, NoneAssumption
USE DEF row, output, imports, actors, vars

\* The variables RecordAnswer writes, in their types.
RowAndImportsOK ==
    /\ status \in Status
    /\ completed_with_errors \in BOOLEAN
    /\ errors_accepted \in BOOLEAN
    /\ remote_status_url \in Jobs \cup {NoJob}
    /\ importPc \in [Imports -> {"idle", "queued", "writing", "zipped", "pruning"}]
    /\ importAt \in [Imports -> 0..NFiles]
    /\ importOf \in [Imports -> Jobs \cup {NoJob}]

\* What the webhook and the status check share: recording an answer of the
\* server keeps the row and the imports in their types.
LEMMA RecordAnswerTypes ==
    ASSUME RowAndImportsOK, NEW answer, NEW j \in Jobs \cup {NoJob}, RecordAnswer(answer, j)
    PROVE  RowAndImportsOK'
<1> USE DEF RowAndImportsOK, Status, Unresolved, InFlight
<1>1. CASE answer \in Artifact /\ MarkReceived(answer = "partial") /\ EnqueueImport(j)
  <2>1. /\ status' \in Status
        /\ completed_with_errors' \in BOOLEAN
        /\ errors_accepted' \in BOOLEAN
        /\ remote_status_url' \in Jobs \cup {NoJob}
    BY <1>1 DEF MarkReceived
  <2>2. importPc' \in [Imports -> {"idle", "queued", "writing", "zipped", "pruning"}]
    BY <1>1 DEF EnqueueImport
  <2>3. importAt' \in [Imports -> 0..NFiles]
    BY <1>1 DEF EnqueueImport
  <2>4. importOf' \in [Imports -> Jobs \cup {NoJob}]
    BY <1>1 DEF EnqueueImport
  <2> QED BY <2>1, <2>2, <2>3, <2>4
<1>2. CASE answer = "failed" /\ Mark("failed") /\ UNCHANGED imports
  BY <1>2 DEF Mark
<1>3. CASE UNCHANGED <<row, imports>>
  BY <1>3
<1> QED BY <1>1, <1>2, <1>3 DEF RecordAnswer

\* Every actor keeps every variable of BuildLifecycle in its type: Build#mark!
\* writes only words of the enum, and each actor moves along its own program.
THEOREM TypeCorrect == Spec => []TypeOK
<1> USE DEF TypeOK, Status, Unresolved, InFlight, Remote, Finished, Artifact,
            JobPc, Entries
<1>1. Init => TypeOK
  <2> SUFFICES ASSUME Init PROVE TypeOK
    OBVIOUS
  <2>1. job \in [Jobs -> JobPc]
    <3>1. CASE job = [j \in Jobs |-> "none"] BY <3>1
    <3>2. CASE \E first \in Jobs :
                 job = [j \in Jobs |-> IF j = first THEN "enqueued" ELSE "none"]
      BY <3>2
    <3> QED BY <3>1, <3>2 DEF Init
  <2>2. status \in Status
    BY DEF Init
  <2>3. /\ stored \in [Entries -> Imports \cup {NoImport}]
        /\ zip \in Imports \cup {NoImport}
        /\ remote \in [Jobs -> Remote]
    BY DEF Init
  <2>4. hook \in [Hooks -> [pc: {"idle", "claimed", "done"}, of: Jobs \cup {NoJob}]]
    BY DEF Init
  <2>5. check \in [Checks -> [pc: {"idle", "asked", "claimed"},
                              of: Jobs \cup {NoJob}, seen: Remote]]
    BY DEF Init
  <2>6. /\ importPc \in [Imports -> {"idle", "queued", "writing", "zipped", "pruning"}]
        /\ importAt \in [Imports -> 0..NFiles]
        /\ importOf \in [Imports -> Jobs \cup {NoJob}]
    BY DEF Init
  <2> QED BY <2>1, <2>2, <2>3, <2>4, <2>5, <2>6 DEF Init
<1>2. TypeOK /\ [Next]_vars => TypeOK'
  <2> SUFFICES ASSUME TypeOK, [Next]_vars PROVE TypeOK'
    OBVIOUS
  <2>1. ASSUME NEW j \in Jobs, JobStep(j) \/ JobCrash(j) \/ RemoteFinish(j)
        PROVE  TypeOK'
    <3>1. CASE PromotePick(j) BY <3>1 DEF PromotePick
    <3>2. CASE PromoteStart(j) BY <3>2 DEF PromoteStart, Mark
    <3>3. CASE JobStart(j) BY <3>3 DEF JobStart, Mark
    <3>4. CASE JobSubmit(j) BY <3>4 DEF JobSubmit
    <3>5. CASE JobRecord(j) BY <3>5 DEF JobRecord, Mark, MarkSubmitted
    <3>6. CASE JobCrash(j) BY <3>6 DEF JobCrash
    <3>7. CASE RemoteFinish(j) BY <3>7 DEF RemoteFinish
    <3> QED BY <2>1, <3>1, <3>2, <3>3, <3>4, <3>5, <3>6, <3>7 DEF JobStep
  <2>2. ASSUME NEW h \in Hooks, HookGuard(h) PROVE TypeOK'
    BY <2>2 DEF HookGuard
  <2>3. ASSUME NEW h \in Hooks, HookRecord(h) PROVE TypeOK'
    <3>1. RowAndImportsOK'
      BY <2>3, RecordAnswerTypes DEF HookRecord, RowAndImportsOK
    <3>2. hook' \in [Hooks -> [pc: {"idle", "claimed", "done"}, of: Jobs \cup {NoJob}]]
      BY <2>3 DEF HookRecord
    <3>3. logJob' \in [pc: {"idle", "queued", "reloaded"}, seen: Status]
      BY <2>3 DEF HookRecord
    <3> QED BY <2>3, <3>1, <3>2, <3>3 DEF HookRecord, RowAndImportsOK
  <2>4. ASSUME NEW c \in Checks, CheckStep(c) PROVE TypeOK'
    <3>1. CASE CheckAsk(c) BY <3>1 DEF CheckAsk
    <3>2. CASE CheckReload(c) BY <3>2 DEF CheckReload
    <3>3. CASE CheckRecord(c)
      <4>1. RowAndImportsOK'
        BY <3>3, RecordAnswerTypes DEF CheckRecord, RowAndImportsOK
      <4>2. check' \in [Checks -> [pc: {"idle", "asked", "claimed"},
                                   of: Jobs \cup {NoJob}, seen: Remote]]
        BY <3>3 DEF CheckRecord
      <4> QED BY <3>3, <4>1, <4>2 DEF CheckRecord, RowAndImportsOK
    <3> QED BY <2>4, <3>1, <3>2, <3>3 DEF CheckStep
  <2>5. CASE CancelAsk BY <2>5 DEF CancelAsk
  <2>6. CASE CancelRecord BY <2>6 DEF CancelRecord, Mark
  <2>7. ASSUME NEW i \in Imports, ImportStep(i) \/ ImportCrash(i) PROVE TypeOK'
    <3>1. CASE ImportGuard(i) BY <3>1 DEF ImportGuard
    <3>2. CASE ImportFile(i) BY <3>2 DEF ImportFile, NextEntry
    <3>3. CASE ImportZip(i) BY <3>3 DEF ImportZip
    <3>4. CASE ImportFinish(i) BY <3>4 DEF ImportFinish, Mark
    <3>5. CASE ImportFail(i) BY <3>5 DEF ImportFail, Mark
    <3>6. CASE ImportEnd(i) BY <3>6 DEF ImportEnd
    <3>7. CASE ImportCrash(i) BY <3>7 DEF ImportCrash
    <3> QED BY <2>7, <3>1, <3>2, <3>3, <3>4, <3>5, <3>6, <3>7 DEF ImportStep
  <2>8. CASE LogReload \/ LogWrite
    BY <2>8 DEF LogReload, LogWrite, Mark
  <2>9. CASE StallReload \/ StallRecord
    BY <2>9 DEF StallReload, StallRecord, Mark
  <2>10. CASE AcceptRead \/ AcceptRecord
    BY <2>10 DEF AcceptRead, AcceptRecord
  <2>11. CASE UNCHANGED vars
    BY <2>11
  <2> QED BY <2>1, <2>2, <2>3, <2>4, <2>5, <2>6, <2>7, <2>8, <2>9, <2>10, <2>11 DEF Next
<1> QED BY <1>1, <1>2, PTL DEF Spec

-----------------------------------------------------------------------------
\* Recording an answer of the server, as the webhook and the status check do,
\* keeps what the invariant says of the row, the imports and the output: the
\* import it may enqueue owns nothing yet and has an artifact to fetch.
LEMMA RecordAnswerKeeps ==
    ASSUME TypeOK, IInv, NEW answer, NEW j \in Jobs, RecordAnswer(answer, j),
           answer \in Finished => remote[j] = answer,
           UNCHANGED <<stored, zip, job, remote, accept>>,
           logJob'.pc = "reloaded" => logJob' = logJob,
           AnswersAreFinal'
    PROVE  IInv'
<1> USE DEF IInv, UnpostedIsAbsent, ImportsHaveArtifact,
            StoredHasArtifact, ImportsOwnTheirPrefix, FirstEntryFirst,
            NoMixedOutput, SuccessIsComplete, SuccessWritersAreRight,
            AcceptedOutputExists, Complete, TypeOK, Artifact, Finished, Entries
<1>1. CASE answer \in Artifact /\ MarkReceived(answer = "partial") /\ EnqueueImport(j)
  <2>1. PICK i \in Imports :
            /\ importPc[i] = "idle"
            /\ i # zip /\ \A f \in Entries : stored[f] # i
            /\ importPc' = [importPc EXCEPT ![i] = "queued"]
            /\ importAt' = [importAt EXCEPT ![i] = 0]
            /\ importOf' = [importOf EXCEPT ![i] = j]
    BY <1>1 DEF EnqueueImport
  <2>2. /\ status' = "received_from_server"
        /\ completed_with_errors' = (completed_with_errors \/ answer = "partial")
        /\ UNCHANGED <<errors_accepted, remote_status_url>>
    BY <1>1 DEF MarkReceived
  <2>3. ImportsHaveArtifact'
    BY <1>1, <2>1, <2>2
  <2>4. StoredHasArtifact'
    BY <2>1, <2>2
  <2>5. ImportsOwnTheirPrefix'
    BY <2>1, <2>2
  <2> QED BY <2>2, <2>3, <2>4, <2>5
<1>2. CASE answer = "failed" /\ Mark("failed") /\ UNCHANGED imports
  BY <1>2 DEF Mark
<1>3. CASE UNCHANGED <<row, imports>>
  BY <1>3
<1> QED BY <1>1, <1>2, <1>3 DEF RecordAnswer

\* Whatever races for the row, the inductive invariant holds.
THEOREM Invariance == Spec => []IInv
<1> USE DEF IInv, UnpostedIsAbsent, AnswersAreFinal, ImportsHaveArtifact,
            StoredHasArtifact, ImportsOwnTheirPrefix, FirstEntryFirst,
            NoMixedOutput, SuccessIsComplete, SuccessWritersAreRight,
            AcceptedOutputExists, Complete, TypeOK, Artifact, Finished, Remote, Entries
<1>1. Init => IInv
  BY DEF Init
<1>2. TypeOK /\ TypeOK' /\ IInv /\ [Next]_vars => IInv'
  <2> SUFFICES ASSUME TypeOK, TypeOK', IInv, [Next]_vars PROVE IInv'
    OBVIOUS
  <2>1. ASSUME NEW j \in Jobs, PromotePick(j) PROVE IInv'
    BY <2>1 DEF PromotePick
  <2>2. ASSUME NEW j \in Jobs, PromoteStart(j) PROVE IInv'
    BY <2>2 DEF PromoteStart, Mark
  <2>3. ASSUME NEW j \in Jobs, JobStart(j) PROVE IInv'
    BY <2>3 DEF JobStart, Mark
  <2>4. ASSUME NEW j \in Jobs, JobSubmit(j) PROVE IInv'
    BY <2>4 DEF JobSubmit
  <2>5. ASSUME NEW j \in Jobs, JobRecord(j) PROVE IInv'
    BY <2>5 DEF JobRecord, Mark, MarkSubmitted
  <2>6. ASSUME NEW j \in Jobs, JobCrash(j) PROVE IInv'
    BY <2>6 DEF JobCrash
  <2>7. ASSUME NEW j \in Jobs, RemoteFinish(j) PROVE IInv'
    BY <2>7 DEF RemoteFinish
  <2>8. ASSUME NEW h \in Hooks, HookGuard(h) PROVE IInv'
    BY <2>8 DEF HookGuard
  <2>9. ASSUME NEW h \in Hooks, HookRecord(h) PROVE IInv'
    <3>1. AnswersAreFinal'
      BY <2>9 DEF HookRecord
    <3>2. UNCHANGED <<stored, zip, job, remote, accept>>
          /\ logJob'.pc = "reloaded" => logJob' = logJob
      BY <2>9 DEF HookRecord
    <3> QED BY <2>9, <3>1, <3>2, RecordAnswerKeeps DEF HookRecord
  <2>10. ASSUME NEW c \in Checks, CheckAsk(c) PROVE IInv'
    BY <2>10 DEF CheckAsk
  <2>11. ASSUME NEW c \in Checks, CheckReload(c) PROVE IInv'
    BY <2>11 DEF CheckReload
  <2>12. ASSUME NEW c \in Checks, CheckRecord(c) PROVE IInv'
    <3>1. AnswersAreFinal'
      BY <2>12 DEF CheckRecord
    <3>2. UNCHANGED <<stored, zip, job, remote, accept, logJob>>
      BY <2>12 DEF CheckRecord
    <3> QED BY <2>12, <3>1, <3>2, RecordAnswerKeeps DEF CheckRecord
  <2>13. ASSUME NEW i \in Imports, ImportGuard(i) PROVE IInv'
    BY <2>13 DEF ImportGuard
  <2>14. ASSUME NEW i \in Imports, ImportFile(i) PROVE IInv'
    BY <2>14 DEF ImportFile, NextEntry
  <2>15. ASSUME NEW i \in Imports, ImportZip(i) PROVE IInv'
    BY <2>15 DEF ImportZip
  <2>16. ASSUME NEW i \in Imports, ImportFinish(i) PROVE IInv'
    BY <2>16 DEF ImportFinish, Mark
  <2>17. ASSUME NEW i \in Imports, ImportFail(i) PROVE IInv'
    BY <2>17 DEF ImportFail, Mark
  <2>18. ASSUME NEW i \in Imports, ImportEnd(i) \/ ImportCrash(i) PROVE IInv'
    BY <2>18 DEF ImportEnd, ImportCrash
  <2>19. CASE CancelAsk
    <3>1. \A j \in Jobs : remote[j] # "running" => remote'[j] = remote[j]
      BY <2>19 DEF CancelAsk
    <3>2. UNCHANGED <<row, output, job, hook, imports, check, logJob, accept>>
      BY <2>19 DEF CancelAsk
    <3>3. UnpostedIsAbsent' /\ AnswersAreFinal'
      BY <3>1, <3>2
    <3>4. ImportsHaveArtifact' /\ StoredHasArtifact'
      BY <3>1, <3>2
    <3>5. /\ ImportsOwnTheirPrefix' /\ FirstEntryFirst' /\ NoMixedOutput'
          /\ SuccessIsComplete' /\ SuccessWritersAreRight' /\ AcceptedOutputExists'
      BY <3>2
    <3> QED BY <3>3, <3>4, <3>5
  <2>20. CASE CancelRecord
    BY <2>20 DEF CancelRecord, Mark
  <2>21. CASE LogReload
    BY <2>21 DEF LogReload
  <2>22. CASE LogWrite
    BY <2>22 DEF LogWrite, Mark
  <2>23. CASE StallReload
    BY <2>23 DEF StallReload
  <2>24. CASE StallRecord
    BY <2>24 DEF StallRecord, Mark
  <2>25. CASE AcceptRead
    BY <2>25 DEF AcceptRead, AwaitingReview
  <2>26. CASE AcceptRecord
    BY <2>26 DEF AcceptRecord
  <2>27. CASE UNCHANGED vars
    BY <2>27
  <2> QED
    BY <2>1, <2>2, <2>3, <2>4, <2>5, <2>6, <2>7, <2>8, <2>9, <2>10, <2>11, <2>12, <2>13, <2>14, <2>15, <2>16, <2>17, <2>18, <2>19, <2>20, <2>21, <2>22, <2>23, <2>24, <2>25, <2>26, <2>27
       DEF Next, JobStep, CheckStep, ImportStep
<1> QED BY <1>1, <1>2, TypeCorrect, PTL DEF Spec

-----------------------------------------------------------------------------
\* FullBuildArtifactJob, mark! and everyone racing them: a success is complete.
THEOREM SuccessAlwaysComplete == Spec => []SuccessIsComplete
<1>1. IInv => SuccessIsComplete
  BY DEF IInv
<1> QED BY <1>1, Invariance, PTL

\* The unique index on BuildFile keeps the output of two downloads apart.
THEOREM OutputNeverMixed == Spec => []NoMixedOutput
<1>1. IInv => NoMixedOutput
  BY DEF IInv
<1> QED BY <1>1, Invariance, PTL

\* Build.live_candidates never offers unreviewed output of a failed build.
THEOREM UnreviewedNeverLive == Spec => []UnreviewedErrorsStayHidden
<1>1. TypeOK /\ IInv => UnreviewedErrorsStayHidden
  BY DEF IInv, StoredHasArtifact, UnreviewedErrorsStayHidden, Tainted, Live,
         LiveCandidate, TypeOK
<1> QED BY <1>1, TypeCorrect, Invariance, PTL

\* BuildsController#accept never records a decision about missing output.
THEOREM AcceptedAlwaysExists == Spec => []AcceptedOutputExists
<1>1. IInv => AcceptedOutputExists
  BY DEF IInv
<1> QED BY <1>1, Invariance, PTL

-----------------------------------------------------------------------------
\* A step that stores nothing leaves Tainted as it was: what an import that
\* owns a file fetched, and how its build ended, are settled.
SettledOutput ==
    /\ UNCHANGED <<stored, zip>>
    /\ \A f \in Entries : stored[f] # NoImport =>
        /\ importOf'[stored[f]] = importOf[stored[f]]
        /\ remote'[importOf[stored[f]]] = remote[importOf[stored[f]]]

\* Whoever records an answer of the server leaves the owners of files alone.
LEMMA RecordAnswerSettled ==
    ASSUME TypeOK, NEW answer, NEW j, RecordAnswer(answer, j)
    PROVE  /\ \A f \in Entries : stored[f] # NoImport =>
                 importOf'[stored[f]] = importOf[stored[f]]
           /\ UNCHANGED errors_accepted
<1> USE DEF TypeOK
<1>1. CASE EnqueueImport(j) /\ MarkReceived(answer = "partial")
  <2>1. PICK i \in Imports :
            /\ \A f \in Entries : stored[f] # i
            /\ importOf' = [importOf EXCEPT ![i] = j]
    BY <1>1 DEF EnqueueImport
  <2> QED BY <1>1, <2>1 DEF MarkReceived
<1>2. CASE Mark("failed") /\ UNCHANGED imports
  BY <1>2 DEF Mark
<1>3. CASE UNCHANGED <<row, imports>>
  BY <1>3
<1> QED BY <1>1, <1>2, <1>3 DEF RecordAnswer

\* Every step stores a file, attaches the zip, records the author's decision,
\* or settles both the output and the decision.
LEMMA StepKinds ==
    ASSUME TypeOK, IInv, [Next]_vars
    PROVE  \/ SettledOutput /\ UNCHANGED errors_accepted
           \/ SettledOutput /\ AcceptRecord
           \/ \E i \in Imports : ImportFile(i) \/ ImportZip(i)
<1> USE DEF TypeOK, IInv, StoredHasArtifact, Artifact, Finished, Remote, SettledOutput
<1>1. ASSUME NEW j \in Jobs, JobStep(j) \/ JobCrash(j) \/ RemoteFinish(j)
      PROVE  SettledOutput /\ UNCHANGED errors_accepted
  <2>1. CASE PromotePick(j) \/ PromoteStart(j) \/ JobStart(j) \/ JobRecord(j) \/ JobCrash(j)
    BY <2>1 DEF PromotePick, PromoteStart, JobStart, JobRecord, JobCrash, Mark, MarkSubmitted
  <2>2. CASE JobSubmit(j)
    BY <2>2 DEF JobSubmit, UnpostedIsAbsent
  <2>3. CASE RemoteFinish(j)
    BY <2>3 DEF RemoteFinish
  <2> QED BY <1>1, <2>1, <2>2, <2>3 DEF JobStep
<1>2. ASSUME NEW h \in Hooks, HookGuard(h) \/ HookRecord(h)
      PROVE  SettledOutput /\ UNCHANGED errors_accepted
  BY <1>2, RecordAnswerSettled DEF HookGuard, HookRecord
<1>3. ASSUME NEW c \in Checks, CheckStep(c)
      PROVE  SettledOutput /\ UNCHANGED errors_accepted
  BY <1>3, RecordAnswerSettled DEF CheckStep, CheckAsk, CheckReload, CheckRecord
<1>4. CASE CancelAsk \/ CancelRecord
  BY <1>4 DEF CancelAsk, CancelRecord, Mark
<1>5. ASSUME NEW i \in Imports, ImportStep(i) \/ ImportCrash(i), ~ImportFile(i), ~ImportZip(i)
      PROVE  SettledOutput /\ UNCHANGED errors_accepted
  BY <1>5 DEF ImportStep, ImportGuard, ImportFinish, ImportEnd, ImportFail,
            ImportCrash, Mark
<1>6. CASE LogReload \/ LogWrite \/ StallReload \/ StallRecord \/ AcceptRead
  BY <1>6 DEF LogReload, LogWrite, StallReload, StallRecord, AcceptRead, Mark
<1>7. CASE AcceptRecord
  BY <1>7 DEF AcceptRecord
<1>8. CASE UNCHANGED vars
  BY <1>8
<1> QED BY <1>1, <1>2, <1>3, <1>4, <1>5, <1>6, <1>7, <1>8 DEF Next

\* The row and every actor on it implement PublishedOutput.
THEOREM Refinement == Spec => ImplementsPublishedOutput
<1> USE DEF TypeOK, Entries
<1>1. Init => Published!Init
  BY DEF Init, Published!Init, Complete, Tainted, Live, LiveCandidate
<1>2. TypeOK /\ TypeOK' /\ IInv /\ IInv' /\ [Next]_vars => [Published!Next]_(Published!vars)
  <2> SUFFICES ASSUME TypeOK, TypeOK', IInv, IInv', [Next]_vars
               PROVE  [Published!Next]_(Published!vars)
    OBVIOUS
  <2>1. Live' => Complete' /\ (Tainted' => errors_accepted')
    BY DEF IInv, SuccessIsComplete, StoredHasArtifact, Live, LiveCandidate, Tainted
  <2>2. ASSUME SettledOutput
        PROVE  Complete' = Complete /\ Tainted' = Tainted
    BY <2>2 DEF SettledOutput, Complete, Tainted
  <2>3. CASE SettledOutput /\ UNCHANGED errors_accepted
    BY <2>1, <2>2, <2>3
       DEF Published!Next, Published!vars, Published!Show, Published!Hide, Live, LiveCandidate
  <2>4. CASE SettledOutput /\ AcceptRecord
    <3>1. Complete /\ errors_accepted' = TRUE /\ Live' = TRUE
      BY <2>4 DEF IInv, SuccessWritersAreRight, AcceptRecord, Live, LiveCandidate
    <3> QED BY <2>2, <2>4, <3>1 DEF Published!Next, Published!vars, Published!Approve
  <2>5. ASSUME NEW i \in Imports, ImportFile(i) \/ ImportZip(i)
        PROVE  [Published!Next]_(Published!vars)
    <3>1. Live' = Live /\ errors_accepted' = errors_accepted
      BY <2>5 DEF ImportFile, ImportZip, Live
    <3>2. Tainted => Tainted'
      BY <2>5 DEF ImportFile, ImportZip, NextEntry, Tainted
    <3>3. CASE ~Complete
      BY <3>1, <3>2, <3>3 DEF Published!Next, Published!Receive, Complete, Tainted
    <3>4. CASE Complete
      <4>1. Complete' = Complete /\ Tainted' = Tainted
        BY <2>5, <3>4 DEF ImportFile, ImportZip, NextEntry, Complete, Tainted
      <4> QED BY <3>1, <4>1 DEF Published!vars
    <3> QED BY <3>3, <3>4
  <2> QED BY <2>3, <2>4, <2>5, StepKinds
<1> QED BY <1>1, <1>2, TypeCorrect, Invariance, PTL DEF Spec, ImplementsPublishedOutput, Published!Spec

-----------------------------------------------------------------------------
(***************************************************************************)
(* BuildRecheck, for every schedule of looks and every stall threshold: it *)
(* times the looks whose effect on the row is above.  A look after the     *)
(* last progress either finds the build dead for long enough, or leaves a  *)
(* progress that is recent on the schedule.                                *)
(***************************************************************************)
USE ScheduleAssumption, StallAssumption, MaxTimeAssumption

LastLook == Schedule[MaxAttempts]

\* Once the looks are over the build has its answer, or the last look is past
\* and what it spared had shown life recently.
LastLookDecides ==
    LooksAreOver =>
        \/ phase \in {"success", "failed"}
        \/ LastLook <= now /\ (phase \in Received => LastLook <= progress + StallAfter)

\* An import that has begun to store files does so often enough, and a look
\* is never taken late.
ImportsProgress == phase = "storing" => now <= progress + StallAfter
LooksArePunctual == attempt <= MaxAttempts => now <= Schedule[attempt]

LEMMA LastLookType == MaxAttempts \in Nat \ {0} /\ LastLook \in Nat
BY DEF MaxAttempts, LastLook

\* Every variable of BuildRecheck keeps its type.
THEOREM RecheckTypeCorrect == RecheckSpec => []RecheckTypeOK
<1>1. RecheckInit => RecheckTypeOK
  BY LastLookType DEF RecheckInit, RecheckTypeOK, Received, Importing
<1>2. RecheckTypeOK /\ [RecheckNext]_recheck => RecheckTypeOK'
  BY LastLookType
     DEF RecheckTypeOK, RecheckNext, recheck, Receive, StoreFile, Finish, Fail, Die, Look, Tick,
         LookIsDue, NextAttempt, Received, Importing
<1> QED BY <1>1, <1>2, PTL DEF RecheckSpec

LEMMA LooksDecide == RecheckSpec => []LastLookDecides
<1> USE LastLookType
<1>1. RecheckInit => LastLookDecides
  BY DEF RecheckInit, LastLookDecides, LooksAreOver
<1>2. RecheckTypeOK /\ LastLookDecides /\ [RecheckNext]_recheck => LastLookDecides'
  <2> SUFFICES ASSUME RecheckTypeOK, LastLookDecides, [RecheckNext]_recheck, LooksAreOver'
               PROVE  \/ phase' \in {"success", "failed"}
                      \/ LastLook <= now' /\ (phase' \in Received => LastLook <= progress' + StallAfter)
    BY DEF LastLookDecides
  <2>1. now \in Nat /\ progress \in Nat
    BY DEF RecheckTypeOK
  <2>2. CASE Receive \/ StoreFile \/ Die
    BY <2>1, <2>2 DEF RecheckTypeOK, LastLookDecides, LooksAreOver, Receive, StoreFile, Die, Received, Importing
  <2>3. CASE Finish \/ Fail
    BY <2>3 DEF Finish, Fail
  <2>4. CASE Look
    <3>1. CASE phase \in Received /\ Stalled
      BY <2>4, <3>1 DEF Look
    <3>2. CASE phase \in {"success", "failed"}
      BY <2>4, <3>2 DEF Look, Received, Importing
    <3>3. CASE ~(phase \in Received /\ Stalled) /\ phase \notin {"success", "failed"}
      <4>1. attempt = MaxAttempts /\ LastLook <= now /\ UNCHANGED <<now, phase, progress>>
        BY <2>4, <3>3
           DEF Look, LookIsDue, NextAttempt, LooksAreOver, LastLook, RecheckTypeOK
      <4>2. phase \in Received => now <= progress + StallAfter
        BY <3>3 DEF Stalled, RecheckTypeOK
      <4> QED BY <4>1, <4>2 DEF RecheckTypeOK
    <3> QED BY <3>1, <3>2, <3>3
  <2>5. CASE Tick \/ UNCHANGED recheck
    BY <2>1, <2>5 DEF RecheckTypeOK, LastLookDecides, LooksAreOver, Tick, recheck
  <2> QED BY <2>2, <2>3, <2>4, <2>5 DEF RecheckNext
<1> QED BY <1>1, <1>2, RecheckTypeCorrect, PTL DEF RecheckSpec

\* An import that died more than StallAfter before the last look has been
\* failed by the time the looks are over (RECHECK_SCHEDULE's last entries).
THEOREM EarlyDeathAlwaysNoticed == RecheckSpec => []EarlyDeathIsNoticed
<1>1. RecheckTypeOK /\ LastLookDecides => EarlyDeathIsNoticed
  BY LastLookType DEF RecheckTypeOK, LastLookDecides, EarlyDeathIsNoticed, Received, LastLook
<1> QED BY <1>1, RecheckTypeCorrect, LooksDecide, PTL

\* However slow downloads are, no look cuts off an import that has begun to
\* store files, nor a download that began within StallAfter of the last look
\* (STALL_AFTER, fail_stalled_import, RECHECK_SCHEDULE).
THEOREM LivingImportAlwaysSpared == RecheckSpec => LivingImportIsSpared
<1> DEFINE Timely == ImportsProgress /\ LooksArePunctual
<1> USE LastLookType
<1>1. RecheckInit => Timely
  BY DEF RecheckInit, ImportsProgress, LooksArePunctual, MaxAttempts
<1>2. RecheckTypeOK /\ Timely /\ [RecheckNext]_recheck => Timely'
  <2> SUFFICES ASSUME RecheckTypeOK, Timely, [RecheckNext]_recheck PROVE Timely'
    OBVIOUS
  <2>1. CASE Receive \/ StoreFile \/ Finish \/ Fail \/ Die \/ UNCHANGED recheck
    BY <2>1 DEF RecheckTypeOK, ImportsProgress, LooksArePunctual, MaxAttempts, Receive, StoreFile,
                Finish, Fail, Die, recheck, Importing
  <2>2. CASE Look
    <3>1. ImportsProgress'
      BY <2>2 DEF RecheckTypeOK, ImportsProgress, Look
    <3>2. attempt \in 1..MaxAttempts /\ now <= Schedule[attempt] /\ now' = now
      BY <2>2 DEF RecheckTypeOK, LooksArePunctual, Look, LookIsDue
    <3>3. attempt' \in {attempt + 1, MaxAttempts + 1}
      BY <2>2 DEF Look, NextAttempt
    <3>4. ASSUME attempt' <= MaxAttempts PROVE now' <= Schedule[attempt']
      <4>1. attempt' = attempt + 1 /\ attempt' \in 1..Len(Schedule) /\ attempt \in 1..Len(Schedule)
        BY <3>2, <3>3, <3>4 DEF MaxAttempts
      <4>2. Schedule[attempt] <= Schedule[attempt'] /\ Schedule[attempt] \in Nat /\ Schedule[attempt'] \in Nat
        BY <4>1
      <4> QED BY <3>2, <4>2 DEF RecheckTypeOK
    <3> QED BY <3>1, <3>4 DEF LooksArePunctual
  <2>3. CASE Tick
    <3>1. ImportsProgress'
      BY <2>3 DEF RecheckTypeOK, ImportsProgress, Tick, Lively, Importing
    <3>2. ASSUME attempt' <= MaxAttempts PROVE now' <= Schedule[attempt']
      <4>1. attempt \in 1..Len(Schedule) /\ ~(Schedule[attempt] <= now) /\ now' = now + 1 /\ attempt' = attempt
        BY <2>3, <3>2 DEF RecheckTypeOK, Tick, LookIsDue, MaxAttempts
      <4>2. Schedule[attempt] \in Nat /\ now \in Nat
        BY <4>1 DEF RecheckTypeOK
      <4> QED BY <4>1, <4>2
    <3> QED BY <3>1, <3>2 DEF LooksArePunctual
  <2> QED BY <2>1, <2>2, <2>3 DEF RecheckNext
<1>3. ASSUME RecheckTypeOK, Timely, Look, phase' = "failed"
      PROVE  \/ phase \in {"dead", "failed"}
             \/ phase = "downloading" /\ progress + StallAfter < Schedule[MaxAttempts]
  <2>1. CASE phase \in Received /\ Stalled
    <3>1. attempt \in 1..Len(Schedule) /\ now <= Schedule[attempt] /\ attempt <= MaxAttempts
      BY <1>3 DEF RecheckTypeOK, LooksArePunctual, Look, LookIsDue, MaxAttempts
    <3>2. Schedule[attempt] <= Schedule[MaxAttempts] /\ Schedule[attempt] \in Nat
      BY <3>1 DEF MaxAttempts
    <3>3. progress + StallAfter < now /\ now \in Nat /\ progress \in Nat
      BY <2>1, <1>3 DEF Stalled, RecheckTypeOK
    <3>4. phase # "storing"
      BY <1>3, <3>3 DEF ImportsProgress
    <3>5. progress + StallAfter < Schedule[MaxAttempts]
      BY <3>1, <3>2, <3>3 DEF LastLook
    <3> QED BY <2>1, <3>4, <3>5 DEF Received, Importing
  <2>2. CASE ~(phase \in Received /\ Stalled)
    BY <1>3, <2>2 DEF Look
  <2> QED BY <2>1, <2>2
<1> QED BY <1>1, <1>2, <1>3, RecheckTypeCorrect, PTL DEF RecheckSpec, LivingImportIsSpared
=============================================================================
