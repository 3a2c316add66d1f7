# PreTeXt.Plus in TLA+

PreTeXt.Plus is a Rails application in which authors edit books together, in a
browser, and have them built by a remote server. This directory holds TLA+ models
of its core logic, the TLC configurations that check them on small instances, and
TLAPS proofs. Three parts are modelled. **Builds**: how one is queued, started,
answered, imported, reviewed, kept and served; nothing there runs in a transaction.
**Editing**: what an author types, alone or with others, on its way through the
code editor, the browser's store, the shared document, the saves, and into the
rows that builds are made from; the document assembled of it; and the pictures and
previews rendered from it by workers.
**Sharing**: who may edit a project and who may see it.

- [Inventory](#inventory) of the system
- [Plan](#plan)
- [Modules and the code](#modules-and-the-code)
- [Runs and bounds](#runs-and-bounds)
- [Fairness](#fairness)
- [Proofs](#proofs)
- [Divergences](#divergences-between-code-and-documentation)
- [Abstractions, and what is not modelled](#abstractions-and-what-is-not-modelled)

To check: `tlc -config MCBuildLifecycle.cfg MCBuildLifecycle`, and likewise for
the other runs of `PROJECT.json`; `tlapm BuildLifecycle_proofs.tla`, and likewise
for `BuildQueue_proofs`, `TargetHistory_proofs`, `Sharing_proofs`,
`CollabDoc_proofs`, `SoloSave_proofs`, `LivePreview_proofs` and `AssetPreview_proofs`.
Each takes from a few seconds to eight minutes.

## Inventory

Paths are below `src/app/` unless they say otherwise. Requests run in Puma
threads, jobs in Solid Queue processes, all over one Postgres at READ COMMITTED;
`ApplicationJob` retries nothing. Browsers talk to it by HTTP and by ActionCable.

| Component | State | Operations | Hard behaviour | What makes it correct |
|---|---|---|---|---|
| **Build lifecycle** (`models/build.rb`, `jobs/full_build*_job.rb`, `controllers/build_callbacks_controller.rb`, `services/build_status_checker.rb`, `services/build_canceller.rb`) | status, `completed_with_errors`, `errors_accepted`, `remote_status_url`, the stored files and zip | submit, webhook, status check, cancel, import, fetch log, accept | every actor reads the row and writes it later, over one unconditional `mark!`; webhooks are lost, late or repeated; jobs die | readers see complete, unmixed, reviewed output only; a build in flight ends |
| **Build queue** (`models/build.rb`, `controllers/builds_controller.rb`) | statuses of all builds, each user's limit | request, Build all, start, promote, cancel, delete | count-then-save and check-then-pick without locks | the cap; first come, first served; nobody waits for ever |
| **Target history** (`models/target.rb`) | `latest_build`, `current_build`, the retained builds | sync, prune, restore, delete | read-then-write of the pointers; a window decided before it is applied | pointers match the rows; served and unresolved builds survive; storage is bounded |
| **Recheck and watchdog** (`jobs/build_recheck_job.rb`, `jobs/build_watchdog_job.rb`) | the attempt number | look, judge an import stalled | a schedule counted from one instant, a threshold from another | dead imports are failed, living ones are not |
| **Serving** (`controllers/build_files_controller.rb`, `published_controller.rb`) | none | read | | serves `current_build` |
| **Collaborative document** (`models/project_doc.rb`, `channels/project_doc_channel.rb`, `jobs/compact_project_docs_job.rb`) | snapshot and tail of updates per project | seed, record, compact, reset | racing seeds; reset while clients are connected; lost relays | one seed wins; an acknowledged update survives |
| **Projection** (`services/project_doc_projection.rb`, `jobs/project_doc_projection_job.rb`) | the project's rows | apply | overlapping projections; edits made after the last one | rows follow the document and never fall back |
| **Provider** (`javascript/controllers/react/collab/yCableProvider.js`) | unacknowledged updates | send, ack, resync, wait | timeouts racing late answers | replicas converge; a flush contains what it waited for |
| **Bridge** (`src/packages/web-editor/src/collab/bridge.ts`) | identity maps between store and document | both directions of every change | an identity reused while its removal is applied | maps stay inverse to each other |
| **Editor save** (`javascript/controllers/react/editor.jsx`) | dirty flag, request in flight, server snapshot | autosave, save, delete | edits during a request | nothing deleted comes back, nothing edited is lost |
| **Projects and content** (`models/project.rb`, `models/content.rb`) | divisions, assets, root | nested upserts, rename, duplicate | ids minted by clients; bulk writes | one root; references are unique |
| **Backups** (`services/project_backup.rb`) | one backup per tier | rotate | promotion and snapshot in one pass | tiers are distinct and ordered by age |
| **Collaboration and ownership** (`models/collaboration.rb`, `controllers/collaborations_controller.rb`) | memberships, invitations, owner | invite, claim, leave, transfer | counted limits; claim racing removal | one membership per user; limit respected |
| **Seats** (`controllers/subscriptions_controller.rb`) | seats of a subscription | assign | | no more seats than bought |
| **Visibility** (`models/project.rb`, `models/target.rb`) | visibility, `published` | publish, make private | each changes the other's column | nothing published in a private project |
| **Publication settings** (`models/publication/`) | nested settings | merge, emit | | defaults under overrides |
| **Source assembly** (`src/packages/web-editor/src/sectionUtils.ts`, `contentConversion.ts`; server side `services/source_assembler.rb`, `project_archive_builder.rb`, `division_source_splitter.rb`) | the last conversion of each division | assemble, qualify, convert, split, build; text and zip | recursion through placeholders; ids copied with what is placed twice; a cache keyed on part of what it depends on | the document is whole whatever its parts are; ids stay apart; a split loses nothing |
| **Generator worker** (`src/packages/web-editor/src/generators/workerRuntime.ts`) | worker, load promise, queue, status | load, render, stop, dispose | a stopped load that answers late; hangs | every render settles; status matches the worker |
| **Editor UI and store** (`src/packages/web-editor/src/components/`, `store/editorStore.ts`) | pools, tabs, the open item, a creation form, held keystrokes | type, open, create, rename, retype, place, remove | keystrokes reach the store half a second late, and one division's source is rewritten on behalf of another | placeholders and divisions agree; words stay where they were typed |
| **Live preview** (`src/packages/web-editor/src/components/LivePreview.tsx`, `previewRenderer.ts`) | the page in the iframe, what it shows, renders in flight, two debounces | render, patch, load, follow the cursor, lay out for print | timers closed over old props; answers out of date; a worker that dies | at rest the page is the text's, around the cursor |
| **Section utilities** (`src/packages/web-editor/src/sectionUtils.ts`, `placementDiagnostics.ts`) | none | read and rewrite placeholders; the tree; check placements | placements that are missing, repeated or circular | the table of contents is the document; what the check passes is sound |
| **Exercise designer** (`src/packages/web-editor/src/exerciseDesigner/`) | a form | parse, serialize | single-threaded | round trips |
| **Mail, digests, announcements, administration** | | | | |

How they interact: a request saves a `Build` and enqueues `FullBuildJob` (or leaves
it queued); that job projects the collaborative document onto the rows, archives
them and posts the archive; the server calls the webhook, or is polled by
`BuildStatusChecker` on behalf of an author, `BuildRecheckJob` or
`BuildWatchdogJob`; either one enqueues `FullBuildArtifactJob`, which stores files,
marks success and prunes. Every status goes through `Build#mark!`, which then
recomputes the target's pointers and, if no slot is held, promotes the next
queued build of the owner.

The hazards found while reading are listed line by line in `PROJECT.json`, with
the property that would catch each, or the module that is to have it.

On the editing side, a keystroke goes into Monaco; half a second later into the
store of the editor (`DivisionEditor`), or, in a collaborative session, at once
into the shared document by the binding and into the store later (`Bridge`). The
shared document travels to the server and to the other tabs (`CollabDoc`) and is
projected onto the rows; without collaboration the host's autosave writes the rows
(`SoloSave`). A generated asset's source is rendered by a worker meanwhile, and the
picture is stored with a digest of what it shows (`WorkerRuntime`, `AssetPreview`).

Whether a session is collaborative at all follows from the project's roster
(`Project#collaborative?`), and the document exists from the first such session to
the removal of the last collaborator (`Sharing`, and `Reset` in `CollabDoc`).

## Plan

1. **Builds** (done): `BuildStatus`, `PublishedOutput`, `BuildLifecycle`,
   `BuildQueue`, `TargetHistory`, `BuildRecheck`; proofs of all four.
2. **Collaboration** (done): `CollabDoc` for the server, the channel, the providers
   and the projection, with `SharedDocument` as the abstract specification it
   implements; `ProjectDoc` and `Bridge` for what the tabs make of the document.
3. **Editing alone** (done): `SoloSave`; `DivisionTree` and `DivisionEditor`;
   `WorkerRuntime` composed with `AssetPreview`; `LivePreview`; `SourceAssembly`,
   `DivisionSource` and `ProjectSources` for the document made of the records.
4. **Sharing** (done): `Sharing` for invitations, claims, limits, transfers, the
   life of the shared document, and publishing against making private; two
   requests at once. Left of it: the rotation of backups (`BackupRotation`).
5. **Pure operators** against reference definitions: the merge of publication
   settings, the entry path of an artifact, the state pill of a target.
6. **More proofs** (done for the generator worker and its pane, `WorkerRuntime`
   and `AssetPreview`); left of it: the identities of `Bridge`.

## Modules and the code

`PROJECT.json` maps every definition to its lines. In outline:

**`BuildStatus`** -- the status words, their groups (`Target::IN_FLIGHT`,
`UNRESOLVED`), `Build.live_candidates` and `awaiting_review?`.

**`PublishedOutput`** -- the abstract specification: output is received, shown,
approved, hidden. It shows nothing incomplete, nothing tainted without approval,
and never changes what is whole.

**`BuildLifecycle`** -- one row of `builds` and every actor on it. `row` is the four
columns that decide anything; `stored` and `zip` are the `BuildFile`s and the
attachment, each remembering the import that wrote it. An actor that reads the
row and later writes it has two actions and a program counter:

| Code | Actions |
|---|---|
| `Build#mark!` | `Mark`, `MarkSubmitted`, `MarkReceived` (inside the others) |
| `promote_next_queued_build!` | `PromotePick`, `PromoteStart` |
| `FullBuildJob#perform` | `JobStart`, `JobSubmit`, `JobRecord`; `JobCrash` |
| build server (external) | `RemoteFinish` |
| `BuildCallbacksController#create` | `HookGuard`, `HookRecord` |
| `BuildStatusChecker#check!` | `CheckAsk`, `CheckReload`, `CheckRecord` |
| `BuildCanceller#cancel!` | `CancelAsk`, `CancelRecord` |
| `FullBuildArtifactJob#perform` | `ImportGuard`, `ImportFile`, `ImportZip`, `ImportFinish`, `ImportEnd`, `ImportFail`; `ImportCrash` |
| `FullBuildLogJob#perform` | `LogReload`, `LogWrite` |
| `BuildRecheckJob#fail_stalled_import` | `StallReload`, `StallRecord` |
| `BuildsController#accept` | `AcceptRead`, `AcceptRecord` |

**`BuildQueue`** -- all builds of several users, each reduced to whether it waits,
holds a slot or is over. A handler is a Puma thread or a job: `Request` reads
`slot_available?`, `Save` stores the row, `Start` is `start!`; `End` is `mark!`
with a status that holds no slot, followed in the same handler by `PromoteCheck`,
`PromotePick`, `PromoteMark`, `Start`. `JobTake` is `FullBuildJob` picking its
build up. Some writers put a build in flight whatever has become of it since they
looked: the job after its POST (`mark!(:sent_to_server)`), a webhook and a status
check that receive (`Look`); `marking` has the builds of those who looked, and
`MarkInFlight` is their mark. `Delete` is any destruction; `ChangePlan` is a subscription starting or
lapsing; `Transfer` gives a project and its builds to another owner. `strained` remembers
that something has happened which the code's count makes no allowance for: two
handlers overlapped, a pending build was canceled, an ended build was marked in flight
by somebody who looked before its end, a build deleted, a plan lapsed, a project
transferred, or somebody built in another's project. `CapRespected` and
`NoStranded` are judged until then, on the same states in which the other
properties are judged throughout.

**`TargetHistory`** -- one target and its builds. `Mark` is followed by
`SyncLatest`, `SyncCurrent`, `SyncWrite` (the three statements of
`sync_from_builds!`) and, when it is an import's success, by `PruneKeep`, `PruneKeepRest`,
`PruneSelect` and one `DestroyRead`/`DestroyCommit` per victim. An acceptance and the
log job read a success (`ReadSuccess`) and write it back whatever has become of it
(`WriteSuccess`), sync and do not prune: `restored` has the builds that became a success
again so. Creations and destructions sync inside their transaction.

**`BuildRecheck`** -- the schedule of looks and the stall threshold against a clock
in ticks of 15 seconds.

**`WorkerRuntime`** -- `createWorkerRuntime`, the main thread's side of a generator's
engine. The microtask queue is a variable, since the order in which awaits resume
is what the code's comments argue about: `Load`, `EnsureWorker`, `StopWorker`,
`Dispose` change one record; `Microtask` runs the head of the queue; `WorkerTask`
is a message, an error, a load or the watchdog. `drain` is the loop over queued
renders, of which only the newest waits.

**`AssetPreview`** -- extends it with `GeneratedAssetPreview.tsx`: the debounce timer
(`TimerFires`), the callback's stages across its awaits (`CallbackStep`), the
hand-over of picture and digest (`HandOver`, `Upload`, `Store`, `UploadFails`) and
the buttons to retry.

**`SharedDocument`** -- the abstract specification of a session: an edit is recorded
before it is acknowledged, what is recorded is never lost, and what is published
grows out of what is recorded.

**`CollabDoc`** -- per tab, `YCableProvider`: `SeedPost`/`Seed`, `Subscribe`, `Handshake`,
`Join`, `Resync`, `Drop`, `Save`/`WhenAcknowledged`/`Flush`/`Flushed`, `Leave`; the editor
stays writable through a save and after it (`Edit`), and `asked` remembers what had been
typed as the save was asked for. On the server
`ProjectDocChannel#receive` (`ReceiveEdit`, `Record`, `RecordFails`), the relay, the
projection in two steps (`ProjectRead`, `ProjectWrite`), by every save and every run of
the job (`JobReads`, `JobWrites`), which overlap as they like: `behind` says that one
which had been overtaken has taken the rows back. Then the destruction of the document with the last collaboration (`Reset`) and a deploy
that changes `SCHEMA_VERSION` (`Deploy`). A Yjs document is the set of updates it
has integrated. Yjs and the sync protocol's library are external.

**`ProjectDoc`**, **`Bridge`** -- the document as a value (entries with a name and a
text, tombstones, last writer wins per field) and `CollabBridge` with the handlers
of `Editors.tsx` that write to it: every `local*` method and every observer, the
joining reconciliation (`Reconciled`), the binding's keystrokes and their late
delivery, and the host's answers to settings, uploads and replacements.

**`SoloSave`** -- `editor.jsx` without collaboration: `working`, `snapshot`, the
requests in the air and the rows. `Save` is `save`; `Autosave` the timer; `Add`,
`Discard`, `Write` the callbacks that send requests of their own; `ServerStep` one
request carried out by the controllers, `AnswerStep` its answer; `Leave`, `Flushed`,
`WaitedOut`, `Go`, `Unload` the ways out of the page. `Created` puts into the snapshot
what the author has by the time a creation is answered, and `past.unsent` remembers the
divisions of which no request has carried that.

**`DivisionTree`**, **`DivisionEditor`** -- a source is a sequence of placeholders,
words and paragraph ends; the first module has what `sectionUtils.ts` makes of
such sources (insert, remove, rename a placeholder; parent, reachable, orphans,
tree, assembled document). The second has the store and the handlers of
`Editors.tsx`: `Debounce`, `Remount` and `Settled` deliver what is held; `TypeWord`,
`TypeRef`, `EraseRef`, `RetagRef` are keystrokes, whose delivery reconciles the pool
(`Reconcile`); `CommitDivision`, `EditMetadata`, `Unplace`, `Delete`, `PlaceInDocument`
rewrite a parent; `Select` and `CloseTab` change what is open. `Rendered` is the
render that follows, with the rule by which the code editor takes over a new text.

**`SourceAssembly`** -- how a document is made of records. A source is a sequence of
tokens (open, close and empty tags with attributes, text, comments, placeholders),
and an identifier a sequence of names, which a placement's `instance` makes longer.
`Resolve`, `Placed` and `Expand` are `resolveDivisionXml` and its siblings with
`expandRefs`; `Qualify` is `qualifyInstanceIdentifiers`, `ApplyAttrs` the attributes a
placeholder passes on; `WithDefaultPreamble`, `EnsureRootLabel` and `Document` make
it a file; `FullSource`, `DivisionPreview` and `RecordPreview` are the three things
assembled. `Unnamed`, `Repeated`, `NameTaken` and `Fixed` are `placementDiagnostics.ts`
and its quick fix.

**`DivisionSource`** -- a division's element taken out of its source and built around
it again: `SplitPretext`, `SplitLatex`, `SplitMarkdown` and `Split`
(`splitDivisionSource`, with its verdict whether the split is lossless), `Wrap` and
`Built` the other way, and `ConvertToPretext`, which splits what a converter returns.

**`ProjectSources`** -- the records of one project under their editor's handlers:
`Write` (a keystroke delivered), `NameInstance` (the quick fix), `EditFields`
(`applyDivisionMetadataEdit`), `RenameRecord`, `CreateRecord`, `DropRecord`,
`RemoveMissing`, `Convert` (`handleConvertToPretext`), `EditDocinfo`, and `Preview`, which
assembles and remembers what it converted. In behaviours of their own, `Migrate` is
`SplitDivisionMetadataOutOfSources` on one row.

**`LivePreview`** -- `LivePreview.tsx` over `createWorkerPreviewRenderer`. `Rerender` is a
React render with new props and the three effects it runs, in the order of their
declaration: the render at once (`Preview`), the cursor's 300 ms (`CursorEffect`) and
the text's second (`ContentEffect`); `Move`, `Type`, `Open`, `ChangeScope` are the
changes. A timer keeps the closure it was set with (`CursorTimerFires`,
`ContentTimerFires`). `WorkerAnswers`, `InlineAnswers` settle a render (`Commit`,
`Reject`, or nothing if it is not the newest), `WorkerFails` hands what is in flight to
the page; `Deliver` patches the iframe or loads it anew, `Loaded` is its load event,
`ChooseLayout` the choice of print layout.

**`Sharing`** -- the accounts and their addresses, the owner, the roster by address
(a collaborator, or an invitation that waits), whether the shared document exists,
the visibility and `published`. Every request has two steps: the action named for
it (`Invite`, `Remove`, `Transfer`, `Register`, `Confirm`, `UpdateEmail`, `Seed`,
`SetVisibility`, `Publish`, `Unpublish`) reads, validates and decides, and `Commit`
writes what was decided in one transaction, or nothing if it meets a unique index
(`Refused`). `ClaimFor` and `LastOnes` are the callbacks inside such a transaction.
`Invite` looks the address up and not the roster; `twice` has those who were invited
while they had a row. `overlapped` remembers that two requests were ever under way at once.

`MC*` modules add symmetry, the constraint on waiting jobs, the schedule, and the
small documents.

## Runs and bounds

| Run | Bound | Shows |
|---|---|---|
| `build_lifecycle` | 1 submission, 2 webhooks, 1 checker (reused), 2 imports, 2 entries, crashes, lost cancel answers, no status URL, truncated logs | `SuccessIsComplete`, `NoMixedOutput`, that all of it implements `PublishedOutput`, and `InFlightResolves`: an outcome, or abandoned for good |
| `build_queue` | 2 handlers, 2 users, 3 builds, limits 1 and 2, every word of `Env`; at most 2 waiting jobs per build | `PendingHasStarter`, `PromotionIsFifo`; `CapRespected` and `NoStranded` until `strained` |
| `target_history` | 2 processes, 3 builds (2 flagged), window of 1, deletions, restores, failing prunes | `ServedIsReviewed`; `StorageBounded`, but for what was `restored`; `PointersSettle` and `PruneSpares` while processes do not overlap |
| `recheck` | the real schedule, 20 ticks (5 minutes), one death, downloads of any length | `EarlyDeathIsNoticed`, `LivingImportIsSpared` |
| `asset_preview` | 2 good sources, one that hangs, one that is refused, one docinfo, 3 calls, 2 edits, 1 fault of load, worker or upload | `NewestWins`, `Consistent` (with `PicturesAreHonest`), `RestIsCurrent`, `RenderSettles` |
| `collab_doc` | 2 tabs, 2 edits, a run of the job beside the saves, 1 fault: a dropped socket, a failed record, a timeout, a deploy, a reset, a lost seed | `SeededOnce`, `SavedIsInRows`, `Consistent`, `Converges`, and that the server implements `SharedDocument` |
| `solo_save` | a root, a division and a record, 2 edits, 2 requests at once, 1 fault: a deploy or a lost answer | `NothingIsLost` but for what is `unsent`, `Consistent` (with `RemovedStaysGone`), `SavesSettle` |
| `bridge` | 2 tabs, 3 transactions, tabs that go offline, answers that get lost | `StoreIsDoc`, `Consistent` (with `PlacedAsNamed` and `RemovedIsGone`), `TypedIsKept` |
| `editor` | an article, second in the pool, with a section; 3 ids, 2 snippets, 1 word, 3 edits, 3 tabs; apart from it, 4 projects with 2 edits and any previews, and every row with up to 2 tokens, bare or in a section, root or not, or 3 bare ones, in 3 formats | `Consistent` (with `PlaceholdersMatch`), `TypedStaysHome`, `TocIsTheDocument`; `DocumentIsWhole`, `PlacementsStayApart`, `SplitIsTheInverse` |
| `live_preview` | a long division with 2 pages and a worksheet, 3 texts (1 not well-formed), 3 changes by the author; a worker that is missing or dies, renders that fail | `RestIsCurrent`, `Consistent`, `RebuildSettles` |
| `sharing` | 3 people, 3 addresses, 2 requests at once, 6 in all, any set of subscribers | `Consistent` (with `OneRowEach` of all but those in `twice`), `DocumentNeedsSharing`, while requests follow one another |
| `transfer_drops_document` | the same, 1 request at a time | violates `DocumentOutlastsSharing` |

A run's `Consistent` is its module's type invariant with the relations between
its maps, tabs, queues or rows that have to hold for the rest to mean anything.

`editor` checks two specifications at once: `MCSpec` is `DivisionEditor`'s behaviours, in
which the records of `ProjectSources` stay empty, and `ProjectSources`' behaviours, in
which the editor stands still. They share no state, since the second has no pending
keystrokes; each property speaks of one of the two.

Why the bounds are enough: two imports and two claimants are what the races on a
row need, and checks, imports that stored nothing, cancels and acceptances can be
repeated without bound; two entries are the fewest that can be mixed. Three builds
of one owner give a promotion an older and a newer rival. Two processes are
enough for every stale pointer, since one sync reads while the other writes; with
a window of one, three builds overflow it. Two tabs are one that writes and one
that has not heard of it; every fault is met by the same resynchronization or
refusal, which one fault exercises at each of its places. Two edits are one that is
under way and one that overtakes it. In the editor two divisions and one more id
give every action a parent, a child and a name that is free; a third level is not
needed, since each rewrite touches a division and its parent. The four projects
are a document with one section, in LaTeX or Markdown, a snippet with a theorem and
an xref to it, a drawing and an exercise, placed in the document, the section or the
snippet, named, unnamed or not at all, with or without what no converter takes; from
them two edits reach a snippet inside itself, a record that is gone, a placement made
twice and one whose fix is taken: one edit breaks something and one meets it. The memory of conversions is
misled by two edits as well as by three (the run also passes with three, in 259,360
states: a source that is retyped, previewed and brought back to what was remembered).
Three tokens are a tag, what is in it and
what follows. Three addresses
are the owner's, a collaborator's and an invitation's. Two submissions of one
build, which two overlapping promotions can cause, are in the proofs of
`BuildLifecycle` (they hold for any set of jobs) and make the state space too
large for a run of every property.

The proved properties hold without any of these bounds.

Each property was also run against a plausible bug in the mapped code (the
`*_...` definitions commented as mutants beside the original), which it catches.

## Fairness

Five runs check liveness, under `FairSpec`; all of it is weak fairness, and nothing
is assumed of authors, or of anything the network may lose for good.

- `InFlightResolves`: Solid Queue runs every job it has; a request or job that has
  begun runs to its end unless its process is killed; the build server bounds a build
  by its own timeout; `BuildWatchdogJob` recurs every five minutes
  (`config/recurring.yml`) and checks a build in `sent_to_server` that has a status
  URL. Nothing is assumed of webhooks, or of `BuildRecheckJob` after its last look.
  Some builds are never heard of again, and `Abandoned` says which: nothing retries a
  job whose process was killed, asks about a build without a status URL, or takes the
  server's "canceled" for an outcome when our own cancel never heard of it. With `Env = {}` none of that happens,
  and every build reaches an outcome.
- `RenderSettles`: the browser runs its microtasks and timers; a worker that was
  created either loads, answers, fails, or is caught by the watchdog; the
  component's callbacks go on after their awaits. An upload need not end.
- `RebuildSettles`: a render, by the worker or by the page, comes to an end, well or
  not; a timer that is set goes off. Nothing is assumed of a worker that dies.
- `Converges`: a tab that is subscribed handshakes, and one that is out of step asks
  again (`Resync`, a timer); frames *addressed* to a tab on a connection that stays
  up arrive (one socket is ordered); the projection job runs, as `recurring.yml` has
  it every minute. Every broadcast may be lost.
- `SavesSettle`: what was typed reaches the host (`ReportTyped`), the autosave timer
  fires, the server handles a request and its answer, or the request's failure,
  comes back. No promise that a save succeeds.

## Proofs

The modules named `..._proofs` prove the properties below for every number of jobs,
webhooks, checkers, imports, entries, users, handlers, builds, processes, addresses,
requests, tabs, edits, divisions, records, texts, pages, renders and faults, every window
of kept builds and every schedule of looks. They assume only
the named `ASSUME`s: that counts are naturals and tabs finitely many, that `NoJob`,
`NoImport`, `None`, `Pending`, `Gone` and `"job"` are none of the things they stand
beside and divisions no records, that an input of a generator is a pair (`PairAssumption`)
and `NoInput` is not one that could be made of two of them, that a schedule is not empty and
in order, and which words `Env` may hold. Where a property needs one of those words
absent, its theorem says so and the run that checks it leaves the word out too
(`AlwaysSeededOnce`, `SavedAlwaysInRows` and `KeepsThePromise`; `NothingIsEverLost` and
`SavesStayConsistent`; `RestIsAlwaysCurrent`; `CurrentAtRest`, `PicturesHonest` and
`PaneConsistent`, which take the docinfo to stay as it is, as the run does):
the section on divergences shows what each of those words does.

**`BuildLifecycle`**: `TypeCorrect`, then `Invariance` of `IInv`. No property is
inductive alone. `SuccessIsComplete` has three late writers to fear -- the log job,
an acceptance, the import -- so `SuccessWritersAreRight` says each of them holds
its evidence, and `ImportsOwnTheirPrefix` that an import past entry *n* stored
entries 1..*n* itself: that is the unique index at work, since it stops the loser
at its next entry. `FirstEntryFirst` then makes the first entry decide the winner,
from which `NoMixedOutput` follows. For errors, `AnswersAreFinal` (an answer held
is the server's last word) and `ImportsHaveArtifact` say that the row is flagged
before an import that could taint it starts, and `StoredHasArtifact` carries it to
what is stored after the import has gone. What webhook and checker share is in
the lemmas `RecordAnswerTypes`, `RecordAnswerKeeps` and `RecordAnswerSettled`.
`SuccessAlwaysComplete`, `OutputNeverMixed`, `UnreviewedNeverLive` and
`AcceptedAlwaysExists` read the properties off. `Refinement` proves that every
step is a step of `PublishedOutput` or stutters.

**`BuildQueue`**: `TypeCorrect`; `Invariance` of `IInv`, which adds to
`PendingHasStarter` that builds are made in order and that a picked build stays the
oldest of the queue until it is marked (new ones are younger, and none goes back
to queued); `AlwaysFifo` proves the action property from it. `CapAlwaysRespected` and
`NeverStranded` come of `CountInv`, which says of everything before `strained`: at most
one handler is at work; its reading of the slots still holds (a free slot it saw is
free, a build it picked is queued, one it marked pending has no job yet); jobs wait
for pending builds only, one each, and who is about to mark a build in flight looked at
one that was, so that it is running still or has ended, and in the latter case the mark
strains the count; and whoever has a build queued is watched, by a
build in flight whose end will promote it or by a handler about to. The count itself
is three lemmas about finite sets (`BuildsAreCounted`, `OneMoreFits`, `FullMeansBusy`).

A transfer changes owners, so `Transfer` is kept from the instant between the pick
of a build and its mark: there it would put older builds of the new owner beside
the picked one, and `PromotionIsFifo` would be judged by an owner who did not pick.

**`TargetHistory`**: `ServedAlwaysReviewed` needs `ReadsAreReviewed`: whatever any
process has read to write as `current_build` was reviewed when it read it, and
acceptances are not taken back, so no overlap matters. `PointersAlwaysSettle` and
`PruneAlwaysSpares` come of `SettleInv`: until two processes overlap at most one is
at work (`OneMoves`), and `PlaceHolds` says place by place what it has read still
is -- the row being saved is unseen, the pointers read are the newest rows, and what
it is to destroy (`Doomed`) are rows, none of them unresolved or served when it is the
window that destroys them. That the newest of a set of builds is in it
(`MaxIsThere`) is the well-foundedness of the naturals, cited from the library.

`StorageAlwaysBounded` holds under every overlap, by `StorageInv`, of all successes but
the `restored` ones, which nobody prunes before the next import. A success that an
import has just saved is its own to prune, so what counts is the order in which the
processes chose their windows, and the invariant says there is one: for each process
in its window, all that was a success as it chose -- but for the builds of those that
chose later or are still to -- is within what it spares (`Leaves`). Choosing puts a
process last (`StepThatChooses`); ending hands what it leaves to everybody before it
(`StepThatEnds`); a failed destruction takes the process's own build out with it; and
the row that is spared as the newest is one too many only if all of the window has
gone meanwhile (`RestLeavesLittle`).

**`BuildRecheck`** (proved in `BuildLifecycle_proofs`, which extends both modules): `LastLookDecides` says that once the looks are over the build has
its answer or the last look is past and what it spared had shown life since
`StallAfter` before it; `EarlyDeathAlwaysNoticed` is that for a dead import.
`LivingImportAlwaysSpared` holds however long downloads take. It needs that an import
which has begun to store files is never `StallAfter` behind (`ImportsProgress`: the
module has it store a file that often, as the comment on `STALL_AFTER` takes for
granted) and that looks are taken on time (`LooksArePunctual`), so that one which fails
a download as stalled finds it begun more than `StallAfter` before the last look.

**`Sharing`**: `TypeCorrect` goes with `Accounted`, under any overlap: whoever owns the
project, is on its roster or is about to has an account, since accounts are not
deleted. `SharingStaysConsistent` and `DocumentOnlyWhileShared` come of `SInv`: until
two requests overlap, at most one is under way, `Decided` -- what it read still holds and
its transaction is one of those that requests make -- and the roster is sound:
accounts apart, rows apart, the owner on none, no invitation stranded, few rows, and
one row for whoever is not in `twice` (`RosterSound`). `BeginAlone` shows that a request decides so, `CommitAlone` that what
it then writes leaves everything sound, one step per kind of request.

**`CollabDoc`**: `TypeCorrect`, under any environment; the rest by three inductive
invariants, each resting on the one before. `LInv`: whatever a tab still in the
session holds, whatever is on a socket and whatever the server stored was written in
the server's present layout (`Spoken`), since a tab of another layout is turned away
before it sends anything. With the types this is `DocumentStaysConsistent`. `SeedInv`:
the stored document has one seed, every open tab has it and no other, and a
handshake's difference carries it. `AlwaysSeededOnce` follows,
if no document is dropped under its tabs and no session opens without one (`Orderly`).
`RowInv`: an edit that was acknowledged is in what is never lost (`Kept`: the document,
or the rows once it is dropped), what a save waits for is in the projection that it
started, and stays `Kept` once it is answered (`SavesAreSound`); and since a document
only grows, the rows and all that the overlapping projections have read are versions of
it, one within the other (`ProjectionIsSound`, `Comparable`). A projection that no other
has overtaken (`~late`) has read at least what the rows say and what every answered save
asked for, so that writing it takes nothing back and heals what an overtaken one took.
From it come `SavedAlwaysInRows`, and `KeepsThePromise`: the
session implements `SharedDocument`, whose states are what authors made, what was
promised them and what the rows hold. Of the steps, those that matter are the
acknowledgement (the update is recorded, `AckedHolds`) and the write of the rows.

**`SoloSave`**: every action is one of two kinds, and the proofs are about those. In a
`ClientStep` the copies move in one of three ways (an answer is taken or keystrokes
are reported, a division is added, an item is removed from both copies) and what is
sent speaks of the copies as they then are (`Honest`); in `ServerMoves` a request is
carried out or not. `TypeCorrect` holds in any environment and needs only that what is
created is a division. The other two are under `Steady`, the server taking the
requests in turn and no source being typed back: what is written is then newer the
larger its number, and `LossInv` is about that order. The rows are at least what the
snapshot says (`SnapSound`), except of a division whose text came into it unsent, and at most what the working copy has (`WorkSound`), so
they are equal to it, but for the text unsent, when the two agree, which is what the dirty check asks
(`CleanIs`). For this to last, each request in the air is `Sound`: it writes nothing
newer than the working copy and, until it is carried out, nothing older than the rows
or destroyed; what a save leaves out of its sources is stored already; and of two that
are still to be carried out, the later writes nothing older than the earlier, nor what
that one destroys (`Before`). `SavesAreValid` and `RemovedStaysGone` follow of `Sound`
and of the rows' share (`RowsSound`): a record's row is gone only when its removal was
carried out.

**`LivePreview`**: `PaneIsConsistent` holds in any environment. "Rebuilding" is said
exactly while the newest render is owed (`RendersAreCounted`), which needs that it is
owed once, by the worker or in the page, and that no token is above it (`CountInv`; the
lemmas `AskAdds`, `DeliveryTakes` and `TakingOver` say what asking, an answer and the
worker's death do to the two queues). `TimersAreOurs` needs that a cursor's timer is
set only with a cursor known. `RestIsAlwaysCurrent` is under `Calm`: what was asked for
last is the open division's text or a timer is still to ask for it (`AskedInv`), the
newest render on its way is of that, narrowed as the props say (`NewestIsWanted`), and
when none is, it is what is on screen (`ScreenInv`).

**`WorkerRuntime` and `AssetPreview`**: the functions of `workerRuntime.ts` are operators
from a record to a record, and `Inv` is about such a record, so that each of them is
shown to keep it by a lemma (`...Keeps`) before any action is. Its core is `Mode`: the
runtime is at rest, loading, telling those who wait how a load went, up, refused, or at
one of two places of an answered render; and the mode says what the microtask queue
holds, who awaits what and where the drain loop is. Beside it, the load promise's worker
is the only engine that runs (`Engines`), who waits is in order of arrival (`Line`), the
calls that wait are the queue and the job is older than all of them (`Queue`, `Drain`),
and workers are not used up before faults and calls are (`Count`). That two branches of
the code are never reached comes of it: the drain loop finds a worker whenever it
ensures one, and a call that awaits the worker is not met by a start that throws.
`NewestWinsHolds` and `OneEngineHolds` follow, in any environment. Of the pane, a call, its
callback, what is shown and what is stored move in few ways each (`CallMoves`,
`StageMoves`, `ShownMoves`, `StoreMoves`). `SourcesAreHonest`: what is shown or stored
is named after the source it is of, in any environment; `PicturesHonest`: and after the
docinfo, if that does not change meanwhile. `HungOnce` is by `NothingFails`: without a
fault the status, once ready, stays so, and each callback is of an edit of its own.
`CurrentAtRest` is under `Steady`, that is without the words that the table of divergences
lists for it. The last source shown has the newest call (`AskedLatest`); where that
succeeded, its picture was sent or is stored already (`Succeeded`), and what was sent is
stored, on its way, or reported as failed (`Stored`: uploads arrive in order, and the last
is of the current source); where it failed, that shows, since no older call can
succeed after it and take the message away (`FailsQuietly`, `FailureIs`).

Only model-checked: liveness; and everything outside these eight modules, that is the
properties of `Bridge`, `DivisionEditor` and `ProjectSources`. Induction over what a
recursive operator or a fold computes is out of the prover's reach, and so are the modules
that use one (`DivisionTree`, `SourceAssembly`, and whatever extends them; `Bridge`, which
folds over what a transaction changed).

## Divergences between code and documentation

One is a run that expects a violation; TLC's trace is the scenario.

| Run | Said | Done |
|---|---|---|
| `transfer_drops_document` | `models/project.rb:317`: the document is dropped "when the last collaboration is removed: from then on the owner edits solo" | a transfer to the only collaborator destroys that row first, `after_destroy` finds none left and drops the document, and the previous owner's row follows; the project was shared all along |

The same models show the following when a run is given other constants. Some
are races of two statements, some are sequences the code makes no allowance for,
some contradict a comment; each was reproduced with the constants named. A word in
braces is the value of `Env`, where the run's own has further words they are kept
unless it says *only*.

| Property | Run's cfg, with | What happens |
|---|---|---|
| `CanceledIsTerminal` | `MCBuildLifecycle.cfg` | `models/build.rb:11`, `docs/build-targets.md:167`: canceled is terminal; `FullBuildJob` marks any build in progress (`jobs/full_build_job.rb:17`), and so do late writers |
| `SuccessNotImportedAgain` | the same | the check's reload tests `received_from_server?` only (`build_status_checker.rb:60`): a success is received and imported again |
| `SuccessNotImportedAgain` | the same, {truncated_log} only, `Checks = {}` | `FullBuildLogJob` reloads, the import says success, the log job writes `received_from_server` back ("reload is what keeps this from writing back the stale one", `full_build_log_job.rb:26`); nothing moves the build again |
| `CapHolds` | `MCBuildQueue.cfg`, {} | two requests read the same free slot (`builds_controller.rb:138`) |
| `NobodyWaitsInVain` | the same | a row is saved as queued after the last promotion looked (`build.rb:161`) |
| `CapHolds`, `NobodyWaitsInVain` | one handler, {collaborator} | `user.rb:109`: "across every project they own or collaborate on"; only owned projects are counted (`build.rb:58`) |
| `CapHolds` | one handler, {} | a build in progress is canceled while its job is posting it: it has no status URL, so it is marked and the next promoted at once (`build_canceller.rb:38-39`); then the job's `mark!(:sent_to_server)` takes the slot back (`full_build_job.rb:61`) |
| `CapHolds` | one handler, {cancel_pending} or {lapse} | a canceled build's job starts all the same; nothing stops what a lapsed plan no longer covers |
| `NobodyWaitsInVain` | one handler, {delete} | `build.rb:160`: "every time a build stops occupying a slot"; `destroy!` promotes nobody (`builds_controller.rb:125`) |
| `CapHolds`, `NobodyWaitsInVain` | one handler, {transfer} | a project brings its running builds into the new owner's slots and its queued ones into a queue nobody promotes (`project.rb:295`, `build.rb:168`) |
| `StallIsNoticed` | `MCBuildRecheck.cfg` | `build_recheck_job.rb:46`: two looks still to come once it passes; true only of imports that stop in the build's first minute |
| `LivingImportIsSpared` | the same, without its second disjunct | a download longer than `STALL_AFTER` shows no progress (`build_recheck_job.rb:44`: "a slow but living import of a large site is never cut off part way") |
| `StorageBounded` | `MCTargetHistory.cfg`, without `\ restored` | an acceptance (`build.rb:109`) or the log job (`full_build_log_job.rb:29-30`) marks a build a success again that had moved off it, and prunes nothing (`target.rb:86-91`, "unbounded history is a storage bill") |
| `RestIsCurrent` | `MCAssetPreview.cfg`, {upload_failure} with {undo}, {retry_overtaken} or {reorder} | after a failed upload the pane believes the older picture current when the source is typed back (`GeneratedAssetPreview.tsx:149`), retries with the failed picture after a newer one was stored (`:242`), or has two uploads arrive the other way round |
| `Consistent` | `MCAssetPreview.cfg`, `Inputs <- WithDocinfo`, `Hangs <- Nothing`, `Bad <- Nothing` | a render that yields to a newer one is given the newer's picture and source, and joins to that source the docinfo it was asked under itself (`GeneratedAssetPreview.tsx:138-139`; `60-61`: "with the digest of exactly the source rendered"). When the docinfo has changed in between, the picture is shown, and after a change back stored, under a docinfo it is not of |
| `SavedIsInRows` | `MCCollabDoc.cfg`, without `~behind` | two projections overlap and the older writes last, so that rows fall back behind a save that was answered, until the next projection (`project_doc_projection.rb:13-15`: safe "to run on a timer, before a build, or twice at once") |
| `SeededOnce`, `SavedIsInRows`, `ImplementsSharedDocument` | the same, {reset_live, reset} only | the last collaborator is removed under a tab with unprojected edits: they go with the document, and the tab goes on in a document that is gone |
| `SeededOnce` | the same, {empty_session, seed_lost} only | the first seed does not reach the server, and the session opens over an empty document |
| `CleanIsStored`, `LeftIsStored` | `MCSoloSave.cfg`, without `\ past.unsent` in `Stored` | the record of a new division is one object in the working copy and in the creation's callback, which copies it into the snapshot after the await (`editor.jsx:893-911`): what is typed into it meanwhile (`776-780`) reads as clean, is never sent, and the author leaves unwarned ("a distinct object per pool keeps the working copy and snapshot from aliasing", `909-910`) |
| `CleanIsStored`, `LeftIsStored` | the same, {undo} or {reorder} | typing back what was there before the save in flight reads as clean (`editor.jsx:1447-1449`); the server may handle a save and a creation in the other order, after which `RemovedStaysGone` and `SavesAreValid` fail too |
| `RemovalIsUnsavedWork` | the same, `Spec` | a division whose removal failed is not unsaved work to the dirty check (`editor.jsx:698` against `313-314`) |
| `StoreIsDoc`, `RemovedIsGone` | `MCBridge.cfg`, {old_page}, {renamed_under} or {same_name} | joining matches divisions by `xml:id` (`bridge.ts:551`), so one renamed since the page was read comes twice, which `590-593` avoids for assets ("would leave the old one behind as a duplicate"); a rename under edits that have not been integrated, or a new division under a name just given up (`bridge.ts:706`), unmaps the wrong one |
| `StoreIsDoc`, `TypedIsKept` | the same, {slow_host} | an answer of the host rewrites divisions and the record as they were when it was asked (`Editors.tsx:1862-1882`; `bridge.ts:12-14` promises that a rewrite merges with concurrent typing) |
| `Consistent` | `MCDivisionEditor.cfg`, {same_content} | two items with one text: on a change between them the code editor sees the text it was given before and keeps its buffer |
| `TypedStaysHome` | the same, {switch} | typing in a second item while keystrokes of the first are held |
| `PlaceholdersMatch`, `TocIsTheDocument` | the same, {twice} or {cycle} | a division placed twice, or below itself, by hand |
| `PlaceholdersMatch` | the same, {fast_hands} | an id is given, changed or deleted while a placeholder of it is still held by the debounce |
| `RootIsTheDocument` | the same, {root_renamed} | `initial.current.rootDivisionId` is captured once (`editor.jsx:1798`), so after the root's id is edited `findRootDivision` falls back to the first of the pool; `editor.jsx:972` says the id is kept pointing at it |
| `RestIsCurrent` | `MCLivePreview.cfg`, {move_while_rendering} | `LivePreview.tsx:773`: "Follow the cursor out of the rendered division"; a cursor that moves while a render is under way is compared with the page about to be replaced, and its effect does not run again for the one that arrives (`789`). |
| `RestIsCurrent` | the same, {scope_while_typing} | the content's timer is closed over the scope of the keystroke (`803`) and puts the page of the old scope back |
| `RestIsCurrent` | the same, {quick_undo} | the cursor's timer renders the text of the render that set it; with the text undone since, the content's effect finds it asked for already (`797`) |
| `LandsHere` | `MCLivePreview.cfg` | a page turned by the cursor has not loaded when another division is opened: its landing line is used on that division's page (`723-727`) |
| `OneRowEach` | `MCSharing.cfg`, of all users, not `Users \ twice` | a collaborator whose address has changed is invited again under the new one and holds two rows; only claims ask (`collaborations_controller.rb:138`, `collaboration.rb:49-50`) |
| `OneRowEach`, `NobodyStranded`, `WithinLimit`, `NothingPrivateIsPublished`, `KeptForSharing` | `MCSharing.cfg` | two requests at once: an invitation lands after a transfer to the invited, or after they registered; two invitations pass the limit's count (`collaboration.rb:69`); a publication lands after the project turned private (`project.rb:541`); two removals each leave the document to the other |

The check of placements promises to keep identifiers unique
(`placementDiagnostics.ts:1-3`); `PlacementsStayApart` holds of the documents that
`Checkable` describes, and not of the rest, of which nothing is reported: a snippet or
a division placed twice that places something itself (with image g unnamed in
snippet n, n placed as "s" gives g the id that a direct placement of g as "s" has:
`n-s`, `g-s` twice, as instances are joined with a hyphen, `sectionUtils.ts:1452-1477`);
placements inside exercises; and a placement that passes `label` or `xml:id` on to a
snippet of several elements, which `sectionUtils.ts:3041-3044` calls "merely redundant".
The quick fix of a *repeated* instance writes a second `instance` after the first, which is
the one that is read, so the problem stays (`sectionUtils.ts:1491-1504`).
`DocumentIsWhole` fails without its `misleading` entries: the cache of conversions is keyed
on the source wrapped in its own format (`sectionUtils.ts:2905-2907`), which shows no
attributes for LaTeX and neither type nor title for a LaTeX introduction. An edit of those
alone is answered with the old XML, and so is a chain of edits that all show: a section
made an introduction, previewed, made a section without its title and an introduction
again comes back with the title, where `2808-2811` has "never a wrong answer". And
`sectionUtils.ts:1973-1976` says that a header's star does not count against a lossless
split; the code and its test say it does.

Under overlapping processes `TargetHistory`'s pointers are left wrong until the next
sync (`target.rb:267`: "can never drift"; `300`, `306`). Further, from reading: a load
that fails leaves its worker running (`workerRuntime.ts:171-176`); whole-record
writes revert a concurrent rename (`schema.ts:255-264`); a division inserted into a
document whose last element is a paragraph lands inside it
(`sectionUtils.ts:1565-1589`); renaming or removing a record rewrites its
placeholders in divisions, and leaves those in snippets and exercises; placeholders in
comments and verbatim text are expanded, while every reader of placeholders skips
them; a LaTeX introduction whose conversion fails is still offered to be converted
(`Editors.tsx:1319`), which stores the error's comment as its text; an address corrected by an administrator claims
nothing until it is confirmed (`admin/users_controller.rb:28-35`), which is why
`NobodyStranded` leaves those out.

## Abstractions, and what is not modelled

- `mark!` is one action on the row in `BuildLifecycle`; the sync and the promotion
  that follow are in `TargetHistory` and `BuildQueue`, where every statement of
  them is a step. Broadcasts are left out.
- Logs, entry paths, zip contents, HTTP codes and exceptions are reduced to which
  branch they take. A blob that fails to attach counts as an import that fails.
- `created_at` is stamped when the INSERT runs; creation order and save order are
  one here (`BuildQueue`), while `TargetHistory` lets a build be committed late.
- In `BuildQueue` a handler that loaded a row before its deletion and marks it
  afterwards is a step that changes nothing, except for the promotion it starts,
  which is left out; it would only promote more.
- `PointersSettle` and `PruneSpares` are judged while processes take turns: that two
  syncs leave a stale pointer, or that a window destroys what has become unresolved or
  served since it chose, is reported below the table and not caught. `LivingImportIsSpared`
  takes an import that has begun to store files to store one every `StallAfter`.
- `TargetHistory` says `failed` for canceled and `unresolved` for five statuses,
  and `Mark` may write any of them to any build at any time: more than the
  lifecycle allows. Its two keep-queries and third are two steps.
- Time in `BuildRecheck` runs in ticks of 15 seconds, so the looks at 3, 7 and 15
  seconds fall on two ticks; jobs run on the tick they are due on.
- A build that died with its worker (`pending` or `in_progress` for ever) is
  reachable, and no property promises otherwise: nothing in the code recovers it.

- A Yjs document is a set of updates, or of entries with tombstones and last
  writer wins per field; within a text only whole words are told apart. Yjs, the
  sync protocol's library, Monaco and the build server are external.
- In `Bridge` a division's text is the set of its placeholders and words; their
  order is `DivisionTree`'s. A division's name stands for its other fields too (title,
  type, format), each a last-writer register; that a join reconciles the fields of a
  division the document already has one by one (`bridge.ts:551-569`) is left out.
- In `CollabDoc` the document is dropped by `Reset` only when all of it is in the rows, and
  a second save with nothing typed in between is left out.
- `SoloSave` reduces an item to a number per edit; titles, docinfo and the fields of
  a division travel with the sources and are left out.
- Sources in `SourceAssembly` are tokens: white space, quotes, entities and the order
  of attributes are left out. The converters of LaTeX and Markdown are external, and
  replaced by what their callers rely on: one element named after the division, its
  title, its text, or a failure. Of a division's own references only its id is there, so
  that a split could lose one by another attribute would not show. Word imports (`splitImportedDivisions`) use the same
  split and look at no verdict; they are not modelled.
- `LivePreview` has the pages of a division as values, one of which holds the cursor.
  An edit that moves a page's lines is left out, and so are decks, the theme, the path
  by a build server, and a change of the context source alone, which renders nothing.
- In `Sharing` a commit checks only what the database checks; validations were
  made when the request decided. A page of the editor that stays open is a `Seed`
  that has begun. The hourly allowance of invitations only removes requests.

Not modelled yet: the rotation of backups, the merge of publication settings.
Partly: the server's own assembly of a build's archive; find and replace and pools the host replaces;
presence and compaction of the document; creating, copying and importing
projects; which seats a subscription has. For good, since they only read, format
or render: serving, mail and administration, the text that the conversions between
PreTeXt, LaTeX and Markdown produce, the search of built pages
(`src/public/`), the exercise designer.
