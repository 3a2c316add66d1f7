---------------------------- MODULE AssetPreview ----------------------------
(***************************************************************************)
(* The preview pane of a generated asset (GeneratedAssetPreview) over the  *)
(* runtime of its generator, and the storing of what it renders: Editors'  *)
(* handleAssetOutput and the host's onAssetOutput.                         *)
(*                                                                         *)
(* The author types; React renders the pane some time later, and its       *)
(* effects load the engine or set the debounce timer; the timer's callback *)
(* awaits the runtime, then two digests, and hands the picture over to be  *)
(* uploaded.  Every await is a place where the author may have typed on.   *)
(* A picture is named by the input it was rendered from, a digest by the   *)
(* input it is of; an input is a pair of source and docinfo.               *)
(***************************************************************************)
EXTENDS WorkerRuntime, FiniteSets

CONSTANTS
    MaxEdits,   \* bound on the author's edits
    NoInput

ASSUME PairAssumption == \A i \in Inputs : i = <<i[1], i[2]>>
ASSUME NoInputAssumption == NoInput \notin {<<i[1], j[2]>> : i, j \in Inputs}
ASSUME EditsAssumption == MaxEdits \in Nat

VARIABLES
    input,      \* what the buffer holds, and how many edits made it
    shown,      \* the props and status of the pane's last render
    armed,      \* the debounce timer is set (for what is shown)
    stage,      \* where each call's callback is, with what it has computed
    rendered,   \* the picture on screen
    sent,       \* sentDigests
    uploads,    \* the requests that store a picture, in order
    row,        \* the picture the server has
    asset,      \* previewInputDigest of the asset in the editor's pool
    error       \* renderError and saveFailure

pane == <<input, shown, armed, stage, rendered, sent, uploads, row, asset, error>>
vars == <<runtime, pane>>

Digests == {<<i[1], j[2]>> : i, j \in Inputs}
Optional == Digests \cup {NoInput}
Output == [picture: Inputs, digest: Digests]
NoOutput == [picture |-> NoInput, digest |-> NoInput]

TypeOK ==
    /\ RuntimeTypeOK
    /\ input \in [value: Inputs, edits: 0..MaxEdits, seen: SUBSET Inputs]
    /\ shown \in [status: Status \cup {"unmounted"}, value: Inputs, edits: 0..MaxEdits]
    /\ armed \in BOOLEAN
    /\ stage \in [Calls -> [pc: {"none", "awaiting", "digest", "compare", "over"},
                            edits: 0..MaxEdits, digest: Optional, now: Optional, asset: Optional]]
    /\ rendered \in Output \cup {NoOutput}
    /\ sent \subseteq Digests
    /\ uploads \in Seq(Output)
    /\ row \in Output \cup {NoOutput}
    /\ asset \in Optional
    /\ error \in [render: BOOLEAN, save: Output \cup {NoOutput}]

Init ==
    /\ RuntimeInit
    /\ \E i \in Inputs :
        /\ input = [value |-> i, edits |-> 0, seen |-> {i}]
        /\ shown = [status |-> "unmounted", value |-> i, edits |-> 0]
    /\ armed = FALSE
    /\ stage = [n \in Calls |->
            [pc |-> "none", edits |-> 0, digest |-> NoInput, now |-> NoInput, asset |-> NoInput]]
    /\ rendered = NoOutput
    /\ sent = {}
    /\ uploads = <<>>
    /\ row = NoOutput
    /\ asset = NoInput
    /\ error = [render |-> FALSE, save |-> NoOutput]

-----------------------------------------------------------------------------
\* The author types: something new, or what was there before.
Edit ==
    /\ input.edits < MaxEdits
    /\ \E i \in Inputs \ {input.value} :
        /\ i \in input.seen => "undo" \in Env
        /\ input' = [value |-> i, edits |-> input.edits + 1, seen |-> input.seen \cup {i}]
    /\ UNCHANGED <<runtime, shown, armed, stage, rendered, sent, uploads, row, asset, error>>

(***************************************************************************)
(* A render of the pane, when the props or the runtime's status changed,   *)
(* and its effects: an idle engine is loaded; the timer is set anew if the *)
(* engine is ready, and cleared otherwise.  React renders in a task of its *)
(* own, when no microtask of the runtime is waiting.                       *)
(***************************************************************************)
PaneRenders(throws) ==
    LET now == [status |-> rt.status, value |-> input.value, edits |-> input.edits] IN
    /\ rt.micro = <<>> /\ shown # now
    /\ shown' = now
    /\ armed' = (now.status = "ready")
    /\ IF now.status = "idle" /\ shown.status # "idle" THEN Load(throws)
       ELSE ~throws /\ UNCHANGED runtime
    /\ UNCHANGED <<input, stage, rendered, sent, uploads, row, asset, error>>

\* "Try again" beneath an engine that could not be loaded.
RetryEngine ==
    /\ rt.micro = <<>> /\ shown.status = "failed"
    /\ Load(FALSE)
    /\ UNCHANGED pane

\* A digest of a few kilobytes takes less than a millisecond: no timer goes off
\* and no worker answers in the middle of one.
Digesting == \E n \in Calls :
    stage[n].pc \in {"digest", "compare"} \/ call[n].pc \in {"resolved", "rejected"}

\* The timer's callback asks for a picture of what its effect saw.
TimerFires(n, throws) ==
    /\ armed /\ rt.micro = <<>> /\ ~Digesting
    /\ armed' = FALSE
    /\ Render(n, shown.value, throws)
    /\ stage' = [stage EXCEPT ![n].pc = "awaiting", ![n].edits = shown.edits]
    /\ UNCHANGED <<input, shown, rendered, sent, uploads, row, asset, error>>

\* The source is the rendered one, the docinfo the closure's.
DigestOf(n) == <<call[n].result[1], call[n].input[2]>>

\* Its digest is awaited from the moment the picture comes.
PictureComes(n) ==
    /\ stage[n].pc = "awaiting" /\ call[n].pc = "resolved"
    /\ call' = [call EXCEPT ![n].pc = "over"]
    /\ stage' = [stage EXCEPT ![n].pc = "digest", ![n].digest = DigestOf(n)]
    /\ UNCHANGED <<rt, waiting, drain, faults, input, shown, armed, rendered, sent, uploads, row,
                   asset, error>>

\* The catch: the engine refused, or is gone.
PictureFails(n) ==
    /\ stage[n].pc = "awaiting" /\ call[n].pc = "rejected"
    /\ call' = [call EXCEPT ![n].pc = "over"]
    /\ stage' = [stage EXCEPT ![n].pc = "over"]
    /\ error' = [error EXCEPT !.render = TRUE]
    /\ UNCHANGED <<rt, waiting, drain, faults, input, shown, armed, rendered, sent, uploads, row,
                   asset>>

\* The picture is shown, and what the pane shows now is read, to be digested.
PictureShows(n) ==
    /\ stage[n].pc = "digest" /\ rt.micro = <<>>
    /\ rendered' = [picture |-> call[n].result, digest |-> stage[n].digest]
    /\ error' = [error EXCEPT !.render = FALSE]
    /\ stage' = [stage EXCEPT ![n].pc = "compare", ![n].now = shown.value, ![n].asset = asset]
    /\ UNCHANGED <<runtime, input, shown, armed, sent, uploads, row, asset>>

\* Mutant of Wanted: only the first picture is handed over.
Wanted_once(n) == stage[n].digest = stage[n].now /\ sent = {}

\* Whether the host is handed the picture.
Wanted(n) ==
    /\ stage[n].digest = stage[n].now
    /\ stage[n].digest # stage[n].asset
    /\ stage[n].digest \notin sent

Store(output) ==
    /\ sent' = sent \cup {output.digest}
    /\ uploads' = Append(uploads, output)
    /\ error' = [error EXCEPT !.save = NoOutput]

HandOver(n) ==
    /\ stage[n].pc = "compare" /\ rt.micro = <<>>
    /\ stage' = [stage EXCEPT ![n].pc = "over"]
    /\ IF Wanted(n) THEN Store([picture |-> call[n].result, digest |-> stage[n].digest])
       ELSE UNCHANGED <<sent, uploads, error>>
    /\ UNCHANGED <<runtime, input, shown, armed, rendered, row, asset>>

\* "Try again" beneath a picture that could not be saved, which the author
\* may have typed past since.
RetrySave ==
    /\ error.save # NoOutput
    /\ error.save.digest # input.value => "retry_overtaken" \in Env
    /\ Store(error.save)
    /\ UNCHANGED <<runtime, input, shown, armed, stage, rendered, row, asset>>

-----------------------------------------------------------------------------
\* The request is answered: the row has the picture, and the pool's asset its
\* digest.  Requests of one browser may overtake each other.
Upload(i) ==
    /\ i \in DOMAIN uploads
    /\ i # 1 => "reorder" \in Env
    /\ uploads' = RemoveAt(uploads, i)
    /\ row' = uploads[i]
    /\ asset' = uploads[i].digest
    /\ UNCHANGED <<runtime, input, shown, armed, stage, rendered, sent, error>>

UploadFails(i) ==
    /\ "upload_failure" \in Env /\ faults < MaxFaults
    /\ i \in DOMAIN uploads
    /\ faults' = faults + 1
    /\ uploads' = RemoveAt(uploads, i)
    /\ sent' = sent \ {uploads[i].digest}
    /\ error' = [error EXCEPT !.save = uploads[i]]
    /\ UNCHANGED <<rt, call, waiting, drain, input, shown, armed, stage, rendered, row, asset>>

-----------------------------------------------------------------------------
CallbackStep(n) == PictureComes(n) \/ PictureFails(n) \/ PictureShows(n) \/ HandOver(n)

Next ==
    \/ (Microtask \/ Dispose) /\ UNCHANGED pane
    \/ ~Digesting /\ (WorkerTask \/ WatchdogStops) /\ UNCHANGED pane
    \/ Edit \/ RetryEngine \/ RetrySave
    \/ \E throws \in BOOLEAN :
        \/ PaneRenders(throws)
        \/ \E n \in Calls : TimerFires(n, throws)
    \/ \E n \in Calls : CallbackStep(n)
    \/ \E i \in DOMAIN uploads : Upload(i) \/ UploadFails(i)

Spec == Init /\ [][Next]_vars
\* Fairness: that of the runtime, and the digests and timers are awaited.
FairSpec ==
    /\ Spec
    /\ WF_vars(Microtask /\ UNCHANGED pane)
    /\ WF_vars(~Digesting /\ (Loaded \/ LoadFails) /\ UNCHANGED pane)
    /\ WF_vars(~Digesting /\ RenderAnswered /\ UNCHANGED pane)
    /\ WF_vars(~Digesting /\ WatchdogStops /\ UNCHANGED pane)
    /\ \A n \in Calls : WF_vars(CallbackStep(n))

-----------------------------------------------------------------------------
\* Nothing is under way any more, and nothing failed that the pane tells of.
AtRest ==
    /\ rt.micro = <<>> /\ rt.status = "ready" /\ drain.pc = "off"
    /\ shown = [status |-> rt.status, value |-> input.value, edits |-> input.edits]
    /\ ~armed
    /\ \A n \in Calls : stage[n].pc \in {"none", "over"}
    /\ uploads = <<>>
    /\ error = [render |-> FALSE, save |-> NoOutput]

\* "each fresh picture goes to the host through onOutput with the digest of
\* exactly the source rendered": what is stored, and what is on screen, says
\* truly what it is of, however far typing has gone on meanwhile, so that no
\* reader is told that an old picture is current (GeneratedAssetPreview).
PicturesAreHonest == row.digest = row.picture /\ rendered.digest = rendered.picture

\* When the author has stopped typing, and no engine or request has failed,
\* the stored picture is that of the asset's source: the picture others see
\* (previewImages) and the "current / out of date" line depend on it.
RestIsCurrent == AtRest => row.picture = input.value

\* A source that hung the engine is not rendered again by the pane on its own:
\* one call per edit, unless something made the engine load anew ("a status
\* change makes the pane render again, and the source it would render is the
\* one that just hung", start).
HungAskedOnce ==
    faults = 0 => \A m, n \in Calls :
        m # n /\ stage[m].pc # "none" /\ stage[n].pc # "none" /\ call[m].input \in Hangs
        => stage[m].edits # stage[n].edits

\* The types, one engine at a time, no second try of what hung, and digests
\* that are those of their pictures.
Consistent == TypeOK /\ OneEngine /\ HungAskedOnce /\ PicturesAreHonest
=============================================================================
