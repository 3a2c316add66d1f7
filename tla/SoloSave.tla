------------------------------ MODULE SoloSave ------------------------------
(***************************************************************************)
(* A solo session of the editor (EditorApp): the working copy, the server  *)
(* snapshot the dirty test compares it with, the requests in the air, the  *)
(* rows they write, and the ways out of the page.                          *)
(*                                                                         *)
(* Every save is the whole of the divisions; a snippet, an exercise or an  *)
(* asset (a Record) is sent only if its source differs from the snapshot.  *)
(* The structural callbacks send requests of their own meanwhile, and each *)
(* await lets the author type on, remove, or leave.  What is written in a  *)
(* division or a record is a number, new with every edit; the title and    *)
(* the docinfo, which every save carries too, are like a division's text.  *)
(***************************************************************************)
EXTENDS Naturals, Sequences, FiniteSets, SequencesExt

CONSTANTS
    Root,        \* the division the project begins with
    Others,      \* the divisions that may be added
    Records,     \* the project's snippets, exercises and assets
    Gone,
    MaxEdits,    \* bound on the author's edits
    MaxFaults,   \* bound on failed requests and deployments
    MaxRequests, \* bound on the requests in the air
    Env          \* what else may happen

ASSUME BoundsAssumption == {MaxEdits, MaxFaults, MaxRequests} \subseteq Nat
ASSUME NamesAssumption ==
    /\ Root \notin Others \cup Records /\ Others \cap Records = {}
    /\ Gone \notin 0..MaxEdits

Divisions == {Root} \cup Others
Ids == Divisions \cup Records
Value == 0..MaxEdits
Held == Ids \X Value
NotHeld == <<>>

VARIABLES
    held,     \* what is typed and not yet reported (the 500ms debounce)
    working,  \* the working copy
    snapshot, \* serverSnapshot
    rows,     \* what the server has, and the layout it takes
    requests, \* the PATCHes in the air, oldest first
    status,   \* saveStatus
    outdated, \* collabOutdated
    page,     \* whether it is still open, and how it was left
    edits, faults, \* so far
    past      \* what was removed, and what reads as saved unsent

copies == <<held, working, snapshot>>
shown == <<status, outdated, page>>
vars == <<copies, rows, requests, shown, edits, faults, past>>

Entry == [id: Divisions, value: Value]
Copy == [divisions: Seq(Entry), records: [Records -> Value \cup {Gone}]]
Awaited == {"no", "first", "leave", "open"}
Request == [what: {"save", "create", "write", "destroy"}, id: Ids, value: Value,
            copy: Copy, sources: SUBSET Records,
            inFlight: BOOLEAN, awaited: Awaited,
            at: {"sent", "done", "failed", "refused"}]

\* What is removed from the copies, what the server has destroyed, and the
\* divisions of which the snapshot has a text that no request carried.
Past == [removed: SUBSET Ids, destroyed: SUBSET Ids, unsent: SUBSET Others]

TypeOK ==
    /\ held \in Held \cup {NotHeld}
    /\ working \in Copy
    /\ snapshot \in Copy
    /\ rows \in [has: [Ids -> Value \cup {Gone}], current: BOOLEAN]
    /\ requests \in Seq(Request)
    /\ status \in {"saved", "unsaved", "saving", "error"}
    /\ outdated \in BOOLEAN
    /\ page \in {"open", "closed", "warned"}
    /\ edits \in Value /\ faults \in 0..MaxFaults /\ past \in Past

Init ==
    /\ held = NotHeld
    /\ working = [divisions |-> <<[id |-> Root, value |-> 0]>>, records |-> [r \in Records |-> 0]]
    /\ snapshot = working
    /\ rows = [has |-> [i \in Ids |-> IF i \in Others THEN Gone ELSE 0], current |-> TRUE]
    /\ requests = <<>>
    /\ status = "saved" /\ outdated = FALSE /\ page = "open"
    /\ edits = 0 /\ faults = 0 /\ past = [removed |-> {}, destroyed |-> {}, unsent |-> {}]

-----------------------------------------------------------------------------
IdsOf(copy) ==
    {e.id : e \in Range(copy.divisions)} \cup {r \in Records : copy.records[r] # Gone}

ValueOf(copy, i) ==
    IF i \in Records THEN copy.records[i]
    ELSE (CHOOSE e \in Range(copy.divisions) : e.id = i).value

\* onContentChange: what the pool does not hold (any more) is dropped.
Report(copy, h) ==
    IF h = NotHeld \/ h[1] \notin IdsOf(copy) THEN copy
    ELSE IF h[1] \in Records THEN [copy EXCEPT !.records[h[1]] = h[2]]
    ELSE [copy EXCEPT !.divisions = [k \in DOMAIN @ |->
                                      IF @[k].id = h[1] THEN [@[k] EXCEPT !.value = h[2]] ELSE @[k]]]

Flushed == Report(working, held)

ChangedSources(copy, baseline) ==
    {r \in Records : /\ Gone \notin {copy.records[r], baseline.records[r]}
                     /\ copy.records[r] # baseline.records[r]}

\* Mutant of Dirty: the records' sources are not looked at.
Dirty_divisions(copy, baseline) == copy.divisions # baseline.divisions

\* isDirty: persistableShape and hasUnsavedRecordSources.
Dirty(copy, baseline) ==
    copy.divisions # baseline.divisions \/ ChangedSources(copy, baseline) # {}

InFlight == \E k \in DOMAIN requests : requests[k].inFlight

Leaving == \E k \in DOMAIN requests : requests[k].awaited # "no"

Noted == IF status = "error" THEN "error" ELSE "unsaved"

NoCopy == [divisions |-> <<>>, records |-> [r \in Records |-> Gone]]

Call(what, i, v) ==
    [what |-> what, id |-> i, value |-> v, copy |-> NoCopy, sources |-> {},
     inFlight |-> FALSE, awaited |-> "no", at |-> "sent"]

SaveOf(copy, baseline, awaited) ==
    [what |-> "save", id |-> Root, value |-> 0, copy |-> copy,
     sources |-> ChangedSources(copy, baseline),
     inFlight |-> TRUE, awaited |-> awaited, at |-> "sent"]

Superseded(reqs) == [k \in DOMAIN reqs |-> [reqs[k] EXCEPT !.inFlight = FALSE]]

\* save: what is typed is reported first; only a hard save is sent when there
\* is nothing to send.
Send(hard, awaited, baseline, others) ==
    /\ held' = NotHeld
    /\ working' = Flushed
    /\ IF hard \/ Dirty(Flushed, baseline)
       THEN /\ Len(others) < MaxRequests
            /\ requests' = Append(Superseded(others), SaveOf(Flushed, baseline, awaited))
            /\ status' = "saving"
       ELSE requests' = others /\ status' = "saved"

Save(hard, awaited) ==
    Send(hard, awaited, snapshot, requests) /\ UNCHANGED snapshot

-----------------------------------------------------------------------------
(***************************************************************************)
(* The author edits.                                                       *)
(***************************************************************************)
\* Whatever was held for another division is reported as this one opens.
Type(i) ==
    /\ page = "open" /\ edits < MaxEdits /\ i \in IdsOf(working)
    /\ edits' = edits + 1
    /\ held' \in {<<i, edits + 1>>} \cup (IF "undo" \in Env THEN {<<i, 0>>} ELSE {})
    /\ IF held # NotHeld /\ held[1] # i
       THEN working' = Flushed /\ status' = Noted
       ELSE UNCHANGED <<working, status>>
    /\ UNCHANGED <<snapshot, rows, requests, outdated, page, faults, past>>

\* The debounce is over.
ReportTyped ==
    /\ page = "open" /\ held # NotHeld
    /\ working' = Flushed
    /\ held' = NotHeld
    /\ status' = IF Flushed # working THEN Noted ELSE status
    /\ UNCHANGED <<snapshot, rows, requests, outdated, page, edits, faults, past>>

\* onDivisionAdd.
Add(d) ==
    /\ page = "open" /\ d \notin IdsOf(working) \cup past.removed
    /\ Len(requests) < MaxRequests
    /\ working' = [working EXCEPT !.divisions = Append(@, [id |-> d, value |-> 0])]
    /\ requests' = Append(requests, Call("create", d, 0))
    /\ status' = Noted
    /\ UNCHANGED <<held, snapshot, rows, outdated, page, edits, faults, past>>

\* The position of the n-th of a set of positions, and a list without i.
Nth(kept, n) == CHOOSE k \in kept : Cardinality({j \in kept : j <= k}) = n
Filtered(divisions, i) ==
    LET kept == {k \in DOMAIN divisions : divisions[k].id # i}
    IN  [n \in 1..Cardinality(kept) |-> divisions[Nth(kept, n)]]

Without(copy, i) ==
    IF i \in Records THEN [copy EXCEPT !.records[i] = Gone]
    ELSE [copy EXCEPT !.divisions = Filtered(@, i)]

\* Mutant of Discard: the copies keep what is removed.
Discard_keeps(i) ==
    /\ page = "open" /\ i \in IdsOf(working) \ {Root}
    /\ Len(requests) < MaxRequests
    /\ past' = [past EXCEPT !.removed = @ \cup {i}]
    /\ requests' = Append(requests, Call("destroy", i, 0))
    /\ UNCHANGED <<copies, rows, shown, edits, faults>>

\* onDivisionRemove, and recordRemoved for the rest.
Discard(i) ==
    /\ page = "open" /\ i \in IdsOf(working) \ {Root}
    /\ Len(requests) < MaxRequests
    /\ working' = Without(working, i)
    /\ snapshot' = Without(snapshot, i)
    /\ past' = [past EXCEPT !.removed = @ \cup {i}]
    /\ requests' = Append(requests, Call("destroy", i, 0))
    /\ UNCHANGED <<held, rows, shown, edits, faults>>

\* writeRecord, with the record's source as the author has it.
Write(r) ==
    LET w == Report(working, held)
    IN  /\ page = "open" /\ r \in Records \cap IdsOf(working)
        /\ Len(requests) < MaxRequests
        /\ held # NotHeld /\ held[1] = r
        /\ working' = w
        /\ requests' = Append(requests, Call("write", r, w.records[r]))
        /\ held' = NotHeld
        /\ UNCHANGED <<snapshot, rows, shown, edits, faults, past>>

-----------------------------------------------------------------------------
(***************************************************************************)
(* Saves.                                                                  *)
(***************************************************************************)
\* The interval, and the page being hidden, wait for the save before;
\* onUseCommonDocinfoChange does not.
Autosave ==
    /\ page = "open"
    /\ ~InFlight \/ "toggle" \in Env
    /\ Dirty(Flushed, snapshot) \/ status # "saved"
    /\ Save(FALSE, "no")
    /\ UNCHANGED <<rows, outdated, page, edits, faults, past>>

\* beforeunload, and the author who reads the prompt and leaves.
Unload ==
    /\ page = "open"
    /\ IF Dirty(Flushed, snapshot)
       THEN /\ page' = "warned"
            /\ IF InFlight
               THEN held' = NotHeld /\ working' = Flushed /\ UNCHANGED <<snapshot, requests, status>>
               ELSE Save(FALSE, "no")
       ELSE /\ page' = "closed"
            /\ held' = NotHeld /\ working' = Flushed
            /\ UNCHANGED <<snapshot, requests, status>>
    /\ UNCHANGED <<rows, outdated, edits, faults, past>>

\* leave: flushEdits waits out the save in the air, then saves what is left.
Leave ==
    /\ page = "open"
    /\ ~Leaving
    /\ IF InFlight
       THEN /\ requests' = [k \in DOMAIN requests |->
                              [requests[k] EXCEPT !.awaited = IF requests[k].inFlight THEN "first" ELSE @]]
            /\ UNCHANGED <<copies, status, page>>
       ELSE /\ Save(FALSE, "leave")
            /\ page' = IF Dirty(Flushed, snapshot) THEN page ELSE "closed"
    /\ UNCHANGED <<rows, outdated, edits, faults, past>>

\* openProjectPage: a hard save, whatever is in the air.
OpenProjectPage ==
    /\ page = "open"
    /\ ~Leaving
    /\ Save(TRUE, "open")
    /\ UNCHANGED <<rows, outdated, page, edits, faults, past>>

-----------------------------------------------------------------------------
(***************************************************************************)
(* The server: Project#update with nested attributes.                      *)
(***************************************************************************)
CarriesDivisions(q) == q.what = "save" \/ q.id \in Divisions

\* tolerate_client_minted_ids: an id the project has never seen is an insert,
\* a _destroy of one is dropped.
Applied(q) ==
    CASE q.what = "save" ->
           [i \in Ids |->
              IF \E e \in Range(q.copy.divisions) : e.id = i THEN ValueOf(q.copy, i)
              ELSE IF i \in q.sources THEN q.copy.records[i] ELSE rows.has[i]]
      [] q.what \in {"create", "write"} -> [rows.has EXCEPT ![q.id] = q.value]
      [] q.what = "destroy" -> [rows.has EXCEPT ![q.id] = Gone]

\* A source by itself makes no record; a tab older than the layout of a
\* division is refused (409).
Invalid(q) == q.what = "save" /\ \E r \in q.sources : rows.has[r] = Gone
Refused(q) == CarriesDivisions(q) /\ ~rows.current

\* The server takes the requests in turn.
Oldest(k) ==
    /\ page # "warned" /\ requests[k].at = "sent"
    /\ "reorder" \in Env \/ \A j \in 1..(k - 1) : requests[j].at # "sent"

CarryOut(q) ==
    /\ rows' = [rows EXCEPT !.has = Applied(q)]
    /\ past' = IF q.what = "destroy" THEN [past EXCEPT !.destroyed = @ \cup {q.id}] ELSE past

Handle(k) ==
    LET q == requests[k] IN
    /\ Oldest(k)
    /\ IF Refused(q) \/ Invalid(q)
       THEN /\ requests' = [requests EXCEPT ![k].at = IF Refused(q) THEN "refused" ELSE "failed"]
            /\ UNCHANGED <<rows, past>>
       ELSE /\ requests' = [requests EXCEPT ![k].at = "done"]
            /\ CarryOut(q)
    /\ UNCHANGED <<copies, shown, edits, faults>>

\* A request that does not get there, or, once the page is closed, is canceled
\* (unless it is small enough for keepalive).
Lose(k) ==
    /\ page # "warned" /\ requests[k].at = "sent"
    /\ IF page = "open" THEN faults < MaxFaults /\ faults' = faults + 1 ELSE UNCHANGED faults
    /\ requests' = [requests EXCEPT ![k].at = "failed"]
    /\ UNCHANGED <<copies, rows, shown, edits, past>>

\* The request is carried out and its answer lost.
LoseAnswer(k) ==
    LET q == requests[k] IN
    /\ Oldest(k) /\ page = "open" /\ ~Refused(q) /\ ~Invalid(q)
    /\ "answer_lost" \in Env /\ faults < MaxFaults /\ faults' = faults + 1
    /\ requests' = [requests EXCEPT ![k].at = "failed"]
    /\ CarryOut(q)
    /\ UNCHANGED <<copies, shown, edits>>

\* The layout of a division changes under the open tab.
Deploy ==
    /\ page = "open" /\ rows.current
    /\ "deploy" \in Env /\ faults < MaxFaults /\ faults' = faults + 1
    /\ rows' = [rows EXCEPT !.current = FALSE]
    /\ UNCHANGED <<copies, requests, shown, edits, past>>

-----------------------------------------------------------------------------
(***************************************************************************)
(* The answers.                                                            *)
(***************************************************************************)
\* Mutant of AfterSave: the snapshot becomes what is there now.
AfterSave_now(q) == Flushed

\* The snapshot is what was sent.
AfterSave(q) == q.copy

\* A division as the author has it now.  Of one that is removed meanwhile the
\* value is never compared with anything.
Now(d) == IF d \in IdsOf(working) THEN ValueOf(working, d) ELSE 0

\* The record that is copied once the creation is answered is the one in the
\* working copy, with what was reported to it meanwhile.
Created(d) == <<[id |-> d, value |-> Now(d)]>>

Snapshot(q) ==
    IF q.at # "done" THEN snapshot
    ELSE CASE q.what = "save" -> AfterSave(q)
           [] q.what = "create" -> [snapshot EXCEPT !.divisions = @ \o Created(q.id)]
           [] q.what = "write" -> [snapshot EXCEPT !.records[q.id] = q.value]
           [] q.what = "destroy" -> snapshot

\* A save is of everything there is.
Unsent(q) ==
    IF q.at # "done" THEN past.unsent
    ELSE CASE q.what = "save" -> {}
           [] q.what = "create" -> past.unsent \cup (IF Now(q.id) # q.value THEN {q.id} ELSE {})
           [] q.what \in {"write", "destroy"} -> past.unsent

Status(q) ==
    IF q.what # "save" THEN status
    ELSE IF q.at # "done" THEN "error"
    ELSE IF Dirty(working, Snapshot(q)) THEN "unsaved" ELSE "saved"

Answered(k, awaited) ==
    LET q == requests[k] IN
    /\ page = "open" /\ q.at # "sent" /\ q.awaited \in awaited
    /\ snapshot' = Snapshot(q)
    /\ past' = [past EXCEPT !.unsent = Unsent(q)]
    /\ outdated' = (outdated \/ q.at = "refused")
    /\ UNCHANGED <<rows, edits, faults>>

\* An answer nobody leaves on.
Answer(k) ==
    /\ Answered(k, {"no"})
    /\ status' = Status(requests[k])
    /\ requests' = RemoveAt(requests, k)
    /\ UNCHANGED <<held, working, page>>

\* flushEdits has waited for the save in the air, and saves what is left.
WaitedOut(k) ==
    /\ Answered(k, {"first"})
    /\ Send(FALSE, "leave", Snapshot(requests[k]), RemoveAt(requests, k))
    /\ page' = IF Dirty(Flushed, snapshot') THEN page ELSE "closed"

\* The last save has succeeded: the page goes, by way of beforeunload.
Go(k) ==
    LET rest == RemoveAt(requests, k) IN
    /\ requests[k].at = "done" /\ Answered(k, {"leave", "open"})
    /\ IF Dirty(Flushed, Snapshot(requests[k]))
       THEN /\ page' \in {"open", "warned"}
            /\ IF \E j \in DOMAIN rest : rest[j].inFlight
               THEN held' = NotHeld /\ working' = Flushed /\ status' = "unsaved" /\ requests' = rest
               ELSE Send(FALSE, "no", Snapshot(requests[k]), rest)
       ELSE /\ page' = "closed" /\ status' = "saved" /\ requests' = rest
            /\ held' = NotHeld /\ working' = Flushed

\* It has not: "Leave anyway and lose them?", or the alert of a hard save.
NotSaved(k) ==
    /\ requests[k].at # "done" /\ Answered(k, {"leave", "open"})
    /\ status' = "error"
    /\ page' \in {"open"} \cup (IF requests[k].awaited = "leave" THEN {"warned"} ELSE {})
    /\ requests' = RemoveAt(requests, k)
    /\ UNCHANGED <<held, working>>

-----------------------------------------------------------------------------
AnswerStep == \E k \in DOMAIN requests : Answer(k) \/ WaitedOut(k) \/ Go(k) \/ NotSaved(k)
ServerStep == \E k \in DOMAIN requests : Handle(k)

Next ==
    \/ \E i \in Ids : Type(i) \/ Discard(i)
    \/ \E d \in Others : Add(d)
    \/ \E r \in Records : Write(r)
    \/ ReportTyped \/ Autosave \/ Unload \/ Leave \/ OpenProjectPage
    \/ ServerStep \/ AnswerStep \/ Deploy
    \/ \E k \in DOMAIN requests : Lose(k) \/ LoseAnswer(k)

Spec == Init /\ [][Next]_vars
FairSpec ==
    Spec /\ WF_vars(ReportTyped) /\ WF_vars(Autosave) /\ WF_vars(ServerStep) /\ WF_vars(AnswerStep)

-----------------------------------------------------------------------------
\* The rows have everything but the text of a division that was typed while its
\* creation was on its way: it goes into the snapshot without ever having been
\* sent, and is lost unless something else makes a save (onDivisionAdd).
Stored == \A i \in IdsOf(working) \ past.unsent : rows.has[i] = ValueOf(working, i)

\* Nothing to save means that the server has everything else there is ("diffing
\* the two is the dirty check"), whatever is in the air, was lost, or was typed
\* while a save was on its way.
CleanIsStored == page = "open" /\ ~Dirty(working, snapshot) => Stored

\* The author who left without being asked leaves nothing else behind ("to save
\* first and to ask before leaving anything behind").
LeftIsStored == page = "closed" => held = NotHeld /\ Stored

\* No other edit is lost while the author is there, nor when the author leaves.
NothingIsLost == CleanIsStored /\ LeftIsStored

\* "or a later save would name an id the server has dropped" (recordRemoved),
\* and fail as a whole, and so would every one after it.
SavesAreValid == \A k \in DOMAIN requests : requests[k].at = "sent" /\ Oldest(k) => ~Invalid(requests[k])

\* What was destroyed does not come back, with a save, a create or a write that
\* was on its way when it was removed, or one after it.
RemovedStaysGone == \A i \in past.destroyed : rows.has[i] = Gone

\* The types, requests that the server takes, and removals that last.
Consistent == TypeOK /\ SavesAreValid /\ RemovedStaysGone

\* Typing comes to rest saved, and said to be, unless the tab is told that it
\* is out of date: the dirty check finds what a failed save left.
Settled == Stored /\ held = NotHeld /\ status = "saved" /\ ~Dirty(working, snapshot)
SavesSettle == <>[](page # "open" \/ outdated \/ Settled)

\* "Tombstones count as unsaved work: a removal whose own PATCH failed is only
\* ever retried because the next dirty check still sees it here"
\* (persistableShape).
RemovalIsUnsavedWork ==
    page = "open" /\ requests = <<>> /\ ~Dirty(working, snapshot)
        => \A i \in past.removed : rows.has[i] = Gone
=============================================================================
