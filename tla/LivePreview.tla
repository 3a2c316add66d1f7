----------------------------- MODULE LivePreview -----------------------------
(***************************************************************************)
(* The preview of the open division (LivePreview) and the renderer behind  *)
(* it, a worker or this thread (createWorkerPreviewRenderer).              *)
(*                                                                         *)
(* Every change of the props is a React render, whose effects run in the   *)
(* order of their declaration: a switch of division or scope renders the   *)
(* page at once, a cursor that left the page on screen after 300 ms, a new *)
(* text after 1 s.  A timer's callback is closed over the props of the     *)
(* render that set it, except for the cursor, which it reads when it runs. *)
(* The answer comes later, and the newest one is put into the iframe: by   *)
(* patching the page that is there, or as a page that has to load.         *)
(*                                                                         *)
(* A division's pages are its innermost divisions, one of which holds the  *)
(* cursor; that an edit moves them up or down is left out.  So are decks,  *)
(* the theme, and the path by a build server.                              *)
(***************************************************************************)
EXTENDS Naturals, Sequences

CONSTANTS
    Divisions,
    Texts,          \* what a division's source may be
    Broken,         \* the texts that are not well-formed
    Pages, Top,     \* the pages of a division, and the one its first line is on
    Unnarrowed,     \* divisions shown whole whatever is asked: short documents
    Worksheets,     \* divisions that are printouts
    Whole, None,
    MaxChanges,     \* bound on what the author, or a peer, does
    Env             \* what else may happen

ASSUME PagesAssumption == Top \in Pages /\ Whole \notin Pages /\ None \notin Pages \cup {Whole}
ASSUME TextsAssumption == Broken \subseteq Texts
ASSUME DivisionsAssumption == Unnarrowed \subseteq Divisions /\ Worksheets \subseteq Divisions
ASSUME ChangesAssumption == MaxChanges \in Nat
ASSUME EnvAssumption == Env \subseteq
    {"no_worker", "worker_error", "render_failure", "move_while_rendering",
     "scope_while_typing", "quick_undo"}

VARIABLES
    props,          \* the props of the last React render
    timer,          \* the content debounce and the cursor's, with their closures
    asked,          \* lastRequestedContent
    newest,         \* renderToken; the tokens of a closed pane are other numbers
    renderer,       \* the worker, what it owes, and what this thread renders
    page,           \* the last render that succeeded: previewHtml, renderedDivision, renderedSubtree
    onPaper,        \* printoutId, and the layout remembered in localStorage
    status,         \* isRebuilding and error
    frame,          \* shownPage: what is in the iframe
    scroll,         \* savedScrollPosition and pendingCursorScroll
    changes         \* how often the props changed

vars == <<props, timer, asked, newest, renderer, page, onPaper, status, frame, scroll, changes>>

Scopes == {"cursor", "editor"}
Contents == [division: Divisions, text: Texts]
Closures == [division: Divisions, text: Texts, scope: Scopes]
Rendered == [division: Divisions, text: Texts, page: Pages \cup {Whole}]
Request == [token: Nat, division: Divisions, text: Texts, scope: Scopes, page: Pages \cup {Whole}]
Place == [division: Divisions, page: Pages \cup {Whole}]
Html == [content: Rendered, paper: BOOLEAN]
Reports == [division: Divisions, page: Pages]

ASSUME NoneAssumption == None \notin Rendered \cup Closures \cup Html \cup Reports

TypeOK ==
    /\ props \in [division: Divisions, texts: [Divisions -> Texts], scope: Scopes,
                  report: Reports \cup {None}]
    /\ timer \in [content: Closures \cup {None}, cursor: Closures \cup {None}]
    /\ asked \in Contents
    /\ newest \in Nat \ {0}
    /\ renderer \in [worker: {"live", "gone"}, pending: Seq(Request), inline: Seq(Request)]
    /\ page \in Rendered \cup {None}
    /\ onPaper \in [shown: BOOLEAN, liked: BOOLEAN]
    /\ status \in [rebuilding: BOOLEAN, error: BOOLEAN]
    /\ frame \in [html: Html \cup {None}, key: Place \cup {None}, loaded: BOOLEAN]
    /\ scroll \in [saved: Place \cup {None}, landing: Place \cup {None}]
    /\ changes \in 0..MaxChanges

\* The text of the open division, the cursor in it when it was reported since
\* the division was opened, and what a callback made now is closed over.
Content(p) == [division |-> p.division, text |-> p.texts[p.division]]
Cursor(p) == IF p.report # None /\ p.report.division = p.division THEN p.report.page ELSE None
Closure(p) == [division |-> p.division, text |-> p.texts[p.division], scope |-> p.scope]

PlaceOf(content) == [division |-> content.division, page |-> content.page]

-----------------------------------------------------------------------------
(***************************************************************************)
(* The renderer: requests go to the worker, which answers in order, or to  *)
(* this thread once the worker is given up.                                *)
(***************************************************************************)
Ask(r) ==
    \/ /\ renderer.worker = "gone"
       /\ renderer' = [renderer EXCEPT !.inline = Append(@, r)]
    \/ /\ renderer.worker = "live"
       /\ renderer' = [renderer EXCEPT !.pending = Append(@, r)]

\* Mutant of AbandonWorker: what the worker owed is forgotten with it.
AbandonWorker_forgets == renderer' = [renderer EXCEPT !.worker = "gone", !.pending = <<>>]

\* Everything in flight is rendered by this thread instead.
AbandonWorker ==
    renderer' = [worker |-> "gone", pending |-> <<>>, inline |-> renderer.inline \o renderer.pending]

InFlight == {renderer.pending[i] : i \in DOMAIN renderer.pending}
                \cup {renderer.inline[i] : i \in DOMAIN renderer.inline}

\* The page a render narrows to: the one around the cursor, if that is asked.
Narrowed(closure, cursor) ==
    IF closure.scope = "editor" \/ closure.division \in Unnarrowed THEN Whole
    ELSE IF cursor = None THEN Top ELSE cursor

\* preview, closed over a render's props.
Preview(closure, cursor) ==
    /\ asked' = [division |-> closure.division, text |-> closure.text]
    /\ newest' = newest + 1
    /\ Ask([token |-> newest + 1, division |-> closure.division, text |-> closure.text,
            scope |-> closure.scope, page |-> Narrowed(closure, cursor)])
    /\ status' = [status EXCEPT !.rebuilding = TRUE]
    /\ scroll' = [scroll EXCEPT !.saved =
            IF frame.html = None THEN None ELSE PlaceOf(frame.html.content)]

-----------------------------------------------------------------------------
\* cursorOutsideSubtree.  Until the page of a division just opened is there,
\* the cursor's line is compared with lines of the division left.
Outside(p) ==
    IF page = None \/ page.page = Whole THEN {FALSE}
    ELSE IF page.division = p.division THEN {page.page # Cursor(p)}
    ELSE BOOLEAN

\* Mutant of CursorEffect: it does not depend on the scope.
CursorEffect_not_scope(p) ==
    IF Cursor(p) = Cursor(props) THEN {timer.cursor}
    ELSE IF p.scope = "editor" \/ Cursor(p) = None THEN {None}
    ELSE {IF out THEN Closure(p) ELSE None : out \in Outside(p)}

CursorEffect(p) ==
    IF Cursor(p) = Cursor(props) /\ p.scope = props.scope THEN {timer.cursor}
    ELSE IF p.scope = "editor" \/ Cursor(p) = None THEN {None}
    ELSE {IF out THEN Closure(p) ELSE None : out \in Outside(p)}

\* Mutant of ContentEffect: compared with the text on screen, not the one
\* that was asked for last.
ContentEffect_shown(p, requested) ==
    IF Content(p) = Content(props) THEN timer.content
    ELSE IF page # None /\ [division |-> page.division, text |-> page.text] = Content(p) THEN None
    ELSE Closure(p)

ContentEffect(p, requested) ==
    IF Content(p) = Content(props) THEN timer.content
    ELSE IF requested = Content(p) THEN None
    ELSE Closure(p)

\* A React render with new props, and its effects.
Rerender(p) ==
    /\ changes < MaxChanges
    /\ changes' = changes + 1
    /\ props' = p
    /\ IF p.division # props.division \/ p.scope # props.scope
       THEN Preview(Closure(p), Cursor(p))
       ELSE UNCHANGED <<asked, newest, renderer, status, scroll>>
    /\ \E followUp \in CursorEffect(p) :
        timer' = [content |-> ContentEffect(p, asked'), cursor |-> followUp]
    /\ UNCHANGED <<page, onPaper, frame>>

\* The cursor's place of a preview under way is not looked at again when its
\* page arrives.
MayMove == props.scope = "cursor" /\ status.rebuilding => "move_while_rendering" \in Env

Report(c) == [division |-> props.division, page |-> c]

Move ==
    /\ MayMove
    /\ \E c \in Pages \ {Cursor(props)} : Rerender([props EXCEPT !.report = Report(c)])

\* The author types where the cursor is, or a peer somewhere else.
Type ==
    \E t \in Texts \ {props.texts[props.division]} :
        /\ timer.cursor # None /\ asked.text = t => "quick_undo" \in Env
        /\ \/ Rerender([props EXCEPT !.texts[props.division] = t])
           \/ /\ MayMove
              /\ \E c \in Pages \ {Cursor(props)} :
                    Rerender([props EXCEPT !.texts[props.division] = t, !.report = Report(c)])

\* Another division is opened; where the cursor is in it is not known yet.
Open ==
    \E d \in Divisions \ {props.division} : Rerender([props EXCEPT !.division = d])

ChangeScope ==
    /\ timer.content # None => "scope_while_typing" \in Env
    /\ \E s \in Scopes \ {props.scope} : Rerender([props EXCEPT !.scope = s])

\* Ctrl+Enter, Ctrl+S, or the Rebuild button.
Rebuild ==
    /\ changes < MaxChanges
    /\ changes' = changes + 1
    /\ Preview(Closure(props), Cursor(props))
    /\ UNCHANGED <<props, timer, page, onPaper, frame>>

\* The debounce is 300 ms for the cursor: when the text changed after the
\* cursor left, the cursor's timer goes off first.
CursorTimerFires ==
    /\ timer.cursor # None
    /\ timer' = [timer EXCEPT !.cursor = None]
    /\ Preview(timer.cursor, Cursor(props))
    /\ UNCHANGED <<props, page, onPaper, frame, changes>>

ContentTimerFires ==
    /\ timer.content # None
    /\ timer.cursor # None => timer.cursor.text = timer.content.text
    /\ timer' = [timer EXCEPT !.content = None]
    /\ Preview(timer.content, Cursor(props))
    /\ UNCHANGED <<props, page, onPaper, frame, changes>>

-----------------------------------------------------------------------------
(***************************************************************************)
(* The page on its way to the screen: patched into the one that is there   *)
(* if that is another render of the same page, has loaded, and the patcher *)
(* agrees; loaded from scratch otherwise.                                  *)
(***************************************************************************)
Deliver(content, paper, kept) ==
    LET html == [content |-> content, paper |-> paper]
        key == IF paper THEN None ELSE PlaceOf(content)
    IN  \/ /\ frame.html = html
           /\ scroll' = kept
           /\ UNCHANGED frame
        \/ /\ frame.html # html
           /\ key # None /\ frame.loaded /\ frame.key = key
           /\ frame' = [html |-> html, key |-> key, loaded |-> TRUE]
           /\ scroll' = [kept EXCEPT !.saved = None]
        \/ /\ frame.html # html
           /\ frame' = [html |-> html, key |-> key, loaded |-> FALSE]
           /\ scroll' = kept

\* Another page of the same division: the reader lands on the cursor.
Turned(r) == page # None /\ page.division = r.division /\ page.page # r.page

Commit(r) ==
    LET content == [division |-> r.division, text |-> r.text, page |-> r.page]
        paper == IF page # None /\ page.division = r.division
                 THEN onPaper.shown /\ r.division \in Worksheets
                 ELSE onPaper.liked /\ r.division \in Worksheets
        landing == IF r.scope = "cursor" /\ Cursor(props) # None
                   THEN [division |-> props.division, page |-> Cursor(props)] ELSE None
    IN  /\ page' = content
        /\ onPaper' = [onPaper EXCEPT !.shown = paper]
        /\ status' = [rebuilding |-> FALSE, error |-> FALSE]
        /\ Deliver(content, paper,
                   IF Turned(r) THEN [saved |-> None, landing |-> landing] ELSE scroll)

\* What is on screen stays there; only the failure is reported.
Reject ==
    /\ status' = [rebuilding |-> FALSE, error |-> TRUE]
    /\ UNCHANGED <<page, onPaper, frame, scroll>>

Settle(r) ==
    \/ /\ r.token # newest
       /\ UNCHANGED <<page, onPaper, status, frame, scroll>>
    \/ /\ r.token = newest
       /\ r.text \notin Broken
       /\ Commit(r)
    \/ /\ r.token = newest
       /\ r.text \in Broken \/ "render_failure" \in Env
       /\ Reject

WorkerAnswers ==
    /\ renderer.pending # <<>>
    /\ renderer' = [renderer EXCEPT !.pending = Tail(@)]
    /\ Settle(Head(renderer.pending))
    /\ UNCHANGED <<props, timer, asked, newest, changes>>

\* The worker dies, or says that its engine cannot render.
WorkerFails ==
    /\ "worker_error" \in Env
    /\ renderer.worker = "live"
    /\ AbandonWorker
    /\ UNCHANGED <<props, timer, asked, newest, page, onPaper, status, frame, scroll, changes>>

InlineAnswers ==
    /\ renderer.inline # <<>>
    /\ renderer' = [renderer EXCEPT !.inline = Tail(@)]
    /\ Settle(Head(renderer.inline))
    /\ UNCHANGED <<props, timer, asked, newest, changes>>

\* handleIframeLoad and wireRenderedDocument.
Loaded ==
    /\ frame.html # None /\ ~frame.loaded
    /\ frame' = [frame EXCEPT !.loaded = TRUE]
    /\ scroll' = [saved |-> None, landing |-> None]
    /\ UNCHANGED <<props, timer, asked, newest, renderer, page, onPaper, status, changes>>

\* The layout of a worksheet, on paper or as a web page, is chosen and remembered.
ChooseLayout ==
    /\ changes < MaxChanges
    /\ changes' = changes + 1
    /\ page # None /\ page.division \in Worksheets
    /\ onPaper' = [shown |-> ~onPaper.shown, liked |-> ~onPaper.shown]
    /\ Deliver(page, ~onPaper.shown, scroll)
    /\ UNCHANGED <<props, timer, asked, newest, renderer, page, status>>

-----------------------------------------------------------------------------
\* The pane is opened with a division in the editor, whose first render is
\* asked of a worker made for it, or of this thread when none can be made.
Init ==
    /\ \E d \in Divisions, s \in Scopes, t \in Texts \ Broken :
        /\ props = [division |-> d, texts |-> [e \in Divisions |-> t], scope |-> s, report |-> None]
        /\ asked = [division |-> d, text |-> t]
        /\ LET first == <<[token |-> 1, division |-> d, text |-> t, scope |-> s,
                           page |-> Narrowed(Closure(props), None)]>>
           IN  \/ renderer = [worker |-> "live", pending |-> first, inline |-> <<>>]
               \/ /\ "no_worker" \in Env
                  /\ renderer = [worker |-> "gone", pending |-> <<>>, inline |-> first]
    /\ timer = [content |-> None, cursor |-> None]
    /\ newest = 1
    /\ page = None
    /\ onPaper \in [shown: {FALSE}, liked: BOOLEAN]
    /\ status = [rebuilding |-> TRUE, error |-> FALSE]
    /\ frame = [html |-> None, key |-> None, loaded |-> FALSE]
    /\ scroll = [saved |-> None, landing |-> None]
    /\ changes = 0

\* The pane is closed and opened again: its effects run as on opening.
Reopen ==
    /\ changes < MaxChanges
    /\ changes' = changes + 1
    /\ asked' = Content(props)
    /\ newest' = newest + 1
    /\ Ask([token |-> newest + 1, division |-> props.division,
            text |-> props.texts[props.division], scope |-> props.scope,
            page |-> Narrowed(Closure(props), Cursor(props))])
    /\ timer' = [content |-> None, cursor |-> None]
    /\ page' = None
    /\ onPaper' = [onPaper EXCEPT !.shown = FALSE]
    /\ status' = [rebuilding |-> TRUE, error |-> FALSE]
    /\ frame' = [html |-> None, key |-> None, loaded |-> FALSE]
    /\ scroll' = [saved |-> None, landing |-> None]
    /\ UNCHANGED props

Next ==
    \/ Move \/ Type \/ Open \/ ChangeScope \/ Rebuild \/ ChooseLayout \/ Reopen
    \/ CursorTimerFires \/ ContentTimerFires
    \/ WorkerAnswers \/ WorkerFails \/ InlineAnswers \/ Loaded

Spec == Init /\ [][Next]_vars

\* Fairness: a render ends, well or with an error, and so does a timer.
FairSpec ==
    /\ Spec
    /\ WF_vars(WorkerAnswers)
    /\ WF_vars(InlineAnswers)
    /\ WF_vars(CursorTimerFires)
    /\ WF_vars(ContentTimerFires)

-----------------------------------------------------------------------------
AtRest == timer = [content |-> None, cursor |-> None] /\ ~status.rebuilding

\* When the author has paused and no render failed, the page on screen is that
\* of the text in the editor, as much of it as the scope asks for, around the
\* cursor ("live while typing"; "a cursor leaving the rendered division
\* re-renders"): both directions of sync translate between the two.
RestIsCurrent ==
    AtRest /\ ~status.error =>
        /\ frame.html.content = [division |-> props.division, text |-> props.texts[props.division],
                                 page |-> Narrowed(Closure(props), Cursor(props))]
        /\ frame.html.paper = onPaper.shown

\* Every render asked for comes to an end on screen, whatever becomes of the
\* worker it was asked of ("for the requests in flight and every one after",
\* createWorkerPreviewRenderer).
RebuildSettles == status.rebuilding ~> ~status.rebuilding

\* A timer only ever renders the open division, the content's the text as it
\* is, the cursor's in the scope that follows it; nothing waits for a worker
\* that is gone, and the pane says that it rebuilds as long as its newest
\* render is under way and no longer.
TimersAreOurs ==
    /\ timer.content # None =>
        [division |-> timer.content.division, text |-> timer.content.text] = Content(props)
    /\ timer.cursor # None => timer.cursor.division = props.division /\ props.scope = "cursor"
RendersAreCounted ==
    /\ renderer.worker = "gone" => renderer.pending = <<>>
    /\ status.rebuilding <=> \E r \in InFlight : r.token = newest
Consistent == TypeOK /\ TimersAreOurs /\ RendersAreCounted

\* The place a page lands on once it has loaded is one of its own division.
LandsHere ==
    [][Loaded /\ scroll.landing # None
       => scroll.landing.division = frame.html.content.division]_vars
=============================================================================
