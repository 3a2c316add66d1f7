--------------------------- MODULE DivisionEditor ---------------------------
(***************************************************************************)
(* One author in the web editor (components/Editors.tsx over               *)
(* store/editorStore.ts): a pool of divisions that place each other, a     *)
(* pool of snippets, tabs, a code editor whose keystrokes reach the store  *)
(* half a second late, and the actions that rewrite one division's source  *)
(* on behalf of another.                                                   *)
(*                                                                         *)
(* An action is one event handler and the render that follows it.  React   *)
(* renders once, after the handler: what the code editor was showing is    *)
(* replaced only if the text it is given has changed from one render to    *)
(* the next.                                                               *)
(*                                                                         *)
(* The words of Env name what breaks the properties below:                 *)
(*   root_renamed  the root's xml:id is edited                             *)
(*   same_content  one opens an item with the same text while keystrokes   *)
(*                 are held                                                *)
(*   switch        one types, opens something else, and types within one   *)
(*                 debounce                                                *)
(*   fast_hands    a division is unplaced, deleted, placed or named, or a  *)
(*                 snippet given or losing a name that held keystrokes are *)
(*                 addressed to, while they are held                       *)
(*   twice         a division is placed in two others                      *)
(*   cycle         a division is placed below itself                       *)
(***************************************************************************)
EXTENDS DivisionTree

CONSTANTS
    RootId,         \* the root's xml:id when the project was loaded
    InitialPool,    \* the divisions as loaded, numbered from 1
    ChildTypes,     \* the types a division of each type may hold
    SnippetRefs,
    Words,          \* what may be typed
    Pretext,        \* whether the divisions are in PreTeXt
    MaxSteps,       \* bound on the author's edits
    MaxTabs,        \* bound on the tabs
    Env

ASSUME EnvAssumption == Env \subseteq {"root_renamed", "same_content", "switch", "fast_hands", "twice", "cycle"}
ASSUME InitialAssumption == HasDivision(InitialPool, RootId)
ASSUME ChildTypesAssumption == ChildTypes \in [Types \cup {RootType} -> SUBSET Types]

VARIABLES
    store,      \* the editor's store
    model,      \* the text in the code editor
    held,       \* what the debounce is about to deliver, if anything
    home,       \* the record each word was typed into
    steps       \* how many edits the author has made

vars == <<store, model, held, home, steps>>

Item(kind, ref) == [kind |-> kind, ref |-> ref]
NoCreation == [kind |-> "none", parent |-> NoId]
Nobody == 0
NotHeld == [kind |-> "none", ref |-> NoId, id |-> Nobody, text |-> <<>>, from |-> <<>>, root |-> NoId, types |-> <<>>]

Division(id, xmlId, type, source) == [id |-> id, xmlId |-> xmlId, type |-> type, source |-> source]

\* findRootDivision: by the id the page was loaded with, or else the first.
RootOf(s) ==
    IF HasDivision(s.divisions, RootId) THEN RootId
    ELSE IF s.divisions = <<>> THEN NoId ELSE s.divisions[1].xmlId

SnippetsNamed(s, ref) == {r \in s.snippets : r.ref = ref}

\* resolveEditorTarget: what is open, or the root when that is gone.
Target(s) ==
    LET division(x) == LET d == DivisionOf(s.divisions, x)
                       IN  [kind |-> "division", ref |-> x, id |-> d.id, source |-> d.source]
    IN  CASE s.openItem.kind = "snippet" /\ SnippetsNamed(s, s.openItem.ref) # {} ->
               LET r == CHOOSE r \in SnippetsNamed(s, s.openItem.ref) : TRUE
               IN  [kind |-> "snippet", ref |-> r.ref, id |-> r.id, source |-> r.source]
          [] s.openItem.kind = "division" /\ HasDivision(s.divisions, s.openItem.ref) -> division(s.openItem.ref)
          [] OTHER -> division(RootOf(s))

TypeOK ==
    /\ \A i \in DOMAIN store.divisions :
         store.divisions[i].xmlId \in XmlIds /\ store.divisions[i].type \in Types \cup {RootType}
    /\ store.snippets \in SUBSET [id : 1..store.minted, ref : SnippetRefs, source : {r.source : r \in store.snippets}]
    /\ store.openItem \in {Item("division", x) : x \in XmlIds} \cup {Item("snippet", r) : r \in SnippetRefs}
    /\ store.creating.kind \in {"none", "division", "snippet"}
    /\ held.kind \in {"none", "division", "snippet"}
    /\ home \in [Words -> 0..store.minted]
    /\ steps \in 0..MaxSteps

Init ==
    /\ store = [divisions |-> InitialPool, snippets |-> {}, openItem |-> Item("division", RootId),
                openTabs |-> <<Item("division", RootId)>>, creating |-> NoCreation, minted |-> Len(InitialPool)]
    /\ model = Target(store).source
    /\ held = NotHeld
    /\ home = [w \in Words |-> Nobody]
    /\ steps = 0

-----------------------------------------------------------------------------
(* The tabs and what is open.                                               *)

\* openTabsAfterOpening: a division replaces the division that was active.
TabsAfterOpening(tabs, active, item) ==
    IF Contains(tabs, item) THEN tabs
    ELSE IF ~ Contains(tabs, active) THEN Append(tabs, item)
    ELSE LET at == CHOOSE i \in DOMAIN tabs : tabs[i] = active
         IN  IF item.kind = "division" /\ active.kind = "division" THEN ReplaceAt(tabs, at, item)
             ELSE InsertAt(tabs, at + 1, item)

RenameTab(tabs, old, new) == [i \in DOMAIN tabs |-> IF tabs[i] = old THEN new ELSE tabs[i]]

\* openItemState.  The author abandons the creation form by opening something.
Open(s, item, byAuthor) ==
    LET left == IF byAuthor THEN [s EXCEPT !.creating = NoCreation] ELSE s
    IN  IF s.openItem = item THEN left
        ELSE [left EXCEPT !.openItem = item, !.openTabs = TabsAfterOpening(@, s.openItem, item)]

\* rootItem: the root the store knows of, or the first of the document's type, or the first.
RootItem(s, root) ==
    LET documents == SelectSeq(s.divisions, LAMBDA d : d.type = RootType)
    IN  Item("division", IF HasDivision(s.divisions, root) THEN root
                         ELSE IF documents # <<>> THEN documents[1].xmlId
                         ELSE s.divisions[1].xmlId)

\* closeTabState: the active tab's left neighbour is next, and the root after the last.
Close(s, item, root, byAuthor) ==
    IF ~ Contains(s.openTabs, item) THEN s
    ELSE LET at == CHOOSE i \in DOMAIN s.openTabs : s.openTabs[i] = item
             rest == RemoveAt(s.openTabs, at)
             next == IF rest = <<>> THEN RootItem(s, root) ELSE rest[IF at = 1 THEN 1 ELSE at - 1]
         IN  IF s.openItem # item THEN [s EXCEPT !.openTabs = rest]
             ELSE [Open([s EXCEPT !.openTabs = rest], next, byAuthor)
                     EXCEPT !.openTabs = IF rest = <<>> THEN <<next>> ELSE rest]

-----------------------------------------------------------------------------
(* The pools.                                                               *)

SetDivisionContent(s, xmlId, source) ==
    [s EXCEPT !.divisions = [i \in DOMAIN @ |-> IF @[i].xmlId = xmlId THEN [@[i] EXCEPT !.source = source] ELSE @[i]]]

\* patchDivision: the record, and its tab if the id has changed.
PatchDivision(s, xmlId, new, type) ==
    LET was == Item("division", xmlId)
        now == Item("division", new)
        patched(d) == IF d.xmlId = xmlId THEN [d EXCEPT !.xmlId = new, !.type = type] ELSE d
    IN  [s EXCEPT !.divisions = [i \in DOMAIN @ |-> patched(@[i])],
                  !.openItem = IF @ = was THEN now ELSE @, !.openTabs = RenameTab(@, was, now)]

\* applyDivisionAdd: under an id minted here, unless the pool has the xml:id.
AddDivision(s, xmlId, type) ==
    IF HasDivision(s.divisions, xmlId) THEN s
    ELSE [s EXCEPT !.minted = @ + 1,
                   !.divisions = Append(@, Division(s.minted + 1, xmlId, type, BlankBody(Pretext)))]

RemoveDivision(s, xmlId) ==
    LET rest == [s EXCEPT !.divisions = SelectSeq(@, LAMBDA d : d.xmlId # xmlId)]
    IN  Close(rest, Item("division", xmlId), RootOf(s), FALSE)

\* applyRecordSourceChange: for a snippet that still has the name.
SetSnippetSource(s, ref, source) ==
    [s EXCEPT !.snippets = {IF r.ref = ref THEN [r EXCEPT !.source = source] ELSE r : r \in @}]

-----------------------------------------------------------------------------
(* The code editor and its debounce.                                        *)

\* What a keystroke's delivery closes over: the buffer, and the render's open
\* item, pool and root.
Delivery(text) ==
    [kind |-> Target(store).kind, ref |-> Target(store).ref, id |-> Target(store).id, text |-> text,
     from |-> Target(store).source, root |-> RootOf(store),
     types |-> [x \in XmlIds |-> IF HasDivision(store.divisions, x) THEN DivisionOf(store.divisions, x).type ELSE NoId]]

\* Each placeholder typed creates the division it names, or gives it its type.
Reconcile(s, h) ==
    LET named(p) == IF p.tag = Generic THEN DefaultType ELSE p.tag
        Step(a, p) ==
            CASE a.types[p.ref] = NoId ->
                   [s |-> AddDivision(a.s, p.ref, named(p)), types |-> [a.types EXCEPT ![p.ref] = named(p)]]
              [] a.types[p.ref] \notin {NoId, p.tag} /\ p.tag # Generic /\ p.ref \notin {h.ref, h.root} ->
                   [s |-> PatchDivision(a.s, p.ref, p.ref, p.tag), types |-> [a.types EXCEPT ![p.ref] = p.tag]]
              [] OTHER -> a
    IN  FoldLeft(Step, [s |-> s, types |-> h.types], Placeholders(h.text)).s

\* handleDivisionContentChange and applyRecordSourceChange.
Deliver(s, h) ==
    CASE h.kind = "snippet" -> SetSnippetSource(s, h.ref, h.text)
      [] h.kind = "division" /\ h.text # h.from -> Reconcile(SetDivisionContent(s, h.ref, h.text), h)
      [] OTHER -> s

\* Mutant of Settled: the debounce is left to deliver later.
Settled_later(s) == s

\* settledDivisions: the pool with what the author has typed.
Settled(s) == Deliver(s, held)

\* The render: the code editor is given the open item's text and takes it over
\* if it is not the text it was given before.
Rendered(s, shown) ==
    /\ Len(s.openTabs) <= MaxTabs
    /\ store' = s
    /\ LET given == Target(store)
           now == Target(s)
       IN  /\ model' = IF now.source = given.source THEN shown ELSE now.source
           /\ "same_content" \in Env \/ now.id = given.id \/ now.source # given.source \/ shown = now.source

Debounce ==
    /\ held # NotHeld
    /\ Rendered(Deliver(store, held), model)
    /\ held' = NotHeld
    /\ UNCHANGED <<home, steps>>

\* The code editor unmounts with the layout, delivers what it holds, and mounts anew.
Remount ==
    LET s == Settled(store)
    IN  /\ held # NotHeld
        /\ store' = s
        /\ model' = Target(s).source
        /\ held' = NotHeld
        /\ UNCHANGED <<home, steps>>

Edit == steps < MaxSteps /\ steps' = steps + 1

\* The author changes the text of the open buffer.
Type(text) ==
    /\ Edit /\ store.creating = NoCreation
    /\ held = NotHeld \/ (held.id = Target(store).id /\ held.text = model) \/ "switch" \in Env
    /\ text # model
    /\ model' = text
    /\ held' = Delivery(text)
    /\ store' = store

TypeWord(w) ==
    /\ home[w] = Nobody
    /\ Type(Append(model, Word(w)))
    /\ home' = [home EXCEPT ![w] = Target(store).id]

\* Whether x may be placed in the open division.
Placeable(x, tag) ==
    LET here == Target(store)
        others == SelectSeq(store.divisions, LAMBDA d : d.id # here.id)
    IN  /\ "cycle" \in Env \/ (x # RootOf(store) /\ here.ref \notin Reachable(store.divisions, x))
        /\ "twice" \in Env \/ \A i \in DOMAIN others : RefsTo(others[i].source, x) = {}
        /\ \A i \in RefsTo(model, x) : model[i].tag = tag

TypeRef(x, tag) ==
    /\ Target(store).kind = "division"
    /\ Placeable(x, tag)
    /\ Type(Append(model, Placeholder(x, tag)))
    /\ UNCHANGED home

EraseRef(x) ==
    /\ RefsTo(model, x) # {}
    /\ Type(RemoveRef(model, x))
    /\ UNCHANGED home

RetagRef(x, tag) ==
    /\ RefsTo(model, x) # {}
    /\ Type(RenameRef(model, x, x, tag))
    /\ UNCHANGED home

-----------------------------------------------------------------------------
(* Opening, closing, creating.                                              *)

Select(item) ==
    /\ item # store.openItem \/ store.creating # NoCreation
    /\ Rendered(Open(store, item, TRUE), model)
    /\ UNCHANGED <<held, home, steps>>

CloseTab(item) ==
    /\ Contains(store.openTabs, item)
    /\ Rendered(Close(store, item, RootOf(store), TRUE), model)
    /\ UNCHANGED <<held, home, steps>>

TypeOf(pool, x) == DivisionOf(pool, x).type

\* The types offered for a division below parent, or unplaced.
OfferedTypes(pool, parent) == IF HasDivision(pool, parent) THEN ChildTypes[TypeOf(pool, parent)] ELSE Types

\* Below the root, or a division in the document whose type holds divisions.
CanAddChild(parent) ==
    LET placement == PlacementOf(store.divisions, RootOf(store), parent).kind
    IN  placement = "root" \/ (placement = "placed" /\ ChildTypes[TypeOf(store.divisions, parent)] # {})

\* startNewDivision below a division that can take a child, or unplaced.
StartDivision(parent) ==
    /\ store.creating = NoCreation /\ steps < MaxSteps
    /\ parent = NoId \/ CanAddChild(parent)
    /\ Rendered([store EXCEPT !.creating = [kind |-> "division", parent |-> parent]], model)
    /\ UNCHANGED <<held, home, steps>>

\* Named while the name is free in the pool and, but for fast hands, in what is being typed.
FreeId(x) ==
    /\ ~ HasDivision(store.divisions, x)
    /\ RefsTo(held.text, x) = {} \/ "fast_hands" \in Env

\* commitSectionEdit and handleDivisionCreate: the division, its placeholder at
\* the end of the parent, and the division open.
CommitDivision(x, type) ==
    LET parent == store.creating.parent
        settled == IF parent = NoId THEN store ELSE Settled(store)
        added == AddDivision([settled EXCEPT !.creating = NoCreation], x, type)
        pool == settled.divisions
        placed == IF ~ HasDivision(pool, parent) THEN added
                  ELSE SetDivisionContent(added, parent, InsertRef(DivisionOf(pool, parent).source, x, type))
    IN  /\ store.creating.kind = "division" /\ Edit
        /\ FreeId(x) /\ type \in OfferedTypes(store.divisions, parent)
        /\ Rendered(Open(placed, Item("division", x), TRUE), model)
        /\ held' = IF parent = NoId THEN held ELSE NotHeld
        /\ UNCHANGED home

StartSnippet ==
    /\ store.creating = NoCreation /\ steps < MaxSteps
    /\ Rendered([store EXCEPT !.creating = [kind |-> "snippet", parent |-> NoId]], model)
    /\ UNCHANGED <<held, home, steps>>

\* handleSnippetCreated: the host has made the record, and its form is still there.
SnippetCreated(ref) ==
    LET created == [id |-> store.minted + 1, ref |-> ref, source |-> <<>>]
        added == [store EXCEPT !.minted = @ + 1, !.snippets = @ \cup {created}]
    IN  /\ store.creating.kind = "snippet" /\ Edit
        /\ SnippetsNamed(store, ref) = {} /\ (held.ref # ref \/ "fast_hands" \in Env)
        /\ Rendered(Open(added, Item("snippet", ref), TRUE), model)
        /\ UNCHANGED <<held, home>>

CancelCreate ==
    /\ store.creating # NoCreation
    /\ Rendered([store EXCEPT !.creating = NoCreation], model)
    /\ UNCHANGED <<held, home, steps>>

\* saveRecord and renameSnippetInPool; Bridge has the wait for the host between.
\* No division of this pool places a snippet.
RenameSnippet(ref, new) ==
    LET was == Item("snippet", ref)
        now == Item("snippet", new)
        renamed == {IF r.ref = ref THEN [r EXCEPT !.ref = new] ELSE r : r \in store.snippets}
    IN  /\ SnippetsNamed(store, ref) # {} /\ SnippetsNamed(store, new) = {} /\ Edit
        /\ store.openItem = was /\ (held.ref \notin {ref, new} \/ "fast_hands" \in Env)
        /\ Rendered([store EXCEPT !.snippets = renamed, !.openTabs = RenameTab(@, was, now), !.openItem = now], model)
        /\ UNCHANGED <<held, home>>

RemoveSnippet(ref) ==
    /\ SnippetsNamed(store, ref) # {} /\ Edit
    /\ LET rest == [store EXCEPT !.snippets = @ \ SnippetsNamed(store, ref)]
       IN  Rendered(Close(rest, Item("snippet", ref), RootOf(store), FALSE), model)
    /\ UNCHANGED <<held, home>>

-----------------------------------------------------------------------------
(* The settings of the open division.                                       *)

\* Mutant of SyncParent: the placeholder keeps the type it had.
SyncParent_ids_only(s, pool, old, new, type) ==
    LET parent == ParentOf(pool, old)
    IN  IF parent = NoId THEN s
        ELSE SetDivisionContent(s, parent, RenameRef(DivisionOf(pool, parent).source, old, new, TypeOf(pool, old)))

\* syncParentDivisionRef: the placeholder in the first division that has one.
SyncParent(s, pool, old, new, type) ==
    LET parent == ParentOf(pool, old)
    IN  IF parent = NoId THEN s
        ELSE SetDivisionContent(s, parent, RenameRef(DivisionOf(pool, parent).source, old, new, type))

\* The types the drawer offers: the root keeps its own, an unplaced head is
\* offered what the root may hold.
TypeOptions(x) ==
    LET root == RootOf(store)
        placement == PlacementOf(store.divisions, root, x)
        parent == IF placement.parent = NoId THEN root ELSE placement.parent
    IN  {TypeOf(store.divisions, x)} \cup
          IF placement.kind = "root" THEN {} ELSE OfferedTypes(store.divisions, parent)

\* applyDivisionMetadataEdit: the xml:id and the type of a division.
EditMetadata(x, new, type) ==
    LET settled == Settled(store)
        patched == PatchDivision(settled, x, new, type)
        synced == SyncParent(patched, settled.divisions, x, new, type)
    IN  /\ store.openItem = Item("division", x) /\ Edit
        /\ new = x \/ FreeId(new)
        /\ x # RootOf(store) \/ "root_renamed" \in Env
        /\ type \in TypeOptions(x) /\ <<new, type>> # <<x, TypeOf(store.divisions, x)>>
        /\ Rendered(IF new = x THEN synced ELSE Open(synced, Item("division", new), TRUE), model)
        /\ held' = NotHeld
        /\ UNCHANGED home

\* The structural actions rewrite a parent as the store has it.
Structural(x, kinds) ==
    /\ store.openItem = Item("division", x)
    /\ PlacementOf(store.divisions, RootOf(store), x).kind \in kinds
    /\ held = NotHeld \/ "fast_hands" \in Env
    /\ Edit
    /\ UNCHANGED <<held, home>>

WithoutRef(s, parent, x) ==
    IF parent = NoId THEN s
    ELSE SetDivisionContent(s, parent, RemoveRef(DivisionOf(s.divisions, parent).source, x))

Unplace(x) ==
    /\ Structural(x, {"placed"})
    /\ Rendered(WithoutRef(store, PlacementOf(store.divisions, RootOf(store), x).parent, x), model)

Delete(x) ==
    /\ Structural(x, {"placed", "unplaced"})
    /\ LET parent == PlacementOf(store.divisions, RootOf(store), x).parent
       IN  Rendered(RemoveDivision(WithoutRef(store, parent, x), x), model)

PlaceInDocument(x) ==
    LET root == DivisionOf(store.divisions, RootOf(store))
    IN  /\ Structural(x, {"unplaced"})
        /\ PlacementOf(store.divisions, root.xmlId, x).parent = NoId
        /\ LET source == InsertRef(root.source, x, TypeOf(store.divisions, x))
           IN  Rendered(SetDivisionContent(store, root.xmlId, source), model)

Typing ==
    \/ \E w \in Words : TypeWord(w)
    \/ \E x \in XmlIds, tag \in Types \cup {Generic} : TypeRef(x, tag) \/ RetagRef(x, tag)
    \/ \E x \in XmlIds : EraseRef(x)

Structure ==
    \/ \E x, new \in XmlIds, type \in Types \cup {RootType} : EditMetadata(x, new, type)
    \/ \E x \in XmlIds : Unplace(x) \/ Delete(x) \/ PlaceInDocument(x)

Forms ==
    \/ \E x \in IdsIn(store.divisions) \cup {NoId} : StartDivision(x)
    \/ \E x \in XmlIds, type \in Types : CommitDivision(x, type)
    \/ StartSnippet \/ CancelCreate
    \/ \E ref \in SnippetRefs : SnippetCreated(ref) \/ RemoveSnippet(ref)
    \/ \E ref, new \in SnippetRefs : RenameSnippet(ref, new)

Tabbing ==
    \/ \E x \in IdsIn(store.divisions) : Select(Item("division", x))
    \/ \E r \in store.snippets : Select(Item("snippet", r.ref))
    \/ \E i \in DOMAIN store.openTabs : CloseTab(store.openTabs[i])

Next == Debounce \/ Remount \/ Typing \/ Structure \/ Forms \/ Tabbing

Spec == Init /\ [][Next]_vars
-----------------------------------------------------------------------------
\* The strip has a tab for what is open and none twice, each leads to a record,
\* and the code editor shows the open record's text or what was typed over it.
TabsLead ==
    /\ IsInjective(store.openTabs) /\ Contains(store.openTabs, store.openItem)
    /\ \A i \in DOMAIN store.openTabs :
         LET tab == store.openTabs[i]
         IN  IF tab.kind = "division" THEN HasDivision(store.divisions, tab.ref) ELSE SnippetsNamed(store, tab.ref) # {}
    /\ model = Target(store).source \/ (held.id = Target(store).id /\ held.text = model)

\* "The placeholder's tag is a mirror of the child's own type ... the two must
\* be kept equal from whichever side the author edited" (Editors.tsx:1332-1335),
\* and it names a division that exists.
PlaceholdersMatch ==
    \A i \in DOMAIN store.divisions : \A j \in DOMAIN Placeholders(store.divisions[i].source) :
        LET p == Placeholders(store.divisions[i].source)[j]
        IN  /\ HasDivision(store.divisions, p.ref)
            /\ p.tag \in {Generic, DivisionOf(store.divisions, p.ref).type}

\* What the parts of the editor say of each other is so: the tabs, the code
\* editor and the records, and the placeholders and the divisions they name.
Consistent == TypeOK /\ TabsLead /\ PlaceholdersMatch

Records == {store.divisions[i] : i \in DOMAIN store.divisions} \cup store.snippets
HasWord(source, w) == Word(w) \in ToSet(source)

\* "A change belongs to the division that was open when it was typed"
\* (CodeEditor.tsx:375-376): a word is in that record's text, or on its way
\* there, as long as the record exists, and in no other record's.
TypedStaysHome ==
    \A w \in Words : \A r \in Records :
        /\ HasWord(r.source, w) => r.id = home[w]
        /\ r.id = home[w] => HasWord(r.source, w) \/ (held.id = r.id /\ HasWord(held.text, w))

\* What the table of contents lists below the root, once each, is what the
\* assembled document contains, and every other division is listed once in the
\* trees of what is unplaced.
TocIsTheDocument ==
    LET pool == store.divisions
        root == RootOf(store)
        loose == OrphanRoots(pool, root)
    IN  /\ IsInjective(Tree(pool, root))
        /\ Listed(pool, root) \cup {root} = ToSet(Assembled(pool, root, {}))
        /\ IdsIn(pool) = Listed(pool, root) \cup {root} \cup loose \cup UNION {Listed(pool, o) : o \in loose}
        /\ \A o, q \in loose : o # q => Listed(pool, o) \cap Listed(pool, q) = {}
        /\ \A o \in loose : Listed(pool, o) \cap (Listed(pool, root) \cup {root} \cup loose) = {}

\* "If this is the root division keep rootDivisionId (used to assemble/preview
\* the doc) pointing at it" (editor.jsx:972-973): the division the editor takes
\* for the document is the one the project was loaded with.
RootIsTheDocument ==
    \A i \in DOMAIN store.divisions :
        store.divisions[i].id = DivisionOf(InitialPool, RootId).id => store.divisions[i].xmlId = RootOf(store)
=============================================================================
