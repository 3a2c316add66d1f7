------------------------------ MODULE Bridge ------------------------------
(***************************************************************************)
(* The tabs of a collaborative session: each keeps its editor store equal  *)
(* to its copy of the project document (collab/bridge.ts), writes its      *)
(* author's edits to both (components/Editors.tsx) and types straight into *)
(* the document through the Monaco binding, the store following later.     *)
(*                                                                         *)
(* An action is one handler run to its end: JavaScript runs a document     *)
(* transaction, its observers and the store's updates without a break.     *)
(* What an await separates is separate here: the answer of the host to a   *)
(* settings save, to an upload, to a replacement.                          *)
(*                                                                         *)
(* Ordinary words of Env: a tab is "offline" and hears several of its      *)
(* peers' transactions as one; an "answer_lost" leaves a record on the     *)
(* host that no document lists.  The others name races that break the      *)
(* properties below, and are kept apart so that the rest can be checked:   *)
(*   old_page       the page a tab loads is older than a division's rename *)
(*   slow_host      an entry changes while its settings are being saved    *)
(*   switch         two buffers are typed in within one debounce           *)
(*   renamed_under  a peer renames what the debounce is about to deliver   *)
(*   same_name      a name that was in use before is chosen again          *)
(*   both_push      a joining tab pushes a record its creator is adding    *)
(***************************************************************************)
EXTENDS ProjectDoc, FiniteSetsExt

CONSTANTS
    Tabs,       \* the tabs, as their Yjs client ids
    Root,       \* the root division
    Initial,    \* the entries of the seed: sets of Put(...)
    Typed,      \* the words an author may type
    Titles,
    MaxTx,      \* bound on the transactions
    Env         \* what else may happen

ASSUME EnvAssumption == Env \subseteq
    {"offline", "answer_lost", "old_page", "slow_host", "switch", "renamed_under", "same_name", "both_push"}
ASSUME TabsAssumption == Tabs \subseteq Nat
ASSUME KeysAssumption == Root \in DivisionKeys /\ DivisionKeys \cap RecordKeys = {}

VARIABLES
    know,       \* the transactions each tab has integrated; none before it joins
    store,      \* each tab's pools and title
    index,      \* each bridge's maps between keys and names
    typing,     \* the buffer whose keystrokes a tab's debounce still holds
    waiting,    \* what a tab awaits from the host
    host        \* the name each record has in the project's rows

vars == <<tx, know, store, index, typing, waiting, host>>

Kinds == {"division", "record"}
KeysOf(kind) == IF kind = "division" THEN DivisionKeys ELSE RecordKeys
KindOf(k) == IF k \in DivisionKeys THEN "division" ELSE "record"
Records == [id: Keys, name: Names, text: SUBSET (Typed \cup Names)]
NoTyping == [kind |-> "division", key |-> None, name |-> None]
NotWaiting == [for |-> "nothing"]

Rec(k, name, text) == [id |-> k, name |-> name, text |-> text]
Joined(p) == know[p] # {}

TypeOK ==
    /\ tx \in Seq([by: Tabs, deps: SUBSET (1..MaxTx), put: SUBSET [key: Keys, name: Names, text: SUBSET (Typed \cup Names)],
                   drop: SUBSET Keys, name: SUBSET (((1..MaxTx) \X Keys) \X Names),
                   ins: SUBSET (((1..MaxTx) \X Keys) \X (Typed \cup Names)),
                   del: SUBSET (((1..MaxTx) \X Keys) \X (Typed \cup Names)),
                   mark: SUBSET Keys, title: SUBSET Titles])
    /\ Len(tx) \in 1..MaxTx
    /\ know \in [Tabs -> SUBSET (1..Len(tx))]
    /\ store \in [Tabs -> [division: SUBSET Records, record: SUBSET Records, title: Titles]]
    /\ index \in [Tabs -> [nameOf: [Keys -> Names \cup {None}],
                           division: [Names -> DivisionKeys \cup {None}],
                           record: [Names -> RecordKeys \cup {None}]]]
    /\ typing \in [Tabs -> [kind: Kinds, key: Keys \cup {None}, name: Names \cup {None}]]
    /\ \A p \in Tabs : waiting[p].for \in {"nothing", "document", "save", "output", "replace", "create"}
    /\ host \in [RecordKeys -> Names \cup {None}]

NoIndex == [nameOf |-> [k \in Keys |-> None], division |-> [n \in Names |-> None], record |-> [n \in Names |-> None]]

NoStore == [division |-> {}, record |-> {}, title |-> CHOOSE v \in Titles : TRUE]

\* The first tab of the session seeded the document and shows what it says.
First == CHOOSE p \in Tabs : TRUE
SeedStore == [division |-> Snapshots(DivisionKeys, {1}), record |-> Snapshots(RecordKeys, {1}), title |-> TitleOf({1})]
SeedIndex ==
    LET named(ks, n) == {r \in Snapshots(ks, {1}) : r.name = n}
        key(ks) == [n \in Names |-> IF named(ks, n) = {} THEN None ELSE (CHOOSE r \in named(ks, n) : TRUE).id]
    IN  [nameOf |-> [k \in Keys |-> IF Has(k, {1}) THEN Snapshot(k, {1}).name ELSE None],
         division |-> key(DivisionKeys), record |-> key(RecordKeys)]

Init ==
    /\ tx = << [Blank(First, {}) EXCEPT !.put = Initial, !.title = {CHOOSE v \in Titles : TRUE}] >>
    /\ know = [p \in Tabs |-> IF p = First THEN {1} ELSE {}]
    /\ store = [p \in Tabs |-> IF p = First THEN SeedStore ELSE NoStore]
    /\ index = [p \in Tabs |-> IF p = First THEN SeedIndex ELSE NoIndex]
    /\ typing = [p \in Tabs |-> NoTyping]
    /\ waiting = [p \in Tabs |-> NotWaiting]
    /\ host = [k \in RecordKeys |-> IF \E e \in Initial : e.key = k THEN Snapshot(k, {1}).name ELSE None]

-----------------------------------------------------------------------------
(* The store's pools.  Both are searched by name.                           *)

Named(pool, name) == {r \in pool : r.name = name}
Without(pool, names) == {r \in pool : r.name \notin names}

SetContent(pool, name, text) == Without(pool, {name}) \cup {[r EXCEPT !.text = text] : r \in Named(pool, name)}
PatchName(pool, old, new) == Without(pool, {old}) \cup {[r EXCEPT !.name = new] : r \in Named(pool, old)}
AddToPool(pool, rec) == IF Named(pool, rec.name) # {} THEN pool ELSE pool \cup {rec}
UpdateInPool(pool, rec) == Without(pool, {rec.name}) \cup {rec}
RenameInPool(pool, old, rec) == Without(pool, {old, rec.name}) \cup {rec}

-----------------------------------------------------------------------------
(* The bridge's maps, and what its observers do with a remote change.  A    *)
(* view is a tab's store and maps.                                          *)

View(p) == [store |-> store[p], index |-> index[p]]

\* Divisions are mapped whoever had the name, and unmapped whoever has it now.
MapDivision(ix, k, name) == [ix EXCEPT !.nameOf[k] = name, !.division[name] = k]
UnmapDivision(ix, k) == [ix EXCEPT !.division[ix.nameOf[k]] = None, !.nameOf[k] = None]
RenameDivision(ix, k, new) == MapDivision(UnmapDivision(ix, k), k, new)

\* A record gives up a name only while it holds it.
Holds(ix, k) == ix.nameOf[k] # None /\ ix.record[ix.nameOf[k]] = k

\* Mutant of UntrackKey: the name is freed whoever holds it.
UntrackKey_always(ix, k) ==
    LET freed == IF ix.nameOf[k] # None THEN [ix EXCEPT !.record[ix.nameOf[k]] = None] ELSE ix
    IN  [freed EXCEPT !.nameOf[k] = None]

UntrackKey(ix, k) ==
    LET freed == IF Holds(ix, k) THEN [ix EXCEPT !.record[ix.nameOf[k]] = None] ELSE ix
    IN  [freed EXCEPT !.nameOf[k] = None]

TrackKey(ix, k, name) == [UntrackKey(ix, k) EXCEPT !.nameOf[k] = name, !.record[name] = k]

DivisionAdded(snap, v) ==
    [store |-> [v.store EXCEPT !.division = AddToPool(@, snap)], index |-> MapDivision(v.index, snap.id, snap.name)]

DivisionDeleted(k, v) ==
    IF v.index.nameOf[k] = None THEN v
    ELSE [store |-> [v.store EXCEPT !.division = Without(@, {v.index.nameOf[k]})], index |-> UnmapDivision(v.index, k)]

DivisionRenamed(snap, v) ==
    IF v.index.nameOf[snap.id] = None THEN v
    ELSE [store |-> [v.store EXCEPT !.division = PatchName(@, v.index.nameOf[snap.id], snap.name)],
          index |-> IF v.index.nameOf[snap.id] = snap.name THEN v.index ELSE RenameDivision(v.index, snap.id, snap.name)]

DivisionTyped(snap, v) ==
    IF v.index.nameOf[snap.id] = None THEN v
    ELSE [v EXCEPT !.store.division = SetContent(@, v.index.nameOf[snap.id], snap.text)]

\* Mutant of RecordDeleted: whatever has the name leaves the pool.
RecordDeleted_by_name(k, v) ==
    [store |-> IF v.index.nameOf[k] # None THEN [v.store EXCEPT !.record = Without(@, {v.index.nameOf[k]})] ELSE v.store,
     index |-> UntrackKey(v.index, k)]

RecordDeleted(k, v) ==
    [store |-> IF Holds(v.index, k) THEN [v.store EXCEPT !.record = Without(@, {v.index.nameOf[k]})] ELSE v.store,
     index |-> UntrackKey(v.index, k)]

RecordChanged(snap, v) ==
    LET previous == v.index.nameOf[snap.id]
        renamed == previous # snap.name /\ Holds(v.index, snap.id)
    IN  [store |-> [v.store EXCEPT !.record = IF renamed THEN RenameInPool(@, previous, snap) ELSE UpdateInPool(@, snap)],
         index |-> TrackKey(v.index, snap.id, snap.name)]

Each(Op(_, _), S, v) == FoldSet(LAMBDA x, w : Op(x, w), v, S)

\* The observers' events for a document that goes from K to L: entries added,
\* entries gone, fields, texts, in the order in which observeDeep sorts them.
Observed(v, K, L) ==
    LET added(ks)   == {Snapshot(k, L) : k \in {j \in ks : ~ Has(j, K) /\ Has(j, L)}}
        gone(ks)    == {k \in ks : Has(k, K) /\ ~ Has(k, L)}
        kept(ks)    == {k \in ks : Has(k, L) /\ EntryOf(k, L) = EntryOf(k, K)}
        renamed     == {Snapshot(k, L) : k \in {j \in kept(DivisionKeys) : Snapshot(j, K).name # Snapshot(j, L).name}}
        typed       == {Snapshot(k, L) : k \in {j \in kept(DivisionKeys) : Snapshot(j, K).text # Snapshot(j, L).text}}
        changed     == {Snapshot(k, L) : k \in {j \in RecordKeys : Has(j, K) /\ Has(j, L) /\
                           (EntryOf(j, K) # EntryOf(j, L) \/ Snapshot(j, K) # Snapshot(j, L))}}
        v1 == Each(DivisionAdded, added(DivisionKeys), v)
        v2 == Each(DivisionDeleted, gone(DivisionKeys), v1)
        v3 == Each(DivisionRenamed, renamed, v2)
        v4 == Each(DivisionTyped, typed, v3)
        v5 == Each(RecordChanged, added(RecordKeys), v4)
        v6 == Each(RecordDeleted, gone(RecordKeys), v5)
        v7 == Each(RecordChanged, changed, v6)
    IN  IF TitleOf(K) = TitleOf(L) THEN v7 ELSE [v7 EXCEPT !.store.title = TitleOf(L)]

-----------------------------------------------------------------------------
(* Joining a session: the store is seeded from the page, which is the rows  *)
(* as they were when it was loaded, and then reconciled with the document.  *)

Load(p) ==
    /\ ~ Joined(p) /\ waiting[p] = NotWaiting
    /\ \E n \in 1..Len(tx) :
         LET rows == 1..n
         IN  /\ store' = [store EXCEPT ![p] =
                    [division |-> Snapshots(DivisionKeys, rows),
                     record |-> {Rec(k, host[k], IF Has(k, rows) THEN Snapshot(k, rows).text ELSE {}) :
                                   k \in {j \in RecordKeys : host[j] # None}},
                     title |-> TitleOf(rows)]]
             /\ waiting' = [waiting EXCEPT ![p] = [for |-> "document", page |-> n]]
    /\ UNCHANGED <<tx, know, index, typing, host>>

\* A division is matched by its name, a record by its id.  A division's title,
\* type and format are registers like its name, which stands for them all: that
\* the join compares those of a division the page has one by one, and patches
\* none that the document lacks, is left out.
DivisionMet(snap, v) ==
    [store |-> [v.store EXCEPT !.division = IF Named(@, snap.name) = {} THEN AddToPool(@, snap)
                                            ELSE SetContent(@, snap.name, snap.text)],
     index |-> MapDivision(v.index, snap.id, snap.name)]

RecordMet(snap, v) ==
    LET pooled == {r \in v.store.record : r.id = snap.id /\ r.name # snap.name}
    IN  [store |-> [v.store EXCEPT !.record = IF pooled = {} THEN UpdateInPool(@, snap)
                                              ELSE RenameInPool(@, (CHOOSE r \in pooled : TRUE).name, snap)],
         index |-> TrackKey(v.index, snap.id, snap.name)]

DivisionPushed(rec, v) == [v EXCEPT !.index = MapDivision(@, rec.id, rec.name)]
RecordPushed(rec, v) == [v EXCEPT !.index = TrackKey(@, rec.id, rec.name)]

Buried(pool, K) == {r \in pool : Tombstoned(r.id, K)}

\* What the page lists and the document lacks is dropped if the document knows
\* it was deleted, and pushed into the document otherwise.
Reconciled(v, K) ==
    LET v1 == Each(DivisionMet, Snapshots(DivisionKeys, K), v)
        unmapped == {r \in v1.store.division : v1.index.division[r.name] = None}
        dropped == Buried(unmapped, K)
        divisions == {r \in unmapped \ dropped : ~ Has(r.id, K)}
        v2 == Each(DivisionPushed, divisions, [v1 EXCEPT !.store.division = @ \ dropped])
        v3 == Each(RecordMet, Snapshots(RecordKeys, K), v2)
        stale == Buried(v3.store.record, K)
        records == {r \in v3.store.record \ stale : ~ Has(r.id, K)}
        v4 == Each(RecordPushed, records, [v3 EXCEPT !.store.record = Without(@, {r.name : r \in stale})])
    IN  [view |-> [v4 EXCEPT !.store.title = TitleOf(K)], push |-> divisions \cup records]

\* Nobody else has put the key, or is about to.
FirstPut(k, K) ==
    \/ "both_push" \in Env
    \/ /\ \A t \in DOMAIN tx \ K : \A put \in tx[t].put : put.key # k
       /\ \A q \in Tabs : waiting[q].for \in {"create", "replace"} => waiting[q].rec.id # k

\* The transaction of tab p, appended and integrated by its author.
Commit(p, K, txn) ==
    /\ Len(tx) < MaxTx
    /\ tx' = Append(tx, txn)
    /\ know' = [know EXCEPT ![p] = K \cup {Len(tx) + 1}]

SameNames(K, L) == \A k \in DivisionKeys : Has(k, K) /\ Has(k, L) => Snapshot(k, K).name = Snapshot(k, L).name

Join(p) ==
    /\ waiting[p].for = "document"
    /\ \E m \in waiting[p].page..Len(tx) :
         LET K == 1..m
             r == Reconciled([store |-> store[p], index |-> NoIndex], K)
         IN  /\ "old_page" \in Env \/ SameNames(1..waiting[p].page, K)
             /\ store' = [store EXCEPT ![p] = r.view.store]
             /\ index' = [index EXCEPT ![p] = r.view.index]
             /\ IF r.push = {}
                THEN /\ know' = [know EXCEPT ![p] = K]
                     /\ tx' = tx
                ELSE /\ \A x \in r.push : FirstPut(x.id, K)
                     /\ Commit(p, K, [Blank(p, K) EXCEPT !.put = {Put(x.id, x.name, x.text) : x \in r.push}])
    /\ waiting' = [waiting EXCEPT ![p] = NotWaiting]
    /\ UNCHANGED <<typing, host>>

\* The entries a tab is about to write to under the name they had a moment ago.
Held(p) == ({typing[p].key} \cup (IF waiting[p].for = "replace" THEN {waiting[p].old} ELSE {})) \ {None}

\* A transaction of a peer arrives; after a time offline, several as one.
Receive(p) ==
    /\ Joined(p)
    /\ \E S \in SUBSET ((1..Len(tx)) \ know[p]) :
         /\ S # {}
         /\ Cardinality(S) = 1 \/ "offline" \in Env
         /\ \A t \in S : tx[t].deps \subseteq know[p] \cup S
         /\ LET v == Observed(View(p), know[p], know[p] \cup S)
            IN  /\ "renamed_under" \in Env \/ \A k \in Held(p) : v.index.nameOf[k] \in {index[p].nameOf[k], None}
                /\ store' = [store EXCEPT ![p] = v.store]
                /\ index' = [index EXCEPT ![p] = v.index]
         /\ know' = [know EXCEPT ![p] = @ \cup S]
    /\ UNCHANGED <<tx, typing, waiting, host>>

-----------------------------------------------------------------------------
(* The author's edits.                                                      *)

\* getYText, getRecordText: the entry a tab's buffer of that name is bound to.
Bound(p, kind, name) ==
    LET k == index[p][kind][name]
    IN  IF k = None THEN None ELSE EntryOf(k, know[p])

Words == UNION {{i[2] : i \in tx[t].ins} : t \in DOMAIN tx}

\* A keystroke: the Monaco binding writes it into the shared text.  The store
\* hears of it when the debounce lets go of it.
Keystroke(p, kind, name) ==
    /\ Named(store[p][kind], name) # {}
    /\ Bound(p, kind, name) # None
    /\ typing[p] \in {NoTyping, [kind |-> kind, key |-> index[p][kind][name], name |-> name]} \/ "switch" \in Env
    /\ Typed \ Words # {}
    /\ Commit(p, know[p], [Blank(p, know[p]) EXCEPT
                             !.ins = {<<Bound(p, kind, name), CHOOSE w \in Typed \ Words : TRUE>>}])
    /\ typing' = [typing EXCEPT ![p] = [kind |-> kind, key |-> index[p][kind][name], name |-> name]]
    /\ UNCHANGED <<store, index, waiting, host>>

\* Mutant of Settled: what the debounce holds is left for it.
Settled_later(p) == store[p]

\* The store after the debounce has delivered the buffer: under the name it had
\* when the key was struck, the text the shared document has.
Settled(p) ==
    LET held == typing[p]
    IN  IF held.key = None \/ index[p][held.kind][held.name] # held.key \/ ~ Has(held.key, know[p])
        THEN store[p]
        ELSE [store[p] EXCEPT ![held.kind] = SetContent(@, held.name, Snapshot(held.key, know[p]).text)]

Debounce(p) ==
    /\ typing[p] # NoTyping
    /\ store' = [store EXCEPT ![p] = Settled(p)]
    /\ typing' = [typing EXCEPT ![p] = NoTyping]
    /\ UNCHANGED <<tx, know, index, waiting, host>>

\* localContentChange on a division, if the document has it under that name.
ContentChange(ix, name, text, K) ==
    LET k == ix.division[name]
    IN  IF k = None \/ ~ Has(k, K) THEN [ins |-> {}, del |-> {}] ELSE Rewrite(EntryOf(k, K), text, K)

\* The names in use; the settings refuse those their own tab lists.
Given == UNION {{put.name : put \in tx[t].put} \cup {w[2] : w \in tx[t].name} : t \in DOMAIN tx}
Hosted == {host[k] : k \in RecordKeys}
FreeHere(p, name) == \A kind \in Kinds : Named(store[p][kind], name) = {}
FreeName(p, name) == FreeHere(p, name) /\ (name \notin Given \cup Hosted \/ "same_name" \in Env)

ParentsOf(pool, name) == {r \in pool : name \in r.text /\ r.name # name}

\* A division's xml:id is changed: its entry, and the placeholder in its parent.
RenameDivisionTo(p, old, new) ==
    LET pools == Settled(p)
        k == index[p].division[old]
        parents == ParentsOf(pools.division, old)
        renamed == PatchName(pools.division, old, new)
        ix == IF k = None THEN index[p] ELSE RenameDivision(index[p], k, new)
        entry == IF k # None /\ Has(k, know[p]) THEN {<<EntryOf(k, know[p]), new>>} ELSE {}
        Whole(pool, text, diff) ==
            /\ store' = [store EXCEPT ![p] = [pools EXCEPT !.division = pool]]
            /\ Commit(p, know[p], [Blank(p, know[p]) EXCEPT !.name = entry, !.ins = diff.ins, !.del = diff.del])
    IN  /\ Joined(p)
        /\ Named(store[p].division, old) # {} /\ FreeName(p, new)
        /\ index' = [index EXCEPT ![p] = ix]
        /\ IF parents = {} THEN Whole(renamed, {}, [ins |-> {}, del |-> {}])
           ELSE \E r \in parents :
                  LET text == (r.text \ {old}) \cup {new}
                  IN  Whole(SetContent(renamed, r.name, text), text, ContentChange(ix, r.name, text, know[p]))
        /\ typing' = [typing EXCEPT ![p] = NoTyping]
        /\ UNCHANGED <<waiting, host>>

Minted(ks) == {k \in ks : (\A t \in DOMAIN tx : \A put \in tx[t].put : put.key # k)
                         /\ (k \in RecordKeys => host[k] = None)
                         /\ \A q \in Tabs : waiting[q].for \in {"create", "replace"} => waiting[q].rec.id # k}

\* A division is created under the id minted for it and placed in the root.
CreateDivision(p, k, name) ==
    LET pools == Settled(p)
        rec == Rec(k, name, {})
        parent == CHOOSE r \in pools.division : r.id = Root
        text == parent.text \cup {name}
        diff == ContentChange(index[p], parent.name, text, know[p])
    IN  /\ Joined(p)
        /\ k \in Minted(DivisionKeys) /\ FreeName(p, name)
        /\ store' = [store EXCEPT ![p] = [pools EXCEPT
                        !.division = SetContent(AddToPool(@, rec), parent.name, text)]]
        /\ index' = [index EXCEPT ![p] = MapDivision(@, k, name)]
        /\ Commit(p, know[p], [Blank(p, know[p]) EXCEPT !.put = {Put(k, name, {})}, !.ins = diff.ins, !.del = diff.del])
        /\ typing' = [typing EXCEPT ![p] = NoTyping]
        /\ UNCHANGED <<waiting, host>>

RemoveDivision(p, name) ==
    LET k == index[p].division[name]
    IN  /\ Named(store[p].division, name) # {} /\ k # Root /\ Joined(p)
        /\ store' = [store EXCEPT ![p].division = Without(@, {name})]
        /\ IF k = None THEN UNCHANGED <<tx, know, index>>
           ELSE /\ Commit(p, know[p], [Blank(p, know[p]) EXCEPT !.drop = {k}, !.mark = {k}])
                /\ index' = [index EXCEPT ![p] = UnmapDivision(@, k)]
        /\ UNCHANGED <<typing, waiting, host>>

ChangeTitle(p, v) ==
    /\ Joined(p) /\ store[p].title # v
    /\ store' = [store EXCEPT ![p].title = v]
    /\ Commit(p, know[p], [Blank(p, know[p]) EXCEPT !.title = {v}])
    /\ UNCHANGED <<index, typing, waiting, host>>

-----------------------------------------------------------------------------
(* Records.  A removal goes to the host as well, which may fail to hear it.  *)

RemoveRecord(p, name) ==
    \E r \in Named(store[p].record, name) :
        /\ Joined(p)
        /\ store' = [store EXCEPT ![p].record = Without(@, {name})]
        /\ index' = [index EXCEPT ![p] = UntrackKey(@, r.id)]
        /\ Commit(p, know[p], [Blank(p, know[p]) EXCEPT !.drop = {r.id}, !.mark = {r.id}])
        /\ host' \in {host, [host EXCEPT ![r.id] = None]}
        /\ UNCHANGED <<typing, waiting>>

\* localAssetAdd, localAssetUpdate: the writes that make the document's entry
\* be the record, every field of it, or that make an entry for it.
Mirrored(rec, K) ==
    IF Has(rec.id, K)
    THEN LET e == EntryOf(rec.id, K)
             diff == Rewrite(e, rec.text, K)
         IN  [put |-> {}, name |-> {<<e, rec.name>>}, ins |-> diff.ins, del |-> diff.del]
    ELSE [put |-> {Put(rec.id, rec.name, rec.text)}, name |-> {}, ins |-> {}, del |-> {}]

Mirror(p, rec, also) ==
    LET m == Mirrored(rec, know[p])
    IN  /\ index' = [index EXCEPT ![p] = TrackKey(@, rec.id, rec.name)]
        /\ Commit(p, know[p], [also EXCEPT !.put = m.put, !.name = m.name, !.ins = @ \cup m.ins, !.del = @ \cup m.del])

\* The host is asked only while its answer can still be written (MaxTx).
Asks(p, what) == /\ Joined(p) /\ waiting[p] = NotWaiting /\ Len(tx) < MaxTx
                 /\ waiting' = [waiting EXCEPT ![p] = what]
Hears(p, for) == /\ waiting[p].for = for
                 /\ waiting' = [waiting EXCEPT ![p] = NotWaiting]

\* The host creates the record first; only then is it in the pool and the document.
CreateRecord(p, k, name) ==
    /\ k \in Minted(RecordKeys) /\ FreeName(p, name)
    /\ Asks(p, [for |-> "create", rec |-> Rec(k, name, {})])
    /\ host' = [host EXCEPT ![k] = name]
    /\ UNCHANGED <<tx, know, store, index, typing>>

RecordCreated(p) ==
    /\ Hears(p, "create")
    /\ store' = [store EXCEPT ![p].record = AddToPool(@, waiting[p].rec)]
    /\ Mirror(p, waiting[p].rec, Blank(p, know[p]))
    /\ UNCHANGED <<typing, host>>

\* The host's answer is lost: only a page lists the record.
CreationUnheard(p) ==
    /\ "answer_lost" \in Env
    /\ Hears(p, "create")
    /\ UNCHANGED <<tx, know, store, index, typing, host>>

\* saveRecord: the settings hand over the record as the pool has it, and the
\* placeholders will be rewritten in the divisions as they are now.
SaveSettings(p, name, new) ==
    \E r \in Named(store[p].record, name) :
        /\ new = name \/ FreeHere(p, new)
        /\ host[r.id] # None /\ (new = name \/ new \notin Hosted)   \* or it is refused, and nothing changes
        /\ Asks(p, [for |-> "save", rec |-> [r EXCEPT !.name = new], previous |-> name,
                    divisions |-> store[p].division])
        /\ host' = [host EXCEPT ![r.id] = new]
        /\ UNCHANGED <<tx, know, store, index, typing>>

\* Nobody has changed the entry since it was read.
Untouched(rec) == Has(rec.id, DOMAIN tx) /\ Snapshot(rec.id, DOMAIN tx) = rec

SettingsSaved(p) ==
    LET rec == waiting[p].rec
        previous == waiting[p].previous
        renamed == rec.name # previous
        rewritten == IF ~ renamed THEN {}
                     ELSE {[d EXCEPT !.text = (@ \ {previous}) \cup {rec.name}] :
                             d \in {e \in waiting[p].divisions : previous \in e.text}}
        diffs == {ContentChange(index[p], d.name, d.text, know[p]) : d \in rewritten}
    IN  /\ Hears(p, "save")
        /\ \/ "slow_host" \in Env
           \/ \A was \in {d \in waiting[p].divisions : previous \in d.text} \cup {[rec EXCEPT !.name = previous]} :
                Untouched(was)
        /\ store' = [store EXCEPT
               ![p].record = IF renamed THEN RenameInPool(@, previous, rec) ELSE UpdateInPool(@, rec),
               ![p].division = Each(LAMBDA d, pool : SetContent(pool, d.name, d.text), rewritten, @)]
        /\ Mirror(p, rec, [Blank(p, know[p]) EXCEPT !.ins = UNION {d.ins : d \in diffs}, !.del = UNION {d.del : d \in diffs}])
        /\ UNCHANGED <<typing, host>>

\* handleAssetOutput: what was uploaded is laid onto the record as it is now.
UploadOutput(p, name) ==
    \E r \in Named(store[p].record, name) :
        /\ host[r.id] # None
        /\ Asks(p, [for |-> "output", id |-> r.id])
        /\ UNCHANGED <<tx, know, store, index, typing, host>>

OutputStored(p) ==
    LET pools == Settled(p)
        now == {r \in pools.record : r.id = waiting[p].id}
    IN  /\ Hears(p, "output")
        /\ store' = [store EXCEPT ![p] = pools]
        /\ typing' = [typing EXCEPT ![p] = NoTyping]
        /\ IF now = {} THEN UNCHANGED <<tx, know, index>>
           ELSE \E r \in now : Mirror(p, r, Blank(p, know[p]))
        /\ UNCHANGED host

\* handleAssetReplaceCommit: the host drops the old record and gives its name to
\* the new one, and then the pool and the document follow.
Replace(p, name, k) ==
    \E r \in Named(store[p].record, name) :
        /\ k \in Minted(RecordKeys)
        /\ host[r.id] = name
        /\ Asks(p, [for |-> "replace", rec |-> [r EXCEPT !.id = k], old |-> r.id])
        /\ host' = [host EXCEPT ![r.id] = None, ![k] = name]
        /\ UNCHANGED <<tx, know, store, index, typing>>

Replaced(p) ==
    LET rec == waiting[p].rec
        m == Mirrored(rec, know[p])
    IN  /\ Hears(p, "replace")
        /\ store' = [store EXCEPT ![p].record = UpdateInPool(@, rec)]
        /\ index' = [index EXCEPT ![p] = UntrackKey(TrackKey(@, rec.id, rec.name), waiting[p].old)]
        /\ Commit(p, know[p], [Blank(p, know[p]) EXCEPT !.put = m.put, !.name = m.name, !.ins = m.ins, !.del = m.del,
                                                      !.drop = {waiting[p].old}, !.mark = {waiting[p].old}])
        /\ UNCHANGED <<typing, host>>

EditDivisions(p) ==
    \/ \E n \in Names : RemoveDivision(p, n)
    \/ \E n, m \in Names : RenameDivisionTo(p, n, m)
    \/ \E k \in DivisionKeys, n \in Names : CreateDivision(p, k, n)
    \/ \E v \in Titles : ChangeTitle(p, v)

EditRecords(p) ==
    \/ \E n \in Names : RemoveRecord(p, n) \/ UploadOutput(p, n)
    \/ \E n, m \in Names : SaveSettings(p, n, m)
    \/ \E k \in RecordKeys, n \in Names : CreateRecord(p, k, n) \/ Replace(p, n, k)
    \/ RecordCreated(p) \/ CreationUnheard(p) \/ SettingsSaved(p) \/ OutputStored(p) \/ Replaced(p)

Next ==
    \E p \in Tabs :
        \/ Load(p) \/ Join(p) \/ Receive(p) \/ Debounce(p)
        \/ \E kind \in Kinds, n \in Names : Keystroke(p, kind, n)
        \/ EditDivisions(p) \/ EditRecords(p)

Spec == Init /\ [][Next]_vars
-----------------------------------------------------------------------------
(* What a tab shows is what its document says.  The text of the buffer whose *)
(* keystrokes the debounce holds may be behind.                              *)

Shown(p, kind) == {IF r.id = typing[p].key THEN [r EXCEPT !.text = {}] ELSE r : r \in store[p][kind]}
Said(p, kind) == {IF r.id = typing[p].key THEN [r EXCEPT !.text = {}] ELSE r : r \in Snapshots(KeysOf(kind), know[p])}

\* "The bridge keeps them equal" (bridge.ts:5-6): after each handler every pool
\* has the document's entries, under their names and with their texts, and
\* nothing else, however the peers' transactions interleave with the author's.
StoreIsDoc ==
    \A p \in Tabs : Joined(p) =>
        /\ Shown(p, "division") = Said(p, "division")
        /\ Shown(p, "record") \subseteq Said(p, "record")
        /\ {r.name : r \in Shown(p, "record")} = {r.name : r \in Said(p, "record")}
        /\ store[p].title = TitleOf(know[p])

\* The maps lead from each name to the entry that has it, so that a keystroke
\* or a rewrite lands in the text of what the author has open.
NamesLead ==
    \A p \in Tabs : Joined(p) =>
        \A k \in Keys : Has(k, know[p]) =>
            LET name == Snapshot(k, know[p]).name
            IN  /\ index[p].nameOf[k] = name
                /\ \E r \in Snapshots(KeysOf(KindOf(k)), know[p]) : r.id = index[p][KindOf(k)][name] /\ r.name = name

\* A removed record does not come back, at a tab that joins with an old page either.
RemovedIsGone ==
    \A p \in Tabs : Joined(p) =>
        \A kind \in Kinds : \A r \in store[p][kind] : ~ Tombstoned(r.id, know[p])

\* A structural edit reaches the peers whole: a tab whose document is the work
\* of one author at a time has a placeholder for a division under its name.
Sequential(K) == \A t, u \in K : t = u \/ t \in tx[u].deps \/ u \in tx[t].deps

PlacedAsNamed ==
    \A p \in Tabs : Joined(p) /\ Sequential(know[p]) =>
        \A k \in DivisionKeys \ {Root} : Has(k, know[p]) =>
            Snapshot(k, know[p]).name \in Snapshot(Root, know[p]).text

\* The types, the maps of names, removals that last, and renames in one piece.
Consistent == TypeOK /\ NamesLead /\ RemovedIsGone /\ PlacedAsNamed

\* What an author typed stays in the text until its entry is removed, whatever
\* the peers rewrite around it (bridge.ts:12-14).
TypedIsKept ==
    \A p \in Tabs : \A t \in know[p] : \A i \in tx[t].ins :
        LET k == i[1][2]
        IN  i[2] \in Typed /\ (\A u \in know[p] : k \notin tx[u].drop) => i[2] \in Snapshot(k, know[p]).text
=============================================================================
