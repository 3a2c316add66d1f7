--------------------------- MODULE ProjectSources ---------------------------
(***************************************************************************)
(* The records of one project as its document is made from them: what an   *)
(* author does to the pools in Editors.tsx, and the previews that convert  *)
(* and remember; and one row of a project from before the type, title and  *)
(* attributes of a division were columns, which a migration splits.        *)
(*                                                                         *)
(* The pools are settled at every step: DivisionEditor has the keystrokes, *)
(* the tabs and the tree.  A behaviour is about a project or about a row.  *)
(***************************************************************************)
EXTENDS DivisionSource

CONSTANTS
    Projects,      \* the projects as they arrive from the host
    LegacyRows,    \* the rows as they were: [format, source, root, placed]
    Typable,       \* what an author may write at the end of a source
    Docinfos,
    Retypings,     \* the types a division may be given
    NewRecords,    \* for each tag of a placeholder, the records that may be created
    MaxEdits       \* bound on what the author does

VARIABLES
    project,       \* the records, or NoProject
    row,           \* the row, or NoRow
    edits

sources == <<project, row, edits>>

NoProject == [root |-> <<>>]
NoRow == [format |-> ""]
NotSplit == [lossless |-> FALSE]
IsProject == project # NoProject
IsRow == row # NoRow

NoSources == project = NoProject /\ row = NoRow /\ edits = 0

\* The pools go through normalizeDivisionsOnLoad; nothing is remembered yet.
InitSources ==
    /\ edits = 0
    /\ \/ \E p \in Projects : project = [remembered |-> {}] @@ Loaded(p, "article") /\ row = NoRow
       \/ \E r \in LegacyRows : project = NoProject /\ row = [split |-> NotSplit] @@ r

-----------------------------------------------------------------------------
(* The row.                                                                 *)

\* DivisionSourceSplitter.call: what is assumed for a source that names nothing.
TitleOf(format) == IF format = "pretext" THEN <<Text("title")>> ELSE <<"title">>
FallbackOf(r) ==
    [type |-> IF r.root THEN "article" ELSE IF r.placed # Untyped THEN r.placed ELSE "section",
     title |-> IF r.root THEN TitleOf(r.format) ELSE <<>>, root |-> r.root, ref |-> Self]

\* SplitDivisionMetadataOutOfSources
Migrate ==
    /\ IsRow /\ row.split = NotSplit
    /\ row' = [row EXCEPT !.split = Split(row.source, row.format, FallbackOf(row))]
    /\ UNCHANGED <<project, edits>>

-----------------------------------------------------------------------------
(* The project.                                                             *)

Becomes(p) ==
    /\ IsProject /\ edits < MaxEdits
    /\ project' = p /\ edits' = edits + 1 /\ UNCHANGED row

\* A keystroke that the debounce delivers: handleDivisionContentChange and
\* applyRecordSourceChange.
Write(kind, n, token) ==
    /\ IsProject /\ n \in DOMAIN project[kind]
    /\ Becomes([project EXCEPT ![kind][n].source = Append(@, token)])

\* The lightbulb's placementFix.
NameInstance(s) ==
    /\ IsProject /\ s \in Sites(project) /\ (Unnamed(project, s) \/ Repeated(project, s))
    /\ Becomes(Fixed(project, s))

\* applyDivisionMetadataEdit with syncParentDivisionRef: the tag of the placeholder
\* in the one division that places this one follows the type.
EditFields(n, type, title, attrs) ==
    /\ IsProject /\ n \in DOMAIN project.divisions /\ project.divisions[n].ref # project.root
    /\ LET d == project.divisions[n]
           new == [d EXCEPT !.type = type, !.title = title, !.attrs = attrs]
           retag(x) == [i \in DOMAIN x |-> IF x[i].is = "place" /\ KindOf(x[i].name) = "divisions"
                                              /\ IdIn(x[i].attrs, "ref") = d.ref
                                           THEN [x[i] EXCEPT !.name = type] ELSE x[i]]
       IN  /\ new # d
           /\ Becomes(RewriteDivisions([project EXCEPT !.divisions[n] = new], retag))

\* saveRecord, once the host has taken the name.
RenameRecord(tag, old, new) ==
    /\ IsProject /\ Named(project, KindOf(tag), old) # <<>> /\ new \notin KnownRefs(project)
    /\ Becomes(Rename(project, tag, old, new))

\* handleSnippetCreated and the like: for a placeholder that names nothing, or for none.
CreateRecord(tag, r, resolve) ==
    /\ IsProject /\ r.ref \notin KnownRefs(project)
    /\ resolve = r.ref \/ Named(project, KindOf(tag), resolve) = <<>>
    /\ LET added == [project EXCEPT ![KindOf(tag)] = Append(@, r)]
       IN  Becomes(RewriteDivisions(added, LAMBDA x : RenameIn(x, tag, resolve, r.ref)))

\* handleSnippetRemove and the like: the placeholders stay.
DropRecord(kind, n) ==
    /\ IsProject /\ n \in DOMAIN project[kind]
    /\ Becomes([project EXCEPT ![kind] = RemoveAt(@, n)])

RemoveMissing(tag, ref) ==
    /\ IsProject /\ Named(project, KindOf(tag), ref) = <<>>
    /\ \E s \in Sites(project) : PlacedAt(project, s) = <<tag, ref>>
    /\ Becomes(RemoveEverywhere(project, tag, ref))

\* handleConvertToPretext: the division as it was goes on as an orphan.
CopyRef == <<"copy">>
Convert(n) ==
    /\ IsProject /\ n \in DOMAIN project.divisions /\ CopyRef \notin KnownRefs(project)
    /\ LET d == project.divisions[n]
       IN  /\ Convertible(d, Remembered(project, d))
           /\ Becomes([project EXCEPT !.divisions =
                 Append([@ EXCEPT ![n] = ConvertToPretext(d, Remembered(project, d))], [d EXCEPT !.ref = CopyRef])])

EditDocinfo(docinfo) ==
    /\ IsProject /\ docinfo # project.docinfo
    /\ Becomes([project EXCEPT !.docinfo = docinfo])

\* A preview or a save assembles the document, and remembers what it converted.
Preview ==
    LET converted == {r \in ToSet(project.divisions) : r.format # "pretext"}
        kept(r) == WrappedSource(Remembered(project, r)) = WrappedSource(r)
        latest == {IF kept(r) THEN Remembered(project, r) ELSE r : r \in converted}
        others == {r \in project.remembered : \A c \in converted : c.ref # r.ref}
    IN  /\ IsProject
        /\ project' = [project EXCEPT !.remembered = latest \cup others]
        /\ UNCHANGED <<row, edits>>

Tags == {"image", "snippet", "exercise"}
RefsOf(p, kind) == {p[kind][n].ref : n \in DOMAIN p[kind]}
RefsPlaced(p, tag) == {PlacedAt(p, s)[2] : s \in {s \in Sites(p) : PlacedAt(p, s)[1] = tag}}

ChangeRecords ==
    \/ \E tag \in Tags : \E old \in RefsOf(project, KindOf(tag)) : \E r \in NewRecords[tag] : RenameRecord(tag, old, r.ref)
    \/ \E tag \in Tags : \E r \in NewRecords[tag] : \E resolve \in RefsPlaced(project, tag) \cup {r.ref} :
         CreateRecord(tag, r, resolve)
    \/ \E kind \in Kinds \ {"divisions"} : \E n \in DOMAIN project[kind] : DropRecord(kind, n)
    \/ \E tag \in Tags : \E ref \in RefsPlaced(project, tag) : RemoveMissing(tag, ref)

ChangeSources ==
    \/ \E kind \in {"divisions", "snippets"} : \E n \in DOMAIN project[kind] : \E t \in Typable : Write(kind, n, t)
    \/ \E s \in Sites(project) : NameInstance(s)
    \/ \E docinfo \in Docinfos : EditDocinfo(docinfo)

ChangeDivisions ==
    \/ \E n \in DOMAIN project.divisions : \E type \in Retypings : \E title \in BOOLEAN :
         \E attrs \in {<<>>, <<Attr("component", <<<<"web">>>>)>>} : EditFields(n, type, title, attrs)
    \/ \E n \in DOMAIN project.divisions : Convert(n)

NextSources == Migrate \/ (IsProject /\ (ChangeRecords \/ ChangeSources \/ ChangeDivisions \/ Preview))

-----------------------------------------------------------------------------
\* What a LaTeX header cannot say of a division, and what an introduction has no
\* header for: wrapDivisionSource is the same after an edit of it.
HiddenEdit(last, d) ==
    /\ d.format = "latex"
    /\ \/ last.attrs # d.attrs
       \/ d.type \in HeaderlessTypes /\ <<last.type, last.title>> # <<d.type, d.title>>

\* Whatever of the project is missing, goes in a circle or cannot be converted,
\* the document and every preview of a part of it are whole ("one bad division
\* never takes the surrounding document down with it", sectionUtils.ts:2893);
\* what is remembered of conversions makes no difference to the document ("a
\* stale entry costs a re-conversion, never a wrong answer"), unless a division's
\* fields were edited since where its source does not show it; renaming a snippet
\* that only divisions place changes nothing in it; and once the placeholders of
\* a missing record are removed from the divisions, none of them names it.
DocumentIsWhole == IsProject =>
    LET p == project
        document == FullSource(p)
        anew(q) == FullSource([q EXCEPT !.remembered = {}])
        misleading == {last \in p.remembered : \E d \in ToSet(p.divisions) : d.ref = last.ref /\ HiddenEdit(last, d)}
        onlyInDivisions(ref) == \A s \in Sites(p) : PlacedAt(p, s) = <<"snippet", ref>> => s[1] = "divisions"
        missing == {PlacedAt(p, s) : s \in {s \in Sites(p) : Named(p, KindOf(PlacedAt(p, s)[1]), PlacedAt(p, s)[2]) = <<>>}}
        without(u) == RemoveEverywhere(p, u[1], u[2])
    IN  /\ Whole(document)
        /\ document = FullSource([p EXCEPT !.remembered = misleading])
        /\ \A n \in DOMAIN p.divisions : Whole(DivisionPreview(p, p.divisions[n].ref))
        /\ \A ref \in RefsOf(p, "snippets") :
             /\ Whole(RecordPreview(p, "snippets", ref))
             /\ onlyInDivisions(ref) => anew(Rename(p, "snippet", ref, <<"renamed">>)) = anew(p)
        /\ \A u \in missing : \A s \in Sites(without(u)) : s[1] = "divisions" => PlacedAt(without(u), s) # u

\* "Checks that every placement of an image or snippet keeps its identifiers
\* unique" (placementDiagnostics.ts:1-3): a document whose placements the check
\* finds nothing wrong with has no identifier twice, and its references stay
\* with the copy they came with; and the quick fix of an unnamed placement
\* settles that placement and brings no problem of its own.
PlacementsStayApart == IsProject =>
    /\ Checkable(project) /\ Problems(project) = {} => Apart(FullSource(project))
    /\ \A s \in Problems(project) :
         Unnamed(project, s) => Problems(Fixed(project, s)) \subseteq Problems(project) \ {s}

\* "Both directions live together so they cannot drift apart": a split that says
\* it is lossless loses nothing and doubles nothing, whatever the source was; a
\* row that was split is built and split into the same row; and a document reads
\* the same after any one of its divisions is converted to PreTeXt.
SplitIsTheInverse ==
    /\ IsRow /\ row.split # NotSplit => KeptApart(row, row.split) /\ BuiltAgain(row, row.split)
    /\ IsProject => \A n \in DOMAIN project.divisions :
         LET d == project.divisions[n]
             last == Remembered(project, d)
         IN  Convertible(d, last) =>
               Reads(FullSource([project EXCEPT !.divisions[n] = ConvertToPretext(d, last)])) = Reads(FullSource(project))
=============================================================================
