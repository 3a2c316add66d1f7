--------------------------- MODULE SourceAssembly ---------------------------
(***************************************************************************)
(* How the pools of a project become one PreTeXt document (sectionUtils.ts,*)
(* assetTransforms.ts): every placeholder is replaced by what it places,   *)
(* with its own attributes and its instance's identifiers; and the check   *)
(* that tells the author which placements would repeat an identifier       *)
(* (placementDiagnostics.ts).                                              *)
(*                                                                         *)
(* Markup is a sequence of tokens.  An identifier is the sequence of its   *)
(* parts, since a placement's is the record's with "-" and the name of the *)
(* instance after it; the value of an attribute is a sequence of those, as *)
(* an xref may name several targets.  The LaTeX and Markdown converters    *)
(* are external: they give back the element of the header they were given  *)
(* around the body, or fail.                                               *)
(***************************************************************************)
EXTENDS Integers, SequencesExt, FiniteSets

\* A record is [ref, type, attrs, title, format, source], and an asset also has
\* isFile, stored and described.  A project has a sequence of records of each
\* kind, its root's ref and its docinfo, and with it goes what the tab remembers
\* of conversions: the divisions as they were when each was converted.
Kinds == {"divisions", "snippets", "exercises", "assets"}

Token(is, name, attrs) == [is |-> is, name |-> name, attrs |-> attrs]
Attr(name, value) == [name |-> name, value |-> value]
Start(name, attrs) == Token("open", name, attrs)
End(name) == Token("close", name, <<>>)
Empty(name, attrs) == Token("empty", name, attrs)
Text(words) == Token("text", words, <<>>)
Comment(words) == Token("comment", words, <<>>)
Element(name, attrs, inner) == <<Start(name, attrs)>> \o inner \o <<End(name)>>

\* `<plus:TAG ref="..." instance="..."/>`
Place(tag, ref, instance, attrs) ==
    Token("place", tag,
          <<Attr("ref", <<ref>>)>>
            \o (IF instance = <<>> THEN <<>> ELSE <<Attr("instance", <<instance>>)>>) \o attrs)

\* The tags nextTag reports as opening something.
IsStart(t) == t.is \in {"open", "empty", "place"}

NamesIn(attrs) == {attrs[k].name : k \in DOMAIN attrs}
ValueIn(attrs, name) ==
    IF name \in NamesIn(attrs) THEN SelectSeq(attrs, LAMBDA a : a.name = name)[1].value ELSE <<>>
IdIn(attrs, name) == IF ValueIn(attrs, name) = <<>> THEN <<>> ELSE ValueIn(attrs, name)[1]

\* setAttributes: the tag's first attribute of the name takes the value.
SetAttributes(attrs, new) ==
    LET first(k) == attrs[k].name \in NamesIn(new) /\ \A j \in 1..(k - 1) : attrs[j].name # attrs[k].name
    IN  [k \in DOMAIN attrs |-> IF first(k) THEN Attr(attrs[k].name, ValueIn(new, attrs[k].name)) ELSE attrs[k]]
          \o SelectSeq(new, LAMBDA a : a.name \notin NamesIn(attrs))

-----------------------------------------------------------------------------
(* Walking the markup.                                                      *)

First(indices) == CHOOSE i \in indices : \A j \in indices : i <= j

\* How many elements are open before each tag, and after the last.
NestingOf(t) == CASE t.is = "open" -> 1 [] t.is = "close" -> -1 [] OTHER -> 0
RECURSIVE Depths(_)
Depths(x) ==
    IF x = <<>> THEN <<0>> ELSE LET d == Depths(Front(x)) IN Append(d, Last(d) + NestingOf(Last(x)))

\* The tags directly inside the element opened at i, its closing tag included.
ChildrenOf(x, i) ==
    LET d == Depths(x)
    IN  {k \in (i + 1)..Len(x) : d[k] = d[i] + 1 /\ \A j \in (i + 1)..k : d[j] > d[i]}

\* The start tags outside every element, up to a stray closing tag.
TopLevel(x) ==
    LET d == Depths(x) IN {i \in DOMAIN x : IsStart(x[i]) /\ d[i] = 0 /\ \A j \in 1..i : d[j] >= 0}

\* applyPlaceholderAttrs.
ApplyAttrs(x, attrs) ==
    LET top == TopLevel(x)
    IN  [i \in DOMAIN x |-> IF i \in top THEN [x[i] EXCEPT !.attrs = SetAttributes(@, attrs)] ELSE x[i]]

OpaqueElements == {"prefigure", "latex-image", "sageplot", "asymptote", "mermaid"}
VerbatimElements ==
    {"pre", "c", "cd", "program", "console", "sage", "latex-image", "sageplot", "asymptote", "prefigure"}

\* After a tag that opens one of the elements, and before the first that closes it.
InsideOf(x, elements, i) ==
    \E j \in 1..(i - 1) : /\ x[j].is = "open" /\ x[j].name \in elements
                          /\ \A k \in (j + 1)..(i - 1) : x[k] # End(x[j].name)

\* rewriteStartTags with rewriteAttrValues.
RewriteValues(x, names, map(_)) ==
    LET mapped(a) == IF a.name \in names THEN [a EXCEPT !.value = [m \in DOMAIN @ |-> map(@[m])]] ELSE a
    IN  [i \in DOMAIN x |-> IF IsStart(x[i]) /\ ~ InsideOf(x, OpaqueElements, i)
                            THEN [x[i] EXCEPT !.attrs = [k \in DOMAIN @ |-> mapped(@[k])]] ELSE x[i]]

IdentifierAttrs == {"xml:id", "label"}
ReferenceAttrs == {"ref", "first", "last"}

IdsAt(t) == {t.attrs[k].value[1] : k \in {k \in DOMAIN t.attrs : t.attrs[k].name \in IdentifierAttrs}}
IdentifiersOf(x) == UNION {IdsAt(x[i]) : i \in {i \in DOMAIN x : IsStart(x[i]) /\ ~ InsideOf(x, OpaqueElements, i)}}

QualifiedIdentifier(id, instance) == id \o instance

\* qualifyIdentifiers: the identifiers, and the references that pointed at one.
Qualify(x, instance) ==
    LET own == IdentifiersOf(x)
    IN  RewriteValues(RewriteValues(x, IdentifierAttrs, LAMBDA id : QualifiedIdentifier(id, instance)),
                      ReferenceAttrs,
                      LAMBDA id : IF id \in own THEN QualifiedIdentifier(id, instance) ELSE id)

-----------------------------------------------------------------------------
(* A record's own markup.                                                   *)

\* divisionAttributeString: its ref is both identifiers.
OwnAttributes(r) ==
    <<Attr("xml:id", <<r.ref>>), Attr("label", <<r.ref>>)>>
      \o SelectSeq(r.attrs, LAMBDA a : a.name \notin IdentifierAttrs)

Titled(r) == IF r.title THEN Element("title", <<>>, <<Text("title")>>) ELSE <<>>
Built(r, body) == Element(r.type, OwnAttributes(r), Titled(r) \o body)

\* convertFragment: there is text that the converter gives up on.
Broken == Text("broken")
Fragment(x) == IF Contains(x, Broken) THEN <<Comment("conversion error")>> ELSE x

\* What the converter makes of a header: it cannot say the label, nor, in
\* LaTeX, the other attributes.
Converted(r) ==
    Element(r.type,
            SelectSeq(OwnAttributes(r), LAMBDA a : a.name # "label" /\ (r.format = "latex" => a.name = "xml:id")),
            Titled(r) \o r.source)

\* setDivisionAttributes
WithOwnAttributes(x, r) ==
    LET tags == {i \in DOMAIN x : IsStart(x[i]) \/ x[i].is = "close"}
    IN  IF tags = {} \/ x[First(tags)].is = "close" THEN x
        ELSE [x EXCEPT ![First(tags)].attrs = SetAttributes(@, OwnAttributes(r))]

HeaderlessTypes == {"introduction", "conclusion"}

\* latexDivisionToPretext, and the same for Markdown.
Conversion(r) ==
    IF r.format = "latex" /\ (r.type \in HeaderlessTypes \/ Contains(r.source, Broken)) THEN Built(r, Fragment(r.source))
    ELSE WithOwnAttributes(Fragment(Converted(r)), r)

\* Mutant of WrappedSource: what is compared is the body.
WrappedSource_body(r) == <<r.source, r.ref>>

\* wrapDivisionSource: what a division's text in its own format says of it.
WrappedSource(r) ==
    CASE r.format = "latex" /\ r.type \in HeaderlessTypes -> <<r.source>>
      [] r.format = "latex" /\ r.type \notin HeaderlessTypes -> <<r.source, r.type, r.ref, r.title>>
      [] OTHER -> <<r.source, r.type, r.ref, r.title, r.attrs>>

\* divisionToPretext, when the last conversion under the ref was of remembered.
DivisionToPretext(r, remembered) ==
    IF r.format = "pretext" THEN Built(r, r.source)
    ELSE IF WrappedSource(remembered) = WrappedSource(r) THEN Conversion(remembered) ELSE Conversion(r)

GeneratorElement == [tikz |-> "latex-image", prefigure |-> "prefigure"]

\* transformImageAsset
Image(r) ==
    LET generated == r.format \in DOMAIN GeneratorElement
        inner == (IF r.described THEN Element("shortdescription", <<>>, <<Text("alt")>>) ELSE <<>>)
                   \o (IF generated THEN Element(GeneratorElement[r.format], <<Attr("label", <<r.ref>>)>>, r.source)
                       ELSE r.source)
        attrs == IF r.isFile /\ ~ generated THEN <<Attr("source", <<r.ref>>)>> ELSE <<>>
    IN  IF r.isFile /\ ~ r.stored THEN <<Comment("no file")>>
        ELSE IF inner = <<>> THEN <<Empty("image", attrs)>> ELSE Element("image", attrs, inner)

\* What was converted last under the ref of r, which may be nothing.
Remembered(project, r) ==
    IF \E q \in project.remembered : q.ref = r.ref THEN CHOOSE q \in project.remembered : q.ref = r.ref ELSE r

Markup(project, kind, r) ==
    CASE kind = "divisions" -> DivisionToPretext(r, Remembered(project, r))
      [] kind = "exercises" -> Built(r, r.source)
      [] kind = "snippets" -> IF r.format = "pretext" THEN r.source ELSE Fragment(r.source)
      [] kind = "assets" -> Image(r)

-----------------------------------------------------------------------------
(* Assembly.                                                                *)

KindOf(tag) ==
    CASE tag = "image" -> "assets" [] tag = "snippet" -> "snippets" [] tag = "exercise" -> "exercises"
      [] OTHER -> "divisions"

Named(project, kind, ref) == SelectSeq(project[kind], LAMBDA r : r.ref = ref)

\* parsePlaceholderAttrs: all but the placeholder's own.
PassedOn(t) == SelectSeq(t.attrs, LAMBDA a : a.name \notin {"ref", "instance"})

RECURSIVE Resolve(_, _, _, _)

\* The markup that replaces one placeholder.
Placed(project, t, ancestors) ==
    LET resolved == Resolve(project, KindOf(t.name), IdIn(t.attrs, "ref"), ancestors)
        instance == IdIn(t.attrs, "instance")
    IN  ApplyAttrs(IF instance = <<>> THEN resolved ELSE Qualify(resolved, instance), PassedOn(t))

\* expandRefs
Expand(project, x, ancestors) ==
    FlattenSeq([i \in DOMAIN x |-> IF x[i].is = "place" THEN Placed(project, x[i], ancestors) ELSE <<x[i]>>])

\* resolveDivisionXml, resolveSnippetRef, resolveExerciseRef and resolveAssetRef.
Resolve(project, kind, ref, ancestors) ==
    LET named == Named(project, kind, ref)
    IN  IF named = <<>> THEN <<Comment("missing")>>
        ELSE IF kind = "assets" THEN Image(named[1])
        ELSE IF ref \in ancestors THEN <<Comment("circular reference")>>
        ELSE Expand(project, Markup(project, kind, named[1]), ancestors \cup {ref})

RootTypes == {"book", "article", "slideshow"}

\* findRootDivisionTag: the first tag, or the first such child of <pretext>.
RootTag(x) ==
    LET tags == {i \in DOMAIN x : IsStart(x[i]) \/ x[i].is = "close"}
        first == First(tags)
        roots == {i \in ChildrenOf(x, first) : IsStart(x[i]) /\ x[i].name \in RootTypes}
    IN  CASE tags = {} \/ x[first].is = "close" -> 0
          [] x[first].name \in RootTypes -> first
          [] x[first].is = "open" /\ x[first].name = "pretext" /\ roots # {} -> First(roots)
          [] OTHER -> 0

\* findUnusedLabel
UnusedLabel(x) ==
    LET used == UNION {{x[i].attrs[k].value[1] : k \in {k \in DOMAIN x[i].attrs : x[i].attrs[k].name = "label"}}
                         : i \in DOMAIN x}
        numbered(n) == IF n = 0 THEN <<"main">> ELSE <<"main", ToString(n)>>
        free == {n \in 0..Cardinality(used) : numbered(n) \notin used}
    IN  numbered(CHOOSE n \in free : \A m \in free : n <= m)

\* ensureRootLabel
EnsureRootLabel(x) ==
    LET root == RootTag(x)
    IN  IF root = 0 \/ "label" \in NamesIn(x[root].attrs) THEN x
        ELSE [x EXCEPT ![root].attrs =
                Append(@, Attr("label", <<IF "xml:id" \in NamesIn(@) THEN IdIn(@, "xml:id") ELSE UnusedLabel(x)>>))]

Preamble == "latex-image-preamble"
DefaultPreamble == Text("default preamble")

\* withDefaultLatexImagePreamble: the first preamble for no particular syntax
\* begins with the default; a docinfo that cannot be read stays as it is.
WithDefaultPreamble(docinfo) ==
    LET element == Element(Preamble, <<>>, <<DefaultPreamble>>)
        replaced(i, by) == SubSeq(docinfo, 1, i - 1) \o by \o SubSeq(docinfo, i + 1, Len(docinfo))
        tags == {i \in DOMAIN docinfo : IsStart(docinfo[i]) \/ docinfo[i].is = "close"}
        root == First(tags)
        preambles == {i \in ChildrenOf(docinfo, root) :
                        /\ IsStart(docinfo[i]) /\ docinfo[i].name = Preamble
                        /\ "syntax" \notin NamesIn(docinfo[i].attrs)}
        at == First(preambles)
        ends == {i \in ChildrenOf(docinfo, root) : docinfo[i].is = "close"}
    IN  CASE docinfo = <<>> -> Element("docinfo", <<>>, element)
          [] docinfo # <<>> /\ (tags = {} \/ ~ IsStart(docinfo[root]) \/ docinfo[root].name # "docinfo") -> docinfo
          [] OTHER ->
               IF docinfo[root].is = "empty" THEN replaced(root, Element("docinfo", docinfo[root].attrs, element))
               ELSE IF preambles # {}
               THEN replaced(at, IF docinfo[at].is = "empty"
                                 THEN Element(Preamble, docinfo[at].attrs, <<DefaultPreamble>>)
                                 ELSE <<docinfo[at], DefaultPreamble>>)
               ELSE IF ends # {} THEN replaced(First(ends), Append(element, docinfo[First(ends)]))
               ELSE docinfo

\* wrapInPretextDocument
Document(project, body) ==
    EnsureRootLabel(Element("pretext", <<Attr("xml:lang", <<<<"en">>>>)>>, WithDefaultPreamble(project.docinfo) \o body))

\* assembleFullProjectSource
FullSource(project) == Document(project, Resolve(project, "divisions", project.root, {}))

\* assembleProjectSource and wrapDivisionForPreview: alone in the least that
\* may hold it, with the division's title.
DivisionPreview(project, ref) ==
    LET d == Named(project, "divisions", ref)[1]
        body == EnsureRootLabel(Resolve(project, "divisions", ref, {}))
        wrapper == IF Named(project, "divisions", project.root)[1].type = "slideshow" THEN "slideshow"
                   ELSE IF d.type \in {"part", "chapter"} THEN "book" ELSE "article"
    IN  Document(project, IF d.type \in RootTypes THEN body
                          ELSE Element(wrapper, <<>>, Element("title", <<>>, <<Text("title")>>) \o body))

\* assembleSnippetPreviewSource and assembleExercisePreviewSource.
RecordPreview(project, kind, ref) ==
    Document(project, Element("article", <<>>, Element("title", <<>>, <<Text("preview")>>)
                                                 \o Resolve(project, kind, ref, {})))

-----------------------------------------------------------------------------
(* The check of the placements, and its quick fix.  A site is a kind, the   *)
(* number of a record, and a place in its source.                           *)

\* parsePlacements, over the divisions and the snippets.
SitesIn(kind, n, source) ==
    {<<kind, n, i>> : i \in {i \in DOMAIN source : /\ source[i].is = "place" /\ KindOf(source[i].name) # "divisions"
                                                  /\ ~ InsideOf(source, VerbatimElements, i)}}
Sites(project) ==
    UNION {UNION {SitesIn(kind, n, project[kind][n].source) : n \in DOMAIN project[kind]} : kind \in {"divisions", "snippets"}}
HolderOf(project, s) == project[s[1]][s[2]]
TokenAt(project, s) == HolderOf(project, s).source[s[3]]
PlacedAt(project, s) == <<TokenAt(project, s).name, IdIn(TokenAt(project, s).attrs, "ref")>>
InstanceAt(project, s) == IdIn(TokenAt(project, s).attrs, "instance")

Others(project, s) == {u \in Sites(project) \ {s} : PlacedAt(project, u) = PlacedAt(project, s)}
KnownRefs(project) == UNION {{project[k][n].ref : n \in DOMAIN project[k]} : k \in Kinds}

\* findPlacementProblems
Unnamed(project, s) ==
    InstanceAt(project, s) = <<>> /\ \E u \in Others(project, s) : InstanceAt(project, u) = <<>>
Repeated(project, s) ==
    InstanceAt(project, s) # <<>> /\ \E u \in Others(project, s) : InstanceAt(project, u) = InstanceAt(project, s)
NameTaken(project, s) ==
    /\ InstanceAt(project, s) # <<>> /\ ~ Repeated(project, s)
    /\ QualifiedIdentifier(PlacedAt(project, s)[2], InstanceAt(project, s)) \in KnownRefs(project)
Problems(project) ==
    {s \in Sites(project) : Unnamed(project, s) \/ Repeated(project, s) \/ NameTaken(project, s)}

\* Mutant of Suggested: the ids of the project are not looked at.
Suggested_same_record(project, s) ==
    LET base == HolderOf(project, s).ref
        named(n) == IF n = 1 THEN base ELSE Append(base, ToString(n))
        free == {n \in 1..8 : named(n) \notin {InstanceAt(project, u) : u \in Others(project, s)}}
    IN  named(First(free))

\* suggestInstance
Suggested(project, s) ==
    LET base == HolderOf(project, s).ref
        named(n) == IF n = 1 THEN base ELSE Append(base, ToString(n))
        free == {n \in 1..8 : /\ named(n) \notin {InstanceAt(project, u) : u \in Others(project, s)}
                              /\ QualifiedIdentifier(PlacedAt(project, s)[2], named(n)) \notin KnownRefs(project)}
    IN  named(First(free))

\* placementFix with addPlacementInstance: after whatever is written already.
Fixed(project, s) ==
    [project EXCEPT ![s[1]][s[2]].source[s[3]].attrs = Append(@, Attr("instance", <<Suggested(project, s)>>))]

-----------------------------------------------------------------------------
(* The pools as they are loaded, and what renames and removes placeholders. *)

\* normalizeDivisionsOnLoad: a type for a division that has none.
Untyped == ""
Loaded(project, rootType) ==
    LET fallback(r) == IF r.ref # project.root THEN "section"
                       ELSE IF rootType \in RootTypes THEN rootType ELSE "article"
    IN  [project EXCEPT !.divisions =
           [n \in DOMAIN @ |-> [@[n] EXCEPT !.type = IF @ = Untyped THEN fallback(project.divisions[n]) ELSE @]]]

\* renameRecordRef and renameAssetRef; removeRecordRef and removeAssetRef.
RenameIn(x, tag, old, new) ==
    LET renamed(a) == IF a = Attr("ref", <<old>>) THEN Attr("ref", <<new>>) ELSE a
    IN  [i \in DOMAIN x |-> IF x[i].is = "place" /\ x[i].name = tag
                            THEN [x[i] EXCEPT !.attrs = [k \in DOMAIN @ |-> renamed(@[k])]] ELSE x[i]]
RemoveFrom(x, tag, ref) ==
    SelectSeq(x, LAMBDA t : ~ (t.is = "place" /\ t.name = tag /\ IdIn(t.attrs, "ref") = ref))

RewriteDivisions(project, rewrite(_)) ==
    [project EXCEPT !.divisions = [n \in DOMAIN @ |-> [@[n] EXCEPT !.source = rewrite(@)]]]

\* saveRecord, and what it does to the divisions: renameSnippetRefEverywhere
\* and the like.  The sources of snippets and exercises stay as they are.
Rename(project, tag, old, new) ==
    [RewriteDivisions(project, LAMBDA x : RenameIn(x, tag, old, new))
       EXCEPT ![KindOf(tag)] = [n \in DOMAIN @ |-> IF @[n].ref = old THEN [@[n] EXCEPT !.ref = new] ELSE @[n]]]

\* removeSnippetRefEverywhere and the like, for a placeholder of nothing.
RemoveEverywhere(project, tag, ref) == RewriteDivisions(project, LAMBDA x : RemoveFrom(x, tag, ref))

-----------------------------------------------------------------------------
Starts(x) == {i \in DOMAIN x : IsStart(x[i])}

\* Every element is closed by a tag of its own name.
Balanced(x) ==
    LET d == Depths(x)
        after(i) == {k \in (i + 1)..Len(x) : d[k + 1] = d[i]}
    IN  /\ d[Len(x) + 1] = 0 /\ \A i \in DOMAIN x : d[i] >= 0
        /\ \A i \in DOMAIN x : x[i].is = "open" => after(i) # {} /\ x[First(after(i))] = End(x[i].name)

\* A document: balanced, no attribute twice on a tag, nothing left to place, a
\* root that previews can name, and the drawing preamble once.
Whole(x) ==
    /\ Balanced(x)
    /\ \A i \in Starts(x) : x[i].is # "place" /\ Cardinality(NamesIn(x[i].attrs)) = Len(x[i].attrs)
    /\ RootTag(x) # 0 /\ "label" \in NamesIn(x[RootTag(x)].attrs)
    /\ \E i \in DOMAIN x : /\ x[i] = DefaultPreamble /\ \A j \in DOMAIN x : x[j] = DefaultPreamble => j = i
                           /\ x[i - 1].name = Preamble /\ "syntax" \notin NamesIn(x[i - 1].attrs)

\* What the check takes in: placements in divisions and snippets, of records
\* that are not placed both in a snippet and elsewhere, in divisions that are
\* placed once, and that pass no identifier on.
Checkable(p) ==
    LET divisionSites == {s \in (1..8) \X (1..16) : /\ s[1] \in DOMAIN p.divisions
                                                     /\ s[2] \in DOMAIN p.divisions[s[1]].source
                                                     /\ p.divisions[s[1]].source[s[2]].is = "place"
                                                     /\ KindOf(p.divisions[s[1]].source[s[2]].name) = "divisions"}
        target(s) == IdIn(p.divisions[s[1]].source[s[2]].attrs, "ref")
    IN  /\ \A s, u \in divisionSites : target(s) = target(u) => s = u
        /\ \A n \in DOMAIN p.exercises : \A i \in DOMAIN p.exercises[n].source : p.exercises[n].source[i].is # "place"
        /\ \A s \in Sites(p) : s[1] = "snippets" => Others(p, s) = {}
        /\ \A k \in {"divisions", "snippets"} : \A n \in DOMAIN p[k] : \A i \in DOMAIN p[k][n].source :
             p[k][n].source[i].is = "place" => /\ ~ InsideOf(p[k][n].source, VerbatimElements, i)
                                                /\ NamesIn(p[k][n].source[i].attrs) \cap IdentifierAttrs = {}

\* No identifier twice, and every xref points at the copy in its own placement.
Apart(x) ==
    /\ \A name \in IdentifierAttrs : \A i, j \in Starts(x) :
         /\ name \in NamesIn(x[i].attrs) \cap NamesIn(x[j].attrs)
         /\ IdIn(x[i].attrs, name) = IdIn(x[j].attrs, name)
         => i = j
    /\ \A i \in Starts(x) : x[i].name = "xref" =>
         LET to == IdIn(x[i].attrs, "ref")
             twins == {j \in Starts(x) \cap (1..(i - 1)) : \E id \in IdsAt(x[j]) : id[1] = to[1]}
         IN  twins # {} => to \in IdsAt(x[CHOOSE j \in twins : \A k \in twins : k <= j])
=============================================================================
