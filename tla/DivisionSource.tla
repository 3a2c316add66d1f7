--------------------------- MODULE DivisionSource ---------------------------
(***************************************************************************)
(* A division's element taken out of its source, and built around it again *)
(* (sectionUtils.ts): sources stored before the type, title and attributes *)
(* of a division were columns are split by a migration, and a LaTeX or     *)
(* Markdown division that is converted to PreTeXt is split once more.      *)
(*                                                                         *)
(* A source is a sequence of tokens, as in SourceAssembly, whose text is   *)
(* never blank; white space, quotes and the order of attributes are left   *)
(* out.  A title is a sequence as well.                                    *)
(***************************************************************************)
EXTENDS SourceAssembly

CONSTANT DivisionTypes   \* ALL_DIVISION_TYPES

\* LaTeX: a macro with its argument and the labels that follow it, `\begin` and
\* `\end`.  Markdown: the keys of the frontmatter.
Macro(name, attrs) == Token("macro", name, attrs)
Begin(name) == Token("begin", name, <<>>)
Finish(name) == Token("end", name, <<>>)
Frontmatter(keys) == Token("frontmatter", "", keys)

WrapperTypes(root) == IF root THEN RootTypes ELSE DivisionTypes

\* The first tag that nextTag finds, or 0; the tag that closes the one at i.
FirstTag(x) ==
    LET tags == {i \in DOMAIN x : IsStart(x[i]) \/ x[i].is = "close"} IN IF tags = {} THEN 0 ELSE First(tags)
MatchingClose(x, i) ==
    LET ends == {k \in ChildrenOf(x, i) : x[k].is = "close"} IN IF ends = {} THEN 0 ELSE First(ends)

HasContent(x) == \E i \in DOMAIN x : x[i].is \notin {"comment", "declaration"}
From(x, i) == SubSeq(x, i, Len(x))
WithoutDeclaration(x) == SelectSeq(x, LAMBDA t : t.is # "declaration")

-----------------------------------------------------------------------------
(* Building the element.                                                    *)

LabelOf(id) == IF id = <<>> THEN <<>> ELSE <<Attr("label", <<id>>)>>
TitleElement(title) == IF title = <<>> THEN <<>> ELSE Element("title", <<>>, title)

\* wrapDivisionSource with divisionHeaderParts.
Wrap(format, d) ==
    LET ids == IF d.xmlId = <<>> THEN <<>> ELSE <<Attr("xml:id", <<d.xmlId>>)>> \o LabelOf(d.xmlId)
        titled == IF d.title = <<>> THEN <<>> ELSE <<Attr("title", d.title)>>
    IN  CASE format = "pretext" -> Element(d.type, ids \o d.attrs, TitleElement(d.title) \o d.body)
          [] format = "latex" /\ d.type \in HeaderlessTypes -> d.body
          [] format = "latex" /\ d.type \notin HeaderlessTypes ->
               <<Macro(d.type, <<Attr("title", d.title)>> \o LabelOf(d.xmlId))>> \o d.body
          [] format = "markdown" ->
               <<Frontmatter(<<Attr("division", <<d.type>>), Attr("id", <<d.xmlId>>)>> \o titled \o d.attrs)>> \o d.body

-----------------------------------------------------------------------------
(* Taking it apart: what the source itself says.                            *)

Raw(type, title, id, attrs, body, wrapped) ==
    [type |-> type, title |-> title, xmlId |-> id, attrs |-> attrs, body |-> body, wrapped |-> wrapped]
AllBody(x) == Raw("section", <<>>, <<>>, <<>>, x, FALSE)

\* takeLeadingTitle: the first tag, whatever is before it.
Cut(x, i, end) == [title |-> SubSeq(x, i + 1, end - 1), body |-> SubSeq(x, 1, i - 1) \o From(x, end + 1)]
TitleAt(x, i) ==
    LET end == IF x[i].is = "open" THEN MatchingClose(x, i) ELSE i
    IN  IF i = 0 \/ ~ IsStart(x[i]) \/ x[i].name # "title" THEN [title |-> <<>>, body |-> x]
        ELSE IF end = 0 THEN [title |-> <<>>, body |-> x] ELSE Cut(x, i, end)
TakeLeadingTitle(x) == TitleAt(x, FirstTag(x))

\* trailingCloseTag
TrailingClose(x, i) ==
    LET ends == {k \in (i + 1)..Len(x) : x[k] = End(x[i].name)}
        last == CHOOSE k \in ends : \A j \in ends : j <= k
    IN  IF ends = {} \/ HasContent(From(x, last + 1)) THEN 0 ELSE last

\* The close tag of a wrapper: an element that is not well formed inside is
\* closed by its last one; 0 is the end of the source.
EndBy(x, i, match, trailing) ==
    LET proper == match # 0 /\ x[match].name = x[i].name IN IF ~ proper /\ trailing # 0 THEN trailing ELSE match
EndOf(x, i) == IF x[i].is = "open" THEN EndBy(x, i, MatchingClose(x, i), TrailingClose(x, i)) ELSE i

\* splitPretextDivisionSource
Unwrapped(titled) == Raw("section", titled.title, <<>>, <<>>, titled.body, FALSE)
Unwrap(x, start, before, inner, after) ==
    Raw(x[start].name, inner.title, IdIn(x[start].attrs, "xml:id"),
        SelectSeq(x[start].attrs, LAMBDA a : a.name \notin IdentifierAttrs),
        WithoutDeclaration(before) \o inner.body \o after, TRUE)
SplitElement(x, start, end) ==
    LET before == SubSeq(x, 1, start - 1)
        after == IF end = 0 THEN <<>> ELSE From(x, end + 1)
    IN  IF HasContent(before) \/ HasContent(after) THEN Unwrapped(TakeLeadingTitle(x))
        ELSE Unwrap(x, start, before, TakeLeadingTitle(SubSeq(x, start + 1, IF end = 0 THEN Len(x) ELSE end - 1)), after)
SplitFrom(x, root, start) ==
    IF start = 0 \/ ~ IsStart(x[start]) \/ x[start].name \notin WrapperTypes(root) THEN Unwrapped(TakeLeadingTitle(x))
    ELSE SplitElement(x, start, EndOf(x, start))
SplitPretext(x, root) == SplitFrom(x, root, FirstTag(x))

\* A division written as an environment, to its very end: its title and label.
IsEnvironment(x) == Len(x) > 1 /\ x[1].is = "begin" /\ x[Len(x)] = Finish(x[1].name)
Environment(x) ==
    LET inner == SubSeq(x, 2, Len(x) - 1)
        isTitle(y) == y # <<>> /\ y[1].is = "macro" /\ y[1].name = "title"
        isLabel(y) == y # <<>> /\ y[1].is = "macro" /\ y[1].name = "label"
        rest == IF isTitle(inner) THEN Tail(inner) ELSE inner
    IN  Raw(x[1].name, IF isTitle(inner) THEN ValueIn(inner[1].attrs, "title") ELSE <<>>,
            IF isLabel(rest) THEN IdIn(rest[1].attrs, "label") ELSE <<>>, <<>>,
            IF isLabel(rest) THEN Tail(rest) ELSE rest, TRUE)

\* parseLatexDivisionHeader: a label after the argument before one inside it.
HeaderLabel(t) == IdIn(t.attrs, IF "label" \in NamesIn(t.attrs) THEN "label" ELSE "inner")

\* splitLatexDivisionSource
SplitLatex(x, root) ==
    LET opens == x # <<>> /\ x[1].is \in {"macro", "begin"} /\ x[1].name \in WrapperTypes(root)
    IN  CASE opens /\ x[1].is = "macro" ->
               Raw(x[1].name, ValueIn(x[1].attrs, "title"), HeaderLabel(x[1]), <<>>, Tail(x), TRUE)
          [] opens /\ x[1].is = "begin" /\ IsEnvironment(x) -> Environment(x)
          [] OTHER -> AllBody(x)

\* The last value under any of the keys.
LastIn(keys, names) ==
    LET under == SelectSeq(keys, LAMBDA a : a.name \in names) IN IF under = <<>> THEN <<>> ELSE Last(under).value

IdKeys == {"id", "xmlid", "xml:id"}
FieldKeys == {"division", "title", "label"} \cup IdKeys
NoKey == "#"   \* a line of the frontmatter that is not `key: value`

\* splitMarkdownDivisionSource with parseMarkdownFrontmatter.
SplitMarkdown(x) ==
    LET keys == x[1].attrs
        first(k) == \A j \in 1..(k - 1) : keys[j].name # keys[k].name
        named == SelectSeq([k \in DOMAIN keys |-> [of |-> k, attr |-> Attr(keys[k].name, LastIn(keys, {keys[k].name}))]],
                           LAMBDA a : first(a.of) /\ a.attr.name \notin FieldKeys \cup {NoKey})
        type == LastIn(keys, {"division"})
        id == LastIn(keys, IdKeys)
    IN  IF x = <<>> \/ x[1].is # "frontmatter" THEN AllBody(x)
        ELSE Raw(IF type = <<>> THEN "section" ELSE type[1], LastIn(keys, {"title"}), IF id = <<>> THEN <<>> ELSE id[1],
                 [k \in DOMAIN named |-> named[k].attr], Tail(x), TRUE)

RawSplit(x, format, root) ==
    CASE format = "pretext" -> SplitPretext(x, root)
      [] format = "latex" -> SplitLatex(x, root)
      [] format = "markdown" -> SplitMarkdown(x)

-----------------------------------------------------------------------------
(* Whether it accounts for the whole source.                                *)

\* canonicalDivisionSource: without what a split may change.
CanonicalPretext(x) ==
    LET bare == SelectSeq(x, LAMBDA t : t.is \notin {"comment", "declaration"})
        opens(i) == bare[i] = Start("title", <<>>)
        emptyTitle(i) == \/ bare[i] = Empty("title", <<>>)
                         \/ opens(i) /\ i < Len(bare) /\ bare[i + 1] = End("title")
                         \/ bare[i] = End("title") /\ i > 1 /\ opens(i - 1)
        kept == SelectSeq([i \in DOMAIN bare |-> i], LAMBDA i : ~ emptyTitle(i))
        said(t) == {a \in {t.attrs[k] : k \in DOMAIN t.attrs} : a.name # "label"}
    IN  [n \in DOMAIN kept |-> <<bare[kept[n]].is, bare[kept[n]].name, said(bare[kept[n]])>>]

CanonicalLatex(x) ==
    LET d == Environment(x)
    IN  IF IsEnvironment(x) THEN <<Macro(d.type, <<Attr("title", d.title)>> \o LabelOf(d.xmlId))>> \o d.body ELSE x

\* Its lines as a bag of keys and values.
CanonicalMarkdown(x) ==
    LET key(a) == IF a.name \in IdKeys THEN Attr("id", a.value) ELSE a
        silent(a) == a.name = "label" \/ a.value \in {<<>>, <<<<>>>>}
        lines == [k \in DOMAIN x[1].attrs |-> key(x[1].attrs[k])]
    IN  IF x = <<>> \/ x[1].is # "frontmatter" THEN x
        ELSE <<{<<a, Cardinality({k \in DOMAIN lines : lines[k] = a})>> :
                  a \in {b \in {lines[k] : k \in DOMAIN lines} : ~ silent(b)}}>> \o Tail(x)

Canonical(x, format) ==
    CASE format = "pretext" -> CanonicalPretext(x) [] format = "latex" -> CanonicalLatex(x)
      [] format = "markdown" -> CanonicalMarkdown(x)

CommentsIn(x) ==
    LET comments == SelectSeq(x, LAMBDA t : t.is = "comment")
    IN  {<<c, Cardinality({k \in DOMAIN comments : comments[k] = c})>> : c \in {comments[k] : k \in DOMAIN comments}}

\* splitAccountsForSource
AccountsFor(x, format, raw) ==
    LET rebuilt == IF raw.wrapped THEN Wrap(format, raw)
                   ELSE (IF format = "pretext" THEN TitleElement(raw.title) ELSE <<>>) \o raw.body
    IN  /\ Canonical(rebuilt, format) = Canonical(x, format)
        /\ format = "pretext" => CommentsIn(rebuilt) = CommentsIn(x)

\* Mutant of OpensWithOwnElement: an element by its start tag alone is not one.
OpensWithOwnElement_closed(x, format, ref, root) ==
    /\ format = "pretext" /\ FirstTag(x) # 0 /\ IsStart(x[FirstTag(x)])
    /\ x[FirstTag(x)].name \in WrapperTypes(root)
    /\ MatchingClose(x, FirstTag(x)) # 0 /\ IdIn(x[FirstTag(x)].attrs, "xml:id") = ref

\* opensWithOwnElement
OpensWithOwnElement(x, format, ref, root) ==
    CASE format = "pretext" ->
           /\ FirstTag(x) # 0 /\ IsStart(x[FirstTag(x)]) /\ x[FirstTag(x)].name \in WrapperTypes(root)
           /\ IdIn(x[FirstTag(x)].attrs, "xml:id") = ref
      [] format = "latex" ->
           /\ x # <<>> /\ x[1].is \in {"macro", "begin"} /\ x[1].name \in WrapperTypes(root)
           /\ ref = IF x[1].is = "macro" THEN HeaderLabel(x[1])
                    ELSE Environment(Append(x, Finish(x[1].name))).xmlId
      [] format = "markdown" -> FALSE

\* splitDivisionSource
Judged(x, format, fallback, raw) ==
    LET doubled == ~ raw.wrapped /\ OpensWithOwnElement(x, format, fallback.ref, fallback.root)
        known == raw.type \in DivisionTypes
        type == IF raw.wrapped /\ known /\ (fallback.root => raw.type \in RootTypes) THEN raw.type ELSE fallback.type
        title == IF raw.wrapped \/ raw.title # <<>> THEN raw.title ELSE fallback.title
    IN  [raw EXCEPT !.type = type, !.title = title]
          @@ [lossless |-> AccountsFor(x, format, raw) /\ ~ doubled /\ (raw.wrapped => known)]
Split(x, format, fallback) == Judged(x, format, fallback, RawSplit(x, format, fallback.root))

\* handleConvertToPretext, when the conversion is not an error alone: the division
\* keeps its id and type, and is PreTeXt from then on.
Convertible(d, remembered) == d.format # "pretext" /\ DivisionToPretext(d, remembered)[1].is # "comment"
AsPretext(d, split) ==
    [d EXCEPT !.format = "pretext", !.source = split.body, !.title = split.title # <<>>, !.attrs = split.attrs]
ConvertToPretext(d, remembered) ==
    AsPretext(d, Split(DivisionToPretext(d, remembered), "pretext",
                       [type |-> d.type, title |-> <<>>, root |-> FALSE, ref |-> <<>>]))

-----------------------------------------------------------------------------
Self == <<"r">>

\* What a reader of the source meets, in order; the tokens that carry an id.
WordsIn(x) == FlattenSeq([i \in DOMAIN x |-> IF x[i].is = "text" THEN <<x[i].name>> ELSE ValueIn(x[i].attrs, "title")])
Carries(t, id) ==
    \E k \in DOMAIN t.attrs : t.attrs[k].name \in {"label", "inner"} \cup IdKeys /\ t.attrs[k].value = <<id>>
CountOf(x, id) == Cardinality({i \in DOMAIN x : Carries(x[i], id)})
Reads(x) == [i \in DOMAIN x |-> <<x[i].is, x[i].name, {x[i].attrs[k] : k \in DOMAIN x[i].attrs}>>]

\* The row was split as s: what is called lossless has every word, in its order,
\* after the project's title where a root has none of its own, and every comment;
\* and the division's own element is not in it twice ("assembly would otherwise
\* wrap the element in a second copy of itself").
KeptApart(r, s) ==
    LET x == r.source
        built == Wrap(r.format, [s EXCEPT !.xmlId = Self])
        given == IF r.root /\ ~ s.wrapped THEN {<<>>, <<"title">>} ELSE {<<>>}
        first == IF r.format = "pretext" THEN FirstTag(x) ELSE 1
        ownFirst == /\ x # <<>> /\ first # 0 /\ x[first].name \in WrapperTypes(r.root)
                    /\ Carries(x[first], Self)
    IN  s.lossless => /\ \E title \in given : WordsIn(built) = title \o WordsIn(x)
                      /\ CommentsIn(built) = CommentsIn(x)
                      /\ ownFirst => CountOf(built, Self) = CountOf(x, Self)

\* Built, it is split into what builds the same, or is held up for review; and is
\* not if it was not before, and its body is well formed.
BuiltAgain(r, s) ==
    LET rebuilt(d) == Wrap(r.format, [d EXCEPT !.xmlId = Self])
        agrees(x, again) ==
            /\ again.lossless => Canonical(rebuilt(again), r.format) = Canonical(x, r.format)
            /\ s.lossless /\ (r.format # "pretext" \/ Balanced(s.body)) => again.lossless
        resplit(x) == agrees(x, Split(x, r.format, [type |-> s.type, title |-> <<>>, root |-> r.root, ref |-> Self]))
    IN  resplit(rebuilt(s))
=============================================================================
