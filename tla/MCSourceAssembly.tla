-------------------------- MODULE MCSourceAssembly --------------------------
(* The projects for ProjectSources: a document with one section, a snippet   *)
(* with an xref to its own theorem, a drawing and an exercise.  And its rows:*)
(* every sequence of a few tokens, as it is and inside a section.            *)
EXTENDS ProjectSources

Record(ref, type, format, source) ==
    [ref |-> ref, type |-> type, attrs |-> <<>>, title |-> TRUE, format |-> format,
     source |-> source, isFile |-> FALSE, stored |-> FALSE, described |-> TRUE]
Theorem == <<Empty("theorem", <<Attr("xml:id", <<<<"t">>>>)>>), Empty("xref", <<Attr("ref", <<<<"t">>, <<"r">>>>)>>)>>

Section == Place("section", <<"s">>, <<>>, <<Attr("component", <<<<"teacher">>>>)>>)
Drawing(instance) == Place("image", <<"g">>, instance, <<Attr("width", <<<<"half">>>>)>>)
Snippet(instance) == Place("snippet", <<"n">>, instance, <<>>)
Labelled == Place("snippet", <<"n">>, <<"s">>, <<Attr("label", <<<<"l">>>>)>>)
ExerciseHere == Place("exercise", <<"e">>, <<>>, <<>>)
Nothing == Place("image", <<"none">>, <<>>, <<>>)

OtherPreamble == Element(Preamble, <<Attr("syntax", <<<<"other">>>>)>>, <<>>)
Project(docinfo, format, inRoot, inSection, inSnippet) ==
    [divisions |-> <<Record(<<"s">>, "section", format, inSection),
                     [Record(<<"r">>, Untyped, "pretext", <<Section>> \o inRoot)
                        EXCEPT !.attrs = <<Attr("component", <<<<"web">>>>)>>]>>,
     snippets |-> <<Record(<<"n">>, "", "markdown", Theorem \o inSnippet)>>,
     exercises |-> <<Record(<<"e">>, "exercise", "pretext", <<>>)>>,
     assets |-> <<Record(<<"g">>, "", "tikz", <<Text("picture")>>)>>,
     root |-> <<"r">>, docinfo |-> docinfo]

MCProjects ==
    {Project(<<>>, "latex", <<Snippet(<<>>)>>, <<ExerciseHere>>, <<>>),
     Project(Element("docinfo", <<>>, OtherPreamble), "markdown", <<Snippet(<<>>)>>, <<>>, <<Drawing(<<>>)>>),
     Project(Element("docinfo", <<>>, Append(OtherPreamble, Empty(Preamble, <<>>))),
             "latex", <<Drawing(<<>>)>>, <<Drawing(<<>>)>>, <<>>),
     Project(<<Empty("docinfo", <<>>)>>, "markdown", <<Drawing(<<>>)>>, <<Drawing(<<"s">>)>>, <<Broken>>)}
MCTypable == {Drawing(<<>>), Snippet(<<>>), Labelled, Nothing, Broken}
MCDocinfos == {Element("docinfo", <<>>, OtherPreamble \o Element(Preamble, <<>>, <<Text("own")>>))}
MCNewRecords == [image |-> {[Record(<<"new">>, "", "file", <<>>) EXCEPT !.isFile = TRUE, !.stored = TRUE]},
                 snippet |-> {Record(<<"g", "s">>, "", "pretext", <<>>)}, exercise |-> {}]

MCDivisionTypes == {"section", "introduction", "article"}
Ids == <<Attr("xml:id", <<<<"r">>>>), Attr("label", <<<<"r">>>>)>>
Tokens ==
    [pretext |-> {Start("section", Ids), End("section"), Start("p", <<>>), End("p"),
                  Start("title", <<>>), End("title"), Text("w"), Comment("c")},
     latex |-> {Macro("section", <<Attr("title", <<"t">>), Attr("label", <<<<"r">>>>)>>),
                Macro("section", <<Attr("title", <<"t">>), Attr("inner", <<<<"r">>>>)>>),
                Macro("title", <<Attr("title", <<"u">>)>>), Macro("label", <<Attr("label", <<<<"r">>>>)>>),
                Begin("section"), Finish("section"), Text("w")},
     markdown |-> {Frontmatter(<<>>), Frontmatter(<<Attr("division", <<"section">>), Attr("id", <<<<"r">>>>)>>),
                   Frontmatter(<<Attr("division", <<"none">>), Attr("xmlid", <<<<"r">>>>), Attr("title", <<"t">>)>>),
                   Frontmatter(<<Attr("id", <<<<"r">>>>), Attr("component", <<<<"c">>>>), Attr(NoKey, <<"note">>)>>),
                   Text("w")}]
Inside(format, x) ==
    CASE format = "pretext" -> Element("section", Ids, x)
      [] format = "latex" -> <<Begin("section")>> \o x \o <<Finish("section")>>
      [] format = "markdown" -> <<Frontmatter(<<Attr("division", <<"section">>)>>)>> \o x
Few(format, n) == UNION {[1..k -> Tokens[format]] : k \in 0..n}
RowsOf(format, xs, root, placed) ==
    {[format |-> format, source |-> x, root |-> b, placed |-> type] : x \in xs, b \in root, type \in placed}
MCLegacyRows ==
    UNION {LET few == Few(format, 2)
           IN  RowsOf(format, few \cup {Inside(format, x) : x \in few}, BOOLEAN, {Untyped, "introduction"})
                 \cup RowsOf(format, Few(format, 3), {FALSE}, {Untyped}) : format \in DOMAIN Tokens}
=============================================================================
