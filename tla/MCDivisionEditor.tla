-------------------------- MODULE MCDivisionEditor --------------------------
(* DivisionEditor for TLC: an article, second in its pool, with one section. *)
(* And, in behaviours of its own, ProjectSources.                            *)
EXTENDS DivisionEditor, MCSourceAssembly, TLC

CONSTANTS main, one, two
MCChildTypes == [t \in Types \cup {RootType} |->
    CASE t = RootType -> Types [] t = "section" -> {"worksheet"} [] t = "worksheet" -> {}]
MCXmlIds == {main, one, two}
MCInitialPool == << Division(1, one, "section", BlankBody(Pretext)),
                    Division(2, main, "article", BlankBody(Pretext) \o <<Placeholder(one, "section")>>) >>
Symmetry == Permutations(SnippetRefs)

MCInit == Init /\ (NoSources \/ InitSources)
Editing == NoSources /\ Next /\ UNCHANGED sources
Assembling == NextSources /\ UNCHANGED vars
MCSpec == MCInit /\ [][Editing \/ Assembling]_<<vars, sources>>
=============================================================================
