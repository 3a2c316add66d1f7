---------------------------- MODULE DivisionTree ----------------------------
(***************************************************************************)
(* The tree that placeholders make of a pool of divisions                  *)
(* (sectionUtils.ts): a division's source holds `<plus:TYPE ref="id"/>`    *)
(* for each of its children, and everything else -- the table of contents, *)
(* what is unplaced, the assembled document -- is read off the sources.    *)
(*                                                                         *)
(* A pool is a sequence of divisions [id, xmlId, type, source].  A source  *)
(* is a sequence of tokens: placeholders, words, and the opening and the   *)
(* closing of a paragraph, since the last closing tag is where a           *)
(* placeholder is inserted.  The three formats differ in how a placeholder *)
(* is spelled, and in that only PreTeXt has closing tags.                  *)
(***************************************************************************)
EXTENDS Naturals, SequencesExt

CONSTANTS
    XmlIds,     \* the ids placeholders refer to
    Types,      \* the types of the divisions below the root
    RootType,   \* the type of the document
    NoId        \* no id

\* The untyped placeholder, which counts as the first type when it creates.
Generic == "division"
DefaultType == "section"

ASSUME TypesAssumption == DefaultType \in Types /\ RootType \notin Types /\ Generic \notin Types
ASSUME NoIdAssumption == NoId \notin XmlIds

Placeholder(xmlId, tag) == [is |-> "ref", ref |-> xmlId, tag |-> tag]
Word(w) == [is |-> "word", ref |-> w, tag |-> Generic]
Opening == [is |-> "open", ref |-> NoId, tag |-> Generic]
Closing == [is |-> "close", ref |-> NoId, tag |-> Generic]

IsRef(token) == token.is = "ref"

\* parseDivisionRefsWithTypes: the placeholders in the order of the text.
Placeholders(source) == SelectSeq(source, IsRef)

RefsTo(source, xmlId) == {i \in DOMAIN source : IsRef(source[i]) /\ source[i].ref = xmlId}

\* A blank body: an empty paragraph to type into, for PreTeXt.
BlankBody(pretext) == IF pretext THEN <<Opening, Closing>> ELSE <<>>

\* insertDivisionRef with no anchor: before the last closing tag, or at the end.
InsertRef(source, xmlId, type) ==
    LET closings == {i \in DOMAIN source : source[i].is = "close"}
        at == IF closings = {} THEN Len(source) + 1 ELSE CHOOSE i \in closings : \A j \in closings : j <= i
    IN  InsertAt(source, at, Placeholder(xmlId, type))

\* Every placeholder of the id goes.
RemoveRef(source, xmlId) == SelectSeq(source, LAMBDA token : ~ (IsRef(token) /\ token.ref = xmlId))

\* Every placeholder of the id is renamed and retyped where it stands.
RenameRef(source, old, new, type) ==
    [i \in DOMAIN source |-> IF i \in RefsTo(source, old) THEN Placeholder(new, type) ELSE source[i]]

-----------------------------------------------------------------------------
(* The pool.  It is searched by xml:id, and the first match counts.         *)

IdsIn(pool) == {pool[i].xmlId : i \in DOMAIN pool}
HasDivision(pool, xmlId) == xmlId \in IdsIn(pool)
DivisionOf(pool, xmlId) == pool[CHOOSE i \in DOMAIN pool : pool[i].xmlId = xmlId
                                   /\ \A j \in DOMAIN pool : pool[j].xmlId = xmlId => i <= j]
Children(pool, xmlId) ==
    IF HasDivision(pool, xmlId) THEN [i \in DOMAIN Placeholders(DivisionOf(pool, xmlId).source) |->
                                        Placeholders(DivisionOf(pool, xmlId).source)[i].ref]
    ELSE <<>>

\* The divisions that place xmlId.  None is its own parent.
Parents(pool, xmlId) == {i \in DOMAIN pool : pool[i].xmlId # xmlId /\ RefsTo(pool[i].source, xmlId) # {}}

\* findDivisionParent: the first of them in the pool, or none.
ParentOf(pool, xmlId) ==
    LET parents == Parents(pool, xmlId)
    IN  IF parents = {} THEN NoId ELSE pool[CHOOSE i \in parents : \A j \in parents : i <= j].xmlId

\* collectReachable: what the placeholders lead to, the missing included.
RECURSIVE Closure(_, _)
Closure(pool, seen) ==
    LET next == seen \cup UNION {ToSet(Children(pool, x)) : x \in seen}
    IN  IF next = seen THEN seen ELSE Closure(pool, next)

Reachable(pool, start) == Closure(pool, {start})
Orphans(pool, start) == IdsIn(pool) \ Reachable(pool, start)

\* Mutant of TreeStep: a division is listed wherever it is placed.
TreeStep_everywhere(pool, acc, parent, ref) ==
    IF ref = parent \/ ~ HasDivision(pool, ref) THEN acc
    ELSE [visited |-> acc.visited \cup {ref}, out |-> Append(acc.out, [xmlId |-> ref, parent |-> parent])]

\* One placeholder of buildDivisionTree's walk: listed unless visited or missing.
TreeStep(pool, acc, parent, ref) ==
    IF ref \in acc.visited \/ ~ HasDivision(pool, ref) THEN acc
    ELSE [visited |-> acc.visited \cup {ref}, out |-> Append(acc.out, [xmlId |-> ref, parent |-> parent])]

RECURSIVE Walk(_, _, _)
Walk(pool, acc, parent) ==
    FoldLeft(LAMBDA a, ref : LET b == TreeStep(pool, a, parent, ref)
                             IN  IF b = a THEN a ELSE Walk(pool, b, ref),
             acc, Children(pool, parent))

\* The descendants of start, depth first, each with the division that places it.
Tree(pool, start) == Walk(pool, [visited |-> {start}, out |-> <<>>], start).out
Listed(pool, start) == {Tree(pool, start)[i].xmlId : i \in DOMAIN Tree(pool, start)}

\* getOrphanRoots: the orphans that no orphan places.
OrphanRoots(pool, start) ==
    LET orphans == Orphans(pool, start)
    IN  {x \in orphans : \A y \in orphans : x \notin ToSet(Children(pool, y))}

\* findDivisionPlacement: the root, placed, or unplaced, and by whom.
PlacementOf(pool, root, xmlId) ==
    LET in(start) == SelectSeq(Tree(pool, start), LAMBDA node : node.xmlId = xmlId)
        heads == {o \in OrphanRoots(pool, root) : in(o) # <<>>}
    IN  CASE xmlId = root -> [kind |-> "root", parent |-> NoId]
          [] xmlId # root /\ in(root) # <<>> -> [kind |-> "placed", parent |-> in(root)[1].parent]
          [] xmlId # root /\ in(root) = <<>> ->
               [kind |-> "unplaced",
                parent |-> IF xmlId \in OrphanRoots(pool, root) \/ heads = {} THEN NoId
                           ELSE in(CHOOSE o \in heads : TRUE)[1].parent]

\* resolveDivisionXml and expandRefs: the divisions in the order in which the
\* assembled document includes them; a missing or circular one is a comment.
RECURSIVE Assembled(_, _, _)
Assembled(pool, xmlId, ancestors) ==
    IF ~ HasDivision(pool, xmlId) \/ xmlId \in ancestors THEN <<>>
    ELSE FoldLeft(LAMBDA out, ref : out \o Assembled(pool, ref, ancestors \cup {xmlId}),
                  <<xmlId>>, Children(pool, xmlId))
=============================================================================
