---------------------------- MODULE ProjectDoc ----------------------------
(***************************************************************************)
(* The value of a shared project document (collab/schema.ts), as the tabs  *)
(* that have integrated a set K of its transactions see it.                *)
(*                                                                         *)
(* The document has an entry per division and per record, keyed by the     *)
(* record's id; an entry has a name (a division's xml:id, a record's ref)  *)
(* that stands for all its last-writer-wins fields, and a text, which is a *)
(* set of words merged insertion by insertion.  Snippets, exercises and    *)
(* assets are alike: they are the records.  Deleted ids leave a tombstone. *)
(*                                                                         *)
(* Yjs is not part of the repository.  What is used of it: integrating is  *)
(* union; of the writes to one field, those that another write has seen    *)
(* are superseded, and of the rest the one with the highest client id      *)
(* wins, at every tab; a deletion removes what its author had seen.        *)
(***************************************************************************)
EXTENDS Naturals, FiniteSets, Sequences

CONSTANTS
    DivisionKeys,
    RecordKeys,
    Names,
    None    \* no value

Keys == DivisionKeys \cup RecordKeys

VARIABLES
    tx  \* every transaction, in the order in which they were made

Put(k, name, text) == [key |-> k, name |-> name, text |-> text]

\* A transaction that writes nothing: the starting point of each of the writers.
Blank(p, K) ==
    [by |-> p, deps |-> K, put |-> {}, drop |-> {}, name |-> {}, ins |-> {}, del |-> {},
     mark |-> {}, title |-> {}]

\* Of the transactions of W, the one whose write is read: the latest, in the
\* order of the client ids among those that did not know of each other.
Latest(W) ==
    LET last == {t \in W : \A u \in W : t \notin tx[u].deps}
    IN  CHOOSE t \in last : \A u \in last : tx[u].by <= tx[t].by

Puts(k, K) == {t \in K : \E e \in tx[t].put : e.key = k}

\* The entry of a key, named by the transaction that made it.
EntryOf(k, K) ==
    IF Puts(k, K) = {} THEN None
    ELSE LET t == Latest(Puts(k, K))
         IN  IF \E u \in K : k \in tx[u].drop /\ t \in tx[u].deps THEN None ELSE <<t, k>>

Has(k, K) == EntryOf(k, K) # None

Made(e) == CHOOSE put \in tx[e[1]].put : put.key = e[2]

NameOf(e, K) ==
    LET writers == {t \in K : \E w \in tx[t].name : w[1] = e}
    IN  IF writers = {} THEN Made(e).name
        ELSE (CHOOSE w \in tx[Latest(writers)].name : w[1] = e)[2]

TextOf(e, K) ==
    LET inserted == {<<e[1], w>> : w \in Made(e).text}
                    \cup UNION {{<<t, i[2]>> : i \in {j \in tx[t].ins : j[1] = e}} : t \in K}
        there == {i \in inserted : ~ \E u \in K : <<e, i[2]>> \in tx[u].del /\ i[1] \in tx[u].deps}
    IN  {i[2] : i \in there}

Snapshot(k, K) == LET e == EntryOf(k, K) IN [id |-> k, name |-> NameOf(e, K), text |-> TextOf(e, K)]
Snapshots(ks, K) == {Snapshot(k, K) : k \in {j \in ks : Has(j, K)}}

\* A tombstone is taken back only by adding the id again, and ids are minted.
Tombstoned(k, K) == \E t \in K : k \in tx[t].mark

TitleOf(K) == LET W == {t \in K : tx[t].title # {}} IN CHOOSE v \in tx[Latest(W)].title : TRUE

\* diffReplace: the writes that make the text of e, as its author sees it, be
\* the given one.
Rewrite(e, text, K) ==
    [ins |-> {e} \X (text \ TextOf(e, K)), del |-> {e} \X (TextOf(e, K) \ text)]
=============================================================================
