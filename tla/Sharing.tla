------------------------------ MODULE Sharing ------------------------------
(***************************************************************************)
(* Who may edit a project, and who may see it: its owner, its roster of    *)
(* collaborators and invitations, whether it has a shared document, its    *)
(* visibility, and whether an output of it is published.  All of it is     *)
(* denormalized: an invitation names an address and is claimed by whoever  *)
(* registers it (Collaboration.claim_for), the document is to exist while  *)
(* somebody shares the project (reset_doc_when_last), and publishing and   *)
(* making private each rewrite what the other wrote.                       *)
(*                                                                         *)
(* A request reads, validates and decides on what is committed, and writes *)
(* in one transaction at READ COMMITTED: two steps here, so that what two  *)
(* of them decide may be stale when it is written.  A row of the roster is *)
(* under its address, which the unique index makes a key.                  *)
(***************************************************************************)
EXTENDS Naturals, FiniteSets

CONSTANTS
    Users, Addresses,
    Founder,    \* who made the project
    Requests,   \* requests that run at the same time
    MaxRequests,\* bound on the requests ever made
    Pending, None

Visibility == {"private", "unlisted", "public"}

ASSUME FounderAssumption == Founder \in Users
ASSUME MaxRequestsAssumption == MaxRequests \in Nat
ASSUME NoneAssumption ==
    /\ {Pending, None} \cap (Users \cup Addresses) = {} /\ Pending # None
    /\ None \notin Visibility /\ None \notin BOOLEAN

VARIABLES
    account,        \* the address each user is registered under
    unconfirmed,    \* users who have not confirmed theirs
    corrected,      \* users whose address an administrator replaced
    subscribers,    \* users whose plan lifts the limit on collaborators
    twice,          \* users who had a row when they were invited
    owner, owners,  \* who owns it, and everybody who ever has
    roster,         \* by address: the collaborator, Pending, or no row
    document,       \* whether the shared document exists
    visibility, published,
    txn,            \* what each request is about to commit
    made,           \* how many requests were made
    overlapped      \* whether two were ever under way at once

people == <<account, unconfirmed, corrected, subscribers, twice>>
sharing == <<owner, owners, roster, document>>
showing == <<visibility, published>>
vars == <<people, sharing, showing, txn, made, overlapped>>

(***************************************************************************)
(* A transaction: rows to delete, to insert (with whom) and to claim (for  *)
(* whom), the owner to come, the document to drop or to create, who gets   *)
(* which address, who is confirmed, and what becomes visible.              *)
(***************************************************************************)
Quiet ==
    [on |-> FALSE, delete |-> {}, insert |-> {}, with |-> None, claim |-> {}, claimant |-> None,
     owner |-> None, reset |-> FALSE, seed |-> FALSE, who |-> None, address |-> None,
     confirm |-> {}, visibility |-> None, published |-> None]

Txn ==
    [on: BOOLEAN, delete: SUBSET Addresses, insert: SUBSET Addresses, with: Users \cup {Pending, None},
     claim: SUBSET Addresses, claimant: Users \cup {None},
     owner: Users \cup {None}, reset: BOOLEAN, seed: BOOLEAN, who: Users \cup {None},
     address: Addresses \cup {None}, confirm: SUBSET Users,
     visibility: Visibility \cup {None}, published: BOOLEAN \cup {None}]

TypeOK ==
    /\ account \in [Users -> Addresses \cup {None}]
    /\ unconfirmed \subseteq Users
    /\ corrected \subseteq Users
    /\ subscribers \subseteq Users
    /\ twice \subseteq Users
    /\ owner \in owners
    /\ owners \subseteq Users
    /\ roster \in [Addresses -> Users \cup {Pending, None}]
    /\ document \in BOOLEAN
    /\ visibility \in Visibility
    /\ published \in BOOLEAN
    /\ txn \in [Requests -> Txn]
    /\ made \in 0..MaxRequests
    /\ overlapped \in BOOLEAN

Init ==
    /\ \E a \in Addresses : account = [u \in Users |-> IF u = Founder THEN a ELSE None]
    /\ unconfirmed = {}
    /\ corrected = {}
    /\ subscribers \in SUBSET Users
    /\ twice = {}
    /\ owner = Founder
    /\ owners = {Founder}
    /\ roster = [a \in Addresses |-> None]
    /\ document = FALSE
    /\ visibility = "private"
    /\ published = FALSE
    /\ txn = [r \in Requests |-> Quiet]
    /\ made = 0
    /\ overlapped = FALSE

Invited == {a \in Addresses : roster[a] # None}
RowsOf(u) == {a \in Addresses : roster[a] = u}
UserAt(a) == {u \in Users : account[u] = a}

\* Project#editable_by?.
Editable(u) == u = owner \/ RowsOf(u) # {}

\* Mutant of LastOnes: counted before the rows are deleted.
LastOnes_before(rows) == rows # {} /\ Invited = {}

\* reset_doc_when_last: nobody is left once these rows are deleted.
LastOnes(rows) == rows # {} /\ Invited \subseteq rows

\* A request has read what it needs, and is about to commit t.
Begin(r, t) ==
    /\ ~txn[r].on
    /\ made < MaxRequests
    /\ made' = made + 1
    /\ txn' = [txn EXCEPT ![r] = [t EXCEPT !.on = TRUE]]
    /\ overlapped' = (overlapped \/ \E q \in Requests : txn[q].on)
    /\ UNCHANGED <<people, sharing, showing>>

-----------------------------------------------------------------------------
(***************************************************************************)
(* CollaborationsController#create, and #bulk_create once per address: the *)
(* account under the address becomes a collaborator at once; without one   *)
(* the invitation waits.  Validated: not the owner's address, not invited  *)
(* yet, and below the limit (Project#collaborator_limit), which is one     *)
(* unless the owner subscribes.  Nobody asks whether the account has a row *)
(* under an address it had before.                                         *)
(***************************************************************************)
Invite(r, a) ==
    /\ account[owner] # a /\ roster[a] = None
    /\ Invited = {} \/ owner \in subscribers
    /\ \E invitee \in IF UserAt(a) = {} THEN {Pending} ELSE UserAt(a) :
        Begin(r, [Quiet EXCEPT !.insert = {a}, !.with = invitee])

\* #destroy, by the owner or by the collaborator: after_destroy looks for
\* other rows in the same transaction.
Remove(r, a) ==
    /\ roster[a] # None
    /\ Begin(r, [Quiet EXCEPT !.delete = {a}, !.reset = LastOnes({a})])

(***************************************************************************)
(* Project#transfer_ownership_to!: the collaborator's row is destroyed,    *)
(* with its callback, and the previous owner gets one, under an address    *)
(* that must not be on the roster.                                         *)
(***************************************************************************)
Transfer(r, u) ==
    /\ u # owner
    /\ \E a \in RowsOf(u) :
        /\ roster[account[owner]] = None \/ account[owner] = a
        /\ Begin(r, [Quiet EXCEPT !.delete = {a}, !.reset = LastOnes({a}),
                                  !.owner = u, !.insert = {account[owner]}, !.with = owner])

\* Mutant of ClaimFor: nobody asks whether the user already has a row.
ClaimFor_always(u, a, t) == [t EXCEPT !.claim = {b \in {a} : roster[b] = Pending}, !.claimant = u]

\* Collaboration.claim_for, of the invitation to the user's address: somebody
\* who can already edit the project gets no second row.
ClaimFor(u, a, t) ==
    LET waiting == {b \in {a} : roster[b] = Pending} IN
    IF Editable(u)
    THEN [t EXCEPT !.delete = waiting, !.reset = LastOnes(waiting)]
    ELSE [t EXCEPT !.claim = waiting, !.claimant = u]

\* User.create (UsersController#create, SubscriptionsController#seat), with
\* after_create :claim_project_invitations.  Two registrations at once are
\* those of two people.
Register(r, u, a) ==
    /\ account[u] = None /\ UserAt(a) = {}
    /\ \A q \in Requests : txn[q].who # u
    /\ Begin(r, ClaimFor(u, a, [Quiet EXCEPT !.who = u, !.address = a]))

\* Devise's confirm, by link or by Admin::UsersController#confirm, with
\* after_confirmation.
Confirm(r, u) ==
    /\ u \in unconfirmed
    /\ Begin(r, ClaimFor(u, account[u], [Quiet EXCEPT !.confirm = {u}]))

\* Admin::UsersController#update_email: at once, and without confirmation.
UpdateEmail(r, u, a) ==
    /\ account[u] # None /\ UserAt(a) = {}
    /\ Begin(r, [Quiet EXCEPT !.who = u, !.address = a])

\* A session of the editor whose page said collaborative finds no document
\* and seeds one (ProjectDocsController#seed).
Seed(r) ==
    /\ Invited # {} /\ ~document
    /\ Begin(r, [Quiet EXCEPT !.seed = TRUE])

(***************************************************************************)
(* ProjectsController#update with a visibility, by the owner:              *)
(* unpublish_targets_if_private unpublishes what is published by then.     *)
(***************************************************************************)
SetVisibility(r, v) ==
    /\ v # visibility
    /\ Begin(r, [Quiet EXCEPT !.visibility = v,
                              !.published = IF v = "private" /\ published THEN FALSE ELSE None])

\* TargetsController#publish of a built target, with unlist_project_if_needed
\* on the project the request has loaded.
Publish(r) ==
    /\ ~published
    /\ Begin(r, [Quiet EXCEPT !.published = TRUE,
                              !.visibility = IF visibility = "private" THEN "unlisted" ELSE None])

Unpublish(r) == published /\ Begin(r, [Quiet EXCEPT !.published = FALSE])

-----------------------------------------------------------------------------
\* An insertion meets the unique index, of the roster or of the accounts:
\* everything is rolled back.
Refused(t) ==
    \/ \E a \in t.insert \ t.delete : roster[a] # None
    \/ t.address # None /\ UserAt(t.address) # {}

Commit(r) ==
    LET t == txn[r] IN
    /\ t.on
    /\ txn' = [txn EXCEPT ![r] = Quiet]
    /\ IF Refused(t) THEN UNCHANGED <<account, unconfirmed, corrected, twice, sharing, showing>>
       ELSE
       /\ account' = [u \in Users |-> IF u = t.who THEN t.address ELSE account[u]]
       /\ unconfirmed' = (unconfirmed \ t.confirm) \cup {u \in Users \cap {t.who} : account[u] = None}
       /\ corrected' = corrected \cup {u \in Users \cap {t.who} : account[u] # None}
       /\ twice' = twice \cup {u \in Users \cap {t.with} : t.owner = None /\ RowsOf(u) # {}}
       /\ owner' = IF t.owner = None THEN owner ELSE t.owner
       /\ owners' = owners \cup {owner'}
       /\ roster' = [a \in Addresses |->
            CASE a \in t.insert -> t.with
              [] a \in t.delete \ t.insert -> None
              [] a \in t.claim /\ roster[a] # None -> t.claimant
              [] OTHER -> roster[a]]
       /\ document' = (t.seed \/ (document /\ ~t.reset))
       /\ visibility' = IF t.visibility = None THEN visibility ELSE t.visibility
       /\ published' = IF t.published = None THEN published ELSE t.published
    /\ UNCHANGED <<subscribers, made, overlapped>>

Roster(r) ==
    \/ \E a \in Addresses : Invite(r, a) \/ Remove(r, a)
    \/ \E u \in Users : Transfer(r, u)

People(r) ==
    \/ \E u \in Users, a \in Addresses : Register(r, u, a) \/ UpdateEmail(r, u, a)
    \/ \E u \in Users : Confirm(r, u)

Showing(r) ==
    \/ \E v \in Visibility : SetVisibility(r, v)
    \/ Publish(r) \/ Unpublish(r)

Next == \E r \in Requests : Roster(r) \/ People(r) \/ Seed(r) \/ Showing(r) \/ Commit(r)

Spec == Init /\ [][Next]_vars

-----------------------------------------------------------------------------
\* "so a user never holds two rows on one project" (claim_for), and the owner
\* holds none (not_the_owner): but for those who were invited, under another
\* address than the one they had, while they held a row.
OneRowEach ==
    \A u \in Users \ twice : Cardinality(RowsOf(u)) <= (IF u = owner THEN 0 ELSE 1)

\* "Registering is enough to pick up invitations already addressed to you":
\* an invitation waits for an account only where an administrator has given
\* that account its address since.
NobodyStranded ==
    \A a \in Addresses : roster[a] = Pending => UserAt(a) \subseteq corrected

\* The limit, which claims and transfers do not ask about because "the
\* collaborator count never actually grows": a second collaborator comes only
\* to the project of a subscriber, and stays when it changes hands.
WithinLimit == Cardinality(Invited) <= 1 \/ owners \cap subscribers # {}

\* The roster and the accounts agree, through every sequence of invitations,
\* registrations, confirmations, corrected addresses, removals and transfers
\* that follow one another.
RosterMatchesAccounts ==
    ~overlapped => OneRowEach /\ NobodyStranded /\ WithinLimit

\* "Private is supposed to mean nothing here is publicly reachable"
\* (unpublish_targets_if_private, unlist_project_if_needed).
NothingPrivateIsPublished == ~(published /\ visibility = "private")

\* The types, who is on the roster, and what outsiders can reach.
Consistent == TypeOK /\ RosterMatchesAccounts /\ (~overlapped => NothingPrivateIsPublished)

\* "Once the last collaboration is gone the owner edits solo again, where
\* autosave writes divisions directly and a persisted shared doc would go
\* stale": a document is only kept for a project that is shared.
KeptForSharing == document => Invited # {}

\* ... while requests follow one another; of two removals at once each sees the
\* other's row and leaves the document to it, and a page that was opened before
\* the last removal seeds the document anew.
DocumentNeedsSharing == ~overlapped => KeptForSharing

\* ... and it goes only then: reset_collaborative_doc! is "Called when the
\* last collaboration is removed: from then on the owner edits solo"
\* (project.rb, above it).
DocumentOutlastsSharing == [][document /\ ~document' => Invited' = {}]_vars
=============================================================================
