---------------------------- MODULE Sharing_proofs ----------------------------
(***************************************************************************)
(* Proofs about Sharing for any people, addresses, subscribers and number  *)
(* of requests.  What two overlapping requests do to the roster is not     *)
(* promised; while they follow one another, what a request has decided on  *)
(* still holds when it is committed, and that is what the invariant says.  *)
(***************************************************************************)
EXTENDS Sharing, FiniteSetTheorems, TLAPS

USE FounderAssumption, MaxRequestsAssumption, NoneAssumption

-----------------------------------------------------------------------------
\* The roster and the accounts, element by element.
AccountsAreApart ==
    \A u, v \in Users : account[u] # None /\ account[u] = account[v] => u = v

PeopleHaveAccounts ==
    /\ account[owner] # None
    /\ \A a \in Addresses : roster[a] \in Users => account[roster[a]] # None

RowsAreApart ==
    /\ \A a, b \in Addresses : roster[a] \in Users \ twice /\ roster[a] = roster[b] => a = b
    /\ \A a \in Addresses : roster[a] = owner => owner \in twice

FewRows == (\A a, b \in Invited : a = b) \/ owners \cap subscribers # {}

RosterSound ==
    /\ AccountsAreApart /\ PeopleHaveAccounts /\ RowsAreApart
    /\ NobodyStranded /\ FewRows

\* What holds while requests follow one another.
Sound == RosterSound /\ NothingPrivateIsPublished /\ KeptForSharing

\* What a transaction was decided on, request by request, and what it leaves
\* alone.
PeopleKept(t) == t.who = None /\ t.confirm = {}

ShownKept(t) == t.visibility = None /\ t.published = None

RosterKept(t) ==
    t.insert = {} /\ t.delete = {} /\ t.claim = {} /\ ~t.reset /\ t.owner = None

Invites(t, a, v) ==
    /\ account[owner] # a /\ roster[a] = None
    /\ Invited = {} \/ owner \in subscribers
    /\ (v = Pending /\ UserAt(a) = {}) \/ v \in UserAt(a)
    /\ t.insert = {a} /\ t.with = v
    /\ t.delete = {} /\ t.claim = {} /\ ~t.reset /\ t.owner = None /\ ~t.seed
    /\ PeopleKept(t) /\ ShownKept(t)

Deletes(t, rows) ==
    /\ t.insert = {} /\ t.claim = {} /\ t.owner = None /\ ~t.seed
    /\ t.delete = rows /\ (t.reset <=> LastOnes(rows))
    /\ ShownKept(t)

Removes(t, a) == Deletes(t, {a}) /\ PeopleKept(t)

Transfers(t, u, a) ==
    /\ u # owner /\ a \in RowsOf(u)
    /\ roster[account[owner]] = None \/ account[owner] = a
    /\ t.delete = {a} /\ t.insert = {account[owner]} /\ t.with = owner /\ t.owner = u
    /\ t.claim = {} /\ ~t.seed /\ PeopleKept(t) /\ ShownKept(t)

Waiting(a) == {b \in {a} : roster[b] = Pending}

Claims(t, u, a) ==
    \/ Editable(u) /\ Deletes(t, Waiting(a))
    \/ /\ ~Editable(u)
       /\ t.claim = Waiting(a) /\ t.claimant = u
       /\ t.insert = {} /\ t.delete = {} /\ ~t.reset /\ t.owner = None /\ ~t.seed
       /\ ShownKept(t)

Registers(t, u, a) ==
    /\ account[u] = None /\ UserAt(a) = {}
    /\ t.who = u /\ t.address = a /\ t.confirm = {} /\ Claims(t, u, a)

Confirms(t, u) ==
    u \in unconfirmed /\ t.who = None /\ t.confirm = {u} /\ Claims(t, u, account[u])

Corrects(t, u, a) ==
    /\ account[u] # None /\ UserAt(a) = {}
    /\ t.who = u /\ t.address = a /\ t.confirm = {}
    /\ RosterKept(t) /\ ~t.seed /\ ShownKept(t)

Seeds(t) == Invited # {} /\ t.seed /\ RosterKept(t) /\ PeopleKept(t) /\ ShownKept(t)

Shows(t) ==
    /\ RosterKept(t) /\ ~t.seed /\ PeopleKept(t)
    /\ \/ t.visibility # None /\ (t.visibility = "private" /\ published => t.published = FALSE)
          /\ t.published \in {FALSE, None}
       \/ t.published = TRUE /\ t.visibility = (IF visibility = "private" THEN "unlisted" ELSE None)
       \/ t.published = FALSE /\ t.visibility = None

Decided(t) ==
    \/ \E a \in Addresses : Removes(t, a) \/ \E v \in Users \cup {Pending} : Invites(t, a, v)
    \/ \E u \in Users, a \in Addresses : Transfers(t, u, a) \/ Registers(t, u, a) \/ Corrects(t, u, a)
    \/ \E u \in Users : Confirms(t, u)
    \/ Seeds(t) \/ Shows(t)

\* While requests follow one another, one is under way at most, and what it
\* decided on still holds.
AloneInv ==
    /\ \A r, q \in Requests : txn[r].on /\ txn[q].on => r = q
    /\ \A r \in Requests : txn[r].on => Decided(txn[r])
    /\ Sound

SInv == ~overlapped => AloneInv

-----------------------------------------------------------------------------
\* Whoever is on the roster, owns the project or is about to has an account:
\* accounts are never deleted here, so this holds under any overlap.
TxnHasAccounts(t) ==
    /\ t.with \in Users => account[t.with] # None
    /\ t.owner \in Users => account[t.owner] # None
    /\ t.claimant \in Users => account[t.claimant] # None \/ t.who = t.claimant
    /\ t.who # None => t.address # None

Accounted ==
    /\ PeopleHaveAccounts
    /\ \A u \in unconfirmed : account[u] # None
    /\ \A r \in Requests : TxnHasAccounts(txn[r])

LEMMA QuietIsTxn == Quiet \in Txn
BY DEF Quiet, Txn

LEMMA ClaimForType ==
    ASSUME TypeOK, NEW u \in Users, NEW a \in Addresses, NEW t \in Txn
    PROVE  /\ ClaimFor(u, a, t) \in Txn
           /\ ClaimFor(u, a, t).with = t.with /\ ClaimFor(u, a, t).owner = t.owner
           /\ ClaimFor(u, a, t).who = t.who /\ ClaimFor(u, a, t).address = t.address
           /\ ClaimFor(u, a, t).claimant \in {t.claimant, u}
<1> DEFINE waiting == {b \in {a} : roster[b] = Pending}
<1>1. waiting \in SUBSET Addresses /\ LastOnes(waiting) \in BOOLEAN
  BY DEF LastOnes
<1>2. ClaimFor(u, a, t) = IF Editable(u)
                          THEN [t EXCEPT !.delete = waiting, !.reset = LastOnes(waiting)]
                          ELSE [t EXCEPT !.claim = waiting, !.claimant = u]
  BY DEF ClaimFor
<1> HIDE DEF waiting
<1>3. CASE Editable(u)
  <2> DEFINE c == [t EXCEPT !.delete = waiting, !.reset = LastOnes(waiting)]
  <2>1. ClaimFor(u, a, t) = c
    BY <1>2, <1>3
  <2>2. c \in Txn /\ c.with = t.with /\ c.owner = t.owner /\ c.who = t.who
        /\ c.address = t.address /\ c.claimant = t.claimant
    BY <1>1 DEF Txn
  <2> HIDE DEF c
  <2> QED BY <2>1, <2>2
<1>4. CASE ~Editable(u)
  <2> DEFINE c == [t EXCEPT !.claim = waiting, !.claimant = u]
  <2>1. ClaimFor(u, a, t) = c
    BY <1>2, <1>4
  <2>2. c \in Txn /\ c.with = t.with /\ c.owner = t.owner /\ c.who = t.who
        /\ c.address = t.address /\ c.claimant = u
    BY <1>1 DEF Txn
  <2> HIDE DEF c
  <2> QED BY <2>1, <2>2
<1> QED BY <1>3, <1>4

\* Beginning a request changes nothing but its transaction.
LEMMA BeginType ==
    ASSUME TypeOK, Accounted, NEW r \in Requests, NEW t \in Txn, TxnHasAccounts(t), Begin(r, t)
    PROVE  (TypeOK /\ Accounted)'
<1>1. [t EXCEPT !.on = TRUE] \in Txn
  BY DEF Txn
<1>2. UNCHANGED <<people, sharing, showing>> /\ made' = made + 1 /\ made < MaxRequests
  BY DEF Begin
<1>3. made' \in 0..MaxRequests
  BY <1>2 DEF TypeOK
<1>4. txn' = [txn EXCEPT ![r] = [t EXCEPT !.on = TRUE]]
  BY DEF Begin
<1>5. overlapped' \in BOOLEAN
  BY DEF Begin, TypeOK
<1>6. TypeOK'
  BY <1>1, <1>2, <1>3, <1>4, <1>5 DEF TypeOK, people, sharing, showing
<1>7. (\A q \in Requests : TxnHasAccounts(txn[q]))'
  <2> SUFFICES ASSUME NEW q \in Requests PROVE TxnHasAccounts(txn[q])'
    OBVIOUS
  <2>1. account' = account
    BY <1>2 DEF people
  <2>2. CASE q = r
    <3>1. txn'[q] = [t EXCEPT !.on = TRUE]
      BY <1>4, <2>2 DEF TypeOK
    <3> DEFINE s == [t EXCEPT !.on = TRUE]
    <3>2. s.with = t.with /\ s.owner = t.owner /\ s.claimant = t.claimant
          /\ s.who = t.who /\ s.address = t.address
      BY DEF Txn
    <3> QED BY <2>1, <3>1, <3>2 DEF TxnHasAccounts
  <2>3. CASE q # r
    <3>1. txn'[q] = txn[q]
      BY <1>4, <2>3 DEF TypeOK
    <3> QED BY <2>1, <3>1 DEF TxnHasAccounts, Accounted
  <2> QED BY <2>2, <2>3
<1>8. PeopleHaveAccounts' /\ \A u \in unconfirmed' : account'[u] # None
  BY <1>2 DEF Accounted, PeopleHaveAccounts, people, sharing
<1> QED BY <1>6, <1>7, <1>8 DEF Accounted

\* Every commit keeps the types, and everybody's account.
LEMMA CommitType ==
    ASSUME TypeOK, Accounted, NEW r \in Requests, Commit(r)
    PROVE  (TypeOK /\ Accounted)'
<1> DEFINE t == txn[r]
<1>1. t \in Txn /\ TxnHasAccounts(t)
  BY DEF TypeOK, Accounted
<1>2. /\ txn' = [txn EXCEPT ![r] = Quiet]
      /\ UNCHANGED <<subscribers, made, overlapped>>
  BY DEF Commit
<1>3. txn' \in [Requests -> Txn]
  BY <1>2, QuietIsTxn DEF TypeOK
<1>4. CASE Refused(t)
  <2>1. UNCHANGED <<account, unconfirmed, corrected, twice, sharing, showing>>
    BY <1>4 DEF Commit
  <2>2. TypeOK'
    BY <1>2, <1>3, <2>1 DEF TypeOK, sharing, showing
  <2>3. (\A q \in Requests : TxnHasAccounts(txn[q]))'
    <3> SUFFICES ASSUME NEW q \in Requests PROVE TxnHasAccounts(txn[q])'
      OBVIOUS
    <3>1. CASE q = r
      <4>1. txn'[q] = Quiet
        BY <1>2, <3>1 DEF TypeOK
      <4> QED BY <4>1 DEF TxnHasAccounts, Quiet
    <3>2. CASE q # r
      <4>1. txn'[q] = txn[q] /\ TxnHasAccounts(txn[q])
        BY <1>2, <3>2 DEF TypeOK, Accounted
      <4> QED BY <2>1, <4>1 DEF TxnHasAccounts
    <3> QED BY <3>1, <3>2
  <2> QED BY <2>1, <2>2, <2>3 DEF Accounted, PeopleHaveAccounts, sharing
<1>5. CASE ~Refused(t)
  <2>1. /\ account' = [u \in Users |-> IF u = t.who THEN t.address ELSE account[u]]
        /\ unconfirmed' = (unconfirmed \ t.confirm) \cup {u \in Users \cap {t.who} : account[u] = None}
        /\ corrected' = corrected \cup {u \in Users \cap {t.who} : account[u] # None}
        /\ twice' = twice \cup {u \in Users \cap {t.with} : t.owner = None /\ RowsOf(u) # {}}
        /\ owner' = IF t.owner = None THEN owner ELSE t.owner
        /\ owners' = owners \cup {owner'}
        /\ roster' = [a \in Addresses |->
             CASE a \in t.insert -> t.with
               [] a \in t.delete \ t.insert -> None
               [] a \in t.claim /\ roster[a] # None -> t.claimant
               [] OTHER -> roster[a]]
        /\ document' = (t.seed \/ (document /\ ~t.reset))
        /\ visibility' = IF t.visibility = None THEN visibility ELSE t.visibility
        /\ published' = IF t.published = None THEN published ELSE t.published
    BY <1>5 DEF Commit
  <2>2. account' \in [Users -> Addresses \cup {None}] /\ \A u \in Users :
              (account[u] # None \/ u = t.who) => account'[u] # None
    BY <1>1, <2>1 DEF TypeOK, Txn, TxnHasAccounts
  <2>3. \A a \in Addresses : roster'[a] \in {t.with, None, t.claimant, roster[a]}
    BY <2>1
  <2>4. roster' \in [Addresses -> Users \cup {Pending, None}]
    BY <1>1, <2>1, <2>3 DEF TypeOK, Txn
  <2>5. owner' \in {owner, t.owner} \cap Users
    BY <1>1, <2>1 DEF TypeOK, Txn
  <2>6. unconfirmed' \subseteq Users /\ corrected' \subseteq Users /\ twice' \subseteq Users /\ document' \in BOOLEAN
    BY <1>1, <2>1 DEF TypeOK, Txn
  <2>7. visibility' \in Visibility /\ published' \in BOOLEAN
    BY <1>1, <2>1 DEF TypeOK, Txn
  <2>8. TypeOK'
    BY <1>2, <1>3, <2>1, <2>2, <2>4, <2>5, <2>6, <2>7 DEF TypeOK
  <2>9. (\A q \in Requests : TxnHasAccounts(txn[q]))'
    <3> SUFFICES ASSUME NEW q \in Requests PROVE TxnHasAccounts(txn[q])'
      OBVIOUS
    <3>1. CASE q = r
      <4>1. txn'[q] = Quiet
        BY <1>2, <3>1 DEF TypeOK
      <4> QED BY <4>1 DEF TxnHasAccounts, Quiet
    <3>2. CASE q # r
      <4>1. txn'[q] = txn[q] /\ TxnHasAccounts(txn[q])
        BY <1>2, <3>2 DEF TypeOK, Accounted
      <4> QED BY <2>2, <4>1 DEF TxnHasAccounts
    <3> QED BY <3>1, <3>2
  <2>10. PeopleHaveAccounts'
    <3>1. account'[owner'] # None
      BY <1>1, <2>2, <2>5 DEF TxnHasAccounts, Accounted, PeopleHaveAccounts
    <3>2. ASSUME NEW a \in Addresses, roster'[a] \in Users PROVE account'[roster'[a]] # None
      BY <1>1, <2>2, <2>3, <3>2 DEF TxnHasAccounts, Accounted, PeopleHaveAccounts
    <3> QED BY <3>1, <3>2 DEF PeopleHaveAccounts
  <2>11. \A u \in unconfirmed' : account'[u] # None
    BY <1>1, <2>1, <2>2 DEF Accounted, TypeOK
  <2> QED BY <2>8, <2>9, <2>10, <2>11 DEF Accounted
<1> QED BY <1>4, <1>5

\* Types and accounts, under any overlap of requests.
LEMMA Types == Spec => [](TypeOK /\ Accounted)
<1> USE QuietIsTxn
<1>1. Init => TypeOK /\ Accounted
  <2> SUFFICES ASSUME Init PROVE TypeOK /\ Accounted
    OBVIOUS
  <2>1. PICK a \in Addresses : account = [u \in Users |-> IF u = Founder THEN a ELSE None]
    BY DEF Init
  <2>2. account \in [Users -> Addresses \cup {None}] /\ account[owner] # None
    BY <2>1 DEF Init
  <2>a. txn \in [Requests -> Txn] /\ made \in 0..MaxRequests
    BY DEF Init
  <2>b. TypeOK
    BY <2>2, <2>a DEF Init, TypeOK, Visibility
  <2>3. \A r \in Requests : TxnHasAccounts(txn[r])
    BY DEF Init, TxnHasAccounts, Quiet
  <2> QED BY <2>2, <2>b, <2>3 DEF Init, Accounted, PeopleHaveAccounts
<1>2. TypeOK /\ Accounted /\ [Next]_vars => (TypeOK /\ Accounted)'
  <2> SUFFICES ASSUME TypeOK, Accounted, [Next]_vars PROVE (TypeOK /\ Accounted)'
    OBVIOUS
  <2> DEFINE Fits(t) == t \in Txn /\ TxnHasAccounts(t)
  <2>1. ASSUME NEW r \in Requests, NEW t, Begin(r, t), Fits(t) PROVE (TypeOK /\ Accounted)'
    BY <2>1, BeginType
  <2>2. ASSUME NEW r \in Requests, NEW a \in Addresses, Invite(r, a)
        PROVE  \E t : Begin(r, t) /\ Fits(t)
    <3>1. PICK v \in Users \cup {Pending} :
            /\ v \in Users => account[v] # None
            /\ Begin(r, [Quiet EXCEPT !.insert = {a}, !.with = v])
      BY <2>2 DEF Invite, UserAt
    <3> DEFINE t == [Quiet EXCEPT !.insert = {a}, !.with = v]
    <3>2. t \in Txn /\ t.with = v /\ t.owner = None /\ t.claimant = None /\ t.who = None
      BY DEF Txn, Quiet
    <3>3. Fits(t)
      BY <3>1, <3>2 DEF TxnHasAccounts
    <3> QED BY <3>1, <3>3
  <2>3. ASSUME NEW r \in Requests, NEW a \in Addresses, Remove(r, a)
        PROVE  \E t : Begin(r, t) /\ Fits(t)
    <3> DEFINE t == [Quiet EXCEPT !.delete = {a}, !.reset = LastOnes({a})]
    <3>1. t \in Txn /\ t.with = None /\ t.owner = None /\ t.claimant = None /\ t.who = None
      BY DEF Txn, Quiet, LastOnes
    <3>2. Fits(t)
      BY <3>1 DEF TxnHasAccounts
    <3> QED BY <2>3, <3>2 DEF Remove
  <2>4. ASSUME NEW r \in Requests, NEW u \in Users, Transfer(r, u)
        PROVE  \E t : Begin(r, t) /\ Fits(t)
    <3>1. PICK a \in RowsOf(u) :
            Begin(r, [Quiet EXCEPT !.delete = {a}, !.reset = LastOnes({a}),
                                   !.owner = u, !.insert = {account[owner]}, !.with = owner])
      BY <2>4 DEF Transfer
    <3> DEFINE t == [Quiet EXCEPT !.delete = {a}, !.reset = LastOnes({a}),
                                  !.owner = u, !.insert = {account[owner]}, !.with = owner]
    <3>2. /\ a \in Addresses /\ roster[a] = u /\ account[u] # None
          /\ owner \in Users /\ account[owner] \in Addresses /\ account[owner] # None
      BY DEF RowsOf, TypeOK, Accounted, PeopleHaveAccounts
    <3>3. t \in Txn /\ t.with = owner /\ t.owner = u /\ t.claimant = None /\ t.who = None
      BY <3>2 DEF Txn, Quiet, LastOnes
    <3>4. Fits(t)
      BY <3>2, <3>3 DEF TxnHasAccounts
    <3> QED BY <3>1, <3>4
  <2>5. ASSUME NEW r \in Requests, NEW u \in Users, NEW a \in Addresses, Register(r, u, a)
        PROVE  \E t : Begin(r, t) /\ Fits(t)
    <3> DEFINE s == [Quiet EXCEPT !.who = u, !.address = a]
               t == ClaimFor(u, a, s)
    <3>1. s \in Txn /\ s.with = None /\ s.owner = None /\ s.claimant = None
          /\ s.who = u /\ s.address = a
      BY DEF Txn, Quiet
    <3> HIDE DEF s
    <3>2. t \in Txn /\ t.with = None /\ t.owner = None /\ t.claimant \in {None, u}
          /\ t.who = u /\ t.address = a
      BY <3>1, ClaimForType
    <3>3. Fits(t)
      BY <3>2 DEF TxnHasAccounts
    <3>4. Begin(r, t)
      BY <2>5 DEF Register, s
    <3> QED BY <3>3, <3>4
  <2>6. ASSUME NEW r \in Requests, NEW u \in Users, Confirm(r, u)
        PROVE  \E t : Begin(r, t) /\ Fits(t)
    <3> DEFINE s == [Quiet EXCEPT !.confirm = {u}]
               t == ClaimFor(u, account[u], s)
    <3>1. s \in Txn /\ s.with = None /\ s.owner = None /\ s.claimant = None /\ s.who = None
      BY DEF Txn, Quiet
    <3>2. account[u] \in Addresses /\ account[u] # None
      BY <2>6 DEF Confirm, Accounted, TypeOK
    <3> HIDE DEF s
    <3>3. t \in Txn /\ t.with = None /\ t.owner = None /\ t.claimant \in {None, u} /\ t.who = None
      BY <3>1, <3>2, ClaimForType
    <3>4. Fits(t)
      BY <3>2, <3>3 DEF TxnHasAccounts
    <3>5. Begin(r, t)
      BY <2>6 DEF Confirm, s
    <3> QED BY <3>4, <3>5
  <2>7. ASSUME NEW r \in Requests, NEW u \in Users, NEW a \in Addresses, UpdateEmail(r, u, a)
        PROVE  \E t : Begin(r, t) /\ Fits(t)
    <3> DEFINE t == [Quiet EXCEPT !.who = u, !.address = a]
    <3>1. t \in Txn /\ t.with = None /\ t.owner = None /\ t.claimant = None /\ t.address = a
      BY DEF Txn, Quiet
    <3>2. Fits(t)
      BY <3>1 DEF TxnHasAccounts
    <3> QED BY <2>7, <3>2 DEF UpdateEmail
  <2>8. ASSUME NEW r \in Requests, Seed(r) PROVE \E t : Begin(r, t) /\ Fits(t)
    <3> DEFINE t == [Quiet EXCEPT !.seed = TRUE]
    <3>1. t \in Txn /\ t.with = None /\ t.owner = None /\ t.claimant = None /\ t.who = None
      BY DEF Txn, Quiet
    <3>2. Fits(t)
      BY <3>1 DEF TxnHasAccounts
    <3> QED BY <2>8, <3>2 DEF Seed
  <2>9. ASSUME NEW r \in Requests, NEW v \in Visibility \cup {None}, NEW p \in BOOLEAN \cup {None},
               Begin(r, [Quiet EXCEPT !.visibility = v, !.published = p])
        PROVE  \E t : Begin(r, t) /\ Fits(t)
    <3> DEFINE t == [Quiet EXCEPT !.visibility = v, !.published = p]
    <3>1. t \in Txn /\ t.with = None /\ t.owner = None /\ t.claimant = None /\ t.who = None
      BY DEF Txn, Quiet
    <3>2. Fits(t)
      BY <3>1 DEF TxnHasAccounts
    <3> QED BY <2>9, <3>2
  <2>10. ASSUME NEW r \in Requests, Showing(r) PROVE \E t : Begin(r, t) /\ Fits(t)
    <3>1. ASSUME NEW v \in Visibility, SetVisibility(r, v) PROVE \E t : Begin(r, t) /\ Fits(t)
      <4> DEFINE p == IF v = "private" /\ published THEN FALSE ELSE None
      <4>1. p \in BOOLEAN \cup {None} /\ Begin(r, [Quiet EXCEPT !.visibility = v, !.published = p])
        BY <3>1 DEF SetVisibility
      <4> QED BY <4>1, <2>9
    <3>2. CASE Publish(r)
      <4> DEFINE v == IF visibility = "private" THEN "unlisted" ELSE None
             t == [Quiet EXCEPT !.published = TRUE, !.visibility = v]
      <4>1. v \in Visibility \cup {None}
        BY DEF Visibility
      <4> HIDE DEF v
      <4>2. t \in Txn /\ t.with = None /\ t.owner = None /\ t.claimant = None /\ t.who = None
        BY <4>1 DEF Txn, Quiet
      <4>3. Fits(t)
        BY <4>2 DEF TxnHasAccounts
      <4> QED BY <3>2, <4>3 DEF Publish, v
    <3>3. CASE Unpublish(r)
      <4> DEFINE t == [Quiet EXCEPT !.published = FALSE]
      <4>1. t \in Txn /\ t.with = None /\ t.owner = None /\ t.claimant = None /\ t.who = None
        BY DEF Txn, Quiet
      <4>2. Fits(t)
        BY <4>1 DEF TxnHasAccounts
      <4> QED BY <3>3, <4>2 DEF Unpublish
    <3> QED BY <2>10, <3>1, <3>2, <3>3 DEF Showing
  <2>11. ASSUME NEW r \in Requests, Commit(r) PROVE (TypeOK /\ Accounted)'
    BY <2>11, CommitType
  <2>12. CASE UNCHANGED vars
    BY <2>12 DEF vars, people, sharing, showing, TypeOK, Accounted, PeopleHaveAccounts, TxnHasAccounts
  <2> HIDE DEF Fits
  <2> QED BY <2>1, <2>2, <2>3, <2>4, <2>5, <2>6, <2>7, <2>8, <2>10, <2>11, <2>12
          DEF Next, Roster, People
<1> QED BY <1>1, <1>2, PTL DEF Spec

\* Every variable of Sharing keeps its type.
THEOREM TypeCorrect == Spec => []TypeOK
BY Types, PTL

-----------------------------------------------------------------------------
\* Rows that go, and nothing else that changes, leave the roster sound.
LEMMA RowsGo ==
    ASSUME TypeOK, AccountsAreApart, RowsAreApart, NobodyStranded, FewRows,
           \A x \in Addresses : roster'[x] \in {roster[x], None},
           UNCHANGED <<account, corrected, owner, owners, subscribers>>, twice \subseteq twice'
    PROVE  (AccountsAreApart /\ RowsAreApart /\ NobodyStranded /\ FewRows)'
<1>1. owner \in Users
  BY DEF TypeOK
<1>2. AccountsAreApart' /\ NobodyStranded'
  BY DEF AccountsAreApart, NobodyStranded, UserAt
<1>3. RowsAreApart'
  BY <1>1 DEF RowsAreApart
<1>4. Invited' \subseteq Invited
  BY DEF Invited
<1>5. FewRows'
  BY <1>4 DEF FewRows
<1> QED BY <1>2, <1>3, <1>5

\* An invitation claimed by somebody who neither owns the project nor has a
\* row yet leaves one row as it was, but for whom it is.
LEMMA RowIsClaimed ==
    ASSUME TypeOK, RowsAreApart, FewRows,
           NEW u \in Users, NEW a \in Addresses, ~Editable(u),
           \A x \in Addresses : roster'[x] = IF x = a /\ roster[a] = Pending THEN u ELSE roster[x],
           UNCHANGED <<owner, owners, subscribers>>, twice \subseteq twice'
    PROVE  RowsAreApart' /\ FewRows' /\ Invited' = Invited
<1>1. u # owner /\ \A x \in Addresses : roster[x] # u
  BY DEF Editable, RowsOf
<1>2. RowsAreApart'
  BY <1>1 DEF RowsAreApart
<1>3. Invited' = Invited
  BY DEF Invited
<1> QED BY <1>2, <1>3 DEF FewRows

\* What one request writes, when nothing else is under way, leaves everything
\* sound.
LEMMA CommitAlone ==
    ASSUME TypeOK, Accounted, Sound, NEW r \in Requests, Commit(r), Decided(txn[r]),
           ~Refused(txn[r]), PeopleHaveAccounts'
    PROVE  Sound'
<1> DEFINE t == txn[r]
<1>1. /\ account' = [u \in Users |-> IF u = t.who THEN t.address ELSE account[u]]
      /\ corrected' = corrected \cup {u \in Users \cap {t.who} : account[u] # None}
      /\ twice' = twice \cup {u \in Users \cap {t.with} : t.owner = None /\ RowsOf(u) # {}}
      /\ owner' = IF t.owner = None THEN owner ELSE t.owner
      /\ owners' = owners \cup {owner'}
      /\ roster' = [a \in Addresses |->
           CASE a \in t.insert -> t.with
             [] a \in t.delete \ t.insert -> None
             [] a \in t.claim /\ roster[a] # None -> t.claimant
             [] OTHER -> roster[a]]
      /\ document' = (t.seed \/ (document /\ ~t.reset))
      /\ visibility' = IF t.visibility = None THEN visibility ELSE t.visibility
      /\ published' = IF t.published = None THEN published ELSE t.published
      /\ subscribers' = subscribers
  BY DEF Commit
<1>2. /\ t \in Txn /\ owner \in Users /\ owner \in owners
      /\ account \in [Users -> Addresses \cup {None}]
      /\ roster \in [Addresses -> Users \cup {Pending, None}]
      /\ account[owner] \in Addresses
  BY DEF TypeOK, Accounted, PeopleHaveAccounts
<1>3. AccountsAreApart /\ RowsAreApart /\ NobodyStranded /\ FewRows /\ KeptForSharing
      /\ NothingPrivateIsPublished /\ PeopleHaveAccounts
  BY DEF Sound, RosterSound
<1> SUFFICES AccountsAreApart' /\ RowsAreApart' /\ NobodyStranded' /\ FewRows'
             /\ NothingPrivateIsPublished' /\ KeptForSharing'
  BY DEF Sound, RosterSound
<1>4. t.who = None => account' = account /\ corrected' = corrected
  BY <1>1, <1>2
<1>5. t.owner = None => owner' = owner /\ owners' = owners
  BY <1>1, <1>2
<1>6. ShownKept(t) => NothingPrivateIsPublished'
  BY <1>1, <1>3 DEF ShownKept, NothingPrivateIsPublished
<1>7. RosterKept(t) => roster' = roster
  BY <1>1, <1>2 DEF RosterKept
<1>a. twice \subseteq twice'
  BY <1>1
<1> HIDE DEF t
<1>8. ASSUME NEW rows, Deletes(t, rows), t.who = None PROVE Sound'
  <2>1. \A x \in Addresses : roster'[x] = IF x \in rows THEN None ELSE roster[x]
    BY <1>1, <1>8 DEF Deletes
  <2>2. UNCHANGED <<account, corrected, owner, owners, subscribers>>
    BY <1>1, <1>4, <1>5, <1>8 DEF Deletes
  <2>3. (AccountsAreApart /\ RowsAreApart /\ NobodyStranded /\ FewRows)'
    BY <1>3, <1>a, <2>1, <2>2, RowsGo
  <2>4. KeptForSharing'
    <3> SUFFICES ASSUME document' PROVE Invited' # {}
      BY DEF KeptForSharing
    <3>1. document /\ ~LastOnes(rows)
      BY <1>1, <1>8 DEF Deletes
    <3>2. Invited # {} /\ (rows = {} \/ ~(Invited \subseteq rows))
      BY <1>3, <3>1 DEF KeptForSharing, LastOnes
    <3>3. PICK b \in Addresses : roster[b] # None /\ b \notin rows
      BY <3>2 DEF Invited
    <3> QED BY <2>1, <3>3 DEF Invited
  <2>5. NothingPrivateIsPublished'
    BY <1>6, <1>8 DEF Deletes
  <2> QED BY <2>3, <2>4, <2>5 DEF Sound, RosterSound
<1>9. ASSUME NEW a \in Addresses, NEW v \in Users \cup {Pending}, Invites(t, a, v) PROVE Sound'
  <2>1. \A x \in Addresses : roster'[x] = IF x = a THEN v ELSE roster[x]
    BY <1>1, <1>9 DEF Invites
  <2>2. UNCHANGED <<account, corrected, owner, owners, subscribers>>
    BY <1>1, <1>4, <1>5, <1>9 DEF Invites, PeopleKept
  <2>3. AccountsAreApart'
    BY <1>3, <2>2 DEF AccountsAreApart
  <2>4. v # owner /\ (v \in Users => v \in twice' \/ \A x \in Addresses : roster[x] # v)
    BY <1>1, <1>2, <1>9 DEF Invites, UserAt, RowsOf
  <2>5. RowsAreApart'
    BY <1>3, <1>a, <2>1, <2>2, <2>4 DEF RowsAreApart
  <2>6. v = Pending => UserAt(a) = {}
    BY <1>9 DEF Invites, UserAt
  <2>7. NobodyStranded'
    BY <1>3, <2>1, <2>2, <2>6 DEF NobodyStranded, UserAt
  <2>8. Invited' = Invited \cup {a} /\ v # None
    BY <2>1 DEF Invited
  <2>9. FewRows'
    <3>1. CASE Invited = {}
      BY <2>8, <3>1 DEF FewRows
    <3>2. CASE owner \in subscribers
      BY <1>2, <2>2, <3>2 DEF FewRows
    <3> QED BY <1>9, <3>1, <3>2 DEF Invites
  <2>10. KeptForSharing' /\ NothingPrivateIsPublished'
    BY <1>6, <1>9, <2>8 DEF KeptForSharing, Invites
  <2> QED BY <2>3, <2>5, <2>7, <2>9, <2>10 DEF Sound, RosterSound
<1>10. ASSUME NEW u \in Users, NEW a \in Addresses, Transfers(t, u, a) PROVE Sound'
  <2> DEFINE b == account[owner]
  <2>1. b \in Addresses /\ roster[a] = u /\ u # owner /\ (roster[b] = None \/ b = a)
    BY <1>2, <1>10 DEF Transfers, RowsOf
  <2>2. \A x \in Addresses :
          roster'[x] = IF x = b THEN owner ELSE IF x = a THEN None ELSE roster[x]
    BY <1>1, <1>10 DEF Transfers
  <2>3. owner' = u /\ owners' = owners \cup {u} /\ UNCHANGED <<account, corrected, subscribers>>
    BY <1>1, <1>4, <1>10 DEF Transfers, PeopleKept
  <2>4. AccountsAreApart'
    BY <1>3, <2>3 DEF AccountsAreApart
  <2>5. RowsAreApart'
    <3>1. ASSUME NEW x \in Addresses, roster'[x] = u PROVE u \in twice'
      BY <1>2, <1>3, <1>a, <2>1, <2>2, <3>1 DEF RowsAreApart
    <3>2. ASSUME NEW x \in Addresses, NEW y \in Addresses,
                 roster'[x] \in Users \ twice', roster'[x] = roster'[y]
          PROVE  x = y
      BY <1>2, <1>3, <1>a, <2>1, <2>2, <3>2 DEF RowsAreApart
    <3> QED BY <2>3, <3>1, <3>2 DEF RowsAreApart
  <2>6. NobodyStranded'
    BY <1>2, <1>3, <2>2, <2>3 DEF NobodyStranded, UserAt
  <2>7. Invited' \subseteq (Invited \ {a}) \cup {b} /\ b \in Invited' /\ a \in Invited
    BY <1>2, <2>1, <2>2 DEF Invited
  <2>8. FewRows'
    <3>1. CASE \A x, y \in Invited : x = y
      BY <2>7, <3>1 DEF FewRows
    <3>2. CASE owners \cap subscribers # {}
      BY <2>3, <3>2 DEF FewRows
    <3> QED BY <1>3, <3>1, <3>2 DEF FewRows
  <2>9. KeptForSharing' /\ NothingPrivateIsPublished'
    BY <1>6, <1>10, <2>7 DEF KeptForSharing, Transfers
  <2> QED BY <2>4, <2>5, <2>6, <2>8, <2>9 DEF Sound, RosterSound
<1>11. ASSUME NEW u \in Users, NEW a \in Addresses, ~Editable(u), Claims(t, u, a)
       PROVE  RowsAreApart' /\ FewRows' /\ KeptForSharing' /\ NothingPrivateIsPublished'
              /\ \A x \in Addresses : roster'[x] = IF x = a /\ roster[a] = Pending THEN u ELSE roster[x]
  <2>1. \A x \in Addresses : roster'[x] = IF x = a /\ roster[a] = Pending THEN u ELSE roster[x]
    BY <1>1, <1>11 DEF Claims, Waiting
  <2>2. UNCHANGED <<owner, owners, subscribers>> /\ (document' => document)
    BY <1>1, <1>5, <1>11 DEF Claims
  <2>3. RowsAreApart' /\ FewRows' /\ Invited' = Invited
    BY <1>3, <1>11, <1>a, <2>1, <2>2, RowIsClaimed
  <2>4. NothingPrivateIsPublished'
    BY <1>6, <1>11 DEF Claims
  <2> QED BY <1>3, <2>1, <2>2, <2>3, <2>4 DEF KeptForSharing
<1>12. ASSUME NEW u \in Users, NEW a \in Addresses, Registers(t, u, a) PROVE Sound'
  <2>1. account[u] = None /\ UserAt(a) = {} /\ t.who = u /\ t.address = a /\ Claims(t, u, a)
    BY <1>12 DEF Registers
  <2>2. ~Editable(u)
    BY <1>2, <1>3, <2>1 DEF Editable, RowsOf, PeopleHaveAccounts
  <2>3. \A v \in Users : account'[v] = IF v = u THEN a ELSE account[v]
    BY <1>1, <2>1
  <2>4. RowsAreApart' /\ FewRows' /\ KeptForSharing' /\ NothingPrivateIsPublished'
        /\ \A x \in Addresses : roster'[x] = IF x = a /\ roster[a] = Pending THEN u ELSE roster[x]
    BY <1>11, <2>1, <2>2
  <2>5. AccountsAreApart'
    BY <1>3, <2>1, <2>3 DEF AccountsAreApart, UserAt
  <2>6. corrected \subseteq corrected'
    BY <1>1
  <2>7. NobodyStranded'
    <3> SUFFICES ASSUME NEW x \in Addresses, roster'[x] = Pending PROVE UserAt(x)' \subseteq corrected'
      BY DEF NobodyStranded
    <3>1. roster[x] = Pending /\ x # a
      BY <2>4
    <3>2. UserAt(x)' = UserAt(x)
      BY <2>1, <2>3, <3>1 DEF UserAt
    <3> QED BY <1>3, <2>6, <3>1, <3>2 DEF NobodyStranded
  <2> QED BY <2>4, <2>5, <2>7 DEF Sound, RosterSound
<1>13. ASSUME NEW u \in Users, Confirms(t, u) PROVE Sound'
  <2> DEFINE a == account[u]
  <2>1. a \in Addresses /\ t.who = None /\ Claims(t, u, a)
    BY <1>2, <1>13 DEF Confirms, Accounted
  <2>2. CASE Editable(u)
    BY <1>8, <2>1, <2>2 DEF Claims
  <2>3. CASE ~Editable(u)
    <3>1. RowsAreApart' /\ FewRows' /\ KeptForSharing' /\ NothingPrivateIsPublished'
          /\ \A x \in Addresses : roster'[x] = IF x = a /\ roster[a] = Pending THEN u ELSE roster[x]
      BY <1>11, <2>1, <2>3
    <3>2. AccountsAreApart' /\ NobodyStranded'
      BY <1>3, <1>4, <2>1, <3>1 DEF AccountsAreApart, NobodyStranded, UserAt
    <3> QED BY <3>1, <3>2 DEF Sound, RosterSound
  <2> QED BY <2>2, <2>3
<1>14. ASSUME NEW u \in Users, NEW a \in Addresses, Corrects(t, u, a) PROVE Sound'
  <2>1. account[u] # None /\ UserAt(a) = {} /\ t.who = u /\ t.address = a
        /\ RosterKept(t) /\ ~t.seed /\ ShownKept(t)
    BY <1>14 DEF Corrects
  <2>2. roster' = roster /\ owner' = owner /\ owners' = owners /\ (document' => document)
    BY <1>1, <1>5, <1>7, <2>1 DEF RosterKept
  <2>3. /\ \A v \in Users : account'[v] = IF v = u THEN a ELSE account[v]
        /\ corrected' = corrected \cup {u}
    BY <1>1, <2>1
  <2>4. AccountsAreApart'
    BY <1>3, <2>1, <2>3 DEF AccountsAreApart, UserAt
  <2>5. NobodyStranded'
    BY <1>3, <2>2, <2>3 DEF NobodyStranded, UserAt
  <2>6. RowsAreApart' /\ FewRows' /\ KeptForSharing'
    BY <1>1, <1>3, <1>a, <2>2 DEF RowsAreApart, FewRows, KeptForSharing, Invited
  <2> QED BY <1>6, <2>1, <2>4, <2>5, <2>6 DEF Sound, RosterSound
<1>15. ASSUME RosterKept(t), PeopleKept(t) 
       PROVE  (AccountsAreApart /\ RowsAreApart /\ NobodyStranded /\ FewRows)' /\ Invited' = Invited
  BY <1>1, <1>3, <1>4, <1>5, <1>7, <1>a, <1>15
     DEF PeopleKept, RosterKept, AccountsAreApart, RowsAreApart, NobodyStranded, FewRows, UserAt, Invited
<1>16. CASE Seeds(t)
  BY <1>6, <1>15, <1>16 DEF Seeds, KeptForSharing, Sound, RosterSound
<1>17. CASE Shows(t)
  <2>1. NothingPrivateIsPublished'
    BY <1>1, <1>3, <1>17 DEF Shows, NothingPrivateIsPublished, Visibility
  <2>2. document' => document
    BY <1>1, <1>17 DEF Shows
  <2> QED BY <1>3, <1>15, <1>17, <2>1, <2>2 DEF Shows, KeptForSharing, Sound, RosterSound
<1>18. ASSUME NEW a \in Addresses, Removes(t, a) PROVE Sound'
  BY <1>8, <1>18 DEF Removes, PeopleKept
<1>19. Decided(t)
  BY DEF t
<1> QED BY <1>9, <1>10, <1>12, <1>13, <1>14, <1>16, <1>17, <1>18, <1>19 DEF Decided, Sound, RosterSound

\* What was decided still holds, in a transaction that says the same, when
\* nothing else has changed.
LEMMA DecisionStands ==
    ASSUME TypeOK, UNCHANGED <<people, sharing, showing>>, NEW q \in Requests, NEW t, Decided(t),
           /\ txn'[q].insert = t.insert /\ txn'[q].delete = t.delete /\ txn'[q].claim = t.claim
           /\ txn'[q].reset = t.reset /\ txn'[q].with = t.with /\ txn'[q].claimant = t.claimant
           /\ txn'[q].owner = t.owner /\ txn'[q].seed = t.seed /\ txn'[q].who = t.who
           /\ txn'[q].address = t.address /\ txn'[q].confirm = t.confirm
           /\ txn'[q].visibility = t.visibility /\ txn'[q].published = t.published
    PROVE  Decided(txn[q])'
<1>1. /\ txn'[q].insert = t.insert /\ txn'[q].delete = t.delete /\ txn'[q].claim = t.claim
      /\ txn'[q].reset = t.reset /\ txn'[q].with = t.with /\ txn'[q].claimant = t.claimant
      /\ txn'[q].owner = t.owner /\ txn'[q].seed = t.seed /\ txn'[q].who = t.who
      /\ txn'[q].address = t.address /\ txn'[q].confirm = t.confirm
      /\ txn'[q].visibility = t.visibility /\ txn'[q].published = t.published
  OBVIOUS
<1>2. UNCHANGED <<account, unconfirmed, corrected, subscribers, twice, owner, owners, roster, document,
                  visibility, published>>
  BY DEF people, sharing, showing
<1>3. Invited' = Invited /\ (\A u \in Users : RowsOf(u)' = RowsOf(u) /\ (Editable(u)' <=> Editable(u)))
      /\ \A x \in Addresses \cup {None} : UserAt(x)' = UserAt(x) /\ Waiting(x)' = Waiting(x)
  BY <1>2 DEF Invited, RowsOf, Editable, UserAt, Waiting
<1>5. /\ PeopleKept(t) => PeopleKept(txn[q])'
      /\ ShownKept(t) => ShownKept(txn[q])'
      /\ RosterKept(t) => RosterKept(txn[q])'
  BY <1>1 DEF PeopleKept, ShownKept, RosterKept
<1>6. ASSUME NEW rows, Deletes(t, rows) PROVE Deletes(txn[q], rows)'
  BY <1>3, <1>1, <1>5, <1>6 DEF Deletes, LastOnes
<1>7. ASSUME NEW x \in Addresses, Removes(t, x) PROVE Removes(txn[q], x)'
  BY <1>5, <1>6, <1>7 DEF Removes
<1>8. ASSUME NEW x \in Addresses, NEW v \in Users \cup {Pending}, Invites(t, x, v)
      PROVE  Invites(txn[q], x, v)'
  <2>1. v \in UserAt(x) => RowsOf(v)' = RowsOf(v)
    BY <1>3 DEF UserAt
  <2> QED BY <1>2, <1>3, <1>1, <1>5, <1>8, <2>1 DEF Invites
<1>9. ASSUME NEW u \in Users, NEW x \in Addresses, Transfers(t, u, x) PROVE Transfers(txn[q], u, x)'
  BY <1>2, <1>3, <1>1, <1>5, <1>9 DEF Transfers
<1>10. ASSUME NEW u \in Users, NEW x \in Addresses \cup {None}, Claims(t, u, x)
       PROVE  Claims(txn[q], u, x)'
  <2>1. CASE Deletes(t, Waiting(x)) /\ Editable(u)
    <3>1. Deletes(txn[q], Waiting(x))'
      BY <1>3, <1>1, <1>5, <2>1 DEF Deletes, LastOnes
    <3> QED BY <1>3, <2>1, <3>1 DEF Claims
  <2>2. CASE ~Editable(u)
    BY <1>3, <1>1, <1>5, <1>10, <2>2 DEF Claims
  <2> QED BY <1>10, <2>1, <2>2 DEF Claims
<1>11. ASSUME NEW u \in Users, NEW x \in Addresses, Registers(t, u, x) PROVE Registers(txn[q], u, x)'
  BY <1>2, <1>3, <1>1, <1>10, <1>11 DEF Registers
<1>12. ASSUME NEW u \in Users, Confirms(t, u) PROVE Confirms(txn[q], u)'
  <2>1. account[u] \in Addresses \cup {None} /\ Claims(t, u, account[u])
    BY <1>12 DEF Confirms, TypeOK
  <2>2. Claims(txn[q], u, account[u])'
    BY <1>2, <1>3, <1>1, <1>5, <1>6, <1>10, <2>1
  <2> QED BY <1>2, <1>1, <1>12, <2>2 DEF Confirms
<1>13. ASSUME NEW u \in Users, NEW x \in Addresses, Corrects(t, u, x) PROVE Corrects(txn[q], u, x)'
  BY <1>2, <1>3, <1>1, <1>5, <1>13 DEF Corrects
<1>14. Seeds(t) => Seeds(txn[q])'
  BY <1>3, <1>1, <1>5 DEF Seeds
<1>15. Shows(t) => Shows(txn[q])'
  BY <1>2, <1>1, <1>5 DEF Shows
<1> QED BY <1>7, <1>8, <1>9, <1>11, <1>12, <1>13, <1>14, <1>15 DEF Decided

\* A request that begins while none is under way, on what still holds.
LEMMA BeginAlone ==
    ASSUME TypeOK, SInv, NEW r \in Requests, NEW t \in Txn, Begin(r, t), Decided(t)
    PROVE  SInv'
<1> SUFFICES ASSUME ~overlapped' PROVE AloneInv'
  BY DEF SInv
<1>1. /\ UNCHANGED <<people, sharing, showing>>
      /\ txn' = [txn EXCEPT ![r] = [t EXCEPT !.on = TRUE]]
      /\ ~overlapped /\ \A q \in Requests : ~txn[q].on
  BY DEF Begin
<1> DEFINE s == [t EXCEPT !.on = TRUE]
<1>2. \A q \in Requests : IF q = r THEN txn'[q] = s ELSE txn'[q] = txn[q]
  BY <1>1 DEF TypeOK
<1>3. /\ s.insert = t.insert /\ s.delete = t.delete /\ s.claim = t.claim /\ s.reset = t.reset
      /\ s.with = t.with /\ s.claimant = t.claimant /\ s.owner = t.owner /\ s.seed = t.seed
      /\ s.who = t.who /\ s.address = t.address /\ s.confirm = t.confirm
      /\ s.visibility = t.visibility /\ s.published = t.published
  BY DEF Txn
<1> HIDE DEF s
<1>4. Sound'
  BY <1>1 DEF SInv, AloneInv, Sound, RosterSound, AccountsAreApart, PeopleHaveAccounts,
              RowsAreApart, NobodyStranded, FewRows, NothingPrivateIsPublished, KeptForSharing,
              Invited, UserAt, people, sharing, showing
<1>5. ASSUME NEW q \in Requests, txn'[q].on PROVE q = r /\ Decided(txn[q])'
  <2>1. q = r /\ txn'[q] = s
    BY <1>1, <1>2, <1>5
  <2>2. Decided(txn[q])'
    BY <1>1, <1>3, <2>1, DecisionStands
  <2> QED BY <2>1, <2>2
<1> QED BY <1>4, <1>5 DEF AloneInv

\* What ClaimFor makes of a transaction that touches no row.
LEMMA ClaimForClaims ==
    ASSUME TypeOK, NEW u \in Users, NEW a \in Addresses, NEW t \in Txn,
           RosterKept(t), ShownKept(t), ~t.seed
    PROVE  /\ Claims(ClaimFor(u, a, t), u, a)
           /\ ClaimFor(u, a, t).confirm = t.confirm
<1>1. Waiting(a) \in SUBSET Addresses /\ LastOnes(Waiting(a)) \in BOOLEAN
  BY DEF LastOnes, Waiting
<1>2. ClaimFor(u, a, t) = IF Editable(u)
        THEN [t EXCEPT !.delete = Waiting(a), !.reset = LastOnes(Waiting(a))]
        ELSE [t EXCEPT !.claim = Waiting(a), !.claimant = u]
  BY DEF ClaimFor, Waiting
<1>3. CASE Editable(u)
  <2> DEFINE c == [t EXCEPT !.delete = Waiting(a), !.reset = LastOnes(Waiting(a))]
  <2>1. /\ c.insert = t.insert /\ c.claim = t.claim /\ c.owner = t.owner /\ c.seed = t.seed
        /\ c.confirm = t.confirm /\ c.visibility = t.visibility /\ c.published = t.published
        /\ c.delete = Waiting(a) /\ c.reset = LastOnes(Waiting(a))
    BY DEF Txn
  <2>2. ClaimFor(u, a, t) = c
    BY <1>2, <1>3
  <2> HIDE DEF c
  <2> QED BY <1>3, <2>1, <2>2 DEF Claims, Deletes, RosterKept, ShownKept
<1>4. CASE ~Editable(u)
  <2> DEFINE c == [t EXCEPT !.claim = Waiting(a), !.claimant = u]
  <2>1. /\ c.insert = t.insert /\ c.delete = t.delete /\ c.owner = t.owner /\ c.seed = t.seed
        /\ c.confirm = t.confirm /\ c.visibility = t.visibility /\ c.published = t.published
        /\ c.claim = Waiting(a) /\ c.claimant = u /\ c.reset = t.reset
    BY DEF Txn
  <2>2. ClaimFor(u, a, t) = c
    BY <1>2, <1>4
  <2> HIDE DEF c
  <2> QED BY <1>4, <2>1, <2>2 DEF Claims, RosterKept, ShownKept
<1> QED BY <1>3, <1>4

\* Every request decides on one of the transactions Decided lists.
LEMMA EveryoneDecides ==
    ASSUME TypeOK, Accounted, NEW r \in Requests,
           Roster(r) \/ People(r) \/ Seed(r) \/ Showing(r)
    PROVE  \E t \in Txn : Begin(r, t) /\ Decided(t)
<1> USE DEF PeopleKept, ShownKept
<1>1. ASSUME NEW a \in Addresses, Invite(r, a) PROVE \E t \in Txn : Begin(r, t) /\ Decided(t)
  <2>1. PICK v \in IF UserAt(a) = {} THEN {Pending} ELSE UserAt(a) :
          Begin(r, [Quiet EXCEPT !.insert = {a}, !.with = v])
    BY <1>1 DEF Invite
  <2> DEFINE t == [Quiet EXCEPT !.insert = {a}, !.with = v]
  <2>2. v \in Users \cup {Pending} /\ ((v = Pending /\ UserAt(a) = {}) \/ v \in UserAt(a))
    <3>1. UserAt(a) \subseteq Users
      BY DEF UserAt
    <3>2. CASE UserAt(a) = {}
      BY <2>1, <3>2
    <3>3. CASE UserAt(a) # {}
      BY <2>1, <3>1, <3>3
    <3> QED BY <3>2, <3>3
  <2>3. t \in Txn
    BY <2>2 DEF Quiet, Txn
  <2>4. Invites(t, a, v)
    BY <1>1, <2>2 DEF Invite, Invites, Quiet
  <2> QED BY <2>1, <2>2, <2>3, <2>4 DEF Decided
<1>2. ASSUME NEW a \in Addresses, Remove(r, a) PROVE \E t \in Txn : Begin(r, t) /\ Decided(t)
  <2> DEFINE t == [Quiet EXCEPT !.delete = {a}, !.reset = LastOnes({a})]
  <2>1. t \in Txn
    BY DEF Quiet, Txn, LastOnes
  <2>2. Removes(t, a)
    BY DEF Removes, Deletes, Quiet
  <2> QED BY <1>2, <2>1, <2>2 DEF Remove, Decided
<1>3. ASSUME NEW u \in Users, Transfer(r, u) PROVE \E t \in Txn : Begin(r, t) /\ Decided(t)
  <2>1. PICK a \in RowsOf(u) :
          /\ roster[account[owner]] = None \/ account[owner] = a
          /\ Begin(r, [Quiet EXCEPT !.delete = {a}, !.reset = LastOnes({a}),
                                    !.owner = u, !.insert = {account[owner]}, !.with = owner])
    BY <1>3 DEF Transfer
  <2> DEFINE t == [Quiet EXCEPT !.delete = {a}, !.reset = LastOnes({a}),
                                !.owner = u, !.insert = {account[owner]}, !.with = owner]
  <2>2. a \in Addresses /\ owner \in Users /\ account[owner] \in Addresses
    BY DEF RowsOf, TypeOK, Accounted, PeopleHaveAccounts
  <2>3. t \in Txn
    BY <2>2 DEF Quiet, Txn, LastOnes
  <2>4. Transfers(t, u, a)
    BY <1>3, <2>1 DEF Transfer, Transfers, Quiet
  <2> QED BY <2>1, <2>2, <2>3, <2>4 DEF Decided
<1>4. ASSUME NEW u \in Users, NEW a \in Addresses, Register(r, u, a)
      PROVE  \E t \in Txn : Begin(r, t) /\ Decided(t)
  <2> DEFINE s == [Quiet EXCEPT !.who = u, !.address = a]
             t == ClaimFor(u, a, s)
  <2>1. s \in Txn /\ s.who = u /\ s.address = a /\ s.confirm = {} /\ ~s.seed
        /\ RosterKept(s) /\ ShownKept(s)
    BY DEF Quiet, Txn, RosterKept
  <2> HIDE DEF s
  <2>2. t \in Txn /\ Claims(t, u, a) /\ t.who = u /\ t.address = a /\ t.confirm = {}
    BY <2>1, ClaimForType, ClaimForClaims
  <2>3. Registers(t, u, a) /\ Begin(r, t)
    BY <1>4, <2>2 DEF Register, Registers, s
  <2> HIDE DEF t
  <2> QED BY <2>2, <2>3 DEF Decided
<1>5. ASSUME NEW u \in Users, Confirm(r, u) PROVE \E t \in Txn : Begin(r, t) /\ Decided(t)
  <2> DEFINE s == [Quiet EXCEPT !.confirm = {u}]
             t == ClaimFor(u, account[u], s)
  <2>1. s \in Txn /\ s.who = None /\ s.confirm = {u} /\ ~s.seed /\ RosterKept(s) /\ ShownKept(s)
    BY DEF Quiet, Txn, RosterKept
  <2>2. account[u] \in Addresses
    BY <1>5 DEF Confirm, Accounted, TypeOK
  <2> HIDE DEF s
  <2>3. t \in Txn /\ Claims(t, u, account[u]) /\ t.who = None /\ t.confirm = {u}
    BY <2>1, <2>2, ClaimForType, ClaimForClaims
  <2>4. Confirms(t, u) /\ Begin(r, t)
    BY <1>5, <2>3 DEF Confirm, Confirms, s
  <2> HIDE DEF t
  <2> QED BY <2>3, <2>4 DEF Decided
<1>6. ASSUME NEW u \in Users, NEW a \in Addresses, UpdateEmail(r, u, a)
      PROVE  \E t \in Txn : Begin(r, t) /\ Decided(t)
  <2> DEFINE t == [Quiet EXCEPT !.who = u, !.address = a]
  <2>1. t \in Txn
    BY DEF Quiet, Txn
  <2>2. Corrects(t, u, a) /\ Begin(r, t)
    BY <1>6 DEF UpdateEmail, Corrects, RosterKept, Quiet
  <2> QED BY <2>1, <2>2 DEF Decided
<1>7. ASSUME Seed(r) PROVE \E t \in Txn : Begin(r, t) /\ Decided(t)
  <2> DEFINE t == [Quiet EXCEPT !.seed = TRUE]
  <2>1. t \in Txn
    BY DEF Quiet, Txn
  <2>2. Seeds(t) /\ Begin(r, t)
    BY <1>7 DEF Seed, Seeds, RosterKept, Quiet
  <2> QED BY <2>1, <2>2 DEF Decided
<1>8. ASSUME NEW v \in Visibility, SetVisibility(r, v) PROVE \E t \in Txn : Begin(r, t) /\ Decided(t)
  <2> DEFINE p == IF v = "private" /\ published THEN FALSE ELSE None
             t == [Quiet EXCEPT !.visibility = v, !.published = p]
  <2>1. p \in {FALSE, None} /\ (v = "private" /\ published => p = FALSE) /\ v # None
    OBVIOUS
  <2>2. Begin(r, t)
    BY <1>8 DEF SetVisibility
  <2> HIDE DEF p
  <2>3. t \in Txn /\ Shows(t)
    BY <2>1 DEF Quiet, Txn, Shows, RosterKept
  <2> QED BY <2>2, <2>3 DEF Decided
<1>9. ASSUME Publish(r) PROVE \E t \in Txn : Begin(r, t) /\ Decided(t)
  <2> DEFINE v == IF visibility = "private" THEN "unlisted" ELSE None
             t == [Quiet EXCEPT !.published = TRUE, !.visibility = v]
  <2>1. v \in Visibility \cup {None}
    BY DEF Visibility
  <2>2. Begin(r, t)
    BY <1>9 DEF Publish
  <2>3. t \in Txn
    <3> HIDE DEF v
    <3> QED BY <2>1 DEF Quiet, Txn
  <2>4. Shows(t)
    BY DEF Quiet, Shows, RosterKept
  <2> QED BY <2>2, <2>3, <2>4 DEF Decided
<1>10. ASSUME Unpublish(r) PROVE \E t \in Txn : Begin(r, t) /\ Decided(t)
  <2> DEFINE t == [Quiet EXCEPT !.published = FALSE]
  <2>1. t \in Txn /\ Shows(t)
    BY DEF Quiet, Txn, Shows, RosterKept
  <2> QED BY <1>10, <2>1 DEF Unpublish, Decided
<1> QED BY <1>1, <1>2, <1>3, <1>4, <1>5, <1>6, <1>7, <1>8, <1>9, <1>10 DEF Roster, People, Showing

\* The elements say what the sets of rows and the counts of them do.
LEMMA SoundIsConsistent ==
    ASSUME TypeOK, SInv
    PROVE  Consistent /\ DocumentNeedsSharing
<1> SUFFICES ASSUME ~overlapped
             PROVE  OneRowEach /\ NobodyStranded /\ WithinLimit /\ NothingPrivateIsPublished /\ KeptForSharing
  BY DEF Consistent, DocumentNeedsSharing, RosterMatchesAccounts
<1>1. Sound
  BY DEF SInv, AloneInv
<1>2. OneRowEach
  <2> SUFFICES ASSUME NEW u \in Users \ twice
               PROVE  Cardinality(RowsOf(u)) <= (IF u = owner THEN 0 ELSE 1)
    BY DEF OneRowEach
  <2>1. \A a, b \in RowsOf(u) : a = b
    BY <1>1 DEF Sound, RosterSound, RowsAreApart, RowsOf
  <2>2. CASE RowsOf(u) = {}
    BY <2>2, FS_EmptySet
  <2>3. CASE RowsOf(u) # {}
    <3>1. PICK a : RowsOf(u) = {a}
      BY <2>1, <2>3
    <3>2. Cardinality(RowsOf(u)) = 1
      BY <3>1, FS_Singleton
    <3>3. u # owner
      BY <1>1, <2>3 DEF Sound, RosterSound, RowsAreApart, RowsOf
    <3> QED BY <3>2, <3>3
  <2> QED BY <2>2, <2>3
<1>3. WithinLimit
  <2>1. CASE Invited = {}
    BY <2>1, FS_EmptySet DEF WithinLimit
  <2>2. CASE Invited # {} /\ \A a, b \in Invited : a = b
    <3>1. PICK a : Invited = {a}
      BY <2>2
    <3>2. Cardinality(Invited) = 1
      BY <3>1, FS_Singleton
    <3> QED BY <3>2 DEF WithinLimit
  <2> QED BY <1>1, <2>1, <2>2 DEF Sound, RosterSound, FewRows, WithinLimit
<1> QED BY <1>1, <1>2, <1>3 DEF Sound, RosterSound

\* While requests follow one another, everything stays sound.
LEMMA SharingHolds == Spec => [](Consistent /\ DocumentNeedsSharing)
<1>1. Init => SInv
  <2> SUFFICES ASSUME Init PROVE Sound /\ \A r \in Requests : ~txn[r].on
    BY DEF SInv, AloneInv
  <2>1. PICK a \in Addresses : account = [u \in Users |-> IF u = Founder THEN a ELSE None]
    BY DEF Init
  <2>2. AccountsAreApart /\ PeopleHaveAccounts
    BY <2>1 DEF Init, AccountsAreApart, PeopleHaveAccounts
  <2>3. RowsAreApart /\ NobodyStranded /\ Invited = {}
    BY DEF Init, RowsAreApart, NobodyStranded, Invited
  <2>4. NothingPrivateIsPublished /\ KeptForSharing
    BY DEF Init, NothingPrivateIsPublished, KeptForSharing
  <2>5. \A r \in Requests : ~txn[r].on
    BY DEF Init, Quiet
  <2> QED BY <2>2, <2>3, <2>4, <2>5 DEF Sound, RosterSound, FewRows
<1>2. TypeOK /\ Accounted /\ (TypeOK /\ Accounted)' /\ SInv /\ [Next]_vars => SInv'
  <2> SUFFICES ASSUME TypeOK, Accounted, (TypeOK /\ Accounted)', SInv, [Next]_vars PROVE SInv'
    OBVIOUS
  <2>1. ASSUME NEW r \in Requests, Roster(r) \/ People(r) \/ Seed(r) \/ Showing(r) PROVE SInv'
    BY <2>1, EveryoneDecides, BeginAlone
  <2>2. ASSUME NEW r \in Requests, Commit(r) PROVE SInv'
    <3> SUFFICES ASSUME ~overlapped' PROVE AloneInv'
      BY DEF SInv
    <3>1. ~overlapped /\ txn[r].on /\ txn' = [txn EXCEPT ![r] = Quiet]
      BY <2>2 DEF Commit
    <3>2. AloneInv /\ Decided(txn[r]) /\ \A q \in Requests : txn[q].on => q = r
      BY <3>1 DEF SInv, AloneInv
    <3>3. \A q \in Requests : ~txn'[q].on
      BY <3>1, <3>2 DEF TypeOK, Quiet
    <3>4. CASE Refused(txn[r])
      <4>1. UNCHANGED <<account, corrected, twice, sharing, showing, subscribers>>
        BY <2>2, <3>4 DEF Commit
      <4>2. Sound'
        BY <3>2, <4>1
           DEF AloneInv, Sound, RosterSound, AccountsAreApart, PeopleHaveAccounts, RowsAreApart,
               NobodyStranded, FewRows, NothingPrivateIsPublished, KeptForSharing, Invited, UserAt,
               sharing, showing
      <4> QED BY <3>3, <4>2 DEF AloneInv
    <3>5. CASE ~Refused(txn[r])
      <4>1. Sound'
        BY <2>2, <3>2, <3>5, CommitAlone DEF AloneInv, Accounted
      <4> QED BY <3>3, <4>1 DEF AloneInv
    <3> QED BY <3>4, <3>5
  <2>3. CASE UNCHANGED vars
    <3>1. UNCHANGED <<people, sharing, showing, txn, overlapped>>
      BY <2>3 DEF vars
    <3>2. ASSUME NEW r \in Requests, Decided(txn[r]) PROVE Decided(txn[r])'
      BY <3>1, <3>2, DecisionStands
    <3>3. Sound => Sound'
      BY <3>1 DEF Sound, RosterSound, AccountsAreApart, PeopleHaveAccounts, RowsAreApart,
                  NobodyStranded, FewRows, NothingPrivateIsPublished, KeptForSharing, Invited,
                  UserAt, people, sharing, showing
    <3> QED BY <3>1, <3>2, <3>3 DEF SInv, AloneInv
  <2> QED BY <2>1, <2>2, <2>3 DEF Next
<1>3. TypeOK /\ SInv => Consistent /\ DocumentNeedsSharing
  BY SoundIsConsistent
<1> QED BY <1>1, <1>2, <1>3, Types, PTL DEF Spec

\* While requests follow one another: whoever was never invited while they held
\* a row holds one at most, and none of their own project; an invitation waits
\* for an account only where that account was given its address since; the
\* limit holds; and a private project has nothing published (claim_for,
\* not_the_owner, transfer_ownership_to!, unpublish_targets_if_private,
\* unlist_project_if_needed).  For any number of people, addresses and requests.
THEOREM SharingStaysConsistent == Spec => []Consistent
BY SharingHolds, PTL

\* And the shared document is there only while somebody shares the project
\* (reset_doc_when_last, ProjectDocsController#seed).
THEOREM DocumentOnlyWhileShared == Spec => []DocumentNeedsSharing
BY SharingHolds, PTL
=============================================================================
