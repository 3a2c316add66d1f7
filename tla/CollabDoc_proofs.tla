--------------------------- MODULE CollabDoc_proofs ---------------------------
(***************************************************************************)
(* Proofs about CollabDoc for every finite set of tabs and any bounds: the *)
(* document's types and layout, its one seed, what a save means, and that  *)
(* the session implements SharedDocument.  Three inductive invariants,     *)
(* each resting on the one before: LInv, SeedInv and RowInv.               *)
(***************************************************************************)
EXTENDS CollabDoc, FiniteSetTheorems, TLAPS

USE BoundsAssumption, TabsAssumption

-----------------------------------------------------------------------------
(***************************************************************************)
(* Types, one step per action.                                             *)
(***************************************************************************)
Tab ==
    [pc: {"closed", "seeding", "joining", "open", "refused", "outdated", "left"},
     version: Versions, base: SUBSET Content, doc: SUBSET Updates,
     made: 0..MaxEdits, unacked: SUBSET Edits, up: BOOLEAN, asked: 0..MaxEdits,
     save: {"no", "acknowledging", "posting", "flushing", "saved"}]

LEMMA TypesOf ==
    ASSUME TypeOK
    PROVE  /\ tab \in [Tabs -> Tab]
           /\ server.exists \in BOOLEAN /\ server.stored \subseteq Updates /\ server.version \in Versions
           /\ rows \subseteq Content
           /\ \A p \in Projectors : /\ projecting[p].on \in BOOLEAN /\ projecting[p].late \in BOOLEAN
                                    /\ projecting[p].doc \subseteq Updates
           /\ behind \in BOOLEAN
           /\ \A f \in frames : f.kind \in Kinds /\ f.tab \in Tabs /\ f.updates \subseteq Updates
           /\ frames \subseteq [kind: Kinds, tab: Tabs, updates: SUBSET Updates]
           /\ projecting \in [Projectors -> [on: BOOLEAN, doc: SUBSET Updates, late: BOOLEAN]]
           /\ server \in [exists: BOOLEAN, stored: SUBSET Updates, version: Versions]
           /\ faults \in 0..MaxFaults
BY DEF TypeOK, Tab

LEMMA MadeIsFinite ==
    ASSUME TypeOK, NEW t \in Tabs, Cardinality(UNION {Made(r) : r \in Tabs}) < MaxEdits
    PROVE  tab[t].made + 1 \in 1..MaxEdits
<1> DEFINE All == UNION {Made(r) : r \in Tabs}
           n == tab[t].made
<1>1. \A r \in Tabs : tab[r].made \in 0..MaxEdits
  BY DEF TypeOK
<1>2. All \in SUBSET (Tabs \X (1..MaxEdits))
  BY <1>1 DEF Made
<1>3. IsFiniteSet(All) /\ Cardinality(All) \in Nat
  <2>1. IsFiniteSet(1..MaxEdits)
    <3>1. 1 \in Int /\ MaxEdits \in Int
      OBVIOUS
    <3> QED BY <3>1, FS_Interval
  <2>2. IsFiniteSet(Tabs \X (1..MaxEdits))
    BY <2>1, FS_Product
  <2> HIDE DEF All
  <2> QED BY <1>2, <2>2, FS_Subset, FS_CardinalityType
<1>4. Made(t) \in SUBSET All
  OBVIOUS
<1> HIDE DEF All
<1>5. Cardinality(Made(t)) <= Cardinality(All) /\ IsFiniteSet(Made(t))
  BY <1>3, <1>4, FS_Subset
<1>6. n \in Nat /\ n \in Int /\ 1 \in Int
  BY <1>1
<1>7. Made(t) = {t} \X (1..n)
  BY DEF Made
<1> HIDE DEF n
<1>8. IsFiniteSet(1..n) /\ Cardinality(1..n) = n
  BY <1>6, FS_Interval
<1>9. IsFiniteSet({t}) /\ Cardinality({t}) = 1
  BY FS_Singleton
<1>10. Cardinality(Made(t)) = 1 * n
  <2>1. Cardinality({t} \X (1..n)) = Cardinality({t}) * Cardinality(1..n)
    BY <1>8, <1>9, FS_Product, Zenon
  <2> QED BY <1>7, <1>8, <1>9, <2>1, Zenon
<1>11. n + 1 \in 1..MaxEdits
  BY <1>3, <1>5, <1>6, <1>10 DEF All
<1> QED BY <1>11 DEF n

\* The actions, named apart for the proofs by cases.
LEMMA NextCases ==
    ASSUME Next
    PROVE  \/ \E t \in Tabs : \/ Load(t) \/ SeedLost(t) \/ SeedPost(t) \/ SeedRefused(t)
                              \/ Subscribe(t) \/ Reject(t) \/ CheckOutdated(t)
           \/ \E t \in Tabs : Edit(t) \/ Drop(t) \/ Resync(t)
           \/ \E t \in Tabs : \/ Save(t) \/ WhenAcknowledged(t) \/ Flush(t) \/ FlushNothing(t)
                              \/ Flushed(t) \/ GiveUp(t) \/ Leave(t)
           \/ \E f \in frames : ReceiveEdit(f) \/ HearDiff(f) \/ HearAck(f) \/ HearRelay(f) \/ RecordFails(f)
           \/ \E j \in Jobs : JobReads(j) \/ JobWrites(j)
           \/ Reset \/ Deploy
BY DEF Next, Join, Deliver, SaveStep

TypesKept ==
    /\ tab' \in [Tabs -> Tab]
    /\ server' \in [exists: BOOLEAN, stored: SUBSET Updates, version: Versions]
    /\ rows' \subseteq Content
    /\ projecting' \in [Projectors -> [on: BOOLEAN, doc: SUBSET Updates, late: BOOLEAN]]
    /\ behind' \in BOOLEAN
    /\ frames' \subseteq [kind: Kinds, tab: Tabs, updates: SUBSET Updates]
    /\ faults' \in 0..MaxFaults

LEMMA RecordTypes ==
    ASSUME TypeOK, NEW updates \in SUBSET Updates, Record(updates)
    PROVE  /\ server' \in [exists: BOOLEAN, stored: SUBSET Updates, version: Versions]
           /\ server'.exists /\ server'.stored = server.stored \cup updates
           /\ server'.version = server.version
BY TypesOf DEF Record

LEMMA FrameTypes ==
    ASSUME NEW kind \in Kinds, NEW t \in Tabs, NEW updates \in SUBSET Updates
    PROVE  Frame(kind, t, updates) \in [kind: Kinds, tab: Tabs, updates: SUBSET Updates]
BY DEF Frame

LEMMA ContentTypes ==
    ASSUME TypeOK, NEW doc \in SUBSET Updates
    PROVE  ContentOf(doc) \subseteq Content
<1>1. \A s \in doc \cap Seeds : tab[s[1]].base \subseteq Content
  BY TypesOf DEF Seeds, Tab
<1> QED BY <1>1 DEF ContentOf, Content

LEMMA HandshakeTypes ==
    ASSUME TypeOK, NEW t \in Tabs
    PROVE  /\ Handshake(t) \subseteq [kind: Kinds, tab: Tabs, updates: SUBSET Updates]
           /\ Missing(t) \in SUBSET Updates
<1>1. tab[t] \in Tab /\ server.stored \in SUBSET Updates
  BY TypesOf
<1>2. \A u \in tab[t].unacked : {u} \in SUBSET Updates
  BY <1>1 DEF Tab, Updates
<1>3. {"edit", "diff"} \subseteq Kinds
  BY Zenon DEF Kinds
<1>4. Handshake(t) \subseteq [kind: Kinds, tab: Tabs, updates: SUBSET Updates]
  <2>1. \A u \in tab[t].unacked :
            Frame("edit", t, {u}) \in [kind: Kinds, tab: Tabs, updates: SUBSET Updates]
    BY <1>2, <1>3, FrameTypes
  <2>2. Frame("diff", t, server.stored) \in [kind: Kinds, tab: Tabs, updates: SUBSET Updates]
    BY <1>1, <1>3, FrameTypes
  <2> QED BY <2>1, <2>2 DEF Handshake
<1>5. Missing(t) \in SUBSET Updates
  BY <1>1 DEF Missing, Tab
<1> QED BY <1>4, <1>5

LEMMA FailTypes == ASSUME TypeOK, NEW what, Fails(what) PROVE faults' \in 0..MaxFaults
BY DEF Fails, TypeOK

LEMMA UpTypes ==
    ASSUME TypeOK, NEW t \in Tabs, NEW b \in BOOLEAN, tab' = [tab EXCEPT ![t].up = b]
    PROVE  tab' \in [Tabs -> Tab]
<1> DEFINE r == [tab[t] EXCEPT !.up = b]
<1>1. tab \in [Tabs -> Tab] /\ tab[t] \in Tab
  BY TypesOf
<1>2. r \in Tab
  BY <1>1 DEF Tab
<1>3. tab' = [tab EXCEPT ![t] = r]
  OBVIOUS
<1> HIDE DEF r
<1> QED BY <1>1, <1>2, <1>3

LEMMA TypeJoin ==
    ASSUME TypeOK, NEW t \in Tabs,
           \/ Load(t) \/ SeedLost(t) \/ SeedPost(t) \/ SeedRefused(t)
           \/ Subscribe(t) \/ Reject(t) \/ CheckOutdated(t)
    PROVE  TypesKept
<1>a. /\ tab \in [Tabs -> Tab] /\ rows \in SUBSET Content /\ server.version \in Versions
      /\ server.stored \in SUBSET Updates
  BY TypesOf
<1>b. /\ server \in [exists: BOOLEAN, stored: SUBSET Updates, version: Versions]
      /\ projecting \in [Projectors -> [on: BOOLEAN, doc: SUBSET Updates, late: BOOLEAN]]
      /\ behind \in BOOLEAN
      /\ frames \subseteq [kind: Kinds, tab: Tabs, updates: SUBSET Updates]
      /\ faults \in 0..MaxFaults
  BY TypesOf
<1>1. CASE Load(t)
  <2>1. tab' \in [Tabs -> Tab]
    <3> DEFINE r == [tab[t] EXCEPT !.pc = "seeding", !.base = rows, !.version = server.version]
    <3>1. tab[t] \in Tab /\ tab' = [tab EXCEPT ![t] = r]
      BY <1>a, <1>1 DEF Load
    <3>2. r \in Tab
      BY <1>a, <3>1 DEF Tab
    <3> HIDE DEF r
    <3> QED BY <1>a, <3>1, <3>2
  <2> QED BY <1>b, <1>1, <2>1, TypesOf DEF Load, TypesKept
<1>2. CASE SeedLost(t)
  <2>1. tab' \in [Tabs -> Tab]
    BY <1>a, <1>2 DEF SeedLost, Tab
  <2> QED BY <1>a, <1>b, <1>2, <2>1, FailTypes DEF SeedLost, TypesKept
<1>3. CASE SeedPost(t)
  <2>1. Seed(t) \in Updates
    BY DEF Seed, Updates, Seeds
  <2>2. server' \in [exists: BOOLEAN, stored: SUBSET Updates, version: Versions]
    BY <1>b, <1>3, <2>1 DEF SeedPost
  <2>3. tab' \in [Tabs -> Tab]
    BY <1>a, <1>3 DEF SeedPost, Tab
  <2> QED BY <1>a, <1>b, <1>3, <2>2, <2>3 DEF SeedPost, TypesKept
<1>4. CASE SeedRefused(t) \/ Reject(t) \/ CheckOutdated(t)
  <2>1. tab' \in [Tabs -> Tab]
    <3>1. CASE SeedRefused(t)
      BY <1>a, <3>1 DEF SeedRefused, Tab
    <3>2. CASE Reject(t)
      BY <1>a, <3>2 DEF Reject, Tab
    <3>3. CASE CheckOutdated(t)
      BY <1>a, <3>3 DEF CheckOutdated, Tab
    <3> QED BY <1>4, <3>1, <3>2, <3>3
  <2> QED BY <1>a, <1>b, <1>4, <2>1 DEF SeedRefused, Reject, CheckOutdated, TypesKept
<1>5. CASE Subscribe(t)
  <2>1. server' \in [exists: BOOLEAN, stored: SUBSET Updates, version: Versions]
    BY <1>b, <1>5, HandshakeTypes, RecordTypes DEF Subscribe, Accept
  <2>2. tab' \in [Tabs -> Tab]
    <3>1. tab' = [tab EXCEPT ![t].up = TRUE]
      BY <1>5 DEF Subscribe, Accept
    <3> QED BY <3>1, UpTypes
  <2>3. frames' \subseteq [kind: Kinds, tab: Tabs, updates: SUBSET Updates]
    BY <1>b, <1>5, HandshakeTypes DEF Subscribe, Accept
  <2> QED BY <1>a, <1>b, <1>5, <2>1, <2>2, <2>3 DEF Subscribe, Accept, TypesKept
<1> QED BY <1>1, <1>2, <1>3, <1>4, <1>5

LEMMA TypeEdit ==
    ASSUME TypeOK, NEW t \in Tabs, Edit(t) \/ Drop(t) \/ Resync(t)
    PROVE  TypesKept
<1>a. /\ tab \in [Tabs -> Tab] /\ rows \in SUBSET Content /\ server.version \in Versions
      /\ server.stored \in SUBSET Updates
  BY TypesOf
<1>b. /\ server \in [exists: BOOLEAN, stored: SUBSET Updates, version: Versions]
      /\ projecting \in [Projectors -> [on: BOOLEAN, doc: SUBSET Updates, late: BOOLEAN]]
      /\ behind \in BOOLEAN
      /\ frames \subseteq [kind: Kinds, tab: Tabs, updates: SUBSET Updates]
      /\ faults \in 0..MaxFaults
  BY TypesOf
<1>1. CASE Edit(t)
  <2> DEFINE u == <<t, tab[t].made + 1>>
  <2>1. tab[t].made + 1 \in 1..MaxEdits /\ tab[t].made + 1 \in 0..MaxEdits
    BY <1>1, MadeIsFinite DEF Edit
  <2>2. u \in Edits /\ u \in Updates
    BY <2>1 DEF Edits, Updates
  <2>3. /\ tab' = [tab EXCEPT ![t].made = @ + 1, ![t].doc = @ \cup {u}, ![t].unacked = @ \cup {u}]
        /\ frames' = IF tab[t].up THEN frames \cup {Frame("edit", t, {u})} ELSE frames
        /\ UNCHANGED <<server, rows, projecting, behind, faults>>
    BY <1>1 DEF Edit
  <2> HIDE DEF u
  <2>4. tab' \in [Tabs -> Tab]
    <3> DEFINE r == [tab[t] EXCEPT !.made = @ + 1, !.doc = @ \cup {u}, !.unacked = @ \cup {u}]
    <3>1. tab[t] \in Tab /\ tab' = [tab EXCEPT ![t] = r]
      BY <1>a, <2>3
    <3>2. r \in Tab
      BY <2>1, <2>2, <3>1 DEF Tab
    <3> HIDE DEF r
    <3> QED BY <1>a, <3>1, <3>2
  <2>5. Frame("edit", t, {u}) \in [kind: Kinds, tab: Tabs, updates: SUBSET Updates]
    BY <2>2, FrameTypes DEF Kinds
  <2> QED BY <1>a, <1>b, <2>3, <2>4, <2>5 DEF TypesKept
<1>2. CASE Drop(t)
  <2>1. frames' \subseteq frames /\ faults' \in 0..MaxFaults
    BY <1>2, FailTypes DEF Drop
  <2>2. tab' \in [Tabs -> Tab]
    <3>1. tab' = [tab EXCEPT ![t].up = FALSE]
      BY <1>2 DEF Drop
    <3> QED BY <3>1, UpTypes
  <2> QED BY <1>a, <1>b, <1>2, <2>1, <2>2 DEF Drop, TypesKept
<1>3. CASE Resync(t)
  BY <1>a, <1>b, <1>3, HandshakeTypes DEF Resync, TypesKept
<1> QED BY <1>1, <1>2, <1>3

LEMMA WriteTypes ==
    ASSUME TypeOK, NEW p \in Projectors, ProjectWrite(p)
    PROVE  /\ rows' \subseteq Content /\ behind' \in BOOLEAN
           /\ projecting' \in [Projectors -> [on: BOOLEAN, doc: SUBSET Updates, late: BOOLEAN]]
           /\ ~projecting'[p].on
           /\ \A q \in Projectors : q # p =>
                  /\ projecting'[q].on = projecting[q].on /\ projecting'[q].doc = projecting[q].doc
                  /\ projecting'[q].on => projecting'[q].late
<1>1. projecting \in [Projectors -> [on: BOOLEAN, doc: SUBSET Updates, late: BOOLEAN]]
  BY TypesOf
<1>2. rows' \subseteq Content /\ behind' \in BOOLEAN
  BY <1>1, ContentTypes DEF ProjectWrite, TypeOK
<1> DEFINE after(q) == IF q = p THEN Off ELSE [projecting[q] EXCEPT !.late = projecting[q].on]
<1>3. projecting' = [q \in Projectors |-> after(q)]
  BY DEF ProjectWrite
<1>4. Off \in [on: BOOLEAN, doc: SUBSET Updates, late: BOOLEAN] /\ ~Off.on
  BY DEF Off
<1>5. ASSUME NEW q \in Projectors
      PROVE  /\ after(q) \in [on: BOOLEAN, doc: SUBSET Updates, late: BOOLEAN]
             /\ q # p => /\ after(q).on = projecting[q].on /\ after(q).doc = projecting[q].doc
                         /\ after(q).on => after(q).late
  <2>1. projecting[q] \in [on: BOOLEAN, doc: SUBSET Updates, late: BOOLEAN]
    BY <1>1
  <2>2. /\ [projecting[q] EXCEPT !.late = projecting[q].on]
              \in [on: BOOLEAN, doc: SUBSET Updates, late: BOOLEAN]
        /\ [projecting[q] EXCEPT !.late = projecting[q].on].on = projecting[q].on
        /\ [projecting[q] EXCEPT !.late = projecting[q].on].doc = projecting[q].doc
        /\ [projecting[q] EXCEPT !.late = projecting[q].on].late = projecting[q].on
    BY <2>1
  <2> QED BY <1>4, <2>2
<1>6. after(p) = Off
  OBVIOUS
<1> HIDE DEF after
<1> QED BY <1>2, <1>3, <1>4, <1>5, <1>6

LEMMA TypeSave ==
    ASSUME TypeOK, NEW t \in Tabs,
           \/ Save(t) \/ WhenAcknowledged(t) \/ Flush(t) \/ FlushNothing(t)
           \/ Flushed(t) \/ GiveUp(t) \/ Leave(t)
    PROVE  TypesKept
<1>a. /\ tab \in [Tabs -> Tab] /\ rows \in SUBSET Content /\ server.version \in Versions
      /\ server.stored \in SUBSET Updates
  BY TypesOf
<1>b. /\ server \in [exists: BOOLEAN, stored: SUBSET Updates, version: Versions]
      /\ projecting \in [Projectors -> [on: BOOLEAN, doc: SUBSET Updates, late: BOOLEAN]]
      /\ behind \in BOOLEAN
      /\ frames \subseteq [kind: Kinds, tab: Tabs, updates: SUBSET Updates]
      /\ faults \in 0..MaxFaults
  BY TypesOf
<1>0. t \in Projectors
  BY DEF Projectors
<1>1. CASE Save(t) \/ WhenAcknowledged(t) \/ FlushNothing(t) \/ GiveUp(t)
  <2>1. tab' \in [Tabs -> Tab]
    <3>1. tab[t].made \in 0..MaxEdits /\ 0 \in 0..MaxEdits
      BY <1>a DEF Tab
    <3>2. CASE Save(t)
      BY <1>a, <3>1, <3>2 DEF Save, Tab
    <3>3. CASE GiveUp(t)
      <4> DEFINE r == [tab[t] EXCEPT !.save = "no", !.asked = 0]
      <4>1. r \in Tab
        BY <1>a, <3>1 DEF Tab
      <4>2. tab' = [tab EXCEPT ![t] = r]
        BY <1>a, <3>3 DEF GiveUp, Tab
      <4> HIDE DEF r
      <4> QED BY <1>a, <4>1, <4>2
    <3>4. CASE WhenAcknowledged(t) \/ FlushNothing(t)
      BY <1>a, <3>4 DEF WhenAcknowledged, FlushNothing, Tab
    <3> QED BY <1>1, <3>2, <3>3, <3>4
  <2> QED BY <1>a, <1>b, <1>1, <2>1 DEF Save, WhenAcknowledged, FlushNothing, GiveUp, TypesKept
<1>2. CASE Flush(t)
  <2>1. tab' \in [Tabs -> Tab]
    BY <1>a, <1>2 DEF Flush, Tab
  <2>2. projecting' \in [Projectors -> [on: BOOLEAN, doc: SUBSET Updates, late: BOOLEAN]]
    BY <1>a, <1>b, <1>2 DEF Flush, ProjectRead
  <2> QED BY <1>a, <1>b, <1>2, <2>1, <2>2 DEF Flush, TypesKept
<1>3. CASE Flushed(t)
  <2>1. tab' \in [Tabs -> Tab]
    BY <1>a, <1>3 DEF Flushed, Tab
  <2>2. ProjectWrite(t) /\ UNCHANGED <<server, frames, faults>>
    BY <1>3 DEF Flushed
  <2> QED BY <1>0, <1>b, <2>1, <2>2, WriteTypes DEF TypesKept
<1>4. CASE Leave(t)
  <2>1. tab' \in [Tabs -> Tab]
    <3> DEFINE r == [tab[t] EXCEPT !.pc = "left", !.up = FALSE]
    <3>1. tab[t] \in Tab /\ tab' = [tab EXCEPT ![t] = r]
      BY <1>a, <1>4 DEF Leave
    <3>2. r \in Tab
      BY <3>1 DEF Tab
    <3> HIDE DEF r
    <3> QED BY <1>a, <3>1, <3>2
  <2> QED BY <1>a, <1>b, <1>4, <2>1 DEF Leave, TypesKept
<1> QED BY <1>1, <1>2, <1>3, <1>4

LEMMA TypeFrame ==
    ASSUME TypeOK, NEW f \in frames,
           ReceiveEdit(f) \/ HearDiff(f) \/ HearAck(f) \/ HearRelay(f) \/ RecordFails(f)
    PROVE  TypesKept
<1>a. /\ tab \in [Tabs -> Tab] /\ rows \in SUBSET Content /\ server.version \in Versions
      /\ server.stored \in SUBSET Updates
  BY TypesOf
<1>b. /\ server \in [exists: BOOLEAN, stored: SUBSET Updates, version: Versions]
      /\ projecting \in [Projectors -> [on: BOOLEAN, doc: SUBSET Updates, late: BOOLEAN]]
      /\ behind \in BOOLEAN
      /\ frames \subseteq [kind: Kinds, tab: Tabs, updates: SUBSET Updates]
      /\ faults \in 0..MaxFaults
  BY TypesOf
<1>c. f.kind \in Kinds /\ f.tab \in Tabs /\ f.updates \in SUBSET Updates
  BY TypesOf
<1>1. CASE ReceiveEdit(f)
  <2>1. server' \in [exists: BOOLEAN, stored: SUBSET Updates, version: Versions]
    BY <1>c, <1>1, RecordTypes DEF ReceiveEdit
  <2>2. Relay(f.updates) \subseteq [kind: Kinds, tab: Tabs, updates: SUBSET Updates]
    BY <1>c, FrameTypes DEF Relay, Kinds
  <2>3. Frame("ack", f.tab, f.updates) \in [kind: Kinds, tab: Tabs, updates: SUBSET Updates]
    BY <1>c, FrameTypes DEF Kinds
  <2>4. frames' \subseteq [kind: Kinds, tab: Tabs, updates: SUBSET Updates]
    BY <1>b, <1>1, <2>2, <2>3 DEF ReceiveEdit
  <2> QED BY <1>a, <1>b, <1>1, <2>1, <2>4 DEF ReceiveEdit, TypesKept
<1>2. CASE HearDiff(f)
  <2>1. tab' \in [Tabs -> Tab]
    BY <1>a, <1>c, <1>2 DEF HearDiff, Tab
  <2> QED BY <1>a, <1>b, <1>2, <2>1 DEF HearDiff, TypesKept
<1>3. CASE HearAck(f)
  <2>1. tab' \in [Tabs -> Tab]
    BY <1>a, <1>c, <1>3 DEF HearAck, Tab
  <2> QED BY <1>a, <1>b, <1>3, <2>1 DEF HearAck, TypesKept
<1>4. CASE HearRelay(f)
  <2>1. tab' \in [Tabs -> Tab]
    BY <1>a, <1>c, <1>4 DEF HearRelay, Tab
  <2> QED BY <1>a, <1>b, <1>4, <2>1 DEF HearRelay, TypesKept
<1>5. CASE RecordFails(f)
  BY <1>a, <1>b, <1>5, FailTypes DEF RecordFails, TypesKept
<1> QED BY <1>1, <1>2, <1>3, <1>4, <1>5

LEMMA TypeServer ==
    ASSUME TypeOK, (\E j \in Jobs : JobReads(j) \/ JobWrites(j)) \/ Reset \/ Deploy
    PROVE  TypesKept
<1>a. /\ tab \in [Tabs -> Tab] /\ rows \in SUBSET Content /\ server.version \in Versions
      /\ server.stored \in SUBSET Updates
  BY TypesOf
<1>b. /\ server \in [exists: BOOLEAN, stored: SUBSET Updates, version: Versions]
      /\ projecting \in [Projectors -> [on: BOOLEAN, doc: SUBSET Updates, late: BOOLEAN]]
      /\ behind \in BOOLEAN
      /\ frames \subseteq [kind: Kinds, tab: Tabs, updates: SUBSET Updates]
      /\ faults \in 0..MaxFaults
  BY TypesOf
<1>0. \A j \in Jobs : j \in Projectors
  BY DEF Projectors
<1>1. ASSUME NEW j \in Jobs, JobReads(j) PROVE TypesKept
  <2>1. projecting' \in [Projectors -> [on: BOOLEAN, doc: SUBSET Updates, late: BOOLEAN]]
    BY <1>a, <1>b, <1>1 DEF JobReads, ProjectRead
  <2> QED BY <1>a, <1>b, <1>1, <2>1 DEF JobReads, TypesKept
<1>2. ASSUME NEW j \in Jobs, JobWrites(j) PROVE TypesKept
  <2>1. ProjectWrite(j) /\ UNCHANGED <<tab, server, frames, faults>>
    BY <1>2 DEF JobWrites
  <2> QED BY <1>a, <1>b, <1>0, <2>1, WriteTypes DEF TypesKept
<1>3. CASE Reset
  <2>1. server' \in [exists: BOOLEAN, stored: SUBSET Updates, version: Versions]
    BY <1>b, <1>3 DEF Reset, Destroyed
  <2> QED BY <1>a, <1>b, <1>3, <2>1, FailTypes DEF Reset, TypesKept
<1>4. CASE Deploy
  <2>1. rows' \subseteq Content
    BY <1>a, <1>4, ContentTypes DEF Deploy
  <2>2. server' \in [exists: BOOLEAN, stored: SUBSET Updates, version: Versions]
    <3>1. Destroyed \in [exists: BOOLEAN, stored: SUBSET Updates, version: Versions]
      BY <1>b DEF Destroyed
    <3>2. server' = [Destroyed EXCEPT !.version = 2] /\ 2 \in Versions
      BY <1>4 DEF Deploy, Versions
    <3> HIDE DEF Destroyed
    <3> QED BY <3>1, <3>2
  <2>3. tab' \in [Tabs -> Tab]
    <3> DEFINE r(t) == [tab[t] EXCEPT !.up = FALSE]
    <3>1. tab' = [t \in Tabs |-> r(t)]
      BY <1>4 DEF Deploy
    <3>2. ASSUME NEW t \in Tabs PROVE r(t) \in Tab
      <4>1. tab[t] \in Tab
        BY <1>a
      <4> QED BY <4>1 DEF Tab
    <3> HIDE DEF r
    <3> QED BY <3>1, <3>2
  <2> QED BY <1>b, <1>4, <2>1, <2>2, <2>3 DEF Deploy, TypesKept
<1> QED BY <1>1, <1>2, <1>3, <1>4

LEMMA TypesStay == TypeOK /\ Next => TypeOK'
<1> SUFFICES ASSUME TypeOK, Next PROVE TypeOK'
  OBVIOUS
<1>1. TypesKept
  BY NextCases, TypeJoin, TypeEdit, TypeSave, TypeFrame, TypeServer
<1> QED BY <1>1 DEF TypesKept, TypeOK, Tab

\* Every variable of CollabDoc keeps its type, whatever else may happen (Env).
THEOREM TypeCorrect == Spec => []TypeOK
<1>1. Init => TypeOK
  <2>1. 0 \in 0..MaxEdits /\ 0 \in 0..MaxFaults /\ 1 \in Versions /\ {Original} \subseteq Content
    BY BoundsAssumption DEF Versions, Content
  <2> SUFFICES ASSUME Init PROVE TypeOK
    OBVIOUS
  <2>2. tab \in [Tabs -> Tab]
    BY <2>1 DEF Init, Tab
  <2>3. projecting \in [Projectors -> [on: BOOLEAN, doc: SUBSET Updates, late: BOOLEAN]]
    BY DEF Init, Off
  <2>4. /\ server \in [exists: BOOLEAN, stored: SUBSET Updates, version: Versions]
        /\ rows \subseteq Content /\ behind \in BOOLEAN
        /\ frames \subseteq [kind: Kinds, tab: Tabs, updates: SUBSET Updates]
        /\ faults \in 0..MaxFaults
    BY <2>1 DEF Init
  <2> QED BY <2>2, <2>3, <2>4 DEF TypeOK, Tab
<1>2. TypeOK /\ [Next]_vars => TypeOK'
  <2>1. TypeOK /\ UNCHANGED vars => TypeOK'
    BY DEF vars, TypeOK
  <2> QED BY <2>1, TypesStay
<1> QED BY <1>1, <1>2, PTL DEF Spec

-----------------------------------------------------------------------------
(***************************************************************************)
(* What an action changes of its tab.                                      *)
(***************************************************************************)
Others(t) == \A r \in Tabs : r # t => tab'[r] = tab[r]

LEMMA LoadMoves ==
    ASSUME TypeOK, NEW t \in Tabs, Load(t)
    PROVE  /\ Others(t) /\ tab[t].pc = "closed" /\ tab'[t].pc = "seeding"
           /\ tab'[t].base = rows /\ tab'[t].version = server.version
           /\ UNCHANGED <<tab[t].doc, tab[t].made, tab[t].unacked, tab[t].up, tab[t].save, tab[t].asked>>
           /\ UNCHANGED <<server, rows, projecting, behind, frames, faults>>
<1>1. tab \in [Tabs -> Tab]
  BY TypesOf
<1> QED BY <1>1 DEF Load, Others, Tab

\* The steps of joining but the subscription: only the place changes.
JoinPlaces ==
    {<<"seeding", "joining">>, <<"seeding", "outdated">>, <<"joining", "refused">>,
     <<"open", "refused">>, <<"refused", "outdated">>}

LEMMA PlaceMoves ==
    ASSUME TypeOK, NEW t \in Tabs,
           SeedLost(t) \/ SeedPost(t) \/ SeedRefused(t) \/ Reject(t) \/ CheckOutdated(t)
    PROVE  /\ Others(t) /\ <<tab[t].pc, tab'[t].pc>> \in JoinPlaces
           /\ UNCHANGED <<tab[t].version, tab[t].base, tab[t].doc, tab[t].made, tab[t].unacked,
                          tab[t].up, tab[t].save, tab[t].asked>>
           /\ UNCHANGED <<rows, projecting, behind, frames>>
<1>1. tab \in [Tabs -> Tab]
  BY TypesOf
<1>2. CASE SeedLost(t) \/ SeedPost(t)
  BY <1>1, <1>2 DEF SeedLost, SeedPost, Others, Tab, JoinPlaces
<1>3. CASE SeedRefused(t) \/ Reject(t) \/ CheckOutdated(t)
  BY <1>1, <1>3 DEF SeedRefused, Reject, CheckOutdated, Others, Tab, JoinPlaces
<1> QED BY <1>2, <1>3

LEMMA SubscribeMoves ==
    ASSUME TypeOK, NEW t \in Tabs, Subscribe(t)
    PROVE  /\ Others(t) /\ tab'[t].up /\ tab[t].pc \in {"joining", "open"} /\ Compatible(t)
           /\ UNCHANGED <<tab[t].pc, tab[t].version, tab[t].base, tab[t].doc, tab[t].made,
                          tab[t].unacked, tab[t].save, tab[t].asked>>
           /\ UNCHANGED <<rows, projecting, behind, faults>>
<1>1. tab \in [Tabs -> Tab]
  BY TypesOf
<1> QED BY <1>1 DEF Subscribe, Accept, Others, Tab

LEMMA EditMoves ==
    ASSUME TypeOK, NEW t \in Tabs, Edit(t)
    PROVE  LET u == <<t, tab[t].made + 1>> IN
           /\ Others(t) /\ tab[t].pc = "open" /\ u \in Edits
           /\ tab'[t].made = tab[t].made + 1
           /\ tab'[t].doc = tab[t].doc \cup {u} /\ tab'[t].unacked = tab[t].unacked \cup {u}
           /\ UNCHANGED <<tab[t].pc, tab[t].version, tab[t].base, tab[t].up, tab[t].save, tab[t].asked>>
           /\ UNCHANGED <<server, rows, projecting, behind, faults>>
<1> DEFINE u == <<t, tab[t].made + 1>>
<1>1. tab \in [Tabs -> Tab]
  BY TypesOf
<1>2. u \in Edits
  BY MadeIsFinite DEF Edit, Edits
<1>3. /\ tab' = [tab EXCEPT ![t].made = @ + 1, ![t].doc = @ \cup {u}, ![t].unacked = @ \cup {u}]
      /\ tab[t].pc = "open"
      /\ UNCHANGED <<server, rows, projecting, behind, faults>>
  BY DEF Edit
<1> HIDE DEF u
<1>4. /\ Others(t) /\ tab'[t].made = tab[t].made + 1
      /\ tab'[t].doc = tab[t].doc \cup {u} /\ tab'[t].unacked = tab[t].unacked \cup {u}
      /\ UNCHANGED <<tab[t].pc, tab[t].version, tab[t].base, tab[t].up, tab[t].save, tab[t].asked>>
  BY <1>1, <1>3 DEF Others, Tab
<1> QED BY <1>2, <1>3, <1>4 DEF u

LEMMA DropMoves ==
    ASSUME TypeOK, NEW t \in Tabs, Drop(t) \/ Leave(t)
    PROVE  /\ Others(t) /\ ~tab'[t].up
           /\ Drop(t) => tab'[t].pc = tab[t].pc
           /\ Leave(t) => tab[t].save = "saved" /\ tab'[t].pc = "left"
           /\ UNCHANGED <<tab[t].version, tab[t].base, tab[t].doc, tab[t].made, tab[t].unacked,
                          tab[t].save, tab[t].asked>>
           /\ frames' = {f \in frames : f.tab # t} /\ UNCHANGED <<server, rows, projecting, behind>>
<1>1. tab \in [Tabs -> Tab]
  BY TypesOf
<1>2. ASSUME Drop(t)
      PROVE  Others(t) /\ ~tab'[t].up /\ tab'[t].pc = tab[t].pc /\ tab'[t].save = tab[t].save
  BY <1>1, <1>2 DEF Drop, Others, Tab
<1>3. ASSUME Leave(t)
      PROVE  /\ Others(t) /\ ~tab'[t].up /\ tab'[t].pc = "left"
             /\ tab[t].save = "saved" /\ tab'[t].save = tab[t].save
  BY <1>1, <1>3 DEF Leave, Others, Tab
<1>4. UNCHANGED <<tab[t].version, tab[t].base, tab[t].doc, tab[t].made, tab[t].unacked, tab[t].asked>>
  <2>1. CASE Drop(t)
    BY <1>1, <2>1 DEF Drop, Tab
  <2>2. CASE Leave(t)
    BY <1>1, <2>2 DEF Leave, Tab
  <2> QED BY <2>1, <2>2
<1>5. frames' = {f \in frames : f.tab # t} /\ UNCHANGED <<server, rows, projecting, behind>>
  BY DEF Drop, Leave
<1> QED BY <1>2, <1>3, <1>4, <1>5

LEMMA SaveMoves ==
    ASSUME TypeOK, NEW t \in Tabs,
           \/ Save(t) \/ WhenAcknowledged(t) \/ Flush(t) \/ FlushNothing(t)
           \/ Flushed(t) \/ GiveUp(t)
    PROVE  /\ Others(t)
           /\ UNCHANGED <<tab[t].pc, tab[t].version, tab[t].base, tab[t].doc, tab[t].made,
                          tab[t].unacked, tab[t].up>>
           /\ UNCHANGED <<server, frames, faults>>
           /\ Save(t) => /\ tab[t].pc = "open" /\ tab'[t].save = "acknowledging"
                         /\ tab[t].save \in {"no", "saved"} /\ tab'[t].asked = tab[t].made
           /\ WhenAcknowledged(t) => tab[t].save = "acknowledging" /\ tab'[t].save = "posting"
           /\ Flush(t) => tab[t].save = "posting" /\ tab'[t].save = "flushing"
           /\ FlushNothing(t) => tab[t].save = "posting" /\ tab'[t].save = "saved"
           /\ Flushed(t) => tab[t].save = "flushing" /\ tab'[t].save = "saved"
           /\ GiveUp(t) => tab[t].save = "acknowledging" /\ tab'[t].save = "no" /\ tab'[t].asked = 0
           /\ ~Save(t) /\ ~GiveUp(t) => tab'[t].asked = tab[t].asked
<1>1. tab \in [Tabs -> Tab]
  BY TypesOf
<1>2. CASE Save(t)
  BY <1>1, <1>2 DEF Save, WhenAcknowledged, Flush, FlushNothing, Flushed, GiveUp, Others, Tab
<1>3. CASE WhenAcknowledged(t)
  BY <1>1, <1>3 DEF Save, WhenAcknowledged, Flush, FlushNothing, Flushed, GiveUp, Others, Tab
<1>4. CASE Flush(t)
  BY <1>1, <1>4 DEF Save, WhenAcknowledged, Flush, FlushNothing, Flushed, GiveUp, Others, Tab
<1>5. CASE FlushNothing(t)
  BY <1>1, <1>5 DEF Save, WhenAcknowledged, Flush, FlushNothing, Flushed, GiveUp, Others, Tab
<1>6. CASE Flushed(t)
  BY <1>1, <1>6 DEF Save, WhenAcknowledged, Flush, FlushNothing, Flushed, GiveUp, Others, Tab
<1>7. CASE GiveUp(t)
  BY <1>1, <1>7 DEF Save, WhenAcknowledged, Flush, FlushNothing, Flushed, GiveUp, Others, Tab
<1> QED BY <1>2, <1>3, <1>4, <1>5, <1>6, <1>7

LEMMA HearMoves ==
    ASSUME TypeOK, NEW f \in frames, HearDiff(f) \/ HearRelay(f) \/ HearAck(f)
    PROVE  LET t == f.tab IN
           /\ t \in Tabs /\ Others(t) /\ frames' = frames \ {f}
           /\ UNCHANGED <<tab[t].version, tab[t].base, tab[t].made, tab[t].up, tab[t].save, tab[t].asked>>
           /\ UNCHANGED <<server, rows, projecting, behind, faults>>
           /\ HearAck(f) => /\ f.kind = "ack" /\ tab'[t].unacked = tab[t].unacked \ f.updates
                            /\ UNCHANGED <<tab[t].pc, tab[t].doc>>
           /\ ~HearAck(f) => tab'[t].doc = tab[t].doc \cup f.updates /\ UNCHANGED tab[t].unacked
           /\ HearRelay(f) => f.kind = "relay" /\ UNCHANGED tab[t].pc
           /\ HearDiff(f) => /\ f.kind = "diff"
                             /\ tab'[t].pc = IF tab[t].pc = "joining" THEN "open" ELSE tab[t].pc
<1>1. tab \in [Tabs -> Tab] /\ f.tab \in Tabs
  BY TypesOf
<1> DEFINE t == f.tab
<1>2. f.kind = "diff" <=> HearDiff(f)
  BY DEF HearDiff, HearRelay, HearAck
<1>3. f.kind = "relay" <=> HearRelay(f)
  BY DEF HearDiff, HearRelay, HearAck
<1>4. f.kind = "ack" <=> HearAck(f)
  BY DEF HearDiff, HearRelay, HearAck
<1>5. CASE f.kind = "diff"
  <2>1. HearDiff(f) /\ ~HearRelay(f) /\ ~HearAck(f)
    BY <1>2, <1>3, <1>4, <1>5
  <2>2. /\ tab' = [tab EXCEPT ![t].doc = @ \cup f.updates,
                              ![t].pc = IF @ = "joining" THEN "open" ELSE @]
        /\ frames' = frames \ {f} /\ UNCHANGED <<server, rows, projecting, behind, faults>>
    BY <2>1 DEF HearDiff
  <2> HIDE DEF t
  <2>3. t \in Tabs
    BY <1>1 DEF t
  <2>4. /\ Others(t) /\ UNCHANGED <<tab[t].version, tab[t].base, tab[t].made, tab[t].up, tab[t].save, tab[t].asked>>
        /\ tab'[t].doc = tab[t].doc \cup f.updates /\ UNCHANGED tab[t].unacked
        /\ tab'[t].pc = IF tab[t].pc = "joining" THEN "open" ELSE tab[t].pc
    BY <1>1, <2>2, <2>3 DEF Others, Tab
  <2> QED BY <1>5, <2>1, <2>2, <2>3, <2>4 DEF t
<1>6. CASE f.kind = "relay"
  <2>1. HearRelay(f) /\ ~HearDiff(f) /\ ~HearAck(f)
    BY <1>2, <1>3, <1>4, <1>6
  <2> QED BY <1>1, <1>6, <2>1 DEF HearRelay, Others, Tab
<1>7. CASE f.kind = "ack"
  <2>1. HearAck(f) /\ ~HearDiff(f) /\ ~HearRelay(f)
    BY <1>2, <1>3, <1>4, <1>7
  <2> QED BY <1>1, <1>7, <2>1 DEF HearAck, Others, Tab
<1> QED BY <1>2, <1>3, <1>4, <1>5, <1>6, <1>7

-----------------------------------------------------------------------------
(***************************************************************************)
(* One layout at a time, whatever else may happen: what is in the document *)
(* and on the wire was said by tabs of the layout that is deployed.        *)
(***************************************************************************)
Current(t) == tab[t].pc \in {"joining", "open"} /\ Compatible(t)

\* An update of a tab that was loaded with the layout that is deployed.
Spoken(u) == tab[u[1]].pc # "closed" /\ tab[u[1]].version = server.version

TabsAreSound == \A t \in Tabs :
    /\ tab[t].version <= server.version
    /\ tab[t].up => Current(t)
    /\ tab[t].pc \in {"closed", "seeding"} => tab[t].made = 0 /\ tab[t].doc = {} /\ tab[t].save = "no"
    /\ tab[t].unacked \subseteq Made(t)
    /\ Current(t) => \A u \in tab[t].doc : Spoken(u)

FramesAreSound == \A f \in frames :
    /\ tab[f.tab].up
    /\ f.kind # "diff" => f.updates \subseteq Edits
    /\ \A u \in f.updates : Spoken(u)

LInv == TabsAreSound /\ FramesAreSound /\ \A u \in server.stored : Spoken(u)

LEMMA MadeIs ==
    \A t : /\ tab[t].made = 0 => Made(t) = {}
           /\ \A u \in Made(t) : u[1] = t
<1>1. \A t : Made(t) = {t} \X (1..tab[t].made)
  BY DEF Made
<1>2. 1..0 = {}
  OBVIOUS
<1> QED BY <1>1, <1>2

\* A tab moves: what it says afterwards, and what is sent and stored, is what
\* was, or its own, or something of the layout.
Said(t, u) == Spoken(u) \/ (u[1] = t /\ Current(t)')

LEMMA LayoutStep ==
    ASSUME TypeOK, TypeOK', LInv, NEW t \in Tabs, Others(t), server'.version = server.version,
           tab'[t].pc # "closed",
           tab[t].pc = "closed" \/ tab'[t].version = tab[t].version,
           tab'[t].version <= server.version,
           tab'[t].up => Current(t)',
           tab'[t].pc = "seeding" => tab'[t].made = 0 /\ tab'[t].doc = {} /\ tab'[t].save = "no",
           tab'[t].unacked \subseteq Made(t)',
           Current(t)' => \A u \in tab'[t].doc : Said(t, u),
           \A f \in frames' : \/ f \in frames /\ (f.tab = t => tab'[t].up)
                              \/ /\ tab'[f.tab].up
                                 /\ f.kind # "diff" => f.updates \subseteq Edits
                                 /\ \A u \in f.updates : Said(t, u),
           \A u \in server'.stored : Said(t, u)
    PROVE  LInv'
<1>1. \A u \in Updates : u[1] \in Tabs
  BY DEF Updates, Seeds, Edits
<1>2. ASSUME NEW r \in Tabs, r # t
      PROVE  tab'[r] = tab[r] /\ Current(r)' = Current(r) /\ Made(r)' = Made(r)
  BY <1>2 DEF Others, Current, Compatible, Made
<1>3. ASSUME NEW u \in Updates, Said(t, u) PROVE Spoken(u)'
  <2>1. CASE u[1] = t
    BY <1>3, <2>1 DEF Said, Spoken, Current, Compatible
  <2>2. CASE u[1] # t
    BY <1>1, <1>2, <1>3, <2>2 DEF Said, Spoken
  <2> QED BY <2>1, <2>2
<1>4. /\ \A r \in Tabs : tab'[r].doc \subseteq Updates
      /\ server'.stored \subseteq Updates
      /\ \A f \in frames' : f.tab \in Tabs /\ f.updates \subseteq Updates
  BY DEF TypeOK
<1>5. TabsAreSound'
  <2> SUFFICES ASSUME NEW r \in Tabs
               PROVE  (/\ tab[r].version <= server.version
                       /\ tab[r].up => Current(r)
                       /\ tab[r].pc \in {"closed", "seeding"} => tab[r].made = 0 /\ tab[r].doc = {} /\ tab[r].save = "no"
                       /\ tab[r].unacked \subseteq Made(r)
                       /\ Current(r) => \A u \in tab[r].doc : Spoken(u))'
    BY DEF TabsAreSound
  <2>1. CASE r = t
    BY <1>3, <1>4, <2>1
  <2>2. CASE r # t
    <3>1. /\ tab[r].version <= server.version
          /\ tab[r].up => Current(r)
          /\ tab[r].pc \in {"closed", "seeding"} => tab[r].made = 0 /\ tab[r].doc = {} /\ tab[r].save = "no"
          /\ tab[r].unacked \subseteq Made(r)
          /\ Current(r) => \A u \in tab[r].doc : Spoken(u)
      BY DEF LInv, TabsAreSound
    <3> QED BY <1>2, <1>3, <1>4, <2>2, <3>1 DEF Said
  <2> QED BY <2>1, <2>2
<1>6. FramesAreSound'
  <2> SUFFICES ASSUME NEW f \in frames'
               PROVE  /\ tab'[f.tab].up
                      /\ f.kind # "diff" => f.updates \subseteq Edits
                      /\ \A u \in f.updates : Spoken(u)'
    BY DEF FramesAreSound
  <2>1. CASE f \in frames /\ (f.tab = t => tab'[t].up)
    <3>1. /\ tab[f.tab].up
          /\ f.kind # "diff" => f.updates \subseteq Edits
          /\ \A u \in f.updates : Spoken(u)
      BY <2>1 DEF LInv, FramesAreSound
    <3> QED BY <1>2, <1>3, <1>4, <2>1, <3>1 DEF Said
  <2>2. CASE /\ tab'[f.tab].up
             /\ f.kind # "diff" => f.updates \subseteq Edits
             /\ \A u \in f.updates : Said(t, u)
    BY <1>3, <1>4, <2>2
  <2> QED BY <2>1, <2>2
<1>7. \A u \in server'.stored : Spoken(u)'
  BY <1>3, <1>4
<1> QED BY <1>5, <1>6, <1>7 DEF LInv

\* Nothing is said, and less may be stored.
LEMMA LayoutStays ==
    ASSUME TypeOK, LInv, tab' = tab, server'.version = server.version,
           server'.stored \subseteq server.stored, frames' \subseteq frames
    PROVE  LInv'
<1>1. /\ \A u : Spoken(u)' = Spoken(u)
      /\ \A t \in Tabs : Current(t)' = Current(t) /\ Made(t)' = Made(t)
  BY DEF Spoken, Current, Compatible, Made
<1>2. TabsAreSound'
  BY <1>1 DEF LInv, TabsAreSound
<1>3. FramesAreSound'
  BY <1>1 DEF LInv, FramesAreSound
<1> QED BY <1>1, <1>2, <1>3 DEF LInv

LEMMA LayoutKept ==
    ASSUME TypeOK, LInv, Next
    PROVE  LInv'
<1>1. TypeOK'
  BY TypesStay
<1>2. \A t \in Tabs : /\ tab[t].version <= server.version
                      /\ tab[t].up => Current(t)
                      /\ tab[t].pc \in {"closed", "seeding"} => tab[t].made = 0 /\ tab[t].doc = {} /\ tab[t].save = "no"
                      /\ tab[t].unacked \subseteq Made(t)
                      /\ Current(t) => \A u \in tab[t].doc : Spoken(u)
  BY DEF LInv, TabsAreSound
<1>3. \A f \in frames : /\ f.tab \in Tabs /\ tab[f.tab].up
                        /\ f.kind # "diff" => f.updates \subseteq Edits
                        /\ \A u \in f.updates : Spoken(u)
  BY TypesOf DEF LInv, FramesAreSound
<1>4. \A u \in server.stored : Spoken(u)
  BY DEF LInv
<1>5. /\ \A t \in Tabs : tab[t].version \in {1, 2} /\ tab[t].unacked \subseteq Edits
      /\ server.version \in {1, 2}
  BY TypesOf DEF Tab, Versions
<1>6. \A t \in Tabs : \A u : Spoken(u) => Said(t, u)
  BY DEF Said
<1>7. ASSUME NEW t \in Tabs, Load(t) PROVE LInv'
  <2>1. /\ Others(t) /\ tab[t].pc = "closed" /\ tab'[t].pc = "seeding"
        /\ tab'[t].base = rows /\ tab'[t].version = server.version
        /\ UNCHANGED <<tab[t].doc, tab[t].made, tab[t].unacked, tab[t].up, tab[t].save, tab[t].asked>>
        /\ UNCHANGED <<server, rows, projecting, behind, frames, faults>>
    BY <1>7, LoadMoves
  <2>2. ~tab'[t].up /\ ~Current(t)'
    BY <1>2, <2>1 DEF Current
  <2>3. tab'[t].unacked \subseteq Made(t)'
    BY <1>2, <2>1 DEF Made
  <2>4. \A f \in frames' : f \in frames /\ (f.tab = t => tab'[t].up)
    BY <1>3, <2>1
  <2> QED BY <1>1, <1>2, <1>4, <1>5, <1>6, <2>1, <2>2, <2>3, <2>4, LayoutStep
<1>8. ASSUME NEW t \in Tabs,
             SeedLost(t) \/ SeedPost(t) \/ SeedRefused(t) \/ Reject(t) \/ CheckOutdated(t)
      PROVE  LInv'
  <2>1. /\ Others(t) /\ <<tab[t].pc, tab'[t].pc>> \in JoinPlaces
        /\ UNCHANGED <<tab[t].version, tab[t].base, tab[t].doc, tab[t].made, tab[t].unacked,
                       tab[t].up, tab[t].save, tab[t].asked>>
        /\ UNCHANGED <<rows, projecting, behind, frames>>
    BY <1>8, PlaceMoves
  <2>2. /\ server'.version = server.version /\ tab'[t].pc \notin {"closed", "seeding"}
        /\ tab'[t].pc = "joining" => tab[t].pc = "seeding"
    BY <1>8, <2>1, TypesOf DEF SeedLost, SeedPost, SeedRefused, Reject, CheckOutdated, JoinPlaces
  <2>3. ~tab[t].up
    <3>1. CASE SeedLost(t) \/ SeedPost(t) \/ SeedRefused(t) \/ CheckOutdated(t)
      <4>1. tab[t].pc \in {"seeding", "refused"}
        BY <3>1 DEF SeedLost, SeedPost, SeedRefused, CheckOutdated
      <4> QED BY <1>2, <4>1 DEF Current
    <3>2. CASE Reject(t)
      BY <3>2 DEF Reject
    <3> QED BY <1>8, <3>1, <3>2
  <2>4. tab'[t].unacked \subseteq Made(t)'
    BY <1>2, <2>1 DEF Made
  <2>5. Current(t)' => tab'[t].doc = {}
    <3>1. Current(t)' => tab[t].pc = "seeding"
      BY <2>1, <2>2 DEF Current, JoinPlaces
    <3> QED BY <1>2, <2>1, <3>1
  <2>6. \A f \in frames' : f \in frames /\ (f.tab = t => tab'[t].up)
    BY <1>3, <2>1
  <2>7. \A u \in server'.stored : Said(t, u)
    <3>1. CASE SeedPost(t)
      <4>1. Compatible(t)' /\ tab'[t].pc = "joining"
        BY <2>1, <2>2, <3>1 DEF SeedPost, Compatible, JoinPlaces
      <4>2. Said(t, Seed(t))
        BY <4>1 DEF Said, Seed, Current
      <4>3. \A u \in server'.stored : u = Seed(t) \/ u \in server.stored
        BY <3>1, TypesOf DEF SeedPost
      <4> QED BY <1>4, <1>6, <4>2, <4>3
    <3>2. CASE ~SeedPost(t)
      BY <1>4, <1>6, <1>8, <3>2 DEF SeedLost, SeedRefused, Reject, CheckOutdated
    <3> QED BY <3>1, <3>2
  <2> QED BY <1>1, <1>2, <1>5, <2>1, <2>2, <2>3, <2>4, <2>5, <2>6, <2>7, LayoutStep
<1>9. ASSUME NEW t \in Tabs
      PROVE  \A f \in Handshake(t) : /\ f.tab = t
                                     /\ f.kind # "diff" => f.updates \subseteq Edits
                                     /\ \A u \in f.updates : Spoken(u) \/ u[1] = t
  <2>1. \A u \in tab[t].unacked : u \in Edits /\ u[1] = t
    BY <1>2, <1>5, MadeIs
  <2> QED BY <1>4, <2>1 DEF Handshake, Frame
<1>10. ASSUME NEW t \in Tabs, Subscribe(t) PROVE LInv'
  <2>1. /\ Others(t) /\ tab'[t].up /\ tab[t].pc \in {"joining", "open"} /\ Compatible(t)
        /\ UNCHANGED <<tab[t].pc, tab[t].version, tab[t].base, tab[t].doc, tab[t].made,
                       tab[t].unacked, tab[t].save, tab[t].asked>>
    BY <1>10, SubscribeMoves
  <2>2. frames' = frames \cup Handshake(t)
    BY <1>10 DEF Subscribe, Accept
  <2>3. server'.version = server.version /\ server'.stored \subseteq server.stored \cup Missing(t)
    BY <1>10, HandshakeTypes, RecordTypes DEF Subscribe, Accept
  <2>4. Current(t) /\ Current(t)'
    BY <2>1, <2>3 DEF Current, Compatible
  <2>5. \A u \in Missing(t) : Spoken(u)
    BY <1>2, <2>4 DEF Missing
  <2>6. \A u \in server'.stored : Said(t, u)
    BY <1>4, <1>6, <2>3, <2>5
  <2>7. tab'[t].unacked \subseteq Made(t)'
    BY <1>2, <2>1 DEF Made
  <2>8. \A f \in frames' : \/ f \in frames /\ (f.tab = t => tab'[t].up)
                           \/ /\ tab'[f.tab].up
                              /\ f.kind # "diff" => f.updates \subseteq Edits
                              /\ \A u \in f.updates : Said(t, u)
    BY <1>9, <2>1, <2>2, <2>4 DEF Said
  <2>9. \A u \in tab'[t].doc : Said(t, u)
    BY <1>2, <1>6, <2>1, <2>4
  <2> QED BY <1>1, <1>2, <1>5, <2>1, <2>3, <2>4, <2>6, <2>7, <2>8, <2>9, LayoutStep
<1>11. ASSUME NEW t \in Tabs, Edit(t) PROVE LInv'
  <2> DEFINE u == <<t, tab[t].made + 1>>
  <2>1. /\ Others(t) /\ tab[t].pc = "open" /\ u \in Edits
        /\ tab'[t].made = tab[t].made + 1
        /\ tab'[t].doc = tab[t].doc \cup {u} /\ tab'[t].unacked = tab[t].unacked \cup {u}
        /\ UNCHANGED <<tab[t].pc, tab[t].version, tab[t].base, tab[t].up, tab[t].save, tab[t].asked>>
        /\ UNCHANGED <<server, rows, projecting, behind, faults>>
    BY <1>11, EditMoves
  <2>2. frames' = IF tab[t].up THEN frames \cup {Frame("edit", t, {u})} ELSE frames
    BY <1>11 DEF Edit
  <2>3. Current(t)' = Current(t)
    BY <2>1 DEF Current, Compatible
  <2>4. tab[t].made \in Nat
    BY TypesOf DEF Tab
  <2>5. u \in Made(t)' /\ Made(t) \subseteq Made(t)'
    BY <2>1, <2>4 DEF Made
  <2>6. u[1] = t
    OBVIOUS
  <2> HIDE DEF u
  <2>7. tab'[t].unacked \subseteq Made(t)'
    BY <1>2, <2>1, <2>5
  <2>8. \A f \in frames' : \/ f \in frames /\ (f.tab = t => tab'[t].up)
                           \/ /\ tab'[f.tab].up
                              /\ f.kind # "diff" => f.updates \subseteq Edits
                              /\ \A v \in f.updates : Said(t, v)
    <3>1. CASE tab[t].up
      <4>1. tab'[t].up /\ Current(t)'
        BY <1>2, <2>1, <2>3, <3>1
      <4>2. Said(t, u)
        BY <2>6, <4>1 DEF Said
      <4>3. \A f \in frames' : f \in frames \/ f = Frame("edit", t, {u})
        BY <2>2, <3>1
      <4>4. Frame("edit", t, {u}).tab = t /\ Frame("edit", t, {u}).updates = {u}
        BY DEF Frame
      <4> QED BY <2>1, <4>1, <4>2, <4>3, <4>4
    <3>2. CASE ~tab[t].up
      BY <1>3, <2>2, <3>2
    <3> QED BY <3>1, <3>2
  <2>9. Current(t)' => \A v \in tab'[t].doc : Said(t, v)
    BY <1>2, <1>6, <2>1, <2>3, <2>6 DEF Said
  <2> QED BY <1>1, <1>2, <1>4, <1>5, <1>6, <2>1, <2>3, <2>7, <2>8, <2>9, LayoutStep
<1>12. ASSUME NEW t \in Tabs, Drop(t) \/ Leave(t) PROVE LInv'
  <2>1. /\ Others(t) /\ ~tab'[t].up
        /\ Drop(t) => tab'[t].pc = tab[t].pc
        /\ Leave(t) => tab'[t].pc = "left"
        /\ UNCHANGED <<tab[t].version, tab[t].base, tab[t].doc, tab[t].made, tab[t].unacked,
                       tab[t].save, tab[t].asked>>
        /\ frames' = {f \in frames : f.tab # t} /\ UNCHANGED <<server, rows, projecting, behind>>
    BY <1>12, DropMoves
  <2>2. Drop(t) => tab[t].up
    BY DEF Drop
  <2>3. tab'[t].pc \notin {"closed", "seeding"} /\ (Current(t)' => Current(t))
    BY <1>2, <1>12, <2>1, <2>2 DEF Current, Compatible
  <2>4. tab'[t].unacked \subseteq Made(t)'
    BY <1>2, <2>1 DEF Made
  <2>5. Current(t)' => \A u \in tab'[t].doc : Said(t, u)
    BY <1>2, <1>6, <2>1, <2>3
  <2>6. \A f \in frames' : f \in frames /\ (f.tab = t => tab'[t].up)
    BY <2>1
  <2> QED BY <1>1, <1>2, <1>4, <1>5, <1>6, <2>1, <2>3, <2>4, <2>5, <2>6, LayoutStep
<1>13. ASSUME NEW t \in Tabs,
              \/ Save(t) \/ WhenAcknowledged(t) \/ Flush(t) \/ FlushNothing(t)
              \/ Flushed(t) \/ GiveUp(t)
       PROVE  LInv'
  <2>1. /\ Others(t)
        /\ UNCHANGED <<tab[t].pc, tab[t].version, tab[t].base, tab[t].doc, tab[t].made,
                       tab[t].unacked, tab[t].up>>
        /\ UNCHANGED <<server, frames, faults>>
    BY <1>13, SaveMoves
  <2>0. tab[t].pc \notin {"closed", "seeding"}
    <3>1. tab[t].save # "no" \/ tab[t].pc = "open"
      BY <1>13 DEF Save, WhenAcknowledged, Flush, FlushNothing, Flushed, GiveUp
    <3> QED BY <1>2, <3>1
  <2>2. Current(t)' = Current(t) /\ Made(t)' = Made(t)
    BY <2>1 DEF Current, Compatible, Made
  <2>3. \A f \in frames' : f \in frames /\ (f.tab = t => tab'[t].up)
    BY <1>3, <2>1
  <2> QED BY <1>1, <1>2, <1>4, <1>5, <1>6, <2>0, <2>1, <2>2, <2>3, LayoutStep
<1>14. ASSUME NEW f \in frames, HearDiff(f) \/ HearRelay(f) \/ HearAck(f) PROVE LInv'
  <2> DEFINE t == f.tab
  <2>1. /\ t \in Tabs /\ Others(t) /\ frames' = frames \ {f}
        /\ UNCHANGED <<tab[t].version, tab[t].base, tab[t].made, tab[t].up, tab[t].save, tab[t].asked>>
        /\ UNCHANGED <<server, rows, projecting, behind, faults>>
        /\ tab'[t].unacked \subseteq tab[t].unacked
        /\ tab'[t].doc \subseteq tab[t].doc \cup f.updates
        /\ tab'[t].pc = IF HearDiff(f) /\ tab[t].pc = "joining" THEN "open" ELSE tab[t].pc
    <3>1. HearDiff(f) => ~HearAck(f) /\ ~HearRelay(f)
      BY DEF HearDiff, HearRelay, HearAck
    <3> QED BY <1>14, <3>1, HearMoves
  <2>2. tab[t].up /\ Current(t)
    BY <1>2, <1>3, <2>1
  <2> HIDE DEF t
  <2>3. Current(t)' /\ tab'[t].pc \in {"joining", "open"}
    BY <2>1, <2>2 DEF Current, Compatible
  <2>4. tab'[t].unacked \subseteq Made(t)'
    BY <1>2, <2>1 DEF Made
  <2>5. \A u \in tab'[t].doc : Said(t, u)
    BY <1>2, <1>3, <1>6, <2>1, <2>2
  <2>6. \A g \in frames' : g \in frames /\ (g.tab = t => tab'[t].up)
    BY <2>1, <2>2
  <2> QED BY <1>1, <1>2, <1>4, <1>5, <1>6, <2>1, <2>3, <2>4, <2>5, <2>6, LayoutStep
<1>15. ASSUME NEW f \in frames, ReceiveEdit(f) PROVE LInv'
  <2> DEFINE t == f.tab
  <2>1. /\ t \in Tabs /\ f.updates \in SUBSET Updates /\ tab' = tab /\ f.kind = "edit"
        /\ frames' \subseteq frames \cup {Frame("ack", t, f.updates)} \cup Relay(f.updates)
    BY <1>3, <1>15, TypesOf DEF ReceiveEdit
  <2>2. server'.version = server.version /\ server'.stored = server.stored \cup f.updates
    BY <1>15, <2>1, RecordTypes DEF ReceiveEdit
  <2>3. tab[t].up /\ Current(t) /\ f.updates \subseteq Edits /\ \A u \in f.updates : Spoken(u)
    BY <1>2, <1>3, <2>1
  <2>4. \A g \in {Frame("ack", t, f.updates)} \cup Relay(f.updates) :
            tab[g.tab].up /\ g.updates = f.updates
    BY <2>3 DEF Relay, Frame
  <2> HIDE DEF t
  <2>5. /\ Current(t)' /\ tab'[t].pc \notin {"closed", "seeding"} /\ Others(t)
        /\ tab'[t].unacked \subseteq Made(t)'
    BY <1>2, <2>1, <2>2, <2>3 DEF Current, Compatible, Others, Made
  <2>6. \A g \in frames' : \/ g \in frames /\ (g.tab = t => tab'[t].up)
                           \/ /\ tab'[g.tab].up
                              /\ g.kind # "diff" => g.updates \subseteq Edits
                              /\ \A u \in g.updates : Said(t, u)
    BY <1>6, <2>1, <2>3, <2>4
  <2>7. (\A u \in tab'[t].doc : Said(t, u)) /\ \A u \in server'.stored : Said(t, u)
    BY <1>2, <1>4, <1>6, <2>1, <2>2, <2>3
  <2> QED BY <1>1, <1>2, <1>5, <2>1, <2>2, <2>3, <2>5, <2>6, <2>7, LayoutStep
<1>16. ASSUME NEW t \in Tabs, Resync(t) PROVE LInv'
  <2>1. /\ tab' = tab /\ server' = server /\ frames' = frames \cup Handshake(t)
        /\ tab[t].pc = "open" /\ tab[t].up
    BY <1>16 DEF Resync
  <2>2. Current(t) /\ Current(t)' /\ Others(t) /\ Made(t)' = Made(t)
    BY <1>2, <2>1 DEF Current, Compatible, Others, Made
  <2>3. \A f \in frames' : \/ f \in frames /\ (f.tab = t => tab'[t].up)
                           \/ /\ tab'[f.tab].up
                              /\ f.kind # "diff" => f.updates \subseteq Edits
                              /\ \A u \in f.updates : Said(t, u)
    BY <1>9, <2>1, <2>2 DEF Said
  <2> QED BY <1>1, <1>2, <1>4, <1>5, <1>6, <2>1, <2>2, <2>3, LayoutStep
<1>17. CASE \/ \E f \in frames : RecordFails(f)
            \/ \E j \in Jobs : JobReads(j) \/ JobWrites(j)
            \/ Reset
  <2>1. /\ tab' = tab /\ frames' \subseteq frames
        /\ server'.version = server.version /\ server'.stored \subseteq server.stored
    <3>1. CASE Reset
      BY <3>1, TypesOf DEF Reset, Destroyed
    <3>2. CASE ~Reset
      BY <1>17, <3>2 DEF RecordFails, JobReads, JobWrites
    <3> QED BY <3>1, <3>2
  <2> QED BY <2>1, LayoutStays
<1>18. CASE Deploy
  <2>1. /\ tab' = [t \in Tabs |-> [tab[t] EXCEPT !.up = FALSE]] /\ frames' = {}
        /\ server.version = 1 /\ server'.version = 2 /\ server'.stored = {}
    BY <1>18, TypesOf DEF Deploy, Destroyed
  <2>2. ASSUME NEW t \in Tabs
        PROVE  /\ ~tab'[t].up
               /\ UNCHANGED <<tab[t].pc, tab[t].version, tab[t].base, tab[t].doc, tab[t].made,
                              tab[t].unacked, tab[t].save, tab[t].asked>>
    <3>1. tab[t] \in Tab
      BY TypesOf
    <3>2. tab'[t] = [tab[t] EXCEPT !.up = FALSE]
      BY <2>1
    <3> QED BY <3>1, <3>2 DEF Tab
  <2>3. \A t \in Tabs : tab'[t].version = 1
    BY <1>2, <1>5, <2>1, <2>2
  <2>4. \A t \in Tabs : ~Current(t)' /\ Made(t)' = Made(t)
    <3> TAKE t \in Tabs
    <3>1. ~Current(t)'
      BY <2>1, <2>3 DEF Current, Compatible
    <3>2. Made(t)' = Made(t)
      BY <2>2 DEF Made
    <3> QED BY <3>1, <3>2
  <2>5. TabsAreSound'
    BY <1>2, <2>1, <2>2, <2>3, <2>4 DEF TabsAreSound
  <2> QED BY <2>1, <2>5 DEF LInv, FramesAreSound
<1> QED BY <1>7, <1>8, <1>10, <1>11, <1>12, <1>13, <1>14, <1>15, <1>16, <1>17, <1>18, NextCases

LEMMA LayoutInvariance == Spec => []LInv
<1>1. Init => LInv
  <2> SUFFICES ASSUME Init PROVE LInv
    OBVIOUS
  <2>1. ASSUME NEW t \in Tabs
        PROVE  /\ tab[t].version = 1 /\ ~tab[t].up /\ tab[t].pc = "closed" /\ tab[t].made = 0
               /\ tab[t].doc = {} /\ tab[t].unacked = {} /\ tab[t].save = "no"
    BY DEF Init
  <2>2. server.version = 1 /\ server.stored = {} /\ frames = {}
    BY DEF Init
  <2>3. TabsAreSound
    BY <2>1, <2>2 DEF TabsAreSound, Current
  <2> QED BY <2>2, <2>3 DEF LInv, FramesAreSound
<1>2. TypeOK /\ LInv /\ [Next]_vars => LInv'
  <2>1. TypeOK /\ LInv /\ UNCHANGED vars => LInv'
    BY LayoutStays DEF vars
  <2> QED BY <2>1, LayoutKept
<1> QED BY <1>1, <1>2, TypeCorrect, PTL DEF Spec

\* What the server's document holds is well typed and of one layout, under any
\* failures, resets and deployments (ProjectDoc::SCHEMA_VERSION).
THEOREM DocumentStaysConsistent == Spec => []Consistent
<1>1. TypeOK /\ LInv => Consistent
  BY DEF LInv, Consistent, LayoutsDoNotMix, Spoken
<1> QED BY <1>1, TypeCorrect, LayoutInvariance, PTL

-----------------------------------------------------------------------------
(***************************************************************************)
(* One seed, unless the document may be dropped under those who write in   *)
(* it, or a tab may go on without one.                                     *)
(***************************************************************************)
Orderly == {"reset_live", "empty_session"} \cap Env = {}

OneSeed(doc) == \E s \in Tabs : doc \cap Seeds = {Seed(s)}

SeedInv ==
    /\ IF server.exists THEN OneSeed(server.stored) ELSE server.stored = {}
    /\ \A t \in Tabs :
        /\ Current(t) => server.exists /\ tab[t].doc \cap Seeds \subseteq server.stored
        /\ tab[t].pc = "open" => OneSeed(tab[t].doc)
        /\ tab[t].pc # "closed" => Original \in tab[t].base
    /\ \A f \in frames : f.kind = "diff" => f.updates \cap Seeds = server.stored \cap Seeds
    /\ \A p \in Projectors : projecting[p].on =>
        \E s \in Tabs : Seed(s) \in projecting[p].doc /\ tab[s].pc # "closed"
    /\ Original \in rows

LEMMA SeedStep ==
    ASSUME TypeOK, LInv, SeedInv, NEW t \in Tabs, Others(t), server'.version = server.version,
           server'.exists = server.exists, server'.stored \cap Seeds = server.stored \cap Seeds,
           ~server.exists => server'.stored = {},
           Current(t)' => server.exists /\ tab'[t].doc \cap Seeds \subseteq server.stored,
           tab'[t].pc = "open" => OneSeed(tab'[t].doc),
           tab'[t].pc # "closed", Original \in tab'[t].base,
           \A f \in frames' : f.kind = "diff" =>
                f \in frames \/ f.updates \cap Seeds = server.stored \cap Seeds,
           \A p \in Projectors : projecting'[p].on =>
                \/ projecting[p].on /\ projecting'[p].doc = projecting[p].doc
                \/ server.exists /\ projecting'[p].doc = server.stored,
           Original \in rows'
    PROVE  SeedInv'
<1>1. IF server'.exists THEN OneSeed(server'.stored) ELSE server'.stored = {}
  BY DEF SeedInv, OneSeed
<1>2. ASSUME NEW r \in Tabs
      PROVE  (/\ Current(r) => server.exists /\ tab[r].doc \cap Seeds \subseteq server.stored
              /\ tab[r].pc = "open" => OneSeed(tab[r].doc)
              /\ tab[r].pc # "closed" => Original \in tab[r].base)'
  <2>1. CASE r = t
    BY <2>1 DEF OneSeed
  <2>2. CASE r # t
    <3>1. tab'[r] = tab[r] /\ Current(r)' = Current(r)
      BY <2>2 DEF Others, Current, Compatible
    <3>2. /\ Current(r) => server.exists /\ tab[r].doc \cap Seeds \subseteq server.stored
          /\ tab[r].pc = "open" => OneSeed(tab[r].doc)
          /\ tab[r].pc # "closed" => Original \in tab[r].base
      BY DEF SeedInv
    <3> QED BY <3>1, <3>2 DEF OneSeed
  <2> QED BY <2>1, <2>2
<1>3. \A f \in frames' : f.kind = "diff" => f.updates \cap Seeds = server'.stored \cap Seeds
  BY DEF SeedInv
<1>4. ASSUME NEW p \in Projectors, projecting'[p].on
      PROVE  \E s \in Tabs : Seed(s) \in projecting'[p].doc /\ tab'[s].pc # "closed"
  <2>1. PICK s \in Tabs : Seed(s) \in projecting'[p].doc /\ tab[s].pc # "closed"
    <3>1. CASE projecting[p].on /\ projecting'[p].doc = projecting[p].doc
      BY <3>1 DEF SeedInv
    <3>2. CASE server.exists /\ projecting'[p].doc = server.stored
      <4>1. PICK s \in Tabs : server.stored \cap Seeds = {Seed(s)}
        BY <3>2 DEF SeedInv, OneSeed
      <4>2. Spoken(Seed(s)) /\ Seed(s) \in server.stored
        BY <4>1 DEF LInv
      <4>3. tab[s].pc # "closed"
        BY <4>2 DEF Spoken, Seed
      <4> QED BY <3>2, <4>2, <4>3
    <3> QED BY <1>4, <3>1, <3>2
  <2> QED BY <2>1 DEF Others
<1> QED BY <1>1, <1>2, <1>3, <1>4 DEF SeedInv, OneSeed

\* A document that has a seed says what was there before.
LEMMA SeedHasOriginal ==
    ASSUME SeedInv, NEW doc, NEW s \in Tabs, Seed(s) \in doc, tab[s].pc # "closed"
    PROVE  Original \in ContentOf(doc)
<1>1. Seed(s) \in doc \cap Seeds /\ Seed(s)[1] = s
  BY DEF Seed, Seeds
<1>2. Original \in tab[s].base
  BY DEF SeedInv
<1>3. \A e \in doc \cap Seeds : tab[e[1]].base \subseteq ContentOf(doc)
  BY DEF ContentOf
<1> QED BY <1>1, <1>2, <1>3

LEMMA SeedKept ==
    ASSUME Orderly, TypeOK, LInv, SeedInv, Next
    PROVE  SeedInv'
<1>1. \A t \in Tabs : /\ Current(t) => server.exists /\ tab[t].doc \cap Seeds \subseteq server.stored
                      /\ tab[t].pc = "open" => OneSeed(tab[t].doc)
                      /\ tab[t].pc # "closed" => Original \in tab[t].base
  BY DEF SeedInv
<1>2. /\ \A f \in frames : f.kind = "diff" => f.updates \cap Seeds = server.stored \cap Seeds
      /\ Original \in rows
      /\ server.exists => OneSeed(server.stored)
      /\ ~server.exists => server.stored = {}
  BY DEF SeedInv
<1>3. \A t \in Tabs : /\ tab[t].up => Current(t)
                      /\ tab[t].pc \in {"closed", "seeding"} =>
                            tab[t].made = 0 /\ tab[t].doc = {} /\ tab[t].save = "no"
                      /\ tab[t].version <= server.version
  BY DEF LInv, TabsAreSound
<1>4. \A f \in frames : f.tab \in Tabs /\ tab[f.tab].up /\ (f.kind # "diff" => f.updates \subseteq Edits)
  BY TypesOf DEF LInv, FramesAreSound
<1>5. Edits \cap Seeds = {}
  BY DEF Edits, Seeds
<1>6. ASSUME NEW p \in Projectors, projecting[p].on PROVE Original \in ContentOf(projecting[p].doc)
  BY <1>6, SeedHasOriginal DEF SeedInv
<1>7. server.exists => Original \in ContentOf(server.stored)
  <2> SUFFICES ASSUME server.exists PROVE Original \in ContentOf(server.stored)
    OBVIOUS
  <2>1. PICK s \in Tabs : server.stored \cap Seeds = {Seed(s)}
    BY <1>2 DEF OneSeed
  <2>2. Spoken(Seed(s)) /\ Seed(s) \in server.stored
    BY <2>1 DEF LInv
  <2>3. tab[s].pc # "closed"
    BY <2>2 DEF Spoken, Seed
  <2> QED BY <2>2, <2>3, SeedHasOriginal
<1>8. ASSUME NEW t \in Tabs, Load(t) PROVE SeedInv'
  <2>1. /\ Others(t) /\ tab'[t].pc = "seeding" /\ tab'[t].base = rows
        /\ UNCHANGED <<server, rows, projecting, behind, frames, faults>>
    BY <1>8, LoadMoves
  <2>2. ~Current(t)'
    BY <2>1 DEF Current
  <2> QED BY <1>2, <2>1, <2>2, SeedStep
<1>9. ASSUME NEW t \in Tabs,
             SeedLost(t) \/ SeedPost(t) \/ SeedRefused(t) \/ Reject(t) \/ CheckOutdated(t)
      PROVE  SeedInv'
  <2>1. /\ Others(t) /\ <<tab[t].pc, tab'[t].pc>> \in JoinPlaces
        /\ UNCHANGED <<tab[t].version, tab[t].base, tab[t].doc, tab[t].made, tab[t].unacked,
                       tab[t].up, tab[t].save, tab[t].asked>>
        /\ UNCHANGED <<rows, projecting, behind, frames>>
    BY <1>9, PlaceMoves
  <2>2. /\ tab'[t].pc \notin {"closed", "open"} /\ tab[t].pc # "closed"
        /\ tab'[t].pc = "joining" => tab[t].pc = "seeding"
    BY <2>1 DEF JoinPlaces
  <2>3. Original \in tab'[t].base /\ (tab'[t].pc = "joining" => tab'[t].doc = {})
    BY <1>1, <1>3, <2>1, <2>2
  <2>4. CASE SeedPost(t) /\ ~server.exists
    <3>1. /\ server'.exists /\ server'.stored = {Seed(t)} /\ server'.version = server.version
          /\ tab'[t].pc = "joining"
      BY <2>1, <2>4, TypesOf DEF SeedPost, JoinPlaces
    <3>2. frames' = {} /\ \A r \in Tabs : ~Current(r)
      BY <1>1, <1>3, <1>4, <2>1, <2>4
    <3>3. Seed(t) \in Seeds
      BY DEF Seed, Seeds
    <3>4. ASSUME NEW r \in Tabs
          PROVE  (/\ Current(r) => server.exists /\ tab[r].doc \cap Seeds \subseteq server.stored
                  /\ tab[r].pc = "open" => OneSeed(tab[r].doc)
                  /\ tab[r].pc # "closed" => Original \in tab[r].base)'
      <4>1. CASE r = t
        BY <2>2, <2>3, <3>1, <4>1
      <4>2. CASE r # t
        <5>1. tab'[r] = tab[r] /\ ~Current(r)'
          BY <2>1, <3>1, <3>2, <4>2 DEF Others, Current, Compatible
        <5> QED BY <1>1, <5>1 DEF OneSeed
      <4> QED BY <4>1, <4>2
    <3>5. \A p \in Projectors : projecting'[p].on =>
            \E s \in Tabs : Seed(s) \in projecting'[p].doc /\ tab'[s].pc # "closed"
      BY <2>1, <2>2 DEF SeedInv, Others
    <3> QED BY <1>2, <2>1, <3>1, <3>2, <3>3, <3>4, <3>5 DEF SeedInv, OneSeed
  <2>5. CASE ~(SeedPost(t) /\ ~server.exists)
    <3>1. server' = server
      BY <1>9, <2>5 DEF SeedPost, SeedLost, SeedRefused, Reject, CheckOutdated
    <3>2. Current(t)' => server.exists /\ tab'[t].doc = {}
      <4>1. CASE SeedPost(t)
        BY <2>2, <2>3, <2>5, <4>1 DEF Current
      <4>2. CASE SeedLost(t)
        BY <2>2, <2>3, <4>2 DEF SeedLost, Orderly, Current
      <4>3. CASE SeedRefused(t) \/ Reject(t) \/ CheckOutdated(t)
        <5>1. CASE CheckOutdated(t)
          <6>1. tab'[t].pc = "outdated"
            BY <2>1, <5>1 DEF CheckOutdated, JoinPlaces
          <6> QED BY <6>1 DEF Current
        <5>2. CASE SeedRefused(t) \/ Reject(t)
          BY <2>1, <3>1, <5>2 DEF SeedRefused, Reject, Current, Compatible
        <5> QED BY <4>3, <5>1, <5>2
      <4> QED BY <1>9, <4>1, <4>2, <4>3
    <3> QED BY <1>2, <2>1, <2>2, <2>3, <3>1, <3>2, SeedStep
  <2> QED BY <2>4, <2>5
<1>10. \A t : \A f \in Handshake(t) : f.kind = "diff" => f.updates = server.stored
  BY DEF Handshake, Frame
<1>11. ASSUME NEW t \in Tabs, Subscribe(t) PROVE SeedInv'
  <2>1. /\ Others(t) /\ tab'[t].up /\ tab[t].pc \in {"joining", "open"} /\ Compatible(t)
        /\ UNCHANGED <<tab[t].pc, tab[t].version, tab[t].base, tab[t].doc, tab[t].made,
                       tab[t].unacked, tab[t].save, tab[t].asked>>
        /\ UNCHANGED <<rows, projecting, behind, faults>>
    BY <1>11, SubscribeMoves
  <2>2. frames' = frames \cup Handshake(t)
    BY <1>11 DEF Subscribe, Accept
  <2>3. Current(t)
    BY <2>1 DEF Current
  <2>4. Missing(t) \cap Seeds = {} /\ server.exists
    BY <1>1, <2>3 DEF Missing
  <2>5. /\ server'.version = server.version /\ server'.exists
        /\ server'.stored \cap Seeds = server.stored \cap Seeds
    <3>1. CASE Missing(t) = {}
      BY <1>11, <2>4, <3>1 DEF Subscribe, Accept
    <3>2. CASE Missing(t) # {}
      <4>1. server'.version = server.version /\ server'.exists /\ server'.stored = server.stored \cup Missing(t)
        BY <1>11, <3>2, HandshakeTypes, RecordTypes DEF Subscribe, Accept
      <4> QED BY <2>4, <4>1
    <3> QED BY <3>1, <3>2
  <2> QED BY <1>1, <1>2, <1>10, <2>1, <2>2, <2>3, <2>4, <2>5, SeedStep
<1>12. ASSUME NEW t \in Tabs, Edit(t) PROVE SeedInv'
  <2> DEFINE u == <<t, tab[t].made + 1>>
  <2>1. /\ Others(t) /\ tab[t].pc = "open" /\ u \in Edits
        /\ tab'[t].doc = tab[t].doc \cup {u}
        /\ UNCHANGED <<tab[t].pc, tab[t].version, tab[t].base, tab[t].up, tab[t].save, tab[t].asked>>
        /\ UNCHANGED <<server, rows, projecting, behind, faults>>
    BY <1>12, EditMoves
  <2> HIDE DEF u
  <2>2. \A f \in frames' : f \in frames \/ f.kind = "edit"
    BY <1>12 DEF Edit, Frame
  <2>3. tab'[t].doc \cap Seeds = tab[t].doc \cap Seeds /\ (Current(t)' => Current(t))
    BY <1>5, <2>1 DEF Current, Compatible
  <2>4. OneSeed(tab'[t].doc)
    BY <1>1, <2>1, <2>3 DEF OneSeed
  <2> QED BY <1>1, <1>2, <2>1, <2>2, <2>3, <2>4, SeedStep
<1>13. ASSUME NEW t \in Tabs, Drop(t) \/ Leave(t) PROVE SeedInv'
  <2>1. /\ Others(t) /\ ~tab'[t].up
        /\ Drop(t) => tab'[t].pc = tab[t].pc
        /\ Leave(t) => tab[t].save = "saved" /\ tab'[t].pc = "left"
        /\ UNCHANGED <<tab[t].version, tab[t].base, tab[t].doc, tab[t].made, tab[t].unacked,
                       tab[t].save, tab[t].asked>>
        /\ frames' = {f \in frames : f.tab # t} /\ UNCHANGED <<server, rows, projecting, behind>>
    BY <1>13, DropMoves
  <2>2. Drop(t) => tab[t].pc \in {"joining", "open"}
    BY <1>3 DEF Drop, Current
  <2>3. /\ tab[t].pc # "closed" /\ tab'[t].pc # "closed" /\ (Current(t)' => Current(t))
        /\ tab'[t].pc = "open" => tab[t].pc = "open"
    BY <1>3, <1>13, <2>1, <2>2 DEF Current, Compatible
  <2>4. tab'[t].pc = "open" => OneSeed(tab'[t].doc)
    BY <1>1, <2>1, <2>3
  <2> QED BY <1>1, <1>2, <2>1, <2>3, <2>4, SeedStep
<1>14. ASSUME NEW t \in Tabs,
              \/ Save(t) \/ WhenAcknowledged(t) \/ Flush(t) \/ FlushNothing(t)
              \/ Flushed(t) \/ GiveUp(t)
       PROVE  SeedInv'
  <2>1. /\ Others(t)
        /\ UNCHANGED <<tab[t].pc, tab[t].version, tab[t].base, tab[t].doc, tab[t].made,
                       tab[t].unacked, tab[t].up>>
        /\ UNCHANGED <<server, frames, faults>>
    BY <1>14, SaveMoves
  <2>2. tab[t].pc # "closed"
    <3>1. tab[t].save # "no" \/ tab[t].pc = "open"
      BY <1>14 DEF Save, WhenAcknowledged, Flush, FlushNothing, Flushed, GiveUp
    <3> QED BY <1>3, <3>1
  <2>3. Current(t)' => Current(t)
    BY <2>1 DEF Current, Compatible
  <2>4. t \in Projectors /\ projecting \in [Projectors -> [on: BOOLEAN, doc: SUBSET Updates, late: BOOLEAN]]
    BY TypesOf DEF Projectors
  <2>5. CASE Flush(t)
    <3>1. rows' = rows /\ projecting' = [projecting EXCEPT ![t] = [on |-> TRUE, doc |-> server.stored, late |-> FALSE]]
          /\ server.exists
      BY <2>5 DEF Flush, ProjectRead
    <3> QED BY <1>1, <1>2, <2>1, <2>2, <2>3, <2>4, <3>1, SeedStep
  <2>6. CASE Flushed(t)
    <3>1. ProjectWrite(t) /\ projecting[t].on /\ rows' = ContentOf(projecting[t].doc)
      BY <2>6 DEF Flushed, ProjectWrite
    <3>2. Original \in rows'
      BY <1>6, <2>4, <3>1
    <3>3. \A p \in Projectors :
            projecting'[p].on => projecting[p].on /\ projecting'[p].doc = projecting[p].doc
      BY <2>4, <3>1, WriteTypes
    <3> QED BY <1>1, <1>2, <2>1, <2>2, <2>3, <3>2, <3>3, SeedStep
  <2>7. CASE ~Flush(t) /\ ~Flushed(t)
    <3>1. rows' = rows /\ projecting' = projecting
      BY <1>14, <2>7 DEF Save, WhenAcknowledged, FlushNothing, GiveUp
    <3> QED BY <1>1, <1>2, <2>1, <2>2, <2>3, <3>1, SeedStep
  <2> QED BY <2>5, <2>6, <2>7
<1>15. ASSUME NEW f \in frames, HearDiff(f) \/ HearRelay(f) \/ HearAck(f) PROVE SeedInv'
  <2> DEFINE t == f.tab
  <2>1. /\ t \in Tabs /\ Others(t) /\ frames' = frames \ {f}
        /\ UNCHANGED <<tab[t].version, tab[t].base, tab[t].made, tab[t].up, tab[t].save, tab[t].asked>>
        /\ UNCHANGED <<server, rows, projecting, behind, faults>>
        /\ HearAck(f) => UNCHANGED <<tab[t].pc, tab[t].doc>>
        /\ ~HearAck(f) => tab'[t].doc = tab[t].doc \cup f.updates
        /\ HearRelay(f) => f.kind = "relay" /\ UNCHANGED tab[t].pc
        /\ HearDiff(f) => f.kind = "diff" /\ tab'[t].pc = IF tab[t].pc = "joining" THEN "open" ELSE tab[t].pc
    BY <1>15, HearMoves
  <2>2. Current(t) /\ server.exists /\ tab[t].doc \cap Seeds \subseteq server.stored /\ tab[t].pc # "closed"
    <3>1. Current(t)
      BY <1>3, <1>4, <2>1
    <3> QED BY <1>1, <2>1, <3>1 DEF Current
  <2> HIDE DEF t
  <2>3. CASE HearDiff(f)
    <3>1. ~HearAck(f) /\ f.updates \cap Seeds = server.stored \cap Seeds
      BY <1>2, <2>1, <2>3 DEF HearDiff, HearAck
    <3>2. tab'[t].doc \cap Seeds = server.stored \cap Seeds
      BY <2>1, <2>2, <3>1
    <3>3. OneSeed(tab'[t].doc)
      BY <1>2, <2>2, <3>2 DEF OneSeed
    <3>4. tab'[t].pc # "closed"
      BY <2>1, <2>2, <2>3
    <3> QED BY <1>1, <1>2, <2>1, <2>2, <3>2, <3>3, <3>4, SeedStep
  <2>4. CASE ~HearDiff(f)
    <3>1. tab'[t].doc \cap Seeds = tab[t].doc \cap Seeds /\ tab'[t].pc = tab[t].pc
      <4>1. CASE HearAck(f)
        BY <2>1, <4>1
      <4>2. CASE ~HearAck(f)
        <5>1. HearRelay(f) /\ f.kind = "relay"
          BY <1>15, <2>1, <2>4, <4>2
        <5>2. f.updates \cap Seeds = {}
          BY <1>4, <1>5, <5>1
        <5> QED BY <2>1, <4>2, <5>1, <5>2
      <4> QED BY <4>1, <4>2
    <3>2. tab'[t].pc = "open" => OneSeed(tab'[t].doc)
      BY <1>1, <2>1, <3>1 DEF OneSeed
    <3> QED BY <1>1, <1>2, <2>1, <2>2, <3>1, <3>2, SeedStep
  <2> QED BY <2>3, <2>4
\* Steps of no tab: f.tab stands for the one that is looked at.
<1>16. ASSUME NEW f \in frames, ReceiveEdit(f) PROVE SeedInv'
  <2> DEFINE t == f.tab
  <2>1. /\ t \in Tabs /\ f.updates \in SUBSET Updates /\ tab' = tab /\ f.kind = "edit"
        /\ frames' \subseteq frames \cup {Frame("ack", t, f.updates)} \cup Relay(f.updates)
        /\ UNCHANGED <<rows, projecting, behind, faults>>
    BY <1>4, <1>16, TypesOf DEF ReceiveEdit
  <2>2. Current(t) /\ server.exists /\ f.updates \cap Seeds = {}
    BY <1>1, <1>3, <1>4, <1>5, <2>1
  <2>3. /\ server'.version = server.version /\ server'.exists
        /\ server'.stored \cap Seeds = server.stored \cap Seeds
    <3>1. server'.version = server.version /\ server'.exists /\ server'.stored = server.stored \cup f.updates
      BY <1>16, <2>1, RecordTypes DEF ReceiveEdit
    <3> QED BY <2>2, <3>1
  <2>4. \A g \in {Frame("ack", t, f.updates)} \cup Relay(f.updates) : g.kind \in {"ack", "relay"}
    BY DEF Relay, Frame
  <2> HIDE DEF t
  <2>5. Others(t) /\ tab[t].pc # "closed" /\ (Current(t)' => Current(t))
    BY <2>1, <2>2, <2>3 DEF Others, Current, Compatible
  <2> QED BY <1>1, <1>2, <2>1, <2>2, <2>3, <2>4, <2>5, SeedStep
<1>17. ASSUME NEW t \in Tabs, Resync(t) PROVE SeedInv'
  <2>1. /\ tab' = tab /\ server' = server /\ frames' = frames \cup Handshake(t)
        /\ tab[t].pc = "open" /\ tab[t].up /\ UNCHANGED <<rows, projecting, behind>>
    BY <1>17 DEF Resync
  <2>2. Current(t) /\ Others(t)
    BY <1>3, <2>1 DEF Others
  <2> QED BY <1>1, <1>2, <1>10, <2>1, <2>2, SeedStep
\* Nothing is asked of the tabs or the document.
<1>18. ASSUME UNCHANGED <<tab, server>>, frames' \subseteq frames, Original \in rows',
              \A p \in Projectors : projecting'[p].on =>
                \/ projecting[p].on /\ projecting'[p].doc = projecting[p].doc
                \/ server.exists /\ projecting'[p].doc = server.stored
       PROVE  SeedInv'
  <2>1. \A r \in Tabs : Current(r)' = Current(r)
    BY <1>18 DEF Current, Compatible
  <2>2. CASE server.exists
    <3>1. PICK s \in Tabs : server.stored \cap Seeds = {Seed(s)}
      BY <1>2, <2>2 DEF OneSeed
    <3>2. Spoken(Seed(s)) /\ Seed(s) \in server.stored
      BY <3>1 DEF LInv
    <3>3. tab[s].pc # "closed" /\ Others(s)
      BY <1>18, <3>2 DEF Spoken, Seed, Others
    <3> QED BY <1>1, <1>2, <1>18, <2>1, <3>3, SeedStep
  <2>3. CASE ~server.exists
    <3>1. \A p \in Projectors : projecting'[p].on =>
            \E s \in Tabs : Seed(s) \in projecting'[p].doc /\ tab'[s].pc # "closed"
      BY <1>18, <2>3 DEF SeedInv
    <3>2. \A r \in Tabs : (/\ Current(r) => server.exists /\ tab[r].doc \cap Seeds \subseteq server.stored
                           /\ tab[r].pc = "open" => OneSeed(tab[r].doc)
                           /\ tab[r].pc # "closed" => Original \in tab[r].base)'
      BY <1>1, <1>18, <2>1 DEF OneSeed
    <3>3. IF server'.exists THEN OneSeed(server'.stored) ELSE server'.stored = {}
      BY <1>2, <1>18, <2>3
    <3>4. \A f \in frames' : f.kind = "diff" => f.updates \cap Seeds = server'.stored \cap Seeds
      BY <1>2, <1>18
    <3> QED BY <1>18, <3>1, <3>2, <3>3, <3>4 DEF SeedInv, OneSeed
  <2> QED BY <2>2, <2>3
<1>19. CASE \E f \in frames : RecordFails(f)
  BY <1>2, <1>18, <1>19 DEF RecordFails
<1>20. ASSUME NEW j \in Jobs, JobReads(j) \/ JobWrites(j) PROVE SeedInv'
  <2>1. /\ j \in Projectors
        /\ projecting \in [Projectors -> [on: BOOLEAN, doc: SUBSET Updates, late: BOOLEAN]]
    BY TypesOf DEF Projectors
  <2>2. CASE JobReads(j)
    <3>1. /\ UNCHANGED <<tab, server, rows, frames, faults>> /\ server.exists
          /\ projecting' = [projecting EXCEPT ![j] = [on |-> TRUE, doc |-> server.stored, late |-> FALSE]]
      BY <2>2 DEF JobReads, ProjectRead
    <3> QED BY <1>2, <1>18, <2>1, <3>1
  <2>3. CASE JobWrites(j)
    <3>1. /\ UNCHANGED <<tab, server, frames, faults>> /\ ProjectWrite(j)
          /\ projecting[j].on /\ rows' = ContentOf(projecting[j].doc)
      BY <2>3 DEF JobWrites, ProjectWrite
    <3>2. Original \in rows'
      BY <1>6, <2>1, <3>1
    <3>3. \A p \in Projectors :
            projecting'[p].on => projecting[p].on /\ projecting'[p].doc = projecting[p].doc
      BY <2>1, <3>1, WriteTypes
    <3> QED BY <1>18, <3>1, <3>2, <3>3
  <2> QED BY <1>20, <2>2, <2>3
<1>21. CASE Reset
  <2>1. /\ \A t \in Tabs : tab[t].pc \in {"closed", "left"}
        /\ UNCHANGED <<tab, rows, projecting, frames>> /\ server' = Destroyed
    BY <1>21 DEF Reset, Orderly
  <2>2. ~server'.exists /\ server'.stored = {}
    BY <2>1, TypesOf DEF Destroyed
  <2>3. frames' = {} /\ \A t \in Tabs : ~Current(t)'
    BY <1>3, <1>4, <2>1 DEF Current
  <2>4. \A p \in Projectors : projecting'[p].on =>
          \E s \in Tabs : Seed(s) \in projecting'[p].doc /\ tab'[s].pc # "closed"
    BY <2>1 DEF SeedInv
  <2>5. \A r \in Tabs : (/\ Current(r) => server.exists /\ tab[r].doc \cap Seeds \subseteq server.stored
                         /\ tab[r].pc = "open" => OneSeed(tab[r].doc)
                         /\ tab[r].pc # "closed" => Original \in tab[r].base)'
    BY <1>1, <2>1, <2>3 DEF OneSeed
  <2> QED BY <1>2, <2>1, <2>2, <2>3, <2>4, <2>5 DEF SeedInv
<1>22. CASE Deploy
  <2>1. /\ tab' = [t \in Tabs |-> [tab[t] EXCEPT !.up = FALSE]] /\ frames' = {}
        /\ server.version = 1 /\ server'.version = 2 /\ server'.stored = {} /\ ~server'.exists
        /\ \A p \in Projectors : ~projecting'[p].on
        /\ rows' = IF server.exists THEN ContentOf(server.stored) ELSE rows
    BY <1>22, TypesOf DEF Deploy, Destroyed
  <2>2. ASSUME NEW t \in Tabs
        PROVE  UNCHANGED <<tab[t].pc, tab[t].version, tab[t].base, tab[t].doc>>
    <3>1. tab[t] \in Tab
      BY TypesOf
    <3>2. tab'[t] = [tab[t] EXCEPT !.up = FALSE]
      BY <2>1
    <3> QED BY <3>1, <3>2 DEF Tab
  <2>3. \A t \in Tabs : ~Current(t)'
    <3>1. \A t \in Tabs : tab[t].version \in {1, 2}
      BY TypesOf DEF Tab, Versions
    <3> QED BY <1>3, <2>1, <2>2, <3>1 DEF Current, Compatible
  <2>4. \A r \in Tabs : (/\ Current(r) => server.exists /\ tab[r].doc \cap Seeds \subseteq server.stored
                         /\ tab[r].pc = "open" => OneSeed(tab[r].doc)
                         /\ tab[r].pc # "closed" => Original \in tab[r].base)'
    BY <1>1, <2>2, <2>3 DEF OneSeed
  <2>5. Original \in rows'
    BY <1>2, <1>7, <2>1
  <2> QED BY <2>1, <2>4, <2>5 DEF SeedInv
<1> QED BY <1>8, <1>9, <1>11, <1>12, <1>13, <1>14, <1>15, <1>16, <1>17, <1>19, <1>20, <1>21, <1>22,
           NextCases

LEMMA SeedInvariance == ASSUME Orderly PROVE Spec => []SeedInv
<1>1. Init => SeedInv
  <2> SUFFICES ASSUME Init PROVE SeedInv
    OBVIOUS
  <2>1. ASSUME NEW t \in Tabs PROVE tab[t].pc = "closed" /\ ~Current(t)
    BY DEF Init, Current
  <2>2. ~server.exists /\ server.stored = {} /\ frames = {} /\ rows = {Original}
        /\ \A p \in Projectors : ~projecting[p].on
    BY DEF Init, Off
  <2> QED BY <2>1, <2>2 DEF SeedInv
<1>2. TypeOK /\ LInv /\ SeedInv /\ [Next]_vars => SeedInv'
  <2>1. ASSUME SeedInv, UNCHANGED vars PROVE SeedInv'
    <3>1. UNCHANGED <<tab, server, rows, projecting, behind, frames>>
      BY <2>1 DEF vars
    <3>2. \A r \in Tabs : Current(r)' = Current(r)
      BY <3>1 DEF Current, Compatible
    <3> QED BY <2>1, <3>1, <3>2 DEF SeedInv, OneSeed
  <2> QED BY <2>1, SeedKept
<1> QED BY <1>1, <1>2, TypeCorrect, LayoutInvariance, PTL DEF Spec

\* However the seeds race, the document and every open tab have one, and what
\* was there before the session is never projected away (ProjectDoc.seed), as
\* long as nobody drops a document that is being edited.
THEOREM AlwaysSeededOnce == ASSUME Orderly PROVE Spec => []SeededOnce
<1>1. ASSUME NEW doc, OneSeed(doc) PROVE Cardinality(doc \cap Seeds) = 1
  BY <1>1, FS_Singleton DEF OneSeed
<1>2. SeedInv => SeededOnce
  <2> SUFFICES ASSUME SeedInv PROVE SeededOnce
    OBVIOUS
  <2>1. Cardinality(server.stored \cap Seeds) <= 1
    <3>1. CASE server.exists
      <4>1. Cardinality(server.stored \cap Seeds) = 1
        BY <1>1, <3>1 DEF SeedInv
      <4> QED BY <4>1
    <3>2. CASE ~server.exists
      <4>1. server.stored \cap Seeds = {}
        BY <3>2 DEF SeedInv
      <4> QED BY <4>1, FS_EmptySet
    <3> QED BY <3>1, <3>2
  <2> QED BY <1>1, <2>1 DEF SeedInv, SeededOnce
<1> QED BY <1>2, SeedInvariance, PTL

-----------------------------------------------------------------------------
(***************************************************************************)
(* What is acknowledged is never lost and what was saved is in the rows,   *)
(* unless a projection that was overtaken has taken the rows back.         *)
(***************************************************************************)
\* ContentOf, with the pages the tabs were loaded with as a parameter.
Says(doc, bases) == (Visible(doc) \cap Edits) \cup UNION {bases[s[1]] : s \in doc \cap Seeds}
Bases == [t \in Tabs |-> tab[t].base]

Comparable(S, T) == S \subseteq T \/ T \subseteq S

\* What is never lost.
Kept == IF server.exists THEN Says(server.stored, Bases) ELSE rows

SavesAreSound(t) ==
    /\ tab[t].asked <= tab[t].made
    /\ tab[t].save = "flushing" <=> projecting[t].on
    /\ tab[t].save = "posting" => Asked(t) \cap tab[t].unacked = {}
    /\ tab[t].save = "flushing" => Asked(t) \subseteq Says(projecting[t].doc, Bases)
    /\ tab[t].save = "saved" => Asked(t) \subseteq Kept /\ (~behind => Asked(t) \subseteq rows)
    /\ IF Current(t) THEN Made(t) \ tab[t].unacked \subseteq server.stored
       ELSE Acknowledged(t) \subseteq Kept
    /\ tab[t].pc = "seeding" /\ Compatible(t) /\ ~server.exists => rows \subseteq tab[t].base

\* The documents read and the rows are versions of one document; one that was
\* not overtaken has all that was published and answered before it.
ProjectionIsSound(p) == projecting[p].on =>
    /\ server.exists /\ projecting[p].doc \subseteq server.stored
    /\ Comparable(rows, Says(projecting[p].doc, Bases))
    /\ \A q \in Projectors : projecting[q].on => Comparable(projecting[p].doc, projecting[q].doc)
    /\ ~projecting[p].late =>
            /\ rows \subseteq Says(projecting[p].doc, Bases)
            /\ \A t \in Tabs :
                 tab[t].save = "saved" => Asked(t) \subseteq Says(projecting[p].doc, Bases)

RowInv ==
    /\ server.exists => rows \subseteq Says(server.stored, Bases)
    /\ ~server.exists => ~behind
    /\ \A t \in Tabs : SavesAreSound(t)
    /\ \A f \in frames : f.kind = "ack" => f.updates \subseteq server.stored
    /\ \A p \in Projectors : ProjectionIsSound(p)

LEMMA ContentIs ==
    /\ \A doc : ContentOf(doc) = Says(doc, Bases)
    /\ ContentOf(server.stored)' = Says(server'.stored, Bases')
<1>1. \A s \in Seeds : Bases[s[1]] = tab[s[1]].base /\ Bases'[s[1]] = tab'[s[1]].base
  BY DEF Seeds, Bases
<1>2. \A doc : UNION {tab[s[1]].base : s \in doc \cap Seeds} = UNION {Bases[s[1]] : s \in doc \cap Seeds}
  BY <1>1
<1>3. UNION {tab'[s[1]].base : s \in server'.stored \cap Seeds}
        = UNION {Bases'[s[1]] : s \in server'.stored \cap Seeds}
  BY <1>1
<1> QED BY <1>2, <1>3 DEF ContentOf, Says

\* The more a document has, the more it says.
LEMMA SayingGrows ==
    ASSUME NEW d, NEW e, NEW b, d \subseteq e
    PROVE  Visible(d) \subseteq Visible(e) /\ Says(d, b) \subseteq Says(e, b)
<1>1. Visible(d) \subseteq Visible(e)
  BY DEF Visible
<1> QED BY <1>1 DEF Says

LEMMA SayingStays ==
    ASSUME NEW d, NEW b, NEW c, \A s \in d \cap Seeds : b[s[1]] = c[s[1]]
    PROVE  Says(d, b) = Says(d, c)
<1>1. {b[s[1]] : s \in d \cap Seeds} = {c[s[1]] : s \in d \cap Seeds}
  OBVIOUS
<1> QED BY <1>1 DEF Says

\* The edits of a tab rest on none but its own.
LEMMA OwnEdits ==
    ASSUME TypeOK, NEW t \in Tabs
    PROVE  /\ Made(t) \subseteq Edits /\ Acknowledged(t) \subseteq Made(t)
           /\ Acknowledged(t) \subseteq Edits
           /\ tab[t].unacked = {} => Acknowledged(t) = Made(t)
<1>1. tab[t].made \in 0..MaxEdits
  BY DEF TypeOK
<1>2. Made(t) = {t} \X (1..tab[t].made)
  BY DEF Made
<1>3. Made(t) \subseteq Edits
  BY <1>1, <1>2 DEF Edits
<1>4. Acknowledged(t) \subseteq Made(t)
  BY DEF Acknowledged, Visible
<1>5. Visible(Made(t)) = Made(t)
  <2>1. ASSUME NEW u \in Made(t), NEW k \in 1..u[2] PROVE <<u[1], k>> \in Made(t)
    BY <1>1, <1>2, <2>1
  <2> QED BY <2>1 DEF Visible
<1>6. tab[t].unacked = {} => Acknowledged(t) = Made(t)
  BY <1>5 DEF Acknowledged
<1> QED BY <1>3, <1>4, <1>6

LEMMA AcknowledgedIsSaid ==
    ASSUME TypeOK, NEW t \in Tabs, Made(t) \ tab[t].unacked \subseteq server.stored
    PROVE  Acknowledged(t) \subseteq Says(server.stored, Bases)
<1>1. Acknowledged(t) \subseteq Edits
  BY OwnEdits
<1>2. Acknowledged(t) \subseteq Visible(server.stored)
  BY SayingGrows DEF Acknowledged
<1> QED BY <1>1, <1>2 DEF Says

\* What was acknowledged as a save was asked for rests on nothing else.
LEMMA AskedIsAcknowledged ==
    ASSUME TypeOK, NEW t \in Tabs, tab[t].asked <= tab[t].made, Asked(t) \cap tab[t].unacked = {}
    PROVE  Asked(t) \subseteq Acknowledged(t)
<1>1. tab[t].asked \in 0..MaxEdits /\ tab[t].made \in 0..MaxEdits
  BY DEF TypeOK
<1>2. Asked(t) = {t} \X (1..tab[t].asked) /\ Made(t) = {t} \X (1..tab[t].made)
  BY DEF Asked, Made
<1>3. Asked(t) \subseteq Made(t) \ tab[t].unacked
  BY <1>1, <1>2
<1>4. ASSUME NEW u \in Asked(t), NEW k \in 1..u[2] PROVE <<u[1], k>> \in Asked(t)
  BY <1>1, <1>2, <1>4
<1> QED BY <1>3, <1>4 DEF Acknowledged, Visible

LEMMA AckedIsKept ==
    ASSUME TypeOK, SeedInv, RowInv, NEW t \in Tabs
    PROVE  Acknowledged(t) \subseteq Kept
<1>1. CASE Current(t)
  <2>1. server.exists
    BY <1>1 DEF SeedInv
  <2>2. Made(t) \ tab[t].unacked \subseteq server.stored
    BY <1>1 DEF RowInv, SavesAreSound
  <2> QED BY <2>1, <2>2, AcknowledgedIsSaid DEF Kept
<1>2. CASE ~Current(t)
  BY <1>2 DEF RowInv, SavesAreSound
<1> QED BY <1>1, <1>2

\* A tab moves while no projection does.
LEMMA RowStep ==
    ASSUME TypeOK, LInv, SeedInv, RowInv, NEW t \in Tabs, Others(t), server'.version = server.version,
           UNCHANGED <<rows, projecting, behind>>,
           server.exists => server'.exists, server.stored \subseteq server'.stored,
           \A doc \in SUBSET server.stored : Says(doc, Bases') = Says(doc, Bases),
           ~server.exists /\ server'.exists => rows \subseteq Says(server'.stored, Bases'),
           \A f \in frames' : f.kind = "ack" => f \in frames \/ f.updates \subseteq server'.stored,
           tab'[t].asked <= tab'[t].made,
           tab'[t].save = "flushing" <=> tab[t].save = "flushing",
           tab[t].save = "flushing" => Asked(t)' = Asked(t),
           tab'[t].save = "posting" => Asked(t)' \cap tab'[t].unacked = {},
           tab'[t].save = "saved" =>
                \/ tab[t].save = "saved" /\ Asked(t)' = Asked(t)
                \/ ~server.exists /\ ~server'.exists /\ Asked(t)' \subseteq rows,
           Current(t)' => Made(t)' \ tab'[t].unacked \subseteq server'.stored,
           ~Current(t)' => Acknowledged(t)' \subseteq Kept,
           tab'[t].pc = "seeding" /\ ~server'.exists => rows \subseteq tab'[t].base
    PROVE  RowInv'
<1>1. /\ server.exists => rows \subseteq Says(server.stored, Bases)
      /\ ~server.exists => ~behind
  BY DEF RowInv
<1>2. server'.exists => rows' \subseteq Says(server'.stored, Bases')
  <2>1. CASE server.exists
    <3>1. rows \subseteq Says(server.stored, Bases')
      BY <1>1, <2>1
    <3> QED BY <3>1, SayingGrows
  <2>2. CASE ~server.exists
    BY <2>2
  <2> QED BY <2>1, <2>2
<1>6. Kept \subseteq Kept'
  <2>1. CASE server.exists
    <3>1. Kept = Says(server.stored, Bases') /\ Kept' = Says(server'.stored, Bases')
      BY <2>1 DEF Kept
    <3> QED BY <3>1, SayingGrows
  <2>2. CASE ~server.exists
    BY <2>2 DEF Kept
  <2> QED BY <2>1, <2>2
<1>7. ASSUME NEW r \in Tabs, r # t
      PROVE  /\ tab'[r] = tab[r] /\ Current(r)' = Current(r) /\ Compatible(r)' = Compatible(r)
             /\ Made(r)' = Made(r) /\ Acknowledged(r)' = Acknowledged(r) /\ Asked(r)' = Asked(r)
  <2>1. tab'[r] = tab[r]
    BY <1>7 DEF Others
  <2> QED BY <2>1 DEF Current, Compatible, Made, Acknowledged, Asked
<1>3. ASSUME NEW p \in Projectors
      PROVE  ProjectionIsSound(p)' /\ (projecting[p].on => Says(projecting[p].doc, Bases') = Says(projecting[p].doc, Bases))
  <2>1. ProjectionIsSound(p)
    BY DEF RowInv
  <2>2. SUFFICES ASSUME projecting[p].on
                 PROVE  ProjectionIsSound(p)' /\ Says(projecting[p].doc, Bases') = Says(projecting[p].doc, Bases)
    BY DEF ProjectionIsSound
  <2>3. /\ server.exists /\ projecting[p].doc \subseteq server.stored
        /\ Comparable(rows, Says(projecting[p].doc, Bases))
        /\ \A q \in Projectors : projecting[q].on => Comparable(projecting[p].doc, projecting[q].doc)
        /\ ~projecting[p].late =>
                /\ rows \subseteq Says(projecting[p].doc, Bases)
                /\ \A r \in Tabs :
                     tab[r].save = "saved" => Asked(r) \subseteq Says(projecting[p].doc, Bases)
    BY <2>1, <2>2 DEF ProjectionIsSound
  <2>4. Says(projecting[p].doc, Bases') = Says(projecting[p].doc, Bases)
    BY <2>3
  <2>5. ASSUME NEW r \in Tabs, tab'[r].save = "saved"
        PROVE  tab[r].save = "saved" /\ Asked(r)' = Asked(r)
    BY <1>7, <2>3, <2>5
  <2>6. ~projecting[p].late => \A r \in Tabs :
            tab'[r].save = "saved" => Asked(r)' \subseteq Says(projecting[p].doc, Bases')
    BY <2>3, <2>4, <2>5
  <2> QED BY <2>3, <2>4, <2>6 DEF ProjectionIsSound, Comparable
<1>4. ASSUME NEW r \in Tabs PROVE SavesAreSound(r)'
  <2>1. /\ r \in Projectors
        /\ tab[r].save = "flushing" => Says(projecting[r].doc, Bases') = Says(projecting[r].doc, Bases)
    BY <1>3 DEF Projectors, RowInv, SavesAreSound
  <2>2. SavesAreSound(r)
    BY DEF RowInv
  <2>3. CASE r = t
    <3>1. tab'[t].save = "saved" => Asked(t)' \subseteq Kept' /\ (~behind' => Asked(t)' \subseteq rows')
      <4>1. CASE tab[t].save = "saved" /\ Asked(t)' = Asked(t)
        BY <1>6, <2>2, <2>3, <4>1 DEF SavesAreSound
      <4>2. CASE ~server.exists /\ ~server'.exists /\ Asked(t)' \subseteq rows
        BY <4>2 DEF Kept
      <4> QED BY <4>1, <4>2
    <3> QED BY <1>6, <2>1, <2>2, <2>3, <3>1 DEF SavesAreSound
  <2>4. CASE r # t
    <3>1. /\ tab'[r] = tab[r] /\ Current(r)' = Current(r) /\ Compatible(r)' = Compatible(r)
          /\ Made(r)' = Made(r) /\ Acknowledged(r)' = Acknowledged(r) /\ Asked(r)' = Asked(r)
      BY <1>7, <2>4
    <3> QED BY <1>6, <2>1, <2>2, <3>1 DEF SavesAreSound
  <2> QED BY <2>3, <2>4
<1>5. \A f \in frames' : f.kind = "ack" => f.updates \subseteq server'.stored
  BY DEF RowInv
<1>8. ~server'.exists => ~behind'
  BY <1>1
<1> QED BY <1>2, <1>3, <1>4, <1>5, <1>8 DEF RowInv

\* All the pages but, when it is loaded, a closed tab's.
LEMMA BasesStay ==
    ASSUME NEW t \in Tabs, Others(t), tab'[t].base = tab[t].base
    PROVE  Bases' = Bases
BY DEF Others, Bases

LEMMA RowKept ==
    ASSUME Orderly, TypeOK, LInv, SeedInv, RowInv, Next
    PROVE  RowInv'
<1>1. /\ server.exists => rows \subseteq Says(server.stored, Bases)
      /\ \A f \in frames : f.kind = "ack" => f.updates \subseteq server.stored
  BY DEF RowInv
<1>2. ASSUME NEW t \in Tabs
      PROVE  /\ tab[t].asked <= tab[t].made
             /\ tab[t].save = "flushing" <=> projecting[t].on
             /\ tab[t].save = "posting" => Asked(t) \cap tab[t].unacked = {}
             /\ tab[t].save = "flushing" => Asked(t) \subseteq Says(projecting[t].doc, Bases)
             /\ tab[t].save = "saved" => Asked(t) \subseteq Kept /\ (~behind => Asked(t) \subseteq rows)
             /\ Current(t) => Made(t) \ tab[t].unacked \subseteq server.stored
             /\ Acknowledged(t) \subseteq Kept
             /\ tab[t].pc = "seeding" /\ Compatible(t) /\ ~server.exists => rows \subseteq tab[t].base
  BY AckedIsKept DEF RowInv, SavesAreSound
<1>3. ASSUME NEW p \in Projectors, projecting[p].on
      PROVE  /\ server.exists /\ projecting[p].doc \subseteq server.stored
             /\ Comparable(rows, Says(projecting[p].doc, Bases))
             /\ \A q \in Projectors : projecting[q].on => Comparable(projecting[p].doc, projecting[q].doc)
             /\ ~projecting[p].late =>
                    /\ rows \subseteq Says(projecting[p].doc, Bases)
                    /\ \A t \in Tabs :
                         tab[t].save = "saved" => Asked(t) \subseteq Says(projecting[p].doc, Bases)
  BY <1>3 DEF RowInv, ProjectionIsSound
<1>4. \A t \in Tabs : /\ tab[t].up => Current(t)
                      /\ tab[t].pc \in {"closed", "seeding"} =>
                            tab[t].made = 0 /\ tab[t].doc = {} /\ tab[t].save = "no"
                      /\ tab[t].version <= server.version
  BY DEF LInv, TabsAreSound
<1>5. \A f \in frames : f.tab \in Tabs /\ tab[f.tab].up
  BY TypesOf DEF LInv, FramesAreSound
<1>6. \A t \in Tabs : Current(t) => server.exists
  BY DEF SeedInv
<1>7. \A t : tab[t].made = 0 => Made(t) = {} /\ Acknowledged(t) = {}
  BY MadeIs DEF Acknowledged, Visible
<1>8. ~server.exists => server.stored = {}
  BY DEF SeedInv
<1>9. Bases' = Bases => \A doc \in SUBSET server.stored : Says(doc, Bases') = Says(doc, Bases)
  OBVIOUS
<1>10. ASSUME NEW t \in Tabs, Load(t) PROVE RowInv'
  <2>1. /\ Others(t) /\ tab[t].pc = "closed" /\ tab'[t].pc = "seeding" /\ tab'[t].base = rows
        /\ UNCHANGED <<tab[t].doc, tab[t].made, tab[t].unacked, tab[t].up, tab[t].save, tab[t].asked>>
        /\ UNCHANGED <<server, rows, projecting, behind, frames, faults>>
    BY <1>10, LoadMoves
  <2>2. ASSUME NEW doc \in SUBSET server.stored PROVE Says(doc, Bases') = Says(doc, Bases)
    <3>1. \A s \in doc \cap Seeds : s[1] \in Tabs /\ s[1] # t
      BY <2>1 DEF LInv, Spoken, Seeds
    <3>2. \A s \in doc \cap Seeds : Bases'[s[1]] = Bases[s[1]]
      BY <2>1, <3>1 DEF Bases, Others
    <3> HIDE DEF Bases
    <3> QED BY <3>2, SayingStays
  <2>3. Made(t)' = {} /\ Acknowledged(t)' = {} /\ ~Current(t)' /\ tab'[t].save = "no"
    <3>1. Made(t)' = Made(t) /\ Acknowledged(t)' = Acknowledged(t)
      BY <2>1 DEF Made, Acknowledged
    <3> QED BY <1>4, <1>7, <2>1, <3>1 DEF Current
  <2> QED BY <1>1, <1>2, <1>4, <2>1, <2>2, <2>3, RowStep
<1>11. ASSUME NEW t \in Tabs,
              SeedLost(t) \/ SeedPost(t) \/ SeedRefused(t) \/ Reject(t) \/ CheckOutdated(t)
       PROVE  RowInv'
  <2>1. /\ Others(t) /\ <<tab[t].pc, tab'[t].pc>> \in JoinPlaces
        /\ UNCHANGED <<tab[t].version, tab[t].base, tab[t].doc, tab[t].made, tab[t].unacked,
                       tab[t].up, tab[t].save, tab[t].asked>>
        /\ UNCHANGED <<rows, projecting, behind, frames>>
    BY <1>11, PlaceMoves
  <2>2. /\ tab'[t].pc \notin {"closed", "seeding", "open", "left"}
        /\ tab'[t].pc = "joining" => tab[t].pc = "seeding"
    BY <2>1 DEF JoinPlaces
  <2>3. ~Current(t)
    BY <1>11 DEF SeedLost, SeedPost, SeedRefused, Reject, CheckOutdated, Current, Compatible
  <2>4. /\ Made(t)' = Made(t) /\ Acknowledged(t)' = Acknowledged(t) /\ Asked(t)' = Asked(t)
        /\ Bases' = Bases
    BY <2>1, BasesStay DEF Made, Acknowledged, Asked
  <2>5. Current(t)' => Made(t)' = {}
    BY <1>4, <1>7, <2>2, <2>4 DEF Current
  <2>6. /\ server'.version = server.version /\ (server.exists => server'.exists)
        /\ server.stored \subseteq server'.stored
        /\ ~server.exists /\ server'.exists => rows \subseteq Says(server'.stored, Bases')
    <3>1. CASE SeedPost(t) /\ ~server.exists
      <4>1. /\ server'.version = server.version /\ server'.exists /\ server'.stored = {Seed(t)}
            /\ tab[t].pc = "seeding" /\ Compatible(t)
        BY <3>1, TypesOf DEF SeedPost
      <4>2. rows \subseteq tab[t].base
        BY <1>2, <3>1, <4>1
      <4>3. Seed(t) \in server'.stored \cap Seeds /\ Seed(t)[1] = t
        BY <4>1 DEF Seed, Seeds
      <4>4. tab[t].base = Bases'[Seed(t)[1]]
        BY <2>4, <4>3 DEF Bases
      <4>5. tab[t].base \subseteq Says(server'.stored, Bases')
        BY <4>3, <4>4 DEF Says
      <4> QED BY <1>8, <3>1, <4>1, <4>2, <4>5
    <3>2. CASE ~(SeedPost(t) /\ ~server.exists)
      <4>1. server' = server
        BY <1>11, <3>2 DEF SeedPost, SeedLost, SeedRefused, Reject, CheckOutdated
      <4> QED BY <4>1
    <3> QED BY <3>1, <3>2
  <2> QED BY <1>2, <2>1, <2>2, <2>3, <2>4, <2>5, <2>6, RowStep
<1>12. ASSUME NEW t \in Tabs, Subscribe(t) PROVE RowInv'
  <2>1. /\ Others(t) /\ tab'[t].up /\ tab[t].pc \in {"joining", "open"} /\ Compatible(t)
        /\ UNCHANGED <<tab[t].pc, tab[t].version, tab[t].base, tab[t].doc, tab[t].made,
                       tab[t].unacked, tab[t].save, tab[t].asked>>
        /\ UNCHANGED <<rows, projecting, behind, faults>>
    BY <1>12, SubscribeMoves
  <2>2. frames' = frames \cup Handshake(t) /\ \A f \in Handshake(t) : f.kind # "ack"
    BY <1>12 DEF Subscribe, Accept, Handshake, Frame
  <2>3. Current(t) /\ server.exists
    BY <1>6, <2>1 DEF Current
  <2>4. server'.version = server.version /\ server'.exists /\ server.stored \subseteq server'.stored
    <3>1. CASE Missing(t) = {}
      BY <1>12, <2>3, <3>1 DEF Subscribe, Accept
    <3>2. CASE Missing(t) # {}
      <4>1. Record(Missing(t)) /\ Missing(t) \in SUBSET Updates
        BY <1>12, <3>2, HandshakeTypes DEF Subscribe, Accept
      <4> QED BY <4>1, RecordTypes
    <3> QED BY <3>1, <3>2
  <2>5. Made(t)' = Made(t) /\ Asked(t)' = Asked(t) /\ Bases' = Bases /\ Current(t)'
    BY <2>1, <2>3, <2>4, BasesStay DEF Made, Asked, Current, Compatible
  <2> QED BY <1>1, <1>2, <2>1, <2>2, <2>3, <2>4, <2>5, RowStep
<1>13. ASSUME NEW t \in Tabs, Edit(t) PROVE RowInv'
  <2> DEFINE u == <<t, tab[t].made + 1>>
  <2>1. /\ Others(t) /\ tab[t].pc = "open"
        /\ tab'[t].made = tab[t].made + 1 /\ tab'[t].unacked = tab[t].unacked \cup {u}
        /\ UNCHANGED <<tab[t].pc, tab[t].version, tab[t].base, tab[t].up, tab[t].save, tab[t].asked>>
        /\ UNCHANGED <<server, rows, projecting, behind, faults>>
    BY <1>13, EditMoves
  <2>2. \A f \in frames' : f.kind = "ack" => f \in frames
    BY <1>13 DEF Edit, Frame
  <2>3. Made(t)' \ tab'[t].unacked \subseteq Made(t) \ tab[t].unacked
    <3>1. tab[t].made \in Nat
      BY DEF TypeOK
    <3>2. Made(t)' \subseteq Made(t) \cup {u}
      BY <2>1, <3>1 DEF Made
    <3> QED BY <2>1, <3>2
  <2>4. Acknowledged(t)' \subseteq Acknowledged(t)
    BY <2>3, SayingGrows DEF Acknowledged
  <2>5. Bases' = Bases /\ (Current(t)' <=> Current(t)) /\ Asked(t)' = Asked(t)
    BY <2>1, BasesStay DEF Current, Compatible, Asked
  <2>6. u \notin Asked(t) /\ tab'[t].asked <= tab'[t].made
    <3>1. tab[t].asked \in Nat /\ tab[t].made \in Nat /\ tab[t].asked <= tab[t].made
      BY <1>2 DEF TypeOK
    <3> QED BY <2>1, <3>1 DEF Asked
  <2> HIDE DEF u
  <2>7. tab'[t].save = "posting" => Asked(t)' \cap tab'[t].unacked = {}
    BY <1>2, <2>1, <2>5, <2>6
  <2>8. ~Current(t)' => Acknowledged(t)' \subseteq Kept
    BY <1>2, <2>4
  <2>9. Current(t)' => Made(t)' \ tab'[t].unacked \subseteq server'.stored
    BY <1>2, <2>1, <2>3, <2>5
  <2> QED BY <1>1, <1>9, <2>1, <2>2, <2>5, <2>6, <2>7, <2>8, <2>9, RowStep
<1>14. ASSUME NEW t \in Tabs, Drop(t) \/ Leave(t) PROVE RowInv'
  <2>1. /\ Others(t) /\ ~tab'[t].up
        /\ Drop(t) => tab'[t].pc = tab[t].pc
        /\ Leave(t) => tab[t].save = "saved" /\ tab'[t].pc = "left"
        /\ UNCHANGED <<tab[t].version, tab[t].base, tab[t].doc, tab[t].made, tab[t].unacked,
                       tab[t].save, tab[t].asked>>
        /\ frames' = {f \in frames : f.tab # t} /\ UNCHANGED <<server, rows, projecting, behind>>
    BY <1>14, DropMoves
  <2>2. /\ Made(t)' = Made(t) /\ Acknowledged(t)' = Acknowledged(t) /\ Asked(t)' = Asked(t)
        /\ Bases' = Bases
    BY <2>1, BasesStay DEF Made, Acknowledged, Asked
  <2>3. CASE Drop(t)
    <3>1. Current(t)' = Current(t)
      BY <2>1, <2>3 DEF Current, Compatible
    <3>2. Current(t) /\ tab[t].pc # "seeding"
      BY <1>4, <2>3 DEF Drop, Current
    <3> QED BY <1>1, <1>2, <2>1, <2>2, <2>3, <3>1, <3>2, RowStep
  <2>4. CASE Leave(t)
    <3>1. ~Current(t)' /\ tab'[t].pc = "left" /\ tab'[t].save = "saved"
      BY <2>1, <2>4 DEF Current
    <3> QED BY <1>1, <1>2, <1>9, <2>1, <2>2, <2>4, <3>1, RowStep
  <2> QED BY <1>14, <2>3, <2>4
<1>15. ASSUME NEW t \in Tabs, Save(t) \/ WhenAcknowledged(t) \/ FlushNothing(t) \/ GiveUp(t)
       PROVE  RowInv'
  <2>1. /\ Others(t)
        /\ UNCHANGED <<tab[t].pc, tab[t].version, tab[t].base, tab[t].doc, tab[t].made,
                       tab[t].unacked, tab[t].up>>
        /\ UNCHANGED <<server, frames, faults>>
        /\ Save(t) => /\ tab[t].pc = "open" /\ tab'[t].save = "acknowledging"
                      /\ tab[t].save \in {"no", "saved"} /\ tab'[t].asked = tab[t].made
        /\ WhenAcknowledged(t) => tab[t].save = "acknowledging" /\ tab'[t].save = "posting"
        /\ FlushNothing(t) => tab[t].save = "posting" /\ tab'[t].save = "saved"
        /\ GiveUp(t) => tab[t].save = "acknowledging" /\ tab'[t].save = "no" /\ tab'[t].asked = 0
        /\ ~Save(t) /\ ~GiveUp(t) => tab'[t].asked = tab[t].asked
    BY <1>15, SaveMoves
  <2>2. UNCHANGED <<rows, projecting, behind>>
    BY <1>15 DEF Save, WhenAcknowledged, FlushNothing, GiveUp
  <2>3. /\ Made(t)' = Made(t) /\ Acknowledged(t)' = Acknowledged(t) /\ Bases' = Bases
        /\ Current(t)' = Current(t)
    BY <2>1, BasesStay DEF Made, Acknowledged, Current, Compatible
  <2>4. tab[t].made \in Nat /\ tab'[t].made = tab[t].made
    BY <2>1 DEF TypeOK
  <2>5. tab'[t].asked <= tab'[t].made
    BY <1>2, <1>15, <2>1, <2>4
  <2>6. tab'[t].save = "posting" => Asked(t)' \cap tab'[t].unacked = {}
    <3> SUFFICES ASSUME tab'[t].save = "posting" PROVE Asked(t)' \cap tab'[t].unacked = {}
      OBVIOUS
    <3>1. WhenAcknowledged(t)
      BY <1>15, <2>1
    <3> QED BY <2>1, <3>1 DEF WhenAcknowledged
  <2>7. tab'[t].save = "saved" =>
            ~server.exists /\ ~server'.exists /\ Asked(t)' \subseteq rows
    <3> SUFFICES ASSUME tab'[t].save = "saved"
                 PROVE  ~server.exists /\ ~server'.exists /\ Asked(t)' \subseteq rows
      OBVIOUS
    <3>1. FlushNothing(t) /\ tab[t].save = "posting" /\ tab'[t].asked = tab[t].asked
      BY <1>15, <2>1
    <3>2. ~server.exists /\ Asked(t)' = Asked(t)
      BY <3>1 DEF FlushNothing, Asked
    <3>3. Asked(t) \subseteq Acknowledged(t)
      BY <1>2, <3>1, AskedIsAcknowledged
    <3> QED BY <1>2, <2>1, <3>2, <3>3 DEF Kept
  <2>8. /\ tab[t].save # "flushing" /\ tab'[t].save # "flushing"
        /\ tab[t].pc # "seeding"
    BY <1>4, <1>15, <2>1
  <2> QED BY <1>1, <1>2, <1>9, <2>1, <2>2, <2>3, <2>5, <2>6, <2>7, <2>8, RowStep
<1>16. ASSUME NEW f \in frames, HearDiff(f) \/ HearRelay(f) \/ HearAck(f) PROVE RowInv'
  <2> DEFINE t == f.tab
  <2>1. /\ t \in Tabs /\ Others(t) /\ frames' = frames \ {f}
        /\ UNCHANGED <<tab[t].version, tab[t].base, tab[t].made, tab[t].up, tab[t].save, tab[t].asked>>
        /\ UNCHANGED <<server, rows, projecting, behind, faults>>
        /\ HearAck(f) => /\ f.kind = "ack" /\ tab'[t].unacked = tab[t].unacked \ f.updates
                         /\ UNCHANGED <<tab[t].pc, tab[t].doc>>
        /\ ~HearAck(f) => tab'[t].doc = tab[t].doc \cup f.updates /\ UNCHANGED tab[t].unacked
        /\ HearRelay(f) => f.kind = "relay" /\ UNCHANGED tab[t].pc
        /\ HearDiff(f) => /\ f.kind = "diff"
                          /\ tab'[t].pc = IF tab[t].pc = "joining" THEN "open" ELSE tab[t].pc
    BY <1>16, HearMoves
  <2>2. Current(t) /\ server.exists /\ tab[t].pc \in {"joining", "open"}
    BY <1>4, <1>5, <1>6, <2>1 DEF Current
  <2> HIDE DEF t
  <2>3. tab'[t].pc \in {"joining", "open"}
    BY <1>16, <2>1, <2>2
  <2>4. Made(t)' = Made(t) /\ Asked(t)' = Asked(t) /\ Bases' = Bases /\ Current(t)'
    BY <2>1, <2>2, <2>3, BasesStay DEF Made, Asked, Current, Compatible
  <2>6. tab'[t].unacked \subseteq tab[t].unacked /\ \A g \in frames' : g \in frames
    BY <2>1
  <2>5. Made(t)' \ tab'[t].unacked \subseteq server'.stored
    <3>1. CASE HearAck(f)
      <4>1. f.updates \subseteq server.stored
        BY <1>1, <2>1, <3>1
      <4> QED BY <1>2, <2>1, <2>2, <2>4, <3>1, <4>1
    <3>2. CASE ~HearAck(f)
      BY <1>2, <2>1, <2>2, <2>4, <3>2
    <3> QED BY <3>1, <3>2
  <2>7. tab'[t].save = "posting" => Asked(t)' \cap tab'[t].unacked = {}
    BY <1>2, <2>1, <2>4, <2>6
  <2>8. tab'[t].asked <= tab'[t].made /\ tab'[t].pc # "seeding"
    BY <1>2, <2>1, <2>3
  <2> QED BY <1>9, <2>1, <2>2, <2>4, <2>5, <2>6, <2>7, <2>8, RowStep
\* Steps of no tab: f.tab stands for the one that is looked at.
<1>17. ASSUME NEW t \in Tabs, tab[t].up, UNCHANGED <<tab, rows, projecting, behind>>,
              server'.version = server.version, server'.exists, server.stored \subseteq server'.stored,
              \A f \in frames' : f.kind = "ack" => f \in frames \/ f.updates \subseteq server'.stored
       PROVE  RowInv'
  <2>1. Current(t) /\ server.exists /\ Others(t)
    BY <1>4, <1>6, <1>17 DEF Others
  <2>2. /\ Made(t)' = Made(t) /\ Acknowledged(t)' = Acknowledged(t) /\ Asked(t)' = Asked(t)
        /\ Bases' = Bases /\ Current(t)' = Current(t)
    BY <1>17 DEF Made, Acknowledged, Asked, Bases, Current, Compatible
  <2>3. tab[t].pc # "seeding" /\ tab'[t] = tab[t]
    BY <1>17, <2>1 DEF Current
  <2> QED BY <1>2, <1>9, <1>17, <2>1, <2>2, <2>3, RowStep
<1>18. ASSUME NEW f \in frames, ReceiveEdit(f) PROVE RowInv'
  <2>1. /\ f.tab \in Tabs /\ tab[f.tab].up /\ f.updates \in SUBSET Updates
        /\ UNCHANGED <<tab, rows, projecting, behind>> /\ Record(f.updates)
        /\ frames' \subseteq frames \cup {Frame("ack", f.tab, f.updates)} \cup Relay(f.updates)
    BY <1>5, <1>18, TypesOf DEF ReceiveEdit
  <2>2. /\ server'.version = server.version /\ server'.exists
        /\ server'.stored = server.stored \cup f.updates
    BY <2>1, RecordTypes
  <2>3. /\ \A g \in Relay(f.updates) : g.kind = "relay"
        /\ Frame("ack", f.tab, f.updates).updates = f.updates
    BY DEF Relay, Frame
  <2> QED BY <1>17, <2>1, <2>2, <2>3
<1>19. ASSUME NEW t \in Tabs, Resync(t) PROVE RowInv'
  <2>1. /\ UNCHANGED <<tab, server, rows, projecting, behind>> /\ frames' = frames \cup Handshake(t)
        /\ tab[t].up
    BY <1>19 DEF Resync
  <2>2. \A f \in Handshake(t) : f.kind # "ack"
    BY DEF Handshake, Frame
  <2> QED BY <1>4, <1>6, <1>17, <2>1, <2>2
<1>20. ASSUME NEW f \in frames, RecordFails(f) PROVE RowInv'
  <2>1. UNCHANGED <<tab, server, rows, projecting, behind>> /\ frames' = frames \ {f}
    BY <1>20 DEF RecordFails
  <2> QED BY <1>4, <1>5, <1>6, <1>17, <2>1
<1>21. projecting \in [Projectors -> [on: BOOLEAN, doc: SUBSET Updates, late: BOOLEAN]]
  BY TypesOf
\* A projection begins.
<1>22. ASSUME NEW p \in Projectors, ProjectRead(p), UNCHANGED <<server, rows, behind, frames>>,
              Bases' = Bases, \A t \in Tabs : t # p => tab'[t] = tab[t],
              p \in Tabs => SavesAreSound(p)' /\ tab'[p].save = "flushing"
       PROVE  RowInv'
  <2>1. /\ server.exists /\ ~projecting[p].on
        /\ projecting' = [projecting EXCEPT ![p] = [on |-> TRUE, doc |-> server.stored, late |-> FALSE]]
    BY <1>22 DEF ProjectRead
  <2>2. /\ projecting'[p] = [on |-> TRUE, doc |-> server.stored, late |-> FALSE]
        /\ \A q \in Projectors : q # p => projecting'[q] = projecting[q]
    BY <1>21, <2>1
  <2>3. ASSUME NEW t \in Tabs, tab'[t].save = "saved"
        PROVE  tab[t].save = "saved" /\ Asked(t)' = Asked(t)
    <3>1. tab'[t] = tab[t]
      BY <1>22, <2>3
    <3> QED BY <2>3, <3>1 DEF Asked
  <2>4. ASSUME NEW q \in Projectors, projecting'[q].on PROVE ProjectionIsSound(q)'
    <3>1. CASE q = p
      <4>1. \A r \in Projectors : projecting'[r].on => Comparable(server.stored, projecting'[r].doc)
        BY <1>3, <2>2 DEF Comparable
      <4>2. \A t \in Tabs : tab'[t].save = "saved" => Asked(t)' \subseteq Says(server.stored, Bases)
        BY <1>2, <2>1, <2>3 DEF Kept
      <4> QED BY <1>1, <1>22, <2>1, <2>2, <3>1, <4>1, <4>2 DEF ProjectionIsSound, Comparable
    <3>2. CASE q # p
      <4>1. projecting'[q] = projecting[q] /\ projecting[q].on
        BY <2>2, <2>4, <3>2
      <4>2. \A r \in Projectors : projecting'[r].on => Comparable(projecting[q].doc, projecting'[r].doc)
        BY <1>3, <2>2, <4>1 DEF Comparable
      <4>3. ~projecting[q].late => \A t \in Tabs :
                tab'[t].save = "saved" => Asked(t)' \subseteq Says(projecting[q].doc, Bases)
        BY <1>3, <2>3, <4>1
      <4> QED BY <1>3, <1>22, <4>1, <4>2, <4>3 DEF ProjectionIsSound
    <3> QED BY <3>1, <3>2
  <2>5. ASSUME NEW r \in Tabs PROVE SavesAreSound(r)'
    <3>1. CASE r = p
      BY <1>22, <3>1
    <3>2. CASE r # p
      <4>1. /\ tab'[r] = tab[r] /\ Current(r)' = Current(r) /\ Compatible(r)' = Compatible(r)
            /\ Made(r)' = Made(r) /\ Acknowledged(r)' = Acknowledged(r) /\ Asked(r)' = Asked(r)
        BY <1>22, <3>2 DEF Current, Compatible, Made, Acknowledged, Asked
      <4>2. projecting'[r] = projecting[r] /\ Kept' = Kept
        BY <1>22, <2>2, <3>2 DEF Projectors, Kept
      <4> QED BY <1>2, <1>22, <4>1, <4>2 DEF SavesAreSound
    <3> QED BY <3>1, <3>2
  <2>6. \A q \in Projectors : ProjectionIsSound(q)'
    BY <2>4 DEF ProjectionIsSound
  <2> QED BY <1>1, <1>22, <2>1, <2>5, <2>6 DEF RowInv
\* A projection ends.
<1>23. ASSUME NEW p \in Projectors, ProjectWrite(p), UNCHANGED <<server, frames>>, Bases' = Bases,
              \A t \in Tabs : t # p => tab'[t] = tab[t],
              p \in Tabs => SavesAreSound(p)'
       PROVE  RowInv'
  <2>1. /\ projecting[p].on /\ rows' = Says(projecting[p].doc, Bases) /\ ~projecting'[p].on
        /\ \A q \in Projectors : q # p =>
             /\ projecting'[q].on = projecting[q].on /\ projecting'[q].doc = projecting[q].doc
             /\ projecting'[q].on => projecting'[q].late
        /\ behind' = (projecting[p].late /\ (behind \/ ~(rows \subseteq rows')))
    BY <1>23, WriteTypes, ContentIs DEF ProjectWrite
  <2>2. /\ server.exists /\ projecting[p].doc \subseteq server.stored
        /\ \A q \in Projectors : projecting[q].on => Comparable(projecting[p].doc, projecting[q].doc)
    BY <1>3, <2>1
  <2>3. ASSUME NEW q \in Projectors, projecting'[q].on PROVE ProjectionIsSound(q)'
    <3>1. /\ q # p /\ projecting[q].on /\ projecting'[q].late /\ projecting'[q].doc = projecting[q].doc
      BY <2>1, <2>3
    <3>2. Comparable(rows', Says(projecting[q].doc, Bases))
      <4>1. CASE projecting[p].doc \subseteq projecting[q].doc
        BY <2>1, <4>1, SayingGrows DEF Comparable
      <4>2. CASE projecting[q].doc \subseteq projecting[p].doc
        BY <2>1, <4>2, SayingGrows DEF Comparable
      <4> QED BY <2>2, <3>1, <4>1, <4>2 DEF Comparable
    <3>3. \A r \in Projectors :
              projecting'[r].on => projecting[r].on /\ projecting'[r].doc = projecting[r].doc
      BY <2>1
    <3> QED BY <1>3, <1>23, <3>1, <3>2, <3>3 DEF ProjectionIsSound
  <2>4. rows' \subseteq Says(server.stored, Bases)
    BY <2>1, <2>2, SayingGrows
  <2>5. ASSUME NEW r \in Tabs PROVE SavesAreSound(r)'
    <3>1. CASE r = p
      BY <1>23, <3>1
    <3>2. CASE r # p
      <4>1. /\ tab'[r] = tab[r] /\ Current(r)' = Current(r) /\ Compatible(r)' = Compatible(r)
            /\ Made(r)' = Made(r) /\ Acknowledged(r)' = Acknowledged(r) /\ Asked(r)' = Asked(r)
        BY <1>23, <3>2 DEF Current, Compatible, Made, Acknowledged, Asked
      <4>2. /\ projecting'[r].on = projecting[r].on /\ projecting'[r].doc = projecting[r].doc
            /\ Kept' = Kept
        BY <1>23, <2>1, <2>2, <3>2 DEF Projectors, Kept
      <4>3. tab[r].save = "saved" /\ ~behind' => Asked(r) \subseteq rows'
        <5> SUFFICES ASSUME tab[r].save = "saved", ~behind' PROVE Asked(r) \subseteq rows'
          OBVIOUS
        <5>1. CASE ~projecting[p].late
          BY <1>3, <2>1, <5>1
        <5>2. CASE projecting[p].late
          <6>1. ~behind /\ rows \subseteq rows'
            BY <2>1, <5>2
          <6> QED BY <1>2, <6>1
        <5> QED BY <5>1, <5>2
      <4> QED BY <1>2, <1>23, <2>2, <4>1, <4>2, <4>3 DEF SavesAreSound
    <3> QED BY <3>1, <3>2
  <2>6. \A q \in Projectors : ProjectionIsSound(q)'
    BY <2>3 DEF ProjectionIsSound
  <2> QED BY <1>1, <1>23, <2>2, <2>4, <2>5, <2>6 DEF RowInv
<1>24. ASSUME NEW t \in Tabs, Flush(t) \/ Flushed(t) PROVE RowInv'
  <2>1. /\ Others(t)
        /\ UNCHANGED <<tab[t].pc, tab[t].version, tab[t].base, tab[t].doc, tab[t].made,
                       tab[t].unacked, tab[t].up>>
        /\ UNCHANGED <<server, frames, faults>>
        /\ Flush(t) => tab[t].save = "posting" /\ tab'[t].save = "flushing"
        /\ Flushed(t) => tab[t].save = "flushing" /\ tab'[t].save = "saved"
        /\ tab'[t].asked = tab[t].asked
    <3>1. ~Save(t) /\ ~GiveUp(t)
      BY <1>24 DEF Flush, Flushed, Save, GiveUp
    <3> QED BY <1>24, <3>1, SaveMoves
  <2>2. /\ Made(t)' = Made(t) /\ Acknowledged(t)' = Acknowledged(t) /\ Asked(t)' = Asked(t)
        /\ Bases' = Bases /\ Current(t)' = Current(t)
    BY <2>1, BasesStay DEF Made, Acknowledged, Asked, Current, Compatible
  <2>3. t \in Projectors /\ tab[t].pc \notin {"closed", "seeding"}
    BY <1>4, <1>24, <2>1 DEF Projectors
  <2>4. CASE Flush(t)
    <3>1. /\ rows' = rows /\ server.exists /\ ProjectRead(t) /\ UNCHANGED behind
          /\ projecting' = [projecting EXCEPT ![t] = [on |-> TRUE, doc |-> server.stored, late |-> FALSE]]
      BY <2>4 DEF Flush, ProjectRead
    <3>2. projecting'[t].on /\ projecting'[t].doc = server.stored
      BY <1>21, <2>3, <3>1
    <3>3. Asked(t) \subseteq Says(server.stored, Bases)
      <4>1. Asked(t) \subseteq Acknowledged(t)
        BY <1>2, <2>1, <2>4, AskedIsAcknowledged
      <4> QED BY <1>2, <3>1, <4>1 DEF Kept
    <3>4. Kept' = Kept
      BY <2>1, <2>2, <3>1 DEF Kept
    <3>5. SavesAreSound(t)'
      BY <1>2, <2>1, <2>2, <2>3, <2>4, <3>1, <3>2, <3>3, <3>4 DEF SavesAreSound
    <3> QED BY <1>22, <2>1, <2>2, <2>3, <2>4, <3>1, <3>5 DEF Others
  <2>5. CASE Flushed(t)
    <3>1. ProjectWrite(t) /\ rows' = Says(projecting[t].doc, Bases)
      BY <2>5, ContentIs DEF Flushed, ProjectWrite
    <3>2. ~projecting'[t].on /\ projecting[t].on
      BY <2>3, <3>1, WriteTypes DEF ProjectWrite
    <3>3. server.exists /\ projecting[t].doc \subseteq server.stored
      BY <1>3, <2>3, <3>2
    <3>4. Asked(t) \subseteq rows' /\ rows' \subseteq Kept /\ Kept' = Kept
      BY <1>2, <2>1, <2>2, <2>5, <3>1, <3>3, SayingGrows DEF Kept
    <3>5. SavesAreSound(t)'
      BY <1>2, <2>1, <2>2, <2>3, <2>5, <3>2, <3>3, <3>4 DEF SavesAreSound
    <3> QED BY <1>23, <2>1, <2>2, <2>3, <3>1, <3>5 DEF Others
  <2> QED BY <1>24, <2>4, <2>5
<1>25. ASSUME NEW j \in Jobs, JobReads(j) \/ JobWrites(j) PROVE RowInv'
  <2>1. j \in Projectors /\ j \notin Tabs /\ tab' = tab
    BY <1>25, TabsAssumption DEF Projectors, JobReads, JobWrites
  <2>2. Bases' = Bases
    BY <2>1 DEF Bases
  <2>3. CASE JobReads(j)
    <3>1. ProjectRead(j) /\ UNCHANGED <<server, rows, behind, frames>>
      BY <2>3 DEF JobReads
    <3> QED BY <1>22, <2>1, <2>2, <3>1
  <2>4. CASE JobWrites(j)
    <3>1. ProjectWrite(j) /\ UNCHANGED <<server, frames>>
      BY <2>4 DEF JobWrites
    <3> QED BY <1>23, <2>1, <2>2, <3>1
  <2> QED BY <1>25, <2>3, <2>4
<1>26. CASE Reset
  <2>1. /\ \A t \in Tabs : tab[t].pc \in {"closed", "left"}
        /\ \A p \in Projectors : ~projecting[p].on
        /\ rows = Says(server.stored, Bases) /\ server.exists
        /\ UNCHANGED <<tab, rows, projecting, frames>> /\ server' = Destroyed
        /\ ~behind'
    BY <1>26, ContentIs DEF Reset, Orderly
  <2>2. ~server'.exists
    BY <2>1, TypesOf DEF Destroyed
  <2>3. Kept' = Kept
    BY <2>1, <2>2 DEF Kept
  <2>4. frames' = {} /\ \A t \in Tabs : ~Current(t) /\ ~Current(t)'
    BY <1>4, <1>5, <2>1 DEF Current
  <2>5. ASSUME NEW t \in Tabs PROVE SavesAreSound(t)'
    <3>1. Made(t)' = Made(t) /\ Acknowledged(t)' = Acknowledged(t) /\ Asked(t)' = Asked(t)
      BY <2>1 DEF Made, Acknowledged, Asked
    <3>2. ~projecting'[t].on /\ tab[t].save # "flushing" /\ tab[t].pc # "seeding"
      BY <1>2, <2>1 DEF Projectors
    <3>3. tab[t].save = "saved" => Asked(t) \subseteq rows'
      BY <1>2, <2>1 DEF Kept
    <3> QED BY <1>2, <2>1, <2>3, <2>4, <3>1, <3>2, <3>3 DEF SavesAreSound
  <2> QED BY <2>1, <2>2, <2>4, <2>5 DEF RowInv, ProjectionIsSound
<1>27. CASE Deploy
  <2>1. /\ tab' = [t \in Tabs |-> [tab[t] EXCEPT !.up = FALSE]] /\ frames' = {}
        /\ server.version = 1 /\ server'.version = 2 /\ ~server'.exists
        /\ \A p \in Projectors : ~projecting[p].on
        /\ projecting' = projecting /\ ~behind'
        /\ rows' = IF server.exists THEN Says(server.stored, Bases) ELSE rows
    BY <1>27, TypesOf, ContentIs DEF Deploy, Destroyed
  <2>2. rows' = Kept /\ Kept' = rows'
    BY <2>1 DEF Kept
  <2>3. ASSUME NEW t \in Tabs PROVE SavesAreSound(t)'
    <3>1. UNCHANGED <<tab[t].pc, tab[t].version, tab[t].made, tab[t].unacked, tab[t].save, tab[t].asked>>
      <4>1. tab[t] \in Tab /\ tab'[t] = [tab[t] EXCEPT !.up = FALSE]
        BY <2>1, TypesOf
      <4> QED BY <4>1 DEF Tab
    <3>2. Made(t)' = Made(t) /\ Acknowledged(t)' = Acknowledged(t) /\ Asked(t)' = Asked(t)
      BY <3>1 DEF Made, Acknowledged, Asked
    <3>3. ~Compatible(t)'
      <4>1. tab[t].version \in {1, 2}
        BY TypesOf DEF Tab, Versions
      <4> QED BY <1>4, <2>1, <3>1, <4>1 DEF Compatible
    <3>4. ~projecting[t].on
      BY <2>1 DEF Projectors
    <3> QED BY <1>2, <2>1, <2>2, <3>1, <3>2, <3>3, <3>4 DEF SavesAreSound, Current
  <2> QED BY <2>1, <2>3 DEF RowInv, ProjectionIsSound
<1> QED BY <1>10, <1>11, <1>12, <1>13, <1>14, <1>15, <1>16, <1>18, <1>19, <1>20, <1>24, <1>25, <1>26,
           <1>27, NextCases

LEMMA RowInvariance == ASSUME Orderly PROVE Spec => []RowInv
<1>1. Init => RowInv
  <2> SUFFICES ASSUME Init PROVE RowInv
    OBVIOUS
  <2>1. /\ ~server.exists /\ frames = {} /\ ~behind /\ \A p \in Projectors : ~projecting[p].on
        /\ \A t \in Tabs : /\ tab[t].pc = "closed" /\ tab[t].save = "no"
                            /\ tab[t].made = 0 /\ tab[t].asked = 0
    BY DEF Init, Off
  <2>2. ASSUME NEW t \in Tabs PROVE SavesAreSound(t)
    <3>1. Acknowledged(t) = {} /\ ~Current(t)
      BY <2>1, MadeIs DEF Acknowledged, Visible, Current
    <3> QED BY <2>1, <3>1 DEF SavesAreSound, Projectors
  <2> QED BY <2>1, <2>2 DEF RowInv, ProjectionIsSound
<1>2. TypeOK /\ LInv /\ SeedInv /\ RowInv /\ [Next]_vars => RowInv'
  <2>1. ASSUME RowInv, UNCHANGED vars PROVE RowInv'
    <3>1. UNCHANGED <<tab, server, rows, projecting, behind, frames>>
      BY <2>1 DEF vars
    <3>2. \A t \in Tabs : SavesAreSound(t)' = SavesAreSound(t)
      BY <3>1 DEF SavesAreSound, Current, Compatible, Acknowledged, Made, Asked, Kept, Bases
    <3>3. \A p \in Projectors : ProjectionIsSound(p)' = ProjectionIsSound(p)
      BY <3>1 DEF ProjectionIsSound, Asked, Bases
    <3>4. Bases' = Bases
      BY <3>1 DEF Bases
    <3> QED BY <2>1, <3>1, <3>2, <3>3, <3>4 DEF RowInv
  <2> QED BY <2>1, RowKept
<1> QED BY <1>1, <1>2, TypeCorrect, LayoutInvariance, SeedInvariance, PTL DEF Spec

\* A hard save that was answered left in the rows what its tab had typed as it
\* was asked for, and it stays there but for a projection that was overtaken
\* and writes an older version, until the next one that is not overtaken; as
\* long as nobody drops a document that is being edited
\* (ProjectDocsController#flush).
THEOREM SavedAlwaysInRows == ASSUME Orderly PROVE Spec => []SavedIsInRows
<1>1. RowInv => SavedIsInRows
  BY DEF RowInv, SavesAreSound, SavedIsInRows
<1> QED BY <1>1, RowInvariance, PTL

-----------------------------------------------------------------------------
(***************************************************************************)
(* The abstract specification, step by step.                               *)
(***************************************************************************)
LEMMA RecordedIs ==
    /\ Recorded = Says(server.stored, Bases) \cup rows
    /\ Recorded' = Says(server'.stored, Bases') \cup rows'
BY ContentIs DEF Recorded

\* What is acknowledged has been recorded.
AckedIsRecorded == Acked \subseteq Recorded

LEMMA AckedHolds == TypeOK /\ SeedInv /\ RowInv => AckedIsRecorded
<1> SUFFICES ASSUME TypeOK, SeedInv, RowInv, NEW t \in Tabs PROVE Acknowledged(t) \subseteq Recorded
  BY DEF AckedIsRecorded, Acked
<1>1. Kept \subseteq Recorded
  BY RecordedIs DEF Kept
<1> QED BY <1>1, AckedIsKept

LEMMA AckedStays ==
    ASSUME \A t \in Tabs : Acknowledged(t)' = Acknowledged(t)
    PROVE  Acked' = Acked
<1>1. Acked' = UNION {Acknowledged(t)' : t \in Tabs}
  BY DEF Acked
<1> QED BY <1>1 DEF Acked

\* A step that shows in at most one of the three, the rows with what it says of
\* them.
LEMMA OneShows ==
    ASSUME TypeOK', AckedIsRecorded',
           Recorded \subseteq Recorded', Acked \subseteq Acked',
           rows \subseteq rows' \/ (behind' /\ rows' \subseteq rows),
           \/ UNCHANGED <<Acked, rows, behind>>
           \/ UNCHANGED <<Recorded, rows, behind>>
           \/ UNCHANGED <<Recorded, Acked>>
    PROVE  Promise!Next
<1>1. Recorded' \subseteq Content
  <2>1. server'.stored \subseteq Updates /\ rows' \subseteq Content
    BY DEF TypeOK
  <2>2. \A s \in Seeds : s[1] \in Tabs /\ tab'[s[1]].base \subseteq Content
    BY DEF TypeOK, Seeds
  <2>3. ContentOf(server.stored)' \subseteq Content
    BY <2>2 DEF ContentOf, Content
  <2> QED BY <2>1, <2>3 DEF Recorded
<1>2. rows' \subseteq Recorded' /\ Acked' \subseteq Recorded' /\ behind' \in BOOLEAN
  BY DEF Recorded, AckedIsRecorded, TypeOK
<1>3. CASE UNCHANGED <<Acked, rows, behind>>
  BY <1>1, <1>3 DEF Promise!Next, Promise!Record
<1>4. CASE UNCHANGED <<Recorded, rows, behind>>
  BY <1>2, <1>4 DEF Promise!Next, Promise!Acknowledge
<1>5. CASE UNCHANGED <<Recorded, Acked>>
  BY <1>2, <1>5 DEF Promise!Next, Promise!Publish
<1> QED BY <1>3, <1>4, <1>5

LEMMA StepIsPromised ==
    ASSUME Orderly, TypeOK, LInv, SeedInv, RowInv, TypeOK', AckedIsRecorded', Next
    PROVE  Promise!Next
<1>1. server.exists => rows \subseteq Says(server.stored, Bases)
  BY DEF RowInv
<1>2. ~server.exists => server.stored = {}
  BY DEF SeedInv
<1>3. ASSUME NEW t \in Tabs, Others(t), UNCHANGED <<tab[t].made, tab[t].unacked>>
      PROVE  Acked' = Acked
  <2>1. ASSUME NEW r \in Tabs PROVE Acknowledged(r)' = Acknowledged(r)
    BY <1>3 DEF Others, Acknowledged, Made
  <2> QED BY <2>1, AckedStays
\* The document grows, or nothing shows.
<1>4. ASSUME NEW t \in Tabs, Others(t), UNCHANGED <<tab[t].made, tab[t].unacked, tab[t].base>>,
             UNCHANGED <<rows, behind>>, server.stored \subseteq server'.stored
      PROVE  Promise!Next
  <2>1. Acked' = Acked /\ Bases' = Bases
    BY <1>3, <1>4, BasesStay
  <2>2. Recorded \subseteq Recorded'
    BY <1>4, <2>1, RecordedIs, SayingGrows
  <2> QED BY <1>4, <2>1, <2>2, OneShows
<1>5. ASSUME NEW t \in Tabs, Load(t) PROVE Promise!Next
  <2>1. /\ Others(t) /\ tab[t].pc = "closed"
        /\ UNCHANGED <<tab[t].made, tab[t].unacked>> /\ UNCHANGED <<server, rows, behind>>
    BY <1>5, LoadMoves
  <2>2. Says(server.stored, Bases') = Says(server.stored, Bases)
    <3>1. \A s \in server.stored \cap Seeds : s[1] \in Tabs /\ s[1] # t
      BY <2>1 DEF LInv, Spoken, Seeds
    <3>2. \A s \in server.stored \cap Seeds : Bases'[s[1]] = Bases[s[1]]
      BY <2>1, <3>1 DEF Bases, Others
    <3> HIDE DEF Bases
    <3> QED BY <3>2, SayingStays
  <2> QED BY <1>3, <2>1, <2>2, RecordedIs, OneShows
<1>6. ASSUME NEW t \in Tabs,
             SeedLost(t) \/ SeedPost(t) \/ SeedRefused(t) \/ Reject(t) \/ CheckOutdated(t)
      PROVE  Promise!Next
  <2>1. Others(t) /\ UNCHANGED <<tab[t].made, tab[t].unacked, tab[t].base, rows, behind>>
    BY <1>6, PlaceMoves
  <2>2. server.stored \subseteq server'.stored
    BY <1>2, <1>6 DEF SeedLost, SeedPost, SeedRefused, Reject, CheckOutdated
  <2> QED BY <1>4, <2>1, <2>2
<1>7. ASSUME NEW t \in Tabs, Subscribe(t) PROVE Promise!Next
  <2>1. Others(t) /\ UNCHANGED <<tab[t].made, tab[t].unacked, tab[t].base, rows, behind>>
    BY <1>7, SubscribeMoves
  <2>2. server.stored \subseteq server'.stored
    <3>1. server' = server \/ (Record(Missing(t)) /\ Missing(t) \in SUBSET Updates)
      BY <1>7, HandshakeTypes DEF Subscribe, Accept
    <3> QED BY <3>1, RecordTypes
  <2> QED BY <1>4, <2>1, <2>2
<1>8. ASSUME NEW t \in Tabs, Edit(t) PROVE Promise!Next
  <2> DEFINE u == <<t, tab[t].made + 1>>
  <2>1. /\ Others(t) /\ tab'[t].made = tab[t].made + 1 /\ tab'[t].unacked = tab[t].unacked \cup {u}
        /\ UNCHANGED <<tab[t].base, server, rows, behind>>
    BY <1>8, EditMoves
  <2>2. tab[t].made \in Nat
    BY DEF TypeOK
  <2>3. Made(t)' \ tab'[t].unacked = Made(t) \ tab[t].unacked
    BY <2>1, <2>2 DEF Made
  <2>4. ASSUME NEW r \in Tabs PROVE Acknowledged(r)' = Acknowledged(r)
    BY <2>1, <2>3 DEF Others, Acknowledged, Made
  <2>5. Acked' = Acked /\ Bases' = Bases
    BY <2>1, <2>4, AckedStays, BasesStay
  <2> QED BY <2>1, <2>5, RecordedIs, OneShows
<1>9. ASSUME NEW t \in Tabs, Drop(t) \/ Leave(t) PROVE Promise!Next
  <2>1. Others(t) /\ UNCHANGED <<tab[t].made, tab[t].unacked, tab[t].base, rows, behind, server>>
    BY <1>9, DropMoves DEF Drop, Leave
  <2> QED BY <1>4, <2>1
\* A projection ends: one that was not overtaken publishes more.
<1>20. ASSUME NEW p \in Projectors, ProjectWrite(p), server' = server, Acked' = Acked, Bases' = Bases
       PROVE  Promise!Next
  <2>1. /\ projecting[p].on /\ rows' = Says(projecting[p].doc, Bases)
        /\ behind' = (projecting[p].late /\ (behind \/ ~(rows \subseteq rows')))
    BY <1>20, ContentIs DEF ProjectWrite
  <2>2. /\ server.exists /\ projecting[p].doc \subseteq server.stored
        /\ Comparable(rows, rows') /\ (~projecting[p].late => rows \subseteq rows')
    BY <2>1 DEF RowInv, ProjectionIsSound
  <2>3. rows \subseteq rows' \/ (behind' /\ rows' \subseteq rows)
    BY <2>1, <2>2 DEF Comparable
  <2>4. rows' \subseteq Says(server.stored, Bases)
    BY <2>1, <2>2, SayingGrows
  <2>5. Recorded' = Recorded
    BY <1>1, <1>20, <2>2, <2>4, RecordedIs
  <2> QED BY <1>20, <2>3, <2>5, OneShows
<1>10. ASSUME NEW t \in Tabs,
              \/ Save(t) \/ WhenAcknowledged(t) \/ Flush(t) \/ FlushNothing(t)
              \/ Flushed(t) \/ GiveUp(t)
       PROVE  Promise!Next
  <2>1. Others(t) /\ UNCHANGED <<tab[t].made, tab[t].unacked, tab[t].base, server>>
    BY <1>10, SaveMoves
  <2>2. CASE Flushed(t)
    <3>1. ProjectWrite(t) /\ t \in Projectors
      BY <2>2 DEF Projectors, Flushed
    <3>2. Acked' = Acked /\ Bases' = Bases
      BY <1>3, <2>1, BasesStay
    <3> QED BY <1>20, <2>1, <3>1, <3>2
  <2>3. CASE ~Flushed(t)
    <3>1. UNCHANGED <<rows, behind>>
      BY <1>10, <2>3 DEF Save, WhenAcknowledged, Flush, FlushNothing, GiveUp
    <3> QED BY <1>4, <2>1, <3>1
  <2> QED BY <2>2, <2>3
<1>11. ASSUME NEW f \in frames, HearDiff(f) \/ HearRelay(f) \/ HearAck(f) PROVE Promise!Next
  <2> DEFINE t == f.tab
  <2>1. /\ t \in Tabs /\ Others(t) /\ UNCHANGED <<tab[t].made, tab[t].base, server, rows, behind>>
        /\ HearAck(f) => tab'[t].unacked = tab[t].unacked \ f.updates
        /\ ~HearAck(f) => UNCHANGED tab[t].unacked
    BY <1>11, HearMoves
  <2> HIDE DEF t
  <2>2. Made(t)' = Made(t) /\ Bases' = Bases
    BY <2>1, BasesStay DEF Made
  <2>3. ASSUME NEW r \in Tabs PROVE Acknowledged(r) \subseteq Acknowledged(r)'
    <3>1. CASE r = t
      <4>1. Made(t) \ tab[t].unacked \subseteq Made(t)' \ tab'[t].unacked
        BY <2>1, <2>2
      <4> QED BY <3>1, <4>1, SayingGrows DEF Acknowledged
    <3>2. CASE r # t
      BY <2>1, <3>2 DEF Others, Acknowledged, Made
    <3> QED BY <3>1, <3>2
  <2>4. Acked \subseteq Acked'
    <3>1. Acked' = UNION {Acknowledged(r)' : r \in Tabs}
      BY DEF Acked
    <3> QED BY <2>3, <3>1 DEF Acked
  <2> QED BY <2>1, <2>2, <2>4, RecordedIs, OneShows
\* Steps of no tab: f.tab stands for the one that is looked at.
<1>12. ASSUME NEW f \in frames, ReceiveEdit(f) PROVE Promise!Next
  <2>1. f.tab \in Tabs /\ f.updates \in SUBSET Updates /\ UNCHANGED <<tab, rows, behind>> /\ Record(f.updates)
    BY <1>12, TypesOf DEF ReceiveEdit
  <2> QED BY <1>4, <2>1, RecordTypes DEF Others
<1>13. ASSUME UNCHANGED <<tab, rows>>, Recorded' = Recorded PROVE Promise!Next
  <2>1. \A r \in Tabs : Acknowledged(r)' = Acknowledged(r)
    BY <1>13 DEF Acknowledged, Made
  <2> QED BY <1>13, <2>1, AckedStays, OneShows
<1>14. UNCHANGED tab => Bases' = Bases
  BY DEF Bases
<1>15. CASE \/ \E t \in Tabs : Resync(t)
            \/ \E f \in frames : RecordFails(f)
            \/ \E j \in Jobs : JobReads(j)
  <2>1. UNCHANGED <<tab, server, rows>>
    BY <1>15 DEF Resync, RecordFails, JobReads
  <2> QED BY <1>13, <1>14, <2>1, RecordedIs
<1>16. ASSUME NEW j \in Jobs, JobWrites(j) PROVE Promise!Next
  <2>1. /\ UNCHANGED <<tab, server>> /\ ProjectWrite(j) /\ j \in Projectors
    BY <1>16 DEF JobWrites, Projectors
  <2>2. \A r \in Tabs : Acknowledged(r)' = Acknowledged(r)
    BY <2>1 DEF Acknowledged, Made
  <2> QED BY <1>14, <1>20, <2>1, <2>2, AckedStays
<1>17. Says({}, Bases') = {}
  BY DEF Says, Visible
<1>18. CASE Reset
  <2>1. UNCHANGED <<tab, rows>> /\ rows = Says(server.stored, Bases) /\ server' = Destroyed
    BY <1>18, ContentIs DEF Reset, Orderly
  <2>2. server'.stored = {}
    BY <2>1, TypesOf DEF Destroyed
  <2> QED BY <1>13, <1>17, <2>1, <2>2, RecordedIs
<1>19. CASE Deploy
  <2>1. /\ tab' = [t \in Tabs |-> [tab[t] EXCEPT !.up = FALSE]] /\ server'.stored = {}
        /\ rows' = IF server.exists THEN Says(server.stored, Bases) ELSE rows
    BY <1>19, TypesOf, ContentIs DEF Deploy, Destroyed
  <2>2. Recorded = rows'
    <3>1. Says({}, Bases) = {}
      BY DEF Says, Visible
    <3> QED BY <1>1, <1>2, <2>1, <3>1, RecordedIs
  <2>3. Recorded' = rows'
    BY <1>17, <2>1, RecordedIs
  <2>4. ASSUME NEW r \in Tabs PROVE Acknowledged(r)' = Acknowledged(r)
    <3>1. UNCHANGED <<tab[r].made, tab[r].unacked>>
      <4>1. tab[r] \in Tab /\ tab'[r] = [tab[r] EXCEPT !.up = FALSE]
        BY <2>1, TypesOf
      <4> QED BY <4>1 DEF Tab
    <3> QED BY <3>1 DEF Acknowledged, Made
  <2>5. rows \subseteq rows'
    BY <2>2 DEF Recorded
  <2> QED BY <2>2, <2>3, <2>4, <2>5, AckedStays, OneShows
<1> QED BY <1>5, <1>6, <1>7, <1>8, <1>9, <1>10, <1>11, <1>12, <1>15, <1>16, <1>18, <1>19, NextCases

\* The session keeps the promise of SharedDocument: what is acknowledged is
\* recorded, nothing recorded is lost and the rows are versions of it, which
\* only grow but for projections that were overtaken, across drops, failed
\* requests, resets and deployments (ProjectDocProjectionJob), as long as
\* nobody drops a document that is being edited.
THEOREM KeepsThePromise == ASSUME Orderly PROVE Spec => ImplementsSharedDocument
<1>1. Init => Promise!Init
  <2> SUFFICES ASSUME Init PROVE Promise!Init
    OBVIOUS
  <2>1. server.stored = {} /\ rows = {Original} /\ behind = FALSE
        /\ \A t \in Tabs : tab[t].made = 0
    BY DEF Init
  <2>2. Says({}, Bases) = {}
    BY DEF Says, Visible
  <2>3. \A t \in Tabs : Acknowledged(t) = {}
    BY <2>1, MadeIs DEF Acknowledged, Visible
  <2>4. Acked = {}
    BY <2>3 DEF Acked
  <2> QED BY <2>1, <2>2, <2>4, RecordedIs DEF Promise!Init
<1>2. TypeOK /\ LInv /\ SeedInv /\ RowInv /\ TypeOK' /\ AckedIsRecorded' /\ [Next]_vars
        => [Promise!Next]_(Promise!vars)
  <2>1. ASSUME UNCHANGED vars PROVE UNCHANGED Promise!vars
    <3>1. UNCHANGED <<tab, server, rows, behind>>
      BY <2>1 DEF vars
    <3>2. Bases' = Bases /\ \A t \in Tabs : Acknowledged(t)' = Acknowledged(t)
      BY <3>1 DEF Bases, Acknowledged, Made
    <3> QED BY <3>1, <3>2, AckedStays, RecordedIs DEF Promise!vars
  <2> QED BY <2>1, StepIsPromised
<1> QED BY <1>1, <1>2, AckedHolds, TypeCorrect, LayoutInvariance, SeedInvariance, RowInvariance, PTL
        DEF Spec, ImplementsSharedDocument, Promise!Spec
=============================================================================
