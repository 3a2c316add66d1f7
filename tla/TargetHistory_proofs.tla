------------------------ MODULE TargetHistory_proofs ------------------------
(***************************************************************************)
(* Proofs about TargetHistory for any number of builds and processes and   *)
(* any size of the retention window.  What the public link resolves to is  *)
(* reviewed, and what is stored is bounded, under every overlap; that the  *)
(* pointers match the rows and the window spares what it must is promised  *)
(* while processes take turns.                                             *)
(***************************************************************************)
EXTENDS TargetHistory, FiniteSetTheorems, WellFoundedInduction, TLAPS

USE NBuildsAssumption, FlaggedAssumption, NoneAssumption, KeptAssumption

-----------------------------------------------------------------------------
\* A non-empty set of builds has a newest one: there is a least distance to
\* NBuilds, since the order of the naturals is well founded.
LEMMA MaxIsThere ==
    ASSUME NEW S \in SUBSET Builds, S # {}
    PROVE  Max(S) \in S /\ \A x \in S : Max(S) >= x
<1> DEFINE R == OpToRel(<, Nat)
           T == {NBuilds - x : x \in S}
<1>1. IsWellFoundedOn(R, Nat)
  BY NatLessThanWellFounded
<1>2. T \subseteq Nat /\ T # {}
  <2>1. \A x \in S : NBuilds - x \in Nat
    BY DEF Builds
  <2> QED BY <2>1
<1> HIDE DEF R, T
<1>3. PICK m \in T : \A y \in T : ~(<<y, m>> \in R)
  BY <1>1, <1>2, WFMin
<1>4. \A y \in T : ~(y < m)
  <2>1. \A y \in T : <<y, m>> \in R <=> y < m
    BY <1>2 DEF R, OpToRel
  <2> QED BY <1>3, <2>1
<1>5. PICK x \in S : m = NBuilds - x
  BY DEF T
<1>6. \A y \in S : NBuilds - y \in T
  BY DEF T
<1>7. \A y \in S : x >= y
  BY <1>4, <1>5, <1>6 DEF Builds
<1> QED BY <1>7 DEF Max

LEMMA NewestIn ==
    ASSUME NEW S \in SUBSET Builds
    PROVE  /\ Newest(S) \in BuildOrNone
           /\ Newest(S) = None <=> S = {}
           /\ S # {} => Newest(S) \in S /\ \A x \in S : Newest(S) >= x
BY MaxIsThere DEF Newest, BuildOrNone, Builds

\* The newest one stays when another one goes, and a newer one replaces it.
LEMMA NewestWithout ==
    ASSUME NEW S \in SUBSET Builds, NEW v, v # Newest(S)
    PROVE  Newest(S \ {v}) = Newest(S)
<1>1. CASE S = {}
  BY <1>1
<1>2. CASE S # {}
  <2> DEFINE m == Newest(S)
             n == Newest(S \ {v})
  <2>1. m \in S \ {v} /\ \A x \in S : m >= x
    BY <1>2, NewestIn
  <2>2. n \in S \ {v} /\ \A x \in S \ {v} : n >= x
    BY <2>1, NewestIn
  <2> HIDE DEF m, n
  <2>3. m \in Nat /\ n \in Nat
    BY <2>1, <2>2 DEF Builds
  <2>4. m = n
    BY <2>1, <2>2, <2>3
  <2> QED BY <2>4 DEF m, n
<1> QED BY <1>1, <1>2

LEMMA RowsAreBuilds ==
    /\ Rows \in SUBSET Builds
    /\ LiveCandidates \in SUBSET Builds
    /\ \A s : With(s) \in SUBSET Builds
    /\ LiveCandidates \subseteq Rows
BY DEF Rows, LiveCandidates, With

-----------------------------------------------------------------------------
\* Whoever writes a success back has read one, and an acceptance is of a
\* flagged build.
Accepting(at) ==
    /\ at.pc \in {"accepting", "logging"} => at.build \in Builds
    /\ at.pc = "accepting" => at.build \in Flagged

\* Nobody has read, or written, a live build that is not reviewed: acceptances
\* are never taken back.
ReadsAreReviewed ==
    /\ ServedIsReviewed
    /\ \A p \in Procs : proc[p].current \in Flagged => proc[p].current \in errors_accepted
    /\ \A p \in Procs : Accepting(proc[p])

LEMMA LiveIsReviewed ==
    ASSUME NEW S \in SUBSET LiveCandidates, Newest(S) \in Flagged
    PROVE  Newest(S) \in errors_accepted
<1>1. S # {}
  BY DEF Newest, Builds
<1> QED BY <1>1, RowsAreBuilds, NewestIn DEF LiveCandidates

Place ==
    [pc: {"idle", "saving", "accepting", "logging", "sync", "synced_latest", "synced",
          "keep", "keep_rest", "select", "destroy", "destroying"},
     build: BuildOrNone, latest: BuildOrNone, current: BuildOrNone,
     prune: BOOLEAN, set: SUBSET Builds]

LEMMA AtIsPlace ==
    ASSUME NEW pc \in {"idle", "saving", "accepting", "logging", "sync", "synced_latest", "synced",
                       "keep", "keep_rest", "select", "destroy", "destroying"},
           NEW build \in BuildOrNone, NEW latest \in BuildOrNone, NEW current \in BuildOrNone,
           NEW prune \in BOOLEAN, NEW set \in SUBSET Builds
    PROVE  At(pc, build, latest, current, prune, set) \in Place
BY DEF At, Place

\* A process moves to a place; what it may write meanwhile keeps the types,
\* and no pointer but a reviewed one is written.
Moves(p, place) ==
    /\ place \in Place
    /\ place.current \in Flagged => place.current \in errors_accepted'
    /\ Accepting(place)
    /\ proc' = [proc EXCEPT ![p] = place]

Writes(p) ==
    /\ status' \in [Builds -> Status] /\ made' \in 0..NBuilds
    /\ errors_accepted' \in SUBSET Flagged /\ errors_accepted \subseteq errors_accepted'
    /\ latest_build' \in BuildOrNone /\ current_build' \in {current_build, proc[p].current}
    /\ restored' \in SUBSET Builds

LEMMA MoveKeeps ==
    ASSUME TypeOK, ReadsAreReviewed, NEW p \in Procs, NEW place, Moves(p, place), Writes(p),
           overlapped' \in BOOLEAN
    PROVE  (TypeOK /\ ReadsAreReviewed)'
<1>1. \A q \in Procs : proc'[q] = IF q = p THEN place ELSE proc[q]
  BY DEF Moves, TypeOK
<1>2. proc \in [Procs -> Place]
  BY DEF TypeOK, Place
<1>3. proc' \in [Procs -> Place]
  BY <1>2 DEF Moves
<1>4. proc[p].current \in BuildOrNone
  BY <1>2 DEF Place
<1>5. TypeOK'
  BY <1>3, <1>4 DEF TypeOK, Place, Writes
<1>6. (\A q \in Procs : Accepting(proc[q]))'
  BY <1>1 DEF ReadsAreReviewed, Moves, Accepting
<1>7. ReadsAreReviewed'
  BY <1>1, <1>6 DEF ReadsAreReviewed, ServedIsReviewed, Moves, Writes
<1> QED BY <1>5, <1>7

LEMMA EveryoneMoves ==
    ASSUME TypeOK, ReadsAreReviewed, Work
    PROVE  \E p \in Procs, place \in Place : Moves(p, place) /\ Writes(p)
<1> USE AtIsPlace, RowsAreBuilds
<1>1. Idle \in Place /\ Idle.current = None /\ Accepting(Idle)
  BY DEF Idle, At, Place, BuildOrNone, Accepting
<1>2. Newest(LiveCandidates) \in BuildOrNone
      /\ (Newest(LiveCandidates) \in Flagged => Newest(LiveCandidates) \in errors_accepted)
  BY NewestIn, LiveIsReviewed
<1>3. Newest(Rows) \in BuildOrNone /\ None \in BuildOrNone /\ None \notin Flagged
  BY NewestIn DEF BuildOrNone, Builds
<1>4. PICK p \in Procs :
        \/ CreateRead(p) \/ CreateCommit(p)
        \/ \E b \in Builds : \E s \in {"unresolved", "success", "failed"} : Mark(p, b, s)
        \/ \E b \in Builds : Delete(p, b) \/ \E pc \in {"accepting", "logging"} : ReadSuccess(p, b, pc)
        \/ WriteSuccess(p)
        \/ SyncLatest(p) \/ SyncCurrent(p) \/ SyncWrite(p)
        \/ PruneKeep(p) \/ PruneKeepRest(p) \/ PruneSelect(p) \/ PruneError(p)
        \/ DestroyRead(p) \/ DestroyCommit(p) \/ Revert(p)
  BY DEF Work
<1> DEFINE at == proc[p]
<1>5. /\ at \in Place
      /\ at.current \in Flagged => at.current \in errors_accepted
      /\ Accepting(at)
  BY DEF TypeOK, Place, ReadsAreReviewed
<1>6. /\ at.build \in BuildOrNone /\ at.latest \in BuildOrNone /\ at.current \in BuildOrNone
      /\ at.prune \in BOOLEAN /\ at.set \in SUBSET Builds
  BY <1>5 DEF Place
<1> HIDE DEF at
<1> SUFFICES \E place \in Place : Moves(p, place) /\ Writes(p)
  OBVIOUS
<1>7. UNCHANGED <<status, errors_accepted, pointers, made, restored>> => Writes(p)
  BY DEF Writes, TypeOK, pointers
<1>8. CASE CreateRead(p)
  <2> DEFINE place == At("saving", made', Newest(Rows \cup {made'}), Newest(LiveCandidates), FALSE, {})
  <2>1. made' \in Builds /\ made' \in 0..NBuilds
    BY <1>8 DEF CreateRead, TypeOK, Builds
  <2>2. Newest(Rows \cup {made'}) \in BuildOrNone
    BY <2>1, NewestIn
  <2>3. place \in Place /\ place.current = Newest(LiveCandidates) /\ Accepting(place)
    BY <1>2, <2>1, <2>2 DEF At, Place, BuildOrNone, Accepting
  <2>4. errors_accepted' = errors_accepted /\ proc' = [proc EXCEPT ![p] = place]
    BY <1>8 DEF CreateRead
  <2>5. Writes(p)
    BY <1>8, <2>1 DEF CreateRead, Writes, TypeOK, pointers
  <2> HIDE DEF place
  <2> QED BY <1>2, <2>3, <2>4, <2>5 DEF Moves
<1>9. CASE CreateCommit(p)
  <2>1. Moves(p, Idle)
    BY <1>1, <1>3, <1>9 DEF CreateCommit, Moves
  <2>2. Writes(p)
    BY <1>6, <1>9 DEF CreateCommit, Writes, TypeOK, Status, at
  <2> QED BY <1>1, <2>1, <2>2
<1>10. CASE \E b \in Builds : \E s \in {"unresolved", "success", "failed"} : Mark(p, b, s)
  <2>1. PICK b \in Builds, s \in {"unresolved", "success", "failed"} : Mark(p, b, s)
    BY <1>10
  <2> DEFINE place == At("sync", IF s = "success" THEN b ELSE None, None, None, s = "success", {})
  <2>2. place \in Place /\ place.current = None /\ Accepting(place)
    BY <1>3 DEF At, Place, BuildOrNone, Accepting
  <2>3. proc' = [proc EXCEPT ![p] = place]
    BY <2>1 DEF Mark
  <2>4. Writes(p)
    BY <2>1 DEF Mark, Writes, TypeOK, Status, pointers
  <2> HIDE DEF place
  <2> QED BY <1>3, <2>2, <2>3, <2>4 DEF Moves
<1>11. ASSUME NEW b \in Builds, NEW pc \in {"accepting", "logging"}, ReadSuccess(p, b, pc)
       PROVE  \E place \in Place : Moves(p, place) /\ Writes(p)
  <2> DEFINE place == At(pc, b, None, None, FALSE, {})
  <2>1. place \in Place /\ place.current = None /\ Accepting(place)
    BY <1>3, <1>11 DEF ReadSuccess, At, Place, BuildOrNone, Accepting
  <2>2. proc' = [proc EXCEPT ![p] = place] /\ Writes(p)
    BY <1>7, <1>11 DEF ReadSuccess
  <2> HIDE DEF place
  <2> QED BY <1>3, <2>1, <2>2 DEF Moves
<1>22. CASE WriteSuccess(p)
  <2> DEFINE place == At("sync", None, None, None, FALSE, {})
  <2>1. place \in Place /\ place.current = None /\ Accepting(place)
    BY <1>3 DEF At, Place, Accepting
  <2>2. proc' = [proc EXCEPT ![p] = place]
    BY <1>22 DEF WriteSuccess
  <2>3. Writes(p)
    <3>1. at.pc = "accepting" => at.build \in Flagged
      BY <1>5, <1>22 DEF Accepting, WriteSuccess, at
    <3>2. errors_accepted' \in SUBSET Flagged /\ errors_accepted \subseteq errors_accepted'
      BY <1>22, <3>1 DEF WriteSuccess, TypeOK, at
    <3>3. status' \in [Builds -> Status]
      BY <1>22 DEF WriteSuccess, TypeOK, Status
    <3>4. restored' \in SUBSET Builds
      <4>1. at.build \in Builds
        BY <1>5, <1>22 DEF Accepting, WriteSuccess, at
      <4> QED BY <1>22, <4>1 DEF WriteSuccess, TypeOK, at
    <3> QED BY <1>22, <3>2, <3>3, <3>4 DEF WriteSuccess, Writes, TypeOK, pointers
  <2> HIDE DEF place
  <2> QED BY <1>3, <2>1, <2>2, <2>3 DEF Moves
<1>23. ASSUME NEW b \in Builds, Delete(p, b)
       PROVE  \E place \in Place : Moves(p, place) /\ Writes(p)
  <2> DEFINE place == At("destroy", None, None, None, FALSE, {b})
  <2>1. place \in Place /\ place.current = None /\ Accepting(place)
    BY <1>3 DEF At, Place, Accepting
  <2>2. proc' = [proc EXCEPT ![p] = place] /\ Writes(p)
    BY <1>7, <1>23 DEF Delete
  <2> HIDE DEF place
  <2> QED BY <1>3, <2>1, <2>2 DEF Moves
<1>12. CASE SyncLatest(p)
  <2> DEFINE place == At("synced_latest", at.build, Newest(Rows), None, at.prune, {})
  <2>1. place \in Place /\ place.current = None /\ Accepting(place)
    BY <1>3, <1>6 DEF At, Place, Accepting
  <2>2. proc' = [proc EXCEPT ![p] = place] /\ Writes(p)
    BY <1>7, <1>12 DEF SyncLatest, at
  <2> HIDE DEF place
  <2> QED BY <1>3, <2>1, <2>2 DEF Moves
<1>13. CASE SyncCurrent(p)
  <2> DEFINE place == At("synced", at.build, at.latest, Newest(LiveCandidates), at.prune, {})
  <2>1. place \in Place /\ place.current = Newest(LiveCandidates) /\ Accepting(place)
    BY <1>2, <1>6 DEF At, Place, Accepting
  <2>2. proc' = [proc EXCEPT ![p] = place] /\ Writes(p) /\ errors_accepted' = errors_accepted
    BY <1>7, <1>13 DEF SyncCurrent, at
  <2> HIDE DEF place
  <2> QED BY <1>2, <2>1, <2>2 DEF Moves
<1>14. CASE SyncWrite(p)
  <2> DEFINE place == IF at.prune THEN At("keep", at.build, None, at.current, TRUE, {}) ELSE Idle
  <2>1. place \in Place /\ place.current \in {None, at.current} /\ Accepting(place)
    BY <1>1, <1>3, <1>6 DEF At, Place, Accepting
  <2>2. proc' = [proc EXCEPT ![p] = place] /\ errors_accepted' = errors_accepted
    BY <1>14 DEF SyncWrite, at
  <2>3. Writes(p)
    BY <1>6, <1>14 DEF SyncWrite, Writes, TypeOK, at
  <2> HIDE DEF place
  <2> QED BY <1>3, <1>5, <2>1, <2>2, <2>3 DEF Moves
<1>15. CASE PruneKeep(p)
  <2> DEFINE place == At("keep_rest", at.build, None, at.current, TRUE, KeptWindow)
  <2>1. KeptWindow \in SUBSET Builds
    BY DEF KeptWindow, NewestOf
  <2>2. place \in Place /\ place.current = at.current /\ Accepting(place)
    BY <1>3, <1>6, <2>1 DEF At, Place, Accepting
  <2>3. proc' = [proc EXCEPT ![p] = place] /\ Writes(p) /\ errors_accepted' = errors_accepted
    BY <1>7, <1>15 DEF PruneKeep, at
  <2> HIDE DEF place
  <2> QED BY <1>5, <2>2, <2>3 DEF Moves
<1>16. CASE PruneKeepRest(p)
  <2> DEFINE place == At("select", at.build, None, None, TRUE, at.set \cup KeptAnyway(at.current))
  <2>1. KeptAnyway(at.current) \in SUBSET Builds
    BY <1>3, <1>6 DEF KeptAnyway, BuildOrNone
  <2>2. place \in Place /\ place.current = None /\ Accepting(place)
    BY <1>3, <1>6, <2>1 DEF At, Place, Accepting
  <2>3. proc' = [proc EXCEPT ![p] = place] /\ Writes(p)
    BY <1>7, <1>16 DEF PruneKeepRest, at
  <2> HIDE DEF place
  <2> QED BY <1>3, <2>2, <2>3 DEF Moves
<1>17. CASE PruneSelect(p)
  <2> DEFINE place == IF Rows \subseteq at.set THEN Idle
                      ELSE At("destroy", at.build, None, None, TRUE, Rows \ at.set)
  <2>1. place \in Place /\ place.current = None /\ Accepting(place)
    <3>1. Rows \ at.set \in SUBSET Builds
      BY <1>3
    <3>2. CASE Rows \subseteq at.set
      BY <1>1, <3>2
    <3>3. CASE ~(Rows \subseteq at.set)
      BY <1>3, <1>6, <3>1, <3>3 DEF At, Place, Accepting
    <3> QED BY <3>2, <3>3
  <2>2. proc' = [proc EXCEPT ![p] = place] /\ Writes(p)
    BY <1>7, <1>17 DEF PruneSelect, at
  <2> HIDE DEF place
  <2> QED BY <1>3, <2>1, <2>2 DEF Moves
<1>18. CASE PruneError(p)
  <2> DEFINE place == At("sync", None, None, None, FALSE, {})
  <2>1. place \in Place /\ place.current = None /\ Accepting(place)
    BY <1>3 DEF At, Place, Accepting
  <2>2. proc' = [proc EXCEPT ![p] = place]
    BY <1>18 DEF PruneError
  <2>3. Writes(p)
    BY <1>18 DEF PruneError, Writes, TypeOK, Status, pointers
  <2> HIDE DEF place
  <2> QED BY <1>3, <2>1, <2>2, <2>3 DEF Moves
<1>19. CASE DestroyRead(p)
  <2> DEFINE live == LiveCandidates \ {Victim(p)}
             place == At("destroying", at.build, Newest(Rows \ {Victim(p)}), Newest(live),
                         at.prune, at.set)
  <2>1. Newest(live) \in BuildOrNone /\ Newest(Rows \ {Victim(p)}) \in BuildOrNone
    BY NewestIn
  <2>2. Newest(live) \in Flagged => Newest(live) \in errors_accepted
    BY LiveIsReviewed
  <2>3. place \in Place /\ place.current = Newest(live) /\ Accepting(place)
    BY <1>6, <2>1 DEF At, Place, Accepting
  <2>4. proc' = [proc EXCEPT ![p] = place] /\ Writes(p) /\ errors_accepted' = errors_accepted
    BY <1>7, <1>19 DEF DestroyRead, at
  <2> HIDE DEF place, live
  <2> QED BY <2>2, <2>3, <2>4 DEF Moves
<1>20. CASE DestroyCommit(p)
  <2> DEFINE place == IF at.set = {Victim(p)} THEN Idle
                      ELSE At("destroy", at.build, None, None, at.prune, at.set \ {Victim(p)})
  <2>1. place \in Place /\ place.current = None /\ Accepting(place)
    <3>1. at.set \ {Victim(p)} \in SUBSET Builds
      BY <1>6
    <3>2. CASE at.set = {Victim(p)}
      BY <1>1, <3>2
    <3>3. CASE at.set # {Victim(p)}
      BY <1>3, <1>6, <3>1, <3>3 DEF At, Place, Accepting
    <3> QED BY <3>2, <3>3
  <2>2. proc' = [proc EXCEPT ![p] = place]
    BY <1>20 DEF DestroyCommit, at
  <2>3. Writes(p)
    BY <1>6, <1>20 DEF DestroyCommit, Writes, TypeOK, Status, at
  <2> HIDE DEF place
  <2> QED BY <1>3, <2>1, <2>2, <2>3 DEF Moves
<1>21. CASE Revert(p)
  <2> DEFINE place == At("destroy", None, None, None, FALSE, {current_build})
  <2>1. current_build \in Builds
    BY <1>21 DEF Revert
  <2>2. place \in Place /\ place.current = None /\ Accepting(place)
    BY <1>3, <2>1 DEF At, Place, Accepting
  <2>3. proc' = [proc EXCEPT ![p] = place] /\ Writes(p)
    BY <1>7, <1>21 DEF Revert
  <2> HIDE DEF place
  <2> QED BY <1>3, <2>2, <2>3 DEF Moves
<1> QED BY <1>4, <1>8, <1>9, <1>10, <1>11, <1>12, <1>13, <1>14, <1>15, <1>16, <1>17, <1>18, <1>19,
           <1>20, <1>21, <1>22, <1>23

LEMMA Reviewed == Spec => [](TypeOK /\ ReadsAreReviewed)
<1>1. Init => TypeOK /\ ReadsAreReviewed
  <2> SUFFICES ASSUME Init PROVE TypeOK /\ ReadsAreReviewed
    OBVIOUS
  <2>1. Idle \in Place /\ Idle.current = None /\ None \in BuildOrNone /\ None \notin Flagged
    BY DEF Idle, At, Place, BuildOrNone, Builds
  <2>2. proc \in [Procs -> Place] /\ \A p \in Procs : proc[p].current = None
    BY <2>1 DEF Init
  <2>3. status \in [Builds -> Status] /\ made \in 0..NBuilds
    BY DEF Init, Status
  <2>4. TypeOK
    BY <2>1, <2>2, <2>3 DEF Init, TypeOK, Place
  <2>5. \A p \in Procs : Accepting(proc[p])
    BY DEF Init, Idle, At, Accepting
  <2> QED BY <2>1, <2>2, <2>4, <2>5 DEF Init, ReadsAreReviewed, ServedIsReviewed
<1>2. TypeOK /\ ReadsAreReviewed /\ [Next]_vars => (TypeOK /\ ReadsAreReviewed)'
  <2> SUFFICES ASSUME TypeOK, ReadsAreReviewed, [Next]_vars PROVE (TypeOK /\ ReadsAreReviewed)'
    OBVIOUS
  <2>1. CASE Next
    <3>1. Work /\ overlapped' \in BOOLEAN
      BY <2>1 DEF Next, TypeOK
    <3> QED BY <3>1, EveryoneMoves, MoveKeeps
  <2>2. CASE UNCHANGED vars
    BY <2>2 DEF vars, TypeOK, ReadsAreReviewed, ServedIsReviewed, Accepting
  <2> QED BY <2>1, <2>2
<1> QED BY <1>1, <1>2, PTL DEF Spec

\* Every variable of TargetHistory keeps its type.
THEOREM TypeCorrect == Spec => []TypeOK
BY Reviewed, PTL

\* However many processes read and write the pointer, and however stale what
\* they write is, the served build has no errors its author did not accept
\* (live_candidates, sync_from_builds!).
THEOREM ServedAlwaysReviewed == Spec => []ServedIsReviewed
<1>1. ReadsAreReviewed => ServedIsReviewed
  BY DEF ReadsAreReviewed
<1> QED BY <1>1, Reviewed, PTL

-----------------------------------------------------------------------------
\* While the processes take turns, what each has read still holds.
Settled == latest_build = Newest(Rows) /\ current_build = Newest(LiveCandidates)

PointersNameRows == {latest_build, current_build} \ {None} \subseteq Rows

UnmadeAreNone == \A b \in Builds : b > made => status[b] = "none"

Doomed(at) ==
    /\ Settled
    /\ at.set # {} /\ at.set \subseteq Rows
    /\ at.prune => \A v \in at.set : status[v] # "unresolved" /\ v # current_build

PlaceHolds(at) ==
    /\ at.pc # "idle" /\ at.build # None => at.build <= made
    /\ at.pc = "saving" => /\ at.build \in Builds /\ status[at.build] = "none"
                           /\ at.latest = Newest(Rows \cup {at.build})
                           /\ at.current = Newest(LiveCandidates)
    /\ at.pc \in {"accepting", "logging"} => at.build \in Rows
    /\ at.pc = "synced_latest" => at.latest = Newest(Rows)
    /\ at.pc = "synced" => at.latest = Newest(Rows) /\ at.current = Newest(LiveCandidates)
    /\ at.pc \in {"keep", "keep_rest"} => Settled /\ at.current = current_build
    /\ at.pc = "select" => /\ Settled /\ With("unresolved") \subseteq at.set
                           /\ current_build # None => current_build \in at.set
    /\ at.pc \in {"destroy", "destroying"} => Doomed(at)
    /\ at.pc = "destroying" => /\ at.latest = Newest(Rows \ {Max(at.set)})
                               /\ at.current = Newest(LiveCandidates \ {Max(at.set)})

TurnsInv ==
    /\ \A p, q \in Procs : Busy(p) /\ Busy(q) => p = q
    /\ PointersNameRows /\ UnmadeAreNone
    /\ \A p \in Procs : PlaceHolds(proc[p])
    /\ Quiet => Settled

SettleInv == ~overlapped => TurnsInv

LEMMA SettledNamesRows == ASSUME Settled PROVE PointersNameRows
BY RowsAreBuilds, NewestIn DEF Settled, PointersNameRows

\* One process moves, the others are idle.
LEMMA OneMoves ==
    ASSUME NEW p \in Procs,
           \A q \in Procs : q # p => proc'[q] = proc[q] /\ proc[q].pc = "idle",
           PointersNameRows', UnmadeAreNone', PlaceHolds(proc[p])', (~Busy(p) => Settled)'
    PROVE  TurnsInv'
<1>1. \A q \in Procs : q # p => proc'[q].pc = "idle"
  OBVIOUS
<1>2. \A q \in Procs : PlaceHolds(proc[q])'
  BY <1>1 DEF PlaceHolds
<1> QED BY <1>1, <1>2 DEF TurnsInv, Quiet, Busy

\* A step that changes no build and no pointer leaves what was read of them.
LEMMA NothingChanges ==
    ASSUME UNCHANGED <<status, errors_accepted, pointers>>
    PROVE  /\ Rows' = Rows /\ LiveCandidates' = LiveCandidates /\ \A s : With(s)' = With(s)
           /\ UNCHANGED <<latest_build, current_build>>
           /\ Settled' = Settled /\ PointersNameRows' = PointersNameRows
BY DEF Rows, LiveCandidates, With, Settled, PointersNameRows, pointers

LEMMA TurnsKept ==
    ASSUME TypeOK, SettleInv, Next, ~overlapped'
    PROVE  TurnsInv'
<1> USE RowsAreBuilds
<1>1. ~overlapped /\ TurnsInv
  BY DEF Next, SettleInv
<1>2. PICK p \in Procs :
        \/ CreateRead(p) \/ CreateCommit(p)
        \/ \E b \in Builds : \E s \in {"unresolved", "success", "failed"} : Mark(p, b, s)
        \/ \E b \in Builds : Delete(p, b) \/ \E pc \in {"accepting", "logging"} : ReadSuccess(p, b, pc)
        \/ WriteSuccess(p)
        \/ SyncLatest(p) \/ SyncCurrent(p) \/ SyncWrite(p)
        \/ PruneKeep(p) \/ PruneKeepRest(p) \/ PruneSelect(p) \/ PruneError(p)
        \/ DestroyRead(p) \/ DestroyCommit(p) \/ Revert(p)
  BY DEF Next, Work
<1> DEFINE at == proc[p]
<1>3. \A q \in Procs : q # p => proc'[q] = proc[q]
  BY <1>2 DEF TypeOK, CreateRead, CreateCommit, Mark, ReadSuccess, WriteSuccess, Delete, SyncLatest, SyncCurrent,
              SyncWrite, PruneKeep, PruneKeepRest, PruneSelect, PruneError, DestroyRead,
              DestroyCommit, Revert
<1>4. at.pc = "idle" => at'.pc # "idle"
  BY <1>2 DEF TypeOK, At, CreateRead, CreateCommit, Mark, ReadSuccess, WriteSuccess, Delete, SyncLatest, SyncCurrent,
              SyncWrite, PruneKeep, PruneKeepRest, PruneSelect, PruneError, DestroyRead,
              DestroyCommit, Revert
<1>5. \A q \in Procs : q # p => proc'[q] = proc[q] /\ proc[q].pc = "idle"
  <2> SUFFICES ASSUME NEW q \in Procs, q # p, proc[q].pc # "idle" PROVE FALSE
    BY <1>3
  <2>1. CASE at.pc = "idle"
    BY <1>3, <1>4, <2>1 DEF Next, Busy
  <2>2. CASE at.pc # "idle"
    BY <1>1, <2>2 DEF TurnsInv, Busy
  <2> QED BY <2>1, <2>2
<1>6. at.pc = "idle" => Settled
  BY <1>1, <1>5 DEF TurnsInv, Quiet, Busy
<1>7. /\ PointersNameRows /\ UnmadeAreNone /\ PlaceHolds(at)
      /\ made \in 0..NBuilds /\ status \in [Builds -> Status] /\ at \in Place /\ proc \in [Procs -> Place]
  BY <1>1 DEF TurnsInv, TypeOK, Place
<1>8. \A b \in Builds : status[b] # "none" => b <= made
  BY <1>7 DEF UnmadeAreNone, Builds
<1> SUFFICES PointersNameRows' /\ UnmadeAreNone' /\ PlaceHolds(at)' /\ (at.pc = "idle" => Settled)'
  BY <1>5, OneMoves DEF Busy
<1> HIDE DEF at
<1>9. ASSUME UNCHANGED <<status, errors_accepted, pointers, made>>
      PROVE  /\ PointersNameRows' /\ UnmadeAreNone' /\ Settled' = Settled
             /\ Rows' = Rows /\ LiveCandidates' = LiveCandidates /\ \A s : With(s)' = With(s)
             /\ UNCHANGED <<latest_build, current_build>>
  BY <1>7, <1>9, NothingChanges DEF UnmadeAreNone
<1>10. CASE CreateRead(p)
  <2>1. /\ at' = At("saving", made', Newest(Rows \cup {made'}), Newest(LiveCandidates), FALSE, {})
        /\ made' = made + 1 /\ made < NBuilds
        /\ UNCHANGED <<status, errors_accepted, pointers>>
    BY <1>7, <1>10 DEF CreateRead, at
  <2>2. made' \in Builds /\ status[made'] = "none" /\ UnmadeAreNone'
    BY <1>7, <2>1 DEF UnmadeAreNone, Builds
  <2>3. PlaceHolds(at)' /\ at'.pc = "saving"
    BY <2>1, <2>2, NothingChanges DEF PlaceHolds, At, Builds
  <2> QED BY <1>7, <2>1, <2>2, <2>3, NothingChanges
<1>11. CASE CreateCommit(p)
  <2> DEFINE b == at.build
  <2>1. /\ b \in Builds /\ status[b] = "none" /\ b <= made
        /\ at.latest = Newest(Rows \cup {b}) /\ at.current = Newest(LiveCandidates)
    BY <1>7, <1>11 DEF PlaceHolds, CreateCommit, at, Builds
  <2>2. /\ status' = [status EXCEPT ![b] = "unresolved"] /\ at' = Idle
        /\ latest_build' = at.latest /\ current_build' = at.current
        /\ UNCHANGED <<errors_accepted, made>>
    BY <1>7, <1>11 DEF CreateCommit, at
  <2> HIDE DEF b
  <2>3. Rows' = Rows \cup {b} /\ LiveCandidates' = LiveCandidates
    BY <1>7, <2>1, <2>2 DEF Rows, LiveCandidates, With
  <2>4. Settled'
    BY <2>1, <2>2, <2>3 DEF Settled
  <2>5. PointersNameRows' /\ UnmadeAreNone'
    <3>1. PointersNameRows'
      BY <2>2, <2>3, <2>4, <2>1, NewestIn DEF Settled, PointersNameRows
    <3>2. UnmadeAreNone'
      BY <1>7, <2>1, <2>2 DEF UnmadeAreNone, Builds
    <3> QED BY <3>1, <3>2
  <2>6. PlaceHolds(at)'
    BY <2>2 DEF PlaceHolds, Idle, At
  <2> QED BY <2>4, <2>5, <2>6
<1>12. ASSUME NEW b \in Rows, at'.pc = "sync", at'.build \in {b, None}, Rows' = Rows,
              \A c \in Builds : c # b => status'[c] = status[c],
              UNCHANGED <<pointers, made>>
       PROVE  PointersNameRows' /\ UnmadeAreNone' /\ PlaceHolds(at)' /\ (at.pc = "idle" => Settled)'
  <2>1. b \in Builds /\ b <= made
    BY <1>8 DEF Rows
  <2>2. PlaceHolds(at)'
    BY <1>12, <2>1 DEF PlaceHolds
  <2>3. UnmadeAreNone'
    BY <1>7, <1>12, <2>1 DEF UnmadeAreNone, Builds
  <2> QED BY <1>7, <1>12, <2>2, <2>3 DEF PointersNameRows, pointers
<1>13. CASE \E b \in Builds : \E s \in {"unresolved", "success", "failed"} : Mark(p, b, s)
  <2>1. PICK b \in Builds, s \in {"unresolved", "success", "failed"} : Mark(p, b, s)
    BY <1>13
  <2>2. /\ b \in Rows /\ status' = [status EXCEPT ![b] = s] /\ UNCHANGED <<pointers, made>>
        /\ at' = At("sync", IF s = "success" THEN b ELSE None, None, None, s = "success", {})
    BY <1>7, <2>1 DEF Mark, at
  <2>3. Rows' = Rows
    BY <1>7, <2>2 DEF Rows
  <2>4. at'.pc = "sync" /\ at'.build \in {b, None}
    BY <2>2 DEF At
  <2>5. \A c \in Builds : c # b => status'[c] = status[c]
    BY <1>7, <2>2
  <2> QED BY <1>12, <2>2, <2>3, <2>4, <2>5
<1>14. CASE WriteSuccess(p)
  <2> DEFINE b == at.build
  <2>1. b \in Rows
    BY <1>7, <1>14 DEF WriteSuccess, PlaceHolds, at
  <2>2. /\ UNCHANGED <<pointers, made>> /\ at' = At("sync", None, None, None, FALSE, {})
        /\ status' = [status EXCEPT ![b] = "success"]
    BY <1>7, <1>14, <2>1 DEF WriteSuccess, at, Rows
  <2> HIDE DEF b
  <2>3. Rows' = Rows
    BY <1>7, <2>1, <2>2 DEF Rows
  <2>4. at'.pc = "sync" /\ at'.build \in {b, None}
    BY <2>2 DEF At
  <2>5. \A c \in Builds : c # b => status'[c] = status[c]
    BY <1>7, <2>2
  <2> QED BY <1>12, <2>1, <2>2, <2>3, <2>4, <2>5
<1>23. ASSUME NEW b \in Builds, NEW pc \in {"accepting", "logging"}, ReadSuccess(p, b, pc)
       PROVE  PointersNameRows' /\ UnmadeAreNone' /\ PlaceHolds(at)' /\ (at.pc = "idle" => Settled)'
  <2>1. /\ at' = At(pc, b, None, None, FALSE, {}) /\ b \in Rows
        /\ UNCHANGED <<status, errors_accepted, pointers, made>>
    BY <1>7, <1>23 DEF ReadSuccess, at, Rows, With
  <2>2. PlaceHolds(at)' /\ at'.pc # "idle"
    BY <1>8, <1>9, <2>1 DEF PlaceHolds, At, Rows
  <2> QED BY <1>9, <2>1, <2>2
<1>15. ASSUME NEW set \in SUBSET Rows, set # {}, UNCHANGED <<status, errors_accepted, pointers, made>>,
              at' = At("destroy", None, None, None, FALSE, set), Settled
       PROVE  PointersNameRows' /\ UnmadeAreNone' /\ PlaceHolds(at)' /\ (at.pc = "idle" => Settled)'
  BY <1>9, <1>15 DEF PlaceHolds, Doomed, At
<1>16. CASE (\E b \in Builds : Delete(p, b)) \/ Revert(p)
  <2>1. ASSUME NEW b \in Builds, Delete(p, b)
        PROVE  /\ {b} \in SUBSET Rows /\ at' = At("destroy", None, None, None, FALSE, {b})
               /\ UNCHANGED <<status, errors_accepted, pointers, made>> /\ Settled
    BY <1>6, <1>7, <2>1 DEF Delete, at
  <2>2. ASSUME Revert(p)
        PROVE  /\ {current_build} \in SUBSET Rows /\ at' = At("destroy", None, None, None, FALSE, {current_build})
               /\ UNCHANGED <<status, errors_accepted, pointers, made>> /\ Settled
    BY <1>6, <1>7, <2>2 DEF Revert, at
  <2> QED BY <1>15, <1>16, <2>1, <2>2
<1>17. CASE SyncLatest(p) \/ SyncCurrent(p)
  <2>1. UNCHANGED <<status, errors_accepted, pointers, made>>
    BY <1>17 DEF SyncLatest, SyncCurrent
  <2>2. CASE SyncLatest(p)
    <3>1. at.pc = "sync" /\ at' = At("synced_latest", at.build, Newest(Rows), None, at.prune, {})
      BY <1>7, <2>2 DEF SyncLatest, at
    <3>2. PlaceHolds(at)' /\ at'.pc # "idle"
      BY <1>7, <1>9, <2>1, <3>1 DEF PlaceHolds, At
    <3> QED BY <1>9, <2>1, <3>2
  <2>3. CASE SyncCurrent(p)
    <3>1. /\ at.pc = "synced_latest"
          /\ at' = At("synced", at.build, at.latest, Newest(LiveCandidates), at.prune, {})
      BY <1>7, <2>3 DEF SyncCurrent, at
    <3>2. PlaceHolds(at)' /\ at'.pc # "idle"
      BY <1>7, <1>9, <2>1, <3>1 DEF PlaceHolds, At
    <3> QED BY <1>9, <2>1, <3>2
  <2> QED BY <1>17, <2>2, <2>3
<1>18. CASE SyncWrite(p)
  <2>1. /\ at.pc = "synced" /\ latest_build' = at.latest /\ current_build' = at.current
        /\ UNCHANGED <<status, errors_accepted, made>>
        /\ at' = IF at.prune THEN At("keep", at.build, None, at.current, TRUE, {}) ELSE Idle
    BY <1>7, <1>18 DEF SyncWrite, at
  <2>2. Rows' = Rows /\ LiveCandidates' = LiveCandidates /\ UnmadeAreNone'
    BY <1>7, <2>1 DEF Rows, LiveCandidates, With, UnmadeAreNone
  <2>3. Settled'
    BY <1>7, <2>1, <2>2 DEF Settled, PlaceHolds
  <2>4. PointersNameRows'
    BY <2>2, <2>3, NewestIn DEF Settled, PointersNameRows
  <2>5. PlaceHolds(at)'
    BY <1>7, <2>1, <2>3 DEF PlaceHolds, At, Idle
  <2> QED BY <2>2, <2>3, <2>4, <2>5
<1>19. CASE PruneKeep(p) \/ PruneKeepRest(p) \/ PruneSelect(p)
  <2>1. UNCHANGED <<status, errors_accepted, pointers, made>> /\ Settled
    BY <1>7, <1>19 DEF PruneKeep, PruneKeepRest, PruneSelect, PlaceHolds, at
  <2>2. CASE PruneKeep(p)
    <3>1. at.pc = "keep" /\ at' = At("keep_rest", at.build, None, at.current, TRUE, KeptWindow)
      BY <1>7, <2>2 DEF PruneKeep, at
    <3>2. PlaceHolds(at)'
      BY <1>7, <1>9, <2>1, <3>1 DEF PlaceHolds, At
    <3> QED BY <1>9, <2>1, <3>2
  <2>3. CASE PruneKeepRest(p)
    <3>1. /\ at.pc = "keep_rest"
          /\ at' = At("select", at.build, None, None, TRUE, at.set \cup KeptAnyway(at.current))
      BY <1>7, <2>3 DEF PruneKeepRest, at
    <3>2. /\ With("unresolved") \subseteq at.set \cup KeptAnyway(at.current)
          /\ current_build # None => current_build \in at.set \cup KeptAnyway(at.current)
      BY <1>7, <3>1 DEF PlaceHolds, KeptAnyway
    <3>3. PlaceHolds(at)'
      BY <1>7, <1>9, <2>1, <3>1, <3>2 DEF PlaceHolds, At
    <3> QED BY <1>9, <2>1, <3>3
  <2>4. CASE PruneSelect(p)
    <3>1. /\ at.pc = "select"
          /\ at' = IF Rows \subseteq at.set THEN Idle
                   ELSE At("destroy", at.build, None, None, TRUE, Rows \ at.set)
      BY <1>7, <2>4 DEF PruneSelect, at
    <3>2. CASE Rows \subseteq at.set
      <4>1. PlaceHolds(at)'
        BY <3>1, <3>2 DEF PlaceHolds, Idle, At
      <4> QED BY <1>9, <2>1, <4>1
    <3>3. CASE ~(Rows \subseteq at.set)
      <4> DEFINE set == Rows \ at.set
      <4>1. /\ set # {} /\ set \subseteq Rows /\ With("unresolved") \subseteq at.set
            /\ current_build # None => current_build \in at.set
        BY <1>7, <3>1, <3>3 DEF PlaceHolds
      <4>2. \A v \in set : status[v] # "unresolved" /\ v # current_build
        BY <4>1 DEF With, Builds
      <4>3. Doomed(at)'
        BY <1>9, <2>1, <3>1, <3>3, <4>1, <4>2 DEF Doomed, At
      <4>4. PlaceHolds(at)'
        BY <1>7, <3>1, <3>3, <2>1, <4>3 DEF PlaceHolds, At
      <4> QED BY <1>9, <2>1, <4>4
    <3> QED BY <3>2, <3>3
  <2> QED BY <1>19, <2>2, <2>3, <2>4
<1>20. CASE PruneError(p)
  <2>1. /\ status' = [status EXCEPT ![at.build] = IF @ = "gone" THEN @ ELSE "failed"]
        /\ at' = At("sync", None, None, None, FALSE, {}) /\ at.pc = "destroy"
        /\ UNCHANGED <<errors_accepted, pointers, made>>
    BY <1>7, <1>20 DEF PruneError, at
  <2>2. at.build \in Builds => at.build <= made
    BY <1>7, <2>1 DEF PlaceHolds, Builds
  <2>3. Rows \subseteq Rows'
    BY <1>7, <2>1 DEF Rows
  <2>4. UnmadeAreNone'
    BY <1>7, <2>1, <2>2 DEF UnmadeAreNone, Builds
  <2>5. PointersNameRows'
    BY <1>7, <2>1, <2>3 DEF PointersNameRows, pointers
  <2>6. PlaceHolds(at)' /\ at'.pc = "sync"
    BY <2>1 DEF PlaceHolds, At
  <2> QED BY <2>4, <2>5, <2>6
<1>21. CASE DestroyRead(p)
  <2>1. /\ at.pc = "destroy" /\ UNCHANGED <<status, errors_accepted, pointers, made>>
        /\ at' = At("destroying", at.build, Newest(Rows \ {Max(at.set)}),
                    Newest(LiveCandidates \ {Max(at.set)}), at.prune, at.set)
    BY <1>7, <1>21 DEF DestroyRead, Victim, at
  <2>2. Doomed(at)
    BY <1>7, <2>1 DEF PlaceHolds
  <2>3. Doomed(at)'
    BY <1>9, <2>1, <2>2 DEF Doomed, At
  <2>4. PlaceHolds(at)' /\ at'.pc = "destroying"
    BY <1>7, <1>9, <2>1, <2>3 DEF PlaceHolds, At
  <2> QED BY <1>9, <2>1, <2>4
<1>22. CASE DestroyCommit(p)
  <2> DEFINE v == Max(at.set)
  <2>1. /\ at.pc = "destroying" /\ UNCHANGED <<errors_accepted, made>>
        /\ status' = [status EXCEPT ![v] = "gone"]
        /\ latest_build' = at.latest /\ current_build' = at.current
        /\ at' = IF at.set = {v} THEN Idle
                 ELSE At("destroy", at.build, None, None, at.prune, at.set \ {v})
    BY <1>7, <1>22 DEF DestroyCommit, Victim, at
  <2>2. /\ Doomed(at) /\ at.latest = Newest(Rows \ {v}) /\ at.current = Newest(LiveCandidates \ {v})
    BY <1>7, <2>1 DEF PlaceHolds
  <2>3. v \in at.set /\ v \in Rows
    <3>1. at.set # {} /\ at.set \subseteq Rows
      BY <2>2 DEF Doomed
    <3>2. at.set \in SUBSET Builds
      BY <3>1
    <3> QED BY <3>1, <3>2, MaxIsThere
  <2> HIDE DEF v
  <2>4. Rows' = Rows \ {v} /\ LiveCandidates' = LiveCandidates \ {v}
    BY <1>7, <2>1, <2>3 DEF Rows, LiveCandidates, With
  <2>5. Settled'
    BY <2>1, <2>2, <2>4 DEF Settled
  <2>6. PointersNameRows'
    <3>1. Newest(Rows \ {v}) \in (Rows \ {v}) \cup {None}
      BY NewestIn DEF Newest
    <3>2. Newest(LiveCandidates \ {v}) \in (LiveCandidates \ {v}) \cup {None}
      BY NewestIn DEF Newest
    <3> QED BY <2>1, <2>2, <2>4, <3>1, <3>2 DEF PointersNameRows
  <2>7. UnmadeAreNone'
    <3>1. v \in Builds /\ v <= made
      BY <1>8, <2>3 DEF Rows
    <3> QED BY <1>7, <2>1, <3>1 DEF UnmadeAreNone, Builds
  <2>8. CASE at.set = {v}
    <3>1. PlaceHolds(at)'
      BY <2>1, <2>8 DEF PlaceHolds, Idle, At
    <3> QED BY <2>5, <2>6, <2>7, <3>1
  <2>9. CASE at.set # {v}
    <3>1. at.prune => current_build' = current_build
      <4>1. at.prune => v # Newest(LiveCandidates) /\ current_build = Newest(LiveCandidates)
        BY <2>2, <2>3 DEF Doomed, Settled
      <4> QED BY <2>1, <2>2, <4>1, NewestWithout
    <3>2. /\ at'.pc = "destroy" /\ at'.set = at.set \ {v} /\ at'.prune = at.prune
          /\ at'.build = at.build
      BY <2>1, <2>9 DEF At
    <3>3. at.set \subseteq Rows /\ (at.prune => \A w \in at.set : status[w] # "unresolved" /\ w # current_build)
      BY <2>2 DEF Doomed
    <3>4. \A w \in at.set \ {v} : status'[w] = status[w]
      BY <1>7, <2>1, <3>3
    <3>5. at.set \ {v} # {}
      BY <2>3, <2>9
    <3>6. Doomed(at)'
      BY <2>4, <2>5, <3>1, <3>2, <3>3, <3>4, <3>5 DEF Doomed
    <3>7. PlaceHolds(at)'
      BY <1>7, <2>1, <3>2, <3>6 DEF PlaceHolds
    <3> QED BY <2>5, <2>6, <2>7, <3>7
  <2> QED BY <2>8, <2>9
<1> QED BY <1>2, <1>10, <1>11, <1>13, <1>14, <1>16, <1>17, <1>18, <1>19, <1>20, <1>21, <1>22, <1>23

LEMMA SettleInvariance == Spec => []SettleInv
<1>1. Init => SettleInv
  <2> SUFFICES ASSUME Init PROVE TurnsInv
    BY DEF SettleInv
  <2>1. Rows = {} /\ LiveCandidates = {} /\ \A p \in Procs : proc[p].pc = "idle"
    BY DEF Init, Rows, LiveCandidates, With, Idle, At
  <2>2. Settled /\ PointersNameRows /\ UnmadeAreNone
    BY <2>1 DEF Init, Settled, PointersNameRows, UnmadeAreNone, Newest
  <2>3. \A p \in Procs : PlaceHolds(proc[p])
    BY <2>1 DEF PlaceHolds
  <2> QED BY <2>1, <2>2, <2>3 DEF TurnsInv, Busy
<1>2. TypeOK /\ SettleInv /\ [Next]_vars => SettleInv'
  <2> SUFFICES ASSUME TypeOK, SettleInv, [Next]_vars, ~overlapped' PROVE TurnsInv'
    BY DEF SettleInv
  <2>1. CASE Next
    BY <2>1, TurnsKept
  <2>2. CASE UNCHANGED vars
    <3>1. UNCHANGED <<status, errors_accepted, pointers, made, proc, overlapped>>
      BY <2>2 DEF vars, pointers
    <3>2. /\ Rows' = Rows /\ LiveCandidates' = LiveCandidates /\ \A s : With(s)' = With(s)
          /\ UNCHANGED <<latest_build, current_build>> /\ Settled' = Settled
          /\ PointersNameRows' = PointersNameRows
      BY <3>1, NothingChanges
    <3>3. ASSUME NEW p \in Procs, PlaceHolds(proc[p]) PROVE PlaceHolds(proc[p])'
      <4>1. Doomed(proc[p]) => Doomed(proc[p])'
        BY <3>1, <3>2 DEF Doomed
      <4> QED BY <3>1, <3>2, <3>3, <4>1 DEF PlaceHolds
    <3>4. TurnsInv
      BY <3>1 DEF SettleInv
    <3>5. UnmadeAreNone'
      BY <3>1, <3>4 DEF TurnsInv, UnmadeAreNone
    <3> QED BY <3>1, <3>2, <3>3, <3>4, <3>5 DEF TurnsInv, Busy, Quiet
  <2> QED BY <2>1, <2>2
<1> QED BY <1>1, <1>2, TypeCorrect, PTL DEF Spec

\* While processes take turns the pointers name rows that exist, and match
\* them once everybody is done (sync_from_builds!).
THEOREM PointersAlwaysSettle == Spec => []PointersSettle
<1>1. SettleInv => PointersSettle
  BY DEF SettleInv, TurnsInv, PointersSettle, PointersNameRows, Settled
<1> QED BY <1>1, SettleInvariance, PTL

\* And the retention window takes no build that owes an answer, nor the one
\* that is served (prune_builds!).
THEOREM PruneAlwaysSpares == Spec => PruneSpares
<1>1. TypeOK /\ SettleInv
        => [\A p \in Procs :
                DestroyCommit(p) /\ proc[p].prune /\ ~ overlapped
                => status[Victim(p)] # "unresolved" /\ Victim(p) # current_build]_vars
  <2> SUFFICES ASSUME TypeOK, SettleInv, NEW p \in Procs, DestroyCommit(p), proc[p].prune, ~overlapped
               PROVE  status[Victim(p)] # "unresolved" /\ Victim(p) # current_build
    OBVIOUS
  <2>1. PlaceHolds(proc[p]) /\ proc[p].pc = "destroying"
    BY DEF SettleInv, TurnsInv, DestroyCommit
  <2>2. Doomed(proc[p])
    BY <2>1 DEF PlaceHolds
  <2>3. proc[p].set \in SUBSET Builds /\ proc[p].set # {}
    BY <2>2, RowsAreBuilds DEF Doomed
  <2>4. Victim(p) \in proc[p].set
    BY <2>3, MaxIsThere DEF Victim
  <2> QED BY <2>2, <2>4 DEF Doomed
<1> QED BY <1>1, TypeCorrect, SettleInvariance, PTL DEF PruneSpares

-----------------------------------------------------------------------------
(***************************************************************************)
(* The storage.  A success is saved by a process that prunes after it, so  *)
(* only the order in which the processes choose what to keep matters: when *)
(* one of them is done, all that was a success as it chose is within the   *)
(* window it kept, but for the builds of those that chose after it or are  *)
(* still to choose.  One whose destruction fails takes its own build out.  *)
(***************************************************************************)
Successes == With("success") \ restored

Pruning(p) == Busy(p) /\ proc[p].prune
Chosen(p) == Pruning(p) /\ proc[p].pc \in {"keep_rest", "select", "destroy", "destroying"}

Order ==
    {order \in SUBSET (Procs \X Procs) :
        /\ \A p \in Procs : <<p, p>> \notin order
        /\ \A p, q, r \in Procs : <<p, q>> \in order /\ <<q, r>> \in order => <<p, r>> \in order}

After(order, p) == {q \in Procs : Pruning(q) /\ (Chosen(q) => <<p, q>> \in order)}
Own(P) == {proc[q].build : q \in P}
Old(order, p) == Successes \ Own(After(order, p))

Small(S) == Cardinality(S) <= KeptSuccesses + 1

\* The window that was kept, with whatever it leaves out older than all of it.
Aged(S, set) == Cardinality(set) <= KeptSuccesses /\ \A m \in S \ set : \A w \in set : w > m

\* Of the successes in S, what the process at a place leaves is not too many.
Leaves(at, S) ==
    /\ at.pc = "keep_rest" => Small(S) \/ Aged(S, at.set)
    /\ at.pc = "select" => Small(S \cap at.set)
    /\ at.pc \in {"destroy", "destroying"} => Small(S \ at.set)

StorageHolds(order) ==
    /\ Small(Successes \ Own({q \in Procs : Pruning(q)}))
    /\ \A p \in Procs : Chosen(p) => Leaves(proc[p], Old(order, p))

StorageInv == \E order \in Order : StorageHolds(order)

LEMMA SubsetsAreCounted ==
    ASSUME NEW T \in SUBSET Builds, NEW S \in SUBSET T
    PROVE  /\ IsFiniteSet(S) /\ Cardinality(S) \in Nat
           /\ Cardinality(S) <= Cardinality(T) /\ Cardinality(T) \in Nat
<1>1. IsFiniteSet(Builds)
  BY FS_Interval DEF Builds
<1>2. IsFiniteSet(T)
  BY <1>1, FS_Subset
<1> QED BY <1>2, FS_Subset, FS_CardinalityType

LEMMA FewerAreSmall ==
    ASSUME NEW T \in SUBSET Builds, NEW S \in SUBSET T, Small(T)
    PROVE  Small(S)
BY SubsetsAreCounted DEF Small

LEMMA MinIsThere ==
    ASSUME NEW S \in SUBSET Builds, S # {}
    PROVE  \E m \in S : \A x \in S : m <= x
<1> DEFINE R == OpToRel(<, Nat)
<1>1. IsWellFoundedOn(R, Nat)
  BY NatLessThanWellFounded
<1>2. S \subseteq Nat
  BY DEF Builds
<1> HIDE DEF R
<1>3. PICK m \in S : \A x \in S : ~(<<x, m>> \in R)
  BY <1>1, <1>2, WFMin
<1>4. \A x \in S : <<x, m>> \in R <=> x < m
  BY <1>2 DEF R, OpToRel
<1>5. ASSUME NEW x \in S PROVE m <= x
  <2>1. x \in Nat /\ m \in Nat /\ ~(x < m)
    BY <1>2, <1>3, <1>4
  <2> QED BY <2>1
<1> QED BY <1>5

\* What the window keeps is no more than its size, and the newest.
LEMMA WindowIsAged ==
    ASSUME NEW S \in SUBSET Builds
    PROVE  NewestOf(KeptSuccesses, S) \in SUBSET S /\ Aged(S, NewestOf(KeptSuccesses, S))
<1> DEFINE W == NewestOf(KeptSuccesses, S)
           Above(b) == {a \in S : a > b}
<1>1. W \in SUBSET S /\ W \in SUBSET Builds
  BY DEF NewestOf
<1>2. \A b \in S : /\ IsFiniteSet(Above(b)) /\ Cardinality(Above(b)) \in Nat
                   /\ b \in W <=> Cardinality(Above(b)) < KeptSuccesses
  <2> TAKE b \in S
  <2>1. Above(b) \in SUBSET S
    OBVIOUS
  <2>2. IsFiniteSet(Above(b)) /\ Cardinality(Above(b)) \in Nat
    BY <2>1, SubsetsAreCounted
  <2> QED BY <2>2 DEF NewestOf
<1>3. Cardinality(W) <= KeptSuccesses
  <2>1. CASE W = {}
    BY <2>1, FS_EmptySet
  <2>2. CASE W # {}
    <3>1. PICK w \in W : \A x \in W : w <= x
      BY <1>1, <2>2, MinIsThere
    <3>2. W \ {w} \in SUBSET Above(w)
      <4> SUFFICES ASSUME NEW x \in W, x # w PROVE x \in S /\ x > w
        OBVIOUS
      <4>1. x \in S /\ w <= x /\ x \in Nat /\ w \in Nat
        BY <1>1, <3>1 DEF Builds
      <4> QED BY <4>1
    <3>3. Above(w) \in SUBSET Builds
      OBVIOUS
    <3>4. Cardinality(W \ {w}) <= Cardinality(Above(w)) /\ Cardinality(W \ {w}) \in Nat
      BY <3>2, <3>3, SubsetsAreCounted
    <3>5. Cardinality(Above(w)) < KeptSuccesses /\ Cardinality(Above(w)) \in Nat
      BY <1>1, <1>2, <3>1
    <3>6. IsFiniteSet(W) /\ Cardinality(W) \in Nat
      BY <1>1, SubsetsAreCounted
    <3>7. Cardinality(W \ {w}) = Cardinality(W) - 1
      BY <3>1, <3>6, FS_RemoveElement
    <3> HIDE DEF W, Above
    <3> QED BY <3>4, <3>5, <3>6, <3>7
  <2> QED BY <2>1, <2>2
<1>4. ASSUME NEW m \in S \ W, NEW w \in W PROVE w > m
  <2>1. m \in Nat /\ w \in Nat /\ w # m /\ w \in S
    BY <1>1 DEF Builds
  <2>2. Cardinality(Above(w)) < KeptSuccesses /\ ~(Cardinality(Above(m)) < KeptSuccesses)
        /\ Cardinality(Above(w)) \in Nat /\ Cardinality(Above(m)) \in Nat
    BY <1>1, <1>2
  <2>3. CASE w < m
    <3>1. Above(m) \in SUBSET Above(w)
      <4> SUFFICES ASSUME NEW a \in S, a > m PROVE a > w
        OBVIOUS
      <4>1. a \in Nat
        BY DEF Builds
      <4> QED BY <2>1, <2>3, <4>1
    <3>2. Above(w) \in SUBSET Builds
      OBVIOUS
    <3>3. Cardinality(Above(m)) <= Cardinality(Above(w))
      BY <3>1, <3>2, SubsetsAreCounted
    <3> HIDE DEF Above
    <3> QED BY <2>2, <3>3
  <2> QED BY <2>1, <2>3
<1> QED BY <1>1, <1>3, <1>4 DEF Aged

\* Fewer successes leave fewer.
LEMMA LeavesLess ==
    ASSUME NEW at, NEW T \in SUBSET Builds, NEW S \in SUBSET T, Leaves(at, T)
    PROVE  Leaves(at, S)
<1>1. Small(T) => Small(S)
  BY FewerAreSmall
<1>2. Small(T \cap at.set) => Small(S \cap at.set)
  <2>1. T \cap at.set \in SUBSET Builds /\ S \cap at.set \in SUBSET (T \cap at.set)
    OBVIOUS
  <2> QED BY <2>1, FewerAreSmall
<1>3. Small(T \ at.set) => Small(S \ at.set)
  <2>1. T \ at.set \in SUBSET Builds /\ S \ at.set \in SUBSET (T \ at.set)
    OBVIOUS
  <2> QED BY <2>1, FewerAreSmall
<1>4. Aged(T, at.set) => Aged(S, at.set)
  BY DEF Aged
<1> QED BY <1>1, <1>2, <1>3, <1>4 DEF Leaves

LEMMA SmallLeavesLittle ==
    ASSUME NEW at, NEW S \in SUBSET Builds, Small(S)
    PROVE  Leaves(at, S)
<1>1. S \cap at.set \in SUBSET S /\ S \ at.set \in SUBSET S
  OBVIOUS
<1> QED BY <1>1, FewerAreSmall DEF Leaves

LEMMA SuccessesAreBuilds ==
    /\ Successes \in SUBSET Builds /\ Successes \subseteq Rows
    /\ \A order, p : Old(order, p) \in SUBSET Successes /\ Old(order, p) \in SUBSET Builds
BY DEF Successes, With, Rows, Old

\* A process p takes a step: what is a success afterwards was one, unless p has
\* still to choose and made it; and p goes on pruning, or its build is none.
LEMMA OldShrinks ==
    ASSUME NEW order \in Order, NEW p \in Procs,
           \A q \in Procs : q # p => proc'[q] = proc[q],
           \A m \in Successes' : m \in Successes \/ (Pruning(p)' /\ ~Chosen(p)' /\ m = proc'[p].build),
           Pruning(p) => \/ Pruning(p)' /\ proc'[p].build = proc[p].build /\ (Chosen(p)' => Chosen(p))
                         \/ proc[p].build \notin Successes'
    PROVE  /\ \A q \in Procs : Old(order, q)' \subseteq Old(order, q)
           /\ (Successes \ Own({q \in Procs : Pruning(q)}))'
                \subseteq Successes \ Own({q \in Procs : Pruning(q)})
<1>1. \A q \in Procs : q # p => Pruning(q)' = Pruning(q) /\ Chosen(q)' = Chosen(q)
  BY DEF Pruning, Chosen, Busy
<1>2. ASSUME NEW q \in Procs, NEW m \in Old(order, q)' PROVE m \in Old(order, q)
  <2>1. m \in Successes' /\ \A r \in Procs : Pruning(r)' /\ (Chosen(r)' => <<q, r>> \in order) => m # proc'[r].build
    BY <1>2 DEF Old, Own, After
  <2>2. m \in Successes
    BY <2>1
  <2>3. ASSUME NEW r \in Procs, Pruning(r), Chosen(r) => <<q, r>> \in order PROVE m # proc[r].build
    <3>1. CASE r = p
      BY <2>1, <2>3, <3>1
    <3>2. CASE r # p
      BY <1>1, <2>1, <2>3, <3>2
    <3> QED BY <3>1, <3>2
  <2> QED BY <2>2, <2>3 DEF Old, Own, After
<1>3. ASSUME NEW m \in (Successes \ Own({q \in Procs : Pruning(q)}))'
      PROVE  m \in Successes \ Own({q \in Procs : Pruning(q)})
  <2>1. m \in Successes' /\ \A r \in Procs : Pruning(r)' => m # proc'[r].build
    BY <1>3 DEF Own
  <2>2. m \in Successes
    BY <2>1
  <2>3. ASSUME NEW r \in Procs, Pruning(r) PROVE m # proc[r].build
    <3>1. CASE r = p
      BY <2>1, <2>3, <3>1
    <3>2. CASE r # p
      BY <1>1, <2>1, <2>3, <3>2
    <3> QED BY <3>1, <3>2
  <2> QED BY <2>2, <2>3 DEF Own
<1> QED BY <1>2, <1>3

LEMMA OrdinaryStep ==
    ASSUME NEW order \in Order, StorageHolds(order), NEW p \in Procs,
           \A q \in Procs : q # p => proc'[q] = proc[q],
           \A q \in Procs : Old(order, q)' \subseteq Old(order, q),
           (Successes \ Own({q \in Procs : Pruning(q)}))'
             \subseteq Successes \ Own({q \in Procs : Pruning(q)}),
           Chosen(p)' => Leaves(proc'[p], Old(order, p)')
    PROVE  StorageHolds(order)'
<1>1. Small(Successes \ Own({q \in Procs : Pruning(q)}))'
  <2>1. Successes \ Own({q \in Procs : Pruning(q)}) \in SUBSET Builds
    BY SuccessesAreBuilds
  <2>2. Small((Successes \ Own({q \in Procs : Pruning(q)}))')
    BY <2>1, FewerAreSmall DEF StorageHolds
  <2> QED BY <2>2 DEF Small
<1>2. ASSUME NEW q \in Procs, Chosen(q)' PROVE Leaves(proc[q], Old(order, q))'
  <2>1. CASE q = p
    BY <1>2, <2>1 DEF Leaves, Small, Aged
  <2>2. CASE q # p
    <3>1. Chosen(q) /\ proc'[q] = proc[q]
      BY <1>2, <2>2 DEF Chosen, Pruning, Busy
    <3>2. Leaves(proc[q], Old(order, q))
      BY <3>1 DEF StorageHolds
    <3>3. Old(order, q) \in SUBSET Builds /\ Old(order, q)' \in SUBSET Old(order, q)
      BY SuccessesAreBuilds
    <3>4. Leaves(proc[q], Old(order, q)')
      BY <3>2, <3>3, LeavesLess
    <3> QED BY <3>1, <3>4 DEF Leaves, Small, Aged
  <2> QED BY <2>1, <2>2
<1> QED BY <1>1, <1>2 DEF StorageHolds

\* A process that is done leaves, with the builds of those after it set aside,
\* few enough for everybody before it too.
LEMMA StepThatEnds ==
    ASSUME NEW order \in Order, StorageHolds(order), NEW p \in Procs,
           \A q \in Procs : q # p => proc'[q] = proc[q],
           Successes' \subseteq Successes, Chosen(p), ~Pruning(p)',
           Small(Successes' \ Own(After(order, p)))
    PROVE  StorageHolds(order)'
<1> DEFINE Rest == Successes' \ Own(After(order, p))
<1>1. /\ p \notin After(order, p)
      /\ \A q \in Procs : q # p => Pruning(q)' = Pruning(q) /\ Chosen(q)' = Chosen(q)
  BY DEF Pruning, Chosen, Busy, After, Order
<1>2. Rest \in SUBSET Builds
  BY SuccessesAreBuilds
<1>3. \A r \in After(order, p) : r \in Procs /\ r # p /\ Pruning(r)' /\ proc'[r].build = proc[r].build
  BY <1>1 DEF After
<1>4. Small(Successes \ Own({q \in Procs : Pruning(q)}))'
  <2>1. (Successes \ Own({q \in Procs : Pruning(q)}))' \in SUBSET Rest
    BY <1>3 DEF Own
  <2>2. Small((Successes \ Own({q \in Procs : Pruning(q)}))')
    BY <1>2, <2>1, FewerAreSmall
  <2> QED BY <2>2 DEF Small
<1>5. ASSUME NEW q \in Procs, Chosen(q)' PROVE Leaves(proc[q], Old(order, q))'
  <2>1. q # p /\ Chosen(q) /\ proc'[q] = proc[q]
    BY <1>1, <1>5 DEF Chosen
  <2>2. CASE <<q, p>> \in order
    <3>1. \A r \in After(order, p) : r \in Procs /\ Pruning(r)' /\ (Chosen(r)' => <<q, r>> \in order)
      BY <1>1, <1>3, <2>1, <2>2 DEF After, Order
    <3>2. Old(order, q)' \in SUBSET Rest
      BY <1>3, <3>1 DEF Old, Own, After
    <3>3. Small(Old(order, q)')
      BY <1>2, <3>2, FewerAreSmall
    <3>4. Leaves(proc'[q], Old(order, q)')
      BY <1>2, <3>2, <3>3, SmallLeavesLittle
    <3> QED BY <3>4 DEF Leaves, Small, Aged
  <2>3. CASE <<q, p>> \notin order
    <3>1. p \notin After(order, q)
      BY <2>3 DEF After
    <3>2. After(order, q) \subseteq After(order, q)'
      BY <1>1, <3>1 DEF After
    <3>3. \A r \in After(order, q) : r # p /\ proc'[r] = proc[r]
      BY <3>1 DEF After
    <3>4. Old(order, q)' \in SUBSET Old(order, q)
      BY <3>2, <3>3 DEF Old, Own
    <3>5. Leaves(proc[q], Old(order, q)) /\ Old(order, q) \in SUBSET Builds
      BY <2>1, SuccessesAreBuilds DEF StorageHolds
    <3>6. Leaves(proc'[q], Old(order, q)')
      BY <2>1, <3>4, <3>5, LeavesLess
    <3> QED BY <3>6 DEF Leaves, Small, Aged
  <2> QED BY <2>2, <2>3
<1> QED BY <1>4, <1>5 DEF StorageHolds

\* One that chooses what to keep does so after everybody else.
LEMMA StepThatChooses ==
    ASSUME NEW order \in Order, StorageHolds(order), NEW p \in Procs, TypeOK, PruneKeep(p), Pruning(p)
    PROVE  StorageInv'
<1> DEFINE new == {e \in Procs \X Procs : \/ e \in order /\ e[1] # p /\ e[2] # p
                                          \/ e[1] # p /\ e[2] = p}
<1>1. new \in Order
  <2>1. \A q, r \in Procs : <<q, r>> \in new <=> (<<q, r>> \in order /\ q # p /\ r # p) \/ (q # p /\ r = p)
    OBVIOUS
  <2> HIDE DEF new
  <2>2. \A q \in Procs : <<q, q>> \notin new
    BY <2>1 DEF Order
  <2>3. \A q, r, s \in Procs : <<q, r>> \in new /\ <<r, s>> \in new => <<q, s>> \in new
    BY <2>1 DEF Order
  <2>4. new \in SUBSET (Procs \X Procs)
    BY DEF new
  <2> QED BY <2>2, <2>3, <2>4 DEF Order
<1>2. /\ proc[p].pc = "keep" /\ proc'[p].pc = "keep_rest" /\ proc'[p].set = KeptWindow
      /\ proc'[p].build = proc[p].build /\ proc'[p].prune /\ Successes' = Successes
      /\ \A q \in Procs : q # p => proc'[q] = proc[q]
  BY DEF TypeOK, PruneKeep, At, Successes, With
<1>3. /\ \A q \in Procs : Pruning(q)' = Pruning(q) /\ proc'[q].build = proc[q].build
      /\ \A q \in Procs : q # p => Chosen(q)' = Chosen(q)
      /\ Chosen(p)' /\ ~Chosen(p)
  BY <1>2 DEF Pruning, Chosen, Busy
<1>4. Small(Successes \ Own({q \in Procs : Pruning(q)}))'
  <2>1. (Successes \ Own({q \in Procs : Pruning(q)}))' = Successes \ Own({q \in Procs : Pruning(q)})
    BY <1>2, <1>3 DEF Own
  <2> QED BY <2>1 DEF StorageHolds, Small
<1>5. ASSUME NEW q \in Procs, Chosen(q)' PROVE Leaves(proc[q], Old(new, q))'
  <2>1. CASE q = p
    <3>1. Aged(Successes, KeptWindow)
      BY SuccessesAreBuilds, WindowIsAged DEF KeptWindow, Successes, With, Aged
    <3>2. Aged(Old(new, p)', KeptWindow)
      BY <1>2, <3>1, SuccessesAreBuilds DEF Aged, Old
    <3> QED BY <1>2, <2>1, <3>2 DEF Leaves, Aged
  <2>2. CASE q # p
    <3>1. Chosen(q) /\ proc'[q] = proc[q]
      BY <1>2, <1>3, <1>5, <2>2
    <3>2. \A r \in Procs : r \in After(new, q)' <=> r \in After(order, q)
      <4> TAKE r \in Procs
      <4>1. CASE r = p
        BY <1>3, <2>2, <4>1 DEF After
      <4>2. CASE r # p
        BY <1>3, <2>2, <4>2 DEF After
      <4> QED BY <4>1, <4>2
    <3>3. After(new, q)' = After(order, q)
      BY <3>2 DEF After
    <3>4. \A r \in After(order, q) : proc'[r].build = proc[r].build
      BY <1>3 DEF After
    <3>5. Old(new, q)' = Old(order, q)
      <4>1. \A m : m \in Own(After(new, q))' <=> \E r \in After(order, q) : m = proc'[r].build
        BY <3>3 DEF Own
      <4>2. \A m : m \in Own(After(order, q)) <=> \E r \in After(order, q) : m = proc[r].build
        BY DEF Own
      <4>3. \A m : m \in Own(After(new, q))' <=> m \in Own(After(order, q))
        BY <3>4, <4>1, <4>2
      <4>4. Own(After(new, q))' = Own(After(order, q))
        BY <4>3
      <4>5. Old(new, q)' = Successes' \ Own(After(new, q))'
        BY DEF Old
      <4> QED BY <1>2, <4>4, <4>5 DEF Old
    <3>6. Leaves(proc[q], Old(order, q))
      BY <3>1 DEF StorageHolds
    <3> QED BY <3>1, <3>5, <3>6 DEF Leaves, Small, Aged
  <2> QED BY <2>1, <2>2
<1>6. StorageHolds(new)'
  BY <1>4, <1>5 DEF StorageHolds
<1> QED BY <1>1, <1>6 DEF StorageInv

\* What is kept beside the window is the newest row and the served build, and
\* a newest row that is a success left out of the window is newer than what
\* the window names: none of that is a row any more.
LEMMA RestLeavesLittle ==
    ASSUME NEW S \in SUBSET Successes, NEW set \in SUBSET Builds, NEW served \in BuildOrNone,
           Small(S) \/ Aged(S, set)
    PROVE  Small(S \cap (set \cup KeptAnyway(served)))
<1> DEFINE K == S \cap (set \cup KeptAnyway(served))
           newest == Newest(Rows)
<1>1. S \in SUBSET Builds /\ S \subseteq Rows /\ K \in SUBSET S
  BY SuccessesAreBuilds
<1>2. \A m \in K : m \in set \/ m = newest \/ m = served
  BY DEF KeptAnyway, With, Successes
<1>3. ASSUME NEW T \in SUBSET Builds, K \in SUBSET T, Cardinality(T) <= KeptSuccesses + 1
      PROVE  Small(K)
  BY <1>3, FewerAreSmall DEF Small
<1>4. CASE Small(S)
  BY <1>1, <1>4, FewerAreSmall
<1>5. CASE Aged(S, set)
  <2>1. Cardinality(set) <= KeptSuccesses /\ \A m \in S \ set : \A w \in set : w > m
    BY <1>5 DEF Aged
  <2>2. IsFiniteSet(set) /\ Cardinality(set) \in Nat
    BY SubsetsAreCounted
  <2> HIDE DEF K, newest
  <2>3. ASSUME newest \in S \ set PROVE Small(K)
    <3>1. \A w \in S : w <= newest
      BY <1>1, <2>3, NewestIn, RowsAreBuilds DEF newest
    <3>2. \A w \in set \cap S : w > newest
      BY <2>1, <2>3
    <3>3. \A w \in set \cap S : w \in Nat /\ newest \in Nat
      BY <1>1, <2>3 DEF Builds
    <3>4. set \cap S = {}
      BY <3>1, <3>2, <3>3
    <3> DEFINE T == {newest, served} \cap Builds
    <3>5. K \in SUBSET T /\ T \in SUBSET Builds
      BY <1>1, <1>2, <3>4
    <3>6. Cardinality(T) <= 2
      <4>1. IsFiniteSet({newest}) /\ Cardinality({newest}) = 1
        BY FS_Singleton
      <4>2. IsFiniteSet({newest} \cup {served}) /\ Cardinality({newest} \cup {served}) \in {1, 2}
        BY <4>1, FS_AddElement
      <4>3. T \in SUBSET ({newest} \cup {served})
        OBVIOUS
      <4>4. Cardinality(T) <= Cardinality({newest} \cup {served})
        BY <4>2, <4>3, FS_Subset
      <4>5. IsFiniteSet(T) /\ Cardinality(T) \in Nat
        BY <3>5, SubsetsAreCounted
      <4> HIDE DEF T
      <4> QED BY <4>2, <4>4, <4>5
    <3>7. Cardinality(T) \in Nat
      BY <3>5, SubsetsAreCounted
    <3> HIDE DEF T
    <3>8. Cardinality(T) <= KeptSuccesses + 1
      BY <3>6, <3>7
    <3> QED BY <1>3, <3>5, <3>8
  <2>4. ASSUME newest \notin S \ set PROVE Small(K)
    <3> DEFINE T == (set \cup {served}) \cap Builds
    <3>1. K \in SUBSET T /\ T \in SUBSET Builds
      BY <1>1, <1>2, <2>4
    <3>2. /\ IsFiniteSet(set \cup {served})
          /\ Cardinality(set \cup {served}) \in {Cardinality(set), Cardinality(set) + 1}
      BY <2>2, FS_AddElement
    <3>3. Cardinality(T) <= Cardinality(set \cup {served})
      BY <3>2, FS_Subset
    <3>4. Cardinality(T) \in Nat
      BY <3>1, SubsetsAreCounted
    <3> HIDE DEF T
    <3>5. Cardinality(T) <= KeptSuccesses + 1
      BY <2>1, <2>2, <3>2, <3>3, <3>4
    <3> QED BY <1>3, <3>1, <3>5
  <2>5. Small(K)
    BY <2>3, <2>4
  <2> QED BY <2>5 DEF K
<1> QED BY <1>4, <1>5

\* Only an import that succeeded prunes.
PlacesPrune ==
    \A p \in Procs :
        /\ proc[p].pc \in {"keep", "keep_rest", "select"} => proc[p].prune
        /\ proc[p].pc \in {"accepting", "logging"} => ~proc[p].prune

LEMMA StorageKept ==
    ASSUME TypeOK, PlacesPrune, StorageInv, Work
    PROVE  (PlacesPrune /\ StorageInv)'
<1>1. PICK order \in Order : StorageHolds(order)
  BY DEF StorageInv
<1>2. PICK p \in Procs :
        \/ CreateRead(p) \/ CreateCommit(p)
        \/ \E b \in Builds : \E s \in {"unresolved", "success", "failed"} : Mark(p, b, s)
        \/ \E b \in Builds : Delete(p, b) \/ \E pc \in {"accepting", "logging"} : ReadSuccess(p, b, pc)
        \/ WriteSuccess(p)
        \/ SyncLatest(p) \/ SyncCurrent(p) \/ SyncWrite(p)
        \/ PruneKeep(p) \/ PruneKeepRest(p) \/ PruneSelect(p) \/ PruneError(p)
        \/ DestroyRead(p) \/ DestroyCommit(p) \/ Revert(p)
  BY DEF Work
<1> DEFINE at == proc[p]
<1>3. /\ at.build \in BuildOrNone /\ at.current \in BuildOrNone
      /\ at.prune \in BOOLEAN /\ at.set \in SUBSET Builds
      /\ status \in [Builds -> Status]
  BY DEF TypeOK
<1>4. ASSUME NEW place, proc' = [proc EXCEPT ![p] = place],
             place.pc \in {"keep", "keep_rest", "select"} => place.prune,
             place.pc \in {"accepting", "logging"} => ~place.prune
      PROVE  /\ at' = place /\ \A q \in Procs : q # p => proc'[q] = proc[q]
             /\ PlacesPrune'
  <2>1. at' = place /\ \A q \in Procs : q # p => proc'[q] = proc[q]
    BY <1>4 DEF TypeOK
  <2>2. PlacesPrune'
    BY <1>4, <2>1 DEF PlacesPrune
  <2> QED BY <2>1, <2>2
<1>5. Pruning(p) = (at.pc # "idle" /\ at.prune)
      /\ Pruning(p)' = (at'.pc # "idle" /\ at'.prune)
      /\ Chosen(p) = (at.pc \in {"keep_rest", "select", "destroy", "destroying"} /\ at.prune)
      /\ Chosen(p)' = (at'.pc \in {"keep_rest", "select", "destroy", "destroying"} /\ at'.prune)
  BY DEF Chosen, Pruning, Busy
\* A step after which less, or what p has still to prune, is stored.
<1>6. ASSUME \A q \in Procs : q # p => proc'[q] = proc[q],
             \A m \in Successes' : m \in Successes \/ (Pruning(p)' /\ ~Chosen(p)' /\ m = at'.build),
             Pruning(p) => \/ Pruning(p)' /\ at'.build = at.build /\ (Chosen(p)' => Chosen(p))
                           \/ at.build \notin Successes',
             Old(order, p)' \subseteq Old(order, p)
                => (Chosen(p)' => Leaves(at', Old(order, p)'))
      PROVE  StorageInv'
  <2>1. /\ \A q \in Procs : Old(order, q)' \subseteq Old(order, q)
        /\ (Successes \ Own({q \in Procs : Pruning(q)}))'
             \subseteq Successes \ Own({q \in Procs : Pruning(q)})
    BY <1>6, OldShrinks
  <2>2. Chosen(p)' => Leaves(at', Old(order, p)')
    BY <1>6, <2>1
  <2>3. StorageHolds(order)'
    BY <1>1, <1>6, <2>1, <2>2, OrdinaryStep
  <2> QED BY <2>3 DEF StorageInv
<1>7. UNCHANGED <<status, restored>> => Successes' = Successes
  BY DEF Successes, With
<1>8. ASSUME NEW b, NEW s, s # "success", status' = [status EXCEPT ![b] = s], UNCHANGED restored
      PROVE  Successes' \subseteq Successes /\ b \notin Successes'
  BY <1>3, <1>8 DEF Successes, With
<1> HIDE DEF at
\* One that has nothing to prune, before and after.
<1>9. ASSUME NEW place, proc' = [proc EXCEPT ![p] = place], ~place.prune,
             place.pc \notin {"keep", "keep_rest", "select"},
             ~Pruning(p) \/ at.build \notin Successes', Successes' \subseteq Successes
      PROVE  (PlacesPrune /\ StorageInv)'
  <2>1. at' = place /\ (\A q \in Procs : q # p => proc'[q] = proc[q]) /\ PlacesPrune'
    BY <1>4, <1>9
  <2>2. ~Chosen(p)'
    BY <1>5, <1>9, <2>1
  <2> QED BY <1>6, <1>9, <2>1, <2>2
<1>10. CASE \/ CreateRead(p) \/ CreateCommit(p) \/ WriteSuccess(p) \/ Revert(p)
            \/ \E b \in Builds :
                 Delete(p, b) \/ \E pc \in {"accepting", "logging"} : ReadSuccess(p, b, pc)
  <2>0. PICK pc \in {"idle", "saving", "accepting", "logging", "sync", "destroy"} : \E build, latest, current, set :
             proc' = [proc EXCEPT ![p] = At(pc, build, latest, current, FALSE, set)]
    <3>1. CASE CreateRead(p)
      BY <3>1 DEF CreateRead
    <3>2. CASE CreateCommit(p)
      BY <3>2 DEF CreateCommit, Idle
    <3>3. CASE WriteSuccess(p)
      BY <3>3 DEF WriteSuccess
    <3>6. CASE \E b \in Builds, q \in {"accepting", "logging"} : ReadSuccess(p, b, q)
      <4>1. PICK b \in Builds, q \in {"accepting", "logging"} : ReadSuccess(p, b, q)
        BY <3>6
      <4>2. proc' = [proc EXCEPT ![p] = At(q, b, None, None, FALSE, {})]
        BY <4>1 DEF ReadSuccess
      <4> QED BY <4>2
    <3>4. CASE \E b \in Builds : Delete(p, b)
      BY <3>4 DEF Delete
    <3>5. CASE Revert(p)
      BY <3>5 DEF Revert
    <3> QED BY <1>10, <3>1, <3>2, <3>3, <3>4, <3>5, <3>6
  <2>1. PICK build, latest, current, set :
             proc' = [proc EXCEPT ![p] = At(pc, build, latest, current, FALSE, set)]
    BY <2>0
  <2> DEFINE place == At(pc, build, latest, current, FALSE, set)
  <2>4. ~place.prune /\ place.pc \notin {"keep", "keep_rest", "select"}
    BY <2>1 DEF At
  <2>5. proc' = [proc EXCEPT ![p] = place]
    BY <2>1
  <2>2. Successes' \subseteq Successes
    <3>1. CASE CreateCommit(p)
      BY <1>8, <3>1 DEF CreateCommit
    <3>2. CASE WriteSuccess(p)
      <4>1. /\ status' = [status EXCEPT ![at.build] = IF @ = "gone" THEN @ ELSE "success"]
            /\ restored' = IF status[at.build] \in {"success", "gone"} THEN restored
                           ELSE restored \cup {at.build}
        BY <3>2 DEF WriteSuccess, at
      <4> QED BY <1>3, <4>1 DEF Successes, With
    <3>3. CASE ~CreateCommit(p) /\ ~WriteSuccess(p)
      BY <1>7, <1>10, <3>3 DEF CreateRead, ReadSuccess, Delete, Revert
    <3> QED BY <3>1, <3>2, <3>3
  <2>3. ~Pruning(p) \/ at.build \notin Successes'
    <3>1. CASE at.pc = "idle"
      BY <1>5, <3>1
    <3>2. CASE at.pc # "idle"
      <4>1. CreateCommit(p) \/ WriteSuccess(p)
        BY <1>10, <3>2 DEF CreateRead, CreateCommit, ReadSuccess, Delete, Revert, at
      <4>2. CASE CreateCommit(p)
        BY <1>8, <4>2 DEF CreateCommit, at
      <4>3. CASE WriteSuccess(p)
        BY <1>1, <1>5, <4>3 DEF WriteSuccess, PlacesPrune, at
      <4> QED BY <4>1, <4>2, <4>3
    <3> QED BY <3>1, <3>2
  <2> HIDE DEF place
  <2> QED BY <1>9, <2>2, <2>3, <2>4, <2>5
<1>11. CASE \E b \in Builds : \E s \in {"unresolved", "success", "failed"} : Mark(p, b, s)
  <2>1. PICK b \in Builds, s \in {"unresolved", "success", "failed"} : Mark(p, b, s)
    BY <1>11
  <2> DEFINE place == At("sync", IF s = "success" THEN b ELSE None, None, None, s = "success", {})
  <2>2. /\ at.pc = "idle" /\ proc' = [proc EXCEPT ![p] = place]
        /\ status' = [status EXCEPT ![b] = s]
        /\ restored' = IF s = "success" THEN restored \ {b} ELSE restored
    BY <2>1 DEF Mark, at
  <2>3. /\ place.pc = "sync" /\ place.prune = (s = "success")
        /\ s = "success" => place.build = b
    BY DEF At
  <2> HIDE DEF place
  <2>4. at' = place /\ (\A q \in Procs : q # p => proc'[q] = proc[q]) /\ PlacesPrune'
    BY <1>4, <2>2, <2>3
  <2>5. ~Pruning(p) /\ ~Chosen(p)'
    BY <1>5, <2>2, <2>3, <2>4
  <2>6. \A m \in Successes' : m \in Successes \/ (Pruning(p)' /\ m = at'.build)
    <3>1. CASE s = "success"
      <4>1. Pruning(p)' /\ at'.build = b
        BY <1>5, <2>3, <2>4, <3>1
      <4>2. \A m \in Successes' : m \in Successes \/ m = b
        BY <1>3, <2>2, <3>1 DEF Successes, With
      <4> QED BY <4>1, <4>2
    <3>2. CASE s # "success"
      BY <1>8, <2>2, <3>2
    <3> QED BY <3>1, <3>2
  <2> QED BY <1>6, <2>4, <2>5, <2>6
\* A step between two places of the same process, pruning or not, with its own build.
<1>12. ASSUME NEW place, proc' = [proc EXCEPT ![p] = place], at.pc # "idle", place.pc # "idle",
              place.pc \in {"keep", "keep_rest", "select"} => place.prune,
              place.pc \notin {"accepting", "logging"},
              place.build = at.build, place.prune = at.prune, Successes' \subseteq Successes,
              place.pc \in {"keep_rest", "select", "destroy", "destroying"}
                => at.pc \in {"keep_rest", "select", "destroy", "destroying"},
              Old(order, p)' \subseteq Old(order, p) /\ Chosen(p) /\ Leaves(at, Old(order, p))
                => Leaves(place, Old(order, p)')
       PROVE  (PlacesPrune /\ StorageInv)'
  <2>1. at' = place /\ (\A q \in Procs : q # p => proc'[q] = proc[q]) /\ PlacesPrune'
    BY <1>4, <1>12
  <2>2. /\ Pruning(p) => Pruning(p)' /\ at'.build = at.build
        /\ Chosen(p)' => Chosen(p)
    BY <1>5, <1>12, <2>1
  <2>3. Chosen(p) => Leaves(at, Old(order, p))
    BY <1>1 DEF StorageHolds, at
  <2>4. Old(order, p)' \subseteq Old(order, p) => (Chosen(p)' => Leaves(at', Old(order, p)'))
    BY <1>12, <2>1, <2>2, <2>3
  <2> QED BY <1>6, <1>12, <2>1, <2>2, <2>4
<1>13. CASE SyncLatest(p) \/ SyncCurrent(p)
  <2>0. PICK pc \in {"synced_latest", "synced"} : \E latest, current :
             /\ proc' = [proc EXCEPT ![p] = At(pc, at.build, latest, current, at.prune, {})]
             /\ at.pc # "idle" /\ UNCHANGED <<status, restored>>
    <3>1. CASE SyncLatest(p)
      BY <3>1 DEF SyncLatest, at
    <3>2. CASE SyncCurrent(p)
      BY <3>2 DEF SyncCurrent, at
    <3> QED BY <1>13, <3>1, <3>2
  <2>1. PICK latest, current :
             /\ proc' = [proc EXCEPT ![p] = At(pc, at.build, latest, current, at.prune, {})]
             /\ at.pc # "idle" /\ UNCHANGED <<status, restored>>
    BY <2>0
  <2> DEFINE place == At(pc, at.build, latest, current, at.prune, {})
  <2>2. place.pc = pc /\ place.build = at.build /\ place.prune = at.prune
    BY DEF At
  <2>3. Leaves(place, Old(order, p)')
    BY <2>1, <2>2 DEF Leaves
  <2>4. proc' = [proc EXCEPT ![p] = place]
    BY <2>1
  <2> HIDE DEF place
  <2> QED BY <1>7, <1>12, <2>1, <2>2, <2>3, <2>4
<1>14. CASE SyncWrite(p)
  <2>1. /\ at.pc = "synced" /\ UNCHANGED <<status, restored>>
        /\ proc' = [proc EXCEPT ![p] =
                IF at.prune THEN At("keep", at.build, None, at.current, TRUE, {}) ELSE Idle]
    BY <1>14 DEF SyncWrite, at
  <2>2. CASE at.prune
    <3> DEFINE place == At("keep", at.build, None, at.current, TRUE, {})
    <3>1. place.pc = "keep" /\ place.build = at.build /\ place.prune = at.prune /\ place.prune
      BY <2>2 DEF At
    <3>2. Leaves(place, Old(order, p)')
      BY <3>1 DEF Leaves
    <3>3. proc' = [proc EXCEPT ![p] = place]
      BY <2>1, <2>2
    <3> HIDE DEF place
    <3> QED BY <1>7, <1>12, <2>1, <3>1, <3>2, <3>3
  <2>3. CASE ~at.prune
    <3>1. ~Idle.prune /\ Idle.pc = "idle" /\ proc' = [proc EXCEPT ![p] = Idle]
      BY <2>1, <2>3 DEF Idle, At
    <3> QED BY <1>5, <1>7, <1>9, <2>1, <2>3, <3>1
  <2> QED BY <2>2, <2>3
<1>15. CASE PruneKeep(p)
  <2> DEFINE place == At("keep_rest", at.build, None, at.current, TRUE, KeptWindow)
  <2>1. at.pc = "keep" /\ proc' = [proc EXCEPT ![p] = place]
    BY <1>15 DEF PruneKeep, at
  <2>2. place.prune /\ place.pc \notin {"accepting", "logging"}
    BY DEF At
  <2> HIDE DEF place
  <2>3. PlacesPrune' /\ Pruning(p)
    BY <1>4, <1>5, <2>1, <2>2 DEF PlacesPrune, at
  <2> QED BY <1>1, <1>15, <2>3, StepThatChooses
<1>16. CASE PruneKeepRest(p)
  <2> DEFINE kept == at.set \cup KeptAnyway(at.current)
             place == At("select", at.build, None, None, TRUE, kept)
  <2>1. at.pc = "keep_rest" /\ proc' = [proc EXCEPT ![p] = place] /\ at.prune
        /\ UNCHANGED <<status, restored>>
    BY <1>16 DEF PruneKeepRest, PlacesPrune, at
  <2>2. place.pc = "select" /\ place.build = at.build /\ place.prune = at.prune /\ place.set = kept
    BY <1>3, <2>1 DEF At
  <2> HIDE DEF place
  <2>3. ASSUME Old(order, p)' \subseteq Old(order, p), Leaves(at, Old(order, p))
        PROVE  Leaves(place, Old(order, p)')
    <3> DEFINE S == Old(order, p)'
    <3>1. S \in SUBSET Successes /\ S \in SUBSET Old(order, p) /\ Old(order, p) \in SUBSET Builds
      BY <2>3, SuccessesAreBuilds
    <3>2. Leaves(at, S)
      BY <2>3, <3>1, LeavesLess
    <3> HIDE DEF S
    <3>3. Small(S) \/ Aged(S, at.set)
      BY <2>1, <3>2 DEF Leaves
    <3>4. Small(S \cap kept)
      BY <1>3, <3>1, <3>3, RestLeavesLittle
    <3> HIDE DEF kept
    <3>5. Leaves(place, S)
      BY <2>2, <3>4 DEF Leaves
    <3> QED BY <3>5 DEF S
  <2>4. place.pc \in {"keep", "keep_rest", "select"} => place.prune
    BY <2>1, <2>2
  <2>5. Successes' \subseteq Successes
    BY <1>7, <2>1
  <2> QED BY <1>12, <2>1, <2>2, <2>3, <2>4, <2>5
<1>17. CASE PruneSelect(p)
  <2>1. /\ at.pc = "select" /\ UNCHANGED <<status, restored>> /\ at.prune
        /\ proc' = [proc EXCEPT ![p] =
                IF Rows \subseteq at.set THEN Idle
                ELSE At("destroy", at.build, None, None, TRUE, Rows \ at.set)]
    BY <1>17 DEF PruneSelect, PlacesPrune, at
  <2>2. CASE Rows \subseteq at.set
    <3>1. proc' = [proc EXCEPT ![p] = Idle] /\ Idle.pc = "idle"
      BY <2>1, <2>2 DEF Idle, At
    <3>2. at' = Idle /\ (\A q \in Procs : q # p => proc'[q] = proc[q]) /\ PlacesPrune'
      BY <1>4, <3>1
    <3>3. Chosen(p) /\ ~Pruning(p)' /\ Successes' = Successes
      BY <1>5, <1>7, <2>1, <3>1, <3>2
    <3>4. Leaves(at, Old(order, p))
      BY <1>1, <3>3 DEF StorageHolds, at
    <3>5. Small(Old(order, p) \cap at.set)
      BY <2>1, <3>4 DEF Leaves
    <3>6. Old(order, p) \cap at.set = Successes' \ Own(After(order, p))
      BY <2>2, <3>3, SuccessesAreBuilds DEF Old
    <3>7. StorageHolds(order)'
      BY <1>1, <3>2, <3>3, <3>5, <3>6, StepThatEnds
    <3> QED BY <3>2, <3>7 DEF StorageInv
  <2>3. CASE ~(Rows \subseteq at.set)
    <3> DEFINE place == At("destroy", at.build, None, None, TRUE, Rows \ at.set)
    <3>1. proc' = [proc EXCEPT ![p] = place]
      BY <2>1, <2>3
    <3>2. /\ place.pc = "destroy" /\ place.build = at.build /\ place.prune = at.prune
          /\ place.set = Rows \ at.set
      BY <1>3, <2>1 DEF At
    <3> HIDE DEF place
    <3>3. ASSUME Old(order, p)' \subseteq Old(order, p), Leaves(at, Old(order, p))
          PROVE  Leaves(place, Old(order, p)')
      <4> DEFINE S == Old(order, p)'
      <4>1. S \in SUBSET Old(order, p) /\ Old(order, p) \in SUBSET Builds /\ S \subseteq Rows
        BY <3>3, SuccessesAreBuilds
      <4>2. Leaves(at, S)
        BY <3>3, <4>1, LeavesLess
      <4> HIDE DEF S
      <4>3. Small(S \cap at.set)
        BY <2>1, <4>2 DEF Leaves
      <4>4. S \cap at.set = S \ (Rows \ at.set)
        BY <4>1
      <4>5. Leaves(place, S)
        BY <3>2, <4>3, <4>4 DEF Leaves
      <4> QED BY <4>5 DEF S
    <3>4. place.pc \in {"keep", "keep_rest", "select"} => place.prune
      BY <3>2
    <3>5. Successes' \subseteq Successes
      BY <1>7, <2>1
    <3> QED BY <1>12, <2>1, <3>1, <3>2, <3>3, <3>4, <3>5
  <2> QED BY <2>2, <2>3
<1>18. CASE PruneError(p)
  <2>1. /\ proc' = [proc EXCEPT ![p] = At("sync", None, None, None, FALSE, {})]
        /\ status' = [status EXCEPT ![at.build] = IF @ = "gone" THEN @ ELSE "failed"]
        /\ UNCHANGED restored
    BY <1>18 DEF PruneError, at
  <2>2. Successes' \subseteq Successes /\ at.build \notin Successes'
    BY <1>3, <2>1 DEF Successes, With
  <2> DEFINE place == At("sync", None, None, None, FALSE, {})
  <2>3. ~place.prune /\ place.pc \notin {"keep", "keep_rest", "select"}
    BY DEF At
  <2>4. proc' = [proc EXCEPT ![p] = place]
    BY <2>1
  <2> HIDE DEF place
  <2> QED BY <1>9, <2>2, <2>3, <2>4
<1>19. CASE DestroyRead(p)
  <2>1. PICK latest, current :
             proc' = [proc EXCEPT ![p] = At("destroying", at.build, latest, current, at.prune, at.set)]
    BY <1>19 DEF DestroyRead, at
  <2>2. at.pc = "destroy" /\ UNCHANGED <<status, restored>>
    BY <1>19 DEF DestroyRead, at
  <2> DEFINE place == At("destroying", at.build, latest, current, at.prune, at.set)
  <2>3. /\ place.pc = "destroying" /\ place.build = at.build /\ place.prune = at.prune
        /\ place.set = at.set
    BY DEF At
  <2>4. proc' = [proc EXCEPT ![p] = place]
    BY <2>1
  <2> HIDE DEF place
  <2>5. ASSUME Old(order, p)' \subseteq Old(order, p), Leaves(at, Old(order, p))
        PROVE  Leaves(place, Old(order, p)')
    <3>1. Leaves(at, Old(order, p)')
      BY <2>5, SuccessesAreBuilds, LeavesLess
    <3> QED BY <2>2, <2>3, <3>1 DEF Leaves
  <2>6. place.pc \in {"keep", "keep_rest", "select"} => place.prune
    BY <2>3
  <2>7. Successes' \subseteq Successes
    BY <1>7, <2>2
  <2> QED BY <1>12, <2>2, <2>3, <2>4, <2>5, <2>6, <2>7
<1>20. CASE DestroyCommit(p)
  <2> DEFINE v == Victim(p)
  <2>1. /\ at.pc = "destroying" /\ status' = [status EXCEPT ![v] = "gone"]
        /\ UNCHANGED restored
        /\ proc' = [proc EXCEPT ![p] =
                IF at.set = {v} THEN Idle
                ELSE At("destroy", at.build, None, None, at.prune, at.set \ {v})]
    BY <1>20 DEF DestroyCommit, at
  <2> HIDE DEF v
  <2>2. Successes' \subseteq Successes /\ v \notin Successes'
    BY <1>8, <2>1
  <2>3. CASE at.set = {v}
    <3>1. proc' = [proc EXCEPT ![p] = Idle] /\ Idle.pc = "idle" /\ ~Idle.prune
      BY <2>1, <2>3 DEF Idle, At
    <3>2. CASE ~at.prune
      BY <1>5, <1>9, <2>2, <3>1, <3>2
    <3>3. CASE at.prune
      <4>1. at' = Idle /\ (\A q \in Procs : q # p => proc'[q] = proc[q]) /\ PlacesPrune'
        BY <1>4, <3>1
      <4>2. Chosen(p) /\ ~Pruning(p)'
        BY <1>5, <2>1, <3>1, <3>3, <4>1
      <4>3. Leaves(at, Old(order, p))
        BY <1>1, <4>2 DEF StorageHolds, at
      <4>4. Small(Old(order, p) \ at.set) /\ Old(order, p) \ at.set \in SUBSET Builds
        BY <2>1, <4>3, SuccessesAreBuilds DEF Leaves
      <4>5. Successes' \ Own(After(order, p)) \in SUBSET (Old(order, p) \ at.set)
        BY <2>2, <2>3 DEF Old
      <4>6. Small(Successes' \ Own(After(order, p)))
        BY <4>4, <4>5, FewerAreSmall
      <4>7. StorageHolds(order)'
        BY <1>1, <2>2, <4>1, <4>2, <4>6, StepThatEnds
      <4> QED BY <4>1, <4>7 DEF StorageInv
    <3> QED BY <3>2, <3>3
  <2>4. CASE at.set # {v}
    <3> DEFINE place == At("destroy", at.build, None, None, at.prune, at.set \ {v})
    <3>1. proc' = [proc EXCEPT ![p] = place]
      BY <2>1, <2>4
    <3>2. /\ place.pc = "destroy" /\ place.build = at.build /\ place.prune = at.prune
          /\ place.set = at.set \ {v}
      BY DEF At
    <3> HIDE DEF place
    <3>3. ASSUME Old(order, p)' \subseteq Old(order, p), Leaves(at, Old(order, p))
          PROVE  Leaves(place, Old(order, p)')
      <4> DEFINE S == Old(order, p)'
      <4>1. S \in SUBSET Old(order, p) /\ Old(order, p) \in SUBSET Builds
        BY <3>3, SuccessesAreBuilds
      <4>2. v \notin S
        BY <2>2 DEF Old
      <4>3. Leaves(at, S)
        BY <3>3, <4>1, LeavesLess
      <4> HIDE DEF S
      <4>4. Small(S \ at.set)
        BY <2>1, <4>3 DEF Leaves
      <4>5. S \ at.set = S \ (at.set \ {v})
        BY <4>2
      <4>6. Leaves(place, S)
        BY <3>2, <4>4, <4>5 DEF Leaves
      <4> QED BY <4>6 DEF S
    <3>4. place.pc \in {"keep", "keep_rest", "select"} => place.prune
      BY <3>2
    <3> QED BY <1>12, <2>1, <2>2, <3>1, <3>2, <3>3, <3>4
  <2> QED BY <2>3, <2>4
<1> QED BY <1>2, <1>10, <1>11, <1>13, <1>14, <1>15, <1>16, <1>17, <1>18, <1>19, <1>20

LEMMA StorageInvariance == Spec => [](PlacesPrune /\ StorageInv)
<1>1. Init => PlacesPrune /\ StorageInv
  <2> SUFFICES ASSUME Init PROVE PlacesPrune /\ StorageInv
    OBVIOUS
  <2>1. \A p \in Procs : proc[p].pc = "idle"
    BY DEF Init, Idle, At
  <2>2. Successes = {} /\ \A p \in Procs : ~Chosen(p)
    BY <2>1 DEF Init, Successes, With, Chosen, Pruning, Busy
  <2>3. {} \in Order
    BY DEF Order
  <2>4. Cardinality({}) = 0
    BY FS_EmptySet
  <2>5. Successes \ Own({q \in Procs : Pruning(q)}) = {} /\ Small({})
    BY <2>2, <2>4 DEF Small
  <2>6. StorageHolds({})
    BY <2>2, <2>5 DEF StorageHolds
  <2> QED BY <2>1, <2>3, <2>6 DEF PlacesPrune, StorageInv
<1>2. TypeOK /\ PlacesPrune /\ StorageInv /\ [Next]_vars => (PlacesPrune /\ StorageInv)'
  <2> SUFFICES ASSUME TypeOK, PlacesPrune, StorageInv, [Next]_vars PROVE (PlacesPrune /\ StorageInv)'
    OBVIOUS
  <2>1. CASE Next
    BY <2>1, StorageKept DEF Next
  <2>2. CASE UNCHANGED vars
    <3>1. proc' = proc /\ Successes' = Successes
      BY <2>2 DEF vars, Successes, With
    <3>2. PlacesPrune'
      BY <3>1 DEF PlacesPrune
    <3>3. PICK order \in Order : StorageHolds(order)
      BY DEF StorageInv
    <3>4. /\ \A q \in Procs : Chosen(q)' = Chosen(q) /\ Pruning(q)' = Pruning(q)
          /\ \A q \in Procs : Old(order, q)' = Old(order, q)
      BY <3>1 DEF Chosen, Pruning, Busy, Old, Own, After
    <3>5. (Successes \ Own({q \in Procs : Pruning(q)}))' = Successes \ Own({q \in Procs : Pruning(q)})
      BY <3>1, <3>4 DEF Own
    <3>6. StorageHolds(order)'
      BY <3>1, <3>3, <3>4, <3>5 DEF StorageHolds, Leaves, Small, Aged
    <3> QED BY <3>2, <3>3, <3>6 DEF StorageInv
  <2> QED BY <2>1, <2>2
<1> QED BY <1>1, <1>2, TypeCorrect, PTL DEF Spec

\* However the imports, the syncs and the destructions overlap, a target at
\* rest stores no more successes than the window and one (prune_builds!), but
\* for those that an acceptance or the log job has marked a success again after
\* they had moved off it: neither prunes.
THEOREM StorageAlwaysBounded == Spec => []StorageBounded
<1>1. StorageInv => StorageBounded
  <2> SUFFICES ASSUME StorageInv, Quiet PROVE Small(Successes)
    BY DEF StorageBounded, Small, Successes
  <2>1. Own({q \in Procs : Pruning(q)}) = {}
    BY DEF Own, Pruning, Quiet
  <2> QED BY <2>1 DEF StorageInv, StorageHolds
<1> QED BY <1>1, StorageInvariance, PTL
=============================================================================
