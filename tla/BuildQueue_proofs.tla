-------------------------- MODULE BuildQueue_proofs --------------------------
(***************************************************************************)
(* Proofs about BuildQueue for any number of users, builds, handlers and   *)
(* slots, with everything the environment may do.                          *)
(***************************************************************************)
EXTENDS BuildQueue, FiniteSetTheorems, TLAPS

USE NBuildsAssumption, LimitsAssumption, NoneAssumption
USE DEF vars, Builds

\* Every handler keeps every variable of BuildQueue in its type.
THEOREM TypeCorrect == Spec => []TypeOK
<1> USE DEF TypeOK, State, HandlerState, Idle
<1>1. Init => TypeOK
  <2> SUFFICES ASSUME Init PROVE TypeOK
    OBVIOUS
  <2>1. strained \in BOOLEAN
    BY DEF Init
  <2> QED BY <2>1 DEF Init
<1>2. TypeOK /\ [Next]_vars => TypeOK'
  <2> SUFFICES ASSUME TypeOK, [Next]_vars PROVE TypeOK'
    OBVIOUS
  <2>1. ASSUME NEW h \in Handlers, NEW u \in Users, Request(h, u) PROVE TypeOK'
    <3>1. SlotAvailable(u) \in BOOLEAN
      BY DEF SlotAvailable
    <3> QED BY <2>1, <3>1 DEF Request
  <2>2. ASSUME NEW h \in Handlers, NEW b \in Builds, NEW o \in Users, Save(h, b, o)
        PROVE  TypeOK'
    BY <2>2 DEF Save
  <2>3. ASSUME NEW h \in Handlers, NEW b \in Builds, Start(h, b) PROVE TypeOK'
    BY <2>3 DEF Start
  <2>4. ASSUME NEW b \in Builds, JobTake(b) PROVE TypeOK'
    <3>1. /\ state' \in [Builds -> State] /\ marking' \subseteq Builds
          /\ UNCHANGED <<owner, limit, handler, strained>>
      BY <2>4 DEF JobTake
    <3>2. enqueued' \in [Builds -> Nat]
      BY <2>4 DEF JobTake
    <3> QED BY <3>1, <3>2
  <2>5. ASSUME NEW h \in Handlers, NEW b \in Builds, End(h, b) PROVE TypeOK'
    BY <2>5 DEF End, MayEnd
  <2>6. ASSUME NEW h \in Handlers, PromoteCheck(h) PROVE TypeOK'
    BY <2>6 DEF PromoteCheck
  <2>7. ASSUME NEW h \in Handlers, PromotePick(h) PROVE TypeOK'
    <3>1. CASE handler' = [handler EXCEPT ![h] = Idle]
      BY <2>7, <3>1 DEF PromotePick
    <3>2. ASSUME NEW b \in QueuedOf(handler[h].user),
                 \A a \in QueuedOf(handler[h].user) : b <= a,
                 handler' = [handler EXCEPT ![h] =
                    [pc |-> "mark", user |-> None, build |-> b, free |-> FALSE]]
          PROVE  TypeOK'
      BY <2>7, <3>2 DEF PromotePick, QueuedOf
    <3> QED BY <2>7, <3>1, <3>2 DEF PromotePick
  <2>8. ASSUME NEW h \in Handlers, NEW b \in Builds, PromoteMark(h, b) PROVE TypeOK'
    BY <2>8 DEF PromoteMark
  <2>9. ASSUME NEW b \in Builds, Delete(b) PROVE TypeOK'
    BY <2>9 DEF Delete
  <2>10. ASSUME NEW u \in Users, ChangePlan(u) PROVE TypeOK'
    BY <2>10 DEF ChangePlan
  <2>11. ASSUME NEW u \in Users, NEW v \in Users, Transfer(u, v) PROVE TypeOK'
    BY <2>11 DEF Transfer
  <2>12. CASE UNCHANGED vars
    BY <2>12
  <2>13. ASSUME NEW b \in Builds, Look(b) \/ MarkInFlight(b) PROVE TypeOK'
    BY <2>13 DEF Look, MarkInFlight
  <2> QED BY <2>1, <2>2, <2>3, <2>4, <2>5, <2>6, <2>7, <2>8, <2>9, <2>10, <2>11, <2>12, <2>13
          DEF Next, HandlerStep
<1> QED BY <1>1, <1>2, PTL DEF Spec

-----------------------------------------------------------------------------
\* Whatever requests, promotions, cancellations, deletions and jobs overlap,
\* builds stay in order, a picked build is the oldest, and a pending one has
\* somebody to start it.
THEOREM Invariance == Spec => []IInv
<1> USE DEF TypeOK, State, HandlerState, IInv, MadeInOrder, StartedIsMade, PickedIsOldest,
            PendingHasStarter, Idle
<1>1. Init => IInv
  BY DEF Init
<1>2. TypeOK /\ TypeOK' /\ IInv /\ [Next]_vars => IInv'
  <2> SUFFICES ASSUME TypeOK, TypeOK', IInv, [Next]_vars PROVE IInv'
    OBVIOUS
  <2>1. ASSUME NEW h \in Handlers, NEW u \in Users, Request(h, u) PROVE IInv'
    BY <2>1 DEF Request
  <2>2. ASSUME NEW h \in Handlers, NEW b \in Builds, NEW o \in Users, Save(h, b, o)
        PROVE  IInv'
    <3>1. MadeInOrder'
      BY <2>2 DEF Save, NextBuild
    <3>2. PickedIsOldest'
      BY <2>2 DEF Save, NextBuild
    <3>3. PendingHasStarter'
      BY <2>2 DEF Save, NextBuild
    <3>4. StartedIsMade'
      BY <2>2 DEF Save, NextBuild
    <3> QED BY <3>1, <3>2, <3>3, <3>4
  <2>3. ASSUME NEW h \in Handlers, NEW b \in Builds, Start(h, b) PROVE IInv'
    BY <2>3 DEF Start
  <2>4. ASSUME NEW b \in Builds, JobTake(b) PROVE IInv'
    <3>1. MadeInOrder' /\ PickedIsOldest'
      BY <2>4 DEF JobTake
    <3>2. PendingHasStarter'
      BY <2>4 DEF JobTake
    <3>3. StartedIsMade'
      <4>1. \A c \in Builds : c # b => state'[c] = state[c] /\ enqueued'[c] = enqueued[c]
        BY <2>4 DEF JobTake
      <4>2. state'[b] \in {"running", "deleted"}
        BY <2>4 DEF JobTake
      <4>3. marking' \subseteq marking \cup {b} /\ handler' = handler
        BY <2>4 DEF JobTake
      <4> QED BY <4>1, <4>2, <4>3
    <3> QED BY <3>1, <3>2, <3>3
  <2>5. ASSUME NEW h \in Handlers, NEW b \in Builds, End(h, b) PROVE IInv'
    <3>1. MadeInOrder'
      BY <2>5 DEF End, MayEnd
    <3>2. PickedIsOldest'
      BY <2>5 DEF End, MayEnd
    <3>3. PendingHasStarter'
      BY <2>5 DEF End, MayEnd
    <3>4. StartedIsMade'
      BY <2>5 DEF End, MayEnd
    <3> QED BY <3>1, <3>2, <3>3, <3>4
  <2>6. ASSUME NEW h \in Handlers, PromoteCheck(h) PROVE IInv'
    BY <2>6 DEF PromoteCheck
  <2>7. ASSUME NEW h \in Handlers, PromotePick(h) PROVE IInv'
    <3>1. CASE handler' = [handler EXCEPT ![h] = Idle]
      <4>1. handler[h].pc # "start"
        BY <2>7 DEF PromotePick
      <4> QED BY <2>7, <3>1, <4>1 DEF PromotePick
    <3>2. ASSUME NEW b \in QueuedOf(handler[h].user),
                 \A a \in QueuedOf(handler[h].user) : b <= a,
                 handler' = [handler EXCEPT ![h] =
                    [pc |-> "mark", user |-> None, build |-> b, free |-> FALSE]]
          PROVE  IInv'
      <4>1. /\ state' = state /\ owner' = owner /\ enqueued' = enqueued /\ marking' = marking
            /\ handler[h].pc = "pick"
        BY <2>7 DEF PromotePick
      <4>2. \A g \in Handlers : g # h => handler'[g] = handler[g]
        BY <3>2
      <4>3. handler'[h] = [pc |-> "mark", user |-> None, build |-> b, free |-> FALSE]
        BY <3>2
      <4>4. /\ b \in Builds
            /\ state[b] = "queued"
            /\ \A a \in Builds : a < b /\ owner[a] = owner[b] => state[a] # "queued"
        BY <3>2 DEF QueuedOf
      <4>5. handler'[h].pc = "mark" /\ handler'[h].build = b
        BY <4>3
      <4>6. PickedIsOldest'
        <5> SUFFICES ASSUME NEW g \in Handlers, handler'[g].pc = "mark"
                     PROVE  LET c == handler'[g].build IN
                            /\ c \in Builds
                            /\ state[c] # "none"
                            /\ \A a \in Builds : a < c /\ owner[a] = owner[c]
                                                => state[a] # "queued"
          BY <4>1
        <5>1. CASE g = h BY <5>1, <4>4, <4>5
        <5>2. CASE g # h BY <5>2, <4>2
        <5> QED BY <5>1, <5>2
      <4>7. PendingHasStarter'
        <5>1. \A g \in Handlers : handler[g].pc = "start" => handler'[g] = handler[g]
          BY <4>1, <4>2
        <5> QED BY <4>1, <5>1
      <4>8. MadeInOrder' /\ StartedIsMade'
        <5>1. \A g \in Handlers : handler'[g].pc = "start" => handler'[g] = handler[g]
          BY <4>2, <4>5
        <5> QED BY <4>1, <5>1
      <4> QED BY <4>6, <4>7, <4>8
    <3> QED BY <2>7, <3>1, <3>2 DEF PromotePick
  <2>8. ASSUME NEW h \in Handlers, NEW b \in Builds, PromoteMark(h, b) PROVE IInv'
    <3>1. MadeInOrder' /\ PickedIsOldest'
      BY <2>8 DEF PromoteMark
    <3>2. PendingHasStarter'
      BY <2>8 DEF PromoteMark
    <3>3. StartedIsMade'
      BY <2>8 DEF PromoteMark
    <3> QED BY <3>1, <3>2, <3>3
  <2>9. ASSUME NEW b \in Builds, Delete(b) PROVE IInv'
    BY <2>9 DEF Delete
  <2>10. ASSUME NEW u \in Users, ChangePlan(u) PROVE IInv'
    BY <2>10 DEF ChangePlan
  <2>11. ASSUME NEW u \in Users, NEW v \in Users, Transfer(u, v) PROVE IInv'
    \* No build is picked while a project changes hands, and nothing else
    \* asks who owns what.
    BY <2>11 DEF Transfer
  <2>12. CASE UNCHANGED vars
    BY <2>12
  <2>13. ASSUME NEW b \in Builds, Look(b) PROVE IInv'
    BY <2>13 DEF Look
  <2>14. ASSUME NEW b \in Builds, MarkInFlight(b) PROVE IInv'
    <3>1. state[b] \notin {"none", "queued"}
      BY <2>14 DEF MarkInFlight
    <3>2. MadeInOrder' /\ PickedIsOldest'
      BY <2>14, <3>1 DEF MarkInFlight
    <3>3. PendingHasStarter'
      BY <2>14 DEF MarkInFlight
    <3>4. StartedIsMade'
      BY <2>14 DEF MarkInFlight
    <3> QED BY <3>2, <3>3, <3>4
  <2> QED BY <2>1, <2>2, <2>3, <2>4, <2>5, <2>6, <2>7, <2>8, <2>9, <2>10, <2>11, <2>12,
             <2>13, <2>14
          DEF Next, HandlerStep
<1> QED BY <1>1, <1>2, TypeCorrect, PTL DEF Spec

\* Build#start! is never forgotten: no build waits in pending for nobody.
THEOREM PendingAlwaysHasStarter == Spec => []PendingHasStarter
<1>1. IInv => PendingHasStarter
  BY DEF IInv
<1> QED BY <1>1, Invariance, PTL

\* promote_next_queued_build! is first come, first served under any overlap.
THEOREM AlwaysFifo == Spec => PromotionIsFifo
<1> USE DEF TypeOK, State, HandlerState
<1>1. TypeOK /\ IInv /\ [Next]_vars =>
        [\A a, b \in Builds :
            /\ state[b] = "queued" /\ state'[b] = "pending"
            /\ a < b /\ owner[a] = owner[b]
            => state[a] # "queued"]_vars
  <2> SUFFICES ASSUME TypeOK, IInv, Next,
                      NEW a \in Builds, NEW b \in Builds,
                      state[b] = "queued", state'[b] = "pending",
                      a < b, owner[a] = owner[b]
               PROVE  state[a] # "queued"
    OBVIOUS
  <2>1. PICK h \in Handlers : \E c \in Builds : PromoteMark(h, c)
    <3>1. ASSUME NEW h \in Handlers, NEW c \in Builds, NEW o \in Users, Save(h, c, o)
          PROVE  FALSE
      BY <3>1 DEF Save, NextBuild
    <3>2. ASSUME NEW c \in Builds, JobTake(c) \/ MarkInFlight(c) \/ Delete(c)
          PROVE  FALSE
      BY <3>2 DEF JobTake, MarkInFlight, Delete
    <3>3. ASSUME NEW h \in Handlers, NEW c \in Builds, End(h, c)
          PROVE  FALSE
      BY <3>3 DEF End, MayEnd
    <3>4. ASSUME UNCHANGED state
          PROVE  FALSE
      BY <3>4
    <3> QED BY <3>1, <3>2, <3>3, <3>4
            DEF Next, HandlerStep, Request, Start, Look, PromoteCheck, PromotePick, ChangePlan,
                Transfer
  <2>2. PromoteMark(h, b)
    BY <2>1 DEF PromoteMark
  <2> QED BY <2>2 DEF PromoteMark, IInv, PickedIsOldest
<1> QED BY <1>1, TypeCorrect, Invariance, PTL DEF Spec, PromotionIsFifo
-----------------------------------------------------------------------------
\* A set of builds is finite, and a smaller one has no more builds.
LEMMA BuildsAreCounted ==
    ASSUME NEW S \in SUBSET Builds, NEW T \in SUBSET S
    PROVE  /\ Cardinality(S) \in Nat /\ Cardinality(T) \in Nat
           /\ Cardinality(T) <= Cardinality(S)
           /\ Cardinality(S) >= 1 => S # {}
<1>1. IsFiniteSet(S)
  <2>1. 1 \in Int /\ NBuilds \in Int
    OBVIOUS
  <2>2. IsFiniteSet(1..NBuilds)
    BY <2>1, FS_Interval
  <2> QED BY <2>2, FS_Subset
<1>2. IsFiniteSet(T) /\ Cardinality(T) <= Cardinality(S)
  BY <1>1, FS_Subset
<1> QED BY <1>1, <1>2, FS_CardinalityType, FS_EmptySet

\* One more build than fit below a bound fits the bound.
LEMMA OneMoreFits ==
    ASSUME NEW S \in SUBSET Builds, NEW b \in Builds, NEW T \in SUBSET (S \cup {b}),
           NEW n \in Nat, Cardinality(S) < n
    PROVE  Cardinality(T) <= n
<1>1. IsFiniteSet(S) /\ Cardinality(S) \in Nat
  <2>1. 1 \in Int /\ NBuilds \in Int
    OBVIOUS
  <2>2. IsFiniteSet(1..NBuilds)
    BY <2>1, FS_Interval
  <2>3. IsFiniteSet(S)
    BY <2>2, FS_Subset
  <2> QED BY <2>3, FS_CardinalityType
<1>2. /\ IsFiniteSet(S \cup {b})
      /\ Cardinality(S \cup {b}) = IF b \in S THEN Cardinality(S) ELSE Cardinality(S) + 1
  BY <1>1, FS_AddElement
<1>3. Cardinality(T) <= Cardinality(S \cup {b}) /\ Cardinality(T) \in Nat
  BY <1>2, FS_Subset, FS_CardinalityType
<1> QED BY <1>1, <1>2, <1>3

\* A user without a free slot has a build in flight.
LEMMA FullMeansBusy ==
    ASSUME TypeOK, NEW u \in Users, ~SlotAvailable(u)
    PROVE  InFlightOf(u) # {}
<1>1. InFlightOf(u) \in SUBSET Builds
  BY DEF InFlightOf
<1>2. limit[u] \in Nat \ {0}
  BY DEF TypeOK
<1>3. Cardinality(InFlightOf(u)) \in Nat
  BY <1>1, BuildsAreCounted
<1>4. Cardinality(InFlightOf(u)) >= 1
  BY <1>2, <1>3 DEF SlotAvailable
<1> QED BY <1>1, <1>4, BuildsAreCounted

\* The owner of every build that exists is a user.
LEMMA OwnersStayKnown ==
    ASSUME TypeOK, IInv, OwnersAreKnown, [Next]_vars
    PROVE  OwnersAreKnown'
<1> USE DEF OwnersAreKnown, TypeOK, State
<1>1. CASE UNCHANGED <<state, owner>>
  BY <1>1
<1>2. ASSUME NEW h \in Handlers, NEW b \in Builds, NEW o \in Users, Save(h, b, o)
      PROVE  OwnersAreKnown'
  BY <1>2 DEF Save
<1>3. ASSUME NEW b \in Builds, JobTake(b) \/ MarkInFlight(b) \/ Delete(b)
      PROVE  OwnersAreKnown'
  BY <1>3 DEF JobTake, MarkInFlight, Delete, IInv, StartedIsMade
<1>4. ASSUME NEW h \in Handlers, NEW b \in Builds, End(h, b)
      PROVE  OwnersAreKnown'
  BY <1>4 DEF End, MayEnd
<1>5. ASSUME NEW h \in Handlers, NEW b \in Builds, PromoteMark(h, b)
      PROVE  OwnersAreKnown'
  BY <1>5 DEF PromoteMark, IInv, PickedIsOldest
<1>6. ASSUME NEW u \in Users, NEW v \in Users, Transfer(u, v)
      PROVE  OwnersAreKnown'
  BY <1>6 DEF Transfer
<1> QED BY <1>1, <1>2, <1>3, <1>4, <1>5, <1>6
        DEF Next, HandlerStep, Request, Start, Look, PromoteCheck, PromotePick, ChangePlan, vars

\* While nothing strains the count, every step keeps it.
LEMMA UnstrainedStep ==
    ASSUME TypeOK, TypeOK', OwnersAreKnown, UnstrainedInv, [Next]_vars, ~strained'
    PROVE  UnstrainedInv'
<1> USE DEF TypeOK, State, HandlerState, Idle, UnstrainedInv
<1> DEFINE Right == \A h \in Handlers : ReadingHolds(handler[h])
           Capped == \A u \in Users : Cardinality(InFlightOf(u)) <= limit[u]
           Queues == \A u \in Users : QueuedOf(u) # {} => Watched(u)
<1>1. ASSUME NEW h \in Handlers, NEW u \in Users, Request(h, u) PROVE UnstrainedInv'
  <2>1. /\ UNCHANGED <<state, owner, enqueued, limit, marking>>
        /\ handler' = [handler EXCEPT ![h] =
               [pc |-> "save", user |-> u, build |-> None, free |-> SlotAvailable(u)]]
        /\ Quiet
    BY <1>1 DEF Request
  <2>2. /\ handler'[h] = [pc |-> "save", user |-> u, build |-> None, free |-> SlotAvailable(u)]
        /\ \A g \in Handlers : g # h => handler'[g] = handler[g] /\ handler[g].pc = "idle"
        /\ \A g \in Handlers : handler[g].pc = "idle"
    BY <2>1 DEF Quiet
  <2>3. \A w : InFlightOf(w)' = InFlightOf(w) /\ QueuedOf(w)' = QueuedOf(w)
                  /\ SlotAvailable(w)' = SlotAvailable(w)
    BY <2>1 DEF InFlightOf, QueuedOf, SlotAvailable
  <2>4. OneAtATime' /\ JobsArePending'
    BY <2>1, <2>2 DEF OneAtATime, JobsArePending
  <2>5. Right'
    <3>1. ReadingHolds(handler[h])'
      BY <2>2, <2>3, FullMeansBusy DEF ReadingHolds
    <3>2. \A g \in Handlers : g # h => ReadingHolds(handler[g])'
      BY <2>2 DEF ReadingHolds
    <3> QED BY <3>1, <3>2
  <2>6. Queues'
    BY <2>2, <2>3 DEF Watched
  <2> QED BY <2>1, <2>3, <2>4, <2>5, <2>6
<1>2. ASSUME NEW h \in Handlers, NEW b \in Builds, NEW o \in Users, Save(h, b, o)
      PROVE  UnstrainedInv'
  <2> DEFINE free == handler[h].free
  <2>1. /\ handler[h].pc = "save" /\ o = handler[h].user /\ state[b] = "none"
        /\ state' = [state EXCEPT ![b] = IF free THEN "pending" ELSE "queued"]
        /\ owner' = [owner EXCEPT ![b] = o]
        /\ handler' = [handler EXCEPT ![h] =
              IF free THEN [pc |-> "start", user |-> None, build |-> b, free |-> FALSE] ELSE Idle]
        /\ UNCHANGED <<enqueued, limit, marking>>
    BY <1>2 DEF Save, NextBuild
  <2>2. \A g \in Handlers : g # h => handler'[g] = handler[g] /\ handler[g].pc = "idle"
    BY <2>1 DEF OneAtATime
  <2>3. handler'[h] = IF free THEN [pc |-> "start", user |-> None, build |-> b, free |-> FALSE]
                              ELSE Idle
    BY <2>1
  <2>4. enqueued[b] = 0
    <3>1. enqueued[b] \in Nat
      OBVIOUS
    <3>2. ~(enqueued[b] > 0)
      BY <2>1 DEF JobsArePending
    <3> QED BY <3>1, <3>2
  <2>5. IF free THEN SlotAvailable(o) ELSE InFlightOf(o) # {}
    BY <2>1 DEF ReadingHolds
  <2>6. /\ \A u \in Users : u # o => InFlightOf(u)' = InFlightOf(u) /\ QueuedOf(u)' = QueuedOf(u)
        /\ InFlightOf(o)' = IF free THEN InFlightOf(o) \cup {b} ELSE InFlightOf(o)
    BY <2>1 DEF InFlightOf, QueuedOf, HoldsSlot
  <2>7. OneAtATime' /\ JobsArePending'
    BY <2>1, <2>2, <2>4 DEF OneAtATime, JobsArePending
  <2>8. Right'
    BY <2>1, <2>2, <2>3, <2>4 DEF ReadingHolds
  <2>9. Capped'
    <3>1. InFlightOf(o) \in SUBSET Builds /\ limit[o] \in Nat
      BY DEF InFlightOf
    <3>2. free => Cardinality(InFlightOf(o) \cup {b}) <= limit[o]
      BY <3>1, <2>5, OneMoreFits DEF SlotAvailable
    <3> QED BY <2>1, <2>6, <3>2
  <2>10. Queues'
    <3>1. InFlightOf(o)' # {}
      BY <2>5, <2>6
    <3>2. \A u \in Users : u # o /\ QueuedOf(u) # {} => InFlightOf(u) # {}
      BY <2>1, <2>2 DEF Watched
    <3> QED BY <3>1, <3>2, <2>6 DEF Watched
  <2> QED BY <2>7, <2>8, <2>9, <2>10
<1>3. ASSUME NEW h \in Handlers, NEW b \in Builds, Start(h, b) PROVE UnstrainedInv'
  <2>1. /\ handler[h].pc = "start" /\ handler[h].build = b
        /\ enqueued' = [enqueued EXCEPT ![b] = @ + 1]
        /\ handler' = [handler EXCEPT ![h] = Idle]
        /\ UNCHANGED <<state, owner, limit, marking>>
    BY <1>3 DEF Start
  <2>2. \A g \in Handlers : handler'[g].pc = "idle"
    BY <2>1 DEF OneAtATime
  <2>3. state[b] = "pending" /\ enqueued[b] = 0
    BY <2>1 DEF ReadingHolds
  <2>4. \A u : InFlightOf(u)' = InFlightOf(u) /\ QueuedOf(u)' = QueuedOf(u)
    BY <2>1 DEF InFlightOf, QueuedOf
  <2>5. OneAtATime' /\ JobsArePending' /\ Right'
    BY <2>1, <2>2, <2>3 DEF OneAtATime, JobsArePending, ReadingHolds
  <2>6. Queues'
    <3>1. \A g \in Handlers : g # h => handler[g].pc = "idle"
      BY <2>1 DEF OneAtATime
    <3>2. \A u \in Users : QueuedOf(u) # {} => InFlightOf(u) # {}
      BY <3>1, <2>1 DEF Watched
    <3> QED BY <3>2, <2>4 DEF Watched
  <2> QED BY <2>1, <2>4, <2>5, <2>6
<1>4. ASSUME NEW b \in Builds, JobTake(b) PROVE UnstrainedInv'
  <2>1. /\ enqueued[b] = 1 /\ state[b] = "pending"
        /\ enqueued' = [enqueued EXCEPT ![b] = 0]
        /\ state' = [state EXCEPT ![b] = "running"]
        /\ marking' = marking \cup {b}
        /\ UNCHANGED <<owner, limit, handler>>
    <3>1. enqueued[b] > 0
      BY <1>4 DEF JobTake
    <3>2. enqueued[b] = 1 /\ state[b] = "pending"
      BY <3>1 DEF JobsArePending
    <3>3. enqueued[b] - 1 = 0
      BY <3>2
    <3> QED BY <1>4, <3>2, <3>3 DEF JobTake
  <2>2. \A u : /\ InFlightOf(u)' = InFlightOf(u) /\ QueuedOf(u)' = QueuedOf(u)
               /\ SlotAvailable(u)' = SlotAvailable(u)
    <3>1. \A c \in Builds : /\ state'[c] \in HoldsSlot <=> state[c] \in HoldsSlot
                            /\ state'[c] = "queued" <=> state[c] = "queued"
      BY <2>1 DEF HoldsSlot
    <3>2. \A u : InFlightOf(u)' = InFlightOf(u) /\ QueuedOf(u)' = QueuedOf(u)
      BY <2>1, <3>1 DEF InFlightOf, QueuedOf
    <3> QED BY <2>1, <3>2 DEF SlotAvailable
  <2>3. OneAtATime' /\ JobsArePending'
    BY <2>1 DEF OneAtATime, JobsArePending
  <2>4. Right'
    BY <2>1, <2>2 DEF ReadingHolds
  <2>5. Queues'
    BY <2>1, <2>2 DEF Watched
  <2> QED BY <2>1, <2>2, <2>3, <2>4, <2>5
<1>5. ASSUME NEW h \in Handlers, NEW b \in Builds, End(h, b) PROVE UnstrainedInv'
  <2>1. /\ state[b] \in {"running", "ended", "queued"} /\ Quiet
        /\ state' = [state EXCEPT ![b] = "ended"]
        /\ handler' = [handler EXCEPT ![h] =
              [pc |-> "check", user |-> owner[b], build |-> None, free |-> FALSE]]
        /\ UNCHANGED <<owner, enqueued, limit, marking>>
    BY <1>5 DEF End, MayEnd
  <2>2. /\ handler'[h] = [pc |-> "check", user |-> owner[b], build |-> None, free |-> FALSE]
        /\ \A g \in Handlers : g # h => handler'[g] = handler[g]
        /\ \A g \in Handlers : handler[g].pc = "idle"
    BY <2>1 DEF Quiet
  <2>3. owner[b] \in Users
    BY <2>1 DEF OwnersAreKnown
  <2>4. \A u \in Users : /\ InFlightOf(u)' \subseteq InFlightOf(u)
                         /\ QueuedOf(u)' \subseteq QueuedOf(u)
                         /\ u # owner[b] => InFlightOf(u)' = InFlightOf(u)
    BY <2>1 DEF InFlightOf, QueuedOf, HoldsSlot
  <2>5. OneAtATime' /\ JobsArePending'
    BY <2>1, <2>2 DEF OneAtATime, JobsArePending
  <2>6. Right'
    <3>1. ReadingHolds(handler[h])'
      BY <2>2, <2>3 DEF ReadingHolds
    <3>2. \A g \in Handlers : g # h => ReadingHolds(handler[g])'
      BY <2>2 DEF ReadingHolds
    <3> QED BY <3>1, <3>2
  <2>7. Capped'
    <3> SUFFICES ASSUME NEW u \in Users PROVE Cardinality(InFlightOf(u)') <= limit[u]
      BY <2>1
    <3>1. InFlightOf(u) \in SUBSET Builds /\ InFlightOf(u)' \in SUBSET InFlightOf(u)
      BY <2>4 DEF InFlightOf
    <3>2. /\ Cardinality(InFlightOf(u)') <= Cardinality(InFlightOf(u))
          /\ Cardinality(InFlightOf(u)') \in Nat /\ Cardinality(InFlightOf(u)) \in Nat
      BY <3>1, BuildsAreCounted
    <3>3. limit[u] \in Nat /\ Cardinality(InFlightOf(u)) <= limit[u]
      OBVIOUS
    <3> QED BY <3>2, <3>3
  <2>8. Queues'
    <3>1. \A u \in Users : QueuedOf(u) # {} => InFlightOf(u) # {}
      BY <2>2 DEF Watched
    <3> SUFFICES ASSUME NEW u \in Users, QueuedOf(u)' # {} PROVE Watched(u)'
      OBVIOUS
    <3>2. CASE u = owner[b]
      BY <3>2, <2>2 DEF Watched
    <3>3. CASE u # owner[b]
      BY <3>1, <3>3, <2>4 DEF Watched
    <3> QED BY <3>2, <3>3
  <2> QED BY <2>5, <2>6, <2>7, <2>8
<1>6. ASSUME NEW h \in Handlers, PromoteCheck(h) PROVE UnstrainedInv'
  <2> DEFINE u == handler[h].user
             next == IF SlotAvailable(u)
                     THEN [pc |-> "pick", user |-> u, build |-> None, free |-> FALSE] ELSE Idle
  <2>1. /\ handler[h].pc = "check" /\ u \in Users
        /\ handler' = [handler EXCEPT ![h] = next]
        /\ UNCHANGED <<state, owner, enqueued, limit, marking>>
    BY <1>6 DEF PromoteCheck, ReadingHolds
  <2>2. /\ handler'[h] = next
        /\ \A g \in Handlers : g # h => handler'[g] = handler[g] /\ handler[g].pc = "idle"
    BY <2>1 DEF OneAtATime
  <2>3. \A w : InFlightOf(w)' = InFlightOf(w) /\ QueuedOf(w)' = QueuedOf(w)
                  /\ SlotAvailable(w)' = SlotAvailable(w)
    BY <2>1 DEF InFlightOf, QueuedOf, SlotAvailable
  <2>4. OneAtATime' /\ JobsArePending'
    BY <2>1, <2>2 DEF OneAtATime, JobsArePending
  <2>5. Right'
    BY <2>1, <2>2, <2>3 DEF ReadingHolds
  <2>6. Queues'
    <3>1. \A w \in Users : w # u /\ QueuedOf(w) # {} => InFlightOf(w) # {}
      BY <2>1, <2>2 DEF Watched
    <3> SUFFICES ASSUME NEW w \in Users, QueuedOf(w)' # {} PROVE Watched(w)'
      OBVIOUS
    <3>2. CASE w # u
      BY <3>1, <3>2, <2>3 DEF Watched
    <3>3. CASE w = u /\ SlotAvailable(u)
      <4>1. handler'[h].pc = "pick" /\ handler'[h].user = w
        BY <3>3, <2>2
      <4> QED BY <4>1 DEF Watched
    <3>4. CASE w = u /\ ~SlotAvailable(u)
      BY <3>4, <2>1, <2>3, FullMeansBusy DEF Watched
    <3> QED BY <3>2, <3>3, <3>4
  <2> QED BY <2>1, <2>3, <2>4, <2>5, <2>6
<1>7. ASSUME NEW h \in Handlers, PromotePick(h) PROVE UnstrainedInv'
  <2> DEFINE u == handler[h].user
  <2>1. /\ handler[h].pc = "pick" /\ u \in Users /\ SlotAvailable(u)
        /\ UNCHANGED <<state, owner, enqueued, limit, marking>>
    BY <1>7 DEF PromotePick, ReadingHolds
  <2>2. \A g \in Handlers : g # h => handler[g].pc = "idle"
    BY <2>1 DEF OneAtATime
  <2>3. \A w : InFlightOf(w)' = InFlightOf(w) /\ QueuedOf(w)' = QueuedOf(w)
                  /\ SlotAvailable(w)' = SlotAvailable(w)
    BY <2>1 DEF InFlightOf, QueuedOf, SlotAvailable
  <2>4. \A w \in Users : w # u /\ QueuedOf(w) # {} => InFlightOf(w) # {}
    BY <2>1, <2>2 DEF Watched
  <2>5. CASE QueuedOf(u) = {} /\ handler' = [handler EXCEPT ![h] = Idle]
    <3>1. \A g \in Handlers : handler'[g].pc = "idle"
      BY <2>2, <2>5
    <3>2. OneAtATime' /\ JobsArePending' /\ Right'
      BY <2>1, <3>1 DEF OneAtATime, JobsArePending, ReadingHolds
    <3>3. Queues'
      BY <2>3, <2>4, <2>5 DEF Watched
    <3> QED BY <2>1, <2>3, <3>2, <3>3
  <2>6. ASSUME NEW b \in QueuedOf(u),
               handler' = [handler EXCEPT ![h] =
                  [pc |-> "mark", user |-> None, build |-> b, free |-> FALSE]]
        PROVE  UnstrainedInv'
    <3>1. /\ handler'[h] = [pc |-> "mark", user |-> None, build |-> b, free |-> FALSE]
          /\ \A g \in Handlers : g # h => handler'[g] = handler[g]
      BY <2>6
    <3>2. b \in Builds /\ state[b] = "queued" /\ owner[b] = u
      BY DEF QueuedOf
    <3>3. OneAtATime' /\ JobsArePending'
      BY <2>1, <2>2, <3>1 DEF OneAtATime, JobsArePending
    <3>4. Right'
      <4> SUFFICES ASSUME NEW g \in Handlers PROVE ReadingHolds(handler[g])'
        OBVIOUS
      <4>1. CASE g = h
        BY <2>1, <2>3, <3>1, <3>2, <4>1 DEF ReadingHolds
      <4>2. CASE g # h
        BY <2>2, <3>1, <4>2 DEF ReadingHolds
      <4> QED BY <4>1, <4>2
    <3>5. Queues'
      <4> SUFFICES ASSUME NEW w \in Users, QueuedOf(w)' # {} PROVE Watched(w)'
        OBVIOUS
      <4>1. CASE w = u
        <5>1. handler'[h].pc = "mark" /\ owner'[handler'[h].build] = u
          BY <2>1, <3>1, <3>2
        <5> QED BY <4>1, <5>1 DEF Watched
      <4>2. CASE w # u
        BY <2>3, <2>4, <4>2 DEF Watched
      <4> QED BY <4>1, <4>2
    <3> QED BY <2>1, <2>3, <3>3, <3>4, <3>5
  <2> QED BY <1>7, <2>5, <2>6 DEF PromotePick
<1>8. ASSUME NEW h \in Handlers, NEW b \in Builds, PromoteMark(h, b) PROVE UnstrainedInv'
  <2>1. /\ handler[h].pc = "mark" /\ handler[h].build = b
        /\ state[b] = "queued" /\ SlotAvailable(owner[b])
        /\ state' = [state EXCEPT ![b] = "pending"]
        /\ handler' = [handler EXCEPT ![h] =
              [pc |-> "start", user |-> None, build |-> b, free |-> FALSE]]
        /\ UNCHANGED <<owner, enqueued, limit, marking>>
    BY <1>8 DEF PromoteMark, ReadingHolds
  <2>2. /\ handler'[h] = [pc |-> "start", user |-> None, build |-> b, free |-> FALSE]
        /\ \A g \in Handlers : g # h => handler'[g] = handler[g] /\ handler[g].pc = "idle"
    BY <2>1 DEF OneAtATime
  <2>3. owner[b] \in Users /\ enqueued[b] = 0
    BY <2>1 DEF OwnersAreKnown, JobsArePending
  <2>4. /\ \A u \in Users : u # owner[b] => InFlightOf(u)' = InFlightOf(u)
        /\ \A u \in Users : QueuedOf(u)' \subseteq QueuedOf(u)
        /\ InFlightOf(owner[b])' = InFlightOf(owner[b]) \cup {b}
    BY <2>1 DEF InFlightOf, QueuedOf, HoldsSlot
  <2>5. OneAtATime' /\ JobsArePending'
    BY <2>1, <2>2, <2>3 DEF OneAtATime, JobsArePending
  <2>6. Right'
    BY <2>1, <2>2, <2>3 DEF ReadingHolds
  <2>7. Capped'
    <3>1. InFlightOf(owner[b]) \in SUBSET Builds /\ limit[owner[b]] \in Nat
      BY <2>3 DEF InFlightOf
    <3>2. Cardinality(InFlightOf(owner[b]) \cup {b}) <= limit[owner[b]]
      BY <3>1, <2>1, OneMoreFits DEF SlotAvailable
    <3> QED BY <2>1, <2>4, <3>2
  <2>8. Queues'
    <3>1. \A u \in Users : u # owner[b] /\ QueuedOf(u) # {} => InFlightOf(u) # {}
      <4> SUFFICES ASSUME NEW u \in Users, u # owner[b], QueuedOf(u) # {}
                   PROVE  InFlightOf(u) # {}
        OBVIOUS
      <4>1. \A g \in Handlers : handler[g].pc \notin {"check", "pick"}
        BY <2>1, <2>2
      <4>2. \A g \in Handlers : handler[g].pc = "mark" => owner[handler[g].build] = owner[b]
        BY <2>1, <2>2
      <4> QED BY <4>1, <4>2 DEF Watched
    <3> SUFFICES ASSUME NEW u \in Users, QueuedOf(u)' # {} PROVE Watched(u)'
      OBVIOUS
    <3>2. CASE u = owner[b]
      <4>1. b \in InFlightOf(u)'
        BY <3>2, <2>1 DEF InFlightOf, HoldsSlot
      <4> QED BY <4>1 DEF Watched
    <3>3. CASE u # owner[b]
      <4>1. InFlightOf(u) # {}
        BY <3>1, <3>3, <2>4
      <4> QED BY <4>1, <3>3, <2>4 DEF Watched
    <3> QED BY <3>2, <3>3
  <2> QED BY <2>5, <2>6, <2>7, <2>8
<1>9. ASSUME NEW u \in Users, ChangePlan(u) PROVE UnstrainedInv'
  <2>1. /\ \A w \in Users : limit'[w] >= limit[w]
        /\ \A w \in Users : limit[w] \in Nat /\ limit'[w] \in Nat
        /\ UNCHANGED <<state, owner, enqueued, handler, marking>>
    <3>1. PICK n \in Limits : /\ limit' = [limit EXCEPT ![u] = n]
                              /\ strained' = (strained \/ n < limit[u])
      BY <1>9 DEF ChangePlan
    <3>2. n \in Nat /\ \A w \in Users : limit[w] \in Nat
      OBVIOUS
    <3>3. ~(n < limit[u])
      BY <3>1
    <3> QED BY <1>9, <3>1, <3>2, <3>3 DEF ChangePlan
  <2>2. \A w : InFlightOf(w)' = InFlightOf(w) /\ QueuedOf(w)' = QueuedOf(w)
    BY <2>1 DEF InFlightOf, QueuedOf
  <2>3. \A w \in Users : Cardinality(InFlightOf(w)) \in Nat
    <3> SUFFICES ASSUME NEW w \in Users PROVE Cardinality(InFlightOf(w)) \in Nat
      OBVIOUS
    <3>1. InFlightOf(w) \in SUBSET Builds
      BY DEF InFlightOf
    <3> QED BY <3>1, BuildsAreCounted
  <2>4. Capped' /\ \A w \in Users : SlotAvailable(w) => SlotAvailable(w)'
    BY <2>1, <2>2, <2>3 DEF SlotAvailable
  <2>5. OneAtATime' /\ JobsArePending'
    BY <2>1 DEF OneAtATime, JobsArePending
  <2>6. Right'
    BY <2>1, <2>2, <2>4 DEF ReadingHolds, OwnersAreKnown
  <2>7. Queues'
    BY <2>1, <2>2 DEF Watched
  <2> QED BY <2>4, <2>5, <2>6, <2>7
<1>10. ASSUME NEW b \in Builds, Delete(b) PROVE FALSE
  BY <1>10 DEF Delete
<1>11. ASSUME NEW u \in Users, NEW v \in Users, Transfer(u, v) PROVE FALSE
  BY <1>11 DEF Transfer
<1>12. ASSUME NEW b \in Builds, Look(b) \/ MarkInFlight(b)
       PROVE  UnstrainedInv'
  <2>1. /\ marking' \subseteq marking \cup {b} /\ state[b] = "running" /\ state' = state
        /\ UNCHANGED <<owner, enqueued, limit, handler>>
    <3>1. CASE Look(b)
      BY <3>1 DEF Look
    <3>2. CASE MarkInFlight(b)
      <4>1. state[b] = "running"
        BY <3>2 DEF MarkInFlight, JobsArePending
      <4> QED BY <3>2, <4>1 DEF MarkInFlight
    <3> QED BY <1>12, <3>1, <3>2
  <2>2. \A w : /\ InFlightOf(w)' = InFlightOf(w) /\ QueuedOf(w)' = QueuedOf(w)
               /\ SlotAvailable(w)' = SlotAvailable(w)
    BY <2>1 DEF InFlightOf, QueuedOf, SlotAvailable
  <2>3. OneAtATime' /\ JobsArePending'
    BY <2>1 DEF OneAtATime, JobsArePending
  <2>4. Right'
    BY <2>1, <2>2 DEF ReadingHolds
  <2>5. Queues'
    BY <2>1, <2>2 DEF Watched
  <2> QED BY <2>1, <2>2, <2>3, <2>4, <2>5
<1>13. CASE UNCHANGED vars
  <2>1. UNCHANGED <<state, owner, enqueued, limit, handler, marking>>
    BY <1>13
  <2>2. \A w : /\ InFlightOf(w)' = InFlightOf(w) /\ QueuedOf(w)' = QueuedOf(w)
               /\ SlotAvailable(w)' = SlotAvailable(w)
    BY <2>1 DEF InFlightOf, QueuedOf, SlotAvailable
  <2>3. OneAtATime' /\ JobsArePending'
    BY <2>1 DEF OneAtATime, JobsArePending
  <2>4. Right'
    BY <2>1, <2>2 DEF ReadingHolds
  <2>5. Queues'
    BY <2>1, <2>2 DEF Watched
  <2> QED BY <2>1, <2>2, <2>3, <2>4, <2>5
<1> QED BY <1>1, <1>2, <1>3, <1>4, <1>5, <1>6, <1>7, <1>8, <1>9, <1>10, <1>11, <1>12,
           <1>13
        DEF Next, HandlerStep

\* Until the count is strained at most one handler is at work and what it has
\* read still holds, a waiting job is the only one of a pending build, whoever
\* is about to mark a build in flight looked at one that was, and every queue is
\* watched (queue_or_start_build, promote_next_queued_build!).
THEOREM CountInvariance == Spec => []CountInv
<1> USE DEF CountInv, UnstrainedInv
<1>1. Init => CountInv
  <2> SUFFICES ASSUME Init PROVE CountInv
    OBVIOUS
  <2>1. \A u \in Users : InFlightOf(u) = {} /\ QueuedOf(u) = {} /\ limit[u] \in Nat
    BY DEF Init, InFlightOf, QueuedOf, HoldsSlot
  <2>2. \A u \in Users : Cardinality(InFlightOf(u)) <= limit[u]
    BY <2>1, FS_EmptySet
  <2> QED BY <2>1, <2>2 DEF Init, OwnersAreKnown, OneAtATime, JobsArePending, ReadingHolds, Idle
<1>2. TypeOK /\ TypeOK' /\ IInv /\ CountInv /\ [Next]_vars => CountInv'
  <2> SUFFICES ASSUME TypeOK, TypeOK', IInv, CountInv, [Next]_vars PROVE CountInv'
    OBVIOUS
  <2>1. OwnersAreKnown'
    BY OwnersStayKnown
  <2>2. strained => strained'
    BY DEF Next, HandlerStep, Request, Save, Start, JobTake, Look, MarkInFlight, End,
           PromoteCheck, PromotePick, PromoteMark, Delete, ChangePlan, Transfer, TypeOK, vars
  <2>3. ~strained' => UnstrainedInv'
    BY <2>2, UnstrainedStep
  <2> QED BY <2>1, <2>3
<1> QED BY <1>1, <1>2, TypeCorrect, Invariance, PTL DEF Spec

\* Nobody has more builds in flight than the plan allows, until something
\* happens that the count does not allow for.
THEOREM CapAlwaysRespected == Spec => []CapRespected
<1>1. CountInv => CapRespected
  BY DEF CountInv, UnstrainedInv, CapRespected, CapHolds
<1> QED BY <1>1, CountInvariance, PTL

\* ... and until then nothing waits for a slot that nobody will give it.
THEOREM NeverStranded == Spec => []NoStranded
<1>1. CountInv => NoStranded
  BY DEF CountInv, UnstrainedInv, NoStranded, NobodyWaitsInVain, Watched, Quiet
<1> QED BY <1>1, CountInvariance, PTL
=============================================================================
