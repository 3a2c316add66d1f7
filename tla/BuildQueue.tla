----------------------------- MODULE BuildQueue -----------------------------
(***************************************************************************)
(* The concurrency cap: who gets one of an owner's slots, and who wakes    *)
(* the queue when a slot comes free.  BuildsController#queue_or_start_build*)
(* reads the count of slots and then saves a row; Build#mark! runs         *)
(* promote_next_queued_build! after every status that holds no slot.       *)
(* Neither takes a lock, and Puma and Solid Queue run several of them at   *)
(* once, so each is split at every statement that reads or writes the      *)
(* database.                                                               *)
(*                                                                         *)
(* Everything that happens to a build between its submission and its       *)
(* outcome is one word here, "running" (BuildLifecycle has the rest); what *)
(* matters is that it holds a slot.  Three of its writers look at the row  *)
(* before an answer comes and say sent_to_server or received_from_server   *)
(* after it, whatever has become of the row in between: a build canceled   *)
(* meanwhile, whose slot has been given away, is in flight again.          *)
(* A build is its rank in creation order, which is what promotion sorts by.*)
(***************************************************************************)
EXTENDS Naturals, FiniteSets

CONSTANTS
    Users,
    NBuilds,    \* bound on the builds ever requested
    Handlers,   \* requests and jobs that run at the same time
    Limits,     \* values of User#max_concurrent_builds
    None,
    Env         \* what the environment may do beyond the ordinary

ASSUME NBuildsAssumption == NBuilds \in Nat
ASSUME LimitsAssumption == Limits \subseteq Nat \ {0} /\ Limits # {}
ASSUME NoneAssumption == None \notin Users \cup 1..NBuilds
ASSUME EnvAssumption == Env \subseteq
    {"cancel", "cancel_pending", "delete", "collaborator", "subscribe", "lapse", "transfer"}

Builds == 1..NBuilds

VARIABLES
    state,      \* each build's status, as far as slots are concerned
    owner,      \* the owner of the project it belongs to
    enqueued,   \* how many FullBuildJob runs of it are waiting
    limit,      \* User#max_concurrent_builds of each user
    handler,    \* where each handler is
    marking,    \* builds that somebody who saw them in flight may mark so again
    strained    \* whether anything happened that the code's count does not allow for

vars == <<state, owner, enqueued, limit, handler, marking, strained>>

State == {"none", "queued", "pending", "running", "ended", "deleted"}
HoldsSlot == {"pending", "running"}

Idle == [pc |-> "idle", user |-> None, build |-> None, free |-> FALSE]

HandlerState ==
    [pc: {"idle", "save", "start", "check", "pick", "mark"},
     user: Users \cup {None}, build: Builds \cup {None}, free: BOOLEAN]

TypeOK ==
    /\ state \in [Builds -> State]
    /\ owner \in [Builds -> Users \cup {None}]
    /\ enqueued \in [Builds -> Nat]
    /\ limit \in [Users -> Limits]
    /\ handler \in [Handlers -> HandlerState]
    /\ marking \subseteq Builds
    /\ strained \in BOOLEAN

Init ==
    /\ state = [b \in Builds |-> "none"]
    /\ owner = [b \in Builds |-> None]
    /\ enqueued = [b \in Builds |-> 0]
    /\ limit \in [Users -> Limits]
    /\ handler = [h \in Handlers |-> Idle]
    /\ marking = {}
    /\ strained = FALSE

Quiet == \A h \in Handlers : handler[h].pc = "idle"

\* Build.in_flight_count: builds in the projects the user owns.
InFlightOf(u) == {b \in Builds : owner[b] = u /\ state[b] \in HoldsSlot}

\* Mutant of SlotAvailable: off by one.
SlotAvailable_one_more(u) == Cardinality(InFlightOf(u)) <= limit[u]

SlotAvailable(u) == Cardinality(InFlightOf(u)) < limit[u]

QueuedOf(u) == {b \in Builds : owner[b] = u /\ state[b] = "queued"}

-----------------------------------------------------------------------------
(***************************************************************************)
(* BuildsController#queue_or_start_build: the requester's slots decide,    *)
(* whoever owns the project; build_all does this once per target.          *)
(***************************************************************************)
Request(h, u) ==
    /\ handler[h].pc = "idle"
    /\ handler' = [handler EXCEPT ![h] =
            [pc |-> "save", user |-> u, build |-> None, free |-> SlotAvailable(u)]]
    /\ strained' = (strained \/ ~Quiet)
    /\ UNCHANGED <<state, owner, enqueued, limit, marking>>

\* The next build nobody has made yet.
NextBuild(b) == state[b] = "none" /\ \A a \in 1..(b - 1) : state[a] # "none"

\* build.save, in a project of o: the user's own, or one shared with them.
Save(h, b, o) ==
    /\ handler[h].pc = "save"
    /\ NextBuild(b)
    /\ o = handler[h].user \/ "collaborator" \in Env
    /\ state' = [state EXCEPT ![b] = IF handler[h].free THEN "pending" ELSE "queued"]
    /\ owner' = [owner EXCEPT ![b] = o]
    /\ handler' = [handler EXCEPT ![h] =
            IF handler[h].free
            THEN [pc |-> "start", user |-> None, build |-> b, free |-> FALSE]
            ELSE Idle]
    /\ strained' = (strained \/ o # handler[h].user)
    /\ UNCHANGED <<enqueued, limit, marking>>

\* Build#start!: the job is enqueued, and the handler is done.
Start(h, b) ==
    /\ handler[h].pc = "start"
    /\ handler[h].build = b
    /\ enqueued' = [enqueued EXCEPT ![b] = @ + 1]
    /\ handler' = [handler EXCEPT ![h] = Idle]
    /\ UNCHANGED <<state, owner, limit, marking, strained>>

\* FullBuildJob#perform marks whatever it is given in progress, and goes on to
\* submit it; a deleted build no longer deserializes.
JobTake(b) ==
    /\ enqueued[b] > 0
    /\ enqueued' = [enqueued EXCEPT ![b] = @ - 1]
    /\ \/ state[b] # "deleted" /\ state' = [state EXCEPT ![b] = "running"]
          /\ marking' = marking \cup {b}
       \/ state[b] = "deleted" /\ UNCHANGED <<state, marking>>
    /\ UNCHANGED <<owner, limit, handler, strained>>

\* The webhook and the status check look at the row before they act on an
\* answer.  Two who look are no more than one who looks again after the first
\* has marked, so a set of builds is enough.
Look(b) ==
    /\ state[b] = "running"
    /\ marking' = marking \cup {b}
    /\ UNCHANGED <<state, owner, enqueued, limit, handler, strained>>

\* ... and Build#mark! with sent_to_server or received_from_server, which
\* hold a slot: nothing promotes.  No row, no update.
MarkInFlight(b) ==
    /\ b \in marking
    /\ marking' = marking \ {b}
    /\ state' = [state EXCEPT ![b] = IF @ = "deleted" THEN @ ELSE "running"]
    /\ strained' = (strained \/ state[b] = "ended")
    /\ UNCHANGED <<owner, enqueued, limit, handler>>

\* Who may be marked with an outcome: a running build, one still to be sent
\* when its author cancels it, and one that has its outcome already, by a
\* second writer (accept_errors!, FullBuildLogJob).
MayEnd(b) ==
    \/ state[b] \in {"running", "ended"}
    \/ state[b] = "queued" /\ "cancel" \in Env
    \/ state[b] = "pending" /\ "cancel_pending" \in Env

\* Mutant of End: the slots are counted before the status is written.
End_counts_first(h, b) ==
    /\ handler[h].pc = "idle"
    /\ MayEnd(b)
    /\ state' = [state EXCEPT ![b] = "ended"]
    /\ handler' = [handler EXCEPT ![h] =
            IF SlotAvailable(owner[b])
            THEN [pc |-> "pick", user |-> owner[b], build |-> None, free |-> FALSE]
            ELSE Idle]
    /\ strained' = (strained \/ ~Quiet \/ state[b] = "pending")
    /\ UNCHANGED <<owner, enqueued, limit, marking>>

(***************************************************************************)
(* Build#mark! with a status that holds no slot.  The same handler goes    *)
(* on into promote_next_queued_build!.                                     *)
(***************************************************************************)
End(h, b) ==
    /\ handler[h].pc = "idle"
    /\ MayEnd(b)
    /\ state' = [state EXCEPT ![b] = "ended"]
    /\ handler' = [handler EXCEPT ![h] =
            [pc |-> "check", user |-> owner[b], build |-> None, free |-> FALSE]]
    /\ strained' = (strained \/ ~Quiet \/ state[b] = "pending")
    /\ UNCHANGED <<owner, enqueued, limit, marking>>

PromoteCheck(h) ==
    /\ handler[h].pc = "check"
    /\ handler' = [handler EXCEPT ![h] =
            IF SlotAvailable(@.user)
            THEN [pc |-> "pick", user |-> @.user, build |-> None, free |-> FALSE]
            ELSE Idle]
    /\ UNCHANGED <<state, owner, enqueued, limit, marking, strained>>

\* Mutant of PromotePick: the default scope, newest first, is not reordered.
PromotePick_newest(h) ==
    /\ handler[h].pc = "pick"
    /\ \/ /\ QueuedOf(handler[h].user) = {}
          /\ handler' = [handler EXCEPT ![h] = Idle]
       \/ \E b \in QueuedOf(handler[h].user) :
            /\ \A a \in QueuedOf(handler[h].user) : a <= b
            /\ handler' = [handler EXCEPT ![h] =
                    [pc |-> "mark", user |-> None, build |-> b, free |-> FALSE]]
    /\ UNCHANGED <<state, owner, enqueued, limit, marking, strained>>

\* The oldest queued build of the owner, if there is one.
PromotePick(h) ==
    /\ handler[h].pc = "pick"
    /\ \/ /\ QueuedOf(handler[h].user) = {}
          /\ handler' = [handler EXCEPT ![h] = Idle]
       \/ \E b \in QueuedOf(handler[h].user) :
            /\ \A a \in QueuedOf(handler[h].user) : b <= a
            /\ handler' = [handler EXCEPT ![h] =
                    [pc |-> "mark", user |-> None, build |-> b, free |-> FALSE]]
    /\ UNCHANGED <<state, owner, enqueued, limit, marking, strained>>

\* Mutant of PromoteMark: the promoted build is not started.
PromoteMark_unstarted(h, b) ==
    /\ handler[h].pc = "mark"
    /\ handler[h].build = b
    /\ state' = [state EXCEPT ![b] = IF @ = "deleted" THEN @ ELSE "pending"]
    /\ handler' = [handler EXCEPT ![h] = Idle]
    /\ UNCHANGED <<owner, enqueued, limit, marking, strained>>

\* next_up.mark!(:pending), whatever has become of it; no row, no update.
PromoteMark(h, b) ==
    /\ handler[h].pc = "mark"
    /\ handler[h].build = b
    /\ state' = [state EXCEPT ![b] = IF @ = "deleted" THEN @ ELSE "pending"]
    /\ handler' = [handler EXCEPT ![h] =
            [pc |-> "start", user |-> None, build |-> b, free |-> FALSE]]
    /\ UNCHANGED <<owner, enqueued, limit, marking, strained>>

\* BuildsController#destroy, Target#prune_builds!, Target#destroy: the row
\* goes, whatever its status, and nothing promotes.
Delete(b) ==
    /\ "delete" \in Env
    /\ state[b] \in State \ {"none", "deleted"}
    /\ state' = [state EXCEPT ![b] = "deleted"]
    /\ strained' = TRUE
    /\ UNCHANGED <<owner, enqueued, limit, handler, marking>>

\* A subscription begins or lapses.
ChangePlan(u) ==
    /\ \E n \in Limits :
        /\ \/ n > limit[u] /\ "subscribe" \in Env
           \/ n < limit[u] /\ "lapse" \in Env
        /\ limit' = [limit EXCEPT ![u] = n]
        /\ strained' = (strained \/ n < limit[u])
    /\ UNCHANGED <<state, owner, enqueued, handler, marking>>

(***************************************************************************)
(* Project#transfer_ownership_to!: a project of u's goes to v with every   *)
(* build in it, and nobody looks at the slots of either.  Not between the  *)
(* picking of a build and its mark.                                        *)
(***************************************************************************)
Transfer(u, v) ==
    /\ "transfer" \in Env /\ u # v
    /\ \A h \in Handlers : handler[h].pc # "mark"
    /\ \E project \in SUBSET {b \in Builds : owner[b] = u} :
        /\ project # {}
        /\ owner' = [b \in Builds |-> IF b \in project THEN v ELSE owner[b]]
    /\ strained' = TRUE
    /\ UNCHANGED <<state, enqueued, limit, handler, marking>>

-----------------------------------------------------------------------------
HandlerStep(h) ==
    \/ \E b \in Builds, o \in Users : Save(h, b, o)
    \/ \E b \in Builds : Start(h, b) \/ PromoteMark(h, b)
    \/ PromoteCheck(h) \/ PromotePick(h)

Next ==
    \/ \E h \in Handlers :
        \/ \E u \in Users : (\E b \in Builds : state[b] = "none") /\ Request(h, u)
        \/ HandlerStep(h)
        \/ \E b \in Builds : End(h, b)
    \/ \E b \in Builds : JobTake(b) \/ Look(b) \/ MarkInFlight(b) \/ Delete(b)
    \/ \E u \in Users : ChangePlan(u)
    \/ \E u, v \in Users : Transfer(u, v)

Spec == Init /\ [][Next]_vars

-----------------------------------------------------------------------------
\* A pending build holds a slot with nothing on the build server to wait for:
\* somebody is about to enqueue its job, or the job is there (Build#start!).
PendingHasStarter ==
    \A b \in Builds : state[b] = "pending" =>
        \/ enqueued[b] > 0
        \/ \E h \in Handlers : handler[h].pc = "start" /\ handler[h].build = b

\* promote_next_queued_build! is first come, first served even when several
\* promotions overlap: nothing leaves the queue for a slot while an older
\* build of the same owner is still in it.
PromotionIsFifo ==
    [][\A a, b \in Builds :
            /\ state[b] = "queued" /\ state'[b] = "pending"
            /\ a < b /\ owner[a] = owner[b]
            => state[a] # "queued"]_vars

\* "How many builds this user may have actually running at once"
\* (User#max_concurrent_builds, Build.slot_available?).
CapHolds == \A u \in Users : Cardinality(InFlightOf(u)) <= limit[u]

\* ... while requests and promotions follow one another, nobody builds in
\* another's project, nothing pending is canceled, no build that was ended is
\* marked in flight by somebody who looked before its end, no plan lapses and
\* no project changes hands: then the count-then-save of
\* BuildsController#queue_or_start_build and the promotions never let an
\* owner have more builds running than the plan allows.
CapRespected == ~strained => CapHolds

\* Nothing waits for a slot nobody will give it: while a build is queued, its
\* owner has another one in flight, whose end promotes it (the comment on
\* promote_next_queued_build!: it runs "every time a build stops occupying a
\* slot").
NobodyWaitsInVain ==
    Quiet => \A u \in Users : QueuedOf(u) # {} => InFlightOf(u) # {}

\* ... under the same conditions as CapRespected, whatever queued builds are
\* canceled and plans upgraded on the way.
NoStranded == ~strained => NobodyWaitsInVain
-----------------------------------------------------------------------------
(***************************************************************************)
(* What PromotionIsFifo rests on: builds are made in order, and nothing    *)
(* older than a picked build can join the queue any more.                  *)
(***************************************************************************)
MadeInOrder ==
    \A a, b \in Builds : a < b /\ state[b] # "none" => state[a] # "none"

PickedIsOldest ==
    \A h \in Handlers : handler[h].pc = "mark" =>
        LET b == handler[h].build IN
        /\ b \in Builds
        /\ state[b] # "none"
        /\ \A a \in Builds : a < b /\ owner[a] = owner[b] => state[a] # "queued"

\* Only builds that exist are started, and only started ones have jobs or are
\* seen in flight.
StartedIsMade ==
    /\ \A b \in Builds : enqueued[b] > 0 \/ b \in marking => state[b] \notin {"none", "queued"}
    /\ \A h \in Handlers : handler[h].pc = "start" =>
        handler[h].build \in Builds /\ state[handler[h].build] \notin {"none", "queued"}

IInv == MadeInOrder /\ StartedIsMade /\ PickedIsOldest /\ PendingHasStarter

(***************************************************************************)
(* What CapRespected and NoStranded rest on: while nothing strains the     *)
(* count, one handler is at work at most, so that what it has read of the  *)
(* slots still holds when it acts on it; a job waits only for a pending    *)
(* build; and behind every queue there is a build in flight, or a handler  *)
(* on its way to promote.                                                  *)
(***************************************************************************)
OwnersAreKnown == \A b \in Builds : state[b] # "none" => owner[b] \in Users

OneAtATime ==
    \A g, h \in Handlers : handler[g].pc # "idle" /\ handler[h].pc # "idle" => g = h

ReadingHolds(at) ==
    /\ at.pc = "save" => at.user \in Users /\ (IF at.free THEN SlotAvailable(at.user)
                                                        ELSE InFlightOf(at.user) # {})
    /\ at.pc = "check" => at.user \in Users
    /\ at.pc = "pick" => at.user \in Users /\ SlotAvailable(at.user)
    /\ at.pc = "mark" => at.build \in Builds /\ state[at.build] = "queued"
                         /\ SlotAvailable(owner[at.build])
    /\ at.pc = "start" => at.build \in Builds /\ state[at.build] = "pending"
                          /\ enqueued[at.build] = 0

JobsArePending ==
    \A b \in Builds :
        /\ enqueued[b] > 0 => state[b] = "pending" /\ enqueued[b] = 1
        /\ b \in marking => state[b] \in {"running", "ended"}

Watched(u) ==
    \/ InFlightOf(u) # {}
    \/ \E h \in Handlers :
        \/ handler[h].pc \in {"check", "pick"} /\ handler[h].user = u
        \/ handler[h].pc = "mark" /\ owner[handler[h].build] = u

UnstrainedInv ==
    /\ OneAtATime /\ JobsArePending
    /\ \A u \in Users : Cardinality(InFlightOf(u)) <= limit[u]
    /\ \A h \in Handlers : ReadingHolds(handler[h])
    /\ \A u \in Users : QueuedOf(u) # {} => Watched(u)

CountInv == OwnersAreKnown /\ (~strained => UnstrainedInv)
=============================================================================
