--------------------------- MODULE TargetHistory ---------------------------
(***************************************************************************)
(* One target and its history of builds: the two denormalized pointers,    *)
(* Target#sync_from_builds! that recomputes them after every creation,     *)
(* status change and destruction of a build, and the retention window of   *)
(* Target#prune_builds!.  Sync reads in two queries and writes in a third, *)
(* outside any transaction when Build#mark! calls it and inside the one of *)
(* the save or destroy otherwise; in neither case does anything stop       *)
(* another process between the read and the write.                         *)
(*                                                                         *)
(* A build is its rank in creation order.  "unresolved" is any status of   *)
(* Target::UNRESOLVED and "failed" stands for canceled too: nothing here   *)
(* tells them apart.  Which writers a build's status has, and when, is     *)
(* BuildLifecycle's matter: any of them may be running here.               *)
(***************************************************************************)
EXTENDS Naturals, FiniteSets, FiniteSetsExt

CONSTANTS
    NBuilds,        \* bound on the builds ever made
    Flagged,        \* the builds the server reports errors of
    Procs,          \* requests and jobs at work on this target
    KeptSuccesses,  \* Target::KEPT_SUCCESSES
    None,
    Env             \* what else may happen: "delete" (by the author), "prune_error"

ASSUME NBuildsAssumption == NBuilds \in Nat
ASSUME FlaggedAssumption == Flagged \subseteq 1..NBuilds
ASSUME KeptAssumption == KeptSuccesses \in Nat \ {0}
ASSUME NoneAssumption == None \notin 1..NBuilds
ASSUME EnvAssumption == Env \subseteq {"delete", "prune_error"}

Builds == 1..NBuilds
BuildOrNone == Builds \cup {None}

VARIABLES
    status,             \* of each build
    errors_accepted,    \* the flagged builds their author chose to use
    latest_build, current_build,
    made,               \* how many builds were begun
    proc,               \* where each process is
    restored,           \* successes that came back by a write nobody prunes after
    overlapped          \* whether two of them were ever at work at once

vars == <<status, errors_accepted, latest_build, current_build, made, proc, restored, overlapped>>
pointers == <<latest_build, current_build>>

Status == {"none", "unresolved", "success", "failed", "gone"}

(***************************************************************************)
(* A process: its place, the build it makes, imports or writes back, the   *)
(* pointers it has read, whether the retention window comes next, and the  *)
(* builds that the window spares or that it is to destroy.                 *)
(***************************************************************************)
At(pc, build, latest, current, prune, set) ==
    [pc |-> pc, build |-> build, latest |-> latest, current |-> current,
     prune |-> prune, set |-> set]

Idle == At("idle", None, None, None, FALSE, {})

TypeOK ==
    /\ status \in [Builds -> Status]
    /\ errors_accepted \subseteq Flagged
    /\ latest_build \in BuildOrNone
    /\ current_build \in BuildOrNone
    /\ made \in 0..NBuilds
    /\ proc \in [Procs ->
            [pc: {"idle", "saving", "accepting", "logging", "sync", "synced_latest", "synced",
                  "keep", "keep_rest", "select", "destroy", "destroying"},
             build: BuildOrNone, latest: BuildOrNone, current: BuildOrNone,
             prune: BOOLEAN, set: SUBSET Builds]]
    /\ restored \subseteq Builds
    /\ overlapped \in BOOLEAN

Init ==
    /\ status = [b \in Builds |-> "none"]
    /\ errors_accepted = {}
    /\ latest_build = None
    /\ current_build = None
    /\ made = 0
    /\ proc = [p \in Procs |-> Idle]
    /\ restored = {}
    /\ overlapped = FALSE

\* The rows a query sees.
Rows == {b \in Builds : status[b] \in {"unresolved", "success", "failed"}}
With(s) == {b \in Builds : status[b] = s}

\* Mutant of LiveCandidates: every success.
LiveCandidates_any_success == With("success")

\* Build.live_candidates.
LiveCandidates ==
    {b \in With("success") : b \in Flagged => b \in errors_accepted}

Newest(S) == IF S = {} THEN None ELSE Max(S)

\* Mutant of NewestOf: one too many.
NewestOf_one_more(n, S) == {b \in S : Cardinality({a \in S : a > b}) <= n}

\* The n newest of S.
NewestOf(n, S) == {b \in S : Cardinality({a \in S : a > b}) < n}

-----------------------------------------------------------------------------
(***************************************************************************)
(* Creation: the INSERT and after_create :sync_target in one transaction.  *)
(* Others see nothing of it before it commits, and it sees nothing of      *)
(* theirs.                                                                 *)
(***************************************************************************)
CreateRead(p) ==
    /\ proc[p].pc = "idle"
    /\ made < NBuilds
    /\ made' = made + 1
    /\ proc' = [proc EXCEPT ![p] =
            At("saving", made', Newest(Rows \cup {made'}), Newest(LiveCandidates), FALSE, {})]
    /\ UNCHANGED <<status, errors_accepted, pointers, restored>>

CreateCommit(p) ==
    /\ proc[p].pc = "saving"
    /\ status' = [status EXCEPT ![proc[p].build] = "unresolved"]
    /\ latest_build' = proc[p].latest
    /\ current_build' = proc[p].current
    /\ proc' = [proc EXCEPT ![p] = Idle]
    /\ UNCHANGED <<errors_accepted, made, restored>>

(***************************************************************************)
(* Build#mark!, and the three queries of sync_from_builds! behind it.  The *)
(* import that says success prunes afterwards; the log job may write back  *)
(* any other status.                                                       *)
(***************************************************************************)
Mark(p, b, s) ==
    /\ proc[p].pc = "idle"
    /\ b \in Rows
    /\ status' = [status EXCEPT ![b] = s]
    /\ restored' = IF s = "success" THEN restored \ {b} ELSE restored
    /\ proc' = [proc EXCEPT ![p] =
            At("sync", IF s = "success" THEN b ELSE None, None, None, s = "success", {})]
    /\ UNCHANGED <<errors_accepted, pointers, made>>

(***************************************************************************)
(* Two writers say the success they have read a second time, and neither   *)
(* prunes: BuildsController#accept, which looks whether the build awaits   *)
(* review, and FullBuildLogJob, which reloads it.  What the build has      *)
(* become in between is overwritten, unless its row is gone.               *)
(***************************************************************************)
ReadSuccess(p, b, pc) ==
    /\ proc[p].pc = "idle"
    /\ b \in With("success")
    /\ pc = "accepting" => b \in Flagged \ errors_accepted
    /\ proc' = [proc EXCEPT ![p] = At(pc, b, None, None, FALSE, {})]
    /\ UNCHANGED <<status, errors_accepted, pointers, made, restored>>

WriteSuccess(p) ==
    /\ proc[p].pc \in {"accepting", "logging"}
    /\ LET b == proc[p].build IN
       /\ status' = [status EXCEPT ![b] = IF @ = "gone" THEN @ ELSE "success"]
       /\ restored' = IF status[b] \in {"success", "gone"} THEN restored ELSE restored \cup {b}
       /\ errors_accepted' =
            IF proc[p].pc = "accepting" THEN errors_accepted \cup {b} ELSE errors_accepted
    /\ proc' = [proc EXCEPT ![p] = At("sync", None, None, None, FALSE, {})]
    /\ UNCHANGED <<pointers, made>>

SyncLatest(p) ==
    /\ proc[p].pc = "sync"
    /\ proc' = [proc EXCEPT ![p] =
            At("synced_latest", @.build, Newest(Rows), None, @.prune, {})]
    /\ UNCHANGED <<status, errors_accepted, pointers, made, restored>>

SyncCurrent(p) ==
    /\ proc[p].pc = "synced_latest"
    /\ proc' = [proc EXCEPT ![p] =
            At("synced", @.build, @.latest, Newest(LiveCandidates), @.prune, {})]
    /\ UNCHANGED <<status, errors_accepted, pointers, made, restored>>

SyncWrite(p) ==
    /\ proc[p].pc = "synced"
    /\ latest_build' = proc[p].latest
    /\ current_build' = proc[p].current
    /\ proc' = [proc EXCEPT ![p] =
            IF @.prune THEN At("keep", @.build, None, @.current, TRUE, {}) ELSE Idle]
    /\ UNCHANGED <<status, errors_accepted, made, restored>>

(***************************************************************************)
(* Target#prune_builds!: what to keep, in two queries and a third for the  *)
(* newest, then everything else.  The served build it spares is the one    *)
(* this process wrote into its own Target.                                 *)
(***************************************************************************)
KeptWindow == NewestOf(KeptSuccesses, With("success"))

\* Mutant of KeptAnyway: unresolved builds are left to the window.
KeptAnyway_not_unresolved(served) == {Newest(Rows), served} \ {None}

KeptAnyway(served) == With("unresolved") \cup ({Newest(Rows), served} \ {None})

PruneKeep(p) ==
    /\ proc[p].pc = "keep"
    /\ proc' = [proc EXCEPT ![p] =
            At("keep_rest", @.build, None, @.current, TRUE, KeptWindow)]
    /\ UNCHANGED <<status, errors_accepted, pointers, made, restored>>

PruneKeepRest(p) ==
    /\ proc[p].pc = "keep_rest"
    /\ proc' = [proc EXCEPT ![p] =
            At("select", @.build, None, None, TRUE, @.set \cup KeptAnyway(@.current))]
    /\ UNCHANGED <<status, errors_accepted, pointers, made, restored>>

PruneSelect(p) ==
    /\ proc[p].pc = "select"
    /\ proc' = [proc EXCEPT ![p] =
            IF Rows \subseteq @.set THEN Idle
            ELSE At("destroy", @.build, None, None, TRUE, Rows \ @.set)]
    /\ UNCHANGED <<status, errors_accepted, pointers, made, restored>>

\* A destroy! that raises ends the import, whose rescue marks its own build
\* failed: the one that has just succeeded.
PruneError(p) ==
    /\ "prune_error" \in Env
    /\ proc[p].pc = "destroy"
    /\ proc[p].prune
    /\ status' = [status EXCEPT ![proc[p].build] = IF @ = "gone" THEN @ ELSE "failed"]
    /\ proc' = [proc EXCEPT ![p] = At("sync", None, None, None, FALSE, {})]
    /\ UNCHANGED <<errors_accepted, pointers, made, restored>>

(***************************************************************************)
(* Destruction of the builds in set, one transaction each: the DELETE and  *)
(* after_destroy :sync_target, which does not see the row any more.        *)
(***************************************************************************)
\* The default scope of builds is newest first.
Victim(p) == Max(proc[p].set)

DestroyRead(p) ==
    /\ proc[p].pc = "destroy"
    /\ proc' = [proc EXCEPT ![p] =
            At("destroying", @.build, Newest(Rows \ {Victim(p)}),
               Newest(LiveCandidates \ {Victim(p)}), @.prune, @.set)]
    /\ UNCHANGED <<status, errors_accepted, pointers, made, restored>>

\* Mutant of DestroyCommit: no after_destroy hook.
DestroyCommit_without_sync(p) ==
    /\ proc[p].pc = "destroying"
    /\ status' = [status EXCEPT ![Victim(p)] = "gone"]
    /\ proc' = [proc EXCEPT ![p] =
            IF @.set = {Victim(p)} THEN Idle
            ELSE At("destroy", @.build, None, None, @.prune, @.set \ {Victim(p)})]
    /\ UNCHANGED <<errors_accepted, pointers, made, restored>>

DestroyCommit(p) ==
    /\ proc[p].pc = "destroying"
    /\ status' = [status EXCEPT ![Victim(p)] = "gone"]
    /\ latest_build' = proc[p].latest
    /\ current_build' = proc[p].current
    /\ proc' = [proc EXCEPT ![p] =
            IF @.set = {Victim(p)} THEN Idle
            ELSE At("destroy", @.build, None, None, @.prune, @.set \ {Victim(p)})]
    /\ UNCHANGED <<errors_accepted, made, restored>>

\* BuildsController#destroy.
Delete(p, b) ==
    /\ "delete" \in Env
    /\ proc[p].pc = "idle"
    /\ b \in Rows
    /\ proc' = [proc EXCEPT ![p] = At("destroy", None, None, None, FALSE, {b})]
    /\ UNCHANGED <<status, errors_accepted, pointers, made, restored>>

\* TargetsController#revert: with a live build behind the newest one, the one
\* the pointer names goes.
Revert(p) ==
    /\ "delete" \in Env
    /\ proc[p].pc = "idle"
    /\ Cardinality(LiveCandidates) >= 2
    /\ current_build \in Rows
    /\ proc' = [proc EXCEPT ![p] = At("destroy", None, None, None, FALSE, {current_build})]
    /\ UNCHANGED <<status, errors_accepted, pointers, made, restored>>

-----------------------------------------------------------------------------
Work == \E p \in Procs :
    \/ CreateRead(p) \/ CreateCommit(p)
    \/ \E b \in Builds : \E s \in {"unresolved", "success", "failed"} : Mark(p, b, s)
    \/ \E b \in Builds : Delete(p, b) \/ \E pc \in {"accepting", "logging"} : ReadSuccess(p, b, pc)
    \/ WriteSuccess(p)
    \/ SyncLatest(p) \/ SyncCurrent(p) \/ SyncWrite(p)
    \/ PruneKeep(p) \/ PruneKeepRest(p) \/ PruneSelect(p) \/ PruneError(p)
    \/ DestroyRead(p) \/ DestroyCommit(p) \/ Revert(p)

Busy(p) == proc[p].pc # "idle"

\* What no code keeps: a history of the overlaps, for the properties that hold
\* only while the processes take turns.
Next ==
    /\ Work
    /\ overlapped' = (overlapped \/ \E p, q \in Procs : p # q /\ Busy(p)' /\ Busy(q)')

Spec == Init /\ [][Next]_vars

-----------------------------------------------------------------------------
Quiet == \A p \in Procs : ~ Busy(p)

\* What a public link resolves to never moves onto output of a failed build
\* that its author has not accepted, however stale the pointer written is
\* (sync_from_builds! chooses among live_candidates).
ServedIsReviewed ==
    current_build \in Flagged => current_build \in errors_accepted

\* "unbounded history is a storage bill": once everybody is done a target has
\* at most the window's successes and the one readers see (prune_builds!),
\* beside those that had moved off success and that an acceptance or the log
\* job has marked success again: the window waits for the next import there.
StorageBounded ==
    Quiet => Cardinality(With("success") \ restored) <= KeptSuccesses + 1

\* "so the denormalization can never drift from the rows it summarizes"
\* (sync_from_builds!) and "a destroyed build can never leave a dangling
\* pointer" (prune_builds!), as long as the processes take turns.
PointersSettle ==
    ~ overlapped =>
        /\ {latest_build, current_build} \ {None} \subseteq Rows
        /\ Quiet => latest_build = Newest(Rows) /\ current_build = Newest(LiveCandidates)

\* The retention window never takes "anything still in flight (the build
\* server owes an answer, and its callback must find the row)" nor "the very
\* thing the public link is serving" (prune_builds!), while nobody else
\* changes what it is deciding about.
PruneSpares ==
    [][\A p \in Procs :
            DestroyCommit(p) /\ proc[p].prune /\ ~ overlapped
            => status[Victim(p)] # "unresolved" /\ Victim(p) # current_build]_vars
=============================================================================
