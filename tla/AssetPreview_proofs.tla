------------------------- MODULE AssetPreview_proofs -------------------------
(***************************************************************************)
(* The preview pane of a generated asset over its generator's runtime, for *)
(* any inputs, any number of calls, edits and faults, and any environment: *)
(* types, one engine at a time, the newest request wins, what hung is not  *)
(* rendered twice.  If the docinfo stays as it is, what is shown and       *)
(* stored is what it says it is; and if no old source is typed again and   *)
(* uploads keep their order (Steady), the stored picture is that of the    *)
(* source once everything is at rest.                                      *)
(*                                                                         *)
(* The record rt comes first.  At any time the runtime is in one of a few  *)
(* modes (Mode), which say what is awaited, what the microtask queue holds *)
(* and where the drain loop is.  Every function of the source maps a       *)
(* record to a record and preserves Inv; then come the actions (the lemmas *)
(* ...Step), and RuntimeInvariant.  The rest is about the pane: what a     *)
(* step does to a call (CallMoves), to its callback (StageMoves), to what  *)
(* is shown (ShownMoves) and to what is stored (StoreMoves).               *)
(***************************************************************************)
EXTENDS AssetPreview, SequenceTheorems, TLAPS

USE BoundAssumption, InputAssumption, EditsAssumption

-----------------------------------------------------------------------------
(***************************************************************************)
(* The runtime's record.                                                   *)
(***************************************************************************)
Runtimes ==
    [worker: Workers \cup {None}, promise: Workers \cup {None}, status: Status,
     engine: [Workers -> Engine], quiet: SUBSET Workers, fulfilled: SUBSET Workers,
     pending: Seq(Workers \X {"load", "render"}),
     awaiting: [Workers -> Seq(Calls \cup {None})], watched: BOOLEAN, micro: Seq(Micro)]

\* A record of the runtime is its fields.
Fields(r, worker, promise, status, engine, quiet, fulfilled, pending, awaiting, watched, micro) ==
    /\ r.worker = worker /\ r.promise = promise /\ r.status = status /\ r.engine = engine
    /\ r.quiet = quiet /\ r.fulfilled = fulfilled /\ r.pending = pending
    /\ r.awaiting = awaiting /\ r.watched = watched /\ r.micro = micro
    /\ r = [worker |-> worker, promise |-> promise, status |-> status, engine |-> engine,
            quiet |-> quiet, fulfilled |-> fulfilled, pending |-> pending, awaiting |-> awaiting,
            watched |-> watched, micro |-> micro]

LEMMA Numbers ==
    /\ NCalls \in Nat /\ MaxFaults \in Nat
    /\ \A w \in Workers : w \in Nat /\ w >= 1 /\ w # None
    /\ \A n \in Calls : n \in Nat /\ n >= 1 /\ n # None
    /\ None \in Nat /\ None = 0
BY DEF Workers, Calls, None

LEMMA SameFields ==
    ASSUME NEW r \in Runtimes
    PROVE  Fields(r, r.worker, r.promise, r.status, r.engine, r.quiet, r.fulfilled, r.pending,
                  r.awaiting, r.watched, r.micro)
BY DEF Runtimes, Fields

LEMMA Tasks ==
    ASSUME NEW ok \in BOOLEAN
    PROVE  /\ \A w \in Workers : Task("load", w, ok) \in Micro
           /\ \A n \in Calls \cup {None} : Task("ensured", n, ok) \in Micro
           /\ Task("answered", None, ok) \in Micro
           /\ Task("settled", None, ok) \in Micro
           /\ \A k, x : /\ Task(k, x, ok).kind = k /\ Task(k, x, ok).who = x
                        /\ Task(k, x, ok).ok = ok
BY DEF Task, Micro

\* What a microtask is.
LEMMA MicroIs ==
    ASSUME NEW t \in Micro
    PROVE  /\ t.kind \in {"load", "ensured", "answered", "settled"}
           /\ t.ok \in BOOLEAN
           /\ t.kind = "load" => t.who \in Workers
           /\ t.kind = "ensured" => t.who \in Calls \cup {None}
           /\ t.kind \in {"answered", "settled"} => t.who = None
           /\ t = Task(t.kind, t.who, t.ok)
BY DEF Micro, Task

\* The numbers of the workers that have been created are 1..k.
Started(r, k) == k \in Nat /\ \A w \in Workers : r.engine[w] # "none" <=> w <= k

LEMMA NextWorkerIs ==
    ASSUME NEW r \in Runtimes, NEW k, Started(r, k), k + 1 \in Workers
    PROVE  NextWorker(r) = k + 1
<1>1. r.engine[k + 1] = "none" /\ \A v \in 1..((k + 1) - 1) : r.engine[v] # "none"
  BY Numbers DEF Started, Workers
<1>2. ASSUME NEW w \in Workers, r.engine[w] = "none", \A v \in 1..(w - 1) : r.engine[v] # "none"
      PROVE  w = k + 1
  <2>1. ~(w <= k)
    BY <1>2 DEF Started
  <2>2. ~(w > k + 1)
    BY <1>1, <1>2, Numbers DEF Started, Workers
  <2> QED BY <2>1, <2>2, Numbers DEF Started
<1> QED BY <1>1, <1>2 DEF NextWorker

\* Starting a worker where there is none.
StartedOne(r, quiet, w, s) ==
    Fields(s, w, w, IF quiet THEN r.status ELSE "loading", [r.engine EXCEPT ![w] = "loading"],
           IF quiet THEN r.quiet \cup {w} ELSE r.quiet, r.fulfilled,
           Append(r.pending, <<w, "load">>), r.awaiting, r.watched, r.micro)

LEMMA StartIs ==
    ASSUME NEW r \in Runtimes, NEW quiet \in BOOLEAN, NEW k, Started(r, k), k + 1 \in Workers,
           r.promise = None
    PROVE  StartedOne(r, quiet, k + 1, Start(r, quiet, FALSE))
BY NextWorkerIs DEF Start, StartedOne, Runtimes, Fields

LEMMA StartThrows ==
    ASSUME NEW r \in Runtimes, NEW quiet \in BOOLEAN, r.promise = None
    PROVE  Fields(Start(r, quiet, TRUE), r.worker, r.promise, "failed", r.engine, r.quiet,
                  r.fulfilled, r.pending, r.awaiting, r.watched, r.micro)
BY DEF Start, Runtimes, Fields

LEMMA NoStart ==
    ASSUME NEW r, NEW quiet, NEW throws, r.promise # None
    PROVE  Start(r, quiet, throws) = r
BY DEF Start

\* Changing one field of a record of the runtime.
LEMMA FieldSet ==
    ASSUME NEW a, NEW b, NEW c, NEW d, NEW e, NEW f, NEW g, NEW h, NEW i, NEW j, NEW r, NEW new,
           Fields(r, a, b, c, d, e, f, g, h, i, j)
    PROVE  /\ Fields([r EXCEPT !.micro = new], a, b, c, d, e, f, g, h, i, new)
           /\ Fields([r EXCEPT !.awaiting = new], a, b, c, d, e, f, g, new, i, j)
           /\ Fields([r EXCEPT !.pending = new], a, b, c, d, e, f, new, h, i, j)
           /\ Fields([r EXCEPT !.status = new], a, b, new, d, e, f, g, h, i, j)
           /\ Fields([r EXCEPT !.worker = new], new, b, c, d, e, f, g, h, i, j)
           /\ Fields([r EXCEPT !.promise = new], a, new, c, d, e, f, g, h, i, j)
           /\ Fields([r EXCEPT !.engine = new], a, b, c, new, e, f, g, h, i, j)
           /\ Fields([r EXCEPT !.fulfilled = new], a, b, c, d, e, new, g, h, i, j)
           /\ Fields([r EXCEPT !.watched = new], a, b, c, d, e, f, g, h, new, j)
<1>1. r = [worker |-> a, promise |-> b, status |-> c, engine |-> d, quiet |-> e, fulfilled |-> f,
           pending |-> g, awaiting |-> h, watched |-> i, micro |-> j]
  BY DEF Fields
<1> QED BY <1>1 DEF Fields

LEMMA MicroSet ==
    ASSUME NEW r \in Runtimes, NEW queue
    PROVE  Fields([r EXCEPT !.micro = queue], r.worker, r.promise, r.status, r.engine, r.quiet,
                  r.fulfilled, r.pending, r.awaiting, r.watched, queue)
BY SameFields, FieldSet

LEMMA LaterIs ==
    ASSUME NEW r \in Runtimes, NEW t
    PROVE  Fields(Later(r, t), r.worker, r.promise, r.status, r.engine, r.quiet, r.fulfilled,
                  r.pending, r.awaiting, r.watched, Append(r.micro, t))
BY MicroSet DEF Later

LEMMA RanIs ==
    ASSUME NEW r \in Runtimes
    PROVE  Fields(Ran(r), r.worker, r.promise, r.status, r.engine, r.quiet, r.fulfilled,
                  r.pending, r.awaiting, r.watched, Tail(r.micro))
BY MicroSet DEF Ran

\* What follows an await is run at once if the promise is settled, and waits
\* for the load otherwise.
EnsuredLater(r, status, who, ok, s) ==
    Fields(s, r.worker, r.promise, status, r.engine, r.quiet, r.fulfilled, r.pending, r.awaiting,
           r.watched, Append(r.micro, Task("ensured", who, ok)))

LEMMA AwaitThrows ==
    ASSUME NEW r \in Runtimes, NEW who, r.promise = None
    PROVE  EnsuredLater(r, "failed", who, FALSE, Await(r, who, TRUE))
<1> DEFINE q == (r.status = "ready")
           s == Start(r, q, TRUE)
<1>1. q \in BOOLEAN
  OBVIOUS
<1>4. Fields(s, r.worker, r.promise, "failed", r.engine, r.quiet,
                  r.fulfilled, r.pending, r.awaiting, r.watched, r.micro)
  BY <1>1, StartThrows
<1>3. Await(r, who, TRUE) = Later(s, Task("ensured", who, FALSE))
  BY <1>4 DEF Await, EnsureWorker, Fields
<1> HIDE DEF s
<1>2. s \in Runtimes
  BY <1>4 DEF Runtimes, Status, Fields
<1>5. Fields(Later(s, Task("ensured", who, FALSE)), s.worker, s.promise, s.status, s.engine, s.quiet, s.fulfilled,
             s.pending, s.awaiting, s.watched, Append(s.micro, Task("ensured", who, FALSE)))
  BY <1>2, LaterIs
<1> QED BY <1>3, <1>4, <1>5 DEF Fields, EnsuredLater

LEMMA AwaitFulfilled ==
    ASSUME NEW r \in Runtimes, NEW who, NEW throws, r.promise # None, r.promise \in r.fulfilled
    PROVE  EnsuredLater(r, r.status, who, TRUE, Await(r, who, throws))
<1>1. Await(r, who, throws) = Later(r, Task("ensured", who, TRUE))
  BY DEF Await, EnsureWorker, Start
<1> QED BY <1>1, LaterIs DEF EnsuredLater

\* Waiting for the load of worker w.
AwaitingLoad(r, who, w, s) ==
    Fields(s, r.worker, r.promise, r.status, r.engine, r.quiet, r.fulfilled, r.pending,
           [r.awaiting EXCEPT ![w] = Append(r.awaiting[w], who)], r.watched, r.micro)

LEMMA AwaitLoading ==
    ASSUME NEW r \in Runtimes, NEW who, NEW throws, r.promise # None, r.promise \notin r.fulfilled
    PROVE  AwaitingLoad(r, who, r.promise, Await(r, who, throws))
<1>1. Await(r, who, throws)
        = [r EXCEPT !.awaiting = [r.awaiting EXCEPT ![r.promise] = Append(r.awaiting[r.promise], who)]]
  BY DEF Await, EnsureWorker, Start, Runtimes
<1> DEFINE new == [r.awaiting EXCEPT ![r.promise] = Append(r.awaiting[r.promise], who)]
<1> HIDE DEF new
<1>2. Fields([r EXCEPT !.awaiting = new], r.worker, r.promise, r.status, r.engine, r.quiet,
             r.fulfilled, r.pending, new, r.watched, r.micro)
  BY SameFields, FieldSet
<1> QED BY <1>1, <1>2 DEF AwaitingLoad, new

\* A worker is started for the one that waits.
AwaitingStart(r, who, w, s) ==
    Fields(s, w, w, IF r.status = "ready" THEN r.status ELSE "loading",
           [r.engine EXCEPT ![w] = "loading"],
           IF r.status = "ready" THEN r.quiet \cup {w} ELSE r.quiet, r.fulfilled,
           Append(r.pending, <<w, "load">>), [r.awaiting EXCEPT ![w] = Append(r.awaiting[w], who)],
           r.watched, r.micro)

LEMMA AwaitStarts ==
    ASSUME NEW r \in Runtimes, NEW who, NEW k, Started(r, k), k + 1 \in Workers,
           r.promise = None, \A w \in r.fulfilled : r.engine[w] # "none"
    PROVE  AwaitingStart(r, who, k + 1, Await(r, who, FALSE))
<1> DEFINE w == k + 1
           q == (r.status = "ready")
           s == Start(r, q, FALSE)
<1>1. q \in BOOLEAN
  OBVIOUS
<1>2. StartedOne(r, q, w, s)
  BY <1>1, StartIs
<1>3. w \in Workers /\ w \notin r.fulfilled /\ w # None
  BY Numbers DEF Started
<1>4. s \in Runtimes
  <2>1. Append(r.pending, <<w, "load">>) \in Seq(Workers \X {"load", "render"})
    BY <1>3 DEF Runtimes
  <2>2. [r.engine EXCEPT ![w] = "loading"] \in [Workers -> Engine]
    BY <1>3 DEF Runtimes, Engine
  <2> HIDE DEF w, q, s
  <2> QED BY <1>1, <1>2, <1>3, <2>1, <2>2 DEF StartedOne, Fields, Runtimes, Status
<1>5. s.promise = w /\ s.fulfilled = r.fulfilled
  BY <1>2 DEF StartedOne, Fields
<1>6. AwaitingLoad(s, who, w, [s EXCEPT !.awaiting[s.promise] = Append(@, who)])
  <2> HIDE DEF s, w
  <2>1. AwaitingLoad(s, who, s.promise, Await(s, who, FALSE))
    BY <1>3, <1>4, <1>5, AwaitLoading
  <2>2. Await(s, who, FALSE) = [s EXCEPT !.awaiting[s.promise] = Append(@, who)]
    BY <1>3, <1>5 DEF Await, EnsureWorker, Start
  <2> QED BY <1>5, <2>1, <2>2
<1>7. Await(r, who, FALSE) = [s EXCEPT !.awaiting[s.promise] = Append(@, who)]
  BY <1>3, <1>5 DEF Await, EnsureWorker
<1> HIDE DEF s, w
<1>8. /\ s.worker = w /\ s.promise = w /\ s.engine = [r.engine EXCEPT ![w] = "loading"]
      /\ s.fulfilled = r.fulfilled /\ s.pending = Append(r.pending, <<w, "load">>)
      /\ s.awaiting = r.awaiting /\ s.watched = r.watched /\ s.micro = r.micro
      /\ s.status = IF r.status = "ready" THEN r.status ELSE "loading"
      /\ s.quiet = IF r.status = "ready" THEN r.quiet \cup {w} ELSE r.quiet
  BY <1>2 DEF StartedOne, Fields, q
<1>9. AwaitingStart(r, who, w, [s EXCEPT !.awaiting[s.promise] = Append(@, who)])
  BY <1>6, <1>8 DEF AwaitingLoad, AwaitingStart
<1> QED BY <1>7, <1>9 DEF w

LEMMA StopIs ==
    ASSUME NEW r \in Runtimes, r.micro = <<>>,
           NEW x, r.pending = <<>> \/ r.pending = <<x>>
    PROVE  Fields(StopWorker(r), None, None, r.status,
                  [w \in Workers |-> IF w = r.worker THEN "stopped" ELSE r.engine[w]],
                  r.quiet, r.fulfilled, <<>>, r.awaiting, r.watched,
                  IF r.pending = <<>> THEN <<>> ELSE <<Rejection(x)>>)
<1> DEFINE engine == [w \in Workers |-> IF w = r.worker THEN "stopped" ELSE r.engine[w]]
           told == [i \in DOMAIN r.pending |-> Rejection(r.pending[i])]
           micro == IF r.pending = <<>> THEN <<>> ELSE <<Rejection(x)>>
<1>1. r.micro \o told = micro
  <2>1. CASE r.pending = <<>>
    <3>1. told = <<>>
      BY <2>1
    <3> QED BY <2>1, <3>1
  <2>2. CASE r.pending = <<x>>
    <3>1. DOMAIN r.pending = 1..1 /\ r.pending[1] = x /\ r.pending # <<>>
      BY <2>2
    <3>2. told = <<Rejection(x)>>
      BY <3>1
    <3> QED BY <3>1, <3>2
  <2> QED BY <2>1, <2>2
<1>2. StopWorker(r) = [r EXCEPT !.engine = engine, !.worker = None, !.promise = None,
                                !.pending = <<>>, !.micro = r.micro \o told]
  BY DEF StopWorker, Runtimes
<1> HIDE DEF engine, told, micro
<1>3. Fields([r EXCEPT !.engine = engine, !.worker = None, !.promise = None,
                       !.pending = <<>>, !.micro = micro],
             None, None, r.status, engine, r.quiet, r.fulfilled, <<>>, r.awaiting, r.watched, micro)
  <2> DEFINE r1 == [r EXCEPT !.engine = engine]
             r2 == [r1 EXCEPT !.worker = None]
             r3 == [r2 EXCEPT !.promise = None]
             r4 == [r3 EXCEPT !.pending = <<>>]
             r5 == [r4 EXCEPT !.micro = micro]
  <2>1. Fields(r1, r.worker, r.promise, r.status, engine, r.quiet, r.fulfilled, r.pending,
               r.awaiting, r.watched, r.micro)
    BY SameFields, FieldSet
  <2>2. r5 = [r EXCEPT !.engine = engine, !.worker = None, !.promise = None,
                       !.pending = <<>>, !.micro = micro]
    OBVIOUS
  <2> HIDE DEF r1
  <2>3. Fields(r2, None, r.promise, r.status, engine, r.quiet, r.fulfilled, r.pending,
               r.awaiting, r.watched, r.micro)
    BY <2>1, FieldSet
  <2> HIDE DEF r2
  <2>4. Fields(r3, None, None, r.status, engine, r.quiet, r.fulfilled, r.pending,
               r.awaiting, r.watched, r.micro)
    BY <2>3, FieldSet
  <2> HIDE DEF r3
  <2>5. Fields(r4, None, None, r.status, engine, r.quiet, r.fulfilled, <<>>,
               r.awaiting, r.watched, r.micro)
    BY <2>4, FieldSet
  <2> HIDE DEF r4
  <2>6. Fields(r5, None, None, r.status, engine, r.quiet, r.fulfilled, <<>>,
               r.awaiting, r.watched, micro)
    BY <2>5, FieldSet
  <2> QED BY <2>2, <2>6
<1> QED BY <1>1, <1>2, <1>3 DEF engine, micro

-----------------------------------------------------------------------------
(***************************************************************************)
(* The runtime is in one of a few modes, each with its own queue of        *)
(* microtasks.                                                             *)
(***************************************************************************)
Live(r, w) == r.engine[w] \in {"loading", "loaded"}

IsEnsured(t, ok) == t.kind = "ensured" /\ t.ok = ok

\* Nothing is under way, and no worker is asked for.
Resting(r, dr) ==
    r.promise = None /\ r.pending = <<>> /\ r.micro = <<>> /\ dr.pc = "off"

\* The worker's load has been asked for.
Loading(r, wt, dr) ==
    /\ r.promise \in Workers /\ r.promise \notin r.fulfilled
    /\ r.pending = << <<r.promise, "load">> >> /\ r.micro = <<>>
    /\ wt = <<>> /\ dr.pc \in {"off", "ensuring"}

\* The load of w has been answered.
Told(r, w, ok, wt, dr) ==
    /\ w \in Workers /\ ok \in BOOLEAN
    /\ r.pending = <<>> /\ r.micro = <<Task("load", w, ok)>>
    /\ r.promise = w \/ (~ok /\ r.promise = None)
    /\ ~ok => ~Live(r, w)
    /\ wt = <<>> /\ dr.pc \in {"off", "ensuring"}

\* The load has succeeded; those who waited for it are told.
Up(r, dr) ==
    /\ r.promise \in Workers /\ r.promise \in r.fulfilled
    /\ r.pending = IF dr.pc = "rendering" THEN << <<r.promise, "render">> >> ELSE <<>>
    /\ \A i \in 1..Len(r.micro) : IsEnsured(r.micro[i], TRUE)
    /\ dr.pc \in {"off", "ensuring", "rendering"}

\* The load has failed; those who waited for it are told.
Refused(r, wt, dr) ==
    /\ r.promise = None /\ r.pending = <<>> /\ r.status = "failed"
    /\ r.micro # <<>>
    /\ \A i \in 1..Len(r.micro) :
        \/ IsEnsured(r.micro[i], FALSE)
        \/ dr.pc = "settling" /\ i = Len(r.micro) /\ r.micro[i] = Task("settled", None, FALSE)
    /\ dr.pc = "settling" => r.micro[Len(r.micro)] = Task("settled", None, FALSE)
    /\ wt = <<>> /\ dr.pc \in {"off", "ensuring", "settling"}

\* The render has its answer; and its job is to be told.
Over(r, kind, ok, dr, pc) ==
    /\ ok \in BOOLEAN
    /\ r.promise = None \/ r.promise \in r.fulfilled
    /\ r.pending = <<>> /\ r.micro = <<Task(kind, None, ok)>>
    /\ dr.pc = pc

Answered(r, ok, dr) == Over(r, "answered", ok, dr, "rendering")
Settling(r, ok, dr) == Over(r, "settled", ok, dr, "settling")

Mode(r, wt, dr) ==
    \/ Resting(r, dr)
    \/ Loading(r, wt, dr)
    \/ \E w \in Workers, ok \in BOOLEAN : Told(r, w, ok, wt, dr)
    \/ Up(r, dr)
    \/ Refused(r, wt, dr)
    \/ \E ok \in BOOLEAN : Answered(r, ok, dr)
    \/ \E ok \in BOOLEAN : Settling(r, ok, dr)

\* One engine at a time: the one of the load promise.
Engines(r) ==
    /\ r.promise # None => r.worker = r.promise
    /\ r.worker # None => r.engine[r.worker] # "none"
    /\ \A w \in Workers : Live(r, w) => w = r.promise
    /\ \A w \in r.fulfilled : r.engine[w] # "none"

(***************************************************************************)
(* Those who wait for an engine: calls in their order, and the drain loop  *)
(* at most once.                                                           *)
(***************************************************************************)
Before(x, y) == (x # None \/ y # None) /\ (x # None /\ y # None => x < y)

Awaits(r, x) == \E w \in Workers : \E i \in 1..Len(r.awaiting[w]) : r.awaiting[w][i] = x
Ensured(r, x) == \E i \in 1..Len(r.micro) : r.micro[i].kind = "ensured" /\ r.micro[i].who = x

Line(r, c, dr) ==
    /\ \A n \in Calls : c[n].pc = "ensuring" <=> (Awaits(r, n) \/ Ensured(r, n))
    /\ dr.pc = "ensuring" <=> (Awaits(r, None) \/ Ensured(r, None))
    /\ \A w \in Workers : \A i, j \in 1..Len(r.awaiting[w]) :
        i < j => Before(r.awaiting[w][i], r.awaiting[w][j])
    /\ \A i, j \in 1..Len(r.micro) :
        i < j /\ r.micro[i].kind = "ensured" /\ r.micro[j].kind = "ensured"
        => Before(r.micro[i].who, r.micro[j].who)
    /\ \A w \in Workers : r.awaiting[w] # <<>> =>
        \/ r.promise = w /\ r.micro = <<>> /\ r.promise \notin r.fulfilled
        \/ \E ok \in BOOLEAN : r.micro = <<Task("load", w, ok)>>

\* The calls whose turn it is and those that wait for theirs, oldest first.
In(s, n) == \E i \in 1..Len(s) : s[i] = n

Queue(c, wt, dr) ==
    /\ \A n \in Calls : c[n].pc = "queued" <=> (In(wt, n) \/ In(dr.job, n))
    /\ \A i, j \in 1..Len(wt) : i < j => wt[i] < wt[j]
    /\ \A i, j \in 1..Len(dr.job) : i < j => dr.job[i] < dr.job[j]
    /\ \A i \in 1..Len(dr.job), j \in 1..Len(wt) : dr.job[i] < wt[j]
    /\ \A n, m \in Calls : c[n].pc = "queued" /\ c[m].pc = "ensuring" => n < m
    /\ \A n, m \in Calls : c[n].pc = "none" /\ c[m].pc # "none" => m < n

Drain(r, wt, dr) ==
    /\ dr.pc = "off" => dr.job = <<>> /\ wt = <<>>
    /\ dr.pc # "off" => dr.job # <<>>
    /\ r.watched => dr.pc = "rendering"

(***************************************************************************)
(* A worker is started for want of one: at first, after a fault, or after  *)
(* a render that was stopped.  So there are numbers enough.                *)
(***************************************************************************)
Slack(r) ==
    IF r.promise = None \/ (r.micro # <<>> /\ Head(r.micro).kind = "load" /\ ~Head(r.micro).ok)
    THEN 0 ELSE 1

Count(r, c, wt, dr, f) ==
    \E k \in Nat :
        /\ Started(r, k)
        /\ k <= f + Slack(r) + NCalls
        /\ \A n \in Calls : c[n].pc \in {"none", "ensuring"} => k < f + Slack(r) + n
        /\ \A i \in 1..Len(wt) : k < f + Slack(r) + wt[i]
        /\ \A i \in 1..Len(dr.job) : k <= f + Slack(r) + dr.job[i]
        /\ \A i \in 1..Len(dr.job) :
            (dr.pc = "ensuring" \/ r.pending # <<>>) => k < f + Slack(r) + dr.job[i]

CallStates == [Calls -> [pc: {"none", "ensuring", "queued", "resolved", "rejected", "over"},
                         input: Inputs, result: Inputs]]
Drains == [pc: {"off", "ensuring", "rendering", "settling"}, job: Seq(Calls)]

Typed(r, c, wt, dr, f) ==
    r \in Runtimes /\ c \in CallStates /\ wt \in Seq(Calls) /\ dr \in Drains /\ f \in 0..MaxFaults

Inv(r, c, wt, dr, f) ==
    /\ Typed(r, c, wt, dr, f)
    /\ Mode(r, wt, dr) /\ Engines(r) /\ Line(r, c, dr)
    /\ Queue(c, wt, dr) /\ Drain(r, wt, dr) /\ Count(r, c, wt, dr, f)

RtInv == Inv(rt, call, waiting, drain, faults)

LEMMA TypedIs ==
    ASSUME NEW r, NEW c, NEW wt, NEW dr, NEW f, Typed(r, c, wt, dr, f)
    PROVE  /\ r.worker \in Workers \cup {None} /\ r.promise \in Workers \cup {None}
           /\ r.status \in Status /\ r.engine \in [Workers -> Engine]
           /\ r.quiet \in SUBSET Workers /\ r.fulfilled \in SUBSET Workers
           /\ r.pending \in Seq(Workers \X {"load", "render"})
           /\ r.awaiting \in [Workers -> Seq(Calls \cup {None})] /\ r.watched \in BOOLEAN
           /\ r.micro \in Seq(Micro)
           /\ \A n \in Calls : c[n] \in [pc: {"none", "ensuring", "queued", "resolved", "rejected", "over"},
                                         input: Inputs, result: Inputs]
           /\ dr.pc \in {"off", "ensuring", "rendering", "settling"} /\ dr.job \in Seq(Calls)
           /\ f \in Nat /\ f <= MaxFaults
BY Numbers DEF Typed, Runtimes, CallStates, Drains

\* A record of the runtime with well-typed fields.
LEMMA FieldsType ==
    ASSUME NEW a \in Workers \cup {None}, NEW b \in Workers \cup {None}, NEW c \in Status,
           NEW d \in [Workers -> Engine], NEW e \in SUBSET Workers, NEW f \in SUBSET Workers,
           NEW g \in Seq(Workers \X {"load", "render"}),
           NEW h \in [Workers -> Seq(Calls \cup {None})], NEW i \in BOOLEAN, NEW j \in Seq(Micro),
           NEW s, Fields(s, a, b, c, d, e, f, g, h, i, j)
    PROVE  s \in Runtimes
BY DEF Fields, Runtimes

LEMMA OneTask ==
    ASSUME NEW t \in Micro
    PROVE  /\ <<t>> \in Seq(Micro) /\ Len(<<t>>) = 1 /\ <<t>>[1] = t /\ Head(<<t>>) = t
           /\ <<t>> # <<>> /\ Tail(<<t>>) = <<>>
OBVIOUS

-----------------------------------------------------------------------------
(***************************************************************************)
(* The steps of the runtime, each from the modes in which it is taken.     *)
(***************************************************************************)
Stopped(r, status, micro, s) ==
    Fields(s, None, None, status, [w \in Workers |-> IF w = r.worker THEN "stopped" ELSE r.engine[w]],
           r.quiet, r.fulfilled, <<>>, r.awaiting, r.watched, micro)

\* The modes in which no microtask waits.
LEMMA TaskModes ==
    ASSUME NEW r, NEW c, NEW wt, NEW dr, NEW f, Inv(r, c, wt, dr, f), r.micro = <<>>
    PROVE  /\ Resting(r, dr) \/ Loading(r, wt, dr) \/ (Up(r, dr) /\ dr.pc \in {"off", "rendering"})
           /\ \A w \in Workers : r.awaiting[w] # <<>> => Loading(r, wt, dr) /\ w = r.promise
           /\ \A x : ~Ensured(r, x)
<1> USE DEF Inv
<1>1. Resting(r, dr) \/ Loading(r, wt, dr) \/ Up(r, dr)
  BY DEF Mode, Told, Refused, Answered, Settling, Over
<1>2. ASSUME NEW w \in Workers, r.awaiting[w] # <<>>
      PROVE  Loading(r, wt, dr) /\ w = r.promise
  <2>1. r.promise = w /\ r.promise \notin r.fulfilled
    BY <1>2 DEF Line
  <2> QED BY <1>1, <2>1, Numbers DEF Resting, Up
<1>3. \A x : ~Ensured(r, x)
  BY DEF Ensured
<1>4. ASSUME Up(r, dr) PROVE dr.pc \in {"off", "rendering"}
  <2>1. SUFFICES ASSUME dr.pc = "ensuring" PROVE FALSE
    BY <1>4 DEF Up
  <2>2. Awaits(r, None)
    BY <1>3, <2>1 DEF Line
  <2>3. PICK w \in Workers : \E i \in 1..Len(r.awaiting[w]) : r.awaiting[w][i] = None
    BY <2>2 DEF Awaits
  <2>4. r.awaiting[w] # <<>>
    BY <2>3
  <2> QED BY <1>2, <1>4, <2>4 DEF Loading, Up
<1> QED BY <1>1, <1>2, <1>3, <1>4

\* The mode after a stop.
StopOutcome(r, wt, dr, status, micro, s) ==
    /\ Stopped(r, status, micro, s)
    /\ \/ Resting(s, dr) /\ ~Loading(r, wt, dr) /\ dr.pc = "off" /\ micro = <<>>
       \/ /\ Loading(r, wt, dr) /\ Told(s, r.promise, FALSE, wt, dr)
          /\ micro = <<Task("load", r.promise, FALSE)>>
       \/ /\ Up(r, dr) /\ dr.pc = "rendering" /\ Answered(s, FALSE, dr)
          /\ micro = <<Task("answered", None, FALSE)>>

LEMMA StopMode ==
    ASSUME NEW r, NEW c, NEW wt, NEW dr, NEW f, Inv(r, c, wt, dr, f), r.micro = <<>>,
           NEW status \in Status, NEW s, s = [StopWorker(r) EXCEPT !.status = status]
    PROVE  \E micro \in Seq(Micro) : StopOutcome(r, wt, dr, status, micro, s)
<1>0. Typed(r, c, wt, dr, f) /\ r \in Runtimes
  BY DEF Inv, Typed
<1>1. CASE Resting(r, dr) \/ (Up(r, dr) /\ dr.pc = "off")
  <2>1. r.pending = <<>> /\ dr.pc = "off"
    BY <1>1 DEF Resting, Up
  <2>2. Fields(StopWorker(r), None, None, r.status,
                  [w \in Workers |-> IF w = r.worker THEN "stopped" ELSE r.engine[w]],
                  r.quiet, r.fulfilled, <<>>, r.awaiting, r.watched, <<>>)
    BY <1>0, <2>1, StopIs
  <2>3. Stopped(r, status, <<>>, s)
    BY <2>2, FieldSet DEF Stopped
  <2>4. Resting(s, dr) /\ ~Loading(r, wt, dr)
    BY <2>1, <2>3 DEF Stopped, Fields, Resting, Loading
  <2>5. <<>> \in Seq(Micro)
    OBVIOUS
  <2> QED BY <2>1, <2>3, <2>4, <2>5 DEF StopOutcome
<1>2. CASE Loading(r, wt, dr)
  <2> DEFINE x == <<r.promise, "load">>
             t == Task("load", r.promise, FALSE)
  <2>1. r.pending = <<x>> /\ r.pending # <<>> /\ r.promise \in Workers
    BY <1>2 DEF Loading
  <2>2. Rejection(x) = t /\ t \in Micro
    BY <2>1, Tasks DEF Rejection
  <2>3. Fields(StopWorker(r), None, None, r.status,
                  [w \in Workers |-> IF w = r.worker THEN "stopped" ELSE r.engine[w]],
                  r.quiet, r.fulfilled, <<>>, r.awaiting, r.watched, <<t>>)
    <3> HIDE DEF x, t
    <3> QED BY <1>0, <2>1, <2>2, StopIs
  <2>4. Stopped(r, status, <<t>>, s)
    BY <2>3, FieldSet DEF Stopped
  <2>5. r.worker = r.promise
    BY <2>1, Numbers DEF Inv, Engines
  <2>6. Told(s, r.promise, FALSE, wt, dr)
    <3>1. s.engine[r.promise] = "stopped"
      BY <2>1, <2>4, <2>5 DEF Stopped, Fields
    <3> QED BY <1>2, <2>1, <2>4, <3>1 DEF Stopped, Fields, Told, Loading, Live
  <2> QED BY <1>2, <2>2, <2>4, <2>6, OneTask DEF StopOutcome
<1>3. CASE Up(r, dr) /\ dr.pc = "rendering"
  <2> DEFINE x == <<r.promise, "render">>
             t == Task("answered", None, FALSE)
  <2>1. r.pending = <<x>> /\ r.pending # <<>> /\ r.promise \in Workers
    BY <1>3 DEF Up
  <2>2. Rejection(x) = t /\ t \in Micro
    BY <2>1, Tasks DEF Rejection
  <2>3. Fields(StopWorker(r), None, None, r.status,
                  [w \in Workers |-> IF w = r.worker THEN "stopped" ELSE r.engine[w]],
                  r.quiet, r.fulfilled, <<>>, r.awaiting, r.watched, <<t>>)
    <3> HIDE DEF x, t
    <3> QED BY <1>0, <2>1, <2>2, StopIs
  <2>4. Stopped(r, status, <<t>>, s)
    BY <2>3, FieldSet DEF Stopped
  <2>5. Answered(s, FALSE, dr)
    BY <1>3, <2>1, <2>4 DEF Stopped, Fields, Answered, Over
  <2> QED BY <1>3, <2>2, <2>4, <2>5, OneTask DEF StopOutcome
<1> QED BY <1>1, <1>2, <1>3, TaskModes

\* The count goes on if what may be stopped was there before.
LEMMA CountKeeps ==
    ASSUME NEW r, NEW c, NEW wt, NEW dr, NEW f, Typed(r, c, wt, dr, f), Count(r, c, wt, dr, f),
           NEW s, NEW c2, NEW wt2, NEW dr2, NEW f2, Typed(s, c2, wt2, dr2, f2),
           NEW d \in {0, 1}, \A k \in Nat : Started(r, k) => Started(s, k + d),
           f + Slack(r) + d <= f2 + Slack(s),
           \A n \in Calls : c2[n].pc \in {"none", "ensuring"} => c[n].pc \in {"none", "ensuring"},
           \A n \in Calls : In(wt2, n) => In(wt, n) \/ c[n].pc = "ensuring",
           \A n \in Calls : In(dr2.job, n) =>
               \/ In(wt, n) \/ c[n].pc = "ensuring"
               \/ /\ In(dr.job, n)
                  /\ (dr2.pc = "ensuring" \/ s.pending # <<>>) => (dr.pc = "ensuring" \/ r.pending # <<>>)
    PROVE  Count(s, c2, wt2, dr2, f2)
<1>1. PICK k \in Nat :
        /\ Started(r, k)
        /\ k <= f + Slack(r) + NCalls
        /\ \A n \in Calls : c[n].pc \in {"none", "ensuring"} => k < f + Slack(r) + n
        /\ \A i \in 1..Len(wt) : k < f + Slack(r) + wt[i]
        /\ \A i \in 1..Len(dr.job) : k <= f + Slack(r) + dr.job[i]
        /\ \A i \in 1..Len(dr.job) :
            (dr.pc = "ensuring" \/ r.pending # <<>>) => k < f + Slack(r) + dr.job[i]
  BY DEF Count
<1> DEFINE base == f + Slack(r)
           base2 == f2 + Slack(s)
           unstopped == dr.pc = "ensuring" \/ r.pending # <<>>
           unstopped2 == dr2.pc = "ensuring" \/ s.pending # <<>>
<1>2. base \in Nat /\ base2 \in Nat /\ base + d <= base2 /\ d \in Nat
  <2>1. f \in Nat /\ f2 \in Nat
    BY TypedIs
  <2> QED BY <2>1 DEF Slack
<1>3. /\ wt2 \in Seq(Calls) /\ dr2.job \in Seq(Calls) /\ wt \in Seq(Calls) /\ dr.job \in Seq(Calls)
  BY TypedIs DEF Typed
<1>4. ASSUME NEW n \in Calls, c[n].pc \in {"none", "ensuring"} PROVE k + d < base2 + n
  <2>1. k < base + n
    BY <1>1, <1>4
  <2> HIDE DEF base, base2
  <2> QED BY <1>2, <2>1, Numbers
<1>5. ASSUME NEW n \in Calls, In(wt, n) PROVE k + d < base2 + n
  <2>1. k < base + n
    BY <1>1, <1>5 DEF In
  <2> HIDE DEF base, base2
  <2> QED BY <1>2, <2>1, Numbers
<1>6. ASSUME NEW n \in Calls, In(dr.job, n)
      PROVE  k + d <= base2 + n /\ (unstopped => k + d < base2 + n)
  <2>1. k <= base + n /\ (unstopped => k < base + n)
    BY <1>1, <1>6 DEF In
  <2> HIDE DEF base, base2, unstopped
  <2> QED BY <1>2, <2>1, Numbers
<1>7. k + d <= base2 + NCalls /\ k + d \in Nat /\ Started(s, k + d)
  <2>1. k <= base + NCalls
    BY <1>1
  <2>2. Started(s, k + d)
    BY <1>1
  <2> HIDE DEF base, base2
  <2> QED BY <1>2, <2>1, <2>2, Numbers
<1>8. \A n \in Calls : c2[n].pc \in {"none", "ensuring"} => k + d < base2 + n
  BY <1>4
<1>9. \A i \in 1..Len(wt2) : k + d < base2 + wt2[i]
  <2> SUFFICES ASSUME NEW i \in 1..Len(wt2) PROVE k + d < base2 + wt2[i]
    OBVIOUS
  <2>1. wt2[i] \in Calls /\ In(wt2, wt2[i])
    BY <1>3 DEF In
  <2> HIDE DEF base2
  <2> QED BY <1>4, <1>5, <2>1
<1>10. \A i \in 1..Len(dr2.job) :
        k + d <= base2 + dr2.job[i] /\ (unstopped2 => k + d < base2 + dr2.job[i])
  <2> SUFFICES ASSUME NEW i \in 1..Len(dr2.job)
               PROVE  k + d <= base2 + dr2.job[i] /\ (unstopped2 => k + d < base2 + dr2.job[i])
    OBVIOUS
  <2>1. dr2.job[i] \in Calls /\ In(dr2.job, dr2.job[i])
    BY <1>3 DEF In
  <2>2. \/ In(wt, dr2.job[i]) \/ c[dr2.job[i]].pc = "ensuring"
        \/ In(dr.job, dr2.job[i]) /\ (unstopped2 => unstopped)
    BY <2>1
  <2>3. ASSUME k + d < base2 + dr2.job[i] PROVE k + d <= base2 + dr2.job[i]
    <3> HIDE DEF base2
    <3> QED BY <1>2, <2>1, <2>3, Numbers
  <2> HIDE DEF base2, unstopped, unstopped2
  <2> QED BY <1>4, <1>5, <1>6, <2>1, <2>2, <2>3
<1> QED BY <1>7, <1>8, <1>9, <1>10 DEF Count

\* A stop fails what was asked of the worker; it is a fault, or the watchdog's.
LEMMA StopKeeps ==
    ASSUME NEW r, NEW c, NEW wt, NEW dr, NEW f, Inv(r, c, wt, dr, f), r.micro = <<>>,
           NEW status \in Status, NEW s, s = [StopWorker(r) EXCEPT !.status = status],
           NEW f2 \in 0..MaxFaults, f2 = f + 1 \/ (f2 = f /\ r.watched)
    PROVE  Inv(s, c, wt, dr, f2)
<1>0. Typed(r, c, wt, dr, f) /\ Engines(r) /\ Line(r, c, dr) /\ Queue(c, wt, dr)
      /\ Drain(r, wt, dr) /\ Count(r, c, wt, dr, f)
  BY DEF Inv
<1>1. PICK micro \in Seq(Micro) : StopOutcome(r, wt, dr, status, micro, s)
  BY StopMode
<1> DEFINE engine == [w \in Workers |-> IF w = r.worker THEN "stopped" ELSE r.engine[w]]
<1>2. /\ s.worker = None /\ s.promise = None /\ s.status = status /\ s.engine = engine
      /\ s.quiet = r.quiet /\ s.fulfilled = r.fulfilled /\ s.pending = <<>>
      /\ s.awaiting = r.awaiting /\ s.watched = r.watched /\ s.micro = micro
  BY <1>1 DEF StopOutcome, Stopped, Fields
<1>3. engine \in [Workers -> Engine]
  BY <1>0, TypedIs DEF Engine
<1>4. Typed(s, c, wt, dr, f2)
  <2> HIDE DEF engine
  <2>1. <<>> \in Seq(Workers \X {"load", "render"})
    OBVIOUS
  <2>2. Fields(s, None, None, status, engine, r.quiet, r.fulfilled, <<>>, r.awaiting, r.watched, micro)
    BY <1>1 DEF StopOutcome, Stopped, engine
  <2>3. /\ r.quiet \in SUBSET Workers /\ r.fulfilled \in SUBSET Workers
        /\ r.awaiting \in [Workers -> Seq(Calls \cup {None})] /\ r.watched \in BOOLEAN
    BY <1>0, TypedIs
  <2>4. s \in Runtimes
    BY <1>3, <2>1, <2>2, <2>3 DEF Fields, Runtimes
  <2> QED BY <1>0, <2>4 DEF Typed
<1>5. Mode(s, wt, dr)
  <2>1. ASSUME Loading(r, wt, dr) PROVE r.promise \in Workers
    BY <2>1 DEF Loading
  <2> QED BY <1>1, <2>1 DEF Mode, StopOutcome
<1>6. Engines(s)
  <2>1. ASSUME NEW w \in Workers PROVE ~Live(s, w)
    <3>1. CASE w = r.worker
      BY <1>2, <3>1 DEF Live
    <3>2. CASE w # r.worker
      BY <1>0, <1>2, <3>2, Numbers DEF Live, Engines
    <3> QED BY <3>1, <3>2
  <2>2. ASSUME NEW w \in r.fulfilled PROVE s.engine[w] # "none"
    <3>1. w \in Workers
      BY <1>0, TypedIs
    <3> QED BY <1>0, <1>2, <2>2, <3>1 DEF Engines
  <2> QED BY <1>2, <2>1, <2>2 DEF Engines
<1>7. Line(s, c, dr)
  <2>1. \A i \in 1..Len(s.micro) : s.micro[i].kind # "ensured"
    <3>1. CASE micro = <<>>
      BY <1>2, <3>1
    <3>2. CASE micro = <<Task("load", r.promise, FALSE)>> \/ micro = <<Task("answered", None, FALSE)>>
      <4>1. Len(micro) = 1 /\ micro[1].kind # "ensured"
        BY <3>2 DEF Task
      <4> QED BY <1>2, <4>1
    <3> QED BY <1>1, <3>1, <3>2 DEF StopOutcome
  <2>2. \A x : (Awaits(s, x) <=> Awaits(r, x)) /\ ~Ensured(r, x) /\ ~Ensured(s, x)
    BY <1>2, <2>1 DEF Awaits, Ensured
  <2>3. ASSUME NEW w \in Workers, s.awaiting[w] # <<>>
        PROVE  \E ok \in BOOLEAN : s.micro = <<Task("load", w, ok)>>
    <3>1. Loading(r, wt, dr) /\ w = r.promise
      BY <1>2, <2>3, TaskModes
    <3>2. ~Up(r, dr)
      BY <3>1 DEF Loading, Up
    <3> QED BY <1>1, <1>2, <3>1, <3>2 DEF StopOutcome
  <2> QED BY <1>0, <1>2, <2>1, <2>2, <2>3 DEF Line
<1>8. Drain(s, wt, dr)
  BY <1>0, <1>2 DEF Drain
<1>9. Count(s, c, wt, dr, f2)
  <2>1. PICK k \in Nat :
        /\ Started(r, k)
        /\ k <= f + Slack(r) + NCalls
        /\ \A n \in Calls : c[n].pc \in {"none", "ensuring"} => k < f + Slack(r) + n
        /\ \A i \in 1..Len(wt) : k < f + Slack(r) + wt[i]
        /\ \A i \in 1..Len(dr.job) : k <= f + Slack(r) + dr.job[i]
        /\ \A i \in 1..Len(dr.job) :
            (dr.pc = "ensuring" \/ r.pending # <<>>) => k < f + Slack(r) + dr.job[i]
    BY <1>0 DEF Count
  <2>2. Slack(s) = 0 /\ Slack(r) \in {0, 1}
    BY <1>2 DEF Slack
  <2>6. ASSUME NEW w \in Workers PROVE s.engine[w] # "none" <=> r.engine[w] # "none"
    <3>1. w = r.worker => r.engine[w] # "none"
      BY <1>0, Numbers DEF Engines
    <3> QED BY <1>2, <3>1
  <2>3. Started(s, k)
    BY <2>1, <2>6 DEF Started
  <2>4. CASE f2 = f + 1
    <3>1. f + Slack(r) + 0 <= f2 + Slack(s)
      BY <1>0, <2>2, <2>4, TypedIs
    <3>2. s.pending = <<>> /\ \A m \in Nat : Started(r, m) => Started(s, m + 0)
      <4>1. ASSUME NEW m \in Nat, Started(r, m) PROVE Started(s, m)
        BY <4>1, <2>6 DEF Started
      <4> QED BY <1>2, <4>1
    <3> QED BY <1>0, <1>4, <3>1, <3>2, CountKeeps
  <2>5. CASE f2 = f /\ r.watched
    \* The render that was stopped uses up the oldest call of its job.
    <3>1. dr.pc = "rendering" /\ dr.job # <<>>
      BY <1>0, <2>5 DEF Drain
    <3> DEFINE oldest == dr.job[1]
               base == f + Slack(r)
    <3>2. Up(r, dr) /\ r.pending # <<>>
      <4>1. Resting(r, dr) \/ Loading(r, wt, dr) \/ Up(r, dr)
        BY TaskModes
      <4>2. ~Resting(r, dr) /\ ~Loading(r, wt, dr)
        BY <3>1 DEF Resting, Loading
      <4>3. r.pending = << <<r.promise, "render">> >>
        BY <3>1, <4>1, <4>2 DEF Up
      <4>4. r.pending # <<>>
        BY <4>3
      <4> QED BY <4>1, <4>2, <4>4
    <3>3. wt \in Seq(Calls) /\ dr.job \in Seq(Calls) /\ f \in Nat /\ oldest \in Calls /\ 1 \in 1..Len(dr.job)
      <4>1. wt \in Seq(Calls) /\ dr.job \in Seq(Calls) /\ f \in Nat
        BY <1>0, TypedIs DEF Typed
      <4> QED BY <3>1, <4>1
    <3>4. base \in Nat /\ k < base + oldest /\ base <= f2 + 1
      BY <2>1, <2>2, <2>5, <3>2, <3>3
    <3>5. \A i \in 1..Len(wt) : oldest < wt[i]
      BY <1>0, <3>3 DEF Queue
    <3>6. \A i \in 1..Len(dr.job) : oldest <= dr.job[i]
      <4> SUFFICES ASSUME NEW i \in 1..Len(dr.job) PROVE oldest <= dr.job[i]
        OBVIOUS
      <4>1. dr.job[i] \in Nat /\ oldest \in Nat
        BY <3>3, Numbers
      <4>2. \A m, n \in 1..Len(dr.job) : m < n => dr.job[m] < dr.job[n]
        BY <1>0 DEF Queue
      <4>3. i = 1 \/ 1 < i
        OBVIOUS
      <4>4. i = 1 \/ dr.job[1] < dr.job[i]
        BY <3>3, <4>2, <4>3
      <4> QED BY <4>1, <4>4
    <3>7. \A n \in Calls : c[n].pc \in {"none", "ensuring"} => oldest < n
      <4>1. c[oldest].pc = "queued"
        BY <1>0, <3>3 DEF Queue, In
      <4> QED BY <1>0, <3>3, <4>1 DEF Queue
    <3> HIDE DEF base, oldest
    <3>8. k <= f2 + oldest /\ f2 \in Nat
      BY <2>1, <2>5, <3>3, <3>4, Numbers
    <3>9. /\ k <= f2 + NCalls
          /\ \A n \in Calls : c[n].pc \in {"none", "ensuring"} => k < f2 + n
          /\ \A i \in 1..Len(wt) : k < f2 + wt[i]
          /\ \A i \in 1..Len(dr.job) : k <= f2 + dr.job[i]
      <4>1. oldest <= NCalls
        BY <3>3 DEF Calls
      <4>2. /\ \A i \in 1..Len(wt) : wt[i] \in Nat
            /\ \A i \in 1..Len(dr.job) : dr.job[i] \in Nat
            /\ oldest \in Nat
        BY <3>3, Numbers
      <4>3. k <= f2 + NCalls
        BY <3>8, <4>1, <4>2, Numbers
      <4>4. \A n \in Calls : c[n].pc \in {"none", "ensuring"} => k < f2 + n
        BY <3>7, <3>8, <4>2, Numbers
      <4>5. \A i \in 1..Len(wt) : k < f2 + wt[i]
        BY <3>5, <3>8, <4>2
      <4>6. \A i \in 1..Len(dr.job) : k <= f2 + dr.job[i]
        BY <3>6, <3>8, <4>2
      <4> QED BY <4>3, <4>4, <4>5, <4>6
    <3>10. dr.pc # "ensuring" /\ s.pending = <<>>
      BY <1>2, <3>1
    <3>11. f2 + Slack(s) = f2
      BY <2>2, <3>8
    <3> QED BY <2>3, <3>9, <3>10, <3>11 DEF Count
  <2> QED BY <2>4, <2>5
<1> QED BY <1>0, <1>4, <1>5, <1>6, <1>7, <1>8, <1>9 DEF Inv

-----------------------------------------------------------------------------
\* A step that tells the number of workers nothing, nor the calls and the loop.
LEMMA CountStays ==
    ASSUME NEW r, NEW c, NEW wt, NEW dr, NEW f, Typed(r, c, wt, dr, f), Count(r, c, wt, dr, f),
           NEW s, NEW f2, Typed(s, c, wt, dr, f2),
           \A w \in Workers : s.engine[w] # "none" <=> r.engine[w] # "none",
           f + Slack(r) <= f2 + Slack(s), s.pending # <<>> => r.pending # <<>>
    PROVE  Count(s, c, wt, dr, f2)
<1>1. \A k \in Nat : Started(r, k) => Started(s, k + 0)
  <2> SUFFICES ASSUME NEW k \in Nat, Started(r, k) PROVE Started(s, k)
    OBVIOUS
  <2> QED BY DEF Started
<1>2. f + Slack(r) + 0 <= f2 + Slack(s)
  <2>1. f \in Nat /\ f2 \in Nat /\ Slack(r) \in Nat
    BY TypedIs DEF Slack
  <2> QED BY <2>1
<1>3. 0 \in {0, 1}
  OBVIOUS
<1> QED BY <1>1, <1>2, <1>3, CountKeeps

\* The queue of microtasks has one that ensures nobody.
LEMMA NobodyEnsured ==
    ASSUME NEW kind, kind # "ensured", NEW who, NEW ok, NEW s,
           s.micro = <<>> \/ s.micro = <<Task(kind, who, ok)>>
    PROVE  /\ \A i \in 1..Len(s.micro) : s.micro[i].kind # "ensured"
           /\ \A x : ~Ensured(s, x)
<1>1. Task(kind, who, ok).kind # "ensured"
  BY DEF Task
<1>2. \A i \in 1..Len(s.micro) : s.micro[i].kind # "ensured"
  <2>1. CASE s.micro = <<>>
    BY <2>1
  <2>2. CASE s.micro = <<Task(kind, who, ok)>>
    <3>1. Len(s.micro) = 1 /\ s.micro[1] = Task(kind, who, ok)
      BY <2>2
    <3> QED BY <1>1, <3>1
  <2> QED BY <2>1, <2>2
<1> QED BY <1>2 DEF Ensured

\* The worker answers the request for its load.
LEMMA LoadAnswerKeeps ==
    ASSUME NEW r, NEW c, NEW wt, NEW dr, NEW f, Inv(r, c, wt, dr, f), Loading(r, wt, dr),
           NEW ok \in BOOLEAN, NEW f2 \in 0..MaxFaults, f2 = IF ok THEN f ELSE f + 1,
           NEW s, Fields(s, r.worker, r.promise, r.status,
                         [r.engine EXCEPT ![r.worker] = IF ok THEN "loaded" ELSE "broken"],
                         r.quiet, r.fulfilled, <<>>, r.awaiting, r.watched,
                         <<Task("load", r.promise, ok)>>)
    PROVE  Inv(s, c, wt, dr, f2)
<1>0. Typed(r, c, wt, dr, f) /\ Engines(r) /\ Line(r, c, dr) /\ Queue(c, wt, dr)
      /\ Drain(r, wt, dr) /\ Count(r, c, wt, dr, f) /\ r \in Runtimes
  BY DEF Inv, Typed
<1> DEFINE engine == [r.engine EXCEPT ![r.worker] = IF ok THEN "loaded" ELSE "broken"]
           t == Task("load", r.promise, ok)
<1>1. r.promise \in Workers /\ r.promise # None /\ r.worker = r.promise /\ r.micro = <<>>
  BY <1>0, Numbers DEF Loading, Engines
<1>2. /\ s.worker = r.worker /\ s.promise = r.promise /\ s.engine = engine
      /\ s.fulfilled = r.fulfilled /\ s.pending = <<>> /\ s.awaiting = r.awaiting
      /\ s.watched = r.watched /\ s.micro = <<t>>
  BY DEF Fields
<1>3. engine \in [Workers -> Engine] /\ t \in Micro /\ <<t>> \in Seq(Micro)
      /\ engine[r.worker] = IF ok THEN "loaded" ELSE "broken"
  <2>1. engine \in [Workers -> Engine] /\ engine[r.worker] = IF ok THEN "loaded" ELSE "broken"
    BY <1>0, <1>1, TypedIs DEF Engine
  <2>2. t \in Micro
    BY <1>1, Tasks
  <2> QED BY <2>1, <2>2, OneTask
<1>4. Typed(s, c, wt, dr, f2)
  <2> HIDE DEF engine, t
  <2>1. <<>> \in Seq(Workers \X {"load", "render"})
    OBVIOUS
  <2>2. Fields(s, r.worker, r.promise, r.status, engine, r.quiet, r.fulfilled, <<>>, r.awaiting,
               r.watched, <<t>>)
    BY DEF engine, t
  <2>3. s \in Runtimes
    BY <1>0, <1>3, <2>1, <2>2 DEF Fields, Runtimes
  <2> QED BY <1>0, <2>3 DEF Typed
<1>5. Mode(s, wt, dr)
  <2>1. Told(s, r.promise, ok, wt, dr)
    BY <1>1, <1>2, <1>3 DEF Told, Loading, Live
  <2> QED BY <1>1, <2>1 DEF Mode
<1>6. Engines(s)
  BY <1>0, <1>1, <1>2, <1>3 DEF Engines, Live
<1>7. Line(s, c, dr)
  <2>1. (\A i \in 1..Len(s.micro) : s.micro[i].kind # "ensured") /\ \A x : ~Ensured(s, x)
    <3>1. s.micro = <<Task("load", r.promise, ok)>> /\ "load" # "ensured"
      BY <1>2
    <3> QED BY <3>1, NobodyEnsured
  <2>2. \A x : (Awaits(s, x) <=> Awaits(r, x)) /\ ~Ensured(r, x)
    BY <1>1, <1>2 DEF Awaits, Ensured
  <2>3. ASSUME NEW w \in Workers, s.awaiting[w] # <<>>
        PROVE  \E b \in BOOLEAN : s.micro = <<Task("load", w, b)>>
    <3>1. w = r.promise
      BY <1>1, <1>2, <2>3, TaskModes
    <3> QED BY <1>2, <3>1
  <2> QED BY <1>0, <1>2, <2>1, <2>2, <2>3 DEF Line
<1>8. Drain(s, wt, dr)
  BY <1>0, <1>2 DEF Drain
<1>9. Count(s, c, wt, dr, f2)
  <2>1. Slack(r) = 1 /\ Slack(s) = IF ok THEN 1 ELSE 0
    <3>1. s.micro # <<>> /\ Head(s.micro).kind = "load" /\ Head(s.micro).ok = ok
      BY <1>2 DEF Task
    <3> QED BY <1>1, <1>2, <3>1 DEF Slack
  <2>2. f + Slack(r) <= f2 + Slack(s)
    BY <1>0, <2>1, TypedIs
  <2>3. \A w \in Workers : s.engine[w] # "none" <=> r.engine[w] # "none"
    BY <1>0, <1>1, <1>2, TypedIs, Numbers DEF Engines
  <2>4. Typed(r, c, wt, dr, f) /\ Count(r, c, wt, dr, f) /\ s.pending = <<>>
    BY <1>0, <1>2
  <2> HIDE DEF engine, t
  <2> QED BY <1>4, <2>2, <2>3, <2>4, CountStays
<1> QED BY <1>0, <1>4, <1>5, <1>6, <1>7, <1>8, <1>9 DEF Inv

\* The worker answers a render.
LEMMA RenderAnswerKeeps ==
    ASSUME NEW r, NEW c, NEW wt, NEW dr, NEW f, Inv(r, c, wt, dr, f), r.micro = <<>>,
           Up(r, dr), dr.pc = "rendering", NEW ok \in BOOLEAN,
           NEW s, Fields(s, r.worker, r.promise, r.status, r.engine, r.quiet, r.fulfilled, <<>>,
                         r.awaiting, r.watched, <<Task("answered", None, ok)>>)
    PROVE  Inv(s, c, wt, dr, f)
<1>0. Typed(r, c, wt, dr, f) /\ Engines(r) /\ Line(r, c, dr) /\ Queue(c, wt, dr)
      /\ Drain(r, wt, dr) /\ Count(r, c, wt, dr, f) /\ r \in Runtimes
  BY DEF Inv, Typed
<1> DEFINE t == Task("answered", None, ok)
<1>1. r.promise \in Workers /\ r.promise # None /\ r.promise \in r.fulfilled
  BY Numbers DEF Up
<1>2. /\ s.worker = r.worker /\ s.promise = r.promise /\ s.engine = r.engine
      /\ s.fulfilled = r.fulfilled /\ s.pending = <<>> /\ s.awaiting = r.awaiting
      /\ s.watched = r.watched /\ s.micro = <<t>>
  BY DEF Fields
<1>3. t \in Micro /\ <<t>> \in Seq(Micro)
  BY Tasks, OneTask
<1>4. Typed(s, c, wt, dr, f)
  <2> HIDE DEF t
  <2>1. <<>> \in Seq(Workers \X {"load", "render"})
    OBVIOUS
  <2>2. Fields(s, r.worker, r.promise, r.status, r.engine, r.quiet, r.fulfilled, <<>>, r.awaiting,
               r.watched, <<t>>)
    BY DEF t
  <2>3. s \in Runtimes
    BY <1>0, <1>3, <2>1, <2>2 DEF Fields, Runtimes
  <2> QED BY <1>0, <2>3 DEF Typed
<1>5. Mode(s, wt, dr)
  <2>1. Answered(s, ok, dr)
    BY <1>1, <1>2 DEF Answered, Over
  <2> QED BY <2>1 DEF Mode
<1>6. Engines(s)
  BY <1>0, <1>2 DEF Engines, Live
<1>7. Line(s, c, dr)
  <2>1. (\A i \in 1..Len(s.micro) : s.micro[i].kind # "ensured") /\ \A x : ~Ensured(s, x)
    BY <1>2, NobodyEnsured
  <2>2. \A x : (Awaits(s, x) <=> Awaits(r, x)) /\ ~Ensured(r, x)
    BY <1>2 DEF Awaits, Ensured
  <2>3. \A w \in Workers : s.awaiting[w] = <<>>
    <3>1. ~Loading(r, wt, dr)
      BY <1>1 DEF Loading
    <3> QED BY <1>2, <3>1, TaskModes
  <2> QED BY <1>0, <1>2, <2>1, <2>2, <2>3 DEF Line
<1>8. Drain(s, wt, dr)
  BY <1>0, <1>2 DEF Drain
<1>9. Count(s, c, wt, dr, f)
  <2>1. Slack(r) = 1 /\ Slack(s) = 1
    <3>1. s.micro # <<>> /\ Head(s.micro).kind = "answered"
      BY <1>2 DEF Task
    <3> QED BY <1>1, <1>2, <3>1 DEF Slack
  <2>2. f + Slack(r) <= f + Slack(s)
    BY <1>0, <2>1, TypedIs
  <2> QED BY <1>0, <1>2, <1>4, <2>2, CountStays
<1> QED BY <1>0, <1>4, <1>5, <1>6, <1>7, <1>8, <1>9 DEF Inv

\* The handlers of the load's promise: those who waited for it are told.
LEMMA LoadSettledKeeps ==
    ASSUME NEW r, NEW c, NEW wt, NEW dr, NEW f, Inv(r, c, wt, dr, f),
           NEW w \in Workers, NEW ok \in BOOLEAN, Told(r, w, ok, wt, dr),
           NEW status \in Status, ~ok => status = "failed",
           NEW s, Fields(s, r.worker, IF ok THEN r.promise ELSE None, status, r.engine, r.quiet,
                         IF ok THEN r.fulfilled \cup {w} ELSE r.fulfilled, r.pending,
                         [r.awaiting EXCEPT ![w] = <<>>], r.watched, Awaiters(r, w, ok))
    PROVE  Inv(s, c, wt, dr, f)
<1>0. Typed(r, c, wt, dr, f) /\ Engines(r) /\ Line(r, c, dr) /\ Queue(c, wt, dr)
      /\ Drain(r, wt, dr) /\ Count(r, c, wt, dr, f) /\ r \in Runtimes
  BY DEF Inv, Typed
<1> DEFINE line == r.awaiting[w]
           micro == Awaiters(r, w, ok)
           awaiting == [r.awaiting EXCEPT ![w] = <<>>]
           promise == IF ok THEN r.promise ELSE None
           fulfilled == IF ok THEN r.fulfilled \cup {w} ELSE r.fulfilled
<1>1. /\ r.pending = <<>> /\ r.micro = <<Task("load", w, ok)>> /\ w # None
      /\ r.promise = w \/ (~ok /\ r.promise = None)
      /\ wt = <<>> /\ dr.pc \in {"off", "ensuring"}
  BY Numbers DEF Told
<1>2. /\ s.worker = r.worker /\ s.promise = promise /\ s.status = status /\ s.engine = r.engine
      /\ s.fulfilled = fulfilled /\ s.pending = <<>> /\ s.awaiting = awaiting
      /\ s.watched = r.watched /\ s.micro = micro
  BY <1>1 DEF Fields
<1>3. line \in Seq(Calls \cup {None}) /\ \A v \in Workers : r.awaiting[v] \in Seq(Calls \cup {None})
  BY <1>0, TypedIs
<1>4. /\ Len(micro) = Len(line) /\ micro \in Seq(Micro) /\ (micro = <<>> <=> line = <<>>)
      /\ \A i \in 1..Len(line) : micro[i] = Task("ensured", line[i], ok)
  <2>1. DOMAIN line = 1..Len(line) /\ Len(line) \in Nat
    BY <1>3
  <2>2. \A i \in 1..Len(line) : micro[i] = Task("ensured", line[i], ok)
    BY <2>1 DEF Awaiters
  <2>3. \A i \in 1..Len(line) : micro[i] \in Micro
    BY <1>3, <2>2, Tasks
  <2>4. micro = [i \in 1..Len(line) |-> micro[i]]
    BY <2>1 DEF Awaiters
  <2> HIDE DEF micro, line
  <2>5. micro \in Seq(Micro) /\ Len(micro) = Len(line)
    BY <2>1, <2>3, <2>4
  <2>6. line \in Seq(Calls \cup {None})
    BY <1>3 DEF line
  <2> QED BY <2>2, <2>5, <2>6
<1>5. \A i \in 1..Len(micro) : micro[i].kind = "ensured" /\ micro[i].who = line[i] /\ micro[i].ok = ok
  <2> SUFFICES ASSUME NEW i \in 1..Len(micro)
               PROVE  micro[i].kind = "ensured" /\ micro[i].who = line[i] /\ micro[i].ok = ok
    OBVIOUS
  <2>1. micro[i] = Task("ensured", line[i], ok)
    BY <1>4
  <2> HIDE DEF micro, line
  <2> QED BY <2>1 DEF Task
<1>6. Typed(s, c, wt, dr, f)
  <2>1. /\ awaiting \in [Workers -> Seq(Calls \cup {None})] /\ fulfilled \in SUBSET Workers
        /\ promise \in Workers \cup {None}
    <3>1. <<>> \in Seq(Calls \cup {None})
      OBVIOUS
    <3> QED BY <1>0, <3>1, TypedIs
  <2>2. <<>> \in Seq(Workers \X {"load", "render"})
    OBVIOUS
  <2>3. Fields(s, r.worker, promise, status, r.engine, r.quiet, fulfilled, r.pending, awaiting,
               r.watched, micro)
    OBVIOUS
  <2> HIDE DEF micro, awaiting, promise, fulfilled
  <2>4. s \in Runtimes
    BY <1>0, <1>1, <1>4, <2>1, <2>2, <2>3 DEF Fields, Runtimes
  <2> QED BY <1>0, <2>4 DEF Typed
<1>7. \A v \in Workers : v # w => r.awaiting[v] = <<>>
  <2> SUFFICES ASSUME NEW v \in Workers, r.awaiting[v] # <<>> PROVE v = w
    OBVIOUS
  <2>1. r.micro # <<>>
    BY <1>1
  <2>2. PICK b \in BOOLEAN : r.micro = <<Task("load", v, b)>>
    BY <1>0, <2>1 DEF Line
  <2>3. Task("load", v, b) = Task("load", w, ok)
    <3>1. <<Task("load", v, b)>>[1] = <<Task("load", w, ok)>>[1]
      BY <1>1, <2>2
    <3> QED BY <3>1
  <2> QED BY <2>3 DEF Task
<1>8. \A v \in Workers : s.awaiting[v] = <<>>
  BY <1>0, <1>2, <1>7, TypedIs
<1>9. \A x : /\ ~Awaits(s, x) /\ ~Ensured(r, x)
             /\ Ensured(s, x) <=> \E i \in 1..Len(line) : line[i] = x
             /\ Awaits(r, x) <=> \E i \in 1..Len(line) : line[i] = x
  <2> TAKE x
  <2>1. ~Awaits(s, x)
    BY <1>8 DEF Awaits
  <2>2. ~Ensured(r, x)
    <3>1. Len(r.micro) = 1 /\ r.micro[1].kind = "load"
      BY <1>1 DEF Task
    <3> QED BY <3>1 DEF Ensured
  <2>3. Ensured(s, x) <=> \E i \in 1..Len(line) : line[i] = x
    <3> HIDE DEF micro, line
    <3> QED BY <1>2, <1>4, <1>5 DEF Ensured
  <2>4. Awaits(r, x) <=> \E i \in 1..Len(line) : line[i] = x
    <3>1. \A v \in Workers : v # w => Len(r.awaiting[v]) = 0
      BY <1>7
    <3> QED BY <3>1 DEF Awaits
  <2> QED BY <2>1, <2>2, <2>3, <2>4
<1>10. Mode(s, wt, dr)
  <2>1. CASE ok
    <3>1. Up(s, dr)
      <4>1. s.promise = w /\ s.promise \in s.fulfilled
        BY <1>1, <1>2, <2>1
      <4>2. \A i \in 1..Len(s.micro) : IsEnsured(s.micro[i], TRUE)
        BY <1>2, <1>5, <2>1 DEF IsEnsured
      <4> QED BY <1>1, <1>2, <4>1, <4>2 DEF Up
    <3> QED BY <3>1 DEF Mode
  <2>2. CASE ~ok /\ line = <<>>
    <3>1. dr.pc = "off"
      <4>1. ~Awaits(r, None)
        BY <1>9, <2>2
      <4> QED BY <1>0, <1>1, <1>9, <4>1 DEF Line
    <3>2. Resting(s, dr)
      BY <1>2, <1>4, <2>2, <3>1 DEF Resting
    <3> QED BY <3>2 DEF Mode
  <2>3. CASE ~ok /\ line # <<>>
    <3>1. \A i \in 1..Len(s.micro) : IsEnsured(s.micro[i], FALSE)
      BY <1>2, <1>5, <2>3 DEF IsEnsured
    <3>2. Refused(s, wt, dr)
      BY <1>1, <1>2, <1>4, <2>3, <3>1 DEF Refused
    <3> QED BY <3>2 DEF Mode
  <2> QED BY <2>1, <2>2, <2>3
<1>11. Engines(s)
  <2>1. ASSUME NEW v \in Workers, Live(s, v) PROVE v = s.promise
    <3>1. Live(r, v) /\ v = r.promise
      BY <1>0, <1>2, <2>1 DEF Live, Engines
    <3>2. ~ok => FALSE
      BY <1>1, <3>1, Numbers DEF Told
    <3> QED BY <1>2, <3>1, <3>2
  <2>2. ASSUME NEW v \in s.fulfilled PROVE s.engine[v] # "none"
    <3>1. ok => r.worker = w /\ r.engine[w] # "none"
      BY <1>0, <1>1 DEF Engines
    <3> QED BY <1>0, <1>2, <2>2, <3>1 DEF Engines
  <2>3. s.promise # None => s.worker = s.promise
    BY <1>0, <1>2 DEF Engines
  <2>4. s.worker # None => s.engine[s.worker] # "none"
    BY <1>0, <1>2 DEF Engines
  <2> QED BY <2>1, <2>2, <2>3, <2>4 DEF Engines
<1>12. Line(s, c, dr)
  <2>1. /\ \A n \in Calls : c[n].pc = "ensuring" <=> (Awaits(s, n) \/ Ensured(s, n))
        /\ dr.pc = "ensuring" <=> (Awaits(s, None) \/ Ensured(s, None))
    BY <1>0, <1>9 DEF Line
  <2>2. \A v \in Workers : \A i, j \in 1..Len(s.awaiting[v]) :
        i < j => Before(s.awaiting[v][i], s.awaiting[v][j])
    BY <1>8
  <2>3. \A i, j \in 1..Len(line) : i < j => Before(line[i], line[j])
    BY <1>0 DEF Line
  <2>4. \A i, j \in 1..Len(s.micro) : i < j => Before(s.micro[i].who, s.micro[j].who)
    <3> HIDE DEF micro, line
    <3> QED BY <1>2, <1>4, <1>5, <2>3
  <2> QED BY <1>8, <2>1, <2>2, <2>4 DEF Line
<1>13. Drain(s, wt, dr)
  BY <1>0, <1>2 DEF Drain
<1>14. Count(s, c, wt, dr, f)
  <2>1. r.micro # <<>> /\ Head(r.micro).kind = "load" /\ Head(r.micro).ok = ok
    BY <1>1 DEF Task
  <2>2. Slack(r) = IF ok THEN 1 ELSE 0
    BY <1>1, <2>1 DEF Slack
  <2>3. Slack(s) = IF ok THEN 1 ELSE 0
    <3>1. s.micro # <<>> => Head(s.micro).kind = "ensured"
      <4>1. s.micro # <<>> => Head(s.micro) = s.micro[1] /\ 1 \in 1..Len(s.micro)
        BY <1>2, <1>4
      <4> QED BY <1>2, <1>5, <4>1
    <3>2. s.promise = None <=> ~ok
      BY <1>1, <1>2
    <3> QED BY <3>1, <3>2 DEF Slack
  <2>4. f + Slack(r) <= f + Slack(s)
    BY <1>0, <2>2, <2>3, TypedIs
  <2> QED BY <1>0, <1>2, <1>6, <2>4, CountStays
<1> QED BY <1>0, <1>6, <1>10, <1>11, <1>12, <1>13, <1>14 DEF Inv

\* There is a number for the next worker wherever one may be started.
LEMMA NextNumber ==
    ASSUME NEW r, NEW c, NEW wt, NEW dr, NEW f, Typed(r, c, wt, dr, f), Count(r, c, wt, dr, f),
           r.promise = None
    PROVE  \E k \in Nat : Started(r, k) /\ k + 1 \in Workers
<1>1. PICK k \in Nat : Started(r, k) /\ k <= f + Slack(r) + NCalls
  BY DEF Count
<1>2. Slack(r) = 0 /\ f \in Nat /\ f <= MaxFaults
  BY TypedIs DEF Slack
<1> QED BY <1>1, <1>2, Numbers DEF Workers

\* There is one more.
LEMMA StartedNext ==
    ASSUME NEW r \in Runtimes, NEW k, Started(r, k), k + 1 \in Workers,
           NEW s, s.engine = [r.engine EXCEPT ![k + 1] = "loading"],
           NEW m \in Nat, Started(r, m)
    PROVE  Started(s, m + 1)
<1> DEFINE w == k + 1
<1>1. k \in Nat /\ w \in Nat /\ r.engine \in [Workers -> Engine]
  BY DEF Started, Runtimes
<1>2. s.engine[w] = "loading" /\ \A v \in Workers : v # w => s.engine[v] = r.engine[v]
  BY <1>1
<1>3. r.engine[w] = "none"
  <2>1. ~(w <= k)
    BY <1>1
  <2> QED BY <2>1 DEF Started
<1>4. ~(w <= m)
  BY <1>3 DEF Started
<1>5. ~(m < k)
  <2>1. m < k => m + 1 \in Workers /\ m + 1 <= k
    BY <1>1, Numbers DEF Workers
  <2>2. ASSUME m + 1 \in Workers, m + 1 <= k PROVE FALSE
    <3>1. r.engine[m + 1] # "none"
      BY <2>2 DEF Started
    <3>2. m + 1 <= m
      BY <2>2, <3>1 DEF Started
    <3> QED BY <3>2
  <2> QED BY <2>1, <2>2
<1>6. m + 1 = w
  BY <1>1, <1>4, <1>5
<1> HIDE DEF w
<1>7. ASSUME NEW v \in Workers PROVE s.engine[v] # "none" <=> v <= m + 1
  <2>1. v \in Nat
    BY Numbers
  <2>2. CASE v = w
    BY <1>2, <1>6, <2>1, <2>2
  <2>3. CASE v # w
    <3>1. s.engine[v] # "none" <=> v <= m
      BY <1>2, <2>3 DEF Started
    <3> QED BY <1>6, <2>1, <2>3, <3>1
  <2> QED BY <2>2, <2>3
<1> QED BY <1>7 DEF Started

\* The line is that of the awaiters and the microtasks.
LEMMA SameLine ==
    ASSUME NEW r, NEW c, NEW dr, Line(r, c, dr), NEW s, s.awaiting = r.awaiting, s.micro = r.micro,
           \A w \in Workers : s.awaiting[w] # <<>> =>
               \/ s.promise = w /\ s.micro = <<>> /\ s.promise \notin s.fulfilled
               \/ \E ok \in BOOLEAN : s.micro = <<Task("load", w, ok)>>
    PROVE  Line(s, c, dr)
<1>1. ASSUME NEW x PROVE (Awaits(s, x) <=> Awaits(r, x)) /\ (Ensured(s, x) <=> Ensured(r, x))
  BY DEF Awaits, Ensured
<1>2. /\ \A n \in Calls : c[n].pc = "ensuring" <=> (Awaits(s, n) \/ Ensured(s, n))
      /\ dr.pc = "ensuring" <=> (Awaits(s, None) \/ Ensured(s, None))
  BY <1>1 DEF Line
<1>3. /\ \A w \in Workers : \A i, j \in 1..Len(s.awaiting[w]) :
        i < j => Before(s.awaiting[w][i], s.awaiting[w][j])
      /\ \A i, j \in 1..Len(s.micro) :
        i < j /\ s.micro[i].kind = "ensured" /\ s.micro[j].kind = "ensured"
        => Before(s.micro[i].who, s.micro[j].who)
  BY DEF Line
<1> QED BY <1>2, <1>3 DEF Line

\* load(), where no worker is asked for.
LEMMA StartKeeps ==
    ASSUME NEW r, NEW c, NEW wt, NEW dr, NEW f, Inv(r, c, wt, dr, f), r.micro = <<>>,
           r.promise = None, NEW k, Started(r, k), k + 1 \in Workers,
           NEW s, StartedOne(r, FALSE, k + 1, s)
    PROVE  Inv(s, c, wt, dr, f)
<1>0. Typed(r, c, wt, dr, f) /\ Engines(r) /\ Line(r, c, dr) /\ Queue(c, wt, dr)
      /\ Drain(r, wt, dr) /\ Count(r, c, wt, dr, f) /\ r \in Runtimes
  BY DEF Inv, Typed
<1>1. k \in Nat /\ Started(r, k) /\ k + 1 \in Workers
  BY DEF Started
<1> DEFINE w == k + 1
           engine == [r.engine EXCEPT ![w] = "loading"]
           pending == << <<w, "load">> >>
<1>2. Resting(r, dr) /\ \A v \in Workers : r.awaiting[v] = <<>>
  <2>1. ~Loading(r, wt, dr) /\ ~Up(r, dr)
    BY Numbers DEF Loading, Up
  <2> QED BY <2>1, TaskModes
<1>3. r.pending = <<>> /\ dr.pc = "off" /\ wt = <<>> /\ dr.job = <<>> /\ w \in Workers /\ w # None
  BY <1>0, <1>1, <1>2, Numbers DEF Resting, Drain
<1>4. Fields(s, w, w, "loading", engine, r.quiet, r.fulfilled, pending, r.awaiting, r.watched, r.micro)
  <2>1. Append(r.pending, <<w, "load">>) = pending
    BY <1>3
  <2> QED BY <2>1 DEF StartedOne
<1> HIDE DEF w
<1>5. /\ s.worker = w /\ s.promise = w /\ s.engine = engine /\ s.fulfilled = r.fulfilled
      /\ s.pending = pending /\ s.awaiting = r.awaiting /\ s.watched = r.watched /\ s.micro = <<>>
  BY <1>4 DEF Fields
<1>6. r.engine[w] = "none" /\ \A v \in Workers : v # w => s.engine[v] = r.engine[v]
  <2>1. r.engine[w] = "none"
    <3>1. ~(w <= k)
      BY <1>1, <1>3, Numbers DEF w
    <3> QED BY <1>1, <1>3, <3>1 DEF Started
  <2>2. r.engine \in [Workers -> Engine]
    BY <1>0, TypedIs
  <2> QED BY <1>3, <1>5, <2>1, <2>2
<1>7. s.engine[w] = "loading" /\ engine \in [Workers -> Engine]
  BY <1>0, <1>3, <1>5, TypedIs DEF Engine
<1>8. w \notin r.fulfilled
  BY <1>0, <1>6 DEF Engines
<1>9. Typed(s, c, wt, dr, f)
  <2>1. pending \in Seq(Workers \X {"load", "render"})
    BY <1>3
  <2> HIDE DEF engine, pending
  <2>2. s \in Runtimes
    BY <1>0, <1>3, <1>4, <1>7, <2>1 DEF Fields, Runtimes, Status
  <2> QED BY <1>0, <2>2 DEF Typed
<1>10. Mode(s, wt, dr)
  <2>1. Loading(s, wt, dr)
    BY <1>3, <1>5, <1>8 DEF Loading
  <2> QED BY <2>1 DEF Mode
<1>11. Engines(s)
  <2>1. ASSUME NEW v \in Workers, Live(s, v) PROVE v = w
    <3>1. v # w => Live(r, v)
      BY <1>6, <2>1 DEF Live
    <3> QED BY <1>0, <1>2, <3>1, Numbers DEF Engines, Resting
  <2>2. ASSUME NEW v \in r.fulfilled PROVE s.engine[v] # "none"
    BY <1>0, <1>6, <1>8, <2>2, TypedIs DEF Engines
  <2> QED BY <1>5, <1>7, <2>1, <2>2 DEF Engines
<1>12. Line(s, c, dr)
  BY <1>0, <1>2, <1>5, SameLine
<1>13. Drain(s, wt, dr)
  BY <1>0, <1>5 DEF Drain
<1>14. Count(s, c, wt, dr, f)
  <2>1. \A m \in Nat : Started(r, m) => Started(s, m + 1)
    BY <1>0, <1>1, <1>5, StartedNext DEF w
  <2>2. f + Slack(r) + 1 <= f + Slack(s)
    <3>1. Slack(r) = 0 /\ Slack(s) = 1
      BY <1>2, <1>3, <1>5 DEF Slack, Resting
    <3>2. f \in Nat
      BY <1>0, TypedIs
    <3> QED BY <3>1, <3>2
  <2>3. 1 \in {0, 1} /\ \A n \in Calls : ~In(dr.job, n)
    BY <1>3 DEF In
  <2> QED BY <1>0, <1>9, <2>1, <2>2, <2>3, CountKeeps
<1> QED BY <1>0, <1>9, <1>10, <1>11, <1>12, <1>13, <1>14 DEF Inv

\* A start that throws.
LEMMA ThrowKeeps ==
    ASSUME NEW r, NEW c, NEW wt, NEW dr, NEW f, Inv(r, c, wt, dr, f), r.micro = <<>>,
           r.promise = None, NEW f2 \in 0..MaxFaults, f2 = f + 1,
           NEW s, Fields(s, r.worker, r.promise, "failed", r.engine, r.quiet, r.fulfilled,
                         r.pending, r.awaiting, r.watched, r.micro)
    PROVE  Inv(s, c, wt, dr, f2)
<1>0. Typed(r, c, wt, dr, f) /\ Engines(r) /\ Line(r, c, dr) /\ Queue(c, wt, dr)
      /\ Drain(r, wt, dr) /\ Count(r, c, wt, dr, f) /\ r \in Runtimes
  BY DEF Inv, Typed
<1>1. Resting(r, dr)
  <2>1. ~Loading(r, wt, dr) /\ ~Up(r, dr)
    BY Numbers DEF Loading, Up
  <2> QED BY <2>1, TaskModes
<1>2. Fields(s, r.worker, r.promise, "failed", r.engine, r.quiet, r.fulfilled, r.pending,
             r.awaiting, r.watched, r.micro)
  OBVIOUS
<1>3. /\ s.worker = r.worker /\ s.promise = r.promise /\ s.engine = r.engine
      /\ s.fulfilled = r.fulfilled /\ s.pending = r.pending /\ s.awaiting = r.awaiting
      /\ s.watched = r.watched /\ s.micro = r.micro
  BY <1>2 DEF Fields
<1>4. Typed(s, c, wt, dr, f2)
  <2>1. s \in Runtimes
    BY <1>0, <1>2 DEF Fields, Runtimes, Status
  <2> QED BY <1>0, <2>1 DEF Typed
<1>5. Mode(s, wt, dr)
  BY <1>1, <1>3 DEF Mode, Resting
<1>6. Engines(s)
  BY <1>0, <1>3 DEF Engines, Live
<1>7. Line(s, c, dr)
  <2>1. \A w \in Workers : s.awaiting[w] # <<>> =>
          \/ s.promise = w /\ s.micro = <<>> /\ s.promise \notin s.fulfilled
          \/ \E ok \in BOOLEAN : s.micro = <<Task("load", w, ok)>>
    BY <1>0, <1>3 DEF Line
  <2> QED BY <1>0, <1>3, <2>1, SameLine
<1>8. Drain(s, wt, dr)
  BY <1>0, <1>3 DEF Drain
<1>9. Count(s, c, wt, dr, f2)
  <2>1. Slack(r) = Slack(s) /\ Slack(r) \in Nat
    BY <1>2, <1>3 DEF Slack
  <2>2. f + Slack(r) <= f2 + Slack(s)
    <3>1. f \in Nat
      BY <1>0, TypedIs
    <3> QED BY <2>1, <3>1
  <2> QED BY <1>0, <1>3, <1>4, <2>2, CountStays
<1> QED BY <1>0, <1>4, <1>5, <1>6, <1>7, <1>8, <1>9 DEF Inv

-----------------------------------------------------------------------------
(***************************************************************************)
(* Someone comes to wait for the engine: a call, or the drain loop.        *)
(***************************************************************************)
\* The line, but for the one who is coming to its end.
LineBut(r, c, dr, who) ==
    /\ \A n \in Calls : n # who => (c[n].pc = "ensuring" <=> (Awaits(r, n) \/ Ensured(r, n)))
    /\ who # None => (dr.pc = "ensuring" <=> (Awaits(r, None) \/ Ensured(r, None)))
    /\ \A x \in Calls \cup {None} : Awaits(r, x) \/ Ensured(r, x) => Before(x, who)
    /\ \A w \in Workers : \A i, j \in 1..Len(r.awaiting[w]) :
        i < j => Before(r.awaiting[w][i], r.awaiting[w][j])
    /\ \A i, j \in 1..Len(r.micro) :
        i < j /\ r.micro[i].kind = "ensured" /\ r.micro[j].kind = "ensured"
        => Before(r.micro[i].who, r.micro[j].who)
    /\ \A w \in Workers : r.awaiting[w] # <<>> =>
        \/ r.promise = w /\ r.micro = <<>> /\ r.promise \notin r.fulfilled
        \/ \E ok \in BOOLEAN : r.micro = <<Task("load", w, ok)>>

Turn(r, c, wt, dr, f, who) ==
    /\ Typed(r, c, wt, dr, f) /\ Engines(r) /\ LineBut(r, c, dr, who)
    /\ Queue(c, wt, dr) /\ Drain(r, wt, dr) /\ Count(r, c, wt, dr, f)
    /\ who \in Calls \cup {None}
    /\ who # None => c[who].pc = "ensuring"
    /\ who = None => dr.pc = "ensuring"

\* The one who comes is told at once.
LEMMA LineGrowsMicro ==
    ASSUME NEW r, NEW c, NEW wt, NEW dr, NEW f, NEW who, Turn(r, c, wt, dr, f, who),
           NEW ok, NEW s, s.awaiting = r.awaiting,
           s.micro = Append(r.micro, Task("ensured", who, ok)),
           \A w \in Workers : r.awaiting[w] = <<>>
    PROVE  Line(s, c, dr)
<1> DEFINE t == Task("ensured", who, ok)
           len == Len(r.micro)
<1>1. r.micro \in Seq(Micro) /\ who \in Calls \cup {None} /\ t.kind = "ensured" /\ t.who = who
  BY TypedIs DEF Turn, Task
<1>2. /\ len \in Nat /\ Len(s.micro) = len + 1 /\ s.micro[len + 1] = t
      /\ \A i \in 1..len : s.micro[i] = r.micro[i] /\ s.micro[i] \in Micro
  <2> HIDE DEF t
  <2> QED BY <1>1 DEF t
<1> HIDE DEF t, len
<1>3. \A x : ~Awaits(s, x) /\ ~Awaits(r, x)
  BY DEF Awaits
<1>4. ASSUME NEW x PROVE Ensured(s, x) <=> (Ensured(r, x) \/ x = who)
  <2>1. ASSUME Ensured(r, x) PROVE Ensured(s, x)
    <3>1. PICK i \in 1..len : r.micro[i].kind = "ensured" /\ r.micro[i].who = x
      BY <2>1 DEF Ensured, len
    <3>2. i \in 1..Len(s.micro) /\ s.micro[i] = r.micro[i]
      BY <1>2, <3>1
    <3> QED BY <3>1, <3>2 DEF Ensured
  <2>2. Ensured(s, who)
    <3>1. len + 1 \in 1..Len(s.micro)
      BY <1>2
    <3> QED BY <1>1, <1>2, <3>1 DEF Ensured
  <2>3. ASSUME Ensured(s, x), x # who PROVE Ensured(r, x)
    <3>1. PICK i \in 1..(len + 1) : s.micro[i].kind = "ensured" /\ s.micro[i].who = x
      BY <1>2, <2>3 DEF Ensured
    <3>2. i \in 1..len
      BY <1>1, <1>2, <2>3, <3>1
    <3> QED BY <1>2, <3>1, <3>2 DEF Ensured, len
  <2> QED BY <2>1, <2>2, <2>3
<1>5. /\ \A n \in Calls : c[n].pc = "ensuring" <=> (Awaits(s, n) \/ Ensured(s, n))
      /\ dr.pc = "ensuring" <=> (Awaits(s, None) \/ Ensured(s, None))
  <2>1. LineBut(r, c, dr, who) /\ (who # None => c[who].pc = "ensuring")
        /\ (who = None => dr.pc = "ensuring") /\ who \in Calls \cup {None}
    BY DEF Turn
  <2>2. ASSUME NEW n \in Calls PROVE c[n].pc = "ensuring" <=> (Awaits(s, n) \/ Ensured(s, n))
    <3>1. CASE n = who
      BY <1>3, <1>4, <2>1, <3>1, Numbers
    <3>2. CASE n # who
      <4>1. c[n].pc = "ensuring" <=> (Awaits(r, n) \/ Ensured(r, n))
        BY <2>1, <3>2 DEF LineBut
      <4> QED BY <1>3, <1>4, <3>2, <4>1
    <3> QED BY <3>1, <3>2
  <2>3. dr.pc = "ensuring" <=> (Awaits(s, None) \/ Ensured(s, None))
    <3>1. CASE who = None
      BY <1>3, <1>4, <2>1, <3>1
    <3>2. CASE who # None
      <4>1. dr.pc = "ensuring" <=> (Awaits(r, None) \/ Ensured(r, None))
        BY <2>1, <3>2 DEF LineBut
      <4> QED BY <1>3, <1>4, <3>2, <4>1
    <3> QED BY <3>1, <3>2
  <2> QED BY <2>2, <2>3
<1>6. \A i, j \in 1..Len(s.micro) :
        i < j /\ s.micro[i].kind = "ensured" /\ s.micro[j].kind = "ensured"
        => Before(s.micro[i].who, s.micro[j].who)
  <2> SUFFICES ASSUME NEW i \in 1..(len + 1), NEW j \in 1..(len + 1), i < j,
                      s.micro[i].kind = "ensured", s.micro[j].kind = "ensured"
               PROVE  Before(s.micro[i].who, s.micro[j].who)
    BY <1>2
  <2>0. LineBut(r, c, dr, who)
    BY DEF Turn
  <2>1. i \in 1..len /\ s.micro[i] = r.micro[i] /\ s.micro[i] \in Micro
    BY <1>2
  <2>2. CASE j \in 1..len
    <3>1. s.micro[j] = r.micro[j]
      BY <1>2, <2>2
    <3>2. \A a, b \in 1..len :
            a < b /\ r.micro[a].kind = "ensured" /\ r.micro[b].kind = "ensured"
            => Before(r.micro[a].who, r.micro[b].who)
      BY <2>0 DEF LineBut, len
    <3> QED BY <2>1, <2>2, <3>1, <3>2
  <2>3. CASE j = len + 1
    <3>1. Ensured(r, s.micro[i].who) /\ s.micro[i].who \in Calls \cup {None}
      BY <2>1, MicroIs DEF Ensured, len
    <3>2. Before(s.micro[i].who, who)
      BY <2>0, <3>1 DEF LineBut
    <3> QED BY <1>1, <1>2, <2>3, <3>2
  <2> QED BY <1>2, <2>2, <2>3
<1> QED BY <1>5, <1>6 DEF Line

\* The one who comes waits for the load of w.
LEMMA LineGrowsAwaiting ==
    ASSUME NEW r, NEW c, NEW wt, NEW dr, NEW f, NEW who, Turn(r, c, wt, dr, f, who),
           NEW w \in Workers, NEW s, s.awaiting = [r.awaiting EXCEPT ![w] = Append(r.awaiting[w], who)],
           r.micro = <<>>, s.micro = <<>>, s.promise = w, w \notin s.fulfilled,
           \A v \in Workers : v # w => r.awaiting[v] = <<>>
    PROVE  Line(s, c, dr)
<1> DEFINE line == r.awaiting[w]
           len == Len(line)
<1>1. line \in Seq(Calls \cup {None}) /\ who \in Calls \cup {None}
      /\ r.awaiting \in [Workers -> Seq(Calls \cup {None})]
  BY TypedIs DEF Turn
<1>2. s.awaiting[w] = Append(line, who) /\ \A v \in Workers : v # w => s.awaiting[v] = <<>>
  BY <1>1
<1>3. /\ len \in Nat /\ Len(s.awaiting[w]) = len + 1 /\ s.awaiting[w][len + 1] = who
      /\ \A i \in 1..len : s.awaiting[w][i] = line[i] /\ line[i] \in Calls \cup {None}
  <2> DEFINE next == s.awaiting[w]
  <2>1. line \in Seq(Calls \cup {None}) /\ next = Append(line, who)
    BY <1>1, <1>2
  <2> HIDE DEF line, next
  <2>2. /\ len \in Nat /\ Len(next) = len + 1 /\ next[len + 1] = who
        /\ \A i \in 1..len : next[i] = line[i] /\ line[i] \in Calls \cup {None}
    BY <1>1, <2>1
  <2> QED BY <2>2 DEF next
<1> HIDE DEF line, len
<1>4. \A x : ~Ensured(s, x) /\ ~Ensured(r, x)
  BY DEF Ensured
<1>5. \A v \in Workers : v # w => Len(s.awaiting[v]) = 0 /\ Len(r.awaiting[v]) = 0
  BY <1>2
<1>6. ASSUME NEW x PROVE Awaits(s, x) <=> (Awaits(r, x) \/ x = who)
  <2>1. ASSUME Awaits(r, x) PROVE Awaits(s, x)
    <3>1. PICK v \in Workers : \E i \in 1..Len(r.awaiting[v]) : r.awaiting[v][i] = x
      BY <2>1 DEF Awaits
    <3>2. v = w
      BY <1>5, <3>1
    <3>3. PICK i \in 1..len : line[i] = x
      BY <3>1, <3>2 DEF len, line
    <3>4. i \in 1..(len + 1)
      BY <1>3
    <3>5. i \in 1..Len(s.awaiting[w])
      BY <1>3, <3>4
    <3>6. s.awaiting[w][i] = x
      BY <1>3, <3>3
    <3> QED BY <3>5, <3>6 DEF Awaits
  <2>2. Awaits(s, who)
    <3>1. len + 1 \in 1..Len(s.awaiting[w])
      BY <1>3
    <3> QED BY <1>3, <3>1 DEF Awaits
  <2>3. ASSUME Awaits(s, x), x # who PROVE Awaits(r, x)
    <3>1. PICK v \in Workers : \E i \in 1..Len(s.awaiting[v]) : s.awaiting[v][i] = x
      BY <2>3 DEF Awaits
    <3>2. v = w
      BY <1>5, <3>1
    <3>3. PICK i \in 1..(len + 1) : s.awaiting[w][i] = x
      BY <1>3, <3>1, <3>2
    <3>4. i \in 1..len
      BY <1>3, <2>3, <3>3
    <3> QED BY <1>3, <3>3, <3>4 DEF Awaits, line, len
  <2> QED BY <2>1, <2>2, <2>3
<1>7. /\ \A n \in Calls : c[n].pc = "ensuring" <=> (Awaits(s, n) \/ Ensured(s, n))
      /\ dr.pc = "ensuring" <=> (Awaits(s, None) \/ Ensured(s, None))
  <2>1. LineBut(r, c, dr, who) /\ (who # None => c[who].pc = "ensuring")
        /\ (who = None => dr.pc = "ensuring") /\ who \in Calls \cup {None}
    BY DEF Turn
  <2>2. ASSUME NEW n \in Calls PROVE c[n].pc = "ensuring" <=> (Awaits(s, n) \/ Ensured(s, n))
    <3>1. CASE n = who
      BY <1>4, <1>6, <2>1, <3>1, Numbers
    <3>2. CASE n # who
      <4>1. c[n].pc = "ensuring" <=> (Awaits(r, n) \/ Ensured(r, n))
        BY <2>1, <3>2 DEF LineBut
      <4> QED BY <1>4, <1>6, <3>2, <4>1
    <3> QED BY <3>1, <3>2
  <2>3. dr.pc = "ensuring" <=> (Awaits(s, None) \/ Ensured(s, None))
    <3>1. CASE who = None
      BY <1>4, <1>6, <2>1, <3>1
    <3>2. CASE who # None
      <4>1. dr.pc = "ensuring" <=> (Awaits(r, None) \/ Ensured(r, None))
        BY <2>1, <3>2 DEF LineBut
      <4> QED BY <1>4, <1>6, <3>2, <4>1
    <3> QED BY <3>1, <3>2
  <2> QED BY <2>2, <2>3
<1>8. \A i, j \in 1..Len(s.awaiting[w]) : i < j => Before(s.awaiting[w][i], s.awaiting[w][j])
  <2> SUFFICES ASSUME NEW i \in 1..(len + 1), NEW j \in 1..(len + 1), i < j
               PROVE  Before(s.awaiting[w][i], s.awaiting[w][j])
    BY <1>3
  <2>0. LineBut(r, c, dr, who)
    BY DEF Turn
  <2>1. i \in 1..len /\ s.awaiting[w][i] = line[i]
    BY <1>3
  <2>2. CASE j \in 1..len
    <3>1. \A a, b \in 1..len : a < b => Before(line[a], line[b])
      BY <2>0 DEF LineBut, line, len
    <3> QED BY <1>3, <2>1, <2>2, <3>1
  <2>3. CASE j = len + 1
    <3>1. Awaits(r, line[i]) /\ line[i] \in Calls \cup {None}
      BY <1>3, <2>1 DEF Awaits, line, len
    <3>2. Before(line[i], who)
      BY <2>0, <3>1 DEF LineBut
    <3> QED BY <1>3, <2>1, <2>3, <3>2
  <2> QED BY <1>3, <2>2, <2>3
<1>9. ASSUME NEW v \in Workers, NEW i \in 1..Len(s.awaiting[v]), NEW j \in 1..Len(s.awaiting[v]), i < j
      PROVE  Before(s.awaiting[v][i], s.awaiting[v][j])
  <2>1. v = w
    BY <1>5, <1>9
  <2> QED BY <1>8, <1>9, <2>1
<1>10. \A v \in Workers : s.awaiting[v] # <<>> => s.promise = v /\ s.micro = <<>> /\ s.promise \notin s.fulfilled
  BY <1>2
<1> QED BY <1>7, <1>9, <1>10 DEF Line

\* The engine is there: whoever comes is told so.
LEMMA AwaitFulfilledKeeps ==
    ASSUME NEW r, NEW c, NEW wt, NEW dr, NEW f, NEW who, Turn(r, c, wt, dr, f, who), Up(r, dr),
           NEW s, EnsuredLater(r, r.status, who, TRUE, s)
    PROVE  Inv(s, c, wt, dr, f)
<1>0. Typed(r, c, wt, dr, f) /\ Engines(r) /\ LineBut(r, c, dr, who) /\ Queue(c, wt, dr)
      /\ Drain(r, wt, dr) /\ Count(r, c, wt, dr, f) /\ r \in Runtimes /\ who \in Calls \cup {None}
  BY DEF Turn, Typed
<1> DEFINE t == Task("ensured", who, TRUE)
           micro == Append(r.micro, t)
<1>1. /\ s.worker = r.worker /\ s.promise = r.promise /\ s.engine = r.engine
      /\ s.fulfilled = r.fulfilled /\ s.pending = r.pending /\ s.awaiting = r.awaiting
      /\ s.watched = r.watched /\ s.micro = micro
  BY DEF EnsuredLater, Fields
<1>2. r.promise \in Workers /\ r.promise # None /\ r.promise \in r.fulfilled
      /\ r.micro \in Seq(Micro)
  BY <1>0, TypedIs, Numbers DEF Up
<1>3. t \in Micro /\ t.kind = "ensured" /\ t.ok = TRUE
  BY <1>0, Tasks DEF Task
<1>4. /\ micro \in Seq(Micro) /\ Len(micro) = Len(r.micro) + 1 /\ micro[Len(r.micro) + 1] = t
      /\ Len(r.micro) \in Nat
      /\ \A i \in 1..Len(r.micro) : micro[i] = r.micro[i]
  <2> HIDE DEF t
  <2> QED BY <1>2, <1>3
<1>5. \A i \in 1..Len(micro) : IsEnsured(micro[i], TRUE)
  <2> SUFFICES ASSUME NEW i \in 1..(Len(r.micro) + 1) PROVE IsEnsured(micro[i], TRUE)
    BY <1>4
  <2> HIDE DEF micro, t
  <2>1. CASE i \in 1..Len(r.micro)
    BY <1>4, <2>1 DEF Up
  <2>2. CASE i = Len(r.micro) + 1
    <3>1. IsEnsured(t, TRUE) /\ micro[i] = t
      BY <1>3, <1>4, <2>2 DEF IsEnsured
    <3> QED BY <3>1
  <2>3. Len(r.micro) \in Nat
    BY <1>4
  <2>4. i \in 1..Len(r.micro) \/ i = Len(r.micro) + 1
    BY <2>3
  <2> QED BY <2>1, <2>2, <2>4
<1>6. \A w \in Workers : r.awaiting[w] = <<>>
  <2> SUFFICES ASSUME NEW w \in Workers, r.awaiting[w] # <<>> PROVE FALSE
    OBVIOUS
  <2>1. \/ r.promise \notin r.fulfilled
        \/ \E ok \in BOOLEAN : r.micro = <<Task("load", w, ok)>>
    BY <1>0 DEF LineBut
  <2>2. PICK ok \in BOOLEAN : r.micro = <<Task("load", w, ok)>>
    BY <1>2, <2>1
  <2>3. Len(r.micro) = 1 /\ r.micro[1].kind = "load" /\ 1 \in 1..Len(r.micro)
    BY <2>2 DEF Task
  <2>4. IsEnsured(r.micro[1], TRUE)
    BY <2>3 DEF Up
  <2> QED BY <2>3, <2>4 DEF IsEnsured
<1> HIDE DEF t, micro
<1>7. Typed(s, c, wt, dr, f)
  <2>1. Fields(s, r.worker, r.promise, r.status, r.engine, r.quiet, r.fulfilled, r.pending,
               r.awaiting, r.watched, micro)
    BY DEF EnsuredLater, t, micro
  <2>2. s \in Runtimes
    BY <1>0, <1>4, <2>1 DEF Fields, Runtimes
  <2> QED BY <1>0, <2>2 DEF Typed
<1>8. Mode(s, wt, dr)
  <2>1. Up(s, dr)
    BY <1>1, <1>5 DEF Up
  <2> QED BY <2>1 DEF Mode
<1>9. Engines(s)
  BY <1>0, <1>1 DEF Engines, Live
<1>10. Line(s, c, dr)
  BY <1>1, <1>6, LineGrowsMicro DEF micro, t
<1>11. Drain(s, wt, dr)
  BY <1>0, <1>1 DEF Drain
<1>12. Count(s, c, wt, dr, f)
  <2>1. Slack(s) = 1
    <3>1. Head(s.micro) = micro[1] /\ 1 \in 1..Len(micro)
      BY <1>1, <1>4
    <3>2. Head(s.micro).kind = "ensured"
      BY <1>5, <3>1 DEF IsEnsured
    <3> QED BY <1>1, <1>2, <3>2 DEF Slack
  <2>2. f + Slack(r) <= f + Slack(s)
    <3>1. f \in Nat /\ Slack(r) \in Nat /\ Slack(r) <= 1
      BY <1>0, TypedIs DEF Slack
    <3> QED BY <2>1, <3>1
  <2> QED BY <1>0, <1>1, <1>7, <2>2, CountStays
<1> QED BY <1>0, <1>7, <1>8, <1>9, <1>10, <1>11, <1>12 DEF Inv

\* No worker, and nothing under way.
Free(r, wt, dr) ==
    /\ r.promise = None /\ r.pending = <<>> /\ r.micro = <<>>
    /\ wt = <<>> /\ dr.pc \in {"off", "ensuring"}

LEMMA FreeAwaits ==
    ASSUME NEW r, NEW c, NEW wt, NEW dr, NEW f, NEW who, Turn(r, c, wt, dr, f, who), Free(r, wt, dr)
    PROVE  \A w \in Workers : r.awaiting[w] = <<>>
BY Numbers DEF Turn, LineBut, Free

\* The worker cannot be started: whoever comes is told so.
LEMMA AwaitThrowsKeeps ==
    ASSUME NEW r, NEW c, NEW wt, NEW dr, NEW f, NEW who, Turn(r, c, wt, dr, f, who),
           Free(r, wt, dr), NEW f2 \in 0..MaxFaults, f2 = f + 1,
           NEW s, EnsuredLater(r, "failed", who, FALSE, s)
    PROVE  Inv(s, c, wt, dr, f2)
<1>0. Typed(r, c, wt, dr, f) /\ Engines(r) /\ LineBut(r, c, dr, who) /\ Queue(c, wt, dr)
      /\ Drain(r, wt, dr) /\ Count(r, c, wt, dr, f) /\ r \in Runtimes /\ who \in Calls \cup {None}
  BY DEF Turn, Typed
<1> DEFINE t == Task("ensured", who, FALSE)
           micro == Append(r.micro, t)
<1>1. /\ s.worker = r.worker /\ s.promise = r.promise /\ s.engine = r.engine
      /\ s.status = "failed"
      /\ s.fulfilled = r.fulfilled /\ s.pending = r.pending /\ s.awaiting = r.awaiting
      /\ s.watched = r.watched /\ s.micro = micro
  BY DEF EnsuredLater, Fields
<1>2. t \in Micro /\ IsEnsured(t, FALSE)
  BY <1>0, Tasks DEF Task, IsEnsured
<1>3. micro = <<t>> /\ <<t>> \in Seq(Micro) /\ Len(micro) = 1 /\ micro[1] = t /\ micro # <<>>
  <2>1. micro = <<t>>
    BY DEF Free
  <2> HIDE DEF t, micro
  <2> QED BY <1>2, <2>1, OneTask
<1> HIDE DEF t, micro
<1>4. Typed(s, c, wt, dr, f2)
  <2>1. Fields(s, r.worker, r.promise, "failed", r.engine, r.quiet, r.fulfilled, r.pending,
               r.awaiting, r.watched, micro)
    BY DEF EnsuredLater, t, micro
  <2>2. s \in Runtimes
    BY <1>0, <1>3, <2>1 DEF Fields, Runtimes, Status
  <2> QED BY <1>0, <2>2 DEF Typed
<1>5. Mode(s, wt, dr)
  <2>1. \A i \in 1..Len(s.micro) : IsEnsured(s.micro[i], FALSE)
    <3> SUFFICES ASSUME NEW i \in 1..Len(s.micro) PROVE IsEnsured(s.micro[i], FALSE)
      OBVIOUS
    <3>1. s.micro[i] = t
      BY <1>1, <1>3
    <3> QED BY <1>2, <3>1
  <2>2. Refused(s, wt, dr)
    BY <1>1, <1>3, <2>1 DEF Refused, Free
  <2> QED BY <2>2 DEF Mode
<1>6. Engines(s)
  BY <1>0, <1>1 DEF Engines, Live
<1>7. Line(s, c, dr)
  <2>1. \A w \in Workers : r.awaiting[w] = <<>>
    BY FreeAwaits
  <2> QED BY <1>1, <2>1, LineGrowsMicro DEF micro, t
<1>8. Drain(s, wt, dr)
  BY <1>0, <1>1 DEF Drain
<1>9. Count(s, c, wt, dr, f2)
  <2>1. Slack(r) = 0 /\ Slack(s) = 0
    BY <1>1 DEF Slack, Free
  <2>2. f + Slack(r) <= f2 + Slack(s)
    <3>1. f \in Nat
      BY <1>0, TypedIs
    <3> QED BY <2>1, <3>1
  <2> QED BY <1>0, <1>1, <1>4, <2>2, CountStays
<1> QED BY <1>0, <1>4, <1>5, <1>6, <1>7, <1>8, <1>9 DEF Inv

\* The worker is being loaded: whoever comes waits.
LEMMA AwaitLoadingKeeps ==
    ASSUME NEW r, NEW c, NEW wt, NEW dr, NEW f, NEW who, Turn(r, c, wt, dr, f, who),
           Loading(r, wt, dr), NEW s, AwaitingLoad(r, who, r.promise, s)
    PROVE  Inv(s, c, wt, dr, f)
<1>0. Typed(r, c, wt, dr, f) /\ Engines(r) /\ LineBut(r, c, dr, who) /\ Queue(c, wt, dr)
      /\ Drain(r, wt, dr) /\ Count(r, c, wt, dr, f) /\ r \in Runtimes /\ who \in Calls \cup {None}
  BY DEF Turn, Typed
<1> DEFINE w == r.promise
           awaiting == [r.awaiting EXCEPT ![w] = Append(r.awaiting[w], who)]
<1>1. /\ s.worker = r.worker /\ s.promise = r.promise /\ s.engine = r.engine
      /\ s.fulfilled = r.fulfilled /\ s.pending = r.pending /\ s.awaiting = awaiting
      /\ s.watched = r.watched /\ s.micro = r.micro
  BY DEF AwaitingLoad, Fields
<1>2. w \in Workers /\ w # None /\ r.micro = <<>> /\ w \notin r.fulfilled
  BY Numbers DEF Loading
<1>3. awaiting \in [Workers -> Seq(Calls \cup {None})]
  <2>1. r.awaiting[w] \in Seq(Calls \cup {None})
    BY <1>0, <1>2, TypedIs
  <2>2. Append(r.awaiting[w], who) \in Seq(Calls \cup {None})
    BY <1>0, <2>1
  <2> HIDE DEF w
  <2> QED BY <1>0, <2>2, TypedIs
<1>4. Typed(s, c, wt, dr, f)
  <2>1. Fields(s, r.worker, r.promise, r.status, r.engine, r.quiet, r.fulfilled, r.pending,
               awaiting, r.watched, r.micro)
    BY DEF AwaitingLoad
  <2> HIDE DEF awaiting
  <2>2. s \in Runtimes
    BY <1>0, <1>3, <2>1 DEF Fields, Runtimes
  <2> QED BY <1>0, <2>2 DEF Typed
<1>5. Mode(s, wt, dr)
  <2>1. Loading(s, wt, dr)
    BY <1>1 DEF Loading
  <2> QED BY <2>1 DEF Mode
<1>6. Engines(s)
  BY <1>0, <1>1 DEF Engines, Live
<1>7. Line(s, c, dr)
  <2>1. \A v \in Workers : v # w => r.awaiting[v] = <<>>
    <3> SUFFICES ASSUME NEW v \in Workers, r.awaiting[v] # <<>> PROVE v = w
      OBVIOUS
    <3>1. \A ok : <<Task("load", v, ok)>> # <<>>
      OBVIOUS
    <3> QED BY <1>0, <1>2, <3>1 DEF LineBut
  <2>2. /\ s.awaiting = [r.awaiting EXCEPT ![w] = Append(r.awaiting[w], who)]
        /\ s.micro = <<>> /\ s.promise = w /\ w \notin s.fulfilled
    BY <1>1, <1>2
  <2> HIDE DEF w, awaiting
  <2> QED BY <1>2, <2>1, <2>2, LineGrowsAwaiting
<1>8. Drain(s, wt, dr)
  BY <1>0, <1>1 DEF Drain
<1>9. Count(s, c, wt, dr, f)
  <2>1. f + Slack(r) <= f + Slack(s)
    <3>1. f \in Nat /\ Slack(r) = 1 /\ Slack(s) = 1
      BY <1>0, <1>1, <1>2, TypedIs DEF Slack
    <3> QED BY <3>1
  <2> QED BY <1>0, <1>1, <1>4, <2>1, CountStays
<1> QED BY <1>0, <1>4, <1>5, <1>6, <1>7, <1>8, <1>9 DEF Inv

\* A worker is started for the one who comes.
LEMMA AwaitStartsKeeps ==
    ASSUME NEW r, NEW c, NEW wt, NEW dr, NEW f, NEW who, Turn(r, c, wt, dr, f, who),
           Free(r, wt, dr), NEW k, Started(r, k), k + 1 \in Workers,
           NEW s, AwaitingStart(r, who, k + 1, s)
    PROVE  Inv(s, c, wt, dr, f)
<1>0. Typed(r, c, wt, dr, f) /\ Engines(r) /\ LineBut(r, c, dr, who) /\ Queue(c, wt, dr)
      /\ Drain(r, wt, dr) /\ Count(r, c, wt, dr, f) /\ r \in Runtimes /\ who \in Calls \cup {None}
  BY DEF Turn, Typed
<1> DEFINE w == k + 1
           engine == [r.engine EXCEPT ![w] = "loading"]
           awaiting == [r.awaiting EXCEPT ![w] = Append(r.awaiting[w], who)]
           pending == << <<w, "load">> >>
           status == IF r.status = "ready" THEN r.status ELSE "loading"
           quiet == IF r.status = "ready" THEN r.quiet \cup {w} ELSE r.quiet
<1>1. r.promise = None /\ r.pending = <<>> /\ r.micro = <<>> /\ w \in Workers /\ w # None
      /\ ~(w <= k)
  BY Numbers DEF Free, Started
<1>2. Fields(s, w, w, status, engine, quiet, r.fulfilled, pending, awaiting, r.watched, r.micro)
  <2>1. Append(r.pending, <<w, "load">>) = pending
    BY <1>1
  <2> QED BY <2>1 DEF AwaitingStart
<1>3. r.engine[w] = "none" /\ w \notin r.fulfilled
  BY <1>0, <1>1 DEF Started, Engines
<1>10. \A m \in Nat : Started(r, m) => Started(s, m + 1)
  <2>1. s.engine = engine
    BY <1>2 DEF Fields
  <2> QED BY <1>0, <1>1, <2>1, StartedNext
<1> HIDE DEF w
<1>4. /\ s.worker = w /\ s.promise = w /\ s.engine = engine /\ s.fulfilled = r.fulfilled
      /\ s.pending = pending /\ s.awaiting = awaiting /\ s.watched = r.watched /\ s.micro = <<>>
  BY <1>1, <1>2 DEF Fields
<1>5. /\ \A v \in Workers : v # w => s.engine[v] = r.engine[v]
      /\ s.engine[w] = "loading" /\ engine \in [Workers -> Engine]
  BY <1>0, <1>1, <1>4, TypedIs DEF Engine
<1>6. \A v \in Workers : r.awaiting[v] = <<>>
  BY FreeAwaits
<1>7. awaiting \in [Workers -> Seq(Calls \cup {None})]
  <2>1. Append(r.awaiting[w], who) \in Seq(Calls \cup {None})
    <3>1. r.awaiting[w] \in Seq(Calls \cup {None})
      BY <1>0, <1>1, TypedIs
    <3> QED BY <1>0, <3>1
  <2> QED BY <1>0, <2>1, TypedIs
<1>8. Typed(s, c, wt, dr, f)
  <2>1. pending \in Seq(Workers \X {"load", "render"})
    BY <1>1
  <2>2. status \in Status /\ quiet \in SUBSET Workers
    BY <1>0, <1>1, TypedIs DEF Status
  <2> HIDE DEF engine, pending, awaiting, status, quiet
  <2>3. s \in Runtimes
    BY <1>0, <1>1, <1>2, <1>5, <1>7, <2>1, <2>2 DEF Fields, Runtimes
  <2> QED BY <1>0, <2>3 DEF Typed
<1>9. Mode(s, wt, dr)
  <2>1. Loading(s, wt, dr)
    BY <1>1, <1>3, <1>4 DEF Loading, Free
  <2> QED BY <2>1 DEF Mode
<1>11. Engines(s)
  <2>1. ASSUME NEW v \in Workers, Live(s, v) PROVE v = w
    <3>1. v # w => Live(r, v)
      BY <1>5, <2>1 DEF Live
    <3> QED BY <1>0, <1>1, <3>1, Numbers DEF Engines
  <2>2. ASSUME NEW v \in r.fulfilled PROVE s.engine[v] # "none"
    BY <1>0, <1>3, <1>5, <2>2, TypedIs DEF Engines
  <2> QED BY <1>4, <1>5, <2>1, <2>2 DEF Engines
<1>12. Line(s, c, dr)
  <2>1. /\ s.awaiting = [r.awaiting EXCEPT ![w] = Append(r.awaiting[w], who)]
        /\ s.micro = <<>> /\ s.promise = w /\ w \notin s.fulfilled
    BY <1>3, <1>4
  <2>2. r.micro = <<>> /\ \A v \in Workers : v # w => r.awaiting[v] = <<>>
    BY <1>1, <1>6
  <2>3. w \in Workers
    BY <1>1
  <2> HIDE DEF engine, awaiting, pending, status, quiet
  <2>4. /\ s.awaiting = [r.awaiting EXCEPT ![s.promise] = Append(r.awaiting[s.promise], who)]
        /\ s.promise \in Workers /\ s.promise \notin s.fulfilled
        /\ \A v \in Workers : v # s.promise => r.awaiting[v] = <<>>
    BY <2>1, <2>2, <2>3
  <2>5. Turn(r, c, wt, dr, f, who)
    OBVIOUS
  <2> QED BY ONLY <2>1, <2>2, <2>4, <2>5, LineGrowsAwaiting
<1>13. Drain(s, wt, dr)
  BY <1>0, <1>4 DEF Drain
<1>14. Count(s, c, wt, dr, f)
  <2>1. f + Slack(r) + 1 <= f + Slack(s)
    <3>1. f \in Nat /\ Slack(r) = 0 /\ Slack(s) = 1
      BY <1>0, <1>1, <1>4, TypedIs DEF Slack
    <3> QED BY <3>1
  <2>2. \A n \in Calls : In(dr.job, n) => dr.pc = "ensuring"
    <3>1. dr.pc = "off" => Len(dr.job) = 0
      BY <1>0 DEF Drain
    <3> QED BY <3>1 DEF In, Free
  <2>3. 1 \in {0, 1}
    OBVIOUS
  <2> QED BY <1>0, <1>8, <1>10, <2>1, <2>2, <2>3, CountKeeps
<1> QED BY <1>0, <1>8, <1>9, <1>11, <1>12, <1>13, <1>14 DEF Inv

-----------------------------------------------------------------------------
(***************************************************************************)
(* Microtasks.                                                             *)
(***************************************************************************)
LEMMA TailIs ==
    ASSUME NEW S, NEW q \in Seq(S), q # <<>>
    PROVE  /\ Tail(q) \in Seq(S) /\ Len(q) \in Nat /\ Len(q) >= 1 /\ Len(Tail(q)) = Len(q) - 1
           /\ Head(q) = q[1] /\ q[1] \in S
           /\ \A i \in 1..Len(Tail(q)) : i + 1 \in 1..Len(q) /\ Tail(q)[i] = q[i + 1]
OBVIOUS

\* What is known when the first of the microtasks tells one who waited.
Popped(r, wt, dr, s, t) ==
    /\ t.who \in Calls \cup {None} /\ t.ok \in BOOLEAN
    /\ t.ok => Up(r, dr)
    /\ ~t.ok => Refused(r, wt, dr)
    /\ \A w \in Workers : r.awaiting[w] = <<>>
    /\ \A x : Ensured(r, x) <=> Ensured(s, x) \/ x = t.who
    /\ \A x : Ensured(s, x) => Before(t.who, x)
    /\ \A i, j \in 1..Len(s.micro) :
        i < j /\ s.micro[i].kind = "ensured" /\ s.micro[j].kind = "ensured"
        => Before(s.micro[i].who, s.micro[j].who)

LEMMA EnsuredPopped ==
    ASSUME NEW r, NEW c, NEW wt, NEW dr, NEW f, Inv(r, c, wt, dr, f),
           r.micro # <<>>, Head(r.micro).kind = "ensured", NEW s, s.micro = Tail(r.micro)
    PROVE  Popped(r, wt, dr, s, Head(r.micro))
<1> DEFINE t == Head(r.micro)
           q == r.micro
<1>0. Typed(r, c, wt, dr, f) /\ Line(r, c, dr) /\ Mode(r, wt, dr)
  BY DEF Inv
<1>1. q \in Seq(Micro) /\ q # <<>>
  BY <1>0, TypedIs
<1>2. /\ Tail(q) \in Seq(Micro) /\ Len(q) \in Nat /\ Len(q) >= 1 /\ Len(Tail(q)) = Len(q) - 1
      /\ t = q[1] /\ t \in Micro /\ t.kind = "ensured"
      /\ \A i \in 1..Len(Tail(q)) : i + 1 \in 1..Len(q) /\ Tail(q)[i] = q[i + 1]
  <2> HIDE DEF q
  <2>1. t = Head(q)
    BY DEF q
  <2> HIDE DEF t
  <2>2. t.kind = "ensured"
    BY DEF t
  <2> QED BY <1>1, <2>1, <2>2, TailIs
<1>3. t.who \in Calls \cup {None} /\ t.ok \in BOOLEAN
  <2> HIDE DEF t
  <2> QED BY <1>2, MicroIs
<1>4. Up(r, dr) \/ Refused(r, wt, dr)
  <2>1. ~Resting(r, dr) /\ ~Loading(r, wt, dr)
    BY <1>1 DEF Resting, Loading
  <2>2. \A kind, who, ok : kind # "ensured" => r.micro # <<Task(kind, who, ok)>>
    <3> SUFFICES ASSUME NEW kind, NEW who, NEW ok, kind # "ensured", r.micro = <<Task(kind, who, ok)>>
                 PROVE  FALSE
      OBVIOUS
    <3>1. Head(r.micro).kind = kind
      BY DEF Task
    <3> QED BY <3>1
  <2>3. \A w, ok : ~Told(r, w, ok, wt, dr)
    BY <2>2 DEF Told
  <2>4. \A ok : ~Answered(r, ok, dr) /\ ~Settling(r, ok, dr)
    BY <2>2 DEF Answered, Settling, Over
  <2> QED BY <1>0, <2>1, <2>3, <2>4 DEF Mode
<1>5. (t.ok => Up(r, dr)) /\ (~t.ok => Refused(r, wt, dr))
  <2>0. 1 \in 1..Len(r.micro) /\ r.micro[1] = t
    BY <1>2
  <2>1. ASSUME Up(r, dr) PROVE t.ok = TRUE
    BY <2>0, <2>1 DEF Up, IsEnsured
  <2>2. ASSUME Refused(r, wt, dr) PROVE t.ok = FALSE
    <3>1. IsEnsured(t, FALSE) \/ t = Task("settled", None, FALSE)
      BY <2>0, <2>2 DEF Refused
    <3>2. t # Task("settled", None, FALSE)
      BY <1>2 DEF Task
    <3> QED BY <3>1, <3>2 DEF IsEnsured
  <2> QED BY <1>3, <1>4, <2>1, <2>2
<1>6. \A w \in Workers : r.awaiting[w] = <<>>
  <2> SUFFICES ASSUME NEW w \in Workers, r.awaiting[w] # <<>> PROVE FALSE
    OBVIOUS
  <2>1. PICK ok \in BOOLEAN : r.micro = <<Task("load", w, ok)>>
    BY <1>0, <1>1 DEF Line
  <2>2. Head(r.micro).kind = "load"
    BY <2>1 DEF Task
  <2> QED BY <2>2
<1>7. s.micro = Tail(q) /\ Len(s.micro) = Len(q) - 1
      /\ \A i \in 1..Len(s.micro) : i + 1 \in 1..Len(q) /\ s.micro[i] = q[i + 1]
  BY <1>2
<1>8. \A i, j \in 1..Len(q) :
        i < j /\ q[i].kind = "ensured" /\ q[j].kind = "ensured" => Before(q[i].who, q[j].who)
  BY <1>0 DEF Line
<1>9. ASSUME NEW x PROVE Ensured(r, x) <=> (Ensured(s, x) \/ x = t.who)
  <2>1. ASSUME Ensured(s, x) PROVE Ensured(r, x)
    <3>1. PICK i \in 1..Len(s.micro) : s.micro[i].kind = "ensured" /\ s.micro[i].who = x
      BY <2>1 DEF Ensured
    <3>2. i + 1 \in 1..Len(q) /\ q[i + 1].kind = "ensured" /\ q[i + 1].who = x
      BY <1>7, <3>1
    <3> QED BY <3>2 DEF Ensured
  <2>2. Ensured(r, t.who)
    <3>1. 1 \in 1..Len(q) /\ q[1].kind = "ensured" /\ q[1].who = t.who
      BY <1>2
    <3> QED BY <3>1 DEF Ensured
  <2>3. ASSUME Ensured(r, x), x # t.who PROVE Ensured(s, x)
    <3>1. PICK i \in 1..Len(q) : q[i].kind = "ensured" /\ q[i].who = x
      BY <2>3 DEF Ensured
    <3>2. i # 1
      BY <1>2, <2>3, <3>1
    <3>3. i - 1 \in 1..Len(s.micro) /\ (i - 1) + 1 = i
      <4> HIDE DEF q
      <4>1. i \in Nat
        BY <1>2
      <4> QED BY <1>2, <1>7, <3>1, <3>2, <4>1
    <3>4. s.micro[i - 1] = q[i]
      BY <1>7, <3>3
    <3> QED BY <3>1, <3>3, <3>4 DEF Ensured
  <2> QED BY <2>1, <2>2, <2>3
<1>10. ASSUME NEW x, Ensured(s, x) PROVE Before(t.who, x)
  <2>1. PICK i \in 1..Len(s.micro) : s.micro[i].kind = "ensured" /\ s.micro[i].who = x
    BY <1>10 DEF Ensured
  <2>2. i + 1 \in 1..Len(q) /\ q[i + 1].kind = "ensured" /\ q[i + 1].who = x /\ 1 < i + 1
        /\ 1 \in 1..Len(q)
    BY <1>2, <1>7, <2>1
  <2>3. Before(q[1].who, q[i + 1].who)
    BY <1>2, <1>8, <2>2
  <2> QED BY <1>2, <2>2, <2>3
<1>11. \A i, j \in 1..Len(s.micro) :
        i < j /\ s.micro[i].kind = "ensured" /\ s.micro[j].kind = "ensured"
        => Before(s.micro[i].who, s.micro[j].who)
  <2> SUFFICES ASSUME NEW i \in 1..Len(s.micro), NEW j \in 1..Len(s.micro), i < j,
                      s.micro[i].kind = "ensured", s.micro[j].kind = "ensured"
               PROVE  Before(s.micro[i].who, s.micro[j].who)
    OBVIOUS
  <2>1. /\ i + 1 \in 1..Len(q) /\ s.micro[i] = q[i + 1]
        /\ j + 1 \in 1..Len(q) /\ s.micro[j] = q[j + 1] /\ i + 1 < j + 1
    BY <1>7
  <2> HIDE DEF q
  <2> QED BY <1>8, <2>1
<1> HIDE DEF t
<1>12. Popped(r, wt, dr, s, t)
  BY <1>3, <1>5, <1>6, <1>9, <1>10, <1>11 DEF Popped
<1> QED BY <1>12 DEF t

LEMMA AppendIs ==
    ASSUME NEW S, NEW q \in Seq(S), NEW x \in S
    PROVE  /\ Append(q, x) \in Seq(S) /\ Len(q) \in Nat /\ Len(Append(q, x)) = Len(q) + 1
           /\ Append(q, x)[Len(q) + 1] = x
           /\ \A i \in 1..Len(q) : Append(q, x)[i] = q[i] /\ q[i] \in S
OBVIOUS

LEMMA InAppend ==
    ASSUME NEW S, NEW q \in Seq(S), NEW x \in S, NEW y
    PROVE  In(Append(q, x), y) <=> (In(q, y) \/ y = x)
<1> DEFINE a == Append(q, x)
<1>1. /\ Len(q) \in Nat /\ Len(a) = Len(q) + 1 /\ a[Len(q) + 1] = x
      /\ \A i \in 1..Len(q) : a[i] = q[i]
  BY AppendIs
<1> HIDE DEF a
<1>2. ASSUME In(a, y), y # x PROVE In(q, y)
  <2>1. PICK i \in 1..(Len(q) + 1) : a[i] = y
    BY <1>1, <1>2 DEF In
  <2>2. i \in 1..Len(q)
    BY <1>1, <1>2, <2>1
  <2> QED BY <1>1, <2>1, <2>2 DEF In
<1>3. In(a, x)
  <2>1. Len(q) + 1 \in 1..Len(a)
    BY <1>1
  <2> QED BY <1>1, <2>1 DEF In
<1>4. ASSUME In(q, y) PROVE In(a, y)
  <2>1. PICK i \in 1..Len(q) : q[i] = y
    BY <1>4 DEF In
  <2>2. i \in 1..Len(a) /\ a[i] = y
    BY <1>1, <2>1
  <2> QED BY <2>2 DEF In
<1> QED BY <1>2, <1>3, <1>4 DEF a

LEMMA TailEnsured ==
    ASSUME NEW q \in Seq(Micro), q # <<>>, NEW ok,
           \A i \in 1..Len(q) : IsEnsured(q[i], ok)
    PROVE  /\ Tail(q) \in Seq(Micro)
           /\ \A i \in 1..Len(Tail(q)) : IsEnsured(Tail(q)[i], ok)
           /\ Tail(q) # <<>> => Head(Tail(q)).kind = "ensured"
<1> DEFINE p == Tail(q)
<1>1. p \in Seq(Micro) /\ \A i \in 1..Len(p) : i + 1 \in 1..Len(q) /\ p[i] = q[i + 1]
  BY TailIs
<1> HIDE DEF p
<1>2. \A i \in 1..Len(p) : IsEnsured(p[i], ok)
  <2> SUFFICES ASSUME NEW i \in 1..Len(p) PROVE IsEnsured(p[i], ok)
    OBVIOUS
  <2>1. p[i] = q[i + 1] /\ i + 1 \in 1..Len(q)
    BY <1>1
  <2> QED BY <2>1
<1>3. p # <<>> => Head(p) = p[1] /\ 1 \in 1..Len(p)
  BY <1>1
<1>4. p # <<>> => Head(p).kind = "ensured"
  BY <1>2, <1>3 DEF IsEnsured
<1> QED BY <1>1, <1>2, <1>4 DEF p

\* A call comes to another place.
Moved(c, n, pc, c2) ==
    /\ c2 \in CallStates /\ c2[n].pc = pc
    /\ \A m \in Calls : m # n => c2[m].pc = c[m].pc

LEMMA MovedIs ==
    ASSUME NEW c \in CallStates, NEW n \in Calls,
           NEW pc \in {"none", "ensuring", "queued", "resolved", "rejected", "over"}
    PROVE  Moved(c, n, pc, [c EXCEPT ![n].pc = pc])
<1> DEFINE c2 == [c EXCEPT ![n] = [pc |-> pc, input |-> c[n].input, result |-> c[n].result]]
<1>1. c[n] \in [pc: {"none", "ensuring", "queued", "resolved", "rejected", "over"},
                input: Inputs, result: Inputs]
  BY DEF CallStates
<1>2. [c[n] EXCEPT !.pc = pc] = [pc |-> pc, input |-> c[n].input, result |-> c[n].result]
  BY <1>1
<1>3. [c EXCEPT ![n].pc = pc] = c2
  BY <1>2
<1>4. c2 \in CallStates /\ c2[n].pc = pc /\ \A m \in Calls : m # n => c2[m] = c[m]
  BY <1>1 DEF CallStates
<1> QED BY <1>3, <1>4 DEF Moved

\* A call is told that its engine is there.
CallPopped(r, c, dr, f, n, c2, s) ==
    /\ s.worker = r.worker /\ s.promise = r.promise /\ s.engine = r.engine
    /\ s.fulfilled = r.fulfilled /\ s.pending = r.pending /\ s.awaiting = r.awaiting
    /\ s.watched = r.watched /\ s \in Runtimes /\ Up(r, dr)
    /\ \A i \in 1..Len(s.micro) : IsEnsured(s.micro[i], TRUE)
    /\ \A w \in Workers : s.awaiting[w] = <<>>
    /\ \A m \in Calls : c2[m].pc = "ensuring" <=> Ensured(s, m)
    /\ \A x : ~Awaits(s, x)
    /\ dr.pc = "ensuring" <=> Ensured(s, None)
    /\ \A i, j \in 1..Len(s.micro) :
        i < j /\ s.micro[i].kind = "ensured" /\ s.micro[j].kind = "ensured"
        => Before(s.micro[i].who, s.micro[j].who)
    /\ c[n].pc = "ensuring"
    /\ \A m \in Calls : c[m].pc = "queued" => m < n
    /\ \A m \in Calls : c[m].pc = "ensuring" /\ m # n => n < m
    /\ \A k \in Nat : Started(r, k) => Started(s, k + 0)
    /\ f + Slack(r) + 0 <= f + Slack(s)

LEMMA CallIsTold ==
    ASSUME NEW r, NEW c, NEW wt, NEW dr, NEW f, Inv(r, c, wt, dr, f), r.micro # <<>>,
           Head(r.micro).kind = "ensured", Head(r.micro).ok = TRUE,
           NEW n \in Calls, Head(r.micro).who = n, NEW c2, Moved(c, n, "queued", c2),
           NEW s, s = Ran(r)
    PROVE  CallPopped(r, c, dr, f, n, c2, s)
<1>0. Typed(r, c, wt, dr, f) /\ Line(r, c, dr) /\ Queue(c, wt, dr) /\ r \in Runtimes
  BY DEF Inv, Typed
<1>1. /\ Fields(s, r.worker, r.promise, r.status, r.engine, r.quiet, r.fulfilled,
                r.pending, r.awaiting, r.watched, Tail(r.micro))
      /\ s.worker = r.worker /\ s.promise = r.promise /\ s.engine = r.engine
      /\ s.fulfilled = r.fulfilled /\ s.pending = r.pending /\ s.awaiting = r.awaiting
      /\ s.watched = r.watched /\ s.micro = Tail(r.micro)
  BY <1>0, RanIs DEF Fields
<1>2. /\ n # None /\ Up(r, dr)
      /\ \A w \in Workers : r.awaiting[w] = <<>>
      /\ \A x : Ensured(r, x) <=> Ensured(s, x) \/ x = n
      /\ \A x : Ensured(s, x) => Before(n, x)
      /\ \A i, j \in 1..Len(s.micro) :
            i < j /\ s.micro[i].kind = "ensured" /\ s.micro[j].kind = "ensured"
            => Before(s.micro[i].who, s.micro[j].who)
  <2>1. Popped(r, wt, dr, s, Head(r.micro))
    BY <1>1, EnsuredPopped
  <2> QED BY <2>1, Numbers DEF Popped
<1>3. /\ Tail(r.micro) \in Seq(Micro)
      /\ \A i \in 1..Len(s.micro) : IsEnsured(s.micro[i], TRUE)
      /\ s.micro # <<>> => Head(s.micro).kind = "ensured"
  <2> DEFINE q == r.micro
  <2>1. q \in Seq(Micro) /\ q # <<>> /\ s.micro = Tail(q)
    BY <1>0, <1>1, TypedIs
  <2>2. \A i \in 1..Len(q) : IsEnsured(q[i], TRUE)
    BY <1>2 DEF Up
  <2> HIDE DEF q
  <2>3. /\ Tail(q) \in Seq(Micro)
        /\ \A i \in 1..Len(Tail(q)) : IsEnsured(Tail(q)[i], TRUE)
        /\ Tail(q) # <<>> => Head(Tail(q)).kind = "ensured"
    BY <2>1, <2>2, TailEnsured
  <2> QED BY <2>1, <2>3 DEF q
<1>4. c2 \in CallStates /\ c2[n].pc = "queued" /\ \A m \in Calls : m # n => c2[m].pc = c[m].pc
  BY DEF Moved
<1>5. /\ c[n].pc = "ensuring" /\ ~Ensured(s, n)
      /\ \A m \in Calls : c[m].pc = "queued" => m < n
      /\ \A m \in Calls : c[m].pc = "ensuring" /\ m # n => n < m
  <2>0. \A x : ~Awaits(r, x)
    BY <1>2 DEF Awaits
  <2>1. c[n].pc = "ensuring"
    BY <1>0, <1>2 DEF Line
  <2>2. \A m \in Calls : c[m].pc = "queued" => m < n
    BY <1>0, <2>1 DEF Queue
  <2>3. ASSUME NEW m \in Calls, Ensured(s, m) PROVE n < m
    <3>1. Before(n, m)
      BY <1>2, <2>3
    <3> QED BY <3>1, Numbers DEF Before
  <2>4. ~Ensured(s, n)
    BY <2>3, Numbers
  <2>5. ASSUME NEW m \in Calls, c[m].pc = "ensuring", m # n PROVE n < m
    <3>1. Ensured(r, m)
      BY <1>0, <2>0, <2>5 DEF Line
    <3> QED BY <1>2, <2>3, <2>5, <3>1
  <2> QED BY <2>1, <2>2, <2>4, <2>5
<1>6. /\ \A m \in Calls : c2[m].pc = "ensuring" <=> Ensured(s, m)
      /\ dr.pc = "ensuring" <=> Ensured(s, None)
      /\ \A x : ~Awaits(s, x)
  <2>1. \A x : ~Awaits(s, x) /\ ~Awaits(r, x)
    BY <1>1, <1>2 DEF Awaits
  <2>2. ASSUME NEW m \in Calls PROVE c2[m].pc = "ensuring" <=> Ensured(s, m)
    <3>1. c[m].pc = "ensuring" <=> Ensured(r, m)
      BY <1>0, <2>1 DEF Line
    <3> QED BY <1>2, <1>4, <1>5, <3>1
  <2>3. dr.pc = "ensuring" <=> Ensured(s, None)
    <3>1. dr.pc = "ensuring" <=> Ensured(r, None)
      BY <1>0, <2>1 DEF Line
    <3> QED BY <1>2, <3>1
  <2> QED BY <2>1, <2>2, <2>3
<1>7. /\ \A k \in Nat : Started(r, k) => Started(s, k + 0)
      /\ f + Slack(r) + 0 <= f + Slack(s)
  <2>1. \A k \in Nat : Started(r, k) => Started(s, k + 0)
    <3> SUFFICES ASSUME NEW k \in Nat, Started(r, k) PROVE Started(s, k)
      OBVIOUS
    <3> QED BY <1>1 DEF Started
  <2>2. f + Slack(r) + 0 <= f + Slack(s)
    <3>1. r.promise # None
      BY <1>2, Numbers DEF Up
    <3>3. Slack(s) = 1
      BY <1>1, <1>3, <3>1 DEF Slack
    <3>4. f \in Nat /\ Slack(r) \in Nat /\ Slack(r) <= 1
      BY <1>0, TypedIs DEF Slack
    <3> QED BY <3>3, <3>4
  <2> QED BY <2>1, <2>2
<1>8. s \in Runtimes
  BY <1>0, <1>1, <1>3 DEF Fields, Runtimes
<1>9. \A w \in Workers : s.awaiting[w] = <<>>
  BY <1>1, <1>2
<1>10. /\ s.worker = r.worker /\ s.promise = r.promise /\ s.engine = r.engine
       /\ s.fulfilled = r.fulfilled /\ s.pending = r.pending /\ s.awaiting = r.awaiting
       /\ s.watched = r.watched
  BY <1>1
<1>11. /\ Up(r, dr)
       /\ \A i \in 1..Len(s.micro) : IsEnsured(s.micro[i], TRUE)
       /\ \A i, j \in 1..Len(s.micro) :
            i < j /\ s.micro[i].kind = "ensured" /\ s.micro[j].kind = "ensured"
            => Before(s.micro[i].who, s.micro[j].who)
  BY <1>2, <1>3
<1>12. /\ c[n].pc = "ensuring"
       /\ \A m \in Calls : c[m].pc = "queued" => m < n
       /\ \A m \in Calls : c[m].pc = "ensuring" /\ m # n => n < m
  BY <1>5
<1> QED BY <1>6, <1>7, <1>8, <1>9, <1>10, <1>11, <1>12 DEF CallPopped

\* A call whose engine is there waits for the render that is under way.
LEMMA CallQueuedKeeps ==
    ASSUME NEW r, NEW c, NEW wt, NEW dr, NEW f, Inv(r, c, wt, dr, f), r.micro # <<>>,
           Head(r.micro).kind = "ensured", Head(r.micro).ok = TRUE, dr.pc # "off",
           NEW n \in Calls, Head(r.micro).who = n, NEW c2, Moved(c, n, "queued", c2),
           NEW s, s = Ran(r)
    PROVE  Inv(s, c2, Append(wt, n), dr, f)
<1>0. Typed(r, c, wt, dr, f) /\ Engines(r) /\ Line(r, c, dr) /\ Queue(c, wt, dr)
      /\ Drain(r, wt, dr) /\ Count(r, c, wt, dr, f) /\ r \in Runtimes /\ wt \in Seq(Calls)
      /\ dr.job \in Seq(Calls)
  BY TypedIs DEF Inv, Typed
<1> DEFINE wt2 == Append(wt, n)
<1>1. CallPopped(r, c, dr, f, n, c2, s)
  BY CallIsTold
<1>4. /\ wt2 \in Seq(Calls) /\ Len(wt) \in Nat /\ Len(wt2) = Len(wt) + 1 /\ wt2[Len(wt) + 1] = n
      /\ \A i \in 1..Len(wt) : wt2[i] = wt[i] /\ wt[i] \in Calls
      /\ \A x : In(wt2, x) <=> (In(wt, x) \/ x = n)
  BY <1>0, AppendIs, InAppend
<1> HIDE DEF wt2
<1>5. c2 \in CallStates /\ c2[n].pc = "queued" /\ \A m \in Calls : m # n => c2[m].pc = c[m].pc
  BY DEF Moved
<1>7. Typed(s, c2, wt2, dr, f)
  <2>1. s \in Runtimes
    BY <1>1 DEF CallPopped
  <2> QED BY <1>0, <1>4, <1>5, <2>1 DEF Typed
<1>8. Mode(s, wt2, dr)
  <2>1. Up(s, dr)
    BY <1>1 DEF Up, CallPopped
  <2> QED BY <2>1 DEF Mode
<1>9. Engines(s)
  BY <1>0, <1>1 DEF Engines, Live, CallPopped
<1>10. Line(s, c2, dr)
  BY <1>1 DEF CallPopped, Line
<1>11. Queue(c2, wt2, dr)
  <2>1. \A m \in Calls : c2[m].pc = "queued" <=> (In(wt2, m) \/ In(dr.job, m))
    <3> SUFFICES ASSUME NEW m \in Calls PROVE c2[m].pc = "queued" <=> (In(wt2, m) \/ In(dr.job, m))
      OBVIOUS
    <3>1. c[m].pc = "queued" <=> (In(wt, m) \/ In(dr.job, m))
      BY <1>0 DEF Queue
    <3> QED BY <1>4, <1>5, <3>1
  <2>2. \A m \in Calls : In(wt, m) \/ In(dr.job, m) => m < n
    BY <1>0, <1>1 DEF Queue, CallPopped
  <2>3. \A i \in 1..Len(wt) : wt[i] < n
    BY <1>4, <2>2 DEF In
  <2>4. \A i \in 1..Len(dr.job) : dr.job[i] < n
    <3>1. \A i \in 1..Len(dr.job) : dr.job[i] \in Calls
      BY <1>0
    <3> QED BY <2>2, <3>1 DEF In
  <2>5. \A i, j \in 1..Len(wt2) : i < j => wt2[i] < wt2[j]
    <3> SUFFICES ASSUME NEW i \in 1..Len(wt2), NEW j \in 1..Len(wt2), i < j PROVE wt2[i] < wt2[j]
      OBVIOUS
    <3>0. \A a, b \in 1..Len(wt) : a < b => wt[a] < wt[b]
      BY <1>0 DEF Queue
    <3>1. i \in 1..Len(wt) /\ (j \in 1..Len(wt) \/ j = Len(wt) + 1)
      BY <1>4
    <3> QED BY <1>4, <2>3, <3>0, <3>1
  <2>6. \A i \in 1..Len(dr.job), j \in 1..Len(wt2) : dr.job[i] < wt2[j]
    <3> SUFFICES ASSUME NEW i \in 1..Len(dr.job), NEW j \in 1..Len(wt2) PROVE dr.job[i] < wt2[j]
      OBVIOUS
    <3>0. \A a \in 1..Len(dr.job), b \in 1..Len(wt) : dr.job[a] < wt[b]
      BY <1>0 DEF Queue
    <3>1. j \in 1..Len(wt) \/ j = Len(wt) + 1
      BY <1>4
    <3> QED BY <1>4, <2>4, <3>0, <3>1
  <2>7. \A m, p \in Calls : c2[m].pc = "queued" /\ c2[p].pc = "ensuring" => m < p
    <3> SUFFICES ASSUME NEW m \in Calls, NEW p \in Calls, c2[m].pc = "queued", c2[p].pc = "ensuring"
                 PROVE  m < p
      OBVIOUS
    <3>1. p # n /\ c[p].pc = "ensuring"
      BY <1>5
    <3>2. m # n => c[m].pc = "queued"
      BY <1>5
    <3> QED BY <1>0, <1>1, <3>1, <3>2 DEF Queue, CallPopped
  <2>8. \A m, p \in Calls : c2[m].pc = "none" /\ c2[p].pc # "none" => p < m
    <3>1. \A m, p \in Calls : c[m].pc = "none" /\ c[p].pc # "none" => p < m
      BY <1>0 DEF Queue
    <3> QED BY <1>5, <1>1, <3>1 DEF CallPopped
  <2>9. \A i, j \in 1..Len(dr.job) : i < j => dr.job[i] < dr.job[j]
    BY <1>0 DEF Queue
  <2> QED BY <2>1, <2>5, <2>6, <2>7, <2>8, <2>9 DEF Queue
<1>12. Drain(s, wt2, dr)
  BY <1>0, <1>1 DEF Drain, CallPopped
<1>13. Count(s, c2, wt2, dr, f)
  <2>1. /\ \A k \in Nat : Started(r, k) => Started(s, k + 0)
        /\ f + Slack(r) + 0 <= f + Slack(s)
    BY <1>1 DEF CallPopped
  <2>3. \A m \in Calls : c2[m].pc \in {"none", "ensuring"} => c[m].pc \in {"none", "ensuring"}
    BY <1>5
  <2>4. \A m \in Calls : In(wt2, m) => In(wt, m) \/ c[m].pc = "ensuring"
    BY <1>1, <1>4 DEF CallPopped
  <2>5. 0 \in {0, 1}
    OBVIOUS
  <2>2. s.pending = r.pending
    BY <1>1 DEF CallPopped
  <2> QED BY <1>0, <1>7, <2>1, <2>2, <2>3, <2>4, <2>5, CountKeeps
<1> QED BY <1>7, <1>8, <1>9, <1>10, <1>11, <1>12, <1>13 DEF Inv, wt2
\* A call whose engine is there, and for which the drain loop is started.
LEMMA CallDrainKeeps ==
    ASSUME NEW r, NEW c, NEW wt, NEW dr, NEW f, Inv(r, c, wt, dr, f), r.micro # <<>>,
           Head(r.micro).kind = "ensured", Head(r.micro).ok = TRUE, dr.pc = "off",
           NEW n \in Calls, Head(r.micro).who = n, NEW c2, Moved(c, n, "queued", c2),
           NEW s, s = Ran(r), NEW dr2, dr2 = [pc |-> "ensuring", job |-> <<n>>]
    PROVE  Turn(s, c2, <<>>, dr2, f, None) /\ Up(s, dr2)
<1>0. Typed(r, c, wt, dr, f) /\ Engines(r) /\ Queue(c, wt, dr)
      /\ Drain(r, wt, dr) /\ Count(r, c, wt, dr, f)
  BY TypedIs DEF Inv
<1>1. CallPopped(r, c, dr, f, n, c2, s)
  BY CallIsTold
<1>2. wt = <<>> /\ dr.job = <<>> /\ r.watched = FALSE
  <2>1. r.watched \in BOOLEAN
    BY <1>0, TypedIs
  <2> QED BY <1>0, <2>1 DEF Drain
<1>3. \A x : ~In(wt, x) /\ ~In(dr.job, x) /\ ~In(<<>>, x)
  BY <1>2 DEF In
<1>4. /\ dr2.pc = "ensuring" /\ dr2.job = <<n>> /\ dr2.job # <<>> /\ dr2 \in Drains
      /\ Len(dr2.job) = 1 /\ dr2.job[1] = n
      /\ \A x : In(dr2.job, x) <=> x = n
  <2>1. Len(<<n>>) = 1 /\ <<n>>[1] = n /\ <<n>> # <<>>
    OBVIOUS
  <2> QED BY <2>1 DEF Drains, In
<1>5. c2 \in CallStates /\ c2[n].pc = "queued" /\ \A m \in Calls : m # n => c2[m].pc = c[m].pc
  BY DEF Moved
<1>6. Typed(s, c2, <<>>, dr2, f)
  BY <1>0, <1>1, <1>4, <1>5 DEF CallPopped, Typed
<1>7. Engines(s)
  BY <1>0, <1>1 DEF Engines, Live, CallPopped
<1>8. LineBut(s, c2, dr2, None)
  <2>1. \A m \in Calls : c2[m].pc = "ensuring" <=> (Awaits(s, m) \/ Ensured(s, m))
    BY <1>1 DEF CallPopped
  <2>2. \A x \in Calls \cup {None} : Awaits(s, x) \/ Ensured(s, x) => Before(x, None)
    BY <1>1 DEF CallPopped, Before
  <2>3. \A w \in Workers : s.awaiting[w] = <<>>
    BY <1>1 DEF CallPopped
  <2>4. \A i, j \in 1..Len(s.micro) :
        i < j /\ s.micro[i].kind = "ensured" /\ s.micro[j].kind = "ensured"
        => Before(s.micro[i].who, s.micro[j].who)
    BY <1>1 DEF CallPopped
  <2> QED BY <2>1, <2>2, <2>3, <2>4 DEF LineBut
<1>9. Queue(c2, <<>>, dr2)
  <2>1. ASSUME NEW m \in Calls PROVE c2[m].pc = "queued" <=> (In(<<>>, m) \/ In(dr2.job, m))
    <3>1. c[m].pc # "queued"
      BY <1>0, <1>3 DEF Queue
    <3> QED BY <1>3, <1>4, <1>5, <3>1
  <2>2. \A i, j \in 1..Len(dr2.job) : i < j => dr2.job[i] < dr2.job[j]
    BY <1>4
  <2>3. ASSUME NEW m \in Calls, NEW p \in Calls, c2[m].pc = "queued", c2[p].pc = "ensuring"
        PROVE  m < p
    <3>1. p # n /\ c[p].pc = "ensuring"
      BY <1>5, <2>3
    <3>2. m = n
      BY <1>3, <1>4, <2>1, <2>3
    <3> QED BY <1>1, <3>1, <3>2 DEF CallPopped
  <2>4. \A m, p \in Calls : c2[m].pc = "none" /\ c2[p].pc # "none" => p < m
    <3>1. \A m, p \in Calls : c[m].pc = "none" /\ c[p].pc # "none" => p < m
      BY <1>0 DEF Queue
    <3> QED BY <1>1, <1>5, <3>1 DEF CallPopped
  <2> QED BY <2>1, <2>2, <2>3, <2>4 DEF Queue
<1>10. Drain(s, <<>>, dr2)
  BY <1>1, <1>2, <1>4 DEF Drain, CallPopped
<1>11. Count(s, c2, <<>>, dr2, f)
  <2>1. /\ \A k \in Nat : Started(r, k) => Started(s, k + 0)
        /\ f + Slack(r) + 0 <= f + Slack(s)
    BY <1>1 DEF CallPopped
  <2>2. \A m \in Calls : c2[m].pc \in {"none", "ensuring"} => c[m].pc \in {"none", "ensuring"}
    BY <1>5
  <2>3. \A m \in Calls : In(dr2.job, m) => c[m].pc = "ensuring"
    BY <1>1, <1>4 DEF CallPopped
  <2>4. 0 \in {0, 1} /\ \A m \in Calls : ~In(<<>>, m)
    BY <1>3
  <2> QED BY <1>0, <1>6, <2>1, <2>2, <2>3, <2>4, CountKeeps
<1>12. Up(s, dr2)
  BY <1>1, <1>4 DEF Up, CallPopped
<1> QED BY <1>4, <1>6, <1>7, <1>8, <1>9, <1>10, <1>11, <1>12 DEF Turn

\* A call whose engine could not be had.
LEMMA CallRejectedKeeps ==
    ASSUME NEW r, NEW c, NEW wt, NEW dr, NEW f, Inv(r, c, wt, dr, f), r.micro # <<>>,
           Head(r.micro).kind = "ensured", Head(r.micro).ok = FALSE,
           NEW n \in Calls, Head(r.micro).who = n, NEW c2, Moved(c, n, "rejected", c2),
           NEW s, s = Ran(r)
    PROVE  Inv(s, c2, wt, dr, f)
<1>0. Typed(r, c, wt, dr, f) /\ Engines(r) /\ Line(r, c, dr) /\ Queue(c, wt, dr)
      /\ Drain(r, wt, dr) /\ Count(r, c, wt, dr, f) /\ r \in Runtimes
  BY TypedIs DEF Inv, Typed
<1>1. /\ Fields(s, r.worker, r.promise, r.status, r.engine, r.quiet, r.fulfilled,
                r.pending, r.awaiting, r.watched, Tail(r.micro))
      /\ s.worker = r.worker /\ s.promise = r.promise /\ s.engine = r.engine /\ s.status = r.status
      /\ s.fulfilled = r.fulfilled /\ s.pending = r.pending /\ s.awaiting = r.awaiting
      /\ s.watched = r.watched /\ s.micro = Tail(r.micro)
  BY <1>0, RanIs DEF Fields
<1>2. /\ n # None /\ Refused(r, wt, dr)
      /\ \A w \in Workers : r.awaiting[w] = <<>>
      /\ \A x : Ensured(r, x) <=> Ensured(s, x) \/ x = n
      /\ \A x : Ensured(s, x) => Before(n, x)
      /\ \A i, j \in 1..Len(s.micro) :
            i < j /\ s.micro[i].kind = "ensured" /\ s.micro[j].kind = "ensured"
            => Before(s.micro[i].who, s.micro[j].who)
  <2>1. Popped(r, wt, dr, s, Head(r.micro))
    BY <1>1, EnsuredPopped
  <2> QED BY <2>1, Numbers DEF Popped
<1>3. /\ s.micro \in Seq(Micro) /\ Len(r.micro) \in Nat /\ Len(r.micro) >= 1
      /\ Len(s.micro) = Len(r.micro) - 1 /\ Head(r.micro) = r.micro[1]
      /\ \A i \in 1..Len(s.micro) : i + 1 \in 1..Len(r.micro) /\ s.micro[i] = r.micro[i + 1]
  <2> DEFINE q == r.micro
  <2>1. q \in Seq(Micro) /\ q # <<>> /\ s.micro = Tail(q)
    BY <1>0, <1>1, TypedIs
  <2> HIDE DEF q
  <2>2. /\ Tail(q) \in Seq(Micro) /\ Len(q) \in Nat /\ Len(q) >= 1 /\ Len(Tail(q)) = Len(q) - 1
        /\ Head(q) = q[1]
        /\ \A i \in 1..Len(Tail(q)) : i + 1 \in 1..Len(q) /\ Tail(q)[i] = q[i + 1]
    BY <2>1, TailIs
  <2> QED BY <2>1, <2>2 DEF q
<1>4. c2 \in CallStates /\ c2[n].pc = "rejected" /\ \A m \in Calls : m # n => c2[m].pc = c[m].pc
  BY DEF Moved
<1>5. /\ c[n].pc = "ensuring" /\ ~Ensured(s, n) /\ \A x : ~Awaits(s, x) /\ ~Awaits(r, x)
  <2>1. \A x : ~Awaits(r, x) /\ ~Awaits(s, x)
    BY <1>1, <1>2 DEF Awaits
  <2>2. c[n].pc = "ensuring"
    BY <1>0, <1>2 DEF Line
  <2>3. ~Ensured(s, n)
    <3>1. ~Before(n, n)
      BY <1>2, Numbers DEF Before
    <3> QED BY <1>2, <3>1
  <2> QED BY <2>1, <2>2, <2>3
<1>6. Typed(s, c2, wt, dr, f)
  <2>1. s \in Runtimes
    BY <1>0, <1>1, <1>3 DEF Fields, Runtimes
  <2> QED BY <1>0, <1>4, <2>1 DEF Typed
<1>7. Line(s, c2, dr)
  <2>2. ASSUME NEW m \in Calls PROVE c2[m].pc = "ensuring" <=> (Awaits(s, m) \/ Ensured(s, m))
    <3>1. c[m].pc = "ensuring" <=> Ensured(r, m)
      BY <1>0, <1>5 DEF Line
    <3> QED BY <1>2, <1>4, <1>5, <3>1
  <2>3. dr.pc = "ensuring" <=> (Awaits(s, None) \/ Ensured(s, None))
    <3>1. dr.pc = "ensuring" <=> Ensured(r, None)
      BY <1>0, <1>5 DEF Line
    <3> QED BY <1>2, <1>5, <3>1
  <2>4. \A w \in Workers : s.awaiting[w] = <<>>
    BY <1>1, <1>2
  <2> QED BY <1>2, <2>2, <2>3, <2>4 DEF Line
<1>8. Mode(s, wt, dr)
  <2> DEFINE last == Len(r.micro)
             over == Task("settled", None, FALSE)
  <2>1. /\ r.promise = None /\ r.pending = <<>> /\ r.status = "failed"
        /\ wt = <<>> /\ dr.pc \in {"off", "ensuring", "settling"}
        /\ dr.pc = "settling" => r.micro[last] = over
        /\ \A i \in 1..last : \/ IsEnsured(r.micro[i], FALSE)
                              \/ dr.pc = "settling" /\ i = last /\ r.micro[i] = over
    BY <1>2 DEF Refused
  <2>2. last \in Nat /\ last >= 1 /\ Len(s.micro) = last - 1
    BY <1>3
  <2>3. CASE last = 1
    <3>1. s.micro = <<>>
      BY <1>3, <2>2, <2>3
    <3>2. dr.pc # "settling"
      <4>1. r.micro[1].kind = "ensured" /\ over.kind = "settled"
        BY <1>3 DEF Task
      <4> QED BY <2>1, <2>3, <4>1
    <3>3. dr.pc # "ensuring"
      <4>1. ~Ensured(s, None)
        BY <3>1 DEF Ensured
      <4> QED BY <1>5, <1>7, <4>1 DEF Line
    <3>4. Resting(s, dr)
      BY <1>1, <2>1, <3>1, <3>2, <3>3 DEF Resting
    <3> QED BY <3>4 DEF Mode
  <2>4. CASE last > 1
    <3> HIDE DEF last, over
    <3>1. s.micro # <<>>
      BY <1>3, <2>2, <2>4
    <3>2. ASSUME NEW i \in 1..Len(s.micro)
          PROVE  \/ IsEnsured(s.micro[i], FALSE)
                 \/ dr.pc = "settling" /\ i = Len(s.micro) /\ s.micro[i] = over
      <4>1. i + 1 \in 1..last /\ s.micro[i] = r.micro[i + 1]
        BY <1>3 DEF last
      <4>2. \/ IsEnsured(r.micro[i + 1], FALSE)
            \/ dr.pc = "settling" /\ i + 1 = last /\ r.micro[i + 1] = over
        BY <2>1, <4>1
      <4>3. i + 1 = last => i = Len(s.micro)
        BY <2>2
      <4> QED BY <4>1, <4>2, <4>3
    <3>3. dr.pc = "settling" => s.micro[Len(s.micro)] = over
      <4>1. Len(s.micro) \in 1..Len(s.micro) /\ Len(s.micro) + 1 = last
        BY <2>2, <2>4
      <4>2. s.micro[Len(s.micro)] = r.micro[Len(s.micro) + 1]
        BY <1>3, <4>1
      <4> QED BY <2>1, <4>1, <4>2
    <3>4. Refused(s, wt, dr)
      BY <1>1, <2>1, <3>1, <3>2, <3>3 DEF Refused, over
    <3> QED BY <3>4 DEF Mode
  <2>5. last = 1 \/ last > 1
    <3> HIDE DEF last
    <3> QED BY <2>2
  <2> QED BY <2>3, <2>4, <2>5
<1>9. Engines(s)
  BY <1>0, <1>1 DEF Engines, Live
<1>10. Queue(c2, wt, dr)
  <2>1. \A m \in Calls : c2[m].pc = "queued" <=> (In(wt, m) \/ In(dr.job, m))
    BY <1>0, <1>4, <1>5 DEF Queue
  <2>2. \A m, p \in Calls : c2[m].pc = "queued" /\ c2[p].pc = "ensuring" => m < p
    <3>1. \A m, p \in Calls : c[m].pc = "queued" /\ c[p].pc = "ensuring" => m < p
      BY <1>0 DEF Queue
    <3> QED BY <1>4, <3>1
  <2>3. \A m, p \in Calls : c2[m].pc = "none" /\ c2[p].pc # "none" => p < m
    <3>1. \A m, p \in Calls : c[m].pc = "none" /\ c[p].pc # "none" => p < m
      BY <1>0 DEF Queue
    <3> QED BY <1>4, <1>5, <3>1
  <2> QED BY <1>0, <2>1, <2>2, <2>3 DEF Queue
<1>11. Drain(s, wt, dr)
  BY <1>0, <1>1 DEF Drain
<1>12. Count(s, c2, wt, dr, f)
  <2>1. \A k \in Nat : Started(r, k) => Started(s, k + 0)
    <3> SUFFICES ASSUME NEW k \in Nat, Started(r, k) PROVE Started(s, k)
      OBVIOUS
    <3> QED BY <1>1 DEF Started
  <2>2. f + Slack(r) + 0 <= f + Slack(s)
    <3>1. f \in Nat /\ Slack(r) = 0 /\ Slack(s) = 0
      BY <1>0, <1>1, <1>2, TypedIs DEF Slack, Refused
    <3> QED BY <3>1
  <2>3. \A m \in Calls : c2[m].pc \in {"none", "ensuring"} => c[m].pc \in {"none", "ensuring"}
    BY <1>4
  <2>4. 0 \in {0, 1}
    OBVIOUS
  <2> QED BY <1>0, <1>1, <1>6, <2>1, <2>2, <2>3, <2>4, CountKeeps
<1> QED BY <1>6, <1>7, <1>8, <1>9, <1>10, <1>11, <1>12 DEF Inv

\* The loop goes to another place, with the job it has.
LEMMA DrainAt ==
    ASSUME NEW dr \in Drains, NEW pc \in {"off", "ensuring", "rendering", "settling"}
    PROVE  /\ [dr EXCEPT !.pc = pc] \in Drains
           /\ [dr EXCEPT !.pc = pc].pc = pc /\ [dr EXCEPT !.pc = pc].job = dr.job
BY DEF Drains

LEMMA SameQueue ==
    ASSUME NEW c, NEW wt, NEW dr, Queue(c, wt, dr), NEW dr2, dr2.job = dr.job
    PROVE  Queue(c, wt, dr2)
BY DEF Queue

\* renderNow asks its worker for the picture.
LEMMA DrainRendersKeeps ==
    ASSUME NEW r, NEW c, NEW wt, NEW dr, NEW f, Inv(r, c, wt, dr, f), r.micro # <<>>,
           Head(r.micro).kind = "ensured", Head(r.micro).ok = TRUE, Head(r.micro).who = None,
           NEW watched \in BOOLEAN,
           NEW s, Fields(s, r.worker, r.promise, r.status, r.engine, r.quiet, r.fulfilled,
                         Append(r.pending, <<r.worker, "render">>), r.awaiting, watched,
                         Tail(r.micro)),
           NEW dr2 \in Drains, dr2.pc = "rendering", dr2.job = dr.job
    PROVE  Inv(s, c, wt, dr2, f)
<1>0. Typed(r, c, wt, dr, f) /\ Engines(r) /\ Line(r, c, dr) /\ Queue(c, wt, dr)
      /\ Drain(r, wt, dr) /\ Count(r, c, wt, dr, f) /\ r \in Runtimes
  BY TypedIs DEF Inv, Typed
<1>1. /\ s.worker = r.worker /\ s.promise = r.promise /\ s.engine = r.engine /\ s.status = r.status
      /\ s.fulfilled = r.fulfilled /\ s.awaiting = r.awaiting
      /\ s.pending = Append(r.pending, <<r.worker, "render">>)
      /\ s.watched = watched /\ s.micro = Tail(r.micro)
  BY DEF Fields
<1>2. /\ Up(r, dr)
      /\ \A w \in Workers : r.awaiting[w] = <<>>
      /\ \A x : Ensured(r, x) <=> Ensured(s, x) \/ x = None
      /\ \A x : Ensured(s, x) => Before(None, x)
      /\ \A i, j \in 1..Len(s.micro) :
            i < j /\ s.micro[i].kind = "ensured" /\ s.micro[j].kind = "ensured"
            => Before(s.micro[i].who, s.micro[j].who)
  <2>1. Popped(r, wt, dr, s, Head(r.micro))
    BY <1>1, EnsuredPopped
  <2> QED BY <2>1 DEF Popped
<1>3. /\ Tail(r.micro) \in Seq(Micro)
      /\ \A i \in 1..Len(s.micro) : IsEnsured(s.micro[i], TRUE)
      /\ s.micro # <<>> => Head(s.micro).kind = "ensured"
  <2> DEFINE q == r.micro
  <2>1. q \in Seq(Micro) /\ q # <<>> /\ s.micro = Tail(q)
    BY <1>0, <1>1, TypedIs
  <2>2. \A i \in 1..Len(q) : IsEnsured(q[i], TRUE)
    BY <1>2 DEF Up
  <2> HIDE DEF q
  <2>3. /\ Tail(q) \in Seq(Micro)
        /\ \A i \in 1..Len(Tail(q)) : IsEnsured(Tail(q)[i], TRUE)
        /\ Tail(q) # <<>> => Head(Tail(q)).kind = "ensured"
    BY <2>1, <2>2, TailEnsured
  <2> QED BY <2>1, <2>3 DEF q
<1>4. \A x : ~Awaits(r, x) /\ ~Awaits(s, x)
  BY <1>1, <1>2 DEF Awaits
<1>5. dr.pc = "ensuring"
  <2>1. Ensured(r, None)
    BY <1>2
  <2> QED BY <1>0, <2>1 DEF Line
<1>6. r.worker = r.promise /\ r.promise \in Workers /\ r.promise # None
      /\ s.pending = << <<r.promise, "render">> >>
  <2>1. r.worker = r.promise /\ r.promise \in Workers /\ r.promise # None
    BY <1>0, <1>2, Numbers DEF Engines, Up
  <2>2. r.pending = <<>>
    BY <1>2, <1>5 DEF Up
  <2> QED BY <1>1, <2>1, <2>2
<1>7. Typed(s, c, wt, dr2, f)
  <2>1. s.pending \in Seq(Workers \X {"load", "render"})
    BY <1>6
  <2>2. Append(r.pending, <<r.worker, "render">>) \in Seq(Workers \X {"load", "render"})
    BY <1>1, <2>1
  <2> DEFINE new == Append(r.pending, <<r.worker, "render">>)
  <2>3. new \in Seq(Workers \X {"load", "render"})
    BY <2>2
  <2>4. Fields(s, r.worker, r.promise, r.status, r.engine, r.quiet, r.fulfilled, new, r.awaiting,
               watched, Tail(r.micro))
    OBVIOUS
  <2> HIDE DEF new
  <2>5. s \in Runtimes
    BY <1>0, <1>3, <2>3, <2>4 DEF Fields, Runtimes
  <2> QED BY <1>0, <2>5 DEF Typed
<1>8. Mode(s, wt, dr2)
  <2>1. Up(s, dr2)
    BY <1>1, <1>2, <1>3, <1>6 DEF Up
  <2> QED BY <2>1 DEF Mode
<1>9. Engines(s)
  BY <1>0, <1>1 DEF Engines, Live
<1>10. Line(s, c, dr2)
  <2>1. ASSUME NEW m \in Calls PROVE c[m].pc = "ensuring" <=> (Awaits(s, m) \/ Ensured(s, m))
    <3>1. c[m].pc = "ensuring" <=> Ensured(r, m)
      BY <1>0, <1>4 DEF Line
    <3> QED BY <1>2, <1>4, <3>1, Numbers
  <2>2. ~Awaits(s, None) /\ ~Ensured(s, None)
    BY <1>2, <1>4 DEF Before
  <2>3. \A w \in Workers : s.awaiting[w] = <<>>
    BY <1>1, <1>2
  <2> QED BY <1>2, <2>1, <2>2, <2>3 DEF Line
<1>11. Queue(c, wt, dr2)
  BY <1>0, SameQueue
<1>12. Drain(s, wt, dr2)
  BY <1>0, <1>5 DEF Drain
<1>13. Count(s, c, wt, dr2, f)
  <2>1. \A k \in Nat : Started(r, k) => Started(s, k + 0)
    <3> SUFFICES ASSUME NEW k \in Nat, Started(r, k) PROVE Started(s, k)
      OBVIOUS
    <3> QED BY <1>1 DEF Started
  <2>2. f + Slack(r) + 0 <= f + Slack(s)
    <3>1. Slack(s) = 1
      BY <1>1, <1>3, <1>6 DEF Slack
    <3>2. f \in Nat /\ Slack(r) \in Nat /\ Slack(r) <= 1
      BY <1>0, TypedIs DEF Slack
    <3> QED BY <3>1, <3>2
  <2>3. \A m \in Calls : In(dr2.job, m) => In(dr.job, m)
    BY DEF In
  <2>4. 0 \in {0, 1}
    OBVIOUS
  <2> QED BY <1>0, <1>5, <1>7, <2>1, <2>2, <2>3, <2>4, CountKeeps
<1> QED BY <1>7, <1>8, <1>9, <1>10, <1>11, <1>12, <1>13 DEF Inv

\* renderNow has no worker to ask: the job is refused.
LEMMA DrainRefusedKeeps ==
    ASSUME NEW r, NEW c, NEW wt, NEW dr, NEW f, Inv(r, c, wt, dr, f), r.micro # <<>>,
           Head(r.micro).kind = "ensured", Head(r.micro).ok = FALSE, Head(r.micro).who = None,
           NEW s, Fields(s, r.worker, r.promise, r.status, r.engine, r.quiet, r.fulfilled,
                         r.pending, r.awaiting, r.watched,
                         Append(Tail(r.micro), Task("settled", None, FALSE))),
           NEW dr2 \in Drains, dr2.pc = "settling", dr2.job = dr.job
    PROVE  Inv(s, c, wt, dr2, f)
<1>0. Typed(r, c, wt, dr, f) /\ Engines(r) /\ Line(r, c, dr) /\ Queue(c, wt, dr)
      /\ Drain(r, wt, dr) /\ Count(r, c, wt, dr, f) /\ r \in Runtimes
  BY TypedIs DEF Inv, Typed
<1> DEFINE q == r.micro
           p == Tail(q)
           over == Task("settled", None, FALSE)
           micro == Append(p, over)
<1>1. /\ s.worker = r.worker /\ s.promise = r.promise /\ s.engine = r.engine /\ s.status = r.status
      /\ s.fulfilled = r.fulfilled /\ s.awaiting = r.awaiting /\ s.pending = r.pending
      /\ s.watched = r.watched /\ s.micro = micro
  BY DEF Fields
<1>2. \E u : u = Ran(r) /\ u.micro = p
  BY <1>0, RanIs DEF Fields
<1>3. PICK u : u.micro = p
  BY <1>2
<1>4. /\ Refused(r, wt, dr)
      /\ \A w \in Workers : r.awaiting[w] = <<>>
      /\ \A x : Ensured(r, x) <=> Ensured(u, x) \/ x = None
      /\ \A x : Ensured(u, x) => Before(None, x)
      /\ \A i, j \in 1..Len(p) :
            i < j /\ p[i].kind = "ensured" /\ p[j].kind = "ensured"
            => Before(p[i].who, p[j].who)
  <2>1. Popped(r, wt, dr, u, Head(r.micro))
    BY <1>3, EnsuredPopped
  <2> HIDE DEF p
  <2> QED BY <1>3, <2>1 DEF Popped
<1>5. q \in Seq(Micro) /\ q # <<>> /\ over \in Micro
  BY <1>0, TypedIs, Tasks
<1> HIDE DEF q, over
<1>6. /\ p \in Seq(Micro) /\ Len(q) \in Nat /\ Len(p) = Len(q) - 1 /\ Len(q) >= 1
      /\ \A i \in 1..Len(p) : i + 1 \in 1..Len(q) /\ p[i] = q[i + 1]
  BY <1>5, TailIs
<1> HIDE DEF p
<1>7. /\ micro \in Seq(Micro) /\ Len(p) \in Nat /\ Len(micro) = Len(p) + 1
      /\ micro[Len(p) + 1] = over
      /\ \A i \in 1..Len(p) : micro[i] = p[i]
  BY <1>5, <1>6, AppendIs
<1> HIDE DEF micro
<1>8. over.kind = "settled"
  BY DEF over, Task
<1>9. \A x : ~Awaits(r, x) /\ ~Awaits(s, x)
  BY <1>1, <1>4 DEF Awaits
<1>10. dr.pc = "ensuring"
  <2>1. Ensured(r, None)
    BY <1>4
  <2> QED BY <1>0, <2>1 DEF Line
<1>11. \A i \in 1..Len(p) : IsEnsured(p[i], FALSE)
  <2> SUFFICES ASSUME NEW i \in 1..Len(p) PROVE IsEnsured(p[i], FALSE)
    OBVIOUS
  <2>1. i + 1 \in 1..Len(q) /\ p[i] = q[i + 1]
    BY <1>6
  <2>2. \A j \in 1..Len(q) : IsEnsured(q[j], FALSE)
    BY <1>4, <1>10 DEF Refused, q
  <2> QED BY <2>1, <2>2
<1>12. ASSUME NEW x PROVE Ensured(s, x) <=> Ensured(u, x)
  <2>1. ASSUME Ensured(s, x) PROVE Ensured(u, x)
    <3>1. PICK i \in 1..(Len(p) + 1) : micro[i].kind = "ensured" /\ micro[i].who = x
      BY <1>1, <1>7, <2>1 DEF Ensured
    <3>2. i \in 1..Len(p) /\ micro[i] = p[i]
      BY <1>7, <1>8, <3>1
    <3> QED BY <1>3, <3>1, <3>2 DEF Ensured
  <2>2. ASSUME Ensured(u, x) PROVE Ensured(s, x)
    <3>1. PICK i \in 1..Len(p) : p[i].kind = "ensured" /\ p[i].who = x
      BY <1>3, <2>2 DEF Ensured
    <3>2. i \in 1..Len(micro) /\ micro[i] = p[i]
      BY <1>7
    <3> QED BY <1>1, <3>1, <3>2 DEF Ensured
  <2> QED BY <2>1, <2>2
<1>13. Typed(s, c, wt, dr2, f)
  <2>1. Fields(s, r.worker, r.promise, r.status, r.engine, r.quiet, r.fulfilled, r.pending,
               r.awaiting, r.watched, micro)
    BY DEF micro, p, q, over
  <2>2. s \in Runtimes
    BY <1>0, <1>7, <2>1 DEF Fields, Runtimes
  <2> QED BY <1>0, <2>2 DEF Typed
<1>14. Mode(s, wt, dr2)
  <2>1. micro # <<>> /\ micro[Len(micro)] = over
    BY <1>7
  <2>2. \A i \in 1..Len(micro) : IsEnsured(micro[i], FALSE) \/ (i = Len(micro) /\ micro[i] = over)
    <3> SUFFICES ASSUME NEW i \in 1..(Len(p) + 1)
                 PROVE  IsEnsured(micro[i], FALSE) \/ (i = Len(micro) /\ micro[i] = over)
      BY <1>7
    <3>1. CASE i \in 1..Len(p)
      <4>1. micro[i] = p[i] /\ IsEnsured(p[i], FALSE)
        BY <1>7, <1>11, <3>1
      <4> QED BY <4>1
    <3>2. CASE i = Len(p) + 1
      BY <1>7, <3>2
    <3>3. i \in 1..Len(p) \/ i = Len(p) + 1
      BY <1>7
    <3> QED BY <3>1, <3>2, <3>3
  <2>3. Refused(s, wt, dr2)
    BY <1>1, <1>4, <2>1, <2>2 DEF Refused, over
  <2> QED BY <2>3 DEF Mode
<1>15. Engines(s)
  BY <1>0, <1>1 DEF Engines, Live
<1>16. Line(s, c, dr2)
  <2>1. ASSUME NEW m \in Calls PROVE c[m].pc = "ensuring" <=> (Awaits(s, m) \/ Ensured(s, m))
    <3>1. c[m].pc = "ensuring" <=> Ensured(r, m)
      BY <1>0, <1>9 DEF Line
    <3> QED BY <1>4, <1>9, <1>12, <3>1, Numbers
  <2>2. ~Awaits(s, None) /\ ~Ensured(s, None)
    BY <1>4, <1>9, <1>12 DEF Before
  <2>3. \A w \in Workers : s.awaiting[w] = <<>>
    BY <1>1, <1>4
  <2>4. \A i, j \in 1..Len(s.micro) :
        i < j /\ s.micro[i].kind = "ensured" /\ s.micro[j].kind = "ensured"
        => Before(s.micro[i].who, s.micro[j].who)
    <3> SUFFICES ASSUME NEW i \in 1..Len(micro), NEW j \in 1..Len(micro), i < j,
                        micro[i].kind = "ensured", micro[j].kind = "ensured"
                 PROVE  Before(micro[i].who, micro[j].who)
      BY <1>1
    <3>1. i \in 1..Len(p) /\ j \in 1..Len(p) /\ micro[i] = p[i] /\ micro[j] = p[j]
      BY <1>7, <1>8
    <3> QED BY <1>4, <3>1
  <2> QED BY <2>1, <2>2, <2>3, <2>4 DEF Line
<1>17. Queue(c, wt, dr2)
  BY <1>0, SameQueue
<1>18. Drain(s, wt, dr2)
  BY <1>0, <1>1, <1>10 DEF Drain
<1>19. Count(s, c, wt, dr2, f)
  <2>1. \A k \in Nat : Started(r, k) => Started(s, k + 0)
    <3> SUFFICES ASSUME NEW k \in Nat, Started(r, k) PROVE Started(s, k)
      OBVIOUS
    <3> QED BY <1>1 DEF Started
  <2>2. f + Slack(r) + 0 <= f + Slack(s)
    <3>1. f \in Nat /\ Slack(r) = 0 /\ Slack(s) = 0
      BY <1>0, <1>1, <1>4, TypedIs DEF Slack, Refused
    <3> QED BY <3>1
  <2>3. \A m \in Calls : In(dr2.job, m) => In(dr.job, m)
    BY DEF In
  <2>4. 0 \in {0, 1}
    OBVIOUS
  <2> QED BY <1>0, <1>10, <1>13, <2>1, <2>2, <2>3, <2>4, CountKeeps
<1> QED BY <1>13, <1>14, <1>15, <1>16, <1>17, <1>18, <1>19 DEF Inv

\* The `finally` of renderNow.
LEMMA RenderReturnsKeeps ==
    ASSUME NEW r, NEW c, NEW wt, NEW dr, NEW f, Inv(r, c, wt, dr, f),
           NEW ok \in BOOLEAN, Answered(r, ok, dr),
           NEW s, Fields(s, r.worker, r.promise, r.status, r.engine, r.quiet, r.fulfilled,
                         r.pending, r.awaiting, FALSE, <<Task("settled", None, ok)>>),
           NEW dr2 \in Drains, dr2.pc = "settling", dr2.job = dr.job
    PROVE  Inv(s, c, wt, dr2, f)
<1>0. Typed(r, c, wt, dr, f) /\ Engines(r) /\ Line(r, c, dr) /\ Queue(c, wt, dr)
      /\ Drain(r, wt, dr) /\ Count(r, c, wt, dr, f) /\ r \in Runtimes
  BY TypedIs DEF Inv, Typed
<1> DEFINE t == Task("settled", None, ok)
<1>1. /\ s.worker = r.worker /\ s.promise = r.promise /\ s.engine = r.engine /\ s.status = r.status
      /\ s.fulfilled = r.fulfilled /\ s.awaiting = r.awaiting /\ s.pending = r.pending
      /\ s.watched = FALSE /\ s.micro = <<t>>
  BY DEF Fields
<1>2. r.micro = <<Task("answered", None, ok)>> /\ r.pending = <<>> /\ dr.pc = "rendering"
      /\ (r.promise = None \/ r.promise \in r.fulfilled)
  BY DEF Answered, Over
<1>3. t \in Micro /\ <<t>> \in Seq(Micro)
  BY Tasks, OneTask
<1>4. Typed(s, c, wt, dr2, f)
  <2> HIDE DEF t
  <2>1. Fields(s, r.worker, r.promise, r.status, r.engine, r.quiet, r.fulfilled, r.pending,
               r.awaiting, FALSE, <<t>>)
    BY DEF t
  <2>2. s \in Runtimes
    BY <1>0, <1>3, <2>1 DEF Fields, Runtimes
  <2> QED BY <1>0, <2>2 DEF Typed
<1>5. Mode(s, wt, dr2)
  <2>1. Settling(s, ok, dr2)
    BY <1>1, <1>2 DEF Settling, Over
  <2> QED BY <2>1 DEF Mode
<1>6. Engines(s)
  BY <1>0, <1>1 DEF Engines, Live
<1>7. Line(s, c, dr2)
  <2>1. (\A i \in 1..Len(s.micro) : s.micro[i].kind # "ensured") /\ \A x : ~Ensured(s, x)
    <3>1. s.micro = <<Task("settled", None, ok)>> /\ "settled" # "ensured"
      BY <1>1
    <3> QED BY <3>1, NobodyEnsured
  <2>2. \A x : ~Ensured(r, x)
    <3>1. r.micro = <<Task("answered", None, ok)>> /\ "answered" # "ensured"
      BY <1>2
    <3> QED BY <3>1, NobodyEnsured
  <2>3. \A w \in Workers : r.awaiting[w] = <<>>
    <3> SUFFICES ASSUME NEW w \in Workers, r.awaiting[w] # <<>> PROVE FALSE
      OBVIOUS
    <3>1. r.micro # <<>> /\ Head(r.micro).kind = "answered"
      BY <1>2 DEF Task
    <3>2. PICK b \in BOOLEAN : r.micro = <<Task("load", w, b)>>
      BY <1>0, <3>1 DEF Line
    <3>3. Head(r.micro).kind = "load"
      BY <3>2 DEF Task
    <3> QED BY <3>1, <3>3
  <2>4. \A x : ~Awaits(r, x) /\ ~Awaits(s, x)
    BY <1>1, <2>3 DEF Awaits
  <2> QED BY <1>0, <1>1, <2>1, <2>2, <2>3, <2>4 DEF Line
<1>8. Queue(c, wt, dr2)
  BY <1>0, SameQueue
<1>9. Drain(s, wt, dr2)
  BY <1>0, <1>1, <1>2 DEF Drain
<1>10. Count(s, c, wt, dr2, f)
  <2>1. \A k \in Nat : Started(r, k) => Started(s, k + 0)
    <3> SUFFICES ASSUME NEW k \in Nat, Started(r, k) PROVE Started(s, k)
      OBVIOUS
    <3> QED BY <1>1 DEF Started
  <2>2. f + Slack(r) + 0 <= f + Slack(s)
    <3>1. Head(s.micro).kind = "settled"
      BY <1>1 DEF Task
    <3>2. Head(r.micro).kind = "answered"
      BY <1>2 DEF Task
    <3>3. f \in Nat /\ Slack(r) = Slack(s) /\ Slack(r) \in Nat
      BY <1>0, <1>1, <3>1, <3>2, TypedIs DEF Slack
    <3> QED BY <3>3
  <2>3. \A m \in Calls : In(dr2.job, m) => In(dr.job, m)
    BY DEF In
  <2>4. 0 \in {0, 1} /\ s.pending = <<>> /\ dr2.pc # "ensuring"
    BY <1>1, <1>2
  <2> QED BY <1>0, <1>4, <2>1, <2>2, <2>3, <2>4, CountKeeps
<1> QED BY <1>4, <1>5, <1>6, <1>7, <1>8, <1>9, <1>10 DEF Inv

\* The calls of a job are told.
JobTold(c, dr, ok, c2) ==
    /\ c2 \in CallStates
    /\ \A n \in Calls : c2[n].pc = IF In(dr.job, n) THEN IF ok THEN "resolved" ELSE "rejected"
                                   ELSE c[n].pc

SettledPopped(r, c, wt, dr, f, c2, s) ==
    /\ s \in Runtimes /\ s.micro = <<>> /\ s.pending = <<>>
    /\ s.worker = r.worker /\ s.promise = r.promise /\ s.engine = r.engine
    /\ s.fulfilled = r.fulfilled /\ s.watched = FALSE
    /\ s.promise = None \/ (s.promise \in Workers /\ s.promise \in s.fulfilled)
    /\ \A w \in Workers : s.awaiting[w] = <<>>
    /\ \A x : ~Awaits(s, x) /\ ~Ensured(s, x)
    /\ \A n \in Calls : c2[n].pc # "ensuring" /\ c[n].pc # "ensuring"
    /\ \A n \in Calls : c2[n].pc = "queued" <=> In(wt, n)
    /\ \A n, m \in Calls : c2[n].pc = "none" /\ c2[m].pc # "none" => m < n
    /\ \A n \in Calls : c2[n].pc = "none" => c[n].pc = "none"
    /\ \A k \in Nat : Started(r, k) => Started(s, k + 0)
    /\ f + Slack(r) + 0 <= f + Slack(s)

LEMMA JobIsSettled ==
    ASSUME NEW r, NEW c, NEW wt, NEW dr, NEW f, Inv(r, c, wt, dr, f), r.micro # <<>>,
           Head(r.micro).kind = "settled", NEW ok \in BOOLEAN, NEW c2, JobTold(c, dr, ok, c2),
           NEW s, s = Ran(r)
    PROVE  SettledPopped(r, c, wt, dr, f, c2, s)
<1>0. Typed(r, c, wt, dr, f) /\ Mode(r, wt, dr) /\ Line(r, c, dr) /\ Queue(c, wt, dr)
      /\ Drain(r, wt, dr) /\ r \in Runtimes /\ dr.job \in Seq(Calls) /\ wt \in Seq(Calls)
  BY TypedIs DEF Inv, Typed
<1> DEFINE q == r.micro
<1>1. q \in Seq(Micro) /\ q # <<>> /\ Len(q) \in Nat /\ Len(q) >= 1 /\ Head(q) = q[1]
  <2>1. q \in Seq(Micro) /\ q # <<>>
    BY <1>0, TypedIs
  <2> HIDE DEF q
  <2> QED BY <2>1, TailIs
<1>2. /\ Len(q) = 1 /\ r.pending = <<>> /\ dr.pc = "settling"
      /\ r.promise = None \/ r.promise \in r.fulfilled
  <2>0. q[1].kind = "settled"
    BY <1>1
  <2>1. ASSUME NEW kind, NEW who, NEW b, q = <<Task(kind, who, b)>> PROVE kind = "settled" /\ Len(q) = 1
    <3>1. Len(q) = 1 /\ q[1].kind = kind
      BY <2>1 DEF Task
    <3> QED BY <2>0, <3>1
  <2>2. ~Resting(r, dr) /\ ~Loading(r, wt, dr)
    BY DEF Resting, Loading
  <2>3. ~Up(r, dr)
    <3>1. 1 \in 1..Len(q)
      BY <1>1
    <3> QED BY <2>0, <3>1 DEF Up, IsEnsured
  <2>4. \A w, b : ~Told(r, w, b, wt, dr)
    <3>1. \A w, b : r.micro # <<Task("load", w, b)>>
      BY <2>1
    <3> QED BY <3>1 DEF Told
  <2>5. \A b : ~Answered(r, b, dr)
    <3>1. \A b : r.micro # <<Task("answered", None, b)>>
      BY <2>1
    <3> QED BY <3>1 DEF Answered, Over
  <2>6. ASSUME NEW b, Settling(r, b, dr)
        PROVE  /\ Len(q) = 1 /\ r.pending = <<>> /\ dr.pc = "settling"
               /\ r.promise = None \/ r.promise \in r.fulfilled
    <3>1. q = <<Task("settled", None, b)>>
      BY <2>6 DEF Settling, Over
    <3>2. Len(q) = 1
      BY <3>1
    <3> QED BY <2>6, <3>2 DEF Settling, Over
  <2>7. ASSUME Refused(r, wt, dr)
        PROVE  /\ Len(q) = 1 /\ r.pending = <<>> /\ dr.pc = "settling"
               /\ r.promise = None \/ r.promise \in r.fulfilled
    <3>1. ~IsEnsured(q[1], FALSE) /\ 1 \in 1..Len(q)
      BY <1>1, <2>0 DEF IsEnsured
    <3> QED BY <2>7, <3>1 DEF Refused
  <2> HIDE DEF q
  <2> QED BY <1>0, <2>2, <2>3, <2>4, <2>5, <2>6, <2>7 DEF Mode
<1>3. Tail(q) = <<>> /\ \A x : ~Ensured(r, x)
  <2>1. \A x : ~Ensured(r, x)
    <3>1. \A i \in 1..Len(q) : q[i].kind = "settled"
      BY <1>1, <1>2
    <3> QED BY <3>1 DEF Ensured
  <2> HIDE DEF q
  <2>2. Tail(q) \in Seq(Micro) /\ Len(Tail(q)) = 0
    BY <1>1, <1>2, TailIs
  <2>3. Tail(q) = <<>>
    <3> DEFINE p == Tail(q)
    <3>1. p \in Seq(Micro) /\ Len(p) = 0
      BY <2>2
    <3> HIDE DEF p
    <3>2. p = <<>>
      BY <3>1
    <3> QED BY <3>2 DEF p
  <2> QED BY <2>1, <2>3 DEF q
<1>4. \A w \in Workers : r.awaiting[w] = <<>>
  <2> SUFFICES ASSUME NEW w \in Workers, r.awaiting[w] # <<>> PROVE FALSE
    OBVIOUS
  <2>1. PICK b \in BOOLEAN : r.micro = <<Task("load", w, b)>>
    BY <1>0, <1>1 DEF Line
  <2>2. Head(r.micro).kind = "load"
    BY <2>1 DEF Task
  <2> QED BY <2>2
<1>5. /\ Fields(s, r.worker, r.promise, r.status, r.engine, r.quiet, r.fulfilled,
                r.pending, r.awaiting, r.watched, <<>>)
      /\ s.worker = r.worker /\ s.promise = r.promise /\ s.engine = r.engine
      /\ s.fulfilled = r.fulfilled /\ s.pending = r.pending /\ s.awaiting = r.awaiting
      /\ s.watched = r.watched /\ s.micro = <<>>
  BY <1>0, <1>3, RanIs DEF Fields
<1>6. s \in Runtimes
  <2>1. <<>> \in Seq(Micro)
    OBVIOUS
  <2> QED BY <1>0, <1>5, <2>1 DEF Fields, Runtimes
<1>7. \A x : ~Awaits(s, x) /\ ~Awaits(r, x) /\ ~Ensured(s, x)
  BY <1>4, <1>5 DEF Awaits, Ensured
<1>8. \A n \in Calls : c[n].pc # "ensuring"
  BY <1>0, <1>3, <1>7 DEF Line
<1>9. \A n \in Calls : ~(In(wt, n) /\ In(dr.job, n))
  <2> SUFFICES ASSUME NEW n \in Calls, In(wt, n), In(dr.job, n) PROVE FALSE
    OBVIOUS
  <2>1. PICK i \in 1..Len(dr.job) : dr.job[i] = n
    BY DEF In
  <2>2. PICK j \in 1..Len(wt) : wt[j] = n
    BY DEF In
  <2>3. n < n
    BY <1>0, <2>1, <2>2 DEF Queue
  <2> QED BY <2>3, Numbers
<1>10. \A n \in Calls : In(dr.job, n) => c[n].pc = "queued"
  BY <1>0 DEF Queue
<1>11. \A n \in Calls : /\ c2[n].pc # "ensuring"
                        /\ c2[n].pc = "queued" <=> In(wt, n)
                        /\ c2[n].pc = "none" <=> c[n].pc = "none"
  <2> SUFFICES ASSUME NEW n \in Calls
               PROVE  /\ c2[n].pc # "ensuring"
                      /\ c2[n].pc = "queued" <=> In(wt, n)
                      /\ c2[n].pc = "none" <=> c[n].pc = "none"
    OBVIOUS
  <2>1. c[n].pc = "queued" <=> (In(wt, n) \/ In(dr.job, n))
    BY <1>0 DEF Queue
  <2>2. CASE In(dr.job, n)
    <3>1. c2[n].pc \in {"resolved", "rejected"} /\ c[n].pc = "queued"
      BY <1>10, <2>2 DEF JobTold
    <3> QED BY <1>9, <2>2, <3>1
  <2>3. CASE ~In(dr.job, n)
    <3>1. c2[n].pc = c[n].pc
      BY <2>3 DEF JobTold
    <3> QED BY <1>8, <2>1, <2>3, <3>1
  <2> QED BY <2>2, <2>3
<1>12. \A n, m \in Calls : c2[n].pc = "none" /\ c2[m].pc # "none" => m < n
  <2>1. \A n, m \in Calls : c[n].pc = "none" /\ c[m].pc # "none" => m < n
    BY <1>0 DEF Queue
  <2> QED BY <1>11, <2>1
<1>13. s.watched = FALSE
  <2>1. r.watched \in BOOLEAN
    BY <1>0, TypedIs
  <2> QED BY <1>0, <1>2, <1>5, <2>1 DEF Drain
<1>14. /\ \A k \in Nat : Started(r, k) => Started(s, k + 0)
       /\ f + Slack(r) + 0 <= f + Slack(s)
  <2>1. \A k \in Nat : Started(r, k) => Started(s, k + 0)
    <3> SUFFICES ASSUME NEW k \in Nat, Started(r, k) PROVE Started(s, k)
      OBVIOUS
    <3> QED BY <1>5 DEF Started
  <2>2. f \in Nat /\ Slack(r) = Slack(s) /\ Slack(r) \in Nat
    BY <1>0, <1>5, TypedIs DEF Slack
  <2> QED BY <2>1, <2>2
<1>15. s.promise = None \/ (s.promise \in Workers /\ s.promise \in s.fulfilled)
  BY <1>0, <1>2, <1>5, TypedIs
<1> QED BY <1>2, <1>4, <1>5, <1>6, <1>7, <1>8, <1>11, <1>12, <1>13, <1>14, <1>15 DEF SettledPopped

\* The loop ends.
LEMMA DrainEndsKeeps ==
    ASSUME NEW r, NEW c, NEW wt, NEW dr, NEW f, Inv(r, c, wt, dr, f), wt = <<>>, NEW c2,
           JobTold(c, dr, TRUE, c2) \/ JobTold(c, dr, FALSE, c2),
           NEW s, SettledPopped(r, c, wt, dr, f, c2, s),
           NEW dr2, dr2 = [pc |-> "off", job |-> <<>>]
    PROVE  Inv(s, c2, <<>>, dr2, f)
<1>0. Typed(r, c, wt, dr, f) /\ Engines(r) /\ Count(r, c, wt, dr, f)
  BY DEF Inv
<1>1. dr2.pc = "off" /\ dr2.job = <<>> /\ dr2 \in Drains /\ \A x : ~In(<<>>, x)
  BY DEF Drains, In
<1>2. Typed(s, c2, <<>>, dr2, f)
  BY <1>0, <1>1 DEF SettledPopped, JobTold, Typed
<1>3. Mode(s, <<>>, dr2)
  <2>1. CASE s.promise = None
    <3>1. Resting(s, dr2)
      BY <1>1, <2>1 DEF SettledPopped, Resting
    <3> QED BY <3>1 DEF Mode
  <2>2. CASE s.promise \in Workers /\ s.promise \in s.fulfilled
    <3>1. Up(s, dr2)
      BY <1>1, <2>2 DEF SettledPopped, Up
    <3> QED BY <3>1 DEF Mode
  <2> QED BY <2>1, <2>2 DEF SettledPopped
<1>4. Engines(s)
  BY <1>0 DEF Engines, Live, SettledPopped
<1>5. Line(s, c2, dr2)
  <2>1. Len(s.micro) = 0
    BY DEF SettledPopped
  <2> QED BY <1>1, <2>1 DEF SettledPopped, Line
<1>6. Queue(c2, <<>>, dr2)
  BY <1>1 DEF SettledPopped, Queue
<1>7. Drain(s, <<>>, dr2)
  BY <1>1 DEF SettledPopped, Drain
<1>8. Count(s, c2, <<>>, dr2, f)
  <2>1. /\ \A k \in Nat : Started(r, k) => Started(s, k + 0)
        /\ f + Slack(r) + 0 <= f + Slack(s)
    BY DEF SettledPopped
  <2>2. \A m \in Calls : c2[m].pc \in {"none", "ensuring"} => c[m].pc \in {"none", "ensuring"}
    BY DEF SettledPopped
  <2>3. 0 \in {0, 1} /\ \A m \in Calls : ~In(<<>>, m) /\ ~In(dr2.job, m)
    BY <1>1
  <2> QED BY <1>0, <1>2, <2>1, <2>2, <2>3, CountKeeps
<1> QED BY <1>2, <1>3, <1>4, <1>5, <1>6, <1>7, <1>8 DEF Inv

\* The loop goes on with what waits.
LEMMA DrainGoesOn ==
    ASSUME NEW r, NEW c, NEW wt, NEW dr, NEW f, Inv(r, c, wt, dr, f), wt # <<>>, NEW c2,
           JobTold(c, dr, TRUE, c2) \/ JobTold(c, dr, FALSE, c2),
           NEW s, SettledPopped(r, c, wt, dr, f, c2, s),
           NEW dr2, dr2 = [pc |-> "ensuring", job |-> wt]
    PROVE  Turn(s, c2, <<>>, dr2, f, None) /\ (Free(s, <<>>, dr2) \/ Up(s, dr2))
<1>0. Typed(r, c, wt, dr, f) /\ Engines(r) /\ Queue(c, wt, dr) /\ Count(r, c, wt, dr, f)
      /\ wt \in Seq(Calls)
  BY DEF Inv, Typed
<1>1. dr2.pc = "ensuring" /\ dr2.job = wt /\ dr2 \in Drains /\ \A x : ~In(<<>>, x)
  BY <1>0 DEF Drains, In
<1>2. Typed(s, c2, <<>>, dr2, f)
  BY <1>0, <1>1 DEF SettledPopped, JobTold, Typed
<1>3. Engines(s)
  BY <1>0 DEF Engines, Live, SettledPopped
<1>4. LineBut(s, c2, dr2, None)
  <2>1. Len(s.micro) = 0
    BY DEF SettledPopped
  <2> QED BY <1>1, <2>1 DEF SettledPopped, LineBut
<1>5. Queue(c2, <<>>, dr2)
  <2>1. \A i, j \in 1..Len(wt) : i < j => wt[i] < wt[j]
    BY <1>0 DEF Queue
  <2> QED BY <1>1, <2>1 DEF SettledPopped, Queue
<1>6. Drain(s, <<>>, dr2)
  BY <1>1 DEF SettledPopped, Drain
<1>7. Count(s, c2, <<>>, dr2, f)
  <2>1. /\ \A k \in Nat : Started(r, k) => Started(s, k + 0)
        /\ f + Slack(r) + 0 <= f + Slack(s)
    BY DEF SettledPopped
  <2>2. \A m \in Calls : c2[m].pc \in {"none", "ensuring"} => c[m].pc \in {"none", "ensuring"}
    BY DEF SettledPopped
  <2>3. 0 \in {0, 1} /\ \A m \in Calls : ~In(<<>>, m) /\ (In(dr2.job, m) => In(wt, m))
    BY <1>1
  <2> QED BY <1>0, <1>2, <2>1, <2>2, <2>3, CountKeeps
<1>8. CASE s.promise = None
  <2>1. Free(s, <<>>, dr2)
    BY <1>1, <1>8 DEF SettledPopped, Free
  <2> QED BY <1>1, <1>2, <1>3, <1>4, <1>5, <1>6, <1>7, <2>1 DEF Turn
<1>9. CASE s.promise \in Workers /\ s.promise \in s.fulfilled
  <2>1. Up(s, dr2)
    BY <1>1, <1>9 DEF SettledPopped, Up
  <2> QED BY <1>1, <1>2, <1>3, <1>4, <1>5, <1>6, <1>7, <2>1 DEF Turn
<1> QED BY <1>8, <1>9 DEF SettledPopped

-----------------------------------------------------------------------------
(***************************************************************************)
(* The actions of the runtime.                                             *)
(***************************************************************************)
LEMMA RuntimeStarts ==
    ASSUME NEW input0 \in Inputs, RuntimeInit
    PROVE  RtInv
<1>1. /\ rt.worker = None /\ rt.promise = None /\ rt.status = "idle"
      /\ rt.engine = [w \in Workers |-> "none"] /\ rt.quiet = {} /\ rt.fulfilled = {}
      /\ rt.pending = <<>> /\ rt.awaiting = [w \in Workers |-> <<>>] /\ rt.watched = FALSE
      /\ rt.micro = <<>>
  BY DEF RuntimeInit
<1>2. waiting = <<>> /\ drain.pc = "off" /\ drain.job = <<>> /\ faults = 0
      /\ \A n \in Calls : call[n].pc = "none"
  BY DEF RuntimeInit
<1>3. Typed(rt, call, waiting, drain, faults)
  <2>1. rt \in Runtimes
    <3>1. <<>> \in Seq(Micro) /\ <<>> \in Seq(Workers \X {"load", "render"})
          /\ <<>> \in Seq(Calls \cup {None})
      OBVIOUS
    <3>2. [w \in Workers |-> <<>>] \in [Workers -> Seq(Calls \cup {None})]
      BY <3>1
    <3>3. [w \in Workers |-> "none"] \in [Workers -> Engine]
      BY DEF Engine
    <3> QED BY <3>1, <3>2, <3>3 DEF RuntimeInit, Runtimes, Status
  <2>2. call \in CallStates
    <3>1. call \in [Calls -> [pc: {"none"}, input: {CHOOSE i \in Inputs : TRUE},
                              result: {CHOOSE i \in Inputs : TRUE}]]
      BY DEF RuntimeInit
    <3>2. (CHOOSE i \in Inputs : TRUE) \in Inputs
      OBVIOUS
    <3> QED BY <3>1, <3>2 DEF CallStates
  <2>3. waiting \in Seq(Calls) /\ drain \in Drains /\ faults \in 0..MaxFaults
    BY DEF RuntimeInit, Drains
  <2> QED BY <2>1, <2>2, <2>3 DEF Typed
<1>4. Mode(rt, waiting, drain)
  BY <1>1, <1>2 DEF Mode, Resting
<1>5. Engines(rt)
  BY <1>1, Numbers DEF Engines, Live
<1>6. \A x : ~Awaits(rt, x) /\ ~Ensured(rt, x)
  BY <1>1 DEF Awaits, Ensured
<1>7. Line(rt, call, drain)
  <2>1. Len(rt.micro) = 0 /\ \A w \in Workers : rt.awaiting[w] = <<>>
    BY <1>1
  <2> QED BY <1>2, <1>6, <2>1 DEF Line
<1>8. Queue(call, waiting, drain)
  <2>1. \A x : ~In(waiting, x) /\ ~In(drain.job, x)
    BY <1>2 DEF In
  <2>2. Len(waiting) = 0 /\ Len(drain.job) = 0
    BY <1>2
  <2> QED BY <1>2, <2>1, <2>2 DEF Queue
<1>9. Drain(rt, waiting, drain)
  BY <1>1, <1>2 DEF Drain
<1>10. Count(rt, call, waiting, drain, faults)
  <2>1. Started(rt, 0)
    BY <1>1, Numbers DEF Started
  <2>2. Slack(rt) = 0 /\ Len(waiting) = 0 /\ Len(drain.job) = 0
    BY <1>1, <1>2 DEF Slack
  <2>3. \A n \in Calls : 0 < faults + Slack(rt) + n
    BY <1>2, <2>2, Numbers
  <2>4. 0 <= faults + Slack(rt) + NCalls
    BY <1>2, <2>2, Numbers
  <2> QED BY <2>1, <2>2, <2>3, <2>4 DEF Count
<1> QED BY <1>3, <1>4, <1>5, <1>7, <1>8, <1>9, <1>10 DEF RtInv, Inv

LEMMA LoadStep ==
    ASSUME NEW throws \in BOOLEAN, RtInv, rt.micro = <<>>, Load(throws)
    PROVE  RtInv'
<1>0. Inv(rt, call, waiting, drain, faults) /\ rt \in Runtimes
      /\ Typed(rt, call, waiting, drain, faults) /\ Count(rt, call, waiting, drain, faults)
      /\ faults \in Nat
  BY TypedIs DEF RtInv, Inv, Typed
<1>1. /\ rt' = Start(rt, FALSE, throws) /\ Fault(throws)
      /\ call' = call /\ waiting' = waiting /\ drain' = drain
  BY DEF Load
<1>2. CASE rt.promise # None
  <2>1. rt' = rt /\ faults' = faults
    BY <1>1, <1>2, NoStart DEF Fault
  <2> QED BY <1>0, <1>1, <2>1 DEF RtInv
<1>3. CASE rt.promise = None /\ throws
  <2>1. faults' = faults + 1 /\ faults' \in 0..MaxFaults
    BY <1>0, <1>1, <1>3 DEF Fault
  <2>2. throws = TRUE /\ FALSE \in BOOLEAN
    BY <1>3
  <2>3. Fields(rt', rt.worker, rt.promise, "failed", rt.engine, rt.quiet, rt.fulfilled,
               rt.pending, rt.awaiting, rt.watched, rt.micro)
    BY <1>0, <1>1, <1>3, <2>2, StartThrows
  <2>4. Inv(rt', call, waiting, drain, faults')
    BY <1>0, <1>3, <2>1, <2>3, ThrowKeeps
  <2> QED BY <1>1, <2>4 DEF RtInv
<1>4. CASE rt.promise = None /\ ~throws
  <2>1. faults' = faults /\ throws = FALSE /\ FALSE \in BOOLEAN
    BY <1>1, <1>4 DEF Fault
  <2>2. PICK k \in Nat : Started(rt, k) /\ k + 1 \in Workers
    BY <1>0, <1>4, NextNumber
  <2>3. StartedOne(rt, FALSE, k + 1, rt')
    BY <1>0, <1>1, <1>4, <2>1, <2>2, StartIs
  <2>4. Inv(rt', call, waiting, drain, faults)
    BY <1>0, <1>4, <2>2, <2>3, StartKeeps
  <2> QED BY <1>1, <2>1, <2>4 DEF RtInv
<1> QED BY <1>2, <1>3, <1>4

\* Someone comes to wait for the engine.
LEMMA AwaitKeeps ==
    ASSUME NEW r, NEW c, NEW wt, NEW dr, NEW f, NEW who, Turn(r, c, wt, dr, f, who),
           Free(r, wt, dr) \/ Loading(r, wt, dr) \/ Up(r, dr),
           NEW throws \in BOOLEAN, throws => r.promise = None,
           NEW f2 \in 0..MaxFaults, f2 = IF throws THEN f + 1 ELSE f
    PROVE  Inv(Await(r, who, throws), c, wt, dr, f2)
<1>0. Typed(r, c, wt, dr, f) /\ Engines(r) /\ Count(r, c, wt, dr, f) /\ r \in Runtimes
  BY DEF Turn, Typed
<1>1. CASE throws
  <2>1. Free(r, wt, dr) /\ r.promise = None /\ throws = TRUE /\ f2 = f + 1
    BY <1>1, Numbers DEF Loading, Up
  <2>2. EnsuredLater(r, "failed", who, FALSE, Await(r, who, TRUE))
    BY <1>0, <2>1, AwaitThrows
  <2>3. Inv(Await(r, who, TRUE), c, wt, dr, f2)
    BY <2>1, <2>2, AwaitThrowsKeeps
  <2> QED BY <2>1, <2>3
<1>2. CASE ~throws /\ Free(r, wt, dr)
  <2>1. r.promise = None /\ throws = FALSE /\ f2 = f
    BY <1>2 DEF Free
  <2>2. PICK k \in Nat : Started(r, k) /\ k + 1 \in Workers
    BY <1>0, <2>1, NextNumber
  <2>3. AwaitingStart(r, who, k + 1, Await(r, who, FALSE))
    BY <1>0, <2>1, <2>2, AwaitStarts DEF Engines
  <2>4. Inv(Await(r, who, FALSE), c, wt, dr, f)
    BY <1>2, <2>2, <2>3, AwaitStartsKeeps
  <2> QED BY <2>1, <2>4
<1>3. CASE ~throws /\ Loading(r, wt, dr)
  <2>1. r.promise # None /\ r.promise \notin r.fulfilled /\ f2 = f
    BY <1>3, Numbers DEF Loading
  <2>2. AwaitingLoad(r, who, r.promise, Await(r, who, throws))
    BY <1>0, <2>1, AwaitLoading
  <2>3. Inv(Await(r, who, throws), c, wt, dr, f)
    BY <1>3, <2>2, AwaitLoadingKeeps
  <2> QED BY <2>1, <2>3
<1>4. CASE ~throws /\ Up(r, dr)
  <2>1. r.promise # None /\ r.promise \in r.fulfilled /\ f2 = f
    BY <1>4, Numbers DEF Up
  <2>2. EnsuredLater(r, r.status, who, TRUE, Await(r, who, throws))
    BY <1>0, <2>1, AwaitFulfilled
  <2>3. Inv(Await(r, who, throws), c, wt, dr, f)
    BY <1>4, <2>2, AwaitFulfilledKeeps
  <2> QED BY <2>1, <2>3
<1> QED BY <1>1, <1>2, <1>3, <1>4

\* What Fault says of the count of faults.
LEMMA FaultIs ==
    ASSUME NEW throws \in BOOLEAN, Fault(throws), faults \in 0..MaxFaults
    PROVE  /\ throws => rt.promise = None
           /\ faults' = IF throws THEN faults + 1 ELSE faults
           /\ faults' \in 0..MaxFaults
BY Numbers DEF Fault

LEMMA RenderStep ==
    ASSUME NEW n \in Calls, NEW i \in Inputs, NEW throws \in BOOLEAN, RtInv, rt.micro = <<>>,
           Render(n, i, throws)
    PROVE  RtInv'
<1>0. /\ Inv(rt, call, waiting, drain, faults) /\ Typed(rt, call, waiting, drain, faults)
      /\ rt \in Runtimes /\ call \in CallStates /\ waiting \in Seq(Calls)
      /\ drain \in Drains /\ faults \in 0..MaxFaults
      /\ Engines(rt) /\ Line(rt, call, drain) /\ Queue(call, waiting, drain)
      /\ Drain(rt, waiting, drain) /\ Count(rt, call, waiting, drain, faults)
  BY DEF RtInv, Inv, Typed
<1>1. /\ Fault(throws) /\ rt' = Await(rt, n, throws) /\ waiting' = waiting /\ drain' = drain
      /\ call[n].pc = "none" /\ \A m \in 1..(n - 1) : call[m].pc # "none"
      /\ call' = [call EXCEPT ![n] = [pc |-> "ensuring", input |-> i, result |-> i]]
  BY DEF Render
<1>2. Moved(call, n, "ensuring", call')
  BY <1>0, <1>1 DEF Moved, CallStates
<1>3. Free(rt, waiting, drain) \/ Loading(rt, waiting, drain) \/ Up(rt, drain)
  <2>1. Resting(rt, drain) \/ Loading(rt, waiting, drain) \/ Up(rt, drain)
    BY <1>0, TaskModes
  <2>2. Resting(rt, drain) => Free(rt, waiting, drain)
    BY <1>0 DEF Resting, Free, Drain
  <2> QED BY <2>1, <2>2
<1>4. Typed(rt, call', waiting, drain, faults)
  BY <1>0, <1>2 DEF Typed, Moved
<1>5. Queue(call', waiting, drain)
  <2>1. ASSUME NEW m \in Calls
        PROVE  call'[m].pc = "queued" <=> (In(waiting, m) \/ In(drain.job, m))
    BY <1>0, <1>1, <1>2 DEF Queue, Moved
  <2>2. ASSUME NEW a \in Calls, NEW b \in Calls, call'[a].pc = "queued", call'[b].pc = "ensuring"
        PROVE  a < b
    <3>1. a # n /\ call[a].pc = "queued"
      BY <1>2, <2>2 DEF Moved
    <3>2. CASE b = n
      BY <1>0, <1>1, <3>1, <3>2 DEF Queue
    <3>3. CASE b # n
      BY <1>0, <1>2, <2>2, <3>1, <3>3 DEF Queue, Moved
    <3> QED BY <3>2, <3>3
  <2>3. ASSUME NEW a \in Calls, NEW b \in Calls, call'[a].pc = "none", call'[b].pc # "none"
        PROVE  b < a
    <3>1. a # n /\ call[a].pc = "none"
      BY <1>2, <2>3 DEF Moved
    <3>2. CASE b = n
      <4>1. ~(a < n)
        BY <1>1, <3>1, Numbers
      <4> QED BY <3>1, <3>2, <4>1, Numbers
    <3>3. CASE b # n
      BY <1>0, <1>2, <2>3, <3>1, <3>3 DEF Queue, Moved
    <3> QED BY <3>2, <3>3
  <2> QED BY <1>0, <2>1, <2>2, <2>3 DEF Queue
<1>6. LineBut(rt, call', drain, n)
  <2>1. \A m \in Calls : m # n => (call'[m].pc = "ensuring" <=> (Awaits(rt, m) \/ Ensured(rt, m)))
    BY <1>0, <1>2 DEF Line, Moved
  <2>2. ASSUME NEW x \in Calls \cup {None}, Awaits(rt, x) \/ Ensured(rt, x)
        PROVE  Before(x, n)
    <3>1. CASE x = None
      BY <3>1, Numbers DEF Before
    <3>2. CASE x \in Calls
      <4>1. call[x].pc = "ensuring"
        BY <1>0, <2>2, <3>2 DEF Line
      <4>2. x < n
        BY <1>0, <1>1, <3>2, <4>1 DEF Queue
      <4> QED BY <3>2, <4>2, Numbers DEF Before
    <3> QED BY <3>1, <3>2
  <2> QED BY <1>0, <2>1, <2>2 DEF Line, LineBut
<1>7. Count(rt, call', waiting, drain, faults)
  <2>1. \A k \in Nat : Started(rt, k) => Started(rt, k + 0)
    OBVIOUS
  <2>2. faults + Slack(rt) + 0 <= faults + Slack(rt)
    BY <1>0, Numbers DEF Slack
  <2>3. \A m \in Calls : call'[m].pc \in {"none", "ensuring"} => call[m].pc \in {"none", "ensuring"}
    BY <1>1, <1>2 DEF Moved
  <2>4. 0 \in {0, 1}
    OBVIOUS
  <2> QED BY <1>0, <1>4, <2>1, <2>2, <2>3, <2>4, CountKeeps
<1>8. Turn(rt, call', waiting, drain, faults, n)
  BY <1>0, <1>2, <1>4, <1>5, <1>6, <1>7, Numbers DEF Turn, Moved
<1>9. Inv(Await(rt, n, throws), call', waiting, drain, faults')
  BY <1>0, <1>1, <1>3, <1>8, FaultIs, AwaitKeeps
<1> QED BY <1>1, <1>9 DEF RtInv

\* Disposal, an error of the worker, and the watchdog.
LEMMA StopSteps ==
    ASSUME RtInv, Dispose \/ WorkerError \/ WatchdogStops
    PROVE  RtInv'
<1>0. /\ Inv(rt, call, waiting, drain, faults) /\ rt.status \in Status
      /\ faults \in 0..MaxFaults /\ faults \in Nat
  BY TypedIs, Numbers DEF RtInv, Inv, Typed
<1>1. rt.micro = <<>> /\ call' = call /\ waiting' = waiting /\ drain' = drain
  BY DEF Dispose, WorkerError, WatchdogStops
<1>2. \E status \in Status :
        /\ rt' = [StopWorker(rt) EXCEPT !.status = status]
        /\ faults' \in 0..MaxFaults
        /\ faults' = faults + 1 \/ (faults' = faults /\ rt.watched)
  <2>1. CASE Dispose
    BY <1>0, <2>1, Numbers DEF Dispose, Status
  <2>2. CASE WorkerError
    BY <1>0, <2>2, Numbers DEF WorkerError, Status
  <2>3. CASE WatchdogStops
    <3>1. StopWorker(rt) = [StopWorker(rt) EXCEPT !.status = rt.status]
      BY DEF StopWorker
    <3> QED BY <1>0, <2>3, <3>1 DEF WatchdogStops
  <2> QED BY <2>1, <2>2, <2>3
<1>3. PICK status \in Status :
        /\ rt' = [StopWorker(rt) EXCEPT !.status = status]
        /\ faults' \in 0..MaxFaults
        /\ faults' = faults + 1 \/ (faults' = faults /\ rt.watched)
  BY <1>2
<1>4. Inv(rt', call, waiting, drain, faults')
  BY <1>0, <1>1, <1>3, StopKeeps
<1> QED BY <1>1, <1>4 DEF RtInv

LEMMA RemoveOnly ==
    ASSUME NEW x
    PROVE  RemoveAt(<<x>>, 1) = <<>>
BY DEF RemoveAt

\* A worker that is asked for one thing answers that.
LEMMA AnswerIs ==
    ASSUME NEW kind \in {"load", "render"}, NEW ok \in BOOLEAN, rt \in Runtimes, NEW asked,
           rt.pending = << <<rt.worker, asked>> >>, Answer(kind, ok)
    PROVE  /\ asked = kind /\ rt.worker \in Workers /\ rt.micro = <<>>
           /\ Fields(rt', rt.worker, rt.promise, rt.status,
                     [rt.engine EXCEPT ![rt.worker] =
                        IF kind = "render" THEN @ ELSE IF ok THEN "loaded" ELSE "broken"],
                     rt.quiet, rt.fulfilled, <<>>, rt.awaiting, rt.watched,
                     <<Task(IF kind = "load" THEN "load" ELSE "answered",
                            IF kind = "load" THEN rt.worker ELSE None, ok)>>)
<1> DEFINE engine == [rt.engine EXCEPT ![rt.worker] =
                        IF kind = "render" THEN @ ELSE IF ok THEN "loaded" ELSE "broken"]
           micro == <<Task(IF kind = "load" THEN "load" ELSE "answered",
                           IF kind = "load" THEN rt.worker ELSE None, ok)>>
<1>1. rt.worker \in Workers /\ rt.micro = <<>>
  BY DEF Answer, Runtimes
<1>2. PICK i \in DOMAIN rt.pending :
        /\ rt.pending[i] = <<rt.worker, kind>>
        /\ rt' = [rt EXCEPT !.pending = RemoveAt(rt.pending, i), !.engine = engine, !.micro = micro]
  BY DEF Answer, Runtimes
<1>3. i = 1 /\ rt.pending[1] = <<rt.worker, asked>>
  OBVIOUS
<1>4. asked = kind
  BY <1>2, <1>3
<1>5. RemoveAt(rt.pending, i) = <<>>
  BY <1>3, RemoveOnly
<1> HIDE DEF engine, micro
<1> DEFINE r1 == [rt EXCEPT !.pending = <<>>]
           r2 == [r1 EXCEPT !.engine = engine]
           r3 == [r2 EXCEPT !.micro = micro]
<1>6. rt' = r3
  BY <1>2, <1>5
<1>7. Fields(r1, rt.worker, rt.promise, rt.status, rt.engine, rt.quiet, rt.fulfilled, <<>>,
             rt.awaiting, rt.watched, rt.micro)
  BY SameFields, FieldSet
<1> HIDE DEF r1
<1>8. Fields(r2, rt.worker, rt.promise, rt.status, engine, rt.quiet, rt.fulfilled, <<>>,
             rt.awaiting, rt.watched, rt.micro)
  BY <1>7, FieldSet
<1> HIDE DEF r2
<1>9. Fields(r3, rt.worker, rt.promise, rt.status, engine, rt.quiet, rt.fulfilled, <<>>,
             rt.awaiting, rt.watched, micro)
  BY <1>8, FieldSet
<1> QED BY <1>1, <1>4, <1>6, <1>9 DEF engine, micro

\* A worker that is current has been asked for at most one thing.
LEMMA AskedOnce ==
    ASSUME RtInv, rt.micro = <<>>, NEW kind \in {"load", "render"}, NEW ok, Answer(kind, ok)
    PROVE  \/ /\ Loading(rt, waiting, drain) /\ rt.worker = rt.promise
              /\ rt.pending = << <<rt.worker, "load">> >>
           \/ /\ Up(rt, drain) /\ drain.pc = "rendering" /\ rt.worker = rt.promise
              /\ rt.pending = << <<rt.worker, "render">> >>
<1>1. Inv(rt, call, waiting, drain, faults) /\ Engines(rt)
  BY DEF RtInv, Inv
<1>2. rt.pending # <<>>
  BY DEF Answer
<1>3. Loading(rt, waiting, drain) \/ Up(rt, drain)
  BY <1>1, <1>2, TaskModes DEF Resting
<1>4. CASE Loading(rt, waiting, drain)
  BY <1>1, <1>4, Numbers DEF Loading, Engines
<1>5. CASE Up(rt, drain)
  BY <1>1, <1>2, <1>5, Numbers DEF Up, Engines
<1> QED BY <1>3, <1>4, <1>5

LEMMA LoadAnswered ==
    ASSUME RtInv, NEW ok \in BOOLEAN, Answer("load", ok), faults' \in 0..MaxFaults,
           faults' = IF ok THEN faults ELSE faults + 1
    PROVE  RtInv'
<1>0. Inv(rt, call, waiting, drain, faults) /\ rt \in Runtimes
  BY DEF RtInv, Inv, Typed
<1>1. rt.micro = <<>> /\ call' = call /\ waiting' = waiting /\ drain' = drain
  BY DEF Answer
<1>2. PICK asked \in {"load", "render"} :
        /\ rt.worker = rt.promise /\ rt.pending = << <<rt.worker, asked>> >>
        /\ asked = "load" => Loading(rt, waiting, drain)
  BY <1>1, AskedOnce
<1>3. /\ asked = "load"
      /\ Fields(rt', rt.worker, rt.promise, rt.status,
                [rt.engine EXCEPT ![rt.worker] =
                    IF "load" = "render" THEN @ ELSE IF ok THEN "loaded" ELSE "broken"],
                rt.quiet, rt.fulfilled, <<>>, rt.awaiting, rt.watched,
                <<Task(IF "load" = "load" THEN "load" ELSE "answered",
                       IF "load" = "load" THEN rt.worker ELSE None, ok)>>)
  BY <1>0, <1>2, AnswerIs
<1>4. Fields(rt', rt.worker, rt.promise, rt.status,
             [rt.engine EXCEPT ![rt.worker] = IF ok THEN "loaded" ELSE "broken"],
             rt.quiet, rt.fulfilled, <<>>, rt.awaiting, rt.watched,
             <<Task("load", rt.promise, ok)>>)
  BY <1>2, <1>3
<1>5. Inv(rt', call, waiting, drain, faults')
  BY <1>0, <1>2, <1>3, <1>4, LoadAnswerKeeps
<1> QED BY <1>1, <1>5 DEF RtInv

LEMMA RenderAnswer ==
    ASSUME RtInv, NEW ok \in BOOLEAN, Answer("render", ok), faults' = faults
    PROVE  RtInv'
<1>0. Inv(rt, call, waiting, drain, faults) /\ rt \in Runtimes
  BY DEF RtInv, Inv, Typed
<1>1. rt.micro = <<>> /\ call' = call /\ waiting' = waiting /\ drain' = drain
  BY DEF Answer
<1>2. PICK asked \in {"load", "render"} :
        /\ rt.worker = rt.promise /\ rt.pending = << <<rt.worker, asked>> >>
        /\ asked = "render" => Up(rt, drain) /\ drain.pc = "rendering"
  BY <1>1, AskedOnce
<1>3. /\ asked = "render" /\ rt.worker \in Workers
      /\ Fields(rt', rt.worker, rt.promise, rt.status,
                [rt.engine EXCEPT ![rt.worker] =
                    IF "render" = "render" THEN @ ELSE IF ok THEN "loaded" ELSE "broken"],
                rt.quiet, rt.fulfilled, <<>>, rt.awaiting, rt.watched,
                <<Task(IF "render" = "load" THEN "load" ELSE "answered",
                       IF "render" = "load" THEN rt.worker ELSE None, ok)>>)
  BY <1>0, <1>2, AnswerIs
<1>4. [rt.engine EXCEPT ![rt.worker] =
            IF "render" = "render" THEN @ ELSE IF ok THEN "loaded" ELSE "broken"] = rt.engine
  BY <1>0, <1>3 DEF Runtimes
<1>5. Fields(rt', rt.worker, rt.promise, rt.status, rt.engine,
             rt.quiet, rt.fulfilled, <<>>, rt.awaiting, rt.watched,
             <<Task("answered", None, ok)>>)
  BY <1>3, <1>4
<1>6. Inv(rt', call, waiting, drain, faults)
  BY <1>0, <1>1, <1>2, <1>3, <1>5, RenderAnswerKeeps
<1> QED BY <1>1, <1>6 DEF RtInv

LEMMA AnswerSteps ==
    ASSUME RtInv, Loaded \/ LoadFails \/ RenderAnswered
    PROVE  RtInv'
<1>0. faults \in 0..MaxFaults /\ faults \in Nat /\ TRUE \in BOOLEAN /\ FALSE \in BOOLEAN
  BY Numbers DEF RtInv, Inv, Typed
<1>1. CASE Loaded
  <2>1. Answer("load", TRUE) /\ faults' = faults
    BY <1>1 DEF Loaded
  <2>2. SUFFICES ASSUME NEW ok \in BOOLEAN, ok = TRUE PROVE RtInv'
    BY <1>0
  <2>3. Answer("load", ok) /\ faults' = IF ok THEN faults ELSE faults + 1
    BY <2>1, <2>2
  <2> QED BY <1>0, <2>1, <2>3, LoadAnswered
<1>2. CASE LoadFails
  <2>1. Answer("load", FALSE)
    BY <1>2 DEF LoadFails
  <2>2. faults < MaxFaults /\ faults' = faults + 1
    BY <1>2 DEF LoadFails
  <2>3. faults' \in 0..MaxFaults
    BY <1>0, <2>2, Numbers
  <2>4. SUFFICES ASSUME NEW ok \in BOOLEAN, ok = FALSE PROVE RtInv'
    BY <1>0
  <2>5. Answer("load", ok) /\ faults' = IF ok THEN faults ELSE faults + 1
    BY <2>1, <2>2, <2>4
  <2> QED BY <2>3, <2>5, LoadAnswered
<1>3. CASE RenderAnswered
  BY <1>0, <1>3, RenderAnswer DEF RenderAnswered
<1> QED BY <1>1, <1>2, <1>3

\* What the first of the microtasks says of the mode.
LEMMA HeadModes ==
    ASSUME RtInv, rt.micro # <<>>
    PROVE  /\ Head(rt.micro).kind = "load" =>
                \E w \in Workers, ok \in BOOLEAN :
                    Told(rt, w, ok, waiting, drain) /\ Head(rt.micro) = Task("load", w, ok)
           /\ Head(rt.micro).kind = "answered" =>
                \E ok \in BOOLEAN : Answered(rt, ok, drain) /\ Head(rt.micro).ok = ok
<1>0. Mode(rt, waiting, drain) /\ rt.micro \in Seq(Micro)
  BY TypedIs DEF RtInv, Inv
<1> DEFINE q == rt.micro
<1>1. q \in Seq(Micro) /\ q # <<>>
  BY <1>0
<1> HIDE DEF q
<1>2. Head(q) = q[1] /\ 1 \in 1..Len(q)
  BY <1>1, TailIs
<1>3. Head(rt.micro) = rt.micro[1] /\ 1 \in 1..Len(rt.micro)
  BY <1>2 DEF q
<1>4. CASE Up(rt, drain) \/ Refused(rt, waiting, drain)
  <2>1. rt.micro[1].kind \in {"ensured", "settled"}
    BY <1>3, <1>4 DEF Up, Refused, IsEnsured, Task
  <2> QED BY <1>3, <2>1
<1>5. CASE \E w \in Workers, ok \in BOOLEAN : Told(rt, w, ok, waiting, drain)
  <2>1. PICK w \in Workers, ok \in BOOLEAN : Told(rt, w, ok, waiting, drain)
    BY <1>5
  <2>2. Head(rt.micro) = Task("load", w, ok) /\ Task("load", w, ok).kind = "load"
    BY <2>1 DEF Told, Task
  <2> QED BY <2>1, <2>2
<1>6. CASE \E ok \in BOOLEAN : Answered(rt, ok, drain)
  <2>1. PICK ok \in BOOLEAN : Answered(rt, ok, drain)
    BY <1>6
  <2>2. Head(rt.micro).kind = "answered" /\ Head(rt.micro).ok = ok
    BY <2>1 DEF Answered, Over, Task
  <2> QED BY <2>1, <2>2
<1>7. CASE \E ok \in BOOLEAN : Settling(rt, ok, drain)
  <2>1. Head(rt.micro).kind = "settled"
    BY <1>7 DEF Settling, Over, Task
  <2> QED BY <2>1
<1>8. ~Resting(rt, drain) /\ ~Loading(rt, waiting, drain)
  BY DEF Resting, Loading
<1> QED BY <1>0, <1>4, <1>5, <1>6, <1>7, <1>8 DEF Mode

LEMMA LoadSettledStep ==
    ASSUME RtInv, LoadSettled
    PROVE  RtInv'
<1>0. /\ Inv(rt, call, waiting, drain, faults) /\ rt \in Runtimes
      /\ rt.status \in Status /\ rt.awaiting \in [Workers -> Seq(Calls \cup {None})]
  BY TypedIs DEF RtInv, Inv, Typed
<1>1. /\ rt.micro # <<>> /\ Head(rt.micro).kind = "load"
      /\ call' = call /\ waiting' = waiting /\ drain' = drain /\ faults' = faults
  BY DEF LoadSettled, Runs
<1>2. PICK w \in Workers, ok \in BOOLEAN :
        Told(rt, w, ok, waiting, drain) /\ Head(rt.micro) = Task("load", w, ok)
  BY <1>1, HeadModes
<1>3. Head(rt.micro).who = w /\ Head(rt.micro).ok = ok /\ Tail(rt.micro) = <<>>
  <2>1. rt.micro = <<Task("load", w, ok)>>
    BY <1>2 DEF Told
  <2> QED BY <1>2, <2>1 DEF Task
<1> DEFINE told == Awaiters(rt, w, ok)
           awaiting == [rt.awaiting EXCEPT ![w] = <<>>]
           r == [Ran(rt) EXCEPT !.micro = @ \o Awaiters(rt, w, ok), !.awaiting[w] = <<>>]
           r1 == [Ran(rt) EXCEPT !.micro = told]
           r2 == [r1 EXCEPT !.awaiting = awaiting]
           fulfilled == IF ok THEN rt.fulfilled \cup {w} ELSE rt.fulfilled
           status == IF ~ok THEN "failed" ELSE IF w \in rt.quiet THEN rt.status ELSE "ready"
           promise == IF ok THEN rt.promise ELSE None
<1>4. <<>> \o told = told
  <2>1. rt.awaiting[w] \in Seq(Calls \cup {None})
    BY <1>0
  <2>2. told \in Seq({Task("ensured", x, ok) : x \in Calls \cup {None}})
    BY <2>1 DEF Awaiters
  <2> HIDE DEF told
  <2> QED BY <2>2
<1>5. Fields(Ran(rt), rt.worker, rt.promise, rt.status, rt.engine, rt.quiet, rt.fulfilled,
             rt.pending, rt.awaiting, rt.watched, <<>>)
  BY <1>0, <1>3, RanIs
<1>6. r = r2
  <2>1. Ran(rt).micro = <<>> /\ Ran(rt).awaiting = rt.awaiting
    BY <1>5 DEF Fields
  <2>2. r = [Ran(rt) EXCEPT !.micro = <<>> \o Awaiters(rt, w, ok), !.awaiting = awaiting]
    BY <2>1
  <2> QED BY <1>4, <2>2
<1> HIDE DEF told, awaiting, fulfilled, status, promise
<1>7. Fields(r1, rt.worker, rt.promise, rt.status, rt.engine, rt.quiet, rt.fulfilled,
             rt.pending, rt.awaiting, rt.watched, told)
  BY <1>5, FieldSet
<1> HIDE DEF r1
<1>8. Fields(r2, rt.worker, rt.promise, rt.status, rt.engine, rt.quiet, rt.fulfilled,
             rt.pending, awaiting, rt.watched, told)
  BY <1>7, FieldSet
<1>9. rt' = IF ok THEN [r EXCEPT !.fulfilled = @ \cup {w},
                                 !.status = IF w \in r.quiet THEN @ ELSE "ready"]
                  ELSE [r EXCEPT !.status = "failed", !.promise = None]
  BY <1>3 DEF LoadSettled
<1>10. Fields(rt', rt.worker, promise, status, rt.engine, rt.quiet, fulfilled, rt.pending,
              awaiting, rt.watched, told)
  <2> HIDE DEF r, r2
  <2>0. r.status = rt.status /\ r.quiet = rt.quiet /\ r.fulfilled = rt.fulfilled
    BY <1>6, <1>8 DEF Fields
  <2> DEFINE r3 == [r EXCEPT !.status = status]
  <2>1. Fields(r3, rt.worker, rt.promise, status, rt.engine, rt.quiet, rt.fulfilled,
               rt.pending, awaiting, rt.watched, told)
    BY <1>6, <1>8, FieldSet
  <2>2. CASE ok
    <3>1. rt' = [r3 EXCEPT !.fulfilled = fulfilled]
      BY <1>9, <2>0, <2>2 DEF status, fulfilled
    <3> HIDE DEF r3
    <3>2. Fields([r3 EXCEPT !.fulfilled = fulfilled], rt.worker, rt.promise, status, rt.engine,
                 rt.quiet, fulfilled, rt.pending, awaiting, rt.watched, told)
      BY <2>1, FieldSet
    <3> QED BY <2>2, <3>1, <3>2 DEF promise
  <2>3. CASE ~ok
    <3>1. rt' = [r3 EXCEPT !.promise = None]
      BY <1>9, <2>0, <2>3 DEF status
    <3> HIDE DEF r3
    <3>2. Fields([r3 EXCEPT !.promise = None], rt.worker, None, status, rt.engine,
                 rt.quiet, rt.fulfilled, rt.pending, awaiting, rt.watched, told)
      BY <2>1, FieldSet
    <3>3. promise = None /\ fulfilled = rt.fulfilled
      BY <2>3 DEF promise, fulfilled
    <3> QED BY <3>1, <3>2, <3>3
  <2> QED BY <2>2, <2>3
<1>11. status \in Status /\ (~ok => status = "failed")
  BY <1>0 DEF status, Status
<1>12. Inv(rt', call, waiting, drain, faults)
  <2>1. Fields(rt', rt.worker, IF ok THEN rt.promise ELSE None, status, rt.engine, rt.quiet,
               IF ok THEN rt.fulfilled \cup {w} ELSE rt.fulfilled, rt.pending,
               [rt.awaiting EXCEPT ![w] = <<>>], rt.watched, Awaiters(rt, w, ok))
    BY <1>10 DEF promise, fulfilled, awaiting, told
  <2> QED BY <1>0, <1>2, <1>11, <2>1, LoadSettledKeeps
<1> QED BY <1>1, <1>12 DEF RtInv

LEMMA DrainEnsuredStep ==
    ASSUME RtInv, DrainEnsured
    PROVE  RtInv' /\ (Head(rt.micro).ok => rt.worker # None)
<1>0. /\ Inv(rt, call, waiting, drain, faults) /\ rt \in Runtimes /\ drain \in Drains
      /\ Engines(rt)
  BY DEF RtInv, Inv, Typed
<1>1. /\ rt.micro # <<>> /\ Head(rt.micro).kind = "ensured" /\ Head(rt.micro).who = None
      /\ call' = call /\ waiting' = waiting /\ faults' = faults
  BY DEF DrainEnsured, Runs
<1>2. Popped(rt, waiting, drain, Ran(rt), Head(rt.micro))
  BY <1>0, <1>1, RanIs, EnsuredPopped DEF Fields
<1>3. Fields(Ran(rt), rt.worker, rt.promise, rt.status, rt.engine, rt.quiet, rt.fulfilled,
             rt.pending, rt.awaiting, rt.watched, Tail(rt.micro))
  BY <1>0, RanIs
<1>4. CASE Head(rt.micro).ok
  <2>1. Head(rt.micro).ok = TRUE
    BY <1>2, <1>4 DEF Popped
  <2>2. rt.worker # None
    BY <1>0, <1>2, <1>4, Numbers DEF Popped, Up, Engines
  <2>3. drain' \in Drains /\ drain'.pc = "rendering" /\ drain'.job = drain.job
    BY <1>0, <1>4, DrainAt DEF DrainEnsured
  <2> DEFINE pending == Append(rt.pending, <<rt.worker, "render">>)
             r1 == [Ran(rt) EXCEPT !.watched = Watchdog]
  <2>4. rt' = [r1 EXCEPT !.pending = pending]
    <3>1. rt' = [Ran(rt) EXCEPT !.watched = Watchdog,
                                !.pending = Append(@, <<rt.worker, "render">>)]
      BY <1>4, <2>2 DEF DrainEnsured
    <3>2. Ran(rt).pending = rt.pending
      BY <1>3 DEF Fields
    <3> QED BY <3>1, <3>2
  <2> HIDE DEF pending
  <2>5. Fields(r1, rt.worker, rt.promise, rt.status, rt.engine, rt.quiet, rt.fulfilled,
               rt.pending, rt.awaiting, Watchdog, Tail(rt.micro))
    BY <1>3, FieldSet
  <2> HIDE DEF r1
  <2>6. Fields(rt', rt.worker, rt.promise, rt.status, rt.engine, rt.quiet, rt.fulfilled,
               Append(rt.pending, <<rt.worker, "render">>), rt.awaiting, Watchdog, Tail(rt.micro))
    BY <2>4, <2>5, FieldSet DEF pending
  <2>7. Watchdog \in BOOLEAN
    OBVIOUS
  <2>8. Inv(rt', call, waiting, drain', faults)
    BY <1>0, <1>1, <2>1, <2>3, <2>6, <2>7, DrainRendersKeeps
  <2> QED BY <1>1, <2>2, <2>8 DEF RtInv
<1>5. CASE ~Head(rt.micro).ok
  <2>1. Head(rt.micro).ok = FALSE
    BY <1>2, <1>5 DEF Popped
  <2>2. drain' \in Drains /\ drain'.pc = "settling" /\ drain'.job = drain.job
    BY <1>0, <1>5, DrainAt DEF DrainEnsured
  <2>3. rt' = Later(Ran(rt), Task("settled", None, FALSE))
    BY <1>5 DEF DrainEnsured
  <2> DEFINE task == Task("settled", None, FALSE)
             queue == Append(Tail(rt.micro), task)
             r1 == Ran(rt)
  <2>4. rt' = [r1 EXCEPT !.micro = queue]
    <3>1. r1.micro = Tail(rt.micro)
      BY <1>3 DEF Fields
    <3> HIDE DEF task, r1
    <3>2. rt' = Later(r1, task)
      BY <2>3 DEF r1, task
    <3>3. Later(r1, task) = [r1 EXCEPT !.micro = Append(r1.micro, task)]
      BY DEF Later
    <3> QED BY <3>1, <3>2, <3>3
  <2>5. Fields(rt', rt.worker, rt.promise, rt.status, rt.engine, rt.quiet, rt.fulfilled,
               rt.pending, rt.awaiting, rt.watched,
               Append(Tail(rt.micro), Task("settled", None, FALSE)))
    <3>1. Fields(r1, rt.worker, rt.promise, rt.status, rt.engine, rt.quiet, rt.fulfilled,
                 rt.pending, rt.awaiting, rt.watched, Tail(rt.micro))
      BY <1>3
    <3> HIDE DEF queue, r1
    <3>2. Fields([r1 EXCEPT !.micro = queue], rt.worker, rt.promise, rt.status, rt.engine,
                 rt.quiet, rt.fulfilled, rt.pending, rt.awaiting, rt.watched, queue)
      BY <3>1, FieldSet
    <3> QED BY <2>4, <3>2 DEF queue
  <2>6. Inv(rt', call, waiting, drain', faults)
    BY <1>0, <1>1, <2>1, <2>2, <2>5, DrainRefusedKeeps
  <2> QED BY <1>1, <1>5, <2>6 DEF RtInv
<1> QED BY <1>4, <1>5

LEMMA RenderReturnsStep ==
    ASSUME RtInv, RenderReturns
    PROVE  RtInv'
<1>0. Inv(rt, call, waiting, drain, faults) /\ rt \in Runtimes /\ drain \in Drains
  BY DEF RtInv, Inv, Typed
<1>1. /\ rt.micro # <<>> /\ Head(rt.micro).kind = "answered"
      /\ call' = call /\ waiting' = waiting /\ faults' = faults
      /\ drain' = [drain EXCEPT !.pc = "settling"]
      /\ rt' = Later([Ran(rt) EXCEPT !.watched = FALSE], Task("settled", None, Head(rt.micro).ok))
  BY DEF RenderReturns, Runs
<1>2. PICK ok \in BOOLEAN : Answered(rt, ok, drain) /\ Head(rt.micro).ok = ok
  BY <1>1, HeadModes
<1>3. Tail(rt.micro) = <<>>
  BY <1>2 DEF Answered, Over
<1>4. Fields(Ran(rt), rt.worker, rt.promise, rt.status, rt.engine, rt.quiet, rt.fulfilled,
             rt.pending, rt.awaiting, rt.watched, <<>>)
  BY <1>0, <1>3, RanIs
<1> DEFINE r1 == [Ran(rt) EXCEPT !.watched = FALSE]
           task == Task("settled", None, ok)
<1>5. Fields(r1, rt.worker, rt.promise, rt.status, rt.engine, rt.quiet, rt.fulfilled,
             rt.pending, rt.awaiting, FALSE, <<>>)
  BY <1>4, FieldSet
<1>6. rt' = Later(r1, task)
  BY <1>1, <1>2
<1> HIDE DEF r1, task
<1>7. rt' = [r1 EXCEPT !.micro = <<task>>]
  <2>1. r1.micro = <<>> /\ Append(<<>>, task) = <<task>>
    BY <1>5 DEF Fields
  <2> QED BY <1>6, <2>1 DEF Later
<1>8. Fields(rt', rt.worker, rt.promise, rt.status, rt.engine, rt.quiet, rt.fulfilled,
             rt.pending, rt.awaiting, FALSE, <<Task("settled", None, ok)>>)
  BY <1>5, <1>7, FieldSet DEF task
<1>9. drain' \in Drains /\ drain'.pc = "settling" /\ drain'.job = drain.job
  BY <1>0, <1>1, DrainAt
<1>10. Inv(rt', call, waiting, drain', faults)
  BY <1>0, <1>2, <1>8, <1>9, RenderReturnsKeeps
<1> QED BY <1>1, <1>10 DEF RtInv

\* Where a throw is possible, no worker is asked for: never while one is up.
LEMMA CallEnsuredStep ==
    ASSUME NEW throws \in BOOLEAN, RtInv, CallEnsured(throws)
    PROVE  /\ RtInv' /\ ~throws /\ rt'.status = rt.status
           /\ \/ rt'.micro = Tail(rt.micro)
              \/ rt'.micro = Append(Tail(rt.micro), Task("ensured", None, TRUE))
<1>0. /\ Inv(rt, call, waiting, drain, faults) /\ rt \in Runtimes /\ call \in CallStates
      /\ waiting \in Seq(Calls) /\ faults \in 0..MaxFaults /\ Drain(rt, waiting, drain)
  BY DEF RtInv, Inv, Typed
<1>1. /\ rt.micro # <<>> /\ Head(rt.micro).kind = "ensured" /\ Head(rt.micro).who # None
      /\ Fault(throws)
  BY DEF CallEnsured, Runs
<1>2. Popped(rt, waiting, drain, Ran(rt), Head(rt.micro))
  BY <1>0, <1>1, RanIs, EnsuredPopped DEF Fields
<1>3. PICK n \in Calls : Head(rt.micro).who = n
  BY <1>1, <1>2 DEF Popped
<1>4. /\ Ran(rt).promise = rt.promise /\ Ran(rt).fulfilled = rt.fulfilled /\ Ran(rt) \in Runtimes
      /\ Ran(rt).status = rt.status /\ Ran(rt).micro = Tail(rt.micro)
  <2> DEFINE q == rt.micro
  <2>0. q \in Seq(Micro) /\ q # <<>>
    BY <1>0, <1>1 DEF Runtimes
  <2> HIDE DEF q
  <2>1. Tail(q) \in Seq(Micro)
    BY <2>0, TailIs
  <2>2. Tail(rt.micro) \in Seq(Micro)
    BY <2>1 DEF q
  <2>3. Fields(Ran(rt), rt.worker, rt.promise, rt.status, rt.engine, rt.quiet, rt.fulfilled,
               rt.pending, rt.awaiting, rt.watched, Tail(rt.micro))
    BY <1>0, RanIs
  <2>4. Ran(rt) \in Runtimes
    BY <1>0, <2>2, <2>3 DEF Fields, Runtimes
  <2> QED BY <2>3, <2>4 DEF Fields
<1>5. CASE Head(rt.micro).ok
  <2>1. Head(rt.micro).ok = TRUE
    BY <1>2, <1>5 DEF Popped
  <2>2. call' = [call EXCEPT ![n].pc = "queued"]
    BY <1>3, <1>5 DEF CallEnsured
  <2>3. Moved(call, n, "queued", call')
    BY <1>0, <2>2, MovedIs
  <2>4. ~throws /\ faults' = faults
    BY <1>0, <1>1, <1>2, <1>5, FaultIs, Numbers DEF Popped, Up
  <2>5. CASE drain.pc = "off"
    <3>1. waiting = <<>> /\ Append(waiting, n) = <<n>> /\ <<n>> # <<>>
      BY <1>0, <2>5 DEF Drain
    <3>2. /\ rt' = Await(Ran(rt), None, throws) /\ waiting' = <<>>
          /\ drain' = [pc |-> "ensuring", job |-> <<n>>]
      BY <1>3, <1>5, <2>5, <3>1 DEF CallEnsured, TakeJob
    <3>3. Turn(Ran(rt), call', <<>>, drain', faults, None) /\ Up(Ran(rt), drain')
      BY <1>0, <1>1, <1>3, <2>1, <2>3, <2>5, <3>2, CallDrainKeeps
    <3>4. EnsuredLater(Ran(rt), Ran(rt).status, None, TRUE, rt')
      BY <1>4, <3>2, <3>3, AwaitFulfilled, Numbers DEF Up
    <3>5. Inv(rt', call', <<>>, drain', faults)
      BY <3>3, <3>4, AwaitFulfilledKeeps
    <3>6. /\ rt'.status = rt.status
          /\ rt'.micro = Append(Tail(rt.micro), Task("ensured", None, TRUE))
      BY <1>4, <3>4 DEF EnsuredLater, Fields
    <3> QED BY <2>4, <3>2, <3>5, <3>6 DEF RtInv
  <2>6. CASE drain.pc # "off"
    <3>1. rt' = Ran(rt) /\ waiting' = Append(waiting, n) /\ drain' = drain
      BY <1>3, <1>5, <2>6 DEF CallEnsured
    <3>2. Inv(Ran(rt), call', Append(waiting, n), drain, faults)
      BY <1>0, <1>1, <1>3, <2>1, <2>3, <2>6, CallQueuedKeeps
    <3> QED BY <1>4, <2>4, <3>1, <3>2 DEF RtInv
  <2> QED BY <2>5, <2>6
<1>6. CASE ~Head(rt.micro).ok
  <2>1. Head(rt.micro).ok = FALSE
    BY <1>2, <1>6 DEF Popped
  <2>2. /\ call' = [call EXCEPT ![n].pc = "rejected"] /\ ~throws
        /\ rt' = Ran(rt) /\ waiting' = waiting /\ drain' = drain
    BY <1>3, <1>6 DEF CallEnsured
  <2>3. Moved(call, n, "rejected", call')
    BY <1>0, <2>2, MovedIs
  <2>4. faults' = faults
    BY <1>0, <1>1, <2>2, FaultIs
  <2>5. Inv(Ran(rt), call', waiting, drain, faults)
    BY <1>0, <1>1, <1>3, <2>1, <2>3, CallRejectedKeeps
  <2> QED BY <1>4, <2>2, <2>4, <2>5 DEF RtInv
<1> QED BY <1>5, <1>6

\* The calls of the job, and no other, are told the input of the newest.
LEMMA SettleIs ==
    ASSUME RtInv, drain.job # <<>>, NEW ok \in BOOLEAN, Settle(ok)
    PROVE  JobTold(call, drain, ok, call') /\ JobInput \in Inputs
<1>0. call \in CallStates /\ drain \in Drains
  BY DEF RtInv, Inv, Typed
<1>1. JobInput \in Inputs
  <2> DEFINE job == drain.job
  <2>1. job \in Seq(Calls) /\ job # <<>>
    BY <1>0 DEF Drains
  <2> HIDE DEF job
  <2>2. Last(job) \in Calls
    BY <2>1 DEF Last
  <2>3. call[Last(job)].input \in Inputs
    BY <1>0, <2>2 DEF CallStates
  <2> QED BY <2>3 DEF JobInput, job
<1>2. \A n \in Calls : Contains(drain.job, n) <=> In(drain.job, n)
  BY DEF Contains, In
<1> DEFINE pc == IF ok THEN "resolved" ELSE "rejected"
           result == JobInput
<1>3. ASSUME NEW n \in Calls
      PROVE  call'[n] = IF In(drain.job, n)
                THEN [pc |-> pc, input |-> call[n].input, result |-> result]
                ELSE call[n]
  BY <1>2 DEF Settle
<1>4. pc \in {"resolved", "rejected"} /\ result \in Inputs
  BY <1>1
<1>5. call' = [n \in Calls |-> call'[n]]
  BY DEF Settle
<1> HIDE DEF pc, result
<1>6. ASSUME NEW n \in Calls
      PROVE  /\ call'[n] \in [pc: {"none", "ensuring", "queued", "resolved", "rejected", "over"},
                              input: Inputs, result: Inputs]
             /\ call'[n].pc = IF In(drain.job, n) THEN pc ELSE call[n].pc
  <2>1. call[n] \in [pc: {"none", "ensuring", "queued", "resolved", "rejected", "over"},
                     input: Inputs, result: Inputs]
    BY <1>0 DEF CallStates
  <2>2. CASE In(drain.job, n)
    <3>1. call'[n] = [pc |-> pc, input |-> call[n].input, result |-> result]
      BY <1>3, <2>2
    <3> QED BY <1>4, <2>1, <2>2, <3>1
  <2>3. CASE ~In(drain.job, n)
    BY <1>3, <2>1, <2>3
  <2> QED BY <2>2, <2>3
<1>7. call' \in CallStates
  BY <1>5, <1>6 DEF CallStates
<1>8. \A n \in Calls : call'[n].pc = IF In(drain.job, n) THEN IF ok THEN "resolved" ELSE "rejected"
                                     ELSE call[n].pc
  BY <1>6 DEF pc
<1> QED BY <1>1, <1>7, <1>8 DEF JobTold

LEMMA DrainSettledStep ==
    ASSUME NEW throws \in BOOLEAN, RtInv, DrainSettled(throws)
    PROVE  RtInv' /\ drain.job # <<>>
<1>0. /\ Inv(rt, call, waiting, drain, faults) /\ rt \in Runtimes /\ rt.micro \in Seq(Micro)
      /\ faults \in 0..MaxFaults /\ Drain(rt, waiting, drain)
  BY TypedIs DEF RtInv, Inv, Typed
<1>1. /\ rt.micro # <<>> /\ Head(rt.micro).kind = "settled" /\ Fault(throws)
      /\ waiting' = <<>> /\ Settle(Head(rt.micro).ok) /\ TakeJob(Ran(rt), waiting, throws)
  BY DEF DrainSettled, Runs
<1>2. /\ throws => rt.promise = None
      /\ faults' = IF throws THEN faults + 1 ELSE faults
      /\ faults' \in 0..MaxFaults
  BY <1>0, <1>1, FaultIs
<1>3. Head(rt.micro).ok \in BOOLEAN
  <2> DEFINE q == rt.micro
  <2>0. q \in Seq(Micro) /\ q # <<>>
    BY <1>0, <1>1
  <2> HIDE DEF q
  <2>1. Head(q) \in Micro
    BY <2>0, TailIs
  <2>2. Head(q).ok \in BOOLEAN
    BY <2>1, MicroIs
  <2> QED BY <2>2 DEF q
<1>4. drain.job # <<>>
  <2> DEFINE q == rt.micro
  <2>0. q \in Seq(Micro) /\ q # <<>>
    BY <1>0, <1>1
  <2> HIDE DEF q
  <2>1. Head(q) = q[1] /\ 1 \in 1..Len(q)
    BY <2>0, TailIs
  <2>2. rt.micro[1].kind = "settled" /\ 1 \in 1..Len(rt.micro)
    BY <1>1, <2>1 DEF q
  <2>3. SUFFICES ASSUME drain.pc = "off" PROVE FALSE
    BY <1>0 DEF Drain
  <2>4. ~Resting(rt, drain) /\ ~Loading(rt, waiting, drain)
    BY <1>1 DEF Resting, Loading
  <2>5. \A w \in Workers, ok \in BOOLEAN : ~Told(rt, w, ok, waiting, drain)
    BY <2>2 DEF Told, Task
  <2>6. ~Up(rt, drain) /\ ~Refused(rt, waiting, drain)
    BY <2>2, <2>3 DEF Up, Refused, IsEnsured
  <2>7. \A ok \in BOOLEAN : ~Answered(rt, ok, drain) /\ ~Settling(rt, ok, drain)
    BY <2>3 DEF Answered, Settling, Over
  <2> QED BY <1>0, <2>4, <2>5, <2>6, <2>7 DEF Inv, Mode
<1>5. PICK ok \in BOOLEAN : JobTold(call, drain, ok, call')
  BY <1>1, <1>3, <1>4, SettleIs
<1>6. SettledPopped(rt, call, waiting, drain, faults, call', Ran(rt))
  BY <1>0, <1>1, <1>5, JobIsSettled
<1>7. JobTold(call, drain, TRUE, call') \/ JobTold(call, drain, FALSE, call')
  BY <1>5
<1>8. CASE waiting = <<>>
  <2>1. rt' = Ran(rt) /\ drain' = [pc |-> "off", job |-> <<>>] /\ ~throws
    BY <1>1, <1>8 DEF TakeJob
  <2>2. Inv(Ran(rt), call', <<>>, drain', faults)
    BY <1>0, <1>6, <1>7, <1>8, <2>1, DrainEndsKeeps
  <2>3. faults' = faults
    BY <1>2, <2>1
  <2> QED BY <1>1, <1>4, <2>1, <2>2, <2>3 DEF RtInv
<1>9. CASE waiting # <<>>
  <2>1. rt' = Await(Ran(rt), None, throws) /\ drain' = [pc |-> "ensuring", job |-> waiting]
    BY <1>1, <1>9 DEF TakeJob
  <2>2. /\ Turn(Ran(rt), call', <<>>, drain', faults, None)
        /\ Free(Ran(rt), <<>>, drain') \/ Up(Ran(rt), drain')
    BY <1>0, <1>6, <1>7, <1>9, <2>1, DrainGoesOn
  <2>3. throws => Ran(rt).promise = None
    BY <1>2, <1>6 DEF SettledPopped
  <2>4. Inv(Await(Ran(rt), None, throws), call', <<>>, drain', faults')
    BY <1>2, <2>2, <2>3, AwaitKeeps
  <2> QED BY <1>1, <1>4, <2>1, <2>4 DEF RtInv
<1> QED BY <1>8, <1>9

\* The callbacks of the pane put calls away, and an upload may fail.
LEMMA CallOverStep ==
    ASSUME RtInv, NEW n \in Calls, call[n].pc \in {"resolved", "rejected"},
           call' = [call EXCEPT ![n].pc = "over"], UNCHANGED <<rt, waiting, drain, faults>>
    PROVE  RtInv'
<1>0. /\ Inv(rt, call, waiting, drain, faults) /\ Typed(rt, call, waiting, drain, faults)
      /\ call \in CallStates
  BY DEF RtInv, Inv, Typed
<1>1. Moved(call, n, "over", call')
  BY <1>0, MovedIs
<1>2. /\ call' \in CallStates
      /\ \A m \in Calls : \A pc \in {"none", "ensuring", "queued"} :
            call'[m].pc = pc <=> call[m].pc = pc
  BY <1>1 DEF Moved
<1>3. Typed(rt, call', waiting, drain, faults)
  BY <1>0, <1>2 DEF Typed
<1>4. Line(rt, call', drain)
  <2>1. \A m \in Calls : call'[m].pc = "ensuring" <=> call[m].pc = "ensuring"
    BY <1>2
  <2> QED BY <1>0, <2>1 DEF Inv, Line
<1>5. Queue(call', waiting, drain)
  <2>1. \A m \in Calls : /\ call'[m].pc = "ensuring" <=> call[m].pc = "ensuring"
                         /\ call'[m].pc = "queued" <=> call[m].pc = "queued"
                         /\ call'[m].pc = "none" <=> call[m].pc = "none"
    BY <1>2
  <2> QED BY <1>0, <2>1 DEF Inv, Queue
<1>6. Count(rt, call', waiting, drain, faults)
  <2>1. \A m \in Calls : call'[m].pc \in {"none", "ensuring"} <=> call[m].pc \in {"none", "ensuring"}
    BY <1>2
  <2> QED BY <1>0, <2>1 DEF Inv, Count
<1> QED BY <1>0, <1>3, <1>4, <1>5, <1>6 DEF Inv, RtInv

LEMMA FaultStep ==
    ASSUME RtInv, faults < MaxFaults, faults' = faults + 1, UNCHANGED <<rt, call, waiting, drain>>
    PROVE  RtInv'
<1>0. /\ Inv(rt, call, waiting, drain, faults) /\ Typed(rt, call, waiting, drain, faults)
      /\ faults \in Nat /\ faults' \in 0..MaxFaults
  BY Numbers DEF RtInv, Inv, Typed
<1>1. Typed(rt, call, waiting, drain, faults')
  BY <1>0 DEF Typed
<1>2. faults + Slack(rt) <= faults' + Slack(rt)
  BY <1>0 DEF Slack
<1>3. Count(rt, call, waiting, drain, faults')
  BY <1>0, <1>1, <1>2, CountStays DEF Inv
<1>4. Inv(rt, call, waiting, drain, faults')
  BY <1>0, <1>1, <1>3 DEF Inv
<1> QED BY <1>4 DEF RtInv

-----------------------------------------------------------------------------
(***************************************************************************)
(* The types of the pane's variables.                                      *)
(***************************************************************************)
Stages == [Calls -> [pc: {"none", "awaiting", "digest", "compare", "over"},
                     edits: 0..MaxEdits, digest: Optional, now: Optional, asset: Optional]]

PaneTyped ==
    /\ input \in [value: Inputs, edits: 0..MaxEdits, seen: SUBSET Inputs]
    /\ shown \in [status: Status \cup {"unmounted"}, value: Inputs, edits: 0..MaxEdits]
    /\ armed \in BOOLEAN
    /\ stage \in Stages
    /\ \A n \in Calls : stage[n].pc \in {"digest", "compare"} => stage[n].digest \in Digests
    /\ rendered \in Output \cup {NoOutput}
    /\ sent \subseteq Digests
    /\ uploads \in Seq(Output)
    /\ row \in Output \cup {NoOutput}
    /\ asset \in Optional
    /\ error \in [render: BOOLEAN, save: Output \cup {NoOutput}]

\* Every input is the digest of itself, and no digest is the missing one.
LEMMA InputsAreDigests ==
    /\ Inputs \subseteq Digests
    /\ NoInput \notin Digests
    /\ \A i, j \in Inputs : <<i[1], j[2]>> \in Digests
    /\ \A o \in Output : o # NoOutput /\ o.digest \in Digests /\ o.picture \in Inputs
<1>1. \A i, j \in Inputs : <<i[1], j[2]>> \in Digests
  BY DEF Digests
<1>2. ASSUME NEW i \in Inputs PROVE i \in Digests
  <2>1. i = <<i[1], i[2]>>
    BY PairAssumption
  <2> QED BY <1>1, <2>1
<1>3. NoInput \notin Digests
  BY NoInputAssumption DEF Digests
<1> HIDE DEF Digests
<1>4. \A o \in Output : o.digest \in Digests /\ o.picture \in Inputs
  BY DEF Output
<1>5. NoOutput.digest = NoInput
  BY DEF NoOutput
<1> QED BY <1>1, <1>2, <1>3, <1>4, <1>5

LEMMA RemoveAtIs ==
    ASSUME NEW S, NEW q \in Seq(S), NEW i \in DOMAIN q
    PROVE  /\ RemoveAt(q, i) \in Seq(S) /\ Len(RemoveAt(q, i)) = Len(q) - 1
           /\ \A j \in 1..(Len(q) - 1) :
                RemoveAt(q, i)[j] = IF j < i THEN q[j] ELSE q[j + 1]
<1>1. i \in Nat /\ i >= 1 /\ i <= Len(q) /\ Len(q) \in Nat
  OBVIOUS
<1> DEFINE a == SubSeq(q, 1, i - 1)
           b == SubSeq(q, i + 1, Len(q))
<1>2. a \in Seq(S) /\ Len(a) = i - 1 /\ \A j \in 1..(i - 1) : a[j] = q[j]
  BY <1>1
<1>3. b \in Seq(S) /\ Len(b) = Len(q) - i /\ \A j \in 1..(Len(q) - i) : b[j] = q[i + j]
  BY <1>1
<1>4. RemoveAt(q, i) = a \o b
  BY DEF RemoveAt
<1> HIDE DEF a, b
<1>5. a \o b \in Seq(S) /\ Len(a \o b) = Len(q) - 1
  BY <1>1, <1>2, <1>3
<1>6. ASSUME NEW j \in 1..(Len(q) - 1)
      PROVE  (a \o b)[j] = IF j < i THEN q[j] ELSE q[j + 1]
  <2>1. CASE j < i
    BY <1>1, <1>2, <1>3, <2>1
  <2>2. CASE ~(j < i)
    <3>1. j - Len(a) = j - i + 1 /\ j - i + 1 \in 1..(Len(q) - i) /\ i + (j - i + 1) = j + 1
      BY <1>1, <1>2, <2>2
    <3>2. (a \o b)[j] = b[j - Len(a)]
      BY <1>1, <1>2, <1>3, <2>2
    <3> QED BY <1>3, <2>2, <3>1, <3>2
  <2> QED BY <2>1, <2>2
<1> QED BY <1>4, <1>5, <1>6

LEMMA PaneStarts ==
    ASSUME Init
    PROVE  PaneTyped
<1>1. NoInput \in Optional /\ 0 \in 0..MaxEdits
  BY DEF Optional
<1>2. stage \in Stages /\ \A n \in Calls : stage[n].pc = "none"
  BY <1>1 DEF Init, Stages
<1>3. <<>> \in Seq(Output)
  OBVIOUS
<1>4. PICK i \in Inputs : /\ input = [value |-> i, edits |-> 0, seen |-> {i}]
                         /\ shown = [status |-> "unmounted", value |-> i, edits |-> 0]
  BY DEF Init
<1>5. /\ input \in [value: Inputs, edits: 0..MaxEdits, seen: SUBSET Inputs]
      /\ shown \in [status: Status \cup {"unmounted"}, value: Inputs, edits: 0..MaxEdits]
  BY <1>1, <1>4
<1>6. error \in [render: BOOLEAN, save: Output \cup {NoOutput}]
  BY DEF Init
<1>7. /\ armed \in BOOLEAN /\ rendered \in Output \cup {NoOutput} /\ sent \subseteq Digests
      /\ uploads \in Seq(Output) /\ row \in Output \cup {NoOutput} /\ asset \in Optional
  BY <1>1, <1>3 DEF Init
<1> QED BY <1>2, <1>5, <1>6, <1>7 DEF PaneTyped

LEMMA PaneTypeStep ==
    ASSUME RtInv, PaneTyped, Next
    PROVE  PaneTyped'
<1>0. call \in CallStates /\ rt.status \in Status
  BY TypedIs DEF RtInv, Inv, Typed
<1>00. ASSUME NEW n \in Calls
       PROVE  /\ call[n].input \in Inputs /\ call[n].result \in Inputs
              /\ stage[n] \in [pc: {"none", "awaiting", "digest", "compare", "over"},
                     edits: 0..MaxEdits, digest: Optional, now: Optional, asset: Optional]
  BY <1>0 DEF CallStates, PaneTyped, Stages
<1>1. ASSUME UNCHANGED pane
      PROVE  PaneTyped'
  BY <1>1 DEF pane, PaneTyped
<1>2. CASE Edit
  <2>1. PICK i \in Inputs : input' = [value |-> i, edits |-> input.edits + 1,
                                      seen |-> input.seen \cup {i}]
    BY <1>2 DEF Edit
  <2>2. input.edits < MaxEdits
    BY <1>2 DEF Edit
  <2>3. input' \in [value: Inputs, edits: 0..MaxEdits, seen: SUBSET Inputs]
    BY <2>1, <2>2 DEF PaneTyped
  <2> QED BY <1>2, <2>3 DEF Edit, PaneTyped
<1>3. ASSUME Store(error.save), error.save # NoOutput,
             UNCHANGED <<input, shown, armed, stage, rendered, row, asset>>
      PROVE  PaneTyped'
  <2>1. error.save \in Output /\ error.save.digest \in Digests
    BY <1>3, InputsAreDigests DEF PaneTyped
  <2>2. Append(uploads, error.save) \in Seq(Output) /\ sent \cup {error.save.digest} \subseteq Digests
    BY <2>1 DEF PaneTyped
  <2>3. [error EXCEPT !.save = NoOutput] \in [render: BOOLEAN, save: Output \cup {NoOutput}]
    BY DEF PaneTyped
  <2> QED BY <1>3, <2>2, <2>3 DEF Store, PaneTyped
<1>4. ASSUME NEW throws \in BOOLEAN, PaneRenders(throws)
      PROVE  PaneTyped'
  <2>1. shown' \in [status: Status \cup {"unmounted"}, value: Inputs, edits: 0..MaxEdits]
        /\ armed' \in BOOLEAN
    BY <1>0, <1>4 DEF PaneRenders, PaneTyped
  <2> QED BY <1>4, <2>1 DEF PaneRenders, PaneTyped
<1>5. ASSUME NEW throws \in BOOLEAN, NEW n \in Calls, TimerFires(n, throws)
      PROVE  PaneTyped'
  <2>1. stage' = [stage EXCEPT ![n] = [stage[n] EXCEPT !.pc = "awaiting", !.edits = shown.edits]]
    BY <1>5 DEF TimerFires, PaneTyped, Stages
  <2>2. [stage[n] EXCEPT !.pc = "awaiting", !.edits = shown.edits]
            \in [pc: {"none", "awaiting", "digest", "compare", "over"},
                 edits: 0..MaxEdits, digest: Optional, now: Optional, asset: Optional]
    BY <1>00 DEF PaneTyped
  <2>3. /\ stage' \in Stages
        /\ \A m \in Calls : stage'[m].pc \in {"digest", "compare"} => stage'[m].digest \in Digests
    BY <2>1, <2>2 DEF Stages, PaneTyped
  <2> QED BY <1>5, <2>3 DEF TimerFires, PaneTyped
<1>6. ASSUME NEW n \in Calls, PictureComes(n)
      PROVE  PaneTyped'
  <2>0. DigestOf(n) \in Digests
    BY <1>00, InputsAreDigests DEF DigestOf
  <2>1. stage' = [stage EXCEPT ![n] = [stage[n] EXCEPT !.pc = "digest", !.digest = DigestOf(n)]]
    BY <1>6 DEF PictureComes, PaneTyped, Stages
  <2>2. [stage[n] EXCEPT !.pc = "digest", !.digest = DigestOf(n)]
            \in [pc: {"none", "awaiting", "digest", "compare", "over"},
                 edits: 0..MaxEdits, digest: Optional, now: Optional, asset: Optional]
    BY <1>00, <2>0 DEF Optional
  <2>3. [stage[n] EXCEPT !.pc = "digest", !.digest = DigestOf(n)].digest \in Digests
    BY <1>00, <2>0
  <2>4. /\ stage' \in Stages
        /\ \A m \in Calls : stage'[m].pc \in {"digest", "compare"} => stage'[m].digest \in Digests
    BY <2>1, <2>2, <2>3 DEF Stages, PaneTyped
  <2> QED BY <1>6, <2>4 DEF PictureComes, PaneTyped
<1>7. ASSUME NEW n \in Calls, PictureFails(n)
      PROVE  PaneTyped'
  <2>1. stage' = [stage EXCEPT ![n] = [stage[n] EXCEPT !.pc = "over"]]
    BY <1>7 DEF PictureFails, PaneTyped, Stages
  <2>2. [stage[n] EXCEPT !.pc = "over"]
            \in [pc: {"none", "awaiting", "digest", "compare", "over"},
                 edits: 0..MaxEdits, digest: Optional, now: Optional, asset: Optional]
    BY <1>00
  <2>4. /\ stage' \in Stages
        /\ \A m \in Calls : stage'[m].pc \in {"digest", "compare"} => stage'[m].digest \in Digests
    BY <2>1, <2>2 DEF Stages, PaneTyped
  <2>5. [error EXCEPT !.render = TRUE] \in [render: BOOLEAN, save: Output \cup {NoOutput}]
    BY DEF PaneTyped
  <2> QED BY <1>7, <2>4, <2>5 DEF PictureFails, PaneTyped
<1>8. ASSUME NEW n \in Calls, PictureShows(n)
      PROVE  PaneTyped'
  <2>0. stage[n].digest \in Digests /\ shown.value \in Optional /\ asset \in Optional
    BY <1>8, InputsAreDigests DEF PictureShows, PaneTyped, Optional
  <2>1. stage' = [stage EXCEPT ![n] =
                    [stage[n] EXCEPT !.pc = "compare", !.now = shown.value, !.asset = asset]]
    BY <1>8 DEF PictureShows, PaneTyped, Stages
  <2>2. [stage[n] EXCEPT !.pc = "compare", !.now = shown.value, !.asset = asset]
            \in [pc: {"none", "awaiting", "digest", "compare", "over"},
                 edits: 0..MaxEdits, digest: Optional, now: Optional, asset: Optional]
    BY <1>00, <2>0
  <2>3. [stage[n] EXCEPT !.pc = "compare", !.now = shown.value, !.asset = asset].digest \in Digests
    BY <1>00, <2>0
  <2>4. /\ stage' \in Stages
        /\ \A m \in Calls : stage'[m].pc \in {"digest", "compare"} => stage'[m].digest \in Digests
    BY <2>1, <2>2, <2>3 DEF Stages, PaneTyped
  <2>5. [error EXCEPT !.render = FALSE] \in [render: BOOLEAN, save: Output \cup {NoOutput}]
    BY DEF PaneTyped
  <2>6. rendered' \in Output
    BY <1>00, <1>8, <2>0 DEF PictureShows, Output
  <2> QED BY <1>8, <2>4, <2>5, <2>6 DEF PictureShows, PaneTyped
<1>9. ASSUME NEW n \in Calls, HandOver(n)
      PROVE  PaneTyped'
  <2>0. stage[n].digest \in Digests
    BY <1>9 DEF HandOver, PaneTyped
  <2>1. stage' = [stage EXCEPT ![n] = [stage[n] EXCEPT !.pc = "over"]]
    BY <1>9 DEF HandOver, PaneTyped, Stages
  <2>2. [stage[n] EXCEPT !.pc = "over"]
            \in [pc: {"none", "awaiting", "digest", "compare", "over"},
                 edits: 0..MaxEdits, digest: Optional, now: Optional, asset: Optional]
    BY <1>00
  <2>4. /\ stage' \in Stages
        /\ \A m \in Calls : stage'[m].pc \in {"digest", "compare"} => stage'[m].digest \in Digests
    BY <2>1, <2>2 DEF Stages, PaneTyped
  <2> DEFINE output == [picture |-> call[n].result, digest |-> stage[n].digest]
  <2>5. output \in Output /\ output.digest \in Digests
    BY <1>00, <2>0 DEF Output
  <2>6. Store(output) \/ UNCHANGED <<sent, uploads, error>>
    BY <1>9 DEF HandOver
  <2> HIDE DEF output
  <2>7. /\ sent' \subseteq Digests /\ uploads' \in Seq(Output)
        /\ error' \in [render: BOOLEAN, save: Output \cup {NoOutput}]
    <3>1. CASE Store(output)
      <4>1. Append(uploads, output) \in Seq(Output)
        BY <2>5 DEF PaneTyped
      <4>2. [error EXCEPT !.save = NoOutput] \in [render: BOOLEAN, save: Output \cup {NoOutput}]
        BY DEF PaneTyped
      <4> QED BY <2>5, <3>1, <4>1, <4>2 DEF Store, PaneTyped
    <3>2. CASE UNCHANGED <<sent, uploads, error>>
      BY <3>2 DEF PaneTyped
    <3> QED BY <2>6, <3>1, <3>2
  <2> QED BY <1>9, <2>4, <2>7 DEF HandOver, PaneTyped
<1>10. ASSUME NEW i \in DOMAIN uploads, Upload(i) \/ UploadFails(i)
       PROVE  PaneTyped'
  <2>1. uploads[i] \in Output /\ RemoveAt(uploads, i) \in Seq(Output)
    BY RemoveAtIs DEF PaneTyped
  <2>2. uploads[i].digest \in Optional
    BY <2>1, InputsAreDigests DEF Optional
  <2>3. CASE Upload(i)
    BY <2>1, <2>2, <2>3 DEF Upload, PaneTyped
  <2>4. CASE UploadFails(i)
    <3>1. [error EXCEPT !.save = uploads[i]] \in [render: BOOLEAN, save: Output \cup {NoOutput}]
      BY <2>1 DEF PaneTyped
    <3>2. sent \ {uploads[i].digest} \subseteq Digests
      BY DEF PaneTyped
    <3> QED BY <2>1, <2>4, <3>1, <3>2 DEF UploadFails, PaneTyped
  <2> QED BY <1>10, <2>3, <2>4
<1>11. CASE RetrySave
  BY <1>3, <1>11 DEF RetrySave
<1>12. CASE RetryEngine
  BY <1>1, <1>12 DEF RetryEngine
<1> QED BY <1>1, <1>2, <1>4, <1>5, <1>6, <1>7, <1>8, <1>9, <1>10, <1>11, <1>12 DEF Next, CallbackStep

-----------------------------------------------------------------------------
(***************************************************************************)
(* The runtime's invariant, and what it says.                              *)
(***************************************************************************)
LEMMA RuntimeStep ==
    ASSUME RtInv, PaneTyped, Next
    PROVE  RtInv'
<1>1. ASSUME UNCHANGED runtime
      PROVE  RtInv'
  <2>1. rt' = rt /\ call' = call /\ waiting' = waiting /\ drain' = drain /\ faults' = faults
    BY <1>1 DEF runtime
  <2> QED BY <2>1 DEF RtInv
<1>2. CASE Microtask
  BY <1>2, LoadSettledStep, DrainEnsuredStep, RenderReturnsStep, CallEnsuredStep, DrainSettledStep
     DEF Microtask
<1>3. CASE Dispose \/ WorkerError \/ WatchdogStops
  BY <1>3, StopSteps
<1>4. CASE Loaded \/ LoadFails \/ RenderAnswered
  BY <1>4, AnswerSteps
<1>5. CASE Edit \/ RetrySave
  BY <1>1, <1>5 DEF Edit, RetrySave
<1>6. CASE RetryEngine
  <2>1. rt.micro = <<>> /\ Load(FALSE) /\ FALSE \in BOOLEAN
    BY <1>6 DEF RetryEngine
  <2>2. SUFFICES ASSUME NEW throws \in BOOLEAN, throws = FALSE PROVE RtInv'
    BY <2>1
  <2>3. Load(throws)
    BY <2>1, <2>2
  <2> QED BY <2>1, <2>3, LoadStep
<1>7. ASSUME NEW throws \in BOOLEAN, PaneRenders(throws)
      PROVE  RtInv'
  BY <1>1, <1>7, LoadStep DEF PaneRenders
<1>8. ASSUME NEW throws \in BOOLEAN, NEW n \in Calls, TimerFires(n, throws)
      PROVE  RtInv'
  <2>1. shown.value \in Inputs
    BY DEF PaneTyped
  <2> QED BY <1>8, <2>1, RenderStep DEF TimerFires
<1>9. ASSUME NEW n \in Calls, CallbackStep(n)
      PROVE  RtInv'
  <2>1. CASE PictureComes(n)
    BY <2>1, CallOverStep DEF PictureComes
  <2>2. CASE PictureFails(n)
    BY <2>2, CallOverStep DEF PictureFails
  <2>3. CASE PictureShows(n) \/ HandOver(n)
    BY <1>1, <2>3 DEF PictureShows, HandOver
  <2> QED BY <1>9, <2>1, <2>2, <2>3 DEF CallbackStep
<1>10. ASSUME NEW i \in DOMAIN uploads, Upload(i) \/ UploadFails(i)
       PROVE  RtInv'
  <2>1. CASE Upload(i)
    BY <1>1, <2>1 DEF Upload
  <2>2. CASE UploadFails(i)
    BY <2>2, FaultStep DEF UploadFails
  <2> QED BY <1>10, <2>1, <2>2
<1> QED BY <1>2, <1>3, <1>4, <1>5, <1>6, <1>7, <1>8, <1>9, <1>10 DEF Next, WorkerTask

TypedInv == RtInv /\ PaneTyped

LEMMA TypedStarts ==
    ASSUME Init
    PROVE  TypedInv
<1>1. PICK i \in Inputs : TRUE
  BY DEF Init
<1>2. RuntimeInit
  BY DEF Init
<1> QED BY <1>1, <1>2, RuntimeStarts, PaneStarts DEF TypedInv

LEMMA TypedStep ==
    ASSUME TypedInv, [Next]_vars
    PROVE  TypedInv'
<1>1. CASE Next
  BY <1>1, RuntimeStep, PaneTypeStep DEF TypedInv
<1>2. CASE UNCHANGED vars
  BY <1>2 DEF TypedInv, vars, runtime, pane, RtInv, PaneTyped
<1> QED BY <1>1, <1>2

\* The mode of the runtime, its line of waiting calls, the job of the drain
\* loop and the count of workers agree, whatever stops, fails or is thrown.
THEOREM RuntimeInvariant == Spec => []TypedInv
<1>1. Init => TypedInv
  BY TypedStarts
<1>2. TypedInv /\ [Next]_vars => TypedInv'
  BY TypedStep
<1> QED BY <1>1, <1>2, PTL DEF Spec

LEMMA InvTypes ==
    ASSUME TypedInv
    PROVE  TypeOK
<1>1. RuntimeTypeOK
  BY DEF TypedInv, RtInv, Inv, Typed, Runtimes, CallStates, Drains, RuntimeTypeOK
<1> QED BY <1>1 DEF TypedInv, PaneTyped, Stages, TypeOK

\* Every variable keeps its type: in particular there are numbers enough for
\* the workers that are started, one for each fault and each call at most.
THEOREM Types == Spec => []TypeOK
BY RuntimeInvariant, InvTypes, PTL

LEMMA InvOneEngine ==
    ASSUME TypedInv
    PROVE  OneEngine
<1>1. Engines(rt)
  BY DEF TypedInv, RtInv, Inv
<1>2. ASSUME NEW v \in Workers, NEW w \in Workers,
             {rt.engine[v], rt.engine[w]} \subseteq {"loading", "loaded"}
      PROVE  v = w
  <2>1. Live(rt, v) /\ Live(rt, w)
    BY <1>2 DEF Live
  <2> QED BY <1>1, <2>1 DEF Engines
<1> QED BY <1>2 DEF OneEngine

\* Two engines are never loading or loaded at once (the error listener of
\* start, stopWorker, dispose and the quiet restart): the only such engine is
\* the one of loadPromise.
THEOREM OneEngineHolds == Spec => []OneEngine
BY RuntimeInvariant, InvOneEngine, PTL

-----------------------------------------------------------------------------
(***************************************************************************)
(* What a step does to a call.                                             *)
(***************************************************************************)
SameInput(n) == call'[n].input = call[n].input
SameResult(n) == call'[n].result = call[n].result

IsAsked(n) ==
    /\ \E throws \in BOOLEAN : TimerFires(n, throws)
    /\ call[n].pc = "none" /\ call'[n].pc = "ensuring" /\ call'[n].input = shown.value
IsEnsuredNow(n) ==
    /\ call[n].pc = "ensuring" /\ call'[n].pc \in {"queued", "rejected"}
    /\ SameInput(n) /\ SameResult(n)
    /\ Head(rt.micro).who = n /\ (call'[n].pc = "rejected" => ~Head(rt.micro).ok)
    /\ \E throws \in BOOLEAN : CallEnsured(throws)
IsTold(n) ==
    /\ drain.job # <<>> /\ In(drain.job, n)
    /\ call[n].pc = "queued" /\ call'[n].pc \in {"resolved", "rejected"}
    /\ SameInput(n) /\ call'[n].result = JobInput
    /\ call'[n].pc = "resolved" <=> Head(rt.micro).ok
    /\ \E throws \in BOOLEAN : DrainSettled(throws)
IsOver(n) ==
    /\ PictureComes(n) \/ PictureFails(n)
    /\ call[n].pc \in {"resolved", "rejected"} /\ call'[n].pc = "over"
    /\ SameInput(n) /\ SameResult(n)

CallMoves(n) ==
    call'[n] = call[n] \/ IsAsked(n) \/ IsEnsuredNow(n) \/ IsTold(n) \/ IsOver(n)

LEMMA CallStep ==
    ASSUME TypedInv, [Next]_vars, NEW n \in Calls
    PROVE  CallMoves(n)
<1>0. /\ call \in CallStates /\ RtInv /\ Queue(call, waiting, drain)
      /\ Inv(rt, call, waiting, drain, faults) /\ rt \in Runtimes
  BY DEF TypedInv, RtInv, Inv, Typed
<1>1. ASSUME call' = call PROVE CallMoves(n)
  BY <1>1 DEF CallMoves
<1>2. ASSUME NEW m \in Calls, NEW pc, call' = [call EXCEPT ![m].pc = pc]
      PROVE  \/ call'[n] = call[n]
             \/ n = m /\ call'[n].pc = pc /\ SameInput(n) /\ SameResult(n)
  BY <1>0, <1>2 DEF CallStates, SameInput, SameResult
<1>3. ASSUME NEW throws \in BOOLEAN, CallEnsured(throws)
      PROVE  CallMoves(n)
  <2>1. /\ rt.micro # <<>> /\ Head(rt.micro).kind = "ensured" /\ Head(rt.micro).who # None
        /\ call' = [call EXCEPT ![Head(rt.micro).who].pc =
                        IF Head(rt.micro).ok THEN "queued" ELSE "rejected"]
    BY <1>3 DEF CallEnsured, Runs
  <2>2. Popped(rt, waiting, drain, Ran(rt), Head(rt.micro))
    BY <1>0, <2>1, RanIs, EnsuredPopped DEF Fields
  <2>3. PICK m \in Calls : m = Head(rt.micro).who
    BY <2>1, <2>2 DEF Popped
  <2>4. call[m].pc = "ensuring"
    <3>1. Ensured(rt, m)
      BY <2>2, <2>3 DEF Popped
    <3> QED BY <1>0, <3>1 DEF Inv, Line
  <2>5. PICK pc \in {"queued", "rejected"} :
            call' = [call EXCEPT ![m].pc = pc] /\ (pc = "rejected" => ~Head(rt.micro).ok)
    BY <2>1, <2>3
  <2>6. call'[n] = call[n] \/ (n = m /\ call'[n].pc = pc /\ SameInput(n) /\ SameResult(n))
    BY <1>2, <2>5
  <2> QED BY <1>3, <2>3, <2>4, <2>5, <2>6 DEF CallMoves, IsEnsuredNow
<1>4. ASSUME NEW throws \in BOOLEAN, DrainSettled(throws)
      PROVE  CallMoves(n)
  <2>1. drain.job # <<>>
    BY <1>0, <1>4, DrainSettledStep
  <2>2. call' = [k \in Calls |-> IF Contains(drain.job, k)
            THEN [pc |-> IF Head(rt.micro).ok THEN "resolved" ELSE "rejected",
                  input |-> call[k].input, result |-> JobInput]
            ELSE call[k]]
    BY <1>4 DEF DrainSettled, Settle
  <2>3. Contains(drain.job, n) <=> In(drain.job, n)
    BY DEF Contains, In
  <2>4. CASE In(drain.job, n)
    <3>1. call[n].pc = "queued"
      BY <1>0, <2>4 DEF Queue
    <3>2. PICK pc \in {"resolved", "rejected"} :
            /\ call'[n] = [pc |-> pc, input |-> call[n].input, result |-> JobInput]
            /\ pc = "resolved" <=> Head(rt.micro).ok
      BY <2>2, <2>3, <2>4
    <3> QED BY <1>4, <2>1, <2>4, <3>1, <3>2 DEF CallMoves, IsTold, SameInput
  <2>5. CASE ~In(drain.job, n)
    <3>1. call'[n] = call[n]
      BY <2>2, <2>3, <2>5
    <3> QED BY <3>1 DEF CallMoves
  <2> QED BY <2>4, <2>5
<1>5. ASSUME NEW throws \in BOOLEAN, NEW m \in Calls, TimerFires(m, throws)
      PROVE  CallMoves(n)
  <2>1. /\ call[m].pc = "none"
        /\ call' = [call EXCEPT ![m] = [pc |-> "ensuring", input |-> shown.value, result |-> shown.value]]
    BY <1>5 DEF TimerFires, Render
  <2>2. CASE n = m
    <3>1. call'[n] = [pc |-> "ensuring", input |-> shown.value, result |-> shown.value]
      BY <1>0, <2>1, <2>2 DEF CallStates
    <3>2. IsAsked(n)
      BY <1>5, <2>1, <2>2, <3>1 DEF IsAsked
    <3> QED BY <3>2 DEF CallMoves
  <2>3. CASE n # m
    <3>1. call'[n] = call[n]
      BY <1>0, <2>1, <2>3 DEF CallStates
    <3> QED BY <3>1 DEF CallMoves
  <2> QED BY <2>2, <2>3
<1>6. ASSUME NEW m \in Calls, PictureComes(m) \/ PictureFails(m)
      PROVE  CallMoves(n)
  <2>1. call' = [call EXCEPT ![m].pc = "over"] /\ call[m].pc \in {"resolved", "rejected"}
    BY <1>6 DEF PictureComes, PictureFails
  <2>2. call'[n] = call[n] \/ (n = m /\ call'[n].pc = "over" /\ SameInput(n) /\ SameResult(n))
    BY <1>2, <2>1
  <2> QED BY <1>6, <2>1, <2>2 DEF CallMoves, IsOver
<1>7. CASE Microtask
  <2>1. CASE LoadSettled \/ DrainEnsured \/ RenderReturns
    BY <1>1, <2>1 DEF LoadSettled, DrainEnsured, RenderReturns
  <2> QED BY <1>3, <1>4, <1>7, <2>1 DEF Microtask
<1>8. CASE Dispose \/ WorkerError \/ WatchdogStops
  BY <1>1, <1>8 DEF Dispose, WorkerError, WatchdogStops
<1>9. CASE Loaded \/ LoadFails \/ RenderAnswered
  BY <1>1, <1>9 DEF Loaded, LoadFails, RenderAnswered, Answer
<1>10. CASE Edit \/ RetrySave \/ RetryEngine
  BY <1>1, <1>10 DEF Edit, RetrySave, RetryEngine, Load, runtime
<1>11. ASSUME NEW throws \in BOOLEAN, PaneRenders(throws)
       PROVE  CallMoves(n)
  BY <1>1, <1>11 DEF PaneRenders, Load, runtime
<1>12. ASSUME NEW m \in Calls, PictureShows(m) \/ HandOver(m)
       PROVE  CallMoves(n)
  BY <1>1, <1>12 DEF PictureShows, HandOver, runtime
<1>13. ASSUME NEW i \in DOMAIN uploads, Upload(i) \/ UploadFails(i)
       PROVE  CallMoves(n)
  BY <1>1, <1>13 DEF Upload, UploadFails, runtime
<1>14. CASE UNCHANGED vars
  BY <1>1, <1>14 DEF vars, runtime
<1> QED BY <1>5, <1>6, <1>7, <1>8, <1>9, <1>10, <1>11, <1>12, <1>13, <1>14
        DEF Next, WorkerTask, CallbackStep

-----------------------------------------------------------------------------
(***************************************************************************)
(* The newest request wins.                                                *)
(***************************************************************************)
\* The newest of a job is as new as any call of it.
LEMMA JobsLast ==
    ASSUME TypedInv, NEW n \in Calls, In(drain.job, n)
    PROVE  /\ Last(drain.job) \in n..NCalls /\ Last(drain.job) \in Calls
           /\ call[Last(drain.job)].pc = "queued"
<1> DEFINE job == drain.job
<1>0. Queue(call, waiting, drain) /\ job \in Seq(Calls)
  BY DEF TypedInv, RtInv, Inv, Typed, Drains
<1>1. \A i, j \in 1..Len(job) : i < j => job[i] < job[j]
  BY <1>0 DEF Queue
<1>2. PICK i \in 1..Len(job) : job[i] = n
  BY DEF In
<1> DEFINE l == Len(job)
<1>3. l \in 1..Len(job) /\ i <= l /\ Last(job) = job[l] /\ job[l] \in Calls
  BY <1>0, <1>2 DEF Last
<1>4. job[i] <= job[l]
  <2>1. CASE i = l
    BY <1>2, <1>3, <2>1, Numbers
  <2>2. CASE i < l
    BY <1>1, <1>2, <1>3, <2>2, Numbers
  <2> QED BY <1>2, <1>3, <2>1, <2>2
<1>5. job[l] \in n..NCalls
  BY <1>2, <1>3, <1>4, Numbers DEF Calls
<1>6. call[job[l]].pc = "queued"
  <2>1. In(drain.job, job[l])
    BY <1>3 DEF In
  <2> QED BY <1>0, <1>3, <2>1 DEF Queue
<1> QED BY <1>3, <1>5, <1>6

LEMMA NewestStep ==
    ASSUME TypedInv, NewestWins, [Next]_vars
    PROVE  NewestWins'
<1>0. \A n \in Calls : CallMoves(n)
  BY CallStep
<1>1. ASSUME NEW m \in Calls, call[m].pc # "none"
      PROVE  call'[m].pc # "none" /\ call'[m].input = call[m].input
  BY <1>0, <1>1 DEF CallMoves, IsAsked, IsEnsuredNow, IsTold, IsOver, SameInput
<1>2. SUFFICES ASSUME NEW n \in Calls, call'[n].pc = "resolved"
               PROVE  \E m \in n..NCalls : call'[m].pc # "none" /\ call'[n].result = call'[m].input
  BY DEF NewestWins
<1>3. \A m \in n..NCalls : m \in Calls
  BY Numbers DEF Calls
<1>4. CASE call'[n] = call[n]
  <2>1. PICK m \in n..NCalls : call[m].pc # "none" /\ call[n].result = call[m].input
    BY <1>2, <1>4 DEF NewestWins
  <2> QED BY <1>1, <1>3, <1>4, <2>1
<1>5. CASE IsTold(n)
  <2>1. /\ Last(drain.job) \in n..NCalls /\ Last(drain.job) \in Calls
        /\ call[Last(drain.job)].pc = "queued" /\ call'[n].result = call[Last(drain.job)].input
    BY <1>5, JobsLast DEF IsTold, JobInput
  <2> QED BY <1>1, <2>1
<1> QED BY <1>0, <1>2, <1>4, <1>5 DEF CallMoves, IsAsked, IsEnsuredNow, IsOver

\* A call is never given a picture older than the one it asked for, whatever
\* is queued behind the render under way (drain, "the newest waiting request
\* wins, the rest resolve to it").
THEOREM NewestWinsHolds == Spec => []NewestWins
<1>1. Init => NewestWins
  <2>1. SUFFICES ASSUME Init, NEW n \in Calls PROVE call[n].pc = "none"
    BY DEF NewestWins
  <2> QED BY <2>1 DEF Init, RuntimeInit
<1>2. TypedInv /\ NewestWins /\ [Next]_vars => NewestWins'
  BY NewestStep
<1> QED BY <1>1, <1>2, RuntimeInvariant, PTL DEF Spec

-----------------------------------------------------------------------------
(***************************************************************************)
(* What a step does to the pane.                                           *)
(***************************************************************************)
Fires(n) == \E throws \in BOOLEAN : TimerFires(n, throws)
StageMoves(n) == stage'[n] = stage[n] \/ Fires(n) \/ CallbackStep(n)

PaneShows == \E throws \in BOOLEAN : PaneRenders(throws)
ShownMoves ==
    \/ UNCHANGED <<input, shown, armed>>
    \/ Edit
    \/ PaneShows
    \/ \E n \in Calls : Fires(n)

StoreMoves ==
    \/ UNCHANGED <<rendered, sent, uploads, row, asset, error>>
    \/ \E n \in Calls : PictureFails(n) \/ PictureShows(n) \/ HandOver(n)
    \/ RetrySave
    \/ \E i \in DOMAIN uploads : Upload(i) \/ UploadFails(i)

LEMMA PaneStep ==
    ASSUME TypedInv, [Next]_vars
    PROVE  (\A n \in Calls : StageMoves(n)) /\ ShownMoves /\ StoreMoves
<1>0. stage \in Stages
  BY DEF TypedInv, PaneTyped
<1>1. ASSUME UNCHANGED pane
      PROVE  (\A n \in Calls : StageMoves(n)) /\ ShownMoves /\ StoreMoves
  BY <1>1 DEF pane, StageMoves, ShownMoves, StoreMoves
<1>2. CASE Edit
  BY <1>2 DEF Edit, StageMoves, ShownMoves, StoreMoves
<1>3. CASE RetrySave
  BY <1>3 DEF RetrySave, StageMoves, ShownMoves, StoreMoves
<1>4. CASE PaneShows
  BY <1>4 DEF PaneShows, PaneRenders, StageMoves, ShownMoves, StoreMoves
<1>5. ASSUME NEW m \in Calls, Fires(m)
      PROVE  (\A n \in Calls : StageMoves(n)) /\ ShownMoves /\ StoreMoves
  <2>1. \A n \in Calls : n # m => stage'[n] = stage[n]
    BY <1>0, <1>5 DEF Fires, TimerFires, Stages
  <2>2. UNCHANGED <<rendered, sent, uploads, row, asset, error>>
    BY <1>5 DEF Fires, TimerFires
  <2> QED BY <1>5, <2>1, <2>2 DEF StageMoves, ShownMoves, StoreMoves
<1>6. ASSUME NEW m \in Calls, CallbackStep(m)
      PROVE  (\A n \in Calls : StageMoves(n)) /\ ShownMoves /\ StoreMoves
  <2>1. \A n \in Calls : n # m => stage'[n] = stage[n]
    BY <1>0, <1>6 DEF CallbackStep, PictureComes, PictureFails, PictureShows, HandOver, Stages
  <2>2. UNCHANGED <<input, shown, armed>>
    BY <1>6 DEF CallbackStep, PictureComes, PictureFails, PictureShows, HandOver
  <2>3. StoreMoves
    BY <1>6 DEF CallbackStep, PictureComes, StoreMoves
  <2> QED BY <1>6, <2>1, <2>2, <2>3 DEF StageMoves, ShownMoves
<1>7. ASSUME NEW i \in DOMAIN uploads, Upload(i) \/ UploadFails(i)
      PROVE  (\A n \in Calls : StageMoves(n)) /\ ShownMoves /\ StoreMoves
  <2>1. stage' = stage /\ UNCHANGED <<input, shown, armed>>
    BY <1>7 DEF Upload, UploadFails
  <2> QED BY <1>7, <2>1 DEF StageMoves, ShownMoves, StoreMoves
<1>8. CASE RetryEngine
  BY <1>1, <1>8 DEF RetryEngine
<1>9. CASE UNCHANGED vars
  BY <1>1, <1>9 DEF vars
<1> QED BY <1>1, <1>2, <1>3, <1>4, <1>5, <1>6, <1>7, <1>8, <1>9 DEF Next, PaneShows, Fires

\* The fields of a callback.
StageIs(n, pc, edits, digest, now, of) ==
    stage'[n] = [pc |-> pc, edits |-> edits, digest |-> digest, now |-> now, asset |-> of]

LEMMA StageValues ==
    ASSUME TypedInv, NEW n \in Calls
    PROVE  /\ Fires(n) =>
                StageIs(n, "awaiting", shown.edits, stage[n].digest, stage[n].now, stage[n].asset)
           /\ PictureComes(n) =>
                StageIs(n, "digest", stage[n].edits, DigestOf(n), stage[n].now, stage[n].asset)
           /\ PictureFails(n) \/ HandOver(n) =>
                StageIs(n, "over", stage[n].edits, stage[n].digest, stage[n].now, stage[n].asset)
           /\ PictureShows(n) =>
                StageIs(n, "compare", stage[n].edits, stage[n].digest, shown.value, asset)
<1>0. stage \in Stages
  BY DEF TypedInv, PaneTyped
<1>1. stage[n] = [pc |-> stage[n].pc, edits |-> stage[n].edits, digest |-> stage[n].digest,
                  now |-> stage[n].now, asset |-> stage[n].asset]
  BY <1>0 DEF Stages
<1>2. ASSUME Fires(n)
      PROVE  StageIs(n, "awaiting", shown.edits, stage[n].digest, stage[n].now, stage[n].asset)
  BY <1>0, <1>1, <1>2 DEF Fires, TimerFires, StageIs, Stages
<1>3. ASSUME PictureComes(n)
      PROVE  StageIs(n, "digest", stage[n].edits, DigestOf(n), stage[n].now, stage[n].asset)
  BY <1>0, <1>1, <1>3 DEF PictureComes, StageIs, Stages
<1>4. ASSUME PictureFails(n) \/ HandOver(n)
      PROVE  StageIs(n, "over", stage[n].edits, stage[n].digest, stage[n].now, stage[n].asset)
  <2>1. stage' = [stage EXCEPT ![n].pc = "over"]
    BY <1>4 DEF PictureFails, HandOver
  <2> QED BY <1>0, <1>1, <2>1 DEF StageIs, Stages
<1>5. ASSUME PictureShows(n)
      PROVE  StageIs(n, "compare", stage[n].edits, stage[n].digest, shown.value, asset)
  BY <1>0, <1>1, <1>5 DEF PictureShows, StageIs, Stages
<1> QED BY <1>2, <1>3, <1>4, <1>5

(***************************************************************************)
(* Where a callback is, where its call is, and what its digest is of.      *)
(***************************************************************************)
Place(n) ==
    /\ stage[n].pc = "none" <=> call[n].pc = "none"
    /\ stage[n].pc \in {"digest", "compare", "over"} <=> call[n].pc = "over"
    /\ stage[n].pc \in {"none", "awaiting"} => stage[n].digest = NoInput
    /\ stage[n].digest # NoInput => stage[n].digest = DigestOf(n)

ShownIs ==
    /\ shown.edits <= input.edits
    /\ shown.edits = input.edits => shown.value = input.value
    /\ armed => shown.status = "ready"

Places == ShownIs /\ \A n \in Calls : Place(n)
PlacedInv == TypedInv /\ Places

LEMMA PlaceStep ==
    ASSUME PlacedInv, [Next]_vars, NEW n \in Calls
    PROVE  Place(n)'
<1>0. CallMoves(n) /\ StageMoves(n) /\ Place(n) /\ TypedInv
  BY CallStep, PaneStep DEF PlacedInv, Places
<1>1. CASE IsAsked(n) \/ Fires(n)
  <2>1. Fires(n)
    BY <1>1 DEF IsAsked, Fires
  <2>0. StageIs(n, "awaiting", shown.edits, stage[n].digest, stage[n].now, stage[n].asset)
    BY <1>0, <2>1, StageValues
  <2>2. call[n].pc = "none" /\ stage'[n].pc = "awaiting" /\ stage'[n].digest = stage[n].digest
    BY <2>0, <2>1 DEF StageIs, Fires, TimerFires, Render
  <2>3. call'[n].pc = "ensuring"
    <3>1. call \in CallStates
      BY <1>0 DEF TypedInv, RtInv, Inv, Typed
    <3> QED BY <2>1, <3>1 DEF Fires, TimerFires, Render, CallStates
  <2> QED BY <1>0, <2>2, <2>3 DEF Place
<1>2. CASE CallbackStep(n)
  <2>0. call \in CallStates
    BY <1>0 DEF TypedInv, RtInv, Inv, Typed
  <2>1. CASE PictureComes(n)
    <3>0. StageIs(n, "digest", stage[n].edits, DigestOf(n), stage[n].now, stage[n].asset)
      BY <1>0, <2>1, StageValues
    <3>1. stage'[n].pc = "digest" /\ stage'[n].digest = DigestOf(n)
      BY <3>0 DEF StageIs
    <3>2. call'[n].pc = "over" /\ call'[n].result = call[n].result /\ call'[n].input = call[n].input
      BY <2>0, <2>1 DEF PictureComes, CallStates
    <3> QED BY <3>1, <3>2 DEF Place, DigestOf
  <2>2. CASE PictureFails(n)
    <3>0. StageIs(n, "over", stage[n].edits, stage[n].digest, stage[n].now, stage[n].asset)
      BY <1>0, <2>2, StageValues
    <3>1. stage'[n].pc = "over" /\ stage'[n].digest = stage[n].digest /\ stage[n].pc = "awaiting"
      BY <2>2, <3>0 DEF StageIs, PictureFails
    <3>2. call'[n].pc = "over"
      BY <2>0, <2>2 DEF PictureFails, CallStates
    <3> QED BY <1>0, <3>1, <3>2 DEF Place
  <2>3. CASE PictureShows(n) \/ HandOver(n)
    <3>1. /\ stage'[n].pc \in {"compare", "over"} /\ stage'[n].digest = stage[n].digest
          /\ stage[n].pc \in {"digest", "compare"} /\ call' = call
      <4>1. CASE PictureShows(n)
        <5>1. StageIs(n, "compare", stage[n].edits, stage[n].digest, shown.value, asset)
          BY <1>0, <4>1, StageValues
        <5> QED BY <4>1, <5>1 DEF StageIs, PictureShows, runtime
      <4>2. CASE HandOver(n)
        <5>1. StageIs(n, "over", stage[n].edits, stage[n].digest, stage[n].now, stage[n].asset)
          BY <1>0, <4>2, StageValues
        <5> QED BY <4>2, <5>1 DEF StageIs, HandOver, runtime
      <4> QED BY <2>3, <4>1, <4>2
    <3> QED BY <1>0, <3>1 DEF Place, DigestOf
  <2> QED BY <1>2, <2>1, <2>2, <2>3 DEF CallbackStep
<1>3. CASE stage'[n] = stage[n] /\ (call'[n] = call[n] \/ IsEnsuredNow(n) \/ IsTold(n))
  <2>1. CASE call'[n] = call[n]
    BY <1>0, <1>3, <2>1 DEF Place, DigestOf
  <2>2. CASE IsEnsuredNow(n) \/ IsTold(n)
    <3>1. /\ call[n].pc \in {"ensuring", "queued"}
          /\ call'[n].pc \in {"queued", "rejected", "resolved"}
      BY <2>2 DEF IsEnsuredNow, IsTold
    <3>2. stage[n].pc = "awaiting"
      <4>1. stage[n].pc \in {"none", "awaiting", "digest", "compare", "over"}
        BY <1>0 DEF TypedInv, PaneTyped, Stages
      <4> QED BY <1>0, <3>1, <4>1 DEF Place
    <3> QED BY <1>0, <1>3, <3>1, <3>2 DEF Place
  <2> QED BY <1>3, <2>1, <2>2
<1>4. CASE IsOver(n)
  BY <1>2, <1>4 DEF IsOver, CallbackStep
<1> QED BY <1>0, <1>1, <1>2, <1>3, <1>4 DEF CallMoves, StageMoves

LEMMA ShownStep ==
    ASSUME TypedInv, ShownIs, [Next]_vars
    PROVE  ShownIs'
<1>0. input.edits \in Nat /\ shown.edits \in Nat
  BY DEF TypedInv, PaneTyped
<1>1. ShownMoves
  BY PaneStep
<1>2. CASE UNCHANGED <<input, shown, armed>>
  BY <1>2 DEF ShownIs
<1>3. CASE Edit
  <2>1. input'.edits = input.edits + 1 /\ shown' = shown /\ armed' = armed
    BY <1>3 DEF Edit
  <2> QED BY <1>0, <2>1 DEF ShownIs
<1>4. CASE PaneShows
  <2>1. /\ shown' = [status |-> rt.status, value |-> input.value, edits |-> input.edits]
        /\ (armed' => rt.status = "ready") /\ input' = input
    BY <1>4 DEF PaneShows, PaneRenders
  <2> QED BY <1>0, <2>1 DEF ShownIs
<1>5. CASE \E n \in Calls : Fires(n)
  BY <1>5 DEF Fires, TimerFires, ShownIs
<1> QED BY <1>1, <1>2, <1>3, <1>4, <1>5 DEF ShownMoves

LEMMA PlacesInvariant == Spec => []PlacedInv
<1>1. Init => Places
  <2>1. SUFFICES ASSUME Init PROVE Places
    OBVIOUS
  <2>2. ShownIs
    BY <2>1 DEF Init, ShownIs
  <2>3. \A n \in Calls : stage[n].pc = "none" /\ stage[n].digest = NoInput /\ call[n].pc = "none"
    BY <2>1 DEF Init, RuntimeInit
  <2> QED BY <2>2, <2>3 DEF Places, Place
<1>2. TypedInv /\ Places /\ [Next]_vars => Places'
  BY PlaceStep, ShownStep DEF Places, PlacedInv
<1> QED BY <1>1, <1>2, RuntimeInvariant, PTL DEF Spec, PlacedInv

-----------------------------------------------------------------------------
(***************************************************************************)
(* Every picture that is shown or stored carries the digest of a source it *)
(* was rendered from.                                                      *)
(***************************************************************************)
SourceOf(o) == o = NoOutput \/ o.digest[1] = o.picture[1]

Sourced ==
    /\ SourceOf(row) /\ SourceOf(rendered) /\ SourceOf(error.save)
    /\ \A i \in 1..Len(uploads) : SourceOf(uploads[i])

LEMMA NothingIsSourced == SourceOf(NoOutput)
BY DEF SourceOf

LEMMA PictureIsSourced ==
    ASSUME PlacedInv, NEW n \in Calls, stage[n].pc \in {"digest", "compare"}
    PROVE  SourceOf([picture |-> call[n].result, digest |-> stage[n].digest])
<1>1. stage[n].digest \in Digests
  BY DEF PlacedInv, TypedInv, PaneTyped
<1>2. stage[n].digest = DigestOf(n)
  BY <1>1, InputsAreDigests DEF PlacedInv, Places, Place
<1>3. stage[n].digest[1] = call[n].result[1]
  BY <1>2 DEF DigestOf
<1> QED BY <1>3 DEF SourceOf

\* An upload more, or one less.
LEMMA AllSourced ==
    ASSUME uploads \in Seq(Output), \A i \in 1..Len(uploads) : SourceOf(uploads[i])
    PROVE  /\ \A o \in Output : SourceOf(o) =>
                \A i \in 1..Len(Append(uploads, o)) : SourceOf(Append(uploads, o)[i])
           /\ \A k \in DOMAIN uploads : \A i \in 1..Len(RemoveAt(uploads, k)) :
                SourceOf(RemoveAt(uploads, k)[i])
<1>1. ASSUME NEW o \in Output, SourceOf(o), NEW i \in 1..Len(Append(uploads, o))
      PROVE  SourceOf(Append(uploads, o)[i])
  <2>1. i \in 1..Len(uploads) \/ i = Len(uploads) + 1
    BY <1>1, AppendIs
  <2>2. Append(uploads, o)[Len(uploads) + 1] = o
        /\ \A j \in 1..Len(uploads) : Append(uploads, o)[j] = uploads[j]
    BY AppendIs
  <2> QED BY <1>1, <2>1, <2>2
<1>2. ASSUME NEW k \in DOMAIN uploads, NEW i \in 1..Len(RemoveAt(uploads, k))
      PROVE  SourceOf(RemoveAt(uploads, k)[i])
  <2>0. /\ Len(RemoveAt(uploads, k)) = Len(uploads) - 1
        /\ \A j \in 1..(Len(uploads) - 1) :
            RemoveAt(uploads, k)[j] = IF j < k THEN uploads[j] ELSE uploads[j + 1]
    BY RemoveAtIs
  <2>1. /\ Len(uploads) \in Nat /\ i \in 1..(Len(uploads) - 1)
        /\ RemoveAt(uploads, k)[i] = IF i < k THEN uploads[i] ELSE uploads[i + 1]
    BY <2>0
  <2>2. i \in 1..Len(uploads) /\ i + 1 \in 1..Len(uploads)
    BY <2>1
  <2> QED BY <2>1, <2>2
<1> QED BY <1>1, <1>2

LEMMA SourcedStep ==
    ASSUME PlacedInv, Sourced, [Next]_vars
    PROVE  Sourced'
<1>0. /\ StoreMoves /\ PaneTyped /\ call \in CallStates /\ stage \in Stages
      /\ uploads \in Seq(Output) /\ error \in [render: BOOLEAN, save: Output \cup {NoOutput}]
  BY PaneStep DEF PlacedInv, TypedInv, PaneTyped, RtInv, Inv, Typed
<1>1. ASSUME NEW o \in Output, SourceOf(o), Store(o), UNCHANGED <<rendered, row>>
      PROVE  Sourced'
  <2>1. uploads' = Append(uploads, o) /\ error'.save = NoOutput
    BY <1>0, <1>1 DEF Store
  <2>2. \A i \in 1..Len(uploads') : SourceOf(uploads'[i])
    BY <1>0, <1>1, <2>1, AllSourced DEF Sourced
  <2> QED BY <1>1, <2>1, <2>2, NothingIsSourced DEF Sourced
<1>2. CASE UNCHANGED <<rendered, sent, uploads, row, asset, error>>
  BY <1>2 DEF Sourced
<1>3. ASSUME NEW n \in Calls, PictureFails(n)
      PROVE  Sourced'
  BY <1>0, <1>3 DEF PictureFails, Sourced
<1>4. ASSUME NEW n \in Calls, PictureShows(n)
      PROVE  Sourced'
  <2>1. SourceOf(rendered')
    BY <1>4, PictureIsSourced DEF PictureShows
  <2>2. error'.save = error.save /\ uploads' = uploads /\ row' = row
    BY <1>0, <1>4 DEF PictureShows
  <2> QED BY <2>1, <2>2 DEF Sourced
<1>5. ASSUME NEW n \in Calls, HandOver(n)
      PROVE  Sourced'
  <2> DEFINE o == [picture |-> call[n].result, digest |-> stage[n].digest]
  <2>1. SourceOf(o)
    BY <1>5, PictureIsSourced DEF HandOver
  <2>2. o \in Output
    BY <1>0, <1>5 DEF HandOver, PaneTyped, CallStates, Output
  <2>3. UNCHANGED <<rendered, row>> /\ (Store(o) \/ UNCHANGED <<sent, uploads, error>>)
    BY <1>5 DEF HandOver
  <2> HIDE DEF o
  <2>4. CASE Store(o)
    BY <1>1, <2>1, <2>2, <2>3, <2>4
  <2>5. CASE UNCHANGED <<sent, uploads, error>>
    BY <2>3, <2>5 DEF Sourced
  <2> QED BY <2>3, <2>4, <2>5
<1>6. CASE RetrySave
  <2>1. error.save \in Output /\ SourceOf(error.save) /\ Store(error.save) /\ UNCHANGED <<rendered, row>>
    BY <1>0, <1>6 DEF RetrySave, Sourced
  <2> QED BY <1>1, <2>1
<1>7. ASSUME NEW k \in DOMAIN uploads, Upload(k) \/ UploadFails(k)
      PROVE  Sourced'
  <2>1. SourceOf(uploads[k]) /\ uploads' = RemoveAt(uploads, k) /\ rendered' = rendered
    BY <1>0, <1>7 DEF Upload, UploadFails, Sourced
  <2>2. \A i \in 1..Len(uploads') : SourceOf(uploads'[i])
    BY <1>0, <2>1, AllSourced DEF Sourced
  <2>3. CASE Upload(k)
    BY <2>1, <2>2, <2>3 DEF Upload, Sourced
  <2>4. CASE UploadFails(k)
    <3>1. error'.save = uploads[k] /\ row' = row
      BY <1>0, <2>4 DEF UploadFails
    <3> QED BY <2>1, <2>2, <3>1 DEF Sourced
  <2> QED BY <1>7, <2>3, <2>4
<1> QED BY <1>0, <1>2, <1>3, <1>4, <1>5, <1>6, <1>7 DEF StoreMoves

\* The picture on screen, and the one the server has, carry the digest of the
\* source they were rendered from, under whatever docinfo: the source digested
\* is the one the runtime says it rendered, not what the buffer holds.
THEOREM SourcesAreHonest == Spec => []Sourced
<1>1. Init => Sourced
  <2>1. SUFFICES ASSUME Init PROVE Sourced
    OBVIOUS
  <2>2. row = NoOutput /\ rendered = NoOutput /\ error.save = NoOutput /\ uploads = <<>>
    BY <2>1 DEF Init
  <2> QED BY <2>2, NothingIsSourced DEF Sourced
<1>2. PlacedInv /\ Sourced /\ [Next]_vars => Sourced'
  BY SourcedStep
<1> QED BY <1>1, <1>2, PlacesInvariant, PTL DEF Spec

OneDocinfo == \A i, j \in Inputs : i[2] = j[2]

\* Under one docinfo a digest is an input: that of its source.
LEMMA DigestsAreInputs ==
    ASSUME OneDocinfo
    PROVE  /\ Digests = Inputs
           /\ \A o \in Output \cup {NoOutput} : SourceOf(o) => o.digest = o.picture
           /\ \A i, j \in Inputs : <<i[1], j[2]>> = i
<1>1. ASSUME NEW i \in Inputs, NEW j \in Inputs
      PROVE  <<i[1], j[2]>> = i
  <2>1. i = <<i[1], i[2]>> /\ i[2] = j[2]
    BY PairAssumption DEF OneDocinfo
  <2> QED BY <2>1
<1>2. Digests = Inputs
  BY <1>1 DEF Digests
<1>3. ASSUME NEW o \in Output, SourceOf(o)
      PROVE  o.digest = o.picture
  <2>1. o.digest \in Inputs /\ o.picture \in Inputs
    BY <1>2 DEF Output
  <2>2. o # NoOutput
    BY InputsAreDigests
  <2>3. o.digest[1] = o.picture[1]
    BY <1>3, <2>2 DEF SourceOf
  <2>4. o.digest = <<o.digest[1], o.picture[2]>> /\ o.picture = <<o.picture[1], o.picture[2]>>
    BY <1>1, <2>1
  <2> QED BY <2>3, <2>4
<1>4. NoOutput.digest = NoOutput.picture
  BY DEF NoOutput
<1> QED BY <1>1, <1>2, <1>3, <1>4

LEMMA InvHonest ==
    ASSUME OneDocinfo, TypedInv, Sourced
    PROVE  PicturesAreHonest
<1>1. row \in Output \cup {NoOutput} /\ rendered \in Output \cup {NoOutput}
  BY DEF TypedInv, PaneTyped
<1> QED BY <1>1, DigestsAreInputs DEF Sourced, PicturesAreHonest

\* While the document's docinfo stays as it is, what is on screen and what is
\* stored says truly what it is of (GeneratedAssetPreview, onOutput).  With a
\* second docinfo it does not: the digest takes the docinfo of the closure.
THEOREM PicturesHonest ==
    ASSUME OneDocinfo
    PROVE  Spec => []PicturesAreHonest
BY InvHonest, RuntimeInvariant, SourcesAreHonest, PTL

-----------------------------------------------------------------------------
(***************************************************************************)
(* What the pane asks for while nothing fails.                             *)
(***************************************************************************)
LoadOk(r) == r.micro # <<>> /\ Head(r.micro).kind = "load" => Head(r.micro).ok

Undisturbed ==
    /\ rt.status # "failed" /\ shown.status # "failed"
    /\ shown.status = "ready" => rt.status = "ready"
    /\ LoadOk(rt)
    /\ \A n \in Calls : stage[n].pc # "none" =>
        /\ shown.status = "ready" /\ stage[n].edits <= shown.edits
        /\ armed => stage[n].edits < shown.edits
    /\ \A m, n \in Calls :
        m # n /\ stage[m].pc # "none" /\ stage[n].pc # "none" => stage[m].edits # stage[n].edits

NoFaults == faults = 0 => Undisturbed

\* No worker is started loudly once one was ready.
LEMMA AwaitQuietly ==
    ASSUME NEW r \in Runtimes, NEW who, r.status = "ready", r.micro = <<>>
    PROVE  /\ Await(r, who, FALSE).status = "ready"
           /\ \/ Await(r, who, FALSE).micro = <<>>
              \/ \E ok \in BOOLEAN : Await(r, who, FALSE).micro = <<Task("ensured", who, ok)>>
<1> DEFINE s == Start(r, TRUE, FALSE)
<1>1. s.status = "ready" /\ s.micro = <<>> /\ s = [s EXCEPT !.status = "ready"]
  BY DEF Start, Runtimes
<1>2. EnsureWorker(r, FALSE) = s
  BY DEF EnsureWorker
<1>3. Await(r, who, FALSE) =
        IF s.promise = None THEN Later(s, Task("ensured", who, FALSE))
        ELSE IF s.promise \in s.fulfilled THEN Later(s, Task("ensured", who, TRUE))
        ELSE [s EXCEPT !.awaiting[s.promise] = Append(@, who)]
  BY <1>2 DEF Await
<1>0. s \in [worker: {s.worker}, promise: {s.promise}, status: {s.status}, engine: {s.engine},
             quiet: {s.quiet}, fulfilled: {s.fulfilled}, pending: {s.pending},
             awaiting: {s.awaiting}, watched: {s.watched}, micro: {s.micro}]
  BY DEF Start, Runtimes
<1> HIDE DEF s
<1>4. ASSUME NEW ok \in BOOLEAN
      PROVE  /\ Later(s, Task("ensured", who, ok)).status = "ready"
             /\ Later(s, Task("ensured", who, ok)).micro = <<Task("ensured", who, ok)>>
  <2> DEFINE t == Task("ensured", who, ok)
  <2> HIDE DEF t
  <2>1. Later(s, t).status = "ready" /\ Later(s, t).micro = Append(<<>>, t)
    BY <1>0, <1>1 DEF Later
  <2>2. Append(<<>>, t) = <<t>>
    OBVIOUS
  <2> QED BY <2>1, <2>2 DEF t
<1>5. LET a == [s EXCEPT !.awaiting[s.promise] = Append(@, who)]
      IN  a.status = "ready" /\ a.micro = <<>>
  BY <1>0, <1>1
<1>6. TRUE \in BOOLEAN /\ FALSE \in BOOLEAN
  OBVIOUS
<1> QED BY <1>3, <1>4, <1>5, <1>6

\* Those who awaited a load are told so.
LEMMA AwaitersAre ==
    ASSUME NEW r \in Runtimes, NEW w \in Workers, NEW ok \in BOOLEAN
    PROVE  /\ <<>> \o Awaiters(r, w, ok) = Awaiters(r, w, ok)
           /\ Awaiters(r, w, ok) # <<>> => Head(Awaiters(r, w, ok)).kind = "ensured"
<1> DEFINE q == Awaiters(r, w, ok)
           line == r.awaiting[w]
<1>1. line \in Seq(Calls \cup {None})
  BY DEF Runtimes
<1>2. q = [i \in DOMAIN line |-> Task("ensured", line[i], ok)]
  BY DEF Awaiters
<1>3. \A x \in Calls \cup {None} :
        Task("ensured", x, ok) \in Micro /\ Task("ensured", x, ok).kind = "ensured"
  BY Tasks
<1> HIDE DEF line, q
<1>4. DOMAIN line = 1..Len(line) /\ Len(line) \in Nat /\ \A i \in 1..Len(line) : line[i] \in Calls \cup {None}
  BY <1>1
<1>5. \A i \in 1..Len(line) : q[i] \in Micro /\ q[i].kind = "ensured"
  BY <1>2, <1>3, <1>4
<1>6. q \in [1..Len(line) -> Micro]
  BY <1>2, <1>4, <1>5
<1>7. q \in Seq(Micro) /\ Len(q) = Len(line)
  BY <1>4, <1>6
<1>8. q # <<>> => Head(q).kind = "ensured"
  BY <1>5, <1>7
<1>9. <<>> \o q = q
  BY <1>7
<1> QED BY <1>8, <1>9 DEF q

LEMMA ToldFirst ==
    ASSUME NEW q, NEW who, q = <<>> \/ \E ok \in BOOLEAN : q = <<Task("ensured", who, ok)>>
    PROVE  q = <<>> \/ Head(q).kind # "load"
<1>1. ASSUME NEW ok \in BOOLEAN, q = <<Task("ensured", who, ok)>>
      PROVE  Head(q).kind # "load"
  <2> DEFINE t == Task("ensured", who, ok)
  <2>1. t.kind = "ensured"
    BY DEF Task
  <2> HIDE DEF t
  <2>2. Head(<<t>>) = t
    OBVIOUS
  <2>3. q = <<t>>
    BY <1>1 DEF t
  <2> QED BY <2>1, <2>2, <2>3
<1> QED BY <1>1

LEMMA StatusStep ==
    ASSUME PlacedInv, Undisturbed, [Next]_vars, faults = 0, faults' = 0
    PROVE  /\ rt'.status # "failed" /\ (rt.status = "ready" => rt'.status = "ready")
           /\ LoadOk(rt')
<1>0. /\ RtInv /\ Inv(rt, call, waiting, drain, faults) /\ rt \in Runtimes /\ TypedInv
      /\ rt.status # "failed" /\ LoadOk(rt) /\ Drain(rt, waiting, drain)
      /\ Queue(call, waiting, drain) /\ rt.micro \in Seq(Micro) /\ rt.status \in Status
  BY TypedIs DEF PlacedInv, TypedInv, RtInv, Inv, Typed, Undisturbed
<1>00. ~(faults' = faults + 1)
  OBVIOUS
<1>01. \A throws \in BOOLEAN : Fault(throws) => throws = FALSE
  BY DEF Fault
<1>1. ASSUME rt' = rt
      PROVE  /\ rt'.status # "failed" /\ (rt.status = "ready" => rt'.status = "ready")
             /\ LoadOk(rt')
  BY <1>0, <1>1
<1>2. ASSUME rt'.status = rt.status, rt'.micro = <<>> \/ Head(rt'.micro).kind # "load"
      PROVE  /\ rt'.status # "failed" /\ (rt.status = "ready" => rt'.status = "ready")
             /\ LoadOk(rt')
  BY <1>0, <1>2 DEF LoadOk
\* Once a call was made, the engine has been ready.
<1>3. ASSUME NEW n \in Calls, call[n].pc # "none"
      PROVE  rt.status = "ready"
  <2>1. stage[n].pc # "none"
    BY <1>3 DEF PlacedInv, Places, Place
  <2> QED BY <2>1 DEF Undisturbed
<1>4. CASE LoadSettled
  <2>1. rt.micro # <<>> /\ Head(rt.micro).kind = "load"
    BY <1>4 DEF LoadSettled, Runs
  <2>2. PICK w \in Workers, ok \in BOOLEAN :
            Told(rt, w, ok, waiting, drain) /\ Head(rt.micro) = Task("load", w, ok)
    BY <1>0, <2>1, HeadModes
  <2>3. Head(rt.micro).who = w /\ Head(rt.micro).ok = TRUE /\ Tail(rt.micro) = <<>>
    <3>1. rt.micro = <<Task("load", w, ok)>>
      BY <2>2 DEF Told
    <3>2. Task("load", w, ok).ok = ok /\ Task("load", w, ok).who = w
      BY DEF Task
    <3>3. Head(rt.micro).ok
      BY <1>0, <2>1 DEF LoadOk
    <3> QED BY <2>2, <3>1, <3>2, <3>3
  <2> DEFINE r == [Ran(rt) EXCEPT !.micro = @ \o Awaiters(rt, w, TRUE), !.awaiting[w] = <<>>]
  <2>4. rt' = [r EXCEPT !.fulfilled = @ \cup {w}, !.status = IF w \in r.quiet THEN @ ELSE "ready"]
    BY <1>4, <2>3 DEF LoadSettled
  <2>5. Fields(Ran(rt), rt.worker, rt.promise, rt.status, rt.engine, rt.quiet, rt.fulfilled,
               rt.pending, rt.awaiting, rt.watched, <<>>)
    BY <1>0, <2>3, RanIs
  <2>6. <<>> \o Awaiters(rt, w, TRUE) = Awaiters(rt, w, TRUE)
        /\ (Awaiters(rt, w, TRUE) # <<>> => Head(Awaiters(rt, w, TRUE)).kind = "ensured")
    BY <1>0, AwaitersAre
  <2>7. r.micro = Awaiters(rt, w, TRUE) /\ r.status = rt.status
    <3>1. Ran(rt).micro = <<>> /\ Ran(rt).status = rt.status
          /\ Ran(rt) = [worker |-> rt.worker, promise |-> rt.promise, status |-> rt.status,
               engine |-> rt.engine, quiet |-> rt.quiet, fulfilled |-> rt.fulfilled,
               pending |-> rt.pending, awaiting |-> rt.awaiting, watched |-> rt.watched,
               micro |-> <<>>]
      BY <2>5 DEF Fields
    <3> QED BY <2>6, <3>1
  <2>70. Ran(rt) \in [worker: {Ran(rt).worker}, promise: {Ran(rt).promise},
             status: {Ran(rt).status}, engine: {Ran(rt).engine},
             quiet: {Ran(rt).quiet}, fulfilled: {Ran(rt).fulfilled}, pending: {Ran(rt).pending},
             awaiting: {Ran(rt).awaiting}, watched: {Ran(rt).watched}, micro: {Ran(rt).micro}]
    <3> DEFINE s == Ran(rt)
    <3> HIDE DEF s
    <3>1. s = [worker |-> rt.worker, promise |-> rt.promise, status |-> rt.status,
               engine |-> rt.engine, quiet |-> rt.quiet, fulfilled |-> rt.fulfilled,
               pending |-> rt.pending, awaiting |-> rt.awaiting, watched |-> rt.watched,
               micro |-> <<>>]
      BY <2>5 DEF Fields, s
    <3>2. s \in [worker: {s.worker}, promise: {s.promise}, status: {s.status}, engine: {s.engine},
             quiet: {s.quiet}, fulfilled: {s.fulfilled}, pending: {s.pending},
             awaiting: {s.awaiting}, watched: {s.watched}, micro: {s.micro}]
      BY <3>1
    <3> QED BY <3>2 DEF s
  <2>8. /\ rt'.micro = Awaiters(rt, w, TRUE)
        /\ rt'.status = IF w \in r.quiet THEN rt.status ELSE "ready"
    <3>1. r \in [worker: {r.worker}, promise: {r.promise}, status: {r.status}, engine: {r.engine},
             quiet: {r.quiet}, fulfilled: {r.fulfilled}, pending: {r.pending},
             awaiting: {r.awaiting}, watched: {r.watched}, micro: {r.micro}]
      BY <2>70
    <3> HIDE DEF r
    <3> QED BY <2>4, <2>7, <3>1
  <2> QED BY <1>0, <2>6, <2>8 DEF LoadOk
<1>5. CASE DrainEnsured
  <2>1. rt.micro # <<>> /\ Head(rt.micro).kind = "ensured" /\ Head(rt.micro).who = None
    BY <1>5 DEF DrainEnsured, Runs
  <2>2. Popped(rt, waiting, drain, Ran(rt), Head(rt.micro))
    BY <1>0, <2>1, RanIs, EnsuredPopped DEF Fields
  <2>3. Head(rt.micro).ok
    BY <1>0, <2>2 DEF Popped, Refused
  <2>4. rt.worker # None
    BY <1>0, <1>5, <2>3, DrainEnsuredStep
  <2>5. rt' = [Ran(rt) EXCEPT !.watched = Watchdog, !.pending = Append(@, <<rt.worker, "render">>)]
    BY <1>5, <2>3, <2>4 DEF DrainEnsured
  <2>6. rt'.status = rt.status /\ rt'.micro = Tail(rt.micro)
    BY <1>0, <2>5 DEF Ran, Runtimes
  <2>7. Tail(rt.micro) # <<>> => Head(Tail(rt.micro)).kind = "ensured"
    <3> DEFINE q == rt.micro
    <3>1. q \in Seq(Micro) /\ q # <<>> /\ \A i \in 1..Len(q) : IsEnsured(q[i], TRUE)
      BY <1>0, <2>1, <2>2, <2>3 DEF Popped, Up
    <3> HIDE DEF q
    <3>2. Tail(q) # <<>> => Head(Tail(q)).kind = "ensured"
      BY <3>1, TailEnsured
    <3> QED BY <3>2 DEF q
  <2> QED BY <1>2, <2>6, <2>7
<1>6. CASE RenderReturns
  <2>1. /\ rt.micro # <<>> /\ Head(rt.micro).kind = "answered"
        /\ rt' = Later([Ran(rt) EXCEPT !.watched = FALSE], Task("settled", None, Head(rt.micro).ok))
    BY <1>6 DEF RenderReturns, Runs
  <2>2. PICK ok \in BOOLEAN : Answered(rt, ok, drain) /\ Head(rt.micro).ok = ok
    BY <1>0, <2>1, HeadModes
  <2>3. Tail(rt.micro) = <<>>
    BY <2>2 DEF Answered, Over
  <2> DEFINE task == Task("settled", None, Head(rt.micro).ok)
  <2>4. task.kind = "settled"
    BY DEF Task
  <2> HIDE DEF task
  <2>5. rt'.status = rt.status /\ rt'.micro = Append(<<>>, task)
    BY <1>0, <2>1, <2>3 DEF Later, Ran, Runtimes, task
  <2>6. Append(<<>>, task) = <<task>> /\ Head(<<task>>) = task
    OBVIOUS
  <2> QED BY <1>2, <2>4, <2>5, <2>6
<1>7. ASSUME NEW throws \in BOOLEAN, CallEnsured(throws)
      PROVE  /\ rt'.status # "failed" /\ (rt.status = "ready" => rt'.status = "ready")
             /\ LoadOk(rt')
  <2>1. rt.micro # <<>> /\ Head(rt.micro).kind = "ensured"
    BY <1>7 DEF CallEnsured, Runs
  <2>2. Popped(rt, waiting, drain, Ran(rt), Head(rt.micro))
    BY <1>0, <2>1, RanIs, EnsuredPopped DEF Fields
  <2>3. Head(rt.micro).ok
    BY <1>0, <2>2 DEF Popped, Refused
  <2> DEFINE q == rt.micro
             task == Task("ensured", None, TRUE)
  <2>4. q \in Seq(Micro) /\ q # <<>> /\ \A i \in 1..Len(q) : IsEnsured(q[i], TRUE)
    BY <1>0, <2>1, <2>2, <2>3 DEF Popped, Up
  <2>5. task \in Micro /\ task.kind = "ensured"
    BY DEF Task, Micro
  <2>6. /\ rt'.status = rt.status
        /\ rt'.micro = Tail(q) \/ rt'.micro = Append(Tail(q), task)
    BY <1>0, <1>7, CallEnsuredStep
  <2> HIDE DEF q, task
  <2>7. Tail(q) \in Seq(Micro) /\ (Tail(q) # <<>> => Head(Tail(q)).kind = "ensured")
    BY <2>4, TailEnsured
  <2>8. Head(Append(Tail(q), task)) = IF Tail(q) = <<>> THEN task ELSE Head(Tail(q))
    <3> DEFINE p == Tail(q)
    <3>1. p \in Seq(Micro)
      BY <2>7
    <3> HIDE DEF p
    <3>2. Head(Append(p, task)) = IF p = <<>> THEN task ELSE Head(p)
      BY <2>5, <3>1
    <3> QED BY <3>2 DEF p
  <2> QED BY <1>2, <2>5, <2>6, <2>7, <2>8
<1>8. ASSUME NEW throws \in BOOLEAN, DrainSettled(throws)
      PROVE  /\ rt'.status # "failed" /\ (rt.status = "ready" => rt'.status = "ready")
             /\ LoadOk(rt')
  <2>1. /\ rt.micro # <<>> /\ Head(rt.micro).kind = "settled" /\ throws = FALSE
        /\ Settle(Head(rt.micro).ok) /\ TakeJob(Ran(rt), waiting, throws)
    BY <1>01, <1>8 DEF DrainSettled, Runs
  <2>2. drain.job # <<>>
    BY <1>0, <1>8, DrainSettledStep
  <2>3. PICK ok \in BOOLEAN : JobTold(call, drain, ok, call')
    <3> DEFINE q == rt.micro
    <3>1. q \in Seq(Micro) /\ q # <<>>
      BY <1>0, <2>1
    <3> HIDE DEF q
    <3>2. Head(q) \in Micro
      BY <3>1, TailIs
    <3>3. Head(q).ok \in BOOLEAN
      BY <3>2, MicroIs
    <3>4. Head(rt.micro).ok \in BOOLEAN
      BY <3>3 DEF q
    <3> QED BY <1>0, <2>1, <2>2, <3>4, SettleIs
  <2>4. SettledPopped(rt, call, waiting, drain, faults, call', Ran(rt))
    BY <1>0, <2>1, <2>3, JobIsSettled
  <2>5. Ran(rt) \in Runtimes /\ Ran(rt).micro = <<>> /\ Ran(rt).status = rt.status
    BY <1>0, <2>4, RanIs DEF SettledPopped, Fields
  <2>6. rt.status = "ready"
    <3>1. drain.job \in Seq(Calls)
      BY <1>0 DEF Inv, Typed, Drains
    <3>2. 1 \in 1..Len(drain.job) /\ drain.job[1] \in Calls
      BY <2>2, <3>1
    <3>3. In(drain.job, drain.job[1])
      BY <3>2 DEF In
    <3>4. call[drain.job[1]].pc = "queued"
      BY <1>0, <3>2, <3>3 DEF Queue
    <3> QED BY <1>3, <3>2, <3>4
  <2>7. rt' = Ran(rt) \/ rt' = Await(Ran(rt), None, FALSE)
    BY <2>1 DEF TakeJob
  <2>8. CASE rt' = Ran(rt)
    BY <1>2, <2>5, <2>8
  <2>9. CASE rt' = Await(Ran(rt), None, FALSE)
    <3>1. /\ rt'.status = "ready"
          /\ rt'.micro = <<>> \/ \E o \in BOOLEAN : rt'.micro = <<Task("ensured", None, o)>>
      BY <2>5, <2>6, <2>9, AwaitQuietly
    <3>2. rt'.micro = <<>> \/ Head(rt'.micro).kind # "load"
      BY <3>1, ToldFirst
    <3> QED BY <1>2, <2>6, <3>1, <3>2
  <2> QED BY <2>7, <2>8, <2>9
<1>9. CASE Dispose \/ WorkerError \/ LoadFails
  BY <1>00, <1>9 DEF Dispose, WorkerError, LoadFails
<1>10. CASE WatchdogStops
  <2>1. rt.micro = <<>> /\ rt.watched /\ rt' = StopWorker(rt)
    BY <1>10 DEF WatchdogStops
  <2>2. drain.pc = "rendering"
    BY <1>0, <2>1 DEF Drain
  <2>3. Up(rt, drain)
    BY <1>0, <2>1, <2>2, TaskModes DEF Resting, Loading
  <2>4. rt.pending = << <<rt.promise, "render">> >>
    BY <2>2, <2>3 DEF Up
  <2> DEFINE x == <<rt.promise, "render">>
  <2>5. Fields(StopWorker(rt), None, None, rt.status,
               [w \in Workers |-> IF w = rt.worker THEN "stopped" ELSE rt.engine[w]],
               rt.quiet, rt.fulfilled, <<>>, rt.awaiting, rt.watched,
               IF rt.pending = <<>> THEN <<>> ELSE <<Rejection(x)>>)
    <3>1. rt.pending = <<x>>
      BY <2>4
    <3> HIDE DEF x
    <3> QED BY <1>0, <2>1, <3>1, StopIs
  <2>6. rt'.status = rt.status /\ rt'.micro = <<Rejection(x)>>
    BY <2>1, <2>4, <2>5 DEF Fields
  <2>7. Rejection(x).kind = "answered"
    BY DEF Rejection, Task
  <2> QED BY <1>2, <2>6, <2>7
<1>11. CASE Loaded \/ RenderAnswered
  <2>1. PICK kind \in {"load", "render"}, ok \in BOOLEAN :
            Answer(kind, ok) /\ (kind = "load" => ok = TRUE)
    BY <1>11 DEF Loaded, RenderAnswered
  <2>2. PICK asked \in {"load", "render"} : rt.pending = << <<rt.worker, asked>> >>
    BY <1>0, <2>1, AskedOnce DEF Answer
  <2>3. Fields(rt', rt.worker, rt.promise, rt.status,
                     [rt.engine EXCEPT ![rt.worker] =
                        IF kind = "render" THEN @ ELSE IF ok THEN "loaded" ELSE "broken"],
                     rt.quiet, rt.fulfilled, <<>>, rt.awaiting, rt.watched,
                     <<Task(IF kind = "load" THEN "load" ELSE "answered",
                            IF kind = "load" THEN rt.worker ELSE None, ok)>>)
    BY <1>0, <2>1, <2>2, AnswerIs
  <2>4. rt'.status = rt.status /\ Head(rt'.micro).kind = (IF kind = "load" THEN "load" ELSE "answered")
        /\ Head(rt'.micro).ok = ok
    BY <2>3 DEF Fields, Task
  <2> QED BY <1>0, <2>1, <2>4 DEF LoadOk
<1>12. CASE RetryEngine
  BY <1>12 DEF RetryEngine, Undisturbed
<1>13. ASSUME NEW throws \in BOOLEAN, PaneRenders(throws)
       PROVE  /\ rt'.status # "failed" /\ (rt.status = "ready" => rt'.status = "ready")
              /\ LoadOk(rt')
  <2>1. CASE rt' = rt
    BY <1>1, <2>1
  <2>2. CASE rt' # rt
    <3>1. rt.status = "idle" /\ rt.micro = <<>> /\ Load(throws)
      BY <1>13, <2>2 DEF PaneRenders, runtime
    <3>2. rt' = Start(rt, FALSE, FALSE)
      BY <1>01, <3>1 DEF Load
    <3>3. rt'.micro = <<>> /\ rt'.status \in {"idle", "loading"}
      BY <1>0, <3>1, <3>2 DEF Start, Runtimes
    <3> QED BY <3>1, <3>3 DEF LoadOk
  <2> QED BY <2>1, <2>2
<1>14. ASSUME NEW throws \in BOOLEAN, NEW n \in Calls, TimerFires(n, throws)
       PROVE  /\ rt'.status # "failed" /\ (rt.status = "ready" => rt'.status = "ready")
              /\ LoadOk(rt')
  <2>1. armed /\ rt.micro = <<>> /\ throws = FALSE /\ rt' = Await(rt, n, throws)
    BY <1>01, <1>14 DEF TimerFires, Render
  <2>2. rt.status = "ready"
    BY <2>1 DEF PlacedInv, Places, ShownIs, Undisturbed
  <2>3. /\ rt'.status = "ready"
        /\ rt'.micro = <<>> \/ \E o \in BOOLEAN : rt'.micro = <<Task("ensured", n, o)>>
    BY <1>0, <2>1, <2>2, AwaitQuietly
  <2>4. rt'.micro = <<>> \/ Head(rt'.micro).kind # "load"
    BY <2>3, ToldFirst
  <2> QED BY <1>2, <2>2, <2>3, <2>4
<1>15. CASE Edit \/ RetrySave \/ UNCHANGED vars
  BY <1>1, <1>15 DEF Edit, RetrySave, vars, runtime
<1>16. ASSUME NEW n \in Calls, CallbackStep(n)
       PROVE  /\ rt'.status # "failed" /\ (rt.status = "ready" => rt'.status = "ready")
              /\ LoadOk(rt')
  BY <1>1, <1>16 DEF CallbackStep, PictureComes, PictureFails, PictureShows, HandOver, runtime
<1>17. ASSUME NEW i \in DOMAIN uploads, Upload(i) \/ UploadFails(i)
       PROVE  /\ rt'.status # "failed" /\ (rt.status = "ready" => rt'.status = "ready")
              /\ LoadOk(rt')
  BY <1>1, <1>17 DEF Upload, UploadFails, runtime
<1> QED BY <1>4, <1>5, <1>6, <1>7, <1>8, <1>9, <1>10, <1>11, <1>12, <1>13, <1>14, <1>15, <1>16, <1>17
        DEF Next, Microtask, WorkerTask

\* Each call is made for another edit.
CallsApart ==
    /\ \A n \in Calls : stage[n].pc # "none" =>
        /\ shown.status = "ready" /\ stage[n].edits <= shown.edits
        /\ armed => stage[n].edits < shown.edits
    /\ \A m, n \in Calls :
        m # n /\ stage[m].pc # "none" /\ stage[n].pc # "none" => stage[m].edits # stage[n].edits

LEMMA ApartStep ==
    ASSUME PlacedInv, Undisturbed, [Next]_vars
    PROVE  CallsApart'
<1>0. /\ TypedInv /\ ShownIs /\ CallsApart /\ ShownMoves
      /\ (shown.status = "ready" => rt.status = "ready")
      /\ \A n \in Calls : StageMoves(n)
  BY PaneStep DEF PlacedInv, Places, Undisturbed, CallsApart
<1>00. /\ shown \in [status: Status \cup {"unmounted"}, value: Inputs, edits: 0..MaxEdits]
       /\ input.edits \in Nat /\ shown.edits \in Nat
       /\ \A n \in Calls : stage[n].edits \in Nat
  BY <1>0 DEF TypedInv, PaneTyped, Stages
<1>1. ASSUME NEW k \in Calls, Fires(k)
      PROVE  CallsApart'
  <2>1. /\ armed /\ armed' = FALSE /\ shown' = shown
        /\ \A n \in Calls : n # k => stage'[n] = stage[n]
    BY <1>0, <1>1 DEF Fires, TimerFires, TypedInv, PaneTyped, Stages
  <2>2. StageIs(k, "awaiting", shown.edits, stage[k].digest, stage[k].now, stage[k].asset)
    BY <1>0, <1>1, StageValues
  <2>3. stage'[k].edits = shown.edits
    BY <2>2 DEF StageIs
  <2>4. \A n \in Calls : n # k /\ stage'[n].pc # "none" => stage'[n].edits < shown.edits
    BY <1>0, <2>1 DEF CallsApart
  <2>5. shown.status = "ready"
    BY <1>0, <2>1 DEF ShownIs
  <2>6. ASSUME NEW m \in Calls, NEW n \in Calls, m # n, stage'[m].pc # "none", stage'[n].pc # "none"
        PROVE  stage'[m].edits # stage'[n].edits
    <3>1. CASE m # k /\ n # k
      BY <1>0, <2>1, <2>6, <3>1 DEF CallsApart
    <3>2. CASE m = k
      <4>1. stage'[n].edits < shown.edits /\ stage'[n].edits \in Nat
        BY <1>00, <2>1, <2>4, <2>6, <3>2
      <4> QED BY <1>00, <2>3, <3>2, <4>1
    <3>3. CASE n = k
      <4>1. stage'[m].edits < shown.edits /\ stage'[m].edits \in Nat
        BY <1>00, <2>1, <2>4, <2>6, <3>3
      <4> QED BY <1>00, <2>3, <3>3, <4>1
    <3> QED BY <3>1, <3>2, <3>3
  <2>7. \A n \in Calls : stage'[n].pc # "none" => stage'[n].edits <= shown'.edits
    <3>1. ASSUME NEW n \in Calls, stage'[n].pc # "none" PROVE stage'[n].edits <= shown.edits
      <4>1. CASE n = k
        BY <1>00, <2>3, <4>1
      <4>2. CASE n # k
        <5>1. stage'[n].edits < shown.edits /\ stage'[n].edits \in Nat
          BY <1>00, <2>1, <2>4, <3>1, <4>2
        <5> QED BY <1>00, <5>1
      <4> QED BY <4>1, <4>2
    <3> QED BY <2>1, <3>1
  <2> QED BY <2>1, <2>5, <2>6, <2>7 DEF CallsApart
<1>2. ASSUME \A k \in Calls : ~Fires(k)
      PROVE  CallsApart'
  <2>1. ASSUME NEW n \in Calls
        PROVE  /\ stage'[n].edits = stage[n].edits
               /\ stage'[n].pc # "none" => stage[n].pc # "none"
    <3>1. CASE stage'[n] = stage[n]
      BY <3>1
    <3>2. CASE CallbackStep(n)
      <4>1. stage[n].pc # "none"
        BY <3>2 DEF CallbackStep, PictureComes, PictureFails, PictureShows, HandOver
      <4>2. \E pc, digest, now, of : StageIs(n, pc, stage[n].edits, digest, now, of)
        BY <1>0, <3>2, StageValues DEF CallbackStep
      <4>3. stage'[n].edits = stage[n].edits
        BY <4>2 DEF StageIs
      <4> QED BY <4>1, <4>3
    <3> QED BY <1>0, <1>2, <3>1, <3>2 DEF StageMoves
  <2>2. CASE shown' = shown /\ armed' = armed
    BY <1>0, <2>1, <2>2 DEF CallsApart
  <2>3. CASE PaneShows
    <3>1. /\ shown' = [status |-> rt.status, value |-> input.value, edits |-> input.edits]
          /\ shown # shown'
      BY <2>3 DEF PaneShows, PaneRenders
    <3>2. ASSUME NEW n \in Calls, stage[n].pc # "none"
          PROVE  /\ shown'.status = "ready" /\ stage[n].edits < shown'.edits
      <4>1. shown.status = "ready" /\ rt.status = "ready" /\ stage[n].edits <= shown.edits
        BY <1>0, <3>2 DEF CallsApart
      <4>2. shown.edits # input.edits
        <5>1. SUFFICES ASSUME shown.edits = input.edits PROVE FALSE
          OBVIOUS
        <5>2. shown.value = input.value
          BY <1>0, <5>1 DEF ShownIs
        <5> QED BY <1>00, <3>1, <4>1, <5>1, <5>2
      <4>3. shown.edits < input.edits
        BY <1>0, <1>00, <4>2 DEF ShownIs
      <4>4. stage[n].edits < input.edits
        BY <1>00, <4>1, <4>3
      <4> QED BY <3>1, <4>1, <4>4
    <3>3. ASSUME NEW n \in Calls, stage'[n].pc # "none"
          PROVE  shown'.status = "ready" /\ stage'[n].edits <= shown'.edits /\ stage'[n].edits < shown'.edits
      <4>1. stage[n].pc # "none" /\ stage'[n].edits = stage[n].edits
        BY <2>1, <3>3
      <4>2. shown'.status = "ready" /\ stage[n].edits < shown'.edits
        BY <3>2, <4>1
      <4>3. shown'.edits = input.edits
        BY <3>1
      <4> QED BY <1>00, <4>1, <4>2, <4>3
    <3> QED BY <1>0, <2>1, <3>3 DEF CallsApart
  <2>4. (shown' = shown /\ armed' = armed) \/ PaneShows
    BY <1>0, <1>2 DEF ShownMoves, Edit
  <2> QED BY <2>2, <2>3, <2>4
<1> QED BY <1>1, <1>2

LEMMA NoFaultsStep ==
    ASSUME PlacedInv, NoFaults, [Next]_vars
    PROVE  NoFaults'
<1>1. SUFFICES ASSUME faults' = 0 PROVE Undisturbed'
  BY DEF NoFaults
<1>0. faults \in Nat
  BY Numbers DEF PlacedInv, TypedInv, RtInv, Inv, Typed
<1>2. faults = 0
  <2>1. faults' = faults \/ faults' = faults + 1
    BY DEF Next, Microtask, LoadSettled, DrainEnsured, RenderReturns, CallEnsured, DrainSettled,
           Dispose, WorkerTask, Loaded, LoadFails, RenderAnswered, WorkerError, WatchdogStops,
           Edit, RetryEngine, RetrySave, PaneRenders, Load, TimerFires, Render, Fault,
           CallbackStep, PictureComes, PictureFails, PictureShows, HandOver, Upload, UploadFails,
           runtime, vars
  <2> QED BY <1>0, <1>1, <2>1
<1>3. Undisturbed
  BY <1>2 DEF NoFaults
<1>4. rt'.status # "failed" /\ (rt.status = "ready" => rt'.status = "ready") /\ LoadOk(rt')
  BY <1>1, <1>2, <1>3, StatusStep
<1>5. shown'.status # "failed" /\ (shown'.status = "ready" => rt'.status = "ready")
  <2>1. shown' = shown \/ shown' = [status |-> rt.status, value |-> input.value, edits |-> input.edits]
    <3>1. ShownMoves
      BY PaneStep DEF PlacedInv
    <3> QED BY <3>1 DEF ShownMoves, Edit, PaneShows, PaneRenders, Fires, TimerFires
  <2>2. shown'.status = shown.status \/ shown'.status = rt.status
    BY <2>1
  <2> QED BY <1>3, <1>4, <2>2 DEF Undisturbed
<1>6. CallsApart'
  BY <1>3, ApartStep
<1> QED BY <1>4, <1>5, <1>6 DEF Undisturbed, CallsApart

\* While nothing fails the runtime's status stays ready from the first load
\* on, whatever the watchdog stops and the next call restarts: a new edit is
\* all that makes the pane ask again, and it asks once.
THEOREM NothingFails == Spec => []NoFaults
<1>1. Init => NoFaults
  <2>1. SUFFICES ASSUME Init PROVE Undisturbed
    BY DEF NoFaults
  <2>2. rt.status = "idle" /\ rt.micro = <<>> /\ shown.status = "unmounted"
        /\ \A n \in Calls : stage[n].pc = "none"
    BY <2>1 DEF Init, RuntimeInit
  <2> QED BY <2>2 DEF Undisturbed, LoadOk
<1>2. PlacedInv /\ NoFaults /\ [Next]_vars => NoFaults'
  BY NoFaultsStep
<1> QED BY <1>1, <1>2, PlacesInvariant, PTL DEF Spec

LEMMA InvHung ==
    ASSUME NoFaults
    PROVE  HungAskedOnce
BY DEF NoFaults, Undisturbed, HungAskedOnce

\* A source that hung the engine is not rendered again on its own: the quiet
\* restart after a stop does not make the pane render (start, watchRender).
THEOREM HungOnce == Spec => []HungAskedOnce
BY NothingFails, InvHung, PTL

\* All four parts of the pane's safety at once.
THEOREM PaneConsistent ==
    ASSUME OneDocinfo
    PROVE  Spec => []Consistent
<1>1. TypeOK /\ OneEngine /\ HungAskedOnce /\ PicturesAreHonest => Consistent
  BY DEF Consistent
<1> QED BY <1>1, Types, OneEngineHolds, HungOnce, PicturesHonest, PTL

-----------------------------------------------------------------------------
(***************************************************************************)
(* Where the status says that there is no engine, none is asked for.       *)
(***************************************************************************)
Stuck(r) == r.status \in {"idle", "failed"}
Refusal(r) == r.micro # <<>> /\ Head(r.micro).kind = "load" /\ ~Head(r.micro).ok
Awake(r) == Stuck(r) => r.promise = None \/ Refusal(r)

\* The promise and the status of the runtime stay, or are those of a stop.
SameStatus == rt'.status = rt.status /\ rt'.promise = rt.promise
Calm == rt.micro = <<>> \/ Head(rt.micro).kind # "load"

LEMMA AwaitAwake ==
    ASSUME NEW r \in Runtimes, NEW who, NEW throws \in BOOLEAN, Stuck(r) => r.promise = None
    PROVE  Stuck(Await(r, who, throws)) => Await(r, who, throws).promise = None
<1> DEFINE s == Start(r, r.status = "ready", throws)
           a == Await(r, who, throws)
<1>1. Stuck(s) => s.promise = None
  BY DEF Start, Stuck, Runtimes
<1>2. a = IF s.promise = None THEN Later(s, Task("ensured", who, FALSE))
          ELSE IF s.promise \in s.fulfilled THEN Later(s, Task("ensured", who, TRUE))
          ELSE [s EXCEPT !.awaiting[s.promise] = Append(@, who)]
  BY DEF Await, EnsureWorker
<1>3. s \in [worker: {s.worker}, promise: {s.promise}, status: {s.status}, engine: {s.engine},
             quiet: {s.quiet}, fulfilled: {s.fulfilled}, pending: {s.pending},
             awaiting: {s.awaiting}, watched: {s.watched}, micro: {s.micro}]
  BY DEF Start, Runtimes
<1> HIDE DEF s, a
<1>4. \A t : Later(s, t).status = s.status /\ Later(s, t).promise = s.promise
  BY <1>3 DEF Later
<1>5. LET b == [s EXCEPT !.awaiting[s.promise] = Append(@, who)]
      IN  b.status = s.status /\ b.promise = s.promise
  BY <1>3
<1>6. a.status = s.status /\ a.promise = s.promise
  BY <1>2, <1>4, <1>5
<1> QED BY <1>1, <1>6 DEF Stuck, a

\* The microtasks, but for those that restart an engine, leave the status.
LEMMA SameStatusStep ==
    ASSUME TypedInv, \/ DrainEnsured \/ RenderReturns \/ RenderAnswered \/ WatchdogStops
                     \/ Loaded \/ LoadFails
    PROVE  /\ rt'.status = rt.status
           /\ SameStatus \/ rt'.promise = None
           /\ DrainEnsured \/ RenderReturns => Calm /\ rt.micro # <<>> /\ SameStatus
           /\ ~(DrainEnsured \/ RenderReturns) => rt.micro = <<>>
<1>0. rt \in Runtimes /\ RtInv /\ Inv(rt, call, waiting, drain, faults)
  BY DEF TypedInv, RtInv, Inv, Typed
<1>1. CASE DrainEnsured
  <2>1. rt.micro # <<>> /\ Head(rt.micro).kind # "load"
    BY <1>1 DEF DrainEnsured, Runs
  <2>2. Ran(rt).status = rt.status /\ Ran(rt).promise = rt.promise
    BY <1>0, RanIs DEF Fields
  <2>3. Ran(rt) = [rt EXCEPT !.micro = Tail(rt.micro)]
    BY DEF Ran
  <2>4. /\ \A t : Later(Ran(rt), t).status = rt.status /\ Later(Ran(rt), t).promise = rt.promise
        /\ \A t : LET s == Later([Ran(rt) EXCEPT !.watched = Watchdog], t)
                  IN  s.status = rt.status /\ s.promise = rt.promise
        /\ LET s == [Ran(rt) EXCEPT !.watched = Watchdog,
                                    !.pending = Append(@, <<rt.worker, "render">>)]
           IN  s.status = rt.status /\ s.promise = rt.promise
    BY <1>0, <2>3 DEF Later, Runtimes
  <2>5. SameStatus
    BY <1>1, <2>4 DEF DrainEnsured, SameStatus
  <2> QED BY <1>1, <2>1, <2>5 DEF Calm, SameStatus
<1>2. CASE RenderReturns
  <2>1. rt.micro # <<>> /\ Head(rt.micro).kind = "answered"
        /\ rt' = Later([Ran(rt) EXCEPT !.watched = FALSE], Task("settled", None, Head(rt.micro).ok))
    BY <1>2 DEF RenderReturns, Runs
  <2>2. SameStatus
    BY <1>0, <2>1 DEF Later, Ran, Runtimes, SameStatus
  <2> QED BY <1>2, <2>1, <2>2 DEF Calm, SameStatus
<1>3. CASE Loaded \/ LoadFails \/ RenderAnswered
  <2>1. PICK kind \in {"load", "render"}, ok \in BOOLEAN : Answer(kind, ok)
    BY <1>3 DEF Loaded, LoadFails, RenderAnswered
  <2>2. PICK asked \in {"load", "render"} : rt.pending = << <<rt.worker, asked>> >>
    BY <1>0, <2>1, AskedOnce DEF Answer
  <2>3. /\ rt.micro = <<>>
        /\ Fields(rt', rt.worker, rt.promise, rt.status,
                     [rt.engine EXCEPT ![rt.worker] =
                        IF kind = "render" THEN @ ELSE IF ok THEN "loaded" ELSE "broken"],
                     rt.quiet, rt.fulfilled, <<>>, rt.awaiting, rt.watched,
                     <<Task(IF kind = "load" THEN "load" ELSE "answered",
                            IF kind = "load" THEN rt.worker ELSE None, ok)>>)
    BY <1>0, <2>1, <2>2, AnswerIs
  <2>4. SameStatus
    BY <2>3 DEF Fields, SameStatus
  <2>5. ~(DrainEnsured \/ RenderReturns)
    BY <2>3 DEF DrainEnsured, RenderReturns, Runs
  <2> QED BY <2>3, <2>4, <2>5 DEF SameStatus
<1>4. CASE WatchdogStops
  <2>1. rt' = StopWorker(rt) /\ rt.micro = <<>>
    BY <1>4 DEF WatchdogStops
  <2>2. rt'.status = rt.status /\ rt'.promise = None
    BY <1>0, <2>1 DEF StopWorker, Runtimes
  <2>3. ~(DrainEnsured \/ RenderReturns)
    BY <2>1 DEF DrainEnsured, RenderReturns, Runs
  <2> QED BY <2>1, <2>2, <2>3
<1> QED BY <1>1, <1>2, <1>3, <1>4

LEMMA LoadSettledIs ==
    ASSUME TypedInv, LoadSettled
    PROVE  /\ rt.micro # <<>> /\ Head(rt.micro).kind = "load"
           /\ Head(rt.micro).ok =>
                /\ rt.promise # None /\ rt'.promise = rt.promise
                /\ rt'.status = rt.status \/ rt'.status = "ready"
           /\ ~Head(rt.micro).ok => rt'.promise = None /\ rt'.status = "failed"
<1>0. rt \in Runtimes /\ RtInv
  BY DEF TypedInv, RtInv, Inv, Typed
<1>1. rt.micro # <<>> /\ Head(rt.micro).kind = "load"
  BY DEF LoadSettled, Runs
<1>2. PICK w \in Workers, ok \in BOOLEAN :
        Told(rt, w, ok, waiting, drain) /\ Head(rt.micro) = Task("load", w, ok)
  BY <1>0, <1>1, HeadModes
<1>3. Head(rt.micro).who = w /\ Head(rt.micro).ok = ok
  BY <1>2 DEF Task
<1>4. ok => rt.promise # None
  BY <1>2, Numbers DEF Told
<1> DEFINE r == [Ran(rt) EXCEPT !.micro = @ \o Awaiters(rt, w, ok), !.awaiting[w] = <<>>]
<1>5. /\ r.status = rt.status /\ r.promise = rt.promise
      /\ r \in [worker: {r.worker}, promise: {r.promise}, status: {r.status}, engine: {r.engine},
             quiet: {r.quiet}, fulfilled: {r.fulfilled}, pending: {r.pending},
             awaiting: {r.awaiting}, watched: {r.watched}, micro: {r.micro}]
  BY <1>0 DEF Ran, Runtimes
<1>6. rt' = IF ok THEN [r EXCEPT !.fulfilled = @ \cup {w},
                                 !.status = IF w \in r.quiet THEN @ ELSE "ready"]
                  ELSE [r EXCEPT !.status = "failed", !.promise = None]
  BY <1>3 DEF LoadSettled
<1> HIDE DEF r
<1>7. CASE ok
  <2>1. rt'.promise = r.promise /\ (rt'.status = r.status \/ rt'.status = "ready")
    BY <1>5, <1>6, <1>7
  <2> QED BY <1>1, <1>3, <1>4, <1>5, <1>7, <2>1
<1>8. CASE ~ok
  BY <1>1, <1>3, <1>5, <1>6, <1>8
<1> QED BY <1>7, <1>8

LEMMA AwakeStep ==
    ASSUME TypedInv, Awake(rt), [Next]_vars
    PROVE  Awake(rt')
<1>0. /\ rt \in Runtimes /\ RtInv /\ Inv(rt, call, waiting, drain, faults)
      /\ Drain(rt, waiting, drain)
  BY DEF TypedInv, RtInv, Inv, Typed
<1>1. ASSUME rt' = rt PROVE Awake(rt')
  BY <1>1
<1>2. ASSUME rt'.promise = None \/ ~Stuck(rt') PROVE Awake(rt')
  BY <1>2 DEF Awake
<1>3. Calm => (Stuck(rt) => rt.promise = None)
  BY DEF Awake, Refusal, Calm
<1>4. ASSUME Calm, SameStatus PROVE Awake(rt')
  BY <1>3, <1>4 DEF SameStatus, Stuck, Awake
<1>5. CASE LoadSettled
  <2>1. Head(rt.micro).ok => ~Stuck(rt)
    BY <1>5, LoadSettledIs DEF Awake, Refusal
  <2>2. rt'.promise = None \/ ~Stuck(rt')
    BY <1>5, <2>1, LoadSettledIs DEF Stuck
  <2> QED BY <1>2, <2>2
<1>6. CASE DrainEnsured \/ RenderReturns
  <2>1. Calm /\ SameStatus
    BY <1>6, SameStatusStep
  <2> QED BY <1>4, <2>1
<1>7. CASE Loaded \/ LoadFails \/ RenderAnswered \/ WatchdogStops
  <2>1. rt.micro = <<>>
    BY <1>7 DEF Loaded, LoadFails, RenderAnswered, Answer, WatchdogStops
  <2>2. SameStatus \/ rt'.promise = None
    BY <1>7, SameStatusStep
  <2> QED BY <1>2, <1>4, <2>1, <2>2 DEF Calm
<1>8. ASSUME NEW throws \in BOOLEAN, CallEnsured(throws)
      PROVE  Awake(rt')
  <2>1. rt.micro # <<>> /\ Head(rt.micro).kind # "load"
    BY <1>8 DEF CallEnsured, Runs
  <2>2. Ran(rt).status = rt.status /\ Ran(rt).promise = rt.promise
    BY <1>0, RanIs DEF Fields
  <2>3. Ran(rt) \in Runtimes
    <3> DEFINE q == rt.micro
    <3>1. q \in Seq(Micro) /\ q # <<>>
      BY <1>0, <2>1 DEF Runtimes
    <3> HIDE DEF q
    <3>2. Tail(q) \in Seq(Micro)
      BY <3>1, TailIs
    <3>3. Tail(rt.micro) \in Seq(Micro)
      BY <3>2 DEF q
    <3> QED BY <1>0, <3>3 DEF Ran, Runtimes
  <2>4. rt' = Ran(rt) \/ rt' = Await(Ran(rt), None, throws)
    BY <1>8 DEF CallEnsured, TakeJob
  <2>5. CASE rt' = Ran(rt)
    BY <1>4, <2>1, <2>2, <2>5 DEF Calm, SameStatus
  <2>6. CASE rt' = Await(Ran(rt), None, throws)
    <3>1. Stuck(Ran(rt)) => Ran(rt).promise = None
      BY <1>3, <2>1, <2>2 DEF Calm, Stuck
    <3>2. Stuck(rt') => rt'.promise = None
      BY <2>3, <2>6, <3>1, AwaitAwake
    <3> QED BY <1>2, <3>2
  <2> QED BY <2>4, <2>5, <2>6
<1>9. ASSUME NEW throws \in BOOLEAN, DrainSettled(throws)
      PROVE  Awake(rt')
  <2>1. rt.micro # <<>> /\ Head(rt.micro).kind # "load"
    BY <1>9 DEF DrainSettled, Runs
  <2>2. Ran(rt).status = rt.status /\ Ran(rt).promise = rt.promise
    BY <1>0, RanIs DEF Fields
  <2>3. Ran(rt) \in Runtimes
    <3> DEFINE q == rt.micro
    <3>1. q \in Seq(Micro) /\ q # <<>>
      BY <1>0, <2>1 DEF Runtimes
    <3> HIDE DEF q
    <3>2. Tail(q) \in Seq(Micro)
      BY <3>1, TailIs
    <3>3. Tail(rt.micro) \in Seq(Micro)
      BY <3>2 DEF q
    <3> QED BY <1>0, <3>3 DEF Ran, Runtimes
  <2>4. rt' = Ran(rt) \/ rt' = Await(Ran(rt), None, throws)
    BY <1>9 DEF DrainSettled, TakeJob
  <2>5. CASE rt' = Ran(rt)
    BY <1>4, <2>1, <2>2, <2>5 DEF Calm, SameStatus
  <2>6. CASE rt' = Await(Ran(rt), None, throws)
    <3>1. Stuck(Ran(rt)) => Ran(rt).promise = None
      BY <1>3, <2>1, <2>2 DEF Calm, Stuck
    <3>2. Stuck(rt') => rt'.promise = None
      BY <2>3, <2>6, <3>1, AwaitAwake
    <3> QED BY <1>2, <3>2
  <2> QED BY <2>4, <2>5, <2>6
<1>10. CASE Dispose \/ WorkerError
  <2>1. rt'.promise = None
    BY <1>0, <1>10 DEF Dispose, WorkerError, StopWorker, Runtimes
  <2> QED BY <1>2, <2>1
<1>11. ASSUME NEW throws \in BOOLEAN, Load(throws), rt.micro = <<>>
       PROVE  Awake(rt')
  <2>1. rt' = Start(rt, FALSE, throws)
    BY <1>11 DEF Load
  <2>2. rt' = rt \/ rt'.status = "loading" \/ rt'.promise = None
    BY <1>0, <2>1 DEF Start, Runtimes
  <2> QED BY <1>1, <1>2, <2>2 DEF Stuck
<1>12. CASE RetryEngine
  <2>1. Load(FALSE) /\ rt.micro = <<>> /\ FALSE \in BOOLEAN
    BY <1>12 DEF RetryEngine
  <2> QED BY <1>11, <2>1
<1>13. ASSUME NEW throws \in BOOLEAN, PaneRenders(throws)
       PROVE  Awake(rt')
  BY <1>1, <1>11, <1>13 DEF PaneRenders, runtime
<1>14. ASSUME NEW throws \in BOOLEAN, NEW n \in Calls, TimerFires(n, throws)
       PROVE  Awake(rt')
  <2>1. rt.micro = <<>> /\ rt' = Await(rt, n, throws)
    BY <1>14 DEF TimerFires, Render
  <2>2. Stuck(rt) => rt.promise = None
    BY <1>3, <2>1 DEF Calm
  <2>3. Stuck(rt') => rt'.promise = None
    BY <1>0, <2>1, <2>2, AwaitAwake
  <2> QED BY <1>2, <2>3
<1>15. CASE Edit \/ RetrySave \/ UNCHANGED vars
  BY <1>1, <1>15 DEF Edit, RetrySave, vars, runtime
<1>16. ASSUME NEW n \in Calls, CallbackStep(n)
       PROVE  Awake(rt')
  BY <1>1, <1>16 DEF CallbackStep, PictureComes, PictureFails, PictureShows, HandOver, runtime
<1>17. ASSUME NEW i \in DOMAIN uploads, Upload(i) \/ UploadFails(i)
       PROVE  Awake(rt')
  BY <1>1, <1>17 DEF Upload, UploadFails, runtime
<1> QED BY <1>5, <1>6, <1>7, <1>8, <1>9, <1>10, <1>12, <1>13, <1>14, <1>15, <1>16, <1>17
        DEF Next, Microtask, WorkerTask

-----------------------------------------------------------------------------
(***************************************************************************)
(* What is at rest is current: the picture the server has is the one of    *)
(* the source, if the author neither returns to an old source nor retries  *)
(* an old upload, and the requests that store pictures keep their order.   *)
(***************************************************************************)
Steady == OneDocinfo /\ {"undo", "retry_overtaken", "reorder"} \cap Env = {}

Asked(d) == \E n \in Calls : call[n].pc # "none" /\ call[n].input = d
AskedNext(d) == \E n \in Calls : call'[n].pc # "none" /\ call'[n].input = d

\* A picture is of a call at least as new.
ResultIs(n) ==
    call[n].pc = "resolved" \/ stage[n].digest # NoInput =>
        \E m \in n..NCalls : call[m].pc # "none" /\ call[n].result = call[m].input

Seen ==
    /\ input.value \in input.seen /\ shown.value \in input.seen
    /\ \A n \in Calls : call[n].pc # "none" => call[n].input \in input.seen
    /\ shown.value = input.value => shown.edits = input.edits
    /\ Asked(input.value) => shown.value = input.value
    /\ Asked(input.value) =>
        \A n \in Calls : stage[n].pc = "compare" => stage[n].now = input.value

LEMMA InputStays ==
    ASSUME TypedInv, [Next]_vars, NEW n \in Calls, call[n].pc # "none"
    PROVE  call'[n].pc # "none" /\ call'[n].input = call[n].input
<1>1. CallMoves(n)
  BY CallStep
<1> QED BY <1>1 DEF CallMoves, IsAsked, IsEnsuredNow, IsTold, IsOver, SameInput

LEMMA ResultStep ==
    ASSUME PlacedInv, [Next]_vars, NEW n \in Calls, ResultIs(n)
    PROVE  ResultIs(n)'
<1>0. TypedInv /\ CallMoves(n) /\ StageMoves(n) /\ Place(n) /\ Place(n)'
  BY CallStep, PaneStep, PlaceStep DEF PlacedInv, Places
<1>1. SUFFICES ASSUME call'[n].pc = "resolved" \/ stage'[n].digest # NoInput
               PROVE  \E m \in n..NCalls : call'[m].pc # "none" /\ call'[n].result = call'[m].input
  BY DEF ResultIs
<1>2. \A m \in n..NCalls : m \in Calls
  BY Numbers DEF Calls
<1>3. CASE IsTold(n)
  <2>1. /\ Last(drain.job) \in n..NCalls /\ Last(drain.job) \in Calls
        /\ call[Last(drain.job)].pc = "queued" /\ call'[n].result = call[Last(drain.job)].input
    BY <1>0, <1>3, JobsLast DEF IsTold, JobInput
  <2> QED BY <1>0, <2>1, InputStays
<1>4. CASE call'[n].result = call[n].result /\ (call[n].pc = "resolved" \/ stage[n].digest # NoInput)
  <2>1. PICK m \in n..NCalls : call[m].pc # "none" /\ call[n].result = call[m].input
    BY <1>4 DEF ResultIs
  <2> QED BY <1>0, <1>2, <1>4, <2>1, InputStays
<1>5. CASE ~IsTold(n)
  <2>1. call'[n].result = call[n].result \/ IsAsked(n)
    BY <1>0, <1>5 DEF CallMoves, IsEnsuredNow, IsOver, SameResult
  <2>2. ~IsAsked(n)
    <3>1. SUFFICES ASSUME IsAsked(n) PROVE FALSE
      OBVIOUS
    <3>2. call'[n].pc = "ensuring"
      BY <3>1 DEF IsAsked
    <3>3. stage'[n].pc \notin {"none", "digest", "compare", "over"}
      BY <1>0, <3>2 DEF Place
    <3>4. Fires(n)
      BY <3>1 DEF IsAsked, Fires
    <3>5. StageIs(n, "awaiting", shown.edits, stage[n].digest, stage[n].now, stage[n].asset)
      BY <1>0, <3>4, StageValues
    <3>6. stage'[n].pc = "awaiting"
      BY <3>5 DEF StageIs
    <3> QED BY <1>0, <1>1, <3>2, <3>6 DEF Place
  <2>3. call[n].pc = "resolved" \/ stage[n].digest # NoInput
    <3>1. SUFFICES ASSUME call[n].pc # "resolved", stage[n].digest = NoInput PROVE FALSE
      OBVIOUS
    <3>2. call'[n].pc # "resolved"
      BY <1>0, <1>5, <2>2, <3>1 DEF CallMoves, IsEnsuredNow, IsOver
    <3>3. CASE stage'[n] = stage[n]
      BY <1>1, <3>1, <3>2, <3>3
    <3>4. CASE Fires(n)
      <4>1. StageIs(n, "awaiting", shown.edits, stage[n].digest, stage[n].now, stage[n].asset)
        BY <1>0, <3>4, StageValues
      <4> QED BY <1>1, <3>1, <3>2, <4>1 DEF StageIs
    <3>5. CASE PictureComes(n)
      BY <3>1, <3>5 DEF PictureComes
    <3>6. CASE PictureFails(n) \/ HandOver(n)
      <4>1. StageIs(n, "over", stage[n].edits, stage[n].digest, stage[n].now, stage[n].asset)
        BY <1>0, <3>6, StageValues
      <4> QED BY <1>1, <3>1, <3>2, <4>1 DEF StageIs
    <3>7. CASE PictureShows(n)
      <4>1. StageIs(n, "compare", stage[n].edits, stage[n].digest, shown.value, asset)
        BY <1>0, <3>7, StageValues
      <4> QED BY <1>1, <3>1, <3>2, <4>1 DEF StageIs
    <3> QED BY <1>0, <3>3, <3>4, <3>5, <3>6, <3>7 DEF StageMoves, CallbackStep
  <2> QED BY <1>4, <2>1, <2>2, <2>3
<1> QED BY <1>3, <1>5

\* What was asked for stays so, and the timer asks for what is shown.
LEMMA AskedStep ==
    ASSUME TypedInv, [Next]_vars, NEW d
    PROVE  /\ Asked(d) => AskedNext(d)
           /\ AskedNext(d) => Asked(d) \/ ((\E n \in Calls : Fires(n)) /\ d = shown.value)
<1>1. ASSUME Asked(d) PROVE AskedNext(d)
  <2>1. PICK n \in Calls : call[n].pc # "none" /\ call[n].input = d
    BY <1>1 DEF Asked, AskedNext
  <2>2. call'[n].pc # "none" /\ call'[n].input = d
    BY <2>1, InputStays
  <2> QED BY <2>2 DEF Asked, AskedNext
<1>2. ASSUME AskedNext(d), ~Asked(d)
      PROVE  (\E n \in Calls : Fires(n)) /\ d = shown.value
  <2>1. PICK n \in Calls : call'[n].pc # "none" /\ call'[n].input = d
    BY <1>2 DEF Asked, AskedNext
  <2>2. CallMoves(n)
    BY CallStep
  <2>3. CASE IsAsked(n)
    BY <2>1, <2>3 DEF IsAsked, Fires
  <2>4. CASE call'[n] = call[n] \/ IsEnsuredNow(n) \/ IsTold(n) \/ IsOver(n)
    <3>1. call[n].pc # "none" /\ call[n].input = d
      BY <2>1, <2>4 DEF IsEnsuredNow, IsTold, IsOver, SameInput
    <3> QED BY <1>2, <3>1 DEF Asked, AskedNext
  <2> QED BY <2>2, <2>3, <2>4 DEF CallMoves
<1> QED BY <1>1, <1>2

LEMMA SeenStep ==
    ASSUME Steady, PlacedInv, Seen, [Next]_vars
    PROVE  Seen'
<1>0. /\ TypedInv /\ ShownMoves /\ \A n \in Calls : StageMoves(n)
      /\ input \in [value: Inputs, edits: 0..MaxEdits, seen: SUBSET Inputs]
  BY PaneStep DEF PlacedInv, TypedInv, PaneTyped
<1>1. ASSUME UNCHANGED <<input, shown>>, \A n \in Calls : ~Fires(n)
      PROVE  Seen'
  <2>1. \A d : AskedNext(d) => Asked(d)
    BY <1>0, <1>1, AskedStep
  <2>2. ASSUME NEW n \in Calls, call'[n].pc # "none"
        PROVE  call'[n].input \in input.seen
    <3>1. AskedNext(call'[n].input)
      BY <2>2 DEF Asked, AskedNext
    <3>2. Asked(call'[n].input)
      BY <2>1, <3>1
    <3> QED BY <3>2 DEF Asked, AskedNext, Seen
  <2>3. ASSUME NEW n \in Calls, Asked(input.value), stage'[n].pc = "compare"
        PROVE  stage'[n].now = input.value
    <3>1. CASE stage'[n] = stage[n]
      BY <2>3, <3>1 DEF Seen
    <3>2. CASE PictureComes(n)
      <4>1. StageIs(n, "digest", stage[n].edits, DigestOf(n), stage[n].now, stage[n].asset)
        BY <1>0, <3>2, StageValues
      <4> QED BY <2>3, <4>1 DEF StageIs
    <3>3. CASE PictureFails(n) \/ HandOver(n)
      <4>1. StageIs(n, "over", stage[n].edits, stage[n].digest, stage[n].now, stage[n].asset)
        BY <1>0, <3>3, StageValues
      <4> QED BY <2>3, <4>1 DEF StageIs
    <3>4. CASE PictureShows(n)
      <4>1. StageIs(n, "compare", stage[n].edits, stage[n].digest, shown.value, asset)
        BY <1>0, <3>4, StageValues
      <4>2. stage'[n].now = shown.value
        BY <4>1 DEF StageIs
      <4> QED BY <2>3, <4>2 DEF Seen
    <3> QED BY <1>0, <1>1, <3>1, <3>2, <3>3, <3>4 DEF StageMoves, CallbackStep
  <2>4. input' = input /\ shown' = shown
    BY <1>1
  <2>5. AskedNext(input.value) => Asked(input.value)
    BY <2>1
  <2>6. AskedNext(input'.value) => Asked(input.value)
    BY <2>4, <2>5 DEF Asked, AskedNext
  <2> QED BY <2>2, <2>3, <2>4, <2>6 DEF Seen, Asked, AskedNext
<1>2. CASE Edit
  <2>1. PICK i \in Inputs \ {input.value} :
            /\ i \in input.seen => "undo" \in Env
            /\ input' = [value |-> i, edits |-> input.edits + 1, seen |-> input.seen \cup {i}]
    BY <1>2 DEF Edit
  <2>2. i \notin input.seen
    BY <2>1 DEF Steady
  <2>3. shown' = shown /\ call' = call /\ stage' = stage
    BY <1>2 DEF Edit, runtime
  <2>4. ~(\E n \in Calls : call'[n].pc # "none" /\ call'[n].input = i)
    BY <2>2, <2>3 DEF Seen
  <2>5. /\ input'.value = i /\ input'.seen = input.seen \cup {i} /\ shown.value # i
    BY <2>1, <2>2 DEF Seen
  <2> QED BY <2>3, <2>4, <2>5 DEF Seen, Asked, AskedNext
<1>3. CASE PaneShows
  <2>1. /\ shown'.value = input.value /\ shown'.edits = input.edits /\ input' = input
        /\ stage' = stage
    BY <1>3 DEF PaneShows, PaneRenders
  <2>2. call' = call
    BY <1>3 DEF PaneShows, PaneRenders, Load, runtime
  <2> QED BY <2>1, <2>2 DEF Seen, Asked, AskedNext
<1>4. ASSUME NEW k \in Calls, Fires(k)
      PROVE  Seen'
  <2>1. /\ input' = input /\ shown' = shown /\ ~Digesting
        /\ \A n \in Calls : n # k => stage'[n] = stage[n]
    BY <1>0, <1>4 DEF Fires, TimerFires, TypedInv, PaneTyped, Stages
  <2>2. StageIs(k, "awaiting", shown.edits, stage[k].digest, stage[k].now, stage[k].asset)
    BY <1>0, <1>4, StageValues
  <2>3. \A n \in Calls : stage'[n].pc # "compare"
    <3>1. stage'[k].pc = "awaiting"
      BY <2>2 DEF StageIs
    <3>2. \A n \in Calls : stage[n].pc # "compare"
      BY <2>1 DEF Digesting
    <3> QED BY <2>1, <3>1, <3>2
  <2>4. ASSUME NEW n \in Calls, call'[n].pc # "none"
        PROVE  call'[n].input \in input.seen
    <3>1. AskedNext(call'[n].input)
      BY <2>4 DEF Asked, AskedNext
    <3>2. Asked(call'[n].input) \/ call'[n].input = shown.value
      BY <1>0, <3>1, AskedStep
    <3> QED BY <3>2 DEF Asked, AskedNext, Seen
  <2>5. AskedNext(input.value) => Asked(input.value) \/ input.value = shown.value
    BY <1>0, AskedStep
  <2>6. AskedNext(input'.value) => shown.value = input.value
    BY <2>1, <2>5 DEF Seen, Asked, AskedNext
  <2> QED BY <2>1, <2>3, <2>4, <2>6 DEF Seen, Asked, AskedNext
<1>5. (\E k \in Calls : Fires(k)) \/ PaneShows \/ Edit \/ UNCHANGED <<input, shown>>
  BY <1>0 DEF ShownMoves
<1> QED BY <1>1, <1>2, <1>3, <1>4, <1>5

-----------------------------------------------------------------------------
(***************************************************************************)
(* What is sent, on its way and stored.                                    *)
(***************************************************************************)
Latest == IF uploads = <<>> THEN row.digest ELSE uploads[Len(uploads)].digest

SaveFailed ==
    error.save # NoOutput => Asked(error.save.digest) /\ error.save.digest \notin sent
OnTheWay ==
    \A i \in 1..Len(uploads) :
        /\ uploads[i].digest \in sent /\ uploads[i].digest # row.digest
        /\ \A j \in 1..Len(uploads) : i # j => uploads[i].digest # uploads[j].digest
Compared ==
    \A n \in Calls : stage[n].pc = "compare" /\ stage[n].asset # NoInput =>
        /\ stage[n].asset \in sent
        /\ \A i \in 1..Len(uploads) : uploads[i].digest # stage[n].asset

Stored ==
    /\ \A d \in sent : Asked(d)
    /\ SaveFailed /\ OnTheWay /\ Compared
    /\ row # NoOutput => row.digest \in sent
    /\ asset = row.digest
    /\ input.value \in sent => Latest = input.value

\* What may be stored: something new, and what the source is if that is sent.
Storable(o) ==
    /\ o \in Output /\ Asked(o.digest) /\ o.digest \notin sent
    /\ Asked(input.value) => o.digest = input.value

LEMMA StoreStep ==
    ASSUME PlacedInv, Stored, [Next]_vars, NEW o, Storable(o), Store(o),
           UNCHANGED <<row, asset, input>>,
           \A n \in Calls : stage'[n].pc = "compare" => stage'[n] = stage[n]
    PROVE  Stored'
<1>0. /\ TypedInv /\ uploads \in Seq(Output) /\ row \in Output \cup {NoOutput}
      /\ error \in [render: BOOLEAN, save: Output \cup {NoOutput}]
  BY DEF PlacedInv, TypedInv, PaneTyped
<1>1. \A d : Asked(d) => AskedNext(d)
  BY <1>0, AskedStep
<1>2. sent' = sent \cup {o.digest} /\ uploads' = Append(uploads, o) /\ error'.save = NoOutput
  BY <1>0 DEF Store
<1>3. /\ Len(uploads) \in Nat /\ Len(uploads') = Len(uploads) + 1 /\ uploads' # <<>>
      /\ uploads'[Len(uploads) + 1] = o
      /\ \A i \in 1..Len(uploads) : uploads'[i] = uploads[i]
      /\ \A i \in 1..(Len(uploads) + 1) : i \in 1..Len(uploads) \/ i = Len(uploads) + 1
  <2>1. o \in Output
    BY DEF Storable
  <2> QED BY <1>0, <1>2, <2>1, AppendIs
<1>4. o.digest # row.digest
  <2>1. CASE row = NoOutput
    BY <2>1, InputsAreDigests DEF Storable, NoOutput
  <2>2. CASE row # NoOutput
    BY <2>2 DEF Storable, Stored
  <2> QED BY <2>1, <2>2
<1>5. (\A d \in sent : Asked(d))' /\ SaveFailed'
  <2>1. \A d \in sent' : Asked(d)
    BY <1>2 DEF Stored, Storable
  <2>2. \A d \in sent' : AskedNext(d)
    BY <1>1, <2>1
  <2>3. (\A d \in sent : Asked(d))'
    BY <2>2 DEF Asked, AskedNext
  <2> QED BY <1>2, <2>3 DEF SaveFailed
<1>6. OnTheWay'
  <2>1. \A i \in 1..Len(uploads) : uploads[i].digest \in sent
    BY DEF Stored, OnTheWay
  <2>2. \A i \in 1..Len(uploads) : uploads[i].digest # o.digest
    BY <2>1 DEF Storable
  <2>3. ASSUME NEW i \in 1..Len(uploads')
        PROVE  /\ uploads'[i].digest \in sent' /\ uploads'[i].digest # row'.digest
               /\ \A j \in 1..Len(uploads') : i # j => uploads'[i].digest # uploads'[j].digest
    <3>1. CASE i \in 1..Len(uploads)
      BY <1>2, <1>3, <2>2, <3>1 DEF Stored, OnTheWay
    <3>2. CASE i = Len(uploads) + 1
      BY <1>2, <1>3, <1>4, <2>2, <3>2
    <3> QED BY <1>3, <3>1, <3>2
  <2> QED BY <2>3 DEF OnTheWay
<1>7. Compared'
  <2>1. SUFFICES ASSUME NEW n \in Calls, stage'[n].pc = "compare", stage'[n].asset # NoInput
                 PROVE  /\ stage'[n].asset \in sent'
                        /\ \A i \in 1..Len(uploads') : uploads'[i].digest # stage'[n].asset
    BY DEF Compared
  <2>2. /\ stage[n].asset \in sent /\ stage'[n].asset = stage[n].asset
        /\ \A i \in 1..Len(uploads) : uploads[i].digest # stage[n].asset
    BY <2>1 DEF Stored, Compared
  <2>3. o.digest # stage[n].asset
    BY <2>2 DEF Storable
  <2> QED BY <1>2, <1>3, <2>2, <2>3
<1>8. (row # NoOutput => row.digest \in sent)' /\ (asset = row.digest)'
  BY <1>2 DEF Stored
<1>9. (input.value \in sent => Latest = input.value)'
  <2>1. SUFFICES ASSUME input.value \in sent \cup {o.digest}
                 PROVE  o.digest = input.value
    BY <1>2, <1>3 DEF Latest
  <2> QED BY <2>1 DEF Stored, Storable
<1> QED BY <1>5, <1>6, <1>7, <1>8, <1>9 DEF Stored

\* A request is answered, in order.
LEMMA UploadStep ==
    ASSUME Steady, PlacedInv, Stored, [Next]_vars, NEW k \in DOMAIN uploads, Upload(k)
    PROVE  Stored'
<1>0. /\ TypedInv /\ uploads \in Seq(Output) /\ k \in 1..Len(uploads)
  BY DEF PlacedInv, TypedInv, PaneTyped
<1>1. \A d : Asked(d) => AskedNext(d)
  BY <1>0, AskedStep
<1>2. /\ k = 1 /\ row' = uploads[1] /\ asset' = row'.digest /\ sent' = sent /\ error' = error
      /\ input' = input /\ stage' = stage /\ uploads' = RemoveAt(uploads, 1)
  BY DEF Steady, Upload
<1>3. /\ Len(uploads') = Len(uploads) - 1
      /\ \A i \in 1..(Len(uploads) - 1) : uploads'[i] = uploads[i + 1]
  BY <1>0, <1>2, RemoveAtIs
<1>4. /\ Len(uploads) \in Nat /\ Len(uploads) >= 1
      /\ \A i \in 1..(Len(uploads) - 1) : i + 1 \in 1..Len(uploads) /\ i + 1 # 1
      /\ 1 \in 1..Len(uploads)
  BY <1>0, <1>2
<1>5. (\A d \in sent : Asked(d))' /\ SaveFailed'
  <2>1. \A d \in sent : AskedNext(d)
    BY <1>1 DEF Stored
  <2>2. (\A d \in sent : Asked(d))'
    BY <1>2, <2>1 DEF Asked, AskedNext
  <2>3. error.save # NoOutput => AskedNext(error.save.digest) /\ error.save.digest \notin sent
    BY <1>1 DEF Stored, SaveFailed
  <2>4. SaveFailed'
    BY <1>2, <2>3 DEF SaveFailed, Asked, AskedNext
  <2> QED BY <2>2, <2>4
<1>6. OnTheWay'
  <2>1. SUFFICES ASSUME NEW i \in 1..(Len(uploads) - 1)
        PROVE  /\ uploads[i + 1].digest \in sent /\ uploads[i + 1].digest # uploads[1].digest
               /\ \A j \in 1..(Len(uploads) - 1) : i # j => uploads[i + 1].digest # uploads[j + 1].digest
    BY <1>2, <1>3 DEF OnTheWay
  <2>2. \A j \in 1..(Len(uploads) - 1) : i # j => i + 1 # j + 1
    OBVIOUS
  <2> QED BY <1>4, <2>1, <2>2 DEF Stored, OnTheWay
<1>7. Compared'
  BY <1>2, <1>3, <1>4 DEF Stored, Compared
<1>8. (row # NoOutput => row.digest \in sent)' /\ (asset = row.digest)'
  BY <1>2, <1>4 DEF Stored, OnTheWay
<1>9. Latest' = Latest
  <2>1. CASE Len(uploads) = 1
    <3>1. uploads' = <<>> /\ uploads # <<>>
      <4>1. uploads' \in Seq(Output)
        BY <1>0, <1>2, RemoveAtIs
      <4> QED BY <1>3, <2>1, <4>1
    <3> QED BY <1>2, <2>1, <3>1 DEF Latest
  <2>2. CASE Len(uploads) # 1
    <3>1. Len(uploads) - 1 \in 1..(Len(uploads) - 1) /\ (Len(uploads) - 1) + 1 = Len(uploads)
      BY <1>4, <2>2
    <3>2. uploads' # <<>> /\ uploads # <<>>
      BY <1>3, <1>4, <2>2
    <3>3. uploads'[Len(uploads')] = uploads[Len(uploads)]
      BY <1>3, <3>1
    <3> QED BY <3>2, <3>3 DEF Latest
  <2> QED BY <2>1, <2>2
<1> QED BY <1>2, <1>5, <1>6, <1>7, <1>8, <1>9 DEF Stored

\* A request is lost: its picture is not sent any more.
LEMMA UploadFailsStep ==
    ASSUME PlacedInv, Stored, [Next]_vars, NEW k \in DOMAIN uploads, UploadFails(k)
    PROVE  Stored'
<1>0. /\ TypedInv /\ uploads \in Seq(Output) /\ k \in 1..Len(uploads) /\ k \in Nat
      /\ error \in [render: BOOLEAN, save: Output \cup {NoOutput}]
  BY DEF PlacedInv, TypedInv, PaneTyped
<1>1. \A d : Asked(d) => AskedNext(d)
  BY <1>0, AskedStep
<1> DEFINE d == uploads[k].digest
<1>2. /\ row' = row /\ asset' = asset /\ sent' = sent \ {d} /\ error'.save = uploads[k]
      /\ input' = input /\ stage' = stage /\ uploads' = RemoveAt(uploads, k)
  BY <1>0 DEF UploadFails
<1>3. /\ Len(uploads') = Len(uploads) - 1
      /\ \A i \in 1..(Len(uploads) - 1) : uploads'[i] = IF i < k THEN uploads[i] ELSE uploads[i + 1]
  BY <1>0, <1>2, RemoveAtIs
<1> DEFINE At(i) == IF i < k THEN i ELSE i + 1
<1>4. \A i \in 1..(Len(uploads) - 1) :
        /\ At(i) \in 1..Len(uploads) /\ At(i) # k /\ uploads'[i] = uploads[At(i)]
        /\ \A j \in 1..(Len(uploads) - 1) : i # j => At(i) # At(j)
  <2>1. Len(uploads) \in Nat
    BY <1>0
  <2>2. \A i \in 1..(Len(uploads) - 1) : uploads'[i] = uploads[At(i)]
    BY <1>3
  <2>3. \A i \in 1..(Len(uploads) - 1) :
        /\ At(i) \in 1..Len(uploads) /\ At(i) # k
        /\ \A j \in 1..(Len(uploads) - 1) : i # j => At(i) # At(j)
    BY <1>0, <2>1
  <2> QED BY <2>2, <2>3
<1> HIDE DEF At
<1>5. /\ \A i \in 1..Len(uploads) : i # k => uploads[i].digest # d
      /\ d \in sent /\ d # row.digest
  BY <1>0 DEF Stored, OnTheWay
<1>6. (\A e \in sent : Asked(e))' /\ SaveFailed'
  <2>1. (\A e \in sent : AskedNext(e)) /\ AskedNext(d)
    BY <1>1, <1>5 DEF Stored
  <2>2. (\A e \in sent : Asked(e))'
    BY <1>2, <2>1 DEF Asked, AskedNext
  <2>3. SaveFailed'
    BY <1>2, <2>1 DEF SaveFailed, Asked, AskedNext
  <2> QED BY <2>2, <2>3
<1>7. OnTheWay'
  <2>1. /\ sent' = sent \ {d} /\ row' = row /\ Len(uploads') = Len(uploads) - 1
        /\ \A i \in 1..(Len(uploads) - 1) : uploads'[i] = uploads[At(i)]
    BY <1>2, <1>3, <1>4
  <2>2. OnTheWay
    BY DEF Stored
  <2> HIDE DEF d
  <2>3. ASSUME NEW i \in 1..(Len(uploads) - 1)
        PROVE  /\ uploads[At(i)].digest \in sent \ {d} /\ uploads[At(i)].digest # row.digest
               /\ \A j \in 1..(Len(uploads) - 1) : i # j => uploads[At(i)].digest # uploads[At(j)].digest
    <3>1. At(i) \in 1..Len(uploads) /\ uploads[At(i)].digest # d
      BY <1>4, <1>5
    <3>2. uploads[At(i)].digest \in sent \ {d} /\ uploads[At(i)].digest # row.digest
      BY <2>2, <3>1 DEF OnTheWay
    <3>3. ASSUME NEW j \in 1..(Len(uploads) - 1), i # j
          PROVE  uploads[At(i)].digest # uploads[At(j)].digest
      <4>1. At(j) \in 1..Len(uploads) /\ At(i) # At(j)
        BY <1>4, <3>3
      <4> QED BY <2>2, <3>1, <4>1 DEF OnTheWay
    <3> QED BY <3>2, <3>3
  <2>4. ASSUME NEW i \in 1..Len(uploads')
        PROVE  /\ uploads'[i].digest \in sent' /\ uploads'[i].digest # row'.digest
               /\ \A j \in 1..Len(uploads') : i # j => uploads'[i].digest # uploads'[j].digest
    BY <2>1, <2>3
  <2> QED BY <2>4 DEF OnTheWay
<1>8. Compared'
  <2>1. SUFFICES ASSUME NEW n \in Calls, stage[n].pc = "compare", stage[n].asset # NoInput
                 PROVE  /\ stage[n].asset \in sent \ {d}
                        /\ \A i \in 1..(Len(uploads) - 1) : uploads[At(i)].digest # stage[n].asset
    BY <1>2, <1>3, <1>4 DEF Compared
  <2>2. /\ stage[n].asset \in sent
        /\ \A i \in 1..Len(uploads) : uploads[i].digest # stage[n].asset
    BY <2>1 DEF Stored, Compared
  <2> QED BY <1>0, <1>4, <2>2
<1>9. (row # NoOutput => row.digest \in sent)' /\ (asset = row.digest)'
  BY <1>2, <1>5 DEF Stored
<1>10. (input.value \in sent => Latest = input.value)'
  <2>1. SUFFICES ASSUME input.value \in sent, input.value # d
                 PROVE  Latest' = input.value
    BY <1>2
  <2>2. uploads # <<>> /\ uploads[Len(uploads)].digest = input.value
    BY <1>0, <2>1 DEF Stored, Latest
  <2>3. k # Len(uploads) /\ Len(uploads) \in Nat
    BY <1>0, <2>1, <2>2
  <2>4. /\ Len(uploads) - 1 \in 1..(Len(uploads) - 1) /\ ~(Len(uploads) - 1 < k)
        /\ (Len(uploads) - 1) + 1 = Len(uploads)
    BY <1>0, <2>3
  <2>5. uploads'[Len(uploads')] = uploads[Len(uploads)] /\ uploads' # <<>>
    BY <1>3, <2>4
  <2> QED BY <2>2, <2>5 DEF Latest
<1> QED BY <1>6, <1>7, <1>8, <1>9, <1>10 DEF Stored

\* Nothing is sent or answered.
LEMMA QuietStep ==
    ASSUME Steady, PlacedInv, Seen, Stored, [Next]_vars,
           UNCHANGED <<sent, uploads, row, asset>>, error'.save = error.save
    PROVE  Stored'
<1>0. /\ TypedInv /\ row \in Output \cup {NoOutput} /\ ShownMoves
      /\ (\A n \in Calls : StageMoves(n))
  BY PaneStep DEF PlacedInv, TypedInv, PaneTyped
<1>1. \A d : Asked(d) => AskedNext(d)
  BY <1>0, AskedStep
<1>2. (\A d \in sent : Asked(d))' /\ SaveFailed' /\ OnTheWay'
  <2>1. (\A d \in sent : Asked(d))' /\ SaveFailed'
    <3>1. \A d \in sent : AskedNext(d)
      BY <1>1 DEF Stored
    <3>2. error.save # NoOutput => AskedNext(error.save.digest) /\ error.save.digest \notin sent
      BY <1>1 DEF Stored, SaveFailed
    <3>3. (\A d \in sent : Asked(d))'
      BY <3>1 DEF Asked, AskedNext
    <3>4. SaveFailed'
      BY <3>2 DEF SaveFailed, Asked, AskedNext
    <3> QED BY <3>3, <3>4
  <2>2. OnTheWay'
    BY DEF Stored, OnTheWay
  <2> QED BY <2>1, <2>2
<1>3. (row # NoOutput => row.digest \in sent)' /\ (asset = row.digest)'
  BY DEF Stored
<1>4. Compared'
  <2>1. SUFFICES ASSUME NEW n \in Calls, stage'[n].pc = "compare", stage'[n].asset # NoInput
                 PROVE  /\ stage'[n].asset \in sent
                        /\ \A i \in 1..Len(uploads) : uploads[i].digest # stage'[n].asset
    BY DEF Compared
  <2>2. CASE stage'[n] = stage[n]
    BY <2>1, <2>2 DEF Stored, Compared
  <2>3. CASE PictureShows(n)
    <3>1. StageIs(n, "compare", stage[n].edits, stage[n].digest, shown.value, asset)
      BY <1>0, <2>3, StageValues
    <3>2. stage'[n].asset = row.digest
      BY <3>1 DEF StageIs, Stored
    <3>3. row # NoOutput
      BY <2>1, <3>2 DEF NoOutput
    <3> QED BY <3>2, <3>3 DEF Stored, OnTheWay
  <2>4. CASE Fires(n)
    <3>1. StageIs(n, "awaiting", shown.edits, stage[n].digest, stage[n].now, stage[n].asset)
      BY <1>0, <2>4, StageValues
    <3> QED BY <2>1, <3>1 DEF StageIs
  <2>5. CASE PictureComes(n)
    <3>1. StageIs(n, "digest", stage[n].edits, DigestOf(n), stage[n].now, stage[n].asset)
      BY <1>0, <2>5, StageValues
    <3> QED BY <2>1, <3>1 DEF StageIs
  <2>6. CASE PictureFails(n) \/ HandOver(n)
    <3>1. StageIs(n, "over", stage[n].edits, stage[n].digest, stage[n].now, stage[n].asset)
      BY <1>0, <2>6, StageValues
    <3> QED BY <2>1, <3>1 DEF StageIs
  <2> QED BY <1>0, <2>2, <2>3, <2>4, <2>5, <2>6 DEF StageMoves, CallbackStep
<1>5. (input.value \in sent => Latest = input.value)'
  <2>1. Latest' = Latest
    BY DEF Latest
  <2>2. CASE Edit
    <3>1. PICK i \in Inputs \ {input.value} :
              /\ i \in input.seen => "undo" \in Env
              /\ input' = [value |-> i, edits |-> input.edits + 1, seen |-> input.seen \cup {i}]
      BY <2>2 DEF Edit
    <3>2. i \notin input.seen /\ input'.value = i
      BY <3>1 DEF Steady
    <3>3. ~Asked(i)
      BY <3>2 DEF Seen, Asked
    <3>4. i \notin sent
      BY <3>3 DEF Stored
    <3> QED BY <3>2, <3>4
  <2>3. CASE input' = input
    BY <2>1, <2>3 DEF Stored
  <2>4. Edit \/ input' = input
    BY <1>0 DEF ShownMoves, PaneShows, PaneRenders, Fires, TimerFires
  <2> QED BY <2>2, <2>3, <2>4
<1> QED BY <1>2, <1>3, <1>4, <1>5 DEF Stored

\* What is handed over was asked for, and is what the pane showed.
LEMMA WantedIs ==
    ASSUME Steady, PlacedInv, Seen, NEW n \in Calls, ResultIs(n),
           stage[n].pc = "compare", Wanted(n)
    PROVE  /\ Asked(stage[n].digest) /\ stage[n].digest \notin sent
           /\ Asked(input.value) => stage[n].digest = input.value
<1>0. /\ call[n].input \in Inputs /\ call[n].result \in Inputs
      /\ Place(n) /\ stage[n].digest \in Digests
  BY DEF PlacedInv, TypedInv, RtInv, Inv, Typed, CallStates, Places, PaneTyped
<1>1. stage[n].digest # NoInput
  BY <1>0, InputsAreDigests
<1>2. stage[n].digest = call[n].result
  BY <1>0, <1>1, DigestsAreInputs DEF Place, DigestOf, Steady
<1>3. PICK m \in n..NCalls : call[m].pc # "none" /\ call[n].result = call[m].input
  BY <1>1 DEF ResultIs
<1>4. m \in Calls
  BY Numbers DEF Calls
<1>5. Asked(input.value) => stage[n].digest = input.value
  BY DEF Seen, Wanted
<1> QED BY <1>2, <1>3, <1>4, <1>5 DEF Asked, Wanted

SteadyInv == PlacedInv /\ (\A n \in Calls : ResultIs(n)) /\ Seen /\ Stored

LEMMA StoredStep ==
    ASSUME Steady, SteadyInv, [Next]_vars
    PROVE  Stored'
<1>0. /\ PlacedInv /\ Seen /\ Stored /\ StoreMoves /\ TypedInv /\ stage \in Stages
      /\ call \in CallStates
      /\ (\A n \in Calls : ResultIs(n))
      /\ error \in [render: BOOLEAN, save: Output \cup {NoOutput}]
  BY PaneStep DEF SteadyInv, PlacedInv, TypedInv, PaneTyped, RtInv, Inv, Typed
<1>1. CASE UNCHANGED <<rendered, sent, uploads, row, asset, error>>
  BY <1>0, <1>1, QuietStep
<1>2. ASSUME NEW n \in Calls, PictureFails(n) \/ PictureShows(n)
      PROVE  Stored'
  <2>1. UNCHANGED <<sent, uploads, row, asset>> /\ error'.save = error.save
    BY <1>0, <1>2 DEF PictureFails, PictureShows
  <2> QED BY <1>0, <2>1, QuietStep
<1>3. ASSUME NEW n \in Calls, HandOver(n)
      PROVE  Stored'
  <2> DEFINE o == [picture |-> call[n].result, digest |-> stage[n].digest]
  <2>1. /\ stage[n].pc = "compare" /\ UNCHANGED <<row, asset, input>>
        /\ IF Wanted(n) THEN Store(o) ELSE UNCHANGED <<sent, uploads, error>>
    BY <1>3 DEF HandOver
  <2>2. o \in Output /\ o.digest = stage[n].digest
    BY <1>0, <2>1 DEF TypedInv, PaneTyped, CallStates, Output
  <2>3. \A m \in Calls : m # n => stage'[m] = stage[m]
    BY <1>0, <1>3 DEF HandOver, Stages
  <2>4. StageIs(n, "over", stage[n].edits, stage[n].digest, stage[n].now, stage[n].asset)
    BY <1>0, <1>3, StageValues
  <2>5. \A m \in Calls : stage'[m].pc = "compare" => stage'[m] = stage[m]
    <3>1. stage'[n].pc = "over"
      BY <2>4 DEF StageIs
    <3> QED BY <2>3, <3>1
  <2> HIDE DEF o
  <2>6. CASE Wanted(n)
    <3>1. Storable(o)
      BY <1>0, <2>1, <2>2, <2>6, WantedIs DEF Storable
    <3>2. Store(o)
      BY <2>1, <2>6
    <3> QED BY <1>0, <2>1, <2>5, <3>1, <3>2, StoreStep
  <2>7. CASE ~Wanted(n)
    <3>1. UNCHANGED <<sent, uploads, row, asset>> /\ error'.save = error.save
      BY <2>1, <2>7
    <3> QED BY <1>0, <3>1, QuietStep
  <2> QED BY <2>6, <2>7
<1>4. CASE RetrySave
  <2>1. /\ error.save # NoOutput /\ Store(error.save) /\ UNCHANGED <<row, asset, input, stage>>
        /\ error.save.digest = input.value
    BY <1>4 DEF RetrySave, Steady
  <2>2. error.save \in Output
    BY <1>0, <2>1
  <2>3. Storable(error.save)
    BY <1>0, <2>1, <2>2 DEF Storable, Stored, SaveFailed
  <2>4. \A m \in Calls : stage'[m].pc = "compare" => stage'[m] = stage[m]
    BY <2>1
  <2> QED BY <1>0, <2>1, <2>3, <2>4, StoreStep
<1>5. ASSUME NEW i \in DOMAIN uploads, Upload(i) \/ UploadFails(i)
      PROVE  Stored'
  BY <1>0, <1>5, UploadStep, UploadFailsStep
<1> QED BY <1>0, <1>1, <1>2, <1>3, <1>4, <1>5 DEF StoreMoves

LEMMA SteadyInvariant ==
    ASSUME Steady
    PROVE  Spec => []SteadyInv
<1>1. Init => (\A n \in Calls : ResultIs(n)) /\ Seen /\ Stored
  <2>1. SUFFICES ASSUME Init PROVE (\A n \in Calls : ResultIs(n)) /\ Seen /\ Stored
    OBVIOUS
  <2>2. \A n \in Calls : /\ call[n].pc = "none" /\ stage[n].pc = "none"
                         /\ stage[n].digest = NoInput
    BY <2>1 DEF Init, RuntimeInit
  <2>3. /\ input.value \in input.seen /\ shown.value = input.value /\ shown.edits = input.edits
        /\ sent = {} /\ uploads = <<>> /\ row = NoOutput /\ asset = NoInput /\ error.save = NoOutput
    BY <2>1 DEF Init
  <2>4. (\A n \in Calls : ResultIs(n)) /\ Seen
    BY <2>2, <2>3 DEF ResultIs, Seen, Asked
  <2>5. Stored
    BY <2>2, <2>3 DEF Stored, SaveFailed, OnTheWay, Compared, NoOutput
  <2> QED BY <2>4, <2>5
<1>2. /\ PlacedInv /\ PlacedInv'
      /\ (\A n \in Calls : ResultIs(n)) /\ Seen /\ Stored /\ [Next]_vars
      => (\A n \in Calls : ResultIs(n))' /\ Seen' /\ Stored'
  BY ResultStep, SeenStep, StoredStep DEF SteadyInv
<1> QED BY <1>1, <1>2, PlacesInvariant, PTL DEF Spec, SteadyInv

-----------------------------------------------------------------------------
(***************************************************************************)
(* What the newest call asked for, and what became of it.                  *)
(***************************************************************************)
IsNewest(n) == call[n].pc # "none" /\ \A m \in Calls : m > n => call[m].pc = "none"

AskedLatest ==
    shown.status = "ready" /\ ~armed =>
        \E n \in Calls : IsNewest(n) /\ stage[n].edits = shown.edits /\ call[n].input = shown.value

\* Without another request the newest call is the newest still.
LEMMA NewestStays ==
    ASSUME TypedInv, [Next]_vars, NEW n \in Calls
    PROVE  /\ (\A k \in Calls : ~Fires(k)) => (IsNewest(n)' <=> IsNewest(n))
           /\ IsNewest(n)' /\ call[n].pc # "none" => IsNewest(n)
           /\ IsNewest(n)' => ~(\E k \in Calls : k # n /\ Fires(k)) \/ call[n].pc = "none"
<1>0. /\ \A m \in Calls : CallMoves(m)
      /\ Queue(call, waiting, drain) /\ call \in CallStates
  BY CallStep DEF TypedInv, RtInv, Inv, Typed
<1>1. \A m \in Calls : call[m].pc # "none" => call'[m].pc # "none"
  BY InputStays
<1>2. \A m \in Calls : ~Fires(m) => (call[m].pc = "none" => call'[m].pc = "none")
  BY <1>0 DEF CallMoves, IsAsked, IsEnsuredNow, IsTold, IsOver, Fires
<1>3. (\A k \in Calls : ~Fires(k)) => (IsNewest(n)' <=> IsNewest(n))
  BY <1>1, <1>2 DEF IsNewest
<1>4. IsNewest(n)' /\ call[n].pc # "none" => IsNewest(n)
  BY <1>1 DEF IsNewest
<1>5. ASSUME IsNewest(n)', NEW k \in Calls, k # n, Fires(k), call[n].pc # "none"
      PROVE  FALSE
  <2>1. call[k].pc = "none" /\ call'[k].pc = "ensuring"
    BY <1>0, <1>5 DEF Fires, TimerFires, Render, CallStates
  <2>2. n < k
    BY <1>0, <1>5, <2>1 DEF Queue
  <2>3. k > n
    BY <2>2, Numbers DEF Calls
  <2> QED BY <1>5, <2>1, <2>3 DEF IsNewest
<1> QED BY <1>3, <1>4, <1>5

LEMMA AskedLatestStep ==
    ASSUME TypedInv, AskedLatest, [Next]_vars
    PROVE  AskedLatest'
<1>0. /\ ShownMoves /\ (\A n \in Calls : StageMoves(n)) /\ call \in CallStates
      /\ Queue(call, waiting, drain) /\ stage \in Stages
  BY PaneStep DEF TypedInv, RtInv, Inv, Typed, PaneTyped
<1>1. ASSUME NEW k \in Calls, Fires(k)
      PROVE  AskedLatest'
  <2>1. /\ call[k].pc = "none" /\ call'[k].pc = "ensuring" /\ call'[k].input = shown.value
        /\ \A m \in Calls : m # k => call'[m] = call[m]
    BY <1>0, <1>1 DEF Fires, TimerFires, Render, CallStates
  <2>2. \A m \in Calls : m > k => call[m].pc = "none"
    <3>1. ASSUME NEW m \in Calls, m > k, call[m].pc # "none" PROVE FALSE
      <4>1. m < k
        BY <1>0, <2>1, <3>1 DEF Queue
      <4> QED BY <3>1, <4>1, Numbers DEF Calls
    <3> QED BY <3>1
  <2>3. IsNewest(k)'
    <3>1. \A m \in Calls : m > k => m # k
      BY Numbers DEF Calls
    <3> QED BY <2>1, <2>2, <3>1 DEF IsNewest
  <2>4. StageIs(k, "awaiting", shown.edits, stage[k].digest, stage[k].now, stage[k].asset)
    BY <1>0, <1>1, StageValues
  <2>5. stage'[k].edits = shown.edits /\ shown' = shown
    BY <1>1, <2>4 DEF StageIs, Fires, TimerFires
  <2> QED BY <2>1, <2>3, <2>5 DEF AskedLatest
<1>2. CASE PaneShows
  <2>1. armed' = (rt.status = "ready") /\ shown'.status = rt.status
    BY <1>2 DEF PaneShows, PaneRenders
  <2> QED BY <2>1 DEF AskedLatest
<1>3. ASSUME shown' = shown, armed' = armed, \A k \in Calls : ~Fires(k)
      PROVE  AskedLatest'
  <2>1. SUFFICES ASSUME shown.status = "ready", ~armed
                 PROVE  \E n \in Calls : /\ IsNewest(n)' /\ stage'[n].edits = shown.edits
                                         /\ call'[n].input = shown.value
    BY <1>3 DEF AskedLatest
  <2>2. PICK n \in Calls : IsNewest(n) /\ stage[n].edits = shown.edits /\ call[n].input = shown.value
    BY <2>1 DEF AskedLatest
  <2>3. IsNewest(n)'
    BY <1>3, <2>2, NewestStays
  <2>4. call'[n].input = call[n].input
    BY <2>2, InputStays DEF IsNewest
  <2>5. stage'[n].edits = stage[n].edits
    <3>1. CASE stage'[n] = stage[n]
      BY <3>1
    <3>2. CASE CallbackStep(n)
      <4>1. \E pc, digest, now, of : StageIs(n, pc, stage[n].edits, digest, now, of)
        BY <3>2, StageValues DEF CallbackStep
      <4> QED BY <4>1 DEF StageIs
    <3> QED BY <1>0, <1>3, <3>1, <3>2 DEF StageMoves
  <2> QED BY <2>2, <2>3, <2>4, <2>5
<1> QED BY <1>0, <1>1, <1>2, <1>3 DEF ShownMoves, Edit

-----------------------------------------------------------------------------
(***************************************************************************)
(* A render that fails: either the status says that there is no engine, or *)
(* the engine refused, and no older picture is on its way to the screen.   *)
(***************************************************************************)
Quiet == \A n \in Calls : call[n].pc # "resolved" /\ stage[n].pc # "digest"
Gives(r) == r.micro # <<>> /\ Head(r.micro).kind \in {"answered", "settled"} /\ ~Head(r.micro).ok
FailsQuietly == Gives(rt) => Stuck(rt) \/ Quiet

LEMMA GivesModes ==
    ASSUME NEW r \in Runtimes, NEW wt, NEW dr, Mode(r, wt, dr), Gives(r)
    PROVE  \/ r.status = "failed" /\ Refused(r, wt, dr)
           \/ Answered(r, FALSE, dr) /\ dr.pc = "rendering"
           \/ Settling(r, FALSE, dr) /\ dr.pc = "settling"
<1> DEFINE q == r.micro
<1>1. q \in Seq(Micro) /\ q # <<>>
  BY DEF Runtimes, Gives
<1> HIDE DEF q
<1>2. Head(q) = q[1] /\ 1 \in 1..Len(q)
  BY <1>1, TailIs
<1>3. Head(r.micro) = r.micro[1] /\ 1 \in 1..Len(r.micro)
  BY <1>2 DEF q
<1>4. CASE Up(r, dr)
  <2>1. r.micro[1].kind = "ensured"
    BY <1>3, <1>4 DEF Up, IsEnsured
  <2> QED BY <1>3, <2>1 DEF Gives
<1>5. CASE Refused(r, wt, dr)
  BY <1>5 DEF Refused
<1>6. CASE \E w \in Workers, ok \in BOOLEAN : Told(r, w, ok, wt, dr)
  BY <1>6 DEF Told, Task, Gives
<1>7. CASE \E ok \in BOOLEAN : Answered(r, ok, dr)
  <2>1. PICK ok \in BOOLEAN : Answered(r, ok, dr)
    BY <1>7
  <2>2. Head(r.micro).ok = ok
    BY <2>1 DEF Answered, Over, Task
  <2>3. ok = FALSE
    BY <2>2 DEF Gives
  <2> QED BY <2>1, <2>3 DEF Answered, Over
<1>8. CASE \E ok \in BOOLEAN : Settling(r, ok, dr)
  <2>1. PICK ok \in BOOLEAN : Settling(r, ok, dr)
    BY <1>8
  <2>2. Head(r.micro).ok = ok
    BY <2>1 DEF Settling, Over, Task
  <2>3. ok = FALSE
    BY <2>2 DEF Gives
  <2> QED BY <2>1, <2>3 DEF Settling, Over
<1>9. ~Resting(r, dr) /\ ~Loading(r, wt, dr)
  BY DEF Resting, Loading, Gives
<1> QED BY <1>4, <1>5, <1>6, <1>7, <1>8, <1>9 DEF Mode

\* Only the end of a render gives a picture.
LEMMA QuietStays ==
    ASSUME TypedInv, [Next]_vars, Quiet,
           ~(\E throws \in BOOLEAN : DrainSettled(throws)) \/ ~Head(rt.micro).ok
    PROVE  Quiet'
<1>0. \A n \in Calls : CallMoves(n) /\ StageMoves(n)
  BY CallStep, PaneStep
<1>1. SUFFICES ASSUME NEW n \in Calls
               PROVE  call'[n].pc # "resolved" /\ stage'[n].pc # "digest"
  BY DEF Quiet
<1>2. call'[n].pc # "resolved"
  BY <1>0 DEF CallMoves, IsAsked, IsEnsuredNow, IsTold, IsOver, Quiet
<1>3. stage'[n].pc # "digest"
  <2>1. CASE stage'[n] = stage[n]
    BY <2>1 DEF Quiet
  <2>2. CASE PictureComes(n)
    BY <2>2 DEF PictureComes, Quiet
  <2>3. CASE Fires(n)
    <3>1. StageIs(n, "awaiting", shown.edits, stage[n].digest, stage[n].now, stage[n].asset)
      BY <2>3, StageValues
    <3> QED BY <3>1 DEF StageIs
  <2>4. CASE PictureFails(n) \/ HandOver(n)
    <3>1. StageIs(n, "over", stage[n].edits, stage[n].digest, stage[n].now, stage[n].asset)
      BY <2>4, StageValues
    <3> QED BY <3>1 DEF StageIs
  <2>5. CASE PictureShows(n)
    BY <2>5 DEF PictureShows, Quiet
  <2> QED BY <1>0, <2>1, <2>2, <2>3, <2>4, <2>5 DEF StageMoves, CallbackStep
<1> QED BY <1>2, <1>3

LEMMA CallEnsuredIs ==
    ASSUME TypedInv, NEW throws \in BOOLEAN, CallEnsured(throws)
    PROVE  /\ rt.micro # <<>> /\ Head(rt.micro).who \in Calls
           /\ call[Head(rt.micro).who].pc = "ensuring"
           /\ Head(rt.micro).ok \in BOOLEAN
           /\ Head(rt.micro).ok => Up(rt, drain)
           /\ ~Head(rt.micro).ok => Refused(rt, waiting, drain)
           /\ \A m \in Calls : call[m].pc = "ensuring" /\ m # Head(rt.micro).who =>
                Head(rt.micro).who < m
<1>0. /\ Inv(rt, call, waiting, drain, faults) /\ rt \in Runtimes
      /\ Line(rt, call, drain)
  BY DEF TypedInv, RtInv, Inv, Typed
<1>1. /\ rt.micro # <<>> /\ Head(rt.micro).kind = "ensured" /\ Head(rt.micro).who # None
  BY DEF CallEnsured, Runs
<1>2. Popped(rt, waiting, drain, Ran(rt), Head(rt.micro))
  BY <1>0, <1>1, RanIs, EnsuredPopped DEF Fields
<1>3. Head(rt.micro).who \in Calls /\ Ensured(rt, Head(rt.micro).who)
  BY <1>1, <1>2 DEF Popped
<1>4. call[Head(rt.micro).who].pc = "ensuring"
  BY <1>0, <1>3 DEF Line
<1>5. ASSUME NEW m \in Calls, call[m].pc = "ensuring", m # Head(rt.micro).who
      PROVE  Head(rt.micro).who < m
  <2>1. ~Awaits(rt, m)
    BY <1>2 DEF Popped, Awaits
  <2>2. Ensured(Ran(rt), m)
    BY <1>0, <1>2, <1>5, <2>1 DEF Line, Popped
  <2>3. Before(Head(rt.micro).who, m)
    BY <1>2, <2>2 DEF Popped
  <2>4. m # None
    BY Numbers DEF Calls
  <2> QED BY <1>1, <2>3, <2>4 DEF Before
<1> QED BY <1>1, <1>2, <1>3, <1>4, <1>5 DEF Popped

LEMMA DrainSettledIs ==
    ASSUME TypedInv, NEW throws \in BOOLEAN, DrainSettled(throws)
    PROVE  /\ rt.micro # <<>> /\ Head(rt.micro).kind = "settled" /\ drain.job # <<>>
           /\ waiting' = <<>> /\ drain'.pc \in {"off", "ensuring"}
           /\ waiting = <<>> => rt'.status = rt.status /\ drain'.pc = "off" /\ rt' = Ran(rt)
<1>0. RtInv /\ rt \in Runtimes
  BY DEF TypedInv, RtInv, Inv, Typed
<1>1. rt.micro # <<>> /\ Head(rt.micro).kind = "settled" /\ waiting' = <<>>
      /\ TakeJob(Ran(rt), waiting, throws)
  BY DEF DrainSettled, Runs
<1>2. drain.job # <<>>
  BY <1>0, DrainSettledStep
<1>3. Ran(rt).status = rt.status
  BY <1>0 DEF Ran, Runtimes
<1> QED BY <1>1, <1>2, <1>3 DEF TakeJob

\* The other steps, by what they do to the runtime.
LEMMA StatusMoves ==
    ASSUME TypedInv, [Next]_vars
    PROVE  \/ rt' = rt /\ drain' = drain
           \/ LoadSettled \/ DrainEnsured \/ RenderReturns
           \/ \E throws \in BOOLEAN : CallEnsured(throws) \/ DrainSettled(throws)
           \/ /\ ~Digesting /\ rt.micro = <<>> /\ UNCHANGED <<call, waiting, drain, stage>>
              /\ (rt'.status = rt.status \/ rt'.status = "failed")
           \/ Dispose /\ rt.micro = <<>> /\ rt'.status = "idle" /\ UNCHANGED <<call, waiting, drain, stage>>
           \/ \E throws \in BOOLEAN : Load(throws) /\ rt.micro = <<>> /\ (PaneShows \/ RetryEngine)
           \/ \E n \in Calls : Fires(n)
<1>1. CASE Dispose /\ UNCHANGED pane
  <2>1. /\ rt.micro = <<>> /\ rt' = [StopWorker(rt) EXCEPT !.status = "idle"]
        /\ UNCHANGED <<call, waiting, drain, stage>>
    BY <1>1 DEF Dispose, pane
  <2>2. rt'.status = "idle"
    BY <2>1 DEF StopWorker, TypedInv, RtInv, Inv, Typed, Runtimes
  <2> QED BY <1>1, <2>1, <2>2
<1>2. CASE ~Digesting /\ (WorkerTask \/ WatchdogStops) /\ UNCHANGED pane
  <2>1. CASE Loaded \/ LoadFails \/ RenderAnswered \/ WatchdogStops
    <3>1. rt.micro = <<>> /\ UNCHANGED <<call, waiting, drain, stage>>
      BY <1>2, <2>1 DEF Loaded, LoadFails, RenderAnswered, Answer, WatchdogStops, pane
    <3>2. rt'.status = rt.status
      BY <2>1, SameStatusStep
    <3> QED BY <1>2, <3>1, <3>2
  <2>2. CASE WorkerError
    <3>1. rt.micro = <<>> /\ UNCHANGED <<call, waiting, drain, stage>>
          /\ rt' = [StopWorker(rt) EXCEPT !.status = "failed"]
      BY <1>2, <2>2 DEF WorkerError, pane
    <3>2. rt'.status = "failed"
      BY <3>1 DEF StopWorker, TypedInv, RtInv, Inv, Typed, Runtimes
    <3> QED BY <1>2, <3>1, <3>2
  <2> QED BY <1>2, <2>1, <2>2 DEF WorkerTask
<1>3. ASSUME NEW throws \in BOOLEAN, PaneRenders(throws)
      PROVE  \/ rt' = rt /\ drain' = drain
             \/ Load(throws) /\ rt.micro = <<>> /\ PaneShows
  BY <1>3 DEF PaneRenders, PaneShows, runtime
<1>4. CASE RetryEngine
  <2>1. Load(FALSE) /\ rt.micro = <<>> /\ FALSE \in BOOLEAN
    BY <1>4 DEF RetryEngine
  <2> QED BY <1>4, <2>1
<1>5. CASE Edit \/ RetrySave \/ UNCHANGED vars
  BY <1>5 DEF Edit, RetrySave, vars, runtime
<1>6. ASSUME NEW n \in Calls, CallbackStep(n)
      PROVE  rt' = rt /\ drain' = drain
  BY <1>6 DEF CallbackStep, PictureComes, PictureFails, PictureShows, HandOver, runtime
<1>7. ASSUME NEW i \in DOMAIN uploads, Upload(i) \/ UploadFails(i)
      PROVE  rt' = rt /\ drain' = drain
  BY <1>7 DEF Upload, UploadFails, runtime
<1> QED BY <1>1, <1>2, <1>3, <1>4, <1>5, <1>6, <1>7 DEF Next, Microtask, Fires

LEMMA FailsQuietlyStep ==
    ASSUME TypedInv, FailsQuietly, [Next]_vars
    PROVE  FailsQuietly'
<1>00. TypedInv'
  BY TypedStep
<1>0. /\ rt \in Runtimes /\ RtInv /\ Mode(rt, waiting, drain) /\ Line(rt, call, drain)
  BY DEF TypedInv, RtInv, Inv, Typed
<1>1. rt' \in Runtimes /\ Mode(rt', waiting', drain')
  BY <1>00 DEF TypedInv, RtInv, Inv, Typed
<1>2. SUFFICES ASSUME Gives(rt'), ~Stuck(rt') PROVE Quiet'
  BY DEF FailsQuietly
<1>3. drain'.pc \in {"rendering", "settling"} /\ Len(rt'.micro) = 1
  <2>1. \/ Answered(rt', FALSE, drain') \/ Settling(rt', FALSE, drain')
    BY <1>1, <1>2, GivesModes DEF Stuck
  <2> QED BY <2>1 DEF Answered, Settling, Over
<1>4. CASE rt' = rt /\ drain' = drain
  <2>1. Quiet /\ Gives(rt)
    BY <1>2, <1>4 DEF FailsQuietly
  <2>2. ~(\E throws \in BOOLEAN : DrainSettled(throws)) \/ ~Head(rt.micro).ok
    BY <2>1 DEF Gives
  <2> QED BY <2>1, <2>2, QuietStays
<1>5. CASE LoadSettled
  <2>1. Head(rt.micro).kind = "load" /\ rt.micro # <<>> /\ drain' = drain
    BY <1>5 DEF LoadSettled, Runs
  <2>2. drain.pc \in {"off", "ensuring"}
    BY <1>0, <2>1, HeadModes DEF Told
  <2> QED BY <1>3, <2>1, <2>2
<1>6. CASE DrainEnsured
  <2>1. rt.micro # <<>> /\ Head(rt.micro).kind = "ensured"
    BY <1>6 DEF DrainEnsured, Runs
  <2>2. Popped(rt, waiting, drain, Ran(rt), Head(rt.micro))
    BY <1>0, <2>1, RanIs, EnsuredPopped DEF Fields, RtInv
  <2>3. CASE ~Head(rt.micro).ok
    <3>1. rt.status = "failed" /\ rt'.status = rt.status
      BY <1>6, <2>2, <2>3, SameStatusStep DEF Popped, Refused
    <3> QED BY <1>2, <3>1 DEF Stuck
  <2>4. CASE Head(rt.micro).ok
    <3>1. Up(rt, drain) /\ rt.worker # None
      BY <1>0, <1>6, <2>2, <2>4, DrainEnsuredStep DEF Popped
    <3>2. rt'.micro = Tail(rt.micro)
      <4>1. rt' = [Ran(rt) EXCEPT !.watched = Watchdog, !.pending = Append(@, <<rt.worker, "render">>)]
        BY <1>6, <2>4, <3>1 DEF DrainEnsured
      <4> QED BY <1>0, <4>1 DEF Ran, Runtimes
    <3>3. Head(rt'.micro).kind = "ensured"
      <4> DEFINE q == rt.micro
      <4>1. q \in Seq(Micro) /\ q # <<>> /\ Tail(q) # <<>> /\ \A i \in 1..Len(q) : q[i].kind = "ensured"
        BY <1>0, <1>2, <2>1, <3>1, <3>2 DEF Runtimes, Gives, Up, IsEnsured
      <4> HIDE DEF q
      <4>2. Tail(q) \in Seq(Micro) /\ Head(Tail(q)) = Tail(q)[1] /\ Tail(q)[1] = q[2] /\ 2 \in 1..Len(q)
        <5>1. Tail(q) \in Seq(Micro)
          BY <4>1, TailIs
        <5>2. Head(Tail(q)) = Tail(q)[1] /\ 1 \in 1..Len(Tail(q))
          BY <4>1, <5>1, TailIs
        <5>3. 1 + 1 \in 1..Len(q) /\ Tail(q)[1] = q[1 + 1]
          BY <4>1, <5>2, TailIs
        <5> QED BY <5>1, <5>2, <5>3
      <4>3. Head(Tail(q)).kind = "ensured"
        BY <4>1, <4>2
      <4> QED BY <3>2, <4>3 DEF q
    <3> QED BY <1>2, <3>3 DEF Gives
  <2> QED BY <2>3, <2>4
<1>7. CASE RenderReturns
  <2>1. /\ rt.micro # <<>> /\ Head(rt.micro).kind = "answered" /\ UNCHANGED call
        /\ rt' = Later([Ran(rt) EXCEPT !.watched = FALSE], Task("settled", None, Head(rt.micro).ok))
    BY <1>7 DEF RenderReturns, Runs
  <2>2. PICK ok \in BOOLEAN : Answered(rt, ok, drain) /\ Head(rt.micro).ok = ok
    BY <1>0, <2>1, HeadModes
  <2>3. rt.micro = <<Task("answered", None, ok)>>
    BY <2>2 DEF Answered, Over
  <2>4. rt'.micro = <<Task("settled", None, ok)>>
    <3> DEFINE t == Task("answered", None, ok)
               s == Task("settled", None, ok)
    <3>1. rt'.micro = Append(Tail(rt.micro), s)
      <4> HIDE DEF s
      <4>1. rt' = Later([Ran(rt) EXCEPT !.watched = FALSE], s)
        BY <2>1, <2>2 DEF s
      <4> QED BY <1>0, <4>1 DEF Later, Ran, Runtimes
    <3> HIDE DEF t, s
    <3>2. rt.micro = <<t>>
      BY <2>3 DEF t
    <3>3. Tail(<<t>>) = <<>> /\ Append(<<>>, s) = <<s>>
      OBVIOUS
    <3> QED BY <3>1, <3>2, <3>3 DEF s
  <2>5. ok = FALSE
    BY <1>2, <2>4 DEF Gives, Task
  <2>6. Gives(rt)
    BY <2>1, <2>2, <2>5 DEF Gives
  <2>7. ~Stuck(rt)
    <3>1. rt'.status = rt.status
      BY <1>7, SameStatusStep
    <3> QED BY <1>2, <3>1 DEF Stuck
  <2>8. Quiet
    BY <2>6, <2>7 DEF FailsQuietly
  <2> QED BY <2>2, <2>5, <2>8, QuietStays
<1>8. ASSUME NEW throws \in BOOLEAN, CallEnsured(throws)
      PROVE  Quiet'
  <2>1. CASE ~Head(rt.micro).ok
    <3>1. rt.status = "failed" /\ rt'.status = rt.status
      BY <1>0, <1>8, <2>1, CallEnsuredIs, CallEnsuredStep DEF Refused
    <3> QED BY <1>2, <3>1 DEF Stuck
  <2>2. CASE Head(rt.micro).ok
    <3>1. drain.pc \in {"off", "ensuring", "rendering"} /\ rt.micro # <<>>
          /\ \A i \in 1..Len(rt.micro) : rt.micro[i].kind = "ensured"
      BY <1>8, <2>2, CallEnsuredIs DEF Up, IsEnsured
    <3>2. \A i \in 1..Len(rt'.micro) : rt'.micro[i].kind = "ensured"
      <4> DEFINE q == rt.micro
                 t == Task("ensured", None, TRUE)
      <4>1. q \in Seq(Micro) /\ q # <<>> /\ \A i \in 1..Len(q) : q[i].kind = "ensured"
        BY <1>0, <3>1 DEF Runtimes
      <4>2. rt'.micro = Tail(q) \/ rt'.micro = Append(Tail(q), t)
        BY <1>0, <1>8, CallEnsuredStep
      <4>3. t.kind = "ensured"
        BY DEF Task
      <4> HIDE DEF q, t
      <4>4. Tail(q) \in Seq(Micro) /\ \A i \in 1..Len(Tail(q)) : Tail(q)[i].kind = "ensured"
        <5>1. Tail(q) \in Seq(Micro) /\ \A i \in 1..Len(Tail(q)) : i + 1 \in 1..Len(q) /\ Tail(q)[i] = q[i + 1]
          BY <4>1, TailIs
        <5> QED BY <4>1, <5>1
      <4> DEFINE p == Tail(q)
      <4>5. p \in Seq(Micro) /\ \A i \in 1..Len(p) : p[i].kind = "ensured"
        BY <4>4
      <4> HIDE DEF p
      <4>6. \A i \in 1..Len(Append(p, t)) : Append(p, t)[i].kind = "ensured"
        <5>1. /\ Append(p, t)[Len(p) + 1] = t
              /\ \A i \in 1..Len(p) : Append(p, t)[i] = p[i]
              /\ Len(Append(p, t)) = Len(p) + 1
          BY <4>5, AppendIs
        <5>2. \A i \in 1..(Len(p) + 1) : i \in 1..Len(p) \/ i = Len(p) + 1
          BY <4>5
        <5> QED BY <4>3, <4>5, <5>1, <5>2
      <4> QED BY <4>2, <4>5, <4>6 DEF p
    <3>3. Head(rt'.micro).kind = "ensured"
      <4> DEFINE q == rt'.micro
      <4>1. q \in Seq(Micro) /\ q # <<>> /\ \A i \in 1..Len(q) : q[i].kind = "ensured"
        BY <1>1, <1>2, <3>2 DEF Runtimes, Gives
      <4> HIDE DEF q
      <4>2. Head(q) = q[1] /\ 1 \in 1..Len(q)
        BY <4>1, TailIs
      <4> QED BY <4>1, <4>2 DEF q
    <3> QED BY <1>2, <3>3 DEF Gives
  <2> QED BY <1>8, <2>1, <2>2, CallEnsuredIs
<1>9. ASSUME NEW throws \in BOOLEAN, DrainSettled(throws)
      PROVE  Quiet'
  BY <1>3, <1>9, DrainSettledIs
<1>10. ASSUME ~Digesting, rt.micro = <<>>
       PROVE  Quiet'
  <2>1. Quiet
    BY <1>10 DEF Digesting, Quiet
  <2>2. ~(\E throws \in BOOLEAN : DrainSettled(throws))
    BY <1>10 DEF DrainSettled, Runs
  <2> QED BY <2>1, <2>2, QuietStays
<1>11. ~(rt'.status = "idle")
  BY <1>2 DEF Stuck
<1>12. ASSUME NEW throws \in BOOLEAN, Load(throws), rt.micro = <<>>
       PROVE  FALSE
  <2>1. rt'.micro = <<>>
    BY <1>0, <1>12 DEF Load, Start, Runtimes
  <2> QED BY <1>2, <2>1 DEF Gives
<1>13. ASSUME NEW n \in Calls, Fires(n) PROVE Quiet'
  BY <1>10, <1>13 DEF Fires, TimerFires
<1> QED BY <1>4, <1>5, <1>6, <1>7, <1>8, <1>9, <1>10, <1>11, <1>12, <1>13, StatusMoves

-----------------------------------------------------------------------------
(***************************************************************************)
(* The newest call, when it failed and when it did not.                    *)
(***************************************************************************)
Failed(n) == call[n].pc = "rejected" \/ (stage[n].pc = "over" /\ stage[n].digest = NoInput)
NoneEnsuring == \A m \in Calls : call[m].pc # "ensuring"
Known(n) == Stuck(rt) \/ (Quiet /\ drain.pc = "off" /\ (call[n].pc = "rejected" \/ error.render))

FailureIs ==
    \A n \in Calls : IsNewest(n) /\ Failed(n) /\ shown.status = "ready" /\ ~armed =>
        waiting = <<>> /\ NoneEnsuring /\ Known(n)

\* When the newest failed, the runtime does nothing more.
LEMMA StuckStays ==
    ASSUME TypedInv, Awake(rt), [Next]_vars, Stuck(rt), waiting = <<>>, NoneEnsuring,
           ~(\E n \in Calls : Fires(n)), ~PaneShows, shown.status # "failed"
    PROVE  Stuck(rt')
<1>1. ASSUME rt'.status = rt.status PROVE Stuck(rt')
  BY <1>1 DEF Stuck
<1>2. CASE LoadSettled
  BY <1>2, LoadSettledIs DEF Awake, Refusal, Stuck
<1>3. CASE DrainEnsured \/ RenderReturns
  BY <1>1, <1>3, SameStatusStep
<1>4. ASSUME NEW throws \in BOOLEAN, CallEnsured(throws) PROVE Stuck(rt')
  BY <1>4, CallEnsuredIs DEF NoneEnsuring
<1>5. ASSUME NEW throws \in BOOLEAN, DrainSettled(throws) PROVE Stuck(rt')
  BY <1>1, <1>5, DrainSettledIs
<1>6. ~RetryEngine
  BY DEF RetryEngine
<1>7. ASSUME rt'.status \in {"idle", "failed"} PROVE Stuck(rt')
  BY <1>7 DEF Stuck
<1> QED BY <1>1, <1>2, <1>3, <1>4, <1>5, <1>6, <1>7, StatusMoves

\* A loop that is off stays off without a request.
LEMMA OffStays ==
    ASSUME TypedInv, [Next]_vars, drain.pc = "off", NoneEnsuring
    PROVE  /\ drain'.pc = "off" \/ \E n \in Calls : Fires(n)
           /\ ~(\E throws \in BOOLEAN : DrainSettled(throws))
<1>0. /\ Inv(rt, call, waiting, drain, faults) /\ rt \in Runtimes /\ RtInv
      /\ Line(rt, call, drain) /\ Drain(rt, waiting, drain)
  BY DEF TypedInv, RtInv, Inv, Typed
<1>1. ~DrainEnsured
  <2>1. SUFFICES ASSUME DrainEnsured PROVE FALSE
    OBVIOUS
  <2>2. rt.micro # <<>> /\ Head(rt.micro).kind = "ensured" /\ Head(rt.micro).who = None
    BY <2>1 DEF DrainEnsured, Runs
  <2>3. Popped(rt, waiting, drain, Ran(rt), Head(rt.micro))
    BY <1>0, <2>2, RanIs, EnsuredPopped DEF Fields
  <2>4. Ensured(rt, None)
    BY <2>2, <2>3 DEF Popped
  <2> QED BY <1>0, <2>4 DEF Line
<1>2. ~RenderReturns
  <2>1. SUFFICES ASSUME RenderReturns PROVE FALSE
    OBVIOUS
  <2>2. rt.micro # <<>> /\ Head(rt.micro).kind = "answered"
    BY <2>1 DEF RenderReturns, Runs
  <2> QED BY <1>0, <2>2, HeadModes DEF Answered, Over
<1>3. ~(\E throws \in BOOLEAN : DrainSettled(throws))
  BY <1>0, DrainSettledIs DEF Drain
<1>4. ~(\E throws \in BOOLEAN : CallEnsured(throws))
  BY CallEnsuredIs DEF NoneEnsuring
<1>5. \A throws \in BOOLEAN : Load(throws) => drain' = drain
  BY DEF Load
<1>6. LoadSettled => drain' = drain
  BY DEF LoadSettled
<1> QED BY <1>1, <1>2, <1>3, <1>4, <1>5, <1>6, StatusMoves

LEMMA WaitingStays ==
    ASSUME TypedInv, [Next]_vars, waiting = <<>>, NoneEnsuring
    PROVE  waiting' = <<>>
<1>1. ASSUME NEW throws \in BOOLEAN, DrainSettled(throws) PROVE waiting' = <<>>
  BY <1>1, DrainSettledIs
<1>2. ~(\E throws \in BOOLEAN : CallEnsured(throws))
  BY CallEnsuredIs DEF NoneEnsuring
<1>3. CASE ~(\E throws \in BOOLEAN : CallEnsured(throws) \/ DrainSettled(throws))
  BY <1>3 DEF Next, Microtask, LoadSettled, DrainEnsured, RenderReturns,
           Dispose, WorkerTask, Loaded, LoadFails, RenderAnswered, Answer, WorkerError, WatchdogStops,
           Edit, RetryEngine, RetrySave, PaneRenders, Load, TimerFires, Render,
           CallbackStep, PictureComes, PictureFails, PictureShows, HandOver, Upload, UploadFails,
           runtime, vars
<1> QED BY <1>1, <1>2, <1>3

LEMMA EnsuringStays ==
    ASSUME TypedInv, [Next]_vars, NEW n \in Calls, call'[n].pc = "ensuring", ~Fires(n)
    PROVE  call[n].pc = "ensuring"
<1>1. CallMoves(n)
  BY CallStep
<1> QED BY <1>1 DEF CallMoves, IsAsked, IsEnsuredNow, IsTold, IsOver, Fires

LEMMA FailureStep ==
    ASSUME PlacedInv, Awake(rt), FailsQuietly, FailureIs, [Next]_vars
    PROVE  FailureIs'
<1>1. SUFFICES ASSUME NEW n \in Calls, IsNewest(n)', Failed(n)', shown'.status = "ready", ~armed'
               PROVE  waiting' = <<>> /\ NoneEnsuring' /\ Known(n)'
  BY DEF FailureIs
<1>0. /\ TypedInv /\ CallMoves(n) /\ StageMoves(n) /\ ShownMoves /\ Place(n)' /\ Place(n) /\ StoreMoves
      /\ Queue(call, waiting, drain) /\ waiting \in Seq(Calls)
      /\ error \in [render: BOOLEAN, save: Output \cup {NoOutput}] /\ rt \in Runtimes
  BY CallStep, PaneStep, PlaceStep DEF PlacedInv, Places, TypedInv, PaneTyped, RtInv, Inv, Typed
<1>2. call[n].pc # "none" /\ ~Fires(n)
  <2>1. SUFFICES ASSUME call[n].pc = "none" \/ Fires(n) PROVE FALSE
    OBVIOUS
  <2>2. Fires(n)
    <3>1. CASE call[n].pc = "none"
      BY <1>0, <1>1, <3>1 DEF CallMoves, IsAsked, IsEnsuredNow, IsTold, IsOver, Fires, IsNewest
    <3> QED BY <2>1, <3>1
  <2>3. StageIs(n, "awaiting", shown.edits, stage[n].digest, stage[n].now, stage[n].asset)
    BY <1>0, <2>2, StageValues
  <2>4. stage'[n].pc = "awaiting"
    BY <2>3 DEF StageIs
  <2>5. call'[n].pc = "ensuring"
    <3>1. call \in CallStates
      BY <1>0 DEF TypedInv, RtInv, Inv, Typed
    <3> QED BY <2>2, <3>1 DEF Fires, TimerFires, Render, CallStates
  <2> QED BY <1>1, <2>4, <2>5 DEF Failed
<1>3. IsNewest(n) /\ ~(\E k \in Calls : Fires(k))
  BY <1>0, <1>1, <1>2, NewestStays
<1>4. ~PaneShows /\ shown.status = "ready" /\ ~armed
  <2>1. ~PaneShows
    BY <1>1 DEF PaneShows, PaneRenders
  <2>2. shown' = shown /\ armed' = armed
    BY <1>0, <1>3, <2>1 DEF ShownMoves, Edit
  <2> QED BY <1>1, <2>1, <2>2
<1>5. CASE Failed(n)
  <2>1. waiting = <<>> /\ NoneEnsuring /\ Known(n)
    BY <1>3, <1>4, <1>5 DEF FailureIs
  <2>2. waiting' = <<>>
    BY <1>0, <2>1, WaitingStays
  <2>3. NoneEnsuring'
    BY <1>0, <1>3, <2>1, EnsuringStays DEF NoneEnsuring
  <2>4. CASE Stuck(rt)
    <3>1. Stuck(rt')
      BY <1>0, <1>3, <1>4, <2>1, <2>4, StuckStays
    <3> QED BY <2>2, <2>3, <3>1 DEF Known
  <2>5. CASE Quiet /\ drain.pc = "off" /\ (call[n].pc = "rejected" \/ error.render)
    <3>1. drain'.pc = "off" /\ ~(\E throws \in BOOLEAN : DrainSettled(throws))
      BY <1>0, <1>3, <2>1, <2>5, OffStays
    <3>2. Quiet'
      BY <1>0, <2>5, <3>1, QuietStays
    <3>3. error.render => error'.render
      <4>1. \A m \in Calls : ~PictureShows(m)
        BY <2>5 DEF PictureShows, Quiet
      <4>2. \A m \in Calls : PictureFails(m) => error'.render
        BY <1>0 DEF PictureFails
      <4>3. \A m \in Calls : HandOver(m) => error'.render = error.render
        BY <1>0 DEF HandOver, Store
      <4>4. RetrySave => error'.render = error.render
        BY <1>0 DEF RetrySave, Store
      <4>5. \A i \in DOMAIN uploads : Upload(i) \/ UploadFails(i) => error'.render = error.render
        BY <1>0 DEF Upload, UploadFails
      <4> QED BY <1>0, <4>1, <4>2, <4>3, <4>4, <4>5 DEF StoreMoves
    <3>4. call[n].pc = "rejected" => call'[n].pc = "rejected" \/ error'.render
      <4>1. \A m \in Calls : PictureFails(m) => error'.render
        BY <1>0 DEF PictureFails
      <4>2. ASSUME call[n].pc = "rejected" PROVE ~PictureComes(n)
        BY <4>2 DEF PictureComes
      <4> QED BY <1>0, <4>1, <4>2 DEF CallMoves, IsAsked, IsEnsuredNow, IsTold, IsOver
    <3> QED BY <2>2, <2>3, <2>5, <3>1, <3>2, <3>3, <3>4 DEF Known
  <2> QED BY <2>1, <2>4, <2>5 DEF Known
<1>6. CASE ~Failed(n)
  <2>1. (IsEnsuredNow(n) \/ IsTold(n)) /\ call'[n].pc = "rejected"
    <3>1. ~(stage'[n].pc = "over" /\ stage'[n].digest = NoInput)
      <4>1. SUFFICES ASSUME stage'[n].pc = "over", stage'[n].digest = NoInput PROVE FALSE
        OBVIOUS
      <4>2. stage'[n] # stage[n]
        BY <1>6, <4>1 DEF Failed
      <4>3. CASE PictureComes(n)
        <5>1. StageIs(n, "digest", stage[n].edits, DigestOf(n), stage[n].now, stage[n].asset)
          BY <1>0, <4>3, StageValues
        <5> QED BY <4>1, <5>1 DEF StageIs
      <4>4. CASE PictureShows(n)
        <5>1. StageIs(n, "compare", stage[n].edits, stage[n].digest, shown.value, asset)
          BY <1>0, <4>4, StageValues
        <5> QED BY <4>1, <5>1 DEF StageIs
      <4>5. CASE PictureFails(n)
        BY <1>6, <4>5 DEF PictureFails, Failed
      <4>6. CASE HandOver(n)
        <5>1. StageIs(n, "over", stage[n].edits, stage[n].digest, stage[n].now, stage[n].asset)
          BY <1>0, <4>6, StageValues
        <5>2. stage'[n].digest = stage[n].digest
          BY <5>1 DEF StageIs
        <5>3. stage[n].digest \in Digests
          BY <1>0, <4>6 DEF HandOver, TypedInv, PaneTyped
        <5> QED BY <4>1, <5>2, <5>3, InputsAreDigests
      <4> QED BY <1>0, <1>2, <4>2, <4>3, <4>4, <4>5, <4>6 DEF StageMoves, CallbackStep
    <3>2. call'[n].pc = "rejected" /\ call[n].pc # "rejected"
      BY <1>1, <1>6, <3>1 DEF Failed
    <3> QED BY <1>0, <3>2 DEF CallMoves, IsAsked, IsOver
  <2>2. CASE IsEnsuredNow(n)
    <3>1. PICK throws \in BOOLEAN : CallEnsured(throws)
      BY <2>2 DEF IsEnsuredNow
    <3>2. Head(rt.micro).who = n /\ ~Head(rt.micro).ok
      BY <2>1, <2>2 DEF IsEnsuredNow
    <3>3. Refused(rt, waiting, drain) /\ \A m \in Calls : call[m].pc = "ensuring" /\ m # n => n < m
      BY <1>0, <3>1, <3>2, CallEnsuredIs
    <3>4. waiting' = <<>>
      BY <3>1, <3>2, <3>3 DEF CallEnsured, Refused
    <3>5. Stuck(rt')
      BY <1>0, <3>1, <3>3, CallEnsuredStep DEF Refused, Stuck, TypedInv
    <3>6. NoneEnsuring'
      <4>1. SUFFICES ASSUME NEW m \in Calls, call'[m].pc = "ensuring" PROVE FALSE
        BY DEF NoneEnsuring
      <4>2. call[m].pc = "ensuring"
        BY <1>0, <1>3, <4>1, EnsuringStays
      <4>3. m # n
        BY <2>1, <4>1
      <4>4. n < m
        BY <3>3, <4>2, <4>3
      <4>5. m > n
        BY <4>4, Numbers DEF Calls
      <4> QED BY <1>3, <4>2, <4>5 DEF IsNewest
    <3> QED BY <3>4, <3>5, <3>6 DEF Known
  <2>3. CASE IsTold(n)
    <3>1. PICK throws \in BOOLEAN : DrainSettled(throws)
      BY <2>3 DEF IsTold
    <3>2. /\ ~Head(rt.micro).ok /\ In(drain.job, n) /\ call[n].pc = "queued"
      BY <2>1, <2>3 DEF IsTold
    <3>3. waiting = <<>>
      <4>1. SUFFICES ASSUME waiting # <<>> PROVE FALSE
        OBVIOUS
      <4> DEFINE m == waiting[1]
      <4>2. 1 \in 1..Len(waiting) /\ m \in Calls
        BY <1>0, <4>1
      <4>3. call[m].pc = "queued"
        <5>1. In(waiting, m)
          BY <4>2 DEF In
        <5> QED BY <1>0, <4>2, <5>1 DEF Queue
      <4>4. n < m
        BY <1>0, <3>2, <4>2 DEF Queue, In
      <4>5. m > n
        BY <4>2, <4>4, Numbers DEF Calls
      <4> HIDE DEF m
      <4> QED BY <1>3, <4>2, <4>3, <4>5 DEF IsNewest
    <3>4. waiting' = <<>> /\ drain'.pc = "off" /\ rt'.status = rt.status
      BY <1>0, <3>1, <3>3, DrainSettledIs
    <3>5. NoneEnsuring'
      <4>1. SUFFICES ASSUME NEW m \in Calls, call'[m].pc = "ensuring" PROVE FALSE
        BY DEF NoneEnsuring
      <4>2. call[m].pc = "ensuring"
        BY <1>0, <1>3, <4>1, EnsuringStays
      <4>3. n < m
        BY <1>0, <3>2, <4>2 DEF Queue
      <4>4. m > n
        BY <4>3, Numbers DEF Calls
      <4> QED BY <1>3, <4>2, <4>4 DEF IsNewest
    <3>6. Gives(rt)
      BY <1>0, <3>1, <3>2, DrainSettledIs DEF Gives
    <3>7. Stuck(rt') \/ Quiet'
      BY <1>0, <3>2, <3>4, <3>6, QuietStays DEF FailsQuietly, Stuck
    <3> QED BY <2>1, <3>4, <3>5, <3>7 DEF Known
  <2> QED BY <2>1, <2>2, <2>3
<1> QED BY <1>5, <1>6

Succeeded ==
    \A n \in Calls :
        IsNewest(n) /\ call[n].input = input.value /\ stage[n].pc = "over" /\ stage[n].digest # NoInput
        => input.value \in sent \/ error.save # NoOutput

LEMMA SucceededStep ==
    ASSUME Steady, SteadyInv, Succeeded, [Next]_vars
    PROVE  Succeeded'
<1>1. SUFFICES ASSUME NEW n \in Calls, IsNewest(n)', call'[n].input = input'.value,
                      stage'[n].pc = "over", stage'[n].digest # NoInput
               PROVE  input'.value \in sent' \/ error'.save # NoOutput
  BY DEF Succeeded
<1>0. /\ PlacedInv /\ Seen /\ Stored /\ TypedInv /\ CallMoves(n) /\ StageMoves(n) /\ ShownMoves
      /\ Place(n) /\ StoreMoves /\ stage \in Stages /\ call \in CallStates
      /\ (\A m \in Calls : ResultIs(m)) /\ uploads \in Seq(Output)
      /\ error \in [render: BOOLEAN, save: Output \cup {NoOutput}]
  BY CallStep, PaneStep DEF SteadyInv, PlacedInv, Places, TypedInv, PaneTyped, RtInv, Inv, Typed
<1>2. ~Fires(n) /\ call[n].pc # "none"
  <2>1. SUFFICES ASSUME Fires(n) \/ call[n].pc = "none" PROVE FALSE
    OBVIOUS
  <2>2. Fires(n)
    <3>1. CASE call[n].pc = "none"
      BY <1>0, <1>1, <3>1 DEF CallMoves, IsAsked, IsEnsuredNow, IsTold, IsOver, Fires, IsNewest
    <3> QED BY <2>1, <3>1
  <2>3. StageIs(n, "awaiting", shown.edits, stage[n].digest, stage[n].now, stage[n].asset)
    BY <1>0, <2>2, StageValues
  <2> QED BY <1>1, <2>3 DEF StageIs
<1>3. IsNewest(n) /\ call'[n].input = call[n].input
  BY <1>0, <1>1, <1>2, NewestStays, InputStays
<1>4. input' = input
  <2>1. CASE Edit
    <3>1. input'.value \notin input.seen
      BY <2>1 DEF Edit, Steady
    <3> QED BY <1>0, <1>1, <1>2, <1>3, <3>1 DEF Seen
  <2>2. Edit \/ input' = input
    BY <1>0 DEF ShownMoves, PaneShows, PaneRenders, Fires, TimerFires
  <2> QED BY <2>1, <2>2
<1>5. Asked(input.value) /\ call[n].input = input.value
  BY <1>1, <1>2, <1>3, <1>4 DEF Asked
<1>6. ASSUME NEW m \in Calls, HandOver(m), Wanted(m)
      PROVE  input.value \in sent'
  <2>1. stage[m].digest = input.value
    BY <1>0, <1>5, <1>6 DEF HandOver, Wanted, Seen
  <2> QED BY <1>6, <2>1 DEF HandOver, Store
<1>7. CASE stage'[n] = stage[n]
  <2>1. input.value \in sent \/ error.save # NoOutput
    BY <1>1, <1>3, <1>5, <1>7 DEF Succeeded
  <2>2. ASSUME sent' = sent, error'.save = error.save
        PROVE  input'.value \in sent' \/ error'.save # NoOutput
    BY <1>4, <2>1, <2>2
  <2>3. ASSUME NEW m \in Calls, PictureFails(m) \/ PictureShows(m)
        PROVE  input'.value \in sent' \/ error'.save # NoOutput
    <3>1. sent' = sent /\ error'.save = error.save
      BY <1>0, <2>3 DEF PictureFails, PictureShows
    <3> QED BY <2>2, <3>1
  <2>4. ASSUME NEW m \in Calls, HandOver(m)
        PROVE  input'.value \in sent' \/ error'.save # NoOutput
    <3>1. CASE Wanted(m)
      BY <1>4, <1>6, <2>4, <3>1
    <3>2. CASE ~Wanted(m)
      BY <2>2, <2>4, <3>2 DEF HandOver
    <3> QED BY <3>1, <3>2
  <2>5. CASE RetrySave
    <3>1. error.save.digest = input.value /\ sent' = sent \cup {error.save.digest}
      BY <2>5 DEF RetrySave, Store, Steady
    <3> QED BY <1>4, <3>1
  <2>6. ASSUME NEW i \in DOMAIN uploads, Upload(i)
        PROVE  input'.value \in sent' \/ error'.save # NoOutput
    BY <2>2, <2>6 DEF Upload
  <2>7. ASSUME NEW i \in DOMAIN uploads, UploadFails(i)
        PROVE  input'.value \in sent' \/ error'.save # NoOutput
    <3>1. error'.save = uploads[i] /\ uploads[i] \in Output
      BY <1>0, <2>7 DEF UploadFails
    <3> QED BY <3>1, InputsAreDigests
  <2>8. CASE UNCHANGED <<rendered, sent, uploads, row, asset, error>>
    BY <2>2, <2>8
  <2> QED BY <1>0, <2>3, <2>4, <2>5, <2>6, <2>7, <2>8 DEF StoreMoves
<1>8. CASE HandOver(n)
  <2>1. CASE Wanted(n)
    BY <1>4, <1>6, <1>8, <2>1
  <2>2. CASE ~Wanted(n)
    <3>1. stage[n].pc = "compare" /\ sent' = sent
      BY <1>8, <2>2 DEF HandOver
    <3>2. StageIs(n, "over", stage[n].edits, stage[n].digest, stage[n].now, stage[n].asset)
      BY <1>0, <1>8, StageValues
    <3>3. stage[n].digest # NoInput
      BY <1>1, <3>2 DEF StageIs
    <3>4. PICK m \in n..NCalls : call[m].pc # "none" /\ call[n].result = call[m].input
      BY <1>0, <3>3 DEF ResultIs
    <3>5. m = n
      <4>1. m \in Calls /\ (m > n \/ m = n)
        BY Numbers DEF Calls
      <4> QED BY <1>3, <3>4, <4>1 DEF IsNewest
    <3>6. stage[n].digest = input.value
      <4>1. stage[n].digest = DigestOf(n) /\ call[n].result \in Inputs /\ call[n].input \in Inputs
        BY <1>0, <3>3 DEF Place, CallStates
      <4> QED BY <1>5, <3>4, <3>5, <4>1, DigestsAreInputs DEF DigestOf, Steady
    <3>7. stage[n].now = input.value
      BY <1>0, <1>5, <3>1 DEF Seen
    <3>8. stage[n].digest \in sent
      BY <1>0, <2>2, <3>1, <3>3, <3>6, <3>7 DEF Wanted, Stored, Compared
    <3> QED BY <1>4, <3>1, <3>6, <3>8
  <2> QED BY <2>1, <2>2
<1>9. CASE PictureComes(n) \/ PictureShows(n) \/ PictureFails(n)
  <2>1. CASE PictureComes(n)
    <3>1. StageIs(n, "digest", stage[n].edits, DigestOf(n), stage[n].now, stage[n].asset)
      BY <1>0, <2>1, StageValues
    <3> QED BY <1>1, <3>1 DEF StageIs
  <2>2. CASE PictureShows(n)
    <3>1. StageIs(n, "compare", stage[n].edits, stage[n].digest, shown.value, asset)
      BY <1>0, <2>2, StageValues
    <3> QED BY <1>1, <3>1 DEF StageIs
  <2>3. CASE PictureFails(n)
    <3>1. StageIs(n, "over", stage[n].edits, stage[n].digest, stage[n].now, stage[n].asset)
      BY <1>0, <2>3, StageValues
    <3>2. stage'[n].digest = stage[n].digest
      BY <3>1 DEF StageIs
    <3>3. stage[n].digest = NoInput
      BY <1>0, <2>3 DEF PictureFails, Place
    <3> QED BY <1>1, <3>2, <3>3
  <2> QED BY <1>9, <2>1, <2>2, <2>3
<1> QED BY <1>0, <1>2, <1>7, <1>8, <1>9 DEF StageMoves, CallbackStep

RestInv == SteadyInv /\ AskedLatest /\ Awake(rt) /\ FailsQuietly /\ FailureIs /\ Succeeded

LEMMA RestInvariant ==
    ASSUME Steady
    PROVE  Spec => []RestInv
<1>1. Init => AskedLatest /\ Awake(rt) /\ FailsQuietly /\ FailureIs /\ Succeeded
  <2>1. SUFFICES ASSUME Init
                 PROVE  AskedLatest /\ Awake(rt) /\ FailsQuietly /\ FailureIs /\ Succeeded
    OBVIOUS
  <2>2. /\ \A n \in Calls : call[n].pc = "none"
        /\ rt.promise = None /\ rt.micro = <<>> /\ shown.status = "unmounted"
    BY <2>1 DEF Init, RuntimeInit
  <2> QED BY <2>2 DEF AskedLatest, Awake, FailsQuietly, Gives, FailureIs, Succeeded, IsNewest
<1>2. /\ SteadyInv /\ AskedLatest /\ Awake(rt) /\ FailsQuietly /\ FailureIs /\ Succeeded /\ [Next]_vars
      => AskedLatest' /\ Awake(rt)' /\ FailsQuietly' /\ FailureIs' /\ Succeeded'
  <2>1. SUFFICES ASSUME SteadyInv, AskedLatest, Awake(rt), FailsQuietly, FailureIs, Succeeded, [Next]_vars
                 PROVE  AskedLatest' /\ Awake(rt)' /\ FailsQuietly' /\ FailureIs' /\ Succeeded'
    OBVIOUS
  <2>2. PlacedInv /\ TypedInv
    BY <2>1 DEF SteadyInv, PlacedInv
  <2>3. Awake(rt')
    BY <2>1, <2>2, AwakeStep
  <2>4. Awake(rt)'
    BY <2>3
  <2> QED BY <2>1, <2>2, <2>4, AskedLatestStep, FailsQuietlyStep, FailureStep, SucceededStep
<1> QED BY <1>1, <1>2, SteadyInvariant, PTL DEF Spec, RestInv

LEMMA InvCurrent ==
    ASSUME Steady, RestInv, PicturesAreHonest
    PROVE  RestIsCurrent
<1>1. SUFFICES ASSUME AtRest PROVE row.picture = input.value
  BY DEF RestIsCurrent
<1>2. /\ rt.micro = <<>> /\ rt.status = "ready" /\ drain.pc = "off" /\ ~armed
      /\ shown = [status |-> rt.status, value |-> input.value, edits |-> input.edits]
      /\ \A n \in Calls : stage[n].pc \in {"none", "over"}
      /\ uploads = <<>> /\ error = [render |-> FALSE, save |-> NoOutput]
  BY <1>1 DEF AtRest
<1>3. /\ shown.status = "ready" /\ shown.value = input.value
      /\ ~error.render /\ error.save = NoOutput
  BY <1>2
<1>4. PICK n \in Calls : IsNewest(n) /\ call[n].input = input.value
  BY <1>2, <1>3 DEF RestInv, AskedLatest
<1>5. stage[n].pc = "over" /\ call[n].pc = "over"
  BY <1>2, <1>4 DEF RestInv, SteadyInv, PlacedInv, Places, Place, IsNewest
<1>6. ~Failed(n)
  BY <1>2, <1>3, <1>4, <1>5 DEF RestInv, FailureIs, Known, Stuck
<1>7. stage[n].digest # NoInput
  BY <1>5, <1>6 DEF Failed
<1>8. input.value \in sent
  BY <1>3, <1>4, <1>5, <1>7 DEF RestInv, Succeeded
<1>9. row.digest = input.value
  BY <1>2, <1>8 DEF RestInv, SteadyInv, Stored, Latest
<1> QED BY <1>9 DEF PicturesAreHonest

\* When the author has stopped typing and all requests are answered, the
\* stored picture is that of the source, through engines that hang, are
\* stopped, fail and are started again and uploads that fail: if no old source
\* is typed again, no upload that was typed past is retried, and no request of
\* the browser overtakes another (handleAssetOutput, onAssetOutput).
THEOREM CurrentAtRest ==
    ASSUME Steady
    PROVE  Spec => []RestIsCurrent
<1>1. OneDocinfo
  BY DEF Steady
<1>2. RestInv /\ PicturesAreHonest => RestIsCurrent
  BY InvCurrent
<1> QED BY <1>1, <1>2, RestInvariant, PicturesHonest, PTL
=============================================================================
