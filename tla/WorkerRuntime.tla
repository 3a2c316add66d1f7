--------------------------- MODULE WorkerRuntime ---------------------------
(***************************************************************************)
(* createWorkerRuntime: the main thread's side of a generator's engine, a  *)
(* Web Worker started on demand.  JavaScript runs one task at a time, and  *)
(* between tasks the microtasks: what follows an `await` or a `.then` is   *)
(* not run when the promise settles but queued.  `micro` is that queue, in *)
(* order; a call, a message, a timer or an error of the worker comes when  *)
(* it is empty, but what a microtask finds is what those before it left.   *)
(*                                                                         *)
(* The runtime's variables are one record, rt, so that a handler that goes *)
(* through several of the functions of the source is their composition.    *)
(* A worker is its number in order of creation, a render call likewise.    *)
(***************************************************************************)
EXTENDS Naturals, Sequences, SequencesExt

CONSTANTS
    Inputs,     \* what a picture is made of: a pair of source and docinfo
    Hangs,      \* the inputs the engine never finishes
    Bad,        \* the inputs it refuses
    NCalls,     \* bound on the calls of render
    MaxFaults,  \* bound on the faults of the environment
    Watchdog,   \* whether the generator configures one (TikZ does)
    Env         \* what else may happen

ASSUME InputAssumption == Hangs \subseteq Inputs /\ Bad \subseteq Inputs
ASSUME BoundAssumption == NCalls \in Nat /\ MaxFaults \in Nat /\ Watchdog \in BOOLEAN

Calls == 1..NCalls
\* A worker is replaced after a fault or after a render that was stopped.
Workers == 1..(1 + MaxFaults + NCalls)
None == 0

VARIABLES
    rt,         \* worker, status, load promise, requests, microtasks
    call,       \* each call of render: its place, its input and its result
    waiting,    \* the calls waiting for the next render
    drain,      \* the loop that renders, and the calls its job settles
    faults      \* how many faults there were

runtime == <<rt, call, waiting, drain, faults>>

Status == {"idle", "loading", "ready", "failed"}
Engine == {"none", "loading", "loaded", "broken", "stopped"}
Micro ==
    [kind: {"load"}, who: Workers, ok: BOOLEAN]
    \cup [kind: {"ensured"}, who: Calls \cup {None}, ok: BOOLEAN]
    \cup [kind: {"answered", "settled"}, who: {None}, ok: BOOLEAN]

RuntimeTypeOK ==
    /\ rt \in [worker: Workers \cup {None},     \* the one that counts
               promise: Workers \cup {None},    \* loadPromise, by its worker
               status: Status,
               engine: [Workers -> Engine],
               quiet: SUBSET Workers,           \* started without a status change
               fulfilled: SUBSET Workers,       \* whose load promise is
               pending: Seq(Workers \X {"load", "render"}),
               awaiting: [Workers -> Seq(Calls \cup {None})], \* who awaits its load
               watched: BOOLEAN,                \* the stall and limit timers are set
               micro: Seq(Micro)]
    /\ call \in [Calls -> [pc: {"none", "ensuring", "queued", "resolved", "rejected", "over"},
                           input: Inputs, result: Inputs]]
    /\ waiting \in Seq(Calls)
    /\ drain \in [pc: {"off", "ensuring", "rendering", "settling"}, job: Seq(Calls)]
    /\ faults \in 0..MaxFaults

RuntimeInit ==
    /\ rt = [worker |-> None, promise |-> None, status |-> "idle",
             engine |-> [w \in Workers |-> "none"], quiet |-> {}, fulfilled |-> {},
             pending |-> <<>>, awaiting |-> [w \in Workers |-> <<>>], watched |-> FALSE, micro |-> <<>>]
    /\ call \in [Calls -> [pc: {"none"}, input: {CHOOSE i \in Inputs : TRUE},
                           result: {CHOOSE i \in Inputs : TRUE}]]
    /\ waiting = <<>>
    /\ drain = [pc |-> "off", job |-> <<>>]
    /\ faults = 0

Task(kind, who, ok) == [kind |-> kind, who |-> who, ok |-> ok]
Later(r, task) == [r EXCEPT !.micro = Append(@, task)]
Ran(r) == [r EXCEPT !.micro = Tail(@)]
Runs(kind) == rt.micro # <<>> /\ Head(rt.micro).kind = kind

-----------------------------------------------------------------------------
NextWorker(r) == CHOOSE w \in Workers :
    r.engine[w] = "none" /\ \A v \in 1..(w - 1) : r.engine[v] # "none"

(***************************************************************************)
(* start: a worker and its load request, unless a load is under way or     *)
(* done.  loadRequest or createWorker may throw (the host gave no URL).    *)
(***************************************************************************)
Start(r, quiet, throws) ==
    LET w == NextWorker(r) IN
    IF r.promise # None THEN r
    ELSE IF throws THEN [r EXCEPT !.status = "failed"]
    ELSE [r EXCEPT !.worker = w, !.promise = w, !.engine[w] = "loading",
                   !.status = IF quiet THEN @ ELSE "loading",
                   !.quiet = IF quiet THEN @ \cup {w} ELSE @,
                   !.pending = Append(@, <<w, "load">>)]

\* Mutant of EnsureWorker: every start is loud.
EnsureWorker_loud(r, throws) == Start(r, FALSE, throws)

\* ensureWorker: a stopped worker is restarted quietly while the status says
\* ready.
EnsureWorker(r, throws) == Start(r, r.status = "ready", throws)

\* `await ensureWorker()` by a call, or by the drain loop (None).
Await(r, who, throws) ==
    LET s == EnsureWorker(r, throws) IN
    IF s.promise = None THEN Later(s, Task("ensured", who, FALSE))
    ELSE IF s.promise \in s.fulfilled THEN Later(s, Task("ensured", who, TRUE))
    ELSE [s EXCEPT !.awaiting[s.promise] = Append(@, who)]

\* Throwing is a fault, and only a start can throw.
Fault(throws) ==
    IF throws
    THEN /\ "no_engine" \in Env /\ faults < MaxFaults /\ rt.promise = None
         /\ faults' = faults + 1
    ELSE UNCHANGED faults

Rejection(request) ==
    IF request[2] = "load" THEN Task("load", request[1], FALSE)
    ELSE Task("answered", None, FALSE)

\* Mutant of StopWorker: the requests of the worker are forgotten, not failed,
\* and their timers cleared.
StopWorker_silently(r) ==
    [r EXCEPT !.engine = [w \in Workers |-> IF w = r.worker THEN "stopped" ELSE @[w]],
              !.worker = None, !.promise = None, !.pending = <<>>, !.watched = FALSE]

\* stopWorker, with failAll: every request is rejected, in order.
StopWorker(r) ==
    [r EXCEPT !.engine = [w \in Workers |-> IF w = r.worker THEN "stopped" ELSE @[w]],
              !.worker = None, !.promise = None, !.pending = <<>>,
              !.micro = @ \o [i \in DOMAIN r.pending |-> Rejection(r.pending[i])]]

-----------------------------------------------------------------------------
(***************************************************************************)
(* What a client calls.                                                    *)
(***************************************************************************)
Load(throws) ==
    /\ Fault(throws)
    /\ rt' = Start(rt, FALSE, throws)
    /\ UNCHANGED <<call, waiting, drain>>

Render(n, input, throws) ==
    /\ Fault(throws)
    /\ call[n].pc = "none" /\ \A m \in 1..(n - 1) : call[m].pc # "none"
    /\ rt' = Await(rt, n, throws)
    /\ call' = [call EXCEPT ![n] = [pc |-> "ensuring", input |-> input, result |-> input]]
    /\ UNCHANGED <<waiting, drain>>

Dispose ==
    /\ "dispose" \in Env /\ faults < MaxFaults /\ rt.micro = <<>>
    /\ faults' = faults + 1
    /\ rt' = [StopWorker(rt) EXCEPT !.status = "idle"]
    /\ UNCHANGED <<call, waiting, drain>>

-----------------------------------------------------------------------------
(***************************************************************************)
(* Tasks.  A worker answers each request once; only the current worker is  *)
(* listened to.                                                            *)
(***************************************************************************)
Answer(kind, ok) ==
    /\ rt.micro = <<>> /\ rt.worker # None
    /\ \E i \in DOMAIN rt.pending :
        /\ rt.pending[i] = <<rt.worker, kind>>
        /\ rt' = [rt EXCEPT
                !.pending = RemoveAt(@, i),
                !.engine[rt.worker] =
                    IF kind = "render" THEN @ ELSE IF ok THEN "loaded" ELSE "broken",
                !.micro = <<Task(IF kind = "load" THEN "load" ELSE "answered",
                                 IF kind = "load" THEN rt.worker ELSE None, ok)>>]
    /\ UNCHANGED <<call, waiting, drain>>

JobInput == call[Last(drain.job)].input

Loaded == Answer("load", TRUE) /\ UNCHANGED faults

LoadFails ==
    /\ "load_failure" \in Env /\ faults < MaxFaults
    /\ Answer("load", FALSE)
    /\ faults' = faults + 1

\* A render asked of a worker without its engine is refused at once.
RenderAnswered ==
    /\ rt.worker # None /\ drain.pc = "rendering"
    /\ \/ rt.engine[rt.worker] = "loaded" /\ JobInput \notin Hangs \cup Bad /\ Answer("render", TRUE)
       \/ rt.engine[rt.worker] = "loaded" /\ JobInput \in Bad /\ Answer("render", FALSE)
       \/ rt.engine[rt.worker] # "loaded" /\ Answer("render", FALSE)
    /\ UNCHANGED faults

\* The worker's error event.
WorkerError ==
    /\ "worker_error" \in Env /\ faults < MaxFaults
    /\ rt.micro = <<>> /\ rt.worker # None
    /\ faults' = faults + 1
    /\ rt' = [StopWorker(rt) EXCEPT !.status = "failed"]
    /\ UNCHANGED <<call, waiting, drain>>

\* watchRender: no sign of life for stallMs, or limitMs gone by.
WatchdogStops ==
    /\ rt.micro = <<>> /\ rt.watched /\ rt.worker # None
    /\ rt' = StopWorker(rt)
    /\ UNCHANGED <<call, waiting, drain, faults>>

-----------------------------------------------------------------------------
(***************************************************************************)
(* Microtasks.                                                             *)
(***************************************************************************)
Awaiters(r, w, ok) ==
    [i \in DOMAIN r.awaiting[w] |-> Task("ensured", r.awaiting[w][i], ok)]

\* The two handlers of the load's promise, whichever worker is current now.
LoadSettled ==
    /\ Runs("load")
    /\ LET t == Head(rt.micro)
           r == [Ran(rt) EXCEPT !.micro = @ \o Awaiters(rt, t.who, t.ok),
                                !.awaiting[t.who] = <<>>]
       IN rt' = IF t.ok
                THEN [r EXCEPT !.fulfilled = @ \cup {t.who},
                               !.status = IF t.who \in r.quiet THEN @ ELSE "ready"]
                ELSE [r EXCEPT !.status = "failed", !.promise = None]
    /\ UNCHANGED <<call, waiting, drain, faults>>

\* The loop of drain takes what waits as its next job, or ends.
TakeJob(r, calls, throws) ==
    IF calls = <<>>
    THEN ~throws /\ rt' = r /\ drain' = [pc |-> "off", job |-> <<>>]
    ELSE rt' = Await(r, None, throws) /\ drain' = [pc |-> "ensuring", job |-> calls]

CallEnsured(throws) ==
    /\ Runs("ensured") /\ Head(rt.micro).who # None
    /\ Fault(throws)
    /\ LET t == Head(rt.micro) IN
       /\ call' = [call EXCEPT ![t.who].pc = IF t.ok THEN "queued" ELSE "rejected"]
       /\ IF t.ok /\ drain.pc = "off"
          THEN TakeJob(Ran(rt), Append(waiting, t.who), throws) /\ waiting' = <<>>
          ELSE /\ ~throws
               /\ rt' = Ran(rt)
               /\ waiting' = IF t.ok THEN Append(waiting, t.who) ELSE waiting
               /\ UNCHANGED drain

\* renderNow, after its await: the timers are set, and the request is sent if
\* there still is a worker to send it to.
DrainEnsured ==
    /\ Runs("ensured") /\ Head(rt.micro).who = None
    /\ rt' = IF ~Head(rt.micro).ok THEN Later(Ran(rt), Task("settled", None, FALSE))
             ELSE IF rt.worker = None
             THEN Later([Ran(rt) EXCEPT !.watched = Watchdog], Task("answered", None, FALSE))
             ELSE [Ran(rt) EXCEPT !.watched = Watchdog,
                                  !.pending = Append(@, <<rt.worker, "render">>)]
    /\ drain' = [drain EXCEPT !.pc = IF Head(rt.micro).ok THEN "rendering" ELSE "settling"]
    /\ UNCHANGED <<call, waiting, faults>>

\* The `finally` of renderNow.
RenderReturns ==
    /\ Runs("answered")
    /\ rt' = Later([Ran(rt) EXCEPT !.watched = FALSE], Task("settled", None, Head(rt.micro).ok))
    /\ drain' = [drain EXCEPT !.pc = "settling"]
    /\ UNCHANGED <<call, waiting, faults>>

\* Mutant of Settle: the calls of a job are told the input of the oldest.
Settle_oldest_input(ok) ==
    call' = [n \in Calls |-> IF Contains(drain.job, n)
        THEN [pc |-> IF ok THEN "resolved" ELSE "rejected", input |-> call[n].input,
              result |-> call[Head(drain.job)].input]
        ELSE call[n]]

\* A newer request superseded the ones waiting: all get its result.
Settle(ok) ==
    call' = [n \in Calls |-> IF Contains(drain.job, n)
        THEN [pc |-> IF ok THEN "resolved" ELSE "rejected", input |-> call[n].input,
              result |-> JobInput]
        ELSE call[n]]

DrainSettled(throws) ==
    /\ Runs("settled")
    /\ Fault(throws)
    /\ Settle(Head(rt.micro).ok)
    /\ TakeJob(Ran(rt), waiting, throws)
    /\ waiting' = <<>>

-----------------------------------------------------------------------------
Microtask ==
    \/ LoadSettled \/ DrainEnsured \/ RenderReturns
    \/ \E throws \in BOOLEAN : CallEnsured(throws) \/ DrainSettled(throws)

WorkerTask == Loaded \/ LoadFails \/ RenderAnswered \/ WorkerError

Settled(n) == call[n].pc \in {"resolved", "rejected", "over"}

\* Every call of render settles, whether its worker answers, refuses, fails,
\* is stopped, is replaced or was never there ("both get the newer result",
\* failAll, the watchdog of an engine that can hang).
RenderSettles == \A n \in Calls : call[n].pc = "ensuring" ~> Settled(n)

\* "the newest waiting request wins, the rest resolve to it": a call is never
\* given a picture older than the one it asked for.
NewestWins ==
    \A n \in Calls : call[n].pc = "resolved" =>
        \E m \in n..NCalls : call[m].pc # "none" /\ call[n].result = call[m].input

\* "stop it rather than leave it running beside the one the next load starts"
\* (the error listener of start): two engines never hold or fetch their
\* megabytes at once, however stops, disposals and quiet restarts interleave.
\* A worker whose load was answered with an error is not stopped (see README).
OneEngine ==
    \A v, w \in Workers :
        {rt.engine[v], rt.engine[w]} \subseteq {"loading", "loaded"} => v = w
=============================================================================
