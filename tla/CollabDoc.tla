----------------------------- MODULE CollabDoc -----------------------------
(***************************************************************************)
(* A project's collaborative session: the tabs (YCableProvider), the       *)
(* server's document (ProjectDoc behind ProjectDocChannel) and the rows    *)
(* everything outside the editor reads, which ProjectDocProjection writes  *)
(* from the document.                                                      *)
(*                                                                         *)
(* A Yjs document is the set of the updates it has integrated; merging is  *)
(* union.  An update of one tab is of use only after the tab's earlier     *)
(* ones: until those arrive it is parked (Visible).  A seed stands for the *)
(* content of the page its tab was loaded with.                            *)
(*                                                                         *)
(* yrby and yrby-client are not part of the repository: the frames of the  *)
(* sync protocol are modelled from what the application relies on.  A      *)
(* state vector is answered as it is sent, with what the other side lacks; *)
(* the answer travels.  A relayed update that its tab has already is left  *)
(* out, since merging it changes nothing.                                  *)
(***************************************************************************)
EXTENDS Naturals, FiniteSets

CONSTANTS
    Tabs,
    Jobs,       \* runs of the jobs that project: the one on a timer, and builds
    Original,   \* the content of the rows before the first session
    MaxEdits,   \* bound on the edits of all the tabs
    MaxFaults,  \* bound on dropped sockets and failed requests
    Env         \* what else may happen

ASSUME BoundsAssumption == MaxEdits \in Nat /\ MaxFaults \in Nat
ASSUME TabsAssumption == IsFiniteSet(Tabs) /\ Tabs \cap Jobs = {}

Seed(t) == <<t, 0>>
Seeds == Tabs \X {0}
Edits == Tabs \X (1..MaxEdits)
Updates == Seeds \cup Edits
Content == Edits \cup {Original}
Versions == 1..2

VARIABLES
    tab,        \* each tab: where it is, its doc, its unacknowledged edits
    server,     \* the document, whether it exists, and the layout deployed
    rows,       \* the content of the project's rows
    projecting, \* the projections under way, with the document they have read
    behind,     \* whether rows went back to what an overtaken projection had read
    frames,     \* what is on the sockets
    faults

vars == <<tab, server, rows, projecting, behind, frames, faults>>

Frame(kind, t, updates) == [kind |-> kind, tab |-> t, updates |-> updates]
Kinds == {"edit", "diff", "ack", "relay"}
Projectors == Tabs \cup Jobs

TypeOK ==
    /\ tab \in [Tabs -> [pc: {"closed", "seeding", "joining", "open", "refused", "outdated", "left"},
                         version: Versions, base: SUBSET Content, doc: SUBSET Updates,
                         made: 0..MaxEdits, unacked: SUBSET Edits, up: BOOLEAN,
                         asked: 0..MaxEdits,
                         save: {"no", "acknowledging", "posting", "flushing", "saved"}]]
    /\ server \in [exists: BOOLEAN, stored: SUBSET Updates, version: Versions]
    /\ rows \subseteq Content
    /\ projecting \in [Projectors -> [on: BOOLEAN, doc: SUBSET Updates, late: BOOLEAN]]
    /\ behind \in BOOLEAN
    /\ frames \subseteq [kind: Kinds, tab: Tabs, updates: SUBSET Updates]
    /\ faults \in 0..MaxFaults

Off == [on |-> FALSE, doc |-> {}, late |-> FALSE]

Init ==
    /\ tab = [t \in Tabs |-> [pc |-> "closed", version |-> 1, base |-> {}, doc |-> {}, made |-> 0,
                              unacked |-> {}, up |-> FALSE, asked |-> 0, save |-> "no"]]
    /\ server = [exists |-> FALSE, stored |-> {}, version |-> 1]
    /\ rows = {Original}
    /\ projecting = [p \in Projectors |-> Off]
    /\ behind = FALSE
    /\ frames = {}
    /\ faults = 0

-----------------------------------------------------------------------------
Made(t) == {t} \X (1..tab[t].made)

\* What its author had typed as the last hard save was asked for.
Asked(t) == {t} \X (1..tab[t].asked)

\* The updates of a document that are not parked behind one that is missing.
Visible(doc) == {u \in doc : \A k \in 1..u[2] : <<u[1], k>> \in doc}

\* The edits that are acknowledged, and so are those they rest on.
Acknowledged(t) == Visible(Made(t) \ tab[t].unacked)

\* What a document says.
ContentOf(doc) == (Visible(doc) \cap Edits) \cup UNION {tab[s[1]].base : s \in doc \cap Seeds}

\* ProjectDoc.record: a document that is not there is created.
Record(updates) ==
    server' = [server EXCEPT !.exists = TRUE, !.stored = @ \cup updates]

Fails(what) == what \in Env /\ faults < MaxFaults /\ faults' = faults + 1

-----------------------------------------------------------------------------
(***************************************************************************)
(* Joining.                                                                *)
(***************************************************************************)
\* The page is loaded, with the rows as they are and the editor as deployed.
Load(t) ==
    /\ tab[t].pc = "closed"
    /\ tab' = [tab EXCEPT ![t].pc = "seeding", ![t].base = rows, ![t].version = server.version]
    /\ UNCHANGED <<server, rows, projecting, behind, frames, faults>>

Compatible(t) == tab[t].version = server.version

\* Mutant of SeedPost: whether there is a document is not looked at.
SeedPost_appends(t) ==
    /\ tab[t].pc = "seeding" /\ Compatible(t)
    /\ server' = [server EXCEPT !.exists = TRUE, !.stored = @ \cup {Seed(t)}]
    /\ tab' = [tab EXCEPT ![t].pc = "joining"]
    /\ UNCHANGED <<rows, projecting, behind, frames, faults>>

\* POST doc/seed: the unique key lets one seed become the document.  Whether
\* it did or not, and whether the answer arrives or not, the tab goes on.
SeedPost(t) ==
    /\ tab[t].pc = "seeding" /\ Compatible(t)
    /\ server' = IF server.exists THEN server
                 ELSE [server EXCEPT !.exists = TRUE, !.stored = {Seed(t)}]
    /\ tab' = [tab EXCEPT ![t].pc = "joining"]
    /\ UNCHANGED <<rows, projecting, behind, frames, faults>>

\* The request never got there.
SeedLost(t) ==
    /\ tab[t].pc = "seeding" /\ Fails("seed_lost")
    /\ server.exists \/ "empty_session" \in Env
    /\ tab' = [tab EXCEPT ![t].pc = "joining"]
    /\ UNCHANGED <<server, rows, projecting, behind, frames>>

\* CollabOutdatedError.
SeedRefused(t) ==
    /\ tab[t].pc = "seeding" /\ ~Compatible(t)
    /\ tab' = [tab EXCEPT ![t].pc = "outdated"]
    /\ UNCHANGED <<server, rows, projecting, behind, frames, faults>>

\* Mutant of Handshake: nothing is sent once more.
Handshake_silent(t) == {Frame("diff", t, server.stored)}

\* onConnect: what was not acknowledged once more, and SyncStep1, which the
\* server answers with the whole of its document.
Handshake(t) ==
    {Frame("edit", t, {u}) : u \in tab[t].unacked} \cup {Frame("diff", t, server.stored)}

\* The server's own SyncStep1, as it accepts a tab: it records what it lacks.
Missing(t) == tab[t].doc \ (server.stored \cup tab[t].unacked)
Accept(t) ==
    /\ tab' = [tab EXCEPT ![t].up = TRUE]
    /\ IF Missing(t) = {} THEN UNCHANGED server ELSE Record(Missing(t))
    /\ frames' = frames \cup Handshake(t)
    /\ UNCHANGED <<rows, projecting, behind, faults>>

\* Mutant of Subscribe: any layout may join.
Subscribe_any(t) ==
    /\ tab[t].pc \in {"joining", "open"} /\ ~tab[t].up
    /\ Accept(t)

\* The socket is up and the channel accepts the tab.
Subscribe(t) ==
    /\ tab[t].pc \in {"joining", "open"} /\ ~tab[t].up /\ Compatible(t)
    /\ Accept(t)

\* The channel rejects the tab, which then asks for the version.
Reject(t) ==
    /\ tab[t].pc \in {"joining", "open"} /\ ~tab[t].up /\ ~Compatible(t)
    /\ tab' = [tab EXCEPT ![t].pc = "refused"]
    /\ UNCHANGED <<server, rows, projecting, behind, frames, faults>>

CheckOutdated(t) ==
    /\ tab[t].pc = "refused"
    /\ tab' = [tab EXCEPT ![t].pc = "outdated"]
    /\ UNCHANGED <<server, rows, projecting, behind, frames, faults>>

-----------------------------------------------------------------------------
(***************************************************************************)
(* Editing and delivery.                                                   *)
(***************************************************************************)
\* A local update: into the doc and the unacknowledged queue, and on the wire
\* if there is one.  A save under way, or answered, does not lock the editor.
Edit(t) ==
    LET u == <<t, tab[t].made + 1>> IN
    /\ tab[t].pc = "open"
    /\ Cardinality(UNION {Made(r) : r \in Tabs}) < MaxEdits
    /\ tab' = [tab EXCEPT ![t].made = @ + 1, ![t].doc = @ \cup {u}, ![t].unacked = @ \cup {u}]
    /\ frames' = IF tab[t].up THEN frames \cup {Frame("edit", t, {u})} ELSE frames
    /\ UNCHANGED <<server, rows, projecting, behind, faults>>

\* on_change: recorded, then acknowledged and relayed.
Relay(updates) ==
    {Frame("relay", t, updates) : t \in {t \in Tabs : tab[t].up /\ ~(updates \subseteq tab[t].doc)}}

ReceiveEdit(f) ==
    /\ f.kind = "edit" /\ f \in frames
    /\ Record(f.updates)
    /\ frames' = (frames \ {f}) \cup {Frame("ack", f.tab, f.updates)}
                 \cup (IF f.updates \subseteq server.stored THEN {} ELSE Relay(f.updates))
    /\ UNCHANGED <<tab, rows, projecting, behind, faults>>

\* Mutant of RecordFails: the update is acknowledged all the same.
RecordFails_acks(f) ==
    /\ f.kind = "edit" /\ f \in frames /\ Fails("record_failure")
    /\ frames' = (frames \ {f}) \cup {Frame("ack", f.tab, f.updates)}
    /\ UNCHANGED <<tab, server, rows, projecting, behind>>

\* ProjectDoc.record raises: neither acknowledged nor relayed.
RecordFails(f) ==
    /\ f.kind = "edit" /\ f \in frames /\ Fails("record_failure")
    /\ frames' = frames \ {f}
    /\ UNCHANGED <<tab, server, rows, projecting, behind>>

\* The answer to a handshake; the first one opens the editor (whenSynced).
HearDiff(f) ==
    /\ f.kind = "diff" /\ f \in frames
    /\ tab' = [tab EXCEPT ![f.tab].doc = @ \cup f.updates,
                          ![f.tab].pc = IF @ = "joining" THEN "open" ELSE @]
    /\ frames' = frames \ {f}
    /\ UNCHANGED <<server, rows, projecting, behind, faults>>

\* A broadcast, which may also reach nobody although the socket is healthy.
HearRelay(f) ==
    /\ f.kind = "relay" /\ f \in frames
    /\ tab' = [tab EXCEPT ![f.tab].doc = @ \cup f.updates]
    /\ frames' = frames \ {f}
    /\ UNCHANGED <<server, rows, projecting, behind, faults>>

HearAck(f) ==
    /\ f.kind = "ack" /\ f \in frames
    /\ tab' = [tab EXCEPT ![f.tab].unacked = @ \ f.updates]
    /\ frames' = frames \ {f}
    /\ UNCHANGED <<server, rows, projecting, behind, faults>>

\* The socket drops, and what was on it is gone.
Drop(t) ==
    /\ tab[t].up /\ Fails("drop")
    /\ tab' = [tab EXCEPT ![t].up = FALSE]
    /\ frames' = {f \in frames : f.tab # t}
    /\ UNCHANGED <<server, rows, projecting, behind>>

\* Every 30 seconds, and every 10 while the relay is silent: by then the
\* handshake before is over.
Resync(t) ==
    /\ tab[t].pc = "open" /\ tab[t].up
    /\ \A f \in frames : f.tab = t => f.kind = "relay"
    /\ \/ tab[t].unacked # {}
       \/ ~(server.stored \subseteq tab[t].doc)
    /\ frames' = frames \cup Handshake(t)
    /\ UNCHANGED <<tab, server, rows, projecting, behind, faults>>

-----------------------------------------------------------------------------
(***************************************************************************)
(* The rows.                                                               *)
(***************************************************************************)
\* ProjectDocProjection.apply!: the document is read ...
ProjectRead(p) ==
    /\ ~projecting[p].on /\ server.exists
    /\ projecting' = [projecting EXCEPT ![p] = [on |-> TRUE, doc |-> server.stored, late |-> FALSE]]

\* ... and the rows are written.  No lock keeps the order: one that has been
\* overtaken takes the rows back to what it has read.
ProjectWrite(p) ==
    /\ projecting[p].on
    /\ rows' = ContentOf(projecting[p].doc)
    /\ projecting' = [q \in Projectors |->
            IF q = p THEN Off ELSE [projecting[q] EXCEPT !.late = projecting[q].on]]
    /\ behind' = (projecting[p].late /\ (behind \/ ~(rows \subseteq rows')))

\* ProjectDocProjectionJob, or FullBuildJob before it assembles.  One that finds
\* nothing to change changes nothing.
JobReads(j) ==
    /\ ContentOf(server.stored) # rows
    /\ ProjectRead(j)
    /\ UNCHANGED <<tab, server, rows, behind, frames, faults>>

JobWrites(j) ==
    /\ ProjectWrite(j)
    /\ UNCHANGED <<tab, server, frames, faults>>

\* A hard save: wait for the acknowledgements, five seconds at most.  A second
\* one with nothing typed in between is left out.
Save(t) ==
    /\ tab[t].pc = "open" /\ tab[t].save \in {"no", "saved"}
    /\ tab[t].made > tab[t].asked
    /\ tab' = [tab EXCEPT ![t].save = "acknowledging", ![t].asked = tab[t].made]
    /\ UNCHANGED <<server, rows, projecting, behind, frames, faults>>

\* Mutant of WhenAcknowledged: it does not wait.
WhenAcknowledged_at_once(t) ==
    /\ tab[t].save = "acknowledging"
    /\ tab' = [tab EXCEPT ![t].save = "posting"]
    /\ UNCHANGED <<server, rows, projecting, behind, frames, faults>>

WhenAcknowledged(t) ==
    /\ tab[t].save = "acknowledging" /\ tab[t].unacked = {}
    /\ tab' = [tab EXCEPT ![t].save = "posting"]
    /\ UNCHANGED <<server, rows, projecting, behind, frames, faults>>

\* POST doc/flush begins.
Flush(t) ==
    /\ tab[t].save = "posting"
    /\ ProjectRead(t)
    /\ tab' = [tab EXCEPT ![t].save = "flushing"]
    /\ UNCHANGED <<server, rows, behind, frames, faults>>

\* There is nothing to project, and the answer is the same.
FlushNothing(t) ==
    /\ tab[t].save = "posting" /\ ~server.exists
    /\ tab' = [tab EXCEPT ![t].save = "saved"]
    /\ UNCHANGED <<server, rows, projecting, behind, frames, faults>>

Flushed(t) ==
    /\ tab[t].save = "flushing"
    /\ ProjectWrite(t)
    /\ tab' = [tab EXCEPT ![t].save = "saved"]
    /\ UNCHANGED <<server, frames, faults>>

\* The author reads the alert, and goes on.
GiveUp(t) ==
    /\ tab[t].save = "acknowledging" /\ tab[t].unacked # {} /\ "timeout" \in Env
    /\ tab' = [tab EXCEPT ![t].save = "no", ![t].asked = 0]
    /\ UNCHANGED <<server, rows, projecting, behind, frames, faults>>

\* The project page is opened, and the session destroyed.
Leave(t) ==
    /\ tab[t].save = "saved"  /\ tab[t].pc # "left"
    /\ tab' = [tab EXCEPT ![t].pc = "left", ![t].up = FALSE]
    /\ frames' = {f \in frames : f.tab # t}
    /\ UNCHANGED <<server, rows, projecting, behind, faults>>

-----------------------------------------------------------------------------
(***************************************************************************)
(* The end of a document.                                                  *)
(***************************************************************************)
Destroyed == [server EXCEPT !.exists = FALSE, !.stored = {}]

\* The last collaboration is removed, or is swapped for another as the
\* ownership is transferred: after the session and its last projection, unless
\* somebody is quicker.
Reset ==
    /\ Fails("reset") /\ server.exists
    /\ \/ "reset_live" \in Env
       \/ /\ \A t \in Tabs : tab[t].pc \in {"closed", "left"}
          /\ \A p \in Projectors : ~projecting[p].on
          /\ rows = ContentOf(server.stored)
    /\ server' = Destroyed
    /\ behind' = (behind /\ rows # ContentOf(server.stored))
    /\ UNCHANGED <<tab, rows, projecting, frames>>

\* A deployment with a new layout, in a maintenance window: every document is
\* projected and dropped; the tabs that are open find out as they reconnect.
Deploy ==
    /\ "deploy" \in Env /\ server.version = 1
    /\ \A p \in Projectors : ~projecting[p].on
    /\ rows' = IF server.exists THEN ContentOf(server.stored) ELSE rows
    /\ server' = [Destroyed EXCEPT !.version = 2]
    /\ tab' = [t \in Tabs |-> [tab[t] EXCEPT !.up = FALSE]]
    /\ frames' = {}
    /\ behind' = FALSE
    /\ UNCHANGED <<projecting, faults>>

-----------------------------------------------------------------------------
Join(t) == SeedPost(t) \/ SeedRefused(t) \/ Subscribe(t) \/ Reject(t) \/ CheckOutdated(t)
Deliver(f) ==
    ReceiveEdit(f) \/ HearDiff(f) \/ HearAck(f)
SaveStep(t) == WhenAcknowledged(t) \/ Flush(t) \/ FlushNothing(t) \/ Flushed(t)

Next ==
    \/ \E t \in Tabs :
        \/ Load(t) \/ SeedLost(t) \/ Join(t) \/ Edit(t) \/ Drop(t) \/ Resync(t)
        \/ Save(t) \/ SaveStep(t) \/ GiveUp(t) \/ Leave(t)
    \/ \E f \in frames : Deliver(f) \/ HearRelay(f) \/ RecordFails(f)
    \/ \E j \in Jobs : JobReads(j) \/ JobWrites(j)
    \/ Reset \/ Deploy

Spec == Init /\ [][Next]_vars

\* Fairness: the socket comes up again and delivers what is addressed to one
\* tab, the timers fire, the job runs every minute.  Broadcasts may all be
\* lost, as when the relay has died.
FairSpec ==
    /\ Spec
    /\ \A t \in Tabs : WF_vars(Join(t)) /\ WF_vars(Resync(t))
    /\ WF_vars(\E f \in frames : Deliver(f))
    /\ \A j \in Jobs : WF_vars(JobReads(j)) /\ WF_vars(JobWrites(j))
    /\ \A t \in Tabs : WF_vars(Flushed(t))

-----------------------------------------------------------------------------
\* "Two clients each seeding an empty document and then syncing would duplicate
\* every division's text" (ProjectDoc.seed): however the seeds race, a tab and
\* the server hold one, and the rows are never projected from a document that
\* has none.
SeededOnce ==
    /\ Cardinality(server.stored \cap Seeds) <= 1
    /\ \A t \in Tabs : tab[t].pc = "open" => Cardinality(tab[t].doc \cap Seeds) = 1
    /\ Original \in rows

\* A hard save that was answered means the rows have what this tab had typed
\* as it was asked for, whatever it has typed since ("Save" would otherwise
\* mean nothing: the project page, or a copy, is made from whatever the last
\* scheduled run left behind, ProjectDocsController#flush), unless an overtaken
\* projection has taken the rows back, and only until the next one that is not
\* overtaken.
SavedIsInRows ==
    \A t \in Tabs : tab[t].save = "saved" /\ ~behind => Asked(t) \subseteq rows

\* A tab that speaks another layout never writes into the document that
\* replaced its own (ProjectDoc::SCHEMA_VERSION).
LayoutsDoNotMix ==
    \A u \in server.stored : tab[u[1]].version = server.version

\* The types, and one layout at a time.
Consistent == TypeOK /\ LayoutsDoNotMix

\* Every edit reaches every tab that stays and the rows, though every broadcast
\* be lost ("Re-syncing turns a silently diverging session into a slow one",
\* checkRelay; "the backstop", ProjectDocProjectionJob).
Agreed(t, u) ==
    \/ tab[u[1]].pc \in {"refused", "outdated", "left"}
    \/ /\ u \in rows
       /\ tab[t].pc = "open" => u \in Visible(tab[t].doc)
Converges == <>[](\A t \in Tabs : \A u \in Edits : u \in tab[u[1]].doc => Agreed(t, u))

\* What a collaborative session promises, apart from how: among others that
\* "every keystroke is durable in the document from the moment the server
\* records it" (ProjectDocProjectionJob), in the document or in the rows.
Recorded == ContentOf(server.stored) \cup rows
Acked == UNION {Acknowledged(t) : t \in Tabs}
Promise == INSTANCE SharedDocument WITH recorded <- Recorded, acknowledged <- Acked, published <- rows
ImplementsSharedDocument == Promise!Spec
=============================================================================
