-------------------------- MODULE LivePreview_proofs --------------------------
(***************************************************************************)
(* The preview pane: its types; that it says it rebuilds exactly while its *)
(* newest render is owed, and sets timers for the open division only; and  *)
(* that a page at rest is the one the editor shows.  For any divisions,    *)
(* texts and pages, and any number of changes.                             *)
(*                                                                         *)
(* The first three parts assume nothing of the environment; the last one   *)
(* assumes Calm, without which the code does not keep its promise.         *)
(***************************************************************************)
EXTENDS LivePreview, TLAPS

USE PagesAssumption, TextsAssumption, DivisionsAssumption, ChangesAssumption, NoneAssumption

-----------------------------------------------------------------------------
(***************************************************************************)
(* What the renderer owes: sequences of requests, of which one is the      *)
(* newest.                                                                 *)
(***************************************************************************)
\* The newest render is owed once.
Once ==
    /\ \A i, j \in DOMAIN renderer.pending :
        renderer.pending[i].token = newest /\ renderer.pending[j].token = newest => i = j
    /\ \A i, j \in DOMAIN renderer.inline :
        renderer.inline[i].token = newest /\ renderer.inline[j].token = newest => i = j
    /\ \A i \in DOMAIN renderer.pending : \A j \in DOMAIN renderer.inline :
        ~(renderer.pending[i].token = newest /\ renderer.inline[j].token = newest)

CountInv == RendersAreCounted /\ Once /\ \A r \in InFlight : r.token <= newest

Renderer == [worker: {"live", "gone"}, pending: Seq(Request), inline: Seq(Request)]

\* Asking a renderer of a type for one more.
LEMMA AskTypes ==
    ASSUME renderer \in Renderer, NEW q \in Request, Ask(q)
    PROVE  renderer' \in Renderer
<1>1. \A z \in Seq(Request) : Append(z, q) \in Seq(Request)
  OBVIOUS
<1> QED BY <1>1 DEF Ask, Renderer

LEMMA AskAdds ==
    ASSUME renderer \in Renderer, newest \in Nat, CountInv, NEW q \in Request, q.token = newest + 1,
           newest' = newest + 1, Ask(q)
    PROVE  /\ InFlight' = InFlight \cup {q}
           /\ \A r \in InFlight : r.token <= newest /\ r.token # newest'
           /\ Once' /\ \A r \in InFlight' : r.token <= newest'
           /\ renderer'.worker = "gone" => renderer'.pending = <<>>
<1> DEFINE p == renderer.pending
           s == renderer.inline
<1>1. p \in Seq(Request) /\ s \in Seq(Request)
  BY DEF Renderer
<1>2. \A r \in InFlight : r.token <= newest /\ r.token # newest + 1 /\ r.token <= newest + 1
  <2>1. \A r \in InFlight : r \in Request /\ r.token <= newest
    BY <1>1 DEF CountInv, InFlight
  <2> QED BY <2>1 DEF Request
<1>3. /\ \A i \in DOMAIN p : p[i].token # newest'
      /\ \A i \in DOMAIN s : s[i].token # newest'
  BY <1>2 DEF InFlight
<1>4. ASSUME NEW z \in Seq(Request), \A i \in DOMAIN z : z[i].token # newest'
      PROVE  /\ {Append(z, q)[i] : i \in DOMAIN Append(z, q)} = {z[i] : i \in DOMAIN z} \cup {q}
             /\ \A i, j \in DOMAIN Append(z, q) :
                    Append(z, q)[i].token = newest' /\ Append(z, q)[j].token = newest' => i = j
  <2> DEFINE a == Append(z, q)
             m == Len(z)
  <2>1. /\ DOMAIN z = 1..m /\ DOMAIN a = 1..(m + 1) /\ m \in Nat
        /\ \A i \in 1..m : a[i] = z[i]
        /\ a[m + 1] = q
    OBVIOUS
  <2> HIDE DEF a, m
  <2>2. {a[i] : i \in DOMAIN a} = {z[i] : i \in DOMAIN z} \cup {q}
    BY <2>1
  <2>3. \A i \in DOMAIN a : i # m + 1 => i \in DOMAIN z /\ a[i] = z[i]
    BY <2>1
  <2>4. \A i, j \in DOMAIN a : a[i].token = newest' /\ a[j].token = newest' => i = j
    BY <1>4, <2>3
  <2> QED BY <2>2, <2>4 DEF a
<1>5. /\ InFlight = {p[i] : i \in DOMAIN p} \cup {s[i] : i \in DOMAIN s}
      /\ renderer.worker = "gone" => p = <<>>
  BY DEF InFlight, CountInv, RendersAreCounted
<1>6. CASE renderer.worker = "gone"
  <2> DEFINE a == Append(s, q)
  <2>1. renderer' = [renderer EXCEPT !.inline = a]
    BY <1>6 DEF Ask
  <2>2. renderer'.inline = a /\ renderer'.pending = p /\ renderer'.worker = "gone" /\ p = <<>>
    BY <1>5, <1>6, <2>1 DEF Renderer
  <2>3. /\ {a[i] : i \in DOMAIN a} = {s[i] : i \in DOMAIN s} \cup {q}
        /\ \A i, j \in DOMAIN a : a[i].token = newest' /\ a[j].token = newest' => i = j
    BY <1>1, <1>3, <1>4
  <2>4. DOMAIN p = {}
    BY <2>2
  <2> HIDE DEF a, p, s
  <2>5. InFlight' = InFlight \cup {q}
    <3>1. InFlight' = {p[i] : i \in DOMAIN p} \cup {a[i] : i \in DOMAIN a}
      BY <2>2 DEF InFlight
    <3> QED BY <1>5, <2>3, <3>1
  <2>6. Once'
    <3>1. renderer.pending' = p /\ renderer.inline' = a
      BY <2>2
    <3>2. \A i, j \in DOMAIN p : p[i].token = newest' /\ p[j].token = newest' => i = j
      BY <2>4
    <3>3. \A i \in DOMAIN p : \A j \in DOMAIN a : ~(p[i].token = newest' /\ a[j].token = newest')
      BY <2>4
    <3> QED BY <2>3, <3>1, <3>2, <3>3 DEF Once
  <2> QED
    <3>1. \A r \in InFlight' : r.token <= newest'
      BY <1>2, <2>5
    <3> QED BY <1>2, <2>2, <2>5, <2>6, <3>1
<1>7. CASE renderer.worker # "gone"
  <2> DEFINE a == Append(p, q)
  <2>1. renderer' = [renderer EXCEPT !.pending = a]
    BY <1>7 DEF Ask
  <2>2. renderer'.pending = a /\ renderer'.inline = s /\ renderer'.worker # "gone"
    BY <1>7, <2>1 DEF Renderer
  <2>3. /\ {a[i] : i \in DOMAIN a} = {p[i] : i \in DOMAIN p} \cup {q}
        /\ \A i, j \in DOMAIN a : a[i].token = newest' /\ a[j].token = newest' => i = j
    BY <1>1, <1>3, <1>4
  <2>4. \A i \in DOMAIN s : s[i].token # newest'
    BY <1>3
  <2> HIDE DEF a, p, s
  <2>5. InFlight' = InFlight \cup {q}
    <3>1. InFlight' = {a[i] : i \in DOMAIN a} \cup {s[i] : i \in DOMAIN s}
      BY <2>2 DEF InFlight
    <3> QED BY <1>5, <2>3, <3>1
  <2>6. Once'
    <3>1. renderer.pending' = a /\ renderer.inline' = s
      BY <2>2
    <3>2. \A i, j \in DOMAIN s : s[i].token = newest' /\ s[j].token = newest' => i = j
      BY <2>4
    <3>3. \A i \in DOMAIN a : \A j \in DOMAIN s : ~(a[i].token = newest' /\ s[j].token = newest')
      BY <2>4
    <3> QED BY <2>3, <3>1, <3>2, <3>3 DEF Once
  <2> QED
    <3>1. \A r \in InFlight' : r.token <= newest'
      BY <1>2, <2>5
    <3> QED BY <1>2, <2>2, <2>5, <2>6, <3>1
<1> QED BY <1>6, <1>7

\* The oldest render that the worker, or this thread, owes is delivered.
WorkerDelivers(r) ==
    /\ renderer.pending # <<>> /\ r = Head(renderer.pending)
    /\ renderer' = [renderer EXCEPT !.pending = Tail(@)]
ThreadDelivers(r) ==
    /\ renderer.inline # <<>> /\ r = Head(renderer.inline)
    /\ renderer' = [renderer EXCEPT !.inline = Tail(@)]

LEMMA DeliveryTakes ==
    ASSUME renderer \in Renderer, CountInv, NEW r, WorkerDelivers(r) \/ ThreadDelivers(r),
           UNCHANGED newest
    PROVE  /\ renderer' \in Renderer
           /\ r \in InFlight /\ InFlight' \subseteq InFlight /\ InFlight \subseteq InFlight' \cup {r}
           /\ r.token = newest => \A q \in InFlight' : q.token # newest
           /\ Once' /\ (renderer'.worker = "gone" => renderer'.pending = <<>>)
<1> DEFINE p == renderer.pending
           s == renderer.inline
<1>1. p \in Seq(Request) /\ s \in Seq(Request)
  BY DEF Renderer
<1>2. ASSUME NEW z \in Seq(Request), z # <<>>
      PROVE  /\ Tail(z) \in Seq(Request) /\ Head(z) = z[1] /\ 1 \in DOMAIN z
             /\ DOMAIN z = 1..Len(z) /\ Len(z) \in Nat
             /\ \A i \in DOMAIN Tail(z) : i + 1 \in DOMAIN z /\ Tail(z)[i] = z[i + 1] /\ i + 1 # 1
             /\ \A i \in DOMAIN z : i # 1 => i - 1 \in DOMAIN Tail(z) /\ z[i] = Tail(z)[i - 1]
  BY <1>2
<1>3. ASSUME NEW z \in Seq(Request), z # <<>>
      PROVE  LET all == {z[i] : i \in DOMAIN z}
                 rest == {Tail(z)[i] : i \in DOMAIN Tail(z)}
             IN  Head(z) \in all /\ rest \subseteq all /\ all \subseteq rest \cup {Head(z)}
  BY <1>2, <1>3
<1>4. ASSUME NEW z \in Seq(Request), z # <<>>,
             \A i, j \in DOMAIN z : z[i].token = newest /\ z[j].token = newest => i = j
      PROVE  LET y == Tail(z) IN
             /\ \A i, j \in DOMAIN y : y[i].token = newest /\ y[j].token = newest => i = j
             /\ Head(z).token = newest => \A i \in DOMAIN y : y[i].token # newest
  <2> DEFINE y == Tail(z)
  <2>1. \A i \in DOMAIN y : i \in Nat /\ i + 1 \in DOMAIN z /\ y[i] = z[i + 1] /\ i + 1 # 1
    <3>1. DOMAIN y = 1..Len(y) /\ Len(y) \in Nat
      BY <1>2, <1>4
    <3> QED BY <1>2, <1>4, <3>1
  <2>2. Head(z) = z[1] /\ 1 \in DOMAIN z
    BY <1>2, <1>4
  <2> HIDE DEF y
  <2>3. \A i, j \in DOMAIN y : y[i].token = newest /\ y[j].token = newest => i = j
    BY <1>4, <2>1
  <2>4. Head(z).token = newest => \A i \in DOMAIN y : y[i].token # newest
    BY <1>4, <2>1, <2>2
  <2> QED BY <2>3, <2>4 DEF y
<1>5. /\ \A i, j \in DOMAIN p : p[i].token = newest /\ p[j].token = newest => i = j
      /\ \A i, j \in DOMAIN s : s[i].token = newest /\ s[j].token = newest => i = j
      /\ \A i \in DOMAIN p : \A j \in DOMAIN s : ~(p[i].token = newest /\ s[j].token = newest)
      /\ renderer.worker = "gone" => p = <<>>
  BY DEF CountInv, Once, RendersAreCounted
<1>6. CASE WorkerDelivers(r)
  <2>1. /\ p # <<>> /\ r = Head(p) /\ renderer' \in Renderer /\ renderer'.pending = Tail(p)
        /\ renderer'.inline = s /\ renderer'.worker = renderer.worker /\ renderer.worker # "gone"
    <3>1. p # <<>> /\ r = Head(p) /\ renderer' = [renderer EXCEPT !.pending = Tail(p)]
      BY <1>6 DEF WorkerDelivers
    <3>2. Tail(p) \in Seq(Request)
      BY <1>1, <1>2, <3>1
    <3> QED BY <1>5, <3>1, <3>2 DEF Renderer
  <2> HIDE DEF p, s
  <2>2. InFlight = {p[i] : i \in DOMAIN p} \cup {s[i] : i \in DOMAIN s}
    BY DEF InFlight, p, s
  <2>3. InFlight' = {Tail(p)[i] : i \in DOMAIN Tail(p)} \cup {s[i] : i \in DOMAIN s}
    BY <2>1 DEF InFlight
  <2>4. r \in InFlight /\ InFlight' \subseteq InFlight /\ InFlight \subseteq InFlight' \cup {r}
    BY <1>1, <1>3, <2>1, <2>2, <2>3
  <2>5. r.token = newest => \A q \in InFlight' : q.token # newest
    <3>1. 1 \in DOMAIN p /\ Head(p) = p[1]
      BY <1>1, <1>2, <2>1
    <3> QED BY <1>1, <1>4, <1>5, <2>1, <2>3, <3>1
  <2>6. Once'
    <3>1. \A i \in DOMAIN Tail(p) : i + 1 \in DOMAIN p /\ Tail(p)[i] = p[i + 1]
      BY <1>1, <1>2, <2>1
    <3>2. \A i \in DOMAIN Tail(p) : \A j \in DOMAIN s :
            ~(Tail(p)[i].token = newest /\ s[j].token = newest)
      BY <1>5, <3>1
    <3>3. \A i, j \in DOMAIN Tail(p) : Tail(p)[i].token = newest /\ Tail(p)[j].token = newest => i = j
      BY <1>1, <1>4, <1>5, <2>1
    <3> QED BY <1>5, <2>1, <3>2, <3>3 DEF Once
  <2> QED BY <2>1, <2>4, <2>5, <2>6
<1>7. CASE ThreadDelivers(r)
  <2>1. /\ s # <<>> /\ r = Head(s) /\ renderer' \in Renderer /\ renderer'.inline = Tail(s)
        /\ renderer'.pending = p /\ renderer'.worker = renderer.worker
    <3>1. s # <<>> /\ r = Head(s) /\ renderer' = [renderer EXCEPT !.inline = Tail(s)]
      BY <1>7 DEF ThreadDelivers
    <3>2. Tail(s) \in Seq(Request)
      BY <1>1, <1>2, <3>1
    <3> QED BY <3>1, <3>2 DEF Renderer
  <2> HIDE DEF p, s
  <2>2. InFlight = {p[i] : i \in DOMAIN p} \cup {s[i] : i \in DOMAIN s}
    BY DEF InFlight, p, s
  <2>3. InFlight' = {p[i] : i \in DOMAIN p} \cup {Tail(s)[i] : i \in DOMAIN Tail(s)}
    BY <2>1 DEF InFlight
  <2>4. r \in InFlight /\ InFlight' \subseteq InFlight /\ InFlight \subseteq InFlight' \cup {r}
    BY <1>1, <1>3, <2>1, <2>2, <2>3
  <2>5. r.token = newest => \A q \in InFlight' : q.token # newest
    <3>1. 1 \in DOMAIN s /\ Head(s) = s[1]
      BY <1>1, <1>2, <2>1
    <3> QED BY <1>1, <1>4, <1>5, <2>1, <2>3, <3>1
  <2>6. Once'
    <3>1. \A i \in DOMAIN Tail(s) : i + 1 \in DOMAIN s /\ Tail(s)[i] = s[i + 1]
      BY <1>1, <1>2, <2>1
    <3>2. \A i \in DOMAIN p : \A j \in DOMAIN Tail(s) :
            ~(p[i].token = newest /\ Tail(s)[j].token = newest)
      BY <1>5, <3>1
    <3>3. \A i, j \in DOMAIN Tail(s) : Tail(s)[i].token = newest /\ Tail(s)[j].token = newest => i = j
      BY <1>1, <1>4, <1>5, <2>1
    <3> QED BY <1>5, <2>1, <3>2, <3>3 DEF Once
  <2> QED BY <1>5, <2>1, <2>4, <2>5, <2>6
<1> QED BY <1>6, <1>7

\* This thread takes over what the worker owed.
LEMMA TakingOver ==
    ASSUME renderer \in Renderer, CountInv, AbandonWorker, UNCHANGED newest
    PROVE  renderer' \in Renderer /\ InFlight' = InFlight /\ Once' /\ renderer'.pending = <<>>
<1> DEFINE p == renderer.pending
           s == renderer.inline
<1>1. p \in Seq(Request) /\ s \in Seq(Request)
  BY DEF Renderer
<1>2. renderer' = [worker |-> "gone", pending |-> <<>>, inline |-> s \o p]
  BY DEF AbandonWorker
<1>3. /\ \A i, j \in DOMAIN p : p[i].token = newest /\ p[j].token = newest => i = j
      /\ \A i, j \in DOMAIN s : s[i].token = newest /\ s[j].token = newest => i = j
      /\ \A i \in DOMAIN p : \A j \in DOMAIN s : ~(p[i].token = newest /\ s[j].token = newest)
  BY DEF CountInv, Once
<1>4. InFlight = {p[i] : i \in DOMAIN p} \cup {s[i] : i \in DOMAIN s}
  BY DEF InFlight
<1> HIDE DEF p, s
<1> DEFINE z == s \o p
           m == Len(s)
           n == Len(p)
<1>5. /\ z \in Seq(Request) /\ DOMAIN z = 1..(m + n) /\ DOMAIN s = 1..m /\ DOMAIN p = 1..n
      /\ m \in Nat /\ n \in Nat
      /\ \A i \in 1..m : z[i] = s[i]
      /\ \A i \in 1..n : z[m + i] = p[i]
      /\ \A i \in (m + 1)..(m + n) : z[i] = p[i - m]
  BY <1>1
<1>6. renderer'.worker = "gone" /\ renderer'.pending = <<>> /\ renderer'.inline = z
  BY <1>2
<1> HIDE DEF z, m, n
<1>7. \A i \in DOMAIN z : (i \in DOMAIN s /\ z[i] = s[i]) \/ (i - m \in DOMAIN p /\ z[i] = p[i - m])
  BY <1>5
<1>8. \A i \in DOMAIN s : i \in DOMAIN z /\ z[i] = s[i]
  BY <1>5
<1>9. \A i \in DOMAIN p : m + i \in DOMAIN z /\ z[m + i] = p[i]
  BY <1>5
<1>10. {z[i] : i \in DOMAIN z} = InFlight
  BY <1>4, <1>7, <1>8, <1>9
<1>11. InFlight' = InFlight
  <2>1. DOMAIN <<>> = {}
    OBVIOUS
  <2>2. InFlight' = {<<>>[i] : i \in DOMAIN <<>>} \cup {z[i] : i \in DOMAIN z}
    BY <1>6 DEF InFlight
  <2> QED BY <1>10, <2>1, <2>2
<1>12. \A i, j \in DOMAIN z : z[i].token = newest /\ z[j].token = newest => i = j
  <2> SUFFICES ASSUME NEW i \in DOMAIN z, NEW j \in DOMAIN z, z[i].token = newest, z[j].token = newest
               PROVE  i = j
    OBVIOUS
  <2>1. i \in Nat /\ j \in Nat
    BY <1>5
  <2> QED BY <1>3, <1>5, <1>7, <2>1
<1>13. Once'
  BY <1>6, <1>12 DEF Once
<1>14. renderer' \in Renderer
  BY <1>2, <1>5 DEF Renderer, z
<1> QED BY <1>6, <1>11, <1>13, <1>14

-----------------------------------------------------------------------------
(***************************************************************************)
(* Types.                                                                  *)
(***************************************************************************)
Props == [division: Divisions, texts: [Divisions -> Texts], scope: Scopes, report: Reports \cup {None}]
Timers == [content: Closures \cup {None}, cursor: Closures \cup {None}]
Statuses == [rebuilding: BOOLEAN, error: BOOLEAN]
Papers == [shown: BOOLEAN, liked: BOOLEAN]
Frames == [html: Html \cup {None}, key: Place \cup {None}, loaded: BOOLEAN]
Scrolls == [saved: Place \cup {None}, landing: Place \cup {None}]

LEMMA TypesOf ==
    TypeOK <=> /\ props \in Props /\ timer \in Timers /\ asked \in Contents
               /\ newest \in Nat \ {0} /\ renderer \in Renderer /\ page \in Rendered \cup {None}
               /\ onPaper \in Papers /\ status \in Statuses /\ frame \in Frames
               /\ scroll \in Scrolls /\ changes \in 0..MaxChanges
BY DEF TypeOK, Props, Timers, Renderer, Papers, Statuses, Frames, Scrolls

\* What a render's closure, and the cursor it reads, are.
LEMMA ClosureTypes ==
    ASSUME NEW p \in Props
    PROVE  /\ Closure(p) \in Closures /\ Cursor(p) \in Pages \cup {None} /\ Content(p) \in Contents
           /\ Narrowed(Closure(p), Cursor(p)) \in Pages \cup {Whole}
BY DEF Props, Closure, Closures, Cursor, Content, Contents, Narrowed, Reports

LEMMA NarrowedTypes ==
    ASSUME NEW closure \in Closures, NEW cursor \in Pages \cup {None}
    PROVE  Narrowed(closure, cursor) \in Pages \cup {Whole}
BY DEF Narrowed

LEMMA PreviewTypes ==
    ASSUME newest \in Nat, renderer \in Renderer, status \in Statuses, scroll \in Scrolls, frame \in Frames,
           NEW closure \in Closures, NEW cursor \in Pages \cup {None}, Preview(closure, cursor)
    PROVE  /\ asked' \in Contents /\ newest' \in Nat \ {0} /\ renderer' \in Renderer
           /\ status' \in Statuses /\ scroll' \in Scrolls
<1>1. asked' \in Contents
  BY DEF Preview, Contents, Closures
<1>2. newest' \in Nat \ {0}
  BY DEF Preview
<1>3. renderer' \in Renderer
  <2> DEFINE q == [token |-> newest + 1, division |-> closure.division, text |-> closure.text,
                   scope |-> closure.scope, page |-> Narrowed(closure, cursor)]
  <2>1. q \in Request
    BY NarrowedTypes DEF Request, Closures
  <2>2. Ask(q)
    BY DEF Preview
  <2> QED BY <2>1, <2>2, AskTypes
<1>4. status' \in Statuses
  BY DEF Preview, Statuses
<1>5. scroll' \in Scrolls
  <2>1. frame.html # None => PlaceOf(frame.html.content) \in Place
    BY DEF Frames, Html, Rendered, PlaceOf, Place
  <2>2. scroll' = [scroll EXCEPT !.saved = IF frame.html = None THEN None ELSE PlaceOf(frame.html.content)]
    BY DEF Preview
  <2> QED BY <2>1, <2>2 DEF Scrolls
<1> QED BY <1>1, <1>2, <1>3, <1>4, <1>5

LEMMA DeliverTypes ==
    ASSUME frame \in Frames, NEW content \in Rendered, NEW paper \in BOOLEAN, NEW kept \in Scrolls,
           Deliver(content, paper, kept)
    PROVE  frame' \in Frames /\ scroll' \in Scrolls /\ frame'.html = [content |-> content, paper |-> paper]
<1> DEFINE html == [content |-> content, paper |-> paper]
           key == IF paper THEN None ELSE PlaceOf(content)
<1>1. html \in Html /\ key \in Place \cup {None}
  BY DEF Html, Place, PlaceOf, Rendered
<1>2. \/ frame.html = html /\ scroll' = kept /\ frame' = frame
      \/ frame' = [html |-> html, key |-> key, loaded |-> TRUE] /\ scroll' = [kept EXCEPT !.saved = None]
      \/ frame' = [html |-> html, key |-> key, loaded |-> FALSE] /\ scroll' = kept
  BY DEF Deliver
<1> HIDE DEF html, key
<1>3. frame' \in Frames /\ frame'.html = html
  <2>1. CASE frame' = frame /\ frame.html = html
    BY <2>1
  <2>2. CASE \E b \in BOOLEAN : frame' = [html |-> html, key |-> key, loaded |-> b]
    BY <1>1, <2>2 DEF Frames
  <2> QED BY <1>2, <2>1, <2>2
<1>4. scroll' \in Scrolls
  BY <1>2 DEF Scrolls
<1> QED BY <1>3, <1>4 DEF html

LEMMA SettleTypes ==
    ASSUME props \in Props, page \in Rendered \cup {None}, onPaper \in Papers, status \in Statuses,
           frame \in Frames, scroll \in Scrolls, NEW r \in Request, Settle(r)
    PROVE  /\ page' \in Rendered \cup {None} /\ onPaper' \in Papers /\ status' \in Statuses
           /\ frame' \in Frames /\ scroll' \in Scrolls
<1>1. CASE UNCHANGED <<page, onPaper, status, frame, scroll>>
  BY <1>1
<1>2. CASE Reject
  BY <1>2 DEF Reject, Statuses
<1>3. CASE Commit(r)
  <2> DEFINE content == [division |-> r.division, text |-> r.text, page |-> r.page]
             paper == IF page # None /\ page.division = r.division
                      THEN onPaper.shown /\ r.division \in Worksheets
                      ELSE onPaper.liked /\ r.division \in Worksheets
             landing == IF r.scope = "cursor" /\ Cursor(props) # None
                        THEN [division |-> props.division, page |-> Cursor(props)] ELSE None
             kept == IF Turned(r) THEN [saved |-> None, landing |-> landing] ELSE scroll
  <2>1. content \in Rendered
    BY DEF Rendered, Request
  <2>2. paper \in BOOLEAN
    BY DEF Papers
  <2>3. landing \in Place \cup {None}
    BY ClosureTypes DEF Place, Props
  <2>4. kept \in Scrolls
    BY <2>3 DEF Scrolls
  <2>5. /\ page' = content /\ onPaper' = [onPaper EXCEPT !.shown = paper]
        /\ status' = [rebuilding |-> FALSE, error |-> FALSE]
        /\ Deliver(content, paper, kept)
    BY <1>3 DEF Commit
  <2> HIDE DEF content, paper, landing, kept
  <2>6. frame' \in Frames /\ scroll' \in Scrolls
    BY <2>1, <2>2, <2>4, <2>5, DeliverTypes
  <2> QED BY <2>1, <2>2, <2>5, <2>6 DEF Papers, Statuses
<1> QED BY <1>1, <1>2, <1>3 DEF Settle

LEMMA EffectTypes ==
    ASSUME timer \in Timers, NEW p \in Props, NEW requested
    PROVE  CursorEffect(p) \subseteq Closures \cup {None} /\ ContentEffect(p, requested) \in Closures \cup {None}
<1>1. CursorEffect(p) \subseteq Closures \cup {None}
  BY ClosureTypes DEF Timers, CursorEffect
<1>2. ContentEffect(p, requested) \in Closures \cup {None}
  BY ClosureTypes DEF Timers, ContentEffect
<1> QED BY <1>1, <1>2

LEMMA RerenderTypes ==
    ASSUME TypeOK, NEW p \in Props, Rerender(p)
    PROVE  TypeOK'
<1> USE TypesOf
<1>1. /\ changes < MaxChanges /\ changes' = changes + 1 /\ props' = p
      /\ UNCHANGED <<page, onPaper, frame>>
  BY DEF Rerender
<1>2. changes' \in 0..MaxChanges /\ props' \in Props
  BY <1>1
<1>3. /\ asked' \in Contents /\ newest' \in Nat \ {0} /\ renderer' \in Renderer
      /\ status' \in Statuses /\ scroll' \in Scrolls
  <2>1. CASE p.division # props.division \/ p.scope # props.scope
    BY <2>1, PreviewTypes, ClosureTypes DEF Rerender
  <2>2. CASE ~(p.division # props.division \/ p.scope # props.scope)
    BY <2>2 DEF Rerender
  <2> QED BY <2>1, <2>2
<1>4. timer' \in Timers
  <2>1. PICK followUp \in CursorEffect(p) :
            timer' = [content |-> ContentEffect(p, asked'), cursor |-> followUp]
    BY DEF Rerender
  <2> QED BY <2>1, EffectTypes DEF Timers
<1>5. TypeOK'
  BY <1>1, <1>2, <1>3, <1>4 DEF TypeOK, Props, Timers, Renderer, Papers, Statuses, Frames, Scrolls
<1> QED BY <1>5

\* The props of a step of the author's, or of a peer's, are props.
LEMMA MovedTypes ==
    ASSUME props \in Props, NEW c \in Pages
    PROVE  /\ [props EXCEPT !.report = Report(c)] \in Props
           /\ \A t \in Texts : [props EXCEPT !.texts[props.division] = t, !.report = Report(c)] \in Props
BY DEF Props, Report, Reports

LEMMA ChangedTypes ==
    ASSUME props \in Props
    PROVE  /\ \A t \in Texts : [props EXCEPT !.texts[props.division] = t] \in Props
           /\ \A d \in Divisions : [props EXCEPT !.division = d] \in Props
           /\ \A s \in Scopes : [props EXCEPT !.scope = s] \in Props
BY DEF Props

LEMMA ActionsKeepTypes ==
    ASSUME TypeOK, Next
    PROVE  TypeOK'
<1> USE TypesOf
<1>1. CASE Move
  BY <1>1, RerenderTypes, MovedTypes DEF Move
<1>2. CASE Type
  BY <1>2, RerenderTypes, MovedTypes, ChangedTypes DEF Type
<1>3. CASE Open
  BY <1>3, RerenderTypes, ChangedTypes DEF Open
<1>4. CASE ChangeScope
  BY <1>4, RerenderTypes, ChangedTypes DEF ChangeScope
<1>5. ASSUME NEW closure \in Closures, Preview(closure, Cursor(props)),
             UNCHANGED <<props, page, onPaper, frame>>, timer' \in Timers, changes' \in 0..MaxChanges
      PROVE  TypeOK'
  <2>1. /\ asked' \in Contents /\ newest' \in Nat \ {0} /\ renderer' \in Renderer
        /\ status' \in Statuses /\ scroll' \in Scrolls
    BY <1>5, PreviewTypes, ClosureTypes
  <2> QED BY <1>5, <2>1 DEF TypeOK, Props, Timers, Renderer, Papers, Statuses, Frames, Scrolls
<1>6. CASE Rebuild
  BY <1>5, <1>6, ClosureTypes DEF Rebuild
<1>7. CASE CursorTimerFires
  <2>1. timer.cursor \in Closures /\ timer' \in Timers
    BY <1>7 DEF CursorTimerFires, Timers
  <2> QED BY <1>5, <1>7, <2>1 DEF CursorTimerFires
<1>8. CASE ContentTimerFires
  <2>1. timer.content \in Closures /\ timer' \in Timers
    BY <1>8 DEF ContentTimerFires, Timers
  <2> QED BY <1>5, <1>8, <2>1 DEF ContentTimerFires
<1>9. ASSUME NEW r \in Request, Settle(r), renderer' \in Renderer, UNCHANGED <<props, timer, asked, newest, changes>>
      PROVE  TypeOK'
  <2>1. /\ page' \in Rendered \cup {None} /\ onPaper' \in Papers /\ status' \in Statuses
        /\ frame' \in Frames /\ scroll' \in Scrolls
    BY <1>9, SettleTypes
  <2> QED BY <1>9, <2>1 DEF TypeOK, Props, Timers, Renderer, Papers, Statuses, Frames, Scrolls
<1>10. ASSUME NEW z \in Seq(Request), z # <<>>
       PROVE  Head(z) \in Request /\ Tail(z) \in Seq(Request)
  BY <1>10
<1>11. CASE WorkerAnswers
  <2>1. Head(renderer.pending) \in Request /\ renderer' \in Renderer
    BY <1>10, <1>11 DEF WorkerAnswers, Renderer
  <2> QED BY <1>9, <1>11, <2>1 DEF WorkerAnswers
<1>12. CASE InlineAnswers
  <2>1. Head(renderer.inline) \in Request /\ renderer' \in Renderer
    BY <1>10, <1>12 DEF InlineAnswers, Renderer
  <2> QED BY <1>9, <1>12, <2>1 DEF InlineAnswers
<1>13. CASE WorkerFails
  <2>1. renderer' \in Renderer
    BY <1>13 DEF WorkerFails, AbandonWorker, Renderer
  <2> QED BY <1>13, <2>1 DEF WorkerFails, TypeOK, Props, Timers, Renderer, Papers, Statuses, Frames, Scrolls
<1>14. CASE Loaded
  <2>1. frame' \in Frames /\ scroll' \in Scrolls
    BY <1>14 DEF Loaded, Frames, Scrolls
  <2> QED BY <1>14, <2>1 DEF Loaded, TypeOK, Props, Timers, Renderer, Papers, Statuses, Frames, Scrolls
<1>15. CASE ChooseLayout
  <2>1. changes' \in 0..MaxChanges
    BY <1>15 DEF ChooseLayout
  <2>2. (~onPaper.shown) \in BOOLEAN /\ onPaper' \in Papers
    BY <1>15 DEF ChooseLayout, Papers
  <2>3. page \in Rendered /\ Deliver(page, ~onPaper.shown, scroll)
    BY <1>15 DEF ChooseLayout
  <2>4. frame' \in Frames /\ scroll' \in Scrolls
    BY <2>2, <2>3, DeliverTypes
  <2> QED BY <1>15, <2>1, <2>2, <2>4
        DEF ChooseLayout, TypeOK, Props, Timers, Renderer, Papers, Statuses, Frames, Scrolls
<1>16. CASE Reopen
  <2> DEFINE q == [token |-> newest + 1, division |-> props.division, text |-> props.texts[props.division],
                   scope |-> props.scope, page |-> Narrowed(Closure(props), Cursor(props))]
  <2>1. q \in Request /\ Ask(q)
    BY <1>16, ClosureTypes DEF Reopen, Props, Request
  <2>2. renderer' \in Renderer
    BY <2>1, AskTypes
  <2>3. asked' \in Contents /\ newest' \in Nat \ {0} /\ changes' \in 0..MaxChanges
    BY <1>16, ClosureTypes DEF Reopen
  <2>4. timer' \in Timers /\ page' = None /\ frame' \in Frames /\ scroll' \in Scrolls /\ status' \in Statuses
    BY <1>16 DEF Reopen, Timers, Frames, Scrolls, Statuses
  <2>5. onPaper' \in Papers /\ props' = props
    BY <1>16 DEF Reopen, Papers
  <2> QED BY <2>2, <2>3, <2>4, <2>5 DEF TypeOK, Props, Timers, Renderer, Papers, Statuses, Frames, Scrolls
<1> QED BY <1>1, <1>2, <1>3, <1>4, <1>6, <1>7, <1>8, <1>11, <1>12, <1>13, <1>14, <1>15, <1>16 DEF Next

LEMMA TypesFromTheStart == Init => TypeOK
<1> SUFFICES ASSUME Init PROVE TypeOK
  OBVIOUS
<1>1. PICK d \in Divisions, s \in Scopes, t \in Texts \ Broken :
        /\ props = [division |-> d, texts |-> [e \in Divisions |-> t], scope |-> s, report |-> None]
        /\ asked = [division |-> d, text |-> t]
        /\ LET first == <<[token |-> 1, division |-> d, text |-> t, scope |-> s,
                           page |-> Narrowed(Closure(props), None)]>>
           IN  \/ renderer = [worker |-> "live", pending |-> first, inline |-> <<>>]
               \/ renderer = [worker |-> "gone", pending |-> <<>>, inline |-> first]
  BY DEF Init
<1>2. props \in Props /\ asked \in Contents
  BY <1>1 DEF Props, Contents
<1>3. renderer \in Renderer
  <2>1. Narrowed(Closure(props), None) \in Pages \cup {Whole}
    BY <1>2, ClosureTypes, NarrowedTypes
  <2> DEFINE q == [token |-> 1, division |-> d, text |-> t, scope |-> s, page |-> Narrowed(Closure(props), None)]
  <2>2. q \in Request
    BY <2>1 DEF Request
  <2>3. <<q>> \in Seq(Request) /\ <<>> \in Seq(Request)
    BY <2>2
  <2>4. \/ renderer = [worker |-> "live", pending |-> <<q>>, inline |-> <<>>]
        \/ renderer = [worker |-> "gone", pending |-> <<>>, inline |-> <<q>>]
    BY <1>1
  <2>5. ASSUME NEW y \in Seq(Request), NEW z \in Seq(Request), NEW w \in {"live", "gone"}
        PROVE  [worker |-> w, pending |-> y, inline |-> z] \in Renderer
    BY DEF Renderer
  <2> HIDE DEF q
  <2> QED BY <2>3, <2>4, <2>5
<1>4. timer \in Timers /\ newest \in Nat \ {0} /\ page \in Rendered \cup {None} /\ onPaper \in Papers
  <2>1. /\ timer = [content |-> None, cursor |-> None] /\ newest = 1 /\ page = None
        /\ onPaper \in [shown: {FALSE}, liked: BOOLEAN]
    BY DEF Init
  <2>2. onPaper \in Papers
    BY <2>1 DEF Papers
  <2> QED BY <2>1, <2>2 DEF Timers
<1>5. status \in Statuses /\ frame \in Frames /\ scroll \in Scrolls /\ changes \in 0..MaxChanges
  BY DEF Init, Statuses, Frames, Scrolls
<1> QED BY <1>2, <1>3, <1>4, <1>5, TypesOf

\* The pane's state is always of its types, whatever the environment does.
THEOREM TypeCorrect == Spec => []TypeOK
<1>1. TypeOK /\ [Next]_vars => TypeOK'
  <2>1. TypeOK /\ UNCHANGED vars => TypeOK'
    BY DEF vars, TypeOK, InFlight
  <2> QED BY <2>1, ActionsKeepTypes
<1> QED BY <1>1, TypesFromTheStart, PTL DEF Spec

-----------------------------------------------------------------------------
(***************************************************************************)
(* The pane's counting, and its timers: under any environment.             *)
(***************************************************************************)
\* A cursor's timer is only set when the cursor is known.
TimerInv == TimersAreOurs /\ (timer.cursor # None => Cursor(props) # None)

LEMMA AskCounts ==
    ASSUME renderer \in Renderer, newest \in Nat, CountInv, NEW q \in Request, q.token = newest + 1,
           newest' = newest + 1, Ask(q), status'.rebuilding = TRUE
    PROVE  CountInv'
<1>1. /\ InFlight' = InFlight \cup {q} /\ q.token = newest'
      /\ Once' /\ \A r \in InFlight' : r.token <= newest'
      /\ renderer'.worker = "gone" => renderer'.pending = <<>>
  BY AskAdds
<1>2. RendersAreCounted'
  BY <1>1 DEF RendersAreCounted
<1> QED BY <1>1, <1>2 DEF CountInv

\* The request that preview makes.
RequestOf(closure, cursor) ==
    [token |-> newest + 1, division |-> closure.division, text |-> closure.text,
     scope |-> closure.scope, page |-> Narrowed(closure, cursor)]

LEMMA PreviewAsks ==
    ASSUME newest \in Nat, NEW closure \in Closures, NEW cursor \in Pages \cup {None},
           status \in Statuses, Preview(closure, cursor)
    PROVE  /\ RequestOf(closure, cursor) \in Request /\ RequestOf(closure, cursor).token = newest + 1
           /\ newest' = newest + 1 /\ Ask(RequestOf(closure, cursor)) /\ status'.rebuilding = TRUE
<1>1. RequestOf(closure, cursor) \in Request /\ RequestOf(closure, cursor).token = newest + 1
  BY NarrowedTypes DEF RequestOf, Request, Closures
<1>2. newest' = newest + 1 /\ Ask(RequestOf(closure, cursor)) /\ status' = [status EXCEPT !.rebuilding = TRUE]
  BY DEF Preview, RequestOf
<1> QED BY <1>1, <1>2 DEF Statuses

LEMMA PreviewCounts ==
    ASSUME TypeOK, CountInv, NEW closure \in Closures, NEW cursor \in Pages \cup {None},
           Preview(closure, cursor)
    PROVE  CountInv'
BY AskCounts, PreviewAsks, TypesOf

LEMMA UncountedSteps ==
    ASSUME CountInv, UNCHANGED <<newest, renderer>>, status'.rebuilding = status.rebuilding
    PROVE  CountInv'
BY DEF CountInv, Once, RendersAreCounted, InFlight

LEMMA RerenderCounts ==
    ASSUME TypeOK, CountInv, NEW p \in Props, Rerender(p)
    PROVE  CountInv'
<1>1. CASE p.division # props.division \/ p.scope # props.scope
  BY <1>1, PreviewCounts, ClosureTypes DEF Rerender
<1>2. CASE ~(p.division # props.division \/ p.scope # props.scope)
  BY <1>2, UncountedSteps DEF Rerender
<1> QED BY <1>1, <1>2

\* What becomes of a render that was delivered.
LEMMA SettleSays ==
    ASSUME NEW r, Settle(r)
    PROVE  /\ r.token # newest => UNCHANGED <<page, onPaper, status, frame, scroll>>
           /\ r.token = newest => status'.rebuilding = FALSE
BY DEF Settle, Commit, Reject

LEMMA SettleCounts ==
    ASSUME TypeOK, CountInv, NEW r \in Request, WorkerDelivers(r) \/ ThreadDelivers(r), Settle(r),
           UNCHANGED newest
    PROVE  CountInv'
<1>1. /\ r \in InFlight /\ InFlight' \subseteq InFlight /\ InFlight \subseteq InFlight' \cup {r}
      /\ r.token = newest => \A q \in InFlight' : q.token # newest
      /\ Once' /\ (renderer'.worker = "gone" => renderer'.pending = <<>>)
  BY DeliveryTakes, TypesOf
<1>2. status.rebuilding <=> \E q \in InFlight : q.token = newest
  BY DEF CountInv, RendersAreCounted
<1>3. status'.rebuilding <=> \E q \in InFlight' : q.token = newest
  <2>1. CASE r.token = newest
    BY <1>1, <2>1, SettleSays
  <2>2. CASE r.token # newest
    BY <1>1, <1>2, <2>2, SettleSays
  <2> QED BY <2>1, <2>2
<1>4. RendersAreCounted'
  BY <1>1, <1>3 DEF RendersAreCounted
<1>5. \A q \in InFlight' : q.token <= newest'
  BY <1>1 DEF CountInv
<1> QED BY <1>1, <1>4, <1>5 DEF CountInv

\* A render of the worker's, and one of this thread's.
LEMMA Answers ==
    ASSUME TypeOK, WorkerAnswers \/ InlineAnswers
    PROVE  \E r \in Request : /\ WorkerDelivers(r) \/ ThreadDelivers(r)
                              /\ Settle(r) /\ UNCHANGED <<props, timer, asked, newest, changes>>
<1>1. ASSUME NEW z \in Seq(Request), z # <<>>
      PROVE  Head(z) \in Request
  BY <1>1
<1>2. renderer.pending \in Seq(Request) /\ renderer.inline \in Seq(Request)
  BY TypesOf DEF Renderer
<1>3. CASE WorkerAnswers
  BY <1>1, <1>2, <1>3 DEF WorkerAnswers, WorkerDelivers
<1>4. CASE InlineAnswers
  BY <1>1, <1>2, <1>4 DEF InlineAnswers, ThreadDelivers
<1> QED BY <1>3, <1>4

\* A render made for new props: they are of the division of the last ones, or
\* their cursor is where it was.
LEMMA RerenderTimes ==
    ASSUME TypeOK, TimerInv, NEW p \in Props, Rerender(p),
           p.division = props.division \/ p.report = props.report
    PROVE  TimerInv'
<1>1. props' = p
  BY DEF Rerender
<1>2. PICK followUp \in CursorEffect(p) :
        timer' = [content |-> ContentEffect(p, asked'), cursor |-> followUp]
  BY DEF Rerender
<1>3. timer'.content # None =>
        [division |-> timer'.content.division, text |-> timer'.content.text] = Content(p)
  <2>1. CASE Content(p) = Content(props)
    BY <1>2, <2>1 DEF ContentEffect, TimerInv, TimersAreOurs
  <2>2. CASE Content(p) # Content(props)
    BY <1>2, <2>2 DEF ContentEffect, Closure, Content
  <2> QED BY <2>1, <2>2
<1>4. timer'.cursor # None =>
        timer'.cursor.division = p.division /\ p.scope = "cursor" /\ Cursor(p) # None
  <2>1. CASE Cursor(p) = Cursor(props) /\ p.scope = props.scope
    <3>1. timer'.cursor = timer.cursor
      BY <1>2, <2>1 DEF CursorEffect
    <3>2. timer.cursor # None =>
            timer.cursor.division = props.division /\ props.scope = "cursor" /\ Cursor(props) # None
      BY DEF TimerInv, TimersAreOurs
    <3>3. Cursor(props) # None => p.division = props.division
      BY <2>1 DEF Cursor
    <3> QED BY <2>1, <3>1, <3>2, <3>3
  <2>2. CASE ~(Cursor(p) = Cursor(props) /\ p.scope = props.scope)
    <3>1. timer'.cursor # None => timer'.cursor = Closure(p) /\ p.scope # "editor" /\ Cursor(p) # None
      BY <1>2, <2>2 DEF CursorEffect
    <3> QED BY <3>1 DEF Closure, Props, Scopes
  <2> QED BY <2>1, <2>2
<1> QED BY <1>1, <1>3, <1>4 DEF TimerInv, TimersAreOurs

LEMMA TimersOnlyStop ==
    ASSUME TimerInv, UNCHANGED props, timer'.content \in {timer.content, None},
           timer'.cursor \in {timer.cursor, None}
    PROVE  TimerInv'
BY DEF TimerInv, TimersAreOurs

\* The renders of an author's, or a peer's, change of the props.
LEMMA Changes ==
    ASSUME TypeOK, Move \/ Type \/ Open \/ ChangeScope
    PROVE  \E p \in Props : Rerender(p) /\ (p.division = props.division \/ p.report = props.report)
<1>0. props \in Props
  BY TypesOf
<1>1. CASE Move
  <2>1. PICK c \in Pages : Rerender([props EXCEPT !.report = Report(c)])
    BY <1>1 DEF Move
  <2>2. [props EXCEPT !.report = Report(c)].division = props.division
    BY <1>0 DEF Props
  <2> QED BY <1>0, <2>1, <2>2, MovedTypes
<1>2. CASE Type
  <2>1. PICK t \in Texts : \/ Rerender([props EXCEPT !.texts[props.division] = t])
                           \/ \E c \in Pages : Rerender([props EXCEPT !.texts[props.division] = t, !.report = Report(c)])
    BY <1>2 DEF Type
  <2>2. CASE Rerender([props EXCEPT !.texts[props.division] = t])
    <3>1. [props EXCEPT !.texts[props.division] = t].division = props.division
      BY <1>0 DEF Props
    <3> QED BY <1>0, <2>2, <3>1, ChangedTypes
  <2>3. CASE \E c \in Pages : Rerender([props EXCEPT !.texts[props.division] = t, !.report = Report(c)])
    <3>1. PICK c \in Pages : Rerender([props EXCEPT !.texts[props.division] = t, !.report = Report(c)])
      BY <2>3
    <3>2. [props EXCEPT !.texts[props.division] = t, !.report = Report(c)].division = props.division
      BY <1>0 DEF Props
    <3> QED BY <1>0, <3>1, <3>2, MovedTypes
  <2> QED BY <2>1, <2>2, <2>3
<1>3. CASE Open
  <2>1. PICK d \in Divisions : Rerender([props EXCEPT !.division = d])
    BY <1>3 DEF Open
  <2>2. [props EXCEPT !.division = d].report = props.report
    BY <1>0 DEF Props
  <2> QED BY <1>0, <2>1, <2>2, ChangedTypes
<1>4. CASE ChangeScope
  <2>1. PICK s \in Scopes : Rerender([props EXCEPT !.scope = s])
    BY <1>4 DEF ChangeScope
  <2>2. [props EXCEPT !.scope = s].division = props.division
    BY <1>0 DEF Props
  <2> QED BY <1>0, <2>1, <2>2, ChangedTypes
<1> QED BY <1>1, <1>2, <1>3, <1>4

LEMMA ActionsCount ==
    ASSUME TypeOK, CountInv, TimerInv, Next
    PROVE  CountInv' /\ TimerInv'
<1>0. props \in Props /\ timer \in Timers /\ newest \in Nat /\ renderer \in Renderer /\ Cursor(props) \in Pages \cup {None}
  BY TypesOf, ClosureTypes
<1>1. CASE Move \/ Type \/ Open \/ ChangeScope
  BY <1>1, Changes, RerenderCounts, RerenderTimes
<1>2. CASE Rebuild
  BY <1>0, <1>2, PreviewCounts, TimersOnlyStop, ClosureTypes DEF Rebuild
<1>3. CASE CursorTimerFires
  <2>1. /\ timer.cursor \in Closures /\ Preview(timer.cursor, Cursor(props)) /\ UNCHANGED props
        /\ timer' = [timer EXCEPT !.cursor = None]
    BY <1>0, <1>3 DEF CursorTimerFires, Timers
  <2>2. timer'.content = timer.content /\ timer'.cursor = None
    BY <1>0, <2>1 DEF Timers
  <2> QED BY <1>0, <2>1, <2>2, PreviewCounts, TimersOnlyStop
<1>4. CASE ContentTimerFires
  <2>1. /\ timer.content \in Closures /\ Preview(timer.content, Cursor(props)) /\ UNCHANGED props
        /\ timer' = [timer EXCEPT !.content = None]
    BY <1>0, <1>4 DEF ContentTimerFires, Timers
  <2>2. timer'.cursor = timer.cursor /\ timer'.content = None
    BY <1>0, <2>1 DEF Timers
  <2> QED BY <1>0, <2>1, <2>2, PreviewCounts, TimersOnlyStop
<1>5. CASE WorkerAnswers \/ InlineAnswers
  <2>1. PICK r \in Request : /\ WorkerDelivers(r) \/ ThreadDelivers(r)
                             /\ Settle(r) /\ UNCHANGED <<props, timer, asked, newest, changes>>
    BY <1>5, Answers
  <2> QED BY <2>1, SettleCounts, TimersOnlyStop
<1>6. CASE WorkerFails
  <2>1. AbandonWorker /\ UNCHANGED <<props, timer, newest, status>>
    BY <1>6 DEF WorkerFails
  <2>2. InFlight' = InFlight /\ Once' /\ renderer'.pending = <<>>
    BY <1>0, <2>1, TakingOver
  <2>3. CountInv'
    BY <2>1, <2>2 DEF CountInv, RendersAreCounted
  <2> QED BY <2>1, <2>3, TimersOnlyStop
<1>7. CASE Loaded \/ ChooseLayout
  BY <1>7, UncountedSteps, TimersOnlyStop DEF Loaded, ChooseLayout
<1>8. CASE Reopen
  <2> DEFINE q == [token |-> newest + 1, division |-> props.division, text |-> props.texts[props.division],
                   scope |-> props.scope, page |-> Narrowed(Closure(props), Cursor(props))]
  <2>1. /\ Ask(q) /\ newest' = newest + 1 /\ UNCHANGED props
        /\ status' = [rebuilding |-> TRUE, error |-> FALSE]
        /\ timer' = [content |-> None, cursor |-> None]
    BY <1>8 DEF Reopen
  <2>2. q \in Request /\ q.token = newest + 1
    BY <1>0, ClosureTypes DEF Props, Request
  <2>3. status'.rebuilding = TRUE /\ timer'.content = None /\ timer'.cursor = None
    BY <2>1
  <2> HIDE DEF q
  <2> QED BY <1>0, <2>1, <2>2, <2>3, AskCounts, TimersOnlyStop
<1> QED BY <1>1, <1>2, <1>3, <1>4, <1>5, <1>6, <1>7, <1>8 DEF Next

\* What the renderer owes on opening: one render, of the first token.
LEMMA FirstRequest ==
    ASSUME Init
    PROVE  \E q : /\ InFlight = {q} /\ q.token = 1 /\ q.division = props.division /\ q.text = asked.text
                  /\ q.scope = props.scope /\ q.page = Narrowed(Closure(props), Cursor(props))
                  /\ Once /\ (renderer.worker = "gone" => renderer.pending = <<>>)
<1>1. PICK d \in Divisions, s \in Scopes, t \in Texts \ Broken :
        /\ props = [division |-> d, texts |-> [e \in Divisions |-> t], scope |-> s, report |-> None]
        /\ asked = [division |-> d, text |-> t]
        /\ LET first == <<[token |-> 1, division |-> d, text |-> t, scope |-> s,
                           page |-> Narrowed(Closure(props), None)]>>
           IN  \/ renderer = [worker |-> "live", pending |-> first, inline |-> <<>>]
               \/ renderer = [worker |-> "gone", pending |-> <<>>, inline |-> first]
  BY DEF Init
<1> DEFINE q == [token |-> 1, division |-> d, text |-> t, scope |-> s, page |-> Narrowed(Closure(props), None)]
           first == <<q>>
<1>2. /\ q.token = 1 /\ q.division = props.division /\ q.text = asked.text
      /\ q.scope = props.scope /\ q.page = Narrowed(Closure(props), Cursor(props))
  BY <1>1 DEF Cursor
<1>3. DOMAIN <<>> = {} /\ DOMAIN first = {1} /\ first[1] = q
  OBVIOUS
<1>4. /\ renderer.worker = "gone" => renderer.pending = <<>>
      /\ \/ renderer.pending = first /\ renderer.inline = <<>>
         \/ renderer.pending = <<>> /\ renderer.inline = first
  BY <1>1
<1> HIDE DEF q, first
<1>5. InFlight = {q}
  BY <1>3, <1>4 DEF InFlight
<1>6. Once
  BY <1>3, <1>4 DEF Once
<1> QED BY <1>2, <1>4, <1>5, <1>6

\* The pane says that it rebuilds exactly while its newest render is owed, by
\* a renderer that is there; and a timer only ever renders the open division,
\* as it is.  Whatever the environment does.
THEOREM PaneIsConsistent == Spec => []Consistent
<1> DEFINE I == TypeOK /\ CountInv /\ TimerInv
<1>1. Init => I
  <2> SUFFICES ASSUME Init PROVE I
    OBVIOUS
  <2>1. PICK q : InFlight = {q} /\ q.token = 1 /\ Once /\ (renderer.worker = "gone" => renderer.pending = <<>>)
    BY FirstRequest
  <2>2. /\ newest = 1 /\ timer = [content |-> None, cursor |-> None]
        /\ status = [rebuilding |-> TRUE, error |-> FALSE]
    BY DEF Init
  <2>3. CountInv
    BY <2>1, <2>2 DEF CountInv, RendersAreCounted
  <2>4. TimerInv
    BY <2>2 DEF TimerInv, TimersAreOurs
  <2> QED BY <2>3, <2>4, TypesFromTheStart
<1>2. I /\ [Next]_vars => I'
  <2>1. I /\ UNCHANGED vars => I'
    BY UncountedSteps, TimersOnlyStop DEF vars, TypeOK
  <2> QED BY <2>1, ActionsKeepTypes, ActionsCount
<1>3. I => Consistent
  BY DEF CountInv, TimerInv, Consistent
<1> QED BY <1>1, <1>2, <1>3, PTL DEF Spec

-----------------------------------------------------------------------------
(***************************************************************************)
(* What is on screen at rest, when the three words that break it do not    *)
(* happen: the cursor of a narrowed page is not moved during a rebuild,    *)
(* the scope is not changed while a text waits for its timer, and a text   *)
(* is not put back while the cursor's timer runs.                          *)
(***************************************************************************)
Calm == {"move_while_rendering", "scope_while_typing", "quick_undo"} \cap Env = {}

\* The page that props ask for.
WantedBy(p) == Narrowed(Closure(p), Cursor(p))

\* What was asked for last is the open division's text, or a timer's render
\* is to come, the last of which is of that text and in the scope chosen.
AskedInv ==
    /\ asked.division = props.division
    /\ timer.content = None => asked.text = props.texts[props.division]
    /\ timer.content # None => timer.content.scope = props.scope
    /\ timer.cursor # None => timer.cursor.scope = "cursor"
    /\ timer.cursor # None /\ timer.content = None => timer.cursor.text = props.texts[props.division]

\* The newest render on its way is of what was asked for last, and of the page
\* that the props ask for.
NewestIsWanted ==
    \A r \in InFlight : r.token = newest =>
        r.division = props.division /\ r.text = asked.text /\ r.scope = props.scope /\ r.page = WantedBy(props)

\* Once a rebuild went well, what was asked for last is on screen: its page is
\* around the cursor, unless the cursor's timer is set.
ScreenInv ==
    ~status.rebuilding /\ ~status.error =>
        /\ page # None /\ page.division = props.division /\ page.text = asked.text
        /\ page.page = Whole <=> (props.scope = "editor" \/ props.division \in Unnarrowed)
        /\ timer.cursor = None => page.page = WantedBy(props)
        /\ frame.html = [content |-> page, paper |-> onPaper.shown]

LEMMA WantedIsWhole ==
    ASSUME NEW p \in Props
    PROVE  /\ WantedBy(p) = Whole <=> (p.scope = "editor" \/ p.division \in Unnarrowed)
           /\ WantedBy(p) # Whole /\ Cursor(p) # None => WantedBy(p) = Cursor(p)
<1>1. Closure(p).scope = p.scope /\ Closure(p).division = p.division /\ Cursor(p) \in Pages \cup {None}
  BY ClosureTypes DEF Closure
<1> QED BY <1>1 DEF WantedBy, Narrowed

\* The page a closure narrows to depends on its division, its scope and the cursor.
LEMMA WantedDependsOn ==
    ASSUME NEW p \in Props, NEW closure, closure.division = p.division, closure.scope = p.scope
    PROVE  Narrowed(closure, Cursor(p)) = WantedBy(p)
BY DEF WantedBy, Narrowed, Closure

\* What the three words rule out of a change of the props.
Quiet(p) ==
    /\ p.division = props.division \/ p.report = props.report
    /\ p.division = props.division /\ p.scope # props.scope => timer.content = None
    /\ p.division = props.division /\ p.scope = props.scope =>
        /\ Content(p) # Content(props) /\ timer.cursor # None => asked.text # p.texts[p.division]
        /\ Cursor(p) # Cursor(props) =>
            Cursor(p) # None /\ (props.scope = "cursor" => ~status.rebuilding)

LEMMA QuietChanges ==
    ASSUME TypeOK, Calm, Move \/ Type \/ Open \/ ChangeScope
    PROVE  \E p \in Props : Rerender(p) /\ Quiet(p)
<1>0. props \in Props
  BY TypesOf
<1>1. ASSUME NEW c \in Pages, NEW p \in Props, p.division = props.division, p.report = Report(c)
      PROVE  Cursor(p) # None
  <2>1. Report(c) \in Reports /\ Report(c).division = props.division /\ Report(c).page = c
    BY <1>0 DEF Report, Reports, Props
  <2> QED BY <1>1, <2>1 DEF Cursor
<1>2. CASE Move
  <2>1. PICK c \in Pages : Rerender([props EXCEPT !.report = Report(c)])
    BY <1>2 DEF Move
  <2> DEFINE p == [props EXCEPT !.report = Report(c)]
  <2>2. /\ p \in Props /\ p.division = props.division /\ p.scope = props.scope /\ p.texts = props.texts
        /\ p.report = Report(c)
    BY <1>0, MovedTypes DEF Props
  <2>3. props.scope = "cursor" => ~status.rebuilding
    BY <1>2 DEF Move, MayMove, Calm
  <2> HIDE DEF p
  <2>4. Content(p) = Content(props) /\ Cursor(p) # None
    BY <1>1, <2>2 DEF Content
  <2>5. Quiet(p)
    BY <2>2, <2>3, <2>4 DEF Quiet
  <2> QED BY <2>1, <2>2, <2>5 DEF p
<1>3. CASE Type
  <2>1. PICK t \in Texts :
        /\ timer.cursor # None /\ asked.text = t => "quick_undo" \in Env
        /\ \/ Rerender([props EXCEPT !.texts[props.division] = t])
           \/ MayMove /\ \E c \in Pages :
                    Rerender([props EXCEPT !.texts[props.division] = t, !.report = Report(c)])
    BY <1>3 DEF Type
  <2>2. timer.cursor # None => asked.text # t
    BY <2>1 DEF Calm
  <2>3. CASE Rerender([props EXCEPT !.texts[props.division] = t])
    <3> DEFINE p == [props EXCEPT !.texts[props.division] = t]
    <3>1. /\ p \in Props /\ p.division = props.division /\ p.scope = props.scope /\ p.report = props.report
          /\ p.texts[p.division] = t
      BY <1>0, ChangedTypes DEF Props
    <3> HIDE DEF p
    <3>2. Cursor(p) = Cursor(props)
      BY <3>1 DEF Cursor
    <3>3. Quiet(p)
      BY <2>2, <3>1, <3>2 DEF Quiet
    <3> QED BY <2>3, <3>1, <3>3 DEF p
  <2>4. CASE MayMove /\ \E c \in Pages : Rerender([props EXCEPT !.texts[props.division] = t, !.report = Report(c)])
    <3>1. PICK c \in Pages : Rerender([props EXCEPT !.texts[props.division] = t, !.report = Report(c)])
      BY <2>4
    <3> DEFINE p == [props EXCEPT !.texts[props.division] = t, !.report = Report(c)]
    <3>2. /\ p \in Props /\ p.division = props.division /\ p.scope = props.scope /\ p.report = Report(c)
          /\ p.texts[p.division] = t
      BY <1>0, MovedTypes DEF Props
    <3>3. props.scope = "cursor" => ~status.rebuilding
      BY <2>4 DEF MayMove, Calm
    <3> HIDE DEF p
    <3>4. Cursor(p) # None
      BY <1>1, <3>2
    <3>5. Quiet(p)
      BY <2>2, <3>2, <3>3, <3>4 DEF Quiet
    <3> QED BY <3>1, <3>2, <3>5 DEF p
  <2> QED BY <2>1, <2>3, <2>4
<1>4. CASE Open
  <2>1. PICK d \in Divisions \ {props.division} : Rerender([props EXCEPT !.division = d])
    BY <1>4 DEF Open
  <2> DEFINE p == [props EXCEPT !.division = d]
  <2>2. p \in Props /\ p.division # props.division /\ p.report = props.report
    BY <1>0, ChangedTypes DEF Props
  <2> HIDE DEF p
  <2>3. Quiet(p)
    BY <2>2 DEF Quiet
  <2> QED BY <2>1, <2>2, <2>3 DEF p
<1>5. CASE ChangeScope
  <2>1. PICK s \in Scopes \ {props.scope} : Rerender([props EXCEPT !.scope = s])
    BY <1>5 DEF ChangeScope
  <2> DEFINE p == [props EXCEPT !.scope = s]
  <2>2. p \in Props /\ p.division = props.division /\ p.scope # props.scope
    BY <1>0, <2>1, ChangedTypes DEF Props
  <2>3. timer.content = None
    BY <1>5 DEF ChangeScope, Calm
  <2> HIDE DEF p
  <2>4. Quiet(p)
    BY <2>2, <2>3 DEF Quiet
  <2> QED BY <2>1, <2>2, <2>4 DEF p
<1> QED BY <1>2, <1>3, <1>4, <1>5

ScreenInvs == AskedInv /\ NewestIsWanted /\ ScreenInv

\* One more render is asked for, of what the props ask for.
LEMMA AskedForProps ==
    ASSUME renderer \in Renderer, newest \in Nat, CountInv, NEW q \in Request, q.token = newest + 1,
           newest' = newest + 1, Ask(q),
           q.division = props'.division, q.text = asked'.text, q.scope = props'.scope,
           q.page = WantedBy(props')
    PROVE  NewestIsWanted'
<1>1. InFlight' = InFlight \cup {q} /\ \A r \in InFlight : r.token # newest'
  BY AskAdds
<1> QED BY <1>1 DEF NewestIsWanted

LEMMA PreviewShows ==
    ASSUME TypeOK, CountInv, NEW closure \in Closures, NEW p \in Props, Preview(closure, Cursor(p)),
           props' = p, closure.division = p.division, closure.scope = p.scope
    PROVE  NewestIsWanted' /\ ScreenInv' /\ asked' = [division |-> closure.division, text |-> closure.text]
<1> DEFINE q == RequestOf(closure, Cursor(p))
<1>1. /\ q \in Request /\ q.token = newest + 1 /\ newest' = newest + 1 /\ Ask(q)
      /\ status'.rebuilding = TRUE /\ newest \in Nat /\ renderer \in Renderer
  BY PreviewAsks, ClosureTypes, TypesOf
<1>2. asked' = [division |-> closure.division, text |-> closure.text]
  BY DEF Preview
<1>3. q.division = p.division /\ q.text = asked'.text /\ q.scope = p.scope /\ q.page = WantedBy(p)
  BY <1>2, WantedDependsOn DEF RequestOf
<1> HIDE DEF q
<1>4. NewestIsWanted'
  BY <1>1, <1>3, AskedForProps
<1>5. ScreenInv'
  BY <1>1 DEF ScreenInv
<1> QED BY <1>2, <1>4, <1>5

LEMMA RerenderShows ==
    ASSUME TypeOK, CountInv, TimerInv, ScreenInvs, NEW p \in Props, Rerender(p), Quiet(p)
    PROVE  ScreenInvs'
<1>0. props' = p /\ UNCHANGED <<page, onPaper, frame>>
  BY DEF Rerender
<1>1. PICK followUp \in CursorEffect(p) :
        timer' = [content |-> ContentEffect(p, asked'), cursor |-> followUp]
  BY DEF Rerender
<1>2. timer'.content = ContentEffect(p, asked') /\ timer'.cursor = followUp
  BY <1>1
<1>3. /\ Closure(p) \in Closures /\ Closure(p) # None
      /\ Closure(p).division = p.division /\ Closure(p).scope = p.scope
      /\ Closure(p).text = p.texts[p.division]
      /\ p.scope # "editor" => p.scope = "cursor"
  BY ClosureTypes DEF Closure, Props, Scopes
<1>4. CASE p.division # props.division \/ p.scope # props.scope
  <2>1. Preview(Closure(p), Cursor(p))
    BY <1>4 DEF Rerender
  <2>2. NewestIsWanted' /\ ScreenInv' /\ asked' = Content(p)
    BY <1>0, <1>3, <2>1, PreviewShows DEF Content
  <2>3. timer'.content = None
    <3>1. CASE Content(p) = Content(props)
      <4>1. p.division = props.division
        BY <3>1 DEF Content
      <4> QED BY <1>2, <1>4, <3>1, <4>1 DEF Quiet, ContentEffect
    <3> QED BY <1>2, <2>2, <3>1 DEF ContentEffect
  <2>4. timer'.cursor # None => timer'.cursor = Closure(p) /\ p.scope = "cursor"
    <3>1. CASE Cursor(p) = Cursor(props) /\ p.scope = props.scope
      <4>1. timer'.cursor = timer.cursor /\ p.division # props.division /\ p.report = props.report
        BY <1>2, <1>4, <3>1 DEF CursorEffect, Quiet
      <4>2. Cursor(props) = None
        BY <3>1, <4>1 DEF Cursor
      <4> QED BY <4>1, <4>2 DEF TimerInv
    <3>2. CASE ~(Cursor(p) = Cursor(props) /\ p.scope = props.scope)
      BY <1>2, <1>3, <3>2 DEF CursorEffect
    <3> QED BY <3>1, <3>2
  <2>5. AskedInv'
    <3>1. asked'.division = p.division /\ asked'.text = p.texts[p.division]
      BY <2>2 DEF Content
    <3> QED BY <1>0, <1>3, <2>3, <2>4, <3>1 DEF AskedInv
  <2> QED BY <2>2, <2>5 DEF ScreenInvs
<1>5. CASE p.division = props.division /\ p.scope = props.scope
  <2>1. UNCHANGED <<asked, newest, renderer, status>>
    BY <1>5 DEF Rerender
  <2>2. /\ Content(p) # Content(props) /\ timer.cursor # None => asked.text # p.texts[p.division]
        /\ Cursor(p) # Cursor(props) => Cursor(p) # None /\ (props.scope = "cursor" => ~status.rebuilding)
    BY <1>5 DEF Quiet
  <2>3. Content(p) = Content(props) => p.texts[p.division] = props.texts[props.division]
    BY DEF Content
  <2>4. \/ Cursor(p) = Cursor(props) /\ timer'.cursor = timer.cursor
        \/ Cursor(p) # Cursor(props) /\ p.scope = "editor" /\ timer'.cursor = None
        \/ Cursor(p) # Cursor(props) /\ p.scope = "cursor" /\ timer'.cursor = Closure(p)
        \/ /\ Cursor(p) # Cursor(props) /\ p.scope = "cursor" /\ timer'.cursor = None
           /\ FALSE \in Outside(p)
    <3>1. CASE Cursor(p) = Cursor(props)
      BY <1>2, <1>5, <3>1 DEF CursorEffect
    <3>2. CASE Cursor(p) # Cursor(props) /\ p.scope = "editor"
      BY <1>2, <3>2 DEF CursorEffect
    <3>3. CASE Cursor(p) # Cursor(props) /\ p.scope = "cursor"
      <4>1. followUp \in {IF out THEN Closure(p) ELSE None : out \in Outside(p)}
        BY <1>2, <2>2, <3>3 DEF CursorEffect
      <4>2. PICK out \in Outside(p) : followUp = IF out THEN Closure(p) ELSE None
        BY <4>1
      <4>3. out \in BOOLEAN
        BY <4>2 DEF Outside
      <4>4. CASE out = TRUE
        BY <1>2, <3>3, <4>2, <4>4
      <4>5. CASE out = FALSE
        BY <1>2, <3>3, <4>2, <4>5
      <4> QED BY <4>3, <4>4, <4>5
    <3> QED BY <1>3, <3>1, <3>2, <3>3
  <2>5. AskedInv'
    <3>1. asked'.division = p.division
      BY <1>5, <2>1 DEF ScreenInvs, AskedInv
    <3>2. CASE Content(p) = Content(props)
      <4>1. timer'.content = timer.content
        BY <1>2, <3>2 DEF ContentEffect
      <4> QED BY <1>0, <1>3, <1>5, <2>1, <2>3, <2>4, <3>1, <3>2, <4>1 DEF ScreenInvs, AskedInv
    <3>3. CASE Content(p) # Content(props) /\ asked = Content(p)
      <4>1. timer'.content = None /\ asked.text = p.texts[p.division] /\ timer.cursor = None
        BY <1>2, <2>1, <2>2, <3>3 DEF ContentEffect, Content
      <4> QED BY <1>0, <1>3, <2>1, <2>4, <3>1, <4>1 DEF AskedInv
    <3>4. CASE Content(p) # Content(props) /\ asked # Content(p)
      <4>1. timer'.content = Closure(p)
        BY <1>2, <2>1, <3>4 DEF ContentEffect
      <4>2. timer'.cursor # None => timer'.cursor.scope = "cursor"
        BY <1>3, <2>4 DEF ScreenInvs, AskedInv
      <4> QED BY <1>0, <1>3, <3>1, <4>1, <4>2 DEF AskedInv
    <3> QED BY <3>2, <3>3, <3>4
  <2>6. Cursor(p) = Cursor(props) \/ p.scope = "editor" => WantedBy(p) = WantedBy(props)
    BY <1>5 DEF WantedBy, Narrowed, Closure
  <2>7. NewestIsWanted'
    <3> SUFFICES ASSUME NEW r \in InFlight, r.token = newest
                 PROVE  /\ r.division = p.division /\ r.text = asked.text /\ r.scope = p.scope
                        /\ r.page = WantedBy(p)
      BY <1>0, <2>1 DEF NewestIsWanted, InFlight
    <3>1. status.rebuilding
      BY DEF CountInv, RendersAreCounted
    <3>2. WantedBy(p) = WantedBy(props)
      BY <1>3, <1>5, <2>2, <2>6, <3>1
    <3> QED BY <1>5, <3>2 DEF ScreenInvs, NewestIsWanted
  <2>8. ScreenInv'
    <3> SUFFICES ASSUME ~status.rebuilding, ~status.error
                 PROVE  /\ page # None /\ page.division = p.division /\ page.text = asked.text
                        /\ page.page = Whole <=> (p.scope = "editor" \/ p.division \in Unnarrowed)
                        /\ timer'.cursor = None => page.page = WantedBy(p)
                        /\ frame.html = [content |-> page, paper |-> onPaper.shown]
      BY <1>0, <2>1 DEF ScreenInv
    <3>1. /\ page # None /\ page.division = p.division /\ page.text = asked.text
          /\ page.page = Whole <=> (p.scope = "editor" \/ p.division \in Unnarrowed)
          /\ timer.cursor = None => page.page = WantedBy(props)
          /\ frame.html = [content |-> page, paper |-> onPaper.shown]
      BY <1>5 DEF ScreenInvs, ScreenInv
    <3>2. ASSUME timer'.cursor = None
          PROVE  page.page = WantedBy(p)
      <4>1. CASE Cursor(p) = Cursor(props)
        BY <2>4, <2>6, <3>1, <3>2, <4>1
      <4>2. CASE p.scope = "editor"
        BY <3>1, <4>2, WantedIsWhole
      <4>3. CASE Cursor(p) # Cursor(props) /\ p.scope = "cursor"
        <5>1. FALSE \in Outside(p) /\ Cursor(p) # None
          BY <1>3, <2>2, <2>4, <3>2, <4>3
        <5>2. page.page = Whole \/ page.page = Cursor(p)
          BY <3>1, <5>1 DEF Outside
        <5> QED BY <3>1, <5>1, <5>2, WantedIsWhole
      <4> QED BY <1>3, <4>1, <4>2, <4>3
    <3> QED BY <3>1, <3>2
  <2> QED BY <2>5, <2>7, <2>8 DEF ScreenInvs
<1> QED BY <1>4, <1>5

LEMMA SettleShows ==
    ASSUME TypeOK, CountInv, ScreenInvs, NEW r \in Request, WorkerDelivers(r) \/ ThreadDelivers(r), Settle(r),
           UNCHANGED <<props, timer, asked, newest>>
    PROVE  ScreenInvs'
<1>1. r \in InFlight /\ InFlight' \subseteq InFlight
  BY DeliveryTakes, TypesOf
<1>2. AskedInv' /\ NewestIsWanted'
  BY <1>1 DEF ScreenInvs, AskedInv, NewestIsWanted
<1>3. ScreenInv'
  <2>1. CASE r.token # newest
    BY <2>1, SettleSays DEF ScreenInvs, ScreenInv
  <2>2. CASE Reject
    BY <2>2 DEF Reject, ScreenInv
  <2>3. CASE r.token = newest /\ Commit(r)
    <3> DEFINE content == [division |-> r.division, text |-> r.text, page |-> r.page]
               paper == IF page # None /\ page.division = r.division
                        THEN onPaper.shown /\ r.division \in Worksheets
                        ELSE onPaper.liked /\ r.division \in Worksheets
               landing == IF r.scope = "cursor" /\ Cursor(props) # None
                          THEN [division |-> props.division, page |-> Cursor(props)] ELSE None
               kept == IF Turned(r) THEN [saved |-> None, landing |-> landing] ELSE scroll
    <3>1. /\ page' = content /\ onPaper' = [onPaper EXCEPT !.shown = paper]
          /\ Deliver(content, paper, kept)
      BY <2>3 DEF Commit
    <3>2. content \in Rendered /\ paper \in BOOLEAN
      BY TypesOf DEF Rendered, Request, Papers
    <3>3. kept \in Scrolls
      BY TypesOf, ClosureTypes DEF Place, Props, Scrolls
    <3>4. r.division = props.division /\ r.text = asked.text /\ r.page = WantedBy(props)
      BY <1>1, <2>3 DEF ScreenInvs, NewestIsWanted
    <3>5. content.division = props.division /\ content.text = asked.text /\ content.page = WantedBy(props)
      BY <3>4
    <3> HIDE DEF content, paper, landing, kept
    <3>6. frame'.html = [content |-> content, paper |-> paper]
      BY <3>1, <3>2, <3>3, DeliverTypes, TypesOf
    <3>7. onPaper'.shown = paper
      BY <3>1, TypesOf DEF Papers
    <3>8. page' # None
      BY <3>1, <3>2
    <3>9. WantedBy(props) = Whole <=> (props.scope = "editor" \/ props.division \in Unnarrowed)
      BY WantedIsWhole, TypesOf
    <3> QED BY <3>1, <3>5, <3>6, <3>7, <3>8, <3>9 DEF ScreenInv
  <2> QED BY <2>1, <2>2, <2>3 DEF Settle
<1> QED BY <1>2, <1>3 DEF ScreenInvs

LEMMA ActionsShow ==
    ASSUME Calm, TypeOK, CountInv, TimerInv, ScreenInvs, Next
    PROVE  ScreenInvs'
<1>0. /\ props \in Props /\ timer \in Timers /\ newest \in Nat /\ renderer \in Renderer
      /\ frame \in Frames /\ onPaper \in Papers /\ scroll \in Scrolls /\ page \in Rendered \cup {None}
  BY TypesOf
<1>1. CASE Move \/ Type \/ Open \/ ChangeScope
  BY <1>1, QuietChanges, RerenderShows
<1>2. CASE Rebuild
  <2>1. Preview(Closure(props), Cursor(props)) /\ UNCHANGED <<props, timer>>
    BY <1>2 DEF Rebuild
  <2>2. /\ Closure(props) \in Closures
        /\ Closure(props).division = props.division /\ Closure(props).scope = props.scope
        /\ Closure(props).text = props.texts[props.division]
    BY <1>0, ClosureTypes DEF Closure
  <2>3. NewestIsWanted' /\ ScreenInv' /\ asked' = [division |-> props.division, text |-> props.texts[props.division]]
    BY <1>0, <2>1, <2>2, PreviewShows
  <2>4. AskedInv'
    BY <2>1, <2>3 DEF ScreenInvs, AskedInv
  <2> QED BY <2>3, <2>4 DEF ScreenInvs
<1>3. CASE CursorTimerFires
  <2>1. /\ timer.cursor # None /\ timer.cursor \in Closures
        /\ Preview(timer.cursor, Cursor(props)) /\ UNCHANGED props
        /\ timer' = [timer EXCEPT !.cursor = None]
    BY <1>0, <1>3 DEF CursorTimerFires, Timers
  <2>2. timer'.content = timer.content /\ timer'.cursor = None
    BY <1>0, <2>1 DEF Timers
  <2>3. timer.cursor.division = props.division /\ timer.cursor.scope = props.scope
    BY <2>1 DEF TimerInv, TimersAreOurs, ScreenInvs, AskedInv
  <2>4. NewestIsWanted' /\ ScreenInv' /\ asked' = [division |-> props.division, text |-> timer.cursor.text]
    BY <1>0, <2>1, <2>3, PreviewShows
  <2>5. AskedInv'
    BY <2>1, <2>2, <2>4 DEF ScreenInvs, AskedInv
  <2> QED BY <2>4, <2>5 DEF ScreenInvs
<1>4. CASE ContentTimerFires
  <2>1. /\ timer.content # None /\ timer.content \in Closures
        /\ timer.cursor # None => timer.cursor.text = timer.content.text
        /\ Preview(timer.content, Cursor(props)) /\ UNCHANGED props
        /\ timer' = [timer EXCEPT !.content = None]
    BY <1>0, <1>4 DEF ContentTimerFires, Timers
  <2>2. timer'.cursor = timer.cursor /\ timer'.content = None
    BY <1>0, <2>1 DEF Timers
  <2>3. /\ timer.content.division = props.division /\ timer.content.text = props.texts[props.division]
        /\ timer.content.scope = props.scope
    BY <2>1 DEF TimerInv, TimersAreOurs, ScreenInvs, AskedInv, Content
  <2>4. NewestIsWanted' /\ ScreenInv' /\ asked' = [division |-> props.division, text |-> timer.content.text]
    BY <1>0, <2>1, <2>3, PreviewShows
  <2>5. AskedInv'
    BY <2>1, <2>2, <2>3, <2>4 DEF ScreenInvs, AskedInv
  <2> QED BY <2>4, <2>5 DEF ScreenInvs
<1>5. CASE WorkerAnswers \/ InlineAnswers
  <2>1. PICK r \in Request : /\ WorkerDelivers(r) \/ ThreadDelivers(r)
                             /\ Settle(r) /\ UNCHANGED <<props, timer, asked, newest, changes>>
    BY <1>5, Answers
  <2> QED BY <2>1, SettleShows
<1>6. CASE WorkerFails
  <2>1. AbandonWorker /\ UNCHANGED <<props, timer, asked, newest, page, onPaper, status, frame, scroll, changes>>
    BY <1>6 DEF WorkerFails
  <2>2. InFlight' = InFlight
    BY <1>0, <2>1, TakingOver
  <2> QED BY <2>1, <2>2 DEF ScreenInvs, AskedInv, NewestIsWanted, ScreenInv
<1>7. CASE Loaded
  <2>1. frame'.html = frame.html
    BY <1>0, <1>7 DEF Loaded, Frames
  <2> QED BY <1>7, <2>1 DEF Loaded, ScreenInvs, AskedInv, NewestIsWanted, InFlight, ScreenInv
<1>8. CASE ChooseLayout
  <2> DEFINE paper == ~onPaper.shown
  <2>1. /\ page \in Rendered /\ Deliver(page, paper, scroll) /\ onPaper' = [shown |-> paper, liked |-> paper]
        /\ UNCHANGED <<props, timer, asked, newest, renderer, page, status>>
    BY <1>0, <1>8 DEF ChooseLayout
  <2>2. paper \in BOOLEAN
    BY <1>0 DEF Papers
  <2> HIDE DEF paper
  <2>3. frame'.html = [content |-> page, paper |-> paper] /\ onPaper'.shown = paper
    BY <1>0, <2>1, <2>2, DeliverTypes
  <2> QED BY <2>1, <2>3 DEF ScreenInvs, AskedInv, NewestIsWanted, InFlight, ScreenInv
<1>9. CASE Reopen
  <2> DEFINE q == [token |-> newest + 1, division |-> props.division, text |-> props.texts[props.division],
                   scope |-> props.scope, page |-> Narrowed(Closure(props), Cursor(props))]
  <2>1. /\ Ask(q) /\ newest' = newest + 1 /\ props' = props /\ asked' = Content(props)
        /\ status' = [rebuilding |-> TRUE, error |-> FALSE]
        /\ timer' = [content |-> None, cursor |-> None]
    BY <1>9 DEF Reopen
  <2>2. q \in Request /\ q.token = newest + 1
    BY <1>0, ClosureTypes DEF Props, Request
  <2>3. /\ q.division = props.division /\ q.text = asked'.text /\ q.scope = props.scope /\ q.page = WantedBy(props)
        /\ asked'.division = props.division /\ asked'.text = props.texts[props.division]
    BY <2>1 DEF Content, WantedBy
  <2> HIDE DEF q
  <2>4. NewestIsWanted'
    BY <1>0, <2>1, <2>2, <2>3, AskedForProps
  <2>5. ScreenInv' /\ AskedInv'
    BY <2>1, <2>3 DEF ScreenInv, AskedInv
  <2> QED BY <2>4, <2>5 DEF ScreenInvs
<1> QED BY <1>1, <1>2, <1>3, <1>4, <1>5, <1>6, <1>7, <1>8, <1>9 DEF Next

\* When the author has paused and no render failed, the page on screen is that
\* of the text in the editor, narrowed as the scope asks, around the cursor.
THEOREM RestIsAlwaysCurrent ==
    ASSUME Calm
    PROVE  Spec => []RestIsCurrent
<1> DEFINE I == TypeOK /\ CountInv /\ TimerInv /\ ScreenInvs
<1>1. Init => I
  <2> SUFFICES ASSUME Init PROVE I
    OBVIOUS
  <2>1. PICK q : /\ InFlight = {q} /\ q.token = 1 /\ q.division = props.division /\ q.text = asked.text
                 /\ q.scope = props.scope /\ q.page = Narrowed(Closure(props), Cursor(props))
                 /\ Once /\ (renderer.worker = "gone" => renderer.pending = <<>>)
    BY FirstRequest
  <2>2. /\ newest = 1 /\ timer = [content |-> None, cursor |-> None]
        /\ status = [rebuilding |-> TRUE, error |-> FALSE]
    BY DEF Init
  <2>3. CountInv
    BY <2>1, <2>2 DEF CountInv, RendersAreCounted
  <2>4. TimerInv /\ ScreenInv
    BY <2>2 DEF TimerInv, TimersAreOurs, ScreenInv
  <2>5. NewestIsWanted
    BY <2>1 DEF NewestIsWanted, WantedBy
  <2>6. AskedInv
    <3>1. PICK d \in Divisions, s \in Scopes, t \in Texts \ Broken :
            /\ props = [division |-> d, texts |-> [e \in Divisions |-> t], scope |-> s, report |-> None]
            /\ asked = [division |-> d, text |-> t]
      BY DEF Init
    <3> QED BY <2>2, <3>1 DEF AskedInv
  <2> QED BY <2>3, <2>4, <2>5, <2>6, TypesFromTheStart DEF ScreenInvs
<1>2. I /\ [Next]_vars => I'
  <2>1. I /\ UNCHANGED vars => I'
    BY UncountedSteps, TimersOnlyStop
    DEF vars, TypeOK, ScreenInvs, AskedInv, NewestIsWanted, InFlight, ScreenInv
  <2> QED BY <2>1, ActionsKeepTypes, ActionsCount, ActionsShow
<1>3. I => RestIsCurrent
  <2> SUFFICES ASSUME I, AtRest, ~status.error
               PROVE  /\ frame.html.content = [division |-> props.division, text |-> props.texts[props.division],
                                               page |-> Narrowed(Closure(props), Cursor(props))]
                      /\ frame.html.paper = onPaper.shown
    BY DEF RestIsCurrent
  <2>1. timer.content = None /\ timer.cursor = None /\ ~status.rebuilding
    BY DEF AtRest
  <2>2. /\ page # None /\ page.division = props.division /\ page.text = asked.text
        /\ page.page = WantedBy(props)
        /\ frame.html = [content |-> page, paper |-> onPaper.shown]
    BY <2>1 DEF ScreenInvs, ScreenInv
  <2>3. page \in Rendered
    BY <2>2, TypesOf
  <2>4. page.text = props.texts[props.division]
    BY <2>1, <2>2 DEF ScreenInvs, AskedInv
  <2>5. page = [division |-> props.division, text |-> props.texts[props.division], page |-> WantedBy(props)]
    BY <2>2, <2>3, <2>4 DEF Rendered
  <2> QED BY <2>2, <2>5 DEF WantedBy
<1> QED BY <1>1, <1>2, <1>3, PTL DEF Spec
=============================================================================
