--------------------------- MODULE SoloSave_proofs ---------------------------
(***************************************************************************)
(* The solo session: its types under any environment; and, if the server   *)
(* takes the requests in turn and no source is typed back (Steady), that   *)
(* nothing is lost, that every save sent is one the server takes, and that *)
(* removals last.  For any divisions and records, any number of edits,     *)
(* failures and requests in the air.                                       *)
(*                                                                         *)
(* Lists come first, then copies of the project as sets of what they hold  *)
(* (Has), then requests, then the steps: every action is a ClientStep or   *)
(* one of the server's, and those two preserve LossInv.                    *)
(***************************************************************************)
EXTENDS SoloSave, SequenceTheorems, FiniteSetTheorems, TLAPS

USE BoundsAssumption, NamesAssumption

-----------------------------------------------------------------------------
(***************************************************************************)
(* Lists.                                                                  *)
(***************************************************************************)
\* A list without the element at a position.
LEMMA RemoveAtIs ==
    ASSUME NEW S, NEW s \in Seq(S), NEW k \in DOMAIN s
    PROVE  /\ RemoveAt(s, k) \in Seq(S)
           /\ DOMAIN RemoveAt(s, k) = 1..(Len(s) - 1)
           /\ \A m \in 1..(Len(s) - 1) :
                RemoveAt(s, k)[m] = s[IF m < k THEN m ELSE m + 1]
<1> DEFINE a == SubSeq(s, 1, k - 1)
           b == SubSeq(s, k + 1, Len(s))
<1>1. Len(s) \in Nat /\ k \in 1..Len(s) /\ DOMAIN s = 1..Len(s)
  OBVIOUS
<1>2. a \in Seq(S) /\ Len(a) = k - 1 /\ \A m \in 1..(k - 1) : a[m] = s[m]
  BY <1>1
<1>3. b \in Seq(S) /\ Len(b) = Len(s) - k /\ \A m \in 1..(Len(s) - k) : b[m] = s[k + m]
  <2>1. k + 1 \in Nat /\ k + 1 >= 1 /\ k + 1 <= Len(s) + 1 /\ Len(s) - k \in Nat
    BY <1>1
  <2>2. b \in Seq(S)
    BY <1>1, <2>1
  <2>3. Len(b) = Len(s) - k
    BY <1>1, <2>1
  <2>4. \A m \in 1..(Len(s) - k) : b[m] = s[k + m]
    BY <1>1, <2>1
  <2> QED BY <2>2, <2>3, <2>4
<1>4. RemoveAt(s, k) = a \o b
  BY DEF RemoveAt
<1> HIDE DEF a, b
<1>5. /\ a \o b \in Seq(S) /\ Len(a \o b) = Len(s) - 1
      /\ \A m \in 1..Len(a \o b) : (a \o b)[m] = IF m <= Len(a) THEN a[m] ELSE b[m - Len(a)]
  <2>1. /\ a \o b \in Seq(S) /\ Len(a \o b) = Len(a) + Len(b)
        /\ \A m \in 1..(Len(a) + Len(b)) : (a \o b)[m] = IF m <= Len(a) THEN a[m] ELSE b[m - Len(a)]
    <3>1. a \in Seq(S) /\ b \in Seq(S)
      BY <1>2, <1>3
    <3> QED BY <3>1, ConcatProperties
  <2>2. Len(a) + Len(b) = Len(s) - 1
    BY <1>1, <1>2, <1>3
  <2> QED BY <2>1, <2>2
<1>6. ASSUME NEW m \in 1..(Len(s) - 1)
      PROVE  (a \o b)[m] = s[IF m < k THEN m ELSE m + 1]
  <2>1. CASE m < k
    BY <1>1, <1>2, <1>5, <2>1
  <2>2. CASE ~(m < k)
    <3>1. m - (k - 1) \in 1..(Len(s) - k) /\ k + (m - (k - 1)) = m + 1
      BY <1>1, <2>2
    <3>2. b[m - (k - 1)] = s[m + 1]
      BY <1>3, <3>1
    <3>3. (a \o b)[m] = b[m - (k - 1)]
      BY <1>1, <1>2, <1>5, <2>2
    <3> QED BY <2>2, <3>2, <3>3
  <2> QED BY <2>1, <2>2
<1> QED BY <1>4, <1>5, <1>6

LEMMA SequenceIs ==
    ASSUME NEW S, NEW n \in Nat, NEW f \in [1..n -> S]
    PROVE  f \in Seq(S) /\ Len(f) = n
BY SeqDef

\* The positions of a set are numbered.
LEMMA NthIs ==
    ASSUME NEW N \in Nat, NEW K \in SUBSET (1..N)
    PROVE  /\ Cardinality(K) \in Nat
           /\ \A n \in 1..Cardinality(K) :
                Nth(K, n) \in K /\ Cardinality({j \in K : j <= Nth(K, n)}) = n
           /\ \A k \in K : \E n \in 1..Cardinality(K) : Nth(K, n) = k
<1> DEFINE rank(k) == Cardinality({j \in K : j <= k})
           c == Cardinality(K)
           f == [k \in K |-> rank(k)]
<1>1. IsFiniteSet(K) /\ c \in Nat
  <2>1. IsFiniteSet(1..N)
    BY FS_Interval
  <2> QED BY <2>1, FS_Subset, FS_CardinalityType
<1>2. ASSUME NEW k \in K
      PROVE  IsFiniteSet({j \in K : j <= k}) /\ rank(k) \in 1..c
  <2>1. {j \in K : j <= k} \subseteq K /\ k \in {j \in K : j <= k}
    OBVIOUS
  <2>2. IsFiniteSet({j \in K : j <= k}) /\ rank(k) <= c /\ rank(k) \in Nat
    BY <1>1, <2>1, FS_Subset, FS_CardinalityType
  <2>3. rank(k) # 0
    BY <2>1, <2>2, FS_EmptySet
  <2> QED BY <1>1, <2>2, <2>3
<1>3. ASSUME NEW k \in K, NEW l \in K, k < l
      PROVE  rank(k) < rank(l)
  <2>1. /\ {j \in K : j <= k} \subseteq {j \in K : j <= l}
        /\ l \in {j \in K : j <= l} /\ l \notin {j \in K : j <= k}
    <3>1. k \in Nat /\ l \in Nat /\ \A j \in K : j \in Nat
      OBVIOUS
    <3>2. \A j \in K : j <= k => j <= l
      BY <1>3, <3>1
    <3>3. l <= l /\ ~(l <= k)
      BY <1>3, <3>1
    <3> QED BY <3>2, <3>3
  <2>2. /\ Cardinality({j \in K : j <= k}) <= Cardinality({j \in K : j <= l})
        /\ Cardinality({j \in K : j <= k}) = Cardinality({j \in K : j <= l})
            => {j \in K : j <= k} = {j \in K : j <= l}
    BY <1>2, <2>1, FS_Subset
  <2>3. rank(k) # rank(l)
    BY <2>1, <2>2
  <2> QED BY <1>2, <2>2, <2>3
<1>4. f \in Injection(K, 1..c)
  <2>1. f \in [K -> 1..c]
    BY <1>2
  <2>2. \A k, l \in K : f[k] = f[l] => k = l
    BY <1>2, <1>3
  <2> QED BY <2>1, <2>2 DEF Injection, IsInjective
<1>5. f \in Surjection(K, 1..c)
  <2>1. IsFiniteSet(1..c) /\ Cardinality(1..c) = c
    BY <1>1, FS_Interval
  <2> QED BY <1>4, <2>1, FS_Injection
<1>6. ASSUME NEW n \in 1..c
      PROVE  \E k \in K : rank(k) = n
  BY <1>5 DEF Surjection
<1>7. \A n \in 1..c : Nth(K, n) \in K /\ rank(Nth(K, n)) = n
  BY <1>6 DEF Nth
<1>8. ASSUME NEW k \in K
      PROVE  Nth(K, rank(k)) = k
  <2>1. rank(k) \in 1..c
    BY <1>2
  <2> DEFINE l == Nth(K, rank(k))
  <2>2. l \in K /\ rank(l) = rank(k)
    BY <1>7, <2>1
  <2> HIDE DEF l
  <2>3. l \in Nat /\ k \in Nat
    BY <2>2
  <2>4. rank(k) \in Nat
    BY <1>2
  <2> HIDE DEF rank
  <2>5. ~(l < k) /\ ~(k < l)
    BY <1>3, <2>2, <2>4
  <2>6. l = k
    BY <2>3, <2>5
  <2> QED BY <2>6 DEF l
<1> QED BY <1>1, <1>2, <1>7, <1>8

-----------------------------------------------------------------------------
(***************************************************************************)
(* What a copy has, and how it changes.                                    *)
(***************************************************************************)
Listed(divisions) == {<<divisions[k].id, divisions[k].value>> : k \in DOMAIN divisions}
Present(copy) == {r \in Records : copy.records[r] # Gone}
Has(copy) == Listed(copy.divisions) \cup {<<r, copy.records[r]>> : r \in Present(copy)}

\* A copy has every division once.
OneEach(copy) ==
    \A j, k \in DOMAIN copy.divisions : copy.divisions[j].id = copy.divisions[k].id => j = k

LEMMA CopyIs ==
    ASSUME NEW copy \in Copy
    PROVE  /\ copy.divisions \in Seq(Entry) /\ copy.records \in [Records -> Value \cup {Gone}]
           /\ copy = [divisions |-> copy.divisions, records |-> copy.records]
           /\ \A k \in DOMAIN copy.divisions :
                /\ copy.divisions[k] \in Entry
                /\ copy.divisions[k].id \in Divisions /\ copy.divisions[k].id \notin Records
<1>1. copy.divisions \in Seq(Entry) /\ copy.records \in [Records -> Value \cup {Gone}]
  BY DEF Copy
<1>2. copy = [divisions |-> copy.divisions, records |-> copy.records]
  BY DEF Copy
<1>3. \A k \in DOMAIN copy.divisions : copy.divisions[k] \in Entry
  BY <1>1
<1>4. \A e \in Entry : e.id \in Divisions /\ e.id \notin Records
  BY DEF Entry, Divisions
<1> QED BY <1>1, <1>2, <1>3, <1>4

LEMMA HasTypes ==
    ASSUME NEW copy \in Copy
    PROVE  /\ Has(copy) \subseteq Held /\ \A c \in Has(copy) : c[1] \in Ids /\ c[2] \in Value /\ c[2] # Gone
           /\ Listed(copy.divisions) \subseteq Divisions \X Value
           /\ IdsOf(copy) = {c[1] : c \in Has(copy)}
<1>1. /\ copy.divisions \in Seq(Entry) /\ copy.records \in [Records -> Value \cup {Gone}]
  BY DEF Copy
<1>2. \A k \in DOMAIN copy.divisions : copy.divisions[k] \in Entry
  BY <1>1
<1>3. Listed(copy.divisions) \subseteq Divisions \X Value
  BY <1>2 DEF Listed, Entry
<1>4. {<<r, copy.records[r]>> : r \in Present(copy)} \subseteq Records \X Value
  BY <1>1 DEF Present
<1>5. Has(copy) \subseteq Held
  BY <1>3, <1>4 DEF Has, Held, Ids
<1>6. \A c \in Has(copy) : c[1] \in Ids /\ c[2] \in Value /\ c[2] # Gone
  BY <1>5 DEF Held, Value
<1>7. IdsOf(copy) = {c[1] : c \in Has(copy)}
  <2> DEFINE ds == copy.divisions
  <2>1. \A i : i \in {e.id : e \in Range(ds)} <=> \E k \in DOMAIN ds : i = ds[k].id
    BY DEF Range
  <2>2. \A k \in DOMAIN ds : <<ds[k].id, ds[k].value>> \in Has(copy)
    BY DEF Has, Listed
  <2>3. \A r \in Present(copy) : <<r, copy.records[r]>> \in Has(copy)
    BY DEF Has
  <2>4. ASSUME NEW c \in Has(copy)
        PROVE  (\E k \in DOMAIN ds : c[1] = ds[k].id) \/ c[1] \in Present(copy)
    BY DEF Has, Listed
  <2>5. \A i : i \in IdsOf(copy) <=> (\E k \in DOMAIN ds : i = ds[k].id) \/ i \in Present(copy)
    BY <2>1 DEF IdsOf, Present
  <2>6. ASSUME NEW i \in IdsOf(copy) PROVE \E c \in Has(copy) : c[1] = i
    <3>1. CASE \E k \in DOMAIN ds : i = ds[k].id
      <4>1. PICK k \in DOMAIN ds : i = ds[k].id
        BY <3>1
      <4>2. <<i, ds[k].value>> \in Has(copy)
        BY <2>2, <4>1
      <4> QED BY <4>2
    <3>2. CASE i \in Present(copy)
      <4>1. <<i, copy.records[i]>> \in Has(copy)
        BY <2>3, <3>2
      <4> QED BY <4>1
    <3> QED BY <2>5, <3>1, <3>2
  <2> HIDE DEF ds
  <2> QED BY <2>4, <2>5, <2>6
<1> QED BY <1>3, <1>5, <1>6, <1>7

\* A copy with one entry of an id has no other value of it.
LEMMA HasOneEach ==
    ASSUME NEW copy \in Copy, OneEach(copy)
    PROVE  /\ \A c, d \in Has(copy) : c[1] = d[1] => c = d
           /\ \A c \in Has(copy) : ValueOf(copy, c[1]) = c[2]
           /\ \A i \in IdsOf(copy) : <<i, ValueOf(copy, i)>> \in Has(copy)
<1> DEFINE ds == copy.divisions
           recs == {<<r, copy.records[r]>> : r \in Present(copy)}
<1>1. /\ ds \in Seq(Entry)
      /\ \A k \in DOMAIN ds : ds[k] \in Entry /\ ds[k].id \in Divisions /\ ds[k].id \notin Records
  BY CopyIs
<1>2. \A c \in Listed(ds) : c[1] \notin Records /\ \E k \in DOMAIN ds : c = <<ds[k].id, ds[k].value>>
  BY <1>1 DEF Listed
<1>3. \A c \in recs : c[1] \in Records /\ c = <<c[1], copy.records[c[1]]>>
  BY DEF Present
<1>4. \A c, d \in Has(copy) : c[1] = d[1] => c = d
  <2> SUFFICES ASSUME NEW c \in Has(copy), NEW d \in Has(copy), c[1] = d[1] PROVE c = d
    OBVIOUS
  <2>1. CASE c[1] \in Records
    BY <1>2, <1>3, <2>1 DEF Has
  <2>2. CASE c[1] \notin Records
    <3>1. c \in Listed(ds) /\ d \in Listed(ds)
      BY <1>3, <2>2 DEF Has
    <3>2. PICK j \in DOMAIN ds : c = <<ds[j].id, ds[j].value>>
      BY <1>2, <3>1
    <3>3. PICK k \in DOMAIN ds : d = <<ds[k].id, ds[k].value>>
      BY <1>2, <3>1
    <3>4. j = k
      BY <3>2, <3>3 DEF OneEach
    <3> QED BY <3>2, <3>3, <3>4
  <2> QED BY <2>1, <2>2
<1>5. ASSUME NEW c \in Has(copy)
      PROVE  ValueOf(copy, c[1]) = c[2]
  <2>1. CASE c \in recs
    BY <1>3, <2>1 DEF ValueOf
  <2>2. CASE c \in Listed(ds)
    <3>1. PICK k \in DOMAIN ds : c = <<ds[k].id, ds[k].value>>
      BY <1>2, <2>2
    <3>2. ds[k] \in Range(ds) /\ \A e \in Range(ds) : e.id = c[1] => e = ds[k]
      BY <3>1 DEF Range, OneEach
    <3>3. (CHOOSE e \in Range(ds) : e.id = c[1]) = ds[k]
      BY <3>1, <3>2
    <3> QED BY <1>2, <2>2, <3>1, <3>3 DEF ValueOf
  <2> QED BY <2>1, <2>2 DEF Has
<1>6. ASSUME NEW i \in IdsOf(copy)
      PROVE  <<i, ValueOf(copy, i)>> \in Has(copy)
  <2>1. PICK c \in Has(copy) : c[1] = i
    BY HasTypes
  <2>2. c = <<i, c[2]>>
    BY <2>1, HasTypes DEF Held
  <2> QED BY <1>5, <2>1, <2>2
<1> QED BY <1>4, <1>5, <1>6

\* What is reported takes the place of what was there.
LEMMA ReportIs ==
    ASSUME NEW copy \in Copy, NEW h \in Held \cup {NotHeld}
    PROVE  LET w == Report(copy, h) IN
           /\ w \in Copy
           /\ OneEach(copy) => OneEach(w)
           /\ IdsOf(w) = IdsOf(copy)
           /\ \A c \in Has(w) : \/ c \in Has(copy)
                                \/ h # NotHeld /\ c = h /\ h[1] \in IdsOf(copy)
           /\ \A r \in Records : w.records[r] = Gone <=> copy.records[r] = Gone
<1> DEFINE w == Report(copy, h)
           ds == copy.divisions
<1>1. /\ ds \in Seq(Entry) /\ copy.records \in [Records -> Value \cup {Gone}]
      /\ copy = [divisions |-> ds, records |-> copy.records]
      /\ \A k \in DOMAIN ds : ds[k] \in Entry /\ ds[k].id \in Divisions /\ ds[k].id \notin Records
  BY CopyIs
<1>2. CASE h = NotHeld \/ h[1] \notin IdsOf(copy)
  <2>1. w = copy
    BY <1>2 DEF Report
  <2> QED BY <2>1
<1>3. CASE h # NotHeld /\ h[1] \in IdsOf(copy) /\ h[1] \in Records
  <2>1. h[2] \in Value /\ h = <<h[1], h[2]>> /\ h[2] # Gone
    BY <1>3 DEF Held, Value
  <2>2. w = [copy EXCEPT !.records = [copy.records EXCEPT ![h[1]] = h[2]]]
    BY <1>3 DEF Report
  <2>3. /\ w.divisions = ds /\ w.records = [copy.records EXCEPT ![h[1]] = h[2]] /\ w \in Copy
    BY <1>1, <2>1, <2>2 DEF Copy
  <2> HIDE DEF w, ds
  <2>4. copy.records[h[1]] # Gone
    BY <1>1, <1>3 DEF IdsOf, Range, ds
  <2>5. /\ \A r \in Records : w.records[r] = IF r = h[1] THEN h[2] ELSE copy.records[r]
        /\ Present(w) = Present(copy)
    BY <1>1, <1>3, <2>1, <2>3, <2>4 DEF Present
  <2>6. IdsOf(w) = IdsOf(copy)
    BY <2>3, <2>5 DEF IdsOf, Present, ds
  <2>7. OneEach(copy) => OneEach(w)
    BY <2>3 DEF OneEach, ds
  <2>8. \A c \in Has(w) : c \in Has(copy) \/ c = h
    BY <2>1, <2>3, <2>5 DEF Has, Present, ds
  <2> QED BY <1>3, <2>1, <2>3, <2>4, <2>5, <2>6, <2>7, <2>8 DEF w
<1>4. CASE h # NotHeld /\ h[1] \in IdsOf(copy) /\ h[1] \notin Records
  <2> DEFINE n == Len(ds)
             es == [k \in 1..n |-> IF ds[k].id = h[1] THEN [ds[k] EXCEPT !.value = h[2]] ELSE ds[k]]
  <2>1. h[2] \in Value /\ h = <<h[1], h[2]>>
    BY <1>4 DEF Held
  <2>2. w = [copy EXCEPT !.divisions = [k \in DOMAIN ds |->
                IF ds[k].id = h[1] THEN [ds[k] EXCEPT !.value = h[2]] ELSE ds[k]]]
    BY <1>4 DEF Report
  <2>3. n \in Nat /\ DOMAIN ds = 1..n
    BY <1>1
  <2>4. w.divisions = es /\ w.records = copy.records
    BY <1>1, <2>2, <2>3
  <2>5. \A k \in 1..n : /\ es[k] \in Entry /\ es[k].id = ds[k].id
                        /\ es[k].value = IF ds[k].id = h[1] THEN h[2] ELSE ds[k].value
    BY <1>1, <2>1, <2>3 DEF Entry
  <2>6. DOMAIN es = 1..n
    OBVIOUS
  <2>7. es \in Seq(Entry)
    BY <2>3, <2>5, SequenceIs
  <2>8. w \in Copy
    <3>1. w = [divisions |-> es, records |-> copy.records]
      BY <1>1, <2>2, <2>3
    <3> QED BY <1>1, <2>7, <3>1 DEF Copy
  <2> HIDE DEF w, ds, n, es
  <2>9. OneEach(copy) => OneEach(w)
    BY <2>3, <2>4, <2>5, <2>6 DEF OneEach, ds
  <2>10. IdsOf(w) = IdsOf(copy)
    <3>1. {e.id : e \in Range(es)} = {e.id : e \in Range(ds)}
      BY <2>3, <2>5, <2>6 DEF Range
    <3> QED BY <2>4, <3>1 DEF IdsOf, ds
  <2>11. \A c \in Listed(es) : c \in Listed(ds) \/ c = h
    BY <2>1, <2>3, <2>5, <2>6 DEF Listed
  <2>12. \A c \in Has(w) : c \in Has(copy) \/ c = h
    BY <2>4, <2>11 DEF Has, Present, ds
  <2> QED BY <1>4, <2>4, <2>8, <2>9, <2>10, <2>12 DEF w
<1> QED BY <1>2, <1>3, <1>4

\* What is removed goes, and the rest stays.
LEMMA WithoutIs ==
    ASSUME NEW copy \in Copy, NEW i \in Ids
    PROVE  LET w == Without(copy, i) IN
           /\ w \in Copy
           /\ OneEach(copy) => OneEach(w)
           /\ Has(w) = {c \in Has(copy) : c[1] # i}
           /\ \A r \in Records \ {i} : w.records[r] = copy.records[r]
<1> DEFINE w == Without(copy, i)
           ds == copy.divisions
<1>1. /\ ds \in Seq(Entry) /\ copy.records \in [Records -> Value \cup {Gone}]
      /\ copy = [divisions |-> ds, records |-> copy.records]
      /\ \A k \in DOMAIN ds : ds[k] \in Entry /\ ds[k].id \in Divisions /\ ds[k].id \notin Records
  BY CopyIs
<1>2. CASE i \in Records
  <2>1. w = [copy EXCEPT !.records = [copy.records EXCEPT ![i] = Gone]]
    BY <1>2 DEF Without
  <2>2. w.divisions = ds /\ w.records = [copy.records EXCEPT ![i] = Gone] /\ w \in Copy
    BY <1>1, <2>1 DEF Copy
  <2> HIDE DEF w, ds
  <2>3. /\ \A r \in Records : w.records[r] = IF r = i THEN Gone ELSE copy.records[r]
        /\ Present(w) = Present(copy) \ {i}
    BY <1>1, <1>2, <2>2 DEF Present
  <2>4. \A c \in Listed(ds) : c[1] # i
    BY <1>1, <1>2 DEF Listed
  <2>5. Has(w) = {c \in Has(copy) : c[1] # i}
    BY <2>2, <2>3, <2>4 DEF Has, ds
  <2>6. OneEach(copy) => OneEach(w)
    BY <2>2 DEF OneEach, ds
  <2> QED BY <2>2, <2>3, <2>5, <2>6 DEF w
<1>3. CASE i \notin Records
  <2>a. PICK N \in Nat : DOMAIN ds = 1..N
    BY <1>1
  <2>b. PICK kept \in SUBSET (1..N) : kept = {k \in DOMAIN ds : ds[k].id # i}
    BY <2>a
  <2> DEFINE size == Cardinality(kept)
             es == Filtered(ds, i)
  <2>2. /\ size \in Nat
        /\ \A k \in 1..size : Nth(kept, k) \in kept /\ Cardinality({j \in kept : j <= Nth(kept, k)}) = k
        /\ \A k \in kept : \E m \in 1..size : Nth(kept, m) = k
    BY NthIs
  <2>3. es = [k \in 1..size |-> ds[Nth(kept, k)]]
    BY <2>b DEF Filtered
  <2>4. w = [copy EXCEPT !.divisions = es]
    BY <1>3 DEF Without
  <2> HIDE DEF size, es
  <2>5. \A k \in 1..size : es[k] = ds[Nth(kept, k)] /\ Nth(kept, k) \in kept
    BY <2>2, <2>3
  <2>6. \A k \in kept : k \in DOMAIN ds /\ ds[k].id # i
    BY <2>b
  <2>7. es \in Seq(Entry) /\ DOMAIN es = 1..size
    <3>1. es \in [1..size -> Entry]
      BY <1>1, <2>3, <2>5, <2>6
    <3> QED BY <2>2, <3>1, SequenceIs
  <2>8. w = [divisions |-> es, records |-> copy.records]
    BY <1>1, <2>4
  <2>9. w \in Copy /\ w.divisions = es /\ w.records = copy.records
    BY <1>1, <2>7, <2>8 DEF Copy
  <2> HIDE DEF w, ds
  <2>10. Listed(es) = {c \in Listed(ds) : c[1] # i}
    <3>1. ASSUME NEW c \in Listed(es) PROVE c \in Listed(ds) /\ c[1] # i
      <4>1. PICK m \in 1..size : c = <<es[m].id, es[m].value>>
        BY <2>7, <3>1 DEF Listed
      <4>2. PICK k \in kept : es[m] = ds[k]
        BY <2>5
      <4>3. c = <<ds[k].id, ds[k].value>>
        BY <4>1, <4>2
      <4> QED BY <2>6, <4>3 DEF Listed
    <3>2. ASSUME NEW c \in Listed(ds), c[1] # i PROVE c \in Listed(es)
      <4>1. PICK k \in DOMAIN ds : c = <<ds[k].id, ds[k].value>>
        BY <3>2 DEF Listed
      <4>2. k \in kept
        BY <2>b, <3>2, <4>1
      <4>3. PICK m \in 1..size : Nth(kept, m) = k
        BY <2>2, <4>2
      <4> QED BY <2>5, <2>7, <4>1, <4>3 DEF Listed
    <3> QED BY <3>1, <3>2
  <2>11. Has(w) = {c \in Has(copy) : c[1] # i}
    <3>1. {c \in {<<r, copy.records[r]>> : r \in Present(copy)} : c[1] # i} = {<<r, copy.records[r]>> : r \in Present(copy)}
      BY <1>3 DEF Present
    <3> QED BY <2>9, <2>10, <3>1 DEF Has, Present, ds
  <2>12. OneEach(copy) => OneEach(w)
    <3>1. ASSUME OneEach(copy), NEW j \in 1..size, NEW k \in 1..size, es[j].id = es[k].id
          PROVE  j = k
      <4>1. /\ Nth(kept, j) \in DOMAIN ds /\ Nth(kept, k) \in DOMAIN ds
            /\ ds[Nth(kept, j)].id = ds[Nth(kept, k)].id
        BY <2>5, <2>6, <3>1
      <4>2. Nth(kept, j) = Nth(kept, k)
        BY <3>1, <4>1 DEF OneEach, ds
      <4> QED BY <2>2, <4>2
    <3> QED BY <2>7, <2>9, <3>1 DEF OneEach
  <2> QED BY <2>9, <2>11, <2>12 DEF w
<1> QED BY <1>2, <1>3

-----------------------------------------------------------------------------
(***************************************************************************)
(* Requests, and the lists of them.                                        *)
(***************************************************************************)
Ats == {"sent", "done", "failed", "refused"}

\* The same request, but for who waits for it.
Like(q, r) ==
    q.what = r.what /\ q.id = r.id /\ q.value = r.value /\ q.copy = r.copy
        /\ q.sources = r.sources /\ q.at = r.at

\* t is s, in its order, without some of it.
Thinned(t, s) ==
    \E up \in [DOMAIN t -> DOMAIN s] :
        /\ \A j, k \in DOMAIN t : j < k => up[j] < up[k]
        /\ \A k \in DOMAIN t : Like(t[k], s[up[k]])

LEMMA RequestTypes ==
    ASSUME NEW q \in Request
    PROVE  /\ \A b \in BOOLEAN : [q EXCEPT !.inFlight = b] \in Request /\ Like([q EXCEPT !.inFlight = b], q)
           /\ \A a \in Awaited : [q EXCEPT !.awaited = a] \in Request /\ Like([q EXCEPT !.awaited = a], q)
           /\ \A at \in Ats : [q EXCEPT !.at = at] \in Request
BY DEF Request, Like, Ats

LEMMA MapIsThinned ==
    ASSUME NEW s \in Seq(Request), NEW f, \A k \in DOMAIN s : f[k] \in Request /\ Like(f[k], s[k]),
           NEW t, t = [k \in DOMAIN s |-> f[k]]
    PROVE  t \in Seq(Request) /\ Thinned(t, s) /\ Len(t) = Len(s)
<1>1. DOMAIN s = 1..Len(s) /\ Len(s) \in Nat
  OBVIOUS
<1>2. t \in [1..Len(s) -> Request]
  BY <1>1
<1>3. t \in Seq(Request) /\ Len(t) = Len(s)
  BY <1>1, <1>2, SequenceIs
<1> DEFINE up == [k \in DOMAIN s |-> k]
<1>4. DOMAIN t = DOMAIN s /\ up \in [DOMAIN t -> DOMAIN s] /\ \A k \in DOMAIN t : up[k] = k
  OBVIOUS
<1> HIDE DEF up
<1>5. Thinned(t, s)
  BY <1>4 DEF Thinned
<1> QED BY <1>3, <1>5

LEMMA SupersededIs ==
    ASSUME NEW s \in Seq(Request)
    PROVE  Superseded(s) \in Seq(Request) /\ Thinned(Superseded(s), s)
<1> DEFINE f == [k \in DOMAIN s |-> [s[k] EXCEPT !.inFlight = FALSE]]
<1>1. \A k \in DOMAIN s : f[k] \in Request /\ Like(f[k], s[k])
  <2> TAKE k \in DOMAIN s
  <2>1. s[k] \in Request /\ f[k] = [s[k] EXCEPT !.inFlight = FALSE]
    OBVIOUS
  <2> HIDE DEF f
  <2> QED BY <2>1, RequestTypes
<1>2. Superseded(s) = [k \in DOMAIN s |-> f[k]]
  BY DEF Superseded
<1> HIDE DEF f
<1> QED BY <1>1, <1>2, MapIsThinned

LEMMA SameIsThinned ==
    ASSUME NEW s \in Seq(Request)
    PROVE  Thinned(s, s)
<1> DEFINE up == [k \in DOMAIN s |-> k]
<1>1. up \in [DOMAIN s -> DOMAIN s] /\ \A k \in DOMAIN s : up[k] = k
  OBVIOUS
<1> HIDE DEF up
<1> QED BY <1>1 DEF Thinned, Like

LEMMA RemovedIsThinned ==
    ASSUME NEW s \in Seq(Request), NEW k \in DOMAIN s
    PROVE  RemoveAt(s, k) \in Seq(Request) /\ Thinned(RemoveAt(s, k), s)
<1> DEFINE t == RemoveAt(s, k)
           n == Len(s) - 1
           up == [m \in 1..n |-> IF m < k THEN m ELSE m + 1]
<1>1. /\ t \in Seq(Request) /\ DOMAIN t = 1..n
      /\ \A m \in 1..n : t[m] = s[up[m]]
  BY RemoveAtIs
<1>2. DOMAIN s = 1..Len(s) /\ Len(s) \in Nat /\ k \in 1..Len(s)
  OBVIOUS
<1>3. up \in [DOMAIN t -> DOMAIN s]
  BY <1>1, <1>2
<1>4. \A i, j \in DOMAIN t : i < j => up[i] < up[j]
  BY <1>1, <1>2
<1>5. \A m \in DOMAIN t : Like(t[m], s[up[m]])
  BY <1>1 DEF Like
<1> HIDE DEF t, up, n
<1> QED BY <1>1, <1>3, <1>4, <1>5 DEF Thinned, t

LEMMA ThinnedTwice ==
    ASSUME NEW s, NEW t, NEW u, Thinned(t, s), Thinned(u, t)
    PROVE  Thinned(u, s)
<1>1. PICK f \in [DOMAIN t -> DOMAIN s] :
        /\ \A j, k \in DOMAIN t : j < k => f[j] < f[k]
        /\ \A k \in DOMAIN t : Like(t[k], s[f[k]])
  BY DEF Thinned
<1>2. PICK g \in [DOMAIN u -> DOMAIN t] :
        /\ \A j, k \in DOMAIN u : j < k => g[j] < g[k]
        /\ \A k \in DOMAIN u : Like(u[k], t[g[k]])
  BY DEF Thinned
<1> DEFINE h == [k \in DOMAIN u |-> f[g[k]]]
<1>3. h \in [DOMAIN u -> DOMAIN s] /\ \A k \in DOMAIN u : h[k] = f[g[k]] /\ g[k] \in DOMAIN t
  OBVIOUS
<1> HIDE DEF h
<1>4. \A j, k \in DOMAIN u : j < k => h[j] < h[k]
  BY <1>1, <1>2, <1>3
<1>5. \A k \in DOMAIN u : Like(u[k], s[h[k]])
  BY <1>1, <1>2, <1>3 DEF Like
<1> QED BY <1>3, <1>4, <1>5 DEF Thinned

LEMMA SaveTypes ==
    ASSUME NEW copy \in Copy, NEW baseline \in Copy, NEW awaited \in Awaited
    PROVE  SaveOf(copy, baseline, awaited) \in Request
<1>1. ChangedSources(copy, baseline) \in SUBSET Records
  BY DEF ChangedSources
<1>2. Root \in Ids /\ 0 \in Value
  BY DEF Ids, Divisions, Value
<1> HIDE DEF SaveOf
<1> QED BY <1>1, <1>2 DEF SaveOf, Request

LEMMA CallTypes ==
    ASSUME NEW what \in {"create", "write", "destroy"}, NEW i \in Ids, NEW v \in Value
    PROVE  Call(what, i, v) \in Request
<1>1. NoCopy \in Copy
  <2>1. <<>> \in Seq(Entry) /\ [r \in Records |-> Gone] \in [Records -> Value \cup {Gone}]
    OBVIOUS
  <2> QED BY <2>1 DEF NoCopy, Copy
<1>2. "no" \in Awaited
  BY DEF Awaited
<1> QED BY <1>1, <1>2 DEF Call, Request

-----------------------------------------------------------------------------
(***************************************************************************)
(* Types, one step per kind of action.  Only divisions are created.        *)
(***************************************************************************)
CreatesDivisions == \A k \in DOMAIN requests : requests[k].what = "create" => requests[k].id \in Others

Typed == TypeOK /\ CreatesDivisions

Statuses == {"saved", "unsaved", "saving", "error"}
Pages == {"open", "closed", "warned"}
Rows == [has: [Ids -> Value \cup {Gone}], current: BOOLEAN]

LEMMA TypesOf ==
    ASSUME TypeOK
    PROVE  /\ held \in Held \cup {NotHeld} /\ working \in Copy /\ snapshot \in Copy
           /\ rows \in Rows /\ rows.has \in [Ids -> Value \cup {Gone}] /\ rows.current \in BOOLEAN
           /\ requests \in Seq(Request) /\ \A k \in DOMAIN requests : requests[k] \in Request
           /\ status \in Statuses /\ outdated \in BOOLEAN /\ page \in Pages
           /\ edits \in Value /\ faults \in 0..MaxFaults
           /\ past \in Past /\ past.removed \subseteq Ids /\ past.destroyed \subseteq Ids
           /\ past.unsent \subseteq Others
BY DEF TypeOK, Rows, Past, Statuses, Pages

LEMMA NoteTypes == ASSUME TypeOK PROVE Noted \in Statuses
BY DEF Noted, TypeOK, Statuses

LEMMA FlushedTypes == ASSUME TypeOK PROVE Flushed \in Copy /\ IdsOf(Flushed) = IdsOf(working)
<1>1. held \in Held \cup {NotHeld} /\ working \in Copy
  BY TypesOf
<1> QED BY <1>1, ReportIs DEF Flushed

LEMMA OtherDivisions ==
    ASSUME NEW copy \in Copy, NEW es
    PROVE  [copy EXCEPT !.divisions = es] = [divisions |-> es, records |-> copy.records]
BY DEF Copy

\* A division more.
Grown(copy, d, v) ==
    [divisions |-> Append(copy.divisions, [id |-> d, value |-> v]), records |-> copy.records]

LEMMA GrownIs ==
    ASSUME NEW copy \in Copy, NEW d \in Others, NEW v \in Value
    PROVE  /\ [copy EXCEPT !.divisions = Append(@, [id |-> d, value |-> v])] = Grown(copy, d, v)
           /\ [copy EXCEPT !.divisions = @ \o <<[id |-> d, value |-> v]>>] = Grown(copy, d, v)
<1> DEFINE e == [id |-> d, value |-> v]
           es == Append(copy.divisions, e)
<1>1. copy.divisions \in Seq(Entry)
  BY CopyIs
<1>2. e \in Entry
  BY DEF Entry, Divisions
<1> HIDE DEF e
<1>3. copy.divisions \o <<e>> = es
  BY <1>1, <1>2
<1> HIDE DEF es
<1>4. [copy EXCEPT !.divisions = es] = [divisions |-> es, records |-> copy.records]
  BY OtherDivisions
<1>5. [copy EXCEPT !.divisions = Append(@, e)] = [copy EXCEPT !.divisions = es]
  BY DEF es
<1>6. [copy EXCEPT !.divisions = @ \o <<e>>] = [copy EXCEPT !.divisions = es]
  BY <1>3
<1> QED BY <1>4, <1>5, <1>6 DEF e, es, Grown

LEMMA OneMore ==
    ASSUME NEW copy \in Copy, NEW d \in Others, NEW v \in Value
    PROVE  /\ Grown(copy, d, v) \in Copy
           /\ Has(Grown(copy, d, v)) = Has(copy) \cup {<<d, v>>}
           /\ Grown(copy, d, v).records = copy.records
           /\ OneEach(copy) /\ d \notin IdsOf(copy) => OneEach(Grown(copy, d, v))
<1> DEFINE ds == copy.divisions
           e == [id |-> d, value |-> v]
           es == Append(ds, e)
           w == Grown(copy, d, v)
<1>1. /\ ds \in Seq(Entry) /\ copy.records \in [Records -> Value \cup {Gone}]
      /\ copy = [divisions |-> ds, records |-> copy.records]
  BY CopyIs
<1>2. e \in Entry /\ e.id = d /\ e.value = v
  BY DEF Entry, Divisions
<1>3. es = Append(ds, e) /\ w = [divisions |-> es, records |-> copy.records]
  BY DEF Grown
<1> HIDE DEF ds, e, es
<1>4. /\ es \in Seq(Entry) /\ DOMAIN es = 1..(Len(ds) + 1) /\ DOMAIN ds = 1..Len(ds) /\ Len(ds) \in Nat
      /\ es[Len(ds) + 1] = e /\ \A k \in DOMAIN ds : es[k] = ds[k]
  <2>1. DOMAIN ds = 1..Len(ds) /\ Len(ds) \in Nat
    BY <1>1
  <2>2. Append(ds, e) \in Seq(Entry) /\ Len(Append(ds, e)) = Len(ds) + 1
    BY <1>1, <1>2
  <2>3. \A k \in 1..Len(ds) : Append(ds, e)[k] = ds[k]
    BY <1>1, <1>2
  <2>4. Append(ds, e)[Len(ds) + 1] = e
    BY <1>1, <1>2
  <2> QED BY <1>3, <2>1, <2>2, <2>3, <2>4
<1> HIDE DEF w
<1>6. w \in Copy /\ w.divisions = es /\ w.records = copy.records
  BY <1>1, <1>3, <1>4 DEF Copy
<1>7. Listed(es) = Listed(ds) \cup {<<d, v>>}
  <2>1. \A k \in DOMAIN es : k \in DOMAIN ds \/ k = Len(ds) + 1
    BY <1>4
  <2>2. \A k \in DOMAIN ds : k \in DOMAIN es
    BY <1>4
  <2>3. Len(ds) + 1 \in DOMAIN es
    BY <1>4
  <2>4. ASSUME NEW c \in Listed(es) PROVE c \in Listed(ds) \cup {<<d, v>>}
    <3>1. PICK k \in DOMAIN es : c = <<es[k].id, es[k].value>>
      BY DEF Listed
    <3> QED BY <1>2, <1>4, <2>1, <3>1 DEF Listed
  <2>5. ASSUME NEW c \in Listed(ds) PROVE c \in Listed(es)
    <3>1. PICK k \in DOMAIN ds : c = <<ds[k].id, ds[k].value>>
      BY DEF Listed
    <3>2. c = <<es[k].id, es[k].value>> /\ k \in DOMAIN es
      BY <1>4, <2>2, <3>1
    <3> QED BY <3>2 DEF Listed
  <2>6. <<d, v>> = <<es[Len(ds) + 1].id, es[Len(ds) + 1].value>>
    BY <1>2, <1>4
  <2> QED BY <2>3, <2>4, <2>5, <2>6 DEF Listed
<1>8. Has(w) = Has(copy) \cup {<<d, v>>}
  BY <1>6, <1>7 DEF Has, Present, ds
<1>9. ASSUME OneEach(copy), d \notin IdsOf(copy) PROVE OneEach(w)
  <2>1. \A j, k \in DOMAIN ds : ds[j].id = ds[k].id => j = k
    BY <1>9 DEF OneEach, ds
  <2>2. \A k \in DOMAIN ds : ds[k].id # d
    BY <1>9 DEF IdsOf, Range, ds
  <2>3. \A k \in DOMAIN es : k \in DOMAIN ds \/ (k = Len(ds) + 1 /\ es[k].id = d)
    BY <1>2, <1>4
  <2>4. \A j, k \in DOMAIN es : es[j].id = es[k].id => j = k
    <3> TAKE j, k \in DOMAIN es
    <3> HAVE es[j].id = es[k].id
    <3>1. CASE j \in DOMAIN ds /\ k \in DOMAIN ds
      BY <1>4, <2>1, <3>1
    <3>2. CASE j \in DOMAIN ds /\ k = Len(ds) + 1
      BY <1>2, <1>4, <2>2, <3>2
    <3>3. CASE k \in DOMAIN ds /\ j = Len(ds) + 1
      BY <1>2, <1>4, <2>2, <3>3
    <3> QED BY <2>3, <3>1, <3>2, <3>3
  <2> QED BY <1>6, <2>4 DEF OneEach
<1> QED BY <1>6, <1>8, <1>9 DEF w

LEMMA RecordPut ==
    ASSUME NEW copy \in Copy, NEW r \in Records, NEW v \in Value
    PROVE  LET w == [copy EXCEPT !.records[r] = v] IN
           /\ w \in Copy /\ w.divisions = copy.divisions
           /\ w.records[r] = v /\ \A s \in Records \ {r} : w.records[s] = copy.records[s]
           /\ Has(w) \subseteq Has(copy) \cup {<<r, v>>}
<1> DEFINE w == [copy EXCEPT !.records[r] = v]
<1>1. copy.divisions \in Seq(Entry) /\ copy.records \in [Records -> Value \cup {Gone}]
  BY CopyIs
<1>2. w.divisions = copy.divisions /\ w.records = [copy.records EXCEPT ![r] = v]
  BY DEF Copy
<1>3. w \in Copy
  BY <1>1 DEF Copy
<1>4. w.records[r] = v /\ \A s \in Records \ {r} : w.records[s] = copy.records[s]
  BY <1>1, <1>2
<1> HIDE DEF w
<1>5. Has(w) \subseteq Has(copy) \cup {<<r, v>>}
  BY <1>2, <1>4 DEF Has, Present
<1> QED BY <1>2, <1>3, <1>4, <1>5 DEF w

\* What the author has of a division, and what is noted of one's creation.
LEMMA NowTypes == ASSUME TypeOK, NEW d \in Others PROVE Now(d) \in Value
<1>1. working \in Copy /\ d \notin Records /\ 0 \in Value
  BY TypesOf, NamesAssumption DEF Value
<1>2. CASE d \notin IdsOf(working)
  BY <1>1, <1>2 DEF Now
<1>3. CASE d \in IdsOf(working)
  <2>1. working.divisions \in Seq(Entry)
    BY <1>1, CopyIs
  <2>2. Range(working.divisions) \subseteq Entry
    BY <2>1 DEF Range
  <2>3. \E e \in Range(working.divisions) : e.id = d
    BY <1>1, <1>3 DEF IdsOf
  <2> DEFINE e == CHOOSE e \in Range(working.divisions) : e.id = d
  <2>4. e \in Range(working.divisions)
    BY <2>3
  <2>5. Now(d) = e.value
    BY <1>1, <1>3 DEF Now, ValueOf
  <2> HIDE DEF e
  <2> QED BY <2>2, <2>4, <2>5 DEF Entry
<1> QED BY <1>2, <1>3

Noticed(q) == [past EXCEPT !.unsent = Unsent(q)]

LEMMA NoticedIs ==
    ASSUME Typed, NEW k \in DOMAIN requests
    PROVE  /\ Noticed(requests[k]) \in Past
           /\ Noticed(requests[k]).removed = past.removed
           /\ Noticed(requests[k]).destroyed = past.destroyed
           /\ Noticed(requests[k]).unsent = Unsent(requests[k])
<1> DEFINE q == requests[k]
<1>1. q \in Request /\ past \in Past /\ past.unsent \subseteq Others
  BY TypesOf DEF Typed
<1>2. q.what \in {"save", "create", "write", "destroy"} /\ (q.what = "create" => q.id \in Others)
  BY <1>1 DEF Request, Typed, CreatesDivisions
<1> HIDE DEF q
<1>3. Unsent(q) \subseteq Others
  <2>1. CASE q.at # "done"
    BY <1>1, <2>1 DEF Unsent
  <2>2. CASE q.at = "done" /\ q.what = "save"
    BY <2>2 DEF Unsent
  <2>3. CASE q.at = "done" /\ q.what = "create"
    BY <1>1, <1>2, <2>3 DEF Unsent
  <2>4. CASE q.at = "done" /\ q.what \in {"write", "destroy"}
    BY <1>1, <2>4 DEF Unsent
  <2> QED BY <1>2, <2>1, <2>2, <2>3, <2>4
<1> HIDE DEF Unsent
<1>4. /\ Noticed(q) \in Past /\ Noticed(q).removed = past.removed
      /\ Noticed(q).destroyed = past.destroyed /\ Noticed(q).unsent = Unsent(q)
  BY <1>1, <1>3 DEF Noticed, Past
<1> QED BY <1>4 DEF q

LEMMA SnapshotTypes ==
    ASSUME Typed, NEW k \in DOMAIN requests
    PROVE  Snapshot(requests[k]) \in Copy
<1> DEFINE q == requests[k]
<1>1. q \in Request /\ snapshot \in Copy
  BY TypesOf DEF Typed
<1>2. q.what \in {"save", "create", "write", "destroy"} /\ q.copy \in Copy /\ q.value \in Value
  BY <1>1 DEF Request
<1>3. q.what = "create" => q.id \in Others
  BY DEF Typed, CreatesDivisions
<1>4. q.what = "create" => [snapshot EXCEPT !.divisions = @ \o Created(q.id)] \in Copy
  <2>1. q.what = "create" => Now(q.id) \in Value
    BY <1>3, NowTypes DEF Typed
  <2>2. q.what = "create" =>
            [snapshot EXCEPT !.divisions = @ \o Created(q.id)] = Grown(snapshot, q.id, Now(q.id))
    BY <1>1, <1>3, <2>1, GrownIs DEF Created
  <2> QED BY <1>1, <1>3, <2>1, <2>2, OneMore
<1>5. [snapshot EXCEPT !.records[q.id] = q.value] \in Copy
  BY <1>1, <1>2 DEF Copy
<1> HIDE DEF q
<1>6. Snapshot(q) \in Copy
  BY <1>1, <1>2, <1>4, <1>5 DEF Snapshot, AfterSave
<1> QED BY <1>6 DEF q

LEMMA AppliedTypes ==
    ASSUME TypeOK, NEW q \in Request
    PROVE  Applied(q) \in [Ids -> Value \cup {Gone}]
<1>1. rows.has \in [Ids -> Value \cup {Gone}]
  BY TypesOf
<1>2. /\ q.what \in {"save", "create", "write", "destroy"} /\ q.copy \in Copy /\ q.value \in Value
      /\ q.id \in Ids /\ q.sources \subseteq Records
  BY DEF Request
<1>3. q.copy.divisions \in Seq(Entry) /\ q.copy.records \in [Records -> Value \cup {Gone}]
  BY <1>2, CopyIs
<1>4. Range(q.copy.divisions) \subseteq Entry
  BY <1>3 DEF Range
<1>5. ASSUME NEW i \in Ids, \E e \in Range(q.copy.divisions) : e.id = i
      PROVE  ValueOf(q.copy, i) \in Value
  <2>1. i \notin Records
    BY <1>4, <1>5 DEF Entry, Divisions
  <2> DEFINE e == CHOOSE e \in Range(q.copy.divisions) : e.id = i
  <2>2. e \in Range(q.copy.divisions)
    BY <1>5
  <2> HIDE DEF e
  <2>3. e.value \in Value
    BY <1>4, <2>2 DEF Entry
  <2> QED BY <2>1, <2>3 DEF ValueOf, e
<1>6. CASE q.what = "save"
  BY <1>1, <1>3, <1>2, <1>5, <1>6 DEF Applied
<1>7. CASE q.what \in {"create", "write"}
  BY <1>1, <1>2, <1>7 DEF Applied
<1>8. CASE q.what = "destroy"
  BY <1>1, <1>2, <1>8 DEF Applied
<1> QED BY <1>2, <1>6, <1>7, <1>8

\* What Send leaves behind.
LEMMA Sending ==
    ASSUME TypeOK, NEW hard, NEW awaited \in Awaited, NEW baseline \in Copy, NEW others \in Seq(Request),
           Send(hard, awaited, baseline, others)
    PROVE  /\ held' = NotHeld /\ working' = Flushed /\ status' \in Statuses
           /\ requests' \in Seq(Request)
           /\ \E base \in Seq(Request) :
                /\ Thinned(base, others)
                /\ \/ requests' = base
                   \/ requests' = Append(base, SaveOf(Flushed, baseline, awaited))
<1>1. Flushed \in Copy
  BY FlushedTypes
<1>2. SaveOf(Flushed, baseline, awaited) \in Request
  BY <1>1, SaveTypes
<1>3. Superseded(others) \in Seq(Request) /\ Thinned(Superseded(others), others) /\ Thinned(others, others)
  BY SupersededIs, SameIsThinned
<1>4. Append(Superseded(others), SaveOf(Flushed, baseline, awaited)) \in Seq(Request)
  BY <1>2, <1>3
<1> HIDE DEF Superseded, SaveOf
<1> QED BY <1>3, <1>4 DEF Send, Statuses

-----------------------------------------------------------------------------
(***************************************************************************)
(* What the client's actions have in common: the copies move in one of     *)
(* three ways, and what is sent afterwards speaks of the copies as they    *)
(* are then.                                                               *)
(***************************************************************************)
Honest(q, w, s, g) ==
    /\ q.at = "sent"
    /\ q.what = "save" => q.copy = w /\ q.sources = ChangedSources(w, s)
    /\ q.what = "create" => q.id \in Others /\ q.value = 0
    /\ q.what = "write" => q.id \in Records
    /\ q.what \in {"create", "write"} => <<q.id, q.value>> \in Has(w)
    /\ q.what = "destroy" => q.id \in g.removed

Asks(w, s, g) ==
    \E base \in Seq(Request) :
        /\ Thinned(base, requests)
        /\ requests' = base \/ \E q \in Request : Honest(q, w, s, g) /\ requests' = Append(base, q)

Reports ==
    /\ working' \in {working, Flushed}
    /\ \/ snapshot' = snapshot /\ past' = past
       \/ \E k \in DOMAIN requests :
            snapshot' = Snapshot(requests[k]) /\ past' = Noticed(requests[k])

Adds(d) ==
    /\ d \notin IdsOf(working) \cup past.removed
    /\ working' = Grown(working, d, 0)
    /\ UNCHANGED <<snapshot, past>>

Removes(i) ==
    /\ working' = Without(working, i) /\ snapshot' = Without(snapshot, i)
    /\ past' = [past EXCEPT !.removed = @ \cup {i}]

Holds ==
    /\ edits <= edits'
    /\ \/ held' = NotHeld
       \/ held' = held /\ edits' = edits
       \/ held'[2] = edits' \/ "undo" \in Env

ClientStep ==
    /\ page = "open" /\ rows' = rows
    /\ Asks(working', snapshot', past')
    /\ Reports \/ (\E d \in Others : Adds(d)) \/ (\E i \in Ids : Removes(i))
    /\ Holds
    /\ page' = "closed" => held' = NotHeld /\ ~Dirty(working', snapshot')

\* Nothing is sent.
LEMMA AsksNothing ==
    ASSUME TypeOK, requests' = requests
    PROVE  Asks(working', snapshot', past')
<1>1. requests \in Seq(Request)
  BY TypesOf
<1> QED BY <1>1, SameIsThinned DEF Asks

\* A call is sent.
LEMMA AsksCall ==
    ASSUME TypeOK, NEW what \in {"create", "write", "destroy"}, NEW i \in Ids, NEW v \in Value,
           NEW w, NEW s, NEW g,
           Honest(Call(what, i, v), w, s, g), requests' = Append(requests, Call(what, i, v))
    PROVE  Asks(w, s, g) /\ requests' \in Seq(Request)
<1>1. requests \in Seq(Request) /\ Call(what, i, v) \in Request
  BY TypesOf, CallTypes
<1>2. Thinned(requests, requests)
  BY <1>1, SameIsThinned
<1>3. Append(requests, Call(what, i, v)) \in Seq(Request)
  BY <1>1
<1> HIDE DEF Call
<1> QED BY <1>1, <1>2, <1>3 DEF Asks

\* What Send sends.
LEMMA AsksSave ==
    ASSUME TypeOK, NEW hard, NEW awaited \in Awaited, NEW baseline \in Copy, NEW others \in Seq(Request),
           Thinned(others, requests), Send(hard, awaited, baseline, others), snapshot' = baseline
    PROVE  Asks(working', snapshot', past') /\ requests' \in Seq(Request)
<1>1. PICK base \in Seq(Request) :
        /\ Thinned(base, others)
        /\ \/ requests' = base
           \/ requests' = Append(base, SaveOf(Flushed, baseline, awaited))
  BY Sending
<1>2. Thinned(base, requests)
  BY <1>1, ThinnedTwice
<1> DEFINE q == SaveOf(Flushed, baseline, awaited)
<1>3. q \in Request
  BY FlushedTypes, SaveTypes
<1>4. working' = Flushed /\ requests' \in Seq(Request)
  BY Sending
<1>5. Honest(q, working', snapshot', past')
  BY <1>4 DEF Honest, SaveOf
<1> HIDE DEF q
<1>6. requests' = base \/ requests' = Append(base, q)
  BY <1>1 DEF q
<1> QED BY <1>2, <1>3, <1>4, <1>5, <1>6 DEF Asks

LEMMA TypeType ==
    ASSUME Typed, NEW i \in Ids, Type(i)
    PROVE  TypeOK' /\ ClientStep
<1> USE DEF Typed
<1>1. edits' = edits + 1 /\ edits' \in Value /\ edits <= edits'
  BY TypesOf DEF Type, Value
<1>2. held' \in Held /\ (held'[2] = edits' \/ "undo" \in Env)
  <2>1. <<i, edits + 1>> \in Held /\ <<i, 0>> \in Held
    BY <1>1 DEF Held, Value
  <2> QED BY <1>1, <2>1 DEF Type
<1>3. working' \in {working, Flushed} /\ working' \in Copy /\ status' \in Statuses
  BY FlushedTypes, NoteTypes, TypesOf DEF Type
<1>4. TypeOK'
  BY <1>1, <1>2, <1>3, TypesOf DEF Type, TypeOK, Rows, Past, Statuses, Pages
<1>5. ClientStep
  BY <1>1, <1>2, <1>3, AsksNothing DEF Type, ClientStep, Reports, Holds
<1> QED BY <1>4, <1>5

LEMMA TypeReportTyped ==
    ASSUME Typed, ReportTyped
    PROVE  TypeOK' /\ ClientStep
<1> USE DEF Typed
<1>1. Flushed \in Copy /\ status' \in Statuses
  BY FlushedTypes, NoteTypes, TypesOf DEF ReportTyped
<1>2. TypeOK'
  BY <1>1, TypesOf DEF ReportTyped, TypeOK, Rows, Past, Statuses, Pages
<1>3. edits \in Nat
  BY TypesOf DEF Value
<1>4. ClientStep
  BY <1>3, AsksNothing DEF ReportTyped, ClientStep, Reports, Holds
<1> QED BY <1>2, <1>4

LEMMA TypeAdd ==
    ASSUME Typed, NEW d \in Others, Add(d)
    PROVE  TypeOK' /\ ClientStep
<1> USE DEF Typed
<1>1. working \in Copy /\ edits \in Nat /\ d \in Ids /\ 0 \in Value
  BY TypesOf DEF Value, Ids, Divisions
<1>2. working' = Grown(working, d, 0)
  BY <1>1, GrownIs DEF Add
<1>3. working' \in Copy /\ <<d, 0>> \in Has(working')
  BY <1>1, <1>2, OneMore
<1>4. Honest(Call("create", d, 0), working', snapshot', past')
  BY <1>3 DEF Honest, Call
<1>5. requests' = Append(requests, Call("create", d, 0))
  BY DEF Add
<1>6. Asks(working', snapshot', past') /\ requests' \in Seq(Request)
  BY <1>1, <1>4, <1>5, AsksCall
<1>7. status' \in Statuses
  BY NoteTypes DEF Add
<1>8. TypeOK'
  BY <1>3, <1>6, <1>7, TypesOf DEF Add, TypeOK, Rows, Past, Statuses, Pages
<1>9. Adds(d)
  BY <1>2 DEF Add, Adds
<1>10. ClientStep
  BY <1>1, <1>6, <1>9 DEF Add, ClientStep, Holds
<1> QED BY <1>8, <1>10

LEMMA TypeDiscard ==
    ASSUME Typed, NEW i \in Ids, Discard(i)
    PROVE  TypeOK' /\ ClientStep
<1> USE DEF Typed
<1>1. edits \in Nat /\ 0 \in Value
  BY TypesOf DEF Value
<1>2. working' \in Copy /\ snapshot' \in Copy
  BY TypesOf, WithoutIs DEF Discard
<1>3. past' \in Past /\ i \in past'.removed
  BY TypesOf DEF Discard, Past
<1>4. Honest(Call("destroy", i, 0), working', snapshot', past')
  BY <1>3 DEF Honest, Call
<1>5. requests' = Append(requests, Call("destroy", i, 0))
  BY DEF Discard
<1>6. Asks(working', snapshot', past') /\ requests' \in Seq(Request)
  BY <1>1, <1>4, <1>5, AsksCall
<1>7. TypeOK'
  BY <1>2, <1>3, <1>6, TypesOf DEF Discard, shown, TypeOK, Rows, Past, Statuses, Pages
<1>8. Removes(i)
  BY DEF Discard, Removes
<1>9. ClientStep
  BY <1>1, <1>6, <1>8 DEF Discard, shown, ClientStep, Holds
<1> QED BY <1>7, <1>9

LEMMA TypeWrite ==
    ASSUME Typed, NEW r \in Records, Write(r)
    PROVE  TypeOK' /\ ClientStep
<1> USE DEF Typed
<1>1. edits \in Nat /\ r \in Ids /\ working \in Copy
  BY TypesOf DEF Value, Ids
<1>2. Flushed \in Copy /\ IdsOf(Flushed) = IdsOf(working) /\ working' = Flushed
  BY FlushedTypes DEF Write, Flushed
<1>3. r \in Present(Flushed)
  <2>1. r \in IdsOf(Flushed)
    BY <1>2 DEF Write
  <2>2. \A k \in DOMAIN Flushed.divisions : Flushed.divisions[k].id \notin Records
    BY <1>2, CopyIs
  <2>3. \A e \in Range(Flushed.divisions) : e.id # r
    BY <2>2 DEF Range
  <2> QED BY <2>1, <2>3 DEF IdsOf, Present
<1> DEFINE v == Flushed.records[r]
<1>4. v \in Value /\ <<r, v>> \in Has(Flushed)
  <2>1. Flushed.records \in [Records -> Value \cup {Gone}]
    BY <1>2, CopyIs
  <2> QED BY <1>3, <2>1 DEF Has, Present
<1> HIDE DEF v
<1>5. Honest(Call("write", r, v), working', snapshot', past')
  BY <1>2, <1>4 DEF Honest, Call
<1>6. requests' = Append(requests, Call("write", r, v))
  BY DEF Write, v, Flushed
<1>7. Asks(working', snapshot', past') /\ requests' \in Seq(Request)
  BY <1>1, <1>4, <1>5, <1>6, AsksCall
<1>8. TypeOK'
  BY <1>2, <1>7, TypesOf DEF Write, shown, TypeOK, Rows, Past, Statuses, Pages
<1>9. Reports
  BY <1>2 DEF Write, Reports
<1>10. ClientStep
  BY <1>1, <1>7, <1>9 DEF Write, shown, ClientStep, Holds
<1> QED BY <1>8, <1>10

\* A save of what the author has, without an answer.
LEMMA TypeSave ==
    ASSUME Typed, NEW hard \in BOOLEAN, NEW awaited \in Awaited, Save(hard, awaited),
           page = "open", page' \in Pages, UNCHANGED <<rows, outdated, edits, faults, past>>,
           page' = "closed" => ~Dirty(Flushed, snapshot)
    PROVE  TypeOK' /\ ClientStep
<1> USE DEF Typed
<1>1. edits \in Nat /\ snapshot \in Copy /\ requests \in Seq(Request) /\ Flushed \in Copy
  BY TypesOf, FlushedTypes DEF Value
<1>2. Send(hard, awaited, snapshot, requests) /\ snapshot' = snapshot
  BY DEF Save
<1>3. Thinned(requests, requests)
  BY <1>1, SameIsThinned
<1>4. Asks(working', snapshot', past') /\ requests' \in Seq(Request)
  BY <1>1, <1>2, <1>3, AsksSave
<1>5. held' = NotHeld /\ working' = Flushed /\ status' \in Statuses
  BY <1>1, <1>2, Sending
<1>6. TypeOK'
  BY <1>1, <1>2, <1>4, <1>5, TypesOf DEF TypeOK, Rows, Past, Statuses, Pages
<1>7. Reports
  BY <1>2, <1>5 DEF Reports
<1>8. ClientStep
  BY <1>1, <1>2, <1>4, <1>5, <1>7 DEF ClientStep, Holds
<1> QED BY <1>6, <1>8

\* What is typed is reported, and nothing is sent.
LEMMA TypeFlush ==
    ASSUME Typed, page = "open", page' \in Pages, held' = NotHeld, working' = Flushed,
           UNCHANGED <<snapshot, requests, status, rows, outdated, edits, faults, past>>,
           page' = "closed" => ~Dirty(Flushed, snapshot)
    PROVE  TypeOK' /\ ClientStep
<1> USE DEF Typed
<1>1. edits \in Nat /\ Flushed \in Copy
  BY TypesOf, FlushedTypes DEF Value
<1>2. TypeOK'
  BY <1>1, TypesOf DEF TypeOK, Rows, Past, Statuses, Pages
<1>3. ClientStep
  BY <1>1, AsksNothing DEF ClientStep, Holds, Reports
<1> QED BY <1>2, <1>3

LEMMA TypeLeaving ==
    ASSUME Typed, Autosave \/ Unload \/ Leave \/ OpenProjectPage
    PROVE  TypeOK' /\ ClientStep
<1> USE DEF Typed
<1>1. {"no", "leave", "open", "first"} \subseteq Awaited /\ {TRUE, FALSE} \subseteq BOOLEAN
  BY DEF Awaited
<1>2. CASE Autosave
  <2>1. Save(FALSE, "no") /\ page = "open" /\ UNCHANGED <<rows, outdated, page, edits, faults, past>>
    BY <1>2 DEF Autosave
  <2> QED BY <1>1, <2>1, TypeSave DEF Pages
<1>3. CASE OpenProjectPage
  <2>1. Save(TRUE, "open") /\ page = "open" /\ UNCHANGED <<rows, outdated, page, edits, faults, past>>
    BY <1>3 DEF OpenProjectPage
  <2> QED BY <1>1, <2>1, TypeSave DEF Pages
<1>4. CASE Unload
  <2>1. CASE Dirty(Flushed, snapshot) /\ ~InFlight
    <3>1. Save(FALSE, "no") /\ page = "open" /\ page' = "warned" /\ UNCHANGED <<rows, outdated, edits, faults, past>>
      BY <1>4, <2>1 DEF Unload
    <3> QED BY <1>1, <3>1, TypeSave DEF Pages
  <2>2. CASE ~(Dirty(Flushed, snapshot) /\ ~InFlight)
    <3>1. /\ held' = NotHeld /\ working' = Flushed /\ page = "open" /\ page' \in Pages
          /\ UNCHANGED <<snapshot, requests, status, rows, outdated, edits, faults, past>>
          /\ page' = "closed" => ~Dirty(Flushed, snapshot)
      BY <1>4, <2>2 DEF Unload, Pages
    <3> QED BY <3>1, TypeFlush
  <2> QED BY <2>1, <2>2
<1>5. CASE Leave
  <2>1. CASE ~InFlight
    <3>1. Save(FALSE, "leave") /\ page = "open" /\ UNCHANGED <<rows, outdated, edits, faults, past>>
      BY <1>5, <2>1 DEF Leave
    <3>2. page' \in Pages /\ (page' = "closed" => ~Dirty(Flushed, snapshot))
      BY <1>5, <2>1 DEF Leave, Pages
    <3> QED BY <1>1, <3>1, <3>2, TypeSave
  <2>2. CASE InFlight
    <3> DEFINE f == [k \in DOMAIN requests |->
                        [requests[k] EXCEPT !.awaited = IF requests[k].inFlight THEN "first" ELSE @]]
    <3>1. requests' = [k \in DOMAIN requests |-> f[k]] /\ page = "open"
      BY <1>5, <2>2 DEF Leave
    <3>2. \A k \in DOMAIN requests : f[k] \in Request /\ Like(f[k], requests[k])
      <4> TAKE k \in DOMAIN requests
      <4>1. requests[k] \in Request
        BY TypesOf
      <4> DEFINE a == IF requests[k].inFlight THEN "first" ELSE requests[k].awaited
      <4>2. a \in Awaited
        BY <1>1, <4>1 DEF Request
      <4>3. f[k] = [requests[k] EXCEPT !.awaited = a]
        OBVIOUS
      <4> HIDE DEF f, a
      <4> QED BY <4>1, <4>2, <4>3, RequestTypes
    <3> HIDE DEF f
    <3>3. requests \in Seq(Request)
      BY TypesOf
    <3>4. requests' \in Seq(Request) /\ Thinned(requests', requests)
      BY <3>1, <3>2, <3>3, MapIsThinned
    <3>5. Asks(working', snapshot', past')
      BY <3>4 DEF Asks
    <3>6. UNCHANGED <<copies, status, page, rows, outdated, edits, faults, past>>
      BY <1>5, <2>2 DEF Leave
    <3>7. TypeOK'
      BY <3>4, <3>6, TypesOf DEF copies, TypeOK, Rows, Past, Statuses, Pages
    <3>8. edits \in Nat
      BY TypesOf DEF Value
    <3>9. ClientStep
      BY <3>1, <3>5, <3>6, <3>8 DEF copies, ClientStep, Holds, Reports
    <3> QED BY <3>7, <3>9
  <2> QED BY <2>1, <2>2
<1> QED BY <1>2, <1>3, <1>4, <1>5

-----------------------------------------------------------------------------
\* The rest of the requests, once one is answered.
LEMMA AnsweredTypes ==
    ASSUME Typed, NEW k \in DOMAIN requests, NEW awaited, Answered(k, awaited)
    PROVE  /\ page = "open" /\ UNCHANGED <<rows, edits, faults>> /\ edits \in Nat
           /\ past' = Noticed(requests[k]) /\ past' \in Past
           /\ snapshot' = Snapshot(requests[k]) /\ snapshot' \in Copy /\ outdated' \in BOOLEAN
           /\ RemoveAt(requests, k) \in Seq(Request) /\ Thinned(RemoveAt(requests, k), requests)
<1>1. requests \in Seq(Request) /\ outdated \in BOOLEAN /\ edits \in Nat
  BY TypesOf DEF Typed, Value
<1>2. RemoveAt(requests, k) \in Seq(Request) /\ Thinned(RemoveAt(requests, k), requests)
  BY <1>1, RemovedIsThinned
<1>3. Snapshot(requests[k]) \in Copy
  BY SnapshotTypes
<1>4. /\ page = "open" /\ UNCHANGED <<rows, edits, faults>> /\ past' = Noticed(requests[k])
      /\ snapshot' = Snapshot(requests[k]) /\ outdated' = (outdated \/ requests[k].at = "refused")
  BY DEF Answered, Noticed
<1>5. outdated' \in BOOLEAN /\ past' \in Past
  BY <1>1, <1>4, NoticedIs
<1> QED BY <1>1, <1>2, <1>3, <1>4, <1>5

\* An answer, with nothing sent on it.
LEMMA TypeQuiet ==
    ASSUME Typed, NEW k \in DOMAIN requests, NEW awaited, Answered(k, awaited),
           requests' = RemoveAt(requests, k), status' \in Statuses, page' \in Pages,
           \/ held' = held /\ working' = working
           \/ held' = NotHeld /\ working' = Flushed,
           page' = "closed" => held' = NotHeld /\ ~Dirty(working', snapshot')
    PROVE  TypeOK' /\ ClientStep
<1> USE DEF Typed
<1>1. /\ page = "open" /\ UNCHANGED <<rows, edits, faults>> /\ edits \in Nat
      /\ past' = Noticed(requests[k]) /\ past' \in Past
      /\ snapshot' = Snapshot(requests[k]) /\ snapshot' \in Copy /\ outdated' \in BOOLEAN
      /\ requests' \in Seq(Request) /\ Thinned(requests', requests)
  BY AnsweredTypes
<1>2. Flushed \in Copy
  BY FlushedTypes
<1>3. TypeOK'
  BY <1>1, <1>2, TypesOf DEF TypeOK, Rows, Past, Statuses, Pages
<1>4. Asks(working', snapshot', past')
  BY <1>1 DEF Asks
<1>5. Reports
  BY <1>1 DEF Reports
<1>6. ClientStep
  BY <1>1, <1>4, <1>5 DEF ClientStep, Holds
<1> QED BY <1>3, <1>6

\* An answer, upon which what is left is sent.
LEMMA TypeSendOn ==
    ASSUME Typed, NEW k \in DOMAIN requests, NEW waited, Answered(k, waited), NEW awaited \in Awaited,
           Send(FALSE, awaited, Snapshot(requests[k]), RemoveAt(requests, k)), page' \in Pages,
           page' = "closed" => ~Dirty(working', snapshot')
    PROVE  TypeOK' /\ ClientStep
<1> USE DEF Typed
<1>1. /\ page = "open" /\ UNCHANGED <<rows, edits, faults>> /\ edits \in Nat
      /\ past' = Noticed(requests[k]) /\ past' \in Past
      /\ snapshot' = Snapshot(requests[k]) /\ snapshot' \in Copy /\ outdated' \in BOOLEAN
      /\ RemoveAt(requests, k) \in Seq(Request) /\ Thinned(RemoveAt(requests, k), requests)
  BY AnsweredTypes
<1> DEFINE s == Snapshot(requests[k])
           others == RemoveAt(requests, k)
<1> HIDE DEF s, others
<1>2. Send(FALSE, awaited, s, others) /\ s \in Copy /\ others \in Seq(Request) /\ Thinned(others, requests)
      /\ snapshot' = s
  BY <1>1 DEF s, others
<1>3. Asks(working', snapshot', past') /\ requests' \in Seq(Request)
  BY <1>2, AsksSave
<1>4. held' = NotHeld /\ working' = Flushed /\ status' \in Statuses /\ Flushed \in Copy
  BY <1>2, Sending, FlushedTypes
<1>5. TypeOK'
  BY <1>1, <1>3, <1>4, TypesOf DEF TypeOK, Rows, Past, Statuses, Pages
<1>6. Reports
  BY <1>1, <1>4 DEF Reports
<1>7. ClientStep
  BY <1>1, <1>3, <1>4, <1>6 DEF ClientStep, Holds
<1> QED BY <1>5, <1>7

LEMMA TypeAnswers ==
    ASSUME Typed, NEW k \in DOMAIN requests, Answer(k) \/ WaitedOut(k) \/ Go(k) \/ NotSaved(k)
    PROVE  TypeOK' /\ ClientStep
<1> USE DEF Typed
<1> DEFINE rest == RemoveAt(requests, k)
<1>a. {"no", "leave", "open", "first"} \subseteq Awaited /\ page \in Pages /\ status \in Statuses
  BY TypesOf DEF Awaited
<1>1. CASE Answer(k)
  <2>1. /\ Answered(k, {"no"}) /\ requests' = RemoveAt(requests, k)
        /\ held' = held /\ working' = working /\ page' = page /\ page = "open"
    BY <1>1 DEF Answer, Answered
  <2>2. status' \in Statuses
    BY <1>1, <1>a DEF Answer, Status, Statuses
  <2> QED BY <1>a, <2>1, <2>2, TypeQuiet
<1>2. CASE WaitedOut(k)
  <2>1. /\ Answered(k, {"first"}) /\ Send(FALSE, "leave", Snapshot(requests[k]), RemoveAt(requests, k))
        /\ page' = (IF Dirty(Flushed, snapshot') THEN page ELSE "closed") /\ page = "open"
    BY <1>2 DEF WaitedOut, Answered
  <2>2. working' = Flushed
    BY <2>1 DEF Send
  <2>3. page' \in Pages /\ (page' = "closed" => ~Dirty(working', snapshot'))
    BY <2>1, <2>2 DEF Pages
  <2> QED BY <1>a, <2>1, <2>3, TypeSendOn
<1>3. CASE Go(k)
  <2>1. Answered(k, {"leave", "open"}) /\ snapshot' = Snapshot(requests[k])
    BY <1>3 DEF Go, Answered
  <2>2. CASE Dirty(Flushed, Snapshot(requests[k])) /\ \E j \in DOMAIN rest : rest[j].inFlight
    <3>1. /\ page' \in {"open", "warned"} /\ requests' = RemoveAt(requests, k)
          /\ held' = NotHeld /\ working' = Flushed /\ status' = "unsaved"
      BY <1>3, <2>2 DEF Go
    <3> QED BY <2>1, <3>1, TypeQuiet DEF Pages, Statuses
  <2>3. CASE Dirty(Flushed, Snapshot(requests[k])) /\ ~\E j \in DOMAIN rest : rest[j].inFlight
    <3>1. page' \in {"open", "warned"} /\ Send(FALSE, "no", Snapshot(requests[k]), RemoveAt(requests, k))
      BY <1>3, <2>3 DEF Go
    <3> QED BY <1>a, <2>1, <3>1, TypeSendOn DEF Pages
  <2>4. CASE ~Dirty(Flushed, Snapshot(requests[k]))
    <3>1. /\ page' = "closed" /\ status' = "saved" /\ requests' = RemoveAt(requests, k)
          /\ held' = NotHeld /\ working' = Flushed
      BY <1>3, <2>4 DEF Go
    <3>2. ~Dirty(working', snapshot')
      BY <2>1, <2>4, <3>1
    <3> QED BY <2>1, <3>1, <3>2, TypeQuiet DEF Pages, Statuses
  <2> QED BY <2>2, <2>3, <2>4
<1>4. CASE NotSaved(k)
  <2>1. /\ Answered(k, {"leave", "open"}) /\ requests' = RemoveAt(requests, k)
        /\ held' = held /\ working' = working /\ status' = "error" /\ page' \in {"open", "warned"}
    BY <1>4 DEF NotSaved
  <2> QED BY <2>1, TypeQuiet DEF Pages, Statuses
<1> QED BY <1>1, <1>2, <1>3, <1>4

-----------------------------------------------------------------------------
(***************************************************************************)
(* What the server's steps have in common: a request is answered, carried  *)
(* out or not.                                                             *)
(***************************************************************************)
Carries(k) ==
    /\ "reorder" \in Env \/ \A j \in 1..(k - 1) : requests[j].at # "sent"
    /\ rows'.has = Applied(requests[k])
    /\ past' = IF requests[k].what = "destroy" THEN [past EXCEPT !.destroyed = @ \cup {requests[k].id}]
                  ELSE past

Serves(k, at) ==
    /\ requests[k].at = "sent"
    /\ requests' = [requests EXCEPT ![k].at = at]
    /\ \/ at # "done" /\ rows'.has = rows.has /\ past' = past
       \/ Carries(k)

ServerMoves ==
    /\ UNCHANGED <<copies, page, edits>>
    /\ \/ \E k \in DOMAIN requests : \E at \in Ats \ {"sent"} : Serves(k, at)
       \/ rows'.has = rows.has /\ UNCHANGED <<requests, past>>

LEMMA MarkedTypes ==
    ASSUME TypeOK, NEW k \in DOMAIN requests, NEW at \in Ats, requests' = [requests EXCEPT ![k].at = at]
    PROVE  /\ requests' \in Seq(Request) /\ DOMAIN requests' = DOMAIN requests
           /\ requests'[k] = [requests[k] EXCEPT !.at = at]
           /\ \A j \in DOMAIN requests \ {k} : requests'[j] = requests[j]
<1>1. requests \in Seq(Request) /\ requests[k] \in Request
  BY TypesOf
<1>2. [requests[k] EXCEPT !.at = at] \in Request
  BY <1>1, RequestTypes
<1> DEFINE q == [requests[k] EXCEPT !.at = at]
<1>3. requests' = [requests EXCEPT ![k] = q]
  OBVIOUS
<1> HIDE DEF q
<1>4. q \in Request
  BY <1>2 DEF q
<1>5. /\ requests' \in Seq(Request) /\ DOMAIN requests' = DOMAIN requests
      /\ requests'[k] = q
      /\ \A j \in DOMAIN requests \ {k} : requests'[j] = requests[j]
  BY <1>1, <1>3, <1>4
<1> QED BY <1>5 DEF q

LEMMA CarriedTypes ==
    ASSUME TypeOK, NEW k \in DOMAIN requests, CarryOut(requests[k])
    PROVE  rows' \in Rows /\ past' \in Past /\ rows'.has = Applied(requests[k])
<1>1. requests[k] \in Request /\ rows \in Rows /\ past \in Past
  BY TypesOf
<1>2. Applied(requests[k]) \in [Ids -> Value \cup {Gone}]
  BY <1>1, AppliedTypes
<1>3. requests[k].id \in Ids
  BY <1>1 DEF Request
<1> HIDE DEF Applied
<1>4. rows' = [rows EXCEPT !.has = Applied(requests[k])]
  BY DEF CarryOut
<1>5. rows' \in Rows /\ rows'.has = Applied(requests[k])
  BY <1>1, <1>2, <1>4 DEF Rows
<1>6. past' \in Past
  BY <1>1, <1>3 DEF CarryOut, Past
<1> QED BY <1>5, <1>6

LEMMA TypeServer ==
    ASSUME Typed,
           \/ \E k \in DOMAIN requests : Handle(k) \/ Lose(k) \/ LoseAnswer(k)
           \/ Deploy
    PROVE  TypeOK' /\ ServerMoves
<1> USE DEF Typed
<1>a. /\ rows \in Rows /\ faults \in Nat /\ MaxFaults \in Nat
      /\ faults < MaxFaults => faults + 1 \in 0..MaxFaults
  BY TypesOf
<1>1. ASSUME NEW k \in DOMAIN requests, Handle(k) PROVE TypeOK' /\ ServerMoves
  <2>1. Oldest(k) /\ UNCHANGED <<copies, shown, edits, faults>>
    BY <1>1 DEF Handle
  <2>2. CASE Refused(requests[k]) \/ Invalid(requests[k])
    <3> DEFINE at == IF Refused(requests[k]) THEN "refused" ELSE "failed"
    <3>1. requests' = [requests EXCEPT ![k].at = at] /\ UNCHANGED <<rows, past>>
      BY <1>1, <2>2 DEF Handle
    <3>2. at \in Ats \ {"sent"} /\ at # "done"
      BY DEF Ats
    <3> HIDE DEF at
    <3>3. requests' \in Seq(Request)
      BY <3>1, <3>2, MarkedTypes
    <3>4. TypeOK'
      BY <2>1, <3>1, <3>3, TypesOf DEF copies, shown, TypeOK, Rows, Past, Statuses, Pages
    <3>5. Serves(k, at)
      BY <2>1, <3>1, <3>2 DEF Serves, Oldest
    <3>6. ServerMoves
      BY <2>1, <3>2, <3>5 DEF ServerMoves, shown
    <3> QED BY <3>4, <3>6
  <2>3. CASE ~(Refused(requests[k]) \/ Invalid(requests[k]))
    <3>1. requests' = [requests EXCEPT ![k].at = "done"] /\ CarryOut(requests[k])
      BY <1>1, <2>3 DEF Handle
    <3>2. "done" \in Ats \ {"sent"}
      BY DEF Ats
    <3>3. requests' \in Seq(Request)
      BY <3>1, <3>2, MarkedTypes
    <3>4. rows' \in Rows /\ past' \in Past /\ rows'.has = Applied(requests[k])
      BY <3>1, CarriedTypes
    <3>5. TypeOK'
      BY <2>1, <3>3, <3>4, TypesOf DEF copies, shown, TypeOK, Rows, Past, Statuses, Pages
    <3>6. Serves(k, "done")
      BY <2>1, <3>1, <3>4 DEF Serves, Carries, Oldest, CarryOut
    <3>7. ServerMoves
      BY <2>1, <3>2, <3>6 DEF ServerMoves, shown
    <3> QED BY <3>5, <3>7
  <2> QED BY <2>2, <2>3
<1>2. ASSUME NEW k \in DOMAIN requests, Lose(k) PROVE TypeOK' /\ ServerMoves
  <2>1. /\ requests[k].at = "sent" /\ requests' = [requests EXCEPT ![k].at = "failed"]
        /\ UNCHANGED <<copies, rows, shown, edits, past>>
        /\ faults' = faults \/ (faults < MaxFaults /\ faults' = faults + 1)
    BY <1>2 DEF Lose
  <2>2. "failed" \in Ats \ {"sent"}
    BY DEF Ats
  <2>3. requests' \in Seq(Request)
    BY <2>1, <2>2, MarkedTypes
  <2>4. faults' \in 0..MaxFaults
    BY <1>a, <2>1, TypesOf
  <2>5. TypeOK'
    BY <2>1, <2>3, <2>4, TypesOf DEF copies, shown, TypeOK, Rows, Past, Statuses, Pages
  <2>6. Serves(k, "failed")
    BY <2>1 DEF Serves
  <2>7. ServerMoves
    BY <2>1, <2>2, <2>6 DEF ServerMoves, shown
  <2> QED BY <2>5, <2>7
<1>3. ASSUME NEW k \in DOMAIN requests, LoseAnswer(k) PROVE TypeOK' /\ ServerMoves
  <2>1. /\ Oldest(k) /\ requests' = [requests EXCEPT ![k].at = "failed"] /\ CarryOut(requests[k])
        /\ UNCHANGED <<copies, shown, edits>>
        /\ faults < MaxFaults /\ faults' = faults + 1
    BY <1>3 DEF LoseAnswer
  <2>2. "failed" \in Ats \ {"sent"}
    BY DEF Ats
  <2>3. requests' \in Seq(Request)
    BY <2>1, <2>2, MarkedTypes
  <2>4. rows' \in Rows /\ past' \in Past /\ rows'.has = Applied(requests[k])
    BY <2>1, CarriedTypes
  <2>5. TypeOK'
    BY <1>a, <2>1, <2>3, <2>4, TypesOf DEF copies, shown, TypeOK, Rows, Past, Statuses, Pages
  <2>6. Serves(k, "failed")
    BY <2>1, <2>4 DEF Serves, Carries, Oldest, CarryOut
  <2>7. ServerMoves
    BY <2>1, <2>2, <2>6 DEF ServerMoves, shown
  <2> QED BY <2>5, <2>7
<1>4. CASE Deploy
  <2>1. /\ rows' = [rows EXCEPT !.current = FALSE] /\ faults < MaxFaults /\ faults' = faults + 1
        /\ UNCHANGED <<copies, requests, shown, edits, past>>
    BY <1>4 DEF Deploy
  <2>2. rows' \in Rows /\ rows'.has = rows.has
    BY <1>a, <2>1 DEF Rows
  <2>3. TypeOK'
    BY <1>a, <2>1, <2>2, TypesOf DEF copies, shown, TypeOK, Rows, Past, Statuses, Pages
  <2>4. ServerMoves
    BY <2>1, <2>2 DEF ServerMoves, shown
  <2> QED BY <2>3, <2>4
<1> QED BY <1>1, <1>2, <1>3, <1>4

LEMMA NextIs ==
    ASSUME Typed, Next
    PROVE  TypeOK' /\ (ClientStep \/ ServerMoves)
<1>1. ASSUME NEW i \in Ids, Type(i) \/ Discard(i) PROVE TypeOK' /\ ClientStep
  BY <1>1, TypeType, TypeDiscard
<1>2. ASSUME NEW d \in Others, Add(d) PROVE TypeOK' /\ ClientStep
  BY <1>2, TypeAdd
<1>3. ASSUME NEW r \in Records, Write(r) PROVE TypeOK' /\ ClientStep
  BY <1>3, TypeWrite
<1>4. CASE ReportTyped
  BY <1>4, TypeReportTyped
<1>5. CASE Autosave \/ Unload \/ Leave \/ OpenProjectPage
  BY <1>5, TypeLeaving
<1>6. CASE AnswerStep
  BY <1>6, TypeAnswers DEF AnswerStep
<1>7. CASE ServerStep \/ Deploy \/ \E k \in DOMAIN requests : Lose(k) \/ LoseAnswer(k)
  BY <1>7, TypeServer DEF ServerStep
<1> QED BY <1>1, <1>2, <1>3, <1>4, <1>5, <1>6, <1>7 DEF Next

LEMMA CreationsStay ==
    ASSUME Typed, TypeOK', ClientStep \/ ServerMoves
    PROVE  CreatesDivisions'
<1> USE DEF Typed
<1>0. \A k \in DOMAIN requests : requests[k] \in Request
  BY TypesOf
<1>1. CASE ClientStep
  <2>1. PICK base \in Seq(Request) :
          /\ Thinned(base, requests)
          /\ \/ requests' = base
             \/ \E q \in Request : Honest(q, working', snapshot', past') /\ requests' = Append(base, q)
    BY <1>1 DEF ClientStep, Asks
  <2>2. \A k \in DOMAIN base : base[k].what = "create" => base[k].id \in Others
    BY <2>1 DEF Thinned, Like, CreatesDivisions
  <2>3. CASE requests' = base
    BY <2>2, <2>3 DEF CreatesDivisions
  <2>4. ASSUME NEW q \in Request, Honest(q, working', snapshot', past'), requests' = Append(base, q)
        PROVE  CreatesDivisions'
    <3>1. q.what = "create" => q.id \in Others
      BY <2>4 DEF Honest
    <3>2. \A k \in DOMAIN requests' : (k \in DOMAIN base /\ requests'[k] = base[k]) \/ requests'[k] = q
      BY <2>4
    <3> QED BY <2>2, <3>1, <3>2 DEF CreatesDivisions
  <2> QED BY <2>1, <2>3, <2>4
<1>2. CASE ServerMoves
  <2>1. CASE UNCHANGED requests
    BY <2>1 DEF CreatesDivisions
  <2>2. ASSUME NEW k \in DOMAIN requests, NEW at \in Ats, Serves(k, at)
        PROVE  CreatesDivisions'
    <3>1. /\ DOMAIN requests' = DOMAIN requests
          /\ requests'[k] = [requests[k] EXCEPT !.at = at]
          /\ \A j \in DOMAIN requests \ {k} : requests'[j] = requests[j]
      BY <2>2, MarkedTypes DEF Serves
    <3>2. requests'[k].what = requests[k].what /\ requests'[k].id = requests[k].id
      BY <1>0, <3>1 DEF Request
    <3> QED BY <3>1, <3>2 DEF CreatesDivisions
  <2> QED BY <1>2, <2>1, <2>2 DEF ServerMoves
<1> QED BY <1>1, <1>2

LEMMA TypedStays == Typed /\ [Next]_vars => Typed'
<1> SUFFICES ASSUME Typed, [Next]_vars PROVE Typed'
  OBVIOUS
<1>1. CASE Next
  BY <1>1, NextIs, CreationsStay DEF Typed
<1>2. CASE UNCHANGED vars
  BY <1>2 DEF vars, copies, shown, Typed, TypeOK, CreatesDivisions
<1> QED BY <1>1, <1>2

LEMMA TypedAtFirst == Init => Typed
<1> SUFFICES ASSUME Init PROVE Typed
  OBVIOUS
<1>1. 0 \in Value /\ 0 \in 0..MaxFaults
  BY DEF Value
<1>2. working \in Copy
  <2>1. <<[id |-> Root, value |-> 0]>> \in Seq(Entry)
    BY <1>1 DEF Entry, Divisions
  <2>2. [r \in Records |-> 0] \in [Records -> Value \cup {Gone}]
    BY <1>1
  <2> QED BY <2>1, <2>2 DEF Init, Copy
<1>3. rows \in Rows
  BY <1>1 DEF Init, Rows
<1>4. requests = <<>> /\ requests \in Seq(Request)
  BY DEF Init
<1>5. TypeOK
  BY <1>1, <1>2, <1>3, <1>4 DEF Init, TypeOK, Rows, Past
<1> QED BY <1>4, <1>5 DEF Typed, CreatesDivisions

LEMMA TypedAlways == Spec => []Typed
BY TypedAtFirst, TypedStays, PTL DEF Spec

\* SoloSave has its types, whatever the environment does: a copy of the project
\* stays one, whichever answers and removals reach it in whatever order.
THEOREM TypeCorrect == Spec => []TypeOK
<1>1. Typed => TypeOK
  BY DEF Typed
<1> QED BY <1>1, TypedAlways, PTL

-----------------------------------------------------------------------------
(***************************************************************************)
(* Nothing is lost: what the copies, the rows and the requests have to do  *)
(* with each other, if the server takes the requests in turn and no source *)
(* is typed back to one it had before.  A source is newer the larger its   *)
(* number, so a row that is between the snapshot and the working copy is   *)
(* up to date as soon as the two agree.                                    *)
(***************************************************************************)
Steady == {"undo", "reorder"} \cap Env = {}

\* The rows have c, or something newer, and nothing newer than c.
AtLeast(c, has) == has[c[1]] # Gone /\ c[2] <= has[c[1]]
AtMost(c, has) == has[c[1]] # Gone => has[c[1]] <= c[2]

\* What a request writes, and what the snapshot takes it for: a save says of
\* the sources it leaves out that they are stored.
Writes(q) ==
    IF q.what = "save" THEN Listed(q.copy.divisions) \cup {<<r, q.copy.records[r]>> : r \in q.sources}
    ELSE IF q.what \in {"create", "write"} THEN {<<q.id, q.value>>} ELSE {}
Claims(q) == IF q.what = "save" THEN Has(q.copy) ELSE Writes(q)

Proper(q, g) ==
    /\ q.what = "create" => q.id \in Others /\ q.value = 0
    /\ q.what = "write" => q.id \in Records
    /\ q.what = "destroy" => q.id \in g.removed
    /\ q.what = "save" => /\ OneEach(q.copy) /\ q.sources \subseteq Present(q.copy)
                          /\ Records \ g.removed \subseteq Present(q.copy)

Sound(q, w, has, g) ==
    /\ Proper(q, g)
    /\ \A c \in Writes(q) : c[1] \in g.removed \/ \E d \in Has(w) : d[1] = c[1] /\ c[2] <= d[2]
    /\ \A c \in Claims(q) : (q.at = "done" \/ c \notin Writes(q)) => (c[1] \in g.removed \/ AtLeast(c, has))
    /\ q.at = "sent" => \A c \in Writes(q) : AtMost(c, has) /\ c[1] \notin g.destroyed

\* The earlier of two requests that the server is to take.
Before(q, r) ==
    /\ \A v \in Writes(q), c \in Writes(r) : v[1] = c[1] => v[2] <= c[2]
    /\ q.what = "destroy" => \A c \in Writes(r) : c[1] # q.id

Good(s, w, has, g) ==
    /\ \A k \in DOMAIN s : Sound(s[k], w, has, g)
    /\ \A j, k \in DOMAIN s : j < k /\ s[j].at = "sent" /\ s[k].at = "sent" => Before(s[j], s[k])

WorkSound(w, has, g, e) ==
    OneEach(w) /\ \A c \in Has(w) : c[1] \notin g.removed /\ c[2] <= e /\ AtMost(c, has)
SnapSound(s, has, g) ==
    g.unsent \subseteq Others /\ \A c \in Has(s) : c[1] \in g.removed \cup g.unsent \/ AtLeast(c, has)
RecordsKept(w, s, g) == Records \ g.removed \subseteq Present(w) \cap Present(s)
RowsSound(w, has, g) ==
    /\ \A i \in Ids : has[i] # Gone => i \in IdsOf(w) \cup g.removed
    /\ g.destroyed \subseteq g.removed /\ \A i \in g.destroyed : has[i] = Gone
    /\ \A r \in Records : has[r] = Gone => r \in g.destroyed
HeldSound == held # NotHeld => held[2] = edits

LossInv ==
    /\ WorkSound(working, rows.has, past, edits)
    /\ SnapSound(snapshot, rows.has, past)
    /\ RecordsKept(working, snapshot, past)
    /\ RowsSound(working, rows.has, past)
    /\ Good(requests, working, rows.has, past)
    /\ HeldSound /\ LeftIsStored

-----------------------------------------------------------------------------
LEMMA WriteTypes ==
    ASSUME NEW q \in Request, NEW g, Proper(q, g)
    PROVE  Writes(q) \subseteq Claims(q) /\ \A c \in Claims(q) : c[1] \in Ids /\ c[2] \in Value /\ c[2] # Gone
<1>1. /\ q.copy \in Copy /\ q.sources \subseteq Records /\ q.id \in Ids /\ q.value \in Value
      /\ q.what \in {"save", "create", "write", "destroy"}
  BY DEF Request
<1>2. \A v \in Value : v # Gone
  BY DEF Value
<1>3. CASE q.what = "save"
  <2>1. \A c \in Has(q.copy) : c[1] \in Ids /\ c[2] \in Value /\ c[2] # Gone
    BY <1>1, HasTypes
  <2>2. q.sources \subseteq Present(q.copy)
    BY <1>3 DEF Proper
  <2>3. Writes(q) \subseteq Has(q.copy)
    BY <1>3, <2>2 DEF Writes, Has
  <2> QED BY <1>3, <2>1, <2>3 DEF Claims
<1>4. CASE q.what # "save"
  <2>1. Claims(q) = Writes(q) /\ Writes(q) \subseteq {<<q.id, q.value>>}
    BY <1>4 DEF Claims, Writes
  <2> QED BY <1>1, <1>2, <2>1
<1> QED BY <1>3, <1>4

\* What is not as it was is asked to be removed, or has become newer.
Moves(w, g, w2, g2) ==
    /\ g.removed \subseteq g2.removed /\ g2.destroyed = g.destroyed
    /\ \A c \in Has(w) : c[1] \in g2.removed \/ \E d \in Has(w2) : d[1] = c[1] /\ c[2] <= d[2]

LEMMA SoundMoves ==
    ASSUME NEW q \in Request, NEW w \in Copy, NEW w2 \in Copy, NEW has, NEW g, NEW g2,
           Sound(q, w, has, g), Moves(w, g, w2, g2)
    PROVE  Sound(q, w2, has, g2)
<1>1. Proper(q, g) /\ Proper(q, g2)
  BY DEF Sound, Proper, Moves
<1>2. \A c \in Writes(q) : c[2] \in Value
  BY <1>1, WriteTypes
<1>3. \A d \in Has(w) \cup Has(w2) : d[2] \in Value
  BY HasTypes
<1>4. ASSUME NEW c \in Writes(q), c[1] \notin g2.removed
      PROVE  \E d \in Has(w2) : d[1] = c[1] /\ c[2] <= d[2]
  <2>1. c[1] \notin g.removed
    BY <1>4 DEF Moves
  <2>2. PICK d \in Has(w) : d[1] = c[1] /\ c[2] <= d[2]
    BY <2>1 DEF Sound
  <2>3. PICK e \in Has(w2) : e[1] = d[1] /\ d[2] <= e[2]
    BY <1>4, <2>2 DEF Moves
  <2>4. c[2] <= e[2]
    BY <1>2, <1>3, <2>2, <2>3 DEF Value
  <2> QED BY <2>2, <2>3, <2>4
<1>5. \A c \in Claims(q) : (q.at = "done" \/ c \notin Writes(q)) => (c[1] \in g2.removed \/ AtLeast(c, has))
  BY DEF Sound, Moves
<1>6. q.at = "sent" => \A c \in Writes(q) : AtMost(c, has) /\ c[1] \notin g2.destroyed
  BY DEF Sound, Moves
<1> QED BY <1>1, <1>4, <1>5, <1>6 DEF Sound

LEMMA LikeIsSound ==
    ASSUME NEW q, NEW r, Like(q, r)
    PROVE  /\ Writes(q) = Writes(r) /\ Claims(q) = Claims(r) /\ q.at = r.at
           /\ \A w, has, g : Sound(r, w, has, g) => Sound(q, w, has, g)
<1>1. Writes(q) = Writes(r)
  BY DEF Like, Writes
<1>2. Claims(q) = Claims(r) /\ q.at = r.at
  BY <1>1 DEF Like, Claims
<1>3. \A g : Proper(r, g) => Proper(q, g)
  BY DEF Like, Proper
<1> QED BY <1>1, <1>2, <1>3 DEF Sound

LEMMA ThinnedIsGood ==
    ASSUME NEW s, NEW t, Thinned(t, s), NEW w, NEW has, NEW g, Good(s, w, has, g)
    PROVE  Good(t, w, has, g)
<1>1. PICK up \in [DOMAIN t -> DOMAIN s] :
        /\ \A j, k \in DOMAIN t : j < k => up[j] < up[k]
        /\ \A k \in DOMAIN t : Like(t[k], s[up[k]])
  BY DEF Thinned
<1>2. ASSUME NEW k \in DOMAIN t PROVE Sound(t[k], w, has, g)
  BY <1>1, <1>2, LikeIsSound DEF Good
<1>3. ASSUME NEW j \in DOMAIN t, NEW k \in DOMAIN t, j < k, t[j].at = "sent", t[k].at = "sent"
      PROVE  Before(t[j], t[k])
  <2>1. up[j] \in DOMAIN s /\ up[k] \in DOMAIN s /\ up[j] < up[k] /\ Like(t[j], s[up[j]]) /\ Like(t[k], s[up[k]])
    BY <1>1, <1>3
  <2>2. s[up[j]].at = "sent" /\ s[up[k]].at = "sent"
    BY <1>3, <2>1 DEF Like
  <2>3. Before(s[up[j]], s[up[k]])
    BY <2>1, <2>2 DEF Good
  <2>4. /\ Writes(t[j]) = Writes(s[up[j]]) /\ Writes(t[k]) = Writes(s[up[k]])
        /\ t[j].what = s[up[j]].what /\ t[j].id = s[up[j]].id
    BY <2>1, LikeIsSound DEF Like
  <2> QED BY <2>3, <2>4 DEF Before
<1> QED BY <1>2, <1>3 DEF Good

\* A request that speaks of the copies as they are.
LEMMA HonestIsSound ==
    ASSUME NEW q \in Request, NEW w \in Copy, NEW s \in Copy, NEW has \in [Ids -> Value \cup {Gone}],
           NEW g, NEW e, Honest(q, w, s, g),
           WorkSound(w, has, g, e), SnapSound(s, has, g), RecordsKept(w, s, g), g.destroyed \subseteq g.removed
    PROVE  Sound(q, w, has, g) /\ Writes(q) \subseteq Has(w)
<1>1. q.sources \subseteq Records /\ q.what \in {"save", "create", "write", "destroy"}
  BY DEF Request
<1>2. q.what = "save" => /\ q.copy = w /\ q.sources = ChangedSources(w, s)
                         /\ q.sources \subseteq Present(w)
  BY DEF Honest, ChangedSources, Present
<1>3. Writes(q) \subseteq Has(w)
  <2>1. CASE q.what = "save"
    BY <1>2, <2>1 DEF Writes, Has
  <2>2. CASE q.what # "save"
    BY <2>2 DEF Writes, Honest
  <2> QED BY <2>1, <2>2
<1>4. Proper(q, g)
  BY <1>2 DEF Proper, Honest, WorkSound, RecordsKept
<1>5. \A c \in Has(w) : c[1] \in Ids /\ c[2] \in Value /\ c[1] \notin g.removed /\ AtMost(c, has)
  BY HasTypes DEF WorkSound
<1>6. \A c \in Writes(q) : \E d \in Has(w) : d[1] = c[1] /\ c[2] <= d[2]
  BY <1>3, <1>5 DEF Value
<1>7. ASSUME NEW c \in Claims(q), q.at = "done" \/ c \notin Writes(q)
      PROVE  c[1] \in g.removed \/ AtLeast(c, has)
  <2>1. q.at = "sent" /\ c \notin Writes(q)
    BY <1>7 DEF Honest
  <2>2. q.what = "save" /\ c \in Has(w)
    BY <1>2, <1>7, <2>1 DEF Claims
  <2>3. PICK r \in Present(w) \ q.sources : c = <<r, w.records[r]>>
    BY <1>2, <2>1, <2>2 DEF Writes, Has
  <2>4. r \in Records /\ (r \in g.removed \/ s.records[r] # Gone)
    BY <2>3 DEF RecordsKept, Present
  <2>5. CASE r \in g.removed
    BY <2>3, <2>5
  <2>6. CASE s.records[r] # Gone
    <3>1. w.records[r] = s.records[r]
      BY <1>2, <2>2, <2>3, <2>4, <2>6 DEF ChangedSources, Present
    <3>2. c \in Has(s)
      BY <2>3, <2>4, <2>6, <3>1 DEF Has, Present
    <3>3. c[1] = r /\ r \notin g.unsent
      BY <2>3, <2>4, NamesAssumption DEF SnapSound
    <3> QED BY <3>2, <3>3 DEF SnapSound
  <2> QED BY <2>4, <2>5, <2>6
<1>8. \A c \in Writes(q) : AtMost(c, has) /\ c[1] \notin g.destroyed
  BY <1>3, <1>5
<1> QED BY <1>3, <1>4, <1>6, <1>7, <1>8 DEF Sound

\* Such a request may come last.
LEMMA LastIsGood ==
    ASSUME NEW base \in Seq(Request), NEW w \in Copy, NEW has, NEW g, Good(base, w, has, g),
           OneEach(w), \A c \in Has(w) : c[1] \notin g.removed,
           NEW q \in Request, Sound(q, w, has, g), Writes(q) \subseteq Has(w)
    PROVE  Good(Append(base, q), w, has, g)
<1> DEFINE t == Append(base, q)
           n == Len(base) + 1
<1>1. /\ Len(base) \in Nat /\ DOMAIN base = 1..Len(base) /\ DOMAIN t = 1..n
      /\ t[n] = q /\ \A k \in DOMAIN base : t[k] = base[k] /\ base[k] \in Request
  OBVIOUS
<1> HIDE DEF t
<1>2. \A k \in DOMAIN t : (k \in DOMAIN base /\ t[k] = base[k]) \/ (k = n /\ t[k] = q)
  BY <1>1
<1>3. \A k \in DOMAIN t : Sound(t[k], w, has, g)
  BY <1>2 DEF Good
<1>4. ASSUME NEW j \in DOMAIN base PROVE Before(base[j], q)
  <2>1. Sound(base[j], w, has, g) /\ base[j] \in Request
    BY <1>1, <1>4 DEF Good
  <2>2. ASSUME NEW v \in Writes(base[j]), NEW c \in Writes(q), v[1] = c[1] PROVE v[2] <= c[2]
    <3>1. c \in Has(w) /\ c[1] \notin g.removed
      OBVIOUS
    <3>2. PICK d \in Has(w) : d[1] = v[1] /\ v[2] <= d[2]
      BY <2>1, <2>2, <3>1 DEF Sound
    <3>3. d = c
      BY <2>2, <3>1, <3>2, HasOneEach
    <3> QED BY <3>2, <3>3
  <2>3. base[j].what = "destroy" => base[j].id \in g.removed
    BY <2>1 DEF Sound, Proper
  <2> QED BY <2>2, <2>3 DEF Before
<1>5. ASSUME NEW j \in DOMAIN t, NEW k \in DOMAIN t, j < k, t[j].at = "sent", t[k].at = "sent"
      PROVE  Before(t[j], t[k])
  <2>1. j \in DOMAIN base /\ t[j] = base[j]
    BY <1>1, <1>5
  <2>2. CASE k \in DOMAIN base /\ t[k] = base[k]
    BY <1>5, <2>1, <2>2 DEF Good
  <2>3. CASE t[k] = q
    BY <1>4, <2>1, <2>3
  <2> QED BY <1>2, <2>2, <2>3
<1>6. Good(t, w, has, g)
  BY <1>3, <1>5 DEF Good
<1> QED BY <1>6 DEF t

-----------------------------------------------------------------------------
\* What is typed is newer than everything.
LEMMA FlushedMoves ==
    ASSUME TypeOK, LossInv, NEW w, w \in {working, Flushed}
    PROVE  /\ w \in Copy /\ IdsOf(w) = IdsOf(working)
           /\ Moves(working, past, w, past)
           /\ WorkSound(w, rows.has, past, edits)
<1>1. /\ working \in Copy /\ held \in Held \cup {NotHeld} /\ edits \in Nat
      /\ rows.has \in [Ids -> Value \cup {Gone}]
  BY TypesOf DEF Value
<1>2. WorkSound(working, rows.has, past, edits) /\ HeldSound
  BY DEF LossInv
<1>3. CASE w = working
  <2>1. \A c \in Has(working) : c[2] <= c[2]
    BY <1>1, HasTypes DEF Value
  <2> QED BY <1>1, <1>2, <1>3, <2>1 DEF Moves
<1>4. CASE w = Flushed
  <2>1. /\ w \in Copy /\ OneEach(w) /\ IdsOf(w) = IdsOf(working)
        /\ \A c \in Has(w) : \/ c \in Has(working)
                             \/ held # NotHeld /\ c = held /\ held[1] \in IdsOf(working)
    BY <1>1, <1>2, <1>4, ReportIs DEF Flushed, WorkSound
  <2>2. \A c \in Has(w) : c \in Has(working) \/ (c[2] = edits /\ c[1] \in IdsOf(working))
    BY <1>2, <2>1 DEF HeldSound
  <2>3. /\ IdsOf(w) = {c[1] : c \in Has(w)} /\ IdsOf(working) = {c[1] : c \in Has(working)}
        /\ \A c \in Has(working) : c[1] \in Ids /\ c[2] \in Value
    BY <1>1, <2>1, HasTypes
  <2>4. \A c \in Has(working) : c[1] \notin past.removed /\ c[2] <= edits /\ AtMost(c, rows.has)
    BY <1>2 DEF WorkSound
  <2>5. ASSUME NEW c \in Has(working) PROVE \E d \in Has(w) : d[1] = c[1] /\ c[2] <= d[2]
    <3>a. c[1] \in IdsOf(w)
      BY <2>1, <2>3
    <3>1. PICK d \in Has(w) : d[1] = c[1]
      BY <2>3, <3>a
    <3>2. CASE d \in Has(working)
      <4>1. d = c
        BY <1>1, <1>2, <3>1, <3>2, HasOneEach DEF WorkSound
      <4> QED BY <2>3, <4>1 DEF Value
    <3>3. CASE d[2] = edits
      BY <2>4, <3>1, <3>3
    <3> QED BY <2>2, <3>1, <3>2, <3>3
  <2>6. ASSUME NEW c \in Has(w)
        PROVE  c[1] \notin past.removed /\ c[2] <= edits /\ AtMost(c, rows.has)
    <3>1. CASE c \in Has(working)
      BY <2>4, <3>1
    <3>2. CASE c[2] = edits /\ c[1] \in IdsOf(working)
      <4>1. PICK d \in Has(working) : d[1] = c[1]
        BY <2>3, <3>2
      <4>2. d[1] \notin past.removed /\ d[2] <= edits /\ AtMost(d, rows.has) /\ d[1] \in Ids /\ d[2] \in Value
        BY <2>3, <2>4
      <4>3. rows.has[d[1]] \in Value \cup {Gone}
        BY <1>1, <4>2
      <4> QED BY <1>1, <3>2, <4>1, <4>2, <4>3 DEF AtMost, Value
    <3> QED BY <2>2, <3>1, <3>2
  <2> QED BY <2>1, <2>5, <2>6 DEF Moves, WorkSound
<1> QED BY <1>3, <1>4

\* The records of a copy are those of its ids that are records.
LEMMA PresentIs ==
    ASSUME NEW copy \in Copy
    PROVE  Present(copy) = Records \cap IdsOf(copy)
<1>1. \A k \in DOMAIN copy.divisions : copy.divisions[k].id \notin Records
  BY CopyIs
<1>2. \A e \in Range(copy.divisions) : e.id \notin Records
  BY <1>1 DEF Range
<1> QED BY <1>2 DEF IdsOf, Present

\* The snapshot becomes what an answer says of the rows.
LEMMA SnapshotIsSound ==
    ASSUME Typed, LossInv, NEW k \in DOMAIN requests
    PROVE  /\ SnapSound(Snapshot(requests[k]), rows.has, Noticed(requests[k]))
           /\ Records \ past.removed \subseteq Present(Snapshot(requests[k]))
<1> DEFINE q == requests[k]
           s == Snapshot(q)
<1>1. /\ q \in Request /\ snapshot \in Copy /\ q.copy \in Copy /\ q.value \in Value
      /\ q.what \in {"save", "create", "write", "destroy"}
  <2>1. q \in Request /\ snapshot \in Copy
    BY TypesOf DEF Typed
  <2> QED BY <2>1 DEF Request
<1>2. /\ SnapSound(snapshot, rows.has, past) /\ Records \ past.removed \subseteq Present(snapshot)
      /\ Sound(q, working, rows.has, past)
  BY DEF LossInv, RecordsKept, Good
<1>3. Proper(q, past)
  BY <1>2 DEF Sound
<1> HIDE DEF q, s
<1>a. /\ Noticed(q) \in Past /\ Noticed(q).removed = past.removed /\ Noticed(q).unsent = Unsent(q)
      /\ Noticed(q).unsent \subseteq Others
  <2>1. Noticed(q) \in Past /\ Noticed(q).removed = past.removed /\ Noticed(q).unsent = Unsent(q)
    BY NoticedIs DEF q
  <2> QED BY <2>1 DEF Past
\* Whatever the snapshot has comes from the one before, from what was carried
\* out, or from a division that was typed while it was being created.
<1>4. /\ \A c \in Has(s) : \/ c \in Has(snapshot) /\ past.unsent \subseteq Unsent(q)
                           \/ q.at = "done" /\ c \in Claims(q)
                           \/ c[1] \in Unsent(q)
      /\ Records \ past.removed \subseteq Present(s)
  <2>1. CASE q.at # "done" \/ q.what = "destroy"
    <3>1. s = snapshot /\ Unsent(q) = past.unsent
      BY <2>1 DEF s, Snapshot, Unsent
    <3> QED BY <1>2, <3>1
  <2>2. CASE q.at = "done" /\ q.what = "save"
    <3>1. s = q.copy
      BY <2>2 DEF s, Snapshot, AfterSave
    <3> QED BY <1>3, <2>2, <3>1 DEF Proper, Claims
  <2>3. CASE q.at = "done" /\ q.what = "create"
    <3>1. q.id \in Others /\ q.value = 0 /\ Now(q.id) \in Value
      BY <1>3, <2>3, NowTypes DEF Proper, Typed
    <3>2. s = Grown(snapshot, q.id, Now(q.id))
      BY <1>1, <2>3, <3>1, GrownIs DEF s, Snapshot, Created
    <3>3. Has(s) = Has(snapshot) \cup {<<q.id, Now(q.id)>>} /\ s.records = snapshot.records
      BY <1>1, <3>1, <3>2, OneMore
    <3>4. <<q.id, 0>> \in Claims(q)
      BY <2>3, <3>1 DEF Claims, Writes
    <3>5. Unsent(q) = past.unsent \cup (IF Now(q.id) # q.value THEN {q.id} ELSE {})
      BY <2>3 DEF Unsent
    <3>6. Now(q.id) = 0 \/ <<q.id, Now(q.id)>>[1] \in Unsent(q)
      BY <3>1, <3>5
    <3>7. Present(s) = Present(snapshot)
      BY <3>3 DEF Present
    <3> QED BY <1>2, <2>3, <3>3, <3>4, <3>5, <3>6, <3>7
  <2>4. CASE q.at = "done" /\ q.what = "write"
    <3>1. q.id \in Records
      BY <1>3, <2>4 DEF Proper
    <3>2. s = [snapshot EXCEPT !.records[q.id] = q.value] /\ Unsent(q) = past.unsent
      BY <2>4 DEF s, Snapshot, Unsent
    <3>3. /\ s.records[q.id] = q.value /\ \A r \in Records \ {q.id} : s.records[r] = snapshot.records[r]
          /\ Has(s) \subseteq Has(snapshot) \cup {<<q.id, q.value>>}
      BY <1>1, <3>1, <3>2, RecordPut
    <3>4. <<q.id, q.value>> \in Claims(q)
      BY <2>4 DEF Claims, Writes
    <3>5. q.value # Gone
      BY <1>1 DEF Value
    <3>6. Present(snapshot) \subseteq Present(s)
      BY <3>3, <3>5 DEF Present
    <3> QED BY <1>2, <2>4, <3>2, <3>3, <3>4, <3>6
  <2> QED BY <1>1, <2>1, <2>2, <2>3, <2>4
<1>5. q.at = "done" => \A c \in Claims(q) : c[1] \in past.removed \/ AtLeast(c, rows.has)
  BY <1>2 DEF Sound
<1>6. SnapSound(s, rows.has, Noticed(q))
  BY <1>2, <1>a, <1>4, <1>5 DEF SnapSound
<1> QED BY <1>4, <1>6 DEF s, q

\* How the copies stand after a step of the client's.
CopiesSound(w, s, has, g, e) ==
    /\ WorkSound(w, has, g, e) /\ SnapSound(s, has, g) /\ RecordsKept(w, s, g) /\ RowsSound(w, has, g)

LEMMA ReportsKeep ==
    ASSUME Typed, LossInv, Reports
    PROVE  /\ Moves(working, past, working', past')
           /\ CopiesSound(working', snapshot', rows.has, past', edits)
<1>1. /\ working' \in Copy /\ IdsOf(working') = IdsOf(working)
      /\ Moves(working, past, working', past)
      /\ WorkSound(working', rows.has, past, edits)
  BY FlushedMoves DEF Reports, Typed
<1>2. past'.removed = past.removed /\ past'.destroyed = past.destroyed
  BY NoticedIs DEF Reports
<1>3. SnapSound(snapshot', rows.has, past') /\ Records \ past.removed \subseteq Present(snapshot')
  BY SnapshotIsSound DEF Reports, LossInv, RecordsKept
<1>4. working \in Copy
  BY TypesOf DEF Typed
<1>5. Present(working') = Present(working)
  BY <1>1, <1>4, PresentIs
<1>6. Records \ past.removed \subseteq Present(working) /\ RowsSound(working, rows.has, past)
  BY DEF LossInv, RecordsKept
<1>7. RecordsKept(working', snapshot', past') /\ RowsSound(working', rows.has, past')
  BY <1>1, <1>2, <1>3, <1>5, <1>6 DEF RecordsKept, RowsSound
<1>8. Moves(working, past, working', past') /\ WorkSound(working', rows.has, past', edits)
  BY <1>1, <1>2 DEF Moves, WorkSound
<1> QED BY <1>3, <1>7, <1>8 DEF CopiesSound

LEMMA AddsKeeps ==
    ASSUME Typed, LossInv, NEW d \in Others, Adds(d)
    PROVE  /\ Moves(working, past, working', past')
           /\ CopiesSound(working', snapshot', rows.has, past', edits)
<1>1. /\ working \in Copy /\ edits \in Nat /\ 0 \in Value /\ d \in Ids /\ d \notin Records
      /\ snapshot' = snapshot /\ past' = past
      /\ d \notin IdsOf(working) /\ d \notin past.removed
  BY TypesOf DEF Typed, Value, Ids, Divisions, Adds
<1>2. /\ WorkSound(working, rows.has, past, edits) /\ SnapSound(snapshot, rows.has, past)
      /\ RecordsKept(working, snapshot, past) /\ RowsSound(working, rows.has, past)
  BY DEF LossInv
<1>3. working' = Grown(working, d, 0)
  BY DEF Adds
<1>4. /\ working' \in Copy /\ Has(working') = Has(working) \cup {<<d, 0>>}
      /\ working'.records = working.records /\ OneEach(working')
  BY <1>1, <1>2, <1>3, OneMore DEF WorkSound
<1>5. rows.has[d] = Gone
  BY <1>1, <1>2 DEF RowsSound
<1>6. WorkSound(working', rows.has, past, edits)
  BY <1>1, <1>2, <1>4, <1>5 DEF WorkSound, AtMost
<1>7. Present(working') = Present(working)
  BY <1>4 DEF Present
<1>8. IdsOf(working) \subseteq IdsOf(working')
  <2>1. IdsOf(working) = {c[1] : c \in Has(working)} /\ IdsOf(working') = {c[1] : c \in Has(working')}
    BY <1>1, <1>4, HasTypes
  <2> QED BY <1>4, <2>1
<1>9. RecordsKept(working', snapshot', past) /\ RowsSound(working', rows.has, past)
  BY <1>1, <1>2, <1>7, <1>8 DEF RecordsKept, RowsSound
<1>10. Moves(working, past, working', past)
  <2>1. \A c \in Has(working) : c[2] <= c[2]
    BY <1>1, HasTypes DEF Value
  <2> QED BY <1>4, <2>1 DEF Moves
<1> QED BY <1>1, <1>2, <1>6, <1>9, <1>10 DEF CopiesSound

LEMMA RemovesKeeps ==
    ASSUME Typed, LossInv, NEW i \in Ids, Removes(i)
    PROVE  /\ Moves(working, past, working', past')
           /\ CopiesSound(working', snapshot', rows.has, past', edits)
<1>1. working \in Copy /\ snapshot \in Copy /\ past \in Past
  BY TypesOf DEF Typed
<1>2. /\ WorkSound(working, rows.has, past, edits) /\ SnapSound(snapshot, rows.has, past)
      /\ RecordsKept(working, snapshot, past) /\ RowsSound(working, rows.has, past)
  BY DEF LossInv
<1>3. /\ working' \in Copy /\ OneEach(working') /\ Has(working') = {c \in Has(working) : c[1] # i}
      /\ \A r \in Records \ {i} : working'.records[r] = working.records[r]
  BY <1>1, <1>2, WithoutIs DEF Removes, WorkSound
<1>4. /\ snapshot' \in Copy /\ Has(snapshot') = {c \in Has(snapshot) : c[1] # i}
      /\ \A r \in Records \ {i} : snapshot'.records[r] = snapshot.records[r]
  BY <1>1, WithoutIs DEF Removes
<1>5. past'.removed = past.removed \cup {i} /\ past'.destroyed = past.destroyed /\ past'.unsent = past.unsent
  BY <1>1 DEF Removes, Past
<1>6. Moves(working, past, working', past')
  <2>1. \A c \in Has(working) : c[2] <= c[2]
    BY <1>1, HasTypes DEF Value
  <2>2. \A c \in Has(working) : c[1] # i => c \in Has(working')
    BY <1>3
  <2> QED BY <1>5, <2>1, <2>2 DEF Moves
<1>7. WorkSound(working', rows.has, past', edits) /\ SnapSound(snapshot', rows.has, past')
  BY <1>2, <1>3, <1>4, <1>5 DEF WorkSound, SnapSound
<1>8. RecordsKept(working', snapshot', past')
  BY <1>2, <1>3, <1>4, <1>5 DEF RecordsKept, Present
<1>9. IdsOf(working) \subseteq IdsOf(working') \cup {i}
  <2>1. IdsOf(working) = {c[1] : c \in Has(working)} /\ IdsOf(working') = {c[1] : c \in Has(working')}
    BY <1>1, <1>3, HasTypes
  <2> QED BY <1>3, <2>1
<1>10. RowsSound(working', rows.has, past')
  BY <1>2, <1>5, <1>9 DEF RowsSound
<1> QED BY <1>6, <1>7, <1>8, <1>10 DEF CopiesSound

\* Nothing to save means that the rows have it.
LEMMA CleanIs ==
    ASSUME NEW w \in Copy, NEW s \in Copy, NEW has \in [Ids -> Value \cup {Gone}], NEW g, NEW e,
           CopiesSound(w, s, has, g, e), ~Dirty(w, s)
    PROVE  \A i \in IdsOf(w) \ g.unsent : has[i] = ValueOf(w, i)
<1>1. ASSUME NEW i \in IdsOf(w) \ g.unsent PROVE has[i] = ValueOf(w, i)
  <2> DEFINE c == <<i, ValueOf(w, i)>>
  <2>1. c \in Has(w) /\ c[1] = i /\ c[2] = ValueOf(w, i)
    BY HasOneEach DEF CopiesSound, WorkSound
  <2> HIDE DEF c
  <2>2. c[1] \in Ids /\ c[2] \in Value /\ c[1] \notin g.removed /\ AtMost(c, has)
    BY <2>1, HasTypes DEF CopiesSound, WorkSound
  <2>3. c \in Has(s)
    <3>1. CASE c \in Listed(w.divisions)
      BY <3>1 DEF Dirty, Has
    <3>2. CASE c \notin Listed(w.divisions)
      <4>1. PICK r \in Present(w) : c = <<r, w.records[r]>>
        BY <2>1, <3>2 DEF Has
      <4>2. r \in Records /\ r \notin g.removed /\ w.records[r] # Gone
        BY <2>2, <4>1 DEF Present
      <4>3. s.records[r] # Gone
        BY <4>2 DEF CopiesSound, RecordsKept, Present
      <4>4. s.records[r] = w.records[r]
        BY <4>2, <4>3 DEF Dirty, ChangedSources
      <4> QED BY <4>1, <4>2, <4>3, <4>4 DEF Has, Present
    <3> QED BY <3>1, <3>2
  <2>4. AtLeast(c, has)
    BY <2>1, <2>2, <2>3 DEF CopiesSound, SnapSound
  <2>5. has[c[1]] \in Value
    BY <2>2, <2>4 DEF AtLeast
  <2>6. has[c[1]] = c[2]
    BY <2>2, <2>4, <2>5 DEF AtLeast, AtMost, Value
  <2> QED BY <2>1, <2>6
<1> QED BY <1>1

LEMMA ClientKeeps ==
    ASSUME Typed, TypeOK', LossInv, Steady, ClientStep
    PROVE  LossInv'
<1>1. /\ Moves(working, past, working', past')
      /\ CopiesSound(working', snapshot', rows.has, past', edits)
  BY ReportsKeep, AddsKeeps, RemovesKeeps DEF ClientStep
<1>2. /\ rows' = rows /\ edits <= edits' /\ edits \in Nat /\ edits' \in Nat
      /\ working \in Copy /\ working' \in Copy /\ snapshot' \in Copy
      /\ rows.has \in [Ids -> Value \cup {Gone}]
  <2>1. edits' \in Value /\ working' \in Copy /\ snapshot' \in Copy
    BY DEF TypeOK
  <2>2. edits \in Value /\ working \in Copy /\ rows.has \in [Ids -> Value \cup {Gone}]
    BY TypesOf DEF Typed
  <2> QED BY <2>1, <2>2 DEF ClientStep, Holds, Value
<1>3. CopiesSound(working', snapshot', rows'.has, past', edits')
  <2>1. \A c \in Has(working') : c[2] \in Nat
    BY <1>2, HasTypes DEF Value
  <2>2. \A c \in Has(working') : c[2] <= edits => c[2] <= edits'
    BY <1>2, <2>1
  <2> QED BY <1>1, <1>2, <2>2 DEF CopiesSound, WorkSound
<1>4. PICK base \in Seq(Request) :
        /\ Thinned(base, requests)
        /\ \/ requests' = base
           \/ \E q \in Request : Honest(q, working', snapshot', past') /\ requests' = Append(base, q)
  BY DEF ClientStep, Asks
<1>5. Good(base, working', rows.has, past')
  <2>1. Good(base, working, rows.has, past)
    BY <1>4, ThinnedIsGood DEF LossInv
  <2>2. ASSUME NEW k \in DOMAIN base PROVE Sound(base[k], working', rows.has, past')
    <3>1. base[k] \in Request /\ Sound(base[k], working, rows.has, past)
      BY <2>1 DEF Good
    <3> QED BY <1>1, <1>2, <3>1, SoundMoves
  <2> QED BY <2>1, <2>2 DEF Good
<1>6. Good(requests', working', rows'.has, past')
  <2>1. CASE requests' = base
    BY <1>2, <1>5, <2>1
  <2>2. ASSUME NEW q \in Request, Honest(q, working', snapshot', past'), requests' = Append(base, q)
        PROVE  Good(requests', working', rows'.has, past')
    <3>1. /\ WorkSound(working', rows.has, past', edits) /\ SnapSound(snapshot', rows.has, past')
          /\ RecordsKept(working', snapshot', past') /\ past'.destroyed \subseteq past'.removed
      BY <1>1 DEF CopiesSound, RowsSound
    <3>2. Sound(q, working', rows.has, past') /\ Writes(q) \subseteq Has(working')
      BY <1>2, <2>2, <3>1, HonestIsSound
    <3>3. OneEach(working') /\ \A c \in Has(working') : c[1] \notin past'.removed
      BY <3>1 DEF WorkSound
    <3>4. Good(Append(base, q), working', rows.has, past')
      BY <1>2, <1>5, <3>2, <3>3, LastIsGood
    <3> QED BY <1>2, <2>2, <3>4
  <2> QED BY <1>4, <2>1, <2>2
<1>7. HeldSound'
  BY DEF LossInv, HeldSound, ClientStep, Holds, Steady
<1>8. LeftIsStored'
  <2>1. ASSUME page' = "closed" PROVE held' = NotHeld /\ Stored'
    <3>1. held' = NotHeld /\ ~Dirty(working', snapshot')
      BY <2>1 DEF ClientStep
    <3>2. \A i \in IdsOf(working') \ past'.unsent : rows'.has[i] = ValueOf(working', i)
      BY <1>2, <1>3, <3>1, CleanIs
    <3> QED BY <3>1, <3>2 DEF Stored
  <2> QED BY <2>1 DEF LeftIsStored
<1> QED BY <1>3, <1>6, <1>7, <1>8 DEF LossInv, CopiesSound

-----------------------------------------------------------------------------
\* What the server makes of a request.
LEMMA AppliedIs ==
    ASSUME TypeOK, NEW q \in Request, NEW g, Proper(q, g), NEW h, h = Applied(q)
    PROVE  /\ \A c \in Writes(q) : h[c[1]] = c[2]
           /\ \A i \in Ids : (\A c \in Writes(q) : c[1] # i) /\ ~(q.what = "destroy" /\ i = q.id)
                                => h[i] = rows.has[i]
           /\ q.what = "destroy" => h[q.id] = Gone
<1>1. /\ rows.has \in [Ids -> Value \cup {Gone}]
      /\ q.what \in {"save", "create", "write", "destroy"} /\ q.copy \in Copy /\ q.id \in Ids
      /\ q.sources \subseteq Records
  BY TypesOf DEF Request
<1>2. CASE q.what = "save"
  <2> DEFINE ds == q.copy.divisions
  <2>1. OneEach(q.copy) /\ \A k \in DOMAIN ds : ds[k].id \notin Records /\ ds[k].id \in Ids
    BY <1>1, <1>2, CopyIs DEF Proper, Ids
  <2>2. \A i \in Ids : h[i] = IF \E e \in Range(ds) : e.id = i THEN ValueOf(q.copy, i)
                              ELSE IF i \in q.sources THEN q.copy.records[i] ELSE rows.has[i]
    BY <1>2 DEF Applied
  <2>3. Writes(q) = Listed(ds) \cup {<<r, q.copy.records[r]>> : r \in q.sources}
    BY <1>2 DEF Writes
  <2>4. \A c \in Listed(ds) : ValueOf(q.copy, c[1]) = c[2]
    <3>1. Listed(ds) \subseteq Has(q.copy)
      BY DEF Has
    <3> QED BY <1>1, <2>1, <3>1, HasOneEach
  <2> HIDE DEF ds
  <2>5. \A i : (\E e \in Range(ds) : e.id = i) <=> \E c \in Listed(ds) : c[1] = i
    <3> TAKE i
    <3>1. ASSUME NEW e \in Range(ds), e.id = i PROVE \E c \in Listed(ds) : c[1] = i
      <4>1. PICK k \in DOMAIN ds : e = ds[k]
        BY DEF Range
      <4>2. <<ds[k].id, ds[k].value>> \in Listed(ds) /\ ds[k].id = i
        BY <3>1, <4>1 DEF Listed
      <4> QED BY <4>2
    <3>2. ASSUME NEW c \in Listed(ds), c[1] = i PROVE \E e \in Range(ds) : e.id = i
      <4>1. PICK k \in DOMAIN ds : c = <<ds[k].id, ds[k].value>>
        BY DEF Listed
      <4>2. ds[k] \in Range(ds) /\ ds[k].id = i
        BY <3>2, <4>1 DEF Range
      <4> QED BY <4>2
    <3> QED BY <3>1, <3>2
  <2>6. \A c \in Listed(ds) : c[1] \in Ids /\ c[1] \notin Records
    BY <2>1 DEF Listed
  <2>7. ASSUME NEW c \in Writes(q) PROVE h[c[1]] = c[2]
    <3>1. CASE c \in Listed(ds)
      BY <2>2, <2>4, <2>5, <2>6, <3>1
    <3>2. ASSUME NEW r \in q.sources, c = <<r, q.copy.records[r]>> PROVE h[c[1]] = c[2]
      <4>1. r \in Records /\ r \in Ids /\ ~\E e \in Range(ds) : e.id = r
        BY <1>1, <2>5, <2>6 DEF Ids
      <4> QED BY <2>2, <3>2, <4>1
    <3> QED BY <2>3, <3>1, <3>2
  <2>8. ASSUME NEW i \in Ids, \A c \in Writes(q) : c[1] # i PROVE h[i] = rows.has[i]
    <3>1. ~\E e \in Range(ds) : e.id = i
      BY <2>3, <2>5, <2>8
    <3>2. i \notin q.sources
      <4>1. i \in q.sources => <<i, q.copy.records[i]>> \in Writes(q)
        BY <2>3
      <4> QED BY <2>8, <4>1
    <3> QED BY <2>2, <3>1, <3>2
  <2> QED BY <1>2, <2>7, <2>8
<1>3. CASE q.what \in {"create", "write"}
  <2>1. h = [rows.has EXCEPT ![q.id] = q.value] /\ Writes(q) = {<<q.id, q.value>>}
    BY <1>3 DEF Applied, Writes
  <2> QED BY <1>1, <1>3, <2>1
<1>4. CASE q.what = "destroy"
  <2>1. h = [rows.has EXCEPT ![q.id] = Gone] /\ Writes(q) = {}
    BY <1>4 DEF Applied, Writes
  <2> QED BY <1>1, <1>4, <2>1
<1> QED BY <1>1, <1>2, <1>3, <1>4

\* A request that is not carried out.
LEMMA RefusedKeeps ==
    ASSUME Typed, LossInv, NEW k \in DOMAIN requests, NEW at \in {"failed", "refused"},
           requests' = [requests EXCEPT ![k].at = at]
    PROVE  Good(requests', working, rows.has, past)
<1>1. /\ DOMAIN requests' = DOMAIN requests
      /\ requests'[k] = [requests[k] EXCEPT !.at = at]
      /\ \A j \in DOMAIN requests \ {k} : requests'[j] = requests[j]
  BY MarkedTypes DEF Typed, Ats
<1>2. Good(requests, working, rows.has, past) /\ requests[k] \in Request
  BY TypesOf DEF LossInv, Typed
<1> DEFINE q == requests[k]
           r == requests'[k]
<1>3. /\ r.what = q.what /\ r.id = q.id /\ r.value = q.value /\ r.copy = q.copy /\ r.sources = q.sources
      /\ r.at = at
  BY <1>1, <1>2 DEF Request
<1>4. Sound(q, working, rows.has, past)
  BY <1>2 DEF Good
<1> HIDE DEF q, r
<1>5. Writes(r) = Writes(q) /\ Claims(r) = Claims(q) /\ (Proper(q, past) => Proper(r, past))
  BY <1>3 DEF Writes, Claims, Proper
<1>6. Sound(r, working, rows.has, past)
  BY <1>3, <1>4, <1>5 DEF Sound
<1>7. \A j \in DOMAIN requests' : Sound(requests'[j], working, rows.has, past)
  BY <1>1, <1>2, <1>6 DEF Good, r
<1>8. \A i, j \in DOMAIN requests' : i < j /\ requests'[i].at = "sent" /\ requests'[j].at = "sent"
                                       => Before(requests'[i], requests'[j])
  BY <1>1, <1>2, <1>3 DEF Good, r
<1> QED BY <1>7, <1>8 DEF Good

\* The oldest request, carried out.
LEMMA CarriedKeeps ==
    ASSUME Typed, TypeOK', LossInv, Steady, NEW k \in DOMAIN requests, NEW at \in Ats \ {"sent"},
           requests[k].at = "sent", requests' = [requests EXCEPT ![k].at = at], Carries(k),
           UNCHANGED <<working, snapshot, held, page, edits>>
    PROVE  LossInv'
<1> DEFINE q == requests[k]
           h == rows'.has
           has == rows.has
           g == past
           g2 == past'
           w == working
<1>1. /\ q \in Request /\ w \in Copy /\ has \in [Ids -> Value \cup {Gone}] /\ g \in Past
      /\ q.id \in Ids
  <2>1. q \in Request /\ w \in Copy /\ has \in [Ids -> Value \cup {Gone}] /\ g \in Past
    BY TypesOf DEF Typed
  <2> QED BY <2>1 DEF Request
<1>2. /\ WorkSound(w, has, g, edits) /\ SnapSound(snapshot, has, g) /\ RecordsKept(w, snapshot, g)
      /\ RowsSound(w, has, g) /\ Good(requests, w, has, g) /\ HeldSound /\ LeftIsStored
  BY DEF LossInv
<1>3. Sound(q, w, has, g) /\ Proper(q, g)
  BY <1>2 DEF Good, Sound
<1>4. /\ \A c \in Writes(q) : h[c[1]] = c[2]
      /\ \A i \in Ids : (\A c \in Writes(q) : c[1] # i) /\ ~(q.what = "destroy" /\ i = q.id) => h[i] = has[i]
      /\ q.what = "destroy" => h[q.id] = Gone
  <2>1. h = Applied(q)
    BY DEF Carries
  <2> HIDE DEF h
  <2> QED BY <1>1, <1>3, <2>1, AppliedIs DEF Typed
<1>5. /\ g2.removed = g.removed /\ g2.unsent = g.unsent
      /\ g2.destroyed = IF q.what = "destroy" THEN g.destroyed \cup {q.id} ELSE g.destroyed
  BY <1>1 DEF Carries, Past
<1>6. \A j \in 1..(k - 1) : requests[j].at # "sent"
  BY DEF Carries, Steady
<1>7. /\ DOMAIN requests' = DOMAIN requests
      /\ requests'[k] = [q EXCEPT !.at = at]
      /\ \A j \in DOMAIN requests \ {k} : requests'[j] = requests[j]
  BY MarkedTypes DEF Typed
<1>8. /\ Writes(q) \subseteq Claims(q) /\ \A c \in Claims(q) : c[1] \in Ids /\ c[2] \in Value /\ c[2] # Gone
      /\ q.what = "destroy" => Writes(q) = {} /\ q.id \in g.removed
  BY <1>1, <1>3, WriteTypes DEF Proper, Writes
<1>9. \A c \in Writes(q) : AtMost(c, has) /\ c[1] \notin g.destroyed
  BY <1>3 DEF Sound
<1>10. requests \in Seq(Request) /\ k \in Nat /\ \A j \in DOMAIN requests : j \in Nat /\ requests[j] \in Request
  <2>1. requests \in Seq(Request)
    BY TypesOf DEF Typed
  <2> QED BY <2>1
<1>11. UNCHANGED <<working, snapshot, held, page, edits>> /\ at # "sent"
  OBVIOUS
<1> HIDE DEF q, h, has, g, g2, w
\* Rows only grow, but for what is to be removed.
<1>12. ASSUME NEW i \in Ids, i \notin g.removed, has[i] # Gone PROVE h[i] # Gone /\ has[i] <= h[i]
  <2>1. has[i] \in Value
    BY <1>1, <1>12
  <2>2. CASE \E c \in Writes(q) : c[1] = i
    <3>1. PICK c \in Writes(q) : c[1] = i
      BY <2>2
    <3> QED BY <1>4, <1>8, <1>9, <1>12, <3>1 DEF AtMost
  <2>3. CASE \A c \in Writes(q) : c[1] # i
    <3>1. h[i] = has[i]
      BY <1>4, <1>8, <1>12, <2>3
    <3> QED BY <1>12, <2>1, <3>1 DEF Value
  <2> QED BY <2>2, <2>3
<1>13. ASSUME NEW i \in Ids, NEW v \in Value, i \notin g.removed, AtLeast(<<i, v>>, has)
       PROVE  AtLeast(<<i, v>>, h)
  <2>1. has[i] # Gone /\ v <= has[i]
    BY <1>13 DEF AtLeast
  <2>2. h[i] # Gone /\ has[i] <= h[i]
    BY <1>12, <1>13, <2>1
  <2>3. has[i] \in Nat /\ v \in Nat
    BY <1>1, <2>1 DEF Value
  <2>4. h[i] \in Nat
    <3>1. h \in [Ids -> Value \cup {Gone}]
      BY TypesOf DEF TypeOK, h
    <3> QED BY <2>2, <3>1 DEF Value
  <2> QED BY <2>1, <2>2, <2>3, <2>4 DEF AtLeast
<1>14. \A c \in Has(w) : c \in Held /\ c[1] \in Ids /\ c[2] \in Value /\ c[1] \notin g.removed /\ AtMost(c, has)
  BY <1>1, <1>2, HasTypes DEF WorkSound
<1>15. ASSUME NEW c \in Has(w) PROVE AtMost(c, h)
  <2>1. CASE \E v \in Writes(q) : v[1] = c[1]
    <3>1. PICK v \in Writes(q) : v[1] = c[1]
      BY <2>1
    <3>2. PICK d \in Has(w) : d[1] = v[1] /\ v[2] <= d[2]
      BY <1>3, <1>14, <3>1 DEF Sound
    <3>3. d = c
      BY <1>1, <1>2, <3>1, <3>2, HasOneEach DEF WorkSound
    <3> QED BY <1>4, <3>1, <3>2, <3>3 DEF AtMost
  <2>2. CASE \A v \in Writes(q) : v[1] # c[1]
    <3>1. h[c[1]] = has[c[1]]
      BY <1>4, <1>8, <1>14, <2>2
    <3> QED BY <1>14, <3>1 DEF AtMost
  <2> QED BY <2>1, <2>2
<1>16. WorkSound(w, h, g2, edits)
  BY <1>2, <1>5, <1>15 DEF WorkSound
<1>17. SnapSound(snapshot, h, g2)
  <2>1. snapshot \in Copy
    BY TypesOf DEF Typed
  <2>2. \A c \in Has(snapshot) : c = <<c[1], c[2]>> /\ c[1] \in Ids /\ c[2] \in Value
    BY <2>1, HasTypes DEF Held
  <2> QED BY <1>2, <1>5, <1>13, <2>2 DEF SnapSound
<1>18. RecordsKept(w, snapshot, g2)
  BY <1>2, <1>5 DEF RecordsKept
<1>19. RowsSound(w, h, g2)
  <2>1. ASSUME NEW i \in Ids, h[i] # Gone PROVE i \in IdsOf(w) \cup g2.removed
    <3>1. CASE \E c \in Writes(q) : c[1] = i
      <4>1. PICK c \in Writes(q) : c[1] = i
        BY <3>1
      <4>2. IdsOf(w) = {d[1] : d \in Has(w)}
        BY <1>1, HasTypes
      <4> QED BY <1>3, <1>5, <4>1, <4>2 DEF Sound
    <3>2. CASE \A c \in Writes(q) : c[1] # i
      BY <1>2, <1>4, <1>5, <2>1, <3>2 DEF RowsSound
    <3> QED BY <3>1, <3>2
  <2>2. g2.destroyed \subseteq g2.removed
    BY <1>2, <1>5, <1>8 DEF RowsSound
  <2>3. ASSUME NEW i \in g2.destroyed PROVE h[i] = Gone
    <3>1. CASE q.what = "destroy" /\ i = q.id
      BY <1>4, <3>1
    <3>2. CASE ~(q.what = "destroy" /\ i = q.id)
      <4>1. i \in g.destroyed /\ has[i] = Gone /\ i \in Ids
        BY <1>1, <1>2, <1>5, <3>2 DEF RowsSound, Past
      <4>2. \A c \in Writes(q) : c[1] # i
        BY <1>9, <4>1
      <4> QED BY <1>4, <3>2, <4>1, <4>2
    <3> QED BY <3>1, <3>2
  <2>4. ASSUME NEW r \in Records, h[r] = Gone PROVE r \in g2.destroyed
    <3>1. r \in Ids
      BY DEF Ids
    <3>2. \A c \in Writes(q) : c[1] # r
      BY <1>4, <1>8, <2>4
    <3>3. CASE q.what = "destroy" /\ r = q.id
      BY <1>5, <3>3
    <3>4. CASE ~(q.what = "destroy" /\ r = q.id)
      BY <1>2, <1>4, <1>5, <2>4, <3>1, <3>2, <3>4 DEF RowsSound
    <3> QED BY <3>3, <3>4
  <2> QED BY <2>1, <2>2, <2>3, <2>4 DEF RowsSound
\* The claims of any request stay true.
<1>20. ASSUME NEW j \in DOMAIN requests, NEW c \in Claims(requests[j]), c[1] \in g.removed \/ AtLeast(c, has)
       PROVE  c[1] \in g2.removed \/ AtLeast(c, h)
  <2>1. requests[j] \in Request /\ Proper(requests[j], g)
    BY <1>2, <1>10 DEF Good, Sound
  <2>2. c[1] \in Ids /\ c[2] \in Value
    BY <2>1, WriteTypes
  <2>3. \A x : AtLeast(c, x) <=> AtLeast(<<c[1], c[2]>>, x)
    BY DEF AtLeast
  <2> QED BY <1>5, <1>13, <1>20, <2>2, <2>3
<1>21. ASSUME NEW j \in DOMAIN requests, j # k PROVE Sound(requests[j], w, h, g2)
  <2>1. Sound(requests[j], w, has, g)
    BY <1>2 DEF Good
  <2>2. Proper(requests[j], g2)
    BY <1>5, <2>1 DEF Sound, Proper
  <2>3. ASSUME requests[j].at = "sent", NEW c \in Writes(requests[j])
        PROVE  AtMost(c, h) /\ c[1] \notin g2.destroyed
    <3>1. k < j
      BY <1>6, <1>10, <1>21, <2>3
    <3>2. Before(q, requests[j])
      BY <1>2, <2>3, <3>1 DEF Good, q
    <3>3. AtMost(c, has) /\ c[1] \notin g.destroyed
      BY <2>1, <2>3 DEF Sound
    <3>4. c[1] \notin g2.destroyed
      BY <1>5, <3>2, <3>3 DEF Before
    <3>5. CASE \E v \in Writes(q) : v[1] = c[1]
      <4>1. PICK v \in Writes(q) : v[1] = c[1]
        BY <3>5
      <4>2. v[2] <= c[2] /\ h[c[1]] = v[2]
        BY <1>4, <3>2, <4>1 DEF Before
      <4> QED BY <3>4, <4>2 DEF AtMost
    <3>6. CASE \A v \in Writes(q) : v[1] # c[1]
      <4>1. c[1] \in Ids
        <5>1. requests[j] \in Request /\ Proper(requests[j], g)
          BY <1>10, <2>1 DEF Sound
        <5> QED BY <5>1, WriteTypes
      <4>2. h[c[1]] = has[c[1]]
        BY <1>4, <3>2, <3>6, <4>1 DEF Before
      <4> QED BY <3>3, <3>4, <4>2 DEF AtMost
    <3> QED BY <3>5, <3>6
  <2>4. \A c \in Claims(requests[j]) :
            (requests[j].at = "done" \/ c \notin Writes(requests[j])) => (c[1] \in g2.removed \/ AtLeast(c, h))
    BY <1>20, <2>1 DEF Sound
  <2>5. \A c \in Writes(requests[j]) : c[1] \in g2.removed \/ \E d \in Has(w) : d[1] = c[1] /\ c[2] <= d[2]
    BY <1>5, <2>1 DEF Sound
  <2> QED BY <2>2, <2>3, <2>4, <2>5 DEF Sound
<1>22. Sound(requests'[k], w, h, g2) /\ requests'[k].at # "sent"
  <2> DEFINE r == requests'[k]
  <2>1. /\ r.what = q.what /\ r.id = q.id /\ r.value = q.value /\ r.copy = q.copy /\ r.sources = q.sources
        /\ r.at = at
    BY <1>1, <1>7 DEF Request
  <2> HIDE DEF r
  <2>2. Writes(r) = Writes(q) /\ Claims(r) = Claims(q)
    BY <2>1 DEF Writes, Claims
  <2>3. Proper(r, g2)
    BY <1>3, <1>5, <2>1 DEF Proper
  <2>4. ASSUME NEW c \in Claims(q) PROVE c[1] \in g2.removed \/ AtLeast(c, h)
    <3>1. CASE c \in Writes(q)
      <4>1. h[c[1]] = c[2] /\ c[2] # Gone /\ c[2] \in Value
        BY <1>4, <1>8, <3>1
      <4> QED BY <4>1 DEF AtLeast, Value
    <3>2. CASE c \notin Writes(q)
      BY <1>3, <1>20, <3>2 DEF Sound, q
    <3> QED BY <3>1, <3>2
  <2>5. \A c \in Writes(q) : c[1] \in g2.removed \/ \E d \in Has(w) : d[1] = c[1] /\ c[2] <= d[2]
    BY <1>3, <1>5 DEF Sound
  <2>6. Sound(r, w, h, g2) /\ r.at # "sent"
    BY <1>11, <2>1, <2>2, <2>3, <2>4, <2>5 DEF Sound
  <2> QED BY <2>6 DEF r
<1>23. Good(requests', w, h, g2)
  <2>1. \A j \in DOMAIN requests' : Sound(requests'[j], w, h, g2)
    BY <1>7, <1>21, <1>22
  <2>2. \A i, j \in DOMAIN requests' : i < j /\ requests'[i].at = "sent" /\ requests'[j].at = "sent"
                                         => Before(requests'[i], requests'[j])
    BY <1>2, <1>7, <1>22 DEF Good
  <2> QED BY <2>1, <2>2 DEF Good
<1>24. HeldSound'
  BY <1>2, <1>11 DEF HeldSound
<1>25. LeftIsStored'
  <2>1. ASSUME page' = "closed" PROVE held' = NotHeld /\ Stored'
    <3>1. held = NotHeld /\ \A i \in IdsOf(w) \ g.unsent : has[i] = ValueOf(w, i)
      BY <1>2, <1>11, <2>1 DEF LeftIsStored, Stored, w, has, g
    <3>2. ASSUME NEW i \in IdsOf(w) \ g.unsent PROVE h[i] = ValueOf(w, i)
      <4> DEFINE c == <<i, ValueOf(w, i)>>
      <4>1. c \in Has(w) /\ c[1] = i /\ c[2] = ValueOf(w, i)
        BY <1>1, <1>2, HasOneEach DEF WorkSound
      <4>2. i \in Ids /\ ValueOf(w, i) \in Value /\ i \notin g.removed
        BY <1>14, <4>1
      <4>3. has[i] = ValueOf(w, i) /\ has[i] # Gone
        BY <3>1, <4>2 DEF Value
      <4>4. h[i] # Gone /\ has[i] <= h[i]
        BY <1>12, <4>2, <4>3
      <4>5. h[i] <= ValueOf(w, i)
        BY <1>15, <4>1, <4>4 DEF AtMost
      <4>6. h[i] \in Value
        <5>1. h \in [Ids -> Value \cup {Gone}]
          BY DEF TypeOK, h
        <5> QED BY <4>2, <4>4, <5>1
      <4> QED BY <4>2, <4>3, <4>4, <4>5, <4>6 DEF Value
    <3> QED BY <1>5, <1>11, <3>1, <3>2 DEF Stored, w, h, g, g2
  <2> QED BY <2>1 DEF LeftIsStored
<1> QED BY <1>11, <1>16, <1>17, <1>18, <1>19, <1>23, <1>24, <1>25 DEF LossInv, w, h, g2

LEMMA ServerKeeps ==
    ASSUME Typed, TypeOK', LossInv, Steady, ServerMoves
    PROVE  LossInv'
<1>1. UNCHANGED <<working, snapshot, held, page, edits>>
  BY DEF ServerMoves, copies
\* The rows are as they were.
<1>2. ASSUME rows'.has = rows.has, past' = past, Good(requests', working, rows.has, past)
      PROVE  LossInv'
  <2>1. HeldSound' /\ LeftIsStored'
    BY <1>1, <1>2 DEF LossInv, HeldSound, LeftIsStored, Stored
  <2> QED BY <1>1, <1>2, <2>1 DEF LossInv
<1>3. CASE rows'.has = rows.has /\ UNCHANGED <<requests, past>>
  <2>1. Good(requests', working, rows.has, past)
    BY <1>3 DEF LossInv
  <2> QED BY <1>2, <1>3, <2>1
<1>4. ASSUME NEW k \in DOMAIN requests, NEW at \in Ats \ {"sent"}, Serves(k, at)
      PROVE  LossInv'
  <2>1. requests[k].at = "sent" /\ requests' = [requests EXCEPT ![k].at = at]
    BY <1>4 DEF Serves
  <2>2. CASE at # "done" /\ rows'.has = rows.has /\ past' = past
    <3>1. at \in {"failed", "refused"}
      BY <2>2 DEF Ats
    <3>2. Good(requests', working, rows.has, past)
      BY <2>1, <3>1, RefusedKeeps
    <3> QED BY <1>2, <2>2, <3>2
  <2>3. CASE Carries(k)
    BY <1>1, <2>1, <2>3, CarriedKeeps
  <2> QED BY <1>4, <2>2, <2>3 DEF Serves
<1> QED BY <1>3, <1>4 DEF ServerMoves

LEMMA LossInvAtFirst == Init => LossInv
<1> SUFFICES ASSUME Init PROVE LossInv
  OBVIOUS
<1>1. /\ working \in Copy /\ snapshot = working /\ requests = <<>> /\ held = NotHeld /\ page = "open"
      /\ edits = 0 /\ past.removed = {} /\ past.destroyed = {} /\ past.unsent = {}
  BY TypedAtFirst DEF Init, Typed, TypeOK
<1>2. /\ DOMAIN working.divisions = {1} /\ working.divisions[1].id = Root /\ working.divisions[1].value = 0
      /\ \A r \in Records : working.records[r] = 0
  BY DEF Init
<1>3. 0 # Gone
  BY DEF Value
<1>4. OneEach(working) /\ Listed(working.divisions) = {<<Root, 0>>} /\ Present(working) = Records
  BY <1>2, <1>3 DEF OneEach, Listed, Present
<1>5. Has(working) = {<<i, 0>> : i \in {Root} \cup Records}
  BY <1>2, <1>4 DEF Has
<1>6. \A i \in Ids : rows.has[i] = IF i \in Others THEN Gone ELSE 0
  BY DEF Init
<1>7. \A i \in {Root} \cup Records : i \in Ids /\ rows.has[i] = 0
  BY <1>6 DEF Ids, Divisions
<1>8. \A c \in Has(working) : c[2] = 0 /\ c[1] \in {Root} \cup Records
  BY <1>5
<1>9. WorkSound(working, rows.has, past, edits)
  BY <1>1, <1>4, <1>7, <1>8 DEF WorkSound, AtMost
<1>10. SnapSound(snapshot, rows.has, past)
  BY <1>1, <1>3, <1>7, <1>8 DEF SnapSound, AtLeast
<1>11. RecordsKept(working, snapshot, past)
  BY <1>1, <1>4 DEF RecordsKept
<1>12. RowsSound(working, rows.has, past)
  <2>1. IdsOf(working) = {c[1] : c \in Has(working)}
    BY <1>1, HasTypes
  <2>2. {Root} \cup Records \subseteq IdsOf(working)
    <3>1. ASSUME NEW i \in {Root} \cup Records PROVE i \in IdsOf(working)
      <4>1. <<i, 0>> \in Has(working) /\ <<i, 0>>[1] = i
        BY <1>5
      <4> QED BY <2>1, <4>1
    <3> QED BY <3>1
  <2>3. \A i \in Ids : i \in Others \/ i \in {Root} \cup Records
    BY DEF Ids, Divisions
  <2>4. \A i \in Ids : rows.has[i] # Gone => i \in IdsOf(working)
    BY <1>6, <2>2, <2>3
  <2> QED BY <1>1, <1>3, <1>7, <2>4 DEF RowsSound
<1>13. Good(requests, working, rows.has, past) /\ HeldSound /\ LeftIsStored
  BY <1>1 DEF Good, HeldSound, LeftIsStored
<1> QED BY <1>9, <1>10, <1>11, <1>12, <1>13 DEF LossInv

LEMMA LossInvariance == ASSUME Steady PROVE Spec => []LossInv
<1>1. Typed /\ LossInv /\ [Next]_vars => LossInv'
  <2> SUFFICES ASSUME Typed, LossInv, [Next]_vars PROVE LossInv'
    OBVIOUS
  <2>1. CASE Next
    BY <2>1, NextIs, ClientKeeps, ServerKeeps
  <2>2. CASE UNCHANGED vars
    <3>1. UNCHANGED <<held, working, snapshot, rows, requests, page, edits, past>>
      BY <2>2 DEF vars, copies, shown
    <3>2. HeldSound' /\ LeftIsStored'
      BY <3>1 DEF LossInv, HeldSound, LeftIsStored, Stored
    <3> QED BY <3>1, <3>2 DEF LossInv
  <2> QED BY <2>1, <2>2
<1> QED BY <1>1, LossInvAtFirst, TypedAlways, PTL DEF Spec

LEMMA CleanIsThere == Typed /\ LossInv => CleanIsStored
<1> SUFFICES ASSUME Typed, LossInv, ~Dirty(working, snapshot) PROVE Stored
  BY DEF CleanIsStored
<1>1. working \in Copy /\ snapshot \in Copy /\ rows.has \in [Ids -> Value \cup {Gone}]
  BY TypesOf DEF Typed
<1>2. CopiesSound(working, snapshot, rows.has, past, edits)
  BY DEF LossInv, CopiesSound
<1>3. \A i \in IdsOf(working) \ past.unsent : rows.has[i] = ValueOf(working, i)
  BY <1>1, <1>2, CleanIs
<1> QED BY <1>3 DEF Stored

\* If there is nothing to save, or the author has left unasked, the rows hold
\* everything the author wrote but for the text of a division that was typed
\* while its creation was on its way: however many edits, failures, lost
\* answers, deployments and overlapping requests there were.
THEOREM NothingIsEverLost == ASSUME Steady PROVE Spec => []NothingIsLost
<1>1. Typed /\ LossInv => NothingIsLost
  BY CleanIsThere DEF NothingIsLost, LossInv
<1> QED BY <1>1, TypedAlways, LossInvariance, PTL

\* The requests sent are ones that the server takes, and what was destroyed
\* stays so.
THEOREM SavesStayConsistent == ASSUME Steady PROVE Spec => []Consistent
<1>1. Typed /\ LossInv => Consistent
  <2> SUFFICES ASSUME Typed, LossInv PROVE SavesAreValid /\ RemovedStaysGone
    BY DEF Consistent, Typed
  <2>1. RowsSound(working, rows.has, past) /\ Good(requests, working, rows.has, past)
    BY DEF LossInv
  <2>2. ASSUME NEW k \in DOMAIN requests, requests[k].at = "sent", requests[k].what = "save",
               NEW r \in requests[k].sources
        PROVE  rows.has[r] # Gone
    <3>1. requests[k] \in Request /\ r \in Records
      <4>1. requests[k] \in Request
        BY TypesOf DEF Typed
      <4> QED BY <4>1 DEF Request
    <3>2. Sound(requests[k], working, rows.has, past)
      BY <2>1 DEF Good
    <3> DEFINE c == <<r, requests[k].copy.records[r]>>
    <3>3. c \in Writes(requests[k]) /\ c[1] = r
      BY <2>2 DEF Writes
    <3>4. c[1] \notin past.destroyed
      BY <2>2, <3>2, <3>3 DEF Sound
    <3> QED BY <2>1, <3>1, <3>3, <3>4 DEF RowsSound
  <2>3. SavesAreValid
    BY <2>2 DEF SavesAreValid, Invalid
  <2>4. RemovedStaysGone
    BY <2>1 DEF RemovedStaysGone, RowsSound
  <2> QED BY <2>3, <2>4
<1> QED BY <1>1, TypedAlways, LossInvariance, PTL
=============================================================================
