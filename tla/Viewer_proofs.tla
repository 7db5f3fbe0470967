--------------------------- MODULE Viewer_proofs ---------------------------
(***************************************************************************)
(* What a viewer is shown, and on whose word.  Of the live map             *)
(* (PresenceMap): that nobody is drawn under another's name.  Of the       *)
(* account behind its session (AccountAccess): type correctness, that a    *)
(* copy is no staler than its time to live, and that an eviction bounds    *)
(* the process that made it.                                               *)
(***************************************************************************)
EXTENDS Viewer, FiniteSetTheorems, WellFoundedInduction, TLAPS

-----------------------------------------------------------------------------
(* Numbers                                                                 *)

Nums == 1..(IdxWrap - 1)

\* A set of people has a last one.
LEMMA LastOne ==
  ASSUME NEW S, S \subseteq People, S # {}
  PROVE  Max(S) \in S /\ \A q \in S : q <= Max(S)
<1> DEFINE Above == {n \in Nat : \A q \in S : q <= n}
<1>1. \A n : n \in Above <=> n \in Nat /\ \A q \in S : q <= n
  OBVIOUS
<1>2. Above \subseteq Nat /\ Above # {}
  <2>1. Crowd \in Above
    BY MapAssumption DEF People
  <2> QED BY <2>1
<1> HIDE DEF Above
<1>3. PICK n \in Above : \A k \in Above : ~(<<k, n>> \in OpToRel(<, Nat))
  BY <1>2, NatLessThanWellFounded, WFMin
<1>4. \A k \in Above : ~(k < n)
  BY <1>2, <1>3 DEF OpToRel
<1>5. n \in Nat /\ \A q \in S : q <= n /\ q \in Nat \ {0}
  BY <1>1, MapAssumption DEF People
<1>6. n \in S
  <2>1. CASE n \notin S
    <3>1. n - 1 \in Nat /\ \A q \in S : q <= n - 1
      BY <1>5, <2>1
    <3>2. n - 1 \in Above
      BY <1>1, <3>1
    <3> QED BY <1>4, <1>5, <3>2
  <2> QED BY <2>1
<1>7. \A q \in S : n >= q
  BY <1>5
<1>8. Max(S) \in S /\ \A q \in S : Max(S) >= q
  BY <1>6, <1>7 DEF Max
<1> QED BY <1>5, <1>8

\* Counting the people of a set who come before one of it.
LEMMA Order ==
  ASSUME NEW S, S \subseteq People
  PROVE  /\ IsFiniteSet(S) /\ Cardinality(S) \in 0..Crowd
         /\ \A p \in S : Before(S, p) \in 0..(Cardinality(S) - 1)
         /\ \A p, q \in S : p < q => Before(S, p) < Before(S, q)
         /\ S # {} => Before(S, Max(S)) = Cardinality(S) - 1
<1>1. IsFiniteSet(People) /\ Cardinality(People) = Crowd
  BY FS_Interval, MapAssumption DEF People
<1>2. IsFiniteSet(S) /\ Cardinality(S) \in Nat /\ Cardinality(S) <= Crowd
  BY <1>1, FS_Subset, FS_CardinalityType
<1>3. \A p \in S : p \in Nat
  BY MapAssumption DEF People
<1>4. ASSUME NEW p \in S PROVE Before(S, p) \in 0..(Cardinality(S) - 1)
  <2> DEFINE A == {q \in S : q < p}
  <2>1. A \subseteq S /\ p \in S /\ p \notin A
    BY <1>3
  <2>2. Cardinality(A) <= Cardinality(S) /\ (Cardinality(A) = Cardinality(S) => A = S)
        /\ Cardinality(A) \in Nat
    BY <1>2, <2>1, FS_Subset, FS_CardinalityType
  <2>3. Before(S, p) = Cardinality(A)
    BY DEF Before
  <2> HIDE DEF A
  <2>4. Cardinality(A) # Cardinality(S)
    BY <2>1, <2>2
  <2> QED BY <1>2, <2>2, <2>3, <2>4
<1>5. ASSUME NEW p \in S, NEW q \in S, p < q PROVE Before(S, p) < Before(S, q)
  <2> DEFINE A == {k \in S : k < p}
             B == {k \in S : k < q}
             C == A \cup {p}
  <2>1. A \subseteq S /\ B \subseteq S /\ p \notin A /\ C \subseteq B
    <3>1. ~(p < p) /\ \A k \in S : k < p => k < q
      BY <1>3, <1>5
    <3>2. p \notin A /\ \A k \in A : k \in B
      BY <3>1
    <3> QED BY <1>5, <3>2
  <2>2. IsFiniteSet(A) /\ IsFiniteSet(B)
    BY <1>2, <2>1, FS_Subset
  <2>3. Cardinality(C) = Cardinality(A) + 1
    BY <2>1, <2>2, FS_AddElement
  <2>4. Cardinality(C) <= Cardinality(B)
    BY <2>1, <2>2, FS_Subset
  <2>5. Cardinality(A) \in Nat /\ Cardinality(B) \in Nat
    BY <2>2, FS_CardinalityType
  <2>6. Before(S, p) = Cardinality(A) /\ Before(S, q) = Cardinality(B)
    BY DEF Before
  <2> HIDE DEF A, B, C
  <2> QED BY <2>3, <2>4, <2>5, <2>6
<1>6. ASSUME S # {} PROVE Before(S, Max(S)) = Cardinality(S) - 1
  <2> DEFINE m == Max(S)
  <2>1. m \in S /\ \A q \in S : q <= m
    BY <1>6, LastOne
  <2> HIDE DEF m
  <2>2. {q \in S : q < m} = S \ {m}
    <3>1. \A q \in S : q < m <=> q # m
      BY <1>3, <2>1
    <3> QED BY <3>1
  <2>3. Cardinality(S \ {m}) = Cardinality(S) - 1
    BY <1>2, <2>1, FS_RemoveElement
  <2> QED BY <2>2, <2>3 DEF Before, m
<1> QED BY <1>2, <1>4, <1>5, <1>6

\* The table: numbers below the next one, each held by one person.
Table ==
    /\ next \in 1..IdxWrap
    /\ idx \in [People -> Nat] /\ \A p \in People : idx[p] < next
    /\ \A p, q \in People : idx[p] = idx[q] /\ idx[p] # 0 => p = q

LEMMA Crowds ==
  /\ Visible \subseteq People /\ Tracked \subseteq People /\ New \subseteq Visible
  /\ Overflowing \subseteq New /\ Anew \subseteq Visible
  /\ Overflowing = {} <=> Anew = {}
  /\ \A p \in Visible \ Anew, q \in Anew : p < q
  /\ JoinedNow \subseteq RowsNow /\ RowsNow \subseteq Visible
  /\ \A p \in Visible \ JoinedNow : p \in Tracked \ Anew
  /\ \A p \in Visible : p \in Tracked <=> idx[p] # 0
<1>1. Visible \subseteq People /\ Visible \cap Expired = {}
  BY DEF Visible, Audience, Expired
<1>2. Tracked \subseteq People /\ New \subseteq Visible /\ Overflowing \subseteq New /\ Anew \subseteq Visible
  BY DEF Tracked, New, Overflowing, Anew
<1>3. \A p \in People : p \in Nat
  BY MapAssumption DEF People
<1>4. Overflowing \subseteq Anew
  BY <1>1, <1>2, <1>3 DEF Anew
<1>5. Overflowing = {} <=> Anew = {}
  BY <1>4 DEF Anew
<1>6. ASSUME NEW p \in Visible \ Anew, NEW q \in Anew PROVE p < q
  <2>1. PICK o \in Overflowing : o <= q
    BY DEF Anew
  <2>2. ~(o <= p)
    BY <1>6 DEF Anew
  <2> QED BY <1>1, <1>2, <1>3, <2>1, <2>2
<1>7. JoinedNow \subseteq RowsNow /\ RowsNow \subseteq Visible
  BY <1>2 DEF JoinedNow, RowsNow
<1>8. \A p \in Visible \ JoinedNow : p \in Tracked \ Anew
  BY <1>2 DEF JoinedNow, New
<1>9. \A p \in Visible : p \in Tracked <=> idx[p] # 0
  BY <1>1 DEF Tracked
<1> QED BY <1>1, <1>2, <1>5, <1>6, <1>7, <1>8, <1>9

\* The numbers of a tick fit the table, and of two people who share one the
\* later is numbered anew.
LEMMA NumbersFit ==
  ASSUME Table
  PROVE  /\ \A p \in Visible : Number(p) \in Nums
         /\ \A p, q \in Visible : q < p /\ Number(p) = Number(q) => p \in Anew /\ q \notin Anew
<1>1. \A p \in Visible : p \in Nat /\ p \in People
  BY Crowds, MapAssumption DEF People
<1>2. /\ \A p \in Anew : Before(Anew, p) \in 0..(Cardinality(Anew) - 1)
      /\ \A p, q \in Anew : p < q => Before(Anew, p) < Before(Anew, q)
      /\ Cardinality(Anew) \in 0..Crowd
  <2>1. Anew \subseteq People
    BY Crowds
  <2> HIDE DEF Anew
  <2> QED BY <2>1, Order
<1>3. /\ \A p \in New : Before(New, p) \in 0..(Cardinality(New) - 1)
      /\ \A p, q \in New : p < q => Before(New, p) < Before(New, q)
      /\ Cardinality(New) \in 0..Crowd
  <2>1. New \subseteq People
    BY Crowds
  <2> HIDE DEF New
  <2> QED BY <2>1, Order
<1>4. next \in 1..IdxWrap /\ Crowd \in Nat /\ IdxWrap \in Nat /\ Crowd < IdxWrap
      /\ \A p \in People : idx[p] \in Nat /\ idx[p] < next
  BY MapAssumption DEF Table
<1>5. ASSUME NEW p \in Anew PROVE Number(p) = Before(Anew, p) + 1
  BY DEF Number
<1>6. ASSUME NEW p \in Visible \ Anew, p \in Tracked PROVE Number(p) = idx[p] /\ idx[p] # 0
  BY <1>6, Crowds DEF Number
<1>7. ASSUME NEW p \in Visible \ Anew, p \notin Tracked
      PROVE  p \in New /\ Number(p) = next + Before(New, p) /\ Number(p) < IdxWrap
  <2>1. p \in New /\ Number(p) = next + Before(New, p)
    BY <1>7 DEF New, Number, NextNumber
  <2>2. p \notin Overflowing
    BY <1>1, <1>7 DEF Anew
  <2>3. ~(next + Before(New, p) >= IdxWrap)
    BY <2>1, <2>2 DEF Overflowing
  <2>4. Before(New, p) \in Nat
    BY <1>3, <2>1
  <2> QED BY <1>4, <2>1, <2>3, <2>4
<1>8. ASSUME NEW p \in Visible PROVE Number(p) \in Nums
  <2>1. CASE p \in Anew
    BY <1>2, <1>4, <1>5, <2>1 DEF Nums
  <2>2. CASE p \notin Anew /\ p \in Tracked
    BY <1>1, <1>4, <1>6, <2>2 DEF Nums
  <2>3. CASE p \notin Anew /\ p \notin Tracked
    BY <1>3, <1>4, <1>7, <2>3 DEF Nums
  <2> QED BY <2>1, <2>2, <2>3
<1>9. ASSUME NEW p \in Visible, NEW q \in Visible, q < p, Number(p) = Number(q)
      PROVE  p \in Anew /\ q \notin Anew
  <2>1. CASE p \in Anew /\ q \in Anew
    BY <1>2, <1>5, <1>9, <2>1
  <2>2. CASE p \notin Anew /\ q \in Anew
    <3>1. p < q
      BY <2>2, Crowds
    <3> QED BY <1>1, <1>9, <3>1
  <2>3. CASE p \notin Anew /\ q \notin Anew
    <3>1. CASE p \in Tracked /\ q \in Tracked
      <4>1. idx[p] = idx[q] /\ idx[p] # 0
        BY <1>6, <1>9, <2>3, <3>1
      <4>2. p = q
        BY <1>1, <4>1 DEF Table
      <4> QED BY <1>1, <1>9, <4>2
    <3>2. CASE p \notin Tracked /\ q \notin Tracked
      BY <1>3, <1>4, <1>7, <1>9, <2>3, <3>2
    <3>3. CASE p \in Tracked /\ q \notin Tracked
      BY <1>1, <1>3, <1>4, <1>6, <1>7, <1>9, <2>3, <3>3
    <3>4. CASE p \notin Tracked /\ q \in Tracked
      BY <1>1, <1>3, <1>4, <1>6, <1>7, <1>9, <2>3, <3>4
    <3> QED BY <3>1, <3>2, <3>3, <3>4
  <2> QED BY <2>1, <2>2, <2>3
<1> QED BY <1>8, <1>9

-----------------------------------------------------------------------------
(* What a page makes of the frames on their way                            *)

Bindings == [Nums -> 0..Crowd]

\* The bindings after a frame, and rows that a page would draw rightly.
Bind(s, f) ==
    [i \in Nums |->
        IF f.t = "head" /\ \E j \in f.joins : j.i = i THEN Max({j.p : j \in {k \in f.joins : k.i = i}})
        ELSE IF f.t = "expire" /\ i \in f.ids THEN Nobody ELSE s[i]]
Fits(s, rows) ==
    \A r \in rows : s[r.i] \in People =>
        \E q \in rows : s[q.i] = s[r.i] /\ q.of = s[r.i] /\ r.of <= q.of

Joins == [i : Nums, p : People]
Spoken(f) ==
    /\ f.t \in {"head", "rows", "expire", "notice"}
    /\ f.t = "head" => f.joins \subseteq Joins
    /\ f.t = "rows" => \A r \in f.rows : r.i \in Nums /\ r.of \in People

\* Bindings s become e by the frames w, whose rows fit where they come.
Path(ss, w, s, e) ==
    /\ ss \in [0..Len(w) -> Bindings] /\ ss[0] = s /\ ss[Len(w)] = e
    /\ \A n \in 1..Len(w) : /\ Spoken(w[n]) /\ ss[n] = Bind(ss[n - 1], w[n])
                            /\ w[n].t = "rows" => Fits(ss[n - 1], w[n].rows)
Leads(w, s, e) == \E ss : Path(ss, w, s, e)

LEMMA Bound ==
  ASSUME NEW s \in Bindings, NEW f, Spoken(f)
  PROVE  Bind(s, f) \in Bindings
<1>1. ASSUME NEW i \in Nums, f.t = "head", \E j \in f.joins : j.i = i
      PROVE  Max({j.p : j \in {k \in f.joins : k.i = i}}) \in 0..Crowd
  <2> DEFINE S == {j.p : j \in {k \in f.joins : k.i = i}}
  <2>1. f.joins \subseteq Joins
    BY <1>1 DEF Spoken
  <2>2. S \subseteq People /\ S # {}
    BY <1>1, <2>1 DEF Joins
  <2> HIDE DEF S
  <2>3. Max(S) \in People
    BY <2>2, LastOne
  <2> QED BY <2>3, MapAssumption DEF S, People
<1>2. Nobody \in 0..Crowd
  BY MapAssumption DEF Nobody
<1>3. \A i \in Nums : s[i] \in 0..Crowd
  BY DEF Bindings
<1> QED BY <1>1, <1>2, <1>3 DEF Bind, Bindings

LEMMA LeadsTo == ASSUME NEW w, Len(w) \in Nat, NEW s, NEW e, Leads(w, s, e) PROVE s \in Bindings /\ e \in Bindings
<1>1. PICK ss : Path(ss, w, s, e)
  BY DEF Leads
<1>2. 0 \in 0..Len(w) /\ Len(w) \in 0..Len(w)
  OBVIOUS
<1> QED BY <1>1, <1>2 DEF Path

LEMMA LeadsNowhere == ASSUME NEW s \in Bindings PROVE Leads(<<>>, s, s)
<1> DEFINE ss == [n \in 0..0 |-> s]
<1>1. Len(<<>>) = 0 /\ ss \in [0..0 -> Bindings] /\ ss[0] = s
  OBVIOUS
<1> HIDE DEF ss
<1>2. Path(ss, <<>>, s, s)
  BY <1>1 DEF Path
<1> QED BY <1>2 DEF Leads

LEMMA LeadsOn ==
  ASSUME NEW S, NEW w \in Seq(S), NEW s, NEW e, Leads(w, s, e),
         NEW f \in S, Spoken(f), f.t = "rows" => Fits(e, f.rows), NEW x, x = Append(w, f)
  PROVE  Leads(x, s, Bind(e, f)) /\ Bind(e, f) \in Bindings
<1>1. PICK ss : Path(ss, w, s, e)
  BY DEF Leads
<1>2. Len(w) \in Nat /\ Len(x) = Len(w) + 1 /\ x[Len(w) + 1] = f /\ \A n \in 1..Len(w) : x[n] = w[n]
  OBVIOUS
<1>3. e \in Bindings
  BY <1>1, <1>2 DEF Path
<1>4. Bind(e, f) \in Bindings
  BY <1>3, Bound
<1> DEFINE tt == [n \in 0..Len(x) |-> IF n = Len(x) THEN Bind(e, f) ELSE ss[n]]
<1>5. ss \in [0..Len(w) -> Bindings] /\ ss[0] = s /\ ss[Len(w)] = e
  BY <1>1 DEF Path
<1>6. /\ tt \in [0..Len(x) -> Bindings] /\ tt[Len(x)] = Bind(e, f)
      /\ \A n \in 0..Len(w) : tt[n] = ss[n]
  BY <1>2, <1>4, <1>5
<1> HIDE DEF tt
<1>7. tt[0] = s /\ tt[Len(w)] = e
  BY <1>2, <1>5, <1>6
<1>8. ASSUME NEW n \in 1..Len(x)
      PROVE  /\ Spoken(x[n]) /\ tt[n] = Bind(tt[n - 1], x[n])
             /\ x[n].t = "rows" => Fits(tt[n - 1], x[n].rows)
  <2>1. CASE n = Len(x)
    <3>1. x[n] = f /\ tt[n - 1] = e
      BY <1>2, <1>7, <2>1
    <3> QED BY <1>6, <2>1, <3>1
  <2>2. CASE n # Len(x)
    <3>1. n \in 1..Len(w) /\ n - 1 \in 0..Len(w) /\ n \in 0..Len(w)
      BY <1>2, <2>2
    <3>2. x[n] = w[n] /\ tt[n] = ss[n] /\ tt[n - 1] = ss[n - 1]
      BY <1>2, <1>6, <3>1
    <3> QED BY <1>1, <3>1, <3>2 DEF Path
  <2> QED BY <2>1, <2>2
<1>9. Path(tt, x, s, Bind(e, f))
  BY <1>6, <1>7, <1>8 DEF Path
<1> QED BY <1>4, <1>9 DEF Leads

LEMMA LeadsFrom ==
  ASSUME NEW S, NEW w \in Seq(S), w # <<>>, NEW s, NEW e, Leads(w, s, e), NEW f, f = Head(w),
         NEW x, x = Tail(w)
  PROVE  /\ Spoken(f) /\ (f.t = "rows" => Fits(s, f.rows))
         /\ s \in Bindings /\ Bind(s, f) \in Bindings /\ Leads(x, Bind(s, f), e)
<1>1. PICK ss : Path(ss, w, s, e)
  BY DEF Leads
<1>2. Len(w) \in Nat \ {0} /\ Len(x) = Len(w) - 1 /\ f = w[1] /\ \A n \in 1..(Len(w) - 1) : x[n] = w[n + 1]
  OBVIOUS
<1>3. ss \in [0..Len(w) -> Bindings] /\ ss[0] = s /\ ss[Len(w)] = e
  BY <1>1 DEF Path
<1>4. 1 \in 1..Len(w) /\ 1 - 1 = 0 /\ 0 \in 0..Len(w) /\ 1 \in 0..Len(w)
  BY <1>2
<1>5. Spoken(f) /\ (f.t = "rows" => Fits(s, f.rows)) /\ ss[1] = Bind(s, f)
  BY <1>1, <1>2, <1>3, <1>4 DEF Path
<1>6. s \in Bindings /\ Bind(s, f) \in Bindings
  BY <1>3, <1>4, <1>5
<1> DEFINE tt == [n \in 0..Len(x) |-> ss[n + 1]]
<1>7. \A n \in 0..Len(x) : n + 1 \in 0..Len(w)
  BY <1>2
<1>8. tt \in [0..Len(x) -> Bindings] /\ \A n \in 0..Len(x) : tt[n] = ss[n + 1]
  BY <1>3, <1>7
<1> HIDE DEF tt
<1>9. tt[0] = Bind(s, f) /\ tt[Len(x)] = e
  BY <1>2, <1>3, <1>5, <1>8
<1>10. ASSUME NEW n \in 1..Len(x)
       PROVE  /\ Spoken(x[n]) /\ tt[n] = Bind(tt[n - 1], x[n])
              /\ x[n].t = "rows" => Fits(tt[n - 1], x[n].rows)
  <2>1. n + 1 \in 1..Len(w) /\ n \in 0..Len(x) /\ n - 1 \in 0..Len(x) /\ (n - 1) + 1 = n /\ (n + 1) - 1 = n
        /\ n \in 1..(Len(w) - 1)
    BY <1>2
  <2>2. x[n] = w[n + 1] /\ tt[n] = ss[n + 1] /\ tt[n - 1] = ss[n]
    BY <1>2, <1>8, <2>1
  <2>3. Spoken(w[n + 1]) /\ ss[n + 1] = Bind(ss[(n + 1) - 1], w[n + 1])
        /\ (w[n + 1].t = "rows" => Fits(ss[(n + 1) - 1], w[n + 1].rows))
    BY <1>1, <2>1 DEF Path
  <2> QED BY <2>1, <2>2, <2>3
<1>11. Path(tt, x, Bind(s, f), e)
  BY <1>8, <1>9, <1>10 DEF Path
<1> QED BY <1>5, <1>6, <1>11 DEF Leads

-----------------------------------------------------------------------------
(* A tick                                                                  *)

HeadNow == HeadFrame({[i |-> Number(p), p |-> p] : p \in JoinedNow})
RowList == {[i |-> Number(p), pos |-> at[p], of |-> p] : p \in RowsNow}
ExpiryNow == ExpireFrame(GoneNow)

\* What the page has bound, once all is heard, is nobody but who holds the number.
Synced(e) == \A p \in People : idx[p] # 0 => e[idx[p]] \in {Nobody, p}

\* A head binds a number to the last who joins under it.
LEMMA Named ==
  ASSUME Table, NEW e \in Bindings
  PROVE  /\ Spoken(HeadNow) /\ Bind(e, HeadNow) \in Bindings
         /\ \A p \in JoinedNow : \E m \in JoinedNow :
                /\ Number(m) = Number(p) /\ Bind(e, HeadNow)[Number(p)] = m
                /\ \A q \in JoinedNow : Number(q) = Number(p) => q <= m
         /\ \A i \in Nums : (\A p \in JoinedNow : Number(p) # i) => Bind(e, HeadNow)[i] = e[i]
<1> DEFINE J == {[i |-> Number(p), p |-> p] : p \in JoinedNow}
<1>1. \A p \in JoinedNow : Number(p) \in Nums /\ p \in People
  BY Crowds, NumbersFit
<1>2. /\ \A p \in JoinedNow : \E j \in J : j.i = Number(p) /\ j.p = p
      /\ \A j \in J : j.p \in JoinedNow /\ j.i = Number(j.p) /\ j = [i |-> j.i, p |-> j.p]
  <2>1. ASSUME NEW p \in JoinedNow PROVE \E j \in J : j.i = Number(p) /\ j.p = p
    <3> DEFINE j == [i |-> Number(p), p |-> p]
    <3>1. j \in J /\ j.i = Number(p) /\ j.p = p
      OBVIOUS
    <3> HIDE DEF j, J
    <3> QED BY <3>1
  <2>2. ASSUME NEW j \in J PROVE j.p \in JoinedNow /\ j.i = Number(j.p) /\ j = [i |-> j.i, p |-> j.p]
    <3>1. PICK p \in JoinedNow : j = [i |-> Number(p), p |-> p]
      OBVIOUS
    <3> HIDE DEF J
    <3> QED BY <3>1
  <2> HIDE DEF J
  <2> QED BY <2>1, <2>2
<1>3. HeadNow.t = "head" /\ HeadNow.joins = J
  BY DEF HeadNow, HeadFrame
<1> HIDE DEF J
<1>4. J \subseteq Joins
  <2> SUFFICES ASSUME NEW j \in J PROVE j \in Joins
    OBVIOUS
  <2>1. j.i \in Nums /\ j.p \in People /\ j = [i |-> j.i, p |-> j.p]
    BY <1>1, <1>2
  <2> QED BY <2>1 DEF Joins
<1>5. Spoken(HeadNow)
  BY <1>3, <1>4 DEF Spoken
<1>6. Bind(e, HeadNow) \in Bindings
  BY <1>5, Bound
<1>7. ASSUME NEW p \in JoinedNow
      PROVE  \E m \in JoinedNow :
                /\ Number(m) = Number(p) /\ Bind(e, HeadNow)[Number(p)] = m
                /\ \A q \in JoinedNow : Number(q) = Number(p) => q <= m
  <2> DEFINE i == Number(p)
             S == {j.p : j \in {k \in J : k.i = i}}
  <2>1. \A q : q \in S <=> q \in JoinedNow /\ Number(q) = i
    BY <1>2
  <2>2. \E j \in J : j.i = i
    BY <1>2
  <2>3. Bind(e, HeadNow)[i] = Max(S)
    BY <1>1, <1>3, <2>2 DEF Bind
  <2> HIDE DEF S
  <2>4. S \subseteq People /\ S # {}
    BY <1>1, <2>1
  <2>5. Max(S) \in S /\ \A q \in S : q <= Max(S)
    BY <2>4, LastOne
  <2> QED BY <2>1, <2>3, <2>5
<1>8. ASSUME NEW i \in Nums, \A p \in JoinedNow : Number(p) # i PROVE Bind(e, HeadNow)[i] = e[i]
  <2>1. ~\E j \in J : j.i = i
    BY <1>2, <1>8
  <2> QED BY <1>3, <2>1 DEF Bind
<1> QED BY <1>5, <1>6, <1>7, <1>8

\* The last of two who share a number is among the joiners.
LEMMA LaterJoins ==
  ASSUME Table, NEW p \in Visible, NEW m \in Visible, m < p, Number(m) = Number(p)
  PROVE  p \in JoinedNow /\ p \in Anew /\ m \notin Anew
<1>1. p \in Anew /\ m \notin Anew
  BY NumbersFit
<1> QED BY <1>1 DEF JoinedNow

\* Everyone who is given a row has one under his number.
LEMMA RowsNamed ==
  /\ \A r \in RowList : r.of \in RowsNow /\ r.i = Number(r.of)
  /\ \A p \in RowsNow : \E q \in RowList : q.of = p /\ q.i = Number(p)
<1>1. ASSUME NEW r \in RowList PROVE r.of \in RowsNow /\ r.i = Number(r.of)
  <2>1. PICK p \in RowsNow : r = [i |-> Number(p), pos |-> at[p], of |-> p]
    BY DEF RowList
  <2> QED BY <2>1
<1>2. ASSUME NEW p \in RowsNow PROVE \E q \in RowList : q.of = p /\ q.i = Number(p)
  <2> DEFINE q == [i |-> Number(p), pos |-> at[p], of |-> p]
  <2>1. q \in RowList
    BY DEF RowList
  <2>2. q.of = p /\ q.i = Number(p)
    OBVIOUS
  <2> HIDE DEF q
  <2> QED BY <2>1, <2>2
<1> QED BY <1>1, <1>2

LEMMA RowsFit ==
  ASSUME Table, NEW e \in Bindings, Synced(e)
  PROVE  Fits(Bind(e, HeadNow), RowList)
<1> DEFINE s == Bind(e, HeadNow)
<1>1. \A p \in Visible : p \in People /\ p \in Nat /\ Number(p) \in Nums
  BY Crowds, NumbersFit, MapAssumption DEF People
<1>2. /\ \A r \in RowList : r.of \in RowsNow /\ r.i = Number(r.of)
      /\ \A p \in RowsNow : \E q \in RowList : q.of = p /\ q.i = Number(p)
  BY RowsNamed
<1>3. SUFFICES ASSUME NEW r \in RowList, s[r.i] \in People
               PROVE  \E q \in RowList : s[q.i] = s[r.i] /\ q.of = s[r.i] /\ r.of <= q.of
  BY DEF Fits
<1> DEFINE a == r.of
<1>4. a \in RowsNow /\ a \in Visible /\ r.i = Number(a)
  BY <1>2, <1>3, Crowds
<1> HIDE DEF s, a
<1>5. CASE \E k \in JoinedNow : Number(k) = Number(a)
  <2>1. PICK k \in JoinedNow : Number(k) = Number(a)
    BY <1>5
  <2>2. PICK m \in JoinedNow : /\ Number(m) = Number(a) /\ s[Number(a)] = m
                               /\ \A q \in JoinedNow : Number(q) = Number(a) => q <= m
    BY <2>1, Named DEF s
  <2>3. m \in RowsNow /\ m \in Visible
    BY Crowds
  <2>4. ~(m < a)
    <3> SUFFICES ASSUME m < a PROVE FALSE
      OBVIOUS
    <3>1. a \in JoinedNow
      BY <1>4, <2>2, <2>3, LaterJoins
    <3>2. a <= m
      BY <2>2, <3>1
    <3> QED BY <1>1, <1>4, <2>3, <3>2
  <2>5. a <= m
    BY <1>1, <1>4, <2>3, <2>4
  <2>6. PICK q \in RowList : q.of = m /\ q.i = Number(m)
    BY <1>2, <2>3
  <2>7. s[q.i] = s[r.i] /\ q.of = s[r.i] /\ r.of <= q.of
    BY <1>4, <2>2, <2>5, <2>6 DEF a
  <2> QED BY <2>7
<1>6. CASE \A k \in JoinedNow : Number(k) # Number(a)
  <2>1. s[Number(a)] = e[Number(a)]
    BY <1>1, <1>4, <1>6, Named DEF s
  <2>2. a \in Tracked /\ a \notin Anew
    BY <1>4, <1>6, Crowds
  <2>3. Number(a) = idx[a] /\ idx[a] # 0 /\ a \in People
    BY <1>1, <1>4, <2>2, Crowds DEF Number
  <2>4. e[idx[a]] \in {Nobody, a}
    BY <2>3 DEF Synced
  <2>5. Nobody \notin People
    BY MapAssumption DEF Nobody, People
  <2>6. s[r.i] = a
    BY <1>3, <1>4, <2>1, <2>3, <2>4, <2>5
  <2>7. r.of = s[r.i] /\ r.of <= r.of
    BY <1>1, <1>4, <2>6 DEF a
  <2> QED BY <2>7
<1> QED BY <1>5, <1>6

\* The numbers a tick leaves in the table.
Kept == {p \in Visible : Overflowing = {} \/ p \in Anew}

LEMMA TableTicks ==
  ASSUME Table,
         idx' = [p \in People |-> IF p \in Visible /\ (Overflowing = {} \/ p \in Anew) THEN Number(p) ELSE 0],
         next' = IF Overflowing # {} THEN Cardinality(Anew) + 1 ELSE next + Cardinality(New)
  PROVE  /\ Table'
         /\ \A p \in People : idx'[p] # 0 => p \in Kept /\ idx'[p] = Number(p)
<1>1. \A p \in People : p \in Nat
  BY MapAssumption DEF People
<1>2. Visible \subseteq People /\ Anew \subseteq Visible /\ New \subseteq Visible
      /\ (Overflowing = {} <=> Anew = {}) /\ \A p \in Visible : p \in Tracked <=> idx[p] # 0
  BY Crowds
<1>3. \A p \in People : /\ p \in Kept => idx'[p] = Number(p)
                        /\ p \notin Kept => idx'[p] = 0
  BY DEF Kept
<1>4. \A p \in People : idx'[p] # 0 => p \in Kept /\ idx'[p] = Number(p)
  BY <1>3
<1>5. \A p \in Visible : Number(p) \in Nums /\ Number(p) \in Nat
  BY NumbersFit, MapAssumption DEF Nums
<1>6. idx' \in [People -> Nat]
  BY <1>2, <1>5
<1>7. ASSUME NEW p \in People, NEW q \in People, idx'[p] = idx'[q], idx'[p] # 0 PROVE p = q
  <2>1. p \in Kept /\ q \in Kept /\ Number(p) = Number(q) /\ p \in Visible /\ q \in Visible
    BY <1>4, <1>7 DEF Kept
  <2>2. (p \in Anew /\ q \in Anew) \/ (p \notin Anew /\ q \notin Anew)
    BY <1>2, <2>1 DEF Kept
  <2>3. ~(p < q) /\ ~(q < p)
    BY <2>1, <2>2, NumbersFit
  <2> QED BY <1>1, <2>3
<1>8. next \in 1..IdxWrap /\ Crowd \in Nat /\ IdxWrap \in Nat /\ Crowd < IdxWrap
      /\ \A p \in People : idx[p] \in Nat /\ idx[p] < next
  BY MapAssumption DEF Table
<1>9. next' \in 1..IdxWrap /\ \A p \in People : idx'[p] < next'
  <2>1. CASE Overflowing # {}
    <3>1. Anew \subseteq People
      BY <1>2
    <3> HIDE DEF Anew
    <3>2. Cardinality(Anew) \in 0..Crowd /\ \A p \in Anew : Before(Anew, p) \in 0..(Cardinality(Anew) - 1)
      BY <3>1, Order
    <3>3. next' = Cardinality(Anew) + 1
      BY <2>1
    <3>4. ASSUME NEW p \in People PROVE idx'[p] < next'
      <4>1. CASE p \in Kept
        <5>1. p \in Anew
          BY <2>1, <4>1 DEF Kept
        <5>2. idx'[p] = Before(Anew, p) + 1
          BY <1>3, <4>1, <5>1 DEF Number
        <5> QED BY <3>2, <3>3, <5>1, <5>2
      <4>2. CASE p \notin Kept
        BY <1>3, <3>2, <3>3, <4>2
      <4> QED BY <4>1, <4>2
    <3> QED BY <1>8, <3>2, <3>3, <3>4
  <2>2. CASE Overflowing = {}
    <3>1. New \subseteq People
      BY <1>2
    <3>2. next' = next + Cardinality(New)
      BY <2>2
    <3> DEFINE m == Max(New)
    <3>3. New # {} => m \in New
      BY <3>1, LastOne
    <3>4. /\ Cardinality(New) \in 0..Crowd
          /\ \A p \in New : Before(New, p) \in 0..(Cardinality(New) - 1)
          /\ New # {} => Before(New, m) = Cardinality(New) - 1
          /\ New = {} => Cardinality(New) = 0
      <4> HIDE DEF New
      <4> QED BY <3>1, Order, FS_EmptySet
    <3> HIDE DEF m
    <3>5. next + Cardinality(New) <= IdxWrap
      <4>1. CASE New = {}
        BY <1>8, <3>4, <4>1
      <4>2. CASE New # {}
        <5>1. ~(next + Before(New, m) >= IdxWrap)
          BY <2>2, <3>3, <4>2 DEF Overflowing
        <5> QED BY <1>8, <3>4, <4>2, <5>1
      <4> QED BY <4>1, <4>2
    <3>6. ASSUME NEW p \in People PROVE idx'[p] < next'
      <4>1. CASE p \notin Kept
        BY <1>3, <1>8, <3>2, <3>4, <4>1
      <4>2. CASE p \in Kept /\ p \in Tracked
        <5>1. idx'[p] = idx[p]
          BY <1>2, <1>3, <2>2, <4>2 DEF Number
        <5> QED BY <1>8, <3>2, <3>4, <5>1
      <4>3. CASE p \in Kept /\ p \notin Tracked
        <5>1. p \in New
          BY <4>3 DEF Kept, New
        <5>2. idx'[p] = next + Before(New, p)
          BY <1>2, <1>3, <2>2, <4>3 DEF Number, NextNumber
        <5> QED BY <1>8, <3>2, <3>4, <5>1, <5>2
      <4> QED BY <4>1, <4>2, <4>3
    <3> QED BY <1>8, <3>2, <3>4, <3>5, <3>6
  <2> QED BY <2>1, <2>2
<1> QED BY <1>4, <1>6, <1>7, <1>9 DEF Table

\* Once the frames of a tick are heard, the page has bound what the table holds.
LEMMA Agrees ==
  ASSUME Table, NEW e \in Bindings, Synced(e), NEW p \in Kept
  PROVE  Bind(Bind(e, HeadNow), ExpiryNow)[Number(p)] \in {Nobody, p}
<1> DEFINE s == Bind(e, HeadNow)
<1>1. \A q \in Visible : q \in People /\ q \in Nat /\ Number(q) \in Nums
  BY Crowds, NumbersFit, MapAssumption DEF People
<1>2. p \in Visible /\ (Overflowing = {} \/ p \in Anew) /\ (Overflowing = {} => Anew = {})
  BY Crowds DEF Kept
<1>3. Bind(s, ExpiryNow)[Number(p)] \in {Nobody, s[Number(p)]}
  BY <1>1, <1>2 DEF Bind, ExpiryNow, ExpireFrame
<1> HIDE DEF s
<1>4. CASE \E k \in JoinedNow : Number(k) = Number(p)
  <2>1. PICK k \in JoinedNow : Number(k) = Number(p)
    BY <1>4
  <2>2. PICK m \in JoinedNow : /\ Number(m) = Number(p) /\ s[Number(p)] = m
                               /\ \A q \in JoinedNow : Number(q) = Number(p) => q <= m
    BY <2>1, Named DEF s
  <2>3. m \in Visible
    BY Crowds
  <2>4. ~(m < p)
    <3> SUFFICES ASSUME m < p PROVE FALSE
      OBVIOUS
    <3>1. p \in JoinedNow
      BY <1>2, <2>2, <2>3, LaterJoins
    <3> QED BY <1>1, <1>2, <2>2, <2>3, <3>1
  <2>5. ~(p < m)
    <3> SUFFICES ASSUME p < m PROVE FALSE
      OBVIOUS
    <3>1. m \in Anew /\ p \notin Anew
      BY <1>2, <2>2, <2>3, LaterJoins
    <3> QED BY <1>2, <3>1
  <2>6. m = p
    BY <1>1, <1>2, <2>3, <2>4, <2>5
  <2> QED BY <1>3, <2>2, <2>6 DEF s
<1>5. CASE \A k \in JoinedNow : Number(k) # Number(p)
  <2>1. s[Number(p)] = e[Number(p)]
    BY <1>1, <1>2, <1>5, Named DEF s
  <2>2. p \in Tracked /\ p \notin Anew
    BY <1>2, <1>5, Crowds
  <2>3. Number(p) = idx[p] /\ idx[p] # 0 /\ p \in People
    BY <1>1, <1>2, <2>2, Crowds DEF Number
  <2>4. e[idx[p]] \in {Nobody, p}
    BY <2>3 DEF Synced
  <2> QED BY <1>3, <2>1, <2>3, <2>4 DEF s
<1> QED BY <1>4, <1>5

\* A frame, if it is sent, goes behind the others.
LEMMA LeadsWhen ==
  ASSUME NEW S, NEW w \in Seq(S), NEW s, NEW e, Leads(w, s, e), NEW f \in S, Spoken(f),
         f.t = "rows" => Fits(e, f.rows), NEW c, ~c => Bind(e, f) = e, NEW x, x = w \o When(c, f)
  PROVE  x \in Seq(S) /\ Leads(x, s, Bind(e, f)) /\ Bind(e, f) \in Bindings
<1>1. CASE c
  <2>1. x = Append(w, f)
    BY <1>1 DEF When
  <2>2. x \in Seq(S)
    BY <2>1
  <2> QED BY <2>1, <2>2, LeadsOn
<1>2. CASE ~c
  <2>1. x = w
    BY <1>2 DEF When
  <2>2. e \in Bindings
    BY LeadsTo
  <2> QED BY <1>2, <2>1, <2>2
<1> QED BY <1>1, <1>2

RowsFrameNow == RowsFrame(Snapshot, RowList)

LEMMA Joining ==
  ASSUME NEW S, NEW a \in Seq(S), NEW b \in Seq(S), NEW c \in Seq(S)
  PROVE  a \o (b \o c) = (a \o b) \o c
OBVIOUS

\* The frames of a tick, one at a time.
LEMMA FramesOf ==
  ASSUME NEW S, NEW w \in Seq(S), HeadNow \in S, RowsFrameNow \in S, ExpiryNow \in S
  PROVE  /\ FramesNow \in Seq(S)
         /\ \E a, b : w \o FramesNow =
                ((w \o When(a \/ JoinedNow # {}, HeadNow)) \o When(b, RowsFrameNow)) \o When(GoneNow # {}, ExpiryNow)
<1> DEFINE joins == {[i |-> Number(p), p |-> p] : p \in JoinedNow}
           A == When(Snapshot \/ joins # {}, HeadNow)
           B == When(RowList # {}, RowsFrameNow)
           C == When(GoneNow # {}, ExpiryNow)
<1>1. FramesNow = (A \o B) \o C
  BY DEF FramesNow, HeadNow, RowsFrameNow, RowList, ExpiryNow
<1>2. joins # {} <=> JoinedNow # {}
  OBVIOUS
<1> HIDE DEF joins
<1>3. A = When(Snapshot \/ JoinedNow # {}, HeadNow)
  BY <1>2
<1>4. A \in Seq(S) /\ B \in Seq(S) /\ C \in Seq(S)
  BY DEF When
<1> HIDE DEF A, B, C
<1>5. A \o B \in Seq(S) /\ FramesNow \in Seq(S)
  BY <1>1, <1>4
<1>6. w \o FramesNow = (w \o (A \o B)) \o C
  <2> DEFINE D == A \o B
  <2>1. D \in Seq(S)
    BY <1>5
  <2> HIDE DEF D
  <2>2. (w \o D) \o C = w \o (D \o C)
    BY <1>4, <2>1, Joining
  <2> QED BY <1>1, <2>2 DEF D
<1>7. w \o (A \o B) = (w \o A) \o B
  BY <1>4, Joining
<1>8. w \o FramesNow = ((w \o A) \o B) \o C
  BY <1>6, <1>7
<1>9. w \o FramesNow = ((w \o When(Snapshot \/ JoinedNow # {}, HeadNow)) \o When(RowList # {}, RowsFrameNow)) \o When(GoneNow # {}, ExpiryNow)
  BY <1>3, <1>8 DEF B, C
<1> QED BY <1>5, <1>9

LEMMA RowsSpoken ==
  ASSUME Table
  PROVE  Spoken(RowsFrameNow) /\ RowsFrameNow.t = "rows" /\ RowsFrameNow.rows = RowList
<1>1. \A p \in RowsNow : p \in People /\ Number(p) \in Nums
  BY Crowds, NumbersFit
<1>2. \A r \in RowList : r.i \in Nums /\ r.of \in People
  BY <1>1, RowsNamed
<1>3. RowsFrameNow.t = "rows" /\ RowsFrameNow.rows = RowList
  BY DEF RowsFrameNow, RowsFrame
<1> HIDE DEF RowsFrameNow
<1> QED BY <1>2, <1>3 DEF Spoken

\* A tick whose frames are all sent leads where they say.
LEMMA TickLeads ==
  ASSUME Table, NEW e \in Bindings, Synced(e), NEW S, NEW w \in Seq(S), NEW s, Leads(w, s, e)
  PROVE  /\ \E T : w \o FramesNow \in Seq(T)
         /\ Leads(w \o FramesNow, s, Bind(Bind(e, HeadNow), ExpiryNow))
         /\ Bind(Bind(e, HeadNow), ExpiryNow) \in Bindings
<1> DEFINE T == S \cup {HeadNow, RowsFrameNow, ExpiryNow}
<1>1. HeadNow \in T /\ RowsFrameNow \in T /\ ExpiryNow \in T /\ w \in Seq(T)
  OBVIOUS
<1> HIDE DEF T
<1>2. FramesNow \in Seq(T) /\ w \o FramesNow \in Seq(T)
  BY <1>1, FramesOf
<1>3. PICK a, b : w \o FramesNow =
        ((w \o When(a \/ JoinedNow # {}, HeadNow)) \o When(b, RowsFrameNow)) \o When(GoneNow # {}, ExpiryNow)
  BY <1>1, FramesOf
<1> DEFINE c1 == a \/ JoinedNow # {}
           c3 == GoneNow # {}
           w1 == w \o When(c1, HeadNow)
           w2 == w1 \o When(b, RowsFrameNow)
           w3 == w2 \o When(c3, ExpiryNow)
           e1 == Bind(e, HeadNow)
<1>4. Spoken(HeadNow) /\ HeadNow.t # "rows" /\ Spoken(ExpiryNow) /\ ExpiryNow.t # "rows"
  BY Named DEF HeadNow, HeadFrame, ExpiryNow, ExpireFrame, Spoken
<1>5. e1 \in Bindings /\ (~c1 => e1 = e)
  <2>1. ASSUME JoinedNow = {} PROVE e1 = e
    <3>1. \A i \in Nums : e1[i] = e[i]
      BY <2>1, Named
    <3>2. e1 \in Bindings
      BY Named
    <3> QED BY <3>1, <3>2 DEF Bindings
  <2> QED BY <2>1, Named
<1>6. Bind(e1, RowsFrameNow) = e1
  BY <1>5, RowsSpoken DEF Bind, Bindings
<1>7. ~c3 => Bind(e1, ExpiryNow) = e1
  BY <1>5 DEF Bind, Bindings, ExpiryNow, ExpireFrame
<1>8. Fits(e1, RowList)
  BY RowsFit
<1> HIDE DEF c1, c3, e1
<1>9. w1 \in Seq(T) /\ Leads(w1, s, e1)
  BY <1>1, <1>4, <1>5, LeadsWhen DEF e1
<1> HIDE DEF w1
<1>10. w2 \in Seq(T) /\ Leads(w2, s, e1)
  <2>1. Spoken(RowsFrameNow) /\ (RowsFrameNow.t = "rows" => Fits(e1, RowsFrameNow.rows))
    BY <1>8, RowsSpoken
  <2>2. w2 \in Seq(T) /\ Leads(w2, s, Bind(e1, RowsFrameNow))
    BY <1>1, <1>6, <1>9, <2>1, LeadsWhen
  <2> QED BY <1>6, <2>2
<1> HIDE DEF w2
<1>11. Leads(w3, s, Bind(e1, ExpiryNow)) /\ Bind(e1, ExpiryNow) \in Bindings
  BY <1>1, <1>4, <1>7, <1>10, LeadsWhen
<1>12. w3 = w \o FramesNow
  BY <1>3 DEF w1, w2, c1, c3
<1> QED BY <1>2, <1>11, <1>12 DEF e1

-----------------------------------------------------------------------------
(* Who a number was given to                                               *)

\* A frame that speaks of numbers as they were given.
Knows(o, f) ==
    /\ Spoken(f)
    /\ f.t = "head" => \A j \in f.joins : o[j.i] = j.p
    /\ f.t = "rows" => \A r \in f.rows : o[r.i] = r.of
Holders(o) ==
    /\ o \in Bindings /\ \A i \in Nums : i >= next => o[i] = Nobody
    /\ \A p \in People : idx[p] # 0 => o[idx[p]] = p

\* The new ones of a tick, under numbers nobody had.
Given(o) == [i \in Nums |-> IF \E p \in New : Number(p) = i THEN CHOOSE p \in New : Number(p) = i ELSE o[i]]

LEMMA GivenOnce ==
  ASSUME Table, Overflowing = {}, NEW o, Holders(o)
  PROVE  /\ Given(o) \in Bindings
         /\ \A i \in Nums : i < next => Given(o)[i] = o[i]
         /\ \A i \in Nums : i >= next + Cardinality(New) => Given(o)[i] = Nobody
         /\ \A p \in Visible : Given(o)[Number(p)] = p
<1>1. Anew = {} /\ Visible \subseteq People /\ New \subseteq Visible
      /\ \A p \in Visible : p \in Tracked <=> idx[p] # 0
  BY Crowds
<1>2. \A p \in Visible : Number(p) \in Nums /\ p \in People /\ p \in Nat
  BY <1>1, NumbersFit, MapAssumption DEF People
<1>3. next \in 1..IdxWrap /\ \A p \in People : idx[p] \in Nat /\ idx[p] < next
  BY DEF Table
<1>4. \A p \in New : Before(New, p) \in 0..(Cardinality(New) - 1) /\ Cardinality(New) \in 0..Crowd
  <2>1. New \subseteq People
    BY <1>1
  <2> HIDE DEF New
  <2> QED BY <2>1, Order
<1>5. ASSUME NEW p \in New
      PROVE  p \in Visible /\ Number(p) >= next /\ Number(p) < next + Cardinality(New)
  <2>1. Number(p) = next + Before(New, p)
    BY <1>1 DEF Number, NextNumber, New
  <2> QED BY <1>1, <1>3, <1>4, <2>1
<1>6. ASSUME NEW p \in New, NEW q \in New, Number(p) = Number(q) PROVE p = q
  <2>1. ~(p < q) /\ ~(q < p)
    BY <1>1, <1>6, NumbersFit
  <2> QED BY <1>1, <1>2, <2>1
<1>7. o \in Bindings
  BY DEF Holders
<1>8. /\ \A p \in New : Given(o)[Number(p)] = p
      /\ \A i \in Nums : (\A p \in New : Number(p) # i) => Given(o)[i] = o[i]
  <2>1. ASSUME NEW p \in New PROVE Given(o)[Number(p)] = p
    <3>1. Number(p) \in Nums
      BY <1>2, <1>5
    <3>2. Given(o)[Number(p)] = CHOOSE q \in New : Number(q) = Number(p)
      BY <3>1 DEF Given
    <3> DEFINE c == CHOOSE q \in New : Number(q) = Number(p)
    <3>3. c \in New /\ Number(c) = Number(p)
      OBVIOUS
    <3> HIDE DEF c
    <3>4. c = p
      BY <1>6, <3>3
    <3> QED BY <3>2, <3>4 DEF c
  <2>2. \A i \in Nums : (\A p \in New : Number(p) # i) => Given(o)[i] = o[i]
    BY DEF Given
  <2> QED BY <2>1, <2>2
<1>9. ASSUME NEW i \in Nums PROVE Given(o)[i] \in 0..Crowd
  <2>1. CASE \E p \in New : Number(p) = i
    BY <1>2, <1>5, <1>8, <2>1, MapAssumption DEF People
  <2>2. CASE \A p \in New : Number(p) # i
    BY <1>7, <1>8, <2>2 DEF Bindings
  <2> QED BY <2>1, <2>2
<1>10. Given(o) \in Bindings
  BY <1>9 DEF Given, Bindings
<1>11. \A i \in Nums : i < next => Given(o)[i] = o[i]
  <2> SUFFICES ASSUME NEW i \in Nums, i < next PROVE Given(o)[i] = o[i]
    OBVIOUS
  <2>1. \A p \in New : Number(p) # i
    BY <1>2, <1>3, <1>5, MapAssumption DEF Nums
  <2> QED BY <1>8, <2>1
<1>12. \A i \in Nums : i >= next + Cardinality(New) => Given(o)[i] = Nobody
  <2> SUFFICES ASSUME NEW i \in Nums, i >= next + Cardinality(New) PROVE Given(o)[i] = Nobody
    OBVIOUS
  <2>0. Cardinality(New) \in Nat
    <3>1. New \subseteq People
      BY <1>1
    <3> HIDE DEF New
    <3> QED BY <3>1, Order
  <2>1. \A p \in New : Number(p) # i
    BY <1>2, <1>3, <1>5, <2>0, MapAssumption DEF Nums
  <2>2. i >= next
    BY <1>3, <2>0, MapAssumption DEF Nums
  <2> QED BY <1>8, <2>1, <2>2 DEF Holders
<1>13. ASSUME NEW p \in Visible PROVE Given(o)[Number(p)] = p
  <2>1. CASE p \in Tracked
    <3>1. Number(p) = idx[p] /\ idx[p] # 0 /\ p \in People
      BY <1>1, <2>1 DEF Number
    <3>2. Number(p) \in Nums /\ Number(p) < next
      BY <1>2, <1>3, <3>1
    <3> QED BY <1>11, <3>1, <3>2 DEF Holders
  <2>2. CASE p \notin Tracked
    <3>1. p \in New
      BY <2>2 DEF New
    <3> QED BY <1>8, <3>1
  <2> QED BY <2>1, <2>2
<1> QED BY <1>10, <1>11, <1>12, <1>13

\* What was said of the numbers given before stays true.
LEMMA StillKnows ==
  ASSUME Table, Overflowing = {}, NEW o, Holders(o), NEW f, Knows(o, f)
  PROVE  Knows(Given(o), f)
<1>1. next \in 1..IdxWrap /\ Nobody \notin People /\ \A i \in Nums : i \in Nat
  BY MapAssumption DEF Table, Nobody, People, Nums
<1>2. ASSUME NEW i \in Nums, o[i] \in People PROVE Given(o)[i] = o[i]
  <2>1. i < next
    BY <1>1, <1>2 DEF Holders
  <2> QED BY <2>1, GivenOnce
<1>3. ASSUME f.t = "head", NEW j \in f.joins PROVE Given(o)[j.i] = j.p
  <2>1. j.i \in Nums /\ j.p \in People /\ o[j.i] = j.p
    BY <1>3 DEF Knows, Spoken, Joins
  <2> QED BY <1>2, <2>1
<1>4. ASSUME f.t = "rows", NEW r \in f.rows PROVE Given(o)[r.i] = r.of
  <2>1. r.i \in Nums /\ r.of \in People /\ o[r.i] = r.of
    BY <1>4 DEF Knows, Spoken
  <2> QED BY <1>2, <2>1
<1> QED BY <1>3, <1>4 DEF Knows

\* And so does what a tick says.
LEMMA TickKnows ==
  ASSUME Table, Overflowing = {}, NEW o, Holders(o)
  PROVE  Knows(Given(o), HeadNow) /\ Knows(Given(o), RowsFrameNow) /\ Knows(Given(o), ExpiryNow)
<1>1. \A p \in Visible : Given(o)[Number(p)] = p
  BY GivenOnce
<1>2. JoinedNow \subseteq Visible /\ RowsNow \subseteq Visible
  BY Crowds
<1>3. Knows(Given(o), HeadNow)
  <2>1. Spoken(HeadNow) /\ HeadNow.t = "head"
    <3>1. o \in Bindings
      BY DEF Holders
    <3> QED BY <3>1, Named DEF HeadNow, HeadFrame
  <2>2. ASSUME NEW j \in HeadNow.joins PROVE Given(o)[j.i] = j.p
    <3>1. PICK p \in JoinedNow : j = [i |-> Number(p), p |-> p]
      BY DEF HeadNow, HeadFrame
    <3> QED BY <1>1, <1>2, <3>1
  <2> QED BY <2>1, <2>2 DEF Knows
<1>4. Knows(Given(o), RowsFrameNow)
  <2>1. \A r \in RowList : r.of \in RowsNow /\ r.i = Number(r.of)
    BY RowsNamed
  <2>2. \A r \in RowsFrameNow.rows : Given(o)[r.i] = r.of
    BY <1>1, <1>2, <2>1, RowsSpoken
  <2> QED BY <2>2, RowsSpoken DEF Knows
<1>5. Knows(Given(o), ExpiryNow)
  BY DEF Knows, Spoken, ExpiryNow, ExpireFrame
<1> QED BY <1>3, <1>4, <1>5

LEMMA HoldersTick ==
  ASSUME Table, Overflowing = {}, NEW o, Holders(o), NEW x, x = Given(o),
         idx' = [p \in People |-> IF p \in Visible /\ (Overflowing = {} \/ p \in Anew) THEN Number(p) ELSE 0],
         next' = IF Overflowing # {} THEN Cardinality(Anew) + 1 ELSE next + Cardinality(New)
  PROVE  Holders(x)'
<1>1. x \in Bindings /\ (\A p \in Visible : x[Number(p)] = p)
      /\ \A i \in Nums : i >= next + Cardinality(New) => x[i] = Nobody
  BY GivenOnce
<1>2. \A p \in People : idx'[p] # 0 => p \in Kept /\ idx'[p] = Number(p)
  BY TableTicks
<1>3. next' = next + Cardinality(New)
  OBVIOUS
<1> QED BY <1>1, <1>2, <1>3 DEF Holders, Kept

-----------------------------------------------------------------------------
(* The page                                                                *)

\* A page that hears a frame binds as it says, and draws rows that fit rightly.
LEMMA Handled ==
  ASSUME slots \in Bindings, Rightly, HandleFrame, NEW f, f = Head(wire), Spoken(f),
         f.t = "rows" => Fits(slots, f.rows)
  PROVE  slots' = Bind(slots, f) /\ Rightly'
<1>1. DOMAIN slots = Nums /\ slots = [i \in Nums |-> slots[i]]
  BY DEF Bindings
<1>2. CASE f.t = "head"
  <2>1. slots' = Joined(f.joins) /\ peers' = peers
    BY <1>2 DEF HandleFrame
  <2>2. slots' = Bind(slots, f)
    BY <1>1, <1>2, <2>1 DEF Joined, Bind
  <2> QED BY <2>1, <2>2 DEF Rightly, Unseen
<1>3. CASE f.t = "rows"
  <2>1. slots' = slots /\ peers' = Drawn(f)
    BY <1>3 DEF HandleFrame
  <2>2. slots' = Bind(slots, f)
    BY <1>1, <1>3, <2>1 DEF Bind
  <2>3. ASSUME NEW p \in People PROVE peers'[p] = Unseen \/ peers'[p].of = p
    <3>1. CASE DrawnAs(f.rows, p) = {}
      <4>1. peers'[p] \in {Unseen, peers[p]}
        BY <2>1, <3>1 DEF Drawn
      <4> QED BY <4>1 DEF Rightly
    <3>2. CASE DrawnAs(f.rows, p) # {}
      <4> DEFINE D == DrawnAs(f.rows, p)
                 last == CHOOSE r \in D : \A q \in D : q.of <= r.of
      <4>1. \A r \in D : r \in f.rows /\ slots[r.i] = p /\ r.of \in Nat
        BY <1>3, MapAssumption DEF DrawnAs, Spoken, People
      <4>2. \A r \in D : \E q \in D : q.of = p /\ r.of <= q.of
        <5>1. \A r \in f.rows : slots[r.i] = p =>
                 \E q \in f.rows : slots[q.i] = p /\ q.of = p /\ r.of <= q.of
          BY <1>3 DEF Fits
        <5> QED BY <5>1 DEF DrawnAs
      <4>3. peers'[p].of = last.of
        BY <2>1, <3>2 DEF Drawn
      <4> HIDE DEF D
      <4>4. \E r \in D : \A q \in D : q.of <= r.of
        <5>1. PICK q \in D : q.of = p
          BY <3>2, <4>2 DEF D
        <5>2. \A r \in D : r.of <= q.of
          BY <4>2, <5>1
        <5> QED BY <5>2
      <4>5. last \in D /\ \A q \in D : q.of <= last.of
        BY <4>4
      <4> HIDE DEF last
      <4>6. PICK q \in D : q.of = p /\ last.of <= q.of
        BY <4>2, <4>5
      <4>7. last.of = p
        BY <4>1, <4>5, <4>6
      <4> QED BY <4>3, <4>7
    <3> QED BY <3>1, <3>2
  <2> QED BY <2>2, <2>3 DEF Rightly, Unseen
<1>4. CASE f.t = "expire"
  <2>1. /\ slots' = [i \in DOMAIN slots |-> IF i \in f.ids THEN Nobody ELSE slots[i]]
        /\ peers' = [p \in People |-> IF \E i \in f.ids : slots[i] = p THEN Unseen ELSE peers[p]]
    BY <1>4 DEF HandleFrame
  <2>2. slots' = Bind(slots, f)
    BY <1>1, <1>4, <2>1 DEF Bind
  <2>3. \A p \in People : peers'[p] \in {Unseen, peers[p]}
    BY <2>1
  <2> QED BY <2>2, <2>3 DEF Rightly, Unseen
<1>5. CASE f.t = "notice"
  <2>1. slots' = slots /\ peers' = (IF f.rung = 0 THEN peers ELSE [p \in People |-> Unseen])
    BY <1>5 DEF HandleFrame
  <2>2. slots' = Bind(slots, f)
    BY <1>1, <1>5, <2>1 DEF Bind
  <2>3. \A p \in People : peers'[p] \in {Unseen, peers[p]}
    BY <2>1
  <2> QED BY <2>2, <2>3 DEF Rightly, Unseen
<1> QED BY <1>2, <1>3, <1>4, <1>5 DEF Spoken

\* Bindings that hold nobody, or who the number was given to, stay so.
LEMMA BindKnown ==
  ASSUME NEW s \in Bindings, NEW o \in Bindings, \A i \in Nums : s[i] \in {Nobody, o[i]}, NEW f, Knows(o, f)
  PROVE  /\ Bind(s, f) \in Bindings /\ \A i \in Nums : Bind(s, f)[i] \in {Nobody, o[i]}
         /\ f.t = "rows" => Fits(s, f.rows)
<1>1. Bind(s, f) \in Bindings
  BY Bound DEF Knows
<1>2. ASSUME NEW i \in Nums PROVE Bind(s, f)[i] \in {Nobody, o[i]}
  <2>1. CASE f.t = "head" /\ \E j \in f.joins : j.i = i
    <3> DEFINE S == {j.p : j \in {k \in f.joins : k.i = i}}
    <3>1. S # {} /\ S \subseteq {o[i]} /\ S \subseteq People
      BY <2>1 DEF Knows, Spoken, Joins
    <3>2. Bind(s, f)[i] = Max(S)
      BY <2>1 DEF Bind
    <3> HIDE DEF S
    <3>3. Max(S) \in S
      BY <3>1, LastOne
    <3> QED BY <3>1, <3>2, <3>3
  <2>2. CASE ~(f.t = "head" /\ \E j \in f.joins : j.i = i)
    BY <2>2 DEF Bind
  <2> QED BY <2>1, <2>2
<1>3. ASSUME f.t = "rows" PROVE Fits(s, f.rows)
  <2>1. Nobody \notin People
    BY MapAssumption DEF Nobody, People
  <2>2. \A r \in f.rows : r.i \in Nums /\ r.of \in Nat /\ o[r.i] = r.of
    BY <1>3, MapAssumption DEF Knows, Spoken, People
  <2>3. ASSUME NEW r \in f.rows, s[r.i] \in People PROVE r.of = s[r.i] /\ r.of <= r.of
    BY <2>1, <2>2, <2>3
  <2> QED BY <2>3 DEF Fits
<1> QED BY <1>1, <1>2, <1>3

-----------------------------------------------------------------------------
(* The invariant                                                           *)

\* The frames on their way lead the page's bindings to what the session holds.
LeadsUp(S, e) ==
    /\ wire \in Seq(S) /\ e \in Bindings
    /\ Leads(wire, slots, e) /\ (up => Synced(e))
InOrder == skipped \/ \E S, e : LeadsUp(S, e)

\* Nothing the page has bound, or will hear, is at odds with the numbers given.
GivenBy(S, o) ==
    /\ Holders(o) /\ wire \in Seq(S) /\ \A f \in S : Knows(o, f)
    /\ slots \in Bindings /\ \A i \in Nums : slots[i] \in {Nobody, o[i]}
Steady == renumbered \/ \E S, o : GivenBy(S, o)

MapInv == Table /\ InOrder /\ Steady /\ NamesAreRight

LEMMA MapStarts == Init => MapInv
<1> SUFFICES ASSUME Init PROVE MapInv
  OBVIOUS
<1>1. slots = [i \in Nums |-> Nobody] /\ wire = <<>> /\ idx = NoSlot /\ next = 1 /\ Nobody = 0
      /\ peers = [p \in People |-> Unseen]
  BY DEF Init, Nums, Nobody
<1>2. slots \in Bindings
  BY <1>1, MapAssumption DEF Bindings
<1>3. \A p \in People : idx[p] = 0
  BY <1>1 DEF NoSlot
<1>4. Table
  <2>1. idx \in [People -> Nat]
    BY <1>1 DEF NoSlot
  <2>2. next \in 1..IdxWrap
    BY <1>1, MapAssumption
  <2> QED BY <1>1, <1>3, <2>1, <2>2 DEF Table
<1>5. InOrder
  <2>1. LeadsUp({}, slots)
    BY <1>1, <1>2, <1>3, LeadsNowhere DEF LeadsUp, Synced
  <2> QED BY <2>1 DEF InOrder
<1>6. Steady
  <2>1. GivenBy({}, slots)
    BY <1>1, <1>2, <1>3 DEF GivenBy, Holders
  <2> QED BY <2>1 DEF Steady
<1>7. NamesAreRight
  BY <1>1 DEF NamesAreRight, Rightly
<1> QED BY <1>4, <1>5, <1>6, <1>7 DEF MapInv

LEMMA MapStill ==
  ASSUME MapInv, UNCHANGED <<idx, next, wire, slots, peers, up, skipped, renumbered>>
  PROVE  MapInv'
<1>1. Table'
  BY DEF MapInv, Table
<1>2. InOrder'
  <2>1. CASE skipped
    BY <2>1 DEF InOrder
  <2>2. CASE ~skipped
    <3>1. PICK S, e : LeadsUp(S, e)
      BY <2>2 DEF MapInv, InOrder
    <3>2. LeadsUp(S, e)'
      BY <3>1 DEF LeadsUp, Synced
    <3> QED BY <3>2 DEF InOrder
  <2> QED BY <2>1, <2>2
<1>3. Steady'
  <2>1. CASE renumbered
    BY <2>1 DEF Steady
  <2>2. CASE ~renumbered
    <3>1. PICK S, o : GivenBy(S, o)
      BY <2>2 DEF MapInv, Steady
    <3>2. GivenBy(S, o)'
      BY <3>1 DEF GivenBy, Holders
    <3> QED BY <3>2 DEF Steady
  <2> QED BY <2>1, <2>2
<1>4. NamesAreRight'
  BY DEF MapInv, NamesAreRight, Rightly, Unseen
<1> QED BY <1>1, <1>2, <1>3, <1>4 DEF MapInv

LEMMA MapTick == ASSUME MapInv, Tick PROVE MapInv'
<1>1. /\ idx' = [p \in People |-> IF p \in Visible /\ (Overflowing = {} \/ p \in Anew) THEN Number(p) ELSE 0]
      /\ next' = IF Overflowing # {} THEN Cardinality(Anew) + 1 ELSE next + Cardinality(New)
      /\ renumbered' = (renumbered \/ Overflowing # {})
      /\ slots' = slots /\ peers' = peers /\ up' = up
      /\ Transmit(FramesNow)
  BY DEF Tick, page
<1>2. Table /\ Table' /\ \A p \in People : idx'[p] # 0 => p \in Kept /\ idx'[p] = Number(p)
  BY <1>1, TableTicks DEF MapInv
<1>3. /\ \/ wire' = wire \o FramesNow /\ skipped' = skipped
         \/ skipped' = TRUE /\ \E n : wire' = wire \o SubSeq(FramesNow, 1, n) /\ n \in 0..(Len(FramesNow) - 1)
  BY <1>1 DEF Transmit
<1>4. InOrder'
  <2>1. CASE skipped'
    BY <2>1 DEF InOrder
  <2>2. CASE ~skipped'
    <3>1. wire' = wire \o FramesNow /\ ~skipped
      BY <1>3, <2>2
    <3>2. PICK S, e : LeadsUp(S, e)
      BY <3>1 DEF MapInv, InOrder
    <3>3. wire \in Seq(S) /\ e \in Bindings /\ Leads(wire, slots, e) /\ Synced(e)
      BY <3>2 DEF LeadsUp, Tick
    <3>4. PICK x : x = Bind(Bind(e, HeadNow), ExpiryNow)
      OBVIOUS
    <3>5. (\E T : wire \o FramesNow \in Seq(T)) /\ Leads(wire \o FramesNow, slots, x) /\ x \in Bindings
      BY <1>2, <3>3, <3>4, TickLeads
    <3>6. PICK T : wire \o FramesNow \in Seq(T)
      BY <3>5
    <3>7. Synced(x)'
      BY <1>2, <3>3, <3>4, Agrees DEF Synced
    <3>8. LeadsUp(T, x)'
      BY <1>1, <3>1, <3>5, <3>6, <3>7 DEF LeadsUp
    <3> QED BY <3>8 DEF InOrder
  <2> QED BY <2>1, <2>2
<1>5. Steady'
  <2>1. CASE renumbered'
    BY <2>1 DEF Steady
  <2>2. CASE ~renumbered'
    <3>1. ~renumbered /\ Overflowing = {}
      BY <1>1, <2>2
    <3>2. PICK S, o : GivenBy(S, o)
      BY <3>1 DEF MapInv, Steady
    <3>3. Holders(o) /\ wire \in Seq(S) /\ (\A f \in S : Knows(o, f))
          /\ slots \in Bindings /\ \A i \in Nums : slots[i] \in {Nobody, o[i]}
      BY <3>2 DEF GivenBy
    <3>4. PICK x : x = Given(o)
      OBVIOUS
    <3>5. Holders(x)'
      BY <1>1, <1>2, <3>1, <3>3, <3>4, HoldersTick
    <3>6. PICK T : T = S \cup {HeadNow, RowsFrameNow, ExpiryNow}
      OBVIOUS
    <3>7. \A f \in T : Knows(x, f)
      BY <1>2, <3>1, <3>3, <3>4, <3>6, StillKnows, TickKnows
    <3>8. wire' \in Seq(T)
      <4>1. HeadNow \in T /\ RowsFrameNow \in T /\ ExpiryNow \in T /\ wire \in Seq(T)
        BY <3>3, <3>6
      <4>2. FramesNow \in Seq(T)
        BY <4>1, FramesOf
      <4> HIDE DEF FramesNow
      <4>3. ASSUME NEW n \in 0..(Len(FramesNow) - 1) PROVE wire \o SubSeq(FramesNow, 1, n) \in Seq(T)
        <5>1. SubSeq(FramesNow, 1, n) \in Seq(T)
          BY <4>2
        <5> QED BY <4>1, <5>1
      <4>4. wire \o FramesNow \in Seq(T)
        BY <4>1, <4>2
      <4> QED BY <1>3, <4>3, <4>4
    <3>9. \A i \in Nums : slots[i] \in {Nobody, x[i]}
      <4>1. ASSUME NEW i \in Nums PROVE slots[i] \in {Nobody, x[i]}
        <5>1. CASE i < next
          <6>1. Given(o)[i] = o[i]
            BY <1>2, <3>1, <3>3, <5>1, GivenOnce
          <6> QED BY <3>3, <3>4, <6>1
        <5>2. CASE ~(i < next)
          <6>1. i >= next
            BY <1>2, <5>2, MapAssumption DEF Table, Nums
          <6> QED BY <3>3, <6>1 DEF Holders
        <5> QED BY <5>1, <5>2
      <4> QED BY <4>1
    <3>10. GivenBy(T, x)'
      BY <1>1, <3>3, <3>5, <3>7, <3>8, <3>9 DEF GivenBy
    <3> QED BY <3>10 DEF Steady
  <2> QED BY <2>1, <2>2
<1>6. NamesAreRight'
  BY <1>1, <1>3 DEF MapInv, NamesAreRight, Rightly, Unseen
<1> QED BY <1>2, <1>4, <1>5, <1>6 DEF MapInv

LEMMA MapRung == ASSUME MapInv, NEW r, RungMoves(r) PROVE MapInv'
<1>1. /\ UNCHANGED <<idx, next, slots, peers, up, renumbered>>
      /\ \/ wire' = Append(wire, NoticeFrame(r)) /\ skipped' = skipped
         \/ skipped' = TRUE /\ wire' = wire
  BY DEF RungMoves, page
<1>2. Table'
  BY <1>1 DEF MapInv, Table
<1>3. InOrder'
  <2>1. CASE skipped'
    BY <2>1 DEF InOrder
  <2>2. CASE ~skipped'
    <3>1. wire' = Append(wire, NoticeFrame(r)) /\ ~skipped
      BY <1>1, <2>2
    <3>2. PICK S, e : LeadsUp(S, e)
      BY <3>1 DEF MapInv, InOrder
    <3> DEFINE f == NoticeFrame(r)
               T == S \cup {f}
    <3>3. f.t = "notice" /\ Spoken(f)
      BY DEF NoticeFrame, Spoken
    <3>4. f \in T /\ wire \in Seq(T) /\ e \in Bindings /\ Leads(wire, slots, e) /\ (up => Synced(e))
      BY <3>2 DEF LeadsUp
    <3> HIDE DEF f, T
    <3>5. Bind(e, f) = e
      BY <3>3, <3>4 DEF Bind, Bindings
    <3>6. wire' = Append(wire, f)
      BY <3>1 DEF f
    <3>7. Append(wire, f) \in Seq(T) /\ Leads(Append(wire, f), slots, e)
      <4>1. Append(wire, f) \in Seq(T)
        BY <3>4
      <4>2. Leads(Append(wire, f), slots, Bind(e, f))
        BY <3>3, <3>4, LeadsOn
      <4> QED BY <3>5, <4>1, <4>2
    <3>8. LeadsUp(T, e)'
      BY <1>1, <3>4, <3>6, <3>7 DEF LeadsUp, Synced
    <3> QED BY <3>8 DEF InOrder
  <2> QED BY <2>1, <2>2
<1>4. Steady'
  <2>1. CASE renumbered
    BY <1>1, <2>1 DEF Steady
  <2>2. CASE ~renumbered
    <3>1. PICK S, o : GivenBy(S, o)
      BY <2>2 DEF MapInv, Steady
    <3> DEFINE f == NoticeFrame(r)
               T == S \cup {f}
    <3>2. Knows(o, f)
      BY DEF NoticeFrame, Spoken, Knows
    <3>3. \A g \in T : Knows(o, g)
      BY <3>1, <3>2 DEF GivenBy
    <3>4. wire \in Seq(T) /\ f \in T
      BY <3>1 DEF GivenBy
    <3>5. wire' = wire \/ wire' = Append(wire, f)
      BY <1>1
    <3> HIDE DEF f, T
    <3>6. wire' \in Seq(T)
      BY <3>4, <3>5
    <3>7. GivenBy(T, o)'
      BY <1>1, <3>1, <3>3, <3>6 DEF GivenBy, Holders
    <3> QED BY <3>7 DEF Steady
  <2> QED BY <2>1, <2>2
<1>5. NamesAreRight'
  BY <1>1 DEF MapInv, NamesAreRight, Rightly, Unseen
<1> QED BY <1>2, <1>3, <1>4, <1>5 DEF MapInv

LEMMA MapBreaks == ASSUME MapInv, Disconnect PROVE MapInv'
<1>1. /\ UNCHANGED <<idx, next, slots, peers, skipped, renumbered>>
      /\ wire' = <<>> /\ up' = FALSE
  BY DEF Disconnect, page, table
<1>2. Table'
  BY <1>1 DEF MapInv, Table
<1>3. InOrder'
  <2>1. CASE skipped
    BY <1>1, <2>1 DEF InOrder
  <2>2. CASE ~skipped
    <3>1. PICK S, e : LeadsUp(S, e)
      BY <2>2 DEF MapInv, InOrder
    <3>2. Len(wire) \in Nat
      BY <3>1 DEF LeadsUp
    <3>3. PICK s : s = slots
      OBVIOUS
    <3>4. s \in Bindings
      BY <3>1, <3>2, <3>3, LeadsTo DEF LeadsUp
    <3>5. Leads(<<>>, s, s) /\ slots' = s
      BY <1>1, <3>3, <3>4, LeadsNowhere
    <3>6. LeadsUp({}, s)'
      BY <1>1, <3>4, <3>5 DEF LeadsUp
    <3> QED BY <3>6 DEF InOrder
  <2> QED BY <2>1, <2>2
<1>4. Steady'
  <2>1. CASE renumbered
    BY <1>1, <2>1 DEF Steady
  <2>2. CASE ~renumbered
    <3>1. PICK S, o : GivenBy(S, o)
      BY <2>2 DEF MapInv, Steady
    <3>2. GivenBy(S, o)'
      BY <1>1, <3>1 DEF GivenBy, Holders
    <3> QED BY <3>2 DEF Steady
  <2> QED BY <2>1, <2>2
<1>5. NamesAreRight'
  BY <1>1 DEF MapInv, NamesAreRight, Rightly, Unseen
<1> QED BY <1>2, <1>3, <1>4, <1>5 DEF MapInv

LEMMA MapReturns == ASSUME MapInv, Reconnect PROVE MapInv'
<1>1. /\ UNCHANGED <<wire, slots, peers, skipped>>
      /\ renumbered' = TRUE /\ next' = 1 /\ idx' = NoSlot
  BY DEF Reconnect, page
<1>2. idx' = [p \in People |-> 0] /\ \A p \in People : idx'[p] = 0
  BY <1>1 DEF NoSlot
<1>3. Table'
  <2>1. next' \in 1..IdxWrap
    BY <1>1, MapAssumption
  <2>2. idx' \in [People -> Nat]
    BY <1>2
  <2> QED BY <1>1, <1>2, <2>1, <2>2 DEF Table
<1>4. InOrder'
  <2>1. CASE skipped
    BY <1>1, <2>1 DEF InOrder
  <2>2. CASE ~skipped
    <3>1. PICK S, e : LeadsUp(S, e)
      BY <2>2 DEF MapInv, InOrder
    <3>2. LeadsUp(S, e)'
      BY <1>1, <1>2, <3>1 DEF LeadsUp, Synced
    <3> QED BY <3>2 DEF InOrder
  <2> QED BY <2>1, <2>2
<1>5. Steady'
  BY <1>1 DEF Steady
<1>6. NamesAreRight'
  BY <1>1 DEF MapInv, NamesAreRight, Rightly, Unseen
<1> QED BY <1>3, <1>4, <1>5, <1>6 DEF MapInv

LEMMA MapHears == ASSUME MapInv, HandleFrame PROVE MapInv'
<1>1. /\ UNCHANGED <<idx, next, up, skipped, renumbered>>
      /\ wire # <<>> /\ wire' = Tail(wire)
  BY DEF HandleFrame, table
<1>2. Table'
  BY <1>1 DEF MapInv, Table
<1>3. PICK f : f = Head(wire)
  OBVIOUS
<1>4. PICK s : s = slots
  OBVIOUS
<1>5. ASSUME ~skipped
      PROVE  \E S, e : /\ wire \in Seq(S) /\ e \in Bindings /\ (up => Synced(e))
                       /\ Leads(wire', Bind(s, f), e)
                       /\ s \in Bindings /\ Spoken(f) /\ (f.t = "rows" => Fits(s, f.rows))
  <2>1. PICK S, e : LeadsUp(S, e)
    BY <1>5 DEF MapInv, InOrder
  <2>2. wire \in Seq(S) /\ e \in Bindings /\ Leads(wire, s, e) /\ (up => Synced(e))
    BY <1>4, <2>1 DEF LeadsUp
  <2>3. Spoken(f) /\ (f.t = "rows" => Fits(s, f.rows)) /\ s \in Bindings /\ Leads(Tail(wire), Bind(s, f), e)
    BY <1>1, <1>3, <2>2, LeadsFrom
  <2> QED BY <1>1, <2>2, <2>3
<1>6. ASSUME ~renumbered
      PROVE  \E S, o : /\ Holders(o) /\ wire \in Seq(S) /\ (\A g \in S : Knows(o, g))
                       /\ Bind(s, f) \in Bindings /\ \A i \in Nums : Bind(s, f)[i] \in {Nobody, o[i]}
                       /\ s \in Bindings /\ Spoken(f) /\ (f.t = "rows" => Fits(s, f.rows))
  <2>1. PICK S, o : GivenBy(S, o)
    BY <1>6 DEF MapInv, Steady
  <2>2. wire \in Seq(S) /\ Holders(o) /\ (\A g \in S : Knows(o, g)) /\ s \in Bindings
        /\ \A i \in Nums : s[i] \in {Nobody, o[i]}
    BY <1>4, <2>1 DEF GivenBy
  <2>3. f \in S
    BY <1>1, <1>3, <2>2
  <2>4. Knows(o, f) /\ o \in Bindings
    BY <2>2, <2>3 DEF Holders
  <2>5. Bind(s, f) \in Bindings /\ (\A i \in Nums : Bind(s, f)[i] \in {Nobody, o[i]})
        /\ (f.t = "rows" => Fits(s, f.rows))
    BY <2>2, <2>4, BindKnown
  <2> QED BY <2>2, <2>4, <2>5 DEF Knows
<1>7. ASSUME ~skipped \/ ~renumbered PROVE slots' = Bind(s, f) /\ Rightly'
  <2>1. s \in Bindings /\ Spoken(f) /\ (f.t = "rows" => Fits(s, f.rows))
    BY <1>5, <1>6, <1>7
  <2>2. Rightly
    BY <1>7 DEF MapInv, NamesAreRight
  <2> QED BY <1>3, <1>4, <2>1, <2>2, Handled
<1>8. InOrder'
  <2>1. CASE skipped
    BY <1>1, <2>1 DEF InOrder
  <2>2. CASE ~skipped
    <3>1. PICK S, e : /\ wire \in Seq(S) /\ e \in Bindings /\ (up => Synced(e))
                      /\ Leads(wire', Bind(s, f), e)
      BY <1>5, <2>2
    <3>2. wire' \in Seq(S)
      BY <1>1, <3>1
    <3>3. LeadsUp(S, e)'
      BY <1>1, <1>7, <2>2, <3>1, <3>2 DEF LeadsUp, Synced
    <3> QED BY <3>3 DEF InOrder
  <2> QED BY <2>1, <2>2
<1>9. Steady'
  <2>1. CASE renumbered
    BY <1>1, <2>1 DEF Steady
  <2>2. CASE ~renumbered
    <3>1. PICK S, o : /\ Holders(o) /\ wire \in Seq(S) /\ (\A g \in S : Knows(o, g))
                      /\ Bind(s, f) \in Bindings /\ \A i \in Nums : Bind(s, f)[i] \in {Nobody, o[i]}
      BY <1>6, <2>2
    <3>2. wire' \in Seq(S)
      BY <1>1, <3>1
    <3>3. Holders(o)'
      BY <1>1, <3>1 DEF Holders
    <3>4. GivenBy(S, o)'
      BY <1>7, <2>2, <3>1, <3>2, <3>3 DEF GivenBy
    <3> QED BY <3>4 DEF Steady
  <2> QED BY <2>1, <2>2
<1>10. NamesAreRight'
  BY <1>1, <1>7 DEF NamesAreRight
<1> QED BY <1>2, <1>8, <1>9, <1>10 DEF MapInv

LEMMA MapAlways == Spec => []MapInv
<1>1. ASSUME MapInv, [Next]_vars PROVE MapInv'
  <2>1. ASSUME NEW p \in People, Moves(p) \/ Leaves(p) \/ FallsSilent(p) PROVE MapInv'
    BY <1>1, <2>1, MapStill DEF Moves, Leaves, FallsSilent, table, page
  <2>2. ASSUME SelfStops \/ SelfPublishes \/ SnapshotTimer \/ LeadChanges \/ ServeResync PROVE MapInv'
    BY <1>1, <2>2, MapStill DEF SelfStops, SelfPublishes, SnapshotTimer, LeadChanges, ServeResync, table, page
  <2>3. ASSUME UNCHANGED vars PROVE MapInv'
    BY <1>1, <2>3, MapStill DEF vars, table, page
  <2> QED BY <1>1, <2>1, <2>2, <2>3, MapTick, MapRung, MapBreaks, MapReturns, MapHears DEF Next
<1> QED BY <1>1, MapStarts, PTL DEF Spec

\* However many frames a busy socket skipped, the page draws nobody under
\* another's name, as long as numbers were not given out anew: numbers are not
\* reused (IdxTable.assign and release in protocol.ts), so a binding that missed
\* an expiry is stale and not wrong (applyRows in players.js).  And if numbers were
\* given out anew, on overflow or to a page that reconnects, it draws nobody
\* wrongly as long as it hears every frame.
THEOREM NamesStayRight == Spec => []NamesAreRight
<1>1. MapInv => NamesAreRight
  BY DEF MapInv
<1> QED BY <1>1, MapAlways, PTL

-----------------------------------------------------------------------------
(* The account                                                             *)

\* A load that has read, and the cached copy, are at least as old as any
\* write they miss.
MissesAreYoung ==
    /\ \A l \in access!Loaders : pc[l] = "read" /\ got[l].seq < doc.seq => wrote <= age[l]
    /\ cache # access!None /\ cache.seq < doc.seq => wrote <= cacheAge

\* A load on its way to a request will have, and one that has read has, what
\* the request is due.
Held(l) == pc[l] \in {"read", "answered"} => got[l] # access!None
DueIsMet ==
    /\ \A l \in access!Loaders : Held(l)
    /\ \A r \in Requests :
          /\ pc[r] = "reading" => owed[r] <= doc.seq
          /\ pc[r] \in {"read", "answered"} => owed[r] <= got[r].seq

\* What an evicting writer has written is missing from a read only if the
\* eviction passed it, and from the cache only if such a read came after.
EvictionBinds ==
    /\ \A w \in Writers : number[w] <= doc.seq
    /\ \A w \in Writers \ Remote : writing[w] = "done" =>
          /\ \A l \in access!Loaders : pc[l] = "read" /\ got[l].seq < number[w] => passed[l]
          /\ cache # access!None /\ cache.seq < number[w] => overtaken

AccessInv == access!TypeOK /\ MissesAreYoung /\ DueIsMet /\ EvictionBinds
-----------------------------------------------------------------------------
(* The account: types                                                      *)

LEMMA TtlNat == Ttl \in Nat
BY ViewerAssumption

LEMMA NoneType == access!None \in [seq : {-1}, ver : {-1}, lead : BOOLEAN] /\ access!None \notin access!Account
BY DEF access!None, access!Account

LEMMA OlderType == \A a \in 0..Ttl : access!Older(a) \in 0..Ttl
BY TtlNat DEF access!Older

LEMMA TypeInit == access!Init => access!TypeOK
<1> SUFFICES ASSUME access!Init PROVE access!TypeOK
  OBVIOUS
<1>1. doc \in access!Account
  BY DEF access!Init, access!Account
<1>2. target \in [Passes -> Streams]
  BY ViewerAssumption DEF access!Init
<1>3. overtaken \in BOOLEAN /\ passed \in [access!Loaders -> BOOLEAN]
  BY DEF access!Init
<1>4. wrote \in 0..Ttl /\ cacheAge \in 0..Ttl /\ age \in [access!Loaders -> 0..Ttl] /\ fails \in Nat
  BY TtlNat DEF access!Init
<1> QED BY <1>1, <1>2, <1>3, <1>4 DEF access!Init, access!TypeOK, access!Copy

\* What a load leaves of the types.
LEMMA LoadType == ASSUME access!TypeOK, NEW l \in access!Loaders, access!Load(l)
                  PROVE  /\ pc' \in [access!Loaders -> {"idle", "reading", "read", "answered", "decided"}]
                         /\ age' \in [access!Loaders -> 0..Ttl] /\ got' \in [access!Loaders -> access!Copy]
                         /\ passed' \in [access!Loaders -> BOOLEAN]
<1>1. age' \in [access!Loaders -> 0..Ttl]
  BY TtlNat DEF access!Load, access!TypeOK
<1>2. passed' \in [access!Loaders -> BOOLEAN]
  BY DEF access!Load, access!TypeOK
<1>3. pc' \in [access!Loaders -> {"idle", "reading", "read", "answered", "decided"}]
  BY DEF access!Load, access!TypeOK
<1>4. got' \in [access!Loaders -> access!Copy]
  BY DEF access!Load, access!TypeOK, access!Copy
<1> QED BY <1>1, <1>2, <1>3, <1>4

LEMMA WriteDoc == ASSUME access!TypeOK, NEW w \in Writers, access!Write(w)
                  PROVE  doc' \in access!Account /\ doc'.seq = doc.seq + 1
<1>1. PICK after \in {[doc EXCEPT !.ver = @ + 1], [doc EXCEPT !.lead = ~@]} :
         doc' = [after EXCEPT !.seq = @ + 1]
  BY DEF access!Write
<1>2. doc \in access!Account
  BY DEF access!TypeOK
<1>3. after \in access!Account /\ after.seq = doc.seq
  <2>1. CASE after = [doc EXCEPT !.ver = @ + 1]
    BY <1>2, <2>1 DEF access!Account
  <2>2. CASE after = [doc EXCEPT !.lead = ~@]
    BY <1>2, <2>2 DEF access!Account
  <2> QED BY <2>1, <2>2
<1> QED BY <1>1, <1>3 DEF access!Account

LEMMA TypeStep == access!TypeOK /\ [access!Next]_(access!vars) => access!TypeOK'
<1> SUFFICES ASSUME access!TypeOK, [access!Next]_(access!vars) PROVE access!TypeOK'
  OBVIOUS
<1>1. CASE access!Tick
  BY <1>1, OlderType, TtlNat DEF access!Tick, access!TypeOK
<1>2. ASSUME NEW w \in Writers, access!Write(w) PROVE access!TypeOK'
  <2>1. doc' \in access!Account
    BY <1>2, WriteDoc
  <2>2. number' \in [Writers -> Nat]
    BY <1>2, <2>1 DEF access!Write, access!TypeOK, access!Account
  <2>3. wrote' \in 0..Ttl
    BY <1>2, TtlNat DEF access!Write
  <2> QED BY <1>2, <2>1, <2>2, <2>3 DEF access!Write, access!cacheVars, access!loadVars, access!TypeOK
<1>3. ASSUME NEW w \in Writers, access!Evict(w) PROVE access!TypeOK'
  <2>1. passed' \in [access!Loaders -> BOOLEAN]
    BY <1>3 DEF access!Evict
  <2>2. overtaken' \in BOOLEAN
    BY <1>3 DEF access!Evict
  <2> QED BY <1>3, <2>1, <2>2 DEF access!Evict, access!CacheEvicted, access!TypeOK, access!Copy
<1>4. ASSUME NEW l \in access!Loaders, access!Read(l) PROVE access!TypeOK'
  BY <1>4 DEF access!Read, access!writeVars, access!cacheVars, access!TypeOK, access!Copy
<1>5. ASSUME NEW l \in access!Loaders, access!Install(l) PROVE access!TypeOK'
  <2>1. overtaken' \in BOOLEAN /\ passed' \in [access!Loaders -> BOOLEAN]
    BY <1>5 DEF access!Install, access!TypeOK
  <2> QED BY <1>5, <2>1 DEF access!Install, access!AgeOfLoad, access!writeVars, access!TypeOK
<1>6. ASSUME NEW l \in access!Loaders, access!ReadFails(l) PROVE access!TypeOK'
  BY <1>6 DEF access!ReadFails, access!writeVars, access!cacheVars, access!TypeOK
<1>7. ASSUME NEW r \in Requests, access!Arrive(r) PROVE access!TypeOK'
  <2>1. token' \in [Requests -> Nat]
    BY <1>7 DEF access!Arrive, access!TypeOK, access!Account
  <2>2. owed' \in [Requests -> Nat]
    BY <1>7 DEF access!Arrive, access!TypeOK, access!Account
  <2>3. r \in access!Loaders /\ access!Load(r)
    BY <1>7 DEF access!Arrive, access!Loaders
  <2> QED BY <1>7, <2>1, <2>2, <2>3, LoadType DEF access!Arrive, access!writeVars, access!cacheVars, access!TypeOK
<1>8. ASSUME NEW r \in Requests, access!Decide(r) PROVE access!TypeOK'
  <2>1. r \in access!Loaders
    BY DEF access!Loaders
  <2>2. stream' \in [Streams -> access!Copy]
    BY <1>8, <2>1 DEF access!Decide, access!TypeOK
  <2>3. got' \in [access!Loaders -> access!Copy]
    BY <1>8 DEF access!Decide, access!TypeOK, access!Copy
  <2> QED BY <1>8, <2>2, <2>3 DEF access!Decide, access!writeVars, access!cacheVars, access!TypeOK
<1>9. ASSUME NEW p \in Passes, NEW r \in Streams, access!Recheck(p, r) PROVE access!TypeOK'
  <2>1. p \in access!Loaders /\ access!Load(p)
    BY <1>9 DEF access!Recheck, access!Loaders
  <2> QED BY <1>9, <2>1, LoadType DEF access!Recheck, access!writeVars, access!cacheVars, access!TypeOK
<1>10. ASSUME NEW p \in Passes, access!Reauthorise(p) PROVE access!TypeOK'
  <2>1. p \in access!Loaders
    BY DEF access!Loaders
  <2>2. stream' \in [Streams -> access!Copy]
    BY <1>10, <2>1 DEF access!Reauthorise, access!TypeOK, access!Copy
  <2>3. got' \in [access!Loaders -> access!Copy]
    BY <1>10 DEF access!Reauthorise, access!TypeOK, access!Copy
  <2> QED BY <1>10, <2>2, <2>3 DEF access!Reauthorise, access!writeVars, access!cacheVars, access!TypeOK
<1>11. CASE UNCHANGED access!vars
  BY <1>11 DEF access!vars, access!writeVars, access!cacheVars, access!loadVars, access!TypeOK
<1> QED BY <1>1, <1>2, <1>3, <1>4, <1>5, <1>6, <1>7, <1>8, <1>9, <1>10, <1>11 DEF access!Next
-----------------------------------------------------------------------------
(* Ages                                                                    *)

LEMMA OlderMonotone == \A a, b \in 0..Ttl : a <= b => access!Older(a) <= access!Older(b)
BY TtlNat DEF access!Older

LEMMA YoungStep == access!TypeOK /\ access!TypeOK' /\ MissesAreYoung /\ [access!Next]_(access!vars) => MissesAreYoung'
<1> SUFFICES ASSUME access!TypeOK, access!TypeOK', MissesAreYoung, [access!Next]_(access!vars) PROVE MissesAreYoung'
  OBVIOUS
<1>1. CASE access!Tick
  BY <1>1, OlderMonotone DEF access!Tick, access!TypeOK, MissesAreYoung
<1>2. ASSUME NEW w \in Writers, access!Write(w) PROVE MissesAreYoung'
  BY <1>2 DEF access!Write, access!cacheVars, access!loadVars, access!TypeOK, MissesAreYoung
<1>3. ASSUME NEW w \in Writers, access!Evict(w) PROVE MissesAreYoung'
  BY <1>3 DEF access!Evict, access!CacheEvicted, MissesAreYoung
<1>4. ASSUME NEW l \in access!Loaders, access!Read(l) PROVE MissesAreYoung'
  BY <1>4 DEF access!Read, access!writeVars, access!cacheVars, access!TypeOK, access!Account, MissesAreYoung
<1>5. ASSUME NEW l \in access!Loaders, access!Install(l) PROVE MissesAreYoung'
  BY <1>5 DEF access!Install, access!AgeOfLoad, access!writeVars, access!TypeOK, MissesAreYoung
<1>6. ASSUME NEW l \in access!Loaders, access!ReadFails(l) PROVE MissesAreYoung'
  BY <1>6 DEF access!ReadFails, access!writeVars, access!cacheVars, access!TypeOK, MissesAreYoung
<1>7. ASSUME NEW l \in access!Loaders, access!Load(l), UNCHANGED <<access!writeVars, access!cacheVars>> PROVE MissesAreYoung'
  BY <1>7 DEF access!Load, access!writeVars, access!cacheVars, access!TypeOK, MissesAreYoung
<1>8. ASSUME NEW r \in Requests, access!Arrive(r) PROVE MissesAreYoung'
  BY <1>7, <1>8 DEF access!Arrive, access!Loaders
<1>9. ASSUME NEW p \in Passes, NEW r \in Streams, access!Recheck(p, r) PROVE MissesAreYoung'
  BY <1>7, <1>9 DEF access!Recheck, access!Loaders
<1>10. ASSUME NEW r \in Requests, access!Decide(r) PROVE MissesAreYoung'
  BY <1>10 DEF access!Decide, access!writeVars, access!cacheVars, access!TypeOK, MissesAreYoung
<1>11. ASSUME NEW p \in Passes, access!Reauthorise(p) PROVE MissesAreYoung'
  BY <1>11 DEF access!Reauthorise, access!writeVars, access!cacheVars, access!TypeOK, MissesAreYoung
<1>12. CASE UNCHANGED access!vars
  BY <1>12 DEF access!vars, access!writeVars, access!cacheVars, access!loadVars, MissesAreYoung
<1> QED BY <1>1, <1>2, <1>3, <1>4, <1>5, <1>6, <1>8, <1>9, <1>10, <1>11, <1>12 DEF access!Next

\* A cached copy is no older than a write it misses, so one that is fresh has
\* every write that is older than its time to live.
LEMMA FreshHasTheOld == ASSUME access!TypeOK, MissesAreYoung, access!Fresh, wrote = Ttl
                        PROVE  doc.seq <= cache.seq
<1>1. cache # access!None /\ cacheAge < wrote
  BY DEF access!Fresh
<1>2. cache.seq \in Nat /\ doc.seq \in Nat /\ cacheAge \in 0..Ttl /\ wrote \in 0..Ttl
  BY <1>1 DEF access!TypeOK, access!Copy, access!Account
<1> QED BY <1>1, <1>2, TtlNat DEF MissesAreYoung
-----------------------------------------------------------------------------
(* What a request is due                                                   *)

DueOf(r) == /\ pc[r] = "reading" => owed[r] <= doc.seq
            /\ pc[r] \in {"read", "answered"} => owed[r] <= got[r].seq

LEMMA Apart == \A r \in Requests : r \in access!Loaders /\ r \notin Passes
BY ViewerAssumption DEF access!Loaders

\* A copy held by a loader stays as it is while the account only moves on.
LEMMA DueStep == access!TypeOK /\ access!TypeOK' /\ MissesAreYoung /\ DueIsMet /\ [access!Next]_(access!vars) => DueIsMet'
<1> SUFFICES ASSUME access!TypeOK, access!TypeOK', MissesAreYoung, DueIsMet, [access!Next]_(access!vars) PROVE DueIsMet'
  OBVIOUS
<1>1. doc.seq \in Nat /\ doc'.seq \in Nat /\ doc \in access!Account /\ access!None \notin access!Account
  BY NoneType DEF access!TypeOK, access!Account
<1>2. \A r \in Requests : owed[r] \in Nat /\ owed'[r] \in Nat
  BY DEF access!TypeOK
<1>3. ASSUME doc.seq <= doc'.seq, UNCHANGED <<pc, got, owed>> PROVE DueIsMet'
  <2>1. \A l \in access!Loaders : Held(l)'
    BY <1>3 DEF DueIsMet, Held
  <2>2. \A r \in Requests : DueOf(r)'
    BY <1>1, <1>2, <1>3 DEF DueIsMet, DueOf
  <2> QED BY <2>1, <2>2 DEF DueIsMet, DueOf
<1>4. ASSUME NEW l \in access!Loaders, UNCHANGED doc,
             \A k \in access!Loaders : k # l => pc'[k] = pc[k] /\ got'[k] = got[k],
             \A r \in Requests : r # l => owed'[r] = owed[r],
             Held(l)', l \in Requests => DueOf(l)'
      PROVE  DueIsMet'
  BY <1>4, Apart DEF DueIsMet, Held, DueOf
<1>5. CASE access!Tick
  BY <1>1, <1>3, <1>5 DEF access!Tick
<1>6. ASSUME NEW w \in Writers, access!Write(w) PROVE DueIsMet'
  <2>1. doc'.seq = doc.seq + 1 /\ UNCHANGED <<pc, got, owed>>
    BY <1>6, WriteDoc DEF access!Write, access!loadVars
  <2> QED BY <1>1, <1>3, <2>1
<1>7. ASSUME NEW w \in Writers, access!Evict(w) PROVE DueIsMet'
  BY <1>1, <1>3, <1>7 DEF access!Evict
<1>8. ASSUME NEW l \in access!Loaders, access!Read(l) PROVE DueIsMet'
  <2>1. pc'[l] = "read" /\ got'[l] = doc /\ owed' = owed /\ doc' = doc
        /\ \A k \in access!Loaders : k # l => pc'[k] = pc[k] /\ got'[k] = got[k]
    BY <1>8 DEF access!Read, access!writeVars, access!TypeOK
  <2>2. l \in Requests => owed[l] <= doc.seq
    BY <1>8 DEF access!Read, DueIsMet
  <2> QED BY <1>1, <1>4, <2>1, <2>2 DEF Held, DueOf
<1>9. ASSUME NEW l \in access!Loaders, access!Install(l) PROVE DueIsMet'
  <2>1. pc[l] = "read" /\ pc'[l] = "answered" /\ got' = got /\ owed' = owed /\ doc' = doc
        /\ \A k \in access!Loaders : k # l => pc'[k] = pc[k]
    BY <1>9 DEF access!Install, access!writeVars, access!TypeOK
  <2>2. Held(l)' /\ (l \in Requests => DueOf(l)')
    BY <2>1 DEF Held, DueOf, DueIsMet
  <2> QED BY <1>4, <2>1, <2>2
<1>10. ASSUME NEW l \in access!Loaders, pc'[l] \in {"idle", "decided"}, UNCHANGED doc,
              \A k \in access!Loaders : k # l => pc'[k] = pc[k] /\ got'[k] = got[k],
              \A r \in Requests : r # l => owed'[r] = owed[r]
       PROVE  DueIsMet'
  BY <1>4, <1>10 DEF Held, DueOf
<1>11. ASSUME NEW l \in access!Loaders, access!ReadFails(l) PROVE DueIsMet'
  BY <1>10, <1>11 DEF access!ReadFails, access!writeVars, access!TypeOK
<1>12. ASSUME NEW r \in Requests, access!Decide(r) PROVE DueIsMet'
  BY <1>10, <1>12, Apart DEF access!Decide, access!writeVars, access!TypeOK
<1>13. ASSUME NEW p \in Passes, access!Reauthorise(p) PROVE DueIsMet'
  BY <1>10, <1>13 DEF access!Reauthorise, access!writeVars, access!TypeOK, access!Loaders
<1>14. ASSUME NEW r \in Requests, access!Arrive(r) PROVE DueIsMet'
  <2>1. access!Load(r) /\ doc' = doc /\ r \in access!Loaders
    BY <1>14, Apart DEF access!Arrive, access!writeVars
  <2>2. \A q \in Requests : q # r => owed'[q] = owed[q]
    BY <1>14 DEF access!Arrive, access!TypeOK
  <2>3. \A k \in access!Loaders : k # r => pc'[k] = pc[k] /\ got'[k] = got[k]
    BY <2>1 DEF access!Load, access!TypeOK
  <2>4. owed'[r] = IF wrote = Ttl THEN doc.seq ELSE 0
    BY <1>14 DEF access!Arrive, access!TypeOK
  <2>5. CASE access!Fresh
    <3>1. pc'[r] = "answered" /\ got'[r] = cache /\ cache # access!None
      BY <2>1, <2>5 DEF access!Load, access!TypeOK, access!Fresh
    <3>2. cache.seq \in Nat
      BY <3>1 DEF access!TypeOK, access!Copy, access!Account
    <3>3. owed'[r] <= cache.seq
      BY <1>1, <2>4, <2>5, <3>2, FreshHasTheOld
    <3> QED BY <1>4, <2>1, <2>2, <2>3, <3>1, <3>3 DEF Held, DueOf
  <2>6. CASE ~access!Fresh
    <3>1. pc'[r] = "reading"
      BY <2>1, <2>6 DEF access!Load, access!TypeOK
    <3>2. owed'[r] <= doc'.seq
      BY <1>1, <2>1, <2>4
    <3> QED BY <1>4, <2>1, <2>2, <2>3, <3>1, <3>2 DEF Held, DueOf
  <2> QED BY <2>5, <2>6
<1>15. ASSUME NEW p \in Passes, NEW r \in Streams, access!Recheck(p, r) PROVE DueIsMet'
  <2>1. access!Load(p) /\ doc' = doc /\ owed' = owed /\ p \in access!Loaders /\ p \notin Requests
    BY <1>15, Apart DEF access!Recheck, access!writeVars, access!Loaders
  <2>2. \A k \in access!Loaders : k # p => pc'[k] = pc[k] /\ got'[k] = got[k]
    BY <2>1 DEF access!Load, access!TypeOK
  <2>3. Held(p)'
    BY <2>1 DEF access!Load, access!TypeOK, access!Fresh, Held
  <2> QED BY <1>4, <2>1, <2>2, <2>3
<1>16. CASE UNCHANGED access!vars
  BY <1>16 DEF access!vars, access!writeVars, access!loadVars, DueIsMet, Held
<1> QED BY <1>5, <1>6, <1>7, <1>8, <1>9, <1>11, <1>12, <1>13, <1>14, <1>15, <1>16 DEF access!Next
-----------------------------------------------------------------------------
(* Evictions                                                               *)

LEMMA EvictionStep ==
    access!TypeOK /\ access!TypeOK' /\ DueIsMet /\ EvictionBinds /\ [access!Next]_(access!vars) => EvictionBinds'
<1> SUFFICES ASSUME access!TypeOK, access!TypeOK', DueIsMet, EvictionBinds, [access!Next]_(access!vars) PROVE EvictionBinds'
  OBVIOUS
<1>1. doc.seq \in Nat /\ \A w \in Writers : number[w] \in Nat /\ number[w] <= doc.seq
  BY DEF access!TypeOK, access!Account, EvictionBinds
<1>2. CASE access!Tick
  BY <1>2 DEF access!Tick, EvictionBinds
<1>3. ASSUME NEW w \in Writers, access!Write(w) PROVE EvictionBinds'
  <2>1. doc'.seq = doc.seq + 1
    BY <1>3, WriteDoc
  <2>2. \A v \in Writers : number'[v] = IF v = w THEN doc'.seq ELSE number[v]
    BY <1>3 DEF access!Write, access!TypeOK
  <2>3. \A v \in Writers \ Remote : writing'[v] = "done" => v # w /\ writing[v] = "done"
    BY <1>3 DEF access!Write, access!TypeOK
  <2> QED BY <1>1, <1>3, <2>1, <2>2, <2>3 DEF access!Write, access!cacheVars, access!loadVars, EvictionBinds
<1>4. ASSUME NEW w \in Writers, access!Evict(w) PROVE EvictionBinds'
  <2>1. \A l \in access!Loaders : pc[l] = "read" => passed'[l]
    BY <1>4 DEF access!Evict
  <2>2. cache' = access!None
    BY <1>4 DEF access!Evict, access!CacheEvicted
  <2> QED BY <1>4, <2>1, <2>2 DEF access!Evict, EvictionBinds
<1>5. ASSUME NEW l \in access!Loaders, access!Read(l) PROVE EvictionBinds'
  BY <1>1, <1>5 DEF access!Read, access!writeVars, access!cacheVars, access!TypeOK, EvictionBinds
<1>6. ASSUME NEW l \in access!Loaders, access!Install(l) PROVE EvictionBinds'
  BY <1>6 DEF access!Install, access!writeVars, access!TypeOK, EvictionBinds
<1>7. ASSUME NEW l \in access!Loaders, pc'[l] # "read", UNCHANGED <<access!writeVars, access!cacheVars>>,
             \A k \in access!Loaders : k # l => pc'[k] = pc[k] /\ got'[k] = got[k] /\ passed'[k] = passed[k]
      PROVE  EvictionBinds'
  BY <1>7 DEF access!writeVars, access!cacheVars, EvictionBinds
<1>8. ASSUME NEW l \in access!Loaders, access!ReadFails(l) PROVE EvictionBinds'
  <2>1. pc'[l] # "read" /\ \A k \in access!Loaders : k # l => pc'[k] = pc[k]
    BY <1>8 DEF access!ReadFails, access!TypeOK
  <2>2. UNCHANGED <<access!writeVars, access!cacheVars>> /\ got' = got /\ passed' = passed
    BY <1>8 DEF access!ReadFails, access!writeVars, access!cacheVars
  <2> QED BY <1>7, <2>1, <2>2
<1>9. ASSUME NEW l \in access!Loaders, access!Load(l), UNCHANGED <<access!writeVars, access!cacheVars>> PROVE EvictionBinds'
  <2>1. pc'[l] # "read"
    BY <1>9 DEF access!Load, access!TypeOK
  <2>2. \A k \in access!Loaders : k # l => pc'[k] = pc[k] /\ got'[k] = got[k]
    BY <1>9 DEF access!Load, access!TypeOK
  <2>3. \A k \in access!Loaders : k # l => passed'[k] = passed[k]
    BY <1>9 DEF access!Load, access!TypeOK
  <2> QED BY <1>7, <1>9, <2>1, <2>2, <2>3
<1>10. ASSUME NEW r \in Requests, access!Arrive(r) PROVE EvictionBinds'
  BY <1>9, <1>10, Apart DEF access!Arrive
<1>11. ASSUME NEW p \in Passes, NEW r \in Streams, access!Recheck(p, r) PROVE EvictionBinds'
  BY <1>9, <1>11 DEF access!Recheck, access!Loaders
<1>12. ASSUME NEW r \in Requests, access!Decide(r) PROVE EvictionBinds'
  BY <1>7, <1>12, Apart DEF access!Decide, access!TypeOK
<1>13. ASSUME NEW p \in Passes, access!Reauthorise(p) PROVE EvictionBinds'
  BY <1>7, <1>13 DEF access!Reauthorise, access!TypeOK, access!Loaders
<1>14. CASE UNCHANGED access!vars
  BY <1>14 DEF access!vars, access!writeVars, access!cacheVars, access!loadVars, EvictionBinds
<1> QED BY <1>2, <1>3, <1>4, <1>5, <1>6, <1>8, <1>10, <1>11, <1>12, <1>13, <1>14 DEF access!Next
-----------------------------------------------------------------------------
(* The invariant holds                                                     *)

LEMMA AccessAlways == access!Init /\ [][access!Next]_(access!vars) => []AccessInv
<1>1. access!Init => AccessInv
  BY ViewerAssumption, TypeInit DEF access!Init, AccessInv, MissesAreYoung, DueIsMet, Held,
     EvictionBinds, access!Loaders
<1>2. AccessInv /\ [access!Next]_(access!vars) => AccessInv'
  BY ViewerAssumption, TypeStep, YoungStep, DueStep, EvictionStep DEF AccessInv
<1> QED BY <1>1, <1>2, PTL

\* The account goes its way beside the map.
LEMMA AccountBeside == ViewerSpec => access!Init /\ [][access!Next]_(access!vars)
<1>1. ViewerInit => access!Init
  BY DEF ViewerInit
<1>2. [ViewerNext]_viewerVars => [access!Next]_(access!vars)
  BY DEF ViewerNext, MapMoves, AccountMoves, viewerVars, accountVars, access!vars,
         access!writeVars, access!cacheVars, access!loadVars
<1> QED BY <1>1, <1>2, PTL DEF ViewerSpec

\* Every variable of the account cache keeps its type (identity.ts,
\* eventHub.service).
THEOREM TypeCorrect == ViewerSpec => []access!TypeOK
<1>1. AccessInv => access!TypeOK
  BY DEF AccessInv
<1> QED BY <1>1, AccessAlways, AccountBeside, PTL

\* Whatever loads race whatever writes in however many processes, a request
\* that comes Ttl after the last write is answered from a copy that has it
\* (loadAccount in identity.ts).
THEOREM TtlBounds == ViewerSpec => []TtlBoundsStaleness
<1>1. AccessInv => TtlBoundsStaleness
  <2> SUFFICES ASSUME AccessInv, NEW r \in Requests, pc[r] = "answered" PROVE got[r].seq >= owed[r]
    BY DEF TtlBoundsStaleness, access!TtlBoundsStaleness
  <2>1. r \in access!Loaders /\ got[r] # access!None /\ owed[r] <= got[r].seq
    BY ViewerAssumption, Apart DEF AccessInv, DueIsMet, Held
  <2>2. got[r].seq \in Nat /\ owed[r] \in Nat
    BY <2>1 DEF AccessInv, access!TypeOK, access!Copy, access!Account
  <2> QED BY <2>1, <2>2
<1> QED BY <1>1, AccessAlways, AccountBeside, PTL

\* In the process that wrote, only a read that an eviction overtook brings an
\* older copy back into the cache (evictAccountCache in identity.ts).
THEOREM EvictionBounds == ViewerSpec => []OldCopyIsExcused
<1>1. AccessInv => OldCopyIsExcused
  BY DEF AccessInv, EvictionBinds, OldCopyIsExcused, access!OldCopyIsExcused, access!Fresh
<1> QED BY <1>1, AccessAlways, AccountBeside, PTL
=============================================================================
