-------------------------- MODULE CollectionProofs --------------------------
(***************************************************************************)
(* Collection for any collectors, sources, streams and faults.  First what *)
(* a source's output and a look into the ledger are; then an inductive     *)
(* invariant, one step for every action; last the properties of Collection *)
(* as its consequences.                                                    *)
(***************************************************************************)
EXTENDS Collection, PostureProofs

----------------------------------------------------------------------------
(* Positions                                                               *)

(***************************************************************************)
(* A set of numbers has a least one, and Min is it; one with a bound has a *)
(* greatest one, and Max is it.                                            *)
(***************************************************************************)
Below == {mn \in Nat \X Nat : mn[1] < mn[2]}

LEMMA LeastPosition ==
    ASSUME NEW G, G \subseteq Nat, G # {}
    PROVE  Min(G) \in G /\ \A h \in G : Min(G) <= h
  <1>1. IsWellFoundedOn(Below, Nat)
    BY NatLessThanWellFounded DEF OpToRel, Below
  <1>2. PICK g \in G : \A h \in G : <<h, g>> \notin Below
    BY <1>1, WFMin, Zenon
  <1>3. ASSUME NEW h \in G PROVE g <= h
    <2>1. g \in Nat /\ h \in Nat
      OBVIOUS
    <2>2. ~(h < g)
      BY <1>2, <2>1 DEF Below
    <2>3. QED
      BY <2>1, <2>2
  <1>4. QED
    BY <1>3 DEF Min

LEMMA GreatestPosition ==
    ASSUME NEW N \in Nat, NEW G, G \subseteq 1..N, G # {}
    PROVE  Max(G) \in G /\ \A h \in G : h <= Max(G)
  <1> DEFINE Gap == {g \in 0..N : N - g \in G}
  <1>1. Gap \subseteq Nat /\ Gap # {}
    <2>1. PICK h : h \in G
      OBVIOUS
    <2>2. N - h \in 0..N /\ N - (N - h) = h
      BY <2>1
    <2>3. N - h \in Gap
      BY <2>1, <2>2
    <2>4. QED
      BY <2>3
  <1>2. Min(Gap) \in Gap /\ \A g \in Gap : Min(Gap) <= g
    <2> HIDE DEF Gap
    <2>1. QED
      BY <1>1, LeastPosition
  <1>3. ASSUME NEW h \in G PROVE h <= N - Min(Gap)
    <2>1. h \in 1..N /\ N - h \in 0..N /\ N - (N - h) = h /\ Min(Gap) \in 0..N
      BY <1>2
    <2>2. Min(Gap) <= N - h
      BY <1>2, <2>1
    <2>3. QED
      BY <2>1, <2>2
  <1>4. N - Min(Gap) \in G
    BY <1>2
  <1>5. \E x \in G : \A y \in G : x >= y
    BY <1>3, <1>4
  <1>6. Max(G) \in G /\ \A y \in G : Max(G) >= y
    BY <1>5 DEF Max
  <1>7. QED
    BY <1>6

(***************************************************************************)
(* The elements of a sequence that has grown.                              *)
(***************************************************************************)
LEMMA AppendedSet ==
    ASSUME NEW S, NEW q \in Seq(S), NEW x \in S
    PROVE  ToSet(Append(q, x)) = ToSet(q) \cup {x}
  <1>1. /\ Append(q, x) \in Seq(S) /\ Len(Append(q, x)) = Len(q) + 1
        /\ Append(q, x)[Len(q) + 1] = x
        /\ \A i \in 1..Len(q) : Append(q, x)[i] = q[i]
    OBVIOUS
  <1>2. DOMAIN Append(q, x) = DOMAIN q \cup {Len(q) + 1} /\ DOMAIN q = 1..Len(q)
    BY <1>1
  <1>3. QED
    BY <1>1, <1>2 DEF ToSet

LEMMA JoinedSet ==
    ASSUME NEW S, NEW q \in Seq(S), NEW r \in Seq(S)
    PROVE  q \o r \in Seq(S) /\ ToSet(q \o r) = ToSet(q) \cup ToSet(r)
  <1>1. /\ q \o r \in Seq(S) /\ Len(q \o r) = Len(q) + Len(r)
        /\ \A i \in 1..Len(q) : (q \o r)[i] = q[i]
        /\ \A i \in Len(q) + 1..Len(q) + Len(r) : (q \o r)[i] = r[i - Len(q)]
    OBVIOUS
  <1>2. /\ DOMAIN (q \o r) = 1..Len(q) + Len(r)
        /\ DOMAIN q = 1..Len(q) /\ DOMAIN r = 1..Len(r)
    BY <1>1
  <1>3. ToSet(q \o r) \subseteq ToSet(q) \cup ToSet(r)
    <2>1. ASSUME NEW i \in 1..Len(q) + Len(r)
          PROVE  (q \o r)[i] \in ToSet(q) \cup ToSet(r)
      <3>1. CASE i \in 1..Len(q)
        BY <1>1, <1>2, <3>1 DEF ToSet
      <3>2. CASE i \notin 1..Len(q)
        <4>1. i \in Len(q) + 1..Len(q) + Len(r) /\ i - Len(q) \in 1..Len(r)
          BY <3>2
        <4>2. QED
          BY <1>1, <1>2, <4>1 DEF ToSet
      <3>3. QED
        BY <3>1, <3>2
    <2>2. QED
      BY <1>2, <2>1 DEF ToSet
  <1>4. ToSet(q) \subseteq ToSet(q \o r)
    <2>1. \A i \in 1..Len(q) : i \in 1..Len(q) + Len(r)
      OBVIOUS
    <2>2. QED
      BY <1>1, <1>2, <2>1 DEF ToSet
  <1>5. ToSet(r) \subseteq ToSet(q \o r)
    <2>1. ASSUME NEW i \in 1..Len(r) PROVE r[i] \in ToSet(q \o r)
      <3>1. /\ i + Len(q) \in Len(q) + 1..Len(q) + Len(r)
            /\ i + Len(q) \in 1..Len(q) + Len(r) /\ (i + Len(q)) - Len(q) = i
        OBVIOUS
      <3>2. QED
        BY <1>1, <1>2, <3>1 DEF ToSet
    <2>2. QED
      BY <1>2, <2>1 DEF ToSet
  <1>6. QED
    BY <1>1, <1>3, <1>4, <1>5

(***************************************************************************)
(* What is selected is what is at the positions, and all of it.            *)
(***************************************************************************)
LEMMA Selected ==
    ASSUME NEW S, NEW s \in Seq(S), NEW I
    PROVE  /\ Select(s, I) \in Seq(S)
           /\ ToSet(Select(s, I)) = {s[i] : i \in I \cap 1..Len(s)}
  <1> DEFINE Step(g, n) == IF n = 0 THEN <<>>
                           ELSE IF n \in I THEN Append(g[n - 1], s[n]) ELSE g[n - 1]
             Among(n) == {s[i] : i \in I \cap 1..n}
             Upto(g, m) == g = [n \in 0..m |-> Step(g, n)]
             Missing == {m \in 0..Len(s) : ~\E g : Upto(g, m)}
  <1>1. ASSUME Missing # {} PROVE FALSE
    <2> DEFINE m == Min(Missing)
    <2>1. m \in Missing /\ \A h \in Missing : m <= h
      <3>1. Missing \subseteq Nat
        OBVIOUS
      <3> HIDE DEF Missing
      <3>2. QED
        BY <1>1, <3>1, LeastPosition
    <2> HIDE DEF m
    <2>2. m \in 0..Len(s) /\ ~\E g : Upto(g, m)
      BY <2>1
    <2>3. CASE m = 0
      <3>1. Upto([n \in 0..m |-> <<>>], m)
        BY <2>3
      <3>2. QED
        BY <2>2, <3>1
    <2>4. CASE m # 0
      <3>1. m - 1 \in 0..Len(s) /\ ~(m <= m - 1)
        BY <2>2, <2>4
      <3>2. PICK g : Upto(g, m - 1)
        BY <2>1, <3>1
      <3> DEFINE h == [n \in 0..m |-> IF n = m THEN Step(g, m) ELSE g[n]]
      <3>3. ASSUME NEW n \in 0..m PROVE h[n] = Step(h, n)
        <4>1. h[n] = Step(g, n)
          <5>1. n # m => n \in 0..m - 1
            BY <2>2
          <5>2. QED
            BY <3>2, <5>1
        <4>2. n # 0 => h[n - 1] = g[n - 1]
          BY <2>2
        <4>3. QED
          BY <4>1, <4>2
      <3>4. Upto(h, m)
        BY <3>3
      <3>5. QED
        BY <2>2, <3>4
    <2>5. QED
      BY <2>3, <2>4
  <1> DEFINE kept == CHOOSE f : Upto(f, Len(s))
  <1>2. Upto(kept, Len(s))
    <2>1. Len(s) \in 0..Len(s)
      OBVIOUS
    <2>2. \E g : Upto(g, Len(s))
      BY <1>1, <2>1
    <2>3. QED
      BY <2>2
  <1>3. kept[Len(s)] = Select(s, I)
    BY DEF Select
  <1> HIDE DEF kept
  <1> DEFINE Good(n) == kept[n] \in Seq(S) /\ ToSet(kept[n]) = Among(n)
             Bad == {n \in 0..Len(s) : ~Good(n)}
  <1>4. ASSUME Bad # {} PROVE FALSE
    <2> DEFINE m == Min(Bad)
    <2>1. m \in Bad /\ \A h \in Bad : m <= h
      <3>1. Bad \subseteq Nat
        OBVIOUS
      <3> HIDE DEF Bad
      <3>2. QED
        BY <1>4, <3>1, LeastPosition
    <2> HIDE DEF m
    <2>2. m \in 0..Len(s) /\ ~Good(m)
      BY <2>1
    <2>3. kept[m] = Step(kept, m)
      BY <1>2, <2>2
    <2>4. CASE m = 0
      <3>1. kept[m] = <<>> /\ 1..m = {}
        BY <2>3, <2>4
      <3>2. Among(m) = {} /\ ToSet(<<>>) = {}
        BY <3>1 DEF ToSet
      <3>3. QED
        BY <2>2, <3>1, <3>2
    <2>5. CASE m # 0
      <3>1. m - 1 \in 0..Len(s) /\ ~(m <= m - 1) /\ m \in 1..Len(s)
        BY <2>2, <2>5
      <3>2. kept[m - 1] \in Seq(S) /\ ToSet(kept[m - 1]) = Among(m - 1)
        BY <2>1, <3>1
      <3>3. s[m] \in S
        BY <3>1
      <3>4. CASE m \in I
        <4>1. kept[m] = Append(kept[m - 1], s[m])
          BY <2>3, <2>5, <3>4
        <4>2. ToSet(kept[m]) = ToSet(kept[m - 1]) \cup {s[m]}
          BY <3>2, <3>3, <4>1, AppendedSet
        <4>3. I \cap 1..m = (I \cap 1..m - 1) \cup {m}
          BY <2>2, <2>5, <3>4
        <4>4. Among(m) = Among(m - 1) \cup {s[m]}
          BY <4>3
        <4>5. kept[m] \in Seq(S)
          BY <3>2, <3>3, <4>1
        <4>6. QED
          BY <2>2, <3>2, <4>2, <4>4, <4>5
      <3>5. CASE m \notin I
        <4>1. kept[m] = kept[m - 1]
          BY <2>3, <2>5, <3>5
        <4>2. I \cap 1..m = I \cap 1..m - 1
          BY <2>2, <2>5, <3>5
        <4>3. QED
          BY <2>2, <3>2, <4>1, <4>2
      <3>6. QED
        BY <3>4, <3>5
    <2>6. QED
      BY <2>4, <2>5
  <1>5. Good(Len(s))
    <2>1. Len(s) \in 0..Len(s)
      OBVIOUS
    <2>2. QED
      BY <1>4, <2>1
  <1>6. QED
    BY <1>3, <1>5

LEMMA SubSeqSet ==
    ASSUME NEW S, NEW q \in Seq(S), NEW n \in 1..Len(q)
    PROVE  /\ SubSeq(q, 1, n - 1) \in Seq(S)
           /\ ToSet(SubSeq(q, 1, n - 1)) = {q[i] : i \in 1..n - 1}
           /\ ToSet(SubSeq(q, 1, n - 1)) \subseteq ToSet(q)
  <1> DEFINE p == SubSeq(q, 1, n - 1)
  <1>1. /\ p \in Seq(S) /\ Len(p) = n - 1 /\ DOMAIN p = 1..n - 1
        /\ \A i \in 1..n - 1 : p[i] = q[i]
    OBVIOUS
  <1>2. 1..n - 1 \subseteq DOMAIN q
    OBVIOUS
  <1>3. QED
    BY <1>1, <1>2 DEF ToSet

LEMMA RangeTypes ==
    ASSUME NEW S, NEW q \in Seq(S), NEW T, ToSet(q) \subseteq T
    PROVE  q \in Seq(T)
  <1>1. DOMAIN q = 1..Len(q) /\ Len(q) \in Nat /\ q = [i \in 1..Len(q) |-> q[i]]
    OBVIOUS
  <1>2. \A i \in 1..Len(q) : q[i] \in T
    BY <1>1 DEF ToSet
  <1>3. QED
    BY <1>1, <1>2

----------------------------------------------------------------------------
(* The latest result of a key                                              *)

LastRow(records, k, i) ==
    /\ i \in 1..Len(records) /\ Key(records[i]) = k
    /\ \A n \in 1..Len(records) : n > i => Key(records[n]) # k

NoRow(records, k) == \A i \in 1..Len(records) : Key(records[i]) # k

LEMMA LatestAt ==
    ASSUME NEW S, NEW records \in Seq(S), NEW k, NEW i, LastRow(records, k, i)
    PROVE  Latest(records, k) = records[i].result
  <1> DEFINE rows == {n \in 1..Len(records) : Key(records[n]) = k}
  <1>1. Len(records) \in Nat /\ rows \subseteq 1..Len(records) /\ i \in rows
    BY DEF LastRow
  <1>2. Max(rows) \in rows /\ \A n \in rows : n <= Max(rows)
    <2> HIDE DEF rows
    <2>1. QED
      BY <1>1, GreatestPosition
  <1>3. Max(rows) = i
    <2>1. Max(rows) \in 1..Len(records) /\ i \in 1..Len(records) /\ i <= Max(rows)
      BY <1>1, <1>2
    <2>2. ~(Max(rows) > i)
      BY <1>2, <2>1 DEF LastRow
    <2>3. QED
      BY <2>1, <2>2
  <1>4. Latest(records, k) = records[Max(rows)].result
    BY <1>1 DEF Latest
  <1>5. QED
    BY <1>3, <1>4

LEMMA LatestMeans ==
    ASSUME NEW S, NEW records \in Seq(S), NEW k
    PROVE  \/ NoRow(records, k) /\ Latest(records, k) = "unseen"
           \/ \E i : LastRow(records, k, i) /\ Latest(records, k) = records[i].result
  <1> DEFINE rows == {n \in 1..Len(records) : Key(records[n]) = k}
  <1>1. CASE rows = {}
    BY <1>1 DEF Latest, NoRow
  <1>2. CASE rows # {}
    <2>1. Len(records) \in Nat /\ rows \subseteq 1..Len(records)
      OBVIOUS
    <2>2. Max(rows) \in rows /\ \A n \in rows : n <= Max(rows)
      <3> HIDE DEF rows
      <3>1. QED
        BY <1>2, <2>1, GreatestPosition
    <2>3. ASSUME NEW n \in 1..Len(records), n > Max(rows) PROVE Key(records[n]) # k
      <3>1. Max(rows) \in Nat /\ n \in Nat
        BY <2>2
      <3>2. ~(n <= Max(rows))
        BY <2>3, <3>1
      <3>3. QED
        BY <2>2, <3>2
    <2>4. LastRow(records, k, Max(rows))
      BY <2>2, <2>3 DEF LastRow
    <2>5. QED
      BY <2>4, LatestAt
  <1>3. QED
    BY <1>1, <1>2

LEMMA LatestNone ==
    ASSUME NEW records, NEW k, NoRow(records, k)
    PROVE  Latest(records, k) = "unseen"
  BY DEF NoRow, Latest

(***************************************************************************)
(* Records that follow decide what the latest result of their key is, and  *)
(* nothing about the other keys.                                           *)
(***************************************************************************)
LEMMA LatestDecided ==
    ASSUME NEW S, NEW p \in Seq(S), NEW q \in Seq(S), NEW k,
           \E r \in ToSet(q) : Key(r) = k
    PROVE  \E r \in ToSet(q) : Key(r) = k /\ Latest(p \o q, k) = r.result
  <1>1. /\ p \o q \in Seq(S) /\ Len(p \o q) = Len(p) + Len(q)
        /\ Len(p) \in Nat /\ Len(q) \in Nat
        /\ \A i \in 1..Len(p) : (p \o q)[i] = p[i]
        /\ \A i \in Len(p) + 1..Len(p) + Len(q) : (p \o q)[i] = q[i - Len(p)]
    OBVIOUS
  <1>2. ASSUME NEW i \in 1..Len(p) + Len(q), ~(i \in 1..Len(p))
        PROVE  i - Len(p) \in 1..Len(q) /\ (p \o q)[i] = q[i - Len(p)]
    <2>1. i \in Len(p) + 1..Len(p) + Len(q) /\ i - Len(p) \in 1..Len(q)
      BY <1>1, <1>2
    <2>2. QED
      BY <1>1, <2>1
  <1>3. ASSUME NEW i \in 1..Len(q) PROVE q[i] \in ToSet(q)
    BY DEF ToSet
  <1>4. PICK r \in ToSet(q) : Key(r) = k
    OBVIOUS
  <1>5. PICK m \in 1..Len(q) : q[m] = r
    BY <1>4 DEF ToSet
  <1>6. /\ m + Len(p) \in 1..Len(p) + Len(q) /\ ~(m + Len(p) \in 1..Len(p))
        /\ (m + Len(p)) - Len(p) = m
    BY <1>1, <1>5
  <1>7. Key((p \o q)[m + Len(p)]) = k
    BY <1>2, <1>4, <1>5, <1>6
  <1>8. PICK i : LastRow(p \o q, k, i) /\ Latest(p \o q, k) = (p \o q)[i].result
    BY <1>1, <1>6, <1>7, LatestMeans DEF NoRow
  <1>9. i \in 1..Len(p) + Len(q) /\ ~(i \in 1..Len(p))
    <2>1. i \in 1..Len(p) + Len(q) /\ ~(m + Len(p) > i)
      BY <1>1, <1>6, <1>7, <1>8 DEF LastRow
    <2>2. QED
      BY <1>1, <1>5, <2>1
  <1>10. q[i - Len(p)] \in ToSet(q) /\ (p \o q)[i] = q[i - Len(p)] /\ Key((p \o q)[i]) = k
    BY <1>2, <1>3, <1>8, <1>9 DEF LastRow
  <1>11. QED
    BY <1>8, <1>10

LEMMA LatestKept ==
    ASSUME NEW S, NEW p \in Seq(S), NEW q \in Seq(S), NEW k,
           \A r \in ToSet(q) : Key(r) # k
    PROVE  Latest(p \o q, k) = Latest(p, k)
  <1>1. /\ p \o q \in Seq(S) /\ Len(p \o q) = Len(p) + Len(q)
        /\ Len(p) \in Nat /\ Len(q) \in Nat
        /\ \A i \in 1..Len(p) : (p \o q)[i] = p[i]
        /\ \A i \in Len(p) + 1..Len(p) + Len(q) : (p \o q)[i] = q[i - Len(p)]
    OBVIOUS
  <1>2. ASSUME NEW i \in 1..Len(p) + Len(q), ~(i \in 1..Len(p))
        PROVE  i - Len(p) \in 1..Len(q) /\ (p \o q)[i] = q[i - Len(p)]
    <2>1. i \in Len(p) + 1..Len(p) + Len(q) /\ i - Len(p) \in 1..Len(q)
      BY <1>1, <1>2
    <2>2. QED
      BY <1>1, <2>1
  <1>3. ASSUME NEW i \in 1..Len(q) PROVE q[i] \in ToSet(q)
    BY DEF ToSet
  <1>4. ASSUME NEW i \in 1..Len(p) + Len(q), ~(i \in 1..Len(p))
        PROVE  Key((p \o q)[i]) # k
    BY <1>2, <1>3, <1>4
  <1>5. CASE NoRow(p, k) /\ Latest(p, k) = "unseen"
    <2>1. NoRow(p \o q, k)
      BY <1>1, <1>4, <1>5 DEF NoRow
    <2>2. QED
      BY <1>5, <2>1, LatestNone
  <1>6. ASSUME NEW i, LastRow(p, k, i), Latest(p, k) = p[i].result
        PROVE  Latest(p \o q, k) = Latest(p, k)
    <2>1. i \in 1..Len(p) /\ i \in 1..Len(p) + Len(q) /\ (p \o q)[i] = p[i]
      BY <1>1, <1>6 DEF LastRow
    <2>2. ASSUME NEW n \in 1..Len(p) + Len(q), n > i PROVE Key((p \o q)[n]) # k
      <3>1. CASE n \in 1..Len(p)
        BY <1>1, <1>6, <2>2, <3>1 DEF LastRow
      <3>2. CASE ~(n \in 1..Len(p))
        BY <1>4, <3>2
      <3>3. QED
        BY <3>1, <3>2
    <2>3. LastRow(p \o q, k, i)
      BY <1>1, <1>6, <2>1, <2>2 DEF LastRow
    <2>4. Latest(p \o q, k) = (p \o q)[i].result
      BY <1>1, <2>3, LatestAt
    <2>5. QED
      BY <1>6, <2>1, <2>4
  <1>7. QED
    BY <1>5, <1>6, LatestMeans

LEMMA LatestAppended ==
    ASSUME NEW S, NEW p \in Seq(S), NEW r \in S, NEW k
    PROVE  Latest(Append(p, r), k) = IF Key(r) = k THEN r.result ELSE Latest(p, k)
  <1> DEFINE q == <<r>>
  <1>1. Append(p, r) = p \o q /\ q \in Seq(S)
    OBVIOUS
  <1>2. ToSet(q) = {r}
    <2>1. DOMAIN q = {1} /\ q[1] = r
      OBVIOUS
    <2>2. QED
      BY <2>1 DEF ToSet
  <1> HIDE DEF q
  <1>3. CASE Key(r) = k
    <2>1. \E x \in ToSet(q) : Key(x) = k
      BY <1>2, <1>3
    <2>2. \E x \in ToSet(q) : Key(x) = k /\ Latest(p \o q, k) = x.result
      BY <1>1, <2>1, LatestDecided
    <2>3. QED
      BY <1>1, <1>2, <1>3, <2>2
  <1>4. CASE Key(r) # k
    <2>1. \A x \in ToSet(q) : Key(x) # k
      BY <1>2, <1>4
    <2>2. Latest(p \o q, k) = Latest(p, k)
      BY <1>1, <2>1, LatestKept
    <2>3. QED
      BY <1>1, <1>4, <2>2
  <1>5. QED
    BY <1>3, <1>4

(***************************************************************************)
(* What Dedup keeps: of a key that needs a record at least one, of one     *)
(* that is reflected by all that is observed of it none.                   *)
(***************************************************************************)
LEMMA DedupKeeps ==
    ASSUME NEW prior \in Seq(Record), NEW observed \in Seq(Record), NEW k,
           \E r \in ToSet(observed) : Key(r) = k,
           \A r \in ToSet(observed) : Key(r) = k => r.result # Latest(prior, k)
    PROVE  \E i \in Dedup(prior, observed) : Key(observed[i]) = k
  <1> DEFINE I == {i \in 1..Len(observed) : Key(observed[i]) = k}
  <1>1. I \subseteq Nat /\ I # {}
    BY DEF ToSet
  <1>2. Min(I) \in I /\ \A h \in I : Min(I) <= h
    <2> HIDE DEF I
    <2>1. QED
      BY <1>1, LeastPosition
  <1> DEFINE m == Min(I)
             q == SubSeq(observed, 1, m - 1)
  <1>3. m \in 1..Len(observed) /\ Key(observed[m]) = k
    BY <1>2
  <1>4. \A n \in 1..m - 1 : Key(observed[n]) # k
    <2>1. \A n \in 1..m - 1 : n \in 1..Len(observed) /\ ~(m <= n)
      BY <1>3
    <2>2. QED
      BY <1>2, <2>1
  <1> HIDE DEF I, m
  <1>5. q \in Seq(Record) /\ \A r \in ToSet(q) : Key(r) # k
    BY <1>3, <1>4, SubSeqSet
  <1> HIDE DEF q
  <1>6. Latest(prior \o q, k) = Latest(prior, k)
    BY <1>5, LatestKept
  <1>7. m \in Dedup(prior, observed)
    <2>1. observed[m] \in ToSet(observed)
      BY <1>3 DEF ToSet
    <2>2. observed[m].result # Latest(prior \o q, Key(observed[m]))
      BY <1>3, <1>6, <2>1
    <2>3. QED
      BY <1>3, <2>2 DEF Dedup, IsChange, q
  <1>8. QED
    BY <1>3, <1>7

LEMMA DedupDrops ==
    ASSUME NEW prior \in Seq(Record), NEW observed \in Seq(Record), NEW k,
           \A r \in ToSet(observed) : Key(r) = k => r.result = Latest(prior, k)
    PROVE  \A i \in Dedup(prior, observed) : Key(observed[i]) # k
  <1> SUFFICES ASSUME NEW i \in 1..Len(observed), Key(observed[i]) = k
               PROVE  ~IsChange(prior \o SubSeq(observed, 1, i - 1), observed[i])
    BY DEF Dedup
  <1> DEFINE q == SubSeq(observed, 1, i - 1)
  <1>1. observed[i] \in ToSet(observed) /\ observed[i].result = Latest(prior, k)
    BY DEF ToSet
  <1>2. q \in Seq(Record) /\ ToSet(q) \subseteq ToSet(observed)
    BY SubSeqSet
  <1>3. \A r \in ToSet(q) : Key(r) = k => r.result = Latest(prior, k)
    BY <1>2
  <1>4. Latest(prior \o q, k) = Latest(prior, k)
    <2> HIDE DEF q
    <2>1. CASE \E r \in ToSet(q) : Key(r) = k
      BY <1>2, <1>3, <2>1, LatestDecided
    <2>2. CASE ~\E r \in ToSet(q) : Key(r) = k
      BY <1>2, <2>2, LatestKept
    <2>3. QED
      BY <2>1, <2>2
  <1>5. QED
    BY <1>1, <1>4 DEF IsChange

----------------------------------------------------------------------------
(* The output of a source                                                  *)

(***************************************************************************)
(* What the world says of a key now.                                       *)
(***************************************************************************)
Current(r) == r.result \in Voices(Key(r))

Mentions(records, s) == \E r \in ToSet(records) : Key(r) = KeyOf(s)

LEMMA VoiceOf ==
    ASSUME NEW k, NEW v
    PROVE  v \in Voices(k) <=> \E s \in Streams : /\ Present(s) /\ KeyOf(s) = k
                                                 /\ v = world[s].result
  BY DEF Voices

LEMMA SourceStreams ==
    ASSUME NEW i \in 1..Len(Sources)
    PROVE  Sources[i] \in Seq(Streams) /\ ToSet(Sources[i]) \subseteq Streams
  <1>1. Sources[i] \in Seq(Streams)
    BY StreamAssumption DEF StreamAssumption
  <1>2. QED
    BY <1>1 DEF ToSet

LEMMA ReportKinds ==
    ASSUME NEW report \in Report
    PROVE  /\ report # Silence <=> report.result # "silent"
           /\ report # Silence => report.result \in Results /\ report.at \in Nat
  <1>1. CASE report = Silence
    BY <1>1 DEF Silence
  <1>2. CASE report \in [result : Results, at : Nat]
    <2>1. report.result \in Results /\ report.at \in Nat /\ report.result # "silent"
      BY <1>2 DEF Results
    <2>2. QED
      BY <2>1 DEF Silence
  <1>3. QED
    BY <1>1, <1>2 DEF Report

LEMMA ReadingReports ==
    ASSUME world \in [Streams -> Report], NEW src \in 1..Len(Sources)
    PROVE  /\ Reading(src) \in Seq(Record)
           /\ \A r \in ToSet(Reading(src)) : Current(r)
           /\ \A s \in ToSet(Sources[src]) : Present(s) => Mentions(Reading(src), s)
  <1> DEFINE told == [i \in DOMAIN Sources[src] |-> RecordOf(Sources[src][i])]
             I == {i \in DOMAIN Sources[src] : Present(Sources[src][i])}
             S == {RecordOf(s) : s \in Streams}
  <1>1. Sources[src] \in Seq(Streams)
    BY StreamAssumption DEF StreamAssumption
  <1>2. /\ DOMAIN Sources[src] = 1..Len(Sources[src]) /\ Len(Sources[src]) \in Nat
        /\ \A i \in 1..Len(Sources[src]) : Sources[src][i] \in Streams
    BY <1>1
  <1>3. told \in Seq(S) /\ Len(told) = Len(Sources[src])
    BY <1>2
  <1>4. /\ Reading(src) \in Seq(S)
        /\ ToSet(Reading(src)) = {told[i] : i \in I \cap 1..Len(told)}
    <2>1. Reading(src) = Select(told, I)
      BY DEF Reading
    <2> HIDE DEF told, I, S
    <2>2. QED
      BY <1>3, <2>1, Selected
  <1>5. ToSet(Reading(src)) = {RecordOf(Sources[src][i]) : i \in I}
    BY <1>2, <1>3, <1>4
  <1>6. ASSUME NEW s \in Streams, Present(s)
        PROVE  RecordOf(s) \in Record /\ Key(RecordOf(s)) = KeyOf(s) /\ Current(RecordOf(s))
    <2>1. RecordOf(s).result = world[s].result /\ Key(RecordOf(s)) = KeyOf(s)
      BY DEF RecordOf, Key, KeyOf
    <2>2. world[s] \in Report /\ world[s] # Silence
      BY <1>6 DEF Present
    <2>3. RecordOf(s) \in Record
      BY <2>2, ReportKinds DEF RecordOf, Record
    <2>4. QED
      BY <1>6, <2>1, <2>3, VoiceOf DEF Current
  <1>7. \A r \in ToSet(Reading(src)) : r \in Record /\ Current(r)
    BY <1>2, <1>5, <1>6
  <1>8. Reading(src) \in Seq(Record)
    BY <1>4, <1>7, RangeTypes
  <1>9. ASSUME NEW s \in ToSet(Sources[src]), Present(s) PROVE Mentions(Reading(src), s)
    <2>1. PICK i \in DOMAIN Sources[src] : Sources[src][i] = s
      BY DEF ToSet
    <2>2. i \in I /\ s \in Streams
      BY <1>2, <1>9, <2>1
    <2>3. RecordOf(s) \in ToSet(Reading(src)) /\ Key(RecordOf(s)) = KeyOf(s)
      BY <1>5, <1>6, <1>9, <2>1, <2>2
    <2>4. QED
      BY <2>3 DEF Mentions
  <1>10. QED
    BY <1>7, <1>8, <1>9

----------------------------------------------------------------------------
(* The invariant                                                           *)

Clean(c) == c \in settled \/ job[c].mark # "late"
Wrong(records, s) == ~Reflects(records, KeyOf(s))

(***************************************************************************)
(* How far a tick is, and that what it says it appended is in the ledger.  *)
(***************************************************************************)
Shape(c) ==
    /\ job[c].step = "idle" => job[c] = Idle
    /\ job[c].step = "poll" =>
          /\ job[c].src \in 1..Len(Sources)
          /\ job[c].prior <= Len(log)
          /\ job[c].todo = {}
    /\ job[c].todo \subseteq 1..Len(job[c].observed)
    /\ job[c].told \subseteq ToSet(log)

(***************************************************************************)
(* A collector that has ticked without an error since the last change, or  *)
(* is ticking so, carries only current records, and one for every stream   *)
(* of the sources it has polled.                                           *)
(***************************************************************************)
Fresh(c) == Clean(c) => \A r \in ToSet(job[c].observed) : Current(r)

Polls(c) ==
    job[c].step = "poll" /\ job[c].mark # "late" =>
        \A i \in 1..job[c].src - 1 : \A s \in ToSet(Sources[i]) :
            Present(s) => Mentions(job[c].observed, s)

(***************************************************************************)
(* A tick that began when all was settled finds the ledger right, and is   *)
(* about to append records of contested keys only.                         *)
(***************************************************************************)
Quiet(c) ==
    job[c].mark = "calm" =>
        /\ Settled
        /\ \A k : ~Contested(k) => \A i \in job[c].todo : Key(job[c].observed[i]) # k
        /\ job[c].step = "poll" =>
              \A s \in Streams : Present(s) => ~Wrong(SubSeq(log, 1, job[c].prior), s)

Fine(c) == Shape(c) /\ Fresh(c) /\ Polls(c) /\ Quiet(c)

(***************************************************************************)
(* Where the ledger is wrong about a stream, a collector that has not      *)
(* settled will see to it: it carries old observations and must tick       *)
(* again, or it compares with a ledger that was wrong already, or it is    *)
(* about to append a record of the stream.                                 *)
(***************************************************************************)
Owes(c, s) ==
    /\ c \notin settled
    /\ \/ job[c].mark = "late"
       \/ job[c].step = "poll" /\ Wrong(SubSeq(log, 1, job[c].prior), s)
       \/ job[c].step = "append" /\ \E i \in job[c].todo : Key(job[c].observed[i]) = KeyOf(s)

Owed ==
    \A s \in Streams : Present(s) /\ Wrong(log, s) => \E c \in Collectors : Owes(c, s)

CollectInv ==
    /\ CollectTypeOK
    /\ \A c \in Collectors : Fine(c)
    /\ Owed

----------------------------------------------------------------------------
(* One step of one collector                                               *)

LEMMA InitEstablishes == Init => CollectInv
  <1> SUFFICES ASSUME Init PROVE CollectInv
    OBVIOUS
  <1>1. Idle \in Job
    BY DEF Idle, Job
  <1>2. CollectTypeOK
    <2>1. [result |-> "satisfied", at |-> 2] \in Report
      BY DEF Report, Results
    <2>2. <<>> \in Seq(Record) /\ 2 \in 2..MaxChanges + 2 /\ 0 \in 0..MaxFaults
      BY CollectionBounds DEF CollectionBounds
    <2>3. QED
      BY <1>1, <2>1, <2>2 DEF Init, CollectTypeOK
  <1>3. ASSUME NEW c \in Collectors PROVE Fine(c) /\ c \notin settled /\ job[c].mark = "late"
    <2>1. job[c] = Idle /\ c \notin settled
      BY DEF Init
    <2>2. QED
      BY <2>1 DEF Fine, Shape, Fresh, Polls, Quiet, Clean, Idle
  <1>4. Collectors # {}
    BY StreamAssumption DEF StreamAssumption
  <1>5. Owed
    BY <1>3, <1>4 DEF Owed, Owes
  <1>6. QED
    BY <1>2, <1>3, <1>5 DEF CollectInv

LEMMA LogGrows ==
    ASSUME NEW p \in Seq(Record), NEW q, q = p \/ \E r \in Record : q = Append(p, r)
    PROVE  /\ q \in Seq(Record) /\ Len(p) <= Len(q) /\ ToSet(p) \subseteq ToSet(q)
           /\ \A n \in Nat : n <= Len(p) => SubSeq(q, 1, n) = SubSeq(p, 1, n)
  <1>1. CASE q = p
    BY <1>1
  <1>2. ASSUME NEW r \in Record, q = Append(p, r)
        PROVE  /\ q \in Seq(Record) /\ Len(p) <= Len(q) /\ ToSet(p) \subseteq ToSet(q)
               /\ \A n \in Nat : n <= Len(p) => SubSeq(q, 1, n) = SubSeq(p, 1, n)
    <2>1. q \in Seq(Record) /\ Len(q) = Len(p) + 1 /\ \A i \in 1..Len(p) : q[i] = p[i]
      BY <1>2
    <2>2. ToSet(p) \subseteq ToSet(q)
      BY <1>2, AppendedSet
    <2>3. ASSUME NEW n \in Nat, n <= Len(p) PROVE SubSeq(q, 1, n) = SubSeq(p, 1, n)
      BY <2>1, <2>3
    <2>4. QED
      BY <2>1, <2>2, <2>3
  <1>3. QED
    BY <1>1, <1>2

(***************************************************************************)
(* A step of collector c that leaves the world alone keeps the invariant   *)
(* when c's own part and its debts do: what it appends is a current record *)
(* or the last thing it does before it ticks again.                        *)
(***************************************************************************)
LEMMA CollectorStep ==
    ASSUME CollectInv, NEW c \in Collectors, NEW j \in Job, Becomes(c, j),
           UNCHANGED <<world, clock>>, faults' \in 0..MaxFaults,
           settled \subseteq settled', settled' \subseteq settled \cup {c},
           \/ log' = log
           \/ \E r \in Record : /\ log' = Append(log, r)
                                /\ Current(r) \/ (c \notin settled' /\ j.mark = "late"),
           Fine(c)',
           \A s \in Streams :
               Present(s) /\ Latest(log', KeyOf(s)) \notin Voices(KeyOf(s)) /\ Owes(c, s)
               => Owes(c, s)'
    PROVE  CollectInv'
  <1>1. CollectTypeOK /\ (\A d \in Collectors : Fine(d)) /\ Owed
    BY DEF CollectInv
  <1>2. /\ job' \in [Collectors -> Job] /\ job'[c] = j
        /\ \A d \in Collectors : d # c => job'[d] = job[d]
    BY <1>1 DEF CollectTypeOK, Becomes
  <1>3. /\ log' \in Seq(Record) /\ Len(log) <= Len(log') /\ ToSet(log) \subseteq ToSet(log')
        /\ \A n \in Nat : n <= Len(log) => SubSeq(log', 1, n) = SubSeq(log, 1, n)
        /\ Len(log) \in Nat /\ Len(log') \in Nat
    <2>1. log \in Seq(Record)
      BY <1>1 DEF CollectTypeOK
    <2>2. log' = log \/ \E r \in Record : log' = Append(log, r)
      OBVIOUS
    <2>3. QED
      BY <2>1, <2>2, LogGrows
  <1>4. CollectTypeOK'
    BY <1>1, <1>2, <1>3 DEF CollectTypeOK
  <1>5. /\ world' = world
        /\ \A s \in Streams : Present(s)' <=> Present(s)
        /\ \A k : Voices(k)' = Voices(k) /\ (Contested(k)' <=> Contested(k))
        /\ \A r : Current(r)' <=> Current(r)
    BY DEF Present, Current, Voices, Contested
  <1>6. ASSUME NEW d \in Collectors, d # c PROVE Fine(d)'
    <2>1. Fine(d) /\ job'[d] = job[d] /\ job[d] \in Job /\ (d \in settled' <=> d \in settled)
      BY <1>1, <1>2, <1>6 DEF CollectTypeOK
    <2>2. Shape(d)'
      <3>1. Shape(d) /\ job[d].prior \in Nat
        BY <2>1 DEF Fine, Job
      <3>2. job[d].prior <= Len(log) => job[d].prior <= Len(log')
        BY <1>3, <3>1
      <3>3. QED
        BY <1>3, <2>1, <3>1, <3>2 DEF Shape
    <2>3. Fresh(d)'
      BY <1>5, <2>1 DEF Fine, Fresh, Clean
    <2>4. Polls(d)'
      <3>1. Polls(d)
        BY <2>1 DEF Fine
      <3>2. \A i \in 1..job[d].src - 1 : \A s \in ToSet(Sources[i]) :
                /\ Present(s)' <=> Present(s)
                /\ Mentions(job[d].observed, s)' <=> Mentions(job[d].observed, s)
        BY <1>5, <2>1 DEF Present, Mentions
      <3>3. QED
        BY <2>1, <3>1, <3>2 DEF Polls, Mentions
    <2>5. Quiet(d)'
      <3>1. SUFFICES ASSUME job[d].mark = "calm" PROVE Quiet(d)'
        BY <2>1 DEF Quiet
      <3>2. /\ settled = Collectors
            /\ \A k : ~Contested(k) => \A i \in job[d].todo : Key(job[d].observed[i]) # k
            /\ job[d].step = "poll" =>
                   \A s \in Streams :
                       Present(s) =>
                           Latest(SubSeq(log, 1, job[d].prior), KeyOf(s)) \in Voices(KeyOf(s))
        BY <2>1, <3>1 DEF Fine, Quiet, Settled, Wrong, Reflects
      <3>3. settled' = Collectors
        BY <3>2, <1>4 DEF CollectTypeOK
      <3>4. job[d].step = "poll" => SubSeq(log', 1, job[d].prior) = SubSeq(log, 1, job[d].prior)
        BY <1>3, <2>1 DEF Fine, Shape, Job
      <3>5. QED
        BY <1>5, <2>1, <3>2, <3>3, <3>4 DEF Quiet, Settled, Wrong, Reflects
    <2>6. QED
      BY <2>2, <2>3, <2>4, <2>5 DEF Fine
  <1>7. Owed'
    <2> SUFFICES ASSUME NEW s \in Streams, Present(s),
                        Latest(log', KeyOf(s)) \notin Voices(KeyOf(s))
                 PROVE  \E d \in Collectors : Owes(d, s)'
      BY <1>5 DEF Owed, Wrong, Reflects
    <2>1. CASE Wrong(log, s)
      <3>1. PICK d \in Collectors : Owes(d, s)
        BY <1>1, <2>1 DEF Owed
      <3>2. CASE d = c
        BY <3>1, <3>2
      <3>3. CASE d # c
        <4>1. job'[d] = job[d] /\ d \notin settled' /\ Shape(d) /\ job[d] \in Job
          BY <1>1, <1>2, <3>1, <3>3 DEF Owes, Fine, CollectTypeOK
        <4>2. job[d].step = "poll" => SubSeq(log', 1, job[d].prior) = SubSeq(log, 1, job[d].prior)
          BY <1>3, <4>1 DEF Shape, Job
        <4>3. Owes(d, s)'
          BY <1>5, <3>1, <4>1, <4>2 DEF Owes, Wrong, Reflects
        <4>4. QED
          BY <4>3
      <3>4. QED
        BY <3>2, <3>3
    <2>2. CASE ~Wrong(log, s)
      <3>1. log' # log
        BY <2>2 DEF Wrong, Reflects
      <3>2. PICK r \in Record : /\ log' = Append(log, r)
                                /\ Current(r) \/ (c \notin settled' /\ j.mark = "late")
        BY <3>1
      <3>3. Latest(log', KeyOf(s)) = IF Key(r) = KeyOf(s) THEN r.result ELSE Latest(log, KeyOf(s))
        BY <1>1, <3>2, LatestAppended DEF CollectTypeOK
      <3>4. Key(r) = KeyOf(s) /\ r.result \notin Voices(KeyOf(s))
        BY <2>2, <3>3 DEF Wrong, Reflects
      <3>5. ~Current(r)
        BY <3>4 DEF Current
      <3>6. Owes(c, s)'
        BY <1>2, <3>2, <3>5 DEF Owes
      <3>7. QED
        BY <3>6
    <2>3. QED
      BY <2>1, <2>2
  <1>8. QED
    BY <1>4, <1>6, <1>7 DEF CollectInv

(***************************************************************************)
(* The world changes.                                                      *)
(***************************************************************************)
LEMMA ChangeKeeps ==
    ASSUME CollectInv, NEW s \in Streams, Change(s)
    PROVE  CollectInv'
  <1>1. CollectTypeOK /\ (\A c \in Collectors : Fine(c)) /\ Owed
    BY DEF CollectInv
  <1>2. PICK report \in [result : Results, at : {clock} \cup OddTimes] \cup {Silence} :
            world' = [world EXCEPT ![s] = report]
    BY DEF Change
  <1>3. /\ clock < MaxChanges + 2 /\ clock' = clock + 1
        /\ UNCHANGED <<log, faults>>
        /\ IF world'[s].result = world[s].result
           THEN UNCHANGED <<settled, job>>
           ELSE /\ settled' = {}
                /\ job' = [c \in Collectors |-> [job[c] EXCEPT !.mark = "late"]]
    BY DEF Change
  <1>4. report \in Report
    <2>1. clock \in Nat /\ OddTimes \subseteq Nat
      BY <1>1, CollectionBounds DEF CollectionBounds, CollectTypeOK
    <2>2. QED
      BY <2>1 DEF Report
  <1>5. world' \in [Streams -> Report] /\ clock' \in 2..MaxChanges + 2
    BY <1>1, <1>2, <1>3, <1>4, CollectionBounds DEF CollectionBounds, CollectTypeOK
  <1>6. CASE world'[s].result = world[s].result
    <2>1. UNCHANGED <<settled, job, log, faults>>
      BY <1>3, <1>6
    <2>2. ASSUME NEW u \in Streams
          PROVE  world'[u].result = world[u].result /\ (Present(u)' <=> Present(u))
      <3>1. world \in [Streams -> Report]
        BY <1>1 DEF CollectTypeOK
      <3>2. world'[u].result = world[u].result
        BY <1>2, <1>6, <3>1
      <3>3. /\ Present(u) <=> world[u].result # "silent"
            /\ Present(u)' <=> world'[u].result # "silent"
        <4>1. world[u] \in Report /\ world'[u] \in Report
          BY <1>5, <3>1
        <4>2. QED
          BY <4>1, ReportKinds DEF Present
      <3>4. QED
        BY <3>2, <3>3
    <2>3. /\ \A k : Voices(k)' = Voices(k) /\ (Contested(k)' <=> Contested(k))
          /\ \A r : Current(r)' <=> Current(r)
      <3>1. ASSUME NEW k PROVE Voices(k)' = Voices(k)
        BY <2>2 DEF Voices, KeyOf
      <3>2. QED
        BY <3>1 DEF Current, Contested
    <2>4. CollectTypeOK'
      BY <1>1, <1>5, <2>1 DEF CollectTypeOK
    <2>5. ASSUME NEW c \in Collectors PROVE Fine(c)'
      <3>1. Shape(c)' /\ Fresh(c)'
        BY <1>1, <2>1, <2>3 DEF Fine, Shape, Fresh, Clean
      <3>2. Polls(c)'
        <4>1. Polls(c) /\ Shape(c)
          BY <1>1 DEF Fine
        <4>2. SUFFICES ASSUME job[c].step = "poll", job[c].mark # "late",
                              NEW i \in 1..job[c].src - 1, NEW u \in ToSet(Sources[i]), Present(u)'
                       PROVE  Mentions(job[c].observed, u)
          BY <2>1 DEF Polls, Mentions
        <4>3. u \in Streams
          BY <1>1, <4>1, <4>2, SourceStreams DEF Shape
        <4>4. QED
          BY <2>2, <4>1, <4>2, <4>3 DEF Polls
      <3>3. Quiet(c)'
        BY <1>1, <2>1, <2>2, <2>3 DEF Fine, Quiet, Settled, Wrong, Reflects
      <3>4. QED
        BY <3>1, <3>2, <3>3 DEF Fine
    <2>6. Owed'
      <3> SUFFICES ASSUME NEW u \in Streams, Present(u), Wrong(log, u)
                   PROVE  \E c \in Collectors : Owes(c, u)'
        BY <2>1, <2>2, <2>3 DEF Owed, Wrong, Reflects
      <3>1. PICK c \in Collectors : Owes(c, u)
        BY <1>1 DEF Owed
      <3>2. Owes(c, u)'
        BY <2>1, <2>2, <2>3, <3>1 DEF Owes, Wrong, Reflects
      <3>3. QED
        BY <3>2
    <2>7. QED
      BY <2>4, <2>5, <2>6 DEF CollectInv
  <1>7. CASE world'[s].result # world[s].result
    <2>1. settled' = {} /\ job' = [c \in Collectors |-> [job[c] EXCEPT !.mark = "late"]]
      BY <1>3, <1>7
    <2>2. ASSUME NEW c \in Collectors
          PROVE  /\ job[c] \in Job /\ job'[c] \in Job /\ job'[c].mark = "late"
                 /\ job'[c].step = job[c].step /\ job'[c].prior = job[c].prior
                 /\ job'[c].src = job[c].src /\ job'[c].observed = job[c].observed
                 /\ job'[c].todo = job[c].todo /\ job'[c].told = job[c].told
                 /\ job'[c] = [job[c] EXCEPT !.mark = "late"]
      <3>1. job[c] \in Job
        BY <1>1 DEF CollectTypeOK
      <3>2. job'[c] = [job[c] EXCEPT !.mark = "late"]
        BY <2>1
      <3>3. QED
        BY <3>1, <3>2 DEF Job
    <2>3. CollectTypeOK'
      <3>1. job' \in [Collectors -> Job]
        BY <2>1, <2>2
      <3>2. QED
        BY <1>1, <1>3, <1>5, <2>1, <3>1 DEF CollectTypeOK
    <2>4. ASSUME NEW c \in Collectors PROVE Fine(c)'
      <3>1. job[c] = Idle => job'[c] = Idle
        BY <2>2 DEF Idle
      <3>2. Shape(c)'
        BY <1>1, <1>3, <2>2, <3>1 DEF Fine, Shape
      <3>3. Fresh(c)' /\ Polls(c)' /\ Quiet(c)'
        BY <2>1, <2>2 DEF Fresh, Clean, Polls, Quiet
      <3>4. QED
        BY <3>2, <3>3 DEF Fine
    <2>5. Owed'
      <3>1. PICK c : c \in Collectors
        BY StreamAssumption DEF StreamAssumption
      <3>2. \A u \in Streams : Owes(c, u)'
        BY <2>1, <2>2, <3>1 DEF Owes
      <3>3. QED
        BY <3>1, <3>2 DEF Owed
    <2>6. QED
      BY <2>3, <2>4, <2>5 DEF CollectInv
  <1>8. QED
    BY <1>6, <1>7

(***************************************************************************)
(* The end of a tick, whatever ends it.                                    *)
(***************************************************************************)
LEMMA JobTypes ==
    ASSUME CollectInv, NEW c \in Collectors
    PROVE  job[c] \in Job /\ Idle \in Job /\ Fine(c)
  <1>1. Idle \in Job
    BY DEF Idle, Job
  <1>2. QED
    BY <1>1 DEF CollectInv, CollectTypeOK

LEMMA IdleFine ==
    ASSUME CollectInv, NEW c \in Collectors, Becomes(c, Idle)
    PROVE  Fine(c)' /\ job'[c] = Idle
  <1>1. job'[c] = Idle
    BY DEF CollectInv, CollectTypeOK, Becomes
  <1>2. ToSet(<<>>) = {}
    BY DEF ToSet
  <1>3. Shape(c)' /\ Fresh(c)' /\ Polls(c)' /\ Quiet(c)'
    BY <1>1, <1>2 DEF Shape, Fresh, Polls, Quiet, Idle
  <1>4. QED
    BY <1>1, <1>3 DEF Fine

LEMMA FaultTypes ==
    ASSUME CollectInv, NoFault \/ Fault
    PROVE  faults' \in 0..MaxFaults
  BY CollectionBounds DEF CollectionBounds, CollectInv, CollectTypeOK, NoFault, Fault

LEMMA StopKeeps ==
    ASSUME CollectInv, NEW c \in Collectors, Fault, Becomes(c, Idle),
           UNCHANGED <<world, clock, log, settled>>
    PROVE  CollectInv'
  <1>1. Idle \in Job /\ Fine(c)' /\ job'[c] = Idle /\ faults' \in 0..MaxFaults
    BY JobTypes, IdleFine, FaultTypes
  <1>2. \A s \in Streams : Owes(c, s) => Owes(c, s)'
    BY <1>1 DEF Owes, Idle
  <1>3. settled \subseteq settled' /\ settled' \subseteq settled \cup {c}
    OBVIOUS
  <1>4. QED
    BY <1>1, <1>2, <1>3, CollectorStep

LEMMA FinishKeeps ==
    ASSUME CollectInv, NEW c \in Collectors, Finish(c)
    PROVE  CollectInv'
  <1>1. /\ At(c, "append") /\ job[c].todo = {} /\ Becomes(c, Idle) /\ NoFault
        /\ settled' = IF job[c].mark # "late" THEN settled \cup {c} ELSE settled
        /\ UNCHANGED <<world, clock, log>>
    BY DEF Finish
  <1>2. Idle \in Job /\ Fine(c)' /\ job'[c] = Idle /\ faults' \in 0..MaxFaults
    BY <1>1, JobTypes, IdleFine, FaultTypes
  <1>3. ASSUME NEW s \in Streams, Owes(c, s) PROVE Owes(c, s)'
    <2>1. job[c].mark = "late" /\ c \notin settled
      BY <1>1, <1>3 DEF Owes, At
    <2>2. QED
      BY <1>1, <1>2, <2>1 DEF Owes, Idle
  <1>4. settled \subseteq settled' /\ settled' \subseteq settled \cup {c}
    BY <1>1
  <1>5. QED
    BY <1>1, <1>2, <1>3, <1>4, CollectorStep

(***************************************************************************)
(* The record an append is about.                                          *)
(***************************************************************************)
LEMMA NextIsObserved ==
    ASSUME CollectInv, NEW c \in Collectors, job[c].todo # {}
    PROVE  /\ Min(job[c].todo) \in job[c].todo
           /\ NextChange(job[c]) = job[c].observed[Min(job[c].todo)]
           /\ NextChange(job[c]) \in Record
           /\ NextChange(job[c]) \in ToSet(job[c].observed)
  <1>1. /\ job[c].observed \in Seq(Record) /\ job[c].todo \subseteq Nat
        /\ job[c].todo \subseteq 1..Len(job[c].observed)
    BY JobTypes DEF Job, Fine, Shape
  <1>2. Min(job[c].todo) \in job[c].todo
    BY <1>1, LeastPosition
  <1>3. DOMAIN job[c].observed = 1..Len(job[c].observed)
    BY <1>1
  <1>4. QED
    BY <1>1, <1>2, <1>3 DEF NextChange, ToSet

LEMMA AppendErrorKeeps ==
    ASSUME CollectInv, NEW c \in Collectors, AppendError(c)
    PROVE  CollectInv'
  <1> DEFINE r == NextChange(job[c])
  <1>1. /\ job[c].todo # {} /\ Fault /\ Becomes(c, Idle)
        /\ UNCHANGED <<world, clock, settled>>
        /\ log' = log \/ log' = Append(log, r)
    BY DEF AppendError
  <1>2. Idle \in Job /\ Fine(c) /\ Fine(c)' /\ job'[c] = Idle /\ faults' \in 0..MaxFaults
    BY <1>1, JobTypes, IdleFine, FaultTypes
  <1>3. r \in Record /\ r \in ToSet(job[c].observed)
    BY <1>1, NextIsObserved
  <1>4. Current(r) \/ (c \notin settled' /\ Idle.mark = "late")
    BY <1>1, <1>2, <1>3 DEF Fine, Fresh, Clean, Idle
  <1>5. \A s \in Streams : Owes(c, s) => Owes(c, s)'
    BY <1>1, <1>2 DEF Owes, Idle
  <1>6. settled \subseteq settled' /\ settled' \subseteq settled \cup {c}
    BY <1>1
  <1> HIDE DEF r
  <1>7. QED
    BY <1>1, <1>2, <1>3, <1>4, <1>5, <1>6, CollectorStep

(***************************************************************************)
(* The steps of a tick                                                     *)
(***************************************************************************)
LEMMA AppendChangeKeeps ==
    ASSUME CollectInv, NEW c \in Collectors, AppendChange(c)
    PROVE  CollectInv'
  <1> DEFINE r == NextChange(job[c])
             m == Min(job[c].todo)
             j == [job[c] EXCEPT !.todo = @ \ {m}, !.told = @ \cup {r}]
  <1>1. /\ At(c, "append") /\ job[c].todo # {} /\ log' = Append(log, r)
        /\ Becomes(c, j) /\ NoFault
        /\ UNCHANGED <<world, clock, settled>>
    BY DEF AppendChange
  <1>2. job[c] \in Job /\ Fine(c) /\ faults' \in 0..MaxFaults
    BY <1>1, JobTypes, FaultTypes
  <1>3. /\ m \in job[c].todo /\ r = job[c].observed[m] /\ r \in Record
        /\ r \in ToSet(job[c].observed)
    BY <1>1, NextIsObserved
  <1> HIDE DEF r, m
  <1>4. j \in Job
    BY <1>2, <1>3 DEF Job
  <1>5. /\ j.step = job[c].step /\ j.prior = job[c].prior /\ j.src = job[c].src
        /\ j.observed = job[c].observed /\ j.mark = job[c].mark
        /\ j.todo = job[c].todo \ {m} /\ j.told = job[c].told \cup {r}
    BY <1>2 DEF Job
  <1> HIDE DEF j
  <1>6. job'[c] = j
    BY <1>1 DEF Becomes, CollectInv, CollectTypeOK
  <1>7. log \in Seq(Record) /\ ToSet(log') = ToSet(log) \cup {r}
    BY <1>1, <1>3, AppendedSet DEF CollectInv, CollectTypeOK
  <1>8. Fine(c)'
    <2>1. Shape(c)'
      BY <1>1, <1>2, <1>5, <1>6, <1>7 DEF Fine, Shape, At
    <2>2. Fresh(c)'
      BY <1>1, <1>2, <1>5, <1>6 DEF Fine, Fresh, Clean, Current, Voices, Present
    <2>3. Polls(c)'
      BY <1>1, <1>5, <1>6 DEF Polls, At
    <2>4. Quiet(c)'
      <3>1. \A k : Contested(k)' <=> Contested(k)
        BY <1>1 DEF Contested, Voices, Present
      <3>2. QED
        BY <1>1, <1>2, <1>5, <1>6, <3>1 DEF Fine, Quiet, At, Settled
    <2>5. QED
      BY <2>1, <2>2, <2>3, <2>4 DEF Fine
  <1>9. Current(r) \/ (c \notin settled' /\ j.mark = "late")
    BY <1>1, <1>2, <1>3, <1>5 DEF Fine, Fresh, Clean
  <1>10. ASSUME NEW s \in Streams, Latest(log', KeyOf(s)) \notin Voices(KeyOf(s)), Owes(c, s)
         PROVE  Owes(c, s)'
    <2>1. CASE job[c].mark = "late"
      BY <1>1, <1>5, <1>6, <1>10, <2>1 DEF Owes
    <2>2. CASE job[c].mark # "late"
      <3>1. PICK i \in job[c].todo : Key(job[c].observed[i]) = KeyOf(s)
        BY <1>1, <1>10, <2>2 DEF Owes, At
      <3>2. CASE i = m
        <4>1. Key(r) = KeyOf(s)
          BY <1>3, <3>1, <3>2
        <4>2. Latest(log', KeyOf(s)) = r.result
          BY <1>1, <1>3, <1>7, <4>1, LatestAppended
        <4>3. r.result \in Voices(KeyOf(s))
          BY <1>5, <1>9, <2>2, <4>1 DEF Current
        <4>4. QED
          BY <1>10, <4>2, <4>3
      <3>3. CASE i # m
        BY <1>1, <1>5, <1>6, <1>10, <3>1, <3>3 DEF Owes, At
      <3>4. QED
        BY <3>2, <3>3
    <2>3. QED
      BY <2>1, <2>2
  <1>11. settled \subseteq settled' /\ settled' \subseteq settled \cup {c}
    BY <1>1
  <1>12. QED
    BY <1>1, <1>2, <1>3, <1>4, <1>8, <1>9, <1>10, <1>11, CollectorStep

LEMMA ReadLedgerKeeps ==
    ASSUME CollectInv, NEW c \in Collectors, ReadLedger(c)
    PROVE  CollectInv'
  <1> DEFINE mark == IF Settled THEN "calm" ELSE "clean"
             j == [Idle EXCEPT !.step = "poll", !.prior = Len(log), !.src = 1, !.mark = mark]
  <1>1. /\ At(c, "idle") /\ Becomes(c, j) /\ NoFault
        /\ UNCHANGED <<world, clock, log, settled>>
    BY DEF ReadLedger
  <1>2. /\ log \in Seq(Record) /\ Len(log) \in Nat /\ SubSeq(log, 1, Len(log)) = log
        /\ faults' \in 0..MaxFaults
    BY <1>1, FaultTypes DEF CollectInv, CollectTypeOK
  <1>3. /\ j.step = "poll" /\ j.prior = Len(log) /\ j.src = 1 /\ j.mark = mark
        /\ j.observed = <<>> /\ j.todo = {} /\ j.told = {}
    BY DEF Idle
  <1>4. j \in Job
    <2>1. mark \in {"late", "clean", "calm"}
      OBVIOUS
    <2>2. Idle \in Job
      BY JobTypes
    <2> HIDE DEF mark
    <2>3. QED
      BY <1>2, <2>1, <2>2 DEF Job
  <1> HIDE DEF j
  <1>5. job'[c] = j
    BY <1>1 DEF Becomes, CollectInv, CollectTypeOK
  <1>6. Fine(c)'
    <2>1. 1 \in 1..Len(Sources)
      BY StreamAssumption DEF StreamAssumption
    <2>2. Shape(c)'
      BY <1>1, <1>2, <1>3, <1>5, <2>1 DEF Shape
    <2>3. ToSet(<<>>) = {}
      BY DEF ToSet
    <2>4. Fresh(c)'
      BY <1>3, <1>5, <2>3 DEF Fresh
    <2>5. Polls(c)'
      BY <1>3, <1>5 DEF Polls
    <2>6. Quiet(c)'
      <3>1. CASE Settled
        <4>1. \A s \in Streams : Present(s) => ~Wrong(log, s)
          BY <3>1 DEF CollectInv, Owed, Owes, Settled
        <4>2. QED
          BY <1>1, <1>2, <1>3, <1>5, <3>1, <4>1 DEF Quiet, Settled, Present, Voices, Wrong, Reflects
      <3>2. CASE ~Settled
        BY <1>3, <1>5, <3>2 DEF Quiet
      <3>3. QED
        BY <3>1, <3>2
    <2>7. QED
      BY <2>2, <2>4, <2>5, <2>6 DEF Fine
  <1>7. ASSUME NEW s \in Streams, Latest(log', KeyOf(s)) \notin Voices(KeyOf(s)), Owes(c, s)
        PROVE  Owes(c, s)'
    BY <1>1, <1>2, <1>3, <1>5, <1>7 DEF Owes, Wrong, Reflects, Voices, Present
  <1>8. settled \subseteq settled' /\ settled' \subseteq settled \cup {c}
    BY <1>1
  <1>9. QED
    BY <1>1, <1>2, <1>4, <1>6, <1>7, <1>8, CollectorStep

(***************************************************************************)
(* A source has been polled: what came back are current records, one for   *)
(* each stream it reports on, or the tick is marked as one that cannot     *)
(* settle the collector.  After the last source the changes are computed.  *)
(***************************************************************************)
LEMMA PolledKeeps ==
    ASSUME CollectInv, NEW c \in Collectors, At(c, "poll"),
           NEW mark, mark \in {job[c].mark, "late"},
           NEW seen \in Seq(Record),
           ToSet(job[c].observed) \subseteq ToSet(seen),
           \A r \in ToSet(seen) : r \in ToSet(job[c].observed) \/ Current(r),
           mark # "late" => \A s \in ToSet(Sources[job[c].src]) :
                                Present(s) => Mentions(seen, s),
           Becomes(c, Polled([job[c] EXCEPT !.mark = mark], seen)),
           UNCHANGED <<world, clock, log, settled>>, NoFault \/ Fault
    PROVE  CollectInv'
  <1> DEFINE more == job[c].src < Len(Sources)
             prior == SubSeq(log, 1, job[c].prior)
             j == Polled([job[c] EXCEPT !.mark = mark], seen)
  <1>1. /\ job[c] \in Job /\ Fine(c) /\ faults' \in 0..MaxFaults
        /\ mark \in {"late", "clean", "calm"} /\ job[c].step = "poll"
        /\ log \in Seq(Record)
    BY JobTypes, FaultTypes DEF Job, At, CollectInv, CollectTypeOK
  <1>2. /\ job[c].src \in 1..Len(Sources) /\ Len(Sources) \in Nat
        /\ job[c].prior \in Nat /\ job[c].prior <= Len(log) /\ job[c].todo = {}
        /\ job[c].told \subseteq ToSet(log)
    BY <1>1, StreamAssumption DEF StreamAssumption, Fine, Shape, Job
  <1>3. prior \in Seq(Record)
    BY <1>1, <1>2
  <1>4. /\ Dedup(prior, seen) \subseteq 1..Len(seen) /\ Len(seen) \in Nat
        /\ 1..Len(seen) \subseteq Nat
    BY DEF Dedup
  <1> HIDE DEF prior
  <1>5. CASE more
    <2>1. j = [[job[c] EXCEPT !.mark = mark] EXCEPT !.src = job[c].src + 1, !.observed = seen]
      BY <1>1, <1>5 DEF Polled, Job
    <2>2. /\ j.step = "poll" /\ j.prior = job[c].prior /\ j.src = job[c].src + 1
          /\ j.observed = seen /\ j.todo = job[c].todo /\ j.told = job[c].told
          /\ j.mark = mark
      BY <1>1, <2>1 DEF Job
    <2>3. j \in Job
      <3>1. job[c].src + 1 \in Nat
        BY <1>2
      <3>2. QED
        BY <1>1, <2>1, <3>1 DEF Job
    <2> HIDE DEF j
    <2>4. job'[c] = j
      BY DEF Becomes, CollectInv, CollectTypeOK, j
    <2>5. Shape(c)'
      <3>1. job[c].src + 1 \in 1..Len(Sources)
        BY <1>2, <1>5
      <3>2. QED
        BY <1>2, <2>2, <2>4, <3>1 DEF Shape
    <2>6. Fresh(c)'
      BY <1>1, <2>2, <2>4 DEF Fine, Fresh, Clean, Current, Voices, Present
    <2>7. Polls(c)'
      <3>1. ASSUME mark # "late", NEW i \in 1..job[c].src, NEW s \in ToSet(Sources[i]),
                   Present(s)
            PROVE  Mentions(seen, s)
        <4>1. CASE i = job[c].src
          BY <3>1, <4>1
        <4>2. CASE i # job[c].src
          <5>1. i \in 1..job[c].src - 1
            BY <1>2, <4>2
          <5>2. Mentions(job[c].observed, s)
            BY <1>1, <3>1, <5>1 DEF Fine, Polls
          <5>3. QED
            BY <5>2 DEF Mentions
        <4>3. QED
          BY <4>1, <4>2
      <3>2. /\ job'[c].src = job[c].src + 1 /\ job'[c].mark = mark
            /\ job'[c].observed = seen
        BY <2>2, <2>4
      <3>3. \A s : /\ Present(s)' <=> Present(s)
                   /\ Mentions(job[c].observed, s)' <=> Mentions(seen, s)
        BY <3>2 DEF Present, Mentions
      <3>4. SUFFICES ASSUME mark # "late", NEW i \in 1..job'[c].src - 1,
                            NEW s \in ToSet(Sources[i]), Present(s)'
                     PROVE  Mentions(job[c].observed, s)'
        BY <3>2 DEF Polls
      <3>5. i \in 1..job[c].src /\ Present(s)
        <4>1. job'[c].src - 1 = job[c].src
          BY <1>2, <3>2
        <4>2. i \in 1..job[c].src
          BY <3>4, <4>1
        <4>3. Present(s)
          BY <3>4 DEF Present
        <4>4. QED
          BY <4>2, <4>3
      <3>6. Mentions(seen, s)
        BY <3>1, <3>4, <3>5
      <3>7. QED
        BY <3>3, <3>6
    <2>8. Quiet(c)'
      <3>1. \A k : Voices(k)' = Voices(k) /\ (Contested(k)' <=> Contested(k))
        BY DEF Contested, Voices, Present
      <3>2. QED
        BY <1>1, <1>2, <2>2, <2>4, <3>1 DEF Fine, Quiet, Settled, Present, Wrong, Reflects
    <2>9. \A s \in Streams : Owes(c, s) => Owes(c, s)'
      BY <1>1, <2>2, <2>4 DEF Owes, Wrong, Reflects, Voices, Present
    <2>10. settled \subseteq settled' /\ settled' \subseteq settled \cup {c} /\ Becomes(c, j)
      BY DEF j
    <2>11. Fine(c)'
      BY <2>5, <2>6, <2>7, <2>8 DEF Fine
    <2>12. QED
      BY <1>1, <2>3, <2>9, <2>10, <2>11, CollectorStep
  <1>6. CASE ~more
    <2>1. j = [[job[c] EXCEPT !.mark = mark]
                   EXCEPT !.step = "append", !.src = 0, !.prior = 0, !.observed = seen,
                          !.todo = Dedup(prior, seen)]
      BY <1>1, <1>6 DEF Polled, Job, prior
    <2>2. /\ j.step = "append" /\ j.observed = seen /\ j.todo = Dedup(prior, seen)
          /\ j.told = job[c].told /\ j.mark = mark
      BY <1>1, <2>1 DEF Job
    <2>3. j \in Job
      <3>1. Dedup(prior, seen) \in SUBSET Nat /\ 0 \in Nat
        BY <1>4
      <3> DEFINE k == [job[c] EXCEPT !.mark = mark]
      <3>2. k \in Job
        BY <1>1 DEF Job
      <3>3. j = [k EXCEPT !.step = "append", !.src = 0, !.prior = 0, !.observed = seen,
                          !.todo = Dedup(prior, seen)]
        BY <2>1
      <3> HIDE DEF j, k
      <3>4. QED
        BY <3>1, <3>2, <3>3 DEF Job
    <2> HIDE DEF j
    <2>4. job'[c] = j
      BY DEF Becomes, CollectInv, CollectTypeOK, j
    <2>5. Shape(c)'
      BY <1>2, <1>4, <2>2, <2>4 DEF Shape
    <2>6. Fresh(c)'
      BY <1>1, <2>2, <2>4 DEF Fine, Fresh, Clean, Current, Voices, Present
    <2>7. Polls(c)'
      BY <2>2, <2>4 DEF Polls
    <2>8. job[c].mark # "late" => \A r \in ToSet(seen) : Current(r)
      BY <1>1 DEF Fine, Fresh, Clean
    <2>9. Quiet(c)'
      <3>1. SUFFICES ASSUME mark = "calm" PROVE Quiet(c)'
        BY <2>2, <2>4 DEF Quiet
      <3>2. /\ Settled
            /\ \A s \in Streams : Present(s) => Latest(prior, KeyOf(s)) \in Voices(KeyOf(s))
        BY <1>1, <3>1 DEF Fine, Quiet, Wrong, Reflects, prior
      <3>3. ASSUME NEW k, ~Contested(k)
            PROVE  \A i \in Dedup(prior, seen) : Key(seen[i]) # k
        <4>1. ASSUME NEW r \in ToSet(seen), Key(r) = k PROVE r.result = Latest(prior, k)
          <5>1. r.result \in Voices(k)
            BY <2>8, <3>1, <4>1 DEF Current
          <5>2. PICK s \in Streams : Present(s) /\ KeyOf(s) = k
            BY <5>1, VoiceOf
          <5>3. Latest(prior, k) \in Voices(k)
            BY <3>2, <5>2
          <5>4. QED
            BY <3>3, <5>1, <5>3 DEF Contested
        <4>2. QED
          BY <1>3, <4>1, DedupDrops
      <3>4. \A k : Contested(k)' <=> Contested(k)
        BY DEF Contested, Voices, Present
      <3>5. QED
        BY <2>2, <2>4, <3>2, <3>3, <3>4 DEF Quiet, Settled
    <2>10. ASSUME NEW s \in Streams, Present(s), Owes(c, s) PROVE Owes(c, s)'
      <3>1. CASE mark = "late"
        BY <2>2, <2>4, <2>10, <3>1 DEF Owes
      <3>2. CASE mark # "late"
        <4>1. /\ job[c].mark = mark /\ c \notin settled
              /\ Latest(prior, KeyOf(s)) \notin Voices(KeyOf(s))
          BY <1>1, <2>10, <3>2 DEF Owes, Wrong, Reflects, prior
        <4>2. Mentions(seen, s)
          <5>1. PICK i \in 1..Len(Sources) : s \in ToSet(Sources[i])
            BY StreamAssumption DEF StreamAssumption
          <5>2. CASE i = job[c].src
            BY <2>10, <3>2, <5>1, <5>2
          <5>3. CASE i # job[c].src
            <6>1. i \in 1..job[c].src - 1
              BY <1>2, <1>6, <5>3
            <6>2. Mentions(job[c].observed, s)
              BY <1>1, <2>10, <3>2, <4>1, <5>1, <6>1 DEF Fine, Polls
            <6>3. QED
              BY <6>2 DEF Mentions
          <5>4. QED
            BY <5>2, <5>3
        <4>3. ASSUME NEW r \in ToSet(seen), Key(r) = KeyOf(s)
              PROVE  r.result # Latest(prior, KeyOf(s))
          BY <2>8, <3>2, <4>1, <4>3 DEF Current
        <4>4. \E i \in Dedup(prior, seen) : Key(seen[i]) = KeyOf(s)
          BY <1>3, <4>2, <4>3, DedupKeeps DEF Mentions
        <4>5. QED
          BY <2>2, <2>4, <4>1, <4>4 DEF Owes
      <3>3. QED
        BY <3>1, <3>2
    <2>11. settled \subseteq settled' /\ settled' \subseteq settled \cup {c} /\ Becomes(c, j)
      BY DEF j
    <2>12. Fine(c)'
      BY <2>5, <2>6, <2>7, <2>9 DEF Fine
    <2>13. QED
      BY <1>1, <2>3, <2>10, <2>11, <2>12, CollectorStep
  <1>7. QED
    BY <1>5, <1>6

LEMMA FetchKeeps ==
    ASSUME CollectInv, NEW c \in Collectors, Fetch(c)
    PROVE  CollectInv'
  <1> DEFINE records == Reading(job[c].src)
             seen == job[c].observed \o records
  <1>1. /\ At(c, "poll") /\ Becomes(c, Polled(job[c], seen)) /\ NoFault
        /\ UNCHANGED <<world, clock, log, settled>>
    BY DEF Fetch
  <1>2. job[c] \in Job /\ Fine(c) /\ world \in [Streams -> Report]
    BY JobTypes DEF CollectInv, CollectTypeOK
  <1>3. job[c].src \in 1..Len(Sources) /\ job[c].observed \in Seq(Record)
    BY <1>1, <1>2 DEF At, Fine, Shape, Job
  <1>4. /\ records \in Seq(Record)
        /\ \A r \in ToSet(records) : Current(r)
        /\ \A s \in ToSet(Sources[job[c].src]) : Present(s) => Mentions(records, s)
    BY <1>2, <1>3, ReadingReports
  <1> HIDE DEF records
  <1>5. seen \in Seq(Record) /\ ToSet(seen) = ToSet(job[c].observed) \cup ToSet(records)
    BY <1>3, <1>4, JoinedSet
  <1> HIDE DEF seen
  <1>6. \A s \in ToSet(Sources[job[c].src]) : Present(s) => Mentions(seen, s)
    BY <1>4, <1>5 DEF Mentions
  <1>7. job[c] = [job[c] EXCEPT !.mark = job[c].mark]
    BY <1>2 DEF Job
  <1>8. Becomes(c, Polled([job[c] EXCEPT !.mark = job[c].mark], seen))
    BY <1>1, <1>7
  <1>9. QED
    BY <1>1, <1>4, <1>5, <1>6, <1>8, PolledKeeps

LEMMA FetchErrorKeeps ==
    ASSUME CollectInv, NEW c \in Collectors, FetchError(c)
    PROVE  CollectInv'
  <1>1. /\ At(c, "poll")
        /\ NoFault \/ Fault
        /\ Becomes(c, Polled([job[c] EXCEPT !.mark = "late"], job[c].observed))
        /\ UNCHANGED <<world, clock, log, settled>>
    BY DEF FetchError, Degraded
  <1> DEFINE mark == "late"
             seen == job[c].observed
  <1>2. seen \in Seq(Record) /\ mark \in {job[c].mark, "late"}
    BY JobTypes DEF Job
  <1>3. /\ Becomes(c, Polled([job[c] EXCEPT !.mark = mark], seen))
        /\ ToSet(job[c].observed) \subseteq ToSet(seen)
        /\ \A r \in ToSet(seen) : r \in ToSet(job[c].observed) \/ Current(r)
        /\ mark # "late" => \A s \in ToSet(Sources[job[c].src]) :
                                Present(s) => Mentions(seen, s)
    BY <1>1
  <1>4. /\ At(c, "poll") /\ UNCHANGED <<world, clock, log, settled>>
        /\ NoFault \/ Fault
    BY <1>1
  <1> HIDE DEF mark, seen
  <1>5. QED
    BY <1>2, <1>3, <1>4, PolledKeeps

----------------------------------------------------------------------------
(* The theorems                                                            *)

LEMMA StepPreserves == CollectInv /\ [Next]_vars => CollectInv'
  <1> SUFFICES ASSUME CollectInv, [Next]_vars PROVE CollectInv'
    OBVIOUS
  <1>1. ASSUME NEW s \in Streams, Change(s) PROVE CollectInv'
    BY <1>1, ChangeKeeps
  <1>2. ASSUME NEW c \in Collectors, ReadLedger(c) PROVE CollectInv'
    BY <1>2, ReadLedgerKeeps
  <1>3. ASSUME NEW c \in Collectors, ReadError(c) \/ Restart(c) PROVE CollectInv'
    BY <1>3, StopKeeps DEF ReadError, Restart
  <1>4. ASSUME NEW c \in Collectors, Fetch(c) PROVE CollectInv'
    BY <1>4, FetchKeeps
  <1>5. ASSUME NEW c \in Collectors, FetchError(c) PROVE CollectInv'
    BY <1>5, FetchErrorKeeps
  <1>6. ASSUME NEW c \in Collectors, AppendChange(c) PROVE CollectInv'
    BY <1>6, AppendChangeKeeps
  <1>7. ASSUME NEW c \in Collectors, AppendError(c) PROVE CollectInv'
    BY <1>7, AppendErrorKeeps
  <1>8. ASSUME NEW c \in Collectors, Finish(c) PROVE CollectInv'
    BY <1>8, FinishKeeps
  <1>9. CASE UNCHANGED vars
    <2>1. UNCHANGED <<world, clock, log, job, settled, faults>>
      BY <1>9 DEF vars
    <2>2. /\ \A s : Present(s)' <=> Present(s)
          /\ \A k : Voices(k)' = Voices(k) /\ (Contested(k)' <=> Contested(k))
          /\ \A r : Current(r)' <=> Current(r)
      BY <2>1 DEF Present, Voices, Contested, Current
    <2>3. CollectTypeOK' /\ (Settled' <=> Settled)
      BY <2>1 DEF CollectInv, CollectTypeOK, Settled
    <2>4. ASSUME NEW c \in Collectors PROVE Fine(c)'
      <3>1. Fine(c)
        BY DEF CollectInv
      <3>2. Shape(c)' /\ Fresh(c)' /\ Polls(c)'
        BY <2>1, <2>2, <3>1 DEF Fine, Shape, Fresh, Clean, Polls, Mentions
      <3>3. Quiet(c)'
        BY <2>1, <2>2, <2>3, <3>1 DEF Fine, Quiet, Wrong, Reflects
      <3>4. QED
        BY <3>2, <3>3 DEF Fine
    <2>5. Owed'
      BY <2>1, <2>2 DEF CollectInv, Owed, Owes, Wrong, Reflects
    <2>6. QED
      BY <2>3, <2>4, <2>5 DEF CollectInv
  <1>10. QED
    BY <1>1, <1>2, <1>3, <1>4, <1>5, <1>6, <1>7, <1>8, <1>9 DEF Next

LEMMA Invariance == Spec => []CollectInv
  <1>1. QED
    BY InitEstablishes, StepPreserves, PTL DEF Spec

(***************************************************************************)
(* Collection keeps its types.                                             *)
(***************************************************************************)
THEOREM TypeCorrect == Spec => []CollectTypeOK
  <1>1. CollectInv => CollectTypeOK
    BY DEF CollectInv
  <1>2. QED
    BY <1>1, Invariance, PTL

(***************************************************************************)
(* However many collectors share the ledger, whatever order they poll,     *)
(* append, fail and restart in, and however often the world has changed:   *)
(* once each of them has finished a clean tick that began after the last   *)
(* change, the latest record of every key that is reported on is what a    *)
(* stream of it reports now (dedup.go:17-33).                              *)
(***************************************************************************)
THEOREM ReflectsHolds == Spec => []SettledReflects
  <1>1. CollectInv => SettledReflects
    BY DEF CollectInv, Owed, Owes, Wrong, Settled, SettledReflects
  <1>2. QED
    BY <1>1, Invariance, PTL

(***************************************************************************)
(* A tick that begins then has nothing to append but records of contested  *)
(* keys (dedup.go:10-13).                                                  *)
(***************************************************************************)
THEOREM SilentHolds == Spec => []SettledSilent
  <1>1. CollectInv => SettledSilent
    BY DEF CollectInv, Fine, Quiet, SettledSilent
  <1>2. QED
    BY <1>1, Invariance, PTL

(***************************************************************************)
(* What a tick returns as appended is in the ledger, when it ends with an  *)
(* error as well (collector.go:68-71).                                     *)
(***************************************************************************)
THEOREM ToldHolds == Spec => ToldStored
  <1>1. CollectInv /\ [Next]_vars =>
           [\A c \in Collectors :
               AppendError(c) \/ Finish(c) => Told(c) \subseteq ToSet(log')]_vars
    <2> SUFFICES ASSUME CollectInv, NEW c \in Collectors, AppendError(c) \/ Finish(c)
                 PROVE  Told(c) \subseteq ToSet(log')
      OBVIOUS
    <2>1. Fine(c) /\ job[c].told \subseteq ToSet(log) /\ log \in Seq(Record)
      BY JobTypes DEF Fine, Shape, CollectInv, CollectTypeOK
    <2>2. ToSet(log) \subseteq ToSet(log')
      <3>1. CASE Finish(c)
        BY <3>1 DEF Finish
      <3>2. CASE AppendError(c)
        <4>1. job[c].todo # {} /\ log' \in {log, Append(log, NextChange(job[c]))}
          BY <3>2 DEF AppendError
        <4>2. NextChange(job[c]) \in Record
          BY <4>1, NextIsObserved
        <4>3. QED
          BY <2>1, <4>1, <4>2, LogGrows
      <3>3. QED
        BY <3>1, <3>2
    <2>3. QED
      BY <2>1, <2>2 DEF Told
  <1>2. QED
    BY <1>1, Invariance, PTL DEF Spec, ToldStored

----------------------------------------------------------------------------
(* The posture                                                             *)

(***************************************************************************)
(* Every record is about a stream.                                         *)
(***************************************************************************)
Named == {r \in Record : \E s \in Streams : Key(r) = KeyOf(s)}
NamedInv == log \in Seq(Named) /\ \A c \in Collectors : job[c].observed \in Seq(Named)

LEMMA NextNamed ==
    ASSUME CollectInv, NamedInv, NEW c \in Collectors, job[c].todo # {}
    PROVE  NextChange(job[c]) \in Named
  <1>1. NextChange(job[c]) \in ToSet(job[c].observed)
    BY NextIsObserved
  <1>2. job[c].observed \in Seq(Named)
    BY DEF NamedInv
  <1>3. ToSet(job[c].observed) \subseteq Named
    BY <1>2 DEF ToSet
  <1>4. QED
    BY <1>1, <1>3

(***************************************************************************)
(* What becomes of one collector's observed records.                       *)
(***************************************************************************)
LEMMA NamedStep ==
    ASSUME CollectInv, NamedInv, NEW c \in Collectors, NEW j, Becomes(c, j),
           j.observed \in Seq(Named), log' \in Seq(Named)
    PROVE  NamedInv'
  <1>1. ASSUME NEW d \in Collectors PROVE job'[d].observed \in Seq(Named)
    <2>1. job'[d] = IF d = c THEN j ELSE job[d]
      BY DEF Becomes, CollectInv, CollectTypeOK
    <2>2. QED
      BY <2>1 DEF NamedInv
  <1>2. QED
    BY <1>1 DEF NamedInv, Named

LEMMA NamedKept == CollectInv /\ NamedInv /\ [Next]_vars => NamedInv'
  <1> SUFFICES ASSUME CollectInv, NamedInv, [Next]_vars PROVE NamedInv'
    OBVIOUS
  <1>1. log \in Seq(Named) /\ \A c \in Collectors : job[c].observed \in Seq(Named)
    BY DEF NamedInv
  <1>2. <<>> \in Seq(Named) /\ Idle.observed = <<>>
    BY DEF Idle
  <1>3. ASSUME NEW c \in Collectors, NEW mark, NEW seen \in Seq(Named),
               Becomes(c, Polled([job[c] EXCEPT !.mark = mark], seen)), log' = log
        PROVE  NamedInv'
    <2> DEFINE j == Polled([job[c] EXCEPT !.mark = mark], seen)
    <2>1. j.observed = seen
      BY JobTypes DEF Polled, Job
    <2> HIDE DEF j
    <2>2. QED
      BY <1>1, <1>3, <2>1, NamedStep DEF j
  <1>4. ASSUME NEW s \in Streams, Change(s) PROVE NamedInv'
    <2>1. log' = log /\ \A c \in Collectors : job'[c].observed = job[c].observed
      BY <1>4, JobTypes DEF Change, Job
    <2>2. QED
      BY <1>1, <2>1 DEF NamedInv, Named
  <1>5. ASSUME NEW c \in Collectors,
               ReadError(c) \/ Restart(c) \/ Finish(c)
        PROVE  NamedInv'
    <2>1. Becomes(c, Idle) /\ log' = log
      BY <1>5 DEF ReadError, Restart, Finish
    <2>2. QED
      BY <1>1, <1>2, <2>1, NamedStep
  <1>6. ASSUME NEW c \in Collectors, ReadLedger(c) PROVE NamedInv'
    <2> DEFINE j == [Idle EXCEPT !.step = "poll", !.prior = Len(log), !.src = 1,
                                 !.mark = IF Settled THEN "calm" ELSE "clean"]
    <2>1. Becomes(c, j) /\ log' = log
      BY <1>6 DEF ReadLedger
    <2>2. j.observed = <<>>
      BY DEF Idle
    <2> HIDE DEF j
    <2>3. QED
      BY <1>1, <1>2, <2>1, <2>2, NamedStep
  <1>7. ASSUME NEW c \in Collectors, Fetch(c) PROVE NamedInv'
    <2> DEFINE seen == job[c].observed \o Reading(job[c].src)
    <2>1. At(c, "poll") /\ Becomes(c, Polled(job[c], seen)) /\ log' = log
      BY <1>7 DEF Fetch
    <2>2. job[c].src \in 1..Len(Sources) /\ world \in [Streams -> Report]
      BY <2>1, JobTypes DEF CollectInv, CollectTypeOK, Fine, Shape, At
    <2>3. /\ Reading(job[c].src) \in Seq(Record)
          /\ \A r \in ToSet(Reading(job[c].src)) : Current(r)
      BY <2>2, ReadingReports
    <2>4. ToSet(Reading(job[c].src)) \subseteq Record
      BY <2>3 DEF ToSet
    <2>5. ToSet(Reading(job[c].src)) \subseteq Named
      BY <2>3, <2>4, VoiceOf DEF Current, Named
    <2>6. Reading(job[c].src) \in Seq(Named)
      BY <2>3, <2>5, RangeTypes
    <2>7. seen \in Seq(Named)
      BY <1>1, <2>6
    <2>8. job[c] = [job[c] EXCEPT !.mark = job[c].mark]
      BY JobTypes DEF Job
    <2> HIDE DEF seen
    <2>9. QED
      BY <1>3, <2>1, <2>7, <2>8
  <1>8. ASSUME NEW c \in Collectors, FetchError(c) PROVE NamedInv'
    <2>1. Becomes(c, Polled([job[c] EXCEPT !.mark = "late"], job[c].observed)) /\ log' = log
      BY <1>8 DEF FetchError, Degraded
    <2>2. QED
      BY <1>1, <1>3, <2>1
  <1>9. ASSUME NEW c \in Collectors, AppendChange(c) PROVE NamedInv'
    <2> DEFINE r == NextChange(job[c])
               j == [job[c] EXCEPT !.todo = @ \ {Min(@)}, !.told = @ \cup {r}]
    <2>1. job[c].todo # {} /\ log' = Append(log, r) /\ Becomes(c, j)
      BY <1>9 DEF AppendChange
    <2>2. r \in Named
      BY <2>1, NextNamed
    <2>3. j.observed = job[c].observed
      BY JobTypes DEF Job
    <2> HIDE DEF j, r
    <2>4. log' \in Seq(Named)
      BY <1>1, <2>1, <2>2
    <2>5. QED
      BY <1>1, <2>1, <2>3, <2>4, NamedStep
  <1>10. ASSUME NEW c \in Collectors, AppendError(c) PROVE NamedInv'
    <2> DEFINE r == NextChange(job[c])
    <2>1. job[c].todo # {} /\ log' \in {log, Append(log, r)} /\ Becomes(c, Idle)
      BY <1>10 DEF AppendError
    <2>2. r \in Named
      BY <2>1, NextNamed
    <2> HIDE DEF r
    <2>3. log' \in Seq(Named)
      BY <1>1, <2>1, <2>2
    <2>4. QED
      BY <1>2, <2>1, <2>3, NamedStep
  <1>11. CASE UNCHANGED vars
    BY <1>1, <1>11 DEF vars, NamedInv, Named
  <1>12. QED
    BY <1>4, <1>5, <1>6, <1>7, <1>8, <1>9, <1>10, <1>11 DEF Next

LEMMA NamedHolds == Spec => []NamedInv
  <1>1. Init => NamedInv
    <2> SUFFICES ASSUME Init PROVE NamedInv
      OBVIOUS
    <2>1. <<>> \in Seq(Named) /\ Idle.observed = <<>>
      BY DEF Idle
    <2>2. log = <<>> /\ \A c \in Collectors : job[c] = Idle
      BY DEF Init
    <2>3. QED
      BY <2>1, <2>2 DEF NamedInv
  <1>2. QED
    BY <1>1, NamedKept, Invariance, PTL DEF Spec

(***************************************************************************)
(* Where the records of each key are in the order of their usable times,   *)
(* the posture of a present stream is its latest result.                   *)
(***************************************************************************)
LEMMA LatestSpeaks ==
    ASSUME NEW records \in Seq(Record), InOrder(records), NEW s \in Streams,
           Latest(records, KeyOf(s)) # "unseen"
    PROVE  /\ SubjectStatus(records, ControlOf[s], SubjectOf[s]) = Latest(records, KeyOf(s))
           /\ SubjectOf[s] \in SubjectsOf(records, ControlOf[s])
  <1> DEFINE c == ControlOf[s]
             t == SubjectOf[s]
             N == Len(records)
  <1>1. N \in Nat /\ \A i \in 1..N : records[i] \in Record
    OBVIOUS
  <1>2. PICK k : LastRow(records, KeyOf(s), k) /\ Latest(records, KeyOf(s)) = records[k].result
    BY LatestMeans
  <1>3. \A i \in 1..N : Speaks(records[i], c, t) <=> Key(records[i]) = KeyOf(s)
    BY DEF Speaks, Key, KeyOf
  <1>4. \A i : i \in About(records, c, t) <=> i \in 1..N /\ Key(records[i]) = KeyOf(s)
    BY <1>3 DEF About
  <1> HIDE DEF c, t
  <1>5. k \in About(records, c, t) /\ k \in 1..N
    BY <1>2, <1>4 DEF LastRow
  <1>6. ASSUME NEW m \in About(records, c, t) PROVE m <= k
    <2>1. m \in 1..N /\ Key(records[m]) = KeyOf(s)
      BY <1>4
    <2>2. ~(m > k)
      BY <1>2, <2>1 DEF LastRow
    <2>3. QED
      BY <1>1, <1>5, <2>1, <2>2
  <1>7. InTurn(records, c, t)
    <2> SUFFICES ASSUME NEW i \in About(records, c, t), NEW j \in About(records, c, t), i < j,
                        \A m \in About(records, c, t) : m <= i \/ j <= m
                 PROVE  Orderly(records[i], records[j])
      BY DEF InTurn
    <2>1. i \in 1..N /\ j \in 1..N /\ Key(records[i]) = Key(records[j])
      BY <1>4
    <2>2. ASSUME NEW m \in i + 1..j - 1 PROVE Key(records[m]) # Key(records[i])
      <3>1. m \in 1..N /\ ~(m <= i) /\ ~(j <= m)
        BY <1>1, <2>1, <2>2
      <3>2. m \notin About(records, c, t)
        BY <3>1
      <3>3. QED
        BY <1>4, <2>1, <3>1, <3>2
    <2>3. NotOlder(records[i], records[j])
      BY <2>1, <2>2 DEF InOrder
    <2>4. QED
      BY <2>3 DEF NotOlder, Orderly
  <1>8. IsRecordOf(Record)
    BY DEF IsRecordOf, Record
  <1>9. SubjectStatus(records, c, t) = records[k].result
    BY <1>5, <1>6, <1>7, <1>8, LatestWins
  <1>10. t \in SubjectsOf(records, c)
    <2>1. records[k] \in ToSet(records)
      BY <1>5 DEF ToSet
    <2>2. records[k].control = c /\ records[k].subject = t
      BY <1>5 DEF About, Speaks
    <2>3. QED
      BY <2>1, <2>2 DEF SubjectsOf
  <1>11. QED
    BY <1>2, <1>9, <1>10 DEF c, t

LEMMA PostureHolds == CollectInv /\ NamedInv => PostureFollows
  <1> SUFFICES ASSUME CollectInv, NamedInv, Settled, InOrder(log)
               PROVE  PostureIsWorld
    BY DEF PostureFollows
  <1>1. log \in Seq(Record) /\ world \in [Streams -> Report] /\ log \in Seq(Named)
    BY DEF CollectInv, CollectTypeOK, NamedInv
  <1>2. ASSUME NEW s \in Streams, Present(s)
        PROVE  world[s].result \in Results /\ world[s].result \in Voices(KeyOf(s))
    <2>1. world[s] \in Report /\ world[s] # Silence
      BY <1>1, <1>2 DEF Present
    <2>2. QED
      BY <1>2, <2>1, ReportKinds, VoiceOf
  <1>3. ASSUME NEW s \in Streams, ~Unclear(s)
        PROVE  \E v \in Results :
                   /\ Voices(KeyOf(s)) = {v}
                   /\ SubjectStatus(log, ControlOf[s], SubjectOf[s]) = v
                   /\ SubjectOf[s] \in SubjectsOf(log, ControlOf[s])
    <2>1. PICK v : Voices(KeyOf(s)) = {v}
      BY <1>3 DEF Unclear, Contested
    <2>2. PICK u \in Streams : Present(u) /\ KeyOf(u) = KeyOf(s) /\ v = world[u].result
      BY <2>1, VoiceOf
    <2>3. v \in Results
      BY <1>2, <2>2
    <2>4. Latest(log, KeyOf(s)) = v
      BY <2>1, <2>2 DEF CollectInv, Owed, Owes, Wrong, Reflects, Settled
    <2>5. Latest(log, KeyOf(s)) # "unseen"
      BY <2>3, <2>4 DEF Results
    <2>6. QED
      BY <1>1, <2>1, <2>3, <2>4, <2>5, LatestSpeaks
  <1>4. ASSUME NEW c, NEW t \in SubjectsOf(log, c)
        PROVE  \E s \in Streams : ControlOf[s] = c /\ SubjectOf[s] = t
    <2>1. PICK r \in ToSet(log) : r.control = c /\ r.subject = t
      BY DEF SubjectsOf
    <2>2. r \in Named
      BY <1>1, <2>1 DEF ToSet
    <2>3. PICK s \in Streams : Key(r) = KeyOf(s)
      BY <2>2 DEF Named
    <2>4. QED
      BY <2>1, <2>3 DEF Key, KeyOf
  <1>5. ASSUME NEW c \in Judged PROVE c \in NotSatisfied(log) <=> c \in Gaps
    <2>1. \A s \in Streams : ControlOf[s] = c => ~Unclear(s)
      BY DEF Judged
    <2>2. ASSUME c \in NotSatisfied(log) PROVE c \in Gaps
      <3>1. PICK t \in SubjectsOf(log, c) : SubjectStatus(log, c, t) # "satisfied"
        BY <2>2 DEF NotSatisfied, ControlSatisfied
      <3>2. PICK s \in Streams : ControlOf[s] = c /\ SubjectOf[s] = t
        BY <1>4
      <3>3. PICK v \in Results : Voices(KeyOf(s)) = {v} /\ SubjectStatus(log, c, t) = v
        BY <1>3, <2>1, <3>2
      <3>4. PICK u \in Streams : Present(u) /\ KeyOf(u) = KeyOf(s) /\ v = world[u].result
        BY <3>3, VoiceOf
      <3>5. world[u].result = "not-satisfied" /\ ControlOf[u] = c
        BY <3>1, <3>2, <3>3, <3>4 DEF Results, KeyOf
      <3>6. QED
        BY <3>5 DEF Gaps
    <2>3. ASSUME c \in Gaps PROVE c \in NotSatisfied(log)
      <3>1. PICK s \in Streams : ControlOf[s] = c /\ world[s].result = "not-satisfied"
        BY <2>3 DEF Gaps
      <3>2. PICK v \in Results :
                /\ Voices(KeyOf(s)) = {v}
                /\ SubjectStatus(log, ControlOf[s], SubjectOf[s]) = v
                /\ SubjectOf[s] \in SubjectsOf(log, ControlOf[s])
        BY <1>3, <2>1, <3>1
      <3>3. Present(s)
        BY <3>1 DEF Present, Silence
      <3>4. v = "not-satisfied"
        BY <1>2, <3>1, <3>2, <3>3
      <3>5. c \in {r.control : r \in ToSet(log)}
        BY <3>1, <3>2 DEF SubjectsOf
      <3>6. QED
        BY <3>1, <3>2, <3>4, <3>5 DEF NotSatisfied, ControlSatisfied
    <2>4. QED
      BY <2>2, <2>3
  <1>6. QED
    BY <1>5 DEF PostureIsWorld

(***************************************************************************)
(* Once all collectors have settled, and as long as the records of each    *)
(* key are in the order of their usable times, the gaps of the ledger are  *)
(* the controls with a failing stream (posture.go:48-50), where no key is  *)
(* contested or gone silent.                                               *)
(***************************************************************************)
THEOREM FollowsHolds == Spec => []PostureFollows
  BY PostureHolds, NamedHolds, Invariance, PTL
=============================================================================
