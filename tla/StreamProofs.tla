---------------------------- MODULE StreamProofs ----------------------------
(***************************************************************************)
(* The screening of a stream for any pattern, any chunks and any bounds.   *)
(* First what Text makes of a content, and that an event screened behind   *)
(* the tail is as good as the whole content screened again; then what the  *)
(* reader is after any number of units; last the properties of Stream, and *)
(* that it does what OutputFilter promises.                                *)
(***************************************************************************)
EXTENDS Stream, SequenceTheorems, WellFoundedInduction, TLAPS

----------------------------------------------------------------------------
(* Positions and prefixes                                                  *)

(***************************************************************************)
(* A set that has 0 and, below N, the successor of each of its numbers has *)
(* all the numbers up to N.                                                *)
(***************************************************************************)
Less == {mn \in Nat \X Nat : mn[1] < mn[2]}

LEMMA UpTo ==
    ASSUME NEW N \in Nat, NEW G, 0 \in G, \A n \in 0..N : n < N /\ n \in G => n + 1 \in G
    PROVE  0..N \subseteq G
  <1> DEFINE Bad == (0..N) \ G
  <1>1. ASSUME Bad # {} PROVE FALSE
    <2>1. IsWellFoundedOn(Less, Nat)
      BY NatLessThanWellFounded DEF OpToRel, Less
    <2>2. Bad \subseteq Nat
      OBVIOUS
    <2> HIDE DEF Bad
    <2>3. PICK b \in Bad : \A h \in Bad : <<h, b>> \notin Less
      BY <1>1, <2>1, <2>2, WFMin, Zenon
    <2>4. b \in 0..N /\ b \notin G
      BY DEF Bad
    <2>5. b - 1 \in 0..N /\ b - 1 < N /\ b - 1 < b /\ (b - 1) + 1 = b
      BY <2>4
    <2>6. b - 1 \in G
      <3>1. <<b - 1, b>> \in Less
        BY <2>4, <2>5 DEF Less
      <3>2. b - 1 \notin Bad
        BY <2>3, <3>1
      <3>3. QED
        BY <2>5, <3>2 DEF Bad
    <2>7. QED
      BY <2>4, <2>5, <2>6
  <1>2. QED
    BY <1>1

LEMMA UnitsAssociative ==
    ASSUME NEW a \in Seq(Units), NEW b \in Seq(Units), NEW c \in Seq(Units)
    PROVE  a \o (b \o c) = (a \o b) \o c
  BY ConcatAssociative

LEMMA TextAssociative ==
    ASSUME NEW a \in Seq(TextUnits), NEW b \in Seq(TextUnits), NEW c \in Seq(TextUnits)
    PROVE  a \o (b \o c) = (a \o b) \o c
  BY ConcatAssociative

LEMMA OneMore ==
    ASSUME NEW S, NEW s \in Seq(S), NEW n \in 0..Len(s), n < Len(s)
    PROVE  SubSeq(s, 1, n + 1) = Append(SubSeq(s, 1, n), s[n + 1])
  <1> DEFINE p == SubSeq(s, 1, n)
             q == SubSeq(s, 1, n + 1)
  <1>1. p \in Seq(S) /\ Len(p) = n /\ \A i \in 1..n : p[i] = s[i]
    OBVIOUS
  <1>2. q \in Seq(S) /\ Len(q) = n + 1 /\ \A i \in 1..n + 1 : q[i] = s[i]
    OBVIOUS
  <1>3. s[n + 1] \in S
    OBVIOUS
  <1> HIDE DEF p, q
  <1>4. Append(p, s[n + 1]) \in Seq(S) /\ Len(Append(p, s[n + 1])) = n + 1
    BY <1>1, <1>3
  <1>5. \A i \in 1..n + 1 : Append(p, s[n + 1])[i] = s[i]
    BY <1>1, <1>3
  <1>6. Append(p, s[n + 1]) = q
    BY <1>2, <1>4, <1>5, SeqEqual
  <1>7. QED
    BY <1>6 DEF p, q

----------------------------------------------------------------------------
(* Text                                                                    *)

TextStep(f, s, n) ==
    IF n = 0 THEN <<>>
    ELSE IF s[n] \in TextUnits THEN Append(f[n - 1], s[n]) ELSE f[n - 1]
IsText(f, s, m) == f = [n \in 0..m |-> TextStep(f, s, n)]

LEMMA TextExists ==
    ASSUME NEW s \in Seq(Units)
    PROVE  \E f : IsText(f, s, Len(s)) /\ Text(s) = f[Len(s)]
  <1> DEFINE G == {m \in 0..Len(s) : \E f : IsText(f, s, m)}
  <1>0. Len(s) \in Nat
    OBVIOUS
  <1>1. 0 \in G
    <2> DEFINE f == [n \in 0..0 |-> <<>>]
    <2>1. IsText(f, s, 0)
      BY DEF IsText, TextStep
    <2>2. QED
      BY <1>0, <2>1
  <1>2. ASSUME NEW m \in 0..Len(s), m < Len(s), m \in G PROVE m + 1 \in G
    <2>1. PICK f : IsText(f, s, m)
      BY <1>2
    <2> DEFINE g == [n \in 0..m + 1 |-> IF n = m + 1 THEN TextStep(f, s, n) ELSE f[n]]
    <2>2. ASSUME NEW n \in 0..m + 1 PROVE g[n] = TextStep(g, s, n)
      <3>1. n # m + 1 => n \in 0..m
        OBVIOUS
      <3>2. g[n] = TextStep(f, s, n)
        BY <2>1, <3>1 DEF IsText
      <3>3. n # 0 => g[n - 1] = f[n - 1]
        OBVIOUS
      <3>4. QED
        BY <3>2, <3>3 DEF TextStep
    <2>3. IsText(g, s, m + 1)
      BY <2>2 DEF IsText
    <2>4. m + 1 \in 0..Len(s)
      BY <1>0, <1>2
    <2>5. QED
      BY <2>3, <2>4
  <1>3. Len(s) \in G
    <2> HIDE DEF G
    <2>1. 0..Len(s) \subseteq G
      BY <1>0, <1>1, <1>2, UpTo
    <2>2. QED
      BY <1>0, <2>1
  <1> DEFINE t == CHOOSE f : IsText(f, s, Len(s))
  <1>4. IsText(t, s, Len(s))
    <2>1. \E f : IsText(f, s, Len(s))
      BY <1>3
    <2>2. QED
      BY <2>1
  <1>5. Text(s) = t[Len(s)]
    BY DEF Text, IsText, TextStep
  <1>6. QED
    BY <1>4, <1>5

LEMMA AppendConcat ==
    ASSUME NEW S, NEW s \in Seq(S), NEW p \in Seq(S), NEW u \in S
    PROVE  s \o Append(p, u) = Append(s \o p, u) /\ s \o p \in Seq(S)
  <1>1. <<u>> \in Seq(S) /\ s \o p \in Seq(S)
    OBVIOUS
  <1>2. Append(p, u) = p \o <<u>> /\ Append(s \o p, u) = (s \o p) \o <<u>>
    BY <1>1, AppendIsConcat
  <1>3. s \o (p \o <<u>>) = (s \o p) \o <<u>>
    BY <1>1, ConcatAssociative
  <1>4. QED
    BY <1>1, <1>2, <1>3

LEMMA TextEmpty == Text(<<>>) = <<>>
  <1>1. <<>> \in Seq(Units) /\ Len(<<>>) = 0
    OBVIOUS
  <1>2. PICK f : IsText(f, <<>>, 0) /\ Text(<<>>) = f[0]
    BY <1>1, TextExists
  <1>3. QED
    BY <1>2 DEF IsText, TextStep

LEMMA TextAppend ==
    ASSUME NEW s \in Seq(Units), NEW u \in Units
    PROVE  Text(Append(s, u)) = IF u \in TextUnits THEN Append(Text(s), u) ELSE Text(s)
  <1> DEFINE t == Append(s, u)
  <1>1. t \in Seq(Units) /\ Len(t) = Len(s) + 1 /\ Len(s) \in Nat
    OBVIOUS
  <1>2. t[Len(s) + 1] = u /\ \A i \in 1..Len(s) : t[i] = s[i]
    OBVIOUS
  <1>3. PICK f : IsText(f, s, Len(s)) /\ Text(s) = f[Len(s)]
    BY TextExists
  <1> HIDE DEF t
  <1>4. PICK g : IsText(g, t, Len(t)) /\ Text(t) = g[Len(t)]
    BY <1>1, TextExists
  <1> DEFINE G == {n \in 0..Len(s) : g[n] = f[n]}
  <1>5. 0 \in G
    BY <1>1, <1>3, <1>4 DEF IsText, TextStep
  <1>6. ASSUME NEW n \in 0..Len(s), n < Len(s), n \in G PROVE n + 1 \in G
    <2>1. n + 1 \in 1..Len(s) /\ n + 1 \in 0..Len(s) /\ n + 1 \in 0..Len(t) /\ (n + 1) - 1 = n
      BY <1>1, <1>6
    <2>2. f[n + 1] = TextStep(f, s, n + 1) /\ g[n + 1] = TextStep(g, t, n + 1)
      BY <1>3, <1>4, <2>1 DEF IsText
    <2>3. g[n] = f[n] /\ t[n + 1] = s[n + 1] /\ n + 1 # 0
      BY <1>2, <1>6, <2>1
    <2>4. TextStep(f, s, n + 1) = TextStep(g, t, n + 1)
      BY <2>1, <2>3 DEF TextStep
    <2>5. QED
      BY <2>1, <2>2, <2>4
  <1>7. g[Len(s)] = f[Len(s)]
    <2> HIDE DEF G
    <2>1. 0..Len(s) \subseteq G
      BY <1>1, <1>5, <1>6, UpTo
    <2>2. QED
      BY <1>1, <2>1 DEF G
  <1>8. g[Len(s) + 1] = TextStep(g, t, Len(s) + 1)
    <2>1. Len(s) + 1 \in 0..Len(t)
      BY <1>1
    <2>2. QED
      BY <1>4, <2>1 DEF IsText
  <1>9. Len(s) + 1 # 0 /\ (Len(s) + 1) - 1 = Len(s)
    BY <1>1
  <1>10. QED
    BY <1>1, <1>2, <1>3, <1>4, <1>7, <1>8, <1>9 DEF TextStep, t

LEMMA TextType ==
    ASSUME NEW s \in Seq(Units)
    PROVE  Text(s) \in Seq(TextUnits)
  <1>0. Len(s) \in Nat
    OBVIOUS
  <1>1. PICK f : IsText(f, s, Len(s)) /\ Text(s) = f[Len(s)]
    BY TextExists
  <1> DEFINE G == {n \in 0..Len(s) : f[n] \in Seq(TextUnits)}
  <1>2. 0 \in G
    <2>1. f[0] = <<>>
      BY <1>0, <1>1 DEF IsText, TextStep
    <2>2. f[0] \in Seq(TextUnits)
      BY <2>1, EmptySeq
    <2>3. QED
      BY <1>0, <2>2
  <1>3. ASSUME NEW n \in 0..Len(s), n < Len(s), n \in G PROVE n + 1 \in G
    <2>1. n + 1 \in 0..Len(s) /\ n + 1 # 0 /\ (n + 1) - 1 = n
      BY <1>0, <1>3
    <2>2. f[n + 1] = TextStep(f, s, n + 1)
      BY <1>1, <2>1 DEF IsText
    <2>3. f[n + 1] = IF s[n + 1] \in TextUnits THEN Append(f[n], s[n + 1]) ELSE f[n]
      BY <2>1, <2>2 DEF TextStep
    <2>4. f[n] \in Seq(TextUnits)
      BY <1>3
    <2>5. f[n + 1] \in Seq(TextUnits)
      BY <2>3, <2>4
    <2>6. QED
      BY <2>1, <2>5
  <1>4. QED
    <2> HIDE DEF G
    <2>1. 0..Len(s) \subseteq G
      BY <1>0, <1>2, <1>3, UpTo
    <2>2. QED
      BY <1>0, <1>1, <2>1 DEF G

LEMMA TextConcat ==
    ASSUME NEW s \in Seq(Units), NEW t \in Seq(Units)
    PROVE  Text(s \o t) = Text(s) \o Text(t)
  <1> DEFINE G == {n \in 0..Len(t) :
                      Text(s \o SubSeq(t, 1, n)) = Text(s) \o Text(SubSeq(t, 1, n))}
  <1>0. Len(t) \in Nat
    OBVIOUS
  <1>1. 0 \in G
    <2>1. SubSeq(t, 1, 0) = <<>> /\ s \o <<>> = s
      BY SubSeqEmpty, ConcatEmptySeq
    <2>2. Text(s) \o <<>> = Text(s)
      BY TextType, ConcatEmptySeq
    <2>3. Text(s \o SubSeq(t, 1, 0)) = Text(s) \o Text(SubSeq(t, 1, 0))
      BY <2>1, <2>2, TextEmpty
    <2>4. QED
      BY <1>0, <2>3
  <1>2. ASSUME NEW n \in 0..Len(t), n < Len(t), n \in G PROVE n + 1 \in G
    <2> DEFINE p == SubSeq(t, 1, n)
               u == t[n + 1]
    <2>1. p \in Seq(Units) /\ u \in Units /\ n + 1 \in 0..Len(t)
      BY <1>0, <1>2
    <2>2. SubSeq(t, 1, n + 1) = Append(p, u)
      BY <1>2, OneMore
    <2>3. Text(s \o p) = Text(s) \o Text(p)
      BY <1>2
    <2> HIDE DEF p, u
    <2>4. s \o Append(p, u) = Append(s \o p, u) /\ s \o p \in Seq(Units)
      BY <2>1, AppendConcat
    <2>5. u \in TextUnits => Append(Text(s) \o Text(p), u) = Text(s) \o Append(Text(p), u)
      <3>1. Text(s) \in Seq(TextUnits) /\ Text(p) \in Seq(TextUnits)
        BY <2>1, TextType
      <3>2. ASSUME u \in TextUnits
            PROVE  Append(Text(s) \o Text(p), u) = Text(s) \o Append(Text(p), u)
        <4> DEFINE a == Text(s)
                   b == Text(p)
        <4>1. a \in Seq(TextUnits) /\ b \in Seq(TextUnits)
          BY <3>1
        <4> HIDE DEF a, b
        <4>2. a \o Append(b, u) = Append(a \o b, u)
          BY <3>2, <4>1, AppendConcat
        <4>3. QED
          BY <4>2 DEF a, b
      <3>3. QED
        BY <3>2
    <2>6. Text(s \o Append(p, u)) = Text(s) \o Text(Append(p, u))
      BY <2>1, <2>3, <2>4, <2>5, TextAppend
    <2>7. QED
      BY <2>1, <2>2, <2>6
  <1>3. SubSeq(t, 1, Len(t)) = t
    BY SubSeqFull
  <1>4. QED
    <2> HIDE DEF G
    <2>1. 0..Len(t) \subseteq G
      BY <1>0, <1>1, <1>2, UpTo
    <2>2. Len(t) \in G
      BY <1>0, <2>1
    <2>3. Text(s \o SubSeq(t, 1, Len(t))) = Text(s) \o Text(SubSeq(t, 1, Len(t)))
      BY <2>2 DEF G
    <2>4. QED
      BY <1>3, <2>3

----------------------------------------------------------------------------
(* The tail                                                                *)

LEMMA PatternLength == Pattern \in Seq(TextUnits) /\ Len(Pattern) \in Nat \ {0}
  BY StreamAssumption, EmptySeq DEF StreamAssumption

LEMMA OverlapBounds == Overlap \in Nat /\ Len(Pattern) - 1 <= Overlap
  BY StreamAssumption DEF StreamAssumption

LEMMA UnitKinds == TextUnits \subseteq Units /\ Mark \in Units /\ Boundary \in Units
  BY DEF Units

(***************************************************************************)
(* Occurs, letter by letter.                                               *)
(***************************************************************************)
AtOffset(t, i) == \A j \in 1..Len(Pattern) : t[i + j] = Pattern[j]

LEMMA OccursAt ==
    ASSUME NEW t \in Seq(TextUnits)
    PROVE  Occurs(Pattern, t) <=> \E i \in 0..Len(t) - Len(Pattern) : AtOffset(t, i)
  <1> SUFFICES ASSUME NEW i \in 0..Len(t) - Len(Pattern)
               PROVE  SubSeq(t, i + 1, i + Len(Pattern)) = Pattern <=> AtOffset(t, i)
    BY DEF Occurs
  <1> DEFINE p == SubSeq(t, i + 1, i + Len(Pattern))
             L == Len(Pattern)
  <1>1. L \in Nat \ {0} /\ Pattern \in Seq(TextUnits) /\ Len(t) \in Nat
    BY PatternLength
  <1>2. i \in Nat /\ i + L <= Len(t)
    BY <1>1
  <1>3. \A k \in i + 1..i + L : k \in 1..Len(t) /\ t[k] \in TextUnits
    BY <1>1, <1>2
  <1> HIDE DEF L
  <1>4. /\ p \in Seq(TextUnits)
        /\ Len(p) = IF i + 1 <= i + L THEN (i + L) - (i + 1) + 1 ELSE 0
        /\ \A j \in 1..(i + L) - (i + 1) + 1 : p[j] = t[(i + 1) + j - 1]
    <2>1. i + 1 \in Int /\ i + L \in Int
      BY <1>1, <1>2
    <2>2. QED
      BY <1>3, <2>1, SubSeqProperties DEF L
  <1>5. Len(p) = L /\ \A j \in 1..L : p[j] = t[i + j]
    <2>1. /\ i + 1 <= i + L /\ (i + L) - (i + 1) + 1 = L
          /\ \A j \in 1..L : (i + 1) + j - 1 = i + j
      BY <1>1, <1>2
    <2>2. QED
      BY <1>4, <2>1
  <1> HIDE DEF p
  <1>6. p = Pattern => AtOffset(t, i)
    BY <1>5 DEF AtOffset, L
  <1>7. AtOffset(t, i) => p = Pattern
    <2> SUFFICES ASSUME AtOffset(t, i) PROVE p = Pattern
      OBVIOUS
    <2>1. \A j \in 1..Len(p) : p[j] = Pattern[j]
      BY <1>5 DEF AtOffset, L
    <2>2. QED
      BY <1>1, <1>4, <1>5, <2>1, SeqEqual DEF L
  <1>8. QED
    BY <1>6, <1>7 DEF p

LEMMA TailForm ==
    ASSUME NEW t \in Seq(TextUnits)
    PROVE  LET tail == LastUnits(t, Overlap)
           IN  /\ tail \in Seq(TextUnits) /\ Len(tail) <= Overlap
               /\ \E pre \in Seq(TextUnits) :
                     /\ t = pre \o tail
                     /\ pre = <<>> \/ Len(tail) = Overlap
  <1>1. Len(t) \in Nat /\ Overlap \in Nat
    BY OverlapBounds
  <1>2. CASE Len(t) > Overlap
    <2> DEFINE n == Len(t) - Overlap
               pre == SubSeq(t, 1, n)
               tail == SubSeq(t, n + 1, Len(t))
    <2>1. n \in 0..Len(t) /\ n \in Nat /\ 1 \in 1..Len(t) + 1 /\ n \in 1 - 1..Len(t)
          /\ Len(t) \in n..Len(t) /\ Len(t) - n = Overlap
      BY <1>1, <1>2
    <2>2. LastUnits(t, Overlap) = tail
      BY <1>2 DEF LastUnits
    <2> HIDE DEF n
    <2>3. tail \in Seq(TextUnits) /\ Len(tail) = Len(t) - n
      BY <1>1, <2>1
    <2>4. pre \in Seq(TextUnits)
      BY <1>1, <2>1
    <2>5. pre \o tail = SubSeq(t, 1, Len(t))
      BY <2>1, ConcatAdjacentSubSeq
    <2>6. SubSeq(t, 1, Len(t)) = t
      BY SubSeqFull
    <2>7. t = pre \o tail /\ Len(tail) = Overlap
      BY <2>1, <2>3, <2>5, <2>6
    <2> HIDE DEF pre, tail
    <2>8. QED
      BY <1>1, <2>2, <2>3, <2>4, <2>7
  <1>3. CASE ~(Len(t) > Overlap)
    <2>1. LastUnits(t, Overlap) = t
      BY <1>3, SubSeqFull DEF LastUnits
    <2>2. <<>> \in Seq(TextUnits) /\ t = <<>> \o t /\ Len(t) <= Overlap
      BY <1>1, <1>3, ConcatEmptySeq
    <2>3. QED
      BY <2>1, <2>2
  <1>4. QED
    BY <1>2, <1>3

(***************************************************************************)
(* What is behind a tail that is long enough decides.                      *)
(***************************************************************************)
LEMMA OccursBehind ==
    ASSUME NEW pre \in Seq(TextUnits), NEW tail \in Seq(TextUnits), NEW t \in Seq(TextUnits),
           pre = <<>> \/ Len(tail) = Overlap, ~Occurs(Pattern, pre \o tail)
    PROVE  Occurs(Pattern, (pre \o tail) \o t) <=> Occurs(Pattern, tail \o t)
  <1> DEFINE l == Len(pre)
             m == Len(tail)
             n == Len(t)
             L == Len(Pattern)
             whole == (pre \o tail) \o t
             part == tail \o t
             first == pre \o tail
  <1>1. l \in Nat /\ m \in Nat /\ n \in Nat /\ L \in Nat \ {0}
    BY PatternLength
  <1>2. /\ first \in Seq(TextUnits) /\ Len(first) = l + m
        /\ part \in Seq(TextUnits) /\ Len(part) = m + n
    OBVIOUS
  <1>3. /\ whole \in Seq(TextUnits) /\ Len(whole) = l + m + n
        /\ whole = pre \o part
    BY <1>2, ConcatAssociative
  <1>4. \A k \in 1..m + n : whole[l + k] = part[k]
    <2> HIDE DEF whole, part
    <2>1. \A k \in 1..m + n :
             /\ l + k \in 1..Len(pre) + Len(part) /\ ~(l + k <= Len(pre))
             /\ (l + k) - Len(pre) = k
      BY <1>1, <1>2
    <2>2. QED
      BY <1>2, <1>3, <2>1, ConcatProperties
  <1>5. \A k \in 1..l + m : whole[k] = first[k]
    BY <1>1, <1>2, ConcatProperties
  <1> HIDE DEF whole, part, first, l, m, n, L
  <1>6. ASSUME NEW i \in 0..(m + n) - L, AtOffset(part, i) PROVE Occurs(Pattern, whole)
    <2>1. l + i \in 0..(l + m + n) - L /\ \A j \in 1..L : i + j \in 1..m + n
      BY <1>1
    <2>2. \A j \in 1..L : l + (i + j) = (l + i) + j
      BY <1>1
    <2>3. AtOffset(whole, l + i)
      BY <1>4, <1>6, <2>1, <2>2 DEF AtOffset, L
    <2>4. QED
      BY <1>3, <2>1, <2>3, OccursAt DEF L
  <1>7. ASSUME NEW i \in 0..(l + m + n) - L, AtOffset(whole, i), i < l PROVE FALSE
    <2>1. m = Overlap /\ L - 1 <= m
      <3>1. l # 0
        BY <1>1, <1>7
      <3>2. QED
        BY <3>1, OverlapBounds DEF l, m, L
    <2>2. i \in 0..(l + m) - L /\ \A j \in 1..L : i + j \in 1..l + m
      BY <1>1, <1>7, <2>1
    <2>3. AtOffset(first, i)
      BY <1>5, <1>7, <2>2 DEF AtOffset, L
    <2>4. Occurs(Pattern, first)
      BY <1>2, <2>2, <2>3, OccursAt DEF L
    <2>5. QED
      BY <2>4 DEF first
  <1>8. ASSUME NEW i \in 0..(l + m + n) - L, AtOffset(whole, i), ~(i < l)
        PROVE  Occurs(Pattern, part)
    <2> DEFINE k == i - l
    <2>1. k \in 0..(m + n) - L /\ \A j \in 1..L : k + j \in 1..m + n /\ l + (k + j) = i + j
      BY <1>1, <1>8
    <2> HIDE DEF k
    <2>2. AtOffset(part, k)
      BY <1>4, <1>8, <2>1 DEF AtOffset, L
    <2>3. QED
      BY <1>2, <2>1, <2>2, OccursAt DEF L
  <1>9. QED
    <2>1. Occurs(Pattern, part) => Occurs(Pattern, whole)
      BY <1>2, <1>6, OccursAt DEF L
    <2>2. Occurs(Pattern, whole) => Occurs(Pattern, part)
      BY <1>3, <1>7, <1>8, OccursAt DEF L
    <2>3. QED
      BY <2>1, <2>2 DEF part, whole

LEMMA TailBehind ==
    ASSUME NEW pre \in Seq(TextUnits), NEW x \in Seq(TextUnits),
           pre = <<>> \/ Len(x) >= Overlap
    PROVE  LastUnits(pre \o x, Overlap) = LastUnits(x, Overlap)
  <1> DEFINE n == Overlap
             y == pre \o x
             l == Len(pre)
             m == Len(x)
  <1>1. l \in Nat /\ m \in Nat /\ n \in Nat /\ y \in Seq(TextUnits) /\ Len(y) = l + m
    BY OverlapBounds
  <1>2. CASE pre = <<>>
    BY <1>2, ConcatEmptySeq
  <1>3. CASE l # 0 /\ m >= n
    <2> DEFINE a == LastUnits(y, n)
               b == LastUnits(x, n)
    <2>1. a = SubSeq(y, (l + m) - n + 1, l + m)
      <3>1. Len(y) > n
        BY <1>1, <1>3
      <3>2. a = SubSeq(y, Len(y) - n + 1, Len(y))
        BY <3>1 DEF LastUnits
      <3>3. QED
        BY <1>1, <3>2
    <2>2. b = SubSeq(x, m - n + 1, m)
      <3>1. CASE m > n
        BY <3>1 DEF LastUnits
      <3>2. CASE ~(m > n)
        <4>1. m - n + 1 = 1
          BY <1>1, <1>3, <3>2
        <4>2. b = SubSeq(x, 1, m)
          BY <3>2 DEF LastUnits
        <4>3. QED
          BY <4>1, <4>2
      <3>3. QED
        BY <3>1, <3>2
    <2>3. a \in Seq(TextUnits) /\ Len(a) = n /\ \A i \in 1..n : a[i] = y[l + ((m - n) + i)]
      BY <1>1, <1>3, <2>1
    <2>4. b \in Seq(TextUnits) /\ Len(b) = n /\ \A i \in 1..n : b[i] = x[(m - n) + i]
      BY <1>1, <1>3, <2>2
    <2>5. \A i \in 1..n : (m - n) + i \in 1..m
      BY <1>1, <1>3
    <2>6. \A k \in 1..m : y[l + k] = x[k]
      <3>1. \A k \in 1..m : l + k \in 1..l + m /\ ~(l + k <= l) /\ (l + k) - l = k
        BY <1>1
      <3>2. QED
        BY <3>1, ConcatProperties
    <2> HIDE DEF a, b, n, m, l, y
    <2>7. a = b
      BY <2>3, <2>4, <2>5, <2>6, SeqEqual
    <2>8. QED
      BY <2>7 DEF a, b, n, y
  <1>4. QED
    <2>1. l = 0 => pre = <<>>
      BY EmptySeq
    <2>2. QED
      BY <1>2, <1>3, <2>1

LEMMA RawConcat ==
    ASSUME NEW s \in Seq(Units), NEW t \in Seq(Units)
    PROVE  RawPasses(s \o t) <=> RawPasses(s) /\ RawPasses(t)
  <1>1. Len(s) \in Nat /\ Len(t) \in Nat /\ Len(s \o t) = Len(s) + Len(t)
    OBVIOUS
  <1>2. \A i \in 1..Len(s) : (s \o t)[i] = s[i] /\ i \in 1..Len(s) + Len(t)
    BY <1>1, ConcatProperties
  <1>3. \A i \in 1..Len(t) : (s \o t)[Len(s) + i] = t[i] /\ Len(s) + i \in 1..Len(s) + Len(t)
    <2>1. \A k \in 1..Len(t) : /\ Len(s) + k \in 1..Len(s) + Len(t)
                               /\ ~(Len(s) + k <= Len(s)) /\ (Len(s) + k) - Len(s) = k
      BY <1>1
    <2>2. QED
      BY <2>1, ConcatProperties
  <1>4. \A i \in 1..Len(s) + Len(t) :
           i \in 1..Len(s) \/ (i - Len(s) \in 1..Len(t) /\ i = Len(s) + (i - Len(s)))
    BY <1>1
  <1>5. QED
    BY <1>1, <1>2, <1>3, <1>4 DEF RawPasses

(***************************************************************************)
(* Screening an event behind the tail of a clean content is screening the  *)
(* whole: it passes exactly if the whole is clean, and leaves the tail of  *)
(* the whole.                                                              *)
(***************************************************************************)
LEMMA TailIsEnough ==
    ASSUME NEW s \in Seq(Units), NEW e \in Seq(Units), Clean(s)
    PROVE  LET probe == LastUnits(Text(s), Overlap) \o Text(e)
           IN  /\ Clean(s \o e) <=> Passes(probe) /\ RawPasses(e)
               /\ LastUnits(probe, Overlap) = LastUnits(Text(s \o e), Overlap)
  <1> DEFINE tail == LastUnits(Text(s), Overlap)
             text == Text(e)
  <1>1. Text(s) \in Seq(TextUnits) /\ text \in Seq(TextUnits)
    BY TextType
  <1>2. Text(s \o e) = Text(s) \o text
    BY TextConcat
  <1>3. tail \in Seq(TextUnits)
    BY <1>1, TailForm
  <1>4. PICK pre \in Seq(TextUnits) : Text(s) = pre \o tail /\ (pre = <<>> \/ Len(tail) = Overlap)
    BY <1>1, TailForm
  <1> HIDE DEF tail, text
  <1>5. ~Occurs(Pattern, pre \o tail)
    BY <1>4 DEF Clean, Passes
  <1>6. Occurs(Pattern, Text(s \o e)) <=> Occurs(Pattern, tail \o text)
    BY <1>1, <1>2, <1>3, <1>4, <1>5, OccursBehind
  <1>7. Clean(s \o e) <=> Passes(tail \o text) /\ RawPasses(e)
    BY <1>6, RawConcat DEF Clean, Passes
  <1>8. LastUnits(tail \o text, Overlap) = LastUnits(Text(s \o e), Overlap)
    <2>1. Text(s \o e) = pre \o (tail \o text)
      <3>1. (pre \o tail) \o text = pre \o (tail \o text)
        BY <1>1, <1>3, <1>4, TextAssociative
      <3>2. QED
        BY <1>2, <1>4, <3>1
    <2>2. tail \o text \in Seq(TextUnits) /\ (pre = <<>> \/ Len(tail \o text) >= Overlap)
      BY <1>1, <1>3, <1>4, OverlapBounds
    <2>3. QED
      BY <2>1, <2>2, TailBehind
  <1>9. QED
    BY <1>7, <1>8 DEF tail, text

----------------------------------------------------------------------------
(* The reader                                                              *)

Tails == {t \in Seq(TextUnits) : Len(t) <= Overlap}
Readers == [pending : Seq(Units), ready : Seq(Units), tail : Tails, done : BOOLEAN,
            verdicts : Seq({"allowed", "guardrail", "overflow"})]

Unbroken(event) == \A i \in 1..Len(event) : event[i] # Boundary
Whole(content) == content = <<>> \/ Last(content) = Boundary

(***************************************************************************)
(* A reader that is at work on a response of which s was read and g given  *)
(* to the agent: what is given or ready is whole events and clean, what is *)
(* read beyond it is one event that is not yet whole.                      *)
(***************************************************************************)
Passed(g, r) == g \o r.ready
Live(g, r, s) ==
    /\ ~r.done /\ r.verdicts = <<>>
    /\ s = Passed(g, r) \o r.pending /\ Unbroken(r.pending)
    /\ Whole(Passed(g, r)) /\ Clean(Passed(g, r))
    /\ r.tail = LastUnits(Text(Passed(g, r)), Overlap)

(***************************************************************************)
(* A reader that has stopped has given what was clean up to an event e     *)
(* that is an offence, up to an event that is too long, or everything.     *)
(***************************************************************************)
Halted(g, r, outcome) ==
    r.done /\ r.pending = <<>> /\ r.verdicts = <<outcome>> /\ Clean(Passed(g, r))
Blocked(g, r, s) ==
    /\ Halted(g, r, "guardrail") /\ Whole(Passed(g, r))
    /\ \E e, f \in Seq(Units) :
          /\ s = Passed(g, r) \o (e \o f)
          /\ ~Clean(Passed(g, r) \o e)
          /\ \A i \in 1..Len(e) - 1 : e[i] # Boundary
Overflown(g, r, s) ==
    /\ Halted(g, r, "overflow") /\ Whole(Passed(g, r))
    /\ \E e \in Seq(Units) :
          s = Passed(g, r) \o e /\ Unbroken(e) /\ Len(e) > MaxPending
Forwarded(g, r, s) == Halted(g, r, "allowed") /\ s = Passed(g, r)

LEMMA TailsForm == \A t \in Seq(TextUnits) : LastUnits(t, Overlap) \in Tails
  BY TailForm DEF Tails

LEMMA PassedType ==
    ASSUME NEW g \in Seq(Units), NEW r \in Readers
    PROVE  /\ r.pending \in Seq(Units) /\ r.ready \in Seq(Units) /\ Passed(g, r) \in Seq(Units)
           /\ r.done \in BOOLEAN /\ r.tail \in Tails
           /\ Len(r.pending) \in Nat /\ Len(r.ready) \in Nat
  <1>1. /\ r.pending \in Seq(Units) /\ r.ready \in Seq(Units)
        /\ r.done \in BOOLEAN /\ r.tail \in Tails
    BY DEF Readers
  <1>2. QED
    BY <1>1 DEF Passed

(***************************************************************************)
(* What a reader holds, in units.                                          *)
(***************************************************************************)
Held(r) == Len(r.ready) + Len(r.pending)

LEMMA ReaderSizes ==
    ASSUME NEW r \in Readers
    PROVE  /\ Held(r) \in Nat /\ Len(r.ready) \in Nat /\ Len(r.pending) \in Nat
           /\ Len(r.ready) <= Held(r) /\ Len(r.pending) <= Held(r)
           /\ Held(r) = Len(r.ready) + Len(r.pending)
  <1> DEFINE a == Len(r.ready)
             b == Len(r.pending)
  <1>1. a \in Nat /\ b \in Nat
    BY PassedType
  <1>2. Held(r) = a + b
    BY DEF Held
  <1> HIDE DEF a, b
  <1>3. a + b \in Nat /\ a <= a + b /\ b <= a + b
    BY <1>1
  <1>4. QED
    BY <1>1, <1>2, <1>3 DEF a, b

(***************************************************************************)
(* An event is passed on, or it is an offence.                             *)
(***************************************************************************)
ScreenPassed(m) == [m EXCEPT !.ready = @ \o m.pending, !.pending = <<>>,
                             !.tail = LastUnits(m.tail \o Text(m.pending), Overlap)]
ScreenCut(m, outcome) == [m EXCEPT !.done = TRUE, !.pending = <<>>, !.verdicts = <<outcome>>]

LEMMA ScreenPassedForm ==
    ASSUME NEW m \in Readers
    PROVE  LET n == ScreenPassed(m)
           IN  /\ n \in Readers
               /\ n.ready = m.ready \o m.pending /\ n.pending = <<>>
               /\ n.tail = LastUnits(m.tail \o Text(m.pending), Overlap)
               /\ n.done = m.done /\ n.verdicts = m.verdicts
  <1>1. m.pending \in Seq(Units) /\ m.ready \in Seq(Units) /\ m.tail \in Seq(TextUnits)
    BY DEF Readers, Tails
  <1>2. m.tail \o Text(m.pending) \in Seq(TextUnits)
    BY <1>1, TextType
  <1>3. LastUnits(m.tail \o Text(m.pending), Overlap) \in Tails
    BY <1>2, TailsForm
  <1>4. m.ready \o m.pending \in Seq(Units) /\ <<>> \in Seq(Units)
    BY <1>1
  <1> DEFINE x == m.ready \o m.pending
             t == LastUnits(m.tail \o Text(m.pending), Overlap)
  <1>5. ScreenPassed(m) = [m EXCEPT !.ready = x, !.pending = <<>>, !.tail = t]
    BY DEF ScreenPassed
  <1>6. x \in Seq(Units) /\ <<>> \in Seq(Units) /\ t \in Tails
    BY <1>3, <1>4
  <1> HIDE DEF x, t
  <1>7. LET n == [m EXCEPT !.ready = x, !.pending = <<>>, !.tail = t]
        IN  /\ n \in Readers /\ n.ready = x /\ n.pending = <<>> /\ n.tail = t
            /\ n.done = m.done /\ n.verdicts = m.verdicts
    BY <1>6 DEF Readers
  <1>8. QED
    BY <1>5, <1>7 DEF x, t

LEMMA ScreenCutForm ==
    ASSUME NEW m \in Readers, NEW outcome \in {"allowed", "guardrail", "overflow"}
    PROVE  LET n == ScreenCut(m, outcome)
           IN  /\ n \in Readers
               /\ n.ready = m.ready /\ n.pending = <<>> /\ n.tail = m.tail
               /\ n.done /\ n.verdicts = <<outcome>>
  <1>1. <<>> \in Seq(Units) /\ <<outcome>> \in Seq({"allowed", "guardrail", "overflow"})
    OBVIOUS
  <1>2. \A y \in Seq(Units), v \in Seq({"allowed", "guardrail", "overflow"}) :
           LET n == [m EXCEPT !.done = TRUE, !.pending = y, !.verdicts = v]
           IN  /\ n \in Readers
               /\ n.ready = m.ready /\ n.pending = y /\ n.tail = m.tail
               /\ n.done /\ n.verdicts = v
    BY DEF Readers
  <1>3. QED
    BY <1>1, <1>2 DEF ScreenCut

LEMMA CutForm ==
    ASSUME NEW m \in Readers, m.verdicts = <<>>, NEW outcome
    PROVE  Cut(m, outcome) = ScreenCut(m, outcome)
  <1> DEFINE n == [m EXCEPT !.done = TRUE, !.pending = <<>>]
  <1>1. n.verdicts = <<>>
    BY DEF Readers
  <1>2. Cut(m, outcome) = [n EXCEPT !.verdicts = <<outcome>>]
    BY <1>1 DEF Cut, Logged
  <1>3. QED
    BY <1>2 DEF ScreenCut, Readers

LEMMA Screened ==
    ASSUME NEW g \in Seq(Units), NEW m \in Readers, m.verdicts = <<>>,
           Clean(Passed(g, m)), m.tail = LastUnits(Text(Passed(g, m)), Overlap)
    PROVE  \/ /\ ScreenEvent(m) = ScreenPassed(m)
              /\ Clean(Passed(g, m) \o m.pending)
              /\ Passed(g, ScreenPassed(m)) = Passed(g, m) \o m.pending
              /\ ScreenPassed(m).tail = LastUnits(Text(Passed(g, ScreenPassed(m))), Overlap)
           \/ /\ ScreenEvent(m) = ScreenCut(m, "guardrail")
              /\ ~Clean(Passed(g, m) \o m.pending)
              /\ Passed(g, ScreenCut(m, "guardrail")) = Passed(g, m)
  <1> DEFINE out == Passed(g, m)
             probe == m.tail \o Text(m.pending)
  <1>1. out \in Seq(Units) /\ m.pending \in Seq(Units) /\ m.ready \in Seq(Units)
    BY PassedType
  <1>2. /\ Clean(out \o m.pending) <=> Passes(probe) /\ RawPasses(m.pending)
        /\ LastUnits(probe, Overlap) = LastUnits(Text(out \o m.pending), Overlap)
    BY <1>1, TailIsEnough
  <1>3. g \o (m.ready \o m.pending) = (g \o m.ready) \o m.pending
    <2> DEFINE x == m.ready
               y == m.pending
    <2>1. x \in Seq(Units) /\ y \in Seq(Units)
      BY <1>1
    <2> HIDE DEF x, y
    <2>2. g \o (x \o y) = (g \o x) \o y
      BY <2>1, UnitsAssociative
    <2>3. QED
      BY <2>2 DEF x, y
  <1>4. CASE Passes(probe) /\ RawPasses(m.pending)
    <2>1. ScreenEvent(m) = ScreenPassed(m)
      BY <1>4 DEF ScreenEvent, ScreenPassed, NextTail
    <2>2. Passed(g, ScreenPassed(m)) = out \o m.pending
      BY <1>3, ScreenPassedForm DEF Passed
    <2>3. ScreenPassed(m).tail = LastUnits(probe, Overlap)
      BY ScreenPassedForm
    <2>4. QED
      BY <1>2, <1>4, <2>1, <2>2, <2>3
  <1>5. CASE ~(Passes(probe) /\ RawPasses(m.pending))
    <2>1. ScreenEvent(m) = ScreenCut(m, "guardrail")
      BY <1>5, CutForm DEF ScreenEvent
    <2>2. Passed(g, ScreenCut(m, "guardrail")) = out
      BY ScreenCutForm DEF Passed
    <2>3. QED
      BY <1>2, <1>5, <2>1, <2>2
  <1>6. QED
    BY <1>4, <1>5

(***************************************************************************)
(* One unit more.                                                          *)
(***************************************************************************)
More(r, u) == [r EXCEPT !.pending = Append(@, u)]

LEMMA MoreForm ==
    ASSUME NEW r \in Readers, NEW u \in Units
    PROVE  LET n == More(r, u)
           IN  /\ n \in Readers /\ n.pending = Append(r.pending, u)
               /\ n.ready = r.ready /\ n.tail = r.tail /\ n.done = r.done
               /\ n.verdicts = r.verdicts
  <1>1. r.pending \in Seq(Units)
    BY DEF Readers
  <1> DEFINE x == Append(r.pending, u)
  <1>2. x \in Seq(Units) /\ More(r, u) = [r EXCEPT !.pending = x]
    BY <1>1 DEF More
  <1> HIDE DEF x
  <1>3. LET n == [r EXCEPT !.pending = x]
        IN  /\ n \in Readers /\ n.pending = x
            /\ n.ready = r.ready /\ n.tail = r.tail /\ n.done = r.done
            /\ n.verdicts = r.verdicts
    BY <1>2 DEF Readers
  <1>4. QED
    BY <1>2, <1>3 DEF x

LEMMA Lengthened ==
    ASSUME NEW x \in Seq(Units), NEW u \in Units
    PROVE  /\ Append(x, u) \in Seq(Units) /\ Len(Append(x, u)) = Len(x) + 1
           /\ Last(Append(x, u)) = u /\ Append(x, u) # <<>>
           /\ \A i \in 1..Len(x) : Append(x, u)[i] = x[i]
  BY AppendProperties DEF Last

LEMMA UnbrokenMore ==
    ASSUME NEW x \in Seq(Units), NEW u \in Units, Unbroken(x)
    PROVE  /\ u # Boundary => Unbroken(Append(x, u))
           /\ \A i \in 1..Len(Append(x, u)) - 1 : Append(x, u)[i] # Boundary
  <1>1. Len(x) \in Nat
    OBVIOUS
  <1>2. Len(Append(x, u)) = Len(x) + 1 /\ \A i \in 1..Len(x) : Append(x, u)[i] = x[i]
    BY Lengthened
  <1>3. Append(x, u)[Len(x) + 1] = u
    BY Lengthened, <1>2 DEF Last
  <1>4. \A i \in 1..Len(x) + 1 : i \in 1..Len(x) \/ i = Len(x) + 1
    BY <1>1
  <1>5. QED
    BY <1>1, <1>2, <1>3, <1>4 DEF Unbroken

LEMMA TakeBlocked ==
    ASSUME NEW g \in Seq(Units), NEW s \in Seq(Units), NEW r \in Readers, NEW u \in Units,
           Blocked(g, r, s)
    PROVE  Take(r, u) = r /\ Blocked(g, r, Append(s, u))
  <1> DEFINE P == Passed(g, r)
  <1>1. Take(r, u) = r
    BY DEF Take, Blocked, Halted
  <1>2. P \in Seq(Units)
    BY PassedType
  <1>3. PICK e \in Seq(Units) :
           \E f \in Seq(Units) :
              /\ s = P \o (e \o f)
              /\ ~Clean(P \o e)
              /\ \A i \in 1..Len(e) - 1 : e[i] # Boundary
    BY DEF Blocked
  <1>4. PICK f \in Seq(Units) :
              /\ s = P \o (e \o f)
              /\ ~Clean(P \o e)
              /\ \A i \in 1..Len(e) - 1 : e[i] # Boundary
    BY <1>3
  <1>5. Append(s, u) = P \o (e \o Append(f, u)) /\ Append(f, u) \in Seq(Units)
    <2> HIDE DEF P
    <2>1. e \o Append(f, u) = Append(e \o f, u) /\ e \o f \in Seq(Units)
      BY AppendConcat
    <2>2. P \o Append(e \o f, u) = Append(P \o (e \o f), u)
      BY <1>2, <2>1, AppendConcat
    <2>3. QED
      BY <1>4, <2>1, <2>2
  <1>6. QED
    BY <1>1, <1>4, <1>5 DEF Blocked

LEMMA TakeLive ==
    ASSUME NEW g \in Seq(Units), NEW s \in Seq(Units), NEW r \in Readers, NEW u \in Units,
           Live(g, r, s)
    PROVE  LET n == Take(r, u)
           IN  /\ n \in Readers
               /\ Live(g, n, Append(s, u)) \/ Blocked(g, n, Append(s, u))
               /\ Held(n) <= Held(r) + 1
  <1> DEFINE P == Passed(g, r)
             m == More(r, u)
             x == Append(r.pending, u)
  <1>1. /\ m \in Readers /\ m.pending = x /\ m.ready = r.ready /\ m.tail = r.tail
        /\ m.done = r.done /\ m.verdicts = r.verdicts
    BY MoreForm
  <1>2. /\ r.pending \in Seq(Units) /\ r.ready \in Seq(Units) /\ P \in Seq(Units)
        /\ Len(r.pending) \in Nat /\ Len(r.ready) \in Nat
    BY PassedType
  <1>3. /\ x \in Seq(Units) /\ Len(x) = Len(r.pending) + 1
        /\ u # Boundary => Unbroken(x)
        /\ \A i \in 1..Len(x) - 1 : x[i] # Boundary
    BY <1>2, Lengthened, UnbrokenMore DEF Live
  <1>4. Passed(g, m) = P
    BY <1>1 DEF Passed
  <1>5. Append(s, u) = P \o x
    <2>1. s = P \o r.pending
      BY DEF Live
    <2> DEFINE y == r.pending
    <2>2. y \in Seq(Units)
      BY <1>2
    <2> HIDE DEF P, y
    <2>3. P \o Append(y, u) = Append(P \o y, u)
      BY <1>2, <2>2, AppendConcat
    <2>4. QED
      BY <2>1, <2>3 DEF y
  <1>6. ~r.done /\ r.verdicts = <<>> /\ Clean(P) /\ Whole(P) /\ r.tail = LastUnits(Text(P), Overlap)
    BY DEF Live
  <1>7. Take(r, u) = IF u = Boundary THEN ScreenEvent(m) ELSE m
    BY <1>6 DEF Take, More
  <1> HIDE DEF m, P, x
  <1>l. /\ Held(r) = Len(r.ready) + Len(r.pending) /\ Len(x) = Len(r.pending) + 1
        /\ Len(r.ready) \in Nat /\ Len(r.pending) \in Nat /\ Held(r) \in Nat
    BY <1>3, ReaderSizes
  <1>m. Len(r.ready) + Len(x) <= Held(r) + 1 /\ Len(r.ready) <= Held(r) + 1
    <2> DEFINE i == Len(r.ready)
               j == Len(r.pending)
               h == Held(r)
               l == Len(x)
    <2>1. h = i + j /\ l = j + 1 /\ i \in Nat /\ j \in Nat
      BY <1>l
    <2> HIDE DEF i, j, h, l
    <2>2. i + l <= h + 1 /\ i <= h + 1
      BY <2>1
    <2>3. QED
      BY <2>2 DEF i, h, l
  <1>8. CASE u # Boundary
    <2>1. Live(g, m, Append(s, u))
      BY <1>1, <1>3, <1>4, <1>5, <1>6, <1>8 DEF Live
    <2>2. Held(m) <= Held(r) + 1
      <3>1. Held(m) = Len(r.ready) + Len(x)
        BY <1>1, ReaderSizes
      <3>2. QED
        BY <1>m, <3>1
    <2>3. QED
      BY <1>1, <1>7, <1>8, <2>1, <2>2
  <1>9. CASE u = Boundary
    <2>1. Take(r, u) = ScreenEvent(m)
      BY <1>7, <1>9
    <2>2. CASE /\ ScreenEvent(m) = ScreenPassed(m)
               /\ Clean(P \o x)
               /\ Passed(g, ScreenPassed(m)) = P \o x
               /\ ScreenPassed(m).tail = LastUnits(Text(Passed(g, ScreenPassed(m))), Overlap)
      <3> DEFINE n == ScreenPassed(m)
      <3>1. /\ n \in Readers /\ n.ready = m.ready \o m.pending /\ n.pending = <<>>
            /\ n.done = m.done /\ n.verdicts = m.verdicts
        BY <1>1, ScreenPassedForm
      <3>2. P \o x \in Seq(Units) /\ (P \o x) \o <<>> = P \o x
        BY <1>2, <1>3, ConcatEmptySeq
      <3>3. Whole(P \o x)
        <4>1. P \o x = Append(s, u)
          BY <1>5
        <4>2. QED
          BY <1>9, <4>1, Lengthened DEF Whole
      <3>4. Unbroken(<<>>)
        BY DEF Unbroken
      <3>5. Held(n) <= Held(r) + 1
        <4>1. m.ready \in Seq(Units) /\ m.pending \in Seq(Units)
          BY <1>1, PassedType
        <4>2. Len(n.ready) = Len(m.ready) + Len(m.pending) /\ Len(n.pending) = 0
          BY <3>1, <4>1
        <4> HIDE DEF n
        <4>3. Held(n) = Len(n.ready) + Len(n.pending) /\ Len(n.ready) \in Nat
          BY <3>1, ReaderSizes
        <4>4. Held(n) = Len(r.ready) + Len(x)
          BY <1>1, <4>2, <4>3
        <4>5. QED
          BY <1>m, <4>4
      <3> HIDE DEF n
      <3>6. Live(g, n, Append(s, u))
        BY <1>1, <1>5, <1>6, <2>2, <3>1, <3>2, <3>3, <3>4 DEF Live, n
      <3>7. QED
        BY <2>1, <2>2, <3>1, <3>5, <3>6 DEF n
    <2>3. CASE /\ ScreenEvent(m) = ScreenCut(m, "guardrail")
               /\ ~Clean(P \o x)
               /\ Passed(g, ScreenCut(m, "guardrail")) = P
      <3> DEFINE n == ScreenCut(m, "guardrail")
      <3>1. /\ n \in Readers /\ n.ready = m.ready /\ n.pending = <<>>
            /\ n.done /\ n.verdicts = <<"guardrail">>
        BY <1>1, ScreenCutForm
      <3>2. <<>> \in Seq(Units) /\ x \o <<>> = x
        BY <1>3, ConcatEmptySeq
      <3>3. Held(n) <= Held(r) + 1
        <4> HIDE DEF n
        <4>1. Len(n.ready) = Len(r.ready) /\ Len(n.pending) = 0
          BY <1>1, <3>1
        <4>2. Held(n) = Len(n.ready) + Len(n.pending) /\ Len(n.ready) \in Nat
          BY <3>1, ReaderSizes
        <4>3. Held(n) = Len(r.ready)
          BY <4>1, <4>2
        <4>4. QED
          BY <1>m, <4>3
      <3> HIDE DEF n
      <3>4. Passed(g, n) = P
        BY <2>3 DEF n
      <3>5. Blocked(g, n, Append(s, u))
        BY <1>3, <1>5, <1>6, <2>3, <3>1, <3>2, <3>4 DEF Blocked, Halted
      <3>6. QED
        BY <2>1, <2>3, <3>1, <3>3, <3>5 DEF n
    <2>4. QED
      BY <1>1, <1>4, <1>6, <2>2, <2>3, Screened
  <1>10. QED
    BY <1>8, <1>9

(***************************************************************************)
(* A chunk is taken unit by unit.                                          *)
(***************************************************************************)
TakenStep(f, r, c, n) == IF n = 0 THEN r ELSE Take(f[n - 1], c[n])
IsTaken(f, r, c, m) == f = [n \in 0..m |-> TakenStep(f, r, c, n)]

LEMMA TakenExists ==
    ASSUME NEW r, NEW c \in Seq(Units)
    PROVE  \E f : IsTaken(f, r, c, Len(c)) /\ Drained(r, c) = Bounded(f[Len(c)])
  <1> DEFINE G == {m \in 0..Len(c) : \E f : IsTaken(f, r, c, m)}
  <1>0. Len(c) \in Nat
    OBVIOUS
  <1>1. 0 \in G
    <2> DEFINE f == [n \in 0..0 |-> r]
    <2>1. IsTaken(f, r, c, 0)
      BY DEF IsTaken, TakenStep
    <2>2. QED
      BY <1>0, <2>1
  <1>2. ASSUME NEW m \in 0..Len(c), m < Len(c), m \in G PROVE m + 1 \in G
    <2>1. PICK f : IsTaken(f, r, c, m)
      BY <1>2
    <2> DEFINE g == [n \in 0..m + 1 |-> IF n = m + 1 THEN TakenStep(f, r, c, n) ELSE f[n]]
    <2>2. ASSUME NEW n \in 0..m + 1 PROVE g[n] = TakenStep(g, r, c, n)
      <3>1. n # m + 1 => n \in 0..m
        OBVIOUS
      <3>2. g[n] = TakenStep(f, r, c, n)
        BY <2>1, <3>1 DEF IsTaken
      <3>3. n # 0 => g[n - 1] = f[n - 1]
        OBVIOUS
      <3>4. QED
        BY <3>2, <3>3 DEF TakenStep
    <2>3. IsTaken(g, r, c, m + 1)
      BY <2>2 DEF IsTaken
    <2>4. m + 1 \in 0..Len(c)
      BY <1>0, <1>2
    <2>5. QED
      BY <2>3, <2>4
  <1>3. Len(c) \in G
    <2> HIDE DEF G
    <2>1. 0..Len(c) \subseteq G
      BY <1>0, <1>1, <1>2, UpTo
    <2>2. QED
      BY <1>0, <2>1
  <1> DEFINE t == CHOOSE f : IsTaken(f, r, c, Len(c))
  <1>4. IsTaken(t, r, c, Len(c))
    <2>1. \E f : IsTaken(f, r, c, Len(c))
      BY <1>3
    <2>2. QED
      BY <2>1
  <1>5. Drained(r, c) = Bounded(t[Len(c)])
    BY DEF Drained, IsTaken, TakenStep
  <1>6. QED
    BY <1>4, <1>5

(***************************************************************************)
(* A reader that was at work is, after a chunk, at work with an event      *)
(* that is not too long, or was stopped by an offence or by its length.    *)
(***************************************************************************)
LEMMA TakenSound ==
    ASSUME NEW g \in Seq(Units), NEW s \in Seq(Units), NEW r \in Readers, Live(g, r, s),
           NEW c \in Seq(Units), NEW f, IsTaken(f, r, c, Len(c))
    PROVE  LET n == f[Len(c)]
           IN  /\ n \in Readers
               /\ Live(g, n, s \o c) \/ Blocked(g, n, s \o c)
               /\ Held(n) <= Held(r) + Len(c)
  <1> DEFINE Good(k) ==
                /\ f[k] \in Readers
                /\ Live(g, f[k], s \o SubSeq(c, 1, k)) \/ Blocked(g, f[k], s \o SubSeq(c, 1, k))
                /\ Held(f[k]) <= Held(r) + k
             G == {k \in 0..Len(c) : Good(k)}
  <1>0. Len(c) \in Nat /\ Held(r) \in Nat
    <2>1. Held(r) \in Nat
      BY ReaderSizes
    <2>2. QED
      BY <2>1
  <1>1. 0 \in G
    <2>1. f[0] = r
      BY <1>0 DEF IsTaken, TakenStep
    <2>2. SubSeq(c, 1, 0) = <<>> /\ s \o <<>> = s
      BY SubSeqEmpty, ConcatEmptySeq
    <2>3. Held(r) <= Held(r) + 0
      BY <1>0
    <2>4. Good(0)
      BY <2>1, <2>2, <2>3
    <2>5. QED
      BY <1>0, <2>4
  <1>2. ASSUME NEW k \in 0..Len(c), k < Len(c), k \in G PROVE k + 1 \in G
    <2> DEFINE p == s \o SubSeq(c, 1, k)
               u == c[k + 1]
               q == f[k]
               n == f[k + 1]
    <2>1. k + 1 \in 0..Len(c) /\ k + 1 # 0 /\ (k + 1) - 1 = k /\ k \in Nat /\ k + 1 \in 1..Len(c)
      BY <1>0, <1>2
    <2>2. n = Take(q, u)
      BY <2>1 DEF IsTaken, TakenStep
    <2>3. /\ q \in Readers /\ (Live(g, q, p) \/ Blocked(g, q, p))
          /\ Held(q) <= Held(r) + k
      BY <1>2
    <2>4. SubSeq(c, 1, k) \in Seq(Units) /\ u \in Units /\ p \in Seq(Units)
      BY <2>1
    <2>5. s \o SubSeq(c, 1, k + 1) = Append(p, u)
      <3>1. SubSeq(c, 1, k + 1) = Append(SubSeq(c, 1, k), u)
        BY <1>2, OneMore
      <3> DEFINE x == SubSeq(c, 1, k)
      <3>2. x \in Seq(Units) /\ u \in Units
        BY <2>4
      <3> HIDE DEF x, u
      <3>3. s \o Append(x, u) = Append(s \o x, u)
        BY <3>2, AppendConcat
      <3>4. QED
        BY <3>1, <3>3 DEF x
    <2> HIDE DEF p, u, q, n
    <2>6. /\ n \in Readers /\ (Live(g, n, Append(p, u)) \/ Blocked(g, n, Append(p, u)))
          /\ Held(n) <= Held(q) + 1
      <3>1. CASE Live(g, q, p)
        BY <2>2, <2>3, <2>4, <3>1, TakeLive
      <3>2. CASE Blocked(g, q, p)
        <4>1. n = q /\ Blocked(g, q, Append(p, u))
          BY <2>2, <2>3, <2>4, <3>2, TakeBlocked
        <4>2. Held(q) <= Held(q) + 1
          <5>1. Held(q) \in Nat
            BY <2>3, ReaderSizes
          <5>2. QED
            BY <5>1
        <4>3. QED
          BY <2>3, <4>1, <4>2
      <3>3. QED
        BY <2>3, <3>1, <3>2
    <2>7. Held(n) <= Held(r) + (k + 1)
      <3>1. Held(n) \in Nat /\ Held(q) \in Nat
        BY <2>3, <2>6, ReaderSizes
      <3>2. QED
        BY <1>0, <2>1, <2>3, <2>6, <3>1
    <2>8. Good(k + 1)
      BY <2>5, <2>6, <2>7 DEF n
    <2>9. QED
      BY <2>1, <2>8
  <1>3. Good(Len(c))
    <2> HIDE DEF G, Good
    <2>1. 0..Len(c) \subseteq G
      BY <1>0, <1>1, <1>2, UpTo
    <2>2. QED
      BY <1>0, <2>1 DEF G
  <1>4. SubSeq(c, 1, Len(c)) = c
    BY SubSeqFull
  <1>5. QED
    BY <1>3, <1>4

LEMMA DrainedSound ==
    ASSUME NEW g \in Seq(Units), NEW s \in Seq(Units), NEW r \in Readers, Live(g, r, s),
           NEW c \in Seq(Units)
    PROVE  LET d == Drained(r, c)
           IN  /\ d \in Readers
               /\ Live(g, d, s \o c) \/ Blocked(g, d, s \o c) \/ Overflown(g, d, s \o c)
               /\ Held(d) <= Held(r) + Len(c)
               /\ Len(d.pending) <= MaxPending
  <1>1. PICK f : IsTaken(f, r, c, Len(c)) /\ Drained(r, c) = Bounded(f[Len(c)])
    BY TakenExists
  <1> DEFINE n == f[Len(c)]
             t == s \o c
  <1>2. /\ n \in Readers /\ (Live(g, n, t) \/ Blocked(g, n, t))
        /\ Held(n) <= Held(r) + Len(c)
    BY <1>1, TakenSound
  <1>3. Drained(r, c) = Bounded(n) /\ MaxPending \in Nat
    BY <1>1, StreamAssumption DEF StreamAssumption
  <1> HIDE DEF n, t
  <1>4. CASE ~n.done /\ Len(n.pending) > MaxPending
    <2> DEFINE d == ScreenCut(n, "overflow")
    <2>1. Live(g, n, t)
      BY <1>2, <1>4 DEF Blocked, Halted
    <2>2. Drained(r, c) = d
      BY <1>2, <1>3, <1>4, <2>1, CutForm DEF Bounded, Live
    <2>3. /\ d \in Readers /\ d.ready = n.ready /\ d.pending = <<>>
          /\ d.done /\ d.verdicts = <<"overflow">>
      BY <1>2, ScreenCutForm
    <2> HIDE DEF d
    <2>4. Passed(g, d) = Passed(g, n) /\ n.pending \in Seq(Units)
      BY <1>2, <2>3, PassedType DEF Passed
    <2>5. Overflown(g, d, t)
      BY <1>4, <2>1, <2>3, <2>4 DEF Overflown, Halted, Live
    <2>6. Len(d.pending) = 0 /\ Held(d) = Len(n.ready)
      <3>1. Len(d.pending) = 0 /\ Len(d.ready) = Len(n.ready)
        BY <2>3
      <3>2. Held(d) = Len(d.ready) + Len(d.pending) /\ Len(d.ready) \in Nat
        BY <2>3, ReaderSizes
      <3>3. QED
        BY <3>1, <3>2
    <2>7. Held(n) \in Nat /\ Len(n.ready) \in Nat /\ Len(n.ready) <= Held(n)
      BY <1>2, ReaderSizes
    <2>8. Held(r) \in Nat /\ Len(c) \in Nat
      <3>1. Held(r) \in Nat
        BY ReaderSizes
      <3>2. QED
        BY <3>1
    <2>9. Held(d) <= Held(r) + Len(c) /\ Len(d.pending) <= MaxPending
      BY <1>2, <1>3, <2>6, <2>7, <2>8
    <2>10. QED
      BY <2>2, <2>3, <2>5, <2>9 DEF t
  <1>5. CASE ~(~n.done /\ Len(n.pending) > MaxPending)
    <2>1. Drained(r, c) = n
      BY <1>3, <1>5 DEF Bounded
    <2>2. Len(n.pending) <= MaxPending
      <3>1. Len(n.pending) \in Nat
        BY <1>2, ReaderSizes
      <3>2. n.done => Len(n.pending) = 0
        BY <1>2 DEF Live, Blocked, Halted
      <3>3. QED
        BY <1>3, <1>5, <3>1, <3>2
    <2>3. QED
      BY <1>2, <2>1, <2>2 DEF t
  <1>6. QED
    BY <1>4, <1>5

(***************************************************************************)
(* At the end of the response the last event is screened, whole or not.    *)
(***************************************************************************)
LEMMA FinishedSound ==
    ASSUME NEW g \in Seq(Units), NEW s \in Seq(Units), NEW r \in Readers,
           Live(g, r, s) \/ Blocked(g, r, s) \/ Overflown(g, r, s)
    PROVE  LET n == Finished(r)
           IN  /\ n \in Readers
               /\ Blocked(g, n, s) \/ Overflown(g, n, s) \/ Forwarded(g, n, s)
               /\ Len(n.ready) <= Held(r)
  <1>s. /\ Len(r.ready) \in Nat /\ Len(r.pending) \in Nat /\ Held(r) \in Nat
        /\ Len(r.ready) <= Held(r) /\ Held(r) = Len(r.ready) + Len(r.pending)
    BY ReaderSizes
  <1>1. CASE r.done
    <2>1. Finished(r) = r
      BY <1>1 DEF Finished
    <2>2. ~Live(g, r, s)
      BY <1>1 DEF Live
    <2>3. Len(r.ready) <= Held(r)
      BY <1>s
    <2>4. QED
      BY <2>1, <2>2, <2>3
  <1>2. CASE ~r.done
    <2> DEFINE P == Passed(g, r)
    <2>1. Live(g, r, s)
      BY <1>2 DEF Blocked, Overflown, Halted
    <2>2. /\ r.verdicts = <<>> /\ Clean(P) /\ Whole(P) /\ r.tail = LastUnits(Text(P), Overlap)
          /\ s = P \o r.pending /\ Unbroken(r.pending)
      BY <2>1 DEF Live
    <2>3. P \in Seq(Units) /\ r.pending \in Seq(Units) /\ r.ready \in Seq(Units)
      BY PassedType
    <2> HIDE DEF P
    <2>4. ASSUME NEW l \in Readers, ~l.done, l.verdicts = <<>>, l.pending = <<>>,
                 Clean(Passed(g, l)), s = Passed(g, l),
                 Len(l.ready) <= Held(r)
          PROVE  LET n == Logged([l EXCEPT !.done = TRUE], "allowed")
                 IN  /\ n \in Readers /\ Forwarded(g, n, s)
                     /\ Len(n.ready) <= Held(r)
      <3> DEFINE n == ScreenCut(l, "allowed")
      <3>1. Logged([l EXCEPT !.done = TRUE], "allowed") = n
        BY <2>4 DEF Logged, ScreenCut, Readers
      <3>2. /\ n \in Readers /\ n.ready = l.ready /\ n.pending = <<>>
            /\ n.done /\ n.verdicts = <<"allowed">>
        BY ScreenCutForm
      <3> HIDE DEF n
      <3>3. Passed(g, n) = Passed(g, l)
        BY <3>2 DEF Passed
      <3>4. QED
        BY <2>4, <3>1, <3>2, <3>3 DEF Forwarded, Halted
    <2>5. CASE r.pending = <<>>
      <3>1. Finished(r) = Logged([r EXCEPT !.done = TRUE], "allowed")
        BY <1>2, <2>5 DEF Finished
      <3>2. s = P
        BY <2>2, <2>3, <2>5, ConcatEmptySeq
      <3>3. Len(r.ready) <= Held(r)
        BY <1>s
      <3>4. QED
        BY <1>2, <2>2, <2>4, <2>5, <3>1, <3>2, <3>3 DEF P
    <2>6. CASE r.pending # <<>>
      <3> DEFINE last == ScreenEvent(r)
      <3>1. Finished(r) = IF last.done THEN last ELSE Logged([last EXCEPT !.done = TRUE], "allowed")
        BY <1>2, <2>6 DEF Finished
      <3>2. CASE /\ ScreenEvent(r) = ScreenPassed(r)
                 /\ Clean(P \o r.pending)
                 /\ Passed(g, ScreenPassed(r)) = P \o r.pending
        <4>1. /\ last \in Readers /\ last.ready = r.ready \o r.pending /\ last.pending = <<>>
              /\ last.done = r.done /\ last.verdicts = r.verdicts
          BY <3>2, ScreenPassedForm
        <4>2. Len(last.ready) = Held(r)
          <5>1. Len(r.ready \o r.pending) = Len(r.ready) + Len(r.pending)
            BY <2>3, ConcatProperties
          <5>2. QED
            BY <1>s, <4>1, <5>1
        <4>3. Len(last.ready) <= Held(r)
          BY <1>s, <4>2
        <4>4. Passed(g, last) = s /\ Clean(Passed(g, last))
          BY <2>2, <3>2
        <4> HIDE DEF last
        <4>5. QED
          BY <1>2, <2>2, <2>4, <3>1, <4>1, <4>3, <4>4
      <3>3. CASE /\ ScreenEvent(r) = ScreenCut(r, "guardrail")
                 /\ ~Clean(P \o r.pending)
                 /\ Passed(g, ScreenCut(r, "guardrail")) = P
        <4>1. /\ last \in Readers /\ last.ready = r.ready /\ last.pending = <<>>
              /\ last.done /\ last.verdicts = <<"guardrail">> /\ Passed(g, last) = P
          BY <3>3, ScreenCutForm
        <4>2. Len(last.ready) <= Held(r)
          BY <1>s, <4>1
        <4>3. <<>> \in Seq(Units) /\ r.pending \o <<>> = r.pending
          BY <2>3, ConcatEmptySeq
        <4>4. \A i \in 1..Len(r.pending) - 1 : i \in 1..Len(r.pending)
          BY <1>s
        <4> HIDE DEF last
        <4>5. Blocked(g, last, s)
          BY <2>2, <2>3, <3>3, <4>1, <4>3, <4>4 DEF Blocked, Halted, Unbroken
        <4>6. QED
          BY <3>1, <4>1, <4>2, <4>5
      <3>4. QED
        BY <2>2, <3>2, <3>3, Screened DEF P
    <2>7. QED
      BY <2>5, <2>6
  <1>3. QED
    BY <1>1, <1>2

----------------------------------------------------------------------------
(* What was passed on is the longest clean part                            *)

LEMMA PrefixSub ==
    ASSUME NEW a \in Seq(Units), NEW b \in Seq(Units)
    PROVE  SubSeq(a \o b, 1, Len(a)) = a /\ IsPrefix(a, a \o b)
  <1> DEFINE c == a \o b
             p == SubSeq(c, 1, Len(a))
  <1>1. c \in Seq(Units) /\ Len(c) = Len(a) + Len(b) /\ Len(a) \in Nat /\ Len(b) \in Nat
    OBVIOUS
  <1>2. \A i \in 1..Len(a) : c[i] = a[i]
    BY <1>1, ConcatProperties
  <1> HIDE DEF c
  <1>3. p \in Seq(Units) /\ Len(p) = Len(a) /\ \A i \in 1..Len(a) : p[i] = c[i]
    BY <1>1
  <1> HIDE DEF p
  <1>4. p = a
    BY <1>2, <1>3, SeqEqual
  <1>5. SubSeq(a, 1, Len(a)) = a /\ Len(a) <= Len(c)
    BY <1>1, SubSeqFull
  <1>6. QED
    BY <1>4, <1>5 DEF p, c, IsPrefix

LEMMA CleanPrefix ==
    ASSUME NEW s \in Seq(Units), NEW t \in Seq(Units), Clean(s \o t)
    PROVE  Clean(s)
  <1> DEFINE a == Text(s)
             b == Text(t)
             c == a \o b
             L == Len(Pattern)
  <1>1. a \in Seq(TextUnits) /\ b \in Seq(TextUnits)
    BY TextType
  <1>2. Text(s \o t) = c
    BY TextConcat
  <1> HIDE DEF a, b
  <1>3. c \in Seq(TextUnits) /\ Len(c) = Len(a) + Len(b) /\ \A i \in 1..Len(a) : c[i] = a[i]
    <2>1. Len(a) \in Nat /\ Len(b) \in Nat
      BY <1>1
    <2>2. QED
      BY <1>1, <2>1, ConcatProperties
  <1>4. Len(a) \in Nat /\ Len(b) \in Nat /\ L \in Nat \ {0}
    BY <1>1, PatternLength
  <1> HIDE DEF c, L
  <1>5. ASSUME NEW i \in 0..Len(a) - L, AtOffset(a, i) PROVE Occurs(Pattern, c)
    <2>1. i \in 0..Len(c) - L /\ \A j \in 1..L : i + j \in 1..Len(a)
      BY <1>3, <1>4
    <2>2. AtOffset(c, i)
      BY <1>3, <1>5, <2>1 DEF AtOffset, L
    <2>3. QED
      BY <1>3, <2>1, <2>2, OccursAt DEF L
  <1>6. ~Occurs(Pattern, a)
    BY <1>1, <1>2, <1>5, OccursAt DEF Clean, Passes, L
  <1>7. QED
    BY <1>6, RawConcat DEF a, Clean, Passes

LEMMA Longest ==
    ASSUME NEW out \in Seq(Units), NEW rest \in Seq(Units), NEW s, s = out \o rest,
           Whole(out), Clean(out),
           \A i \in Len(out) + 1..Len(s) : s[i] = Boundary => ~Clean(SubSeq(s, 1, i))
    PROVE  LongestClean(s) = out
  <1> DEFINE W == WholeEvents(s)
             Best(p) == Clean(p) /\ \A q \in W : Clean(q) => Len(q) <= Len(p)
  <1>1. /\ s \in Seq(Units) /\ Len(s) = Len(out) + Len(rest) /\ Len(out) \in Nat
        /\ Len(rest) \in Nat /\ Len(s) \in Nat
    OBVIOUS
  <1>2. SubSeq(s, 1, Len(out)) = out
    BY PrefixSub
  <1>3. out \in W
    <2>1. CASE out = <<>>
      BY <2>1 DEF WholeEvents
    <2>2. CASE out # <<>>
      <3>1. out[Len(out)] = Boundary /\ Len(out) # 0
        BY <2>2, EmptySeq DEF Whole, Last
      <3>2. Len(out) \in 1..Len(s) /\ Len(out) \in 1..Len(out)
        BY <1>1, <3>1
      <3>3. s[Len(out)] = out[Len(out)]
        BY <1>1, <3>2, ConcatProperties
      <3>4. QED
        BY <1>2, <3>1, <3>2, <3>3 DEF WholeEvents
    <2>3. QED
      BY <2>1, <2>2
  <1>4. ASSUME NEW p \in W
        PROVE  /\ Len(p) \in Nat /\ p = SubSeq(s, 1, Len(p)) 
               /\ Len(p) > Len(out) => ~Clean(p)
    <2>1. CASE p = <<>>
      <3>1. Len(p) = 0 /\ SubSeq(s, 1, 0) = <<>>
        BY <2>1, SubSeqEmpty
      <3>2. QED
        BY <1>1, <2>1, <3>1
    <2>2. CASE \E i \in 1..Len(s) : s[i] = Boundary /\ p = SubSeq(s, 1, i)
      <3>1. PICK i \in 1..Len(s) : s[i] = Boundary /\ p = SubSeq(s, 1, i)
        BY <2>2
      <3>2. Len(p) = i
        BY <1>1, <3>1
      <3>3. i > Len(out) => i \in Len(out) + 1..Len(s)
        BY <1>1
      <3>4. QED
        BY <3>1, <3>2, <3>3
    <2>3. QED
      BY <2>1, <2>2 DEF WholeEvents
  <1> HIDE DEF W
  <1>5. Best(out)
    BY <1>1, <1>4
  <1> DEFINE c == CHOOSE p \in W : Best(p)
  <1>6. c \in W /\ Best(c)
    BY <1>3, <1>5
  <1>7. LongestClean(s) = c
    BY DEF LongestClean, W
  <1> HIDE DEF c
  <1>8. Len(c) = Len(out)
    BY <1>1, <1>3, <1>4, <1>5, <1>6
  <1>9. QED
    BY <1>2, <1>4, <1>6, <1>7, <1>8

LEMMA BlockedLongest ==
    ASSUME NEW g \in Seq(Units), NEW r \in Readers, NEW s, Blocked(g, r, s)
    PROVE  LongestClean(s) = Passed(g, r) /\ ~Clean(s)
  <1> DEFINE P == Passed(g, r)
  <1>1. P \in Seq(Units)
    BY PassedType
  <1>2. PICK e \in Seq(Units) :
           \E f \in Seq(Units) :
              s = P \o (e \o f) /\ ~Clean(P \o e) /\ \A i \in 1..Len(e) - 1 : e[i] # Boundary
    BY DEF Blocked
  <1>3. PICK f \in Seq(Units) :
              s = P \o (e \o f) /\ ~Clean(P \o e) /\ \A i \in 1..Len(e) - 1 : e[i] # Boundary
    BY <1>2
  <1>4. Whole(P) /\ Clean(P)
    BY DEF Blocked, Halted
  <1> HIDE DEF P
  <1> DEFINE h == P \o e
  <1>5. /\ h \in Seq(Units) /\ e \o f \in Seq(Units) /\ s = h \o f
        /\ s \in Seq(Units)
    <2>1. P \o (e \o f) = (P \o e) \o f
      BY <1>1, <1>3, UnitsAssociative
    <2>2. QED
      BY <1>1, <1>3, <2>1
  <1>6. /\ Len(P) \in Nat /\ Len(e) \in Nat /\ Len(f) \in Nat
        /\ Len(h) = Len(P) + Len(e) /\ Len(s) = Len(P) + Len(e) + Len(f)
    BY <1>1, <1>5
  <1>7. ~Clean(s)
    BY <1>3, <1>5, CleanPrefix
  <1>8. ASSUME NEW i \in Len(P) + 1..Len(s), s[i] = Boundary PROVE ~Clean(SubSeq(s, 1, i))
    <2>1. i \in 1..Len(s) /\ i - Len(P) \in 1..Len(e) + Len(f)
      BY <1>6
    <2>2. ASSUME i < Len(h) PROVE FALSE
      <3>1. i - Len(P) \in 1..Len(e) - 1 /\ i \in 1..Len(h) /\ ~(i <= Len(P))
        BY <1>6, <2>1, <2>2
      <3>2. s[i] = h[i]
        BY <1>5, <1>6, <3>1, ConcatProperties
      <3>3. h[i] = e[i - Len(P)]
        BY <1>1, <1>6, <3>1, ConcatProperties
      <3>4. QED
        BY <1>3, <1>8, <3>1, <3>2, <3>3
    <2> DEFINE k == Len(h)
               x == SubSeq(s, k + 1, i)
    <2>3. /\ 1 \in 1..Len(s) + 1 /\ k \in 1 - 1..Len(s) /\ i \in k..Len(s) /\ k \in Nat
      BY <1>6, <2>1, <2>2
    <2>4. SubSeq(s, 1, k) \o x = SubSeq(s, 1, i)
      BY <1>5, <2>3, ConcatAdjacentSubSeq
    <2>5. SubSeq(s, 1, k) = h
      BY <1>5, PrefixSub
    <2>6. x \in Seq(Units)
      BY <1>5, <1>6, <2>3
    <2> HIDE DEF x, h, k
    <2>7. ~Clean(h)
      BY <1>3 DEF h
    <2>8. h \in Seq(Units)
      BY <1>5
    <2>9. QED
      BY <2>4, <2>5, <2>6, <2>7, <2>8, CleanPrefix
  <1>9. LongestClean(s) = P
    BY <1>1, <1>3, <1>4, <1>5, <1>8, Longest
  <1>10. QED
    BY <1>7, <1>9 DEF P

LEMMA OverflownLongest ==
    ASSUME NEW g \in Seq(Units), NEW r \in Readers, NEW s, Overflown(g, r, s)
    PROVE  LongestClean(s) = Passed(g, r) /\ Len(s) - Len(Passed(g, r)) > MaxPending
  <1> DEFINE P == Passed(g, r)
  <1>1. P \in Seq(Units) /\ MaxPending \in Nat
    BY PassedType, StreamAssumption DEF StreamAssumption
  <1>2. PICK e \in Seq(Units) : s = P \o e /\ Unbroken(e) /\ Len(e) > MaxPending
    BY DEF Overflown
  <1>3. Whole(P) /\ Clean(P)
    BY DEF Overflown, Halted
  <1> HIDE DEF P
  <1>4. Len(P) \in Nat /\ Len(e) \in Nat /\ Len(s) = Len(P) + Len(e)
    BY <1>1, <1>2
  <1>5. ASSUME NEW i \in Len(P) + 1..Len(s) PROVE s[i] # Boundary
    <2>1. i \in 1..Len(P) + Len(e) /\ ~(i <= Len(P)) /\ i - Len(P) \in 1..Len(e)
      BY <1>4
    <2>2. s[i] = e[i - Len(P)]
      BY <1>1, <1>2, <2>1, ConcatProperties
    <2>3. QED
      BY <1>2, <2>1, <2>2 DEF Unbroken
  <1>6. LongestClean(s) = P
    BY <1>1, <1>2, <1>3, <1>5, Longest
  <1>7. Len(s) - Len(P) > MaxPending
    BY <1>1, <1>2, <1>4
  <1>8. QED
    BY <1>6, <1>7 DEF P

----------------------------------------------------------------------------
(* The invariant                                                           *)

(***************************************************************************)
(* The reader is at work or has stopped for one of the three reasons, and  *)
(* holds no more than it may.                                              *)
(***************************************************************************)
SoundReader(g, r, s) ==
    \/ Live(g, r, s) \/ Blocked(g, r, s) \/ Overflown(g, r, s) \/ Forwarded(g, r, s)
Bounds ==
    Len(pending) <= MaxPending /\ Len(ready) <= MaxPending + MaxChunk
Ends ==
    /\ end \in {"open", "eof", "error", "closed"}
    /\ end = "eof" => done /\ ready = <<>>

SInv ==
    /\ got \in Seq(Units) /\ sent \in Seq(Units) /\ Reader \in Readers
    /\ SoundReader(got, Reader, sent)
    /\ Bounds /\ Ends

LEMMA ReaderFields ==
    /\ Reader.pending = pending /\ Reader.ready = ready /\ Reader.tail = textTail
    /\ Reader.done = done /\ Reader.verdicts = verdicts
  BY DEF Reader

LEMMA BecomeReader ==
    ASSUME NEW d \in Readers, Become(d)
    PROVE  Reader' = d
  BY DEF Become, Reader, Readers

LEMMA Sizes ==
    ASSUME NEW d \in Readers
    PROVE  Become(d) => pending' = d.pending /\ ready' = d.ready
  BY DEF Become

LEMMA Numbers == MaxPending \in Nat /\ MaxChunk \in Nat
  BY StreamAssumption DEF StreamAssumption

LEMMA ChunkForm ==
    ASSUME NEW c \in Chunks
    PROVE  c \in Seq(Units) /\ Len(c) <= MaxChunk /\ Len(c) \in Nat
  <1>1. c \in UNION {[1..m -> Units] : m \in 0..MaxChunk}
    BY DEF Chunks, BoundedSeq, SeqOf
  <1>2. PICK m \in 0..MaxChunk : c \in [1..m -> Units]
    BY <1>1
  <1>3. m \in Nat /\ m <= MaxChunk
    BY <1>2, Numbers
  <1>4. c \in Seq(Units) /\ Len(c) = m
    BY <1>2, <1>3
  <1>5. QED
    BY <1>3, <1>4

(***************************************************************************)
(* A read, with or without the end of the response.                        *)
(***************************************************************************)
LEMMA ReadKeeps ==
    ASSUME SInv, Reading, NEW c \in Chunks, sent' = sent \o c, got' = got,
           NEW d, d = Drained(Reader, c) \/ d = Finished(Drained(Reader, c)), Become(d)
    PROVE  /\ got' \in Seq(Units) /\ sent' \in Seq(Units) /\ Reader' \in Readers
           /\ SoundReader(got', Reader', sent') /\ Bounds'
  <1> DEFINE r == Reader
             n == Drained(Reader, c)
  <1>1. c \in Seq(Units) /\ Len(c) <= MaxChunk /\ Len(c) \in Nat
    BY ChunkForm
  <1>2. /\ got \in Seq(Units) /\ sent \in Seq(Units) /\ r \in Readers
        /\ SoundReader(got, r, sent)
    BY DEF SInv
  <1>3. Live(got, r, sent)
    BY <1>2, ReaderFields DEF SoundReader, Blocked, Overflown, Forwarded, Halted, Reading
  <1>4. Held(r) <= MaxPending
    <2>1. Held(r) = Len(r.ready) + Len(r.pending)
      BY <1>2, ReaderSizes
    <2>2. Len(r.ready) = 0
      BY ReaderFields DEF Reading
    <2>3. Len(r.pending) <= MaxPending /\ Len(r.pending) \in Nat
      BY <1>2, ReaderFields, ReaderSizes DEF SInv, Bounds
    <2>4. QED
      BY <2>1, <2>2, <2>3
  <1>5. /\ n \in Readers
        /\ Live(got, n, sent \o c) \/ Blocked(got, n, sent \o c) \/ Overflown(got, n, sent \o c)
        /\ Held(n) <= Held(r) + Len(c) /\ Len(n.pending) <= MaxPending
    BY <1>1, <1>2, <1>3, DrainedSound
  <1> HIDE DEF r, n
  <1>6. Held(n) <= MaxPending + MaxChunk /\ Held(n) \in Nat
    <2>1. Held(r) \in Nat /\ Held(n) \in Nat
      BY <1>2, <1>5, ReaderSizes
    <2>2. QED
      BY <1>1, <1>4, <1>5, <2>1, Numbers
  <1>7. sent \o c \in Seq(Units)
    BY <1>1, <1>2
  <1>8. /\ d \in Readers /\ SoundReader(got, d, sent \o c)
        /\ Len(d.ready) <= Held(n) /\ Len(d.pending) <= MaxPending
    <2>1. CASE d = n
      BY <1>5, <2>1, ReaderSizes DEF SoundReader
    <2>2. CASE d = Finished(n)
      <3>1. /\ d \in Readers
            /\ Blocked(got, d, sent \o c) \/ Overflown(got, d, sent \o c)
                  \/ Forwarded(got, d, sent \o c)
            /\ Len(d.ready) <= Held(n)
        BY <1>2, <1>5, <1>7, <2>2, FinishedSound
      <3>2. Len(d.pending) = 0
        BY <3>1 DEF Blocked, Overflown, Forwarded, Halted
      <3>3. QED
        BY <3>1, <3>2, Numbers DEF SoundReader
    <2>3. QED
      BY <2>1, <2>2 DEF n
  <1>9. Reader' = d /\ pending' = d.pending /\ ready' = d.ready
    BY <1>8, BecomeReader, Sizes
  <1>10. Bounds'
    <2>1. Len(d.ready) \in Nat
      BY <1>8, ReaderSizes
    <2>2. Len(d.ready) <= MaxPending + MaxChunk
      BY <1>6, <1>8, <2>1, Numbers
    <2>3. QED
      BY <1>8, <1>9, <2>2 DEF Bounds
  <1>11. QED
    BY <1>2, <1>7, <1>8, <1>9, <1>10

LEMMA InitSInv == Init => SInv
  <1> SUFFICES ASSUME Init PROVE SInv
    OBVIOUS
  <1>1. <<>> \in Seq(Units) /\ <<>> \in Tails
    BY OverlapBounds DEF Tails
  <1>2. <<>> \in Seq({"allowed", "guardrail", "overflow"})
    OBVIOUS
  <1>3. Reader \in Readers
    BY <1>1, <1>2 DEF Init, Reader, Readers
  <1>4. Passed(got, Reader) = <<>>
    BY ReaderFields, ConcatEmptySeq, <1>1 DEF Init, Passed
  <1>5. Clean(<<>>)
    <2>1. ~Occurs(Pattern, <<>>)
      BY PatternLength DEF Occurs
    <2>2. QED
      BY <2>1, TextEmpty DEF Clean, Passes, RawPasses
  <1>6. LastUnits(<<>>, Overlap) = <<>>
    <2>1. ~(Len(<<>>) > Overlap) /\ Len(<<>>) = 0
      BY OverlapBounds
    <2>2. QED
      BY <2>1, SubSeqEmpty DEF LastUnits
  <1>7. sent = Passed(got, Reader) \o <<>>
    BY <1>1, <1>4, ConcatEmptySeq DEF Init
  <1>8. Live(got, Reader, sent)
    BY <1>4, <1>5, <1>6, <1>7, ReaderFields, TextEmpty DEF Init, Live, Whole, Unbroken
  <1>9. Bounds /\ Ends
    BY Numbers DEF Init, Bounds, Ends
  <1>10. QED
    BY <1>1, <1>3, <1>8, <1>9 DEF SInv, SoundReader, Init

(***************************************************************************)
(* What is delivered goes from the one side of what was passed on to the   *)
(* other.                                                                  *)
(***************************************************************************)
LEMMA DeliverKeeps ==
    ASSUME SInv, Deliver
    PROVE  SInv' /\ Passed(got', Reader') = Passed(got, Reader) /\ IsPrefix(got, got')
  <1>1. /\ got \in Seq(Units) /\ sent \in Seq(Units) /\ Reader \in Readers
        /\ SoundReader(got, Reader, sent) /\ Bounds /\ Ends
    BY DEF SInv
  <1>2. /\ pending' = pending /\ textTail' = textTail /\ done' = done /\ verdicts' = verdicts
        /\ end' = end /\ sent' = sent /\ end = "open"
    BY DEF Deliver
  <1>3. PICK n \in 1..Len(ready) : /\ got' = got \o SubSeq(ready, 1, n)
                                   /\ ready' = SubSeq(ready, n + 1, Len(ready))
    BY DEF Deliver
  <1>4. ready \in Seq(Units) /\ Len(ready) \in Nat
    BY <1>1, ReaderFields, PassedType
  <1> DEFINE a == SubSeq(ready, 1, n)
             b == SubSeq(ready, n + 1, Len(ready))
  <1>5. a \in Seq(Units) /\ b \in Seq(Units) /\ Len(b) <= Len(ready)
    BY <1>4
  <1>6. a \o b = ready
    <2>1. /\ 1 \in 1..Len(ready) + 1 /\ n \in 1 - 1..Len(ready) /\ Len(ready) \in n..Len(ready)
      BY <1>4
    <2>2. SubSeq(ready, 1, n) \o SubSeq(ready, n + 1, Len(ready)) = SubSeq(ready, 1, Len(ready))
      BY <1>4, <2>1, ConcatAdjacentSubSeq
    <2>3. QED
      BY <1>4, <2>2, SubSeqFull
  <1>7. got' = got \o a /\ ready' = b
    BY <1>3
  <1> HIDE DEF a, b
  <1>8. (got \o a) \o b = got \o ready /\ got \o a \in Seq(Units)
    <2>1. got \o (a \o b) = (got \o a) \o b
      BY <1>1, <1>5, UnitsAssociative
    <2>2. QED
      BY <1>1, <1>5, <1>6, <2>1
  <1> DEFINE q == [Reader EXCEPT !.ready = b]
  <1>9. q \in Readers /\ q.ready = b /\ q.pending = pending /\ q.tail = textTail
        /\ q.done = done /\ q.verdicts = verdicts
    BY <1>1, <1>5, ReaderFields DEF Readers
  <1>10. Reader' = q
    BY <1>2, <1>7 DEF Reader
  <1> HIDE DEF q
  <1>11. Passed(got', q) = Passed(got, Reader)
    BY <1>7, <1>8, <1>9, ReaderFields DEF Passed
  <1>12. SoundReader(got', q, sent)
    <2>1. CASE Live(got, Reader, sent)
      BY <1>9, <1>11, <2>1, ReaderFields DEF SoundReader, Live
    <2>2. CASE Blocked(got, Reader, sent)
      BY <1>9, <1>11, <2>2, ReaderFields DEF SoundReader, Blocked, Halted
    <2>3. CASE Overflown(got, Reader, sent)
      BY <1>9, <1>11, <2>3, ReaderFields DEF SoundReader, Overflown, Halted
    <2>4. CASE Forwarded(got, Reader, sent)
      BY <1>9, <1>11, <2>4, ReaderFields DEF SoundReader, Forwarded, Halted
    <2>5. QED
      BY <1>1, <2>1, <2>2, <2>3, <2>4 DEF SoundReader
  <1>13. Bounds' /\ Ends'
    <2>1. Len(b) \in Nat
      BY <1>5
    <2>2. Len(b) <= MaxPending + MaxChunk
      BY <1>1, <1>4, <1>5, <2>1, Numbers DEF Bounds
    <2>3. QED
      BY <1>1, <1>2, <1>7, <2>2 DEF Bounds, Ends
  <1>14. IsPrefix(got, got')
    BY <1>1, <1>5, <1>7, PrefixSub
  <1>15. QED
    BY <1>1, <1>2, <1>7, <1>8, <1>9, <1>10, <1>11, <1>12, <1>13, <1>14 DEF SInv

LEMMA SInvStep ==
    ASSUME SInv, [Next]_vars
    PROVE  SInv'
  <1>1. CASE UNCHANGED vars
    <2>1. Reader' = Reader
      BY <1>1 DEF vars, Reader
    <2>2. QED
      BY <1>1, <2>1 DEF vars, SInv, Bounds, Ends
  <1>2. CASE Read
    <2>1. PICK c \in Chunks : Become(Drained(Reader, c)) /\ sent' = sent \o c
      BY <1>2 DEF Read
    <2>2. Reading /\ got' = got /\ end' = end
      BY <1>2 DEF Read
    <2>3. Ends'
      BY <2>2 DEF Reading, Ends
    <2>4. QED
      BY <2>1, <2>2, <2>3, ReadKeeps DEF SInv
  <1>3. CASE ReadLast
    <2>1. PICK c \in Chunks : Become(Finished(Drained(Reader, c))) /\ sent' = sent \o c
      BY <1>3 DEF ReadLast
    <2>2. Reading /\ got' = got /\ end' = end
      BY <1>3 DEF ReadLast
    <2>3. Ends'
      BY <2>2 DEF Reading, Ends
    <2>4. QED
      BY <2>1, <2>2, <2>3, ReadKeeps DEF SInv
  <1>4. CASE ReadError
    <2>1. PICK c \in Chunks : Become(Drained(Reader, c)) /\ sent' = sent \o c
      BY <1>4 DEF ReadError
    <2>2. Reading /\ got' = got /\ end' = "error"
      BY <1>4 DEF ReadError
    <2>3. Ends'
      BY <2>2 DEF Ends
    <2>4. QED
      BY <2>1, <2>2, <2>3, ReadKeeps DEF SInv
  <1>5. CASE Deliver
    BY <1>5, DeliverKeeps
  <1>6. CASE EndOfStream \/ Close
    <2>1. /\ UNCHANGED <<pending, ready, textTail, done, verdicts, sent, got>>
          /\ (end' = "eof" /\ done /\ ready = <<>>) \/ end' = "closed"
      BY <1>6 DEF EndOfStream, Close
    <2>2. Reader' = Reader
      BY <2>1 DEF Reader
    <2>3. Ends'
      BY <2>1 DEF Ends
    <2>4. QED
      BY <2>1, <2>2, <2>3 DEF SInv, Bounds
  <1>7. QED
    BY <1>1, <1>2, <1>3, <1>4, <1>5, <1>6 DEF Next

(***************************************************************************)
(* The invariant is one: the reader is sound at every step.                *)
(***************************************************************************)
THEOREM SInvHolds == Spec => []SInv
  BY InitSInv, SInvStep, PTL DEF Spec

----------------------------------------------------------------------------
(* The properties of Stream                                                *)

(***************************************************************************)
(* Types, and what the reader holds: an upstream without boundaries cannot *)
(* grow the buffer beyond maxPendingBytes, for any bounds and chunks.      *)
(***************************************************************************)
THEOREM TypesHold == Spec => []StreamTypeOK
  <1>1. SInv => StreamTypeOK
    <2> SUFFICES ASSUME SInv PROVE StreamTypeOK
      OBVIOUS
    <2>1. Reader \in Readers /\ Bounds /\ Ends /\ sent \in Seq(Units) /\ got \in Seq(Units)
      BY DEF SInv
    <2>2. /\ pending \in Seq(Units) /\ ready \in Seq(Units) /\ textTail \in Tails
          /\ done \in BOOLEAN /\ verdicts \in Seq({"allowed", "guardrail", "overflow"})
      BY <2>1, ReaderFields DEF Readers
    <2>3. QED
      BY <2>1, <2>2 DEF StreamTypeOK, Bounds, Ends, Tails
  <1>2. QED
    BY <1>1, SInvHolds, PTL

(***************************************************************************)
(* A stream that ended by itself has one verdict, and the verdict is true  *)
(* of the strings of its events, all of them one after the other: what was *)
(* forwarded is all of it and clean, and what was cut was given up to the  *)
(* last event before the offence, no less.                                 *)
(***************************************************************************)
THEOREM VerdictHolds == Spec => []VerdictTrue
  <1>1. SInv => VerdictTrue
    <2> SUFFICES ASSUME SInv, end = "eof" PROVE VerdictTrue
      BY DEF VerdictTrue
    <2>1. done /\ ready = <<>> /\ got \in Seq(Units) /\ Reader \in Readers
      BY DEF SInv, Ends
    <2>2. Passed(got, Reader) = got
      BY <2>1, ReaderFields, ConcatEmptySeq DEF Passed
    <2>3. \A v : Len(<<v>>) = 1 /\ Last(<<v>>) = v
      BY DEF Last
    <2>4. CASE Blocked(got, Reader, sent)
      <3>1. verdicts = <<"guardrail">>
        BY <2>4, ReaderFields DEF Blocked, Halted
      <3>2. ~Clean(sent) /\ got = LongestClean(sent)
        BY <2>1, <2>2, <2>4, BlockedLongest
      <3>3. QED
        BY <2>3, <3>1, <3>2 DEF VerdictTrue
    <2>5. CASE Overflown(got, Reader, sent)
      <3>1. verdicts = <<"overflow">>
        BY <2>5, ReaderFields DEF Overflown, Halted
      <3>2. got = LongestClean(sent) /\ Len(sent) - Len(got) > MaxPending
        BY <2>1, <2>2, <2>5, OverflownLongest
      <3>3. QED
        BY <2>3, <3>1, <3>2 DEF VerdictTrue
    <2>6. CASE Forwarded(got, Reader, sent)
      <3>1. verdicts = <<"allowed">> /\ got = sent /\ Clean(sent)
        BY <2>2, <2>6, ReaderFields DEF Forwarded, Halted
      <3>2. QED
        BY <2>3, <3>1 DEF VerdictTrue
    <2>7. ~Live(got, Reader, sent)
      BY <2>1, ReaderFields DEF Live
    <2>8. QED
      BY <2>4, <2>5, <2>6, <2>7 DEF SInv, SoundReader
  <1>2. QED
    BY <1>1, SInvHolds, PTL

(***************************************************************************)
(* What the agent has is a clean prefix of what the upstream sent.         *)
(***************************************************************************)
LEMMA GivenClean ==
    ASSUME NEW g \in Seq(Units), NEW r \in Readers, NEW s, SoundReader(g, r, s)
    PROVE  Clean(g) /\ IsPrefix(g, s)
  <1> DEFINE P == Passed(g, r)
             x == r.ready
  <1>2. P \in Seq(Units) /\ x \in Seq(Units) /\ P = g \o x
    BY PassedType DEF Passed
  <1>3. Clean(P)
    BY DEF SoundReader, Live, Blocked, Overflown, Forwarded, Halted
  <1>4. \E y \in Seq(Units) : s = P \o y
    <2>1. CASE Live(g, r, s)
      BY <2>1, PassedType DEF Live
    <2>2. CASE Blocked(g, r, s)
      <3>1. PICK e \in Seq(Units) : \E f \in Seq(Units) : s = P \o (e \o f)
        BY <2>2 DEF Blocked
      <3>2. PICK f \in Seq(Units) : s = P \o (e \o f)
        BY <3>1
      <3>3. e \o f \in Seq(Units)
        OBVIOUS
      <3>4. QED
        BY <3>2, <3>3
    <2>3. CASE Overflown(g, r, s)
      BY <2>3 DEF Overflown
    <2>4. CASE Forwarded(g, r, s)
      BY <1>2, <2>4, ConcatEmptySeq, EmptySeq DEF Forwarded
    <2>5. QED
      BY <2>1, <2>2, <2>3, <2>4 DEF SoundReader
  <1>5. PICK y \in Seq(Units) : s = P \o y
    BY <1>4
  <1> HIDE DEF P, x
  <1>6. s = g \o (x \o y) /\ x \o y \in Seq(Units)
    BY <1>2, <1>5, UnitsAssociative
  <1>7. QED
    BY <1>2, <1>3, <1>6, CleanPrefix, PrefixSub

LEMMA SelfPrefix == \A s \in Seq(Units) : IsPrefix(s, s)
  BY DEF IsPrefix

(***************************************************************************)
(* The verdict that OutputFilter sees.                                     *)
(***************************************************************************)
Outcome == IF verdicts = <<>> THEN "none" ELSE Last(verdicts)

LEMMA OutcomeForm ==
    ASSUME NEW g, NEW r, NEW s, SoundReader(g, r, s)
    PROVE  \/ r.verdicts = <<>>
           \/ /\ r.done
              /\ \E v \in {"allowed", "guardrail", "overflow"} :
                    r.verdicts = <<v>> /\ (v = "allowed" => Clean(s))
  BY DEF SoundReader, Live, Blocked, Overflown, Forwarded, Halted

LEMMA FilterStep ==
    ASSUME SInv, SInv', Next
    PROVE  \/ Filter!Next
           \/ UNCHANGED <<sent, got, Outcome>>
  <1>1. CASE EndOfStream \/ Close
    BY <1>1 DEF EndOfStream, Close, Outcome
  <1>2. CASE Read \/ ReadLast \/ ReadError \/ Deliver
    <2>0. /\ got \in Seq(Units) /\ sent \in Seq(Units) /\ SoundReader(got, Reader, sent)
          /\ got' \in Seq(Units) /\ Reader' \in Readers /\ SoundReader(got', Reader', sent')
      BY DEF SInv
    <2>1. Clean(got') /\ IsPrefix(got', sent')
      BY <2>0, GivenClean
    <2>2. IsPrefix(sent, sent') /\ IsPrefix(got, got')
      <3>1. CASE Deliver
        BY <2>0, <3>1, DeliverKeeps, SelfPrefix DEF Deliver
      <3>2. CASE Read \/ ReadLast \/ ReadError
        <4>1. PICK c \in Chunks : sent' = sent \o c
          BY <3>2 DEF Read, ReadLast, ReadError
        <4>2. c \in Seq(Units) /\ got' = got
          BY <3>2, ChunkForm DEF Read, ReadLast, ReadError
        <4>3. QED
          BY <2>0, <4>1, <4>2, SelfPrefix, PrefixSub
      <3>3. QED
        BY <1>2, <3>1, <3>2
    <2>3. \A v : Last(<<v>>) = v /\ <<v>> # <<>>
      BY DEF Last
    <2>4. /\ Outcome' \in {"allowed", "guardrail", "overflow", "none"}
          /\ Outcome' = "allowed" => Clean(sent')
      <3>1. Reader'.verdicts = verdicts'
        BY DEF Reader
      <3>2. \/ verdicts' = <<>>
            \/ \E v \in {"allowed", "guardrail", "overflow"} :
                  verdicts' = <<v>> /\ (v = "allowed" => Clean(sent'))
        BY <2>0, <3>1, OutcomeForm
      <3>3. CASE verdicts' = <<>>
        BY <3>3 DEF Outcome
      <3>4. CASE verdicts' # <<>>
        <4>1. PICK v \in {"allowed", "guardrail", "overflow"} :
                 verdicts' = <<v>> /\ (v = "allowed" => Clean(sent'))
          BY <3>2, <3>4
        <4>2. Outcome' = v
          BY <2>3, <3>4, <4>1 DEF Outcome
        <4>3. QED
          BY <4>1, <4>2
      <3>5. QED
        BY <3>3, <3>4
    <2>5. Outcome # "none" => UNCHANGED <<sent, Outcome>>
      <3>1. Outcome # "none" => verdicts # <<>>
        BY DEF Outcome
      <3>2. verdicts # <<>> => done
        BY <2>0, ReaderFields, OutcomeForm
      <3>3. done => Deliver
        BY <1>2 DEF Read, ReadLast, ReadError, Reading
      <3>4. Deliver => UNCHANGED <<sent, Outcome>>
        BY DEF Deliver, Outcome
      <3>5. QED
        BY <3>1, <3>2, <3>3, <3>4
    <2>6. Filter!Grow
      BY <2>1, <2>2 DEF Filter!Grow, Filter!IsPrefix, IsPrefix
    <2>7. Filter!Next
      BY <2>1, <2>4, <2>5, <2>6 DEF Filter!Next, Outcome
    <2>8. QED
      BY <2>7
  <1>3. QED
    BY <1>1, <1>2 DEF Next

(***************************************************************************)
(* Stream implements OutputFilter: what the agent has only grows, is a     *)
(* prefix of what was sent, is matched by no rule, neither as it is nor as *)
(* the strings of its events one after the other, and a verdict is final.  *)
(***************************************************************************)
THEOREM FilterHolds == Spec => ImplementsFilter
  <1>1. Init => Filter!Init
    BY DEF Init, Filter!Init
  <1>2. SInv /\ SInv' /\ [Next]_vars => [Filter!Next]_<<sent, got, Outcome>>
    <2>1. UNCHANGED vars => UNCHANGED <<sent, got, Outcome>>
      BY DEF vars, Outcome
    <2>2. QED
      BY <2>1, FilterStep
  <1>3. QED
    BY <1>1, <1>2, SInvHolds, PTL DEF Spec, ImplementsFilter, Filter!Spec, Outcome
=============================================================================
