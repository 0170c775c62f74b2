--------------------------- MODULE PostureProofs ---------------------------
(***************************************************************************)
(* What Summarize makes of the records of one subject, read off their      *)
(* positions: that of one of them, the last one's result if their times    *)
(* are in order, and the youngest one's if all have a usable time.         *)
(***************************************************************************)
EXTENDS Posture, WellFoundedInduction, TLAPS

Less == {mn \in Nat \X Nat : mn[1] < mn[2]}

(***************************************************************************)
(* Induction along a sequence.                                             *)
(***************************************************************************)
LEMMA UpTo ==
    ASSUME NEW N \in Nat, NEW G, 0 \in G, \A n \in 0..N : n < N /\ n \in G => n + 1 \in G
    PROVE  0..N \subseteq G
  <1> DEFINE Bad == (0..N) \ G
  <1>1. ASSUME Bad # {} PROVE FALSE
    <2>1. IsWellFoundedOn(Less, Nat)
      BY NatLessThanWellFounded DEF OpToRel, Less
    <2>2. Bad \subseteq Nat
      OBVIOUS
    <2> HIDE DEF Bad
    <2>3. PICK b \in Bad : \A h \in Bad : <<h, b>> \notin Less
      BY <1>1, <2>1, <2>2, WFMin, Zenon
    <2>4. b \in 0..N /\ b \notin G
      BY DEF Bad
    <2>5. b - 1 \in 0..N /\ b - 1 < N /\ b - 1 < b /\ (b - 1) + 1 = b
      BY <2>4
    <2>6. b - 1 \in G
      <3>1. <<b - 1, b>> \in Less
        BY <2>4, <2>5 DEF Less
      <3>2. b - 1 \notin Bad
        BY <2>3, <3>1
      <3>3. QED
        BY <2>5, <3>2 DEF Bad
    <2>7. QED
      BY <2>4, <2>5, <2>6
  <1>2. QED
    BY <1>1

(***************************************************************************)
(* A value that is carried along a sequence exists.                        *)
(***************************************************************************)
Follows(f, T, n) == f[n] = T[n][f[n - 1]]
Carries(f, T, x, N, X) ==
    f \in [0..N -> X] /\ f[0] = x /\ \A n \in 1..N : Follows(f, T, n)

LEMMA Carried ==
    ASSUME NEW N \in Nat, NEW X, NEW x \in X, NEW T \in [1..N -> [X -> X]]
    PROVE  \E f : Carries(f, T, x, N, X)
  <1> DEFINE Good(f, m) == f[0] = x /\ \A n \in 1..m : Follows(f, T, n)
             G == {m \in 0..N : \E f \in [0..N -> X] : Good(f, m)}
  <1>1. 0 \in G
    <2> DEFINE g == [n \in 0..N |-> x]
    <2>1. g \in [0..N -> X] /\ g[0] = x
      OBVIOUS
    <2> HIDE DEF g
    <2>2. Good(g, 0)
      BY <2>1
    <2>3. 0 \in 0..N
      OBVIOUS
    <2>4. QED
      BY <2>1, <2>2, <2>3
  <1>2. ASSUME NEW m \in 0..N, m < N, m \in G PROVE m + 1 \in G
    <2>1. PICK f \in [0..N -> X] : Good(f, m)
      BY <1>2
    <2>2. m + 1 \in 1..N /\ m + 1 \in 0..N /\ (m + 1) - 1 = m
      BY <1>2
    <2> DEFINE g == [f EXCEPT ![m + 1] = T[m + 1][f[m]]]
    <2>3. g \in [0..N -> X]
      BY <2>2
    <2>4. g[m + 1] = T[m + 1][f[m]] /\ \A n \in 0..N : n # m + 1 => g[n] = f[n]
      BY <2>2
    <2> HIDE DEF g
    <2>5. g[0] = x
      BY <2>1, <2>2, <2>4
    <2>6. ASSUME NEW n \in 1..m + 1 PROVE Follows(g, T, n)
      <3>1. n - 1 \in 0..N /\ n - 1 # m + 1 /\ n \in 0..N
        BY <2>2, <2>6
      <3>2. g[n - 1] = f[n - 1]
        BY <2>4, <3>1
      <3>3. CASE n = m + 1
        BY <2>2, <2>4, <3>2, <3>3 DEF Follows
      <3>4. CASE n # m + 1
        <4>1. n \in 1..m
          BY <2>6, <3>4
        <4>2. f[n] = T[n][f[n - 1]]
          BY <2>1, <4>1 DEF Follows
        <4>3. QED
          BY <2>4, <3>1, <3>2, <3>4, <4>2 DEF Follows
      <3>5. QED
        BY <3>3, <3>4
    <2>7. Good(g, m + 1)
      BY <2>5, <2>6
    <2>8. QED
      BY <2>2, <2>3, <2>7
  <1>3. 0..N \subseteq G
    <2> HIDE DEF G
    <2>1. QED
      BY <1>1, <1>2, UpTo
  <1>4. PICK f \in [0..N -> X] : Good(f, N)
    BY <1>3
  <1>5. QED
    BY <1>4 DEF Carries

----------------------------------------------------------------------------
(* One subject                                                             *)

IsRecordOf(S) == \A r \in S : r.result \in Results /\ r.at \in Nat
Knowledge == [status : Results \cup {"unseen"}, at : Nat]

Speaks(r, c, s) == r.control = c /\ r.subject = s
About(records, c, s) == {i \in 1..Len(records) : Speaks(records[i], c, s)}

KnownStep(f, records, c, s, n) ==
    IF n = 0 THEN Unseen
    ELSE IF records[n].control = c /\ records[n].subject = s
         THEN Observe(f[n - 1], records[n])
         ELSE f[n - 1]
IsKnown(f, records, c, s) ==
    f = [n \in 0..Len(records) |-> KnownStep(f, records, c, s, n)]

LEMMA ObserveType ==
    ASSUME NEW x \in Knowledge, NEW r, r.result \in Results, r.at \in Nat
    PROVE  Observe(x, r) \in Knowledge
  BY DEF Observe, Knowledge

(***************************************************************************)
(* What is known is carried along the records.                             *)
(***************************************************************************)
LEMMA KnownExists ==
    ASSUME NEW S, IsRecordOf(S), NEW records \in Seq(S), NEW c, NEW s
    PROVE  \E f : /\ IsKnown(f, records, c, s)
                  /\ SubjectStatus(records, c, s) = f[Len(records)].status
  <1> DEFINE N == Len(records)
             T == [n \in 1..N |-> [x \in Knowledge |->
                      IF Speaks(records[n], c, s) THEN Observe(x, records[n]) ELSE x]]
  <1>1. N \in Nat /\ \A n \in 1..N : records[n] \in S
    OBVIOUS
  <1>2. Unseen \in Knowledge
    BY DEF Unseen, Knowledge, Unusable
  <1>3. T \in [1..N -> [Knowledge -> Knowledge]]
    <2>1. ASSUME NEW n \in 1..N
          PROVE  T[n] \in [Knowledge -> Knowledge]
      <3>1. records[n].result \in Results /\ records[n].at \in Nat
        BY <1>1 DEF IsRecordOf
      <3>2. \A x \in Knowledge : Observe(x, records[n]) \in Knowledge
        BY <3>1, ObserveType
      <3>3. QED
        BY <3>2
    <2>2. QED
      BY <2>1
  <1> HIDE DEF N
  <1>4. PICK f \in [0..N -> Knowledge] :
            f[0] = Unseen /\ \A n \in 1..N : Follows(f, T, n)
    <2> DEFINE x == Unseen
    <2> HIDE DEF T, x
    <2>1. x \in Knowledge
      BY <1>2 DEF x
    <2>2. \E f : Carries(f, T, x, N, Knowledge)
      BY <1>1, <1>3, <2>1, Carried
    <2>3. QED
      BY <2>2 DEF x, Carries
  <1>5. ASSUME NEW n \in 0..N PROVE f[n] = KnownStep(f, records, c, s, n)
    <2>1. CASE n = 0
      BY <1>4, <2>1 DEF KnownStep
    <2>2. CASE n # 0
      <3>1. n \in 1..N /\ n - 1 \in 0..N
        BY <1>1, <2>2
      <3>2. f[n] = T[n][f[n - 1]] /\ f[n - 1] \in Knowledge
        BY <1>4, <2>2, <3>1 DEF Follows
      <3>3. QED
        BY <2>2, <3>1, <3>2 DEF KnownStep, Speaks
    <2>3. QED
      BY <2>1, <2>2
  <1>6. IsKnown(f, records, c, s)
    <2>1. f = [n \in 0..N |-> f[n]]
      BY <1>4
    <2>2. QED
      BY <1>5, <2>1 DEF IsKnown, N
  <1> DEFINE k == CHOOSE g : IsKnown(g, records, c, s)
  <1>7. IsKnown(k, records, c, s)
    BY <1>6
  <1>8. SubjectStatus(records, c, s) = k[Len(records)].status
    BY DEF SubjectStatus, IsKnown, KnownStep
  <1>9. QED
    BY <1>7, <1>8

(***************************************************************************)
(* A subject has the status of one of its records.                         *)
(***************************************************************************)
LEMMA SpokenFor ==
    ASSUME NEW S, IsRecordOf(S), NEW recs \in Seq(S), NEW c, NEW s, About(recs, c, s) # {}
    PROVE  \E i \in About(recs, c, s) : SubjectStatus(recs, c, s) = recs[i].result
  <1> DEFINE N == Len(recs)
             P == About(recs, c, s)
  <1>1. PICK f : /\ IsKnown(f, recs, c, s)
                 /\ SubjectStatus(recs, c, s) = f[N].status
    BY KnownExists
  <1>2. N \in Nat
    OBVIOUS
  <1>3. P \subseteq 1..N /\ \A n \in 1..N : n \in P <=> Speaks(recs[n], c, s)
    BY DEF About
  <1>4. \A n \in 0..N : f[n] = KnownStep(f, recs, c, s, n)
    BY <1>1 DEF IsKnown
  <1> DEFINE Some(n) == \E i \in P : f[n].status = recs[i].result
             None(n) == f[n] = Unseen /\ \A i \in P : i > n
             G == {n \in 0..N : Some(n) \/ None(n)}
  <1> HIDE DEF N, P
  <1>5. 0 \in G
    <2>1. f[0] = Unseen
      BY <1>2, <1>4 DEF KnownStep
    <2>2. QED
      BY <1>2, <1>3, <2>1
  <1>6. ASSUME NEW n \in 0..N, n < N, n \in G PROVE n + 1 \in G
    <2>1. n + 1 \in 1..N /\ n + 1 \in 0..N /\ (n + 1) - 1 = n /\ n + 1 # 0
      BY <1>2, <1>6
    <2>2. f[n + 1] = IF n + 1 \in P THEN Observe(f[n], recs[n + 1]) ELSE f[n]
      BY <1>3, <1>4, <2>1 DEF KnownStep, Speaks
    <2>3. CASE n + 1 \in P
      <3>1. \/ f[n + 1].status = recs[n + 1].result
            \/ f[n + 1] = f[n] /\ ~None(n)
        BY <2>2, <2>3 DEF Observe, Supersedes, Unseen, UnusableTime
      <3>2. QED
        BY <1>6, <2>1, <2>3, <3>1
    <2>4. CASE n + 1 \notin P
      <3>1. None(n) => \A i \in P : i > n + 1
        BY <1>2, <1>3, <2>1, <2>4
      <3>2. QED
        BY <1>6, <2>1, <2>2, <2>4, <3>1
    <2>5. QED
      BY <2>3, <2>4
  <1>7. N \in G
    <2> HIDE DEF G
    <2>1. 0..N \subseteq G
      BY <1>2, <1>5, <1>6, UpTo
    <2>2. QED
      BY <1>2, <2>1
  <1>8. ~None(N)
    <2>1. PICK i : i \in P
      BY DEF P
    <2>2. QED
      BY <1>2, <1>3, <2>1
  <1>9. QED
    BY <1>1, <1>7, <1>8 DEF P

(***************************************************************************)
(* A subject all of whose records are satisfied is satisfied, in whatever  *)
(* order they come.                                                        *)
(***************************************************************************)
LEMMA AllSatisfied ==
    ASSUME NEW S, IsRecordOf(S), NEW records \in Seq(S), NEW c, NEW s,
           About(records, c, s) # {},
           \A i \in About(records, c, s) : records[i].result = "satisfied"
    PROVE  SubjectStatus(records, c, s) = "satisfied"
  BY SpokenFor

(***************************************************************************)
(* Where the records of a subject are in the order of their usable times,  *)
(* the last one decides.                                                   *)
(***************************************************************************)
Orderly(a, b) == UnusableTime(a.at) \/ UnusableTime(b.at) \/ a.at <= b.at
InTurn(records, c, s) ==
    \A i, k \in About(records, c, s) :
        /\ i < k
        /\ \A m \in About(records, c, s) : m <= i \/ k <= m
        => Orderly(records[i], records[k])

LEMMA LatestWins ==
    ASSUME NEW S, IsRecordOf(S), NEW records \in Seq(S), NEW c, NEW s,
           InTurn(records, c, s),
           NEW k \in About(records, c, s), \A m \in About(records, c, s) : m <= k
    PROVE  SubjectStatus(records, c, s) = records[k].result
  <1> DEFINE N == Len(records)
             P == About(records, c, s)
  <1>1. PICK f : /\ IsKnown(f, records, c, s)
                 /\ SubjectStatus(records, c, s) = f[N].status
    BY KnownExists
  <1>2. N \in Nat /\ \A n \in 1..N : records[n] \in S
    OBVIOUS
  <1>3. P \subseteq 1..N /\ \A n \in 1..N : n \in P <=> Speaks(records[n], c, s)
    BY DEF About
  <1>4. \A n \in 0..N : f[n] = KnownStep(f, records, c, s, n)
    BY <1>1 DEF IsKnown
  <1>5. \A i, j \in P : i < j /\ (\A m \in P : m <= i \/ j <= m)
                        => Orderly(records[i], records[j])
    BY DEF InTurn
  <1>6. k \in P /\ \A m \in P : m <= k
    OBVIOUS
  <1> DEFINE Told(i) == [status |-> records[i].result, at |-> records[i].at]
             IsLast(i, n) == i \in P /\ i <= n /\ \A m \in P : m <= i \/ m > n
             Some(n) == \E i \in 1..N : IsLast(i, n) /\ f[n] = Told(i)
             None(n) == f[n] = Unseen /\ \A i \in P : i > n
             G == {n \in 0..N : Some(n) \/ None(n)}
  <1> HIDE DEF N, P
  <1>7. 0 \in G
    <2>1. f[0] = Unseen
      BY <1>2, <1>4 DEF KnownStep
    <2>2. QED
      BY <1>2, <1>3, <2>1
  <1>8. ASSUME NEW n \in 0..N, n < N, n \in G PROVE n + 1 \in G
    <2>1. n + 1 \in 1..N /\ n + 1 \in 0..N /\ (n + 1) - 1 = n /\ n + 1 # 0
      BY <1>2, <1>8
    <2>2. f[n + 1] = IF n + 1 \in P THEN Observe(f[n], records[n + 1]) ELSE f[n]
      BY <1>3, <1>4, <2>1 DEF KnownStep, Speaks
    <2>3. CASE n + 1 \in P
      <3>1. ASSUME None(n) PROVE Supersedes(f[n], records[n + 1])
        BY <3>1 DEF Supersedes, Unseen, UnusableTime
      <3>2. ASSUME Some(n) PROVE Supersedes(f[n], records[n + 1])
        <4>1. PICK i \in 1..N : IsLast(i, n) /\ f[n] = Told(i)
          BY <3>2
        <4>2. i < n + 1 /\ \A m \in P : m <= i \/ n + 1 <= m
          BY <1>2, <1>3, <2>1, <4>1
        <4>3. Orderly(records[i], records[n + 1])
          BY <1>5, <2>3, <4>1, <4>2
        <4>4. f[n].at = records[i].at
          BY <4>1
        <4>5. records[i].at \in Nat /\ records[n + 1].at \in Nat
          BY <1>2, <2>1 DEF IsRecordOf
        <4>6. QED
          BY <4>3, <4>4, <4>5 DEF Orderly, Supersedes
      <3>3. Supersedes(f[n], records[n + 1])
        BY <1>8, <3>1, <3>2
      <3>4. f[n + 1] = Told(n + 1)
        BY <2>2, <2>3, <3>3 DEF Observe
      <3>5. IsLast(n + 1, n + 1)
        BY <1>2, <1>3, <2>1, <2>3
      <3>6. QED
        BY <2>1, <3>4, <3>5
    <2>4. CASE n + 1 \notin P
      <3>1. f[n + 1] = f[n]
        BY <2>2, <2>4
      <3>2. \A m \in P : m > n => m > n + 1
        BY <1>2, <1>3, <2>1, <2>4
      <3>3. None(n) => None(n + 1)
        BY <3>1, <3>2
      <3>4. ASSUME NEW i \in 1..N, IsLast(i, n) PROVE IsLast(i, n + 1)
        BY <1>2, <2>1, <3>2, <3>4
      <3>5. QED
        BY <1>8, <2>1, <3>1, <3>3, <3>4
    <2>5. QED
      BY <2>3, <2>4
  <1>9. N \in G
    <2> HIDE DEF G
    <2>1. N \in Nat
      BY <1>2
    <2>2. 0..N \subseteq G
      BY <1>7, <1>8, <2>1, UpTo
    <2>3. QED
      BY <2>1, <2>2
  <1>10. k \in 1..N
    BY <1>3, <1>6
  <1>11. ~None(N)
    BY <1>2, <1>6, <1>10
  <1>12. PICK i \in 1..N : IsLast(i, N) /\ f[N] = Told(i)
    BY <1>9, <1>11
  <1>13. i = k
    BY <1>2, <1>3, <1>6, <1>10, <1>12
  <1>14. QED
    BY <1>1, <1>12, <1>13

(***************************************************************************)
(* Where all its times are usable, that of the youngest, the last of equals.*)
(***************************************************************************)
Youngest(recs, c, s, k) ==
    \A j \in About(recs, c, s) :
        recs[j].at < recs[k].at \/ (recs[j].at = recs[k].at /\ j <= k)

LEMMA YoungestWins ==
    ASSUME NEW S, IsRecordOf(S), NEW recs \in Seq(S), NEW c, NEW s,
           NEW k \in About(recs, c, s), Youngest(recs, c, s, k),
           \A i \in About(recs, c, s) : ~UnusableTime(recs[i].at)
    PROVE  SubjectStatus(recs, c, s) = recs[k].result
  <1> DEFINE N == Len(recs)
             P == About(recs, c, s)
  <1>0. k \in 1..N /\ N \in Nat
    BY DEF About
  <1>1. PICK f : /\ IsKnown(f, recs, c, s)
                 /\ SubjectStatus(recs, c, s) = f[N].status
    BY KnownExists
  <1>2. N \in Nat /\ \A n \in 1..N : recs[n].at \in Nat
    BY DEF IsRecordOf
  <1>3. P \subseteq 1..N /\ \A n \in 1..N : n \in P <=> Speaks(recs[n], c, s)
    BY DEF About
  <1>4. \A n \in 0..N : f[n] = KnownStep(f, recs, c, s, n)
    BY <1>1 DEF IsKnown
  <1>5. /\ k \in P /\ \A i \in P : recs[i].at # 0
        /\ \A j \in P : recs[j].at < recs[k].at \/ (recs[j].at = recs[k].at /\ j <= k)
    BY DEF UnusableTime, Unusable, Youngest
  <1> DEFINE Held(n) == IF n < k THEN f[n].at \in Nat /\ f[n].at <= recs[k].at
                        ELSE f[n] = [status |-> recs[k].result, at |-> recs[k].at]
             G == {n \in 0..N : Held(n)}
  <1> HIDE DEF N, P
  <1>6. 0 \in G
    <2>0. 0 \in 0..N
      BY <1>2
    <2>1. f[0] = Unseen
      BY <1>4, <2>0 DEF KnownStep
    <2>2. 0 < k
      BY <1>0
    <2>3. f[0].at = 0
      BY <2>1 DEF Unseen, Unusable
    <2>4. recs[k].at \in Nat
      BY <1>0, <1>2
    <2>5. Held(0)
      BY <2>2, <2>3, <2>4
    <2>6. QED
      BY <2>0, <2>5
  <1>7. ASSUME NEW n \in 0..N, n < N, n \in G PROVE n + 1 \in G
    <2>1. n + 1 \in 1..N /\ n + 1 \in 0..N /\ (n + 1) - 1 = n /\ n + 1 # 0 /\ k \in 1..N
      BY <1>0, <1>7
    <2>2. f[n + 1] = IF n + 1 \in P THEN Observe(f[n], recs[n + 1]) ELSE f[n]
      BY <1>3, <1>4, <2>1 DEF KnownStep, Speaks
    <2>3. recs[n + 1].at \in Nat /\ recs[k].at \in Nat
      BY <1>2, <2>1
    <2>4. CASE n + 1 < k
      <3>1. n < k /\ f[n].at \in Nat /\ f[n].at <= recs[k].at
        BY <1>7, <2>1, <2>4
      <3>2. n + 1 \in P => recs[n + 1].at <= recs[k].at
        BY <1>5, <2>3
      <3>3. f[n + 1].at \in {f[n].at, recs[n + 1].at}
            /\ (f[n + 1].at # f[n].at => n + 1 \in P)
        BY <2>2 DEF Observe
      <3>4. QED
        BY <2>1, <2>3, <2>4, <3>1, <3>2, <3>3
    <2>5. CASE n + 1 = k
      <3>1. n < k /\ f[n].at \in Nat /\ f[n].at <= recs[n + 1].at
        BY <1>7, <2>1, <2>5
      <3>2. Supersedes(f[n], recs[n + 1])
        BY <2>3, <3>1 DEF Supersedes
      <3>3. f[n + 1] = [status |-> recs[k].result, at |-> recs[k].at]
        BY <1>5, <2>2, <2>5, <3>2 DEF Observe
      <3>4. ~(n + 1 < k)
        BY <2>1, <2>5
      <3>5. QED
        BY <2>1, <3>3, <3>4
    <2>6. CASE n + 1 > k
      <3>1. ~(n < k) /\ ~(n + 1 < k) /\ ~(n + 1 <= k)
        BY <2>1, <2>6
      <3>2. f[n] = [status |-> recs[k].result, at |-> recs[k].at]
        BY <1>7, <3>1
      <3>3. ASSUME n + 1 \in P PROVE ~Supersedes(f[n], recs[n + 1])
        <4>1. recs[n + 1].at < recs[k].at /\ recs[n + 1].at # 0 /\ recs[k].at # 0
          BY <1>5, <3>1, <3>3
        <4>2. QED
          BY <2>3, <3>2, <4>1 DEF Supersedes, UnusableTime, Unusable
      <3>4. f[n + 1] = f[n]
        BY <2>2, <3>3 DEF Observe
      <3>5. QED
        BY <2>1, <3>1, <3>2, <3>4
    <2>7. QED
      BY <2>1, <2>4, <2>5, <2>6
  <1>8. N \in G
    <2> HIDE DEF G
    <2>1. 0..N \subseteq G
      BY <1>2, <1>6, <1>7, UpTo
    <2>2. QED
      BY <1>2, <2>1
  <1>9. ~(N < k)
    BY <1>0
  <1>10. QED
    BY <1>1, <1>8, <1>9
=============================================================================
